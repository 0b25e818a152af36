---------------------------- MODULE MemsDevices ----------------------------
(***************************************************************************)
(* The switches and the route table of devices.c.  The table is written    *)
(* out twice there, once for each side; here the side is a parameter, and  *)
(* a name like "yj_cal_laser" is the pair of its side and the rest.        *)
(***************************************************************************)
EXTENDS Sequences

Sides == {"yj", "hk"}

\* switch_names: the switches of a side.
SideSwitches(s) == {<<s, n>> : n \in {"cal_laser", "ao_fei", "forward_retro", "mm_sm"}}

\* parse_key_pair has room for names of 14 characters: the sixteen of
\* "yj_forward_retro" and "hk_forward_retro" are too many.
AddressableSwitches(s) == SideSwitches(s) \ {<<s, "forward_retro">>}

Route(s, in, out, steps) ==
    [input |-> <<s, in>>, output |-> <<s, out>>, steps |-> steps]

To(s, switch, state) == [switch |-> <<s, switch>>, state |-> state]

RetroRoutes(s) == <<
    Route(s, "1430", "ao",  <<To(s, "cal_laser", "B"), To(s, "forward_retro", "A"), To(s, "ao_fei", "A")>>),
    Route(s, "1430", "fei", <<To(s, "cal_laser", "B"), To(s, "forward_retro", "A"), To(s, "ao_fei", "B")>>) >>

\* Mutant of CalRoutes: the second route is a copy of the first but for its output.
CalRoutesCopied(s) == <<
    Route(s, "cal", "ao",  <<To(s, "cal_laser", "A"), To(s, "ao_fei", "A")>>),
    Route(s, "cal", "fei", <<To(s, "cal_laser", "A"), To(s, "ao_fei", "A")>>) >>

CalRoutes(s) == <<
    Route(s, "cal", "ao",  <<To(s, "cal_laser", "A"), To(s, "ao_fei", "A")>>),
    Route(s, "cal", "fei", <<To(s, "cal_laser", "A"), To(s, "ao_fei", "B")>>) >>

\* Mutant of LaserRoutes: a switch of the other side's table slipped in.
LaserRoutesCrossed(s) == <<
    Route(s, "laser", "ao",  <<To(s, "cal_laser", "B"), To("yj", "ao_fei", "A")>>),
    Route(s, "laser", "fei", <<To(s, "cal_laser", "B"), To(s, "ao_fei", "B")>>) >>

\* Mutant of LaserRoutes: the switch between the outputs is left out.
LaserRoutesIncomplete(s) == <<
    Route(s, "laser", "ao",  <<To(s, "cal_laser", "B")>>),
    Route(s, "laser", "fei", <<To(s, "cal_laser", "B")>>) >>

LaserRoutes(s) == <<
    Route(s, "laser", "ao",  <<To(s, "cal_laser", "B"), To(s, "ao_fei", "A")>>),
    Route(s, "laser", "fei", <<To(s, "cal_laser", "B"), To(s, "ao_fei", "B")>>) >>

PhotodiodeRoutes(s) == <<
    Route(s, "mm", "pd", <<To(s, "mm_sm", "A")>>),
    Route(s, "sm", "pd", <<To(s, "mm_sm", "B")>>) >>

SideRoutes(s) == RetroRoutes(s) \o CalRoutes(s) \o LaserRoutes(s) \o PhotodiodeRoutes(s)

AllSwitches == SideSwitches("yj") \cup SideSwitches("hk")
AllAddressable == AddressableSwitches("yj") \cup AddressableSwitches("hk")
AllRoutes   == SideRoutes("yj") \o SideRoutes("hk")

\* One side, for the runs that follow every edge of a pulse.
YjSwitches == SideSwitches("yj")
YjAddressable == AddressableSwitches("yj")
YjRoutes   == SideRoutes("yj")

=============================================================================
