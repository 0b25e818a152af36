----------------------------- MODULE MemsRouter -----------------------------
(***************************************************************************)
(* The MEMS switches and their router (mems_switching.c, devices.c), and   *)
(* the memsroute and mems requests (command.c) that the executor thread    *)
(* serves with them.  A switch is latching: a pulse on one of its two      *)
(* coils moves it, and it stays when the power goes.  The firmware only    *)
(* knows the last state it has itself commanded.                           *)
(*                                                                         *)
(* The watchdog may reset the firmware between any two writes to the GPIO  *)
(* expander, which keeps its outputs until it is configured again, and a   *)
(* write may fail: the code does not look at the results of gpio_pin_set   *)
(* and gpio_pin_configure.                                                 *)
(*                                                                         *)
(* mems_get and mems_set are exported by command.h and are modelled as     *)
(* called with a key of the form they parse, mems/name; dispatch_command   *)
(* only passes on keys that they refuse (CommandDispatch).                 *)
(***************************************************************************)
EXTENDS Integers, Sequences

CONSTANTS
    Switches,               \* names of the switches
    Addressable,            \* those whose name parse_key_pair has room for
    Table,                  \* the routes of setup_mems_switches_and_routes
    MEMS_ROUTER_MAX_ROUTES, \* size of router.routes
    MEMS_ROUTER_MAX_ROUTE_PATH, \* size of route.steps
    MaxFaults               \* bound: writes to the expander that fail

States == {"A", "B"}
Steps  == [switch : Switches, state : States]

ASSUME RouterAssumption ==
    /\ MaxFaults \in Nat
    /\ Addressable \subseteq Switches
    /\ MEMS_ROUTER_MAX_ROUTES \in Nat /\ MEMS_ROUTER_MAX_ROUTE_PATH \in Nat
    /\ Len(Table) \in Nat \ {0}
    /\ \A i \in 1..Len(Table) : Table[i].steps \in Seq(Steps)
    \* No route turns a switch twice in different directions.
    /\ \A i \in 1..Len(Table) :
          \A j, k \in 1..Len(Table[i].steps) :
              Table[i].steps[j].switch = Table[i].steps[k].switch =>
                  Table[i].steps[j].state = Table[i].steps[k].state

VARIABLES
    pc,             \* where the executor is: see Locations
    router,         \* router.routes[0 .. num_routes - 1]
    defined,        \* entries of the table that have been through define_route
    state,          \* state of every switch as recorded: "A", "B" or "U"
    route,          \* the route being set, 0 if none: its index in router
    todo,           \* what is left of the route, the step being taken first
    answer,         \* the answer of the request that has just been served
    pins,           \* expander outputs that are high, as steps
    latch,          \* position of every switch: where its mirror is
    stuck,          \* history: outputs left high by a write that failed
    lost,           \* history: switches whose last pulse did not reach them cleanly
    faults          \* faults so far

firmware == <<router, defined, state, route, todo, answer>>
hardware == <<pins, latch, stuck, lost, faults>>
vars == <<pc, firmware, hardware>>

Locations == {"boot", "setup", "idle", "step", "low", "high", "settle", "answered"}
Unknown == [s \in Switches |-> "U"]
\* An answer names routes by their indices in router.
Nothing     == [kind |-> "none", routes |-> {}]
Reply(kind) == [kind |-> kind, routes |-> {}]

\* What may be in router.routes.
Routes == {Table[i] : i \in {j \in 1..Len(Table) :
                                Len(Table[j].steps) \in 1..MEMS_ROUTER_MAX_ROUTE_PATH}}

RouterOK ==
    /\ router \in Seq(Routes)
    /\ defined \in 0..Len(Table)
    /\ pc = "setup" => defined < Len(Table)

ExecutorOK ==
    /\ pc \in Locations
    /\ state \in [Switches -> States \cup {"U"}]
    /\ todo \in Seq(Steps)
    /\ pc \in {"step", "low", "high", "settle"} <=> todo # <<>>

HardwareOK ==
    /\ pins \subseteq Steps /\ stuck \subseteq Steps
    /\ latch \in [Switches -> States]
    /\ lost \subseteq Switches
    /\ faults \in 0..MaxFaults

TypeOK == RouterOK /\ ExecutorOK /\ HardwareOK

Init ==
    /\ pc = "boot"
    /\ router = <<>> /\ defined = 0 /\ state = Unknown /\ route = 0 /\ todo = <<>> /\ answer = Nothing
    /\ pins = {}
    /\ latch \in [Switches -> States]
    /\ stuck = {} /\ lost = {} /\ faults = 0

Fault == faults < MaxFaults /\ faults' = faults + 1

----------------------------------------------------------------------------
(***************************************************************************)
(* The router.                                                             *)
(***************************************************************************)
\* mems_router_active_routes: the routes all of whose switches are recorded in
\* their state.
InPosition(r) == \A i \in 1..Len(r.steps) : state[r.steps[i].switch] = r.steps[i].state
ActiveRoutes == {i \in 1..Len(router) : InPosition(router[i])}

(***************************************************************************)
(* Writes to the expander.  A coil that is driven moves its mirror, unless *)
(* the other coil of the switch is driven too: then it may end anywhere.   *)
(***************************************************************************)
OtherCoil(step) == [switch |-> step.switch, state |-> IF step.state = "A" THEN "B" ELSE "A"]

WriteLow(step) ==
    \/ /\ pins' = pins \ {step}
       /\ stuck' = stuck \ {step}
       /\ UNCHANGED <<latch, lost, faults>>
    \/ /\ step \in pins
       /\ Fault
       /\ stuck' = stuck \cup {step}
       /\ UNCHANGED <<pins, latch, lost>>

WriteHigh(step) ==
    \/ /\ pins' = pins \cup {step}
       /\ \/ /\ OtherCoil(step) \notin pins
             /\ latch' = [latch EXCEPT ![step.switch] = step.state]
             /\ lost' = lost \ {step.switch}
          \/ /\ OtherCoil(step) \in pins
             /\ \E s \in States : latch' = [latch EXCEPT ![step.switch] = s]
             /\ lost' = lost \cup {step.switch}
       /\ UNCHANGED <<stuck, faults>>
    \/ /\ Fault
       /\ lost' = lost \cup {step.switch}
       /\ UNCHANGED <<pins, latch, stuck>>

----------------------------------------------------------------------------
(***************************************************************************)
(* Power-up: setup_mems_switches_and_routes.                               *)
(***************************************************************************)
\* Mutant of Boot: mems_switch_init leaves the state as the memory has it.
BootStateKept ==
    /\ pc = "boot"
    /\ pc' = "setup"
    /\ router' = <<>> /\ defined' = 0
    /\ pins' = {} /\ stuck' = {}
    /\ UNCHANGED <<state, route, todo, answer, latch, lost, faults>>

\* Every switch is initialised with its state unknown and both its outputs low,
\* and the router without routes.  One outage of the expander's bus may make
\* gpio_pin_configure fail for any of the outputs, which stay as they were.
Boot ==
    /\ pc = "boot"
    /\ pc' = "setup"
    /\ state' = Unknown
    /\ router' = <<>> /\ defined' = 0
    /\ \E missed \in SUBSET pins :
          /\ pins' = missed /\ stuck' = missed
          /\ IF missed = {} THEN UNCHANGED faults ELSE Fault
    /\ UNCHANGED <<route, todo, answer, latch, lost>>

\* The expander is not ready: the router stays empty, and main() goes on.
BootNotReady ==
    /\ pc = "boot"
    /\ pc' = "idle"
    /\ state' = Unknown
    /\ router' = <<>> /\ defined' = 0
    /\ UNCHANGED <<route, todo, answer, hardware>>

\* mems_router_define_route, for one route after the other: a path that is empty
\* or too long is refused, and every route once router.routes is full; the
\* caller does not look at the result.
DefineRoute ==
    /\ pc = "setup"
    /\ defined' = defined + 1
    /\ LET r == Table[defined']
       IN  router' = IF /\ Len(router) < MEMS_ROUTER_MAX_ROUTES
                        /\ Len(r.steps) \in 1..MEMS_ROUTER_MAX_ROUTE_PATH
                       THEN Append(router, r) ELSE router
    /\ pc' = IF defined' = Len(Table) THEN "idle" ELSE "setup"
    /\ UNCHANGED <<state, route, todo, answer, hardware>>

(***************************************************************************)
(* memsroute_set and mems_set.                                             *)
(***************************************************************************)
Serve(reply) ==
    /\ pc' = "answered"
    /\ answer' = reply

\* mems_router_get_route finds the route.  Which names the JSON library reads from
\* the payload, whose length the callback never sets, is left open.
SetRoute ==
    /\ pc = "idle"
    /\ route' \in 1..Len(router)
    /\ todo' = router[route'].steps
    /\ pc' = "step"
    /\ UNCHANGED <<router, defined, state, answer, hardware>>

\* mems_set, for a switch that mems_router_find_switch finds: if the expander was
\* not ready there are none, and nothing has been defined either.  route is 0.
SetSwitch ==
    /\ pc = "idle"
    /\ defined # 0
    /\ \E s \in Addressable, x \in States : todo' = <<[switch |-> s, state |-> x]>>
    /\ pc' = "step"
    /\ UNCHANGED <<router, defined, state, route, answer, hardware>>

\* The request cannot be parsed, there is no such route or switch, or a switch has
\* no such state.
Refused ==
    /\ pc = "idle"
    /\ Serve(Reply("error"))
    /\ UNCHANGED <<router, defined, state, route, todo, hardware>>

(***************************************************************************)
(* mems_switch_set_state for the step at the head of todo: low, high, low, *)
(* with a sleep of MEMS_SWITCH_PULSE_DELAY_MS after each.                  *)
(***************************************************************************)
PulseLow ==
    /\ pc = "step"
    /\ WriteLow(Head(todo))
    /\ pc' = "low"
    /\ UNCHANGED firmware

\* Mutant of PulseHigh: the control pins of the switch are swapped.
PulseHighSwapped ==
    /\ pc = "low"
    /\ WriteHigh(OtherCoil(Head(todo)))
    /\ pc' = "high"
    /\ UNCHANGED firmware

PulseHigh ==
    /\ pc = "low"
    /\ WriteHigh(Head(todo))
    /\ pc' = "high"
    /\ UNCHANGED firmware

\* Mutant of PulseRelease: the pin is left high.
PulseReleaseMissing ==
    /\ pc = "high"
    /\ pc' = "settle"
    /\ UNCHANGED <<firmware, hardware>>

PulseRelease ==
    /\ pc = "high"
    /\ WriteLow(Head(todo))
    /\ pc' = "settle"
    /\ UNCHANGED firmware

\* Mutant of Record: the loop over the route's steps ends one step early.
RecordStopsEarly ==
    /\ pc = "settle"
    /\ state' = [state EXCEPT ![Head(todo).switch] = Head(todo).state]
    /\ \/ /\ Len(todo) <= 2
          /\ todo' = <<>>
          /\ Serve(Reply("OK"))
       \/ /\ Len(todo) > 2
          /\ todo' = Tail(todo)
          /\ pc' = "step"
          /\ UNCHANGED answer
    /\ UNCHANGED <<router, defined, route, hardware>>

\* Mutant of Record: the loop goes on after the last step.
RecordGoesOn ==
    /\ pc = "settle"
    /\ state' = [state EXCEPT ![Head(todo).switch] = Head(todo).state]
    /\ todo' = Tail(todo)
    /\ pc' = "step"
    /\ UNCHANGED <<router, defined, route, answer, hardware>>

\* Mutant of Record: the state of the switch is not recorded.
RecordNothing ==
    /\ pc = "settle"
    /\ todo' = Tail(todo)
    /\ \/ /\ todo' = <<>>
          /\ Serve(Reply("OK"))
       \/ /\ todo' # <<>>
          /\ pc' = "step"
          /\ UNCHANGED answer
    /\ UNCHANGED <<router, defined, state, route, hardware>>

\* The new state is recorded; memsroute_set goes on with the next step, if any.
Record ==
    /\ pc = "settle"
    /\ state' = [state EXCEPT ![Head(todo).switch] = Head(todo).state]
    /\ todo' = Tail(todo)
    /\ \/ /\ todo' = <<>>
          /\ Serve(Reply("OK"))
       \/ /\ todo' # <<>>
          /\ pc' = "step"
          /\ UNCHANGED answer
    /\ UNCHANGED <<router, defined, route, hardware>>

(***************************************************************************)
(* memsroute_get, mems_get, and the end of every request.                  *)
(* memsroute_get also answers with an error when its buffer overflows:     *)
(* never with the table of devices.c, of which at most six routes are      *)
(* active (ActiveBound in MemsTable), 20 bytes each at most, in the 256    *)
(* of MAX_PAYLOAD_LEN.                                                     *)
(***************************************************************************)
GetRoutes ==
    /\ pc = "idle"
    /\ Serve([kind |-> "routes", routes |-> ActiveRoutes])
    /\ UNCHANGED <<router, defined, state, route, todo, hardware>>

\* A state that is unknown is reported as it is: the result of
\* mems_switch_get_state is not looked at.
GetSwitch ==
    /\ pc = "idle"
    /\ defined # 0
    /\ \E s \in Addressable :
          Serve([kind |-> "switch", routes |-> {}, switch |-> s, state |-> state[s]])
    /\ UNCHANGED <<router, defined, state, route, todo, hardware>>

\* The executor puts the answer into outbound_queue.
Answered ==
    /\ pc = "answered"
    /\ pc' = "idle"
    /\ route' = 0 /\ answer' = Nothing
    /\ UNCHANGED <<router, defined, state, todo, hardware>>

\* A reset of the controller, at any point: its memory is lost, the expander and
\* the mirrors stay as they are.
Reset ==
    /\ pc # "boot"
    /\ pc' = "boot"
    /\ route' = 0 /\ todo' = <<>> /\ answer' = Nothing
    /\ UNCHANGED <<router, defined, state, hardware>>

----------------------------------------------------------------------------
Next ==
    \/ Boot \/ BootNotReady \/ DefineRoute
    \/ SetRoute \/ SetSwitch \/ Refused
    \/ PulseLow \/ PulseHigh \/ PulseRelease \/ Record
    \/ GetRoutes \/ GetSwitch \/ Answered
    \/ Reset

Spec == Init /\ [][Next]_vars

----------------------------------------------------------------------------
(***************************************************************************)
(* Properties.                                                             *)
(***************************************************************************)
Running == pc # "boot"
Pulsed  == IF pc = "high" THEN {Head(todo)} ELSE {}

\* No coil is driven but the one whose pulse is on: not between requests, not
\* after a reset in the middle of a pulse once the switches are set up again, not
\* two at a time.  Only a write that failed leaves one on.
CoilsReleased == Running /\ router # <<>> => pins \subseteq stuck \cup Pulsed

\* What the firmware has recorded of a switch is where its mirror is, across
\* resets and half-set routes, unless its last pulse was lost; during a pulse the
\* mirror is ahead of the record.
RecordedIsLatched ==
    Running =>
        \A s \in Switches \ lost :
            \/ state[s] = "U"
            \/ state[s] = latch[s]
            \/ pc \in {"high", "settle"} /\ Head(todo).switch = s

\* memsroute_set answers OK only when every switch of the route has taken its
\* position, the ones turned first included.
RouteHonoured ==
    answer.kind = "OK" /\ route # 0 => InPosition(router[route])

\* Every route reported by memsroute_get passes light: its mirrors are in
\* position; and so is the mirror that mems_get reports, if it reports a state.
ReportsTrue ==
    /\ \A i \in answer.routes :
          \A j \in 1..Len(router[i].steps) :
              LET step == router[i].steps[j]
              IN  step.switch \in lost \/ latch[step.switch] = step.state
    /\ answer.kind = "switch" /\ answer.state # "U" =>
          answer.switch \in lost \/ latch[answer.switch] = answer.state

\* The switchboard this implements: pulses, outputs and mirrors are hidden.
Board == INSTANCE MemsSwitchboard WITH
    position <- IF pc = "boot" THEN Unknown ELSE state,
    call <- CASE pc \in {"boot", "setup", "idle"} -> "idle"
              [] pc = "answered" -> "answered"
              [] OTHER -> "set"
ImplementsSwitchboard == Board!Spec

=============================================================================
