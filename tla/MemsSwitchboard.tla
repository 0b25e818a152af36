-------------------------- MODULE MemsSwitchboard --------------------------
(***************************************************************************)
(* What the MEMS router promises, one command at a time: a request for a   *)
(* route turns the route's switches one after the other and is answered    *)
(* when the last one is turned, a request for a switch turns it alone, a   *)
(* request to report names the routes all of whose switches are in         *)
(* position, or the position of one switch, and a power cycle at any point *)
(* forgets every position.                                                 *)
(***************************************************************************)
EXTENDS Integers, Sequences

CONSTANTS
    Switches,
    Addressable,    \* the switches that requests can name
    Table       \* the routes, in the order of their definition

VARIABLES
    position,   \* of every switch: "A", "B" or "U" (unknown)
    call,       \* "idle", "set" or "answered"
    route,      \* the route being set, 0 if none: its index in Table
    todo,       \* the steps not yet taken
    answer      \* the answer of a call that has been answered

vars == <<position, call, route, todo, answer>>

States  == {"A", "B"}
Unknown == [s \in Switches |-> "U"]

\* An answer names routes by their indices in Table.
Nothing     == [kind |-> "none", routes |-> {}]
Reply(kind) == [kind |-> kind, routes |-> {}]

InPosition(pos, r) == \A i \in 1..Len(r.steps) : pos[r.steps[i].switch] = r.steps[i].state
ActiveRoutes(pos) == {i \in 1..Len(Table) : InPosition(pos, Table[i])}

Init ==
    /\ position = Unknown
    /\ call = "idle" /\ route = 0 /\ todo = <<>> /\ answer = Nothing

\* A request for a route of the table.
Begin ==
    /\ call = "idle"
    /\ call' = "set"
    /\ route' \in 1..Len(Table)
    /\ todo' = Table[route'].steps
    /\ UNCHANGED <<position, answer>>

\* A request for one switch.
BeginSwitch ==
    /\ call = "idle"
    /\ call' = "set"
    /\ \E s \in Addressable, x \in States : todo' = <<[switch |-> s, state |-> x]>>
    /\ UNCHANGED <<position, route, answer>>

\* A switch takes its position; the last one completes the request.
Turn ==
    /\ call = "set"
    /\ todo # <<>>
    /\ position' = [position EXCEPT ![Head(todo).switch] = Head(todo).state]
    /\ todo' = Tail(todo)
    /\ IF todo' = <<>> THEN call' = "answered" /\ answer' = Reply("OK")
                       ELSE UNCHANGED <<call, answer>>
    /\ UNCHANGED route

\* A request for something that is not a route or a switch.
Refuse ==
    /\ call = "idle"
    /\ call' = "answered" /\ answer' = Reply("error")
    /\ UNCHANGED <<position, route, todo>>

\* The routes in position; none while there is no expander.
Report ==
    /\ call = "idle"
    /\ call' = "answered"
    /\ answer' = [kind |-> "routes", routes |-> ActiveRoutes(position)]
    /\ UNCHANGED <<position, route, todo>>

\* The position of one switch, known or not.
ReportSwitch ==
    /\ call = "idle"
    /\ call' = "answered"
    /\ \E s \in Addressable :
          answer' = [kind |-> "switch", routes |-> {}, switch |-> s, state |-> position[s]]
    /\ UNCHANGED <<position, route, todo>>

Return ==
    /\ call = "answered"
    /\ call' = "idle" /\ route' = 0 /\ answer' = Nothing
    /\ UNCHANGED <<position, todo>>

PowerCycle ==
    /\ position' = Unknown
    /\ call' = "idle" /\ route' = 0 /\ todo' = <<>> /\ answer' = Nothing

Next ==
    \/ Begin \/ BeginSwitch \/ Turn \/ Refuse
    \/ Report \/ ReportSwitch \/ Return
    \/ PowerCycle

Spec == Init /\ [][Next]_vars

=============================================================================
