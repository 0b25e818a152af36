----------------------------- MODULE MemsTable -----------------------------
(***************************************************************************)
(* The switchboard with the table of devices.c: what the entries of the    *)
(* table must satisfy together, over every position of the switches that   *)
(* requests can bring about.                                               *)
(***************************************************************************)
EXTENDS MemsSwitchboard, MemsDevices, FiniteSets

CONSTANT MEMS_ROUTER_MAX_ACTIVE_ROUTES

\* The answer of memsroute_get is a JSON object with the inputs of the active
\* routes as its keys: no input occurs twice, that is, light from one input is
\* never reported at two outputs.
DistinctInputs ==
    \A i, j \in answer.routes : Table[i].input = Table[j].input => i = j

\* At most MEMS_ROUTER_MAX_ACTIVE_ROUTES routes are reported at a time.
ActiveBound == Cardinality(answer.routes) <= MEMS_ROUTER_MAX_ACTIVE_ROUTES

\* Setting a route or a switch of one side neither makes nor breaks a route of the
\* other.
SidesIndependent ==
    [][call = "set" /\ call' # "idle" =>
        \A i \in 1..Len(Table) :
            Table[i].input[1] # (IF route = 0 THEN Head(todo).switch ELSE Table[route].input)[1] =>
                (InPosition(position, Table[i]) <=> InPosition(position', Table[i]))]_vars

=============================================================================
