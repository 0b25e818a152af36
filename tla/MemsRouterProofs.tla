-------------------------- MODULE MemsRouterProofs --------------------------
(***************************************************************************)
(* Proofs about MemsRouter for every set of switches, every table of       *)
(* routes and every number of failing writes.                              *)
(***************************************************************************)
EXTENDS MemsRouter, SequenceTheorems, TLAPS

----------------------------------------------------------------------------
(***************************************************************************)
(* The inductive invariant.  The coils are under control as soon as the    *)
(* switches have been set up, before the first route is defined; and from  *)
(* the edge of its pulse on, the mirror of the switch being set is where   *)
(* the record is about to say it is.                                       *)
(***************************************************************************)
SetUp == Running /\ (router # <<>> \/ pc = "setup")

CoilsHeld == SetUp => pins \subseteq stuck \cup Pulsed

PulseTaken ==
    pc \in {"high", "settle"} /\ Head(todo).switch \notin lost =>
        latch[Head(todo).switch] = Head(todo).state

Inv == TypeOK /\ CoilsHeld /\ PulseTaken /\ RecordedIsLatched

----------------------------------------------------------------------------
(***************************************************************************)
(* Facts about the steps of a route.                                       *)
(***************************************************************************)
LEMMA FirstStep ==
    ASSUME ExecutorOK, pc \in {"step", "low", "high", "settle"}
    PROVE  /\ Head(todo) \in Steps /\ Tail(todo) \in Seq(Steps)
           /\ Head(todo).switch \in Switches /\ Head(todo).state \in States
<1>1. todo \in Seq(Steps) /\ todo # <<>>
  BY DEF ExecutorOK
<1>2. Head(todo) \in Steps /\ Tail(todo) \in Seq(Steps)
  BY <1>1, HeadTailProperties
<1> QED  BY <1>2 DEF Steps

\* A defined route has the steps of an entry of the table, one at least.
LEMMA RouteSteps ==
    ASSUME RouterOK, NEW i \in 1..Len(router)
    PROVE  router[i].steps \in Seq(Steps) /\ router[i].steps # <<>>
<1>1. router[i] \in Routes
  BY ElementOfSeq DEF RouterOK
<1>2. PICK j \in 1..Len(Table) : /\ router[i] = Table[j]
                                 /\ Len(Table[j].steps) \in 1..MEMS_ROUTER_MAX_ROUTE_PATH
  BY <1>1 DEF Routes
<1>3. Table[j].steps \in Seq(Steps)
  BY RouterAssumption
<1>4. Table[j].steps # <<>>
  BY <1>2, EmptySeq, RouterAssumption
<1> QED  BY <1>2, <1>3, <1>4

\* A switch has two coils, and the opposite one belongs to the same switch.
LEMMA OtherCoilOK == \A step \in Steps : OtherCoil(step) \in Steps /\ OtherCoil(step).switch = step.switch
  BY DEF OtherCoil, Steps, States

----------------------------------------------------------------------------
\* At power-up nothing is set up and no coil is driven.
LEMMA InitInv == Init => Inv
<1> SUFFICES ASSUME Init PROVE Inv
  OBVIOUS
<1>1. RouterOK
  <2>1. <<>> \in Seq(Routes) /\ 0 \in 0..Len(Table)
    BY EmptySeq, RouterAssumption
  <2> QED  BY <2>1 DEF Init, RouterOK
<1>2. ExecutorOK
  <2>1. <<>> \in Seq(Steps)
    BY EmptySeq
  <2>2. Unknown \in [Switches -> States \cup {"U"}]
    BY DEF Unknown
  <2> QED  BY <2>1, <2>2 DEF Init, ExecutorOK, Locations
<1>3. HardwareOK
  <2>1. 0 \in 0..MaxFaults
    BY RouterAssumption
  <2> QED  BY <2>1 DEF Init, HardwareOK
<1> QED
  BY <1>1, <1>2, <1>3
  DEF Init, Inv, TypeOK, CoilsHeld, SetUp, Running, PulseTaken, RecordedIsLatched

\* Whatever is defined is an entry of the table.
LEMMA RouterStep == RouterOK /\ [Next]_vars => RouterOK'
<1> SUFFICES ASSUME RouterOK, [Next]_vars PROVE RouterOK'
  OBVIOUS
<1>1. CASE Boot \/ BootNotReady
  <2>1. router' = <<>> /\ defined' = 0
    BY <1>1 DEF Boot, BootNotReady
  <2>2. <<>> \in Seq(Routes) /\ 0 \in 0..Len(Table) /\ 0 < Len(Table)
    BY EmptySeq, RouterAssumption
  <2> QED  BY <2>1, <2>2 DEF RouterOK
<1>2. CASE DefineRoute
  <2>1. defined' = defined + 1 /\ defined' \in 1..Len(Table)
    BY <1>2, RouterAssumption DEF DefineRoute, RouterOK
  <2>2. pc' = "setup" => defined' < Len(Table)
    BY <1>2, <2>1, RouterAssumption DEF DefineRoute
  <2>3. router' \in Seq(Routes)
    <3>1. CASE router' = router
      BY <3>1 DEF RouterOK
    <3>2. CASE /\ Len(Table[defined'].steps) \in 1..MEMS_ROUTER_MAX_ROUTE_PATH
               /\ router' = Append(router, Table[defined'])
      <4>1. Table[defined'] \in Routes
        BY <2>1, <3>2 DEF Routes
      <4> QED  BY <3>2, <4>1, AppendProperties DEF RouterOK
    <3> QED  BY <1>2, <3>1, <3>2 DEF DefineRoute
  <2> QED  BY <2>1, <2>2, <2>3 DEF RouterOK
<1>3. CASE UNCHANGED <<router, defined>> /\ pc' # "setup"
  BY <1>3 DEF RouterOK
<1>4. CASE UNCHANGED <<router, defined, pc>>
  BY <1>4 DEF RouterOK
<1> QED
  BY <1>1, <1>2, <1>3, <1>4
  DEF Next, SetRoute, SetSwitch, Refused, PulseLow, PulseHigh, PulseRelease, Record, GetRoutes, GetSwitch,
      Answered, Reset, Serve, firmware, vars

\* The executor is always somewhere it knows what to do next.
LEMMA ExecutorStep == RouterOK /\ ExecutorOK /\ [Next]_vars => ExecutorOK'
<1> SUFFICES ASSUME RouterOK, ExecutorOK, [Next]_vars PROVE ExecutorOK'
  OBVIOUS
<1>1. CASE Boot \/ BootNotReady
  <2>1. state' = Unknown /\ todo' = todo /\ pc' \in {"setup", "idle"} /\ pc = "boot"
    BY <1>1 DEF Boot, BootNotReady
  <2>2. Unknown \in [Switches -> States \cup {"U"}]
    BY DEF Unknown
  <2> QED  BY <2>1, <2>2 DEF ExecutorOK, Locations
<1>2. CASE DefineRoute
  BY <1>2 DEF DefineRoute, ExecutorOK, Locations
<1>3. CASE SetRoute
  <2>1. todo' \in Seq(Steps) /\ todo' # <<>>
    BY <1>3, RouteSteps DEF SetRoute
  <2> QED  BY <1>3, <2>1 DEF SetRoute, ExecutorOK, Locations
<1>9. CASE SetSwitch
  <2>1. PICK step \in Steps : todo' = <<step>>
    BY <1>9, RouterAssumption DEF SetSwitch, Steps
  <2>2. todo' \in Seq(Steps) /\ todo' # <<>>
    BY <2>1
  <2> QED  BY <1>9, <2>2 DEF SetSwitch, ExecutorOK, Locations
<1>4. CASE Refused \/ GetRoutes \/ GetSwitch \/ Answered
  BY <1>4 DEF Refused, GetRoutes, GetSwitch, Answered, Serve, ExecutorOK, Locations
<1>5. CASE PulseLow \/ PulseHigh \/ PulseRelease
  BY <1>5 DEF PulseLow, PulseHigh, PulseRelease, firmware, ExecutorOK, Locations
<1>6. CASE Record
  <2>1. Head(todo).switch \in Switches /\ Head(todo).state \in States
    BY <1>6, FirstStep DEF Record
  <2>2. state' \in [Switches -> States \cup {"U"}]
    BY <1>6, <2>1 DEF Record, ExecutorOK
  <2>3. todo' \in Seq(Steps)
    BY <1>6, FirstStep DEF Record
  <2>4. pc' \in {"step", "answered"} /\ (pc' = "step" <=> todo' # <<>>)
    BY <1>6 DEF Record, Serve
  <2> QED  BY <2>2, <2>3, <2>4 DEF ExecutorOK, Locations
<1>7. CASE Reset
  <2>1. <<>> \in Seq(Steps)
    BY EmptySeq
  <2> QED  BY <1>7, <2>1 DEF Reset, ExecutorOK, Locations
<1>8. CASE UNCHANGED vars
  BY <1>8 DEF vars, firmware, ExecutorOK
<1> QED  BY <1>1, <1>2, <1>3, <1>4, <1>5, <1>6, <1>7, <1>8, <1>9 DEF Next

----------------------------------------------------------------------------
(***************************************************************************)
(* The hardware: what a write to the expander can do.                      *)
(***************************************************************************)
LEMMA LowTypes ==
    ASSUME HardwareOK, NEW step \in Steps, WriteLow(step)
    PROVE  HardwareOK'
<1>1. faults' \in 0..MaxFaults
  BY RouterAssumption DEF WriteLow, Fault, HardwareOK
<1>2. pins' \subseteq Steps /\ stuck' \subseteq Steps
  BY DEF WriteLow, HardwareOK
<1>3. latch' = latch /\ lost' = lost
  BY DEF WriteLow
<1> QED  BY <1>1, <1>2, <1>3 DEF HardwareOK

\* A write of a high level, taken by the expander or not.
LEMMA HighTypes ==
    ASSUME HardwareOK, NEW step \in Steps, WriteHigh(step)
    PROVE  HardwareOK'
<1>0. step.switch \in Switches /\ step.state \in States
  BY DEF Steps
<1>1. faults' \in 0..MaxFaults
  BY RouterAssumption DEF WriteHigh, Fault, HardwareOK
<1>2. pins' \subseteq Steps /\ stuck' \subseteq Steps
  BY DEF WriteHigh, HardwareOK
<1>3. lost' \subseteq Switches
  BY <1>0 DEF WriteHigh, HardwareOK
<1>4. latch' \in [Switches -> States]
  <2>1. latch' = latch \/ \E s \in States : latch' = [latch EXCEPT ![step.switch] = s]
    BY <1>0 DEF WriteHigh
  <2> QED  BY <1>0, <2>1 DEF HardwareOK
<1> QED  BY <1>1, <1>2, <1>3, <1>4 DEF HardwareOK

\* Outputs, mirrors and counted failures stay within their types.
LEMMA HardwareStep == ExecutorOK /\ HardwareOK /\ [Next]_vars => HardwareOK'
<1> SUFFICES ASSUME ExecutorOK, HardwareOK, [Next]_vars PROVE HardwareOK'
  OBVIOUS
<1>1. CASE Boot
  <2>1. faults' \in 0..MaxFaults
    BY <1>1, RouterAssumption DEF Boot, Fault, HardwareOK
  <2>2. pins' \subseteq Steps /\ stuck' \subseteq Steps
    BY <1>1 DEF Boot, HardwareOK
  <2>3. latch' = latch /\ lost' = lost
    BY <1>1 DEF Boot
  <2> QED  BY <2>1, <2>2, <2>3 DEF HardwareOK
<1>2. CASE PulseLow \/ PulseRelease
  <2>1. Head(todo) \in Steps
    BY <1>2, FirstStep DEF PulseLow, PulseRelease
  <2>2. WriteLow(Head(todo))
    BY <1>2 DEF PulseLow, PulseRelease
  <2> QED  BY <2>1, <2>2, LowTypes
<1>3. CASE PulseHigh
  <2>1. Head(todo) \in Steps
    BY <1>3, FirstStep DEF PulseHigh
  <2>2. WriteHigh(Head(todo))
    BY <1>3 DEF PulseHigh
  <2> QED  BY <2>1, <2>2, HighTypes
<1>4. CASE UNCHANGED hardware
  BY <1>4 DEF hardware, HardwareOK
<1> QED
  BY <1>1, <1>2, <1>3, <1>4
  DEF Next, BootNotReady, DefineRoute, SetRoute, SetSwitch, Refused, Record, GetRoutes, GetSwitch, Answered,
      Reset, vars

----------------------------------------------------------------------------
(***************************************************************************)
(* The coils.                                                              *)
(***************************************************************************)
LEMMA CoilsStep == TypeOK /\ CoilsHeld /\ [Next]_vars => CoilsHeld'
<1> SUFFICES ASSUME TypeOK, CoilsHeld, [Next]_vars PROVE CoilsHeld'
  OBVIOUS
<1> USE DEF CoilsHeld, SetUp, Running, Pulsed
<1>1. CASE Boot
  <2>1. pins' \subseteq stuck'
    BY <1>1 DEF Boot
  <2> QED  BY <2>1
<1>2. CASE BootNotReady
  BY <1>2 DEF BootNotReady
<1>3. CASE DefineRoute
  BY <1>3 DEF DefineRoute, hardware
<1>4. CASE PulseLow
  BY <1>4 DEF PulseLow, WriteLow, firmware
<1>5. CASE PulseHigh
  BY <1>5 DEF PulseHigh, WriteHigh, firmware
<1>6. CASE PulseRelease
  BY <1>6 DEF PulseRelease, WriteLow, firmware
<1>7. CASE SetRoute \/ SetSwitch \/ Refused \/ Record \/ GetRoutes \/ GetSwitch \/ Answered
  <2>1. UNCHANGED <<pins, stuck, router>> /\ pc \notin {"boot", "setup", "high"}
        /\ pc' \notin {"boot", "setup", "high"}
    BY <1>7 DEF SetRoute, SetSwitch, Refused, Record, GetRoutes, GetSwitch, Answered, Serve, hardware
  <2> QED  BY <2>1
<1>8. CASE Reset
  BY <1>8 DEF Reset
<1>9. CASE UNCHANGED vars
  BY <1>9 DEF vars, firmware, hardware
<1> QED  BY <1>1, <1>2, <1>3, <1>4, <1>5, <1>6, <1>7, <1>8, <1>9 DEF Next

----------------------------------------------------------------------------
(***************************************************************************)
(* The mirrors.                                                            *)
(***************************************************************************)
\* A rising edge moves the mirror or is lost; the other mirrors stay.
LEMMA HighMoves ==
    ASSUME HardwareOK, NEW step \in Steps, WriteHigh(step)
    PROVE  /\ step.switch \notin lost' => latch'[step.switch] = step.state
           /\ \A s \in Switches \ {step.switch} : latch'[s] = latch[s] /\ (s \in lost <=> s \in lost')
<1>0. step.switch \in Switches /\ step.state \in States
  BY DEF Steps
<1>1. CASE latch' = [latch EXCEPT ![step.switch] = step.state] /\ lost' = lost \ {step.switch}
  BY <1>0, <1>1 DEF HardwareOK
<1>2. ASSUME NEW x \in States, latch' = [latch EXCEPT ![step.switch] = x],
             lost' = lost \cup {step.switch}
      PROVE  /\ step.switch \in lost'
             /\ \A s \in Switches \ {step.switch} : latch'[s] = latch[s] /\ (s \in lost <=> s \in lost')
  BY <1>0, <1>2 DEF HardwareOK
<1>3. CASE latch' = latch /\ lost' = lost \cup {step.switch}
  BY <1>3
<1> QED  BY <1>1, <1>2, <1>3 DEF WriteHigh

\* From the edge of its pulse on a mirror is where the record is about to say.
LEMMA TakenStep == TypeOK /\ PulseTaken /\ [Next]_vars => PulseTaken'
<1> SUFFICES ASSUME TypeOK, PulseTaken, [Next]_vars PROVE PulseTaken'
  OBVIOUS
<1>1. CASE PulseHigh
  <2>1. Head(todo) \in Steps /\ WriteHigh(Head(todo)) /\ todo' = todo
    BY <1>1, FirstStep DEF PulseHigh, TypeOK, firmware
  <2> QED  BY <2>1, HighMoves DEF PulseTaken, TypeOK
<1>2. CASE PulseRelease
  BY <1>2 DEF PulseRelease, WriteLow, PulseTaken, firmware
<1>3. CASE pc' \notin {"high", "settle"}
  BY <1>3 DEF PulseTaken
<1>4. CASE UNCHANGED vars
  BY <1>4 DEF vars, firmware, hardware, PulseTaken
<1> QED
  BY <1>1, <1>2, <1>3, <1>4
  DEF Next, Boot, BootNotReady, DefineRoute, SetRoute, SetSwitch, Refused, PulseLow, Record, GetRoutes, GetSwitch,
      Answered, Reset, Serve

\* The record changes when the pulse has been taken, and to what it turned.
LEMMA RecordedStep == Inv /\ [Next]_vars => RecordedIsLatched'
<1> SUFFICES ASSUME Inv, [Next]_vars, Running',
                    NEW s \in Switches, s \notin lost', state'[s] # "U"
             PROVE  \/ state'[s] = latch'[s]
                    \/ pc' \in {"high", "settle"} /\ Head(todo').switch = s
  BY DEF RecordedIsLatched
<1>0. /\ RecordedIsLatched /\ PulseTaken
      /\ RouterOK /\ ExecutorOK /\ HardwareOK
  BY DEF Inv, TypeOK
<1>1. CASE Boot \/ BootNotReady
  BY <1>1 DEF Boot, BootNotReady, Unknown
<1>2. CASE PulseHigh
  <2>1. Head(todo) \in Steps /\ WriteHigh(Head(todo)) /\ UNCHANGED <<state, todo>>
        /\ pc = "low" /\ pc' = "high"
    BY <1>0, <1>2, FirstStep DEF PulseHigh, firmware
  <2>2. CASE Head(todo).switch = s
    BY <2>1, <2>2
  <2>3. CASE Head(todo).switch # s
    <3>1. latch'[s] = latch[s] /\ s \notin lost
      BY <1>0, <2>1, <2>3, HighMoves
    <3> QED  BY <1>0, <2>1, <3>1 DEF RecordedIsLatched, Running
  <2> QED  BY <2>2, <2>3
<1>3. CASE Record
  <2>1. Head(todo).switch \in Switches /\ UNCHANGED <<latch, lost>> /\ pc = "settle"
        /\ state' = [state EXCEPT ![Head(todo).switch] = Head(todo).state]
    BY <1>0, <1>3, FirstStep DEF Record, hardware
  <2>2. CASE Head(todo).switch = s
    BY <1>0, <2>1, <2>2 DEF PulseTaken, ExecutorOK
  <2>3. CASE Head(todo).switch # s
    BY <1>0, <2>1, <2>3 DEF RecordedIsLatched, Running, ExecutorOK
  <2> QED  BY <2>2, <2>3
<1>4. CASE PulseLow \/ PulseRelease
  <2>1. UNCHANGED <<state, todo, latch, lost>> /\ pc # "boot"
        /\ ((pc = "high" /\ pc' = "settle") \/ pc = "step")
    BY <1>4 DEF PulseLow, PulseRelease, WriteLow, firmware
  <2> QED  BY <1>0, <2>1 DEF RecordedIsLatched, Running
<1>5. CASE DefineRoute \/ SetRoute \/ SetSwitch \/ Refused \/ GetRoutes \/ GetSwitch \/ Answered
  <2>1. UNCHANGED <<state, latch, lost>> /\ pc \in {"setup", "idle", "answered"}
    BY <1>5 DEF DefineRoute, SetRoute, SetSwitch, Refused, GetRoutes, GetSwitch, Answered, hardware
  <2> QED  BY <1>0, <2>1 DEF RecordedIsLatched, Running
<1>6. CASE Reset
  BY <1>6 DEF Reset, Running
<1>7. CASE UNCHANGED vars
  BY <1>0, <1>7 DEF vars, firmware, hardware, RecordedIsLatched, Running
<1> QED  BY <1>1, <1>2, <1>3, <1>4, <1>5, <1>6, <1>7 DEF Next

----------------------------------------------------------------------------
\* Every reachable state satisfies the inductive invariant.
THEOREM Invariance == Spec => []Inv
<1>1. Inv /\ [Next]_vars => Inv'
  BY RouterStep, ExecutorStep, HardwareStep, CoilsStep, TakenStep, RecordedStep DEF Inv, TypeOK
<1> QED  BY InitInv, <1>1, PTL DEF Spec

\* Types; among them, that a route the executor is setting has steps left, and
\* that router.routes only holds paths of an admissible length.
THEOREM TypeCorrect == Spec => []TypeOK
<1>1. Inv => TypeOK
  BY DEF Inv
<1> QED  BY <1>1, Invariance, PTL

\* mems_switch_set_state drives one coil at a time and releases it, whichever
\* request or reset interrupts it: only a failed write leaves a coil on.
THEOREM CoilsAreReleased == Spec => []CoilsReleased
<1>1. Inv => CoilsReleased
  BY DEF Inv, CoilsHeld, SetUp, CoilsReleased
<1> QED  BY <1>1, Invariance, PTL

\* The recorded state of a switch (sw->state) is the position of its mirror unless
\* its last pulse was lost.
THEOREM RecordsAreTrue == Spec => []RecordedIsLatched
<1>1. Inv => RecordedIsLatched
  BY DEF Inv
<1> QED  BY <1>1, Invariance, PTL

----------------------------------------------------------------------------
(***************************************************************************)
(* A route is set as a whole.  Of the route being set, todo is what is     *)
(* left, and the switches of what is not left are recorded in their        *)
(* states.  This is where it matters that a route does not turn a switch   *)
(* back (RouterAssumption).                                                *)
(***************************************************************************)
InSteps == pc \in {"step", "low", "high", "settle"}

CallOK ==
    /\ pc \in {"boot", "setup", "idle"} => route = 0
    /\ pc # "answered" => answer = Nothing
    /\ route # 0 => route \in 1..Len(router)

\* How many steps have been taken.
Taken == Len(router[route].steps) - Len(todo)

Progress ==
    InSteps /\ route # 0 =>
        /\ Taken \in Nat
        /\ \A i \in 1..Len(todo) : todo[i] = router[route].steps[Taken + i]
        /\ \A i \in 1..Taken : state[router[route].steps[i].switch] = router[route].steps[i].state

RouteInv == CallOK /\ Progress /\ RouteHonoured

\* A defined route turns no switch both ways, as no entry of the table does.
LEMMA RouteConsistent ==
    ASSUME RouterOK, NEW r \in 1..Len(router)
    PROVE  \A j, k \in 1..Len(router[r].steps) :
              router[r].steps[j].switch = router[r].steps[k].switch =>
                  router[r].steps[j].state = router[r].steps[k].state
<1>1. router[r] \in Routes
  BY ElementOfSeq DEF RouterOK
<1>2. PICK i \in 1..Len(Table) : router[r] = Table[i]
  BY <1>1 DEF Routes
<1>3. \A j, k \in 1..Len(Table[i].steps) :
         Table[i].steps[j].switch = Table[i].steps[k].switch =>
             Table[i].steps[j].state = Table[i].steps[k].state
  BY RouterAssumption
<1> QED  BY <1>2, <1>3

\* What is being set is a defined route, or a single switch.
LEMMA CallStep == RouterOK /\ ExecutorOK /\ CallOK /\ [Next]_vars => CallOK'
<1> SUFFICES ASSUME RouterOK, ExecutorOK, CallOK, [Next]_vars PROVE CallOK'
  OBVIOUS
<1> USE DEF CallOK
<1>1. CASE Boot \/ BootNotReady \/ DefineRoute
  BY <1>1 DEF Boot, BootNotReady, DefineRoute
<1>2. CASE SetRoute \/ SetSwitch
  BY <1>2 DEF SetRoute, SetSwitch
<1>3. CASE Refused \/ GetRoutes \/ GetSwitch
  BY <1>3 DEF Refused, GetRoutes, GetSwitch, Serve
<1>4. CASE PulseLow \/ PulseHigh \/ PulseRelease
  BY <1>4 DEF PulseLow, PulseHigh, PulseRelease, firmware
<1>5. CASE Record
  BY <1>5 DEF Record, Serve
<1>6. CASE Answered \/ Reset
  BY <1>6 DEF Answered, Reset
<1>7. CASE UNCHANGED vars
  BY <1>7 DEF vars, firmware
<1> QED  BY <1>1, <1>2, <1>3, <1>4, <1>5, <1>6, <1>7 DEF Next

\* The step at the head of todo is the next of the route, and once it is recorded so
\* are all before it.
LEMMA RecordTakes ==
    ASSUME RouterOK, ExecutorOK, CallOK, Progress, Record, route # 0
    PROVE  /\ Taken' = Taken + 1
           /\ \A i \in 1..Len(todo') : todo'[i] = router[route].steps[Taken' + i]
           /\ \A i \in 1..Taken' :
                state'[router[route].steps[i].switch] = router[route].steps[i].state
<1> DEFINE steps == router[route].steps
<1>1. /\ route \in 1..Len(router) /\ steps \in Seq(Steps)
      /\ todo \in Seq(Steps) /\ todo # <<>>
      /\ UNCHANGED <<router, route>> /\ todo' = Tail(todo)
      /\ state' = [state EXCEPT ![Head(todo).switch] = Head(todo).state]
  BY RouteSteps DEF Record, CallOK, ExecutorOK
<1>2. /\ Taken \in Nat
      /\ \A i \in 1..Len(todo) : todo[i] = steps[Taken + i]
      /\ \A i \in 1..Taken : state[steps[i].switch] = steps[i].state
  BY DEF Record, Progress, InSteps
<1>3. /\ Len(todo) \in Nat \ {0} /\ Len(steps) \in Nat
      /\ Len(Tail(todo)) = Len(todo) - 1
      /\ \A i \in 1..Len(todo) - 1 : Tail(todo)[i] = todo[i + 1]
      /\ Head(todo) = todo[1]
  BY <1>1
<1>4. Taken' = Taken + 1 /\ Taken = Len(steps) - Len(todo)
  BY <1>1, <1>3 DEF Taken
<1>5. Taken + 1 \in 1..Len(steps) /\ Head(todo) = steps[Taken + 1]
  BY <1>2, <1>3, <1>4
<1>6. ASSUME NEW i \in 1..Len(todo') PROVE todo'[i] = steps[Taken' + i]
  <2>1. i \in 1..Len(todo) - 1 /\ i + 1 \in 1..Len(todo)
    BY <1>1, <1>3, <1>6
  <2>2. todo'[i] = todo[i + 1] /\ todo[i + 1] = steps[Taken + (i + 1)]
    BY <1>1, <1>2, <1>3, <2>1
  <2>3. i \in Int /\ Taken \in Int /\ Taken' = Taken + 1
    BY <1>2, <1>4, <2>1
  <2>4. Taken + (i + 1) = Taken' + i
    BY <2>3
  <2> QED  BY <2>2, <2>4
<1>7. ASSUME NEW i \in 1..Taken' PROVE state'[steps[i].switch] = steps[i].state
  <2>1. i \in 1..Len(steps) /\ steps[i] \in Steps
    BY <1>1, <1>2, <1>4, <1>5, <1>7, ElementOfSeq
  <2>2. steps[i].switch \in Switches /\ DOMAIN state = Switches
    BY <2>1 DEF Steps, ExecutorOK
  <2>3. CASE steps[i].switch = Head(todo).switch
    <3>1. steps[i].state = Head(todo).state
      BY <1>1, <1>5, <2>1, <2>3, RouteConsistent
    <3> QED  BY <1>1, <2>2, <2>3, <3>1
  <2>4. CASE steps[i].switch # Head(todo).switch
    <3>1. i \in 1..Taken
      BY <1>2, <1>4, <1>5, <1>7, <2>4
    <3> QED  BY <1>1, <1>2, <2>2, <2>4, <3>1
  <2> QED  BY <2>3, <2>4
<1> QED  BY <1>4, <1>6, <1>7

\* The steps of the route that are done stay recorded until the answer.
LEMMA RouteStep == RouterOK /\ ExecutorOK /\ RouteInv /\ [Next]_vars => RouteInv'
<1> SUFFICES ASSUME RouterOK, ExecutorOK, CallOK, Progress, RouteHonoured, [Next]_vars
             PROVE  Progress' /\ RouteHonoured'
  BY CallStep DEF RouteInv
<1>1. ASSUME ~InSteps', answer'.kind # "OK" \/ route' = 0 PROVE Progress' /\ RouteHonoured'
  BY <1>1 DEF Progress, RouteHonoured
<1>2. CASE Boot \/ BootNotReady \/ DefineRoute \/ Answered \/ Reset
  <2>1. ~InSteps' /\ route' = 0
    BY <1>2 DEF Boot, BootNotReady, DefineRoute, Answered, Reset, InSteps, CallOK
  <2> QED  BY <1>1, <2>1
<1>3. CASE Refused \/ GetRoutes \/ GetSwitch
  <2>1. ~InSteps' /\ route' = 0
    BY <1>3 DEF Refused, GetRoutes, GetSwitch, Serve, InSteps, CallOK
  <2> QED  BY <1>1, <2>1
<1>4. CASE SetSwitch
  BY <1>4 DEF SetSwitch, CallOK, Progress, RouteHonoured
<1>5. CASE SetRoute
  <2>1. /\ route' \in 1..Len(router) /\ todo' = router[route'].steps /\ UNCHANGED <<router, answer>>
        /\ answer = Nothing
    BY <1>5 DEF SetRoute, CallOK
  <2>2. todo' \in Seq(Steps)
    BY <2>1, RouteSteps
  <2>3. Taken' = 0 /\ \A i \in 1..Len(todo') : todo'[i] = router'[route'].steps[Taken' + i]
    BY <2>1, <2>2 DEF Taken
  <2>4. Progress'
    BY <2>3 DEF Progress
  <2> QED  BY <2>1, <2>4 DEF RouteHonoured, Nothing
<1>6. CASE PulseLow \/ PulseHigh \/ PulseRelease
  <2>1. InSteps /\ UNCHANGED <<router, state, route, todo, answer>>
    BY <1>6 DEF PulseLow, PulseHigh, PulseRelease, InSteps, firmware
  <2> QED  BY <2>1 DEF Progress, Taken, RouteHonoured, InPosition
<1>7. CASE Record
  <2>1. CASE route = 0
    BY <1>7, <2>1 DEF Record, Progress, RouteHonoured
  <2>2. CASE route # 0
    <3>1. /\ Taken' = Taken + 1
          /\ \A i \in 1..Len(todo') : todo'[i] = router[route].steps[Taken' + i]
          /\ \A i \in 1..Taken' :
               state'[router[route].steps[i].switch] = router[route].steps[i].state
      BY <1>7, <2>2, RecordTakes
    <3>2. UNCHANGED <<router, route>> /\ Taken \in Nat
      BY <1>7, <2>2 DEF Record, Progress, InSteps
    <3>3. Progress'
      BY <3>1, <3>2 DEF Progress
    <3>4. RouteHonoured'
      <4>1. CASE todo' = <<>>
        <5>1. Taken' = Len(router[route].steps)
          <6>1. Len(router[route].steps) \in Nat
            BY <2>2, RouteSteps DEF CallOK
          <6> QED  BY <3>2, <4>1, <6>1 DEF Taken
        <5>2. InPosition(router[route])'
          BY <3>1, <3>2, <5>1 DEF InPosition
        <5> QED  BY <3>2, <5>2 DEF RouteHonoured, InPosition
      <4>2. CASE todo' # <<>>
        BY <1>7, <4>2 DEF Record, CallOK, Nothing, RouteHonoured
      <4> QED  BY <4>1, <4>2
    <3> QED  BY <3>3, <3>4
  <2> QED  BY <2>1, <2>2
<1>8. CASE UNCHANGED vars
  BY <1>8 DEF vars, firmware, Progress, InSteps, Taken, RouteHonoured, InPosition
<1> QED  BY <1>2, <1>3, <1>4, <1>5, <1>6, <1>7, <1>8 DEF Next

\* memsroute_set answers OK only with every switch of the route recorded in its
\* position, for every table whose routes do not turn a switch back, wherever resets
\* and requests for single switches come in between.
THEOREM RoutesAreHonoured == Spec => []RouteHonoured
<1>1. Init => RouteInv
  BY DEF Init, RouteInv, CallOK, Progress, InSteps, RouteHonoured, Nothing
<1>2. Inv => RouterOK /\ ExecutorOK
  BY DEF Inv, TypeOK
<1>3. RouteInv => RouteHonoured
  BY DEF RouteInv
<1> QED  BY <1>1, <1>2, <1>3, RouteStep, Invariance, PTL DEF Spec

----------------------------------------------------------------------------
(***************************************************************************)
(* What is reported.  Between the answer and its delivery nothing is       *)
(* recorded and no coil driven, so the answer still names what is recorded *)
(* when it is delivered, and RecordedIsLatched takes it to the mirrors.    *)
(***************************************************************************)
AnswerOK ==
    /\ \A i \in answer.routes : i \in 1..Len(router) /\ InPosition(router[i])
    /\ answer.kind = "switch" =>
          answer.switch \in Switches /\ answer.state = state[answer.switch]

\* An answer keeps to the record it was made from until it is sent.
LEMMA AnswerStep == ExecutorOK /\ CallOK /\ AnswerOK /\ [Next]_vars => AnswerOK'
<1> SUFFICES ASSUME ExecutorOK, CallOK, AnswerOK, [Next]_vars PROVE AnswerOK'
  OBVIOUS
<1>1. ASSUME answer' = Nothing \/ \E kind \in {"OK", "error"} : answer' = Reply(kind)
      PROVE  AnswerOK'
  BY <1>1 DEF AnswerOK, Nothing, Reply
<1>2. CASE Boot \/ BootNotReady \/ DefineRoute \/ SetRoute \/ SetSwitch
  BY <1>1, <1>2 DEF Boot, BootNotReady, DefineRoute, SetRoute, SetSwitch, CallOK
<1>3. CASE PulseLow \/ PulseHigh \/ PulseRelease
  BY <1>1, <1>3 DEF PulseLow, PulseHigh, PulseRelease, firmware, CallOK
<1>4. CASE Refused \/ Record \/ Answered \/ Reset
  BY <1>1, <1>4 DEF Refused, Record, Answered, Reset, Serve, CallOK
<1>5. CASE GetRoutes
  BY <1>5 DEF GetRoutes, Serve, ActiveRoutes, InPosition, AnswerOK
<1>6. CASE GetSwitch
  <2>1. PICK s \in Addressable :
           answer' = [kind |-> "switch", routes |-> {}, switch |-> s, state |-> state[s]]
    BY <1>6 DEF GetSwitch, Serve
  <2> QED  BY <1>6, <2>1, RouterAssumption DEF GetSwitch, AnswerOK
<1>7. CASE UNCHANGED vars
  BY <1>7 DEF vars, firmware, AnswerOK, InPosition
<1> QED  BY <1>2, <1>3, <1>4, <1>5, <1>6, <1>7 DEF Next

\* Every route and every switch position that memsroute_get and mems_get report is
\* where the mirrors are, whatever was half set, reset or failed before, unless the
\* last pulse of a mirror was lost.
THEOREM ReportsAreTrue == Spec => []ReportsTrue
<1>1. Init => CallOK /\ AnswerOK
  BY DEF Init, CallOK, AnswerOK, Nothing
<1>2. Inv => RouterOK /\ ExecutorOK
  BY DEF Inv, TypeOK
<1>3. Inv /\ CallOK /\ AnswerOK => ReportsTrue
  <2> SUFFICES ASSUME Inv, CallOK, AnswerOK PROVE ReportsTrue
    OBVIOUS
  <2>1. CASE answer = Nothing
    BY <2>1 DEF ReportsTrue, Nothing
  <2>2. CASE answer # Nothing
    <3>1. \A s \in Switches \ lost : state[s] = "U" \/ state[s] = latch[s]
      BY <2>2 DEF Inv, RecordedIsLatched, CallOK, Running
    <3>2. ASSUME NEW i \in answer.routes, NEW j \in 1..Len(router[i].steps)
          PROVE  LET step == router[i].steps[j]
                 IN  step.switch \in lost \/ latch[step.switch] = step.state
      <4>1. i \in 1..Len(router) /\ state[router[i].steps[j].switch] = router[i].steps[j].state
        BY DEF AnswerOK, InPosition
      <4>2. router[i].steps[j] \in Steps
        BY <4>1, RouteSteps, ElementOfSeq DEF Inv, TypeOK
      <4> QED  BY <3>1, <4>1, <4>2 DEF Steps, States
    <3>3. answer.kind = "switch" /\ answer.state # "U" =>
             answer.switch \in lost \/ latch[answer.switch] = answer.state
      BY <3>1 DEF AnswerOK
    <3> QED  BY <3>2, <3>3 DEF ReportsTrue
  <2> QED  BY <2>1, <2>2
<1> QED  BY <1>1, <1>2, <1>3, CallStep, AnswerStep, Invariance, PTL DEF Spec

----------------------------------------------------------------------------
(***************************************************************************)
(* The refinement.  If router.routes and route.steps are large enough for  *)
(* the table, as those of devices.c are, the router that answers requests  *)
(* holds the whole table, or nothing and then no switch is known either.   *)
(***************************************************************************)
TableFits ==
    /\ Len(Table) <= MEMS_ROUTER_MAX_ROUTES
    /\ \A i \in 1..Len(Table) : Len(Table[i].steps) \in 1..MEMS_ROUTER_MAX_ROUTE_PATH

Installed ==
    /\ pc # "boot" => /\ Len(router) = defined
                      /\ \A i \in 1..defined : router[i] = Table[i]
    /\ pc = "setup" => state = Unknown
    /\ pc \notin {"boot", "setup"} =>
          defined = Len(Table) \/ (defined = 0 /\ state = Unknown)
    /\ InSteps => defined # 0

\* Either the whole table gets defined, or the expander is missing and nothing does.
LEMMA InstalledStep ==
    ASSUME TableFits, RouterOK, Installed, [Next]_vars
    PROVE  Installed'
<1>1. CASE Boot \/ BootNotReady
  <2>1. /\ router' = <<>> /\ defined' = 0 /\ state' = Unknown
        /\ pc' \in {"setup", "idle"}
    BY <1>1 DEF Boot, BootNotReady
  <2> QED  BY <2>1, EmptySeq DEF Installed, InSteps, Unknown
<1>2. CASE DefineRoute
  <2>1. /\ pc = "setup" /\ defined \in 0..Len(Table) /\ defined < Len(Table)
        /\ defined' = defined + 1 /\ defined' \in 1..Len(Table)
        /\ Len(router) = defined /\ state' = state /\ state = Unknown
        /\ pc' = IF defined' = Len(Table) THEN "idle" ELSE "setup"
    BY <1>2, RouterAssumption DEF DefineRoute, RouterOK, Installed
  <2>2. /\ Len(router) < MEMS_ROUTER_MAX_ROUTES
        /\ Len(Table[defined'].steps) \in 1..MEMS_ROUTER_MAX_ROUTE_PATH
    BY <2>1, RouterAssumption DEF TableFits
  <2>3. router' = Append(router, Table[defined']) /\ Table[defined'] \in Routes
    BY <1>2, <2>1, <2>2 DEF DefineRoute, Routes
  <2>4. /\ Len(router') = defined'
        /\ \A i \in 1..defined : router'[i] = router[i]
        /\ router'[defined'] = Table[defined']
    BY <2>1, <2>3, AppendProperties DEF RouterOK
  <2>5. \A i \in 1..defined' : router'[i] = Table[i]
    <3>1. \A i \in 1..defined' : i = defined' \/ i \in 1..defined
      BY <2>1
    <3> QED  BY <1>2, <2>4, <3>1 DEF DefineRoute, Installed
  <2>6. state' = Unknown /\ Unknown' = Unknown
    BY <2>1 DEF Unknown
  <2> QED  BY <2>1, <2>4, <2>5, <2>6 DEF Installed, InSteps
<1>3. CASE SetRoute \/ SetSwitch
  <2>1. /\ UNCHANGED <<router, defined, state>> /\ pc = "idle" /\ pc' = "step"
        /\ Len(router) = defined
        /\ defined # 0
    BY <1>3, RouterAssumption DEF SetRoute, SetSwitch, Installed
  <2> QED  BY <2>1 DEF Installed, Unknown
<1>4. CASE Refused \/ GetRoutes \/ GetSwitch \/ Answered
  <2>1. /\ UNCHANGED <<router, defined, state>> /\ pc \in {"idle", "answered"}
        /\ pc' \in {"idle", "answered"}
    BY <1>4 DEF Refused, GetRoutes, GetSwitch, Answered, Serve
  <2> QED  BY <2>1 DEF Installed, InSteps, Unknown
<1>5. CASE PulseLow \/ PulseHigh \/ PulseRelease
  <2>1. UNCHANGED <<router, defined, state>> /\ InSteps /\ InSteps'
    BY <1>5 DEF PulseLow, PulseHigh, PulseRelease, firmware, InSteps
  <2> QED  BY <2>1 DEF Installed, InSteps, Unknown
<1>6. CASE Record
  <2>1. /\ UNCHANGED <<router, defined>> /\ pc = "settle" /\ pc' \in {"step", "answered"}
    BY <1>6 DEF Record, Serve
  <2> QED  BY <2>1 DEF Installed, InSteps
<1>7. CASE Reset
  BY <1>7 DEF Reset, Installed, InSteps
<1>8. CASE UNCHANGED vars
  BY <1>8 DEF vars, firmware, Installed, InSteps, Unknown
<1> QED  BY <1>1, <1>2, <1>3, <1>4, <1>5, <1>6, <1>7, <1>8 DEF Next

\* The routes the router finds in position are those of the table: if it is empty
\* no switch is known, and no route of the table is in position either.
LEMMA SameActiveRoutes ==
    ASSUME TableFits, Installed, pc = "idle"
    PROVE  ActiveRoutes = Board!ActiveRoutes(state)
<1>1. CASE defined = Len(Table)
  BY <1>1 DEF Installed, ActiveRoutes, InPosition, Board!ActiveRoutes, Board!InPosition
<1>2. CASE defined = 0 /\ state = Unknown
  <2>1. ActiveRoutes = {}
    BY <1>2 DEF Installed, ActiveRoutes
  <2>2. ASSUME NEW i \in 1..Len(Table) PROVE ~Board!InPosition(state, Table[i])
    <3>1. 1 \in 1..Len(Table[i].steps)
      BY RouterAssumption DEF TableFits
    <3>2. Table[i].steps[1] \in Steps
      BY <3>1, RouterAssumption, ElementOfSeq
    <3>3. state[Table[i].steps[1].switch] # Table[i].steps[1].state
      BY <1>2, <3>2 DEF Unknown, Steps, States
    <3> QED  BY <3>1, <3>3 DEF Board!InPosition
  <2> QED  BY <2>1, <2>2 DEF Board!ActiveRoutes
<1> QED  BY <1>1, <1>2 DEF Installed

\* Booting, installing the routes and the edges of the pulses are hidden; every
\* other step of the router is the switchboard's of the same name.
LEMMA BoardStep ==
    ASSUME TableFits, RouterOK, ExecutorOK, CallOK, Installed, [Next]_vars
    PROVE  [Board!Next]_(Board!vars)
<1> USE DEF Board!Next, Board!vars
<1>1. CASE Boot \/ BootNotReady
  BY <1>1 DEF Boot, BootNotReady, CallOK, ExecutorOK, Unknown
<1>2. CASE DefineRoute
  BY <1>2 DEF DefineRoute, Unknown
<1>3. CASE SetRoute
  <2>1. Board!Begin
    BY <1>3, RouterAssumption DEF SetRoute, Installed, Board!Begin
  <2> QED  BY <2>1
<1>4. CASE SetSwitch
  <2>1. Board!BeginSwitch
    BY <1>4 DEF SetSwitch, Board!BeginSwitch, States, Board!States
  <2> QED  BY <2>1
<1>5. CASE Refused
  <2>1. Board!Refuse
    BY <1>5 DEF Refused, Serve, Reply, Board!Refuse, Board!Reply
  <2> QED  BY <2>1
<1>6. CASE PulseLow \/ PulseHigh \/ PulseRelease
  BY <1>6 DEF PulseLow, PulseHigh, PulseRelease, firmware
<1>7. CASE Record
  <2>1. Board!Turn
    BY <1>7 DEF Record, Serve, Reply, ExecutorOK, Board!Turn, Board!Reply
  <2> QED  BY <2>1
<1>8. CASE GetRoutes
  <2>1. ActiveRoutes = Board!ActiveRoutes(state)
    BY <1>8, SameActiveRoutes DEF GetRoutes
  <2>2. Board!Report
    BY <1>8, <2>1 DEF GetRoutes, Serve, Board!Report
  <2> QED  BY <2>2
<1>9. CASE GetSwitch
  <2>1. Board!ReportSwitch
    BY <1>9 DEF GetSwitch, Serve, Board!ReportSwitch
  <2> QED  BY <2>1
<1>10. CASE Answered
  <2>1. Board!Return
    BY <1>10 DEF Answered, Nothing, Board!Return, Board!Nothing
  <2> QED  BY <2>1
<1>11. CASE Reset
  <2>1. Board!PowerCycle
    BY <1>11 DEF Reset, Nothing, Unknown, Board!PowerCycle, Board!Nothing, Board!Unknown
  <2> QED  BY <2>1
<1>12. CASE UNCHANGED vars
  BY <1>12 DEF vars, firmware, Unknown
<1> QED
  BY <1>1, <1>2, <1>3, <1>4, <1>5, <1>6, <1>7, <1>8, <1>9, <1>10, <1>11, <1>12 DEF Next

\* What devices.c, mems_switching.c and the memsroute and mems handlers do with
\* pulses, outputs and mirrors hidden is what the switchboard promises, for every
\* table that fits the router.
THEOREM RouterImplementsSwitchboard ==
    ASSUME TableFits
    PROVE  Spec => ImplementsSwitchboard
<1>1. Init => CallOK /\ Installed /\ Board!Init
  BY DEF Init, CallOK, Installed, InSteps, Unknown, Nothing, Board!Init, Board!Unknown, Board!Nothing
<1>2. Inv => RouterOK /\ ExecutorOK
  BY DEF Inv, TypeOK
<1>3. /\ RouterOK /\ ExecutorOK /\ CallOK /\ Installed /\ [Next]_vars
      => CallOK' /\ Installed' /\ [Board!Next]_(Board!vars)
  BY CallStep, InstalledStep, BoardStep
<1> QED  BY <1>1, <1>2, <1>3, Invariance, PTL DEF Spec, ImplementsSwitchboard, Board!Spec

----------------------------------------------------------------------------
(***************************************************************************)
(* What the router answers, pulses and failing writes and all, with tables *)
(* like that of devices.c.                                                 *)
(***************************************************************************)

\* Routes with the same input need some switch in different positions: the condition
\* Exclusive of MemsTableProofs, shown there of devices.c.
InputsExclude ==
    \A i, j \in 1..Len(Table) :
        Table[i].input = Table[j].input /\ i # j =>
            \E k \in 1..Len(Table[i].steps), l \in 1..Len(Table[j].steps) :
                /\ Table[i].steps[k].switch = Table[j].steps[l].switch
                /\ Table[i].steps[k].state # Table[j].steps[l].state

\* The keys of the JSON object that memsroute_get builds are different.
KeysDiffer ==
    \A i, j \in answer.routes : router[i].input = router[j].input => i = j

\* memsroute_get of the router itself never writes a key twice, at whatever point of
\* whatever requests a reset came and whichever writes failed.
THEOREM AnswersAreObjects ==
    ASSUME TableFits, InputsExclude
    PROVE  Spec => []KeysDiffer
<1>1. Init => CallOK /\ AnswerOK /\ Installed
  BY DEF Init, CallOK, AnswerOK, Installed, InSteps, Unknown, Nothing
<1>2. Inv => RouterOK /\ ExecutorOK
  BY DEF Inv, TypeOK
<1>3. RouterOK /\ CallOK /\ AnswerOK /\ Installed => KeysDiffer
  <2> SUFFICES ASSUME RouterOK, CallOK, AnswerOK, Installed, NEW i \in answer.routes, NEW j \in answer.routes,
                      router[i].input = router[j].input, i # j
               PROVE  FALSE
    BY DEF KeysDiffer
  <2>1. pc # "boot"
    <3>1. answer # Nothing
      BY DEF Nothing
    <3> QED  BY <3>1 DEF CallOK
  <2>2. /\ i \in 1..defined /\ j \in 1..defined
        /\ router[i] = Table[i] /\ router[j] = Table[j]
        /\ InPosition(router[i]) /\ InPosition(router[j])
    BY <2>1 DEF Installed, AnswerOK
  <2>3. i \in 1..Len(Table) /\ j \in 1..Len(Table)
    BY <2>2, RouterAssumption DEF RouterOK
  <2>4. PICK k \in 1..Len(Table[i].steps), l \in 1..Len(Table[j].steps) :
           /\ Table[i].steps[k].switch = Table[j].steps[l].switch
           /\ Table[i].steps[k].state # Table[j].steps[l].state
    BY <2>2, <2>3 DEF InputsExclude
  <2> QED  BY <2>2, <2>4 DEF InPosition
<1> QED
  BY <1>1, <1>2, <1>3, CallStep, AnswerStep, InstalledStep, Invariance, PTL DEF Spec

=============================================================================
