--------------------------- MODULE MemsTableProofs ---------------------------
(***************************************************************************)
(* Proofs about the switchboard with a table.  What the entries of a table *)
(* must satisfy together is stated for any table (Exclusive, Grouped and   *)
(* OneSided), shown to be enough, and shown to hold of the sixteen entries *)
(* of devices.c.                                                           *)
(***************************************************************************)
EXTENDS MemsTable, SequenceTheorems, FiniteSetTheorems, TLAPS

----------------------------------------------------------------------------
(***************************************************************************)
(* What is asked of a table.                                               *)
(***************************************************************************)

\* Two routes need some switch in different positions.
Exclude(r, s) ==
    \E k \in 1..Len(r.steps), l \in 1..Len(s.steps) :
        /\ r.steps[k].switch = s.steps[l].switch
        /\ r.steps[k].state # s.steps[l].state

\* Routes with the same input exclude each other.
Exclusive ==
    \A i, j \in 1..Len(Table) :
        Table[i].input = Table[j].input => i = j \/ Exclude(Table[i], Table[j])

\* The routes are divided into n groups, in each of which they exclude each other.
Grouped(group, n) ==
    /\ group \in [1..Len(Table) -> 1..n]
    /\ \A i, j \in 1..Len(Table) :
          group[i] = group[j] => i = j \/ Exclude(Table[i], Table[j])

\* Routes turn switches of their own side only.
Turns == [switch : Switches, state : States]
OneSided ==
    \A i \in 1..Len(Table) :
        /\ Table[i].steps \in Seq(Turns) \ {<<>>}
        /\ \A k \in 1..Len(Table[i].steps) : Table[i].steps[k].switch[1] = Table[i].input[1]

----------------------------------------------------------------------------
(***************************************************************************)
(* The reports.                                                            *)
(***************************************************************************)

\* Routes that exclude each other are never in position together.
LEMMA ExcludedApart ==
    ASSUME NEW pos, NEW r, NEW s, Exclude(r, s)
    PROVE  ~(InPosition(pos, r) /\ InPosition(pos, s))
  BY DEF Exclude, InPosition

\* Whatever the switches' positions, an answer only names routes of the table that
\* were in position together.
ReportInv ==
    answer.routes # {} => \E pos : answer.routes = ActiveRoutes(pos)

\* Reports are made from the positions of one moment.
LEMMA ReportAlways == Spec => []ReportInv
<1>1. Init => ReportInv
  BY DEF Init, Nothing, ReportInv
<1>2. ReportInv /\ [Next]_vars => ReportInv'
  <2> SUFFICES ASSUME ReportInv, [Next]_vars PROVE ReportInv'
    OBVIOUS
  <2>1. CASE Report
    <3>1. answer'.routes = ActiveRoutes(position)
      BY <2>1 DEF Report
    <3> QED  BY <3>1 DEF ReportInv
  <2>2. CASE Turn
    <3>1. answer' = answer \/ answer'.routes = {}
      BY <2>2 DEF Turn, Reply
    <3> QED  BY <3>1 DEF ReportInv
  <2>3. CASE ReportSwitch \/ Refuse \/ Return \/ PowerCycle
    <3>1. answer'.routes = {}
      BY <2>3 DEF ReportSwitch, Refuse, Return, PowerCycle, Reply, Nothing
    <3> QED  BY <3>1 DEF ReportInv
  <2>4. CASE Begin \/ BeginSwitch \/ UNCHANGED vars
    <3>1. answer' = answer
      BY <2>4 DEF Begin, BeginSwitch, vars
    <3> QED  BY <3>1 DEF ReportInv
  <2> QED  BY <2>1, <2>2, <2>3, <2>4 DEF Next
<1> QED  BY <1>1, <1>2, PTL DEF Spec

\* With a table of this kind no input is reported at two outputs.
LEMMA ExclusiveSuffices ==
    ASSUME Exclusive
    PROVE  ReportInv => DistinctInputs
<1> SUFFICES ASSUME ReportInv, NEW i \in answer.routes, NEW j \in answer.routes,
                    Table[i].input = Table[j].input
             PROVE  i = j
  BY DEF DistinctInputs
<1>1. PICK pos : answer.routes = ActiveRoutes(pos)
  BY DEF ReportInv
<1>2. /\ i \in 1..Len(Table) /\ j \in 1..Len(Table)
      /\ InPosition(pos, Table[i]) /\ InPosition(pos, Table[j])
  BY <1>1 DEF ActiveRoutes
<1> QED  BY <1>2, ExcludedApart DEF Exclusive

\* ... and as many routes as there are groups is the most that is reported.
LEMMA GroupsSuffice ==
    ASSUME NEW n \in Nat, NEW group, Grouped(group, n), n <= MEMS_ROUTER_MAX_ACTIVE_ROUTES,
           MEMS_ROUTER_MAX_ACTIVE_ROUTES \in Nat
    PROVE  ReportInv => ActiveBound
<1> SUFFICES ASSUME ReportInv PROVE ActiveBound
  OBVIOUS
<1>1. IsFiniteSet(1..n) /\ Cardinality(1..n) = n
  BY FS_Interval
<1>2. CASE answer.routes = {}
  <2>1. Cardinality(answer.routes) = 0
    BY <1>2, FS_EmptySet
  <2> QED  BY <2>1 DEF ActiveBound
<1>3. CASE answer.routes # {}
  <2>1. PICK pos : answer.routes = ActiveRoutes(pos)
    BY <1>3 DEF ReportInv
  <2> DEFINE f == [i \in answer.routes |-> group[i]]
  <2>2. answer.routes \subseteq 1..Len(Table)
    BY <2>1 DEF ActiveRoutes
  <2>3. ASSUME NEW i \in answer.routes, NEW j \in answer.routes, group[i] = group[j]
        PROVE  i = j
    <3>1. InPosition(pos, Table[i]) /\ InPosition(pos, Table[j])
      BY <2>1 DEF ActiveRoutes
    <3> QED  BY <2>2, <2>3, <3>1, ExcludedApart DEF Grouped
  <2>4. f \in Injection(answer.routes, 1..n)
    <3>1. f \in [answer.routes -> 1..n]
      BY <2>2 DEF Grouped
    <3> QED  BY <2>3, <3>1 DEF Injection, IsInjective
  <2>5. IsFiniteSet(answer.routes) /\ Cardinality(answer.routes) <= n
    <3> HIDE DEF f
    <3> QED  BY <1>1, <2>4, FS_Injection
  <2>6. Cardinality(answer.routes) \in Nat
    BY <2>5, FS_CardinalityType
  <2> QED  BY <2>5, <2>6 DEF ActiveBound
<1> QED  BY <1>2, <1>3

----------------------------------------------------------------------------
(***************************************************************************)
(* The sides.                                                              *)
(***************************************************************************)

\* The side of what is being set.
Side == (IF route = 0 THEN Head(todo).switch ELSE Table[route].input)[1]

\* Whatever is left to be turned is on that side.
SideInv ==
    /\ DOMAIN position = Switches
    /\ call = "idle" => route = 0
    /\ route # 0 => route \in 1..Len(Table)
    /\ call = "set" =>
          /\ todo \in Seq(Turns) \ {<<>>}
          /\ \A k \in 1..Len(todo) : todo[k].switch[1] = Side

\* A request stays on the side it was made for.
LEMMA SideStep ==
    ASSUME OneSided, Addressable \subseteq Switches, SideInv, [Next]_vars
    PROVE  SideInv'
<1>1. CASE Begin
  <2>1. /\ route' \in 1..Len(Table) /\ todo' = Table[route'].steps
        /\ call' = "set" /\ position' = position
    BY <1>1 DEF Begin
  <2>2. PICK r \in 1..Len(Table) : r = route'
    BY <2>1
  <2>3. /\ todo' \in Seq(Turns) \ {<<>>}
        /\ \A k \in 1..Len(todo') : todo'[k].switch[1] = Table[r].input[1]
    BY <2>1, <2>2 DEF OneSided
  <2>4. r # 0
    BY <2>2
  <2> QED  BY <2>1, <2>2, <2>3, <2>4 DEF SideInv, Side
<1>2. CASE BeginSwitch
  <2>1. PICK s \in Addressable, x \in States : todo' = <<[switch |-> s, state |-> x]>>
    BY <1>2 DEF BeginSwitch
  <2>2. call' = "set" /\ UNCHANGED <<position, route>> /\ route = 0
    BY <1>2 DEF BeginSwitch, SideInv
  <2>3. [switch |-> s, state |-> x] \in Turns
    BY DEF Turns
  <2>4. /\ todo' \in Seq(Turns) \ {<<>>} /\ Len(todo') = 1
        /\ Head(todo') = todo'[1]
    BY <2>1, <2>3
  <2>5. \A k \in 1..Len(todo') : todo'[k].switch[1] = Head(todo').switch[1]
    BY <2>4
  <2> QED  BY <2>2, <2>4, <2>5 DEF SideInv, Side
<1>3. CASE Turn
  <2>1. /\ call = "set" /\ route' = route /\ todo' = Tail(todo)
        /\ position' = [position EXCEPT ![Head(todo).switch] = Head(todo).state]
        /\ call' = "answered" \/ (todo' # <<>> /\ call' = "set")
    BY <1>3 DEF Turn
  <2>2. todo \in Seq(Turns) /\ todo # <<>> /\ \A k \in 1..Len(todo) : todo[k].switch[1] = Side
    BY <2>1 DEF SideInv
  <2>3. /\ todo' \in Seq(Turns) /\ Len(todo') = Len(todo) - 1 /\ Len(todo) \in Nat
        /\ \A k \in 1..Len(todo') : todo'[k] = todo[k + 1]
    BY <2>1, <2>2, HeadTailProperties, LenProperties
  <2>4. \A k \in 1..Len(todo') : todo'[k].switch[1] = Side
    BY <2>2, <2>3
  <2>5. todo' # <<>> => Head(todo').switch[1] = Side
    <3>1. todo' # <<>> => Head(todo') = todo'[1] /\ 1 \in 1..Len(todo')
      BY <2>3, EmptySeq
    <3> QED  BY <2>4, <3>1
  <2>6. todo' # <<>> => Side' = Side
    BY <2>1, <2>5 DEF Side
  <2> QED  BY <2>1, <2>3, <2>4, <2>6 DEF SideInv
<1>4. CASE Refuse \/ Report \/ ReportSwitch
  BY <1>4 DEF Refuse, Report, ReportSwitch, SideInv
<1>5. CASE Return \/ PowerCycle
  BY <1>5 DEF Return, PowerCycle, Unknown, SideInv
<1>6. CASE UNCHANGED vars
  BY <1>6 DEF vars, SideInv, Side
<1> QED  BY <1>1, <1>2, <1>3, <1>4, <1>5, <1>6 DEF Next

\* A switch that takes its position leaves the routes of the other side alone.
LEMMA OtherSideKept ==
    ASSUME OneSided, SideInv, [Next]_vars, call = "set", call' # "idle",
           NEW i \in 1..Len(Table), Table[i].input[1] # Side
    PROVE  InPosition(position, Table[i]) <=> InPosition(position', Table[i])
<1>1. Turn \/ UNCHANGED position
  BY DEF Next, Begin, BeginSwitch, Refuse, Report, ReportSwitch, Return, PowerCycle, vars
<1>2. CASE Turn
  <2>1. position' = [position EXCEPT ![Head(todo).switch] = Head(todo).state]
    BY <1>2 DEF Turn
  <2>2. Head(todo).switch[1] = Side
    <3>1. todo \in Seq(Turns) /\ todo # <<>> /\ \A k \in 1..Len(todo) : todo[k].switch[1] = Side
      BY DEF SideInv
    <3>2. Head(todo) = todo[1] /\ 1 \in 1..Len(todo)
      BY <3>1, EmptySeq
    <3> QED  BY <3>1, <3>2
  <2>3. ASSUME NEW k \in 1..Len(Table[i].steps)
        PROVE  position'[Table[i].steps[k].switch] = position[Table[i].steps[k].switch]
    <3>1. Table[i].steps[k].switch[1] = Table[i].input[1]
      BY DEF OneSided
    <3>2. Table[i].steps[k].switch \in Switches
      <4>1. Table[i].steps[k] \in Turns
        BY ElementOfSeq DEF OneSided
      <4> QED  BY <4>1 DEF Turns
    <3>3. Table[i].steps[k].switch # Head(todo).switch
      BY <2>2, <3>1
    <3> QED  BY <2>1, <3>2, <3>3 DEF SideInv
  <2> QED  BY <2>3 DEF InPosition
<1> QED  BY <1>1, <1>2

----------------------------------------------------------------------------
(***************************************************************************)
(* The table of devices.c.                                                 *)
(***************************************************************************)

\* Tables are joined one after the other.
LEMMA Joined ==
    ASSUME NEW S, NEW p \in Seq(S), NEW q \in Seq(S), NEW w, w = p \o q
    PROVE  /\ w \in Seq(S) /\ Len(w) = Len(p) + Len(q)
           /\ \A i \in 1..Len(p) : w[i] = p[i]
           /\ \A i \in 1..Len(q) : w[Len(p) + i] = q[i]
<1>1. /\ w \in Seq(S) /\ Len(w) = Len(p) + Len(q)
      /\ \A i \in 1..(Len(p) + Len(q)) : w[i] = IF i <= Len(p) THEN p[i] ELSE q[i - Len(p)]
  BY ConcatProperties
<1>2. Len(p) \in Nat /\ Len(q) \in Nat
  BY LenProperties
<1>3. \A i \in 1..Len(p) : i \in 1..(Len(p) + Len(q)) /\ i <= Len(p)
  BY <1>2
<1>4. \A i \in 1..Len(q) : /\ Len(p) + i \in 1..(Len(p) + Len(q))
                           /\ ~(Len(p) + i <= Len(p)) /\ (Len(p) + i) - Len(p) = i
  BY <1>2
<1> QED  BY <1>1, <1>3, <1>4

\* The routes of a side.
SideEntries(s) ==
    {RetroRoutes(s)[i] : i \in 1..2} \cup {CalRoutes(s)[i] : i \in 1..2}
    \cup {LaserRoutes(s)[i] : i \in 1..2} \cup {PhotodiodeRoutes(s)[i] : i \in 1..2}

\* Eight routes for each side, in this order.
LEMMA SideTable ==
    ASSUME NEW s, NEW T, T = SideRoutes(s)
    PROVE  /\ T \in Seq(SideEntries(s)) /\ Len(T) = 8
           /\ T[1] = RetroRoutes(s)[1]      /\ T[2] = RetroRoutes(s)[2]
           /\ T[3] = CalRoutes(s)[1]        /\ T[4] = CalRoutes(s)[2]
           /\ T[5] = LaserRoutes(s)[1]      /\ T[6] = LaserRoutes(s)[2]
           /\ T[7] = PhotodiodeRoutes(s)[1] /\ T[8] = PhotodiodeRoutes(s)[2]
<1> DEFINE R == RetroRoutes(s)
           C == CalRoutes(s)
           L == LaserRoutes(s)
           P == PhotodiodeRoutes(s)
           S == SideEntries(s)
<1>1. /\ \E a, b : R = <<a, b>>
      /\ \E a, b : C = <<a, b>>
      /\ \E a, b : L = <<a, b>>
      /\ \E a, b : P = <<a, b>>
  <2>1. \E a, b : R = <<a, b>>
    BY DEF RetroRoutes
  <2>2. \E a, b : C = <<a, b>>
    BY DEF CalRoutes
  <2>3. \E a, b : L = <<a, b>>
    BY DEF LaserRoutes
  <2>4. \E a, b : P = <<a, b>>
    BY DEF PhotodiodeRoutes
  <2> QED  BY <2>1, <2>2, <2>3, <2>4
<1>2. T = R \o C \o L \o P
  BY DEF SideRoutes
<1>3. \A Q \in {R, C, L, P} : Q[1] \in S /\ Q[2] \in S
  BY DEF SideEntries
<1> HIDE DEF R, C, L, P, S
<1>4. \A Q \in {R, C, L, P} : Q \in Seq(S) /\ Len(Q) = 2
  <2> SUFFICES ASSUME NEW Q \in {R, C, L, P} PROVE Q \in Seq(S) /\ Len(Q) = 2
    OBVIOUS
  <2>1. PICK a, b : Q = <<a, b>>
    BY <1>1
  <2>2. a \in S /\ b \in S
    BY <1>3, <2>1
  <2> QED  BY <2>1, <2>2
<1>5. PICK u : u = R \o C
  OBVIOUS
<1>6. PICK v : v = u \o L
  OBVIOUS
<1>7. /\ u \in Seq(S) /\ Len(u) = 4
      /\ \A i \in 1..2 : u[i] = R[i]
      /\ \A i \in 1..2 : u[2 + i] = C[i]
  <2>1. /\ u \in Seq(S) /\ Len(u) = Len(R) + Len(C)
        /\ \A i \in 1..Len(R) : u[i] = R[i]
        /\ \A i \in 1..Len(C) : u[Len(R) + i] = C[i]
    <3>1. R \in Seq(S) /\ C \in Seq(S) /\ u = R \o C
      BY <1>4, <1>5
    <3> QED  BY ONLY <3>1, Joined
  <2>2. Len(R) = 2 /\ Len(C) = 2
    BY <1>4
  <2> QED  BY ONLY <2>1, <2>2
<1>8. /\ v \in Seq(S) /\ Len(v) = 6
      /\ \A i \in 1..4 : v[i] = u[i]
      /\ \A i \in 1..2 : v[4 + i] = L[i]
  <2>1. /\ v \in Seq(S) /\ Len(v) = Len(u) + Len(L)
        /\ \A i \in 1..Len(u) : v[i] = u[i]
        /\ \A i \in 1..Len(L) : v[Len(u) + i] = L[i]
    <3>1. u \in Seq(S) /\ L \in Seq(S) /\ v = u \o L
      BY <1>4, <1>6, <1>7
    <3> QED  BY ONLY <3>1, Joined
  <2>2. Len(u) = 4 /\ Len(L) = 2
    BY <1>4, <1>7
  <2> QED  BY ONLY <2>1, <2>2
<1>9. /\ T \in Seq(S) /\ Len(T) = 8
      /\ \A i \in 1..6 : T[i] = v[i]
      /\ \A i \in 1..2 : T[6 + i] = P[i]
  <2>1. /\ T \in Seq(S) /\ Len(T) = Len(v) + Len(P)
        /\ \A i \in 1..Len(v) : T[i] = v[i]
        /\ \A i \in 1..Len(P) : T[Len(v) + i] = P[i]
    <3>1. v \in Seq(S) /\ P \in Seq(S) /\ T = v \o P
      BY <1>2, <1>4, <1>5, <1>6, <1>8
    <3> QED  BY ONLY <3>1, Joined
  <2>2. Len(v) = 6 /\ Len(P) = 2
    BY <1>4, <1>8
  <2> QED  BY ONLY <2>1, <2>2
<1>10. /\ T[1] = R[1] /\ T[2] = R[2] /\ T[3] = C[1] /\ T[4] = C[2]
       /\ T[5] = L[1] /\ T[6] = L[2] /\ T[7] = P[1] /\ T[8] = P[2]
  BY <1>7, <1>8, <1>9
<1> QED  BY <1>9, <1>10 DEF R, C, L, P, S

\* The two sides follow each other.
LEMMA WholeTable ==
    ASSUME NEW T, T = AllRoutes
    PROVE  /\ Len(T) = 16
           /\ \A i \in 1..8 : T[i] = SideRoutes("yj")[i]
           /\ \A i \in 1..8 : T[8 + i] = SideRoutes("hk")[i]
<1> DEFINE Y == SideRoutes("yj")
           H == SideRoutes("hk")
           S == SideEntries("yj") \cup SideEntries("hk")
<1>1. /\ Y \in Seq(SideEntries("yj")) /\ Len(Y) = 8
      /\ H \in Seq(SideEntries("hk")) /\ Len(H) = 8
  BY SideTable
<1>2. T = Y \o H
  BY DEF AllRoutes
<1>3. SideEntries("yj") \subseteq S /\ SideEntries("hk") \subseteq S
  OBVIOUS
<1> HIDE DEF Y, H, S
<1>4. Y \in Seq(S) /\ H \in Seq(S)
  BY <1>1, <1>3
<1>5. /\ Len(T) = 16
      /\ \A i \in 1..8 : T[i] = Y[i]
      /\ \A i \in 1..8 : T[8 + i] = H[i]
  <2>1. /\ T \in Seq(S) /\ Len(T) = Len(Y) + Len(H)
        /\ \A i \in 1..Len(Y) : T[i] = Y[i]
        /\ \A i \in 1..Len(H) : T[Len(Y) + i] = H[i]
    <3>1. Y \in Seq(S) /\ H \in Seq(S) /\ T = Y \o H
      BY <1>2, <1>4
    <3> QED  BY ONLY <3>1, Joined
  <2> QED  BY ONLY <1>1, <2>1
<1> QED  BY <1>5 DEF Y, H

\* 1430 and cal need cal_laser in different positions, mm and sm need mm_sm in
\* different positions, and the two outputs of an input need ao_fei in different
\* positions.
SideGroup(k) == IF k \in 1..4 THEN 1 ELSE IF k \in 5..6 THEN 2 ELSE 3

\* Routes of a side in the same group need some switch in different positions.
LEMMA SideExcludes ==
    ASSUME NEW s, NEW T, T = SideRoutes(s), NEW i \in 1..8, NEW j \in 1..8,
           SideGroup(i) = SideGroup(j)
    PROVE  i = j \/ Exclude(T[i], T[j])
<1>1. /\ T[1] = RetroRoutes(s)[1]      /\ T[2] = RetroRoutes(s)[2]
      /\ T[3] = CalRoutes(s)[1]        /\ T[4] = CalRoutes(s)[2]
      /\ T[5] = LaserRoutes(s)[1]      /\ T[6] = LaserRoutes(s)[2]
      /\ T[7] = PhotodiodeRoutes(s)[1] /\ T[8] = PhotodiodeRoutes(s)[2]
  BY SideTable
<1>2. /\ Len(T[1].steps) = 3 /\ Len(T[2].steps) = 3
      /\ T[1].steps[1] = To(s, "cal_laser", "B") /\ T[2].steps[1] = To(s, "cal_laser", "B")
      /\ T[1].steps[3] = To(s, "ao_fei", "A") /\ T[2].steps[3] = To(s, "ao_fei", "B")
  BY <1>1 DEF RetroRoutes, Route
<1>3. /\ Len(T[3].steps) = 2 /\ Len(T[4].steps) = 2
      /\ T[3].steps[1] = To(s, "cal_laser", "A") /\ T[4].steps[1] = To(s, "cal_laser", "A")
      /\ T[3].steps[2] = To(s, "ao_fei", "A") /\ T[4].steps[2] = To(s, "ao_fei", "B")
  BY <1>1 DEF CalRoutes, Route
<1>4. /\ Len(T[5].steps) = 2 /\ Len(T[6].steps) = 2
      /\ T[5].steps[2] = To(s, "ao_fei", "A") /\ T[6].steps[2] = To(s, "ao_fei", "B")
  BY <1>1 DEF LaserRoutes, Route
<1>5. /\ Len(T[7].steps) = 1 /\ Len(T[8].steps) = 1
      /\ T[7].steps[1] = To(s, "mm_sm", "A") /\ T[8].steps[1] = To(s, "mm_sm", "B")
  BY <1>1 DEF PhotodiodeRoutes, Route
<1>6. \A n : /\ To(s, n, "A").switch = To(s, n, "B").switch
             /\ To(s, n, "A").state # To(s, n, "B").state
  BY DEF To
<1>7. Exclude(T[1], T[2]) /\ Exclude(T[2], T[1])
  BY <1>2, <1>6 DEF Exclude
<1>8. /\ Exclude(T[1], T[3]) /\ Exclude(T[1], T[4]) /\ Exclude(T[2], T[3]) /\ Exclude(T[2], T[4])
      /\ Exclude(T[3], T[1]) /\ Exclude(T[4], T[1]) /\ Exclude(T[3], T[2]) /\ Exclude(T[4], T[2])
  BY <1>2, <1>3, <1>6 DEF Exclude
<1>9. Exclude(T[3], T[4]) /\ Exclude(T[4], T[3])
  BY <1>3, <1>6 DEF Exclude
<1>10. Exclude(T[5], T[6]) /\ Exclude(T[6], T[5])
  BY <1>4, <1>6 DEF Exclude
<1>11. Exclude(T[7], T[8]) /\ Exclude(T[8], T[7])
  BY <1>5, <1>6 DEF Exclude
<1>12. \/ i \in {1, 2, 3, 4} /\ j \in {1, 2, 3, 4}
       \/ i \in {5, 6} /\ j \in {5, 6}
       \/ i \in {7, 8} /\ j \in {7, 8}
  BY DEF SideGroup
<1> QED  BY <1>7, <1>8, <1>9, <1>10, <1>11, <1>12

\* An input belongs to its side and to one of the groups.
LEMMA SideInputs ==
    ASSUME NEW s, NEW T, T = SideRoutes(s)
    PROVE  /\ \A i \in 1..8 : T[i].input[1] = s
           /\ \A i, j \in 1..8 : T[i].input = T[j].input => SideGroup(i) = SideGroup(j)
<1>1. /\ T[1] = RetroRoutes(s)[1]      /\ T[2] = RetroRoutes(s)[2]
      /\ T[3] = CalRoutes(s)[1]        /\ T[4] = CalRoutes(s)[2]
      /\ T[5] = LaserRoutes(s)[1]      /\ T[6] = LaserRoutes(s)[2]
      /\ T[7] = PhotodiodeRoutes(s)[1] /\ T[8] = PhotodiodeRoutes(s)[2]
  BY SideTable
<1>2. /\ T[1].input = <<s, "1430">> /\ T[2].input = <<s, "1430">>
      /\ T[3].input = <<s, "cal">> /\ T[4].input = <<s, "cal">>
      /\ T[5].input = <<s, "laser">> /\ T[6].input = <<s, "laser">>
      /\ T[7].input = <<s, "mm">> /\ T[8].input = <<s, "sm">>
  BY <1>1 DEF RetroRoutes, CalRoutes, LaserRoutes, PhotodiodeRoutes, Route
<1>3. \A i \in 1..8 : i \in {1, 2, 3, 4, 5, 6, 7, 8}
  OBVIOUS
<1>4. \A i \in 1..8 : /\ T[i].input[1] = s
                      /\ SideGroup(i) = IF T[i].input[2] \in {"1430", "cal"} THEN 1
                                        ELSE IF T[i].input[2] = "laser" THEN 2 ELSE 3
  BY <1>2, <1>3 DEF SideGroup
<1> QED  BY <1>4

\* The steps of a route turn switches of its side.
LEMMA SideSteps ==
    ASSUME Switches = AllSwitches, NEW s \in Sides, NEW T, T = SideRoutes(s), NEW i \in 1..8
    PROVE  /\ T[i].steps \in Seq(Turns) \ {<<>>}
           /\ \A k \in 1..Len(T[i].steps) : T[i].steps[k].switch[1] = s
<1>1. /\ T[1] = RetroRoutes(s)[1]      /\ T[2] = RetroRoutes(s)[2]
      /\ T[3] = CalRoutes(s)[1]        /\ T[4] = CalRoutes(s)[2]
      /\ T[5] = LaserRoutes(s)[1]      /\ T[6] = LaserRoutes(s)[2]
      /\ T[7] = PhotodiodeRoutes(s)[1] /\ T[8] = PhotodiodeRoutes(s)[2]
  BY SideTable
<1> DEFINE Own == {t \in Turns : t.switch[1] = s}
           OK(steps) == /\ steps \in Seq(Turns) \ {<<>>}
                        /\ \A k \in 1..Len(steps) : steps[k].switch[1] = s
<1>2. \A n \in {"cal_laser", "ao_fei", "forward_retro", "mm_sm"}, x \in States : To(s, n, x) \in Own
  BY DEF To, Turns, Sides, SideSwitches, AllSwitches
<1>3. States = {"A", "B"}
  BY DEF States
<1>4. \A a, b, c \in Own : OK(<<a, b, c>>) /\ OK(<<a, b>>) /\ OK(<<a>>)
  <2> SUFFICES ASSUME NEW a \in Own, NEW b \in Own, NEW c \in Own
               PROVE  OK(<<a, b, c>>) /\ OK(<<a, b>>) /\ OK(<<a>>)
    OBVIOUS
  <2>1. OK(<<a, b, c>>)
    OBVIOUS
  <2>2. OK(<<a, b>>)
    OBVIOUS
  <2>3. OK(<<a>>)
    OBVIOUS
  <2> QED  BY <2>1, <2>2, <2>3
<1> HIDE DEF Own, OK
<1>5. ASSUME i \in {1, 2} PROVE \E x \in States :
         T[i].steps = <<To(s, "cal_laser", "B"), To(s, "forward_retro", "A"), To(s, "ao_fei", x)>>
  BY <1>1, <1>3, <1>5 DEF RetroRoutes, Route
<1>6. ASSUME i \in {3, 4, 5, 6} PROVE \E x, y \in States :
         T[i].steps = <<To(s, "cal_laser", x), To(s, "ao_fei", y)>>
  BY <1>1, <1>3, <1>6 DEF CalRoutes, LaserRoutes, Route
<1>7. ASSUME i \in {7, 8} PROVE \E x \in States : T[i].steps = <<To(s, "mm_sm", x)>>
  BY <1>1, <1>3, <1>7 DEF PhotodiodeRoutes, Route
<1>8. ASSUME i \in {1, 2} PROVE OK(T[i].steps)
  BY <1>2, <1>3, <1>4, <1>5, <1>8
<1>9. ASSUME i \in {3, 4, 5, 6} PROVE OK(T[i].steps)
  <2>1. PICK x, y \in States : T[i].steps = <<To(s, "cal_laser", x), To(s, "ao_fei", y)>>
    BY <1>6, <1>9
  <2>2. To(s, "cal_laser", x) \in Own /\ To(s, "ao_fei", y) \in Own
    BY <1>2
  <2> QED  BY <1>4, <2>1, <2>2
<1>10. ASSUME i \in {7, 8} PROVE OK(T[i].steps)
  BY <1>2, <1>3, <1>4, <1>7, <1>10
<1>11. i \in {1, 2, 3, 4, 5, 6, 7, 8}
  OBVIOUS
<1> QED  BY <1>8, <1>9, <1>10, <1>11 DEF OK

\* An entry of the whole table and its place on its side.
LEMMA EntryOfSide ==
    ASSUME Table = AllRoutes, NEW i \in 1..Len(Table)
    PROVE  \/ i \in 1..8 /\ Table[i] = SideRoutes("yj")[i]
           \/ i - 8 \in 1..8 /\ Table[i] = SideRoutes("hk")[i - 8]
<1>1. /\ Len(Table) = 16
      /\ \A k \in 1..8 : Table[k] = SideRoutes("yj")[k]
      /\ \A k \in 1..8 : Table[8 + k] = SideRoutes("hk")[k]
  BY WholeTable
<1>2. i \in 1..8 \/ (i - 8 \in 1..8 /\ 8 + (i - 8) = i)
  BY <1>1
<1> QED  BY <1>1, <1>2

\* Three groups for each side.
DeviceGroup == [i \in 1..16 |-> IF i \in 1..8 THEN SideGroup(i) ELSE 3 + SideGroup(i - 8)]

\* So at most six routes of the sixteen are in position together.
LEMMA DevicesGrouped ==
    ASSUME Table = AllRoutes
    PROVE  Grouped(DeviceGroup, 6)
<1>1. Len(Table) = 16
  BY WholeTable
<1>2. \A k : SideGroup(k) \in 1..3
  BY DEF SideGroup
<1>3. DeviceGroup \in [1..16 -> 1..6]
  <2>1. \A i \in 1..16 : (IF i \in 1..8 THEN SideGroup(i) ELSE 3 + SideGroup(i - 8)) \in 1..6
    BY <1>2
  <2> QED  BY <2>1 DEF DeviceGroup
<1>4. ASSUME NEW i \in 1..16, NEW j \in 1..16, DeviceGroup[i] = DeviceGroup[j]
      PROVE  i = j \/ Exclude(Table[i], Table[j])
  <2>1. /\ DeviceGroup[i] = IF i \in 1..8 THEN SideGroup(i) ELSE 3 + SideGroup(i - 8)
        /\ DeviceGroup[j] = IF j \in 1..8 THEN SideGroup(j) ELSE 3 + SideGroup(j - 8)
    BY DEF DeviceGroup
  <2> DEFINE a == SideGroup(i)  b == SideGroup(j)  c == SideGroup(i - 8)  d == SideGroup(j - 8)
  <2>0. a \in 1..3 /\ b \in 1..3 /\ c \in 1..3 /\ d \in 1..3
    BY <1>2
  <2>2. CASE i \in 1..8
    <3>1. j \in 1..8 /\ SideGroup(i) = SideGroup(j)
      <4>1. a = IF j \in 1..8 THEN b ELSE 3 + d
        BY <1>4, <2>1, <2>2
      <4> HIDE DEF a, b, c, d
      <4>2. j \in 1..8 /\ a = b
        BY <2>0, <4>1
      <4> QED  BY <4>2 DEF a, b
    <3>2. Table[i] = SideRoutes("yj")[i] /\ Table[j] = SideRoutes("yj")[j]
      BY <1>1, <2>2, <3>1, EntryOfSide
    <3> QED  BY <2>2, <3>1, <3>2, SideExcludes
  <2>3. CASE i \notin 1..8
    <3>1. j \notin 1..8 /\ SideGroup(i - 8) = SideGroup(j - 8)
      <4>1. 3 + c = IF j \in 1..8 THEN b ELSE 3 + d
        BY <1>4, <2>1, <2>3
      <4> HIDE DEF a, b, c, d
      <4>2. j \notin 1..8 /\ c = d
        BY <2>0, <4>1
      <4> QED  BY <4>2 DEF c, d
    <3>2. /\ i - 8 \in 1..8 /\ Table[i] = SideRoutes("hk")[i - 8]
          /\ j - 8 \in 1..8 /\ Table[j] = SideRoutes("hk")[j - 8]
      BY <1>1, <2>3, <3>1, EntryOfSide
    <3>3. i - 8 = j - 8 \/ Exclude(Table[i], Table[j])
      BY <3>1, <3>2, SideExcludes
    <3> QED  BY <3>2, <3>3
  <2> QED  BY <2>2, <2>3
<1> QED  BY <1>1, <1>3, <1>4 DEF Grouped

\* Routes of devices.c with the same input belong to the same group of the same side.
LEMMA DevicesExclusive ==
    ASSUME Table = AllRoutes
    PROVE  Exclusive
<1> SUFFICES ASSUME NEW i \in 1..Len(Table), NEW j \in 1..Len(Table),
                    Table[i].input = Table[j].input
             PROVE  i = j \/ Exclude(Table[i], Table[j])
  BY DEF Exclusive
<1>1. PICK s \in Sides, k \in 1..8 : Table[i] = SideRoutes(s)[k] /\ i = k + (IF s = "yj" THEN 0 ELSE 8)
  BY EntryOfSide DEF Sides
<1>2. PICK t \in Sides, l \in 1..8 : Table[j] = SideRoutes(t)[l] /\ j = l + (IF t = "yj" THEN 0 ELSE 8)
  BY EntryOfSide DEF Sides
<1>3. s = t
  <2>1. Table[i].input[1] = s /\ Table[j].input[1] = t
    <3>1. SideRoutes(s)[k].input[1] = s
      BY SideInputs
    <3>2. SideRoutes(t)[l].input[1] = t
      BY SideInputs
    <3> QED  BY <1>1, <1>2, <3>1, <3>2
  <2> QED  BY <2>1
<1>4. SideGroup(k) = SideGroup(l)
  BY <1>1, <1>2, <1>3, SideInputs
<1>5. k = l \/ Exclude(Table[i], Table[j])
  BY <1>1, <1>2, <1>3, <1>4, SideExcludes
<1> QED  BY <1>1, <1>2, <1>3, <1>5

\* No route of devices.c turns a switch of the other side.
LEMMA DevicesOneSided ==
    ASSUME Table = AllRoutes, Switches = AllSwitches
    PROVE  OneSided
<1> SUFFICES ASSUME NEW i \in 1..Len(Table)
             PROVE  /\ Table[i].steps \in Seq(Turns) \ {<<>>}
                    /\ \A k \in 1..Len(Table[i].steps) :
                          Table[i].steps[k].switch[1] = Table[i].input[1]
  BY DEF OneSided
<1>1. PICK s \in Sides, n \in 1..8 : Table[i] = SideRoutes(s)[n]
  BY EntryOfSide DEF Sides
<1>2. Table[i].input[1] = s
  BY <1>1, SideInputs
<1>3. /\ Table[i].steps \in Seq(Turns) \ {<<>>}
      /\ \A k \in 1..Len(Table[i].steps) : Table[i].steps[k].switch[1] = s
  <2> DEFINE OneSide(r, side) ==
               /\ r.steps \in Seq(Turns) \ {<<>>}
               /\ \A k \in 1..Len(r.steps) : r.steps[k].switch[1] = side
  <2>1. \A side \in Sides : \A m \in 1..8 : OneSide(SideRoutes(side)[m], side)
    BY SideSteps
  <2> HIDE DEF OneSide
  <2>2. OneSide(Table[i], s)
    BY <1>1, <2>1
  <2> QED  BY <2>2 DEF OneSide
<1> QED  BY <1>2, <1>3

----------------------------------------------------------------------------
(***************************************************************************)
(* The theorems about the table of devices.c.                              *)
(***************************************************************************)

\* The inputs of the active routes are the keys of the JSON object that memsroute_get
\* answers with: none occurs twice, whatever order the switches of several
\* requests were turned in, and whichever of them were turned one by one.
THEOREM InputsAreKeys ==
    ASSUME Table = AllRoutes
    PROVE  Spec => []DistinctInputs
<1>1. ReportInv => DistinctInputs
  BY DevicesExclusive, ExclusiveSuffices
<1> QED  BY <1>1, ReportAlways, PTL

\* The array of mems_router_get_active_routes has room for all routes that can be
\* active together: of the sixteen, never more than six.
THEOREM ActiveRoutesFit ==
    ASSUME Table = AllRoutes,
           MEMS_ROUTER_MAX_ACTIVE_ROUTES \in Nat, MEMS_ROUTER_MAX_ACTIVE_ROUTES >= 6
    PROVE  Spec => []ActiveBound
<1>1. ReportInv => ActiveBound
  BY DevicesGrouped, GroupsSuffice
<1> QED  BY <1>1, ReportAlways, PTL

\* Requests for one side neither make nor break a route of the other, at none of
\* the steps that they take.
THEOREM SidesApart ==
    ASSUME Table = AllRoutes, Switches = AllSwitches, Addressable \subseteq Switches
    PROVE  Spec => SidesIndependent
<1>1. Init => SideInv
  BY DEF Init, Unknown, SideInv
<1>2. SideInv /\ [Next]_vars => SideInv'
  BY DevicesOneSided, SideStep
<1>3. SideInv /\ [Next]_vars =>
        [call = "set" /\ call' # "idle" =>
           \A i \in 1..Len(Table) :
              Table[i].input[1] # (IF route = 0 THEN Head(todo).switch ELSE Table[route].input)[1] =>
                 (InPosition(position, Table[i]) <=> InPosition(position', Table[i]))]_vars
  BY DevicesOneSided, OtherSideKept DEF Side
<1> QED  BY <1>1, <1>2, <1>3, PTL DEF Spec, SidesIndependent

----------------------------------------------------------------------------
(***************************************************************************)
(* What MemsRouter asks of its table.                                      *)
(***************************************************************************)

\* The table of devices.c fits the arrays of mems_switching.h, which hold
\* MEMS_ROUTER_MAX_ROUTES = 18 routes of at most MEMS_ROUTER_MAX_ROUTE_PATH = 5 steps:
\* there are 16 routes of one to three steps, and none turns the same switch twice.
\* Hence RouterAssumption and TableFits, from which MemsRouterProofs argues, hold of
\* the table of both sides.
THEOREM EveryRouteFits ==
    ASSUME Table = AllRoutes, Switches = AllSwitches
    PROVE  /\ Len(Table) = 16
           /\ \A i \in 1..Len(Table) :
                 /\ Table[i].steps \in Seq(Turns)
                 /\ Len(Table[i].steps) \in 1..3
                 /\ \A j, k \in 1..Len(Table[i].steps) :
                       Table[i].steps[j].switch = Table[i].steps[k].switch => j = k
<1> DEFINE Apart(steps) == \A j, k \in 1..Len(steps) : steps[j].switch = steps[k].switch => j = k
<1>1. Len(Table) = 16
  BY WholeTable
<1>2. ASSUME NEW s, NEW x, NEW y
      PROVE  LET r == <<To(s, "cal_laser", x), To(s, "forward_retro", "A"), To(s, "ao_fei", y)>>
             IN  Len(r) \in 1..3 /\ Apart(r)
  BY DEF To
<1>3. ASSUME NEW s, NEW x, NEW y
      PROVE  LET r == <<To(s, "cal_laser", x), To(s, "ao_fei", y)>>
             IN  Len(r) \in 1..3 /\ Apart(r)
  BY DEF To
<1>4. ASSUME NEW s, NEW x
      PROVE  LET r == <<To(s, "mm_sm", x)>> IN Len(r) \in 1..3 /\ Apart(r)
  BY DEF To
<1> HIDE DEF Apart
<1>5. ASSUME NEW i \in 1..Len(Table)
      PROVE  /\ Table[i].steps \in Seq(Turns)
             /\ Len(Table[i].steps) \in 1..3
             /\ Apart(Table[i].steps)
  <2>1. PICK s \in Sides, n \in 1..8 : Table[i] = SideRoutes(s)[n]
    BY EntryOfSide DEF Sides
  <2>2. PICK T : T = SideRoutes(s)
    OBVIOUS
  <2> DEFINE steps == Table[i].steps
  <2>0. steps = T[n].steps /\ steps \in Seq(Turns)
    BY <2>1, <2>2, DevicesOneSided DEF OneSided
  <2>3. /\ T[1] = RetroRoutes(s)[1]      /\ T[2] = RetroRoutes(s)[2]
        /\ T[3] = CalRoutes(s)[1]        /\ T[4] = CalRoutes(s)[2]
        /\ T[5] = LaserRoutes(s)[1]      /\ T[6] = LaserRoutes(s)[2]
        /\ T[7] = PhotodiodeRoutes(s)[1] /\ T[8] = PhotodiodeRoutes(s)[2]
    BY <2>2, SideTable
  <2>4. CASE n \in {1, 2}
    <3>1. \E y : T[n].steps =
             <<To(s, "cal_laser", "B"), To(s, "forward_retro", "A"), To(s, "ao_fei", y)>>
      BY <2>3, <2>4 DEF RetroRoutes, Route
    <3>2. Len(steps) \in 1..3 /\ Apart(steps)
      BY <1>2, <2>0, <3>1
    <3> QED  BY <2>0, <3>2
  <2>5. CASE n \in {3, 4, 5, 6}
    <3>1. \E x, y : T[n].steps = <<To(s, "cal_laser", x), To(s, "ao_fei", y)>>
      BY <2>3, <2>5 DEF CalRoutes, LaserRoutes, Route
    <3>2. Len(steps) \in 1..3 /\ Apart(steps)
      BY <1>3, <2>0, <3>1
    <3> QED  BY <2>0, <3>2
  <2>6. CASE n \in {7, 8}
    <3>1. \E x : T[n].steps = <<To(s, "mm_sm", x)>>
      BY <2>3, <2>6 DEF PhotodiodeRoutes, Route
    <3>2. Len(steps) \in 1..3 /\ Apart(steps)
      BY <1>4, <2>0, <3>1
    <3> QED  BY <2>0, <3>2
  <2>7. n \in {1, 2, 3, 4, 5, 6, 7, 8}
    OBVIOUS
  <2> QED  BY <2>4, <2>5, <2>6, <2>7
<1> QED  BY <1>1, <1>5 DEF Apart

=============================================================================
