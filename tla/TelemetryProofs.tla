--------------------------- MODULE TelemetryProofs ---------------------------
(***************************************************************************)
(* Proof that telemetry keeps its order, for every depth of the queues.    *)
(* Samples are numbered as they are taken, so the order is that of numbers *)
(* along photodiode_queue, the work item, outbound_queue and the main      *)
(* thread.  TelemetryInOrder is inductive, given the types.                *)
(***************************************************************************)
EXTENDS CommandPipelineProofs

\* Numbers of samples can be compared.
LEMMA SampleNumbers ==
    ASSUME TypeOK
    PROVE  /\ sampleNo \in Nat
           /\ Len(photodiode_queue) \in Nat
           /\ \A i \in 1..Len(photodiode_queue) : photodiode_queue[i].id \in Nat
           /\ workOm.id \in Nat /\ om.id \in Nat
           /\ Len(outbound_queue) \in Nat
           /\ \A i \in 1..Len(outbound_queue) : outbound_queue[i].id \in Nat
<1>1. \A m \in Sample : m.id \in Nat
  BY BoundAssumption DEF Sample, Samples
<1>2. /\ Len(photodiode_queue) \in Nat
      /\ \A i \in 1..Len(photodiode_queue) : photodiode_queue[i].id \in Nat
  BY <1>1, ElementOfSeq, LenProperties DEF TypeOK, QueuesOK
<1>3. workOm.id \in Nat
  BY <1>1 DEF TypeOK, ThreadsOK, NoMsg
<1>4. sampleNo \in Nat
  BY BoundAssumption DEF TypeOK, ThreadsOK, Samples
<1> QED  BY <1>2, <1>3, <1>4, Numbers

\* No step lets a younger sample overtake on the way to the work item, nor one that
\* has left it.
LEMMA SampledStep ==
    ASSUME TypeOK, SampledInOrder, [Next]_vars
    PROVE  /\ SampledInOrder'
           /\ \A k \in Nat : OlderThanTaken(k) => OlderThanTaken(k)'
<1> DEFINE q == photodiode_queue
<1> USE DEF SampledInOrder, OlderThanQueued, OlderThanTaken
<1>1. CASE UNCHANGED <<photodiode_queue, workOm, sampleNo>>
  BY <1>1
<1>2. CASE PublishHandlerGet
  <2>1. CASE q = <<>>
    BY <1>1, <1>2, <2>1 DEF PublishHandlerGet, sampleVars
  <2>2. CASE q # <<>>
    <3>1. /\ workOm' = Head(q) /\ q' = Tail(q) /\ sampleNo' = sampleNo
      BY <1>2, <2>2 DEF PublishHandlerGet, sampleVars
    <3>2. /\ Len(q) \in Nat \ {0} /\ Len(q') = Len(q) - 1
          /\ workOm' = q[1]
          /\ \A i \in 1..Len(q') : q'[i] = q[i + 1]
      BY <2>2, <3>1, TakeFromQueue DEF TypeOK, QueuesOK
    <3>3. \A i \in 1..Len(q') : i + 1 \in 1..Len(q) /\ 1 < i + 1
      BY <3>2
    <3>4. 1 \in 1..Len(q)
      BY <3>2
    <3>5. \A i, j \in 1..Len(q') : i < j => i + 1 < j + 1
      BY <3>2
    <3> QED  BY <3>1, <3>2, <3>3, <3>4, <3>5, SampleNumbers
  <2> QED  BY <2>1, <2>2
<1>3. CASE PublishHandlerPut
  BY <1>3 DEF PublishHandlerPut, sampleVars, IsSample, NoMsg
<1>4. CASE TakeSample
  <2>1. sampleNo <= sampleNo' /\ UNCHANGED <<photodiode_queue, workOm>> /\ sampleNo' \in Nat
    BY <1>4, SampleNumbers, BoundAssumption DEF TakeSample, queues, workVars
  <2> QED  BY <2>1, SampleNumbers
<1>5. CASE SamplePut
  <2>1. CASE q' = q
    BY <1>1, <1>5, <2>1 DEF SamplePut, workVars
  <2>2. CASE q' = Append(q, [kind |-> "sample", id |-> sampleNo])
    <3> DEFINE m == [kind |-> "sample", id |-> sampleNo]
    <3>1. m \in Sample /\ m.id = sampleNo
      BY <1>5, MessageFields DEF SamplePut, TypeOK, ThreadsOK
    <3>2. /\ Len(q) \in Nat /\ Len(q') = Len(q) + 1
          /\ \A i \in 1..Len(q) : q'[i] = q[i]
          /\ q'[Len(q) + 1] = m
      BY <2>2, <3>1, AppendToQueue DEF TypeOK, QueuesOK
    <3>3. UNCHANGED <<workOm, sampleNo>>
      BY <1>5 DEF SamplePut, workVars
    <3>4. \A i \in 1..Len(q') : i # Len(q) + 1 => i \in 1..Len(q)
      BY <3>2
    <3>5. \A i, j \in 1..Len(q') : i < j => i \in 1..Len(q)
      BY <3>2
    <3>6. \A i \in 1..Len(q') : q'[i].id <= sampleNo
      BY <3>1, <3>2, <3>4, SampleNumbers
    <3>7. \A i, j \in 1..Len(q') : i < j => q'[i].id <= q'[j].id
      <4> SUFFICES ASSUME NEW i \in 1..Len(q'), NEW j \in 1..Len(q'), i < j
                   PROVE  q'[i].id <= q'[j].id
        OBVIOUS
      <4>1. i \in 1..Len(q) /\ q'[i] = q[i]
        BY <3>2, <3>5
      <4>2. CASE j = Len(q) + 1
        BY <3>1, <3>2, <4>1, <4>2
      <4>3. CASE j # Len(q) + 1
        BY <3>2, <3>4, <4>1, <4>3
      <4> QED  BY <4>2, <4>3
    <3>8. \A k \in Nat : OlderThanQueued(k) => OlderThanQueued(k)'
      BY <3>1, <3>2, <3>3, <3>4
    <3>9. IsSample(workOm) => workOm.id \in Nat
      BY SampleNumbers
    <3> QED  BY <3>3, <3>6, <3>7, <3>8, <3>9
  <2> QED  BY <1>5, <2>1, <2>2 DEF SamplePut
<1>6. CASE SamplePurge
  <2>1. q' = <<>> /\ UNCHANGED <<workOm, sampleNo>>
    BY <1>6 DEF SamplePurge, workVars
  <2> QED  BY <2>1
<1>7. CASE Reset
  <2>1. q' = <<>> /\ sampleNo' = sampleNo /\ ~IsSample(workOm')
    BY <1>7 DEF Reset, IsSample, NoMsg
  <2> QED  BY <2>1
<1> QED
  BY <1>1, <1>2, <1>3, <1>4, <1>5, <1>6, <1>7
  DEF Next, MainStep, ProcessStep, ExecutorStep, WorkStep, SampleStep, StartThreads, StartupFails,
      Reconnect, LoopTest, DrainGet, DrainEmpty, Publish, ProcessQuiet, ProcessError, DisconnectEvent,
      Receive, IgnoreCommand, RejectCommand, AcceptCommand, BusyCommand, ExecutorGet,
      ExecutorDispatch, ExecutorPut, PublishHandlerTimer, AdcReady,
      vars, queues, workVars, sampleVars

----------------------------------------------------------------------------
(***************************************************************************)
(* From the work item to mqtt_publish.                                     *)
(***************************************************************************)

\* A message put into outbound_queue keeps the samples in order if it is no sample,
\* or one that is younger than all that have left the work item.
LEMMA PutKeepsOrder ==
    ASSUME TypeOK, TelemetryInOrder, SampledInOrder',
           \A k \in Nat : OlderThanTaken(k) => OlderThanTaken(k)',
           om' = om,
           NEW e \in OutMsg, outbound_queue' = Append(outbound_queue, e),
           IsSample(e) =>
               /\ OlderThanTaken(e.id)'
               /\ \A k \in Nat : OlderThanTaken(k) => k <= e.id
    PROVE  TelemetryInOrder'
<1> USE DEF OlderThanTaken, OlderThanQueued
<1> DEFINE q == outbound_queue
<1>1. /\ Len(q) \in Nat /\ Len(q') = Len(q) + 1
      /\ \A i \in 1..Len(q) : q'[i] = q[i]
      /\ q'[Len(q) + 1] = e
  BY AppendToQueue DEF TypeOK, QueuesOK
<1>2. \A i \in 1..Len(q') : i # Len(q) + 1 => i \in 1..Len(q) /\ q'[i] = q[i]
  BY <1>1
<1>3. \A i, j \in 1..Len(q') : i < j => i \in 1..Len(q) /\ q'[i] = q[i]
  BY <1>1
<1>4. \A i \in 1..Len(q) : q[i].id \in Nat
  BY SampleNumbers
<1>5. \A i \in 1..Len(q') :
         IsSample(q'[i]) => /\ OlderThanTaken(q[i].id)'
                            /\ IsSample(om) => om.id <= q'[i].id
  <2> SUFFICES ASSUME NEW i \in 1..Len(q'), IsSample(q'[i])
               PROVE  /\ OlderThanTaken(q[i].id)'
                      /\ IsSample(om) => om.id <= q'[i].id
    OBVIOUS
  <2>1. CASE i = Len(q) + 1
    BY <1>1, <2>1, SampleNumbers DEF TelemetryInOrder
  <2>2. CASE i # Len(q) + 1
    BY <1>2, <1>4, <2>2 DEF TelemetryInOrder
  <2> QED  BY <2>1, <2>2
<1>6. \A i, j \in 1..Len(q') :
         i < j /\ IsSample(q'[i]) /\ IsSample(q'[j]) => q'[i].id <= q'[j].id
  <2> SUFFICES ASSUME NEW i \in 1..Len(q'), NEW j \in 1..Len(q'),
                      i < j, IsSample(q'[i]), IsSample(q'[j])
               PROVE  q'[i].id <= q'[j].id
    OBVIOUS
  <2>1. i \in 1..Len(q) /\ q'[i] = q[i]
    BY <1>3
  <2>2. CASE j = Len(q) + 1
    BY <1>1, <1>4, <2>1, <2>2 DEF TelemetryInOrder
  <2>3. CASE j # Len(q) + 1
    BY <1>2, <2>1, <2>3 DEF TelemetryInOrder
  <2> QED  BY <2>2, <2>3
<1>7. IsSample(om') => OlderThanTaken(om.id)'
  BY SampleNumbers DEF TelemetryInOrder
<1> QED  BY <1>5, <1>6, <1>7 DEF TelemetryInOrder

\* Neither does a step that leaves outbound_queue alone, and publishes at most.
LEMMA QuietKeepsOrder ==
    ASSUME TypeOK, TelemetryInOrder, SampledInOrder',
           \A k \in Nat : OlderThanTaken(k) => OlderThanTaken(k)',
           outbound_queue' = outbound_queue,
           om' \in {om, NoMsg}
    PROVE  TelemetryInOrder'
<1> USE DEF OlderThanTaken, OlderThanQueued
<1>1. \A i \in 1..Len(outbound_queue) : outbound_queue[i].id \in Nat
  BY SampleNumbers
<1>2. IsSample(om') => om' = om /\ om.id \in Nat
  BY SampleNumbers DEF IsSample, NoMsg
<1> QED  BY <1>1, <1>2 DEF TelemetryInOrder

\* The main thread takes the oldest sample of outbound_queue; the executor's reply
\* that may take its place is no sample.
LEMMA DrainKeepsOrder ==
    ASSUME TypeOK, TelemetryInOrder, SampledInOrder',
           \A k \in Nat : OlderThanTaken(k) => OlderThanTaken(k)',
           DrainGet
    PROVE  TelemetryInOrder'
<1> USE DEF OlderThanTaken, OlderThanQueued
<1> DEFINE q == outbound_queue
           t == Tail(q)
<1>1. /\ Len(q) \in Nat \ {0} /\ Head(q) = q[1]
      /\ Len(t) \in Nat /\ Len(t) = Len(q) - 1
      /\ t \in Seq(OutMsg)
      /\ \A i \in 1..Len(t) : t[i] = q[i + 1]
  BY TakeFromQueue DEF DrainGet, TypeOK, QueuesOK
<1>2. om' = q[1]
  BY <1>1 DEF DrainGet
<1>3. \A i \in 1..Len(q') : IsSample(q'[i]) => i \in 1..Len(t) /\ q'[i] = t[i]
  <2>1. CASE q' = t
    BY <1>1, <2>1
  <2>2. CASE q' = Append(t, Reply(cmd)) /\ execPc = "blocked"
    <3>1. cmd \in Requests
      BY <2>2 DEF TypeOK, ThreadsOK
    <3>2. Reply(cmd) \in OutMsg /\ ~IsSample(Reply(cmd))
      BY <3>1, MessageFields DEF Reply, IsSample
    <3>3. /\ Len(q') = Len(t) + 1
          /\ \A i \in 1..Len(t) : q'[i] = t[i]
          /\ q'[Len(t) + 1] = Reply(cmd)
      BY <1>1, <2>2, <3>2, AppendToQueue
    <3>4. \A n \in Nat : \A i \in 1..(n + 1) : i # n + 1 => i \in 1..n
      OBVIOUS
    <3>5. \A i \in 1..Len(q') : i # Len(t) + 1 => i \in 1..Len(t)
      <4> HIDE DEF q, t
      <4> QED  BY <1>1, <3>3, <3>4
    <3> QED  BY <3>2, <3>3, <3>5
  <2> QED  BY <2>1, <2>2 DEF DrainGet
<1>4. /\ \A i \in 1..Len(t) : i + 1 \in 1..Len(q) /\ 1 < i + 1
      /\ \A i, j \in 1..Len(t) : i < j => i + 1 < j + 1
      /\ 1 \in 1..Len(q)
  BY <1>1
<1>5. \A i \in 1..Len(q) : q[i].id \in Nat
  BY SampleNumbers
<1>6. \A i \in 1..Len(q') :
         IsSample(q'[i]) => /\ OlderThanTaken(q[i].id)'
                            /\ IsSample(om') => om'.id <= q'[i].id
  <2> SUFFICES ASSUME NEW i \in 1..Len(q'), IsSample(q'[i])
               PROVE  /\ OlderThanTaken(q[i].id)'
                      /\ IsSample(om') => om'.id <= q'[i].id
    OBVIOUS
  <2>1. i + 1 \in 1..Len(q) /\ 1 < i + 1 /\ q'[i] = q[i + 1]
    BY <1>1, <1>3, <1>4
  <2>2. OlderThanTaken(q[i + 1].id) /\ q[i + 1].id \in Nat
    BY <1>5, <2>1 DEF TelemetryInOrder
  <2>3. OlderThanTaken(q[i].id)'
    BY <2>1, <2>2
  <2>4. IsSample(om') => om'.id <= q'[i].id
    BY <1>2, <1>4, <2>1 DEF TelemetryInOrder
  <2> QED  BY <2>3, <2>4
<1>7. \A i, j \in 1..Len(q') :
         i < j /\ IsSample(q'[i]) /\ IsSample(q'[j]) => q'[i].id <= q'[j].id
  BY <1>1, <1>3, <1>4 DEF TelemetryInOrder
<1>8. IsSample(om') => OlderThanTaken(om.id)'
  BY <1>2, <1>4, <1>5 DEF TelemetryInOrder
<1> QED  BY <1>6, <1>7, <1>8 DEF TelemetryInOrder

\* Both sides together: the one that takes samples and the one that publishes them.
LEMMA TelemetryStep ==
    ASSUME TypeOK, TelemetryInOrder, [Next]_vars
    PROVE  TelemetryInOrder'
<1>1. /\ SampledInOrder'
      /\ \A k \in Nat : OlderThanTaken(k) => OlderThanTaken(k)'
  BY SampledStep DEF TelemetryInOrder
<1>2. CASE outbound_queue' = outbound_queue /\ om' \in {om, NoMsg}
  BY <1>1, <1>2, QuietKeepsOrder
<1>3. ASSUME NEW e \in OutMsg, ~IsSample(e), PutOutbound(e), om' = om
      PROVE  TelemetryInOrder'
  BY <1>1, <1>2, <1>3, PutKeepsOrder DEF PutOutbound
<1>4. CASE RejectCommand
  <2>1. received' \in Requests
    BY <1>4, BoundAssumption DEF RejectCommand, Receive, TypeOK, HistoryOK, Requests
  <2> DEFINE e == [kind |-> "invalid", id |-> received']
  <2>2. e \in OutMsg /\ ~IsSample(e)
    BY <2>1, MessageFields DEF NackKinds, IsSample
  <2>3. PutOutbound(e) /\ om' = om
    BY <1>4 DEF RejectCommand, Receive
  <2> HIDE DEF e
  <2> QED  BY <1>3, <2>2, <2>3
<1>5. CASE BusyCommand
  <2>1. received' \in Requests
    BY <1>5, BoundAssumption DEF BusyCommand, Receive, TypeOK, HistoryOK, Requests
  <2> DEFINE e == [kind |-> "busy", id |-> received']
  <2>2. e \in OutMsg /\ ~IsSample(e)
    BY <2>1, MessageFields DEF NackKinds, IsSample
  <2>3. PutOutbound(e) /\ om' = om
    BY <1>5 DEF BusyCommand, Receive
  <2> HIDE DEF e
  <2> QED  BY <1>3, <2>2, <2>3
<1>6. CASE ExecutorPut
  <2>1. cmd \in Requests
    BY <1>6 DEF ExecutorPut, TypeOK, ThreadsOK
  <2>2. Reply(cmd) \in OutMsg /\ ~IsSample(Reply(cmd))
    BY <2>1, MessageFields DEF Reply, IsSample
  <2>3. om' = om
    BY <1>6 DEF ExecutorPut, mainVars
  <2>4. CASE outbound_queue' = outbound_queue
    BY <1>2, <2>3, <2>4
  <2>5. CASE outbound_queue' = Append(outbound_queue, Reply(cmd))
    BY <1>1, <2>2, <2>3, <2>5, PutKeepsOrder
  <2> QED  BY <1>6, <2>4, <2>5 DEF ExecutorPut
<1>7. CASE PublishHandlerPut
  <2>1. om' = om
    BY <1>7 DEF PublishHandlerPut, mainVars
  <2>2. CASE outbound_queue' = outbound_queue
    BY <1>2, <2>1, <2>2
  <2>3. CASE outbound_queue' = Append(outbound_queue, workOm)
    <3>1. PICK e \in OutMsg : e = workOm /\ IsSample(e)
      BY <1>7 DEF PublishHandlerPut, TypeOK, ThreadsOK, OutMsg, Sample, IsSample
    <3>2. UNCHANGED <<photodiode_queue, sampleNo>> /\ workOm' = NoMsg
      BY <1>7 DEF PublishHandlerPut, sampleVars
    <3>3. OlderThanQueued(e.id)
      BY <3>1 DEF TelemetryInOrder, SampledInOrder
    <3>4. OlderThanTaken(e.id)'
      BY <3>2, <3>3 DEF OlderThanTaken, OlderThanQueued, IsSample, NoMsg
    <3>5. \A k \in Nat : OlderThanTaken(k) => k <= e.id
      BY <3>1 DEF OlderThanTaken
    <3> QED  BY <1>1, <2>1, <2>3, <3>1, <3>4, <3>5, PutKeepsOrder
  <2> QED  BY <1>7, <2>2, <2>3 DEF PublishHandlerPut, PutOutbound
<1>8. CASE DrainGet
  BY <1>1, <1>8, DrainKeepsOrder
<1>9. CASE Reset
  <2>1. outbound_queue' = <<>> /\ ~IsSample(om')
    BY <1>9 DEF Reset, IsSample, NoMsg
  <2> QED  BY <1>1, <2>1 DEF TelemetryInOrder
<1> QED
  BY <1>2, <1>4, <1>5, <1>6, <1>7, <1>8, <1>9
  DEF Next, MainStep, ProcessStep, ExecutorStep, WorkStep, SampleStep, StartThreads, StartupFails,
      Reconnect, LoopTest, DrainEmpty, Publish, ProcessQuiet, ProcessError, DisconnectEvent,
      Receive, IgnoreCommand, AcceptCommand, ExecutorGet, ExecutorDispatch,
      PublishHandlerTimer, PublishHandlerGet, AdcReady, TakeSample, SamplePut, SamplePurge,
      vars, queues, mainVars

\* Photodiode samples reach mqtt_publish in the order in which they were taken,
\* whatever the depths of the three queues, although each of the three hops may drop
\* samples (the purge, the full outbound_queue, the failed publish).
THEOREM TelemetryOrdered == Spec => []TelemetryInOrder
<1>1. Init => TelemetryInOrder
  BY DEF Init, TelemetryInOrder, SampledInOrder, OlderThanQueued, IsSample, NoMsg
<1>2. TypeOK /\ TelemetryInOrder /\ [Next]_vars => TelemetryInOrder'
  BY TelemetryStep
<1>3. Spec => []TypeOK
  BY TypeCorrect
<1> QED  BY <1>1, <1>2, <1>3, PTL DEF Spec

============================================================================
