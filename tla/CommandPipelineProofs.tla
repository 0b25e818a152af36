----------------------- MODULE CommandPipelineProofs -----------------------
(***************************************************************************)
(* Proofs about CommandPipeline for every depth of the queues and every    *)
(* number of requests and samples.                                         *)
(***************************************************************************)
EXTENDS CommandPipelineService, SequenceTheorems, FiniteSetTheorems, TLAPS

----------------------------------------------------------------------------
(***************************************************************************)
(* Queues and messages.                                                    *)
(***************************************************************************)

\* Appending to a queue keeps what is in it and adds one element at its end.
LEMMA AppendToQueue ==
    ASSUME NEW S, NEW q \in Seq(S), NEW e \in S
    PROVE  /\ Append(q, e) \in Seq(S)
           /\ Len(Append(q, e)) = Len(q) + 1
           /\ \A i \in 1..Len(q) : Append(q, e)[i] = q[i]
           /\ Append(q, e)[Len(q) + 1] = e
  OBVIOUS

\* Taking from a queue that is not empty returns its first element and moves
\* the others up.
LEMMA TakeFromQueue ==
    ASSUME NEW S, NEW q \in Seq(S), q # <<>>
    PROVE  /\ Len(q) \in Nat \ {0}
           /\ Head(q) \in S
           /\ Head(q) = q[1]
           /\ Tail(q) \in Seq(S)
           /\ Len(Tail(q)) = Len(q) - 1
           /\ \A i \in 1..Len(Tail(q)) : Tail(q)[i] = q[i + 1]
  BY HeadTailProperties, EmptySeq

\* The indices of a queue from which one element is taken and to which another
\* is appended.
LEMMA ShiftedIndices ==
    ASSUME NEW n \in Nat \ {0}
    PROVE  /\ \A i \in 1..n : i # n => i \in 1..(n - 1) /\ i + 1 \in 1..n
           /\ \A i \in 1..n : i # 1 => /\ i - 1 \in 1..(n - 1) /\ i - 1 \in 1..n
                                       /\ i - 1 # n /\ (i - 1) + 1 = i
           /\ 1 \in 1..n /\ n \in 1..n /\ \A i \in 1..n : i + 1 # 1
           /\ \A i, j \in 1..n : i < j => i # n
           /\ \A i, j \in 1..n : i < j /\ j # n => i + 1 < j + 1
  OBVIOUS

\* The kinds of messages are disjoint, and no message is NoMsg.
LEMMA MessageFields ==
    /\ \A m \in OutMsg :
          /\ m.kind \in ResponseKinds \cup {"sample"}
          /\ m.kind \in ResponseKinds => m.id \in Requests
          /\ m.kind = "sample" => m.id \in Samples
          /\ m # NoMsg
          /\ IsReply(m) => ~IsNack(m) /\ m = Reply(m.id)
    /\ \A r \in Requests : /\ Reply(r) \in OutMsg /\ IsReply(Reply(r)) /\ Reply(r).id = r
                           /\ ~IsNack(Reply(r))
    /\ \A r \in Requests, k \in NackKinds :
          LET m == [kind |-> k, id |-> r] IN
          m \in OutMsg /\ IsNack(m) /\ ~IsReply(m) /\ m.id = r
    /\ \A n \in Samples :
          [kind |-> "sample", id |-> n] \in Sample
    /\ \A m \in Sample : m \in OutMsg /\ m # NoMsg /\ ~IsReply(m) /\ ~IsNack(m)
    /\ ~IsReply(NoMsg) /\ ~IsNack(NoMsg) /\ NoMsg.kind \notin ResponseKinds
  BY DEF OutMsg, Response, Sample, ResponseKinds, NackKinds, NoMsg, Reply, IsReply, IsNack

----------------------------------------------------------------------------
(***************************************************************************)
(* Type correctness.  accepted and done are bounded by received because    *)
(* every message is that of a request that has been received (Membership). *)
(***************************************************************************)
LEMMA InitTypeOK == Init => TypeOK
<1> SUFFICES ASSUME Init PROVE TypeOK
  OBVIOUS
<1>1. QueuesOK
  BY EmptySeq, DepthAssumption DEF Init, QueuesOK
<1>2. ThreadsOK
  BY DEF Init, ThreadsOK
<1>3. HistoryOK
  BY BoundAssumption DEF Init, HistoryOK
<1> QED  BY <1>1, <1>2, <1>3 DEF TypeOK

\* The queues at their depths are all that an outbound put can change.
LEMMA PutOutboundType ==
    ASSUME QueuesOK, NEW m \in OutMsg, PutOutbound(m)
    PROVE  /\ outbound_queue' \in Seq(OutMsg)
           /\ Len(outbound_queue') <= OUTBOUND_DEPTH
  BY AppendToQueue, DepthAssumption DEF QueuesOK, PutOutbound

\* The request that arrives has the next number.
LEMMA ReceivedNext ==
    ASSUME TypeOK, IgnoreCommand \/ RejectCommand \/ AcceptCommand \/ BusyCommand
    PROVE  /\ received \in Nat /\ received' = received + 1
           /\ received' \in Requests /\ received' # 0
           /\ 1..received \subseteq 1..received'
           /\ received' \in 1..received' /\ received' \notin 1..received
           /\ \A r \in 1..received : r < received'
<1>1. received' = received + 1 /\ received < MaxRequests
  BY DEF IgnoreCommand, RejectCommand, AcceptCommand, BusyCommand, Receive
<1>2. received \in 0..MaxRequests
  BY DEF TypeOK, HistoryOK
<1> QED  BY <1>1, <1>2, BoundAssumption DEF Requests

\* A put only happens where there is room, the one a get serves included.
LEMMA NextQueuesOK ==
    ASSUME TypeOK, [Next]_vars
    PROVE  QueuesOK'
<1> USE DepthAssumption, BoundAssumption
<1>1. CASE UNCHANGED queues
  BY <1>1 DEF TypeOK, QueuesOK, queues
<1>2. CASE DrainGet
  <2>1. /\ Tail(outbound_queue) \in Seq(OutMsg)
        /\ Len(Tail(outbound_queue)) < OUTBOUND_DEPTH
        /\ Len(Tail(outbound_queue)) \in Nat
    BY <1>2, TakeFromQueue DEF TypeOK, QueuesOK, DrainGet
  <2>2. CASE execPc = "blocked"
    <3>1. Reply(cmd) \in OutMsg
      BY <2>2, MessageFields DEF TypeOK, ThreadsOK
    <3>2. /\ Append(Tail(outbound_queue), Reply(cmd)) \in Seq(OutMsg)
          /\ Len(Append(Tail(outbound_queue), Reply(cmd))) <= OUTBOUND_DEPTH
      BY <2>1, <3>1, AppendToQueue
    <3>3. /\ outbound_queue' = Append(Tail(outbound_queue), Reply(cmd))
          /\ inbound_queue' = inbound_queue /\ photodiode_queue' = photodiode_queue
      BY <1>2, <2>2 DEF DrainGet
    <3> QED  BY <3>2, <3>3 DEF TypeOK, QueuesOK
  <2>3. CASE execPc # "blocked"
    <3>1. /\ outbound_queue' = Tail(outbound_queue)
          /\ inbound_queue' = inbound_queue /\ photodiode_queue' = photodiode_queue
      BY <1>2, <2>3 DEF DrainGet
    <3> QED  BY <2>1, <3>1 DEF TypeOK, QueuesOK
  <2> QED  BY <2>2, <2>3
<1>3. CASE IgnoreCommand \/ RejectCommand \/ AcceptCommand \/ BusyCommand
  <2>1. received' \in Requests
    BY <1>3, ReceivedNext
  <2>2. photodiode_queue' = photodiode_queue
    BY <1>3 DEF IgnoreCommand, RejectCommand, AcceptCommand, BusyCommand, Receive
  <2>3. CASE IgnoreCommand
    BY <2>2, <2>3 DEF TypeOK, QueuesOK, IgnoreCommand
  <2>4. CASE RejectCommand
    <3>1. [kind |-> "invalid", id |-> received'] \in OutMsg
      BY <2>1, MessageFields DEF NackKinds
    <3> QED  BY <2>2, <2>4, <3>1, PutOutboundType DEF TypeOK, QueuesOK, RejectCommand
  <2>5. CASE BusyCommand
    <3>1. [kind |-> "busy", id |-> received'] \in OutMsg
      BY <2>1, MessageFields DEF NackKinds
    <3> QED  BY <2>2, <2>5, <3>1, PutOutboundType DEF TypeOK, QueuesOK, BusyCommand
  <2>6. CASE AcceptCommand
    BY <2>1, <2>2, <2>6, AppendToQueue DEF TypeOK, QueuesOK, AcceptCommand, execVars
  <2> QED  BY <1>3, <2>3, <2>4, <2>5, <2>6
<1>4. CASE ExecutorGet
  BY <1>4, TakeFromQueue DEF TypeOK, QueuesOK, ExecutorGet
<1>5. CASE ExecutorPut
  <2>1. Reply(cmd) \in OutMsg
    BY <1>5, MessageFields DEF TypeOK, ThreadsOK, ExecutorPut
  <2> QED  BY <1>5, <2>1, AppendToQueue DEF TypeOK, QueuesOK, ExecutorPut
<1>6. CASE PublishHandlerGet
  <2>1. photodiode_queue # <<>> =>
          /\ Tail(photodiode_queue) \in Seq(Sample)
          /\ Len(Tail(photodiode_queue)) <= PHOTODIODE_DEPTH
    BY TakeFromQueue DEF TypeOK, QueuesOK
  <2>2. /\ inbound_queue' = inbound_queue /\ outbound_queue' = outbound_queue
        /\ \/ photodiode_queue' = photodiode_queue
           \/ photodiode_queue # <<>> /\ photodiode_queue' = Tail(photodiode_queue)
    BY <1>6 DEF PublishHandlerGet
  <2> QED  BY <2>1, <2>2 DEF TypeOK, QueuesOK
<1>7. CASE PublishHandlerPut
  <2>1. workOm \in OutMsg
    BY <1>7, MessageFields DEF TypeOK, ThreadsOK, PublishHandlerPut
  <2> QED  BY <1>7, <2>1, PutOutboundType DEF TypeOK, QueuesOK, PublishHandlerPut
<1>8. CASE SamplePut
  <2>1. [kind |-> "sample", id |-> sampleNo] \in Sample
    BY <1>8, MessageFields DEF TypeOK, ThreadsOK, SamplePut
  <2>2. Len(photodiode_queue) < PHOTODIODE_DEPTH =>
          LET q == Append(photodiode_queue, [kind |-> "sample", id |-> sampleNo])
          IN  q \in Seq(Sample) /\ Len(q) <= PHOTODIODE_DEPTH
    BY <2>1, AppendToQueue DEF TypeOK, QueuesOK
  <2> QED  BY <1>8, <2>2 DEF TypeOK, QueuesOK, SamplePut
<1>9. CASE SamplePurge
  BY <1>9, EmptySeq DEF TypeOK, QueuesOK, SamplePurge
<1>10. CASE Reset
  BY <1>10, EmptySeq DEF QueuesOK, Reset
<1> QED
  BY <1>1, <1>2, <1>3, <1>4, <1>5, <1>6, <1>7, <1>8, <1>9, <1>10
  DEF Next, MainStep, ProcessStep, ExecutorStep, WorkStep, SampleStep, vars,
      StartThreads, StartupFails, Reconnect, LoopTest, DrainEmpty, Publish, ProcessQuiet,
      ProcessError, DisconnectEvent, ExecutorDispatch, PublishHandlerTimer, AdcReady, TakeSample

\* A thread takes up a message and puts it down, and is pended only in its put.
LEMMA NextThreadsOK ==
    ASSUME TypeOK, [Next]_vars
    PROVE  ThreadsOK'
<1> USE DEF TypeOK, ThreadsOK
<1>1. CASE UNCHANGED <<execVars, mainVars, workVars, sampleVars>>
  BY <1>1 DEF execVars, mainVars, workVars, sampleVars
<1>2. CASE \/ StartThreads \/ StartupFails \/ Reconnect \/ LoopTest \/ DrainEmpty
           \/ ProcessQuiet \/ ProcessError \/ DisconnectEvent
  BY <1>2 DEF StartThreads, StartupFails, Reconnect, LoopTest, DrainEmpty, ProcessQuiet,
              ProcessError, DisconnectEvent, execVars, workVars, sampleVars
<1>3. CASE DrainGet
  <2>1. om' \in OutMsg /\ om' # NoMsg
    BY <1>3, TakeFromQueue, MessageFields DEF DrainGet, QueuesOK
  <2>2. CASE execPc = "blocked"
    BY <1>3, <2>1, <2>2 DEF DrainGet, workVars, sampleVars
  <2>3. CASE execPc # "blocked"
    BY <1>3, <2>1, <2>3 DEF DrainGet, execVars, workVars, sampleVars
  <2> QED  BY <2>2, <2>3
<1>4. ASSUME NEW stillUp \in BOOLEAN, Publish(stillUp)
      PROVE  ThreadsOK'
  BY <1>4 DEF Publish, execVars, workVars, sampleVars
<1>5. CASE IgnoreCommand \/ RejectCommand \/ BusyCommand
  BY <1>5 DEF IgnoreCommand, RejectCommand, BusyCommand, Receive, execVars, workVars, sampleVars
<1>6. CASE AcceptCommand
  <2>1. received' \in Requests /\ received' # NoCmd
    BY <1>6, ReceivedNext DEF NoCmd
  <2>2. CASE execPc = "wait"
    BY <1>6, <2>1, <2>2 DEF AcceptCommand, Receive, workVars, sampleVars
  <2>3. CASE execPc # "wait"
    BY <1>6, <2>3 DEF AcceptCommand, Receive, execVars, workVars, sampleVars
  <2> QED  BY <2>2, <2>3
<1>7. CASE ExecutorGet
  <2>1. CASE inbound_queue # <<>>
    <3>1. Head(inbound_queue) \in Requests
      BY <2>1, TakeFromQueue DEF QueuesOK
    <3>2. Head(inbound_queue) # NoCmd
      BY <3>1 DEF Requests, NoCmd
    <3> QED  BY <1>7, <2>1, <3>1, <3>2 DEF ExecutorGet, mainVars, workVars, sampleVars
  <2>2. CASE inbound_queue = <<>>
    BY <1>7, <2>2 DEF ExecutorGet, mainVars, workVars, sampleVars
  <2> QED  BY <2>1, <2>2
<1>8. CASE ExecutorDispatch
  BY <1>8 DEF ExecutorDispatch, mainVars, workVars, sampleVars
<1>9. CASE ExecutorPut
  BY <1>9 DEF ExecutorPut, mainVars, workVars, sampleVars
<1>10. CASE PublishHandlerGet
  <2>1. CASE photodiode_queue # <<>>
    <3>1. Head(photodiode_queue) \in Sample /\ Head(photodiode_queue) # NoMsg
      BY <2>1, TakeFromQueue, MessageFields DEF QueuesOK
    <3> QED  BY <1>10, <2>1, <3>1 DEF PublishHandlerGet, execVars, mainVars, sampleVars
  <2>2. CASE photodiode_queue = <<>>
    BY <1>10, <2>2 DEF PublishHandlerGet, execVars, mainVars, sampleVars
  <2> QED  BY <2>1, <2>2
<1>11. CASE PublishHandlerTimer \/ PublishHandlerPut
  BY <1>11 DEF PublishHandlerTimer, PublishHandlerPut, execVars, mainVars, sampleVars
<1>12. CASE AdcReady \/ SamplePut \/ SamplePurge
  BY <1>12 DEF AdcReady, SamplePut, SamplePurge, execVars, mainVars, workVars
<1>13. CASE TakeSample
  BY <1>13, BoundAssumption DEF TakeSample, Samples, execVars, mainVars, workVars
<1>14. CASE Reset
  BY <1>14 DEF Reset
<1> QED
  BY <1>1, <1>2, <1>3, <1>4, <1>5, <1>6, <1>7, <1>8, <1>9, <1>10, <1>11, <1>12, <1>13, <1>14
  DEF Next, MainStep, ProcessStep, ExecutorStep, WorkStep, SampleStep, vars

\* What has been accepted, refused and published is numbered within the bounds.
LEMMA NextHistoryOK ==
    ASSUME TypeOK, Membership, [Next]_vars
    PROVE  HistoryOK'
<1>1. CASE UNCHANGED history
  BY <1>1 DEF TypeOK, HistoryOK, history
<1>2. CASE IgnoreCommand \/ RejectCommand \/ AcceptCommand \/ BusyCommand
  <2>1. /\ received' \in 0..MaxRequests
        /\ 1..received \subseteq 1..received' /\ received' \in 1..received'
    BY <1>2, ReceivedNext DEF Requests
  <2>2. accepted' \subseteq accepted \cup {received'} /\ done' = done
    BY <1>2 DEF IgnoreCommand, RejectCommand, AcceptCommand, BusyCommand, Receive
  <2> QED  BY <2>1, <2>2 DEF TypeOK, HistoryOK
<1>3. ASSUME NEW stillUp \in BOOLEAN, Publish(stillUp)
      PROVE  HistoryOK'
  <2>1. om.kind \in ResponseKinds => om.id \in 1..received
    BY DEF TypeOK, HistoryOK, Membership, IsReply, IsNack, ResponseKinds
  <2> QED  BY <1>3, <2>1 DEF TypeOK, HistoryOK, Publish
<1>4. CASE Reset
  BY <1>4 DEF Reset, TypeOK, HistoryOK
<1> QED
  BY <1>1, <1>2, <1>3, <1>4
  DEF Next, MainStep, ProcessStep, ExecutorStep, WorkStep, SampleStep, vars,
      StartThreads, StartupFails, Reconnect, LoopTest, DrainGet, DrainEmpty, ProcessQuiet,
      ProcessError, DisconnectEvent, ExecutorGet, ExecutorDispatch, ExecutorPut,
      PublishHandlerTimer, PublishHandlerGet, PublishHandlerPut, AdcReady, TakeSample,
      SamplePut, SamplePurge

\* Together: every step keeps the types.
LEMMA NextTypeOK ==
    ASSUME TypeOK, Membership, [Next]_vars
    PROVE  TypeOK'
  BY NextQueuesOK, NextThreadsOK, NextHistoryOK DEF TypeOK

----------------------------------------------------------------------------
(***************************************************************************)
(* The executor sleeps only on an empty inbound_queue or a full            *)
(* outbound_queue: whoever could end the wait moves a message at once.     *)
(***************************************************************************)
LEMMA NextNoMissedWakeup ==
    ASSUME TypeOK, NoMissedWakeup, [Next]_vars
    PROVE  NoMissedWakeup'
<1> USE DepthAssumption DEF NoMissedWakeup
<1>1. CASE UNCHANGED <<inbound_queue, outbound_queue, execPc>>
  BY <1>1
<1>2. CASE StartThreads
  BY <1>2 DEF StartThreads
<1>3. CASE DrainGet
  BY <1>3 DEF DrainGet, execVars
<1>4. CASE IgnoreCommand \/ RejectCommand \/ BusyCommand
  BY <1>4 DEF IgnoreCommand, RejectCommand, BusyCommand, PutOutbound, execVars, TypeOK, QueuesOK
<1>5. CASE AcceptCommand
  BY <1>5 DEF AcceptCommand, execVars
<1>6. CASE ExecutorGet \/ ExecutorDispatch
  BY <1>6 DEF ExecutorGet, ExecutorDispatch
<1>7. CASE ExecutorPut
  BY <1>7 DEF ExecutorPut, TypeOK, QueuesOK
<1>8. CASE PublishHandlerPut
  BY <1>8 DEF PublishHandlerPut, PutOutbound, execVars, TypeOK, QueuesOK
<1>9. CASE Reset
  BY <1>9 DEF Reset
<1> QED
  BY <1>1, <1>2, <1>3, <1>4, <1>5, <1>6, <1>7, <1>8, <1>9
  DEF Next, MainStep, ProcessStep, ExecutorStep, WorkStep, SampleStep, vars, queues, execVars,
      StartupFails, Reconnect, LoopTest, DrainEmpty, Publish, ProcessQuiet, ProcessError,
      DisconnectEvent, PublishHandlerTimer, PublishHandlerGet, AdcReady, TakeSample,
      SamplePut, SamplePurge

----------------------------------------------------------------------------
(***************************************************************************)
(* The order of the requests along the pipeline, and that none is missing. *)
(***************************************************************************)
OrderInv == Membership /\ CommandOrder /\ OutboundOrder /\ MainOrder /\ DoneOrder /\ Coverage

USE DEF OrderInv

\* The numbers that the invariant compares are natural numbers, and those of
\* commands are not NoCmd.
LEMMA Numbers ==
    ASSUME TypeOK
    PROVE  /\ \A i \in 1..Len(inbound_queue) : inbound_queue[i] \in Nat
           /\ Len(inbound_queue) \in Nat
           /\ cmd \in Nat
           /\ \A i \in 1..Len(outbound_queue) :
                 outbound_queue[i] \in OutMsg /\ outbound_queue[i].id \in Nat
           /\ Len(outbound_queue) \in Nat
           /\ om.id \in Nat
           /\ received \in Nat
           /\ \A r \in accepted \cup done : r \in 1..received /\ r \in Nat /\ r # NoCmd
<1>1. \A r \in Requests : r \in Nat
  BY DEF Requests
<1>2. /\ \A i \in 1..Len(inbound_queue) : inbound_queue[i] \in Nat
      /\ Len(inbound_queue) \in Nat
  BY <1>1, ElementOfSeq, LenProperties DEF TypeOK, QueuesOK
<1>3. \A m \in OutMsg : m.id \in Nat
  BY BoundAssumption DEF OutMsg, Response, Sample, Requests, Samples
<1>4. /\ \A i \in 1..Len(outbound_queue) :
            outbound_queue[i] \in OutMsg /\ outbound_queue[i].id \in Nat
      /\ Len(outbound_queue) \in Nat
  BY <1>3, ElementOfSeq, LenProperties DEF TypeOK, QueuesOK
<1>5. om.id \in Nat
  BY <1>3 DEF TypeOK, ThreadsOK, NoMsg
<1>6. cmd \in Nat
  BY <1>1 DEF TypeOK, ThreadsOK, NoCmd
<1>7. /\ received \in Nat
      /\ \A r \in accepted \cup done : r \in 1..received /\ r \in Nat /\ r # NoCmd
  BY BoundAssumption DEF TypeOK, HistoryOK, NoCmd
<1> QED  BY <1>2, <1>4, <1>5, <1>6, <1>7

\* Without a message anywhere nothing is out of order.
LEMMA InitOrderInv == Init => OrderInv
  BY MessageFields
  DEF Init, Membership, CommandOrder, OutboundOrder, MainOrder, DoneOrder, Coverage

\* Most steps touch no request at all.
LEMMA KeepOrderInv ==
    ASSUME OrderInv,
           UNCHANGED <<inbound_queue, outbound_queue, cmd, om, received, accepted, done>>
    PROVE  OrderInv'
  BY DEF Membership, CommandOrder, OutboundOrder, MainOrder, DoneOrder, Coverage,
         AheadOfCommands, AheadOfReplies, AheadOfNacks

\* The executor fetches the head of inbound_queue.
LEMMA FetchOrderInv ==
    ASSUME TypeOK, OrderInv, cmd = NoCmd, inbound_queue # <<>>,
           cmd' = Head(inbound_queue), inbound_queue' = Tail(inbound_queue),
           UNCHANGED <<outbound_queue, om, received, accepted, done>>
    PROVE  OrderInv'
<1> DEFINE q == inbound_queue
<1>1. /\ Len(q) \in Nat \ {0} /\ Len(q') = Len(q) - 1
      /\ \A i \in 1..Len(q') : i + 1 \in 1..Len(q) /\ q'[i] = q[i + 1]
      /\ 1 \in 1..Len(q) /\ cmd' = q[1]
      /\ \A i \in 1..Len(q) : q[i] \in Nat
  BY TakeFromQueue, Numbers DEF TypeOK, QueuesOK
<1>2. Membership'
  BY <1>1 DEF Membership
<1>3. CommandOrder'
  BY <1>1 DEF CommandOrder
<1>4. \A r : AheadOfCommands(r) => AheadOfCommands(r)'
  BY <1>1 DEF AheadOfCommands
<1>5. OutboundOrder' /\ MainOrder' /\ DoneOrder'
  BY <1>4 DEF OutboundOrder, MainOrder, DoneOrder, AheadOfReplies, AheadOfNacks
<1>6. Coverage'
  <2>1. \A i \in 1..Len(q) : q[i] = cmd' \/ \E j \in 1..Len(q') : q'[j] = q[i]
    <3> SUFFICES ASSUME NEW i \in 1..Len(q), i # 1
                 PROVE  \E j \in 1..Len(q') : q'[j] = q[i]
      BY <1>1
    <3>1. i - 1 \in 1..Len(q') /\ q'[i - 1] = q[i]
      BY <1>1
    <3> QED  BY <3>1
  <2>2. \A r \in accepted \ done : r # cmd
    BY Numbers
  <2> QED  BY <2>1, <2>2 DEF Coverage
<1> QED  BY <1>2, <1>3, <1>5, <1>6

\* A message that is neither a reply nor a NACK joins outbound_queue.
LEMMA PutSampleOrderInv ==
    ASSUME TypeOK, OrderInv, NEW m \in OutMsg, ~IsReply(m), ~IsNack(m),
           outbound_queue' = Append(outbound_queue, m),
           UNCHANGED <<inbound_queue, cmd, om, received, accepted, done>>
    PROVE  OrderInv'
<1> DEFINE q == outbound_queue
<1>1. /\ Len(q) \in Nat /\ Len(q') = Len(q) + 1
      /\ \A i \in 1..Len(q) : i \in 1..Len(q') /\ q'[i] = q[i]
      /\ \A i \in 1..Len(q') : IsReply(q'[i]) \/ IsNack(q'[i]) => i \in 1..Len(q) /\ q'[i] = q[i]
  BY AppendToQueue, Numbers DEF TypeOK, QueuesOK
<1>2. Membership'
  BY <1>1 DEF Membership
<1>3. /\ \A r : AheadOfCommands(r) => AheadOfCommands(r)'
      /\ \A r : AheadOfReplies(r) => AheadOfReplies(r)'
      /\ \A r : AheadOfNacks(r) => AheadOfNacks(r)'
  BY <1>1 DEF AheadOfCommands, AheadOfReplies, AheadOfNacks
<1>4. CommandOrder' /\ MainOrder' /\ DoneOrder'
  BY <1>3 DEF CommandOrder, MainOrder, DoneOrder
<1>5. OutboundOrder'
  BY <1>1, <1>3 DEF OutboundOrder
<1>6. Coverage'
  BY <1>1 DEF Coverage
<1> QED  BY <1>2, <1>4, <1>5, <1>6

\* The executor's reply joins outbound_queue.
LEMMA PutReplyOrderInv ==
    ASSUME TypeOK, OrderInv, cmd # NoCmd, cmd' = NoCmd,
           outbound_queue' = Append(outbound_queue, Reply(cmd)),
           UNCHANGED <<inbound_queue, om, received, accepted, done>>
    PROVE  OrderInv'
<1> DEFINE q == outbound_queue
           n == Len(outbound_queue) + 1
<1>1. Reply(cmd) \in OutMsg /\ IsReply(Reply(cmd)) /\ ~IsNack(Reply(cmd)) /\ Reply(cmd).id = cmd
  BY MessageFields DEF TypeOK, ThreadsOK
<1>2. /\ n \in Nat /\ Len(q') = n
      /\ \A i \in 1..Len(q) : i \in 1..Len(q') /\ q'[i] = q[i]
      /\ n \in 1..Len(q') /\ q'[n] = Reply(cmd)
      /\ \A i \in 1..Len(q') : i # n => i \in 1..Len(q)
      /\ \A i, j \in 1..Len(q') : i < j => i \in 1..Len(q)
  BY <1>1, AppendToQueue, Numbers DEF TypeOK, QueuesOK
<1>3. Membership'
  BY <1>1, <1>2 DEF Membership
<1>4. /\ \A r : AheadOfCommands(r) => AheadOfCommands(r)'
      /\ \A i \in 1..Len(inbound_queue) : cmd < inbound_queue[i]
  BY DEF AheadOfCommands, CommandOrder
<1>5. \A r : AheadOfCommands(r) /\ AheadOfReplies(r) => AheadOfReplies(r)'
  BY <1>1, <1>2 DEF AheadOfCommands, AheadOfReplies
<1>6. \A r : AheadOfNacks(r) => AheadOfNacks(r)'
  BY <1>1, <1>2 DEF AheadOfNacks
<1>7. CommandOrder' /\ MainOrder' /\ DoneOrder'
  BY <1>4, <1>5, <1>6 DEF CommandOrder, MainOrder, DoneOrder
<1>8. OutboundOrder'
  <2>1. (\A i \in 1..Len(q) : IsReply(q[i]) => AheadOfCommands(q[i].id))'
    BY <1>1, <1>2, <1>4 DEF OutboundOrder, AheadOfCommands
  <2>2. (\A i, j \in 1..Len(q) :
          /\ i < j
          /\ \/ IsReply(q[i]) /\ IsReply(q[j])
             \/ IsNack(q[i]) /\ IsNack(q[j])
          => q[i].id < q[j].id)'
    BY <1>1, <1>2 DEF OutboundOrder, AheadOfCommands
  <2> QED  BY <2>1, <2>2 DEF OutboundOrder
<1>9. Coverage'
  BY <1>2 DEF Coverage
<1> QED  BY <1>3, <1>7, <1>8, <1>9

\* The main thread takes the head of outbound_queue.
LEMMA DrainOrderInv ==
    ASSUME TypeOK, OrderInv, om = NoMsg, outbound_queue # <<>>,
           om' = Head(outbound_queue), outbound_queue' = Tail(outbound_queue),
           UNCHANGED <<inbound_queue, cmd, received, accepted, done>>
    PROVE  OrderInv'
<1> DEFINE q == outbound_queue
<1>1. /\ Len(q) \in Nat \ {0} /\ Len(q') = Len(q) - 1
      /\ \A i \in 1..Len(q') : i + 1 \in 1..Len(q) /\ q'[i] = q[i + 1]
      /\ \A i \in 1..Len(q) : i # 1 => i - 1 \in 1..Len(q') /\ q'[i - 1] = q[i]
      /\ 1 \in 1..Len(q) /\ om' = q[1]
  BY TakeFromQueue DEF TypeOK, QueuesOK
<1>2. Membership'
  BY <1>1 DEF Membership
<1>3. /\ \A r : AheadOfCommands(r) => AheadOfCommands(r)'
      /\ \A r : AheadOfReplies(r) => AheadOfReplies(r)' /\ (IsReply(om') => r < om'.id)
      /\ \A r : AheadOfNacks(r) => AheadOfNacks(r)' /\ (IsNack(om') => r < om'.id)
  BY <1>1 DEF AheadOfCommands, AheadOfReplies, AheadOfNacks
<1>4. CommandOrder' /\ DoneOrder'
  BY <1>3 DEF CommandOrder, DoneOrder
<1>5. MainOrder'
  BY <1>1, <1>3 DEF MainOrder, OutboundOrder, AheadOfReplies, AheadOfNacks
<1>6. OutboundOrder'
  BY <1>1, <1>3 DEF OutboundOrder
<1>7. Coverage'
  <2>1. \A r : om # Reply(r)
    BY DEF NoMsg, Reply
  <2>2. \A i \in 1..Len(q) : q[i] = om' \/ \E j \in 1..Len(q') : q'[j] = q[i]
    BY <1>1
  <2> QED  BY <2>1, <2>2 DEF Coverage
<1> QED  BY <1>2, <1>4, <1>5, <1>6, <1>7

\* ... and the pended executor's reply takes the slot that becomes free.
LEMMA HandOffOrderInv ==
    ASSUME TypeOK, OrderInv, om = NoMsg, cmd # NoCmd, cmd' = NoCmd,
           Len(outbound_queue) \in Nat \ {0},
           om' = outbound_queue[1],
           Len(outbound_queue') = Len(outbound_queue),
           \A i \in 1..(Len(outbound_queue) - 1) : outbound_queue'[i] = outbound_queue[i + 1],
           outbound_queue'[Len(outbound_queue)] = Reply(cmd),
           UNCHANGED <<inbound_queue, received, accepted, done>>
    PROVE  OrderInv'
<1> DEFINE q == outbound_queue
           n == Len(outbound_queue)
           last == Reply(cmd)
<1>1. last \in OutMsg /\ IsReply(last) /\ ~IsNack(last) /\ last.id = cmd
  BY MessageFields DEF TypeOK, ThreadsOK
<1>2. n \in Nat \ {0} /\ om' = q[1]
  OBVIOUS
<1>3. Len(q') = n /\ q'[n] = last
  OBVIOUS
<1>4. /\ \A i \in 1..n : i # n => i + 1 \in 1..n /\ q'[i] = q[i + 1]
      /\ \A i \in 1..n : i # 1 => i - 1 \in 1..n /\ i - 1 # n /\ q'[i - 1] = q[i]
      /\ 1 \in 1..n /\ n \in 1..n
      /\ \A i, j \in 1..n : i < j => i # n
      /\ \A i, j \in 1..n : i < j /\ j # n => i + 1 < j + 1
      /\ \A i \in 1..n : i + 1 # 1
  BY <1>2, <1>3, ShiftedIndices
<1>5. Membership'
  <2>1. \A i \in 1..n :
          /\ IsReply(q'[i]) => q'[i].id \in accepted
          /\ IsNack(q'[i]) => q'[i].id \in (1..received) \ accepted
    BY <1>1, <1>3, <1>4 DEF Membership
  <2>2. /\ IsReply(om') => om'.id \in accepted
        /\ IsNack(om') => om'.id \in (1..received) \ accepted
    BY <1>2, <1>4 DEF Membership
  <2> QED  BY <1>3, <2>1, <2>2 DEF Membership
<1>6. /\ \A r : AheadOfCommands(r) => AheadOfCommands(r)'
      /\ \A i \in 1..Len(inbound_queue) : cmd < inbound_queue[i]
  BY DEF AheadOfCommands, CommandOrder
<1>7. \A r : AheadOfCommands(r) /\ AheadOfReplies(r) => AheadOfReplies(r)'
  BY <1>1, <1>3, <1>4 DEF AheadOfCommands, AheadOfReplies
<1>8. \A r : AheadOfNacks(r) => AheadOfNacks(r)'
  BY <1>1, <1>3, <1>4 DEF AheadOfNacks
<1>9. CommandOrder'
  BY DEF CommandOrder
<1>10. MainOrder'
  <2>1. IsReply(q[1]) => AheadOfCommands(q[1].id)
    BY <1>4 DEF OutboundOrder
  <2>2. ASSUME IsReply(q[1]), NEW i \in 1..n, IsReply(q'[i])
        PROVE  q[1].id < q'[i].id
    <3>1. CASE i = n
      BY <1>1, <1>3, <2>1, <2>2, <3>1 DEF AheadOfCommands
    <3>2. CASE i # n
      <4>1. i + 1 \in 1..n /\ q'[i] = q[i + 1] /\ 1 \in 1..n /\ 1 < i + 1
        BY <1>4, <2>2, <3>2
      <4> QED  BY <2>2, <4>1 DEF OutboundOrder
    <3> QED  BY <3>1, <3>2
  <2>3. ASSUME IsNack(q[1]), NEW i \in 1..n, IsNack(q'[i])
        PROVE  q[1].id < q'[i].id
    <3>1. i # n
      BY <1>1, <1>3, <2>3
    <3>2. i + 1 \in 1..n /\ q'[i] = q[i + 1] /\ 1 \in 1..n /\ 1 < i + 1
      BY <1>4, <2>3, <3>1
    <3> QED  BY <2>3, <3>2 DEF OutboundOrder
  <2> QED  BY <1>2, <1>3, <1>6, <2>1, <2>2, <2>3 DEF MainOrder, AheadOfReplies, AheadOfNacks
<1>11. DoneOrder'
  <2>1. \A r : AheadOfReplies(r) => (IsReply(om') => r < om'.id)
    BY <1>2, <1>4 DEF AheadOfReplies
  <2>2. \A r : AheadOfNacks(r) => (IsNack(om') => r < om'.id)
    BY <1>2, <1>4 DEF AheadOfNacks
  <2> QED  BY <1>6, <1>7, <1>8, <2>1, <2>2 DEF DoneOrder
<1>12. OutboundOrder'
  <2>1. ASSUME NEW i \in 1..n, IsReply(q'[i])
        PROVE  \A k \in 1..Len(inbound_queue) : q'[i].id < inbound_queue[k]
    BY <1>1, <1>3, <1>4, <1>6, <2>1 DEF OutboundOrder, AheadOfCommands
  <2>2. ASSUME NEW i \in 1..n, NEW j \in 1..n, i < j,
               \/ IsReply(q'[i]) /\ IsReply(q'[j])
               \/ IsNack(q'[i]) /\ IsNack(q'[j])
        PROVE  q'[i].id < q'[j].id
    <3>1. i + 1 \in 1..n /\ q'[i] = q[i + 1]
      BY <1>4, <2>2
    <3>2. CASE j = n
      BY <1>1, <1>3, <2>2, <3>1, <3>2 DEF OutboundOrder, AheadOfCommands
    <3>3. CASE j # n
      <4>1. j + 1 \in 1..n /\ q'[j] = q[j + 1] /\ i + 1 < j + 1
        BY <1>4, <2>2, <3>3
      <4> QED  BY <2>2, <3>1, <4>1 DEF OutboundOrder
    <3> QED  BY <3>2, <3>3
  <2> QED  BY <1>3, <2>1, <2>2 DEF OutboundOrder, AheadOfCommands
<1>13. Coverage'
  <2>1. \A r : om # Reply(r)
    BY DEF NoMsg, Reply
  <2>2. \A i \in 1..n : q[i] = om' \/ \E j \in 1..n : q'[j] = q[i]
    BY <1>2, <1>4
  <2>3. \E j \in 1..n : q'[j] = Reply(cmd)
    BY <1>3, <1>4
  <2> QED  BY <1>3, <2>1, <2>2, <2>3 DEF Coverage
<1> QED  BY <1>5, <1>9, <1>10, <1>11, <1>12, <1>13

\* The main thread gives its message to mqtt_publish.
LEMMA PublishOrderInv ==
    ASSUME TypeOK, OrderInv, om \in OutMsg, om' = NoMsg,
           done' = IF om.kind \in ResponseKinds THEN done \cup {om.id} ELSE done,
           UNCHANGED <<inbound_queue, outbound_queue, cmd, received, accepted>>
    PROVE  OrderInv'
<1>1. /\ ~IsReply(om') /\ ~IsNack(om')
      /\ om.kind \in ResponseKinds <=> IsReply(om) \/ IsNack(om)
      /\ ~(IsReply(om) /\ IsNack(om))
      /\ IsReply(om) => om = Reply(om.id)
  BY MessageFields DEF IsReply, IsNack, ResponseKinds
<1>2. Membership' /\ CommandOrder' /\ MainOrder'
  BY <1>1 DEF Membership, CommandOrder, MainOrder
<1>3. /\ \A r : AheadOfCommands(r) <=> AheadOfCommands(r)'
      /\ \A r : AheadOfReplies(r) <=> AheadOfReplies(r)'
      /\ \A r : AheadOfNacks(r) <=> AheadOfNacks(r)'
  BY DEF AheadOfCommands, AheadOfReplies, AheadOfNacks
<1>4. OutboundOrder'
  BY <1>3 DEF OutboundOrder
<1>5. DoneOrder'
  BY <1>1, <1>3 DEF DoneOrder, MainOrder, Membership
<1>6. Coverage'
  <2>1. \A r : om = Reply(r) => r = om.id /\ IsReply(om)
    BY DEF Reply, IsReply
  <2> QED  BY <1>1, <2>1 DEF Coverage
<1> QED  BY <1>2, <1>4, <1>5, <1>6

\* A request arrives and is not accepted: at most its NACK joins
\* outbound_queue.
LEMMA NackOrderInv ==
    ASSUME TypeOK, OrderInv, received' = received + 1, NEW k \in NackKinds,
           received' \in Requests,
           \/ outbound_queue' = outbound_queue
           \/ outbound_queue' = Append(outbound_queue, [kind |-> k, id |-> received']),
           UNCHANGED <<inbound_queue, cmd, om, accepted, done>>
    PROVE  OrderInv'
<1> DEFINE q == outbound_queue
           m == [kind |-> k, id |-> received']
<1>1. /\ received \in Nat /\ received' \notin accepted /\ received' \notin done
      /\ \A r \in 1..received : r \in 1..received' /\ r < received'
      /\ received' \in 1..received'
  BY Numbers
<1>2. \A r \in done : r \in 1..received
  BY Numbers
<1>3. CASE q' = q
  <2>1. Membership'
    BY <1>1, <1>3 DEF Membership
  <2> QED  BY <1>3, <2>1 DEF CommandOrder, OutboundOrder, MainOrder, DoneOrder, Coverage,
                             AheadOfCommands, AheadOfReplies, AheadOfNacks
<1>4. CASE q' = Append(q, m)
  <2>1. m \in OutMsg /\ IsNack(m) /\ ~IsReply(m) /\ m.id = received'
    BY MessageFields
  <2>2. /\ Len(q) \in Nat /\ Len(q') = Len(q) + 1
        /\ \A i \in 1..Len(q) : q'[i] = q[i]
        /\ q'[Len(q) + 1] = m
    BY <1>4, <2>1, AppendToQueue, Numbers DEF TypeOK, QueuesOK
  <2>3. /\ \A i \in 1..Len(q) : i \in 1..Len(q') /\ q'[i] = q[i]
        /\ \A i \in 1..Len(q') : i \in 1..Len(q) \/ q'[i] = m
        /\ \A i, j \in 1..Len(q') : i < j => i \in 1..Len(q)
    BY <2>2
  <2> HIDE DEF m
  <2>4. Membership'
    <3>1. \A i \in 1..Len(q') :
            /\ IsReply(q'[i]) => q'[i].id \in accepted
            /\ IsNack(q'[i]) => q'[i].id \in (1..received') \ accepted
      BY <1>1, <2>1, <2>3 DEF Membership
    <3> QED  BY <1>1, <3>1 DEF Membership
  <2>5. \A r : AheadOfReplies(r) => AheadOfReplies(r)'
    BY <2>1, <2>3 DEF AheadOfReplies
  <2>6. \A r \in 1..received : AheadOfNacks(r) => AheadOfNacks(r)'
    BY <1>1, <2>1, <2>3 DEF AheadOfNacks
  <2>7. \A r : AheadOfCommands(r) => AheadOfCommands(r)'
    BY DEF AheadOfCommands
  <2>8. CommandOrder' /\ MainOrder' /\ DoneOrder'
    BY <1>2, <2>5, <2>6, <2>7 DEF CommandOrder, MainOrder, DoneOrder, Membership
  <2>9. OutboundOrder'
    <3>1. (\A i \in 1..Len(q) : IsReply(q[i]) => AheadOfCommands(q[i].id))'
      BY <2>1, <2>3, <2>7 DEF OutboundOrder
    <3>2. (\A i, j \in 1..Len(q) :
            /\ i < j
            /\ \/ IsReply(q[i]) /\ IsReply(q[j])
               \/ IsNack(q[i]) /\ IsNack(q[j])
            => q[i].id < q[j].id)'
      BY <1>1, <2>1, <2>3 DEF OutboundOrder, Membership
    <3> QED  BY <3>1, <3>2 DEF OutboundOrder
  <2>10. Coverage'
    BY <2>3 DEF Coverage
  <2> QED  BY <2>4, <2>8, <2>9, <2>10
<1> QED  BY <1>3, <1>4

\* A request arrives and is accepted, by the pended executor or into
\* inbound_queue.
LEMMA AcceptOrderInv ==
    ASSUME TypeOK, OrderInv, received' = received + 1, received' \in Requests,
           accepted' = accepted \cup {received'},
           \/ /\ cmd = NoCmd /\ cmd' = received'
              /\ Len(inbound_queue) = 0 /\ Len(inbound_queue') = 0
           \/ /\ cmd' = cmd
              /\ Len(inbound_queue') = Len(inbound_queue) + 1
              /\ \A i \in 1..Len(inbound_queue) : inbound_queue'[i] = inbound_queue[i]
              /\ inbound_queue'[Len(inbound_queue) + 1] = received',
           UNCHANGED <<outbound_queue, om, done>>
    PROVE  OrderInv'
<1> DEFINE q == inbound_queue
           new == received + 1
<1>1. /\ received \in Nat /\ new \notin accepted /\ new \notin done
      /\ \A r \in 1..received : r \in 1..received' /\ r < new /\ r # new
      /\ \A r \in accepted \cup done : r \in 1..received
      /\ new # NoCmd
  BY Numbers DEF NoCmd
<1>2. /\ \A i \in 1..Len(q) : i \in 1..Len(q') /\ q'[i] = q[i]
      /\ \A i \in 1..Len(q') : i \in 1..Len(q) \/ q'[i] = new
      /\ \A i, j \in 1..Len(q') : i < j => i \in 1..Len(q)
  BY Numbers
<1>3. /\ cmd' = cmd \/ (cmd = NoCmd /\ cmd' = new /\ Len(q') = 0)
      /\ cmd' = new \/ \E i \in 1..Len(q') : q'[i] = new
  <2>1. Len(q) + 1 \in 1..(Len(q) + 1)
    BY Numbers
  <2> QED  BY <1>1, <2>1
<1>4. Membership'
  BY <1>1, <1>2, <1>3 DEF Membership
<1>5. CommandOrder'
  <2>1. /\ \A i \in 1..Len(q) : q[i] < new
        /\ cmd # NoCmd => cmd < new
    BY <1>1 DEF Membership
  <2> QED  BY <1>2, <1>3, <2>1 DEF CommandOrder
<1>6. \A r \in 1..received : AheadOfCommands(r) => AheadOfCommands(r)'
  BY <1>1, <1>2, <1>3 DEF AheadOfCommands
<1>7. OutboundOrder' /\ MainOrder'
  BY <1>1, <1>6 DEF OutboundOrder, MainOrder, Membership, AheadOfReplies, AheadOfNacks
<1>8. DoneOrder'
  BY <1>1, <1>6 DEF DoneOrder, AheadOfReplies, AheadOfNacks
<1>9. Coverage'
  <2>1. \A r \in accepted \ done : r # NoCmd
    BY Numbers
  <2> QED  BY <1>1, <1>2, <1>3, <2>1 DEF Coverage
<1> QED  BY <1>4, <1>5, <1>7, <1>8, <1>9

\* A reset leaves nothing on the line, and no accepted request without its response.
LEMMA ResetOrderInv ==
    ASSUME Reset
    PROVE  OrderInv'
<1>1. /\ inbound_queue' = <<>> /\ outbound_queue' = <<>> /\ cmd' = NoCmd /\ om' = NoMsg
      /\ accepted' = accepted \cap done /\ done' = done
  BY DEF Reset
<1>2. ~IsReply(om') /\ ~IsNack(om')
  BY <1>1, MessageFields
<1>3. 1..Len(inbound_queue') = {} /\ 1..Len(outbound_queue') = {}
  BY <1>1
<1> QED
  BY <1>1, <1>2, <1>3
  DEF Membership, CommandOrder, OutboundOrder, MainOrder, DoneOrder, Coverage,
      AheadOfCommands, AheadOfReplies, AheadOfNacks

\* Every step keeps the order along the line, action by action.
LEMMA NextOrderInv ==
    ASSUME TypeOK, NoMissedWakeup, OrderInv, [Next]_vars
    PROVE  OrderInv'
<1>1. CASE UNCHANGED <<inbound_queue, outbound_queue, cmd, om, received, accepted, done>>
  BY <1>1, KeepOrderInv
<1>2. CASE DrainGet
  <2>1. /\ om = NoMsg /\ outbound_queue # <<>> /\ om' = Head(outbound_queue)
        /\ UNCHANGED <<inbound_queue, received, accepted, done>>
    BY <1>2 DEF DrainGet, TypeOK, ThreadsOK, history
  <2>2. CASE execPc # "blocked"
    BY <1>2, <2>1, <2>2, DrainOrderInv DEF DrainGet, execVars
  <2>3. CASE execPc = "blocked"
    <3>1. /\ Len(outbound_queue) \in Nat \ {0} /\ om' = outbound_queue[1]
          /\ Tail(outbound_queue) \in Seq(OutMsg)
          /\ Len(Tail(outbound_queue)) = Len(outbound_queue) - 1
          /\ \A i \in 1..(Len(outbound_queue) - 1) :
                Tail(outbound_queue)[i] = outbound_queue[i + 1]
      BY <2>1, TakeFromQueue DEF TypeOK, QueuesOK
    <3>2. Reply(cmd) \in OutMsg /\ cmd # NoCmd
      BY <2>3, MessageFields DEF TypeOK, ThreadsOK
    <3>3. outbound_queue' = Append(Tail(outbound_queue), Reply(cmd)) /\ cmd' = NoCmd
      BY <1>2, <2>3 DEF DrainGet
    <3>4. /\ Len(outbound_queue') = Len(Tail(outbound_queue)) + 1
          /\ \A i \in 1..Len(Tail(outbound_queue)) :
                outbound_queue'[i] = Tail(outbound_queue)[i]
          /\ outbound_queue'[Len(Tail(outbound_queue)) + 1] = Reply(cmd)
      BY <3>1, <3>2, <3>3, AppendToQueue
    <3>5. /\ Len(outbound_queue') = Len(outbound_queue)
          /\ \A i \in 1..(Len(outbound_queue) - 1) :
                outbound_queue'[i] = outbound_queue[i + 1]
          /\ outbound_queue'[Len(outbound_queue)] = Reply(cmd)
      BY <3>1, <3>4
    <3> QED  BY <2>1, <3>1, <3>2, <3>3, <3>5, HandOffOrderInv
  <2> QED  BY <2>2, <2>3
<1>3. ASSUME NEW stillUp \in BOOLEAN, Publish(stillUp)
      PROVE  OrderInv'
  BY <1>3, PublishOrderInv DEF Publish, TypeOK, ThreadsOK, queues, execVars
<1>4. CASE IgnoreCommand \/ RejectCommand \/ BusyCommand
  <2>1. received' = received + 1 /\ received' \in Requests
    BY <1>4, ReceivedNext
  <2>2. /\ UNCHANGED <<inbound_queue, cmd, om, accepted, done>>
        /\ \E k \in NackKinds :
              \/ outbound_queue' = outbound_queue
              \/ outbound_queue' = Append(outbound_queue, [kind |-> k, id |-> received'])
    BY <1>4 DEF IgnoreCommand, RejectCommand, BusyCommand, Receive, PutOutbound, execVars,
                NackKinds
  <2> QED  BY <2>1, <2>2, NackOrderInv
<1>5. CASE AcceptCommand
  <2>1. received' = received + 1 /\ received' \in Requests
    BY <1>5, ReceivedNext
  <2>2. accepted' = accepted \cup {received'} /\ UNCHANGED <<outbound_queue, om, done>>
    BY <1>5 DEF AcceptCommand, Receive
  <2>3. CASE execPc = "wait"
    <3>1. cmd = NoCmd /\ inbound_queue = <<>> /\ Len(inbound_queue) = 0
      BY <2>3, EmptySeq DEF TypeOK, ThreadsOK, NoMissedWakeup
    <3>2. cmd' = received' /\ inbound_queue' = inbound_queue
      BY <1>5, <2>3 DEF AcceptCommand
    <3> QED  BY <2>1, <2>2, <3>1, <3>2, AcceptOrderInv
  <2>4. CASE execPc # "wait"
    <3>1. inbound_queue' = Append(inbound_queue, received') /\ cmd' = cmd
      BY <1>5, <2>4 DEF AcceptCommand, execVars
    <3>2. /\ Len(inbound_queue') = Len(inbound_queue) + 1
          /\ \A i \in 1..Len(inbound_queue) : inbound_queue'[i] = inbound_queue[i]
          /\ inbound_queue'[Len(inbound_queue) + 1] = received'
      BY <2>1, <3>1, AppendToQueue DEF TypeOK, QueuesOK
    <3> QED  BY <2>1, <2>2, <3>1, <3>2, AcceptOrderInv
  <2> QED  BY <2>3, <2>4
<1>6. CASE ExecutorGet
  <2>1. UNCHANGED <<outbound_queue, om, received, accepted, done>> /\ cmd = NoCmd
    BY <1>6 DEF ExecutorGet, mainVars, history, TypeOK, ThreadsOK
  <2>2. CASE inbound_queue # <<>>
    BY <1>6, <2>1, <2>2, FetchOrderInv DEF ExecutorGet
  <2>3. CASE inbound_queue = <<>>
    BY <1>6, <2>1, <2>3, KeepOrderInv DEF ExecutorGet
  <2> QED  BY <2>2, <2>3
<1>7. CASE ExecutorPut
  <2>1. UNCHANGED <<inbound_queue, om, received, accepted, done>> /\ cmd # NoCmd
    BY <1>7 DEF ExecutorPut, mainVars, history, TypeOK, ThreadsOK
  <2>2. CASE Len(outbound_queue) < OUTBOUND_DEPTH
    <3>1. cmd' = NoCmd /\ outbound_queue' = Append(outbound_queue, Reply(cmd))
      BY <1>7, <2>2, Numbers, DepthAssumption DEF ExecutorPut
    <3> QED  BY <2>1, <3>1, PutReplyOrderInv
  <2>3. CASE ~(Len(outbound_queue) < OUTBOUND_DEPTH)
    BY <1>7, <2>1, <2>3, KeepOrderInv DEF ExecutorPut
  <2> QED  BY <2>2, <2>3
<1>8. CASE PublishHandlerPut
  <2>1. UNCHANGED <<inbound_queue, cmd, om, received, accepted, done>>
    BY <1>8 DEF PublishHandlerPut, execVars, mainVars, history
  <2>2. workOm \in OutMsg /\ ~IsReply(workOm) /\ ~IsNack(workOm)
    BY <1>8, MessageFields DEF PublishHandlerPut, TypeOK, ThreadsOK
  <2> QED  BY <1>8, <2>1, <2>2, PutSampleOrderInv, KeepOrderInv DEF PublishHandlerPut, PutOutbound
<1>9. CASE Reset
  BY <1>9, ResetOrderInv
<1> QED
  BY <1>1, <1>2, <1>3, <1>4, <1>5, <1>6, <1>7, <1>8, <1>9
  DEF Next, MainStep, ProcessStep, ExecutorStep, WorkStep, SampleStep,
      vars, queues, execVars, mainVars, history,
      StartThreads, StartupFails, Reconnect, LoopTest, DrainEmpty, ProcessQuiet, ProcessError,
      DisconnectEvent, ExecutorDispatch, PublishHandlerTimer, PublishHandlerGet, AdcReady,
      TakeSample, SamplePut, SamplePurge

----------------------------------------------------------------------------
(***************************************************************************)
(* The theorems.                                                           *)
(***************************************************************************)

\* Every reachable state satisfies the inductive invariant, for every depth of
\* the three queues and every number of requests.
THEOREM Invariance == Spec => []IndInv
<1> USE DEF IndInv
<1>1. Init => IndInv
  <2>1. Init => NoMissedWakeup
    BY DEF Init, NoMissedWakeup
  <2> QED  BY <2>1, InitTypeOK, InitOrderInv
<1>2. IndInv /\ [Next]_vars => IndInv'
  BY NextTypeOK, NextNoMissedWakeup, NextOrderInv
<1> QED  BY <1>1, <1>2, PTL DEF Spec

\* Type correctness: the queues never exceed their depths, and each thread
\* holds a message exactly while it works on one.
THEOREM TypeCorrect == Spec => []TypeOK
<1>1. IndInv => TypeOK
  BY DEF IndInv
<1> QED  BY <1>1, Invariance, PTL

\* The executor is never left pended on a queue that would let it go on.
THEOREM WakeupsNotMissed == Spec => []NoMissedWakeup
<1>1. IndInv => NoMissedWakeup
  BY DEF IndInv
<1> QED  BY <1>1, Invariance, PTL

\* Accepted commands are answered in the order of their acceptance, with none
\* left out.
THEOREM AnswersInOrder == Spec => []RepliesInOrder
<1>1. IndInv => RepliesInOrder
  <2> SUFFICES ASSUME IndInv, NEW r \in accepted \cap done, NEW q \in accepted, q < r,
                      q \notin done
               PROVE  FALSE
    BY DEF RepliesInOrder
  <2>1. TypeOK /\ OrderInv
    BY DEF IndInv
  <2>2. /\ AheadOfReplies(r) /\ AheadOfCommands(r) /\ (IsReply(om) => r < om.id)
        /\ q \in Nat /\ r \in Nat /\ q # NoCmd
    BY <2>1, Numbers DEF DoneOrder
  <2>3. Reply(q).id = q /\ IsReply(Reply(q))
    BY DEF Reply, IsReply
  <2> QED  BY <2>1, <2>2, <2>3 DEF Coverage, AheadOfReplies, AheadOfCommands
<1> QED  BY <1>1, Invariance, PTL

\* An accepted request is in exactly one place until its response has been
\* given to mqtt_publish and nowhere after that; a refused one is at most in
\* one place, as its NACK.
THEOREM ExactlyOneResponse == Spec => []OneResponse
<1>1. ASSUME IndInv, NEW r \in 1..received
      PROVE  /\ r \in accepted \ done => \E p \in Places(r) : Places(r) = {p}
             /\ r \in done => Places(r) = {}
             /\ r \notin accepted =>
                    \A p, q \in Places(r) : p = q /\ p[1] \in {"outbound", "main"}
  <2> DEFINE In(i) == i \in 1..Len(inbound_queue) /\ inbound_queue[i] = r
             Out(i) == /\ i \in 1..Len(outbound_queue)
                       /\ outbound_queue[i].kind \in ResponseKinds
                       /\ outbound_queue[i].id = r
             Exec == cmd = r
             Main == om.kind \in ResponseKinds /\ om.id = r
  <2>1. TypeOK /\ OrderInv /\ r \in Nat /\ r # NoCmd
    BY <1>1 DEF IndInv, TypeOK, HistoryOK, NoCmd
  <2>2. \A p : p \in Places(r) <=>
          \/ \E i \in 1..Len(inbound_queue) : In(i) /\ p = <<"inbound", i>>
          \/ Exec /\ p = <<"executor", 0>>
          \/ \E i \in 1..Len(outbound_queue) : Out(i) /\ p = <<"outbound", i>>
          \/ Main /\ p = <<"main", 0>>
    <3>1. DOMAIN inbound_queue = 1..Len(inbound_queue) /\ DOMAIN outbound_queue = 1..Len(outbound_queue)
      BY <2>1, LenProperties DEF TypeOK, QueuesOK
    <3> QED  BY <3>1 DEF Places
  <2>3. \A m : m.kind \in ResponseKinds <=> IsReply(m) \/ IsNack(m)
    BY DEF ResponseKinds, IsReply, IsNack
  <2>4. /\ \A i, j : In(i) /\ In(j) => i = j
        /\ \A i : In(i) => ~Exec
        /\ \A i, j : In(i) => ~Out(j)
        /\ \A i : In(i) => ~Main
    BY <2>1, <2>3, Numbers DEF Membership, CommandOrder, OutboundOrder, MainOrder, AheadOfCommands
  <2>5. /\ \A i : Exec => ~Out(i)
        /\ Exec => ~Main
    BY <2>1, <2>3, Numbers DEF Membership, OutboundOrder, MainOrder, AheadOfCommands
  <2>6. \A i, j : Out(i) /\ Out(j) => i = j
    BY <2>1, <2>3, Numbers DEF Membership, OutboundOrder
  <2>7. \A i : Out(i) => ~Main
    BY <2>1, <2>3, Numbers DEF Membership, MainOrder, AheadOfReplies, AheadOfNacks
  <2>8. r \in accepted \ done => (\E i : In(i)) \/ Exec \/ (\E i : Out(i)) \/ Main
    <3>1. \A m : m = Reply(r) => m.kind \in ResponseKinds /\ m.id = r
      BY DEF Reply, ResponseKinds
    <3> SUFFICES ASSUME r \in accepted \ done
                 PROVE  (\E i : In(i)) \/ Exec \/ (\E i : Out(i)) \/ Main
      OBVIOUS
    <3>2. \/ \E i \in 1..Len(inbound_queue) : inbound_queue[i] = r
          \/ cmd = r
          \/ \E i \in 1..Len(outbound_queue) : outbound_queue[i] = Reply(r)
          \/ om = Reply(r)
      BY <2>1 DEF Coverage
    <3> QED  BY <3>1, <3>2
  <2>9. r \in done => (\A i : ~In(i) /\ ~Out(i)) /\ ~Exec /\ ~Main
    BY <2>1, <2>3, Numbers
    DEF Membership, DoneOrder, AheadOfReplies, AheadOfCommands, AheadOfNacks
  <2>10. r \notin accepted => (\A i : ~In(i)) /\ ~Exec
    BY <2>1 DEF Membership
  <2> HIDE DEF In, Out, Exec, Main
  <2>11. \A p, q \in Places(r) : p = q
    BY <2>2, <2>4, <2>5, <2>6, <2>7
  <2>12. r \in accepted \ done => \E p : p \in Places(r)
    <3>1. \A i : In(i) => i \in 1..Len(inbound_queue)
      BY DEF In
    <3>2. \A i : Out(i) => i \in 1..Len(outbound_queue)
      BY DEF Out
    <3> QED  BY <2>2, <2>8, <3>1, <3>2
  <2>13. r \notin accepted => \A p \in Places(r) : p[1] \in {"outbound", "main"}
    BY <2>2, <2>10
  <2> QED  BY <2>2, <2>9, <2>11, <2>12, <2>13
<1>2. IndInv => OneResponse
  BY <1>1 DEF OneResponse
<1> QED  BY <1>2, Invariance, PTL

----------------------------------------------------------------------------
(***************************************************************************)
(* The refinement.  Under the mapping of CommandPipelineService only six   *)
(* kinds of steps are visible to a controller; moving a message from one   *)
(* place to the next changes none of the sets it sees.                     *)
(***************************************************************************)

\* The requests whose messages of kind k are in queue q or are message m.
IdsOf(q, m, k) ==
    {q[i].id : i \in {j \in DOMAIN q : q[j].kind = k}} \cup {x.id : x \in {n \in {m} : n.kind = k}}

\* The numbers of one kind of message in a queue and in a hand.
LEMMA IdsMembers ==
    ASSUME NEW q \in Seq(OutMsg), NEW m, NEW k, NEW r
    PROVE  r \in IdsOf(q, m, k) <=>
              \/ \E i \in 1..Len(q) : q[i].kind = k /\ q[i].id = r
              \/ m.kind = k /\ m.id = r
<1>1. DOMAIN q = 1..Len(q)
  BY LenProperties
<1> QED  BY <1>1 DEF IdsOf

\* Queue p is queue q with message e put into it.
Appended(p, q, e) ==
    /\ p \in Seq(OutMsg) /\ q \in Seq(OutMsg)
    /\ Len(p) = Len(q) + 1
    /\ \A i \in 1..Len(q) : p[i] = q[i]
    /\ p[Len(q) + 1] = e

\* A message that is put into the queue adds its request to those of its kind.
LEMMA IdsAppend ==
    ASSUME NEW q, NEW p, NEW e, Appended(p, q, e), NEW m, NEW k
    PROVE  IdsOf(p, m, k) = IdsOf(q, m, k) \cup {x \in {e.id} : e.kind = k}
<1>1. /\ p \in Seq(OutMsg) /\ Len(q) \in Nat /\ Len(p) = Len(q) + 1
      /\ \A i \in 1..Len(q) : p[i] = q[i]
      /\ p[Len(q) + 1] = e
      /\ q \in Seq(OutMsg)
  BY LenProperties DEF Appended
<1>2. /\ \A i \in 1..Len(p) : i \in 1..Len(q) \/ i = Len(q) + 1
      /\ Len(q) + 1 \in 1..Len(p) /\ 1..Len(q) \subseteq 1..Len(p)
  BY <1>1
<1>3. ASSUME NEW r
      PROVE  r \in IdsOf(p, m, k) <=> r \in IdsOf(q, m, k) \/ (e.kind = k /\ e.id = r)
  <2>1. r \in IdsOf(p, m, k) <=>
           (\E i \in 1..Len(p) : p[i].kind = k /\ p[i].id = r) \/ (m.kind = k /\ m.id = r)
    BY ONLY <1>1, IdsMembers
  <2>2. r \in IdsOf(q, m, k) <=>
           (\E i \in 1..Len(q) : q[i].kind = k /\ q[i].id = r) \/ (m.kind = k /\ m.id = r)
    BY <1>1, IdsMembers
  <2>3. (\E i \in 1..Len(p) : p[i].kind = k /\ p[i].id = r) <=>
           (\E i \in 1..Len(q) : q[i].kind = k /\ q[i].id = r) \/ (e.kind = k /\ e.id = r)
    BY ONLY <1>1, <1>2
  <2> QED  BY ONLY <2>1, <2>2, <2>3
<1> QED  BY ONLY <1>3

\* Taking the head of the queue into the hand changes nothing.
LEMMA IdsTake ==
    ASSUME NEW q \in Seq(OutMsg), q # <<>>, NEW k \in ResponseKinds,
           NEW p, p = Tail(q), NEW h, h = Head(q)
    PROVE  IdsOf(p, h, k) = IdsOf(q, NoMsg, k)
<1>1. /\ p \in Seq(OutMsg) /\ Len(q) \in Nat \ {0} /\ Len(p) = Len(q) - 1
      /\ \A i \in 1..Len(p) : p[i] = q[i + 1]
      /\ h = q[1]
  BY TakeFromQueue
<1>2. /\ \A i \in 1..Len(q) : i = 1 \/ (i - 1 \in 1..Len(p) /\ p[i - 1] = q[i])
      /\ \A i \in 1..Len(p) : i + 1 \in 1..Len(q)
      /\ 1 \in 1..Len(q)
  BY <1>1
<1>3. NoMsg.kind # k
  BY MessageFields
<1>4. ASSUME NEW r
      PROVE  r \in IdsOf(p, h, k) <=> r \in IdsOf(q, NoMsg, k)
  <2>1. r \in IdsOf(p, h, k) <=>
           (\E i \in 1..Len(p) : p[i].kind = k /\ p[i].id = r) \/ (h.kind = k /\ h.id = r)
    BY ONLY <1>1, IdsMembers
  <2>2. r \in IdsOf(q, NoMsg, k) <=>
           \/ \E i \in 1..Len(q) : q[i].kind = k /\ q[i].id = r
           \/ NoMsg.kind = k /\ NoMsg.id = r
    BY IdsMembers
  <2>3. (\E i \in 1..Len(q) : q[i].kind = k /\ q[i].id = r) <=>
           (\E i \in 1..Len(p) : p[i].kind = k /\ p[i].id = r) \/ (h.kind = k /\ h.id = r)
    BY ONLY <1>1, <1>2
  <2> QED  BY ONLY <1>3, <2>1, <2>2, <2>3
<1> QED  BY ONLY <1>4

\* The mapped sets in terms of the queues.
LEMMA MappedSets ==
    /\ \A k : Outgoing(k) = IdsOf(outbound_queue, om, k)
    /\ \A k : Outgoing(k)' = IdsOf(outbound_queue', om', k)
  BY DEF Outgoing, IdsOf

\* Dropping the message in the hand takes its request from those of its kind.
LEMMA IdsDrop ==
    ASSUME NEW q, NEW m, NEW k \in ResponseKinds
    PROVE  IdsOf(q, m, k) = IdsOf(q, NoMsg, k) \cup {x \in {m.id} : m.kind = k}
<1>1. NoMsg.kind # k
  BY MessageFields
<1> QED  BY <1>1 DEF IdsOf

\* RequestService counts with the operator of its own instance of FiniteSets.
LEMMA SameCardinality == \A S : Service!Cardinality(S) = Cardinality(S)
  BY DEF Service!Cardinality, Cardinality

\* Each place of inbound_queue holds a command of its own.
LEMMA InboundCardinality ==
    ASSUME IndInv
    PROVE  IsFiniteSet(InInbound) /\ Cardinality(InInbound) = Len(inbound_queue)
<1>1. /\ inbound_queue \in Seq(Requests) /\ Len(inbound_queue) \in Nat
      /\ DOMAIN inbound_queue = 1..Len(inbound_queue)
      /\ inbound_queue \in [1..Len(inbound_queue) -> Requests]
  BY LenProperties DEF IndInv, TypeOK, QueuesOK
<1>2. \A i, j \in 1..Len(inbound_queue) : inbound_queue[i] = inbound_queue[j] => i = j
  <2>1. /\ \A i \in 1..Len(inbound_queue) : inbound_queue[i] \in Nat
        /\ \A i, j \in 1..Len(inbound_queue) : i < j => inbound_queue[i] < inbound_queue[j]
    BY Numbers DEF IndInv, CommandOrder
  <2>2. \A i, j \in 1..Len(inbound_queue) : i = j \/ i < j \/ j < i
    BY <1>1
  <2> QED  BY <2>1, <2>2
<1>3. inbound_queue \in Bijection(1..Len(inbound_queue), InInbound)
  BY <1>1, <1>2 DEF Bijection, Injection, Surjection, IsInjective, InInbound
<1>4. ExistsBijection(1..Len(inbound_queue), InInbound)
  BY <1>3 DEF ExistsBijection
<1> QED  BY <1>1, <1>4, FS_NatBijection, FS_CountingElements

\* How many commands wait: those in inbound_queue and perhaps the executor's.
LEMMA WaitingCardinality ==
    ASSUME IndInv
    PROVE  /\ Cardinality(Waiting) \in Nat
           /\ Cardinality(Waiting) >= Len(inbound_queue)
           /\ Cardinality(Waiting) <= Len(inbound_queue) + 1
           /\ execPc # "dispatch" => Cardinality(Waiting) = Len(inbound_queue)
<1>1. /\ IsFiniteSet(InInbound) /\ Cardinality(InInbound) = Len(inbound_queue)
      /\ Len(inbound_queue) \in Nat
  BY InboundCardinality, LenProperties DEF IndInv, TypeOK, QueuesOK
<1>2. CASE execPc = "dispatch"
  <2>1. Waiting = InInbound \cup {cmd}
    BY <1>2 DEF Waiting
  <2>2. Cardinality(InInbound \cup {cmd}) =
           IF cmd \in InInbound THEN Cardinality(InInbound) ELSE Cardinality(InInbound) + 1
    BY <1>1, FS_AddElement
  <2> QED  BY <1>1, <1>2, <2>1, <2>2
<1>3. CASE execPc # "dispatch"
  <2>1. Waiting = InInbound
    BY <1>3 DEF Waiting
  <2> QED  BY <1>1, <1>3, <2>1
<1> QED  BY <1>2, <1>3

----------------------------------------------------------------------------

\* Steps that move no command and no message.
LEMMA QuietStep ==
    ASSUME UNCHANGED <<inbound_queue, outbound_queue, om, cmd, received, accepted, done>>,
           execPc' = "dispatch" <=> execPc = "dispatch",
           execPc' \in {"put", "blocked"} <=> execPc \in {"put", "blocked"}
    PROVE  UNCHANGED Service!vars
  BY DEF Service!vars, Waiting, Answers, Outgoing, InInbound

\* A message that is no response joins outbound_queue.
LEMMA PublishHandlerPutServed ==
    ASSUME IndInv, PublishHandlerPut
    PROVE  UNCHANGED Service!vars
<1>1. /\ UNCHANGED <<inbound_queue, om, cmd, execPc, received, accepted, done>>
      /\ outbound_queue \in Seq(OutMsg) /\ workOm \in OutMsg /\ workOm.kind = "sample"
      /\ outbound_queue' \in {outbound_queue, Append(outbound_queue, workOm)}
  BY MessageFields DEF PublishHandlerPut, PutOutbound, IndInv, TypeOK, QueuesOK, ThreadsOK,
                       execVars, mainVars, history, OutMsg, Sample
<1>2. \A k \in ResponseKinds :
         IdsOf(outbound_queue', om, k) = IdsOf(outbound_queue, om, k)
  <2> SUFFICES ASSUME NEW k \in ResponseKinds, outbound_queue' = Append(outbound_queue, workOm)
               PROVE  IdsOf(outbound_queue', om, k) = IdsOf(outbound_queue, om, k)
    BY <1>1
  <2>1. IdsOf(outbound_queue', om, k) =
           IdsOf(outbound_queue, om, k) \cup {x \in {workOm.id} : workOm.kind = k}
    <3>1. Appended(outbound_queue', outbound_queue, workOm)
      BY <1>1, AppendToQueue DEF Appended
    <3> QED  BY <3>1, IdsAppend
  <2> QED  BY <1>1, <2>1 DEF ResponseKinds, NackKinds
<1>3. \A k \in ResponseKinds : Outgoing(k)' = Outgoing(k)
  BY <1>1, <1>2, MappedSets
<1> QED  BY <1>1, <1>3 DEF Service!vars, Waiting, Answers, InInbound, ResponseKinds, NackKinds

\* A message passes from outbound_queue to the main thread, and perhaps the reply
\* of the pended executor takes its place.
LEMMA DrainGetServed ==
    ASSUME IndInv, DrainGet
    PROVE  UNCHANGED Service!vars
<1>1. /\ UNCHANGED <<inbound_queue, received, accepted, done>>
      /\ outbound_queue \in Seq(OutMsg) /\ outbound_queue # <<>>
      /\ om = NoMsg /\ om' = Head(outbound_queue)
  BY DEF DrainGet, IndInv, TypeOK, QueuesOK, ThreadsOK, history
<1>2. \A k \in ResponseKinds :
         IdsOf(Tail(outbound_queue), om', k) = IdsOf(outbound_queue, om, k)
  BY <1>1, IdsTake
<1>3. CASE execPc # "blocked"
  <2>1. outbound_queue' = Tail(outbound_queue) /\ UNCHANGED <<execPc, cmd>>
    BY <1>3 DEF DrainGet, execVars
  <2>2. \A k \in ResponseKinds : Outgoing(k)' = Outgoing(k)
    BY <1>2, <2>1, MappedSets
  <2> QED  BY <1>1, <2>1, <2>2 DEF Service!vars, Waiting, Answers, InInbound, ResponseKinds, NackKinds
<1>4. CASE execPc = "blocked"
  <2>1. /\ outbound_queue' = Append(Tail(outbound_queue), Reply(cmd))
        /\ execPc' = "get" /\ cmd' = NoCmd
        /\ cmd \in Requests
    BY <1>4 DEF DrainGet, IndInv, TypeOK, ThreadsOK
  <2>2. Tail(outbound_queue) \in Seq(OutMsg)
    BY <1>1, TakeFromQueue
  <2>3. Reply(cmd) \in OutMsg /\ Reply(cmd).kind = "reply" /\ Reply(cmd).id = cmd
    BY <2>1, MessageFields DEF IsReply
  <2>4. \A k \in ResponseKinds :
           IdsOf(outbound_queue', om', k) =
              IdsOf(outbound_queue, om, k) \cup {x \in {cmd} : k = "reply"}
    <3> SUFFICES ASSUME NEW k \in ResponseKinds, NEW t, t = Tail(outbound_queue)
                 PROVE  IdsOf(outbound_queue', om', k) =
                           IdsOf(outbound_queue, om, k) \cup {x \in {cmd} : k = "reply"}
      OBVIOUS
    <3>1. Appended(outbound_queue', t, Reply(cmd))
      <4>1. t \in Seq(OutMsg) /\ outbound_queue' = Append(t, Reply(cmd))
        BY <2>1, <2>2
      <4> QED  BY ONLY <2>3, <4>1, AppendToQueue DEF Appended
    <3>2. IdsOf(outbound_queue', om', k) =
             IdsOf(t, om', k) \cup {x \in {Reply(cmd).id} : Reply(cmd).kind = k}
      BY ONLY <3>1, IdsAppend
    <3> QED  BY <1>2, <2>3, <3>2
  <2>5. /\ Outgoing("reply")' = Outgoing("reply") \cup {cmd}
        /\ Outgoing("busy")' = Outgoing("busy")
    BY <2>4, MappedSets DEF ResponseKinds, NackKinds
  <2> QED  BY <1>1, <1>4, <2>1, <2>5 DEF Service!vars, Waiting, Answers, InInbound
<1> QED  BY <1>3, <1>4

\* The executor's reply joins outbound_queue.
LEMMA ExecutorPutServed ==
    ASSUME IndInv, ExecutorPut
    PROVE  UNCHANGED Service!vars
<1>1. /\ UNCHANGED <<inbound_queue, om, received, accepted, done>>
      /\ outbound_queue \in Seq(OutMsg) /\ execPc = "put" /\ cmd \in Requests
  BY DEF ExecutorPut, IndInv, TypeOK, QueuesOK, ThreadsOK, mainVars, history
<1>2. CASE execPc' = "blocked" /\ UNCHANGED <<outbound_queue, cmd>>
  BY <1>1, <1>2, QuietStep
<1>3. CASE outbound_queue' = Append(outbound_queue, Reply(cmd)) /\ execPc' = "get" /\ cmd' = NoCmd
  <2>1. Reply(cmd) \in OutMsg /\ Reply(cmd).kind = "reply" /\ Reply(cmd).id = cmd
    BY <1>1, MessageFields DEF IsReply
  <2>2. \A k : IdsOf(outbound_queue', om, k) =
                  IdsOf(outbound_queue, om, k) \cup {x \in {cmd} : "reply" = k}
    <3>1. Appended(outbound_queue', outbound_queue, Reply(cmd))
      BY <1>1, <1>3, <2>1, AppendToQueue DEF Appended
    <3>2. \A k : IdsOf(outbound_queue', om, k) =
             IdsOf(outbound_queue, om, k) \cup {x \in {Reply(cmd).id} : Reply(cmd).kind = k}
      BY ONLY <3>1, IdsAppend
    <3> QED  BY <2>1, <3>2
  <2>3. /\ Outgoing("reply")' = Outgoing("reply") \cup {cmd}
        /\ Outgoing("busy")' = Outgoing("busy")
    BY <1>1, <2>2, MappedSets
  <2> QED  BY <1>1, <1>3, <2>3 DEF Service!vars, Waiting, Answers, InInbound
<1> QED  BY <1>2, <1>3 DEF ExecutorPut

----------------------------------------------------------------------------
(***************************************************************************)
(* The steps that a controller can see.                                    *)
(***************************************************************************)

\* A message is given to mqtt_publish: the oldest answer, a NACK, or nothing that
\* the service promises.
LEMMA PublishServed ==
    ASSUME IndInv, NEW stillUp \in BOOLEAN, Publish(stillUp)
    PROVE  Service!Answer \/ Service!SendNack \/ UNCHANGED Service!vars
<1>1. /\ UNCHANGED <<inbound_queue, outbound_queue, cmd, execPc, received, accepted>>
      /\ outbound_queue \in Seq(OutMsg)
      /\ om \in OutMsg /\ om' = NoMsg
      /\ done' = IF om.kind \in ResponseKinds THEN done \cup {om.id} ELSE done
  BY DEF Publish, IndInv, TypeOK, QueuesOK, ThreadsOK, queues, execVars
<1>2. \A k \in ResponseKinds : Outgoing(k) = Outgoing(k)' \cup {x \in {om.id} : om.kind = k}
  BY <1>1, MappedSets, IdsDrop
<1>3. Waiting' = Waiting
  BY <1>1 DEF Waiting, InInbound
<1>4. om.kind \in {"reply", "busy", "invalid", "sample"} /\ om.id \in Nat
  BY <1>1, MessageFields, Numbers DEF ResponseKinds, NackKinds, IndInv
<1>5. CASE om.kind = "reply"
  <2>1. /\ Outgoing("reply") = Outgoing("reply")' \cup {om.id}
        /\ Outgoing("busy") = Outgoing("busy")'
        /\ om.id \in accepted /\ done' = done \cup {om.id}
    <3>1. Outgoing("reply") = Outgoing("reply")' \cup {x \in {om.id} : om.kind = "reply"}
      BY <1>2 DEF ResponseKinds
    <3>2. Outgoing("busy") = Outgoing("busy")' \cup {x \in {om.id} : om.kind = "busy"}
      BY <1>2 DEF ResponseKinds, NackKinds
    <3>3. om.id \in accepted
      BY <1>5 DEF IndInv, Membership, IsReply
    <3>4. done' = done \cup {om.id}
      BY <1>1, <1>5 DEF ResponseKinds
    <3> QED  BY <1>5, <3>1, <3>2, <3>3, <3>4
  <2>2. \A r \in Outgoing("reply")' : r \in Nat /\ om.id < r
    <3>1. ASSUME NEW r, r \in IdsOf(outbound_queue, NoMsg, "reply") PROVE r \in Nat /\ om.id < r
      <4>1. \/ \E i \in 1..Len(outbound_queue) :
                   outbound_queue[i].kind = "reply" /\ outbound_queue[i].id = r
            \/ NoMsg.kind = "reply" /\ NoMsg.id = r
        BY <1>1, <3>1, IdsMembers
      <4>2. AheadOfReplies(om.id)
        BY <1>5 DEF IndInv, MainOrder, IsReply
      <4> QED  BY <4>1, <4>2, MessageFields, Numbers DEF AheadOfReplies, IsReply, IndInv
    <3>2. Outgoing("reply")' = IdsOf(outbound_queue, NoMsg, "reply")
      BY <1>1, MappedSets
    <3> QED  BY <3>1, <3>2
  <2>3. \A r \in Answers' : r \in Nat /\ om.id < r
    <3>1. cmd # NoCmd => om.id < cmd
      BY <1>5 DEF IndInv, MainOrder, AheadOfCommands, IsReply
    <3>2. execPc \in {"put", "blocked"} => cmd # NoCmd
      BY DEF IndInv, TypeOK, ThreadsOK
    <3>3. cmd \in Nat
      BY Numbers DEF IndInv
    <3> QED  BY <1>1, <2>2, <3>1, <3>2, <3>3 DEF Answers
  <2>4. Answers = Answers' \cup {om.id}
    BY <1>1, <2>1 DEF Answers
  <2>5. om.id \notin Answers'
    BY <1>4, <2>3
  <2>6. Answers' = Answers \ {om.id}
    BY <2>4, <2>5
  <2>7. Service!IsOldest(om.id, Answers)
    <3>1. \A r \in Answers : om.id <= r
      <4>1. \A r : r \in Nat /\ om.id < r => om.id <= r
        BY <1>4
      <4>2. om.id <= om.id
        BY <1>4
      <4> QED  BY ONLY <2>3, <2>4, <4>1, <4>2
    <3> QED  BY <2>4, <3>1 DEF Service!IsOldest
  <2>8. (done \cap accepted)' = (done \cap accepted) \cup {om.id}
    BY <1>1, <2>1
  <2>9. Service!Answer
    BY <1>1, <1>3, <2>1, <2>4, <2>6, <2>7, <2>8 DEF Service!Answer
  <2> QED  BY <2>9
<1>6. CASE om.kind = "busy"
  <2>1. /\ Outgoing("reply") = Outgoing("reply")'
        /\ Outgoing("busy") = Outgoing("busy")' \cup {om.id}
        /\ om.id \notin accepted /\ done' = done \cup {om.id}
    <3>1. Outgoing("reply") = Outgoing("reply")' \cup {x \in {om.id} : om.kind = "reply"}
      BY <1>2 DEF ResponseKinds
    <3>2. Outgoing("busy") = Outgoing("busy")' \cup {x \in {om.id} : om.kind = "busy"}
      BY <1>2 DEF ResponseKinds, NackKinds
    <3>3. om.id \notin accepted
      BY <1>6 DEF IndInv, Membership, IsNack, NackKinds
    <3>4. done' = done \cup {om.id}
      BY <1>1, <1>6 DEF ResponseKinds, NackKinds
    <3> QED  BY <1>6, <3>1, <3>2, <3>3, <3>4
  <2>2. \A r \in Outgoing("busy")' : om.id < r
    <3>1. ASSUME NEW r, r \in IdsOf(outbound_queue, NoMsg, "busy") PROVE om.id < r
      <4>1. \/ \E i \in 1..Len(outbound_queue) :
                   outbound_queue[i].kind = "busy" /\ outbound_queue[i].id = r
            \/ NoMsg.kind = "busy" /\ NoMsg.id = r
        BY <1>1, <3>1, IdsMembers
      <4>2. AheadOfNacks(om.id)
        BY <1>6 DEF IndInv, MainOrder, IsNack, NackKinds
      <4> QED  BY <4>1, <4>2 DEF AheadOfNacks, IsNack, NackKinds, NoMsg
    <3>2. Outgoing("busy")' = IdsOf(outbound_queue, NoMsg, "busy")
      BY <1>1, MappedSets
    <3> QED  BY <3>1, <3>2
  <2>3. om.id \notin Outgoing("busy")'
    BY <1>4, <2>2
  <2>4. Outgoing("busy")' = Outgoing("busy") \ {om.id} /\ om.id \in Outgoing("busy")
    BY <2>1, <2>3
  <2>5. Answers' = Answers
    BY <1>1, <2>1 DEF Answers
  <2>6. (done \cap accepted)' = done \cap accepted
    BY <1>1, <2>1
  <2>7. Service!SendNack
    BY <1>1, <1>3, <2>4, <2>5, <2>6 DEF Service!SendNack
  <2> QED  BY <2>7
<1>7. CASE om.kind \in {"invalid", "sample"}
  <2>1. /\ Outgoing("reply") = Outgoing("reply")'
        /\ Outgoing("busy") = Outgoing("busy")'
        /\ done' \cap accepted = done \cap accepted
    <3>1. Outgoing("reply") = Outgoing("reply")' \cup {x \in {om.id} : om.kind = "reply"}
      BY <1>2 DEF ResponseKinds
    <3>2. Outgoing("busy") = Outgoing("busy")' \cup {x \in {om.id} : om.kind = "busy"}
      BY <1>2 DEF ResponseKinds, NackKinds
    <3>3. om.kind = "invalid" => om.id \notin accepted
      BY DEF IndInv, Membership, IsNack, NackKinds
    <3>4. om.kind = "sample" => done' = done
      BY <1>1 DEF ResponseKinds, NackKinds
    <3>5. done' = done \/ done' = done \cup {om.id}
      BY <1>1
    <3> QED  BY <1>7, <3>1, <3>2, <3>3, <3>4, <3>5
  <2> QED  BY <1>1, <1>3, <2>1 DEF Service!vars, Answers
<1> QED  BY <1>4, <1>5, <1>6, <1>7

\* A command that is ignored or refused as invalid is nothing the service answers.
LEMMA IgnoreServed ==
    ASSUME IndInv, IgnoreCommand \/ RejectCommand
    PROVE  Service!Ignore
<1>1. /\ UNCHANGED <<inbound_queue, execPc, cmd, om, accepted, done>>
      /\ received < MaxRequests /\ received' = received + 1
      /\ outbound_queue \in Seq(OutMsg)
  BY DEF IgnoreCommand, RejectCommand, Receive, IndInv, TypeOK, QueuesOK, execVars
<1>2. \A k \in {"reply", "busy"} : Outgoing(k)' = Outgoing(k)
  <2>1. CASE outbound_queue' = outbound_queue
    BY <1>1, <2>1, MappedSets
  <2>2. CASE outbound_queue' = Append(outbound_queue, [kind |-> "invalid", id |-> received'])
    <3> DEFINE m == [kind |-> "invalid", id |-> received']
    <3>1. m \in OutMsg
      BY ReceivedNext, MessageFields DEF IndInv, NackKinds
    <3>2. Appended(outbound_queue', outbound_queue, m)
      BY <1>1, <2>2, <3>1, AppendToQueue DEF Appended
    <3>3. \A k : IdsOf(outbound_queue', om, k) =
                    IdsOf(outbound_queue, om, k) \cup {x \in {m.id} : m.kind = k}
      BY ONLY <3>2, IdsAppend
    <3>4. \A k \in {"reply", "busy"} : m.kind # k
      OBVIOUS
    <3> HIDE DEF m
    <3> QED  BY <1>1, <3>3, <3>4, MappedSets
  <2> QED  BY <2>1, <2>2 DEF IgnoreCommand, RejectCommand, PutOutbound
<1> QED
  BY <1>1, <1>2 DEF Service!Ignore, Service!Arrive, Waiting, Answers, InInbound

\* A command refused as busy finds as many waiting as may wait; its NACK may be lost.
LEMMA BusyServed ==
    ASSUME IndInv, BusyCommand
    PROVE  Service!Refuse \/ Service!Ignore
<1>1. /\ UNCHANGED <<inbound_queue, execPc, cmd, om, accepted, done>>
      /\ received < MaxRequests /\ received' = received + 1
      /\ outbound_queue \in Seq(OutMsg) /\ Len(inbound_queue) >= MAX_PENDING_COMMANDS
  BY DEF BusyCommand, Receive, IndInv, TypeOK, QueuesOK, execVars
<1>2. Cardinality(Waiting) >= MAX_PENDING_COMMANDS
  <2>1. Len(inbound_queue) \in Nat
    BY LenProperties DEF IndInv, TypeOK, QueuesOK
  <2> QED  BY <1>1, <2>1, WaitingCardinality, DepthAssumption
<1>3. Waiting' = Waiting
  BY <1>1 DEF Waiting, InInbound
<1>4. CASE outbound_queue' = outbound_queue
  BY <1>1, <1>3, <1>4, MappedSets DEF Service!Ignore, Service!Arrive, Answers
<1>5. CASE outbound_queue' = Append(outbound_queue, [kind |-> "busy", id |-> received'])
  <2> DEFINE m == [kind |-> "busy", id |-> received']
  <2>1. m \in OutMsg
    BY ReceivedNext, MessageFields DEF IndInv, NackKinds
  <2>2. Appended(outbound_queue', outbound_queue, m)
    BY <1>1, <1>5, <2>1, AppendToQueue DEF Appended
  <2>3. \A k : IdsOf(outbound_queue', om, k) =
                  IdsOf(outbound_queue, om, k) \cup {x \in {m.id} : m.kind = k}
    BY ONLY <2>2, IdsAppend
  <2>4. m.kind = "busy" /\ m.id = received'
    OBVIOUS
  <2> HIDE DEF m
  <2>5. /\ Outgoing("reply")' = Outgoing("reply")
        /\ Outgoing("busy")' = Outgoing("busy") \cup {received'}
    BY <1>1, <2>3, <2>4, MappedSets
  <2>6. Answers' = Answers
    BY <1>1, <2>5 DEF Answers
  <2> QED  BY <1>1, <1>2, <1>3, <2>5, <2>6, SameCardinality DEF Service!Refuse, Service!Arrive
<1> QED  BY <1>4, <1>5 DEF BusyCommand, PutOutbound

\* A command is accepted while there is room for it to wait, or nobody else does.
LEMMA AcceptServed ==
    ASSUME IndInv, AcceptCommand
    PROVE  Service!Take
<1>1. /\ UNCHANGED <<outbound_queue, om, done>>
      /\ received < MaxRequests /\ received' = received + 1
      /\ accepted' = accepted \cup {received'}
      /\ inbound_queue \in Seq(Requests) /\ Len(inbound_queue) \in Nat
  BY LenProperties DEF AcceptCommand, Receive, IndInv, TypeOK, QueuesOK
<1>2. received' \in Requests /\ received' \notin done
  BY ReceivedNext DEF IndInv, TypeOK, HistoryOK
<1>3. (done \cap accepted)' = done \cap accepted
  BY <1>1, <1>2
<1>4. \A k : Outgoing(k)' = Outgoing(k)
  BY <1>1, MappedSets
<1>5. CASE execPc = "wait" /\ cmd' = received' /\ execPc' = "dispatch" /\ UNCHANGED inbound_queue
  <2>1. inbound_queue = <<>>
    BY <1>5 DEF IndInv, NoMissedWakeup
  <2>2. Cardinality(Waiting) <= MAX_PENDING_COMMANDS
    BY <1>5, <2>1, WaitingCardinality, DepthAssumption
  <2>3. Waiting' = Waiting \cup {received'}
    BY <1>5 DEF Waiting, InInbound
  <2>4. Answers' = Answers
    BY <1>4, <1>5 DEF Answers
  <2> QED  BY <1>1, <1>3, <1>4, <2>2, <2>3, <2>4, SameCardinality
         DEF Service!Take, Service!Arrive
<1>6. CASE /\ execPc # "wait" /\ Len(inbound_queue) < MAX_PENDING_COMMANDS
           /\ inbound_queue' = Append(inbound_queue, received') /\ UNCHANGED <<execPc, cmd>>
  <2>1. Cardinality(Waiting) <= MAX_PENDING_COMMANDS
    BY <1>1, <1>6, WaitingCardinality, DepthAssumption
  <2>2. InInbound' = InInbound \cup {received'}
    <3>1. /\ inbound_queue' \in Seq(Requests)
          /\ Len(inbound_queue') = Len(inbound_queue) + 1
          /\ \A i \in 1..Len(inbound_queue) : inbound_queue'[i] = inbound_queue[i]
          /\ inbound_queue'[Len(inbound_queue) + 1] = received'
      BY <1>1, <1>2, <1>6, AppendToQueue
    <3>2. /\ DOMAIN inbound_queue = 1..Len(inbound_queue)
          /\ DOMAIN inbound_queue' = 1..Len(inbound_queue')
      BY <1>1, <3>1, LenProperties
    <3>3. 1..Len(inbound_queue') = 1..Len(inbound_queue) \cup {Len(inbound_queue) + 1}
      BY <1>1, <3>1
    <3> QED  BY ONLY <3>1, <3>2, <3>3 DEF InInbound
  <2>3. Waiting' = Waiting \cup {received'}
    BY <1>6, <2>2 DEF Waiting
  <2>4. Answers' = Answers
    BY <1>4, <1>6 DEF Answers
  <2> QED  BY <1>1, <1>3, <1>4, <2>1, <2>3, <2>4, SameCardinality
         DEF Service!Take, Service!Arrive
<1> QED  BY <1>5, <1>6 DEF AcceptCommand, execVars

\* Fetching a command from inbound_queue does not end its wait.
LEMMA ExecutorGetServed ==
    ASSUME IndInv, ExecutorGet
    PROVE  UNCHANGED Service!vars
<1>1. /\ UNCHANGED <<outbound_queue, om, received, accepted, done>> /\ execPc = "get"
      /\ inbound_queue \in Seq(Requests) /\ cmd = NoCmd
  BY DEF ExecutorGet, IndInv, TypeOK, QueuesOK, ThreadsOK, mainVars, history
<1>2. CASE execPc' = "wait" /\ UNCHANGED <<inbound_queue, cmd>>
  BY <1>1, <1>2, QuietStep
<1>3. CASE /\ inbound_queue # <<>> /\ cmd' = Head(inbound_queue)
           /\ inbound_queue' = Tail(inbound_queue) /\ execPc' = "dispatch"
  <2>1. /\ inbound_queue' \in Seq(Requests) /\ Len(inbound_queue) \in Nat \ {0}
        /\ Len(inbound_queue') = Len(inbound_queue) - 1
        /\ \A i \in 1..Len(inbound_queue') : inbound_queue'[i] = inbound_queue[i + 1]
        /\ cmd' = inbound_queue[1]
    BY <1>1, <1>3, TakeFromQueue
  <2>2. /\ DOMAIN inbound_queue = 1..Len(inbound_queue)
        /\ DOMAIN inbound_queue' = 1..Len(inbound_queue')
    BY <1>1, <2>1, LenProperties
  <2>3. /\ \A i \in 1..Len(inbound_queue) :
              i = 1 \/ (i - 1 \in 1..Len(inbound_queue') /\ inbound_queue'[i - 1] = inbound_queue[i])
        /\ \A i \in 1..Len(inbound_queue') : i + 1 \in 1..Len(inbound_queue)
        /\ 1 \in 1..Len(inbound_queue)
    BY <2>1
  <2>4. InInbound = InInbound' \cup {cmd'}
    <3>1. \A r : r \in InInbound <=> \E i \in 1..Len(inbound_queue) : inbound_queue[i] = r
      BY <2>2 DEF InInbound
    <3>2. \A r : r \in InInbound' <=> \E i \in 1..Len(inbound_queue') : inbound_queue'[i] = r
      BY <2>2 DEF InInbound
    <3>3. ASSUME NEW r PROVE r \in InInbound <=> r \in InInbound' \/ r = cmd'
      <4>1. r \in InInbound => r \in InInbound' \/ r = cmd'
        BY ONLY <2>1, <2>3, <3>1, <3>2
      <4>2. r \in InInbound' => r \in InInbound
        BY ONLY <2>1, <2>3, <3>1, <3>2
      <4>3. cmd' \in InInbound
        BY ONLY <2>1, <2>3, <3>1
      <4> QED  BY ONLY <4>1, <4>2, <4>3
    <3> QED  BY ONLY <3>3
  <2>5. Waiting = InInbound /\ Waiting' = InInbound' \cup {cmd'}
    BY <1>1, <1>3 DEF Waiting
  <2>6. Answers' = Answers
    BY <1>1, <1>3, MappedSets DEF Answers
  <2>7. Outgoing("busy")' = Outgoing("busy")
    BY <1>1, MappedSets
  <2> QED  BY <1>1, <2>4, <2>5, <2>6, <2>7 DEF Service!vars
<1> QED  BY <1>2, <1>3 DEF ExecutorGet

\* A handler has run: its command was the oldest waiting.
LEMMA ExecutorDispatchServed ==
    ASSUME IndInv, ExecutorDispatch
    PROVE  Service!Execute
<1>1. /\ UNCHANGED <<inbound_queue, outbound_queue, cmd, om, received, accepted, done>>
      /\ execPc = "dispatch" /\ execPc' = "put" /\ cmd # NoCmd
  BY DEF ExecutorDispatch, queues, mainVars, history, IndInv, TypeOK, ThreadsOK
<1>2. \A r \in InInbound : cmd < r
  <2>1. DOMAIN inbound_queue = 1..Len(inbound_queue)
    BY LenProperties DEF IndInv, TypeOK, QueuesOK
  <2> QED  BY <1>1, <2>1 DEF IndInv, CommandOrder, InInbound
<1>3. cmd \in Nat
  BY Numbers DEF IndInv
<1>4. Waiting = InInbound \cup {cmd} /\ Waiting' = InInbound
  BY <1>1 DEF Waiting, InInbound
<1>5. Waiting' = Waiting \ {cmd} /\ Service!IsOldest(cmd, Waiting)
  <2>1. \A r \in InInbound : r \in Nat
    BY Numbers, LenProperties DEF IndInv, TypeOK, QueuesOK, InInbound
  <2>2. \A r \in Nat : cmd < r => cmd <= r /\ cmd # r
    BY <1>3
  <2>3. cmd <= cmd
    BY <1>3
  <2> QED  BY <1>2, <1>4, <2>1, <2>2, <2>3 DEF Service!IsOldest
<1>6. Answers' = Answers \cup {cmd} /\ Outgoing("busy")' = Outgoing("busy")
  BY <1>1, MappedSets DEF Answers
<1>7. cmd \in Waiting
  BY <1>4
<1> QED  BY <1>1, <1>5, <1>6, <1>7 DEF Service!Execute

\* A reset forgets what waits and what is not answered, and nothing else.
LEMMA ResetServed ==
    ASSUME Reset
    PROVE  Service!Restart
<1>1. /\ inbound_queue' = <<>> /\ outbound_queue' = <<>> /\ om' = NoMsg
      /\ execPc' = "off" /\ received' = received
      /\ (done \cap accepted)' = done \cap accepted
  BY DEF Reset
<1>2. DOMAIN inbound_queue' = {} /\ DOMAIN outbound_queue' = {}
  BY <1>1
<1>3. Waiting' = {}
  BY <1>1, <1>2 DEF Waiting, InInbound
<1>4. \A k \in {"reply", "busy"} : Outgoing(k)' = {}
  BY <1>1, <1>2 DEF Outgoing, NoMsg
<1>5. Answers' = {}
  BY <1>1, <1>4 DEF Answers
<1> QED  BY <1>1, <1>3, <1>4, <1>5 DEF Service!Restart

\* Every step of the pipeline is a step of the service, or nothing it shows.
LEMMA ServiceStep ==
    ASSUME IndInv, [Next]_vars
    PROVE  [Service!Next]_(Service!vars)
<1>1. CASE \/ Reconnect \/ LoopTest \/ DrainEmpty \/ ProcessQuiet \/ ProcessError \/ DisconnectEvent
           \/ StartThreads \/ StartupFails \/ PublishHandlerTimer \/ PublishHandlerGet
           \/ AdcReady \/ TakeSample \/ SamplePut \/ SamplePurge
  <2>1. /\ UNCHANGED <<inbound_queue, outbound_queue, om, cmd, received, accepted, done>>
        /\ execPc' = execPc \/ (execPc = "off" /\ execPc' = "get")
    BY <1>1 DEF Reconnect, LoopTest, DrainEmpty, ProcessQuiet, ProcessError, DisconnectEvent,
         StartThreads, StartupFails, PublishHandlerTimer, PublishHandlerGet,
         AdcReady, TakeSample, SamplePut, SamplePurge, IndInv, TypeOK, ThreadsOK,
         queues, execVars, mainVars, workVars, sampleVars, history
  <2> QED  BY <2>1, QuietStep
<1>2. CASE UNCHANGED vars
  <2>1. UNCHANGED <<inbound_queue, outbound_queue, om, cmd, received, accepted, done, execPc>>
    BY <1>2 DEF vars, queues, execVars, mainVars, history
  <2> QED  BY <2>1, QuietStep
<1>3. CASE DrainGet
  BY <1>3, DrainGetServed
<1>4. ASSUME NEW stillUp \in BOOLEAN, Publish(stillUp)
      PROVE  [Service!Next]_(Service!vars)
  BY <1>4, PublishServed DEF Service!Next
<1>5. CASE IgnoreCommand \/ RejectCommand \/ AcceptCommand \/ BusyCommand
  BY <1>5, IgnoreServed, AcceptServed, BusyServed DEF Service!Next
<1>6. CASE ExecutorStep
  BY <1>6, ExecutorGetServed, ExecutorDispatchServed, ExecutorPutServed DEF ExecutorStep, Service!Next
<1>7. CASE PublishHandlerPut
  BY <1>7, PublishHandlerPutServed
<1>8. CASE Reset
  BY <1>8, ResetServed DEF Service!Next
<1> QED
  BY <1>1, <1>2, <1>3, <1>4, <1>5, <1>6, <1>7, <1>8
  DEF Next, MainStep, ProcessStep, WorkStep, SampleStep

\* The queues, the kernel's hand-overs and the telemetry in between are invisible:
\* the callback, the executor and the drain of main.c take, execute, answer and
\* refuse commands only as RequestService allows.
THEOREM PipelineImplementsService == Spec => ImplementsService
<1>1. Init => Service!Init
  BY DEF Init, Service!Init, Waiting, Answers, Outgoing, InInbound, NoMsg
<1> QED  BY <1>1, ServiceStep, Invariance, PTL DEF Spec, ImplementsService, Service!Spec

============================================================================
