----------------------- MODULE RequestContentsProofs -----------------------
(***************************************************************************)
(* Proofs about RequestContents for every size of the arrays and the       *)
(* queues, every set of lengths and every number of requests.              *)
(***************************************************************************)
EXTENDS RequestContents, SequenceTheorems, TLAPS

----------------------------------------------------------------------------
(***************************************************************************)
(* The inductive invariant.  AnswersOwnRequest looks at the message that   *)
(* was published last; what makes it true is that every copy on the way    *)
(* there, a queued command, the executor's command or a queued message, is *)
(* still the one that was made of its own request.                         *)
(***************************************************************************)
OwnCommand(rs, c) ==
    /\ c.n \in 1..Len(rs)
    /\ rs[c.n].verdict = "accepted"
    /\ rs[c.n].topic \in 0..MAX_TOPIC_LEN - 1
    /\ c = Parsed(rs[c.n], c.n)

OwnMessage(rs, m) ==
    /\ m.n \in 1..Len(rs)
    /\ rs[m.n].verdict \in {"accepted", "busy"} =>
          /\ rs[m.n].topic \in 0..MAX_TOPIC_LEN - 1
          /\ m = _msg_builder(Parsed(rs[m.n], m.n), m.n,
                              IF rs[m.n].verdict = "busy" THEN "busy" ELSE "reply")

CommandsOwn ==
    /\ \A i \in 1..Len(inbound_queue) : OwnCommand(requests, inbound_queue[i])
    /\ cmd # NoCommand => OwnCommand(requests, cmd)

MessagesOwn ==
    /\ \A i \in 1..Len(outbound_queue) : OwnMessage(requests, outbound_queue[i])
    /\ sent # NoMessage => OwnMessage(requests, sent)

CopiesOwn == Len(requests) <= MaxRequests /\ CommandsOwn /\ MessagesOwn

Inv == TypeOK /\ CopiesOwn

Records == [topic : TopicLens, correlation : CorrelationLens, verdict : Verdicts]

----------------------------------------------------------------------------
(***************************************************************************)
(* Copies.                                                                 *)
(***************************************************************************)

\* What is taken from a request with the structure zeroed first fits the command.
LEMMA ParsedFits ==
    ASSUME NEW r, NEW n \in 1..MaxRequests,
           r.topic \in 0..MAX_TOPIC_LEN - 1, r.correlation \in Nat
    PROVE  /\ Parsed(r, n) \in Commands
           /\ Parsed(r, n).n = n
           /\ Parsed(r, n) # NoCommand
  BY ContentsAssumption DEF Parsed, Commands, Contents, Bytes, Nothing, NoCommand

\* Whatever the command carries, the response that is built fits the message.
LEMMA BuiltFits ==
    ASSUME NEW c \in Commands, NEW n \in 1..MaxRequests,
           NEW kind \in {"reply", "invalid", "busy"}
    PROVE  /\ _msg_builder(c, n, kind) \in Messages
           /\ _msg_builder(c, n, kind).n = n
           /\ _msg_builder(c, n, kind) # NoMessage
<1> DEFINE m == _msg_builder(c, n, kind)
<1>1. /\ c.topic \in Contents(MAX_TOPIC_LEN - 1)
      /\ c.correlation \in Contents(MAX_CORRELATION_DATA - 1)
  BY DEF Commands
<1>2. Default \in Contents(MAX_TOPIC_LEN - 1)
  BY ContentsAssumption DEF Default, Contents
<1>3. Nothing \in Contents(MAX_CORRELATION_DATA - 1)
  BY ContentsAssumption DEF Nothing, Contents
<1>4. m.n = n /\ m.n # 0
  BY DEF _msg_builder
<1>5. m \in Messages
  BY <1>1, <1>2, <1>3 DEF _msg_builder, Messages
<1> QED  BY <1>4, <1>5 DEF NoMessage

\* The command that nothing was parsed into is a command, too.
LEMMA NoCommandFits == NoCommand \in Commands
  BY ContentsAssumption DEF NoCommand, Commands, Contents, Nothing

\* A request that arrives later takes nothing from the copies made before.
LEMMA CopiesKept ==
    ASSUME NEW rs \in Seq(Records), NEW r \in Records
    PROVE  /\ Append(rs, r) \in Seq(Records)
           /\ Len(Append(rs, r)) = Len(rs) + 1
           /\ Append(rs, r)[Len(rs) + 1] = r
           /\ \A c : OwnCommand(rs, c) => OwnCommand(Append(rs, r), c)
           /\ \A m : OwnMessage(rs, m) => OwnMessage(Append(rs, r), m)
<1>1. /\ Append(rs, r) \in Seq(Records)
      /\ Len(Append(rs, r)) = Len(rs) + 1 /\ Len(rs) \in Nat
      /\ \A n \in 1..Len(rs) : Append(rs, r)[n] = rs[n]
      /\ Append(rs, r)[Len(rs) + 1] = r
  BY AppendProperties, LenProperties
<1>2. 1..Len(rs) \subseteq 1..(Len(rs) + 1)
  BY <1>1
<1>3. ASSUME NEW c, OwnCommand(rs, c)
      PROVE  OwnCommand(Append(rs, r), c)
  BY <1>1, <1>2, <1>3 DEF OwnCommand
<1>4. ASSUME NEW m, OwnMessage(rs, m)
      PROVE  OwnMessage(Append(rs, r), m)
  BY <1>1, <1>2, <1>4 DEF OwnMessage
<1> QED  BY <1>1, <1>3, <1>4

\* The number of a request that arrives is the last, and what was there is kept.
LEMMA ArrivesKeeps ==
    ASSUME Inv, NEW q \in Requests, NEW verdict \in Verdicts, Arrives(q, verdict)
    PROVE  /\ requests' \in Seq(Records)
           /\ Len(requests') = Len(requests) + 1
           /\ Len(requests') \in 1..MaxRequests
           /\ Len(requests') \in 1..Len(requests')
           /\ requests'[Len(requests')] =
                 [topic |-> q.topic, correlation |-> q.correlation, verdict |-> verdict]
           /\ cmd' = cmd /\ sent' = sent
           /\ \A c : OwnCommand(requests, c) => OwnCommand(requests', c)
           /\ \A m : OwnMessage(requests, m) => OwnMessage(requests', m)
<1> DEFINE r == [topic |-> q.topic, correlation |-> q.correlation, verdict |-> verdict]
<1>1. r \in Records
  BY DEF Requests, Records
<1>2. requests \in Seq(Records)
  BY DEF Inv, TypeOK, Records
<1>3. requests' = Append(requests, r) /\ Len(requests) < MaxRequests
      /\ cmd' = cmd /\ sent' = sent
  BY DEF Arrives
<1>4. Len(requests) \in Nat
  BY <1>2, LenProperties
<1> HIDE DEF r
<1>5. /\ Append(requests, r) \in Seq(Records)
      /\ Len(Append(requests, r)) = Len(requests) + 1
      /\ Append(requests, r)[Len(requests) + 1] = r
      /\ \A c : OwnCommand(requests, c) => OwnCommand(Append(requests, r), c)
      /\ \A m : OwnMessage(requests, m) => OwnMessage(Append(requests, r), m)
  BY <1>1, <1>2, CopiesKept
<1>6. Len(requests) + 1 \in 1..MaxRequests /\ Len(requests) + 1 \in 1..(Len(requests) + 1)
  BY <1>3, <1>4, ContentsAssumption
<1> QED  BY <1>3, <1>5, <1>6 DEF r

\* A message put into outbound_queue is kept or dropped; those that wait stay.
LEMMA PutOutboundKeeps ==
    ASSUME Inv, NEW m \in Messages, PutOutbound(m)
    PROVE  /\ outbound_queue' \in Seq(Messages)
           /\ Len(outbound_queue') <= OUTBOUND_DEPTH
           /\ \A i \in 1..Len(outbound_queue') :
                 \/ outbound_queue'[i] = m
                 \/ \E j \in 1..Len(outbound_queue) : outbound_queue'[i] = outbound_queue[j]
<1>1. outbound_queue \in Seq(Messages) /\ Len(outbound_queue) \in Nat
  BY LenProperties DEF Inv, TypeOK
<1>2. CASE Len(outbound_queue) < OUTBOUND_DEPTH
  <2>1. outbound_queue' = Append(outbound_queue, m)
    BY <1>2 DEF PutOutbound
  <2> QED  BY <1>1, <1>2, <2>1, AppendProperties, ContentsAssumption
<1>3. CASE ~(Len(outbound_queue) < OUTBOUND_DEPTH)
  BY <1>1, <1>3 DEF PutOutbound, Inv, TypeOK
<1> QED  BY <1>2, <1>3

----------------------------------------------------------------------------
(***************************************************************************)
(* Every step keeps the invariant.                                         *)
(***************************************************************************)
LEMMA InitInv == Init => Inv
<1> SUFFICES ASSUME Init PROVE Inv
  OBVIOUS
<1>1. TypeOK
  BY EmptySeq, NoCommandFits, ContentsAssumption DEF Init, TypeOK
<1>2. CopiesOwn
  BY EmptySeq, ContentsAssumption DEF Init, CopiesOwn, CommandsOwn, MessagesOwn
<1> QED  BY <1>1, <1>2 DEF Inv

\* Only the history changes.
LEMMA IgnoreInv ==
    ASSUME Inv, NEW q \in Requests, Ignore(q)
    PROVE  Inv'
<1>1. /\ requests' \in Seq(Records) /\ Len(requests') \in 1..MaxRequests
      /\ cmd' = cmd /\ sent' = sent
      /\ \A c : OwnCommand(requests, c) => OwnCommand(requests', c)
      /\ \A m : OwnMessage(requests, m) => OwnMessage(requests', m)
  BY ArrivesKeeps DEF Ignore, Verdicts
<1>2. inbound_queue' = inbound_queue /\ outbound_queue' = outbound_queue
  BY DEF Ignore
<1>3. TypeOK'
  BY <1>1, <1>2 DEF Inv, TypeOK, Records
<1>4. CopiesOwn'
  BY <1>1, <1>2, ContentsAssumption DEF Inv, CopiesOwn, CommandsOwn, MessagesOwn
<1> QED  BY <1>3, <1>4 DEF Inv

\* A request answered from the callback: its message is its own, and the rest of
\* what is on the way is untouched.
LEMMA AnsweredInCallback ==
    ASSUME Inv, NEW q \in Requests, NEW verdict \in Verdicts, Arrives(q, verdict),
           NEW m \in Messages, PutOutbound(m), OwnMessage(requests', m),
           UNCHANGED inbound_queue
    PROVE  Inv'
<1>1. /\ requests' \in Seq(Records) /\ Len(requests') \in 1..MaxRequests
      /\ cmd' = cmd /\ sent' = sent
      /\ \A c : OwnCommand(requests, c) => OwnCommand(requests', c)
      /\ \A mm : OwnMessage(requests, mm) => OwnMessage(requests', mm)
  BY ArrivesKeeps
<1>2. /\ outbound_queue' \in Seq(Messages) /\ Len(outbound_queue') <= OUTBOUND_DEPTH
      /\ \A i \in 1..Len(outbound_queue') :
            \/ outbound_queue'[i] = m
            \/ \E j \in 1..Len(outbound_queue) : outbound_queue'[i] = outbound_queue[j]
  BY PutOutboundKeeps
<1>3. TypeOK'
  BY <1>1, <1>2 DEF Inv, TypeOK, Records
<1>4. CommandsOwn'
  BY <1>1 DEF Inv, CopiesOwn, CommandsOwn
<1>5. MessagesOwn'
  BY <1>1, <1>2 DEF Inv, CopiesOwn, MessagesOwn
<1> QED  BY <1>1, <1>3, <1>4, <1>5, ContentsAssumption DEF Inv, CopiesOwn

\* A NACK for an invalid request is built from a zeroed command.
LEMMA RefuseInv ==
    ASSUME Inv, NEW q \in Requests, Refuse(q)
    PROVE  Inv'
<1> DEFINE n == Len(requests')
           m == _msg_builder(NoCommand, n, "invalid")
<1>1. Arrives(q, "invalid") /\ PutOutbound(m) /\ UNCHANGED inbound_queue
  BY DEF Refuse
<1>2. /\ n \in 1..MaxRequests /\ n \in 1..Len(requests')
      /\ requests'[n] =
            [topic |-> q.topic, correlation |-> q.correlation, verdict |-> "invalid"]
  BY <1>1, ArrivesKeeps DEF Verdicts
<1>3. m \in Messages /\ m.n = n
  BY <1>2, BuiltFits, NoCommandFits
<1> HIDE DEF n, m
<1>4. requests'[m.n].verdict = "invalid"
  BY <1>2, <1>3
<1>5. OwnMessage(requests', m)
  BY <1>2, <1>3, <1>4 DEF OwnMessage
<1> QED  BY <1>1, <1>3, <1>5, AnsweredInCallback DEF Verdicts

\* What is parsed for a request that is accepted or refused as busy is its own.
LEMMA AcceptInv ==
    ASSUME Inv, NEW q \in Requests, Accept(q)
    PROVE  Inv'
<1> DEFINE n == Len(requests')
           c == Parsed(q, n)
           m == _msg_builder(c, n, "busy")
<1>1. q.topic \in 0..MAX_TOPIC_LEN - 1 /\ q.correlation \in Nat
  BY ContentsAssumption DEF Accept, TopicFits, Requests
<1>2. CASE /\ Len(inbound_queue) < MAX_PENDING_COMMANDS
           /\ Arrives(q, "accepted")
           /\ inbound_queue' = Append(inbound_queue, c)
           /\ UNCHANGED outbound_queue
  <2>1. /\ n \in 1..MaxRequests /\ n \in 1..Len(requests')
        /\ requests' \in Seq(Records)
        /\ requests'[n] =
              [topic |-> q.topic, correlation |-> q.correlation, verdict |-> "accepted"]
        /\ cmd' = cmd /\ sent' = sent
        /\ \A e : OwnCommand(requests, e) => OwnCommand(requests', e)
        /\ \A e : OwnMessage(requests, e) => OwnMessage(requests', e)
    BY <1>2, ArrivesKeeps DEF Verdicts
  <2>2. c \in Commands /\ c.n = n
    BY <1>1, <2>1, ParsedFits
  <2>3. c = Parsed(requests'[n], n) /\ requests'[n].verdict = "accepted"
        /\ requests'[n].topic = q.topic
    BY <2>1 DEF Parsed
  <2> HIDE DEF n, c
  <2>4. OwnCommand(requests', c)
    BY <1>1, <2>1, <2>2, <2>3 DEF OwnCommand
  <2>5. inbound_queue \in Seq(Commands) /\ Len(inbound_queue) \in Nat
    BY LenProperties DEF Inv, TypeOK
  <2>6. /\ inbound_queue' \in Seq(Commands) /\ Len(inbound_queue') <= MAX_PENDING_COMMANDS
        /\ Len(inbound_queue') = Len(inbound_queue) + 1
        /\ \A i \in 1..Len(inbound_queue) : inbound_queue'[i] = inbound_queue[i]
        /\ inbound_queue'[Len(inbound_queue) + 1] = c
    BY <1>2, <2>2, <2>5, AppendProperties, ContentsAssumption
  <2>7. \A i \in 1..Len(inbound_queue') : OwnCommand(requests', inbound_queue'[i])
    <3> SUFFICES ASSUME NEW i \in 1..Len(inbound_queue')
                 PROVE  OwnCommand(requests', inbound_queue'[i])
      OBVIOUS
    <3>1. CASE i \in 1..Len(inbound_queue)
      BY <2>1, <2>6, <3>1 DEF Inv, CopiesOwn, CommandsOwn
    <3>2. CASE i = Len(inbound_queue) + 1
      BY <2>4, <2>6, <3>2
    <3> QED  BY <2>5, <2>6, <3>1, <3>2
  <2>8. TypeOK'
    BY <1>2, <2>1, <2>6 DEF Inv, TypeOK, Records
  <2>9. CommandsOwn' /\ MessagesOwn'
    BY <1>2, <2>1, <2>7 DEF Inv, CopiesOwn, CommandsOwn, MessagesOwn
  <2> QED  BY <2>1, <2>8, <2>9, ContentsAssumption DEF Inv, CopiesOwn, n
<1>3. CASE /\ Arrives(q, "busy")
           /\ PutOutbound(m)
           /\ UNCHANGED inbound_queue
  <2>1. /\ n \in 1..MaxRequests /\ n \in 1..Len(requests')
        /\ requests'[n] =
              [topic |-> q.topic, correlation |-> q.correlation, verdict |-> "busy"]
    BY <1>3, ArrivesKeeps DEF Verdicts
  <2>2. c \in Commands
    BY <1>1, <2>1, ParsedFits
  <2>3. m \in Messages /\ m.n = n
    BY <2>1, <2>2, BuiltFits
  <2>4. c = Parsed(requests'[n], n) /\ requests'[n].verdict = "busy"
        /\ requests'[n].topic = q.topic
    BY <2>1 DEF Parsed
  <2>5. m = _msg_builder(Parsed(requests'[n], n), n, "busy")
    BY <2>4
  <2> HIDE DEF n, m, c
  <2>6. OwnMessage(requests', m)
    BY <1>1, <2>1, <2>3, <2>4, <2>5 DEF OwnMessage
  <2> QED  BY <1>3, <2>3, <2>6, AnsweredInCallback DEF Verdicts
<1> QED  BY <1>2, <1>3 DEF Accept

\* The executor gets a copy of the whole command.
LEMMA ExecutorGetInv ==
    ASSUME Inv, ExecutorGet
    PROVE  Inv'
<1>1. /\ inbound_queue \in Seq(Commands) /\ inbound_queue # <<>>
      /\ cmd' = Head(inbound_queue) /\ inbound_queue' = Tail(inbound_queue)
      /\ UNCHANGED <<outbound_queue, sent, requests>>
  BY DEF ExecutorGet, Inv, TypeOK
<1>2. /\ Head(inbound_queue) \in Commands /\ Head(inbound_queue) = inbound_queue[1]
      /\ Tail(inbound_queue) \in Seq(Commands)
      /\ Len(inbound_queue) \in Nat \ {0}
      /\ Len(Tail(inbound_queue)) = Len(inbound_queue) - 1
      /\ \A i \in 1..Len(Tail(inbound_queue)) : Tail(inbound_queue)[i] = inbound_queue[i + 1]
  BY <1>1, HeadTailProperties, EmptySeq
<1>3. 1 \in 1..Len(inbound_queue)
      /\ \A i \in 1..(Len(inbound_queue) - 1) : i + 1 \in 1..Len(inbound_queue)
      /\ Len(inbound_queue) - 1 <= Len(inbound_queue)
  BY <1>2
<1>4. \A i \in 1..Len(inbound_queue) : OwnCommand(requests, inbound_queue[i])
  BY DEF Inv, CopiesOwn, CommandsOwn
<1>5. TypeOK'
  BY <1>1, <1>2, ContentsAssumption DEF Inv, TypeOK
<1>6. CommandsOwn'
  BY <1>1, <1>2, <1>3, <1>4 DEF CommandsOwn
<1>7. MessagesOwn'
  BY <1>1 DEF Inv, CopiesOwn, MessagesOwn
<1> QED  BY <1>1, <1>5, <1>6, <1>7 DEF Inv, CopiesOwn

\* The reply carries what the command carries, so it is its own request's too.
LEMMA ExecutorPutInv ==
    ASSUME Inv, ExecutorPut
    PROVE  Inv'
<1> DEFINE m == _msg_builder(cmd, cmd.n, "reply")
<1>1. /\ cmd \in Commands /\ OwnCommand(requests, cmd)
      /\ outbound_queue \in Seq(Messages) /\ Len(outbound_queue) < OUTBOUND_DEPTH
      /\ requests \in Seq(Records) /\ Len(requests) <= MaxRequests
  BY DEF ExecutorPut, Inv, TypeOK, CopiesOwn, CommandsOwn, Records
<1>2. Len(outbound_queue) \in Nat /\ Len(requests) \in Nat
  BY <1>1, LenProperties
<1>3. cmd.n \in 1..MaxRequests
  BY <1>1, <1>2, ContentsAssumption DEF OwnCommand
<1>4. m \in Messages /\ m.n = cmd.n
  BY <1>1, <1>3, BuiltFits
<1>5. m = _msg_builder(Parsed(requests[cmd.n], cmd.n), cmd.n, "reply")
  BY <1>1 DEF OwnCommand
<1>6. /\ outbound_queue' = Append(outbound_queue, m)
      /\ cmd' = NoCommand
      /\ UNCHANGED <<inbound_queue, sent, requests>>
  BY DEF ExecutorPut
<1> HIDE DEF m
<1>7. OwnMessage(requests, m)
  BY <1>1, <1>4, <1>5 DEF OwnMessage, OwnCommand
<1>8. /\ outbound_queue' \in Seq(Messages) /\ Len(outbound_queue') <= OUTBOUND_DEPTH
      /\ \A i \in 1..Len(outbound_queue') :
            \/ outbound_queue'[i] = m
            \/ i \in 1..Len(outbound_queue) /\ outbound_queue'[i] = outbound_queue[i]
  BY <1>1, <1>2, <1>4, <1>6, AppendProperties, ContentsAssumption
<1>9. TypeOK'
  BY <1>6, <1>8, NoCommandFits DEF Inv, TypeOK
<1>10. CommandsOwn'
  BY <1>6 DEF Inv, CopiesOwn, CommandsOwn
<1>11. MessagesOwn'
  BY <1>6, <1>7, <1>8 DEF Inv, CopiesOwn, MessagesOwn
<1> QED  BY <1>1, <1>6, <1>9, <1>10, <1>11 DEF Inv, CopiesOwn

\* What is published is what has been queued.
LEMMA PublishInv ==
    ASSUME Inv, Publish
    PROVE  Inv'
<1>1. /\ outbound_queue \in Seq(Messages) /\ outbound_queue # <<>>
      /\ sent' = Head(outbound_queue) /\ outbound_queue' = Tail(outbound_queue)
      /\ UNCHANGED <<inbound_queue, cmd, requests>>
  BY DEF Publish, Inv, TypeOK
<1>2. /\ Head(outbound_queue) \in Messages /\ Head(outbound_queue) = outbound_queue[1]
      /\ Tail(outbound_queue) \in Seq(Messages)
      /\ Len(outbound_queue) \in Nat \ {0}
      /\ Len(Tail(outbound_queue)) = Len(outbound_queue) - 1
      /\ \A i \in 1..Len(Tail(outbound_queue)) : Tail(outbound_queue)[i] = outbound_queue[i + 1]
  BY <1>1, HeadTailProperties, EmptySeq
<1>3. 1 \in 1..Len(outbound_queue)
      /\ \A i \in 1..(Len(outbound_queue) - 1) : i + 1 \in 1..Len(outbound_queue)
  BY <1>2
<1>4. \A i \in 1..Len(outbound_queue) : OwnMessage(requests, outbound_queue[i])
  BY DEF Inv, CopiesOwn, MessagesOwn
<1>5. TypeOK'
  BY <1>1, <1>2, ContentsAssumption DEF Inv, TypeOK
<1>6. MessagesOwn'
  BY <1>1, <1>2, <1>3, <1>4 DEF MessagesOwn
<1>7. CommandsOwn'
  BY <1>1 DEF Inv, CopiesOwn, CommandsOwn
<1> QED  BY <1>1, <1>5, <1>6, <1>7 DEF Inv, CopiesOwn

----------------------------------------------------------------------------
(***************************************************************************)
(* The theorems.                                                           *)
(***************************************************************************)
LEMMA InvariantHolds == Spec => []Inv
<1>1. Inv /\ [Next]_vars => Inv'
  <2> SUFFICES ASSUME Inv, [Next]_vars PROVE Inv'
    OBVIOUS
  <2>1. CASE UNCHANGED vars
    BY <2>1 DEF vars, Inv, TypeOK, CopiesOwn, CommandsOwn, MessagesOwn
  <2>2. CASE mqtt_command_handler
    BY <2>2, IgnoreInv, RefuseInv, AcceptInv DEF mqtt_command_handler
  <2> QED
    BY <2>1, <2>2, ExecutorGetInv, ExecutorPutInv, PublishInv DEF Next
<1> QED  BY InitInv, <1>1, PTL DEF Spec

\* Whatever requests arrive, what mqtt_command_handler, the executor and _msg_builder
\* copy fits response_topic, topic and correlation_data, and the queues their depths.
THEOREM TypeCorrect == Spec => []TypeOK
<1>1. Inv => TypeOK
  BY DEF Inv
<1> QED  BY <1>1, InvariantHolds, PTL

\* The message that mqtt_publish is given last goes to the topic of the request it
\* answers, with that request's correlation data.
THEOREM AnswersOwn == Spec => []AnswersOwnRequest
<1>1. Inv => AnswersOwnRequest
  <2> SUFFICES ASSUME Inv, sent # NoMessage,
                      requests[sent.n].verdict \in {"accepted", "busy"}
               PROVE  LET r == requests[sent.n] IN
                      /\ sent.kind = IF r.verdict = "busy" THEN "busy" ELSE "reply"
                      /\ sent.topic = IF r.topic = 0 THEN Default ELSE Bytes(sent.n, r.topic)
                      /\ sent.correlation = IF r.correlation \in 1..MAX_CORRELATION_DATA - 1
                                            THEN Bytes(sent.n, r.correlation) ELSE Nothing
    BY DEF AnswersOwnRequest, Answered
  <2> DEFINE r == requests[sent.n]
             p == Parsed(r, sent.n)
             k == IF r.verdict = "busy" THEN "busy" ELSE "reply"
  <2>1. r.topic \in 0..MAX_TOPIC_LEN - 1 /\ sent = _msg_builder(p, sent.n, k)
    BY DEF Inv, CopiesOwn, MessagesOwn, OwnMessage
  <2>2. p.topic = Bytes(sent.n, r.topic) /\ p.topic.len = r.topic
    BY DEF Parsed, Bytes
  <2>3. /\ p.correlation = IF r.correlation \in 1..MAX_CORRELATION_DATA - 1
                           THEN Bytes(sent.n, r.correlation) ELSE Nothing
        /\ p.correlation.len = IF r.correlation \in 1..MAX_CORRELATION_DATA - 1
                               THEN r.correlation ELSE 0
    BY DEF Parsed, Bytes, Nothing
  <2> HIDE DEF p, k, r
  <2>4. /\ sent.kind = k
        /\ sent.topic = IF p.topic.len \in 1..MAX_TOPIC_LEN - 1 THEN p.topic ELSE Default
        /\ sent.correlation = IF p.correlation.len \in 1..MAX_CORRELATION_DATA - 1
                              THEN p.correlation ELSE Nothing
    BY <2>1 DEF _msg_builder
  <2>5. sent.topic = IF r.topic = 0 THEN Default ELSE Bytes(sent.n, r.topic)
    BY <2>1, <2>2, <2>4, ContentsAssumption
  <2>6. sent.correlation = p.correlation
    BY <2>3, <2>4, ContentsAssumption
  <2> QED  BY <2>3, <2>4, <2>5, <2>6 DEF k, r
<1> QED  BY <1>1, InvariantHolds, PTL

=============================================================================
