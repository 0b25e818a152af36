---------------------------- MODULE RequestContents ----------------------------
(***************************************************************************)
(* What the messages of CommandPipeline carry: to which topic the response *)
(* to a request goes, and with which correlation data, from the callback   *)
(* that copies both out of the request (main.c) through inbound_queue, the *)
(* executor, _msg_builder (command.c) and outbound_queue to mqtt_publish.  *)
(*                                                                         *)
(* Of strings and byte arrays only the length is kept, and whose they are. *)
(* Requests are numbered in the order of their arrival.                    *)
(***************************************************************************)
EXTENDS Integers, Sequences

CONSTANTS
    MAX_KEY_LEN, MAX_PAYLOAD_LEN, MAX_TOPIC_LEN, MAX_CORRELATION_DATA,
    MAX_PENDING_COMMANDS,   \* depth of inbound_queue
    OUTBOUND_DEPTH,         \* depth of outbound_queue
    KeyLens, PayloadLens, TopicLens, CorrelationLens,   \* lengths that requests have
    MaxRequests             \* bound: requests received

VARIABLES
    inbound_queue,
    outbound_queue,
    cmd,            \* the executor's command
    sent,           \* the message published last
    requests        \* history: of every request what matters for its response

vars == <<inbound_queue, outbound_queue, cmd, sent, requests>>

\* No response topic, or a topic that # matches but the prefix does not.
Absent == -1

ASSUME ContentsAssumption ==
    /\ MAX_PENDING_COMMANDS \in Nat /\ OUTBOUND_DEPTH \in Nat /\ MaxRequests \in Nat
    /\ KeyLens \cup TopicLens \subseteq Nat \cup {Absent}
    /\ PayloadLens \cup CorrelationLens \subseteq Nat
    /\ MAX_CORRELATION_DATA \in Nat \ {0}
    /\ MAX_TOPIC_LEN \in Nat /\ MAX_TOPIC_LEN > 18    \* the default topic fits

Requests == [key : KeyLens, payload : PayloadLens, typed : BOOLEAN,
             topic : TopicLens, correlation : CorrelationLens]
Verdicts == {"ignored", "invalid", "busy", "accepted"}

\* Bytes copied from request n; the empty string of a zeroed structure.
Bytes(n, len) == [of |-> n, len |-> len]
Nothing == [of |-> 0, len |-> 0]
Default == [of |-> 0, len |-> 18]           \* "cmd/hsfib-tib/resp"
NoCommand == [n |-> 0, topic |-> Nothing, correlation |-> Nothing]
NoMessage == [n |-> 0, kind |-> "none", topic |-> Nothing, correlation |-> Nothing]

Contents(max) == [of : 0..MaxRequests, len : 0..max]
Commands == [n : 0..MaxRequests, topic : Contents(MAX_TOPIC_LEN - 1),
             correlation : Contents(MAX_CORRELATION_DATA - 1)]
Messages == [n : 1..MaxRequests, kind : {"reply", "invalid", "busy"},
             topic : Contents(MAX_TOPIC_LEN - 1),
             correlation : Contents(MAX_CORRELATION_DATA - 1)]

\* Nothing that is copied outgrows the array it is copied to.
TypeOK ==
    /\ inbound_queue \in Seq(Commands) /\ Len(inbound_queue) <= MAX_PENDING_COMMANDS
    /\ outbound_queue \in Seq(Messages) /\ Len(outbound_queue) <= OUTBOUND_DEPTH
    /\ cmd \in Commands
    /\ sent \in Messages \cup {NoMessage}
    /\ requests \in Seq([topic : TopicLens, correlation : CorrelationLens, verdict : Verdicts])

Init ==
    /\ inbound_queue = <<>> /\ outbound_queue = <<>>
    /\ cmd = NoCommand /\ sent = NoMessage
    /\ requests = <<>>

----------------------------------------------------------------------------
\* _msg_builder: without a response topic the response goes to the default one.
_msg_builder(c, n, kind) ==
    [n |-> n, kind |-> kind,
     topic |-> IF c.topic.len \in 1..MAX_TOPIC_LEN - 1 THEN c.topic ELSE Default,
     correlation |-> IF c.correlation.len \in 1..MAX_CORRELATION_DATA - 1
                     THEN c.correlation ELSE Nothing]

\* k_msgq_put with K_NO_WAIT.
PutOutbound(m) ==
    outbound_queue' = IF Len(outbound_queue) < OUTBOUND_DEPTH
                      THEN Append(outbound_queue, m) ELSE outbound_queue

----------------------------------------------------------------------------
(***************************************************************************)
(* mqtt_command_handler.                                                   *)
(***************************************************************************)
KeyFits(q) == q.key \in 1..MAX_KEY_LEN - 1
PayloadFits(q) == q.payload < MAX_PAYLOAD_LEN

\* Mutant of TopicFits: no room is left for the terminating zero.
TopicFitsExactly(q) == q.topic \in 0..MAX_TOPIC_LEN

TopicFits(q) == q.topic \in 0..MAX_TOPIC_LEN - 1

Arrives(q, verdict) ==
    /\ Len(requests) < MaxRequests
    /\ requests' = Append(requests, [topic |-> q.topic, correlation |-> q.correlation,
                                     verdict |-> verdict])
    /\ UNCHANGED <<cmd, sent>>

\* The topic is not below the prefix, or the payload does not fit.
Ignore(q) ==
    /\ q.key = Absent \/ (KeyFits(q) /\ ~PayloadFits(q))
    /\ Arrives(q, "ignored")
    /\ UNCHANGED <<inbound_queue, outbound_queue>>

\* Everything that is found wrong is so before the response topic is copied.
Refuse(q) ==
    /\ q.key # Absent
    /\ \/ ~KeyFits(q)
       \/ PayloadFits(q) /\ (~q.typed \/ ~TopicFits(q))
    /\ Arrives(q, "invalid")
    /\ PutOutbound(_msg_builder(NoCommand, Len(requests'), "invalid"))
    /\ UNCHANGED inbound_queue

\* Mutant of Parsed: the structure is not zeroed, and keeps the correlation data of
\* the request before.
ParsedOver(q, n) ==
    LET fits(l) == l \in 1..MAX_CORRELATION_DATA - 1
    IN  [n |-> n, topic |-> Bytes(n, q.topic),
         correlation |->
            IF fits(q.correlation) THEN Bytes(n, q.correlation)
            ELSE IF n > 1 /\ requests[n - 1].verdict = "accepted" /\ fits(requests[n - 1].correlation)
            THEN Bytes(n - 1, requests[n - 1].correlation) ELSE Nothing]

\* Correlation data that leaves no room for one byte more is not copied.
Parsed(q, n) ==
    [n |-> n, topic |-> Bytes(n, q.topic),
     correlation |-> IF q.correlation \in 1..MAX_CORRELATION_DATA - 1
                     THEN Bytes(n, q.correlation) ELSE Nothing]

Accept(q) ==
    /\ KeyFits(q) /\ PayloadFits(q) /\ q.typed /\ TopicFits(q)
    /\ \/ /\ Len(inbound_queue) < MAX_PENDING_COMMANDS
          /\ Arrives(q, "accepted")
          /\ inbound_queue' = Append(inbound_queue, Parsed(q, Len(requests')))
          /\ UNCHANGED outbound_queue
       \/ /\ Len(inbound_queue) = MAX_PENDING_COMMANDS
          /\ Arrives(q, "busy")
          /\ PutOutbound(_msg_builder(Parsed(q, Len(requests')), Len(requests'), "busy"))
          /\ UNCHANGED inbound_queue

mqtt_command_handler == \E q \in Requests : Ignore(q) \/ Refuse(q) \/ Accept(q)

----------------------------------------------------------------------------
(***************************************************************************)
(* The executor and the drain of main.                                     *)
(***************************************************************************)
ExecutorGet ==
    /\ cmd = NoCommand
    /\ inbound_queue # <<>>
    /\ cmd' = Head(inbound_queue)
    /\ inbound_queue' = Tail(inbound_queue)
    /\ UNCHANGED <<outbound_queue, sent, requests>>

\* dispatch_command, and k_msgq_put, which waits for room.
ExecutorPut ==
    /\ cmd # NoCommand
    /\ Len(outbound_queue) < OUTBOUND_DEPTH
    /\ outbound_queue' = Append(outbound_queue, _msg_builder(cmd, cmd.n, "reply"))
    /\ cmd' = NoCommand
    /\ UNCHANGED <<inbound_queue, sent, requests>>

Publish ==
    /\ outbound_queue # <<>>
    /\ sent' = Head(outbound_queue)
    /\ outbound_queue' = Tail(outbound_queue)
    /\ UNCHANGED <<inbound_queue, cmd, requests>>

Next == mqtt_command_handler \/ ExecutorGet \/ ExecutorPut \/ Publish

Spec == Init /\ [][Next]_vars

----------------------------------------------------------------------------
(***************************************************************************)
(* Properties.                                                             *)
(***************************************************************************)
Answered == requests[sent.n]

\* The response to a command that was understood, busy NACKs included, goes to the
\* command's own response topic with the command's own correlation data as far as
\* they fit, whatever was received before and since, and never with another's.
AnswersOwnRequest ==
    sent # NoMessage /\ Answered.verdict \in {"accepted", "busy"} =>
        /\ sent.kind = IF Answered.verdict = "busy" THEN "busy" ELSE "reply"
        /\ sent.topic = IF Answered.topic = 0 THEN Default ELSE Bytes(sent.n, Answered.topic)
        /\ sent.correlation = IF Answered.correlation \in 1..MAX_CORRELATION_DATA - 1
                              THEN Bytes(sent.n, Answered.correlation) ELSE Nothing

\* The response topic is the one provided in the request, as README.md says.
TopicHonoured ==
    sent # NoMessage /\ Answered.topic \in 1..MAX_TOPIC_LEN - 1 =>
        sent.topic = Bytes(sent.n, Answered.topic)

=============================================================================
