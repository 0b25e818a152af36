-------------------------- MODULE CommandPipeline --------------------------
(***************************************************************************)
(* The firmware's request/response pipeline: the main thread (MQTT loop    *)
(* and mqtt_command_handler), the executor thread, the system work queue   *)
(* item that forwards photodiode samples, and the photodiode thread, which *)
(* share three bounded Zephyr message queues:                              *)
(*                                                                         *)
(*    main --inbound_queue--> executor --outbound_queue--> main            *)
(*    photodiode --photodiode_queue--> work item --outbound_queue--> main  *)
(*                                                                         *)
(* Every k_msgq call is one atomic step (the kernel runs it under the      *)
(* queue's spinlock).  Threads interleave freely between those steps.      *)
(*                                                                         *)
(* Requests are numbered in the order in which the main thread receives    *)
(* them and samples in the order in which the photodiode thread takes      *)
(* them; no other data of a message matters to the properties here.        *)
(***************************************************************************)
EXTENDS Integers, Sequences

CONSTANTS
    MAX_PENDING_COMMANDS,  \* depth of inbound_queue
    OUTBOUND_DEPTH,        \* depth of outbound_queue
    PHOTODIODE_DEPTH,      \* depth of photodiode_queue
    MaxRequests,           \* bound: requests received in a behaviour
    MaxSamples             \* bound: sample numbers saturate here

ASSUME DepthAssumption ==
    /\ MAX_PENDING_COMMANDS \in Nat \ {0}
    /\ OUTBOUND_DEPTH \in Nat \ {0}
    /\ PHOTODIODE_DEPTH \in Nat \ {0}

ASSUME BoundAssumption ==
    /\ MaxRequests \in Nat
    /\ MaxSamples \in Nat \ {0}

VARIABLES
    inbound_queue,     \* requests accepted and not yet fetched by the executor
    outbound_queue,    \* messages to be published
    photodiode_queue,  \* samples not yet fetched by the work item
    execPc, cmd,       \* executor thread: where it is, the command it holds
    mainPc, om,        \* main thread: where it is, the message it holds
    connected,         \* mqtt_connected
    workPc, workOm,    \* work item: where it is, the sample it holds
    samplePc, sampleNo,\* photodiode thread: where it is, its last sample
    received,          \* history: how many requests have been received
    accepted,          \* history: the requests put into inbound_queue, but for
                       \* those that a reset lost
    done               \* history: requests whose response was given to mqtt_publish

queues   == <<inbound_queue, outbound_queue, photodiode_queue>>
execVars == <<execPc, cmd>>
mainVars == <<mainPc, om, connected>>
workVars == <<workPc, workOm>>
sampleVars == <<samplePc, sampleNo>>
history  == <<received, accepted, done>>
vars == <<queues, execVars, mainVars, workVars, sampleVars, history>>

Requests == 1..MaxRequests
Samples  == 1..MaxSamples

(***************************************************************************)
(* What an OutMsg is to the pipeline: the executor's reply to a request,   *)
(* a busy or an invalid NACK for a request, or a photodiode sample.        *)
(***************************************************************************)
NackKinds == {"busy", "invalid"}
ResponseKinds == {"reply"} \cup NackKinds
Response == [kind : ResponseKinds, id : Requests]
Sample   == [kind : {"sample"}, id : Samples]
OutMsg   == Response \cup Sample

NoCmd == 0                              \* the executor holds no command
NoMsg == [kind |-> "none", id |-> 0]    \* a thread holds no message

Reply(r) == [kind |-> "reply", id |-> r]

QueuesOK ==
    /\ inbound_queue \in Seq(Requests) /\ Len(inbound_queue) <= MAX_PENDING_COMMANDS
    /\ outbound_queue \in Seq(OutMsg) /\ Len(outbound_queue) <= OUTBOUND_DEPTH
    /\ photodiode_queue \in Seq(Sample) /\ Len(photodiode_queue) <= PHOTODIODE_DEPTH

\* A thread holds a command, message or sample exactly while it works on it.
ThreadsOK ==
    /\ execPc \in {"off", "get", "wait", "dispatch", "put", "blocked"}
    /\ cmd \in Requests \cup {NoCmd}
    /\ cmd # NoCmd <=> execPc \in {"dispatch", "put", "blocked"}
    /\ mainPc \in {"init", "exited", "offline", "loop", "drain", "publish", "process"}
    /\ om \in OutMsg \cup {NoMsg}
    /\ om # NoMsg <=> mainPc = "publish"
    /\ connected \in BOOLEAN
    /\ workPc \in {"off", "idle", "get", "put"}
    /\ workOm \in Sample \cup {NoMsg}
    /\ workOm # NoMsg <=> workPc = "put"
    /\ samplePc \in {"notready", "sample", "put", "purge"}
    /\ sampleNo \in Samples \cup {0}
    /\ samplePc \in {"put", "purge"} => sampleNo # 0
    /\ execPc = "off" <=> mainPc \in {"init", "exited"}
    /\ execPc = "off" <=> workPc = "off"

HistoryOK ==
    /\ received \in 0..MaxRequests
    /\ accepted \subseteq 1..received
    /\ done \subseteq 1..received

TypeOK == QueuesOK /\ ThreadsOK /\ HistoryOK

----------------------------------------------------------------------------
(***************************************************************************)
(* Start-up.  inbound_queue, outbound_queue, photodiode_queue and the      *)
(* photodiode thread are defined statically; the executor and the work     *)
(* item are started by main().                                             *)
(***************************************************************************)
Init ==
    /\ inbound_queue = <<>> /\ outbound_queue = <<>> /\ photodiode_queue = <<>>
    /\ execPc = "off" /\ cmd = NoCmd
    /\ mainPc = "init" /\ om = NoMsg /\ connected = FALSE
    /\ workPc = "off" /\ workOm = NoMsg
    /\ samplePc = "notready" /\ sampleNo = 0
    /\ received = 0 /\ accepted = {} /\ done = {}

\* main() got through its initialisation: the executor is created and the
\* work item submitted without delay.
StartThreads ==
    /\ mainPc = "init"
    /\ mainPc' = "offline"
    /\ execPc' = "get"
    /\ workPc' = "get"
    /\ UNCHANGED <<queues, cmd, om, connected, workOm, sampleVars, history>>

\* No default interface, or coo_mqtt_init failed: main() returns and only the
\* photodiode thread goes on.
StartupFails ==
    /\ mainPc = "init"
    /\ mainPc' = "exited"
    /\ UNCHANGED <<queues, execVars, om, connected, workVars, sampleVars, history>>

----------------------------------------------------------------------------
(***************************************************************************)
(* Main thread: the connection loop.  coo_mqtt_connect blocks until the    *)
(* CONNACK; an attempt that fails, or a subscription that loses the        *)
(* connection again, leaves the thread where it was.                       *)
(***************************************************************************)
Reconnect ==
    /\ mainPc = "offline"
    /\ connected' = TRUE
    /\ mainPc' = "loop"
    /\ UNCHANGED <<queues, execVars, om, workVars, sampleVars, history>>

\* while (coo_mqtt_is_connected()); otherwise mqtt_disconnect and start over.
LoopTest ==
    /\ mainPc = "loop"
    /\ mainPc' = IF connected THEN "drain" ELSE "offline"
    /\ UNCHANGED <<queues, execVars, om, connected, workVars, sampleVars, history>>

\* Mutant of DrainGet: the free slot is not offered to the pended executor.
DrainGetNoHandOff ==
    /\ mainPc = "drain"
    /\ outbound_queue # <<>>
    /\ om' = Head(outbound_queue)
    /\ mainPc' = "publish"
    /\ outbound_queue' = Tail(outbound_queue)
    /\ UNCHANGED <<inbound_queue, photodiode_queue, execVars, connected, workVars, sampleVars, history>>

\* k_msgq_get(&outbound_queue, &om, K_NO_WAIT).  The kernel moves the message
\* of a pended writer into the slot that becomes free before anybody else can
\* take it.
DrainGet ==
    /\ mainPc = "drain"
    /\ outbound_queue # <<>>
    /\ om' = Head(outbound_queue)
    /\ mainPc' = "publish"
    /\ \/ /\ execPc = "blocked"
          /\ outbound_queue' = Append(Tail(outbound_queue), Reply(cmd))
          /\ execPc' = "get"
          /\ cmd' = NoCmd
       \/ /\ execPc # "blocked"
          /\ outbound_queue' = Tail(outbound_queue)
          /\ UNCHANGED execVars
    /\ UNCHANGED <<inbound_queue, photodiode_queue, connected, workVars, sampleVars, history>>

DrainEmpty ==
    /\ mainPc = "drain"
    /\ outbound_queue = <<>>
    /\ mainPc' = "process"
    /\ UNCHANGED <<queues, execVars, om, connected, workVars, sampleVars, history>>

\* Mutant of Publish: a message whose publish failed goes back to the queue.
PublishRequeue(stillUp) ==
    /\ mainPc = "publish"
    /\ stillUp => connected
    /\ connected' = stillUp
    /\ IF ~stillUp /\ Len(outbound_queue) < OUTBOUND_DEPTH
       THEN /\ outbound_queue' = Append(outbound_queue, om)
            /\ UNCHANGED done
       ELSE /\ done' = IF om.kind \in ResponseKinds THEN done \cup {om.id} ELSE done
            /\ UNCHANGED outbound_queue
    /\ om' = NoMsg
    /\ mainPc' = "drain"
    /\ UNCHANGED <<inbound_queue, photodiode_queue, execVars, workVars, sampleVars, received, accepted>>

\* mqtt_publish.  A failure is logged and the message is gone; a failed write
\* also closes the connection, and the drain goes on all the same.
Publish(stillUp) ==
    /\ mainPc = "publish"
    /\ stillUp => connected
    /\ connected' = stillUp
    /\ done' = IF om.kind \in ResponseKinds THEN done \cup {om.id} ELSE done
    /\ om' = NoMsg
    /\ mainPc' = "drain"
    /\ UNCHANGED <<queues, execVars, workVars, sampleVars, received, accepted>>

----------------------------------------------------------------------------
(***************************************************************************)
(* Main thread: coo_mqtt_process, with the message callback.               *)
(***************************************************************************)

\* Keep-alive timeout, a packet that is no command, or nothing to read.
ProcessQuiet ==
    /\ mainPc = "process"
    /\ mainPc' = "loop"
    /\ UNCHANGED <<queues, execVars, om, connected, workVars, sampleVars, history>>

\* coo_mqtt_process returned an error: break, mqtt_disconnect.
ProcessError ==
    /\ mainPc = "process"
    /\ connected' = FALSE
    /\ mainPc' = "offline"
    /\ UNCHANGED <<queues, execVars, om, workVars, sampleVars, history>>

\* MQTT_EVT_DISCONNECT.
DisconnectEvent ==
    /\ mainPc = "process"
    /\ connected
    /\ connected' = FALSE
    /\ mainPc' = "loop"
    /\ UNCHANGED <<queues, execVars, om, workVars, sampleVars, history>>

\* A command arrives: it is the next request of the behaviour.  The poll that
\* brought it may have reported a hang-up as well, which coo_mqtt_process returns
\* as an error once the callback is through.
Receive ==
    /\ mainPc = "process"
    /\ connected
    /\ received < MaxRequests
    /\ received' = received + 1
    /\ \/ mainPc' = "loop" /\ UNCHANGED connected
       \/ mainPc' = "offline" /\ connected' = FALSE
    /\ UNCHANGED <<photodiode_queue, om, workVars, sampleVars, done>>

\* k_msgq_put(&outbound_queue, m, K_NO_WAIT): dropped when the queue is full.
\* Nobody ever pends on an empty outbound_queue.
PutOutbound(m) ==
    outbound_queue' = IF Len(outbound_queue) < OUTBOUND_DEPTH
                      THEN Append(outbound_queue, m)
                      ELSE outbound_queue

\* Unreadable payload, foreign topic, or a payload of MAX_PAYLOAD_LEN bytes
\* and more: no response at all.
IgnoreCommand ==
    /\ Receive
    /\ UNCHANGED <<inbound_queue, outbound_queue, execVars, accepted>>

\* Bad key length, no msg_type or no response topic: an invalid NACK.
RejectCommand ==
    /\ Receive
    /\ PutOutbound([kind |-> "invalid", id |-> received'])
    /\ UNCHANGED <<inbound_queue, execVars, accepted>>

\* k_msgq_put(&inbound_queue, &cmd, K_NO_WAIT) = 0.  The kernel hands the
\* command straight to an executor that is pended on the queue.
AcceptCommand ==
    /\ Receive
    /\ accepted' = accepted \cup {received'}
    /\ \/ /\ execPc = "wait"
          /\ cmd' = received'
          /\ execPc' = "dispatch"
          /\ UNCHANGED inbound_queue
       \/ /\ execPc # "wait"
          /\ Len(inbound_queue) < MAX_PENDING_COMMANDS
          /\ inbound_queue' = Append(inbound_queue, received')
          /\ UNCHANGED execVars
    /\ UNCHANGED outbound_queue

\* Mutant of BusyCommand: the queue counts as full one slot early.
BusyCommandEarly ==
    /\ Receive
    /\ execPc # "wait"
    /\ Len(inbound_queue) >= MAX_PENDING_COMMANDS - 1
    /\ PutOutbound([kind |-> "busy", id |-> received'])
    /\ UNCHANGED <<inbound_queue, execVars, accepted>>

\* inbound_queue is full: a busy NACK, itself dropped when outbound_queue is.
BusyCommand ==
    /\ Receive
    /\ execPc # "wait"
    /\ Len(inbound_queue) >= MAX_PENDING_COMMANDS
    /\ PutOutbound([kind |-> "busy", id |-> received'])
    /\ UNCHANGED <<inbound_queue, execVars, accepted>>

----------------------------------------------------------------------------
(***************************************************************************)
(* Executor thread.                                                        *)
(***************************************************************************)

\* k_msgq_get(&inbound_queue, &cmd, K_FOREVER): take a command or pend.
ExecutorGet ==
    /\ execPc = "get"
    /\ \/ /\ inbound_queue # <<>>
          /\ cmd' = Head(inbound_queue)
          /\ inbound_queue' = Tail(inbound_queue)
          /\ execPc' = "dispatch"
       \/ /\ inbound_queue = <<>>
          /\ execPc' = "wait"
          /\ UNCHANGED <<inbound_queue, cmd>>
    /\ UNCHANGED <<outbound_queue, photodiode_queue, mainVars, workVars, sampleVars, history>>

\* om = dispatch_command(&cmd): every handler ends with one response.
ExecutorDispatch ==
    /\ execPc = "dispatch"
    /\ execPc' = "put"
    /\ UNCHANGED <<queues, cmd, mainVars, workVars, sampleVars, history>>

\* Mutant of ExecutorPut: K_NO_WAIT, so the branch that only logs is taken.
ExecutorPutNoWait ==
    /\ execPc = "put"
    /\ PutOutbound(Reply(cmd))
    /\ execPc' = "get"
    /\ cmd' = NoCmd
    /\ UNCHANGED <<inbound_queue, photodiode_queue, mainVars, workVars, sampleVars, history>>

\* k_msgq_put(&outbound_queue, &om, K_FOREVER): append or pend.
ExecutorPut ==
    /\ execPc = "put"
    /\ \/ /\ Len(outbound_queue) < OUTBOUND_DEPTH
          /\ outbound_queue' = Append(outbound_queue, Reply(cmd))
          /\ execPc' = "get"
          /\ cmd' = NoCmd
       \/ /\ Len(outbound_queue) >= OUTBOUND_DEPTH
          /\ execPc' = "blocked"
          /\ UNCHANGED <<outbound_queue, cmd>>
    /\ UNCHANGED <<inbound_queue, photodiode_queue, mainVars, workVars, sampleVars, history>>

----------------------------------------------------------------------------
(***************************************************************************)
(* System work queue: photodiode_publish_handler, every 10 ms.             *)
(***************************************************************************)
PublishHandlerTimer ==
    /\ workPc = "idle"
    /\ workPc' = "get"
    /\ UNCHANGED <<queues, execVars, mainVars, workOm, sampleVars, history>>

PublishHandlerGet ==
    /\ workPc = "get"
    /\ \/ /\ photodiode_queue # <<>>
          /\ workOm' = Head(photodiode_queue)
          /\ photodiode_queue' = Tail(photodiode_queue)
          /\ workPc' = "put"
       \/ /\ photodiode_queue = <<>>
          /\ workPc' = "idle"
          /\ UNCHANGED <<photodiode_queue, workOm>>
    /\ UNCHANGED <<inbound_queue, outbound_queue, execVars, mainVars, sampleVars, history>>

\* Mutant of PublishHandlerPut: a sample that finds no room is put back.
PublishHandlerPutBack ==
    /\ workPc = "put"
    /\ IF Len(outbound_queue) < OUTBOUND_DEPTH
       THEN /\ outbound_queue' = Append(outbound_queue, workOm)
            /\ UNCHANGED photodiode_queue
       ELSE /\ Len(photodiode_queue) < PHOTODIODE_DEPTH
            /\ photodiode_queue' = Append(photodiode_queue, workOm)
            /\ UNCHANGED outbound_queue
    /\ workOm' = NoMsg
    /\ workPc' = "get"
    /\ UNCHANGED <<inbound_queue, execVars, mainVars, sampleVars, history>>

PublishHandlerPut ==
    /\ workPc = "put"
    /\ PutOutbound(workOm)
    /\ workOm' = NoMsg
    /\ workPc' = "get"
    /\ UNCHANGED <<inbound_queue, photodiode_queue, execVars, mainVars, sampleVars, history>>

----------------------------------------------------------------------------
(***************************************************************************)
(* Photodiode thread.                                                      *)
(***************************************************************************)
AdcReady ==
    /\ samplePc = "notready"
    /\ samplePc' = "sample"
    /\ UNCHANGED <<queues, execVars, mainVars, workVars, sampleNo, history>>

\* Both channels are read (a failed read leaves INT16_MIN in the sample) and
\* the message is built.
TakeSample ==
    /\ samplePc = "sample"
    /\ sampleNo' = IF sampleNo < MaxSamples THEN sampleNo + 1 ELSE sampleNo
    /\ samplePc' = "put"
    /\ UNCHANGED <<queues, execVars, mainVars, workVars, history>>

\* Mutant of SamplePut: the queue counts as full one slot late.
SamplePutLate ==
    /\ samplePc = "put"
    /\ \/ /\ Len(photodiode_queue) <= PHOTODIODE_DEPTH
          /\ photodiode_queue' = Append(photodiode_queue, [kind |-> "sample", id |-> sampleNo])
          /\ samplePc' = "sample"
       \/ /\ Len(photodiode_queue) > PHOTODIODE_DEPTH
          /\ samplePc' = "purge"
          /\ UNCHANGED photodiode_queue
    /\ UNCHANGED <<inbound_queue, outbound_queue, execVars, mainVars, workVars, sampleNo, history>>

\* while (k_msgq_put(&photodiode_queue, &msg, K_NO_WAIT) != 0)
SamplePut ==
    /\ samplePc = "put"
    /\ \/ /\ Len(photodiode_queue) < PHOTODIODE_DEPTH
          /\ photodiode_queue' = Append(photodiode_queue, [kind |-> "sample", id |-> sampleNo])
          /\ samplePc' = "sample"
       \/ /\ Len(photodiode_queue) >= PHOTODIODE_DEPTH
          /\ samplePc' = "purge"
          /\ UNCHANGED photodiode_queue
    /\ UNCHANGED <<inbound_queue, outbound_queue, execVars, mainVars, workVars, sampleNo, history>>

\* Mutant of SamplePurge: the put is retried without making room.
SamplePurgeNothing ==
    /\ samplePc = "purge"
    /\ samplePc' = "put"
    /\ UNCHANGED <<queues, execVars, mainVars, workVars, sampleNo, history>>

SamplePurge ==
    /\ samplePc = "purge"
    /\ photodiode_queue' = <<>>
    /\ samplePc' = "put"
    /\ UNCHANGED <<inbound_queue, outbound_queue, execVars, mainVars, workVars, sampleNo, history>>

----------------------------------------------------------------------------
(***************************************************************************)
(* The controller starts again: the watchdog that main() feeds only        *)
(* between two polls (WDT_FLAG_RESET_SOC), or the power.  Everything is in *)
(* RAM, so every command, reply and sample under way is gone.              *)
(***************************************************************************)

Reset ==
    /\ inbound_queue' = <<>> /\ outbound_queue' = <<>> /\ photodiode_queue' = <<>>
    /\ execPc' = "off" /\ cmd' = NoCmd
    /\ mainPc' = "init" /\ om' = NoMsg /\ connected' = FALSE
    /\ workPc' = "off" /\ workOm' = NoMsg
    /\ samplePc' = "notready"
    /\ accepted' = accepted \cap done
    /\ UNCHANGED <<sampleNo, received, done>>

----------------------------------------------------------------------------
ProcessStep ==
    \/ ProcessQuiet \/ ProcessError \/ DisconnectEvent
    \/ IgnoreCommand \/ RejectCommand \/ AcceptCommand \/ BusyCommand

MainStep ==
    \/ LoopTest \/ DrainGet \/ DrainEmpty
    \/ \E stillUp \in BOOLEAN : Publish(stillUp)
    \/ ProcessStep

ExecutorStep == ExecutorGet \/ ExecutorDispatch \/ ExecutorPut
WorkStep     == PublishHandlerTimer \/ PublishHandlerGet \/ PublishHandlerPut
SampleStep   == TakeSample \/ SamplePut \/ SamplePurge

Next ==
    \/ StartThreads \/ StartupFails
    \/ Reconnect \/ MainStep
    \/ ExecutorStep
    \/ WorkStep
    \/ AdcReady \/ SampleStep
    \/ Reset

Spec == Init /\ [][Next]_vars

(***************************************************************************)
(* No thread stands still for ever without a reset.  The main thread polls *)
(* the socket alone, so a reply that enters outbound_queue does not wake   *)
(* it; the poll ends with a packet or with the keep-alive, at most         *)
(* CONFIG_MQTT_KEEPALIVE seconds later, or the watchdog resets the         *)
(* controller before that.  Weak fairness of MainStep says just this: the  *)
(* thread steps, or a Reset takes it to where MainStep is disabled.        *)
(* Handlers end by their bus timeouts, and the broker is assumed to be     *)
(* reachable again some time after each loss.  Nothing is assumed about    *)
(* resets, start-up, the ADC becoming ready, or requests arriving.         *)
(***************************************************************************)
Fairness ==
    /\ WF_vars(Reconnect)
    /\ WF_vars(MainStep)
    /\ WF_vars(ExecutorStep)
    /\ WF_vars(WorkStep)
    /\ WF_vars(SampleStep)

FairSpec == Spec /\ Fairness

----------------------------------------------------------------------------
(***************************************************************************)
(* Properties.                                                             *)
(***************************************************************************)

\* The executor (K_FOREVER on both queues) only ever sleeps on an empty
\* inbound_queue or on a full outbound_queue: no sequence of puts by the main
\* thread, drains, NACKs and telemetry leaves it pended with work to do.
NoMissedWakeup ==
    /\ execPc = "wait" => inbound_queue = <<>>
    /\ execPc = "blocked" => Len(outbound_queue) = OUTBOUND_DEPTH

\* Where a request, or the response to it, is in the pipeline.
Places(r) ==
    {<<"inbound", i>> : i \in {j \in DOMAIN inbound_queue : inbound_queue[j] = r}}
    \cup {<<"executor", 0>> : c \in {cmd} \cap {r}}
    \cup {<<"outbound", i>> : i \in {j \in DOMAIN outbound_queue :
                /\ outbound_queue[j].kind \in ResponseKinds
                /\ outbound_queue[j].id = r}}
    \cup {<<"main", 0>> : m \in {n \in {om} : n.kind \in ResponseKinds /\ n.id = r}}

\* No request is lost, duplicated or answered twice between the callback and
\* mqtt_publish, whatever telemetry does to outbound_queue: an accepted request
\* that no reset has lost is in exactly one place until its response has been given to mqtt_publish
\* and nowhere after that; a NACKed one has at most its NACK in the pipeline.
OneResponse ==
    \A r \in 1..received :
        /\ r \in accepted \ done => \E p \in Places(r) : Places(r) = {p}
        /\ r \in done => Places(r) = {}
        /\ r \notin accepted =>
               \A p, q \in Places(r) : p = q /\ p[1] \in {"outbound", "main"}

\* Commands are answered in the order in which they were accepted, with none
\* left out: the one executor and the FIFO queues never let a reply overtake
\* the reply to an earlier command.
RepliesInOrder ==
    \A r \in accepted \cap done : \A q \in accepted : q < r => q \in done

IsSample(m) == m.kind = "sample"

\* Sample k was not taken after those that wait in photodiode_queue, or after the one
\* the work item holds.
OlderThanQueued(k) ==
    /\ k <= sampleNo
    /\ \A i \in 1..Len(photodiode_queue) : k <= photodiode_queue[i].id
OlderThanTaken(k) == OlderThanQueued(k) /\ (IsSample(workOm) => k <= workOm.id)

\* The part of TelemetryInOrder before outbound_queue.
SampledInOrder ==
    /\ \A i, j \in 1..Len(photodiode_queue) :
          i < j => photodiode_queue[i].id <= photodiode_queue[j].id
    /\ \A i \in 1..Len(photodiode_queue) : photodiode_queue[i].id <= sampleNo
    /\ IsSample(workOm) => OlderThanQueued(workOm.id)

\* Telemetry is published in the order in which it was sampled, although the
\* photodiode thread purges its queue while the work item holds a sample that
\* it took from it, and replies and NACKs are put between.
TelemetryInOrder ==
    /\ SampledInOrder
    /\ \A i \in 1..Len(outbound_queue) :
          IsSample(outbound_queue[i]) =>
              /\ OlderThanTaken(outbound_queue[i].id)
              /\ IsSample(om) => om.id <= outbound_queue[i].id
    /\ \A i, j \in 1..Len(outbound_queue) :
          i < j /\ IsSample(outbound_queue[i]) /\ IsSample(outbound_queue[j]) =>
              outbound_queue[i].id <= outbound_queue[j].id
    /\ IsSample(om) => OlderThanTaken(om.id)

\* Every accepted command is eventually executed and its response given to
\* mqtt_publish, however much telemetry competes for outbound_queue, unless a
\* reset of the controller loses the command or its reply: nothing else does.
AcceptedAnswered ==
    \A r \in Requests : r \in accepted ~> r \in done \/ r \notin accepted

\* The photodiode thread's put-or-purge loop always gets its sample in, unless
\* the controller is reset.
SampleStored ==
    samplePc = "put" ~> samplePc \in {"sample", "notready"}

----------------------------------------------------------------------------
(***************************************************************************)
(* The inductive invariant behind OneResponse and RepliesInOrder.  Because *)
(* requests are numbered as they arrive, "in order" and "at most once" are *)
(* both the statement that the numbers increase strictly from the tail of  *)
(* inbound_queue to the messages already published, for the commands with  *)
(* their replies and, separately, for the NACKs.                           *)
(***************************************************************************)
IsReply(m) == m.kind = "reply"
IsNack(m)  == m.kind \in NackKinds

\* Whatever is in the pipeline has been received, and is a command or a reply
\* exactly if it has been accepted.
Membership ==
    /\ \A i \in 1..Len(inbound_queue) : inbound_queue[i] \in accepted
    /\ cmd # NoCmd => cmd \in accepted
    /\ \A i \in 1..Len(outbound_queue) :
          /\ IsReply(outbound_queue[i]) => outbound_queue[i].id \in accepted
          /\ IsNack(outbound_queue[i]) => outbound_queue[i].id \in (1..received) \ accepted
    /\ IsReply(om) => om.id \in accepted
    /\ IsNack(om) => om.id \in (1..received) \ accepted

AheadOfCommands(r) ==
    /\ cmd # NoCmd => r < cmd
    /\ \A i \in 1..Len(inbound_queue) : r < inbound_queue[i]

AheadOfReplies(r) ==
    \A i \in 1..Len(outbound_queue) :
        IsReply(outbound_queue[i]) => r < outbound_queue[i].id

AheadOfNacks(r) ==
    \A i \in 1..Len(outbound_queue) :
        IsNack(outbound_queue[i]) => r < outbound_queue[i].id

CommandOrder ==
    /\ \A i, j \in 1..Len(inbound_queue) : i < j => inbound_queue[i] < inbound_queue[j]
    /\ cmd # NoCmd => \A i \in 1..Len(inbound_queue) : cmd < inbound_queue[i]

OutboundOrder ==
    /\ \A i \in 1..Len(outbound_queue) :
          IsReply(outbound_queue[i]) => AheadOfCommands(outbound_queue[i].id)
    /\ \A i, j \in 1..Len(outbound_queue) :
          /\ i < j
          /\ \/ IsReply(outbound_queue[i]) /\ IsReply(outbound_queue[j])
             \/ IsNack(outbound_queue[i]) /\ IsNack(outbound_queue[j])
          => outbound_queue[i].id < outbound_queue[j].id

MainOrder ==
    /\ IsReply(om) => AheadOfReplies(om.id) /\ AheadOfCommands(om.id)
    /\ IsNack(om) => AheadOfNacks(om.id)

DoneOrder ==
    \A r \in done :
        /\ r \in accepted =>
              /\ AheadOfReplies(r) /\ AheadOfCommands(r)
              /\ IsReply(om) => r < om.id
        /\ r \notin accepted =>
              /\ AheadOfNacks(r)
              /\ IsNack(om) => r < om.id

\* An accepted request is somewhere until its response has been published.
Coverage ==
    \A r \in accepted \ done :
        \/ \E i \in 1..Len(inbound_queue) : inbound_queue[i] = r
        \/ cmd = r
        \/ \E i \in 1..Len(outbound_queue) : outbound_queue[i] = Reply(r)
        \/ om = Reply(r)

IndInv ==
    /\ TypeOK /\ NoMissedWakeup /\ Membership
    /\ CommandOrder /\ OutboundOrder /\ MainOrder /\ DoneOrder /\ Coverage

============================================================================
