----------------------- MODULE CommandPipelineService -----------------------
(***************************************************************************)
(* CommandPipeline implements RequestService: the queues, the threads and  *)
(* the telemetry they share outbound_queue with are invisible to a         *)
(* controller.                                                             *)
(***************************************************************************)
EXTENDS CommandPipeline

InInbound == {inbound_queue[i] : i \in DOMAIN inbound_queue}

\* The requests with a message of kind k between a thread and mqtt_publish.
Outgoing(k) ==
    {outbound_queue[i].id : i \in {j \in DOMAIN outbound_queue : outbound_queue[j].kind = k}}
    \cup {m.id : m \in {n \in {om} : n.kind = k}}

\* A command leaves "waiting" when its handler has run.
Waiting == InInbound \cup {c \in {cmd} : execPc = "dispatch"}
Answers == Outgoing("reply") \cup {c \in {cmd} : execPc \in {"put", "blocked"}}

Service == INSTANCE RequestService WITH
    waiting  <- Waiting,
    answers  <- Answers,
    nacks    <- Outgoing("busy"),
    answered <- done \cap accepted

\* The pipeline takes, executes, answers and refuses commands only as the
\* abstract service may: in order, one at a time, and refusing only when
\* MAX_PENDING_COMMANDS commands are waiting.
ImplementsService == Service!Spec

\* ... and keeps executing and answering, under the pipeline's fairness, what no
\* reset of the controller loses.
ImplementsFairService == Service!FairSpec

=============================================================================
