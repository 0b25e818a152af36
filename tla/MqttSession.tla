----------------------------- MODULE MqttSession -----------------------------
(***************************************************************************)
(* The MQTT client of lib/coo_commons and the loop of main() that drives   *)
(* it: connecting, subscribing, polling the socket, handling one packet at *)
(* a time, and giving up a connection that failed.  All of it runs on the  *)
(* main thread; the concurrency is with the network and the broker, which  *)
(* act between any two steps, in particular between a poll and the read    *)
(* that follows it.                                                        *)
(*                                                                         *)
(* Zephyr's MQTT library and socket layer are not part of the repository:  *)
(* they are modelled from the way mqtt_client.c uses them.                 *)
(***************************************************************************)
EXTENDS Integers, Sequences

CONSTANTS
    MAX_SUBSCRIPTIONS,  \* size of subscriptions[]
    MaxWire,            \* bound: packets on their way to the client
    MaxFaults,          \* bound: faults of the broker, the network and poll
                        \* (malformed packets among them)
    PollCanFail         \* can zsock_poll return an error?

ASSUME SessionAssumption ==
    /\ MAX_SUBSCRIPTIONS \in Nat \ {0}
    /\ MaxWire \in Nat \ {0}
    /\ MaxFaults \in Nat
    /\ PollCanFail \in BOOLEAN

VARIABLES
    pc,                 \* where the main thread is
    mqtt_connected,     \* the flag of that name
    num_subscriptions,  \* the counter of that name
    nfds, revents,      \* fds[]: its fill and the last result of a poll that succeeded
    rc,                 \* result of the last poll: "none", "timeout", "ready", "failed"
    sock,               \* the library's transport: "closed" or "open"
    peer,               \* other end of sock: "none", "up", "eof" (closed), "silent" (gone)
    wire,               \* packets sent by the broker and not yet read
    connacked,          \* history: a CONNACK accepted this connection
    subscribed,         \* history: SUBSCRIBE was sent on this connection
    faults              \* faults so far

fdVars   == <<nfds, revents, rc>>
sockVars == <<sock, peer, wire, connacked, subscribed>>
vars == <<pc, mqtt_connected, num_subscriptions, fdVars, sockVars, faults>>

Packets == {"connack", "refused", "suback", "disconnect", "other"}

WireOK == wire \in Seq(Packets) /\ Len(wire) <= MaxWire

FlagsOK ==
    /\ mqtt_connected \in BOOLEAN
    /\ connacked \in BOOLEAN /\ subscribed \in BOOLEAN
    /\ num_subscriptions \in 0..MAX_SUBSCRIPTIONS
    /\ faults \in 0..MaxFaults

PollOK ==
    /\ nfds \in 0..1
    /\ revents \subseteq {"IN", "HUP"}
    /\ rc \in {"none", "timeout", "ready", "failed"}

LocationOK ==
    /\ pc \in {"init", "connect", "dial", "await", "answered", "check", "subscribe",
               "loop", "publish", "process", "polled", "close"}
    /\ sock \in {"closed", "open"}
    /\ peer \in {"none", "up", "eof", "silent"}
    /\ peer = "none" <=> sock = "closed"

TypeOK == WireOK /\ FlagsOK /\ PollOK /\ LocationOK

Init ==
    /\ pc = "init"
    /\ mqtt_connected = FALSE
    /\ num_subscriptions = 0
    /\ nfds = 0 /\ revents = {} /\ rc = "none"
    /\ sock = "closed" /\ peer = "none" /\ wire = <<>>
    /\ connacked = FALSE /\ subscribed = FALSE
    /\ faults = 0

Fault == faults < MaxFaults /\ faults' = faults + 1

----------------------------------------------------------------------------
(***************************************************************************)
(* The library closes the transport.                                       *)
(***************************************************************************)
CloseSocket ==
    /\ sock' = "closed" /\ peer' = "none" /\ wire' = <<>>
    /\ connacked' = FALSE /\ subscribed' = FALSE

\* Mutant of ClientDisconnect: on_mqtt_disconnect leaves the flag set.
ClientDisconnectFlagKept ==
    /\ CloseSocket
    /\ nfds' = 0
    /\ UNCHANGED mqtt_connected

\* client_disconnect with MQTT_EVT_DISCONNECT: on_mqtt_disconnect clears the
\* flag and the poll set.
ClientDisconnect ==
    /\ CloseSocket
    /\ mqtt_connected' = FALSE
    /\ nfds' = 0

----------------------------------------------------------------------------
(***************************************************************************)
(* The network and the broker.                                             *)
(***************************************************************************)
CanSend == peer = "up" /\ Len(wire) < MaxWire

Deliver(p) ==
    /\ wire' = Append(wire, p)
    /\ UNCHANGED <<pc, mqtt_connected, num_subscriptions, fdVars, sock, peer, connacked,
                   subscribed>>

\* The broker answers CONNECT once per connection.
SendConnack ==
    /\ CanSend /\ ~connacked /\ wire = <<>>
    /\ Deliver("connack")
    /\ UNCHANGED faults

SendRefusal ==
    /\ CanSend /\ ~connacked /\ wire = <<>>
    /\ Deliver("refused")
    /\ Fault

\* SUBACK, a command, a PINGRESP, an acknowledgement.
SendPacket ==
    /\ CanSend /\ connacked
    /\ \E p \in {"suback", "other"} :
          /\ p = "suback" => subscribed
          /\ Deliver(p)
    /\ UNCHANGED faults

SendDisconnect ==
    /\ CanSend /\ connacked
    /\ Deliver("disconnect")
    /\ Fault

PeerCloses ==
    /\ peer = "up"
    /\ peer' = "eof"
    /\ Fault
    /\ UNCHANGED <<pc, mqtt_connected, num_subscriptions, fdVars, sock, wire, connacked, subscribed>>

PeerVanishes ==
    /\ peer = "up"
    /\ peer' = "silent"
    /\ Fault
    /\ UNCHANGED <<pc, mqtt_connected, num_subscriptions, fdVars, sock, wire, connacked, subscribed>>

Environment ==
    \/ SendConnack \/ SendRefusal \/ SendPacket \/ SendDisconnect
    \/ PeerCloses \/ PeerVanishes

----------------------------------------------------------------------------
(***************************************************************************)
(* Initialisation: coo_mqtt_init, coo_mqtt_add_subscription.               *)
(***************************************************************************)
\* A topic is added while there is room (-ENOMEM otherwise); main() adds one.
AddSubscription ==
    /\ pc = "init"
    /\ num_subscriptions < MAX_SUBSCRIPTIONS
    /\ num_subscriptions' = num_subscriptions + 1
    /\ pc' = "connect"
    /\ UNCHANGED <<mqtt_connected, fdVars, sockVars, faults>>

(***************************************************************************)
(* coo_mqtt_connect.  An attempt that fails sleeps MSECS_WAIT_RECONNECT    *)
(* and starts over, which changes nothing here.                            *)
(***************************************************************************)
ConnectBegin ==
    /\ pc = "connect"
    /\ mqtt_connected' = FALSE
    /\ pc' = "dial"
    /\ UNCHANGED <<num_subscriptions, fdVars, sockVars, faults>>

\* mqtt_connect: a new socket, CONNECT is sent.
Dial ==
    /\ pc = "dial"
    /\ sock' = "open" /\ peer' = "up" /\ wire' = <<>>
    /\ connacked' = FALSE /\ subscribed' = FALSE
    /\ pc' = "await"
    /\ UNCHANGED <<mqtt_connected, num_subscriptions, fdVars, faults>>

\* Mutant of PrepareFds: the entry is added to the set, not put into it.
PrepareFdsAdded == nfds' = nfds + 1

\* prepare_fds: the poll set is the one socket.
PrepareFds == nfds' = 1

(***************************************************************************)
(* poll_mqtt_socket: prepare_fds, then zsock_poll.  A poll times out only  *)
(* if there is nothing to report; an error leaves fds[0].revents as it     *)
(* was.  Losing the race against the timeout is a fault of the broker.     *)
(***************************************************************************)
Poll(timeoutIsFault) ==
    /\ PrepareFds
    /\ \/ /\ wire # <<>> \/ peer = "eof"
          /\ rc' = "ready"
          /\ revents' = IF peer = "eof" THEN {"IN", "HUP"} ELSE {"IN"}
          /\ UNCHANGED faults
       \/ /\ wire = <<>> /\ peer # "eof"
          /\ rc' = "timeout"
          /\ revents' = {}
          /\ IF timeoutIsFault /\ peer = "up" THEN Fault ELSE UNCHANGED faults
       \/ /\ sock = "closed"                    \* POLLNVAL
          /\ rc' = "ready"
          /\ revents' = {}
          /\ UNCHANGED faults
       \/ /\ PollCanFail
          /\ rc' = "failed"
          /\ UNCHANGED revents
          /\ Fault
    /\ UNCHANGED <<mqtt_connected, num_subscriptions, sockVars>>

\* Mutant of AwaitConnack: the sense of the test of the poll's result is
\* inverted.
AwaitConnackInverted ==
    /\ pc = "await"
    /\ Poll(TRUE)
    /\ pc' = IF rc' # "ready" THEN "answered" ELSE "check"

AwaitConnack ==
    /\ pc = "await"
    /\ Poll(TRUE)
    /\ pc' = IF rc' = "ready" THEN "answered" ELSE "check"

(***************************************************************************)
(* A write fails at a peer that has closed, sooner or later at one that    *)
(* has vanished, and the library then closes the transport.                *)
(***************************************************************************)
WriteFails == peer \in {"eof", "silent"} /\ ClientDisconnect

(***************************************************************************)
(* mqtt_input: reads one packet and calls mqtt_event_handler.  `ok' is the *)
(* program location after a result of 0, `failed' after an error.          *)
(***************************************************************************)
ReadConnackPacket(ok) ==
    /\ Head(wire) = "connack"
    /\ mqtt_connected' = TRUE
    /\ connacked' = TRUE
    /\ wire' = Tail(wire)
    /\ pc' = ok
    /\ UNCHANGED <<nfds, sock, peer, subscribed>>

\* A command is acknowledged (PUBACK, PUBREC, ...) by the event handler, which ignores
\* the result of the write.
ReadOther(ok, failed) ==
    \/ /\ Head(wire) \in {"suback", "other"}
       /\ wire' = Tail(wire)
       /\ pc' = ok
       /\ UNCHANGED <<mqtt_connected, nfds, sock, peer, connacked, subscribed>>
    \/ /\ Head(wire) = "other"
       /\ WriteFails
       /\ pc' \in {ok, failed}

ReadLast(ok, failed) ==
    /\ Head(wire) \in {"refused", "disconnect"}
    /\ ClientDisconnect
    /\ pc' = IF Head(wire) = "refused" THEN failed ELSE ok

Input(ok, failed) ==
    /\ \/ /\ wire # <<>>
          /\ ReadConnackPacket(ok) \/ ReadOther(ok, failed) \/ ReadLast(ok, failed)
          /\ UNCHANGED faults
       \/ /\ wire # <<>>                       \* a packet that cannot be decoded
          /\ ClientDisconnect
          /\ pc' = failed
          /\ Fault
       \/ /\ wire = <<>> /\ peer = "eof"
          /\ ClientDisconnect
          /\ pc' = failed
          /\ UNCHANGED faults
       \/ /\ wire = <<>> /\ peer # "eof"        \* a stale POLLIN: nothing to read
          /\ pc' = ok
          /\ UNCHANGED <<mqtt_connected, nfds, sockVars, faults>>
    /\ UNCHANGED <<num_subscriptions, revents, rc>>

\* The result of mqtt_input is ignored here.
ReadConnack ==
    /\ pc = "answered"
    /\ Input("check", "check")

\* Mutant of CheckConnack: without the mqtt_abort.
CheckConnackNoAbort ==
    /\ pc = "check"
    /\ pc' = IF mqtt_connected THEN "subscribe" ELSE "dial"
    /\ UNCHANGED <<mqtt_connected, num_subscriptions, fdVars, sockVars, faults>>

\* mqtt_abort unless the event handler set the flag.
CheckConnack ==
    /\ pc = "check"
    /\ \/ /\ mqtt_connected
          /\ pc' = "subscribe"
          /\ UNCHANGED <<mqtt_connected, nfds, sockVars>>
       \/ /\ ~mqtt_connected
          /\ pc' = "dial"
          /\ IF sock = "open" THEN ClientDisconnect
                              ELSE UNCHANGED <<mqtt_connected, nfds, sockVars>>
    /\ UNCHANGED <<num_subscriptions, revents, rc, faults>>

\* coo_mqtt_subscribe; main() ignores its result.
Subscribe ==
    /\ pc = "subscribe"
    /\ pc' = "loop"
    /\ \/ /\ subscribed' = TRUE
          /\ UNCHANGED <<mqtt_connected, nfds, sock, peer, wire, connacked>>
       \/ WriteFails
    /\ UNCHANGED <<num_subscriptions, revents, rc, faults>>

\* Mutant of LoopTest: the loop reconnects by itself, without subscribing.
LoopTestRedials ==
    /\ pc = "loop"
    /\ \/ /\ mqtt_connected
          /\ pc' = "publish"
          /\ UNCHANGED <<mqtt_connected, sockVars>>
       \/ /\ ~mqtt_connected
          /\ pc' = "loop"
          /\ sock' = "open" /\ peer' = "up" /\ wire' = <<>>
          /\ connacked' = TRUE /\ mqtt_connected' = TRUE /\ subscribed' = FALSE
    /\ UNCHANGED <<num_subscriptions, fdVars, faults>>

(***************************************************************************)
(* The loop of main().                                                     *)
(***************************************************************************)
LoopTest ==
    /\ pc = "loop"
    /\ pc' = IF mqtt_connected THEN "publish" ELSE "close"
    /\ UNCHANGED <<mqtt_connected, num_subscriptions, fdVars, sockVars, faults>>

\* Draining outbound_queue: a publish that fails does not end the loop.
DrainOutbound ==
    /\ pc = "publish"
    /\ pc' = "process"
    /\ \/ UNCHANGED <<mqtt_connected, nfds, sockVars>>
       \/ WriteFails
    /\ UNCHANGED <<num_subscriptions, revents, rc, faults>>

\* coo_mqtt_process: the poll.
ProcessPoll ==
    /\ pc = "process"
    /\ Poll(FALSE)
    /\ pc' = "polled"

\* coo_mqtt_process: a result of the poll other than a timeout.
ProcessEvents ==
    /\ pc = "polled"
    /\ rc # "timeout"
    /\ \/ /\ "IN" \in revents
          /\ Input(IF "HUP" \in revents THEN "close" ELSE "loop", "close")
       \/ /\ "IN" \notin revents
          /\ pc' = "loop"
          /\ UNCHANGED <<mqtt_connected, num_subscriptions, fdVars, sockVars, faults>>

\* Mutant of ProcessTimeout: the result of mqtt_live is not looked at, as if the
\* keep-alive always succeeded.
ProcessTimeoutIgnored ==
    /\ pc = "polled"
    /\ rc = "timeout"
    /\ pc' = "loop"
    /\ UNCHANGED <<mqtt_connected, num_subscriptions, fdVars, sockVars, faults>>

\* coo_mqtt_process: mqtt_live sends a PINGREQ; it fails on a transport that
\* is closed, and the write may fail.
ProcessTimeout ==
    /\ pc = "polled"
    /\ rc = "timeout"
    /\ \/ /\ sock = "open"
          /\ pc' = "loop"
          /\ UNCHANGED <<mqtt_connected, nfds, sockVars>>
       \/ /\ sock = "closed"
          /\ pc' = "close"
          /\ UNCHANGED <<mqtt_connected, nfds, sockVars>>
       \/ /\ WriteFails
          /\ pc' = "close"
    /\ UNCHANGED <<num_subscriptions, revents, rc, faults>>

\* mqtt_disconnect: a no-op on a client that is not connected any more.
Close ==
    /\ pc = "close"
    /\ pc' = "connect"
    /\ IF sock = "open" THEN ClientDisconnect
                        ELSE UNCHANGED <<mqtt_connected, nfds, sockVars>>
    /\ UNCHANGED <<num_subscriptions, revents, rc, faults>>

----------------------------------------------------------------------------
MainStep ==
    \/ ConnectBegin \/ Dial \/ AwaitConnack \/ ReadConnack \/ CheckConnack
    \/ Subscribe \/ LoopTest \/ DrainOutbound
    \/ ProcessPoll \/ ProcessEvents \/ ProcessTimeout \/ Close

Next == AddSubscription \/ MainStep \/ Environment

Spec == Init /\ [][Next]_vars

(***************************************************************************)
(* The main thread keeps running (its polls time out and mqtt_connect is   *)
(* retried until the network lets it through), the broker answers CONNECT, *)
(* and a write to a peer that has vanished fails in the end: TCP gives up  *)
(* retransmitting the keep-alive.                                          *)
(***************************************************************************)
KeepAliveFails == ProcessTimeout /\ WriteFails

FairSpec ==
    /\ Spec
    /\ WF_vars(AddSubscription)
    /\ WF_vars(MainStep)
    /\ WF_vars(SendConnack)
    /\ SF_vars(KeepAliveFails)

----------------------------------------------------------------------------
(***************************************************************************)
(* Properties.                                                             *)
(***************************************************************************)

\* The flag that keeps main() in its loop always speaks of the current socket:
\* neither a CONNACK that came too late for its attempt nor the flag of the
\* previous connection survives into the next one.
ConnectedFlagSound == mqtt_connected => sock = "open" /\ connacked

\* mqtt_connect is only called when the previous socket has been closed, by
\* whichever of the five ways out of a connection: no socket is leaked.
NoSocketLeak == pc = "dial" => sock = "closed"

\* The loop never serves a connection on which the topics have not been
\* subscribed to: every reconnection subscribes anew.
SubscribedInLoop ==
    mqtt_connected /\ pc \in {"loop", "publish", "process", "polled"} => subscribed

\* A connection whose peer is gone is given up, also while nothing is published.
DeadPeerAbandoned == peer \in {"eof", "silent"} ~> sock = "closed"

\* After the last fault the client reconnects and stays connected.
Reconnects == <>[](mqtt_connected /\ subscribed)

\* coo_mqtt_process returns a negative code on failure: the main thread goes from a
\* poll that failed nowhere but out of its loop, whatever the network does meanwhile.
PollFailureReported ==
    [][pc = "polled" /\ rc = "failed" => pc' \in {"polled", "close"}]_vars

=============================================================================
