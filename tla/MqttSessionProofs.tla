-------------------------- MODULE MqttSessionProofs --------------------------
(***************************************************************************)
(* Proofs about MqttSession for every bound on the faults and the packets  *)
(* in flight.                                                              *)
(***************************************************************************)
EXTENDS MqttSession, SequenceTheorems, TLAPS

----------------------------------------------------------------------------
(***************************************************************************)
(* The inductive invariant: a closed socket leaves nothing behind, the     *)
(* flag and the history agree with the program location, and inside the    *)
(* loop an open socket is a subscribed one.                                *)
(***************************************************************************)
ClosedIsClean ==
    sock = "closed" => wire = <<>> /\ ~connacked /\ ~subscribed /\ ~mqtt_connected

BeforeDial == pc \in {"init", "connect", "dial"} => sock = "closed"

Attempt ==
    /\ pc \in {"await", "answered"} => ~mqtt_connected /\ ~connacked
    /\ pc \in {"check", "subscribe"} => (mqtt_connected <=> connacked)
    /\ pc = "subscribe" => mqtt_connected

InLoop ==
    pc \in {"loop", "publish", "process", "polled"} /\ sock = "open" =>
        mqtt_connected /\ connacked /\ subscribed

Control == ConnectedFlagSound /\ ClosedIsClean /\ BeforeDial /\ Attempt /\ InLoop

Inv == TypeOK /\ Control

----------------------------------------------------------------------------
(***************************************************************************)
(* The wire: every step leaves it alone, empties it, takes its head or     *)
(* appends a packet for which there is room.                               *)
(***************************************************************************)
WireChange ==
    \/ wire' = wire
    \/ wire' = <<>>
    \/ wire # <<>> /\ wire' = Tail(wire)
    \/ Len(wire) < MaxWire /\ \E p \in Packets : wire' = Append(wire, p)

\* A step removes from what is on the wire or adds what its owner may send.
LEMMA WireChanges == [Next]_vars => WireChange
<1> SUFFICES ASSUME [Next]_vars PROVE WireChange
  OBVIOUS
<1>1. CASE MainStep
  BY <1>1 DEF MainStep, ConnectBegin, Dial, AwaitConnack, ReadConnack, CheckConnack, Subscribe,
              LoopTest, DrainOutbound, ProcessPoll, ProcessEvents, ProcessTimeout, Close,
              Poll, PrepareFds, Input, ReadConnackPacket, ReadOther, ReadLast, WriteFails,
              ClientDisconnect, CloseSocket, sockVars, WireChange
<1>2. CASE Environment
  BY <1>2 DEF Environment, SendConnack, SendRefusal, SendPacket, SendDisconnect, PeerCloses,
              PeerVanishes, CanSend, Deliver, Packets, WireChange
<1>3. CASE AddSubscription \/ UNCHANGED vars
  BY <1>3 DEF AddSubscription, vars, sockVars, WireChange
<1> QED  BY <1>1, <1>2, <1>3 DEF Next

\* Whatever is added belongs on the wire.
LEMMA WireStep == WireOK /\ WireChange => WireOK'
<1> SUFFICES ASSUME WireOK, WireChange PROVE WireOK'
  OBVIOUS
<1>1. CASE wire' = wire
  BY <1>1 DEF WireOK
<1>2. CASE wire' = <<>>
  <2>1. wire' \in Seq(Packets) /\ Len(wire') = 0
    BY <1>2, EmptySeq
  <2> QED  BY <2>1, SessionAssumption DEF WireOK
<1>3. CASE wire # <<>> /\ wire' = Tail(wire)
  <2>1. wire' \in Seq(Packets) /\ Len(wire') = Len(wire) - 1
    BY <1>3, HeadTailProperties DEF WireOK
  <2>2. Len(wire) \in Nat
    BY LenProperties DEF WireOK
  <2> QED  BY <2>1, <2>2, SessionAssumption DEF WireOK
<1>4. ASSUME Len(wire) < MaxWire, NEW p \in Packets, wire' = Append(wire, p) PROVE WireOK'
  <2>1. wire' \in Seq(Packets) /\ Len(wire') = Len(wire) + 1
    BY <1>4, AppendProperties DEF WireOK
  <2>2. Len(wire) \in Nat
    BY LenProperties DEF WireOK
  <2> QED  BY <1>4, <2>1, <2>2, SessionAssumption DEF WireOK
<1> QED  BY <1>1, <1>2, <1>3, <1>4 DEF WireChange

----------------------------------------------------------------------------
(***************************************************************************)
(* The other types.                                                        *)
(***************************************************************************)
LEMMA FlagsStep == FlagsOK /\ [Next]_vars => FlagsOK'
<1> SUFFICES ASSUME FlagsOK, [Next]_vars PROVE FlagsOK'
  OBVIOUS
<1> USE SessionAssumption DEF FlagsOK
<1>1. CASE AddSubscription
  BY <1>1 DEF AddSubscription, sockVars
<1>2. CASE ConnectBegin \/ Dial \/ LoopTest
  BY <1>2 DEF ConnectBegin, Dial, LoopTest, sockVars
<1>3. CASE AwaitConnack \/ ProcessPoll
  BY <1>3 DEF AwaitConnack, ProcessPoll, Poll, PrepareFds, Fault, sockVars
<1>4. CASE ReadConnack \/ ProcessEvents
  <2>1. /\ mqtt_connected' \in {mqtt_connected, TRUE, FALSE}
        /\ connacked' \in {connacked, TRUE, FALSE}
        /\ subscribed' \in {subscribed, FALSE}
    BY <1>4 DEF ReadConnack, ProcessEvents, Input, ReadConnackPacket, ReadOther, ReadLast,
                WriteFails, ClientDisconnect, CloseSocket, sockVars
  <2>2. num_subscriptions' = num_subscriptions /\ (Fault \/ faults' = faults)
    BY <1>4 DEF ReadConnack, ProcessEvents, Input, sockVars
  <2>3. faults' \in 0..MaxFaults
    BY <2>2 DEF Fault
  <2>4. mqtt_connected' \in BOOLEAN /\ connacked' \in BOOLEAN /\ subscribed' \in BOOLEAN
    BY <2>1
  <2> QED  BY <2>2, <2>3, <2>4
<1>5. CASE CheckConnack \/ Subscribe \/ DrainOutbound \/ ProcessTimeout \/ Close
  BY <1>5 DEF CheckConnack, Subscribe, DrainOutbound, ProcessTimeout, Close, WriteFails,
              ClientDisconnect, CloseSocket, sockVars
<1>6. CASE Environment
  BY <1>6 DEF Environment, SendConnack, SendRefusal, SendPacket, SendDisconnect, PeerCloses,
              PeerVanishes, Deliver, Fault
<1>7. CASE UNCHANGED vars
  BY <1>7 DEF vars, sockVars
<1> QED  BY <1>1, <1>2, <1>3, <1>4, <1>5, <1>6, <1>7 DEF Next, MainStep

\* The array of the last poll.
LEMMA PollStep == PollOK /\ [Next]_vars => PollOK'
<1> SUFFICES ASSUME PollOK, [Next]_vars PROVE PollOK'
  OBVIOUS
<1> DEFINE Cleared == nfds' \in {nfds, 0} /\ revents' = revents /\ rc' = rc
<1> DEFINE Polled ==
        /\ nfds' = 1
        /\ revents' \in {revents, {}, {"IN"}, {"IN", "HUP"}}
        /\ rc' \in {"ready", "timeout", "failed"}
<1> USE DEF fdVars, sockVars
<1>1. CASE AddSubscription \/ ConnectBegin \/ Dial \/ LoopTest
  <2> Cleared
    BY <1>1 DEF AddSubscription, ConnectBegin, Dial, LoopTest
  <2> QED  BY DEF PollOK
<1>2. CASE AwaitConnack \/ ProcessPoll
  <2>1. Polled
    BY <1>2 DEF AwaitConnack, ProcessPoll, Poll, PrepareFds
  <2>2. revents' \subseteq {"IN", "HUP"}
    BY <2>1 DEF PollOK
  <2> QED  BY <2>1, <2>2 DEF PollOK
<1>3. CASE ReadConnack \/ ProcessEvents
  <2> Cleared
    BY <1>3 DEF ReadConnack, ProcessEvents, Input, ReadConnackPacket, ReadOther, ReadLast,
                WriteFails, ClientDisconnect
  <2> QED  BY DEF PollOK
<1>4. CASE CheckConnack \/ Subscribe \/ DrainOutbound \/ ProcessTimeout \/ Close
  <2> Cleared
    BY <1>4 DEF CheckConnack, Subscribe, DrainOutbound, ProcessTimeout, Close, WriteFails,
                ClientDisconnect
  <2> QED  BY DEF PollOK
<1>5. CASE Environment
  <2> Cleared
    BY <1>5 DEF Environment, SendConnack, SendRefusal, SendPacket, SendDisconnect, PeerCloses,
                PeerVanishes, Deliver
  <2> QED  BY DEF PollOK
<1>6. CASE UNCHANGED vars
  BY <1>6 DEF vars, PollOK
<1> QED  BY <1>1, <1>2, <1>3, <1>4, <1>5, <1>6 DEF Next, MainStep

\* The main thread is at a place of its loop.
LEMMA LocationStep == LocationOK /\ [Next]_vars => LocationOK'
<1> SUFFICES ASSUME LocationOK, [Next]_vars PROVE LocationOK'
  OBVIOUS
<1> USE DEF LocationOK
<1>1. CASE AddSubscription \/ ConnectBegin \/ Dial \/ LoopTest
  BY <1>1 DEF AddSubscription, ConnectBegin, Dial, LoopTest, sockVars
<1>2. CASE AwaitConnack \/ ProcessPoll
  BY <1>2 DEF AwaitConnack, ProcessPoll, Poll, PrepareFds, sockVars
<1>3. CASE ReadConnack \/ ProcessEvents
  BY <1>3 DEF ReadConnack, ProcessEvents, Input, ReadConnackPacket, ReadOther, ReadLast,
              WriteFails, ClientDisconnect, CloseSocket, sockVars
<1>4. CASE CheckConnack \/ Subscribe \/ DrainOutbound \/ ProcessTimeout \/ Close
  BY <1>4 DEF CheckConnack, Subscribe, DrainOutbound, ProcessTimeout, Close, WriteFails,
              ClientDisconnect, CloseSocket, sockVars
<1>5. CASE Environment
  BY <1>5 DEF Environment, SendConnack, SendRefusal, SendPacket, SendDisconnect, PeerCloses,
              PeerVanishes, Deliver, CanSend
<1>6. CASE UNCHANGED vars
  BY <1>6 DEF vars, sockVars
<1> QED  BY <1>1, <1>2, <1>3, <1>4, <1>5, <1>6 DEF Next, MainStep

----------------------------------------------------------------------------
(***************************************************************************)
(* The control part: one case per action.                                  *)
(***************************************************************************)
LEMMA ControlStep == LocationOK /\ Control /\ [Next]_vars => Control'
<1> SUFFICES ASSUME LocationOK, Control, [Next]_vars PROVE Control'
  OBVIOUS
<1> USE DEF LocationOK, Control, ConnectedFlagSound, ClosedIsClean, BeforeDial, Attempt, InLoop
<1> USE DEF sockVars, ClientDisconnect, CloseSocket
<1>1. CASE AddSubscription
  BY <1>1 DEF AddSubscription
<1>2. CASE ConnectBegin
  BY <1>2 DEF ConnectBegin
<1>3. CASE Dial
  BY <1>3 DEF Dial
<1>4. CASE AwaitConnack
  BY <1>4 DEF AwaitConnack, Poll, PrepareFds
<1>5. CASE ReadConnack
  BY <1>5 DEF ReadConnack, Input, ReadConnackPacket, ReadOther, ReadLast, WriteFails
<1>6. CASE CheckConnack
  BY <1>6 DEF CheckConnack
<1>7. CASE Subscribe
  BY <1>7 DEF Subscribe, WriteFails
<1>8. CASE LoopTest
  BY <1>8 DEF LoopTest
<1>9. CASE DrainOutbound
  BY <1>9 DEF DrainOutbound, WriteFails
<1>10. CASE ProcessPoll
  BY <1>10 DEF ProcessPoll, Poll, PrepareFds
<1>11. CASE ProcessEvents
  BY <1>11 DEF ProcessEvents, Input, ReadConnackPacket, ReadOther, ReadLast, WriteFails
<1>12. CASE ProcessTimeout
  BY <1>12 DEF ProcessTimeout, WriteFails
<1>13. CASE Close
  BY <1>13 DEF Close
<1>14. CASE SendConnack \/ SendRefusal \/ SendPacket \/ SendDisconnect
  BY <1>14 DEF SendConnack, SendRefusal, SendPacket, SendDisconnect, CanSend, Deliver
<1>15. CASE PeerCloses \/ PeerVanishes
  BY <1>15 DEF PeerCloses, PeerVanishes
<1>16. CASE UNCHANGED vars
  BY <1>16 DEF vars
<1> QED
  BY <1>1, <1>2, <1>3, <1>4, <1>5, <1>6, <1>7, <1>8, <1>9, <1>10, <1>11, <1>12, <1>13, <1>14,
     <1>15, <1>16
  DEF Next, MainStep, Environment

----------------------------------------------------------------------------
\* There is no socket before the first attempt.
LEMMA InitInv == Init => Inv
<1> SUFFICES ASSUME Init PROVE Inv
  OBVIOUS
<1>1. WireOK
  <2>1. wire \in Seq(Packets) /\ Len(wire) = 0
    BY EmptySeq DEF Init
  <2> QED  BY <2>1, SessionAssumption DEF WireOK
<1>2. FlagsOK
  <2>1. 0 \in 0..MAX_SUBSCRIPTIONS /\ 0 \in 0..MaxFaults
    BY SessionAssumption
  <2> QED  BY <2>1 DEF Init, FlagsOK
<1>3. PollOK /\ LocationOK
  BY DEF Init, PollOK, LocationOK
<1>4. Control
  BY DEF Init, Control, ConnectedFlagSound, ClosedIsClean, BeforeDial, Attempt, InLoop
<1> QED  BY <1>1, <1>2, <1>3, <1>4 DEF Inv, TypeOK

\* Every reachable state has its types and satisfies the control invariant.
THEOREM Invariance == Spec => []Inv
<1>1. Inv /\ [Next]_vars => Inv'
  BY WireChanges, WireStep, FlagsStep, PollStep, LocationStep, ControlStep DEF Inv, TypeOK
<1> QED  BY InitInv, <1>1, PTL DEF Spec

\* Types of the session's state: among them the poll set, which prepare_fds and
\* clear_fds keep within its one slot.
THEOREM TypeCorrect == Spec => []TypeOK
<1>1. Inv => TypeOK
  BY DEF Inv
<1> QED  BY <1>1, Invariance, PTL

\* The connected flag (mqtt_connected in mqtt_client.c) speaks of the current
\* socket, whatever the network does between any two steps of the client.
THEOREM FlagSound == Spec => []ConnectedFlagSound
<1>1. Inv => ConnectedFlagSound
  BY DEF Inv, Control
<1> QED  BY <1>1, Invariance, PTL

\* No way out of a connection leaves a socket behind for the next mqtt_connect.
THEOREM NoLeak == Spec => []NoSocketLeak
<1>1. Inv => NoSocketLeak
  BY DEF Inv, Control, BeforeDial, NoSocketLeak
<1> QED  BY <1>1, Invariance, PTL

\* The loop of main() only serves connections that have been subscribed on.
THEOREM LoopSubscribed == Spec => []SubscribedInLoop
<1>1. Inv => SubscribedInLoop
  BY DEF Inv, Control, InLoop, ConnectedFlagSound, SubscribedInLoop
<1> QED  BY <1>1, Invariance, PTL

=============================================================================
