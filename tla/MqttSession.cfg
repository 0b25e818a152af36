\* Four faults of the broker, the network and poll, and up to three packets on the
\* wire.
CONSTANTS
    MAX_SUBSCRIPTIONS = 4
    MaxWire = 3
    MaxFaults = 4
    PollCanFail = TRUE
SPECIFICATION FairSpec
INVARIANTS
    TypeOK
    ConnectedFlagSound
    NoSocketLeak
    SubscribedInLoop
PROPERTIES
    DeadPeerAbandoned
    Reconnects
