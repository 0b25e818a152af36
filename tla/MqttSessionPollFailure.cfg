CONSTANTS
    MAX_SUBSCRIPTIONS = 4
    MaxWire = 1
    MaxFaults = 1
    PollCanFail = TRUE
SPECIFICATION Spec
PROPERTY
    PollFailureReported
