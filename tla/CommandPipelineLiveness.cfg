\* One slot in every queue: every put can fail or pend.
CONSTANTS
    MAX_PENDING_COMMANDS = 1
    OUTBOUND_DEPTH = 1
    PHOTODIODE_DEPTH = 1
    MaxRequests = 3
    MaxSamples = 2
SPECIFICATION FairSpec
PROPERTIES
    AcceptedAnswered
    SampleStored
    ImplementsFairService
