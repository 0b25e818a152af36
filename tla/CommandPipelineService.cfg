\* Queues of the code's shape at small depths: both queues overflow, the executor
\* pends on each of them, and telemetry competes for outbound_queue.  The depth of
\* inbound_queue is the code's own MAX_PENDING_COMMANDS.
CONSTANTS
    MAX_PENDING_COMMANDS = 2
    OUTBOUND_DEPTH = 2
    PHOTODIODE_DEPTH = 2
    MaxRequests = 4
    MaxSamples = 2
SPECIFICATION Spec
INVARIANTS
    TypeOK
    NoMissedWakeup
    OneResponse
    RepliesInOrder
    TelemetryInOrder
PROPERTY
    ImplementsService
