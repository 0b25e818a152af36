\* The sizes of the code, and lengths on both sides of each.
CONSTANTS
    MAX_KEY_LEN = 48
    MAX_PAYLOAD_LEN = 256
    MAX_TOPIC_LEN = 64
    MAX_CORRELATION_DATA = 16
    MAX_PENDING_COMMANDS = 1
    OUTBOUND_DEPTH = 2
    KeyLens <- BoundaryKeys
    PayloadLens = {255, 256}
    TopicLens <- BoundaryTopics
    CorrelationLens = {0, 15, 16}
    MaxRequests = 3
SPECIFICATION Spec
INVARIANTS
    TopicHonoured
CHECK_DEADLOCK FALSE
