\* The code's values.
CONSTANTS
    WDT_TIMEOUT = 5
    WDT_FEED_INTERVAL = 1
    KEEPALIVE = 60
    WAIT_RECONNECT = 5
    NET_POLL_TIMEOUT = 30
    MaxFeedFaults = 0
SPECIFICATION Spec
INVARIANT
    ServingNotReset
