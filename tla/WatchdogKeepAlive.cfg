\* The code's values but for the keep-alive, which is shorter than the watchdog's
\* timeout by the feed interval.
CONSTANTS
    WDT_TIMEOUT = 5
    WDT_FEED_INTERVAL = 1
    KEEPALIVE = 4
    WAIT_RECONNECT = 5
    NET_POLL_TIMEOUT = 30
    MaxFeedFaults = 1
SPECIFICATION FairSpec
INVARIANTS
    TypeOK
    ServingNotReset
PROPERTY
    HangRecovered
