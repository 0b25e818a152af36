------------------------------ MODULE Watchdog ------------------------------
(***************************************************************************)
(* The hardware watchdog and the main thread that feeds it, from power-up  *)
(* through the wait for the network and for the broker to the loop of      *)
(* main().  Only time matters here, counted in ticks of one second: how    *)
(* long each blocking call of the main thread may take, and when the       *)
(* watchdog was last fed.  What the calls do is in MqttSession.            *)
(***************************************************************************)
EXTENDS Integers

CONSTANTS
    WDT_TIMEOUT,            \* WDT_TIMEOUT_MS
    WDT_FEED_INTERVAL,      \* WDT_FEED_INTERVAL_MS
    KEEPALIVE,              \* CONFIG_MQTT_KEEPALIVE
    WAIT_RECONNECT,         \* MSECS_WAIT_RECONNECT
    NET_POLL_TIMEOUT,       \* MSECS_NET_POLL_TIMEOUT
    MaxFeedFaults           \* bound: calls of wdt_feed that fail

ASSUME TimeAssumption ==
    /\ WDT_TIMEOUT \in Nat \ {0} /\ WDT_FEED_INTERVAL \in Nat \ {0}
    /\ KEEPALIVE \in Nat \ {0}
    /\ WAIT_RECONNECT \in Nat \ {0} /\ NET_POLL_TIMEOUT \in Nat \ {0}
    /\ MaxFeedFaults \in Nat

VARIABLES
    pc,                 \* where the main thread is
    wdt,                \* is there a watchdog?  (wdt # NULL in main)
    timer,              \* ticks until the blocking call of the main thread times out
    age,                \* the watchdog's counter: ticks since it was last fed
    since_feed,         \* k_uptime_get() - last_wdt_feed, as far as it matters
    network_online,     \* the flag of that name in network.c
    registered,         \* is net_l4_evt_handler registered for L4 events?
    feed_faults,        \* calls of wdt_feed that failed
    reset_at            \* history: where the last reset found the main thread

vars == <<pc, wdt, timer, age, since_feed, network_online, registered, feed_faults, reset_at>>

Places == {"boot", "init", "network", "dial", "sleep", "connack", "loop", "poll", "hung",
           "exited"}

AtMost(m, n) == IF m < n THEN m ELSE n

PlacesOK == pc \in Places /\ reset_at \in Places \cup {"none"}

\* The longest that a blocking call with a timeout may take.
LongestWait(place) ==
    CASE place = "sleep"   -> WAIT_RECONNECT
      [] place = "connack" -> NET_POLL_TIMEOUT
      [] place = "poll"    -> KEEPALIVE
      [] OTHER             -> 0

FlagsOK == wdt \in BOOLEAN /\ network_online \in BOOLEAN /\ registered \in BOOLEAN

TimesOK ==
    /\ timer \in 0..LongestWait(pc)
    /\ age \in 0..WDT_TIMEOUT /\ since_feed \in 0..WDT_FEED_INTERVAL
    /\ feed_faults \in 0..MaxFeedFaults

TypeOK == PlacesOK /\ FlagsOK /\ TimesOK

Init ==
    /\ pc = "boot"
    /\ wdt = FALSE
    /\ timer = 0 /\ age = 0 /\ since_feed = 0
    /\ network_online = FALSE /\ registered = FALSE
    /\ feed_faults = 0
    /\ reset_at = "none"

----------------------------------------------------------------------------
\* watchdog_init leaves wdt NULL if there is no such device or it cannot be
\* configured; main() goes on either way.
Boot ==
    /\ pc = "boot"
    /\ wdt' \in BOOLEAN
    /\ age' = 0
    /\ pc' = "init"
    /\ UNCHANGED <<timer, since_feed, network_online, registered, feed_faults, reset_at>>

\* coo_network_init, whose result main() ignores.  The handler is registered for
\* L4 events only after conn_mgr_all_if_up, and not at all if that fails; the
\* state the network is in by then is sent again.
NetworkInit ==
    /\ pc = "init"
    /\ pc' = "network"
    /\ \/ registered' = TRUE /\ network_online' \in BOOLEAN
       \/ UNCHANGED <<registered, network_online>>
    /\ UNCHANGED <<wdt, timer, age, since_feed, feed_faults, reset_at>>

\* The early returns of main(): there is no interface, or coo_mqtt_init fails once
\* the network is ready.  Nobody feeds the watchdog from then on.
MainReturns ==
    /\ pc = "init" \/ (pc = "network" /\ network_online)
    /\ pc' = "exited"
    /\ UNCHANGED <<wdt, timer, age, since_feed, network_online, registered, feed_faults, reset_at>>

\* net_l4_evt_handler.
L4Event ==
    /\ registered
    /\ network_online' = ~network_online
    /\ UNCHANGED <<pc, wdt, timer, age, since_feed, registered, feed_faults, reset_at>>

\* coo_network_wait_ready(0): polls the flag, for as long as it takes.
NetworkReady ==
    /\ pc = "network"
    /\ network_online
    /\ pc' = "dial"
    /\ UNCHANGED <<wdt, timer, age, since_feed, network_online, registered, feed_faults, reset_at>>

(***************************************************************************)
(* coo_mqtt_connect.                                                       *)
(***************************************************************************)
DialFails ==
    /\ pc = "dial"
    /\ pc' = "sleep"
    /\ timer' = WAIT_RECONNECT
    /\ UNCHANGED <<wdt, age, since_feed, network_online, registered, feed_faults, reset_at>>

SleepEnds ==
    /\ pc = "sleep"
    /\ timer = 0
    /\ pc' = "dial"
    /\ UNCHANGED <<wdt, timer, age, since_feed, network_online, registered, feed_faults, reset_at>>

DialSucceeds ==
    /\ pc = "dial"
    /\ pc' = "connack"
    /\ timer' = NET_POLL_TIMEOUT
    /\ UNCHANGED <<wdt, age, since_feed, network_online, registered, feed_faults, reset_at>>

\* The poll returns early on a packet, which is a CONNACK or not; it times out
\* otherwise.  Without a CONNACK: mqtt_abort and another attempt.
ConnackPollReturns ==
    /\ pc = "connack"
    /\ timer' = 0
    /\ \/ pc' = "loop" /\ timer > 0
       \/ pc' = "dial"
    /\ UNCHANGED <<wdt, age, since_feed, network_online, registered, feed_faults, reset_at>>

(***************************************************************************)
(* One round of the loop of main(): feed the watchdog if it is time to,    *)
(* drain the queue, poll for what is left of the keep-alive interval.      *)
(***************************************************************************)
\* Mutant of EnterPoll: the poll takes the timeout of the one in coo_mqtt_connect.
EnterPollNetTimeout ==
    /\ pc' = "poll"
    /\ timer' \in 0..NET_POLL_TIMEOUT

EnterPoll ==
    /\ pc' = "poll"
    /\ timer' \in 0..KEEPALIVE       \* mqtt_keepalive_time_left

\* Mutant of LoopRound: the feed interval is three times as long.
LoopRoundFeedsLate ==
    /\ pc = "loop"
    /\ EnterPoll
    /\ IF wdt /\ age >= 3 * WDT_FEED_INTERVAL
         THEN age' = 0 /\ since_feed' = 0
         ELSE UNCHANGED <<age, since_feed>>
    /\ UNCHANGED <<wdt, network_online, registered, feed_faults, reset_at>>

LoopRound ==
    /\ pc = "loop"
    /\ EnterPoll
    /\ \/ /\ wdt /\ since_feed >= WDT_FEED_INTERVAL
          /\ since_feed' = 0
          /\ \/ age' = 0 /\ UNCHANGED feed_faults
             \/ /\ feed_faults < MaxFeedFaults          \* wdt_feed fails
                /\ feed_faults' = feed_faults + 1
                /\ UNCHANGED age
       \/ /\ ~(wdt /\ since_feed >= WDT_FEED_INTERVAL)
          /\ UNCHANGED <<age, since_feed, feed_faults>>
    /\ UNCHANGED <<wdt, network_online, registered, reset_at>>

\* A packet ends the poll, or its timeout does and mqtt_live sends a PINGREQ;
\* the connection may turn out to be gone.
ProcessReturns ==
    /\ pc = "poll"
    /\ timer' = 0
    /\ pc' \in {"loop", "dial"}
    /\ UNCHANGED <<wdt, age, since_feed, network_online, registered, feed_faults, reset_at>>

\* A call made in the loop does not return any more: a publish to a socket that
\* takes no data, a callback that does not end.
Hang ==
    /\ pc = "loop"
    /\ pc' = "hung"
    /\ UNCHANGED <<wdt, timer, age, since_feed, network_online, registered, feed_faults, reset_at>>

----------------------------------------------------------------------------
(***************************************************************************)
(* Time passes while the main thread waits: never past the end of its      *)
(* wait, nor past the expiry of the watchdog.                              *)
(***************************************************************************)
Waiting ==
    \/ pc \in {"network", "dial", "hung", "exited"}       \* for as long as it takes
    \/ pc \in {"sleep", "connack", "poll"} /\ timer > 0

Expired == wdt /\ age = WDT_TIMEOUT

Tick ==
    /\ Waiting
    /\ ~Expired
    /\ timer' = IF timer > 0 THEN timer - 1 ELSE 0
    /\ age' = AtMost(age + 1, WDT_TIMEOUT)
    /\ since_feed' = AtMost(since_feed + 1, WDT_FEED_INTERVAL)
    /\ UNCHANGED <<pc, wdt, network_online, registered, feed_faults, reset_at>>

\* Mutant of Reset: the watchdog is configured without WDT_FLAG_RESET_SOC and
\* only calls wdt_callback.
ResetCallbackOnly ==
    /\ Expired
    /\ age' = 0
    /\ UNCHANGED <<pc, wdt, timer, since_feed, network_online, registered, feed_faults, reset_at>>

\* WDT_FLAG_RESET_SOC.
Reset ==
    /\ Expired
    /\ reset_at' = pc
    /\ pc' = "boot"
    /\ wdt' = FALSE
    /\ timer' = 0 /\ age' = 0 /\ since_feed' = 0
    /\ network_online' = FALSE /\ registered' = FALSE
    /\ UNCHANGED feed_faults

----------------------------------------------------------------------------
MainStep ==
    \/ Boot \/ NetworkInit \/ MainReturns \/ NetworkReady \/ DialFails \/ SleepEnds \/ DialSucceeds
    \/ ConnackPollReturns \/ LoopRound \/ ProcessReturns

Next == MainStep \/ Hang \/ L4Event \/ Tick \/ Reset

Spec == Init /\ [][Next]_vars

\* Time passes, and the watchdog does its work; nothing is assumed of the main
\* thread.
FairSpec == Spec /\ WF_vars(Tick) /\ WF_vars(Reset)

----------------------------------------------------------------------------
(***************************************************************************)
(* Properties.                                                             *)
(***************************************************************************)

\* The watchdog recovers the system from hangs (README.md), not from waiting for
\* the next packet: as long as every wdt_feed succeeds, main() serving its
\* connection in coo_mqtt_process is never reset.
ServingNotReset == feed_faults = 0 => reset_at # "poll"

\* A main thread that cannot go on by itself: a call in its loop does not return,
\* it waits for a network event that nobody will deliver, or main() has returned.
Stuck == pc \in {"hung", "exited"} \/ (pc = "network" /\ ~registered)

\* If there is a watchdog, a main thread that is stuck is reset and starts over.
HangRecovered == wdt /\ Stuck ~> pc = "boot"

=============================================================================
