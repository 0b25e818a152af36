--------------------------- MODULE WatchdogProofs ---------------------------
(***************************************************************************)
(* Proofs about Watchdog for all values of the times.                      *)
(***************************************************************************)
EXTENDS Watchdog, TLAPS

----------------------------------------------------------------------------
(***************************************************************************)
(* The inductive invariant: without a failed wdt_feed the clock of main()  *)
(* and the counter of the watchdog agree, so a poll starts with the        *)
(* counter below the feed interval and can add at most the keep-alive      *)
(* interval to it.                                                         *)
(***************************************************************************)
ClocksAgree ==
    wdt /\ feed_faults = 0 =>
        IF age < WDT_FEED_INTERVAL THEN since_feed = age ELSE since_feed = WDT_FEED_INTERVAL

PollWithinBudget ==
    wdt /\ feed_faults = 0 /\ pc = "poll" => age + timer <= WDT_FEED_INTERVAL - 1 + KEEPALIVE

BootIsFresh == pc = "boot" => ~wdt /\ since_feed = 0

Inv == TypeOK /\ ClocksAgree /\ PollWithinBudget /\ BootIsFresh

\* The controller starts with a watchdog that is not running.
LEMMA InitInv == Init => Inv
<1> SUFFICES ASSUME Init PROVE Inv
  OBVIOUS
<1>1. PlacesOK /\ FlagsOK
  BY DEF Init, PlacesOK, FlagsOK, Places
<1>2. TimesOK
  BY TimeAssumption DEF Init, TimesOK, LongestWait
<1> QED
  BY <1>1, <1>2, TimeAssumption
  DEF Init, Inv, TypeOK, ClocksAgree, PollWithinBudget, BootIsFresh

\* The main thread is at a place of start-up or loop.
LEMMA PlacesStep == TypeOK /\ [Next]_vars => PlacesOK'
<1> SUFFICES ASSUME TypeOK, [Next]_vars PROVE PlacesOK'
  OBVIOUS
<1> USE TimeAssumption DEF TypeOK, PlacesOK, Places
<1>1. CASE Boot \/ NetworkInit \/ MainReturns \/ NetworkReady \/ DialFails \/ SleepEnds
          \/ DialSucceeds
  BY <1>1 DEF Boot, NetworkInit, MainReturns, NetworkReady, DialFails, SleepEnds, DialSucceeds
<1>2. CASE ConnackPollReturns \/ ProcessReturns \/ Hang \/ L4Event
  BY <1>2 DEF ConnackPollReturns, ProcessReturns, Hang, L4Event
<1>3. CASE LoopRound
  BY <1>3 DEF LoopRound, EnterPoll
<1>4. CASE Tick
  BY <1>4 DEF Tick, AtMost, Waiting, Expired
<1>5. CASE Reset
  BY <1>5 DEF Reset
<1>6. CASE UNCHANGED vars
  BY <1>6 DEF vars
<1> QED  BY <1>1, <1>2, <1>3, <1>4, <1>5, <1>6 DEF Next, MainStep

\* Flags.
LEMMA FlagsStep == TypeOK /\ [Next]_vars => FlagsOK'
<1> SUFFICES ASSUME TypeOK, [Next]_vars PROVE FlagsOK'
  OBVIOUS
<1> USE TimeAssumption DEF TypeOK, FlagsOK
<1>1. CASE Boot \/ NetworkInit \/ MainReturns \/ NetworkReady \/ DialFails \/ SleepEnds
          \/ DialSucceeds
  BY <1>1 DEF Boot, NetworkInit, MainReturns, NetworkReady, DialFails, SleepEnds, DialSucceeds
<1>2. CASE ConnackPollReturns \/ ProcessReturns \/ Hang \/ L4Event
  BY <1>2 DEF ConnackPollReturns, ProcessReturns, Hang, L4Event
<1>3. CASE LoopRound
  BY <1>3 DEF LoopRound, EnterPoll
<1>4. CASE Tick
  BY <1>4 DEF Tick, AtMost, Waiting, Expired
<1>5. CASE Reset
  BY <1>5 DEF Reset
<1>6. CASE UNCHANGED vars
  BY <1>6 DEF vars
<1> QED  BY <1>1, <1>2, <1>3, <1>4, <1>5, <1>6 DEF Next, MainStep

\* No clock runs past the end of what it measures.
LEMMA TimesStep == TypeOK /\ [Next]_vars => TimesOK'
<1> SUFFICES ASSUME TypeOK, [Next]_vars PROVE TimesOK'
  OBVIOUS
<1> USE TimeAssumption DEF TypeOK, TimesOK, LongestWait
<1>1. CASE Boot \/ NetworkInit \/ MainReturns \/ NetworkReady \/ DialFails \/ SleepEnds
          \/ DialSucceeds
  BY <1>1 DEF Boot, NetworkInit, MainReturns, NetworkReady, DialFails, SleepEnds, DialSucceeds
<1>2. CASE ConnackPollReturns \/ ProcessReturns \/ Hang \/ L4Event
  BY <1>2 DEF ConnackPollReturns, ProcessReturns, Hang, L4Event
<1>3. CASE LoopRound
  BY <1>3 DEF LoopRound, EnterPoll
<1>4. CASE Tick
  BY <1>4 DEF Tick, AtMost, Waiting, Expired
<1>5. CASE Reset
  BY <1>5 DEF Reset
<1>6. CASE UNCHANGED vars
  BY <1>6 DEF vars
<1> QED  BY <1>1, <1>2, <1>3, <1>4, <1>5, <1>6 DEF Next, MainStep

\* The counter is reset when last_wdt_feed is set, unless the feed failed.
LEMMA ClockStep == Inv /\ [Next]_vars => ClocksAgree'
<1> SUFFICES ASSUME Inv, [Next]_vars PROVE ClocksAgree'
  OBVIOUS
<1> USE TimeAssumption DEF Inv, TypeOK, TimesOK, ClocksAgree
<1>1. CASE Boot
  BY <1>1 DEF Boot, BootIsFresh
<1>2. CASE LoopRound
  BY <1>2 DEF LoopRound
<1>3. CASE Tick
  BY <1>3 DEF Tick, AtMost, Expired
<1>4. CASE Reset
  BY <1>4 DEF Reset
<1>5. CASE UNCHANGED <<wdt, feed_faults, age, since_feed>>
  BY <1>5
<1>6. Boot \/ LoopRound \/ Tick \/ Reset \/ UNCHANGED <<wdt, feed_faults, age, since_feed>>
  BY DEF Next, MainStep, NetworkInit, MainReturns, NetworkReady, DialFails, SleepEnds,
          DialSucceeds, ConnackPollReturns,
         ProcessReturns, Hang, L4Event, vars
<1> QED  BY <1>1, <1>2, <1>3, <1>4, <1>5, <1>6

\* A poll starts soon enough after a feed.
LEMMA PollStep == Inv /\ [Next]_vars => PollWithinBudget'
<1> SUFFICES ASSUME Inv, [Next]_vars PROVE PollWithinBudget'
  OBVIOUS
<1> USE TimeAssumption DEF Inv, TypeOK, TimesOK, PollWithinBudget
<1>1. CASE LoopRound
  BY <1>1 DEF LoopRound, EnterPoll, ClocksAgree
<1>2. CASE Tick
  BY <1>2 DEF Tick, AtMost, Waiting
<1>3. CASE pc' # "poll"
  BY <1>3
<1>4. CASE UNCHANGED <<pc, wdt, feed_faults, age, timer>>
  BY <1>4
<1>5. LoopRound \/ Tick \/ pc' # "poll" \/ UNCHANGED <<pc, wdt, feed_faults, age, timer>>
  BY DEF Next, MainStep, Boot, NetworkInit, MainReturns, NetworkReady, DialFails, SleepEnds,
          DialSucceeds,
         ConnackPollReturns, ProcessReturns, Hang, L4Event, Reset, vars
<1> QED  BY <1>1, <1>2, <1>3, <1>4, <1>5

\* Before the watchdog is set up no time is counted.
LEMMA BootStep == Inv /\ [Next]_vars => BootIsFresh'
  BY DEF Inv, BootIsFresh, Next, MainStep, Boot, NetworkInit, MainReturns, NetworkReady,
          DialFails, SleepEnds, DialSucceeds,
         ConnackPollReturns, LoopRound, EnterPoll, ProcessReturns, Hang, L4Event, Tick, Waiting,
         Reset, vars

\* Types, the agreement of the two clocks and the budget of the poll are inductive together.
THEOREM Invariance == Spec => []Inv
<1>1. Inv /\ [Next]_vars => Inv'
  BY PlacesStep, FlagsStep, TimesStep, ClockStep, PollStep, BootStep
  DEF Inv, TypeOK
<1> QED  BY InitInv, <1>1, PTL DEF Spec

\* Types of the main thread, the watchdog and the network: no clock outruns the time
\* after which it fires, and each place is reached with its own timer set.
THEOREM TypeCorrect == Spec => []TypeOK
<1>1. Inv => TypeOK
  BY DEF Inv
<1> QED  BY <1>1, Invariance, PTL

----------------------------------------------------------------------------
\* The timing that the constants of main.c would need: a keep-alive interval and
\* a feed interval that together fit in the watchdog's timeout keep a main() that
\* serves its connection from being reset, however the packets arrive.
\* CONFIG_MQTT_KEEPALIVE=60 does not satisfy the assumption.
THEOREM ServedSafely ==
    ASSUME WDT_FEED_INTERVAL - 1 + KEEPALIVE < WDT_TIMEOUT
    PROVE  Spec => []ServingNotReset
<1>1. Init => ServingNotReset
  BY DEF Init, ServingNotReset
<1>2. Inv /\ ServingNotReset /\ [Next]_vars => ServingNotReset'
  <2> SUFFICES ASSUME Inv, ServingNotReset, [Next]_vars, feed_faults' = 0
               PROVE  reset_at' # "poll"
    BY DEF ServingNotReset
  <2>1. CASE Reset
    <3>1. wdt /\ age = WDT_TIMEOUT /\ feed_faults = 0 /\ reset_at' = pc
      BY <2>1 DEF Reset, Expired
    <3>2. pc # "poll"
      BY <3>1, TimeAssumption DEF Inv, TypeOK, TimesOK, PollWithinBudget
    <3> QED  BY <3>1, <3>2
  <2>2. CASE LoopRound
    <3>1. feed_faults = 0 /\ reset_at' = reset_at
      BY <2>2 DEF LoopRound, Inv, TypeOK, TimesOK
    <3> QED  BY <3>1 DEF ServingNotReset
  <2>3. CASE ~Reset /\ ~LoopRound
    <3>1. feed_faults' = feed_faults /\ reset_at' = reset_at
      BY <2>3 DEF Next, MainStep, Boot, NetworkInit, MainReturns, NetworkReady, DialFails,
              SleepEnds, DialSucceeds,
                  ConnackPollReturns, ProcessReturns, Hang, L4Event, Tick, vars
    <3> QED  BY <3>1 DEF ServingNotReset
  <2> QED  BY <2>1, <2>2, <2>3
<1> QED  BY <1>1, <1>2, Invariance, PTL DEF Spec

=============================================================================
