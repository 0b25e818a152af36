--------------------------- MODULE InstrumentsProofs ---------------------------
(***************************************************************************)
(* Proofs about the power of the lasers, the readings of their controllers *)
(* and the outputs of the attenuators, for any number of failing accesses, *)
(* names, calibrations, voltages and registers.  The invariants of the     *)
(* first theorems carry along only the conjuncts of InstrumentTypeOK that  *)
(* they need; all of it is proved at the end.                              *)
(***************************************************************************)
EXTENDS Instruments, TLAPS

PowerTypeOK ==
    /\ power \in BOOLEAN /\ asked \in BOOLEAN /\ missed \in BOOLEAN
    /\ booted \in BOOLEAN /\ eager \in BOOLEAN
    /\ faults \in Nat

\* A handler that was called with a slash in its key has the executor to itself.
ExecutorHeld == step # "none" => pc = "idle"

\* Outside its own wait for the lasers, the firmware has either waited for them
\* before or switched them on without waiting.
WaitedBefore == step # "wait" => booted \/ eager \/ ~power

Inv == PowerTypeOK /\ ExecutorHeld /\ WaitedBefore /\ PowerAsAsked

----------------------------------------------------------------------------
\* The operations on the pin.  An operation leaves the pin as asked, or says that an
\* access has missed.
LEMMA PinKeptFact ==
    ASSUME PowerTypeOK, NEW n \in Nat, PinKept(n)
    PROVE  power' = power /\ missed' \in BOOLEAN /\ faults' \in Nat /\ (missed' <=> n # faults)
BY DEF PinKept, PowerTypeOK

\* A write leaves the pin as it was told to, or is known to have missed.
LEMMA WritePinFact ==
    ASSUME PowerTypeOK, NEW n \in Nat, NEW level \in BOOLEAN, WritePin(level, n)
    PROVE  power' \in BOOLEAN /\ missed' \in BOOLEAN /\ faults' \in Nat /\ (power' = level \/ missed')
<1>1. CASE power' = level /\ missed' = FALSE /\ faults' = n
  BY <1>1
<1>2. CASE n < MaxFaults /\ faults' = n + 1 /\ missed' = TRUE /\ UNCHANGED power
  BY <1>2 DEF PowerTypeOK
<1> QED  BY <1>1, <1>2 DEF WritePin

\* When enable_power says that the lasers were on already, they were.
LEMMA EnableFact ==
    ASSUME PowerTypeOK, NEW switched \in BOOLEAN, enable_power(switched)
    PROVE  /\ power' \in BOOLEAN /\ missed' \in BOOLEAN /\ faults' \in Nat
           /\ power' = TRUE \/ missed'
           /\ ~switched => power /\ power' = power
<1>1. PICK value \in BOOLEAN, n \in 0..MaxFaults :
        /\ power_enabled(value, n)
        /\ switched = ~value
        /\ IF value THEN PinKept(n) ELSE WritePin(TRUE, n)
  BY DEF enable_power
<1>2. n \in Nat
  BY DispatchAssumption
<1>3. CASE value
  <2>1. PinKept(n) /\ ~switched
    BY <1>1, <1>3
  <2>2. value = power
    BY <1>1, <1>3 DEF power_enabled
  <2> QED  BY <1>2, <1>3, <2>1, <2>2, PinKeptFact DEF PowerTypeOK
<1>4. CASE ~value
  <2>1. WritePin(TRUE, n) /\ switched
    BY <1>1, <1>4
  <2> QED  BY <1>2, <2>1, WritePinFact
<1> QED  BY <1>3, <1>4

\* Whatever disable_power reads and writes, the pin is low or the access has missed.
LEMMA DisableFact ==
    ASSUME PowerTypeOK, disable_power
    PROVE  /\ power' \in BOOLEAN /\ missed' \in BOOLEAN /\ faults' \in Nat
           /\ power' = FALSE \/ missed'
<1>1. PICK value \in BOOLEAN, n \in 0..MaxFaults :
        /\ power_enabled(value, n)
        /\ IF value THEN WritePin(FALSE, n) ELSE PinKept(n)
  BY DEF disable_power
<1>2. n \in Nat
  BY DispatchAssumption
<1>3. CASE value
  BY <1>1, <1>2, <1>3, WritePinFact
<1>4. CASE ~value
  <2>1. PinKept(n)
    BY <1>1, <1>4
  <2>2. power = FALSE \/ n # faults
    BY <1>1, <1>4 DEF power_enabled, PowerTypeOK
  <2> QED  BY <1>2, <2>1, <2>2, PinKeptFact DEF PowerTypeOK
<1> QED  BY <1>3, <1>4

----------------------------------------------------------------------------
\* What a step of CommandDispatch does with the pin.
PinOK == power \in BOOLEAN /\ asked \in BOOLEAN /\ missed \in BOOLEAN /\ faults \in Nat

CommandStep ==
    Command \/ Unknown \/ Unsupported \/ KeyPairHandlers \/ Memsroute
    \/ PowerGet \/ Malformed \/ PowerSet \/ SleepSet \/ Answered

\* The commands that reach the power pin by way of dispatch_command.
LEMMA CommandFact ==
    ASSUME PowerTypeOK, PowerAsAsked, CommandStep
    PROVE  PinOK' /\ PowerAsAsked'
<1> USE DEF PinOK, PowerAsAsked
<1>1. ASSUME UNCHANGED <<power, asked, missed>>, faults' \in Nat PROVE PinOK' /\ PowerAsAsked'
  BY <1>1 DEF PowerTypeOK
<1>2. CASE Command \/ Unknown \/ Unsupported \/ KeyPairHandlers \/ Memsroute \/ Malformed \/ Answered
  BY <1>1, <1>2 DEF Command, Unknown, Unsupported, KeyPairHandlers, Memsroute, Malformed, Answered,
                    pinVars, PowerTypeOK
<1>3. CASE PowerGet
  <2>1. PICK value \in BOOLEAN : power_enabled(value, faults')
    BY <1>3 DEF PowerGet
  <2>2. faults' = faults \/ faults' = faults + 1
    BY <2>1 DEF power_enabled
  <2> QED  BY <1>1, <1>3, <2>2 DEF PowerGet, PowerTypeOK
<1>4. CASE PowerSet
  <2>1. asked' = (cmd.payload = "true")
    BY <1>4 DEF PowerSet
  <2>2. CASE cmd.payload = "true" /\ \E switched \in BOOLEAN : enable_power(switched)
    BY <2>1, <2>2, EnableFact
  <2>3. CASE cmd.payload = "false" /\ disable_power
    BY <2>1, <2>3, DisableFact
  <2> QED  BY <1>4, <2>2, <2>3 DEF PowerSet
<1>5. CASE SleepSet
  <2>1. CASE disable_power /\ asked' = FALSE
    BY <2>1, DisableFact
  <2>2. CASE UNCHANGED pinVars
    BY <1>1, <2>2 DEF pinVars, PowerTypeOK
  <2> QED  BY <1>5, <2>1, <2>2 DEF SleepSet
<1> QED  BY <1>2, <1>3, <1>4, <1>5 DEF CommandStep

----------------------------------------------------------------------------
\* At the start nothing has been asked for and the pin may have either level.
LEMMA InitInv == InstrumentInit => Inv
<1> SUFFICES ASSUME InstrumentInit PROVE Inv
  OBVIOUS
<1>1. /\ power \in BOOLEAN /\ asked = FALSE /\ missed = TRUE /\ faults = 0
      /\ booted = FALSE /\ eager = power /\ step = "none"
  BY DEF InstrumentInit, Init
<1>2. PowerTypeOK
  <2>1. CASE power = TRUE
    BY <1>1, <2>1 DEF PowerTypeOK
  <2>2. CASE power = FALSE
    BY <1>1, <2>2 DEF PowerTypeOK
  <2> QED  BY <1>1, <2>1, <2>2
<1>3. ExecutorHeld /\ PowerAsAsked
  BY <1>1 DEF ExecutorHeld, PowerAsAsked
<1>4. WaitedBefore
  BY <1>1, Zenon DEF WaitedBefore
<1> QED  BY <1>2, <1>3, <1>4 DEF Inv

\* A command that dispatch_command handles at once.
LEMMA DispatchStep == Inv /\ Dispatch => Inv'
<1> SUFFICES ASSUME Inv, Dispatch PROVE Inv'
  OBVIOUS
<1>1. PinOK' /\ PowerAsAsked'
  BY CommandFact DEF Dispatch, CommandStep, Inv
<1>2. booted' = (booted /\ power') /\ eager' = (power' /\ (eager \/ ~power))
  BY DEF Dispatch, PowerFollowed
<1>3. step = "none" /\ step' = "none"
  BY DEF Dispatch
<1>4. PowerTypeOK' /\ WaitedBefore'
  BY <1>1, <1>2, <1>3 DEF PinOK, PowerTypeOK, WaitedBefore, Inv
<1> QED  BY <1>1, <1>3, <1>4 DEF Inv, ExecutorHeld

\* The first step of a laser handler, which may switch the lasers on.
LEMMA LaserPowerStep == Inv /\ LaserPower => Inv'
<1> SUFFICES ASSUME Inv, LaserPower PROVE Inv'
  OBVIOUS
<1>1. PICK switched \in BOOLEAN :
        enable_power(switched) /\ step' = IF switched THEN "wait" ELSE "access"
  BY DEF LaserPower
<1>2. /\ step = "none" /\ pc = "idle" /\ pc' = pc
      /\ asked' = TRUE
      /\ booted' = (booted /\ power') /\ eager' = (power' /\ eager)
  BY DEF LaserPower, Call
<1>3. /\ power' \in BOOLEAN /\ missed' \in BOOLEAN /\ faults' \in Nat
      /\ power' = TRUE \/ missed'
      /\ ~switched => power /\ power' = power
  BY <1>1, EnableFact DEF Inv
<1>4. PowerTypeOK' /\ PowerAsAsked' /\ ExecutorHeld'
  BY <1>2, <1>3 DEF PowerTypeOK, PowerAsAsked, ExecutorHeld, Inv
<1>5. WaitedBefore'
  BY <1>1, <1>2, <1>3 DEF WaitedBefore, PowerTypeOK, Inv
<1> QED  BY <1>4, <1>5 DEF Inv

\* The steps of the world and of devices_ready that touch the pin.
LEMMA PowerCycleStep == Inv /\ (InstrumentBoot \/ InstrumentReset) => Inv'
<1> SUFFICES ASSUME Inv, InstrumentBoot \/ InstrumentReset PROVE Inv'
  OBVIOUS
<1>1. CASE InstrumentBoot
  <2>1. /\ pc = "boot" /\ WritePin(FALSE, faults) /\ asked' = FALSE /\ step' = step
        /\ booted' = (booted /\ power') /\ eager' = (power' /\ (eager \/ ~power))
    BY <1>1 DEF InstrumentBoot, Boot, PowerFollowed
  <2>2. /\ power' \in BOOLEAN /\ missed' \in BOOLEAN /\ faults' \in Nat
        /\ power' = FALSE \/ missed'
    BY <2>1, WritePinFact DEF Inv, PowerTypeOK
  <2>3. step = "none"
    BY <2>1 DEF Inv, ExecutorHeld
  <2> QED  BY <2>1, <2>2, <2>3 DEF Inv, PowerTypeOK, ExecutorHeld, WaitedBefore, PowerAsAsked
<1>2. CASE InstrumentReset
  BY <1>2 DEF InstrumentReset, Reset, Inv, PowerTypeOK, ExecutorHeld, WaitedBefore, PowerAsAsked
<1> QED  BY <1>1, <1>2

\* Everything else leaves the pin alone.
LEMMA OtherStep ==
    ASSUME Inv, UNCHANGED vars,
           \/ LasersBoot \/ LaserRefused \/ wait_laser_boot \/ LaserAccess \/ MaimanGet
           \/ AttenRefused \/ GetCoefficients \/ GetValue \/ SetCoefficients \/ SetValue
           \/ CallReturned
           \/ UNCHANGED instrumentVars
    PROVE  Inv'
<1> USE DEF Inv, PowerTypeOK, ExecutorHeld, WaitedBefore, PowerAsAsked, vars
<1>1. CASE LasersBoot
  <2>1. booted' = TRUE /\ eager' = FALSE /\ UNCHANGED step
    BY <1>1 DEF LasersBoot
  <2> QED  BY <2>1
<1>2. CASE LaserRefused \/ MaimanGet
  BY <1>2 DEF LaserRefused, MaimanGet, Call, Returns
<1>3. CASE wait_laser_boot \/ LaserAccess
  BY <1>3 DEF wait_laser_boot, LaserAccess, Returns
<1>4. CASE AttenRefused \/ GetCoefficients \/ GetValue \/ SetCoefficients \/ SetValue
  BY <1>4 DEF AttenRefused, GetCoefficients, GetValue, SetCoefficients, SetValue,
              AttenReturns, Call, Returns
<1>5. CASE CallReturned \/ UNCHANGED instrumentVars
  BY <1>5 DEF CallReturned, instrumentVars
<1> QED  BY <1>1, <1>2, <1>3, <1>4, <1>5

\* The invariant behind both theorems: what the pin shows, what was asked for, and
\* whether the lasers behind it have been waited for, through every command,
\* laser handler, failing access and reset.
THEOREM Invariance == InstrumentSpec => []Inv
<1>1. Inv /\ [InstrumentNext]_instrumentVars => Inv'
  <2> SUFFICES ASSUME Inv, [InstrumentNext]_instrumentVars PROVE Inv'
    OBVIOUS
  <2>1. CASE InstrumentBoot \/ InstrumentReset \/ Dispatch \/ LaserPower
    BY <2>1, PowerCycleStep, DispatchStep, LaserPowerStep
  <2>2. CASE \/ LasersBoot \/ LaserRefused \/ wait_laser_boot \/ LaserAccess \/ MaimanGet
             \/ CallReturned \/ UNCHANGED instrumentVars
    <3>1. UNCHANGED vars
      BY <2>2 DEF LasersBoot, LaserRefused, wait_laser_boot, LaserAccess, MaimanGet, CallReturned,
                  instrumentVars
    <3> QED  BY <2>2, <3>1, OtherStep
  <2>3. CASE AttenRefused \/ GetCoefficients \/ GetValue \/ SetCoefficients \/ SetValue
    <3>1. UNCHANGED vars
      BY <2>3 DEF AttenRefused, GetCoefficients, GetValue, SetCoefficients, SetValue, AttenReturns
    <3> QED  BY <2>3, <3>1, OtherStep
  <2> QED  BY <2>1, <2>2, <2>3 DEF InstrumentNext
<1> QED  BY InitInv, <1>1, PTL DEF InstrumentSpec

\* The lasers have power exactly if they were last asked to, unless an access to the
\* pin has failed: enable_power and disable_power lose no request in what they skip.
THEOREM PowerFollowsCommands == InstrumentSpec => []PowerAsAsked
<1>1. Inv => PowerAsAsked
  BY DEF Inv
<1> QED  BY <1>1, Invariance, PTL

\* laser_setting_get and laser_setting_set only talk to controllers that have booted,
\* except after power for which nothing in the firmware waits.
THEOREM AccessAfterBoot == InstrumentSpec => []LasersAwaited
<1>1. Inv => LasersAwaited
  BY DEF Inv, WaitedBefore, LasersAwaited
<1> QED  BY <1>1, Invariance, PTL

----------------------------------------------------------------------------
\* A 16-bit register, signed or not, is never scaled to the value that stands for a
\* failed transfer.
LEMMA FailureOutOfReach ==
    ASSUME NEW q \in Quantities \ RawWords, NEW w \in Words
    PROVE  Reading(q, w) # FailureValue(q)
<1> DEFINE d == Divider(q)
<1>1. w \in Nat
  <2>1. w \in 0..2^16 - 1
    BY MaimanAssumption
  <2> QED  BY <2>1
<1>2. CASE q \in Temperatures
  <2>1. d = 10 /\ 1000 \div 10 = 100
    BY <1>2 DEF Divider, Temperatures, RawWords
  <2>2. to_signed(w) \in Int
    BY <1>1 DEF to_signed
  <2>3. Reading(q, w) = to_signed(w) * 100 /\ FailureValue(q) = -273150
    BY <1>2, <2>1 DEF Reading, FailureValue, Temperatures, RawWords
  <2> HIDE DEF d
  <2>4. to_signed(w) * 100 # -273150
    BY <2>2
  <2> QED  BY <2>3, <2>4
<1>3. CASE q \notin Temperatures
  <2>1. d = 100 \/ d = 1000
    BY <1>3 DEF Divider
  <2>2. 1000 \div d \in Nat
    BY <2>1
  <2>3. Reading(q, w) = w * (1000 \div d) /\ FailureValue(q) = -1000
    BY <1>3 DEF Reading, FailureValue
  <2> HIDE DEF d
  <2>4. w * (1000 \div d) >= 0
    BY <1>1, <2>2
  <2> QED  BY <2>3, <2>4
<1> QED  BY <1>2, <1>3

\* A failed transfer can be told by the value of every scaled quantity, whatever the
\* registers hold; a failed read of the serial number or the status is 0, which it
\* shares with that word.
THEOREM FailuresAreTold == InstrumentSpec => []FailureTold
<1>1. InstrumentInit => FailureTold
  BY DEF InstrumentInit, NoReply, FailureTold
<1>2. FailureTold /\ [InstrumentNext]_instrumentVars => FailureTold'
  <2> SUFFICES ASSUME FailureTold, [InstrumentNext]_instrumentVars PROVE FailureTold'
    OBVIOUS
  <2>1. ASSUME UNCHANGED reply PROVE FailureTold'
    BY <2>1 DEF FailureTold
  <2>2. ASSUME reply'.kind # "reading" PROVE FailureTold'
    BY <2>2 DEF FailureTold
  <2>3. CASE \/ InstrumentBoot \/ Dispatch \/ LasersBoot \/ LaserPower \/ wait_laser_boot
             \/ UNCHANGED instrumentVars
    BY <2>1, <2>3 DEF InstrumentBoot, Dispatch, LasersBoot, LaserPower, wait_laser_boot, instrumentVars
  <2>4. CASE \/ InstrumentReset \/ LaserRefused \/ LaserAccess \/ AttenRefused \/ GetCoefficients
             \/ GetValue \/ SetCoefficients \/ SetValue \/ CallReturned
    <3>1. CASE InstrumentReset \/ CallReturned
      BY <2>2, <3>1 DEF InstrumentReset, CallReturned, NoReply
    <3>2. CASE LaserRefused \/ LaserAccess
      BY <2>2, <3>2 DEF LaserRefused, LaserAccess, Returns, Reply
    <3>3. CASE AttenRefused \/ SetCoefficients \/ SetValue
      <4>1. \E k \in {"error", "OK"} : reply' = [kind |-> k]
        BY <3>3 DEF AttenRefused, SetCoefficients, SetValue, AttenReturns, Returns, Reply
      <4> QED  BY <2>2, <4>1
    <3>4. CASE GetCoefficients
      <4>1. \E a \in Addressed : reply' = [kind |-> "coefficients", of |-> calibration[a]]
        BY <3>4 DEF GetCoefficients, AttenReturns, Returns
      <4> QED  BY <2>2, <4>1
    <3>5. CASE GetValue
      <4>1. \E a \in Addressed :
              reply' = [kind |-> "value", channel |-> a,
                        voltage |-> attenuator_get(a, TRUE), db |-> attenuator_get(a, FALSE)]
        BY <3>5 DEF GetValue, AttenReturns, Returns
      <4> QED  BY <2>2, <4>1
    <3> QED  BY <2>4, <3>1, <3>2, <3>3, <3>4, <3>5
  <2>5. CASE MaimanGet
    <3>1. PICK q \in Quantities, w \in Words, ok \in BOOLEAN :
            reply' = [kind |-> "reading", quantity |-> q, failed |-> ~ok,
                      value |-> IF ok THEN Reading(q, w) ELSE FailureValue(q)]
      BY <2>5 DEF MaimanGet, Returns
    <3>2. q \notin RawWords => Reading(q, w) # FailureValue(q)
      BY FailureOutOfReach
    <3> QED  BY <3>1, <3>2 DEF FailureTold
  <2> QED  BY <2>3, <2>4, <2>5 DEF InstrumentNext
<1> QED  BY <1>1, <1>2, PTL DEF InstrumentSpec

----------------------------------------------------------------------------
\* What the records of the attenuators are worth.
RecordsWritten ==
    /\ DOMAIN voltage = Channels /\ DOMAIN dac = Channels
    /\ \A a \in Channels \ unwritten : Code(voltage[a]) = dac[a]

\* A reported voltage is still the recorded one while its caller has it.
ReportCurrent ==
    /\ reply.kind = "value" =>
          /\ step = "answered"
          /\ reply.channel \in Channels
          /\ reply.voltage = voltage[reply.channel]
    /\ ExecutorHeld

OutputInv == RecordsWritten /\ ReportCurrent

\* attenuator_set records what it writes, or the channel counts as unwritten.
LEMMA AttenuatorSetFact ==
    ASSUME RecordsWritten, NEW a \in Channels, NEW x, NEW raw, NEW cal,
           attenuator_set(a, x, raw, cal)
    PROVE  RecordsWritten'
<1> DEFINE v == Clamped(IF raw THEN x ELSE Polynomial(cal.db2volt, x))
<1>1. /\ voltage' = [voltage EXCEPT ![a] = v]
      /\ \/ dac' = [dac EXCEPT ![a] = Code(v)] /\ unwritten' = unwritten \ {a}
         \/ UNCHANGED dac /\ unwritten' = unwritten \cup {a}
  BY DEF attenuator_set
<1> HIDE DEF v
<1>2. ASSUME NEW b \in Channels, b \notin unwritten' PROVE Code(voltage'[b]) = dac'[b]
  <2>1. CASE b = a
    <3>1. dac' = [dac EXCEPT ![a] = Code(v)]
      BY <1>1, <1>2, <2>1
    <3>2. voltage'[b] = v /\ dac'[b] = Code(v)
      BY <1>1, <2>1, <3>1 DEF RecordsWritten
    <3> QED  BY <3>2
  <2>2. CASE b # a
    <3>1. voltage'[b] = voltage[b] /\ dac'[b] = dac[b] /\ b \notin unwritten
      BY <1>1, <1>2, <2>2 DEF RecordsWritten
    <3> QED  BY <3>1 DEF RecordsWritten
  <2> QED  BY <2>1, <2>2
<1>3. DOMAIN voltage' = Channels /\ DOMAIN dac' = Channels
  BY <1>1 DEF RecordsWritten
<1> QED  BY <1>2, <1>3 DEF RecordsWritten

\* The output of every written channel is the code of its record after every step.
LEMMA OutputStep == OutputInv /\ [InstrumentNext]_instrumentVars => OutputInv'
<1> SUFFICES ASSUME OutputInv, [InstrumentNext]_instrumentVars PROVE OutputInv'
  OBVIOUS
<1> USE DEF OutputInv
<1>1. ASSUME UNCHANGED attenVars PROVE RecordsWritten'
  BY <1>1 DEF attenVars, RecordsWritten
<1>2. ASSUME reply'.kind # "value", step' = "none" \/ pc' = "idle" PROVE ReportCurrent'
  BY <1>2 DEF ReportCurrent, ExecutorHeld
<1>3. CASE Dispatch
  BY <1>1, <1>3 DEF Dispatch, ReportCurrent, ExecutorHeld
<1>4. CASE UNCHANGED instrumentVars
  BY <1>1, <1>4 DEF instrumentVars, vars, attenVars, ReportCurrent, ExecutorHeld
<1>5. CASE InstrumentBoot
  <2>1. pc = "boot" /\ step' = step /\ reply' = reply /\ setup_attenuators
    BY <1>5 DEF InstrumentBoot, Boot
  <2>2. step = "none"
    BY <2>1 DEF ReportCurrent, ExecutorHeld
  <2>3. RecordsWritten'
    BY <2>1 DEF setup_attenuators, RecordsWritten
  <2> QED  BY <2>1, <2>2, <2>3 DEF ReportCurrent, ExecutorHeld
<1>6. CASE InstrumentReset \/ CallReturned
  <2>1. UNCHANGED attenVars /\ step' = "none" /\ reply' = NoReply
    BY <1>6 DEF InstrumentReset, CallReturned
  <2> QED  BY <1>1, <1>2, <2>1 DEF NoReply
<1>7. CASE LasersBoot \/ LaserPower \/ wait_laser_boot
  <2>1. /\ UNCHANGED attenVars /\ UNCHANGED <<pc, reply>>
        /\ step' = step \/ (pc = "idle" /\ step # "answered")
    BY <1>7 DEF LasersBoot, LaserPower, wait_laser_boot, Call, vars, ReportCurrent, ExecutorHeld
  <2>2. UNCHANGED voltage
    BY <2>1 DEF attenVars
  <2> QED  BY <1>1, <2>1, <2>2 DEF ReportCurrent, ExecutorHeld
<1>8. CASE LaserRefused \/ LaserAccess \/ MaimanGet
  <2>1. UNCHANGED attenVars /\ pc' = "idle"
    BY <1>8 DEF LaserRefused, LaserAccess, MaimanGet, Call, vars, ReportCurrent, ExecutorHeld
  <2>2. reply'.kind # "value"
    BY <1>8 DEF LaserRefused, LaserAccess, MaimanGet, Returns, Reply
  <2> QED  BY <1>1, <1>2, <2>1, <2>2
<1>9. CASE AttenRefused \/ GetCoefficients
  <2>1. UNCHANGED attenVars /\ pc' = "idle"
    BY <1>9 DEF AttenRefused, GetCoefficients, AttenReturns, Call, vars
  <2>2. reply'.kind # "value"
    <3>1. CASE AttenRefused
      BY <3>1 DEF AttenRefused, AttenReturns, Returns, Reply
    <3>2. CASE GetCoefficients
      <4>1. \E a \in Addressed : reply' = [kind |-> "coefficients", of |-> calibration[a]]
        BY <3>2 DEF GetCoefficients, AttenReturns, Returns
      <4> QED  BY <4>1
    <3> QED  BY <1>9, <3>1, <3>2
  <2> QED  BY <1>1, <1>2, <2>1, <2>2
<1>10. CASE GetValue
  <2>1. PICK a \in Addressed :
          /\ step' = "answered" /\ pc' = "idle"
          /\ reply' = [kind |-> "value", channel |-> a,
                       voltage |-> attenuator_get(a, TRUE), db |-> attenuator_get(a, FALSE)]
    BY <1>10 DEF GetValue, AttenReturns, Returns, Call, vars
  <2>2. a \in Channels
    BY InstrumentAssumption
  <2>3. attenuator_get(a, TRUE) = voltage[a]
    BY DEF attenuator_get
  <2>4. UNCHANGED attenVars
    BY <1>10 DEF GetValue
  <2>5. UNCHANGED voltage
    BY <2>4 DEF attenVars
  <2> QED  BY <1>1, <2>1, <2>2, <2>3, <2>4, <2>5 DEF ReportCurrent, ExecutorHeld
<1>11. CASE SetCoefficients \/ SetValue
  <2>1. pc' = "idle" /\ reply' = [kind |-> "OK"]
    BY <1>11 DEF SetCoefficients, SetValue, AttenReturns, Returns, Reply, Call, vars
  <2>2. \E a \in Addressed : \E x, raw, cal : attenuator_set(a, x, raw, cal)
    BY <1>11 DEF SetCoefficients, SetValue
  <2>3. RecordsWritten'
    BY <2>2, InstrumentAssumption, AttenuatorSetFact
  <2> QED  BY <1>2, <2>1, <2>3
<1> QED  BY <1>3, <1>4, <1>5, <1>6, <1>7, <1>8, <1>9, <1>10, <1>11 DEF InstrumentNext

\* The voltage that atten_setting_get reports is what the DAC puts out, for every
\* number of channels, calibration and range of the DAC, however often it is
\* recalibrated or reset, unless the last write failed or none was made yet.
THEOREM ReportsAreOutputs == InstrumentSpec => []ReportIsOutput
<1>1. InstrumentInit => OutputInv
  BY DEF InstrumentInit, AttenuatorInit, NoReply, OutputInv, RecordsWritten, ReportCurrent, ExecutorHeld
<1>2. OutputInv => ReportIsOutput
  BY DEF OutputInv, RecordsWritten, ReportCurrent, ReportIsOutput
<1> QED  BY <1>1, <1>2, OutputStep, PTL DEF InstrumentSpec

----------------------------------------------------------------------------
(***************************************************************************)
(* Type correctness.                                                       *)
(***************************************************************************)

\* Polynomials with integer coefficients have integer values.
LEMMA PolynomialType ==
    ASSUME NEW c \in [1..3 -> Int], NEW x \in Int
    PROVE  Polynomial(c, x) \in Int
<1>1. c[1] \in Int /\ c[2] \in Int /\ c[3] \in Int
  OBVIOUS
<1>2. \A p, q \in Int : p * q \in Int
  OBVIOUS
<1>3. c[2] * x \in Int /\ c[3] * x \in Int
  BY <1>1, <1>2
<1>4. c[3] * x * x \in Int
  BY <1>2, <1>3
<1> QED  BY <1>1, <1>3, <1>4 DEF Polynomial

\* What is recorded lies between the ends of the DAC's range.
LEMMA ClampedType ==
    ASSUME NEW v \in Int
    PROVE  Clamped(v) \in 0..MAX_VOLTAGE
  BY AttenuatorAssumption DEF Clamped

\* No voltage that is recorded asks for more than the DAC has.
LEMMA CodeType ==
    ASSUME NEW v \in 0..MAX_VOLTAGE
    PROVE  Code(v) \in 0..DAC_MAX_CODE
<1>1. /\ v \in Nat /\ v <= MAX_VOLTAGE
      /\ MAX_VOLTAGE \in Nat /\ MAX_VOLTAGE > 0 /\ DAC_MAX_CODE \in Nat
  BY AttenuatorAssumption
<1>2. /\ v * DAC_MAX_CODE \in Nat
      /\ v * DAC_MAX_CODE <= MAX_VOLTAGE * DAC_MAX_CODE
      /\ MAX_VOLTAGE * DAC_MAX_CODE \in Nat
  BY <1>1
<1>3. \A x \in Nat, m \in Nat, d \in Nat : m > 0 /\ x <= m * d => x \div m \in 0..d
  <2> SUFFICES ASSUME NEW x \in Nat, NEW m \in Nat, NEW d \in Nat, m > 0, x <= m * d
               PROVE  x \div m \in 0..d
    OBVIOUS
  <2>1. x \div m \in Int /\ m * (x \div m) <= x /\ x < m * (x \div m) + m
    OBVIOUS
  <2>2. ASSUME NEW k \in Int, m * k <= x, x < m * k + m PROVE k \in 0..d
    <3>1. k < 0 => m * k <= -m
      OBVIOUS
    <3>2. k > d => m * k >= m * d + m
      OBVIOUS
    <3>3. m * k \in Int /\ m * d \in Int
      OBVIOUS
    <3> QED  BY <2>2, <3>1, <3>2, <3>3
  <2> QED  BY <2>1, <2>2
<1> QED  BY <1>1, <1>2, <1>3 DEF Code

\* attenuator_set keeps the records and outputs in range, whether or not its write
\* to the DAC succeeds.
LEMMA AttenuatorSetType ==
    ASSUME AttenuatorTypeOK, NEW a \in Channels, NEW x \in Int, NEW raw \in BOOLEAN,
           NEW cal \in CalibrationRecords, attenuator_set(a, x, raw, cal)
    PROVE  /\ voltage' \in [Channels -> 0..MAX_VOLTAGE]
           /\ dac' \in [Channels -> 0..DAC_MAX_CODE]
           /\ unwritten' \subseteq Channels
<1> DEFINE v == Clamped(IF raw THEN x ELSE Polynomial(cal.db2volt, x))
<1>1. v \in 0..MAX_VOLTAGE
  <2>1. cal.db2volt \in [1..3 -> Int]
    BY DEF CalibrationRecords
  <2>2. Polynomial(cal.db2volt, x) \in Int
    BY <2>1, PolynomialType
  <2>3. (IF raw THEN x ELSE Polynomial(cal.db2volt, x)) \in Int
    BY <2>2
  <2> QED  BY <2>3, ClampedType
<1>2. /\ voltage' = [voltage EXCEPT ![a] = v]
      /\ \/ dac' = [dac EXCEPT ![a] = Code(v)] /\ unwritten' = unwritten \ {a}
         \/ UNCHANGED dac /\ unwritten' = unwritten \cup {a}
  BY DEF attenuator_set
<1> HIDE DEF v
<1>3. Code(v) \in 0..DAC_MAX_CODE
  BY <1>1, CodeType
<1> QED  BY <1>1, <1>2, <1>3 DEF AttenuatorTypeOK

\* What a failing access adds to faults stays within its bound.
LEMMA PinType ==
    ASSUME TypeOK
    PROVE  /\ \A n \in 0..MaxFaults, level \in BOOLEAN : WritePin(level, n) =>
                 power' \in BOOLEAN /\ missed' \in BOOLEAN /\ faults' \in 0..MaxFaults
           /\ \A n \in 0..MaxFaults : PinKept(n) =>
                 power' \in BOOLEAN /\ missed' \in BOOLEAN /\ faults' \in 0..MaxFaults
<1>1. power \in BOOLEAN /\ faults \in 0..MaxFaults
  BY DEF TypeOK
<1>2. \A n \in 0..MaxFaults : n < MaxFaults => n + 1 \in 0..MaxFaults
  BY DispatchAssumption
<1>3. ASSUME NEW n \in 0..MaxFaults, NEW level \in BOOLEAN, WritePin(level, n)
      PROVE  power' \in BOOLEAN /\ missed' \in BOOLEAN /\ faults' \in 0..MaxFaults
  <2>1. power' = level \/ power' = power
    BY <1>3 DEF WritePin
  <2>2. missed' = FALSE \/ missed' = TRUE
    BY <1>3 DEF WritePin
  <2>3. faults' \in 0..MaxFaults
    BY <1>2, <1>3 DEF WritePin
  <2> QED  BY <1>1, <2>1, <2>2, <2>3
<1>4. ASSUME NEW n \in 0..MaxFaults, PinKept(n)
      PROVE  power' \in BOOLEAN /\ missed' \in BOOLEAN /\ faults' \in 0..MaxFaults
  <2>1. missed' = (n # faults)
    BY <1>4 DEF PinKept
  <2>2. missed' \in BOOLEAN
    BY <2>1
  <2> QED  BY <1>1, <1>4, <2>2 DEF PinKept
<1> QED  BY <1>3, <1>4

\* The same for the two operations on the pin.
LEMMA PowerType ==
    ASSUME TypeOK, disable_power \/ \E switched \in BOOLEAN : enable_power(switched)
    PROVE  power' \in BOOLEAN /\ missed' \in BOOLEAN /\ faults' \in 0..MaxFaults
  BY PinType DEF disable_power, enable_power

\* The executor holds a command exactly while it serves and answers one.
LEMMA CommandType ==
    ASSUME TypeOK, CommandStep
    PROVE  TypeOK'
<1>1. \A c \in Commands : c # NoCommand
  <2>1. \A k \in Keys : k # <<>>
    BY DEF Keys, DocumentedKeys, OtherKey
  <2> QED  BY <2>1 DEF Commands, NoCommand
<1>2. CASE Command
  BY <1>1, <1>2 DEF TypeOK, Command
<1>3. CASE Answered
  BY <1>3 DEF TypeOK, Answered, pinVars, Answers
<1>4. ASSUME NEW a \in Answers \ {"none"}, pc = "serve", Answer(a),
             power' \in BOOLEAN, asked' \in BOOLEAN, missed' \in BOOLEAN, faults' \in 0..MaxFaults
      PROVE  TypeOK'
  BY <1>4 DEF TypeOK, Answer
<1>5. UNCHANGED pinVars => /\ power' \in BOOLEAN /\ asked' \in BOOLEAN
                           /\ missed' \in BOOLEAN /\ faults' \in 0..MaxFaults
  BY DEF TypeOK, pinVars
<1>6. CASE Unknown \/ Unsupported \/ KeyPairHandlers \/ Memsroute \/ Malformed
  <2>1. /\ pc = "serve" /\ UNCHANGED pinVars
        /\ \E a \in Answers \ {"none"} : Answer(a)
    BY <1>6 DEF Unknown, Unsupported, KeyPairHandlers, Memsroute, Malformed, Called, Answers
  <2> QED  BY <1>4, <1>5, <2>1
<1>7. CASE PowerGet
  <2>1. /\ pc = "serve" /\ UNCHANGED <<power, asked, missed>>
        /\ \E value \in BOOLEAN : /\ power_enabled(value, faults')
                                  /\ Answer(IF value THEN "on" ELSE "off")
    BY <1>7 DEF PowerGet, Called
  <2>2. faults' \in 0..MaxFaults
    BY <2>1, DispatchAssumption DEF power_enabled, TypeOK
  <2>3. \E a \in Answers \ {"none"} : Answer(a)
    BY <2>1 DEF Answers
  <2>4. power' \in BOOLEAN /\ asked' \in BOOLEAN /\ missed' \in BOOLEAN
    BY <2>1 DEF TypeOK
  <2> QED  BY <1>4, <2>1, <2>2, <2>3, <2>4
<1>8. CASE PowerSet
  <2>1. /\ pc = "serve" /\ asked' \in BOOLEAN /\ Answer("OK")
        /\ disable_power \/ \E switched \in BOOLEAN : enable_power(switched)
    BY <1>8 DEF PowerSet, Called
  <2>2. "OK" \in Answers \ {"none"}
    BY DEF Answers
  <2> QED  BY <1>4, <2>1, <2>2, PowerType
<1>9. CASE SleepSet
  <2>1. pc = "serve" /\ Answer("OK") /\ "OK" \in Answers \ {"none"}
    BY <1>9 DEF SleepSet, Called, Answers
  <2>2. \/ disable_power /\ asked' = FALSE
        \/ UNCHANGED pinVars
    BY <1>9 DEF SleepSet
  <2> QED  BY <1>4, <1>5, <2>1, <2>2, PowerType
<1> QED  BY <1>2, <1>3, <1>6, <1>7, <1>8, <1>9 DEF CommandStep

\* The zeroed memory of the controller is of the types.
LEMMA InitType == InstrumentInit => InstrumentTypeOK
<1> SUFFICES ASSUME InstrumentInit PROVE InstrumentTypeOK
  OBVIOUS
<1>1. TypeOK
  <2>1. /\ pc = "boot" /\ cmd = NoCommand /\ answer = "none"
        /\ power \in BOOLEAN /\ asked = FALSE /\ missed = TRUE /\ faults = 0
    BY DEF InstrumentInit, Init
  <2>2. 0 \in 0..MaxFaults
    BY DispatchAssumption
  <2>3. asked \in BOOLEAN /\ missed \in BOOLEAN
    BY <2>1
  <2> QED  BY <2>1, <2>2, <2>3 DEF TypeOK, Answers
<1>2. AttenuatorTypeOK
  <2>1. NoCalibration \in CalibrationRecords
    BY DEF NoCalibration, CalibrationRecords
  <2>2. 0 \in 0..MAX_VOLTAGE
    BY AttenuatorAssumption
  <2> QED  BY <2>1, <2>2 DEF InstrumentInit, AttenuatorInit, AttenuatorTypeOK
<1>3. booted = FALSE /\ eager \in BOOLEAN /\ step = "none" /\ reply = NoReply
  BY <1>1 DEF InstrumentInit, TypeOK
<1> QED  BY <1>1, <1>2, <1>3 DEF InstrumentTypeOK

\* The records and outputs of the attenuators in a step that changes them.
LEMMA AttenuatorType ==
    ASSUME InstrumentTypeOK, setup_attenuators \/ SetCoefficients \/ SetValue
    PROVE  AttenuatorTypeOK'
<1> USE DEF InstrumentTypeOK
<1>1. CASE setup_attenuators
  <2>1. NoCalibration \in CalibrationRecords
    BY DEF NoCalibration, CalibrationRecords
  <2>2. 0 \in 0..MAX_VOLTAGE
    BY AttenuatorAssumption
  <2> QED  BY <1>1, <2>1, <2>2 DEF setup_attenuators, AttenuatorTypeOK
<1>2. CASE SetCoefficients
  <2>1. PICK a \in Addressed, new \in Calibrations :
           /\ calibration' = [calibration EXCEPT ![a] = new]
           /\ attenuator_set(a, attenuator_get(a, FALSE), FALSE, new)
    BY <1>2 DEF SetCoefficients
  <2>2. a \in Channels /\ new \in CalibrationRecords
    BY InstrumentAssumption
  <2>3. attenuator_get(a, FALSE) \in Int
    <3>1. calibration[a].volt2db \in [1..3 -> Int] /\ voltage[a] \in Int
      BY <2>2, AttenuatorAssumption DEF AttenuatorTypeOK, CalibrationRecords
    <3> QED  BY <3>1, PolynomialType DEF attenuator_get
  <2> QED  BY <2>1, <2>2, <2>3, AttenuatorSetType DEF AttenuatorTypeOK
<1>3. CASE SetValue
  <2>1. PICK a \in Addressed, v \in Voltages : attenuator_set(a, v, TRUE, calibration[a])
    BY <1>3 DEF SetValue
  <2>2. a \in Channels /\ v \in Int /\ calibration[a] \in CalibrationRecords
    BY InstrumentAssumption DEF AttenuatorTypeOK
  <2>3. calibration' = calibration
    BY <1>3 DEF SetValue
  <2> QED  BY <2>1, <2>2, <2>3, AttenuatorSetType DEF AttenuatorTypeOK
<1> QED  BY <1>1, <1>2, <1>3

\* ... and every handler and reset keeps to them.
LEMMA NextType == InstrumentTypeOK /\ [InstrumentNext]_instrumentVars => InstrumentTypeOK'
<1> SUFFICES ASSUME InstrumentTypeOK, [InstrumentNext]_instrumentVars PROVE InstrumentTypeOK'
  OBVIOUS
<1>1. ASSUME UNCHANGED vars PROVE TypeOK'
  BY <1>1 DEF vars, TypeOK, InstrumentTypeOK
<1>2. ASSUME UNCHANGED attenVars PROVE AttenuatorTypeOK'
  BY <1>2 DEF attenVars, AttenuatorTypeOK, InstrumentTypeOK
<1>3. CASE UNCHANGED instrumentVars
  BY <1>1, <1>2, <1>3 DEF instrumentVars, InstrumentTypeOK, vars
<1>4. CASE Dispatch
  <2>1. TypeOK'
    BY <1>4, CommandType DEF Dispatch, CommandStep, InstrumentTypeOK
  <2>2. UNCHANGED <<attenVars, step, reply>> /\ PowerFollowed /\ step = "none"
    BY <1>4 DEF Dispatch
  <2>3. power' \in BOOLEAN
    BY <2>1 DEF TypeOK
  <2> QED  BY <1>2, <2>1, <2>2, <2>3 DEF InstrumentTypeOK, PowerFollowed, TypeOK
<1>5. CASE InstrumentBoot
  <2>1. /\ pc = "boot" /\ pc' = "idle" /\ WritePin(FALSE, faults) /\ asked' = FALSE
        /\ UNCHANGED <<cmd, answer>>
    BY <1>5 DEF InstrumentBoot, Boot
  <2>2. TypeOK'
    BY <2>1, PinType DEF TypeOK, InstrumentTypeOK
  <2>3. AttenuatorTypeOK'
    BY <1>5, AttenuatorType DEF InstrumentBoot
  <2>4. PowerFollowed /\ UNCHANGED <<step, reply>> /\ step = "none"
    BY <1>5, <2>1 DEF InstrumentBoot, InstrumentTypeOK
  <2>5. power' \in BOOLEAN
    BY <2>2 DEF TypeOK
  <2> QED  BY <2>2, <2>3, <2>4, <2>5 DEF InstrumentTypeOK, PowerFollowed, TypeOK
<1>6. CASE InstrumentReset
  <2>1. TypeOK'
    BY <1>6 DEF InstrumentReset, Reset, TypeOK, InstrumentTypeOK, Answers
  <2>2. power' \in BOOLEAN
    BY <2>1 DEF TypeOK
  <2>3. /\ booted' = (booted /\ power') /\ eager' = (power' /\ ~booted')
        /\ step' = "none" /\ reply' = NoReply /\ UNCHANGED attenVars
    BY <1>6 DEF InstrumentReset
  <2> QED  BY <1>2, <2>1, <2>2, <2>3 DEF InstrumentTypeOK, TypeOK
<1>7. CASE LaserPower
  <2>1. /\ pc = "idle" /\ step = "none" /\ step' \in {"wait", "access"} /\ asked' = TRUE
        /\ \E switched \in BOOLEAN : enable_power(switched)
        /\ booted' = (booted /\ power') /\ eager' = (power' /\ eager)
        /\ UNCHANGED <<pc, cmd, answer, attenVars, reply>>
    BY <1>7 DEF LaserPower, Call
  <2>2. power' \in BOOLEAN /\ missed' \in BOOLEAN /\ faults' \in 0..MaxFaults
    BY <2>1, PowerType DEF InstrumentTypeOK
  <2>3. TypeOK'
    BY <2>1, <2>2 DEF TypeOK, InstrumentTypeOK
  <2> QED  BY <1>2, <2>1, <2>2, <2>3 DEF InstrumentTypeOK, TypeOK
<1>8. CASE LasersBoot \/ wait_laser_boot
  <2>1. /\ UNCHANGED <<vars, attenVars, reply>>
        /\ step' = step \/ (step = "wait" /\ step' = "access")
    BY <1>8 DEF LasersBoot, wait_laser_boot
  <2>2. eager' \in BOOLEAN
    <3>1. eager' = FALSE
      BY <1>8 DEF LasersBoot, wait_laser_boot
    <3> QED  BY <3>1
  <2>3. booted' \in BOOLEAN /\ (booted' => power')
    <3>1. power' = power /\ power \in BOOLEAN
      BY <2>1 DEF vars, InstrumentTypeOK, TypeOK
    <3>2. (booted' = TRUE /\ power) \/ booted' = power
      BY <1>8 DEF LasersBoot, wait_laser_boot
    <3>3. CASE booted' = TRUE /\ power
      BY <3>1, <3>3
    <3>4. CASE booted' = power
      BY Zenon, <3>1, <3>4
    <3> QED  BY <3>2, <3>3, <3>4
  <2> QED  BY <1>1, <1>2, <2>1, <2>2, <2>3 DEF InstrumentTypeOK, vars
<1>9. ASSUME UNCHANGED <<vars, booted, eager>>, pc = "idle",
             AttenuatorTypeOK', step' = "answered" /\ reply'.kind # "none"
      PROVE  InstrumentTypeOK'
  BY <1>1, <1>9 DEF InstrumentTypeOK, vars, NoReply
<1>10. CASE LaserRefused \/ LaserAccess \/ MaimanGet
  <2>1. /\ UNCHANGED <<vars, attenVars, booted, eager>> /\ pc = "idle" /\ step' = "answered"
    BY <1>10 DEF LaserRefused, LaserAccess, MaimanGet, Call, Returns, InstrumentTypeOK
  <2>2. reply'.kind # "none"
    BY <1>10 DEF LaserRefused, LaserAccess, MaimanGet, Returns, Reply
  <2> QED  BY <1>2, <1>9, <2>1, <2>2
<1>11. CASE AttenRefused \/ GetCoefficients \/ GetValue \/ SetCoefficients \/ SetValue
  <2>1. \E r : AttenReturns(r) /\ r.kind # "none"
    <3>1. CASE AttenRefused
      BY <3>1 DEF AttenRefused, Reply
    <3>2. CASE SetCoefficients \/ SetValue
      <4>1. AttenReturns(Reply("OK"))
        BY <3>2 DEF SetCoefficients, SetValue
      <4> QED  BY <4>1 DEF Reply
    <3>3. CASE GetCoefficients
      BY <3>3 DEF GetCoefficients
    <3>4. CASE GetValue
      BY <3>4 DEF GetValue
    <3> QED  BY <1>11, <3>1, <3>2, <3>3, <3>4
  <2>2. /\ UNCHANGED <<vars, booted, eager>> /\ pc = "idle"
        /\ step' = "answered" /\ reply'.kind # "none"
    BY <2>1 DEF AttenReturns, Call, Returns
  <2>3. AttenuatorTypeOK'
    BY <1>2, <1>11, AttenuatorType DEF AttenRefused, GetCoefficients, GetValue
  <2> QED  BY <1>9, <2>2, <2>3
<1>12. CASE CallReturned
  BY <1>1, <1>2, <1>12 DEF CallReturned, InstrumentTypeOK, vars
<1> QED
  BY <1>3, <1>4, <1>5, <1>6, <1>7, <1>8, <1>10, <1>11, <1>12 DEF InstrumentNext

\* A handler called with a slash in its key has the executor to itself and an answer
\* exactly when it has one to give, lasers that are up have power, and whatever the
\* calibrations make of a value, what is recorded and put out is within the DAC.
THEOREM TypeCorrect == InstrumentSpec => []InstrumentTypeOK
  BY InitType, NextType, PTL DEF InstrumentSpec

----------------------------------------------------------------------------
\* New coefficients keep the attenuation: atten_setting_set reads it by the old ones
\* before it replaces them, and after a reset there is nothing to be kept.
THEOREM RecalibrationKeeps == InstrumentSpec => AttenuationKept
<1> DEFINE Kept(a) ==
        LET db  == attenuator_get(a, FALSE)
            new == calibration'[a]
            v   == Polynomial(new.db2volt, db)
        IN  /\ new # calibration[a]
            /\ v \in 0..MAX_VOLTAGE /\ Polynomial(new.volt2db, v) = db
            => attenuator_get(a, FALSE)' = db
<1>1. InstrumentTypeOK /\ [InstrumentNext]_instrumentVars => [\A a \in Channels : Kept(a)]_instrumentVars
  <2> SUFFICES ASSUME InstrumentTypeOK, InstrumentNext, NEW a \in Channels PROVE Kept(a)
    OBVIOUS
  <2>1. DOMAIN calibration = Channels /\ DOMAIN voltage = Channels
    BY DEF InstrumentTypeOK, AttenuatorTypeOK
  <2>2. attenuator_get(a, FALSE)' = Polynomial(calibration'[a].volt2db, voltage'[a])
    BY DEF attenuator_get
  <2>3. CASE UNCHANGED calibration
    BY <2>3
  <2>4. CASE InstrumentBoot
    <3>1. calibration'[a] = NoCalibration /\ voltage'[a] = 0
      BY <2>4 DEF InstrumentBoot, setup_attenuators
    <3>2. \A x \in Int : Polynomial(NoCalibration.volt2db, x) = 0
      BY DEF Polynomial, NoCalibration
    <3>3. attenuator_get(a, FALSE)' = 0
      <4>1. Polynomial(NoCalibration.volt2db, 0) = 0
        BY <3>2
      <4> QED  BY <2>2, <3>1, <4>1
    <3>4. \A v \in 0..MAX_VOLTAGE : Polynomial(NoCalibration.volt2db, v) = 0
      BY <3>2, AttenuatorAssumption
    <3> QED  BY <3>1, <3>3, <3>4
  <2>5. CASE SetCoefficients
    <3>1. PICK b \in Addressed, new \in Calibrations :
             /\ calibration' = [calibration EXCEPT ![b] = new]
             /\ attenuator_set(b, attenuator_get(b, FALSE), FALSE, new)
      BY <2>5 DEF SetCoefficients
    <3>2. CASE b # a
      BY <2>1, <3>1, <3>2
    <3>3. CASE b = a
      <4>1. /\ calibration'[a] = new
            /\ voltage'[a] = Clamped(Polynomial(new.db2volt, attenuator_get(a, FALSE)))
        BY <2>1, <3>1, <3>3 DEF attenuator_set
      <4>2. \A v \in 0..MAX_VOLTAGE : Clamped(v) = v
        BY AttenuatorAssumption DEF Clamped
      <4> QED  BY <2>2, <4>1, <4>2
    <3> QED  BY <3>2, <3>3
  <2> QED
    BY <2>3, <2>4, <2>5
    DEF InstrumentNext, InstrumentReset, Dispatch, LasersBoot, LaserRefused, LaserPower,
        wait_laser_boot, LaserAccess, MaimanGet, AttenRefused, GetCoefficients, GetValue,
        SetValue, CallReturned, attenVars
<1>2. InstrumentSpec => [][\A a \in Channels : Kept(a)]_instrumentVars
  BY <1>1, TypeCorrect, PTL DEF InstrumentSpec
<1> QED  BY <1>2 DEF AttenuationKept

=============================================================================
