------------------------------ MODULE Instruments ------------------------------
(***************************************************************************)
(* The executor thread with everything it works on: the power pin          *)
(* (CommandDispatch), the laser controllers behind it (Maiman) and the     *)
(* attenuators (Attenuator).                                               *)
(*                                                                         *)
(* laser_setting_get, laser_setting_set, atten_setting_get and             *)
(* atten_setting_set are exported by command.h and are modelled here as    *)
(* called with a key of the form they parse, name/setting.  The keys of    *)
(* dispatch_table have no slash, so dispatch_command itself only calls     *)
(* them with keys they refuse (KeyPairHandlers in CommandDispatch).  A     *)
(* handler is one step here but for the wait for the lasers to boot,       *)
(* during which the watchdog may reset the controller: nothing else        *)
(* touches the pin or the attenuators.                                     *)
(***************************************************************************)
EXTENDS CommandDispatch, Attenuator, Maiman

CONSTANTS
    Names,          \* the names behind laser and atten in the requests
    Calibrations,   \* calibrations that requests may bring
    Voltages        \* voltages that requests may ask for

VARIABLES
    step,           \* of the handler that was called with a slash in its key
    reply,          \* its answer
    eager           \* history: were the lasers switched on without a wait?

instrumentVars == <<vars, attenVars, booted, step, reply, eager>>

\* laser_t: LASER_1028_Y and LASER_1270_J are the same number.
LASER_UNKNOWN == 6

\* get_laser_channel tests for 1430yj twice and never for 1430hk.
get_laser_channel(name) ==
    CASE name \in {"1028y", "1270j"} -> 1
      [] name = "1430yj" -> 2
      [] name = "1510h" -> 4
      [] name = "2330k" -> 5
      [] OTHER -> LASER_UNKNOWN

\* The channels that requests can address; for lasers, the Modbus node.
Addressed == {get_laser_channel(n) : n \in Names} \ {LASER_UNKNOWN}

ASSUME InstrumentAssumption ==
    /\ Addressed \subseteq Channels
    /\ Calibrations \subseteq CalibrationRecords
    /\ Voltages \subseteq Int

NoReply     == [kind |-> "none"]
Reply(kind) == [kind |-> kind]

InstrumentTypeOK ==
    /\ TypeOK /\ AttenuatorTypeOK
    /\ booted \in BOOLEAN /\ eager \in BOOLEAN
    /\ booted => power
    /\ step \in {"none", "wait", "access", "answered"}
    /\ step # "none" => pc = "idle"
    /\ step = "answered" <=> reply # NoReply

InstrumentInit ==
    /\ Init /\ AttenuatorInit
    /\ booted = FALSE /\ eager = power
    /\ step = "none" /\ reply = NoReply

----------------------------------------------------------------------------
(***************************************************************************)
(* The lasers lose what they are doing with their power, and need time     *)
(* when they get it: less than wait_laser_boot gives them.                 *)
(***************************************************************************)
PowerFollowed ==
    /\ booted' = (booted /\ power')
    /\ eager' = (power' /\ (eager \/ ~power))

LasersBoot ==
    /\ power /\ ~booted
    /\ booted' = TRUE /\ eager' = FALSE
    /\ UNCHANGED <<vars, attenVars, step, reply>>

Returns(r) == step' = "answered" /\ reply' = r

Call == pc = "idle" /\ step = "none"

----------------------------------------------------------------------------
(***************************************************************************)
(* laser_setting_get and laser_setting_set.                                *)
(***************************************************************************)
\* The value to set is missing, or there is no such laser or register.
LaserRefused ==
    /\ Call
    /\ Returns(Reply("error"))
    /\ UNCHANGED <<vars, attenVars, booted, eager>>

\* Mutant of LaserPower: the result of enable_power is taken for its opposite.
LaserPowerInverted ==
    /\ Call
    /\ Addressed # {}
    /\ \E switched \in BOOLEAN :
          /\ enable_power(switched)
          /\ step' = IF switched THEN "access" ELSE "wait"
    /\ asked' = TRUE
    /\ booted' = (booted /\ power') /\ eager' = (power' /\ eager)
    /\ UNCHANGED <<pc, cmd, answer, attenVars, reply>>

\* The lasers are switched on, and waited for if they were not on.
LaserPower ==
    /\ Call
    /\ Addressed # {}
    /\ \E switched \in BOOLEAN :
          /\ enable_power(switched)
          /\ step' = IF switched THEN "wait" ELSE "access"
    /\ asked' = TRUE
    /\ booted' = (booted /\ power') /\ eager' = (power' /\ eager)
    /\ UNCHANGED <<pc, cmd, answer, attenVars, reply>>

wait_laser_boot ==
    /\ step = "wait"
    /\ step' = "access"
    /\ booted' = power /\ eager' = FALSE
    /\ UNCHANGED <<vars, attenVars, reply>>

\* maiman_read_u16 or maiman_write_u16.
LaserAccess ==
    /\ step = "access"
    /\ \E ok \in BOOLEAN :
          /\ Transfer(ok)
          /\ Returns(Reply(IF ok THEN "OK" ELSE "error"))
    /\ UNCHANGED <<vars, attenVars, booted, eager>>

\* maiman_get_tec_temperature_measured and the like, maiman_get_serial_number and
\* maiman_get_raw_status, which no handler calls: they read without switching
\* anything on.
MaimanGet ==
    /\ Call
    /\ \E q \in Quantities, w \in Words, ok \in BOOLEAN :
          /\ Transfer(ok)
          /\ Returns([kind |-> "reading", quantity |-> q, failed |-> ~ok,
                      value |-> IF ok THEN Reading(q, w) ELSE FailureValue(q)])
    /\ UNCHANGED <<vars, attenVars, booted, eager>>

----------------------------------------------------------------------------
(***************************************************************************)
(* atten_setting_get and atten_setting_set.  strcasecmp is used as if it   *)
(* returned true on equality: "coeff" selects the value, every other       *)
(* setting the coefficients, and the branch for "valuedb" is never taken.  *)
(***************************************************************************)
AttenReturns(r) ==
    /\ Call
    /\ Returns(r)
    /\ UNCHANGED <<vars, booted, eager>>

\* There is no such attenuator, or the payload cannot be parsed.
AttenRefused ==
    /\ AttenReturns(Reply("error"))
    /\ UNCHANGED attenVars

\* For every setting but "coeff".
GetCoefficients ==
    /\ \E a \in Addressed : AttenReturns([kind |-> "coefficients", of |-> calibration[a]])
    /\ UNCHANGED attenVars

\* For the setting "coeff".
GetValue ==
    /\ \E a \in Addressed :
          AttenReturns([kind |-> "value", channel |-> a,
                        voltage |-> attenuator_get(a, TRUE), db |-> attenuator_get(a, FALSE)])
    /\ UNCHANGED attenVars

\* Mutant of SetCoefficients: the attenuation is read with the new coefficients.
SetCoefficientsFirst ==
    /\ \E a \in Addressed, new \in Calibrations :
          /\ calibration' = [calibration EXCEPT ![a] = new]
          /\ attenuator_set(a, Polynomial(new.volt2db, voltage[a]), FALSE, new)
    /\ AttenReturns(Reply("OK"))

\* For every setting but "coeff": the attenuation by the old coefficients is set
\* anew by the new ones; the result of attenuator_set is ignored.
SetCoefficients ==
    /\ \E a \in Addressed, new \in Calibrations :
          /\ calibration' = [calibration EXCEPT ![a] = new]
          /\ attenuator_set(a, attenuator_get(a, FALSE), FALSE, new)
    /\ AttenReturns(Reply("OK"))

\* For the setting "coeff".
SetValue ==
    /\ \E a \in Addressed, v \in Voltages : attenuator_set(a, v, TRUE, calibration[a])
    /\ AttenReturns(Reply("OK"))
    /\ UNCHANGED calibration

----------------------------------------------------------------------------
\* The answer of the handler goes to its caller.
CallReturned ==
    /\ step = "answered"
    /\ step' = "none" /\ reply' = NoReply
    /\ UNCHANGED <<vars, attenVars, booted, eager>>

\* The commands of CommandDispatch.
Dispatch ==
    /\ step = "none"
    /\ \/ Command \/ Unknown \/ Unsupported \/ KeyPairHandlers \/ Memsroute
       \/ PowerGet \/ Malformed \/ PowerSet \/ SleepSet \/ Answered
    /\ PowerFollowed
    /\ UNCHANGED <<attenVars, step, reply>>

\* devices_ready and setup_attenuators.
InstrumentBoot ==
    /\ Boot
    /\ setup_attenuators
    /\ PowerFollowed
    /\ UNCHANGED <<step, reply>>

\* Whatever power a reset leaves the lasers with, nobody has waited for them.
InstrumentReset ==
    /\ Reset
    /\ booted' = (booted /\ power') /\ eager' = (power' /\ ~booted')
    /\ step' = "none" /\ reply' = NoReply
    /\ UNCHANGED attenVars

InstrumentNext ==
    \/ InstrumentBoot \/ InstrumentReset \/ Dispatch
    \/ LasersBoot
    \/ LaserRefused \/ LaserPower \/ wait_laser_boot \/ LaserAccess
    \/ MaimanGet
    \/ AttenRefused \/ GetCoefficients \/ GetValue \/ SetCoefficients \/ SetValue
    \/ CallReturned

InstrumentSpec == InstrumentInit /\ [][InstrumentNext]_instrumentVars

----------------------------------------------------------------------------
(***************************************************************************)
(* Properties.                                                             *)
(***************************************************************************)

\* A laser handler only talks to controllers that have booted, whatever commands,
\* failed accesses and resets in the middle of its wait came before; the exception
\* is power that power_set or a reset gave them a moment ago, for which no handler
\* waits.
LasersAwaited == step = "access" => booted \/ eager \/ ~power

\* A failed transfer shows in what the maiman_get functions return: absolute zero for
\* temperatures and -1 for the other scaled quantities are out of reach of a register,
\* since temperatures, and only they, are signed.  For maiman_get_serial_number and
\* maiman_get_raw_status this is one-way: a failure reads 0, as a word may, so that
\* maiman_is_interlock_denied and its like answer "no" when nobody was reached.
FailureTold ==
    reply.kind = "reading" =>
        /\ reply.failed => reply.value = FailureValue(reply.quantity)
        /\ reply.value = FailureValue(reply.quantity) =>
               reply.failed \/ reply.quantity \in RawWords

\* The voltage that atten_setting_get reports is what its channel of the DAC puts
\* out, across recalibrations, clamping and resets, unless the last write failed
\* or none was made since the controller came up.
ReportIsOutput ==
    reply.kind = "value" /\ reply.channel \notin unwritten =>
        Code(reply.voltage) = dac[reply.channel]

\* New coefficients leave the attenuation of the light as it was, if they reach
\* it at all: atten_setting_set reads it before it replaces them.
AttenuationKept ==
    [][\A a \in Channels :
        LET db  == attenuator_get(a, FALSE)
            new == calibration'[a]
            v   == Polynomial(new.db2volt, db)
        IN  /\ new # calibration[a]
            /\ v \in 0..MAX_VOLTAGE /\ Polynomial(new.volt2db, v) = db
            => attenuator_get(a, FALSE)' = db]_instrumentVars

=============================================================================
