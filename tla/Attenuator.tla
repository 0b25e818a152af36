------------------------------ MODULE Attenuator ------------------------------
(***************************************************************************)
(* The driver of the optical attenuators (attenuator.c): a calibration and *)
(* a record of the voltage for each channel of the DAC.  The voltage is    *)
(* recorded first and written to the DAC afterwards, which may fail; the   *)
(* DAC keeps its outputs when the controller is reset.                     *)
(*                                                                         *)
(* Voltages are integers in a unit finer than the steps of the DAC, and    *)
(* calibrations have integer coefficients.                                 *)
(***************************************************************************)
EXTENDS Integers

CONSTANTS
    Channels,       \* channels of the DAC in use
    MAX_VOLTAGE,
    DAC_MAX_CODE

ASSUME AttenuatorAssumption ==
    /\ MAX_VOLTAGE \in Nat \ {0}
    /\ DAC_MAX_CODE \in Nat

VARIABLES
    calibration,    \* coeff_db_to_volt and coeff_volt_to_db of every channel
    voltage,        \* the recorded voltage of every channel
    dac,            \* outside the controller: the code at every output
    unwritten       \* history: channels whose record did not reach the DAC

attenVars == <<calibration, voltage, dac, unwritten>>

\* The coefficients of the two polynomials.
CalibrationRecords == [db2volt : [1..3 -> Int], volt2db : [1..3 -> Int]]
NoCalibration == [db2volt |-> <<0, 0, 0>>, volt2db |-> <<0, 0, 0>>]

Polynomial(c, x) == c[1] + c[2] * x + c[3] * x * x

Clamped(v) == IF v < 0 THEN 0 ELSE IF v > MAX_VOLTAGE THEN MAX_VOLTAGE ELSE v

\* The conversion to uint32_t cuts the fraction off.
Code(v) == (v * DAC_MAX_CODE) \div MAX_VOLTAGE

AttenuatorTypeOK ==
    /\ calibration \in [Channels -> CalibrationRecords]
    /\ voltage \in [Channels -> 0..MAX_VOLTAGE]
    /\ dac \in [Channels -> 0..DAC_MAX_CODE]
    /\ unwritten \subseteq Channels

\* The memory of the controller is zeroed when it starts; the outputs are what
\* they were.
AttenuatorInit ==
    /\ calibration = [a \in Channels |-> NoCalibration]
    /\ voltage = [a \in Channels |-> 0]
    /\ dac \in [Channels -> 0..DAC_MAX_CODE]
    /\ unwritten = Channels

\* setup_attenuators, with attenuator_init for every channel.  Nothing is written
\* to the DAC.
setup_attenuators ==
    /\ calibration' = [a \in Channels |-> NoCalibration]
    /\ voltage' = [a \in Channels |-> 0]
    /\ unwritten' = Channels
    /\ UNCHANGED dac

\* attenuator_get, of the voltage if raw and of the attenuation in dB otherwise.
attenuator_get(a, raw) ==
    IF raw THEN voltage[a] ELSE Polynomial(calibration[a].volt2db, voltage[a])

\* Mutant of attenuator_set: the code is computed from the voltage asked for.
attenuator_set_unclamped(a, value, raw, cal) ==
    LET asked == IF raw THEN value ELSE Polynomial(cal.db2volt, value)
    IN  /\ voltage' = [voltage EXCEPT ![a] = Clamped(asked)]
        /\ \/ dac' = [dac EXCEPT ![a] = Code(asked)] /\ unwritten' = unwritten \ {a}
           \/ UNCHANGED dac /\ unwritten' = unwritten \cup {a}

\* attenuator_set with calibration cal.  The DAC is not ready, its channel cannot
\* be set up or the write fails: the record has changed all the same.
attenuator_set(a, value, raw, cal) ==
    LET v == Clamped(IF raw THEN value ELSE Polynomial(cal.db2volt, value))
    IN  /\ voltage' = [voltage EXCEPT ![a] = v]
        /\ \/ dac' = [dac EXCEPT ![a] = Code(v)] /\ unwritten' = unwritten \ {a}
           \/ UNCHANGED dac /\ unwritten' = unwritten \cup {a}

=============================================================================
