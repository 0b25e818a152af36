---------------------------- MODULE InstrumentsMC ----------------------------
(***************************************************************************)
(* Two names, one of them unknown to get_laser_channel, and three          *)
(* calibrations: dB fall when the voltage rises, dB and volts are shifted, *)
(* or the two polynomials do not belong together.                          *)
(***************************************************************************)
EXTENDS Instruments

TwoNames == {"1028y", "1430hk"}

Falling == [db2volt |-> <<5, -1, 0>>, volt2db |-> <<5, -1, 0>>]
Shifted == [db2volt |-> <<-1, 1, 0>>, volt2db |-> <<1, 1, 0>>]
Square  == [db2volt |-> <<0, 0, 1>>, volt2db |-> <<2, 0, 0>>]
ThreeCalibrations == {Falling, Shifted, Square}

\* The signs' boundary, what a signed reading would take for -1.00 and -1.000, and
\* the temperatures next to the absolute zero.
BoundaryWords == {0, 2^15 - 1, 2^15, 2^16 - 1, 2^16 - 100, 2^16 - 1000, 2^16 - 2731, 2^16 - 2732}

=============================================================================
