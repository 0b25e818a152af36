-------------------------------- MODULE Maiman --------------------------------
(***************************************************************************)
(* The driver of the laser controllers (maiman.c, maiman.h): registers of  *)
(* 16 bits, read and written over Modbus.  A controller answers once it    *)
(* has booted, and even then a transfer may fail.                          *)
(*                                                                         *)
(* Names are compared without regard to case, so that a name stands here   *)
(* for all its spellings.  Readings are in thousandths of their unit.      *)
(***************************************************************************)
EXTENDS Integers

CONSTANTS
    Quantities,     \* registers read through a function that returns the value
    Words           \* contents of such a register

VARIABLE
    booted          \* outside the controller: do the lasers answer?

\* register_table.
RegisterNames == {
    "TEC_TEMPERATURE_MEASURED", "PCB_TEMPERATURE_MEASURED", "TEC_TEMPERATURE_VALUE",
    "CURRENT_MEASURED", "CURRENT", "VOLTAGE_MEASURED", "CURRENT_MAX_LIMIT",
    "CURRENT_PROTECTION_THRESHOLD", "CURRENT_SET_CALIBRATION", "NTC_COEFFICIENT",
    "TEC_CURRENT_MEASURED", "TEC_VOLTAGE", "SERIAL_NUMBER", "FREQUENCY", "DURATION",
    "STATE_OF_DEVICE_COMMAND" }

\* maiman_to_signed.
to_signed(w) == IF w < 2^15 THEN w ELSE w - 2^16

\* The signed quantities, and those whose functions return the word itself.
Temperatures == {"TEC_TEMPERATURE_MEASURED", "PCB_TEMPERATURE_MEASURED", "TEC_TEMPERATURE_VALUE"}
RawWords     == {"SERIAL_NUMBER", "STATE_OF_DEVICE_COMMAND"}

\* maiman_get_current alone returns its success beside the value.
ASSUME MaimanAssumption ==
    /\ Quantities \subseteq RegisterNames \ {"CURRENT"}
    /\ Words \subseteq 0..2^16 - 1

Divider(q) ==
    CASE q \in RawWords -> 1
      [] q \in Temperatures -> 10
      [] q \in {"FREQUENCY", "DURATION", "NTC_COEFFICIENT"} -> 1000
      [] OTHER -> 100

\* What the function for q returns when the transfer has failed.
FailureValue(q) ==
    CASE q \in RawWords -> 0
      [] q \in Temperatures -> -273150
      [] OTHER -> -1000

\* Mutant of Reading: every register is taken as signed.
ReadingSigned(q, w) == to_signed(w) * (1000 \div Divider(q))

\* What the function for q makes of the word w.
Reading(q, w) ==
    (IF q \in Temperatures THEN to_signed(w) ELSE w) * (1000 \div Divider(q))

\* maiman_read_u16 and maiman_write_u16: does the transfer succeed?
Transfer(ok) == ok => booted

=============================================================================
