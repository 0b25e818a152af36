--------------------------- MODULE CommandDispatch ---------------------------
(***************************************************************************)
(* What the executor thread does with one command after the other          *)
(* (command.c): dispatch_command looks the key up in dispatch_table and    *)
(* calls the handler for the message type, and the handlers of power,      *)
(* sleep and status work on the pin that powers the lasers.  The memsroute *)
(* handlers are in MemsRouter.                                             *)
(*                                                                         *)
(* A key is the sequence of the topic's levels after cmd/hsfib-tib/req/,   *)
(* so that a key without a slash has one level.  The JSON payload is what  *)
(* the library makes of it: "true", "false" or "malformed".  The watchdog  *)
(* may reset the controller at any point.                                  *)
(***************************************************************************)
EXTENDS Integers, Sequences

CONSTANT
    MaxFaults       \* bound: accesses to the power pin that fail

ASSUME DispatchAssumption == MaxFaults \in Nat

VARIABLES
    pc,             \* where the executor is
    cmd,            \* the command being served
    answer,         \* the answer to it
    power,          \* level of the power pin
    asked,          \* history: the level asked for since power-up
    missed,         \* history: did an access fail when it was last to be set?
    faults          \* faults so far

vars == <<pc, cmd, answer, power, asked, missed, faults>>

\* The keys of dispatch_table with the message types that have a handler.
dispatch_table == {
    [key |-> "memsroute", handlers |-> {"get", "set"}],
    [key |-> "mems",      handlers |-> {"get", "set"}],
    [key |-> "laser",     handlers |-> {"get", "set"}],
    [key |-> "power",     handlers |-> {"get", "set"}],
    [key |-> "atten",     handlers |-> {"get", "set"}],
    [key |-> "status",    handlers |-> {"get"}],
    [key |-> "sleep",     handlers |-> {"set"}] }

\* The topics of README.md, with one example for each of its placeholders.
DocumentedKeys == {
    <<"memsroute">>, <<"mems", "yj_ao_fei">>, <<"laser1028y", "flux">>,
    <<"atten1028y", "value">>, <<"atten1028y", "valuedB">>, <<"atten1028y", "coeff">>,
    <<"status">> }

\* The key of a request that nobody knows.
OtherKey == <<"other">>

Keys == {<<e.key>> : e \in dispatch_table} \cup DocumentedKeys \cup {OtherKey}

Commands == [key : Keys, msg_type : {"get", "set"}, payload : {"true", "false", "malformed"}]
NoCommand == [key |-> <<>>, msg_type |-> "get", payload |-> "malformed"]
Answers == {"none", "OK", "on", "off", "routes", "error", "bad key", "unknown", "unsupported"}

TypeOK ==
    /\ pc \in {"boot", "idle", "serve", "answered"}
    /\ cmd \in Commands \cup {NoCommand}
    /\ answer \in Answers
    /\ pc = "answered" <=> answer # "none"
    /\ pc \in {"serve", "answered"} <=> cmd # NoCommand
    /\ power \in BOOLEAN /\ asked \in BOOLEAN /\ missed \in BOOLEAN
    /\ faults \in 0..MaxFaults

Init ==
    /\ pc = "boot"
    /\ cmd = NoCommand /\ answer = "none"
    /\ power \in BOOLEAN                    \* whatever the board pulls the pin to
    /\ asked = FALSE /\ missed = TRUE
    /\ faults = 0

----------------------------------------------------------------------------
(***************************************************************************)
(* The power pin.                                                          *)
(***************************************************************************)
\* power_enabled: a pin that cannot be read counts as low.  The reading is value,
\* and n accesses have failed so far.
power_enabled(value, n) ==
    \/ value = power /\ n = faults
    \/ value = FALSE /\ n = faults + 1 /\ n <= MaxFaults

\* gpio_pin_set_dt, whose failure is only logged.
WritePin(level, n) ==
    \/ power' = level /\ missed' = FALSE /\ faults' = n
    \/ /\ n < MaxFaults
       /\ faults' = n + 1
       /\ missed' = TRUE
       /\ UNCHANGED power

\* Nothing is written, perhaps because the reading was wrong.
PinKept(n) == missed' = (n # faults) /\ faults' = n /\ UNCHANGED power

\* A pin that reads as high is left alone.  The function returns switched, TRUE
\* also when the write failed.
enable_power(switched) ==
    \E value \in BOOLEAN, n \in 0..MaxFaults :
        /\ power_enabled(value, n)
        /\ switched = ~value
        /\ IF value THEN PinKept(n) ELSE WritePin(TRUE, n)

\* Mutant of disable_power: the test of enable_power, copied.
disable_power_copied ==
    \E value \in BOOLEAN, n \in 0..MaxFaults :
        /\ power_enabled(value, n)
        /\ IF value THEN PinKept(n) ELSE WritePin(FALSE, n)

disable_power ==
    \E value \in BOOLEAN, n \in 0..MaxFaults :
        /\ power_enabled(value, n)
        /\ IF value THEN WritePin(FALSE, n) ELSE PinKept(n)

\* devices_ready: the pin becomes an output, inactive, if its port is ready.
Boot ==
    /\ pc = "boot"
    /\ pc' = "idle"
    /\ WritePin(FALSE, faults)
    /\ asked' = FALSE
    /\ UNCHANGED <<cmd, answer>>

----------------------------------------------------------------------------
(***************************************************************************)
(* dispatch_command.                                                       *)
(***************************************************************************)
\* The executor gets a command.
Command ==
    /\ pc = "idle"
    /\ pc' = "serve"
    /\ cmd' \in Commands
    /\ UNCHANGED <<answer, power, asked, missed, faults>>

pinVars == <<power, asked, missed, faults>>

Answer(a) ==
    /\ pc' = "answered"
    /\ answer' = a
    /\ UNCHANGED cmd

\* find_dispatch compares the whole key.
find_dispatch == {e \in dispatch_table : cmd.key = <<e.key>>}

Unknown ==
    /\ pc = "serve"
    /\ find_dispatch = {}
    /\ Answer("unknown")
    /\ UNCHANGED pinVars

\* Mutant of Unsupported: the handler is called without a test for NULL.
UnsupportedCalled ==
    /\ pc = "serve"
    /\ \E e \in find_dispatch : cmd.msg_type \notin e.handlers
    /\ pc' = "usage fault"
    /\ UNCHANGED <<cmd, answer, power, asked, missed, faults>>

Unsupported ==
    /\ pc = "serve"
    /\ \E e \in find_dispatch : cmd.msg_type \notin e.handlers
    /\ Answer("unsupported")
    /\ UNCHANGED pinVars

\* The handler for key k and message type t is called.
Called(k, t) ==
    /\ pc = "serve"
    /\ cmd.msg_type = t
    /\ \E e \in find_dispatch : e.key = k /\ t \in e.handlers

\* mems_*, laser_setting_* and atten_setting_* begin with parse_key_pair, which
\* needs a slash in the key.
KeyPairHandlers ==
    /\ \E k \in {"mems", "laser", "atten"}, t \in {"get", "set"} : Called(k, t)
    /\ Len(cmd.key) = 1
    /\ Answer("bad key")
    /\ UNCHANGED pinVars

\* memsroute_get, memsroute_set: see MemsRouter.
Memsroute ==
    /\ \/ Called("memsroute", "get") /\ Answer("routes")
       \/ Called("memsroute", "set") /\ \E a \in {"OK", "error"} : Answer(a)
    /\ UNCHANGED pinVars

\* power_get and status_get answer the same.
PowerGet ==
    /\ \/ Called("power", "get")
       \/ Called("status", "get")
    /\ \E value \in BOOLEAN :
          /\ power_enabled(value, faults')
          /\ Answer(IF value THEN "on" ELSE "off")
    /\ UNCHANGED <<power, asked, missed>>

Malformed ==
    /\ \/ Called("power", "set")
       \/ Called("sleep", "set")
    /\ cmd.payload = "malformed"
    /\ Answer("error")
    /\ UNCHANGED pinVars

PowerSet ==
    /\ Called("power", "set")
    /\ cmd.payload # "malformed"
    /\ \/ cmd.payload = "true" /\ \E switched \in BOOLEAN : enable_power(switched)
       \/ cmd.payload = "false" /\ disable_power
    /\ asked' = (cmd.payload = "true")
    /\ Answer("OK")

\* sleep with a value of false does nothing.
SleepSet ==
    /\ Called("sleep", "set")
    /\ \/ cmd.payload = "true" /\ disable_power /\ asked' = FALSE
       \/ cmd.payload = "false" /\ UNCHANGED pinVars
    /\ Answer("OK")

\* The answer goes into outbound_queue.
Answered ==
    /\ pc = "answered"
    /\ pc' = "idle"
    /\ cmd' = NoCommand /\ answer' = "none"
    /\ UNCHANGED pinVars

\* A reset of the controller releases the pin.
Reset ==
    /\ pc # "boot"
    /\ pc' = "boot"
    /\ cmd' = NoCommand /\ answer' = "none"
    /\ power' \in BOOLEAN
    /\ asked' = FALSE /\ missed' = TRUE
    /\ UNCHANGED faults

Next ==
    \/ Boot \/ Command
    \/ Unknown \/ Unsupported \/ KeyPairHandlers \/ Memsroute
    \/ PowerGet \/ Malformed \/ PowerSet \/ SleepSet
    \/ Answered \/ Reset

Spec == Init /\ [][Next]_vars

----------------------------------------------------------------------------
(***************************************************************************)
(* Properties.                                                             *)
(***************************************************************************)

\* The lasers have power exactly if the last command that concerned it asked for
\* it, and none has since the controller came up: whatever enable_power and
\* disable_power skip because of what the pin reads, only an access that failed
\* leaves it otherwise, and the next command makes up for it.
PowerAsAsked == power = asked \/ missed

\* The topics of README.md are known to the firmware.
DocumentedTopicsServed == answer = "unknown" => cmd.key \notin DocumentedKeys

=============================================================================
