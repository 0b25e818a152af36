# HiSPEC-TIB firmware: TLA+ models, checks and proofs

HiSPEC-TIB is Zephyr firmware for a fibre-injection test instrument: a
controller publishes requests over MQTT 5, the firmware turns MEMS mirrors,
switches laser power, and publishes photodiode samples. The code that does this
is in `src/app/src` (the application) and `src/lib/coo_commons` (MQTT and
network wrappers). This directory holds TLA+ models of that code, TLC
configurations that check them on small instances, and TLAPS proofs of what
matters most for every value of the constants. `PROJECT.json` maps every
definition to the lines it models and lists the runs, the deliberately broken
variants ("mutants") that show each property can fail, the hazards and the
theorems.

    tlc -config MqttSession.cfg MqttSession           # one model-checking run
    tlapm MqttSessionProofs.tla                       # the proofs of one module

## 1. The system

| Component | Files | State | Operations |
|---|---|---|---|
| Queues and threads | `app/src/main.c`, `command.c`, `photodiode.c` | `inbound_queue` (2 commands), `outbound_queue` (8 messages), `photodiode_queue` (4); one local message per thread | main: drain, publish, poll, `mqtt_command_handler`; executor: get, dispatch, put; work item: forward a sample; photodiode thread: sample, put or purge |
| MQTT wrapper | `coo_commons/mqtt_client.c` | `mqtt_connected`, `fds`/`nfds`, subscription table, the library's client | connect with retry, event handler, subscribe, process, disconnect |
| Watchdog | `main.c`, time budget in `mqtt_client.c`, `network.c` | `wdt`, `last_wdt_feed`, the hardware counter | init, feed between polls, expiry, reset |
| Network start-up | `coo_commons/network.c` | `network_online`, registered callbacks | init, L4 event, wait for the flag |
| MEMS switches and router | `mems_switching.c`, `devices.c` | recorded state of each switch, the table of routes; outside the firmware: outputs of the expander and latching mirrors | set up, define, set a route pulse by pulse, report active routes |
| Route table | `devices.c` | none, a constant | - |
| Dispatch and handlers | `command.c` | the power pin | find the handler, `memsroute`, `power`, `sleep`, `status`, `mems`, `laser`, `atten` |
| Attenuators | `attenuator.c`, `devices.c` | coefficients and recorded voltage of each channel; outside: the outputs of the DAC | init, set (clamp, record, write), get |
| Laser driver | `maiman.c` | none; outside: registers of controllers that boot when they get power | find a register, read, write, getters |
| Settings, PID, JSON helpers, socket helpers, blink and sensor drivers | see `PROJECT.json` | | not modelled, see section 7 |

How they interact: the main thread owns the MQTT client. Packets reach
`mqtt_command_handler` as a callback from within `coo_mqtt_process`; it puts
commands into `inbound_queue` without waiting, and NACKs into `outbound_queue`
without waiting. The executor gets a command (waiting for ever), calls
`dispatch_command`, and puts the reply (waiting for ever). The photodiode
thread and the system work queue add telemetry to the same `outbound_queue`.
The main thread feeds the watchdog, drains the queue, publishes, and polls the
socket: the socket alone, so that a reply put meanwhile waits for the poll to end.
The watchdog resets the controller at any point in any of this. The queues are in
RAM and gone then, with every command taken and not yet answered; the expander's
outputs and the latching mirrors keep their state.

What is hard here, and what correctness means for each part:

* **Queues.** Three writers of one bounded queue, one of them pended inside
  the kernel and served by the reader's get; a full queue in each direction.
  Correct means: no lost wakeup, one response for each accepted command, in
  order, and in the end, unless a reset comes first; telemetry in order.
* **Connections.** The broker and the network act between any two steps, also
  between a poll and the read after it. Correct means: the flag that keeps
  `main` in its loop speaks of the current socket, sockets are not leaked, every
  reconnection subscribes anew, a dead peer is noticed.
* **Time.** Blocking calls of the main thread against the watchdog's timeout.
  Correct means: a hang is ended by a reset and a healthy session never is.
* **Mirrors.** A reset or a failing write in the middle of a pulse or a route.
  Correct means: no coil stays driven, and the firmware never claims a mirror
  position, or a route, that it does not know.
* **Power, lasers, attenuators.** Every access may fail and every result is
  ignored or reduced to a value; a reset keeps what is outside the controller.
  Correct means: the lasers have power as last asked for, nobody talks to one that
  is still booting, a reported voltage is the one put out, new coefficients leave
  the light as it was, and a failed reading of a scaled quantity cannot be taken for
  a good one (that of the serial number or the status can: it is 0).
* **Contents.** Topics and correlation data are copied where they fit, through two
  queues. Correct means: a response reaches the requester it is for, and no other.
* **Table and keys.** Written by hand. Correct means: one output per input, the
  two sides of the instrument apart, documented topics served.

`PROJECT.json` lists the 40 hazards at their lines, with the properties that
cover them or the reason none does.

## 2. Modules

| Module | What it models | Extends / instantiates |
|---|---|---|
| `RequestService` | abstract: a FIFO service that answers what it takes | - |
| `CommandPipeline` | the three queues and four threads | - |
| `CommandPipelineService` | the refinement of `RequestService` by `CommandPipeline` | both |
| `CommandPipelineProofs` | proofs, those of the refinement included | `CommandPipelineService` |
| `TelemetryProofs` | proof of the order of samples | `CommandPipelineProofs` |
| `RequestContents` | topics, correlation data and lengths along the same path | - |
| `RequestContentsMC` | lengths on both sides of every limit, for TLC | `RequestContents` |
| `RequestContentsProofs` | proofs | `RequestContents` |
| `MqttSession` | the MQTT client and the loop of `main`, with broker and network | - |
| `MqttSessionProofs` | proofs | `MqttSession` |
| `Watchdog` | time spent by the main thread, the watchdog, network start-up | - |
| `WatchdogProofs` | proofs | `Watchdog` |
| `MemsSwitchboard` | abstract: routes set step by step on switches with positions | - |
| `MemsDevices` | the route table of `devices.c` | - |
| `MemsTable` | what the table's entries must satisfy together | `MemsSwitchboard`, `MemsDevices` |
| `MemsTableProofs` | proofs about any table and about that of `devices.c` | `MemsTable` |
| `MemsRouter` | router, pulses, expander, mirrors; refines `MemsSwitchboard` | instance of it |
| `MemsRouterMC` | one side of the table, for TLC | `MemsRouter`, `MemsDevices` |
| `MemsRouterProofs` | proofs | `MemsRouter` |
| `CommandDispatch` | dispatch by key and type, the handlers of the power pin | - |
| `Attenuator` | attenuator driver and DAC | - |
| `Maiman` | laser driver: registers, readings, failing transfers | - |
| `Instruments` | the executor with power pin, lasers and attenuators together | `CommandDispatch`, `Attenuator`, `Maiman` |
| `InstrumentsMC` | calibrations and register contents, for TLC | `Instruments` |
| `InstrumentsProofs` | proofs | `Instruments` |

How they correspond to the code:

**CommandPipeline.** One variable per queue; for each thread a location and the
message in its local variable (`cmd`, `om`). One action per `k_msgq` call,
because the kernel runs each under the queue's spinlock and threads interleave
between them. A writer that pends on a full queue (`execPc = "blocked"`) is
served by the get itself, as Zephyr does: `DrainGet` moves the executor's reply
into the queue in the same step. The callback is part of `ProcessStep`, since it
runs on the main thread: one action for each of its ways out, after each of which
`coo_mqtt_process` may still find that the socket has hung up. Messages are
records of a kind and the number of the request or sample they stand for;
requests are numbered as they arrive. `TakeSample` starts the photodiode
thread's next sample, `SamplePut`/`SamplePurge` are its put-or-purge loop.
`Reset` is the watchdog's, or that of the power, at any point: every queue and thread
starts over, and `accepted` keeps only what has been answered; `Restart` is what
`RequestService` makes of it. When the watchdog does reset is the question of
`Watchdog`, which has the times.

**MqttSession.** `nfds`, `revents` and `rc` are `fds[]` and the result of the
last poll; `revents` keeps its old value when a poll fails, as the array does.
`Input` is one call of `mqtt_input` with the event handler inside it: a CONNACK, the
last packet of a connection, another one (whose acknowledgement the handler writes
without looking at the result, so that the socket may be closed afterwards although
`mqtt_input` succeeds), a packet that cannot be decoded (a fault), or the end of the
stream. Zephyr's
library, the sockets, the broker and the peer are external: they may send a
CONNACK, a refusal, packets or DISCONNECT, close, or vanish without closing, at
any point, within `MaxFaults` and `MaxWire`. Two assumptions about them: a peer
that closes makes the socket readable (POLLIN together with POLLHUP), and a
write to a peer that vanished may fail.

**Watchdog.** Time in ticks of a second, `age` the hardware's counter,
`since_feed` the difference to `last_wdt_feed`. A blocking call with a timeout
sets `timer`; `Tick` never passes its end. `mqtt_connect` and the wait for the
network may take any time. `NetworkInit` registers the L4 handler only if
`conn_mgr_all_if_up` succeeded, which `main` does not look at. `MainReturns` is the
early returns of `main`, without an interface or when `coo_mqtt_init` fails: with the
watchdog set up and nobody left to feed it.

**MemsRouter.** Firmware state (`router`, `state`, `todo`) is lost in `Reset`,
hardware state (`pins`, `latch`) is not. `Boot` configures the pins; the
configurations of any set of them may fail, which counts as one fault, an outage of
the expander. `mems_switch_set_state` is three actions, one
per write, with the sleeps of the code between them. A write that fails is ignored by
the code; the history variables `stuck` and `lost` remember which output or mirror is
wrong because of it. Decoding of the request's JSON is external: `payload_len` is
never set by the callback, so `SetRoute` and `Refused` are both possible for any
request. A step that names a switch that does not exist cannot occur:
`RouterAssumption` states that the table's steps name switches of the table and that
no route turns a switch both ways. TLC evaluates it for the side that the run has, and
`EveryRouteFits` proves it of the whole table of `devices.c`. An answer names routes
by their indices in the table, which stand for the names of input and output that the
code sends. `SetSwitch` and `GetSwitch` are `mems_set` and `mems_get`: a single switch
is turned as a route of one step that has no entry in the table. They can only name
the switches of `Addressable`, because `parse_key_pair` gets room for 14 characters
and `yj_forward_retro` has 16.

**MemsDevices / MemsTable.** All sixteen routes over all eight switches,
transcribed from `setup_mems_switches_and_routes`.

**CommandDispatch.** A key is the sequence of the topic's levels, so that
`find_dispatch`'s comparison of whole keys is equality. `power_enabled` may fail
to read the pin (it then counts as low) and each write may fail; both are
counted in `faults`. What the JSON library makes of a payload is one of "true",
"false", "malformed"; a payload without `value` reads as "false", the default
of the structure. In this commit `payload_len` stays 0, so that `power_set` and
`sleep_set` always refuse; the model also has the outcomes they are written for.

**Instruments.** `Attenuator` and `Maiman` are the two drivers, `Instruments` the
handlers of `command.c` that call them and the steps of `CommandDispatch` beside
them. The keys of `dispatch_table` have no slash, and `parse_key_pair` refuses keys
without one, so `dispatch_command` of this commit never gets past the first lines
of the `mems`, `laser` and `atten` handlers. They are exported by `command.h`, and
are modelled here, like `mems_set` and `mems_get` in `MemsRouter`, as called directly
with a key they accept. A laser handler is three steps (`LaserPower`,
`wait_laser_boot`, `LaserAccess`), since the watchdog may reset the controller while
it sleeps; the other handlers are one. `strcasecmp` is used in `command.c` as if it
returned true on equality, so that `SetValue` and `GetValue` are what the setting
`coeff` does, and `SetCoefficients` and `GetCoefficients` what all others do.
`get_laser_channel` is transcribed with its shared and its missing channel. The lasers
(`booted`) and the DAC (`dac`) are outside the controller: a reset leaves them as
they are, except that lasers stop with their power. `Maiman` has all getters that return
the value itself, `maiman_get_serial_number` and `maiman_get_raw_status` among them,
which return the word unscaled and 0 after a failure (`RawWords`). Voltages, attenuations and
coefficients are integers in a unit finer than the DAC's steps; what rounding of
doubles adds is not modelled.

**RequestContents.** The same three steps as in `CommandPipeline` (callback, executor,
drain) on the same two queues, but with what a message carries: a byte array is its
length and the number of the request it was copied from, so that a response with
another request's data is seen as such. Telemetry and the pended executor are left
out: they change when a message is published, not what it carries.

## 3. Runs

| Run | Shows | Bounds |
|---|---|---|
| `CommandPipelineService` | types, no missed wakeup, one response, replies in order, telemetry in order, with resets anywhere; the pipeline implements `RequestService` | depths 2/2/2, 4 requests, 2 samples |
| `CommandPipelineLiveness` | accepted commands are answered and samples stored, unless a reset loses them; fair refinement | depths 1/1/1, 3 requests, 2 samples |
| `MqttSession` | flag, sockets, subscriptions; dead peers abandoned, reconnection | 4 faults, 3 packets under way |
| `MqttSessionPollFailure` | **violated**: a failed poll leads out of the loop | 1 fault |
| `RequestContents` | sizes respected, responses carry their own request's topic and correlation data | 3 requests, queues of 1 and 2, lengths at and below each limit |
| `RequestContentsTopic` | **violated**: responses go to the topic provided | the same |
| `MemsTable` | one output per input, at most six active, sides apart | the whole table |
| `MemsRouter` | coils released, records and reports true, route honoured, implements the switchboard | one side: 4 switches, 8 routes, 2 failing writes |
| `WatchdogKeepAlive` | a serving main thread is not reset; one that is stuck or has returned is | the code's times with a keep-alive of 4 s, 1 failing feed |
| `WatchdogIdle` | **violated**: the same with the code's keep-alive of 60 s | the code's times |
| `Instruments` | power as asked, lasers awaited, reported voltages true, failed readings told where they can be, recalibration | 1 channel, 3 calibrations, 3 voltages, 4 registers, 8 register contents, 2 failing accesses to the pin |
| `CommandDispatchTopics` | **violated**: documented topics are known | none needed |

Why the bounds are enough. *Pipeline*: with depths of 2, four requests are one
in the executor, two in `inbound_queue` and one turned away; `outbound_queue`
fills up with replies, NACKs and telemetry together, and both waits of the
executor occur, and `MAX_PENDING_COMMANDS` is the code's own. The photodiode
thread samples for ever, its numbers only stop at the bound, so that the photodiode
queue of two is overrun again and again, and two numbers suffice for a pair of
samples in the wrong order. Every put can fail or pend with depths of 1,
which is the hardest case for liveness. *Session*: losing one connection and
failing to make the next takes two faults, a stale packet or a failed poll on
top of it a third and a fourth. *Router*: one failing write leaves an output
high, a second one hits the opposite coil or the release; the two sides share no
switch, which `SidesIndependent` checks on the whole table, so one side suffices
for the pulses. *Watchdog*: `feed_faults` bounds only failing feeds, after the
first of which `ServingNotReset` says nothing; time itself is bounded by the
watchdog. *Instruments*: a failing read and a failing write of the pin in the same
handler; one of the two names is a laser of the table and the other one that
`get_laser_channel` does not know; the three calibrations are one that falls with
the voltage, one that is shifted and one that is not linear, so that clamping and
recalibration change the value; the DAC has half as many steps as there are
voltages, so that different voltages share a code; the words are the ends of both
ranges of 16 bits and those that could read as a failure value, 0 of the raw status
included; the four registers are one for each divider and the status. *Contents*:
lengths that just fit, that just do not, empty and absent; three requests are
one with the executor, one waiting and one turned away.

The runs whose expected result is a violation are findings, each a
disagreement between the code and its own documents:

1. `coo_mqtt_process` returns 0 when `zsock_poll` fails, though
   `mqtt_client.h:83` promises a negative code on failure. The property lets the
   network act while the main thread looks at the result, and only asks that the
   thread itself goes nowhere but out of its loop.
2. The watchdog resets a healthy, idle connection after 5 s, since it is fed only
   between polls that last up to the keep-alive interval of 60 s; the README
   describes it as recovery from hangs. `ServedSafely` (below) says which times
   would do. With the queues in RAM, such a reset also loses the commands taken:
   `AcceptedAnswered` holds but for resets, and this finding says how near they are.
3. The topics `mems/<name>`, `laser###/flux` and `atten###/...` of the README are
   unknown to `find_dispatch`.
4. A request that provides a response topic and is refused (its key is too long, it
   has no `msg_type`) is answered on `cmd/hsfib-tib/resp` and without correlation
   data, since `mqtt_command_handler` builds the NACK before it copies either; the
   README has responses go to the topic provided.

Met while modelling, without a run of its own: `mqtt_client.h:36` says that
`coo_mqtt_connect` retries with exponential backoff; the code sleeps 5 s each time,
which is also the watchdog's timeout, so that with a watchdog it is the reset that
tries again (`Watchdog` reaches it).

Deadlock is checked in every run but the two of `RequestContents`, which stop when
`MaxRequests` requests have been answered, and none occurs. Where `Reset` is always
possible (`CommandPipeline`, `MemsRouter`, `Instruments`) this says nothing. In the pipeline
it is `NoMissedWakeup` and the liveness properties, which do not count on resets, that
keep threads from getting stuck; the other two are sequential.

## 4. Fairness

* `CommandPipeline`: weak fairness of each started thread, of the main thread with a
  proviso. `main` polls the socket alone. It is not woken by `outbound_queue`, and a
  poll lasts until a packet comes or the keep-alive interval, 60 s, is over, which the
  watchdog does not wait for: it resets the controller 5 s after the last feed, with
  the queues in RAM. `WF(MainStep)` says no more than what is then true, that the
  thread steps in the end or is reset, since `Reset` takes it to start-up, where
  `MainStep` is disabled. `AcceptedAnswered`, `SampleStored` and the fair service
  (with its `Restart`) are stated accordingly: what has been taken is answered unless
  a reset loses it, which no other behaviour of queues, threads or broker can.
  `Reset` itself is not fair and never helps. The executor's handlers end by their bus
  timeouts; the broker is assumed to be reachable again some time after each
  loss (`Reconnect`). Nothing is assumed about requests arriving, start-up, or
  the ADC.
* `MqttSession`: the main thread runs, subscriptions are added, the broker
  answers CONNECT on a connection that stays up, and, with strong fairness
  (`KeepAliveFails`), a keep-alive written again and again to a peer that has
  vanished fails in the end because TCP gives up retransmitting. Without the last
  one the connection would hang for ever: the client never looks at
  unanswered pings. The run is under `FairSpec` for its safety invariants as well,
  which fairness does not change.
  These, too, are about a controller that is not reset: with the watchdog's 5 s the
  client starts over more often than it reconnects (finding 2).
* `Watchdog`: time passes and the hardware resets when it expires. Nothing is
  assumed of the main thread, which is what a watchdog is for.
* The other runs and all proofs assume no fairness.

## 5. What is proved

For every value of the constants, from the assumptions named in each module
(`DepthAssumption`, `BoundAssumption`, `SessionAssumption`, `RouterAssumption`,
`TimeAssumption`, `AttenuatorAssumption`, `MaimanAssumption`,
`InstrumentAssumption`, `ContentsAssumption`, which TLC evaluates in the runs). Every
invariant and every action property of the runs is stated by a theorem, and of the
three refinements the two without fairness are:

* **`CommandPipelineProofs`**: `TypeCorrect`, `WakeupsNotMissed`, `AnswersInOrder`,
  `ExactlyOneResponse`. `OneResponse` and `RepliesInOrder` are not inductive: they
  speak of what has been published, and nothing in them keeps a duplicate out of a
  queue. The inductive invariant (`IndInv`, in `CommandPipeline`) says that the
  numbers of accepted requests increase strictly along one line: published, in the
  main thread's hands, in `outbound_queue`, in the executor's hands, in
  `inbound_queue` (`CommandOrder`, `OutboundOrder`, `MainOrder`, `DoneOrder`); that
  what is on the line has been accepted (`Membership`); and that what has been
  accepted is on it (`Coverage`). Strict order means at most once, coverage means at
  least once. The same is said of NACKs on their own. The proof has one lemma per way
  of moving a message, about appending to and taking from a queue, then one step per
  action. `PipelineImplementsService` is the refinement of `RequestService`: what is
  waiting there is in `inbound_queue` or being executed, what is to be answered is in
  the executor's hands after its handler has run, in `outbound_queue` or with the main
  thread. Lemmas say what appending to a queue, taking its head and serving the pended
  reply with the same get do to these sets. `CommandOrder` makes the command being
  executed the oldest one waiting, `MainOrder` and `OutboundOrder` the message being
  published the oldest answer; each action of the pipeline is then one of the service
  or a stutter, and `Reset` its `Restart`. After a reset the invariant starts from
  empty queues and from the answered part of `accepted` (`ResetOrderInv`).
* **`RequestContentsProofs`**: `TypeCorrect`, `AnswersOwn`, for any number of requests,
  lengths of their parts and depths of the queues. `AnswersOwnRequest` only looks at
  what is published; the invariant (`CopiesOwn`) says the same of every copy on its
  way, in `inbound_queue`, in the executor's `cmd` and in `outbound_queue`: it was
  made from the request whose number it carries, and that request's verdict is the
  one that sent it there.
* **`TelemetryProofs`**: `TelemetryOrdered`. Samples are numbered as they are taken;
  the numbers do not decrease from the main thread through `outbound_queue` and the
  work item to `photodiode_queue` and the photodiode thread. Given the types,
  `TelemetryInOrder` is inductive. What makes the work item's sample safe is that it
  is older than whatever is in the queue it was taken from, purged or not
  (`OlderThanQueued`); a step on that side never makes a sample younger
  (`SampledStep`), so the other side only has to look at its own queue.
* **`MqttSessionProofs`**: `TypeCorrect`, `FlagSound`, `NoLeak`, `LoopSubscribed`,
  for any number of faults and packets. The strengthening says that a closed socket
  has nothing left of its connection, that it is closed before each dial, and what
  is known of an attempt at each of its locations.
* **`MemsRouterProofs`**: `TypeCorrect`, `CoilsAreReleased`, `RecordsAreTrue`,
  `RoutesAreHonoured`, `ReportsAreTrue`, for any table, any number of failing writes
  and resets anywhere. The outputs are under control as soon as the switches are set
  up, before the first route is defined (`CoilsHeld`), and from the edge of its pulse
  on the mirror of the switch being set is where the record is about to say it is,
  unless the pulse was lost (`PulseTaken`). For `RoutesAreHonoured` the invariant adds
  that the steps of the route that are no longer to do are recorded; the next step
  keeps them because no route turns a switch both ways. `ReportsAreTrue` follows from
  `RecordsAreTrue` as soon as an answer is known to agree with the record until it is
  sent (`AnswerOK`). `RouterImplementsSwitchboard` is the refinement: a switch of the
  switchboard turns at the write of the record, after the pulse. It assumes
  `TableFits`, that the arrays of the router are large enough for the table; then the
  router that answers requests holds the whole table, or no expander was found and
  nothing is known of any switch (`Installed`). `AnswersAreObjects` carries
  `DistinctInputs` over to what the router itself answers, from the same condition on
  the table.
* **`MemsTableProofs`**: what the entries of a table must satisfy together, for any
  table: routes with the same input exclude each other by some switch
  (`Exclusive`), which suffices for `DistinctInputs`; the routes fall into n groups in
  each of which they exclude each other (`Grouped`), which suffices for `ActiveBound`
  with n; the steps of a route stay on the side of its input (`OneSided`), which
  suffices for `SidesIndependent`. Then that the sixteen entries of `devices.c` satisfy
  them, with three groups on each side (`1430` and `cal`, `laser`, photodiodes):
  `InputsAreKeys`, `ActiveRoutesFit`, `SidesApart`, with `Table = AllRoutes` as their
  hypothesis, as in the configuration of the run. `EveryRouteFits` shows that
  the same table meets `RouterAssumption` and `TableFits`, the hypotheses
  of the theorems about `MemsRouter`, with the code's 18 routes of 5 steps.
* **`WatchdogProofs`**: `TypeCorrect`, and `ServedSafely`: if
  `WDT_FEED_INTERVAL - 1 + KEEPALIVE < WDT_TIMEOUT`, a serving main thread is never
  reset. `ClocksAgree` ties the hardware's counter to `last_wdt_feed`,
  `PollWithinBudget` bounds it by what is left of the poll.
* **`InstrumentsProofs`**: `PowerFollowsCommands`, `AccessAfterBoot`,
  `FailuresAreTold`, `ReportsAreOutputs`, `RecalibrationKeeps`, `TypeCorrect`, for all
  calibrations, voltages, resolutions, register contents and numbers of failures.
  `LasersAwaited` needs to know that lasers which have power and do not answer were
  switched on by somebody who did not wait, or by the handler that is waiting now;
  `ReportIsOutput` that every channel that is not `unwritten` puts out the code of its
  record. `FailureTold` is a fact about numbers: temperatures are signed and end at
  -3276.8 degrees in steps of 0.1, which -273.15 is not a multiple of; the other
  scaled readings are not negative. For the serial number and the raw status only one
  direction holds, and the theorem says so: a failure reads 0, and 0 may be the word.

Only model-checked: everything about liveness (`AcceptedAnswered`, `SampleStored`,
`DeadPeerAbandoned`, `Reconnects`, `HangRecovered`, and `ImplementsFairService`, whose
safety part is `PipelineImplementsService` and whose fairness part speaks of ENABLED),
which is out of the prover's reach, and what the runs with a violation refute.

## 6. Plan

Built so far, in order: the pipeline with its abstract service and proofs, the
session, the MEMS router with its switchboard and table, the watchdog with
network start-up, dispatch and power, attenuators and lasers with their handlers,
the contents of requests and responses. Next, most important first:

1. Proofs: `ActiveBound` carried over from the table to what `MemsRouter` answers, and
   from the responses of `CommandPipeline` to their contents in `RequestContents`.
2. `MqttSession` with a peer whose error is reported without POLLIN, and what
   `coo_mqtt_process` then does.
3. The laser driver's setters and its tests of status bits, once something calls them.
4. Small algorithms against reference definitions: the PID's anti-windup over
   integers, `coo_net_send_retry`.

The number of runs is meant to stay at about a dozen: a new question is added to
an existing run where the module is the same.

## 7. What is not modelled

* **The text of messages**: payloads, session ids and QoS; of topics and correlation
  data only lengths and owners are kept.
* **Zephyr, its MQTT library and JSON library, the network and the broker**: not
  in the repository; modelled from how the code uses them.
* **Delivery of published messages**: `mqtt_publish` may fail, for instance when
  the connection breaks in the middle of a drain, and the message is gone. The
  code promises nothing beyond the call.
* **The laser driver's** setters, start and stop, `maiman_get_current` (which returns
  its success beside the value) and the tests of single status bits: nothing calls
  them.
* **Resets in `RequestContents`**: it says what messages carry between two resets,
  which empty its queues.
* **Resets in `MqttSession`**: after one, the client starts from its initial state.
* **The bytes of the report of active routes**: `memsroute_get` answers with an error
  when 256 bytes are too few. `ActiveBound` limits the routes to six, of at most 20
  bytes each with the names of `devices.c`; the error is left out of `MemsRouter`.
* **When the watchdog resets the pipeline**: `CommandPipeline` lets it happen at any
  point, `Watchdog` has the times; the two are not composed.
* **Floating point**: rounding, overflow and NaN of the attenuators' polynomials.
* **A hanging executor**: the watchdog does not see it, in the code as in the model.
* **PID controller, JSON utilities, socket helpers, blink LED, sensor and custom
  drivers, settings**: without a caller in the firmware, stubs, or pure arithmetic
  and formatting.
