# Verification of unaibot

TLA+ models of the unaibot firmware, TLC runs on small instances of them, and
TLAPS proofs for instances of every size. Paths are relative to the repository
(`src/` is its root).

## 1. The system

The repository holds libraries for AVR micro-controllers and programs made from
them: a Modbus RTU slave (`modbus_rtu_slave`), which exposes the pins of the
controller, a small plant controlled through it (`proto_plant_main`), and two
robots driven over a serial line (`robot_main`), with a web server in front
(`web_control`).

| Component | State | Operations | Works with |
|---|---|---|---|
| Message queue (`protothreads/include/vla/msg_queue.hpp`, `tagged_union_queue.hpp`, `cli_sei.hpp`) | ring buffer, two indices, an "is empty" flag; the global interrupt flag | `push`, `pop`, tagged `pop`, `ignore`, `empty`, `full` | every daemon; the interrupt handlers of the serial line and of the clock push to it |
| Clock (`timers/rt_clock.cpp`) | time, table of alarms sorted by due time, `alarm_count`, last id | `set_alarm`, `cancel_alarm` (main loop), `on_tick` (interrupt) | calls alarm callbacks from the interrupt |
| Ticks (`rt_clock.hpp`, `timers.hpp`, the vectors) | mode, clock and compare registers of a timer; handler pointers of its two units | constructors and destructors; the vector calls the handler | call `on_tick` of a clock |
| Transmission daemon (`modbus_rtu_slave/transmission_daemon.cpp`) | five states, one 256 byte buffer, one alarm id | a protothread; `char_ready_cb` and `enqueue_timeout` run in interrupts | takes characters, timeouts and replies from one queue; sends frames to the PDU handler; writes to the serial port |
| PDU handler daemon (`pdu_handler_daemon.cpp`, `pdu_handler_base.hpp`) | coils (hardware registers), mirrors of ADC and counters, EEPROM configuration | one operation per Modbus function; `load_config`, `save_config` | replies to the transmission daemon; enables and disables channels and counters |
| ADC daemon (`adc_daemon.cpp`) | enabled channels and their count, active channel | enable, disable, read the next channel | sends values to the PDU handler |
| Counters daemon (`counters_daemon.cpp`), debouncer (`debouncer.hpp`) | integrators, edges and counters of 24 pins | enable, set, sample every 7 ms | sends values to the PDU handler |
| Serial port (`serial/include/vla/serial.hpp`) | read and write buffers, four global pointers, bits of `UCSR0B` | constructors and destructors, blocking, buffered and `write_some` variants, `read_line`, two handlers | transmission daemon, robots, test programs |
| Main loop (`modbus_rtu_slave/main.cpp`) | - | runs the daemons in turn, then the user's loop | all of the above |
| Proto plant (`proto_plant_main`) | 12 user registers, the last counts | `init`, `loop` at the end of each turn | reads counters and writes coils of the PDU handler, shares registers with the master |
| Its operator's program (`pymodbus_tui.py`) | four tables, which to read next | one reading per round, keys that write | Modbus master of the slave |
| Robot command parser and motors (`robot_main`, `command`, `motor_driver*`, `shift_register`, `pwm`) | line being parsed, motor registers | parse, set speed and direction | serial port, web server |
| Web control (`web_control`) | queue of commands to the robot, sessions; in the browser the last speed sent | `setSpeed2`, reconnect | websocket and serial line |

### What is hard in it, and what makes each part right

* *Queues* are shared with interrupt handlers and guarded by disabling
  interrupts, in one of three ways chosen per queue and side. Right: a queue is
  a bounded FIFO whatever statement a handler interrupts.
* *Clock.* Alarms are set and cancelled while others fire. Right: every alarm
  fires once, at its tick, unless it was cancelled first.
* *Transmission.* Frames are told apart by silence alone; the timer of the
  silence races the next character, replies race the turn-around timer, and
  requests and replies share a buffer. Right: whole frames in, one reply out,
  no deadlock.
* *PDU handler, ADC, counters.* Values and enable requests cross in queues; the
  mirror in the PDU handler must follow the last request. Multiple writes may
  fail half way.
* *Debouncer and counters.* History of inputs across disabling; protothreads
  lose their locals where they wait.
* *Serial port and ticks.* Both are set up and taken down with interrupts on,
  over pointers that the handlers follow without a test. Right: a handler finds
  its pointers at every statement, and what is written leaves.
* *Plant.* The program sees counts late, the operator older ones still. Right: a
  line stops at its top, the pins show the registers, keys act on what is there.
* *Robot and web.* Malformed lines, lost answers, reconnection; a robot must not
  go on moving.

`PROJECT.json` lists the hazards one by one, each at its line, with the property
that would catch it or why there is none yet.

## 2. Modules

| Module | Models | Kind |
|---|---|---|
| `BoundedFifo` | what a queue promises: accept unless full, deliver in order | abstract specification |
| `MsgQueue` | `basic_msg_queue` and `basic_tagged_union_queue`, statement by statement, with the lock types and a handler | implements `BoundedFifo` |
| `MCMsgQueue` | the queues the program declares | instance for TLC |
| `MsgQueueProofs` | theorems about `MsgQueue` | TLAPS |
| `Alarms` | the alarm table as operators on sequences | used by the next two |
| `RtClock` | `rt_clock` | component |
| `RtClockProofs` | theorems about `Alarms`, `RtClock` and `Ticks` | TLAPS |
| `Ticks` | the ticks that drive a clock, constructed and destroyed one after the other | composition with `RtClock` |
| `MCTicks` | the order of `timers_test/tick` | instance for TLC |
| `Transmission` | the transmission daemon with its interrupt handlers, the clock, and the PDU handler as it sees it | component |
| `RtuLink` | `Transmission` on a line with a Modbus master | composition |
| `RtuLinkProofs` | theorems about `RtuLink` and with it `Transmission` | TLAPS |
| `MCTransmission`, `MCRtuLink` | characters, addresses and replies | instances for TLC |
| `SlaveQueues` | the queues between the daemons of the slave, pins, channels and counters | used by the next three |
| `PduHandler` | the PDU handler daemon | component |
| `AdcDaemon` | the ADC daemon | component |
| `CountersDaemon` | the counters daemon | component |
| `Slave` | the three in the main loop, a master and a power supply | composition |
| `SlaveProofs` | theorems about `Slave` | TLAPS |
| `MCSlave` | requests and saved configurations | instance for TLC |
| `SerialPort` | `vla::serial` with its synchronous and asynchronous bases, the two handlers and the USART | component |
| `Console` | the programs that talk over it, with their command parser, and a client | composition |
| `ConsoleProofs` | theorems about `Console` | TLAPS |
| `MCConsole` | lines | instance for TLC |
| `Plant` | the program of the prototype plant, in the main loop of the slave | component |
| `Tui` | the plant and its operator's program | composition |
| `PlantProofs` | theorems about `Plant` and `Tui` | TLAPS |
| `MCPlant` | registers, values and settings | instance for TLC |
| `CleanSignals` | signals without bounces, and a count of their falls | abstract specification |
| `Debouncer` | the debouncer of the counters daemon | implements `CleanSignals` |
| `DebouncerProofs` | theorems about `Debouncer` | TLAPS |
| `Robot` | the firmware of the robots: their main loop, commands and motors | used by the next |
| `RobotControl` | a robot, the server and the page it is driven from | composition |
| `MCRobotControl` | places of the fingers | instance for TLC |
| `RobotProofs` | theorems about `RobotControl` | TLAPS |

### MsgQueue

`buffer`, `read`, `write`, `isEmpty` are the members of the class; `iflag` is bit
I of `SREG`; `sreg` the copy a `CliSei` keeps. The task (the main loop) is in at
most one call: `pc` is its next statement. Each action `Begin...` is a call with
the constructor of its lock, each other action one statement, `Unlock` the
destructor. `IsrPush` is a handler's push: handlers are not interrupted, so it
is one step, possible whenever `iflag` is set. `usage`, chosen in `Init` and
never changed, says how the queue is declared and who calls what, so that one
run covers every queue of the program.

`Disciplined` is the rule stated in the comment of the template (lines 38-40)
plus its consequence for `ignore`, which takes no lock. `DisciplinedSpec` keeps
to it.

The ring implements `BoundedFifo` under the mapping `Items`, `Out`. Between the
two statements of `_read_ptr_next`, and between the last two of `_push`, the flag
lags behind the indices, so the mapping looks at the indices there (`Vacant`): a push
of the task takes effect when `write` moves, whatever a handler does before the flag
follows. And `_pop` advances before it copies, so the message counts as handed out
from that moment (`Out`).

### Alarms and RtClock

`alarms[0 .. alarm_count-1]` is the sequence `alarms`; `alarmCount` is kept apart
because the code changes it apart. All three operations run with interrupts
disabled (`CliSei`, or in the handler), so each is one step. `due` and `fate` are
history: what was promised for an id, and what became of it. Clients cancel
pending alarms only, as `timers_test/rt_clock/main.cpp` does; `Alarms!Cancel` also
says what the code does for another id (it takes the last alarm off), which the
transmission daemon relies on.

### Ticks

A constructor or destructor is a list of statements (`Constructor`, `Destructor`: of
`timer_counter`, `cm_unit`, `tick_20khz_t` and the handler `rt_clock` sets), each an
assignment to a register or a pointer, and `Statement` carries out the next one; the
hardware (`Match`) and the vector (`Interrupt`, which is `OnTick`) may come before any
of them. `Uses` is the order in which the program declares its ticks. A clock ends
with its tick: `Destructed` drops its table, and its alarms that are pending count
as cancelled. `Reaches` is what the mode of the timer does: the code selects CTC
(`WGM01`), in which the counter turns round at the compare value of unit A, also
for a tick on unit B.

### SerialPort and Console

`regs` holds what is set among the four globals the handlers go through, the bits of
`UCSR0B` and bit I of `SREG`; constructors and destructors are lists of statements
again (`Constructor`, `Destructor`), with the handlers in between. A buffer is a
sequence: `MsgQueue` shows that of the read buffer to be one (`msg_queue`, pushed to by
a handler and with `CliSei` on both sides). The write buffer is declared alike, but
its handler pops, which `MsgQueue` does not have; each call of the task holds a `CliSei`
from its first statement to its last, so that pop falls between two calls. `received` is the receiver with its two places and shift register, `udr`
the data register and the character on its way out. `write()` of the asynchronous
port is two steps, the push and the enabling of the data register interrupt.

`Console` runs three programs over it, chosen in `Init`: `motor_main` of the robots
(synchronous port, parser), `echo` of `serial_test` (asynchronous) and
`write_sync_async`, which declares the two kinds of port in turn. A line is a
sequence of pieces that the parser treats alike; `buff` is the array of `read_line`,
which keeps what earlier lines left. `Arguments` is `skip_prefix`, whose loop compares
up to the end of the literal and then skips what both strings hold, the NUL of the
line included; whether another NUL follows the literal in memory is `behind`, chosen
in `Init`. `Slow` says in which places the program takes as long as a character does,
so that characters may arrive there; elsewhere it is faster (16 MHz against 520
microseconds a character). `calm` is history: the client waited for each answer, and
its lines fit.

### Plant and Tui

`turn` follows the main loop: the PDU handler takes the reports of the turn before
(`TakeReports`), then a request, the counters daemon counts (`Counters`: any enabled pin
may fall, and twice in the turn of a save), and `Loop` is `loop()` for both lines at one
time, any within the grinders' period. `mirror` are the counts as the PDU handler has
them, which is what `loop()` reads. `Located` finds a user register in the list of
records that `append_user_data` builds. `ddr` and `port` are the pins of all ports, as
they are for the master: `PlantInit` is the load of a configuration (or none) in the
constructor of the PDU handler with the coils of `init()` written behind it (`InitSet`,
`InitCleared`), and afterwards any coil may be written, saved and loaded (`WriteCoil`,
`SaveConfig`, `LoadConfig`) and the registers of timer 2 turn their pins into outputs
(`ServeRegister`). A write or a load is one step here; `Slave` has them coil by coil.
`armed`, `twice` and `stopped` are history (see `StopsAtTop`).

`Tui` reads one table in every round and lets a key act on the tables it has; a write
makes it read coils, or counters, next. Every key is there: 1, 0 and t on the coils
(`CoilKey`), s, l, r and R (`CommandKey`), +, - and Enter on the registers, q. Where the
cursor is when a key is pressed is left open. An answer that does not come within 10 ms
(`TimedOut`), what the library does not encode (a negative number, a value of 2^16) and a
key on a table not yet read end the program by an exception (`End`). `moved` is history:
the coils that anyone but a write to coils has changed since they were shown.

### Transmission

`pc` is the state of `state_t` refined by the next call on the queue or the clock:
`reception` is the wait in RECEPTION, `reception_cancel` the call of line 97, and
so on, one action each. Handlers (`Tick`, `Receive`) may run before each of them.
`ptxx_wait` gives way only if its condition is false, so at a wait the daemon
either leaves to the PDU handler (`turn`) or takes the head of the queue, whose
alternative decides where it goes (`WaitAt`). Only the daemon pops, so the head
cannot change between the attempts to pop each alternative. Queue operations are
atomic here; that is what `MsgQueue` is about.

Abstractions: a character is an opaque value; only `Address` (is it an address the
slave answers to, its own or the broadcast address 0, which the code answers
too) and `Reply` look at it. Time is the time left of each alarm, in ticks of one
character time (573 microseconds at 19200 baud), so the 32 bit clock never
wraps. An alarm's id is TRUE if it is the one stored in `aid`: nothing else is
ever done with ids. When `alarm_count` exceeds the table the code reads memory
that is not its own, and the model stops (`Defined`).

In PROCESSING there is no branch for a character: the loop would look at the same
head for ever without giving way. That is a step that changes nothing, so the
model has no step there.

### RtuLink

The master sends requests of several lengths, to this slave or to another one,
waits for the reply of the former and stays quiet after the latter. `Crackle` is
a conversation under way when the slave starts. `LinkTick` bounds the latency of
the main loop (`MaxLate` ticks in one turn), keeps the frame free of gaps, and lets
the serial port send one character.

### SlaveQueues, PduHandler, AdcDaemon, CountersDaemon and Slave

The daemons behind the transmission daemon run one at a time in a fixed order
(`turn`), and no handler pushes to their queues, so calls on queues are one step
and the steps of a turn follow each other; what varies is the requests, the
samples, the end of conversions and the power supply. `Ask` and `NoFrame` stand for
the turn of the transmission daemon, which `RtuLink` shows to deliver whole frames
one at a time.

`PduHandler`: addresses are numbers and mean what the code makes of them (`KindOf`,
`PinOf`), with `Bits` pins to a port; sums wrap, records are cut to 8 bits.
`Refusal` is the chain of checks of a handler in its order. A write is a `job` that
one action per kind of coil or register carries out, one at a time, because the
first that fails ends it and what is written stays written; `load_config` is such a
job too, at start-up or within a request. Replies are their kinds; the values
read, user data and the registers of timer 2 (but not the direction its pins get)
are left out. `adcOn`, `countersOn` and `countersValue` are the mirrors;
`eeprom` is whether the tag is there and which bits are set.

`AdcDaemon`: `adcPc` is the place in a turn: its message, its reading, or the wait of a
reply. The conversion ends in hardware (`ConversionEnds`).

`CountersDaemon`: `timeout` and the message just popped are locals of a protothread, so
a wait in a reply to an enable message ends in `lost`: after it the message is
a default one, and its `reply` is false for ever. Which signals fall in a sample is
any subset of those that are enabled and have taken `Apart` samples since they last
fell: the integrator needs 3 readings up and 3 down in between. `overdue` counts the
periods that are over and have no sample yet. A turn takes less than a period of 7 ms
(the tables at the end of `modbus_data_model.txt` have 3.15 ms at most) and adds one at
most, but `save_config` waits in `eeprom_write_block` for 14 of the 15 bytes of `config_t`,
3.4 ms each: 6 or 7 periods (`SavePeriods`). As `next_ts` goes on by one period per call
(`Elapse`), the daemon then takes up to 8 samples in one turn without giving way, with the
reports of each in between. They are all of the same millisecond, so it takes a bounce to
make a pin fall twice in them.

`Slave`: `PowerFails` puts all but the EEPROM back to its state after a reset;
`PowerFailsInSave(n)` does so in the middle of `save_config` with `n` bytes written.
A failure elsewhere has the effect of the former. `refused` and `behind` are history,
used by `MirrorsFollow` only: the counters whose message found the queue full
(finding 4), and the channels disabled behind another message. A reading that
the ADC daemon takes before it gets to the latter sets the mirror, which then
shows a channel that is off as on until it is written again.

### CleanSignals and Debouncer

`CleanSignals` says what is expected of a filter of bounces with any integrating
policy: a signal changes only after `Samples` readings against it since it last
changed, and it has changed after as many in a row; each fall of an enabled
signal is counted and reported once. `Debouncer` has a record per signal, as
`signal_state` and the policy's counter are members of one object in the code. `Cycle`
is `do_one` (read, integrate, decide) with the loop of the counters daemon that
reports the falls, whose queue has room (`SlaveProofs`); `SetEnabled` and `SetValue`
come between two cycles, by messages. Disabling a signal resets nothing: its
integrator and its last value wait until it is enabled again. `against` and `run`
are history, of the readings alone; the refinement shows that the saturating
integrator stands between them. `CountersDaemon` uses what is shown here: its `Sample`
takes any subset of the enabled signals as fallen, each of which is counted and
reported once.

### Robot and RobotControl

`Robot`: a line is the four numbers of a well-formed command, or garbage if a part
of it was lost, and the parser (`IsCommand`) tells one from the other; it has read
the whole line before the first motor moves. The serial port has no buffer, so a
line that comes while the robot answers may lose a part, and one that comes while
it starts may be lost altogether. `drive` is what the motors' registers hold: of one
board the bits of the shift register and the powers, of the other the members of
its motors and their levels (`SetDirection`, `SetSpeed`). `board` is chosen in `Init`.

`RobotControl`: `Touch`, `Move` and `Lift` are the handlers of touches, `Reply`, `Break`
and `Connect` those of the websocket. `Send` is `setSpeed2` with all it calls down to
the socket. `Accept` and `Heard` are the handlers of the server; `Welcome` and `Dequeue`
are the two things a line from the robot means. A lost connection lets a part of
what was sent through and drops the answers; the server answers over the
connection it was asked over. `obeyed` and `calm` are history. `calm` says that since
a moment when nothing was under way neither the robot has started nor a connection
was lost; what an answer is about is known only then. Left out: a second page, a
restart of the server, and the order in which messages of the old connection and
the new one arrive (the old ones come first here).

## 3. Runs

| Run | Question | Result |
|---|---|---|
| `msg_queue` (`MsgQueue.cfg`) | Is every queue, used as its comment demands, a FIFO at every interleaving? | `TypeOK`, `HandlerSeesTruth`, `ImplementsFifo` hold |
| `msg_queue_replies` (`MsgQueueTransmission.cfg`) | And the transmission queue as it is used? | violated: finding 1 |
| `rt_clock` (`RtClock.cfg`) | Does the table account for every alarm, does each fire, and in time, with ticks on either unit that come and go? | `TypeOK`, `NoAlarmLost`, `HandlerReady`, `FiresOnTime`, `AlarmsFire` hold |
| `rtu_link` (`RtuLink.cfg`) | Does the slave receive whole frames, answer each request, and only then talk? | `LinkTypeOK`, `FramesIntact`, `SpeaksWhenAsked`, `OneTimer`, `Answered` hold |
| `slave` (`Slave.cfg`) | Do mirrors, daemons, pins and EEPROM agree, do replies never wait, is every request answered and every enabled channel read, whatever is asked and whenever the power fails? | `SlaveTypeOK`, `NothingWaits`, `CountsChannels`, `MirrorsFollow`, `PinsRestored`, `Answered`, `ChannelsRead` hold |
| `debouncer` (`Debouncer.cfg`) | Is the debouncer a filter of bounces and a counter of falls, also for signals disabled in between? | `TypeOK`, `Hysteresis`, `ImplementsClean` hold |
| `robot_control` (`RobotControl.cfg`) | Does the robot do what the page believes, and is every command answered? | `TypeOK`, `NoResidue`, `InStep`, `Believed`, `Settled` hold |
| `console` (`Console.cfg`) | Are ports set up, used and taken down without a handler over a null pointer or a character lost, and are lines read and commands parsed to the letter, and answered? | `TypeOK`, `HandlersReady`, `NothingUnsent`, `LineByLine`, `NothingStale`, `Answered` hold |
| `plant` (`Plant.cfg`) | Do lines stop at their tops, do the pins follow the registers, is the oven of a line that is off turned off, whatever the operator does; and do the operator's keys act on what is there? | `TypeOK`, `StopsAtTop`, `PinsFollow`, `TogglesTruth`, `OwnWritesSeen`, `SwitchedOff` hold |
| `slave_restore` | Does a reset restore the saved configuration? | violated: finding 4 |
| `transmission_late_cancel` | Is a timer that goes off just before it is cancelled harmless, as the code's comment has it? | violated: finding 2 |
| `robot_stop` | Does the page send a stop when the robot moves? | violated: finding 3 |

Every property of a passing run has a mutant in the module it is about (operators
named `...Mutant`), a plausible slip in that code; with it in place of the
original TLC finds the property violated.

### Bounds

* `MsgQueue.cfg`: a ring of 2 slots is the smallest where full, empty and partly
  filled differ and indices wrap; three messages of two alternatives. The proofs
  cover every size.
* `RtClock.cfg`: a table of 2 (it fills up, and alarms are inserted and removed at
  either end), ticks of 2 and delays of 2 and 3 (due on a tick and between two), 3
  alarms within 3 ticks per clock, and two ticks, on unit A and then on unit B, as
  `timers_test/tick` has them. Deadlock is not checked: the horizon ends the run, not
  the code. The proofs cover every value.
* `Console.cfg`: buffers and a receiver of 2, an array of 8, so a command of 6 pieces
  fits and one of 8 is cut; 2 lines from a command, one with a bad direction that does
  not fit, and the name alone. The second line is what finds the remains of the first.
  Deadlock is not checked: the client may stop. The proofs cover every size and line.
* `Plant.cfg`: words of 6 values and bytes of 4, so that a count that wraps and a power of
  a full byte occur; a grinder of one level, whose period of 3 and tick of 2 round as the
  code's do. Both lines are on as an earlier operator left them, the first with a top of 1,
  the second with its grinder at full duty; one edge is counted, or one pair in the turn of
  a save, and two keys are pressed that write: save, load, run and pause, `1`, `0` and `t` on
  the direction of a pin of line 2's oven and on the output of line 1's grinder (one coil
  that only the operator changes, and one that `loop()` changes behind the table), and
  steps and a typed value on the counter and the switch of line 1. Two keys make the
  second act on a table that the first has made old. Deadlock is not checked: the bounds
  end a run. The proofs cover every number of bags and keys, every coil, register and
  configuration.
* `RtuLink.cfg`: requests of 1 and 3 characters (with and without the path of line
  96), replies of 2 through a write buffer of 1 (so `write_some` is called again),
  two request ids, at most 2 characters at power-up, one tick per turn of the
  main loop, so a character waits at most two ticks. The silence of 3 ticks is
  1750 us, the turn-around of 2 ticks 1000 us. `Between` is 6 ticks and `Quiet`
  20. These margins matter: with `Between` of 4 (3.5 characters, which Modbus
  allows) TLC finds requests the slave misses, because it is still in EMISSION;
  with a gap of 2 characters and a late main loop, finding 2 strikes; with a
  `Quiet` of 12 after a power-up in mid-conversation, alarms that INITIAL set and
  forgot are still pending when the request comes. `MarginsAssumption` states them for
  every size, and the proofs cover every value within it.
* `Slave.cfg`: ports of 2 pins, so 6 pins and counters and 2
  channels; queues of 2 for the daemons, in proportion to the 8 of the code for
  ports of 8 (a load fits the ADC queue and overruns the other three times);
  counters of one bit, so that they wrap; 2 requests from an EEPROM that is
  erased or holds a configuration with an output, a channel, two pull-ups and a
  counter on, so that a load, a save over an older one and changes behind a
  load are within reach. One write has a range that wraps past the last address and a
  first coil whose record is cut to that of `EC`: it passes the check and enables a
  counter, and the mirrors still agree. In the code that is a write of 1833 coils and
  more from an address in 0xf890-0xf8d7, which a frame holds. A save takes 2 or 3 periods
  and a signal falls in every second sample at most, so up to 4 samples are taken in a
  turn and each pin may fall in two of them, as in the code, with 7 and 6. The queue of the
  PDU handler has 14 places, 2 + 6 * `Bits`, the least that `RoomAssumption` allows, as the
  50 of the code are for its 8 pins to a port.
* `Debouncer.cfg`: the threshold of the code, 3, two signals (which are independent,
  but enabled and set one at a time), counters of one bit. The proofs cover every
  threshold, width and set of signals.
* `SlaveRestore.cfg` has the sizes of the code.
* `RobotControl.cfg`: two places of the fingers, which between them turn each motor
  forward and backward, and two moves with the stops between them, so up to four
  commands are under way, and one fault, a lost connection or a restart, at
  any time. The start of the robot, whose greeting meets the first commands, makes
  the race of `Welcome` reachable without a fault. (The invariants were checked once
  with two faults.) Deadlock is not checked: the user may stop.
* `RobotStop.cfg`: one move and one fault.
* `TransmissionLateCancel.cfg`: a queue of 3, any input at any time and a main loop of
  any latency; the counterexample needs no full queue.

### Fairness

`LinkSpec` assumes weak fairness of the main loop (it is `while(true)`), of the tick
(the timer interrupt is never disabled for long) and of the master's next
character within a frame. Nothing makes the master ask.

`Slave!Spec` assumes weak fairness of the main loop and strong fairness of the end
of a conversion: the hardware ends it by itself after at most 25 ADC clock cycles,
but the model lets it end only before the main loop comes to the ADC daemon, so it
is enabled infinitely often and not always. The power may fail at any time and
need not; nothing makes the master ask.

`TicksSpec` assumes weak fairness of constructors and destructors that have begun, of
the counter of a timer that runs and of a pending interrupt that is enabled; a
program may stay in a block for ever.

`Console!Spec` assumes weak fairness of the program, of the handlers and of the line in
each direction. Nothing makes the client send. `Tui!Spec` assumes weak fairness of the
main loop only; nobody has to press a key.

`RobotControl!Spec` assumes weak fairness of each event loop's and the robot's
handling of what has arrived, which is all these programs do. Nothing makes the
user touch, the connection break or come back, or the robot start.

## 4. Proofs

All assumptions are the named `ASSUME`s of the modules: positive sizes, a usage
of the declared form, natural delays, `MAX_ALARMS` below 256, lines without the mark
that ends them, three relations of sizes and times that the code has
(`RoomAssumption`, with no place to spare, `LoadAssumption` and `PeriodsAssumption`, below),
a grinder whose full duty has no pause (`PlantAssumption`); and for the slave on its line the master's
frames (`SentAssumption`) and the margins of time and room of `MarginsAssumption`.

* `MsgQueueProofs`. `QueueInvariant` strengthens the two invariants with three
  parts: `ControlInv` (which `pc` belongs to which `op`), `LockInv` (the interrupt
  flag follows from the lock of the call in progress), `RingInv` (how the flag and
  the indices relate at each statement, e.g. between the statements of
  `_read_ptr_next` only `read` has moved). `HandlerFindsIdle`: in a disciplined
  usage a handler runs only where the ring is consistent. From these
  `HandlersSeeTruth` and `RingImplementsFifo` follow; the latter goes action by
  action (`PushStep`, `ReadStep`, `HandlerStep`, `SilentStep`), on lemmas about
  what a push and a pop do to the sequence `Items`.
* `RtClockProofs`. First the table: `DueBeforeStops` (the loops stop, and where:
  the least element of a set of naturals, got from the well-foundedness of
  inclusion on finite sets), `InsertEntries`, `RemoveEntries`, `DropEntries` (which
  entry of the new table comes from which of the old). `ClockInv` adds to the
  invariants that the table is sorted, that nothing in it is overdue, and that
  ids above the last one are unused; without the first two an overdue alarm could
  hide behind one that is not due, and the tick would pass over it. The theorems
  are `TypeCorrect`, `AlarmsAccountedFor` and `AlarmsFireOnTime`.

  A statement of a constructor or destructor of `Ticks` leaves the clock alone, and
  `Interrupt`, `UseClock` are steps of `RtClock`, so `ClockInv` carries over; the step of
  its own is `Destructed`, which turns the time back and empties the table. `UnitsInv`
  says at which statement of the script each unit is and what it has set by then; from
  it `UnitHandlersReady`: a unit whose interrupt is enabled has its handler and data.

* `RtuLinkProofs`. The invariant `LinkInv` is a disjunction of the stages of the slave's
  work, and a lemma per stage says where its steps lead (`StartingStep` to
  `OverlappingStep`): *Starting*, the noise at power-up and the timeouts behind it;
  *Resting*; *Receiving*, the characters in the queue being those of the frame that have
  yet to be taken; *Ended* and *Handed*, the frame complete and in the hands of the PDU
  handler; *Executed*, where timeout and reply meet in either order; *Emitting*; and
  *Overlapping*, the next request begun before the silence behind the reply has been
  noticed. Each stage says how long it can still take, for that is what decides which
  event comes first: `Latency` bounds the ticks until the daemon has served its queue, so
  a character behind which silence has begun is stored before its timer can go off
  (`Timing`), no more characters wait than have come since (`Backlog`), and the sum of the
  times ahead stays below the silence the master keeps (`Within`, `Soon`). In *Starting*
  each character of the noise leaves one alarm more in the table; the measure is the
  number of timeouts still to come (`Steps`) times what each of them takes (`Round`), and
  `Patient` says that no alarm goes off before the noise is over. The table lemmas are
  those of `RtClockProofs`, for times that are left. `LinkTypesCorrect`, `FramesStayWhole`,
  `SpeaksOnlyWhenAsked` and `OneTimerOnly` follow.

  `MarginsAssumption` has for each of these comparisons the inequality it takes. In the
  code 1750 us and 1000 us are 3 and 2 character times at 19200 baud, the queue has 50
  places and the clock 16 alarms, so with characters back to back (`MaxGap` of 1) the main
  loop has to come round within a character time: the longest pass for which a frame is
  sure to stay whole. `MaxNoise` is at most 3 then, the characters within one silence of the
  power-up; what more of them would do is told in section 5.

* `ConsoleProofs`. `Ready` says, for each statement of the two scripts, which pointers
  and interrupt bits are set before it (`ConstructReady`, `DestructReady`); with it no
  handler meets a null pointer. `Types` needs it for where a script ends. `Unsent` adds
  to `NothingUnsent` that the write buffer is empty wherever a port is made or taken
  down, without which the next `Begin` would drop characters; the sequence lemmas
  `HeadAndTail` and `TailOfConcat` carry a character from the buffer to the line.
  `NothingIsStale` follows an argument after the other (`Places`): the search for each
  cannot pass the NUL that ends the line (`BlanksStop`, `LineEnded`).
  `ReadToTheLetter` follows a dialogue with a calm client through five phases
  (`Dialogue`): the port is made, an answer is written (its only mark is the last
  character that will leave), the client has it, its line comes in, the line is handled.
  While it comes in, receiver and buffer together hold at most one character, for the
  next arrives only when the program waits for it (`ComingIn`); so neither overruns,
  however small, and what `read_line` has is a prefix of what was sent.

* `PlantProofs`. `PlantInvariant` adds to the types what each part of a turn leaves for
  the next. `Lag`: until the counters daemon has run, a count in its message is the
  mirror's; a report is of the count, which is ahead of the mirror by the falls reported.
  `Armed`: an armed line is on, and below its top unless `loop()` is about to see it there.
  `Requests` and `Tables`: what the operator has asked for was computed from tables that
  differ from the slave in `moved` and `unseen` only. `PinsFollow` is made anew
  by each `loop()`, whatever state that begins in: it writes the whole of both ovens and
  grinders, each under its mask (`PinsStep`).
  Nothing but the operator's own steps comes between the end of the loop and the turn of the
  PDU handler, and those leave pins and registers alone (`PinsKept`).
  `FullDuty` is
  the arithmetic of a grinder at 255: 2000000 / 255 is 7843, and 255 * 7843 = 1999965 us
  is beyond the last tick of the period, so it is on throughout. From these follow
  `LinesStopAtTop`, `PinsFollowRegisters`, `TablesAreFresh` (`TogglesTruth`, with the set
  `Movable` of the coils that others may change) and `OwnWritesAreSeen`.

* `SlaveProofs`. `ChannelsCounted` from `ChannelsInv`: the set of channels is finite
  and its cardinality counted. `NothingEverWaits` from `SlaveInv`, which says how
  many messages are in the queue of the PDU handler at each place of the main
  loop (`RoomInv`): none when the ADC daemon begins, at most one when the counters
  daemon begins, and while that runs those sent and those still owed fit together in
  `Room`, the size of the queue less the place that a request or a reading has
  (`CountersRoom`). What is owed is a reply to each message and the edges of the samples to
  come (`OwedAtMost`). In an ordinary turn that is a reply to each message and one edge of
  each pin, 2 + `CounterQueueSize` + `3 * Bits` places: 34. In the turn of a save (`SaveInv`)
  there is one request, which is the save, and with it no message for the counters daemon
  (`NoCommandNext`), and by `PeriodsAssumption`, 7 + 1 samples against two times 6, no pin
  falls more than twice: 2 + `6 * Bits` places, 50, and the code has 50
  (`RoomAssumption`). With fewer the counters daemon can lose its locals in a reply.
  `EdgesOfSample` says that a sample has at most `3 * Bits` edges, and that needs the type
  of the messages and of the job under way (`MessagesInv`).
  `SlaveTypesCorrect` needs no more than that the address of a write stays in range.
  `LoadRestores`: `LoadedTo(n)` says that the first n coils of the configuration are
  written as the EEPROM has them; the n-th of the list is the n-th address (`ConfigCoils`,
  `CoilOfRecord`), none of them can fail, and no save or second load comes in between.
  `MirrorsAgree` has three parts. *Channels* (`ChannelMirrors`): a message that turns a
  channel off finds the queue of the ADC daemon empty, or the channel is one of the
  excepted ones, or it is turned on again behind it (`Orderly`); the daemon takes it in
  the same turn, before it reads the next channel, so no reading turns the mirror on
  again. *One message* (`Once`): in the queue of the counters daemon each counter has one
  message at most, for a write goes through its counters upwards and what comes behind
  them cannot be written, which ends the request; only a load goes on, and one at
  start-up leaves the queue full. This is where `LoadAssumption` is needed, that the
  queue is no longer than the list of counters: 8 and 24. *Counters* (`CounterMirrors`):
  with a message in the queue the mirror is what the daemon will make of it and no report
  is on its way (`Due`); with none, the last report or the mirror itself has what the
  daemon counts (`Followed`).

* `DebouncerProofs`. The invariant is `TypeOK /\ Hysteresis`, which is inductive. One
  signal at a time first: `Disabled` and `Enabled` say what a cycle does to a record,
  `CycleOfSignal` puts that in the terms of `CleanSignals`. From these `TypeCorrect` and
  `IntegratorJudges`; and `CycleIsSample`, whose witness is the set of signals that
  change, gives `DebouncerImplementsClean`. Without `Hysteresis` the refinement is not
  provable: an integrator that had moved further than the readings would make a
  signal change too early.

* `RobotProofs`. `ControlInv` adds to `InStep` where the last command of the page is
  (`LastCommand`: on the socket, in the queue or obeyed) and, in calm, that a line on the
  wire is the head of the queue and undamaged. `Believed` is that with nothing under
  way. One lemma per handler; `CommandsInStep` and `PageBelievesRight` hold for any
  number of commands, lost connections and restarts. `TypesCorrect` bounds the number of
  messages by that of the user's moves: each is the source of two at most, its own and
  the stop that follows it (`Owed`). `MotorsKeepNothing` rests on `ObeyedAt`, that a line
  leaves the motors in a state that depends on the line only, from whatever state: for
  one driver because the poles of the two motors are apart and those of one are cleared
  together (`PolesApart`, `ControlOf`), for the other because direction, speed and level
  are written for each motor (`MotorTurned`).

Only model-checked: every liveness property (`Answered`, `ChannelsRead`, `AlarmsFire`,
`SwitchedOff`, `Settled`), for liveness under fairness is out of the prover's reach. Every
invariant and action property of a passing run is stated by a theorem.

## 5. Findings

1. *Replies are pushed without a lock.* `transmission_queue_t` declares `NopLock`
   for writers, which `msg_queue.hpp:38-40` allows if writes happen in handlers
   only. `pdu_handler_daemon.cpp:445` and `transmission_daemon.cpp:122,131` push
   from the main loop. In the run the push has found room when handlers fill the ring,
   and its store then overwrites the oldest message, which is never delivered.
2. *Cancelling an alarm that has fired corrupts the table.* `rt_clock.cpp:39`
   decrements `alarm_count` whether or not the id was found; with no alarm left it
   becomes 255. `transmission_daemon.cpp:98-99` expects the alarm to fire just
   before its cancellation now and then.
3. *A stop is not sent.* `api.js:88` remembers a speed as sent before it is, also
   if the message is rejected or lost with the connection. From then on a stop ("0
   => stop", line 65) is answered OK and not sent, and the robot goes on.
4. *Most counters are not restored.* `load_config` pushes 24 messages into the queue
   of 8 of the counters daemon before the daemon first runs and does not look at
   the result; those of PORTB, on or off, fill it. `modbus_data_model.txt:153`
   promises the whole configuration.

### Seen while modelling

Each is in the model as the code has it; no run is about it.

* INITIAL waits for silence, and at each character cancels an alarm and sets two
  (`transmission_daemon.cpp:67,70,71`), one of which nobody cancels: its id is not kept. It
  goes off 3.5 characters later whatever has come since, and the slave is in READY in the
  middle of a conversation and takes the next character for the first of a frame.
  `MaxNoise * MaxGap <= InterFrame` of `MarginsAssumption` leaves this out.
* `pdu_handler_daemon.hpp:148` compares `addr + count < 0x00d8`; 0xD7 is PO23 in
  `modbus_data_model.txt:109`. The last output can be read and not written, and
  writing all outputs at once is refused as well.
* A `tick_20khz_t` on unit B alone (`tick_0b_20khz`, `tick_2b_20khz`) never ticks at 20
  kHz, which the comment at `rt_clock.hpp:20-24` says it does: in the mode that its
  constructor selects the counter turns round at the compare register of unit A,
  which is 0 after a reset, and the constructor sets that of unit B. `timers_test/tick`
  does not show it, because its tick on unit A comes first and no destructor clears
  the register.
* In the plant `counter == top` (`main.cpp:125`) is passed over for good if the count gets
  beyond the top while the line is off or the program paused, or if the top is lowered
  below the count; or if two falls are counted in the turn of a save, whose samples are taken
  one right after the other (`counters_daemon.cpp:47-66`), which takes a bounce within a
  millisecond. `README.txt:7` there has "if != 0, stop the line when the counter reaches this
  value". `StopsAtTop` is about a line that was on below its top, and names the save.
  `counter1_last` is not brought up to date while the line is off, so a line that is
  switched on again takes a weight that is none.
* What a pull-up does to the direction: `modbus_data_model.txt:124-125` says "Setting EIPnn
  automatically sets IODnn", the help of `pymodbus_tui.py:43-44` "Setting EIP automatically
  clears IOD". The code (`pdu_handler_daemon.cpp:210-227`) does neither: it never touches
  the direction, and ignores a pull-up of an output. `PinsRestored` demands what the code
  does, the direction as it is in the EEPROM: by either document a load of a configuration
  with both bits, as a save cut short by the power can leave it, would end otherwise.
* An output of a pin that is an input is "Ignored" by `modbus_data_model.txt:132-133` and
  `pymodbus_tui.py:47-48`; the code fails the write (`pdu_handler_daemon.cpp:256-273`), and
  with it what comes behind it in a write of several coils.
* "t to toggle the selected bit" (`pymodbus_tui.py:53`) writes the opposite of what the table
  shows. On a coil that `loop()` sets in every turn, an oven's or a grinder's, that may be what
  the slave has by then: `TogglesTruth` excepts coils that others have changed, and
  says which these can be (`Movable`).
* The `s` key saves, which takes the slave 50 ms; the client waits 10 ms for an
  answer, gets an exception in place of it and ends (`TimedOut`).
* The comment at `api.js:61-66` has "+1 => full forward", but the steps of
  `_discretizePositive` are tested with `<` and the last is 1.0, so exactly 1 is a stop.
* `proto_plant_main/README.txt` says of the ovens' power "Only two lowest bits are
  meaningful", but `to_3bits` gives full power for every value from 3 on. A grinder
  with program 0 is still on at phase 0 (`<=` in `set_grinder`).
* In the operator's program '+' pressed twice on user data between two readings of that
  table loses one of the two: a write is followed by a reading of the counters. Enter with
  the value shown writes nothing, though it may be an old one. '-' on 0, or '+' on a table
  not yet read, ends the program.
* The example in the comments of `main_msv1.cpp` and `main_mvla.cpp`, "SPEEDS2 0x01 0x80 1
  0x80", is refused by `read_direction`, which wants the 0x.
* A line that is the name of the command alone makes `skip_prefix` read past its NUL; what
  it reads are the arguments of the line before if the byte behind the literal is
  NUL as well (`NothingStale` names the case).

## 6. Not modelled

* The PWM modes, timer 1, notes, servo, buzzer demonstrations and the tests of single
  drivers: register writes in a straight line, without state of their own or an
  actor to meet. The choice of prescalers (`find_closest.hpp`) is made at compile time.
* The binary layout of messages and of the tagged union: templates that the compiler
  resolves.
* The wrap of the clock after 71 minutes and of alarm ids: the proofs of the clock are
  about time in the naturals. What breaks at the wrap is `when < now` at
  `rt_clock.cpp:16` and line 18: an alarm set across it is due at once.
* `buffer_i` past 256 characters, and a character in PROCESSING, whose wait never gives
  way again: the master of `RtuLink` keeps to the protocol.
* The start-up before the first turn of the main loop, where the receive interrupt is
  enabled before `set_queue` (`main.cpp:37`): a character in those microseconds is
  pushed through a null pointer.
* The camera, static files and pings of the web server; a second page; drawing in
  `pymodbus_tui.py`, and its keys on coils that can only be read (AU, AI, AO, PI), whose
  writes the slave refuses.
* The values and waveforms of timer 2 on PB3 and PD3, of which the plant has the directions
  only; the values of the analog inputs.

## 7. Plan

1. The noise in `RtuLink` for any length, with what it does to the first frames behind it.
2. The time modulo a power of two in `Alarms`, and the proofs that change with it.
3. Frames longer than the buffer in `RtuLink`.
4. The start-up of `main()`, statement by statement as in `SerialPort`.
