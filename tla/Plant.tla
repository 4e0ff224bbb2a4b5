-------------------------------- MODULE Plant --------------------------------
(***************************************************************************)
(* The program of the prototype plant, a user program of the Modbus slave: *)
(* two lines, each with an oven, a grinder, a switch and a counter of bags *)
(* at which it stops.  It runs at the end of each turn of the main loop,   *)
(* on user registers and pins that it shares with the master, and on the   *)
(* values of the counters that the PDU handler has.                        *)
(*                                                                         *)
(* A write of the master is one step here, and so is a load or a save of   *)
(* the configuration; module Slave has them bit by bit, with the power     *)
(* failing in between.  No daemon waits for room in a queue (SlaveProofs), *)
(* so all that is in a queue is taken in the next turn of the daemon that  *)
(* reads it, but for the messages to the ADC daemon, which takes one in a  *)
(* turn: a channel that was ever enabled may be reported at any time here. *)
(***************************************************************************)
EXTENDS Integers, Sequences, FiniteSets

CONSTANTS
    WordMod, ByteMod,   \* 2^16 and 2^8
    ModeUnit,           \* 2^12: the mode of a timer's register is above it
    Levels,             \* the full duty of a grinder: 255
    Period, Tick,       \* of the grinders and of the clock: 2000000 and 50 us
    Spread,             \* of the simulated weights: 200
    Saved,              \* the configurations that may be in the EEPROM
    MaxBags             \* bound: edges counted, two of a pin in one turn as one

ASSUME PlantAssumption ==
    /\ {WordMod, ByteMod, ModeUnit, Levels, Period, Tick, Spread} \subseteq Nat \ {0}
    /\ WordMod > 1 /\ MaxBags \in Nat
    /\ Saved \subseteq SUBSET (72 .. 167)
    \* In the last tick of a period a grinder at full duty is still on.
    /\ \A t \in 0 .. Period - 1 : t % Tick = 0 => t <= Levels * (Period \div Levels)

VARIABLES
    turn,               \* the part of main() that is running
    request,            \* of the master, not yet served
    userData,           \* the words of user_data
    ddr, port,          \* pins whose bit is set in DDRx and PORTx
    channels,           \* analog inputs that have been enabled
    signals, enable,    \* counters enabled in their daemon, and what it is sent
    adcOn, countersOn,  \* mirrors: adc_state::enabled and counters_state::enabled
    mirror,             \* the values of the lines' counters in the PDU handler
    counted, assign,    \* those in the counters daemon, and a value it is sent
    reported, twice,    \* counters with a report in the queue, or with two of a fall
    late,               \* the turn has waited for the EEPROM
    eeprom,             \* is there a configuration, and which coils are set in it
    running,            \* program_running
    last,               \* counter1_last, counter2_last
    bags,               \* edges so far, up to MaxBags
    stopped,            \* history: lines switched off in the last loop()
    armed               \* history: see Loop

pinVars   == <<ddr, port, channels, signals, enable, adcOn, countersOn, eeprom>>
countVars == <<mirror, counted, assign, reported, twice, late, bags>>
loopVars  == <<userData, running, last, stopped, armed>>
plantVars == <<turn, request, pinVars, countVars, loopVars>>

Line  == 1 .. 2
Word  == 0 .. WordMod - 1
Pin   == 0 .. 23            \* of PORTB, PORTC and PORTD
PortC == 8 .. 15

\* Where the fields of user_data are.
Oven(l) == l - 1
Grinder(l) == l + 1
Switch(l) == l + 3
Top(l) == l + 5
Ref(l) == l + 7
Kg(l) == l + 9
Field == 0 .. 11

Low(w) == w % ByteMod
On(l)  == Low(userData[Switch(l)]) # 0

-----------------------------------------------------------------------------
(* Addresses.                                                              *)

\* Coils: one of each pin.
IOD == 72
IOM == 96
EIP == 120
EC  == 144
PO  == 192
Coil   == 0 .. 215
Config == 72 .. 167         \* config_coils_t
SaveCoil    == 256
LoadCoil    == 257
RunningCoil == 258

\* The pins of a kind whose coil is in a set.
Of(kind, coils) == {p \in Pin : kind + p \in coils}

\* Registers.
TimerPin       == [a \in {8, 9} |-> IF a = 8 THEN 3 ELSE 19]    \* PB3 and PD3
CounterAddress == <<33, 21>>
SwitchAddress  == <<52, 53>>
CounterBegin   == 10
UserBegin      == 34
Register       == 0 .. 59

CounterPin(l) == CounterAddress[l] - CounterBegin       \* D7 and C3
GrinderPin(l) == l + 8                                  \* C1 and C2

\* The list of user registers: those of main(), and behind them user_data.
Records == <<14, 12>>

\* get: the field of user_data that is the i-th word of the list.
Located(i) == IF i < Records[1] THEN {}             \* one of main()
              ELSE {i - Records[1]} \cap (0 .. Records[2] - 1)

\* What init() sets and what it clears.
InitSet ==
    {IOD + p : p \in 0 .. 5}                    \* ovens
    \cup {EC + 23, EIP + 23}                    \* push button
    \cup {EC + 11, EIP + 11}                    \* photoresistor
    \cup {IOM + 8}                              \* silo
    \cup {IOD + 9, IOD + 10}                    \* grinders
InitCleared == {IOD + 23, IOD + 11, IOD + 8, PO + 9, PO + 10}

\* Those of PORTB: the queue of the counters daemon has room for 8 messages.
Accepted == 0 .. 7

\* The coils that are set, but for those no one can write.
CoilsOn ==
    {IOD + p : p \in ddr} \cup {IOM + p : p \in adcOn} \cup {EIP + p : p \in port \ ddr}
    \cup {EC + p : p \in countersOn} \cup {PO + p : p \in port}

NoRequest == [op |-> "none", addr |-> 0, value |-> 0]

\* The configuration is loaded, the daemons have their first turn, init() runs;
\* then there is nothing to do before the counters daemon.
PlantInit ==
    /\ turn = "counters" /\ request = NoRequest
    /\ eeprom \in {[valid |-> FALSE, coils |-> {}]} \cup {[valid |-> TRUE, coils |-> S] : S \in Saved}
    /\ LET found(kind) == Of(kind, eeprom.coils)
       IN  /\ ddr = (found(IOD) \cup Of(IOD, InitSet)) \ Of(IOD, InitCleared)
           /\ port = ((found(EIP) \ found(IOD)) \cup Of(EIP, InitSet)) \ Of(PO, InitCleared)
           /\ channels = (found(IOM) \cup Of(IOM, InitSet)) \cap PortC
           /\ signals = found(EC) \cap Accepted /\ countersOn = signals
    /\ enable = [p \in Of(EC, InitSet) |-> TRUE] /\ adcOn = {}
    /\ mirror = [l \in Line |-> 0] /\ counted = [l \in Line |-> 0]
    /\ assign = [l \in {} |-> 0] /\ reported = {} /\ twice = {} /\ late = FALSE
    /\ running = TRUE /\ last = [l \in Line |-> 0]
    /\ bags = 0 /\ stopped = {} /\ armed = {}

-----------------------------------------------------------------------------
(* The PDU handler.                                                        *)

\* What the daemons have sent in the last turn: counts, and a reading at most.
TakeReports ==
    /\ turn = "pduh" /\ turn' = "serve"
    /\ mirror' = [l \in Line |-> IF CounterPin(l) \in reported THEN counted[l] ELSE mirror[l]]
    /\ countersOn' = countersOn \cup reported
    /\ adcOn' \in {adcOn} \cup {adcOn \cup {p} : p \in channels}
    /\ reported' = {} /\ twice' = {}
    /\ UNCHANGED <<request, loopVars, ddr, port, channels, signals, enable, eeprom,
                   counted, assign, late, bags>>

\* No frame has come in.  (One that is late might as well be sent later.)
ServeNothing ==
    /\ turn = "serve" /\ request.op = "none" /\ turn' = "counters"
    /\ UNCHANGED <<request, pinVars, countVars, loopVars>>

Served(ops) ==
    /\ turn = "serve" /\ turn' = "counters"
    /\ request.op \in ops /\ request' = NoRequest

ServeRead ==
    /\ Served({"read"})
    /\ UNCHANGED <<pinVars, countVars, loopVars>>

\* A toggle is a write like any other.
ServedCoil(addr) == Served({"coil", "toggle"}) /\ request.addr = addr

SetRunning ==
    /\ ServedCoil(RunningCoil)
    /\ running' = (request.value # 0) /\ armed' = {}
    /\ UNCHANGED <<pinVars, countVars, userData, last, stopped>>

SaveConfig ==
    /\ ServedCoil(SaveCoil)
    /\ eeprom' = [valid |-> TRUE, coils |-> CoilsOn \cap Config]
    /\ late' = TRUE
    /\ UNCHANGED <<ddr, port, channels, signals, enable, adcOn, countersOn, mirror, counted,
                   assign, reported, twice, bags, loopVars>>

\* First the directions, then the others, as they are in config_coils_t.  (The
\* answer says if there was a configuration.)
LoadConfig ==
    /\ ServedCoil(LoadCoil)
    /\ LET found(kind) == Of(kind, eeprom.coils)
       IN  IF eeprom.valid
           THEN /\ ddr' = found(IOD)
                /\ port' = (port \cap found(IOD)) \cup (found(EIP) \ found(IOD))
                /\ adcOn' = adcOn \cap found(IOM)
                /\ channels' = channels \cup (found(IOM) \cap PortC)
                /\ countersOn' = countersOn \cap found(EC)
                /\ enable' = [p \in Accepted |-> p \in found(EC)]
           ELSE UNCHANGED <<ddr, port, channels, adcOn, countersOn, enable>>
    /\ UNCHANGED <<signals, eeprom, countVars, loopVars>>

SetBits(bits, pins, v) == IF v THEN bits \cup pins ELSE bits \ pins

\* One coil of a pin.  A pull-up of an output is ignored and an output of an
\* input fails, as do the coils that can only be read; 215 is out of the range.
\* Mirrors are cleared at once and set by the daemon's report.
WriteCoil ==
    /\ Served({"coil", "toggle"}) /\ request.addr \in Coil
    /\ LET named(kind) == Of(kind, {request.addr} \cap 72 .. 214)
           v == request.value # 0
       IN  /\ ddr' = SetBits(ddr, named(IOD), v)
           /\ port' = SetBits(port, (named(EIP) \ ddr) \cup (named(PO) \cap ddr), v)
           /\ adcOn' = IF v THEN adcOn ELSE adcOn \ named(IOM)
           /\ channels' = IF v THEN channels \cup (named(IOM) \cap PortC) ELSE channels
           /\ countersOn' = IF v THEN countersOn ELSE countersOn \ named(EC)
           /\ enable' = [p \in named(EC) |-> v]
    /\ UNCHANGED <<signals, eeprom, countVars, loopVars>>

ServeCoil == SetRunning \/ SaveConfig \/ LoadConfig \/ WriteCoil

TimerMode(v) == (v \div ModeUnit) % 4

\* execute_write_single_register: the register of a timer, which makes its pin an
\* output in the modes 2 and 3, a value that the counters daemon is sent too, or
\* one of the user registers.  Those of channels fail.
ServeRegister ==
    /\ Served({"register"})
    /\ LET lines  == {l \in Line : CounterAddress[l] = request.addr}
           fields == IF request.addr >= UserBegin THEN Located(request.addr - UserBegin) ELSE {}
       IN  /\ mirror' = [l \in Line |-> IF l \in lines THEN request.value ELSE mirror[l]]
           /\ assign' = [l \in lines |-> request.value]
           /\ userData' = [f \in Field |-> IF f \in fields THEN request.value ELSE userData[f]]
           /\ armed' = armed \ (lines \cup {l \in Line : Top(l) \in fields \/ Switch(l) \in fields})
    /\ ddr' = ddr \cup {TimerPin[a] : a \in {8, 9} \cap IF TimerMode(request.value) > 1
                                                       THEN {request.addr} ELSE {}}
    /\ UNCHANGED <<port, channels, signals, enable, adcOn, countersOn, eeprom,
                   counted, reported, twice, late, bags, running, last, stopped>>

-----------------------------------------------------------------------------
(* The counters daemon.                                                    *)

\* Mutant: the counter is wider than its register.
IncrementedMutant(w) == w + 1

Incremented(w) == (w + 1) % WordMod

\* After the messages it is sent.
Enabled == (signals \ DOMAIN enable) \cup {p \in DOMAIN enable : enable[p]}

\* Then periods may be over: the pins in `fallen` fall, and after a save, which
\* takes several periods, some of them once `again` (module CountersDaemon).
\* Enabled pins and those that fell are reported.
Counters(fallen, again) ==
    /\ turn = "counters" /\ turn' = IF running THEN "loop" ELSE "pduh"
    /\ signals' = Enabled /\ (late \/ again = {})
    /\ bags' = bags + Cardinality(fallen) /\ bags' <= MaxBags
    /\ LET value(l) == IF l \in DOMAIN assign THEN assign[l] ELSE counted[l]
       IN  counted' = [l \in Line |->
               IF CounterPin(l) \in again THEN Incremented(Incremented(value(l)))
               ELSE IF CounterPin(l) \in fallen THEN Incremented(value(l))
               ELSE value(l)]
    /\ reported' = fallen \cup {p \in DOMAIN enable : enable[p]} /\ twice' = again
    /\ assign' = [l \in {} |-> 0] /\ enable' = [p \in {} |-> FALSE] /\ late' = FALSE
    /\ UNCHANGED <<request, ddr, port, channels, adcOn, countersOn, eeprom, mirror, loopVars>>

-----------------------------------------------------------------------------
(* loop()                                                                  *)

\* to_3bits, which has up to eight.
Ones(v) == {b \in 0 .. 7 : b < v}

\* Mutant: the rest of the port is not kept.
set_with_maskMutant(p, mask, v) == v \cap mask

set_with_mask(p, mask, v) == (p \ mask) \cup (v \cap mask)

Mask(l)  == {b \in 0 .. 5 : b \div 3 = l - 1}

\* What an oven is given if its line is on.
Heat(l) == {b + 3 * (l - 1) : b \in Ones(Low(userData[Oven(l)]))} \cap Mask(l)

\* Mutant: the oven of a line that is off is left as it is set.
PowerMutant(l) == Heat(l)

Power(l) == IF On(l) THEN Heat(l) ELSE {}

\* The times of one period.
Times == {t \in 0 .. Period - 1 : t % Tick = 0}

\* set_grinder, for a line that is on or off.
Turns(l, on, time) ==
    time <= (IF on THEN Low(userData[Grinder(l)]) ELSE 0) * (Period \div Levels)

\* Mutant: a line is stopped by the count of the turn before.
ReachedMutant(l) ==
    On(l) /\ userData[Top(l)] # 0 /\ last[l] = userData[Top(l)]

Reached(l) ==
    On(l) /\ userData[Top(l)] # 0 /\ mirror[l] = userData[Top(l)]

Weight(l, time) ==
    (userData[Ref(l)] + ((time \div Tick) % Spread) - (Spread \div 2)) % WordMod

\* Both lines.  (History: a line is armed from when it is on below its top until
\* it is off, or counts two bags in one turn, or the master writes its switch, its
\* top or its counter, or pauses the program.)
Loop(time) ==
    /\ turn = "loop" /\ turn' = "pduh"
    /\ LET ovens == set_with_mask(set_with_mask(port, Mask(1), Power(1)), Mask(2), Power(2))
       IN  port' = (ovens \ {GrinderPin(l) : l \in Line})
                   \cup {GrinderPin(l) : l \in {k \in Line : Turns(k, On(k), time)}}
    /\ userData' = [f \in Field |->
           IF \E l \in Line : Reached(l) /\ f \in Located(SwitchAddress[l] - UserBegin) THEN 0
           ELSE IF \E l \in Line : On(l) /\ mirror[l] > last[l] /\ f = Kg(l)
           THEN Weight(f - 9, time)
           ELSE userData[f]]
    /\ last' = [l \in Line |-> IF On(l) THEN mirror[l] ELSE last[l]]
    /\ stopped' = {l \in Line : Reached(l)}
    /\ armed' = {l \in Line : /\ On(l) /\ ~Reached(l) /\ CounterPin(l) \notin twice
                              /\ l \in armed \/ mirror[l] < userData[Top(l)]}
    /\ UNCHANGED <<request, countVars, running, ddr, channels, signals, enable, adcOn,
                   countersOn, eeprom>>

-----------------------------------------------------------------------------

PlantTypeOK ==
    /\ turn \in {"pduh", "serve", "counters", "loop"}
    /\ request.op \in {"none", "read", "coil", "toggle", "register"}
    /\ request.addr \in Nat /\ request.value \in Word
    /\ userData \in [Field -> Word]
    /\ ddr \subseteq Pin /\ port \subseteq Pin /\ signals \subseteq Pin /\ countersOn \subseteq Pin
    /\ reported \subseteq Pin /\ twice \subseteq Pin /\ DOMAIN enable \subseteq Pin
    /\ channels \subseteq PortC /\ adcOn \subseteq PortC
    /\ eeprom.valid \in BOOLEAN /\ eeprom.coils \subseteq Config
    /\ mirror \in [Line -> Word] /\ counted \in [Line -> Word] /\ last \in [Line -> Word]
    /\ DOMAIN assign \subseteq Line /\ \A l \in DOMAIN assign : assign[l] \in Word
    /\ armed \subseteq Line /\ stopped \subseteq Line
    /\ running \in BOOLEAN /\ late \in BOOLEAN /\ bags \in 0 .. MaxBags

\* A line that was on below its top stops when its count reaches it: though the
\* program compares for equality, and sees the counts late and at the end of a
\* turn only, none slips by, unless the master writes in between or two bags are
\* counted in one turn, in the samples that come together after a save.
StopsAtTop ==
    \A l \in armed : /\ On(l) /\ mirror[l] <= userData[Top(l)]
                     /\ mirror[l] = userData[Top(l)] => turn # "pduh"

\* The pins of a line's oven that are outputs and high.  (PB3 shows the waveform
\* of timer 2 instead while that is connected.)
Pins(l) == port \cap Mask(l) \cap ddr

\* The pins of a line, in or out of its part of the grinder's period.
Follows(l, time) ==
    LET on == On(l) \/ l \in stopped
    IN  /\ Pins(l) = (IF on THEN Heat(l) ELSE {}) \cap ddr
        /\ GrinderPin(l) \in port <=> Turns(l, on, time)
        /\ on /\ Low(userData[Grinder(l)]) >= Levels => GrinderPin(l) \in port

\* After each turn of a running program, whatever the master wrote to directions,
\* pull-ups, outputs and registers or loaded in it, the pins of both ovens that
\* are outputs show what their registers say and none those of the other line,
\* and nothing is left on for a line that is off; if the count has just reached
\* its top, the pins are those of the line as it was, for one more turn.  The
\* grinders are on in their part of the period, all of it at full duty.
PinsFollow ==
    turn = "pduh" /\ running => \E time \in Times : \A l \in Line : Follows(l, time)
=============================================================================
