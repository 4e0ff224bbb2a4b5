----------------------------- MODULE PduHandler -----------------------------
(***************************************************************************)
(* The PDU handler daemon: it executes the requests of the Modbus master   *)
(* on the pins, passes on what concerns channels and counters, keeps       *)
(* mirrors of what their daemons report, and saves and loads the           *)
(* configuration.  A write of several coils or registers is executed one   *)
(* by one and stops at the first that fails.                               *)
(*                                                                         *)
(* A reply is its kind: what a read returns, and the registers of the      *)
(* timer behind TC2ACONF and TC2BCONF, are left out.                       *)
(***************************************************************************)
EXTENDS SlaveQueues

CONSTANTS
    AddressMod,         \* 2^16: addresses and counts are uint16_t
    RegistryMod,        \* 2^8: the record of a coil is a uint8_t
    SaveAddress, LoadAddress, RunAddress,   \* 0x100, 0x101, 0x102
    MaxCoils, MaxReadRegisters, MaxWriteRegisters,
    TimerPin(_),        \* the pin driven by a timer register: PB3 or PD3
    UserSize            \* user_data_size

Kinds == <<"AU", "AI", "AO", "IOD", "IOM", "EIP", "EC", "PI", "PO">>

\* Records, each the coils of one port.
CoilsEnd  == 27 * Bits
FirstIOD  == 9 * Bits
Config    == 0 .. 12 * Bits - 1     \* config_coils_t: IOD, IOM, EIP and EC

ASSUME AddressesAssumption ==
    /\ {AddressMod, RegistryMod, MaxCoils, MaxReadRegisters, MaxWriteRegisters} \subseteq Nat \ {0}
    /\ {SaveAddress, LoadAddress, RunAddress} \subseteq CoilsEnd + 1 .. RegistryMod * Bits - 1
    /\ \A a \in {SaveAddress, LoadAddress, RunAddress} : a + MaxCoils < AddressMod
    /\ RegistryMod * Bits <= AddressMod
    /\ SaveAddress # LoadAddress /\ SaveAddress # RunAddress /\ LoadAddress # RunAddress
    /\ \A t \in {"A", "B"} : TimerPin(t) \in Pin
    /\ UserSize \in Nat

Registry(a) == (a \div Bits) % RegistryMod
KindOf(a)   == IF Registry(a) < 27 THEN Kinds[Registry(a) \div 3 + 1] ELSE "none"
PinOf(a)    == (Registry(a) % 3) * Bits + (a % Bits)
OnPortC(a)  == Registry(a) % 3 = 1
ChannelOf(a) == a % Bits

\* Registers: channels, TC2ACONF, TC2BCONF, counters, user data.
TimerA       == Bits
TimerB       == Bits + 1
FirstCounter == Bits + 2
UserBegin    == FirstCounter + 3 * Bits

VARIABLES
    request,        \* the frame in the buffer shared with the transmission daemon
    answer,         \* what the master has been told
    job,            \* the write under way, "none" between two
    ddr, port,      \* pins whose bit is set in DDRx and PORTx
    running,        \* program_running
    adcOn,          \* mirror: adc_state::enabled
    countersOn,     \* mirror: counters_state::enabled
    countersValue,  \* mirror: counters_state::values
    eeprom,         \* ROM_CONFIG: is the tag there, and which bits are set
    refused,        \* history: counters whose message found the queue full
    behind          \* history: channels disabled behind another message

mirrors == <<adcOn, countersOn, countersValue>>
history == <<refused, behind>>
pduVars == <<request, answer, job, ddr, port, running, mirrors, eeprom, history>>

Answer == {"none", "pending", "ok", "function", "address", "value", "failure"}

NoJob == [kind |-> "none", addr |-> 0, rest |-> <<>>]
Job(kind, addr, rest) == [kind |-> kind, addr |-> addr, rest |-> rest]

\* An erased EEPROM has every bit set.
Erased == [valid |-> FALSE, bits |-> Config]

-----------------------------------------------------------------------------
(* The checks of pdu_handler_base, in their order.  Sums wrap at 16 bits.  *)

ReadableCoils(addr, count) ==
    \/ (addr + count - 1) % AddressMod < CoilsEnd
    \/ addr = RunAddress /\ count = 1

\* The end of the range is exclusive twice.
WritableCoils(addr, count) ==
    \/ addr >= FirstIOD /\ (addr + count) % AddressMod < CoilsEnd
    \/ addr \in {SaveAddress, LoadAddress, RunAddress} /\ count = 1

ValidRegisters(addr, count) == (addr + count) % AddressMod <= UserBegin + UserSize

\* `formed`: the byte count fits, the value of a single coil is 0 or 0xff00.
Refusal(r) ==
    LET Within(ok, max) ==
            IF ~ok THEN "address" ELSE IF r.count \in 1 .. max /\ r.formed THEN "none" ELSE "value"
    IN  IF r.fn = "read_coils" THEN Within(ReadableCoils(r.addr, r.count), MaxCoils)
        ELSE IF r.fn = "write_coil" THEN Within(WritableCoils(r.addr, 1), 1)
        ELSE IF r.fn = "write_coils" THEN Within(WritableCoils(r.addr, r.count), MaxCoils)
        ELSE IF r.fn = "read_registers"
             THEN Within(ValidRegisters(r.addr, r.count), MaxReadRegisters)
        ELSE IF r.fn = "write_register" THEN Within(ValidRegisters(r.addr, 1), 1)
        ELSE IF r.fn = "write_registers"
             THEN Within(ValidRegisters(r.addr, r.count), MaxWriteRegisters)
        ELSE "function"

-----------------------------------------------------------------------------
(* Reading.                                                                *)

\* execute_read_single_coil, for the coils of the configuration.
ConfigCoil(a) ==
    \/ KindOf(a) = "IOD" /\ PinOf(a) \in ddr
    \/ KindOf(a) = "IOM" /\ OnPortC(a) /\ ChannelOf(a) \in adcOn
    \/ KindOf(a) = "EIP" /\ PinOf(a) \in port \ ddr
    \/ KindOf(a) = "EC"  /\ PinOf(a) \in countersOn

\* Reading fails at a coil of no record; registers never fail.
ReadAnswer(r) ==
    IF r.fn = "read_coils" /\ \E k \in 0 .. r.count - 1 : KindOf((r.addr + k) % AddressMod) = "none"
    THEN "failure" ELSE "ok"

-----------------------------------------------------------------------------
(* operator()() and handle_indication.                                     *)

PduTurn(tag) == turn = "pduh" /\ job = NoJob /\ inQ # <<>> /\ Head(inQ).tag = tag

TakeIndication ==
    /\ PduTurn("buffer")
    /\ inQ' = Tail(inQ)
    /\ IF Refusal(request) # "none"
       THEN answer' = Refusal(request) /\ UNCHANGED job
       ELSE IF request.fn \in {"read_coils", "read_registers"}
       THEN answer' = ReadAnswer(request) /\ UNCHANGED job
       ELSE /\ job' = Job(IF request.fn \in {"write_coil", "write_coils"} THEN "coils"
                          ELSE "registers", request.addr, request.data)
            /\ UNCHANGED answer
    /\ UNCHANGED <<turn, adcQ, counterQ, request, ddr, port, running, mirrors, eeprom, history>>

TakeReading ==
    /\ PduTurn("adc")
    /\ inQ' = Tail(inQ)
    /\ adcOn' = adcOn \cup {Head(inQ).id}
    /\ UNCHANGED <<turn, adcQ, counterQ, request, answer, job, ddr, port, running,
                   countersOn, countersValue, eeprom, history>>

TakeCount ==
    /\ PduTurn("counter")
    /\ inQ' = Tail(inQ)
    /\ countersOn' = countersOn \cup {Head(inQ).id}
    /\ countersValue' = [countersValue EXCEPT ![Head(inQ).id] = Head(inQ).value]
    /\ UNCHANGED <<turn, adcQ, counterQ, request, answer, job, ddr, port, running,
                   adcOn, eeprom, history>>

PduWait ==
    /\ turn = "pduh" /\ job = NoJob /\ inQ = <<>>
    /\ turn' = "adc"
    /\ UNCHANGED <<inQ, adcQ, counterQ, pduVars>>

-----------------------------------------------------------------------------
(* Writing: one coil or register of the job at a time.                     *)

\* Mutant: a write that failed is not answered.
FinishMutant(how) ==
    /\ job' = NoJob
    /\ IF turn = "boot" THEN turn' = "tr" /\ UNCHANGED answer
       ELSE answer' = (IF how = "ok" THEN how ELSE answer) /\ UNCHANGED turn

\* The job is over.  At start-up, load_config in the constructor, nobody is
\* told.
Finish(how) ==
    /\ job' = NoJob
    /\ IF turn = "boot" THEN turn' = "tr" /\ UNCHANGED answer
       ELSE answer' = how /\ UNCHANGED turn

Writing(kind) ==
    /\ job.kind = kind /\ job.rest # <<>>
    /\ UNCHANGED <<inQ, request>>

WritingCoil(kind) == Writing("coils") /\ KindOf(job.addr) = kind

Advance ==
    /\ job' = [job EXCEPT !.addr = (@ + 1) % AddressMod, !.rest = Tail(@)]
    /\ UNCHANGED <<turn, answer>>

Written == Head(job.rest)

\* Mutant: bits are set and never cleared.
SetBitMutant(bits, pin, v) == IF v THEN bits \cup {pin} ELSE bits

SetBit(bits, pin, v) == IF v THEN bits \cup {pin} ELSE bits \ {pin}

JobDone ==
    /\ job.kind # "none" /\ job.rest = <<>>
    /\ Finish("ok")
    /\ UNCHANGED <<inQ, adcQ, counterQ, request, ddr, port, running, mirrors, eeprom, history>>

WriteDirection ==
    /\ WritingCoil("IOD")
    /\ ddr' = SetBit(ddr, PinOf(job.addr), Written)
    /\ Advance
    /\ UNCHANGED <<adcQ, counterQ, port, running, mirrors, eeprom, history>>

\* Ports B and D have no analog mode and ignore it.  A channel's mirror is
\* cleared at once and set by its first reading.
WriteMode ==
    /\ WritingCoil("IOM")
    /\ LET c == ChannelOf(job.addr)
       IN  IF OnPortC(job.addr)
           THEN /\ adcQ' = Push(adcQ, [id |-> c, enabled |-> Written], AdcQueueSize)
                /\ adcOn' = IF Written THEN adcOn ELSE adcOn \ {c}
                /\ behind' = IF ~Written /\ adcQ # <<>> THEN behind \cup {c}
                             ELSE IF Len(adcQ) = AdcQueueSize THEN behind
                             ELSE behind \ {c}
           ELSE UNCHANGED <<adcQ, adcOn, behind>>
    /\ Advance
    /\ UNCHANGED <<counterQ, ddr, port, running, countersOn, countersValue, eeprom, refused>>

\* Ignored for an output.
WritePullUp ==
    /\ WritingCoil("EIP")
    /\ port' = IF PinOf(job.addr) \in ddr THEN port ELSE SetBit(port, PinOf(job.addr), Written)
    /\ Advance
    /\ UNCHANGED <<adcQ, counterQ, ddr, running, mirrors, eeprom, history>>

WriteCounting ==
    /\ WritingCoil("EC")
    /\ LET c == PinOf(job.addr)
           full == Len(counterQ) = CounterQueueSize
       IN  /\ counterQ' = Push(counterQ, [tag |-> "enable", id |-> c, enabled |-> Written],
                               CounterQueueSize)
           /\ countersOn' = IF Written THEN countersOn ELSE countersOn \ {c}
           /\ refused' = IF full THEN refused \cup {c} ELSE IF Written THEN refused \ {c} ELSE refused
    /\ Advance
    /\ UNCHANGED <<adcQ, ddr, port, running, adcOn, countersValue, eeprom, behind>>

\* Fails for an input.
WriteOutput ==
    /\ WritingCoil("PO")
    /\ IF PinOf(job.addr) \in ddr
       THEN port' = SetBit(port, PinOf(job.addr), Written) /\ Advance
       ELSE Finish("failure") /\ UNCHANGED port
    /\ UNCHANGED <<adcQ, counterQ, ddr, running, mirrors, eeprom, history>>

\* Coils of other records fail, but for the commands.
UnwritableCoil ==
    /\ \E kind \in {"AU", "AI", "AO", "PI", "none"} : WritingCoil(kind)
    /\ job.addr \notin {SaveAddress, LoadAddress, RunAddress}
    /\ Finish("failure")
    /\ UNCHANGED <<adcQ, counterQ, ddr, port, running, mirrors, eeprom, history>>

SetRunning ==
    /\ Writing("coils") /\ job.addr = RunAddress
    /\ running' = Written
    /\ Advance
    /\ UNCHANGED <<adcQ, counterQ, ddr, port, mirrors, eeprom, history>>

SavedConfig == [valid |-> TRUE, bits |-> {k \in Config : ConfigCoil(FirstIOD + k)}]

SaveConfig ==
    /\ Writing("coils") /\ job.addr = SaveAddress
    /\ eeprom' = SavedConfig
    /\ Advance
    /\ UNCHANGED <<adcQ, counterQ, ddr, port, running, mirrors, history>>

ConfigJob == Job("coils", FirstIOD, [k \in 1 .. 12 * Bits |-> k - 1 \in eeprom.bits])

\* The answer is that of the writes, which takes the place of this one.
LoadConfig ==
    /\ Writing("coils") /\ job.addr = LoadAddress
    /\ IF eeprom.valid
       THEN job' = ConfigJob /\ UNCHANGED <<turn, answer>>
       ELSE Finish("failure")
    /\ UNCHANGED <<adcQ, counterQ, ddr, port, running, mirrors, eeprom, history>>

\* A timer in a mode other than DISCONNECTED makes its pin an output; mode 1
\* is not valid.
WriteTimer ==
    /\ Writing("registers") /\ job.addr \in {TimerA, TimerB}
    /\ LET mode == (Written \div 4096) % 4
       IN  IF mode = 1
           THEN Finish("failure") /\ UNCHANGED ddr
           ELSE /\ ddr' = IF mode = 0 THEN ddr
                          ELSE ddr \cup {TimerPin(IF job.addr = TimerA THEN "A" ELSE "B")}
                /\ Advance
    /\ UNCHANGED <<adcQ, counterQ, port, running, mirrors, eeprom, history>>

WriteCounter ==
    /\ Writing("registers") /\ job.addr \in FirstCounter .. UserBegin - 1
    /\ LET c == job.addr - FirstCounter
           v == Written % WordMod
       IN  /\ countersValue' = [countersValue EXCEPT ![c] = v]
           /\ counterQ' = Push(counterQ, [tag |-> "value", id |-> c, value |-> v],
                               CounterQueueSize)
           /\ refused' = IF Len(counterQ) = CounterQueueSize THEN refused \cup {c} ELSE refused
    /\ Advance
    /\ UNCHANGED <<adcQ, ddr, port, running, adcOn, countersOn, eeprom, behind>>

\* User data lies in the program's own memory.
WriteUserData ==
    /\ Writing("registers") /\ job.addr >= UserBegin
    /\ IF UserSize > 0 THEN Advance ELSE Finish("failure")
    /\ UNCHANGED <<adcQ, counterQ, ddr, port, running, mirrors, eeprom, history>>

\* Readings of channels cannot be written.
WriteReading ==
    /\ Writing("registers") /\ job.addr < TimerA
    /\ Finish("failure")
    /\ UNCHANGED <<adcQ, counterQ, ddr, port, running, mirrors, eeprom, history>>

PduStep ==
    \/ TakeIndication \/ TakeReading \/ TakeCount \/ PduWait \/ JobDone
    \/ WriteDirection \/ WriteMode \/ WritePullUp \/ WriteCounting \/ WriteOutput
    \/ UnwritableCoil \/ SetRunning \/ SaveConfig \/ LoadConfig
    \/ WriteTimer \/ WriteCounter \/ WriteUserData \/ WriteReading

-----------------------------------------------------------------------------

PduTypeOK ==
    /\ answer \in Answer
    /\ job.kind \in {"none", "coils", "registers"} /\ job.addr \in 0 .. AddressMod - 1
    /\ ddr \subseteq Pin /\ port \subseteq Pin
    /\ running \in BOOLEAN
    /\ adcOn \subseteq Channel /\ countersOn \subseteq Counter
    /\ countersValue \in [Counter -> Word]
    /\ eeprom.valid \in BOOLEAN /\ eeprom.bits \subseteq Config
    /\ refused \subseteq Counter /\ behind \subseteq Channel
=============================================================================
