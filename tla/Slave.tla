-------------------------------- MODULE Slave --------------------------------
(***************************************************************************)
(* The Modbus slave: the PDU handler, the ADC and the counters daemons in  *)
(* its main loop, a master that sends a request, waits for the answer and  *)
(* sends the next one, and a power supply that may fail.  The transmission *)
(* daemon (modules Transmission and RtuLink) only delivers here: at most   *)
(* one frame in a turn of the main loop.                                   *)
(***************************************************************************)
EXTENDS PduHandler, AdcDaemon, CountersDaemon

CONSTANTS
    Requests,       \* what the master may ask
    MaxRequests,    \* bound: requests asked
    Saved           \* configurations the EEPROM may hold at first, if any

ASSUME RequestsAssumption ==
    /\ \A r \in Requests :
         /\ r.addr \in 0 .. AddressMod - 1 /\ r.count \in 0 .. AddressMod - 1
         /\ r.fn \in {"write_coil", "write_coils"} =>
                r.data \in Seq(BOOLEAN) /\ Len(r.data) = r.count
         /\ r.fn = "write_coil" => r.count = 1
         /\ r.fn \in {"write_register", "write_registers"} => r.data \in Seq(Nat)
    /\ MaxRequests \in Nat
    /\ Saved \subseteq SUBSET Config

\* What may come in one turn of the main loop: a request, a reading, a reply to
\* each message for the counters daemon and a fall of each pin, or, after a
\* save, two falls of each pin.  There is room for 50 in the code, for 34 or 50.
ASSUME RoomAssumption ==
    /\ PduQueueSize >= 2 + CounterQueueSize + 3 * Bits
    /\ PduQueueSize >= 2 + 6 * Bits

\* The load at start-up writes every counter, which fills the queue of their
\* daemon: 24 for 8.
ASSUME LoadAssumption == CounterQueueSize <= 3 * Bits

VARIABLES
    asked,          \* how many requests so far
    fresh           \* history: nothing has been asked since the power came back

vars == <<turn, inQ, adcQ, counterQ, pduVars, adcVars, countersVars, overdue, asked, fresh>>

NoRequest == [fn |-> "none", addr |-> 0, count |-> 0, data |-> <<>>, formed |-> TRUE]

Init ==
    /\ QueuesInit /\ AdcInit /\ CountersInit
    /\ request = NoRequest /\ answer = "none" /\ job = NoJob
    /\ ddr = {} /\ port = {} /\ running = TRUE
    /\ adcOn = {} /\ countersOn = {} /\ countersValue = [c \in Counter |-> 0]
    /\ refused = {} /\ behind = {}
    /\ eeprom \in {Erased} \cup [valid : {TRUE}, bits : Saved]
    /\ asked = 0 /\ fresh = TRUE

\* What RAM and registers hold after a reset: everything but the EEPROM.
Reset ==
    /\ turn' = "boot" /\ inQ' = <<>> /\ adcQ' = <<>> /\ counterQ' = <<>>
    /\ request' = NoRequest /\ answer' = "none" /\ job' = NoJob
    /\ ddr' = {} /\ port' = {} /\ running' = TRUE
    /\ adcOn' = {} /\ countersOn' = {} /\ countersValue' = [c \in Counter |-> 0]
    /\ refused' = {} /\ behind' = {}
    /\ channels' = {} /\ enabledCount' = 0 /\ active' = 0 /\ busy' = FALSE /\ adcPc' = "message"
    /\ signals' = {} /\ counters' = [c \in Counter |-> 0] /\ edges' = {}
    /\ timeout' = FALSE /\ countersPc' = "wait"
    /\ rest' = [c \in Counter |-> Apart - 1] /\ overdue' = 0
    /\ fresh' = TRUE

\* load_config in the constructor; the daemons run after it.
BootLoad ==
    /\ turn = "boot" /\ job = NoJob
    /\ IF eeprom.valid THEN job' = ConfigJob /\ UNCHANGED turn
       ELSE turn' = "tr" /\ UNCHANGED job
    /\ UNCHANGED <<inQ, adcQ, counterQ, request, answer, ddr, port, running, mirrors, eeprom,
                   history, adcVars, countersVars, overdue, asked, fresh>>

\* A frame for this slave has come in; the last answer is gone.  Not in the
\* first turn, which ends with what a load left for the counters daemon: the
\* transmission daemon waits for a silence on the line before anything else.
Ask(r) ==
    /\ turn = "tr" /\ counterQ = <<>> /\ answer # "pending" /\ asked < MaxRequests
    /\ turn' = "pduh"
    /\ inQ' = Push(inQ, [tag |-> "buffer"], PduQueueSize)
    /\ request' = r /\ answer' = "pending"
    /\ asked' = asked + 1 /\ fresh' = FALSE
    /\ UNCHANGED <<adcQ, counterQ, job, ddr, port, running, mirrors, eeprom, history,
                   adcVars, countersVars, overdue>>

NoFrame ==
    /\ turn = "tr"
    /\ turn' = "pduh"
    /\ answer' = IF answer = "pending" THEN answer ELSE "none"
    /\ request' = IF answer = "pending" THEN request ELSE NoRequest
    /\ UNCHANGED <<inQ, adcQ, counterQ, job, ddr, port, running, mirrors, eeprom, history,
                   adcVars, countersVars, overdue, asked, fresh>>

\* The power fails and comes back.  Only the EEPROM survives, so it makes no
\* difference when, except during a write of it.
PowerFails ==
    /\ turn = "tr" /\ ~fresh
    /\ Reset
    /\ UNCHANGED <<eeprom, asked>>

Saving == job.kind = "coils" /\ job.rest # <<>> /\ job.addr = SaveAddress

\* In eeprom_write_block, after `n` bytes: those of the tag, then those of the
\* bits, a byte for each record.
PowerFailsInSave(n) ==
    /\ Saving
    /\ eeprom' = [valid |-> eeprom.valid \/ n >= 3,
                  bits  |-> {k \in Config : IF k \div Bits < n - 3 THEN k \in SavedConfig.bits
                                            ELSE k \in eeprom.bits}]
    /\ Reset
    /\ UNCHANGED asked

\* The periods that a step of the PDU handler lasts for: the write of the
\* EEPROM is 14 waits of 3.4 ms.
Elapses ==
    IF Saving THEN \E n \in {SavePeriods - 1, SavePeriods} : overdue' = overdue + n
    ELSE UNCHANGED overdue

MainLoop ==
    \/ BootLoad
    \/ NoFrame
    \/ PduStep /\ Elapses /\ UNCHANGED <<adcVars, countersVars, asked, fresh>>
    \/ AdcStep /\ UNCHANGED <<pduVars, countersVars, overdue, asked, fresh>>
    \/ CountersStep /\ UNCHANGED <<pduVars, adcVars, asked, fresh>>

Conversion == ConversionEnds /\ UNCHANGED <<pduVars, countersVars, overdue, asked, fresh>>

Next ==
    \/ MainLoop
    \/ \E r \in Requests : Ask(r)
    \/ Conversion
    \/ PowerFails
    \/ \E n \in 0 .. 14 : PowerFailsInSave(n)

\* The main loop never ends.  The ADC finishes a conversion by itself after 25
\* of its cycles at most; in the model it does so at a given point of the main
\* loop only, hence strong fairness.
Spec == Init /\ [][Next]_vars /\ WF_vars(MainLoop) /\ SF_vars(Conversion)

-----------------------------------------------------------------------------

SlaveTypeOK ==
    /\ QueuesTypeOK /\ PduTypeOK /\ AdcTypeOK /\ CountersTypeOK
    /\ request \in Requests \cup {NoRequest}
    /\ asked \in 0 .. MaxRequests /\ fresh \in BOOLEAN

\* No daemon ever has to wait for room in the queue of the PDU handler: the
\* replies of one turn of the main loop fit, those of the samples that a save
\* has put off and that are taken in one turn then included, so a protothread
\* that would lose its locals, or its message, in a wait never gets there.
NothingWaits ==
    /\ adcPc # "reply" /\ countersPc # "lost"
    /\ turn # "counters" => countersPc # "edges"

\* The ADC daemon counts the enabled channels right, whatever sequence of
\* requests, repeated ones included: it is off if and only if none is
\* enabled, and its search for the next one ends.
CountsChannels == enabledCount = Cardinality(channels)

ChannelsSettled ==
    /\ adcQ = <<>> /\ adcPc = "message"
    /\ \A i \in DOMAIN inQ : inQ[i].tag # "adc"

CountersSettled ==
    /\ counterQ = <<>> /\ countersPc = "wait"
    /\ \A i \in DOMAIN inQ : inQ[i].tag # "counter"

\* With no message on the way the mirrors in the PDU handler show what the
\* daemons do: no channel on that is off, every counter on or off as it is and
\* with its value, though counts and readings cross writes and requests in
\* the queues.  Excepted are the counters whose message was refused by a full
\* queue and the channels disabled behind another message.
MirrorsFollow ==
    /\ ChannelsSettled => adcOn \ behind \subseteq channels
    /\ CountersSettled => \A c \in Counter \ refused :
           /\ c \in countersOn <=> c \in signals
           /\ countersValue[c] = counters[c]

\* A load, at start-up or on request, leaves every pin in the direction and
\* every input with the pull-up that the EEPROM has for it, also when the
\* power failed in the middle of the save.  The data model would have a pull-up
\* make its pin an output and the operator's help an input; either would break
\* this where the EEPROM has both, and the code does neither.
PinsRestored ==
    (/\ job.kind = "coils" /\ job.rest = <<>> /\ job.addr = FirstIOD + 12 * Bits
     /\ turn = "boot" \/ request.addr = LoadAddress)
    => \A p \in Pin :
           /\ p \in ddr <=> p \in eeprom.bits
           /\ p \notin ddr => (p \in port <=> 6 * Bits + p \in eeprom.bits)

\* Every request is answered, or forgotten in a power failure.
Answered == []<>(answer # "pending")

\* An enabled channel is read again and again, whatever is asked of the others.
ChannelsRead ==
    \A c \in Channel :
        []<>(c \notin channels \/ \E i \in DOMAIN inQ : inQ[i] = [tag |-> "adc", id |-> c])

\* "The last stored configuration is restored automatically after a reset":
\* the counters too.
CountersRestored ==
    (fresh /\ turn = "tr" /\ eeprom.valid /\ CountersSettled)
    => {c \in Counter : 9 * Bits + c \in eeprom.bits} \subseteq signals
=============================================================================
