----------------------------- MODULE SlaveProofs -----------------------------
(***************************************************************************)
(* Safety properties of the slave for ports, queues and requests of every  *)
(* size: the ADC daemon counts its channels right, no daemon ever has to   *)
(* wait for room in the queue of the PDU handler, all that the daemons and *)
(* the master share keeps its type, a load restores the pins, and with no  *)
(* message on the way the mirrors show what the daemons do.                *)
(***************************************************************************)
EXTENDS Slave, FiniteSetTheorems, WellFoundedInduction, TLAPS

-----------------------------------------------------------------------------
(* The count of the enabled channels.                                      *)

ChannelsInv == IsFiniteSet(channels) /\ enabledCount = Cardinality(channels)

LEMMA ChannelsInvStep == ChannelsInv /\ [Next]_vars => ChannelsInv'
<1> SUFFICES ASSUME ChannelsInv, [Next]_vars PROVE ChannelsInv'
  OBVIOUS
<1> USE DEF ChannelsInv
<1>1. ASSUME UNCHANGED <<channels, enabledCount>> PROVE ChannelsInv'
  BY <1>1
<1>2. ASSUME NEW c, EnableChannel(c) PROVE ChannelsInv'
  BY <1>2, FS_AddElement DEF EnableChannel
<1>3. ASSUME NEW c, DisableChannel(c) PROVE ChannelsInv'
  BY <1>3, FS_RemoveElement DEF DisableChannel
<1>4. CASE AdcStep
  <2>1. CASE TakeAdcMessage
    BY <1>2, <1>3, <2>1 DEF TakeAdcMessage
  <2>2. CASE NoAdcMessage \/ NothingRead \/ ReadChannel
    BY <1>1, <2>2 DEF NoAdcMessage, NothingRead, ReadChannel
  <2> QED
    BY <1>4, <2>1, <2>2 DEF AdcStep
<1>5. CASE Reset
  BY <1>5, FS_EmptySet DEF Reset
<1>6. CASE UNCHANGED adcVars \/ ConversionEnds
  BY <1>1, <1>6 DEF adcVars, ConversionEnds
<1>7. CASE UNCHANGED vars
  BY <1>1, <1>7 DEF vars, adcVars
<1>8. CASE MainLoop
  BY <1>4, <1>6, <1>8 DEF MainLoop, BootLoad, NoFrame
<1>9. CASE Conversion
  BY <1>6, <1>9 DEF Conversion
<1>10. CASE PowerFails \/ \E n \in 0 .. 14 : PowerFailsInSave(n)
  BY <1>5, <1>10 DEF PowerFails, PowerFailsInSave
<1>11. CASE \E r \in Requests : Ask(r)
  BY <1>6, <1>11 DEF Ask
<1> QED
  BY <1>7, <1>8, <1>9, <1>10, <1>11 DEF Next

\* The ADC daemon counts its enabled channels right, so its search for the
\* next one is only begun when there is one (adc_daemon.cpp:48-93).
THEOREM ChannelsCounted == Spec => []CountsChannels
<1>1. Init => ChannelsInv
  BY FS_EmptySet DEF Init, AdcInit, ChannelsInv
<1>2. ChannelsInv => CountsChannels
  BY DEF ChannelsInv, CountsChannels
<1> QED
  BY <1>1, <1>2, ChannelsInvStep, PTL DEF Spec

-----------------------------------------------------------------------------
(* What is in the queues.                                                  *)

Address == 0 .. AddressMod - 1

Jobs ==
    [kind : {"none"}, addr : {0}, rest : {<<>>}]
    \cup [kind : {"coils"}, addr : Address, rest : Seq(BOOLEAN)]
    \cup [kind : {"registers"}, addr : Address, rest : Seq(Nat)]

Room == PduQueueSize - 1    \* for what the daemons send in one turn

\* The falls that `n` samples may find, for the signals that rest for `r`
\* samples first: one of each that may fall among them, two of those that may
\* do so once more.
Falling(r, n) == {c \in Counter : r[c] < n}
Again(r, n)   == {c \in Counter : r[c] + Apart < n}
Owed(r, n)    == Cardinality(Falling(r, n)) + Cardinality(Again(r, n))

\* While the counters daemon runs: how many messages are in the queue of the
\* PDU handler, with those still to come for messages, edges and samples.
Samples    == IF timeout /\ countersPc = "message" THEN overdue + 1 ELSE overdue
Unreported == IF countersPc = "edges" THEN Cardinality(edges) ELSE 0

CountersRoom ==
    /\ countersPc \in {"wait", "message", "edges"}
    /\ ~timeout => countersPc # "edges"
    /\ timeout => counterQ = <<>>
    /\ overdue \in Nat /\ Samples <= SavePeriods + 1
    /\ Len(inQ) + Len(counterQ) + Unreported + Owed(rest, Samples) <= Room

\* The queue of the PDU handler at each place of the main loop.
RoomInv ==
    /\ adcPc \in {"message", "read"} /\ (turn # "adc" => adcPc = "message")
    /\ turn # "counters" => countersPc = "wait" /\ timeout = FALSE
    /\ turn \in {"boot", "adc"} => inQ = <<>>
    /\ turn = "tr" => Len(inQ) <= Room
    /\ turn = "pduh" => Len(inQ) <= 1 + Room
    /\ turn = "counters" => CountersRoom

\* Messages and the write under way are of their types.
MessagesInv ==
    /\ QueuesTypeOK
    /\ request \in Requests \cup {NoRequest}
    /\ job \in Jobs /\ (job.kind # "none" => turn \in {"boot", "pduh"})
    /\ channels \subseteq Channel
    /\ signals \subseteq Counter /\ edges \subseteq Counter
    /\ counters \in [Counter -> Word] /\ timeout \in BOOLEAN
    /\ rest \in [Counter -> 0 .. Apart - 1]

SlaveInv == MessagesInv /\ RoomInv

LEMMA Sizes ==
    /\ Bits \in Nat \ {0} /\ AdcQueueSize \in Nat \ {0} /\ CounterQueueSize \in Nat \ {0}
    /\ PduQueueSize \in Nat \ {0} /\ WordMod \in Nat \ {0} /\ AddressMod \in Nat \ {0}
    /\ RegistryMod \in Nat \ {0}
  BY QueuesAssumption, AddressesAssumption

LEMMA Remainder == \A n \in Nat, m \in Nat \ {0} : n % m \in 0 .. m - 1
  OBVIOUS

\* Whatever its address, a coil belongs to a pin.
LEMMA PinOfCoil == \A a \in Nat : PinOf(a) \in Pin /\ ChannelOf(a) \in Channel
<1> SUFFICES ASSUME NEW a \in Nat PROVE PinOf(a) \in Pin /\ ChannelOf(a) \in Channel
  OBVIOUS
<1>1. a % Bits \in 0 .. Bits - 1
  BY Sizes, Remainder
<1>2. a \div Bits \in Nat
  BY Sizes
<1>3. Registry(a) \in Nat
  BY <1>2, Sizes, Remainder DEF Registry
<1>4. Registry(a) % 3 \in 0 .. 2
  BY <1>3
<1>5. PinOf(a) \in Pin
  <2> DEFINE r == Registry(a) % 3
             b == a % Bits
  <2>1. r \in 0 .. 2 /\ b \in 0 .. Bits - 1
    BY <1>1, <1>4
  <2>2. r * Bits + b \in 0 .. 3 * Bits - 1
    <3> HIDE DEF r, b
    <3>1. r = 0 \/ r = 1 \/ r = 2
      BY <2>1
    <3>2. r * Bits \in {0, Bits, 2 * Bits}
      BY <3>1, Sizes
    <3> QED
      BY <2>1, <3>2, Sizes
  <2> QED
    BY <2>2 DEF PinOf, Pin
<1> QED
  BY <1>1, <1>5 DEF ChannelOf, Channel

LEMMA TakeHead ==
    ASSUME NEW S, NEW q \in Seq(S), q # <<>>
    PROVE  Head(q) \in S /\ Tail(q) \in Seq(S) /\ Len(Tail(q)) = Len(q) - 1 /\ Len(q) > 0
  OBVIOUS

LEMMA LastTaken ==
    ASSUME NEW S, NEW q \in Seq(S), Len(q) = 1
    PROVE  Tail(q) = <<>>
<1>1. q # <<>>
  OBVIOUS
<1>2. Tail(q) \in Seq(S) /\ Len(Tail(q)) = 0
  BY <1>1, TakeHead
<1>3. ASSUME NEW r \in Seq(S), Len(r) = 0 PROVE r = <<>>
  BY <1>3
<1> QED
  BY <1>2, <1>3

LEMMA Sent ==
    ASSUME NEW S, NEW q \in Seq(S), NEW m \in S
    PROVE  Append(q, m) \in Seq(S) /\ Len(Append(q, m)) = Len(q) + 1
  OBVIOUS

LEMMA Pushed ==
    ASSUME NEW S, NEW q \in Seq(S), NEW m \in S, NEW n \in Nat, Len(q) <= n
    PROVE  /\ Push(q, m, n) \in Seq(S) /\ Len(Push(q, m, n)) <= n
           /\ Len(q) < n => Push(q, m, n) = Append(q, m) /\ Len(Push(q, m, n)) = Len(q) + 1
  BY DEF Push

LEMMA Limits ==
    /\ Room \in Nat /\ 1 + Room <= PduQueueSize
    /\ 1 + CounterQueueSize + 3 * Bits <= Room /\ 1 + 6 * Bits <= Room
    /\ SavePeriods \in Nat /\ Apart \in Nat \ {0} /\ SavePeriods + 1 <= 2 * Apart
    /\ FirstIOD \in Address /\ 12 * Bits \in Nat
    /\ FirstCounter \in Nat /\ UserBegin = FirstCounter + 3 * Bits
<1>1. CoilsEnd + 1 <= SaveAddress /\ SaveAddress <= RegistryMod * Bits - 1 /\ RegistryMod * Bits <= AddressMod
  BY AddressesAssumption, Sizes DEF CoilsEnd
<1>2. SaveAddress \in Int /\ RegistryMod * Bits \in Int
  BY AddressesAssumption, Sizes DEF CoilsEnd
<1> QED
  BY <1>1, <1>2, Sizes, RoomAssumption, PeriodsAssumption DEF Room, FirstIOD, Address, CoilsEnd, FirstCounter, UserBegin

\* A job goes on with the next coil or register, or is over.
LEMMA NextJob ==
    ASSUME job \in Jobs, Writing("coils") \/ Writing("registers"), Advance
    PROVE  job' \in Jobs /\ job'.kind = job.kind
<1>1. /\ job.kind \in {"coils", "registers"} /\ job.addr \in Address
      /\ job.kind = "coils" => job.rest \in Seq(BOOLEAN)
      /\ job.kind = "registers" => job.rest \in Seq(Nat)
      /\ job.rest # <<>>
  BY DEF Jobs, Writing
<1>2. (job.addr + 1) % AddressMod \in Address
  <2>1. job.addr + 1 \in Nat
    BY <1>1, Sizes DEF Address
  <2> HIDE DEF Address
  <2>2. \A n \in Nat : n % AddressMod \in 0 .. AddressMod - 1
    BY Sizes, Remainder
  <2> QED
    BY <2>1, <2>2 DEF Address
<1>3. /\ job.kind = "coils" => Tail(job.rest) \in Seq(BOOLEAN)
      /\ job.kind = "registers" => Tail(job.rest) \in Seq(Nat)
  <2>1. CASE job.kind = "coils"
    BY <1>1, <2>1, TakeHead
  <2>2. CASE job.kind = "registers"
    BY <1>1, <2>2, TakeHead
  <2> QED
    BY <1>1, <2>1, <2>2
<1>4. job' = [kind |-> job.kind, addr |-> (job.addr + 1) % AddressMod, rest |-> Tail(job.rest)]
  BY DEF Advance, Jobs
<1> QED
  BY <1>1, <1>2, <1>3, <1>4 DEF Jobs

LEMMA JobOver ==
    ASSUME NEW how, Finish(how) PROVE job' \in Jobs /\ job'.kind = "none"
  BY DEF Finish, NoJob, Jobs

\* All a step of the PDU handler may do to the queues and keep SlaveInv.
LEMMA PduFrame ==
    ASSUME SlaveInv,
           UNCHANGED <<inQ, request>>, UNCHANGED <<adcVars, countersVars>>,
           adcQ' \in Seq(AdcMsg), Len(adcQ') <= AdcQueueSize,
           counterQ' \in Seq(CounterMsg), Len(counterQ') <= CounterQueueSize,
           turn \in {"boot", "pduh"}, job' \in Jobs,
           \/ turn' = turn
           \/ turn = "boot" /\ turn' = "tr" /\ job'.kind = "none"
    PROVE  SlaveInv'
<1> USE DEF SlaveInv
<1>1. MessagesInv'
  BY DEF MessagesInv, QueuesTypeOK, adcVars, countersVars, Turn
<1>2. RoomInv'
  <2>1. turn' \in {"boot", "pduh", "tr"}
    OBVIOUS
  <2>2. inQ' = <<>> => Len(inQ') <= Room
    BY Limits
  <2> QED
    BY <2>1, <2>2 DEF RoomInv, MessagesInv, QueuesTypeOK, adcVars, countersVars
<1> QED
  BY <1>1, <1>2

\* The address and the value a write has come to.
LEMMA Current ==
    ASSUME SlaveInv, Writing("coils") \/ Writing("registers")
    PROVE  /\ job.addr \in Nat /\ turn \in {"boot", "pduh"}
           /\ Writing("coils") => Written \in BOOLEAN
           /\ Writing("registers") => Written \in Nat
           /\ UNCHANGED <<inQ, request>>
<1>1. /\ job.kind \in {"coils", "registers"} /\ job.addr \in Address /\ job.rest # <<>>
      /\ job.kind = "coils" => job.rest \in Seq(BOOLEAN)
      /\ job.kind = "registers" => job.rest \in Seq(Nat)
  BY DEF SlaveInv, MessagesInv, Jobs, Writing
<1>2. job.kind = "coils" => Written \in BOOLEAN
  <2>1. CASE job.kind = "coils"
    BY <1>1, <2>1, TakeHead DEF Written
  <2> QED
    BY <2>1
<1>3. job.kind = "registers" => Written \in Nat
  <2>1. CASE job.kind = "registers"
    BY <1>1, <2>1, TakeHead DEF Written
  <2> QED
    BY <2>1
<1> QED
  BY <1>1, <1>2, <1>3, Sizes DEF Address, SlaveInv, MessagesInv, Writing

\* A write that sends no message, and goes on or is over.
LEMMA SilentWrite ==
    ASSUME SlaveInv, Writing("coils") \/ Writing("registers"),
           Advance \/ \E how \in Answer : Finish(how),
           UNCHANGED <<adcQ, counterQ>>, UNCHANGED <<adcVars, countersVars>>
    PROVE  SlaveInv'
<1>1. job' \in Jobs /\ (turn' = turn \/ (turn = "boot" /\ turn' = "tr" /\ job'.kind = "none"))
  <2>1. CASE Advance
    BY <2>1, NextJob DEF SlaveInv, MessagesInv, Advance
  <2>2. ASSUME NEW how \in Answer, Finish(how)
        PROVE job' \in Jobs /\ (turn' = turn \/ (turn = "boot" /\ turn' = "tr" /\ job'.kind = "none"))
    BY <2>2, JobOver DEF Finish
  <2> QED
    BY <2>1, <2>2
<1>2. adcQ \in Seq(AdcMsg) /\ Len(adcQ) <= AdcQueueSize
      /\ counterQ \in Seq(CounterMsg) /\ Len(counterQ) <= CounterQueueSize
  BY DEF SlaveInv, MessagesInv, QueuesTypeOK
<1>3. turn \in {"boot", "pduh"} /\ UNCHANGED <<inQ, request>>
  BY Current
<1> QED
  BY <1>1, <1>2, <1>3, PduFrame

\* A write that sends a message to one of the daemons.
LEMMA AdcWrite ==
    ASSUME SlaveInv, Writing("coils"), Advance, NEW m \in AdcMsg,
           adcQ' = Push(adcQ, m, AdcQueueSize),
           UNCHANGED counterQ, UNCHANGED <<adcVars, countersVars>>
    PROVE  SlaveInv'
<1>1. job' \in Jobs /\ turn' = turn
  BY NextJob DEF SlaveInv, MessagesInv, Advance
<1>2. adcQ \in Seq(AdcMsg) /\ Len(adcQ) <= AdcQueueSize
      /\ counterQ \in Seq(CounterMsg) /\ Len(counterQ) <= CounterQueueSize
  BY DEF SlaveInv, MessagesInv, QueuesTypeOK
<1>3. adcQ' \in Seq(AdcMsg) /\ Len(adcQ') <= AdcQueueSize
  BY <1>2, Pushed, Sizes
<1>4. turn \in {"boot", "pduh"} /\ UNCHANGED <<inQ, request>>
  BY Current
<1> QED
  BY <1>1, <1>2, <1>3, <1>4, PduFrame

LEMMA CounterWrite ==
    ASSUME SlaveInv, Writing("coils") \/ Writing("registers"), Advance, NEW m \in CounterMsg,
           counterQ' = Push(counterQ, m, CounterQueueSize),
           UNCHANGED adcQ, UNCHANGED <<adcVars, countersVars>>
    PROVE  SlaveInv'
<1>1. job' \in Jobs /\ turn' = turn
  BY NextJob DEF SlaveInv, MessagesInv, Advance
<1>2. adcQ \in Seq(AdcMsg) /\ Len(adcQ) <= AdcQueueSize
      /\ counterQ \in Seq(CounterMsg) /\ Len(counterQ) <= CounterQueueSize
  BY DEF SlaveInv, MessagesInv, QueuesTypeOK
<1>3. counterQ' \in Seq(CounterMsg) /\ Len(counterQ') <= CounterQueueSize
  BY <1>2, Pushed, Sizes
<1>4. turn \in {"boot", "pduh"} /\ UNCHANGED <<inQ, request>>
  BY Current
<1> QED
  BY <1>1, <1>2, <1>3, <1>4, PduFrame

\* load_config is a job of one write for each coil of the configuration.
LEMMA ConfigWrites == ConfigJob \in Jobs /\ ConfigJob.kind = "coils"
<1>1. ConfigJob.rest \in Seq(BOOLEAN)
  <2> DEFINE n == 12 * Bits
             f == [k \in 1 .. n |-> k - 1 \in eeprom.bits]
  <2>1. n \in Nat
    BY Limits
  <2> HIDE DEF n
  <2>2. f \in [1 .. n -> BOOLEAN]
    BY <2>1, SMT
  <2> HIDE DEF f
  <2>3. f \in Seq(BOOLEAN)
    BY <2>1, <2>2
  <2> QED
    BY <2>3 DEF ConfigJob, Job, f, n
<1>2. FirstIOD \in Address
  BY Limits
<1> QED
  BY <1>1, <1>2, Zenon DEF ConfigJob, Job, Jobs

LEMMA WriteStep ==
    ASSUME SlaveInv, UNCHANGED <<adcVars, countersVars>>,
           \/ WriteDirection \/ WriteMode \/ WritePullUp \/ WriteCounting \/ WriteOutput
           \/ UnwritableCoil \/ SetRunning \/ SaveConfig \/ LoadConfig
           \/ WriteTimer \/ WriteCounter \/ WriteUserData \/ WriteReading
    PROVE  SlaveInv'
<1>1. CASE \/ WriteDirection \/ WritePullUp \/ WriteOutput \/ UnwritableCoil
           \/ SetRunning \/ SaveConfig
  <2>1. /\ Writing("coils")
        /\ Advance \/ \E how \in Answer : Finish(how)
        /\ UNCHANGED <<adcQ, counterQ>>
    BY <1>1 DEF WriteDirection, WritePullUp, WriteOutput, UnwritableCoil, SetRunning,
                SaveConfig, WritingCoil, Answer
  <2> QED
    BY <2>1, SilentWrite
<1>2. CASE WriteTimer \/ WriteUserData \/ WriteReading
  <2>1. /\ Writing("registers")
        /\ Advance \/ \E how \in Answer : Finish(how)
        /\ UNCHANGED <<adcQ, counterQ>>
    BY <1>2 DEF WriteTimer, WriteUserData, WriteReading, Answer
  <2> QED
    BY <2>1, SilentWrite
<1>3. CASE WriteMode
  <2>1. Writing("coils") /\ Advance /\ UNCHANGED counterQ
    BY <1>3 DEF WriteMode, WritingCoil
  <2>2. ChannelOf(job.addr) \in Channel /\ Written \in BOOLEAN
    BY <2>1, Current, PinOfCoil
  <2> DEFINE m == [id |-> ChannelOf(job.addr), enabled |-> Written]
  <2>3. m \in AdcMsg
    BY <2>2 DEF AdcMsg
  <2>4. CASE adcQ' = Push(adcQ, m, AdcQueueSize)
    <3> HIDE DEF m
    <3> QED
      BY <2>1, <2>3, <2>4, AdcWrite
  <2>5. CASE UNCHANGED adcQ
    BY <2>1, <2>5, SilentWrite
  <2> QED
    BY <1>3, <2>4, <2>5 DEF WriteMode
<1>4. CASE WriteCounting
  <2>1. Writing("coils") /\ Advance /\ UNCHANGED adcQ
    BY <1>4 DEF WriteCounting, WritingCoil
  <2>2. PinOf(job.addr) \in Counter /\ Written \in BOOLEAN
    BY <2>1, Current, PinOfCoil DEF Counter
  <2> DEFINE m == [tag |-> "enable", id |-> PinOf(job.addr), enabled |-> Written]
  <2>3. m \in CounterMsg
    BY <2>2 DEF CounterMsg
  <2>4. counterQ' = Push(counterQ, m, CounterQueueSize)
    BY <1>4 DEF WriteCounting
  <2> HIDE DEF m
  <2> QED
    BY <2>1, <2>3, <2>4, CounterWrite
<1>5. CASE WriteCounter
  <2>1. Writing("registers") /\ Advance /\ UNCHANGED adcQ
        /\ job.addr \in FirstCounter .. UserBegin - 1
    BY <1>5 DEF WriteCounter
  <2>2. job.addr - FirstCounter \in Counter
    BY <2>1, Current, Limits, Sizes DEF Counter, Pin
  <2>3. Written % WordMod \in Word
    BY <2>1, Current, Sizes, Remainder DEF Word
  <2> DEFINE m == [tag |-> "value", id |-> job.addr - FirstCounter,
                   value |-> Written % WordMod]
  <2>4. m \in CounterMsg
    BY <2>2, <2>3 DEF CounterMsg
  <2>5. counterQ' = Push(counterQ, m, CounterQueueSize)
    BY <1>5 DEF WriteCounter
  <2> HIDE DEF m
  <2> QED
    BY <2>1, <2>4, <2>5, CounterWrite
<1>6. CASE LoadConfig
  <2>1. Writing("coils") /\ UNCHANGED <<adcQ, counterQ>>
    BY <1>6 DEF LoadConfig
  <2>2. CASE eeprom.valid
    <3>1. job' \in Jobs /\ turn' = turn
      BY <1>6, <2>2, ConfigWrites DEF LoadConfig
    <3>2. adcQ \in Seq(AdcMsg) /\ Len(adcQ) <= AdcQueueSize
          /\ counterQ \in Seq(CounterMsg) /\ Len(counterQ) <= CounterQueueSize
      BY DEF SlaveInv, MessagesInv, QueuesTypeOK
    <3>3. turn \in {"boot", "pduh"} /\ UNCHANGED <<inQ, request>>
      BY <2>1, Current
    <3> QED
      BY <2>1, <3>1, <3>2, <3>3, PduFrame
  <2>3. CASE ~eeprom.valid
    <3>1. \E how \in Answer : Finish(how)
      BY <1>6, <2>3 DEF LoadConfig, Answer
    <3> QED
      BY <2>1, <3>1, SilentWrite
  <2> QED
    BY <2>2, <2>3
<1> QED
  BY <1>1, <1>2, <1>3, <1>4, <1>5, <1>6

\* A request that is not refused and not a read is a job of its data.
LEMMA RequestedJob ==
    ASSUME SlaveInv, PduTurn("buffer"), TakeIndication
    PROVE  job' \in Jobs
<1>1. job = NoJob /\ job \in Jobs
  BY DEF PduTurn, SlaveInv, MessagesInv
<1>2. CASE UNCHANGED job
  BY <1>1, <1>2
<1>3. CASE /\ Refusal(request) = "none"
           /\ request.fn \notin {"read_coils", "read_registers"}
           /\ job' = Job(IF request.fn \in {"write_coil", "write_coils"} THEN "coils"
                         ELSE "registers", request.addr, request.data)
  <2>1. request.fn \in {"write_coil", "write_coils", "write_register", "write_registers"}
    BY <1>3 DEF Refusal
  <2>2. request \in Requests
    BY <2>1 DEF SlaveInv, MessagesInv, NoRequest
  <2>3. /\ request.addr \in Address
        /\ request.fn \in {"write_coil", "write_coils"} => request.data \in Seq(BOOLEAN)
        /\ request.fn \in {"write_register", "write_registers"} => request.data \in Seq(Nat)
    BY <2>2, RequestsAssumption DEF Address
  <2>4. CASE request.fn \in {"write_coil", "write_coils"}
    <3>1. job' = [kind |-> "coils", addr |-> request.addr, rest |-> request.data]
      BY <1>3, <2>4 DEF Job
    <3> QED
      BY <2>3, <2>4, <3>1 DEF Jobs
  <2>5. CASE request.fn \in {"write_register", "write_registers"}
    <3>1. job' = [kind |-> "registers", addr |-> request.addr, rest |-> request.data]
      BY <1>3, <2>5 DEF Job
    <3> QED
      BY <2>3, <2>5, <3>1 DEF Jobs
  <2> QED
    BY <2>1, <2>4, <2>5
<1> QED
  BY <1>2, <1>3 DEF TakeIndication

LEMMA PduKeeps ==
    ASSUME SlaveInv, PduStep, UNCHANGED <<adcVars, countersVars>>
    PROVE  SlaveInv'
<1> USE DEF SlaveInv
<1>1. ASSUME NEW tag, PduTurn(tag), inQ' = Tail(inQ), UNCHANGED <<turn, adcQ, counterQ, request>>,
             job' \in Jobs
      PROVE  SlaveInv'
  <2>1. /\ inQ \in Seq(PduMsg) /\ inQ # <<>> /\ Len(inQ) <= PduQueueSize
        /\ turn = "pduh" /\ Len(inQ) <= 1 + Room
    BY <1>1 DEF PduTurn, MessagesInv, QueuesTypeOK, RoomInv
  <2>2. inQ' \in Seq(PduMsg) /\ Len(inQ') = Len(inQ) - 1 /\ Len(inQ) \in Nat
    BY <1>1, <2>1, TakeHead
  <2>3. MessagesInv'
    BY <1>1, <2>1, <2>2, Sizes DEF MessagesInv, QueuesTypeOK, adcVars, countersVars
  <2>4. RoomInv'
    BY <1>1, <2>1, <2>2, Limits DEF RoomInv, adcVars, countersVars
  <2> QED
    BY <2>3, <2>4
<1>2. CASE TakeIndication
  <2>1. PduTurn("buffer") /\ inQ' = Tail(inQ) /\ UNCHANGED <<turn, adcQ, counterQ, request>>
    BY <1>2 DEF TakeIndication
  <2> QED
    BY <1>1, <1>2, <2>1, RequestedJob
<1>3. CASE TakeReading
  BY <1>1, <1>3 DEF TakeReading, MessagesInv
<1>4. CASE TakeCount
  BY <1>1, <1>4 DEF TakeCount, MessagesInv
<1>5. CASE PduWait
  <2>1. /\ turn = "pduh" /\ inQ = <<>> /\ turn' = "adc" /\ job.kind = "none"
        /\ UNCHANGED <<inQ, adcQ, counterQ, request, job>>
    BY <1>5 DEF PduWait, pduVars, NoJob
  <2>2. MessagesInv'
    BY <2>1 DEF MessagesInv, QueuesTypeOK, Turn, adcVars, countersVars
  <2>3. RoomInv'
    BY <2>1 DEF RoomInv, adcVars, countersVars
  <2> QED
    BY <2>2, <2>3
<1>6. CASE JobDone
  <2>1. /\ Finish("ok") /\ UNCHANGED <<inQ, adcQ, counterQ, request>>
        /\ job.kind # "none"
    BY <1>6 DEF JobDone
  <2>2. turn \in {"boot", "pduh"} /\ job' \in Jobs /\ job'.kind = "none"
        /\ (turn' = turn \/ (turn = "boot" /\ turn' = "tr"))
    BY <2>1, JobOver DEF MessagesInv, Finish
  <2>3. adcQ \in Seq(AdcMsg) /\ Len(adcQ) <= AdcQueueSize
        /\ counterQ \in Seq(CounterMsg) /\ Len(counterQ) <= CounterQueueSize
    BY DEF MessagesInv, QueuesTypeOK
  <2> QED
    BY <2>1, <2>2, <2>3, PduFrame
<1> QED
  BY <1>2, <1>3, <1>4, <1>5, <1>6, WriteStep DEF PduStep

\* A sample finds at most one edge of each pin.
LEMMA EdgesOfSample ==
    ASSUME NEW fallen \in SUBSET Counter
    PROVE  IsFiniteSet(fallen) /\ Cardinality(fallen) \in 0 .. 3 * Bits
<1>1. IsFiniteSet(Counter) /\ Cardinality(Counter) = 3 * Bits
  <2>1. 3 * Bits - 1 \in Int /\ 0 <= 3 * Bits - 1
    BY Sizes
  <2> QED
    BY <2>1, FS_Interval, Sizes DEF Counter, Pin
<1>2. IsFiniteSet(fallen) /\ Cardinality(fallen) <= 3 * Bits
  BY <1>1, FS_Subset
<1>3. Cardinality(fallen) \in Nat
  BY <1>2, FS_CardinalityType
<1> QED
  BY <1>2, <1>3, Sizes

\* The falls of the samples of one turn: at most two of each pin, and at most
\* one in a sample.
LEMMA OwedAtMost ==
    ASSUME NEW r \in [Counter -> 0 .. Apart - 1], NEW n \in Nat
    PROVE  /\ Owed(r, n) \in Nat /\ Owed(r, n) <= 6 * Bits
           /\ n <= 1 => Owed(r, n) <= 3 * Bits
<1>1. /\ Cardinality(Falling(r, n)) \in 0 .. 3 * Bits
      /\ Cardinality(Again(r, n)) \in 0 .. 3 * Bits
  <2>1. Falling(r, n) \in SUBSET Counter /\ Again(r, n) \in SUBSET Counter
    BY DEF Falling, Again
  <2> QED
    BY <2>1, EdgesOfSample
<1>2. ASSUME n <= 1 PROVE Cardinality(Again(r, n)) = 0
  <2>1. \A c \in Counter : r[c] \in Nat
    BY Limits
  <2>2. Again(r, n) = {}
    BY <1>2, <2>1, Limits DEF Again
  <2> QED
    BY <2>2, FS_EmptySet
<1> QED
  BY <1>1, <1>2, Sizes DEF Owed

\* The next of `n` samples: those that fall in it rest anew, the others fall
\* later, but not more often.
LEMMA OwedNext ==
    ASSUME NEW r \in [Counter -> 0 .. Apart - 1], NEW n \in Nat \ {0}, n <= 2 * Apart,
           NEW fallen \in SUBSET Counter, \A c \in fallen : r[c] = 0,
           NEW s \in [Counter -> 0 .. Apart - 1], \A c \in fallen : s[c] = Apart - 1,
           \A c \in Counter \ fallen : s[c] = r[c] \/ (r[c] > 0 /\ s[c] = r[c] - 1)
    PROVE  Cardinality(fallen) + Owed(s, n - 1) <= Owed(r, n)
<1> DEFINE D == Falling(r, n)
           E == Again(r, n)
           D1 == Falling(s, n - 1)
           E1 == Again(s, n - 1)
<1>1. \A c \in Counter : r[c] \in 0 .. Apart - 1 /\ s[c] \in 0 .. Apart - 1
  OBVIOUS
<1>2. fallen \subseteq D
  BY <1>1 DEF Falling
<1>3. D1 \subseteq (D \ fallen) \cup (fallen \cap E)
  <2> SUFFICES ASSUME NEW c \in Counter, s[c] < n - 1
               PROVE  IF c \in fallen THEN r[c] + Apart < n ELSE r[c] < n
    BY DEF Falling, Again
  <2>1. r[c] \in 0 .. Apart - 1 /\ s[c] \in 0 .. Apart - 1
    BY <1>1
  <2>2. CASE c \in fallen
    <3>1. r[c] = 0 /\ s[c] = Apart - 1
      BY <2>2
    <3> QED
      BY <2>2, <3>1, Limits
  <2>3. CASE c \notin fallen
    <3>1. s[c] = r[c] \/ s[c] = r[c] - 1
      BY <2>3
    <3> QED
      BY <2>1, <2>3, <3>1, Limits
  <2> QED
    BY <2>2, <2>3
<1>4. E1 \subseteq E \ fallen
  <2> SUFFICES ASSUME NEW c \in Counter, s[c] + Apart < n - 1
               PROVE  c \notin fallen /\ r[c] + Apart < n
    BY DEF Again
  <2>1. r[c] \in 0 .. Apart - 1 /\ s[c] \in 0 .. Apart - 1
    BY <1>1
  <2>2. c \notin fallen
    <3>1. c \in fallen => s[c] = Apart - 1
      OBVIOUS
    <3> QED
      BY <3>1, Limits
  <2>3. s[c] = r[c] \/ s[c] = r[c] - 1
    BY <2>2
  <2> QED
    BY <2>1, <2>2, <2>3, Limits
<1>5. \A X \in SUBSET Counter : IsFiniteSet(X) /\ Cardinality(X) \in Nat
  BY EdgesOfSample, Sizes
<1>6. {D, E, D1, E1, fallen} \subseteq SUBSET Counter
  BY DEF Falling, Again
<1> HIDE DEF D, E, D1, E1
<1>7. Cardinality(D \ fallen) = Cardinality(D) - Cardinality(fallen)
  <2>1. Cardinality(D \ fallen) = Cardinality(D) - Cardinality(D \cap fallen)
    BY <1>5, <1>6, FS_Difference
  <2>2. D \cap fallen = fallen
    BY <1>2
  <2> QED
    BY <2>1, <2>2
<1>8. Cardinality(E \ fallen) = Cardinality(E) - Cardinality(fallen \cap E)
  <2>1. Cardinality(E \ fallen) = Cardinality(E) - Cardinality(E \cap fallen)
    BY <1>5, <1>6, FS_Difference
  <2>2. E \cap fallen = fallen \cap E
    OBVIOUS
  <2> QED
    BY <2>1, <2>2
<1>9. Cardinality(D1) <= Cardinality(D \ fallen) + Cardinality(fallen \cap E)
  <2> DEFINE A == D \ fallen
             B == fallen \cap E
  <2>1. A \in SUBSET Counter /\ B \in SUBSET Counter /\ A \cup B \in SUBSET Counter
        /\ A \cap B \in SUBSET Counter
    BY <1>6
  <2>2. Cardinality(A \cup B) = Cardinality(A) + Cardinality(B) - Cardinality(A \cap B)
    BY <1>5, <2>1, FS_Union
  <2>3. Cardinality(D1) <= Cardinality(A \cup B)
    BY <1>3, <1>5, <2>1, FS_Subset
  <2> HIDE DEF A, B
  <2>4. Cardinality(D1) <= Cardinality(A) + Cardinality(B)
    BY <1>5, <1>6, <2>1, <2>2, <2>3
  <2> QED
    BY <2>4 DEF A, B
<1>10. Cardinality(E1) <= Cardinality(E \ fallen)
  <2>1. IsFiniteSet(E \ fallen)
    BY <1>5, <1>6
  <2> QED
    BY <1>4, <2>1, FS_Subset
<1>11. /\ Cardinality(D) \in Nat /\ Cardinality(E) \in Nat /\ Cardinality(D1) \in Nat
       /\ Cardinality(E1) \in Nat /\ Cardinality(fallen) \in Nat
       /\ Cardinality(fallen \cap E) \in Nat
  BY <1>5, <1>6
<1>12. Cardinality(fallen) + (Cardinality(D1) + Cardinality(E1)) <= Cardinality(D) + Cardinality(E)
  BY <1>7, <1>8, <1>9, <1>10, <1>11
<1> QED
  BY <1>12 DEF Owed, D, E, D1, E1

\* The samples that are put off: more than one only between a save and the
\* counters daemon's turn, when no message for it is on the way.  A command
\* stands alone in its write, and comes when the last turn's messages are taken.
SaveInv ==
    /\ overdue \in 0 .. SavePeriods + 1
    /\ turn \in {"boot", "tr"} => overdue <= 1
    /\ turn \in {"pduh", "adc"} /\ overdue > 1
       => counterQ = <<>> /\ inQ = <<>> /\ job.rest = <<>>
    /\ turn = "pduh" /\ (\E i \in 1 .. Len(inQ) : inQ[i].tag = "buffer") => counterQ = <<>>
    /\ job.kind = "coils" /\ job.rest # <<>> /\ job.addr \in {SaveAddress, LoadAddress, RunAddress}
       => turn = "pduh" /\ Len(job.rest) = 1 /\ counterQ = <<>>

\* When the ADC daemon's turn comes the queue of the PDU handler is empty.
LEMMA AdcKeeps ==
    ASSUME SlaveInv, SaveInv, AdcStep, UNCHANGED <<pduVars, countersVars, overdue>>
    PROVE  SlaveInv'
<1> USE DEF SlaveInv
<1>1. /\ turn = "adc" /\ inQ = <<>> /\ UNCHANGED <<counterQ, request, job>>
      /\ signals' = signals /\ counters' = counters /\ edges' = edges
      /\ timeout' = timeout /\ countersPc' = countersPc /\ rest' = rest /\ overdue' = overdue
      /\ timeout = FALSE /\ countersPc = "wait" /\ job.kind = "none"
  BY DEF AdcStep, TakeAdcMessage, NoAdcMessage, NothingRead, ReadChannel, AdcTurn,
         pduVars, countersVars, RoomInv, MessagesInv
<1>2. CASE TakeAdcMessage
  <2>1. /\ turn' = turn /\ inQ' = inQ /\ adcPc' = "read"
        /\ adcQ # <<>> /\ adcQ' = Tail(adcQ) /\ adcQ \in Seq(AdcMsg)
    BY <1>2 DEF TakeAdcMessage, AdcTurn, MessagesInv, QueuesTypeOK
  <2>2. Head(adcQ) \in AdcMsg /\ adcQ' \in Seq(AdcMsg) /\ Len(adcQ') = Len(adcQ) - 1
    BY <2>1, TakeHead
  <2>3. Head(adcQ).id \in Channel
    BY <2>2 DEF AdcMsg
  <2>4. channels' \subseteq Channel
    BY <1>2, <2>3 DEF TakeAdcMessage, EnableChannel, DisableChannel, MessagesInv
  <2>5. MessagesInv'
    BY <1>1, <2>1, <2>2, <2>4, Sizes DEF MessagesInv, QueuesTypeOK
  <2>6. RoomInv'
    BY <1>1, <2>1 DEF RoomInv
  <2> QED
    BY <2>5, <2>6
<1>3. CASE NoAdcMessage
  <2>1. UNCHANGED <<turn, inQ, adcQ, channels>> /\ adcPc' = "read"
    BY <1>3 DEF NoAdcMessage
  <2>2. MessagesInv'
    BY <1>1, <2>1 DEF MessagesInv, QueuesTypeOK
  <2>3. RoomInv'
    BY <1>1, <2>1 DEF RoomInv
  <2> QED
    BY <2>2, <2>3
<1>4. ASSUME /\ turn' = "counters" /\ adcPc' = "message" /\ UNCHANGED <<adcQ, channels>>
             /\ inQ' \in Seq(PduMsg) /\ Len(inQ') <= 1
      PROVE  SlaveInv'
  <2>1. MessagesInv'
    BY <1>1, <1>4, Sizes DEF MessagesInv, QueuesTypeOK, Turn
  <2>2. Len(counterQ) \in Nat /\ Len(counterQ) <= CounterQueueSize /\ Len(inQ') \in Nat
    BY <1>4 DEF MessagesInv, QueuesTypeOK
  <2>3. CountersRoom'
    <3>1. /\ overdue \in Nat /\ overdue <= SavePeriods + 1
          /\ rest \in [Counter -> 0 .. Apart - 1] /\ (overdue > 1 => counterQ = <<>>)
      BY <1>1, Limits DEF SaveInv, MessagesInv
    <3>2. /\ Owed(rest, overdue) \in Nat /\ Owed(rest, overdue) <= 6 * Bits
          /\ overdue <= 1 => Owed(rest, overdue) <= 3 * Bits
      BY <3>1, OwedAtMost
    <3>3. Len(inQ') + Len(counterQ) + Owed(rest, overdue) <= Room
      <4>1. CASE overdue > 1
        BY <1>4, <2>2, <3>1, <3>2, <4>1, Limits, Sizes
      <4>2. CASE overdue <= 1
        BY <1>4, <2>2, <3>1, <3>2, <4>2, Limits, Sizes
      <4> QED
        BY <3>1, <4>1, <4>2
    <3>4. Samples' = overdue /\ Unreported' = 0 /\ Owed(rest, Samples)' = Owed(rest, overdue)
      BY <1>1 DEF Samples, Unreported, Owed, Falling, Again
    <3> QED
      BY <1>1, <2>2, <3>1, <3>2, <3>3, <3>4 DEF CountersRoom
  <2>4. RoomInv'
    BY <1>1, <1>4, <2>3 DEF RoomInv
  <2> QED
    BY <2>1, <2>4
<1>5. CASE NothingRead
  BY <1>1, <1>4, <1>5 DEF NothingRead, MessagesInv, QueuesTypeOK
<1>6. CASE ReadChannel
  <2>1. Len(inQ) # PduQueueSize
    BY <1>1, Sizes
  <2>2. /\ turn' = "counters" /\ adcPc' = "message" /\ UNCHANGED <<adcQ, channels>>
        /\ inQ' = inQ \/ (active \in channels /\ inQ' = Append(inQ, [tag |-> "adc", id |-> active]))
    BY <1>6, <2>1 DEF ReadChannel
  <2>3. active \in channels => [tag |-> "adc", id |-> active] \in PduMsg
    BY DEF PduMsg, MessagesInv
  <2>4. inQ' \in Seq(PduMsg) /\ Len(inQ') <= 1
    <3> DEFINE m == [tag |-> "adc", id |-> active]
    <3>1. inQ' = inQ \/ (m \in PduMsg /\ inQ' = Append(inQ, m))
      BY <2>2, <2>3
    <3>2. inQ \in Seq(PduMsg) /\ Len(inQ) = 0
      BY <1>1
    <3> HIDE DEF m
    <3>3. m \in PduMsg => Append(inQ, m) \in Seq(PduMsg) /\ Len(Append(inQ, m)) = 1
      BY <3>2, Sent
    <3>4. CASE inQ' = inQ
      BY <3>2, <3>4
    <3>5. CASE m \in PduMsg /\ inQ' = Append(inQ, m)
      BY <3>3, <3>5
    <3> QED
      BY <3>1, <3>4, <3>5
  <2> QED
    BY <1>4, <2>2, <2>4
<1> QED
  BY <1>2, <1>3, <1>5, <1>6 DEF AdcStep

LEMMA LeastOf ==
    ASSUME NEW S \in SUBSET Nat, S # {}
    PROVE  \E i \in S : \A j \in S : i <= j
<1> DEFINE R == OpToRel(<, Nat)
<1>1. IsWellFoundedOn(R, Nat)
  BY NatLessThanWellFounded
<1>2. \A i, j \in Nat : j < i => <<j, i>> \in R
  BY DEF OpToRel
<1> HIDE DEF R
<1>3. \E i \in S : \A j \in S : ~ (<<j, i>> \in R)
  BY <1>1, WFMin
<1>4. PICK i \in S : \A j \in S : ~ (<<j, i>> \in R)
  BY <1>3
<1>5. \A j \in S : i <= j
  <2>1. \A j \in S : j \in Nat /\ i \in Nat /\ ~ (j < i)
    BY <1>2, <1>4
  <2> QED
    BY <2>1
<1> QED
  BY <1>5

LEMMA LeastEdge ==
    ASSUME NEW S \in SUBSET Nat, S # {}
    PROVE  (CHOOSE i \in S : \A j \in S : i <= j) \in S
BY LeastOf

\* The reply to a message or an edge takes the place it had among those still
\* to come.
LEMMA CountersKeep ==
    ASSUME SlaveInv, CountersStep, UNCHANGED <<pduVars, adcVars>>
    PROVE  SlaveInv'
<1> USE DEF SlaveInv
<1>1. /\ turn = "counters" /\ UNCHANGED <<adcQ, request, job, channels, adcPc>>
      /\ adcPc = "message" /\ job.kind = "none" /\ CountersRoom
  BY DEF CountersStep, CountersWait, CountersWake, Elapse, HeadIs, CountersTurn, DisableCounter,
         EnableCounter, SetCounter, MessagesDone, Sample, ReportEdge, EdgesDone,
         pduVars, adcVars, RoomInv, MessagesInv
<1>2. /\ inQ \in Seq(PduMsg) /\ Len(inQ) \in Nat /\ Len(inQ) <= PduQueueSize
      /\ counterQ \in Seq(CounterMsg) /\ Len(counterQ) \in Nat
      /\ Len(counterQ) <= CounterQueueSize
      /\ signals \subseteq Counter /\ edges \subseteq Counter
      /\ counters \in [Counter -> Word] /\ timeout \in BOOLEAN
      /\ rest \in [Counter -> 0 .. Apart - 1]
      /\ Unreported \in Nat /\ overdue \in Nat /\ Samples \in Nat
      /\ Owed(rest, Samples) \in Nat
  <2>1. edges \subseteq Counter /\ timeout \in BOOLEAN /\ rest \in [Counter -> 0 .. Apart - 1]
    BY DEF MessagesInv
  <2>2. Unreported \in Nat /\ overdue \in Nat /\ Samples \in Nat
    <3>1. Cardinality(edges) \in Nat
      BY <2>1, EdgesOfSample, Sizes
    <3> QED
      BY <1>1, <3>1 DEF CountersRoom, Unreported, Samples
  <2>3. Owed(rest, Samples) \in Nat
    BY <2>1, <2>2, OwedAtMost
  <2> QED
    BY <2>1, <2>2, <2>3 DEF MessagesInv, QueuesTypeOK
<1>3. ASSUME inQ' \in Seq(PduMsg), Len(inQ') <= PduQueueSize,
             counterQ' \in Seq(CounterMsg), Len(counterQ') <= CounterQueueSize,
             signals' \subseteq Counter, edges' \subseteq Counter,
             counters' \in [Counter -> Word], timeout' \in BOOLEAN,
             rest' \in [Counter -> 0 .. Apart - 1],
             \/ turn' = turn /\ CountersRoom'
             \/ /\ turn' = "tr" /\ countersPc' = "wait" /\ timeout' = FALSE
                /\ Len(inQ') <= Room
      PROVE  SlaveInv'
  <2>1. MessagesInv'
    BY <1>1, <1>3 DEF MessagesInv, QueuesTypeOK, Turn
  <2>2. RoomInv'
    BY <1>1, <1>3 DEF RoomInv
  <2> QED
    BY <2>1, <2>2
<1>4. Room < PduQueueSize /\ Room \in Nat
  BY Limits, Sizes
<1>5. ASSUME counterQ # <<>>
      PROVE  /\ Head(counterQ) \in CounterMsg /\ Tail(counterQ) \in Seq(CounterMsg)
             /\ Len(Tail(counterQ)) = Len(counterQ) - 1 /\ Len(counterQ) > 0
  BY <1>2, <1>5, TakeHead
<1>6. \A c \in Counter : Report(c) \in PduMsg
  BY <1>2 DEF Report, PduMsg
<1>14. Len(inQ) <= Room
  BY <1>1, <1>2, <1>4 DEF CountersRoom
\* What was to come still is, but for what has come.
<1>13. ASSUME Len(inQ') \in Nat, Len(counterQ') \in Nat, Unreported' \in Nat, overdue' \in Nat,
              countersPc' \in {"wait", "message", "edges"}, timeout' \in BOOLEAN,
              UNCHANGED <<rest, Samples>>,
              ~timeout' => countersPc' # "edges",  timeout' => counterQ' = <<>>,
              Len(inQ') + Len(counterQ') + Unreported' <= Len(inQ) + Len(counterQ) + Unreported
       PROVE  CountersRoom'
  <2>1. Owed(rest, Samples)' = Owed(rest, Samples)
    BY <1>13 DEF Owed, Falling, Again
  <2>2. Samples' <= SavePeriods + 1
    BY <1>1, <1>13 DEF CountersRoom
  <2>3. Len(inQ') + Len(counterQ') + Unreported' + Owed(rest, Samples)' <= Room
    BY <1>1, <1>2, <1>4, <1>13, <2>1 DEF CountersRoom
  <2> QED
    BY <1>13, <2>2, <2>3 DEF CountersRoom
<1>7. CASE CountersWait
  <2>1. /\ countersPc = "wait" /\ turn' = "tr" /\ timeout' = FALSE
        /\ UNCHANGED <<inQ, counterQ, signals, counters, edges, countersPc, rest>>
    BY <1>1, <1>7 DEF CountersWait, GiveWay, CountersRoom
  <2> QED
    BY <1>2, <1>3, <1>14, <2>1
<1>8. CASE CountersWake \/ Elapse \/ MessagesDone \/ EdgesDone
  <2>1. UNCHANGED <<turn, inQ, counterQ, signals, counters, edges, rest>> /\ timeout' \in BOOLEAN
    BY <1>2, <1>8 DEF CountersWake, Elapse, MessagesDone, EdgesDone
  <2>2. CountersRoom'
    <3>1. CASE CountersWake \/ MessagesDone
      <4>1. /\ ~timeout /\ countersPc # "edges" /\ countersPc' \in {"wait", "message"}
            /\ UNCHANGED <<timeout, overdue>>
        BY <1>1, <3>1 DEF CountersRoom, CountersWake, MessagesDone, CountersTurn
      <4>2. UNCHANGED Samples /\ Unreported' = 0 /\ Unreported = 0
        BY <4>1 DEF Samples, Unreported
      <4> QED
        BY <1>2, <1>13, <2>1, <4>1, <4>2
    <3>2. CASE Elapse
      <4>1. /\ countersPc = "wait" /\ countersPc' = "message" /\ counterQ = <<>> /\ timeout'
            /\ overdue > 0 /\ overdue' = overdue - 1
        BY <3>2 DEF Elapse, CountersTurn
      <4>2. UNCHANGED Samples /\ Unreported' = 0 /\ Unreported = 0 /\ overdue' \in Nat
        BY <1>2, <4>1 DEF Samples, Unreported
      <4> QED
        BY <1>2, <1>13, <2>1, <4>1, <4>2
    <3>3. CASE EdgesDone
      <4>1. /\ countersPc = "edges" /\ countersPc' = "wait" /\ UNCHANGED <<timeout, overdue>>
        BY <3>3 DEF EdgesDone, CountersTurn
      <4>2. UNCHANGED Samples /\ Unreported' = 0
        BY <4>1 DEF Samples, Unreported
      <4>3. timeout => counterQ = <<>>
        BY <1>1 DEF CountersRoom
      <4> QED
        BY <1>2, <1>13, <2>1, <4>1, <4>2, <4>3
    <3> QED
      BY <1>8, <3>1, <3>2, <3>3
  <2> QED
    BY <1>2, <1>3, <2>1, <2>2
<1>9. CASE DisableCounter \/ SetCounter
  <2>1. /\ counterQ # <<>> /\ counterQ' = Tail(counterQ) /\ countersPc = "message"
        /\ UNCHANGED <<turn, inQ, edges, timeout, countersPc, rest, overdue>>
    BY <1>9 DEF DisableCounter, SetCounter, HeadIs, CountersTurn
  <2>2. signals' \subseteq Counter /\ counters' \in [Counter -> Word]
    <3>1. CASE DisableCounter
      BY <1>2, <3>1 DEF DisableCounter
    <3>2. CASE SetCounter
      <4>1. Head(counterQ).value \in Word
        BY <1>5, <2>1, <3>2 DEF SetCounter, HeadIs, CounterMsg
      <4> QED
        BY <1>2, <3>2, <4>1 DEF SetCounter
    <3> QED
      BY <1>9, <3>1, <3>2
  <2>3. CountersRoom'
    <3>1. ~timeout
      BY <1>1, <2>1 DEF CountersRoom
    <3>2. UNCHANGED <<Samples, Unreported>>
      BY <2>1, <3>1 DEF Samples, Unreported
    <3> QED
      BY <1>2, <1>5, <1>13, <2>1, <3>1, <3>2
  <2>4. counterQ' \in Seq(CounterMsg) /\ Len(counterQ') <= CounterQueueSize
    BY <1>2, <1>5, <2>1, Sizes
  <2>5. inQ' \in Seq(PduMsg) /\ Len(inQ') <= PduQueueSize /\ edges' \subseteq Counter
        /\ timeout' \in BOOLEAN /\ turn' = turn /\ rest' \in [Counter -> 0 .. Apart - 1]
    BY <1>2, <2>1
  <2> QED
    BY <1>3, <2>2, <2>3, <2>4, <2>5
<1>10. CASE EnableCounter
  <2> DEFINE c == Head(counterQ).id
  <2>1. /\ counterQ # <<>> /\ counterQ' = Tail(counterQ) /\ countersPc = "message"
        /\ Head(counterQ).tag = "enable"
        /\ UNCHANGED <<counters, edges, rest>> /\ signals' = signals \cup {c}
    BY <1>10 DEF EnableCounter, HeadIs, CountersTurn
  <2>2. c \in Counter
    BY <1>5, <2>1 DEF CounterMsg
  <2>3. ~timeout
    BY <1>1, <2>1 DEF CountersRoom
  <2>4. Len(inQ) # PduQueueSize
    BY <1>2, <1>4, <1>14, Sizes
  <2>5. inQ' = Append(inQ, Report(c)) /\ UNCHANGED <<turn, timeout, countersPc, overdue>>
    BY <1>10, <2>4 DEF EnableCounter
  <2> HIDE DEF c
  <2>6. inQ' \in Seq(PduMsg) /\ Len(inQ') = Len(inQ) + 1
    BY <1>2, <1>6, <2>2, <2>5, Sent
  <2>7. Len(inQ') <= PduQueueSize
    BY <1>2, <2>4, <2>6, Sizes
  <2>8. CountersRoom'
    <3>1. UNCHANGED <<Samples, Unreported>>
      BY <2>1, <2>3, <2>5 DEF Samples, Unreported
    <3> QED
      BY <1>2, <1>5, <1>13, <2>1, <2>3, <2>5, <2>6, <3>1
  <2>9. counterQ' \in Seq(CounterMsg) /\ Len(counterQ') <= CounterQueueSize
    BY <1>2, <1>5, <2>1, Sizes
  <2>10. signals' \subseteq Counter /\ edges' \subseteq Counter
         /\ counters' \in [Counter -> Word] /\ timeout' \in BOOLEAN /\ turn' = turn
         /\ rest' \in [Counter -> 0 .. Apart - 1]
    BY <1>2, <2>1, <2>2, <2>5
  <2> QED
    BY <1>3, <2>6, <2>7, <2>8, <2>9, <2>10
<1>11. ASSUME NEW fallen \in SUBSET {c \in signals : rest[c] = 0}, Sample(fallen) PROVE SlaveInv'
  <2>1. /\ countersPc = "message" /\ timeout /\ edges' = fallen /\ countersPc' = "edges"
        /\ UNCHANGED <<turn, inQ, counterQ, signals, timeout, overdue>> /\ counterQ = <<>>
    BY <1>11 DEF Sample, CountersTurn
  <2>2. fallen \in SUBSET Counter
    BY <1>2
  <2>3. counters' \in [Counter -> Word]
    <3>1. \A n \in Word : (n + 1) % WordMod \in Word
      <4>1. \A n \in Nat : n % WordMod \in Word
        BY Sizes, Remainder DEF Word
      <4>2. \A n \in Word : n + 1 \in Nat
        BY Sizes DEF Word
      <4> QED
        BY <4>1, <4>2
    <3>2. \A c \in Counter : counters[c] \in Word
      BY <1>2
    <3> QED
      BY <1>11, <3>1, <3>2 DEF Sample
  <2>4. Cardinality(fallen) \in Nat
    BY <2>2, EdgesOfSample, Sizes
  <2>5. rest' \in [Counter -> 0 .. Apart - 1]
    <3>1. \A c \in Counter : rest[c] \in 0 .. Apart - 1
      BY <1>2
    <3>2. \A n \in 0 .. Apart - 1 : n > 0 => n - 1 \in 0 .. Apart - 1
      BY Limits
    <3>3. Apart - 1 \in 0 .. Apart - 1
      BY Limits
    <3> QED
      BY <1>11, <3>1, <3>2, <3>3 DEF Sample
  <2>6. Samples = overdue + 1 /\ Samples' = overdue /\ Unreported' = Cardinality(fallen)
    BY <2>1 DEF Samples, Unreported
  <2>7. Cardinality(fallen) + Owed(rest', overdue) <= Owed(rest, overdue + 1)
    <3>1. overdue + 1 \in Nat \ {0} /\ overdue + 1 <= 2 * Apart /\ (overdue + 1) - 1 = overdue
      BY <1>1, <1>2, <2>6, Limits DEF CountersRoom
    <3>2. \A c \in fallen : rest[c] = 0 /\ rest'[c] = Apart - 1
      BY <1>11, <2>2 DEF Sample
    <3>3. \A c \in Counter \ fallen : rest'[c] = rest[c] \/ (rest[c] > 0 /\ rest'[c] = rest[c] - 1)
      BY <1>11 DEF Sample
    <3>4. PICK r \in [Counter -> 0 .. Apart - 1], s \in [Counter -> 0 .. Apart - 1] :
              r = rest /\ s = rest'
      BY <1>2, <2>5
    <3>5. Cardinality(fallen) + Owed(s, (overdue + 1) - 1) <= Owed(r, overdue + 1)
      BY <2>2, <3>1, <3>2, <3>3, <3>4, OwedNext
    <3> QED
      BY <3>1, <3>4, <3>5
  <2>8. Owed(rest, Samples)' = Owed(rest', overdue)
    BY <2>6 DEF Owed, Falling, Again
  <2>9. Owed(rest', overdue) \in Nat
    BY <1>2, <2>5, OwedAtMost
  <2>10. Unreported = 0
    BY <2>1 DEF Unreported
  <2>11. Len(inQ') + Len(counterQ') + Unreported' + Owed(rest, Samples)' <= Room
    BY <1>1, <1>2, <1>4, <2>1, <2>4, <2>6, <2>7, <2>8, <2>9, <2>10 DEF CountersRoom
  <2>12. CountersRoom'
    <3>1. Samples' <= SavePeriods + 1
      BY <1>1, <1>2, <2>6, Limits DEF CountersRoom
    <3> QED
      BY <1>2, <2>1, <2>11, <3>1 DEF CountersRoom
  <2> QED
    BY <1>2, <1>3, <2>1, <2>2, <2>3, <2>5, <2>12
<1>12. CASE ReportEdge
  <2> DEFINE c == CHOOSE i \in edges : \A j \in edges : i <= j
  <2>1. /\ countersPc = "edges" /\ edges # {}
        /\ UNCHANGED <<counterQ, signals, counters, countersPc, rest>>
    BY <1>12 DEF ReportEdge, CountersTurn
  <2>2. timeout /\ counterQ = <<>>
    BY <1>1, <2>1 DEF CountersRoom
  <2>3. IsFiniteSet(edges) /\ Cardinality(edges) \in Nat
    BY <1>2, EdgesOfSample
  <2>4. Len(inQ) # PduQueueSize
    BY <1>2, <1>4, <1>14, Sizes
  <2>5. /\ inQ' = Append(inQ, Report(c)) /\ edges' = edges \ {c}
        /\ UNCHANGED <<turn, timeout, overdue>>
    BY <1>12, <2>4 DEF ReportEdge
  <2>6. c \in edges
    <3>1. edges \in SUBSET Nat
      BY <1>2 DEF Counter, Pin
    <3> QED
      BY <2>1, <3>1, LeastEdge
  <2> HIDE DEF c
  <2>7. Cardinality(edges') = Cardinality(edges) - 1
    BY <2>3, <2>5, <2>6, FS_RemoveElement
  <2>8. inQ' \in Seq(PduMsg) /\ Len(inQ') = Len(inQ) + 1
    BY <1>2, <1>6, <2>5, <2>6, Sent
  <2>9. Len(inQ') <= PduQueueSize
    BY <1>2, <2>4, <2>8, Sizes
  <2>10. CountersRoom'
    <3>1. UNCHANGED Samples /\ Unreported = Cardinality(edges) /\ Unreported' = Cardinality(edges')
      BY <2>1, <2>5 DEF Samples, Unreported
    <3>2. Unreported' = Unreported - 1 /\ Unreported' \in Nat
      <4>1. Cardinality(edges) # 0
        BY <2>1, <2>3, FS_EmptySet
      <4> QED
        BY <2>3, <2>7, <3>1, <4>1
    <3> QED
      BY <1>2, <1>13, <2>1, <2>2, <2>5, <2>8, <3>1, <3>2
  <2> QED
    BY <1>2, <1>3, <2>1, <2>2, <2>5, <2>8, <2>9, <2>10
<1> QED
  BY <1>7, <1>8, <1>9, <1>10, <1>11, <1>12 DEF CountersStep

-----------------------------------------------------------------------------
(* The rest of the steps, and the property.                                *)

\* What a reset leaves satisfies SlaveInv.
LEMMA AfterReset == Reset => SlaveInv'
<1> SUFFICES ASSUME Reset PROVE SlaveInv'
  OBVIOUS
<1>1. /\ [c \in Counter |-> 0] \in [Counter -> Word]
      /\ [c \in Counter |-> Apart - 1] \in [Counter -> 0 .. Apart - 1]
  BY Sizes, Limits DEF Word
<1>2. NoJob \in Jobs /\ NoJob.kind = "none"
  BY DEF NoJob, Jobs
<1>3. MessagesInv'
  <2>1. QueuesTypeOK'
    BY Sizes DEF Reset, QueuesTypeOK, Turn
  <2> QED
    BY <1>1, <1>2, <2>1 DEF Reset, MessagesInv
<1>4. RoomInv'
  BY DEF Reset, RoomInv
<1> QED
  BY <1>3, <1>4 DEF SlaveInv

LEMMA AtStart == Init => SlaveInv
<1> SUFFICES ASSUME Init PROVE SlaveInv
  OBVIOUS
<1>1. /\ [c \in Counter |-> 0] \in [Counter -> Word]
      /\ [c \in Counter |-> Apart - 1] \in [Counter -> 0 .. Apart - 1]
  BY Sizes, Limits DEF Word
<1>2. NoJob \in Jobs /\ NoJob.kind = "none"
  BY DEF NoJob, Jobs
<1>3. MessagesInv
  <2>1. QueuesTypeOK
    BY Sizes DEF Init, QueuesInit, QueuesTypeOK, Turn
  <2> QED
    BY <1>1, <1>2, <2>1 DEF Init, QueuesInit, AdcInit, CountersInit, MessagesInv
<1>4. RoomInv
  BY DEF Init, QueuesInit, AdcInit, CountersInit, RoomInv
<1> QED
  BY <1>3, <1>4 DEF SlaveInv

LEMMA SlaveInvStep == SlaveInv /\ SaveInv /\ [Next]_vars => SlaveInv'
<1> SUFFICES ASSUME SlaveInv, SaveInv, [Next]_vars PROVE SlaveInv'
  OBVIOUS
<1> USE DEF SlaveInv
<1>1. CASE BootLoad
  <2>1. /\ turn = "boot" /\ job' \in Jobs /\ (turn' = "boot" \/ (turn' = "tr" /\ job'.kind = "none"))
        /\ UNCHANGED <<inQ, adcQ, counterQ, request>>
        /\ UNCHANGED <<adcVars, countersVars>>
    BY <1>1, ConfigWrites DEF BootLoad, NoJob, MessagesInv
  <2>2. adcQ \in Seq(AdcMsg) /\ Len(adcQ) <= AdcQueueSize
        /\ counterQ \in Seq(CounterMsg) /\ Len(counterQ) <= CounterQueueSize
    BY DEF MessagesInv, QueuesTypeOK
  <2> QED
    BY <2>1, <2>2, PduFrame
<1>2. ASSUME turn = "tr", turn' = "pduh",
             inQ' \in Seq(PduMsg), Len(inQ') <= 1 + Room, request' \in Requests \cup {NoRequest},
             UNCHANGED <<adcQ, counterQ, job, adcVars, countersVars>>
      PROVE  SlaveInv'
  <2>1. Len(inQ') <= PduQueueSize
    BY <1>2, Limits, Sizes
  <2>2. MessagesInv'
    BY <1>2, <2>1 DEF MessagesInv, QueuesTypeOK, Turn, adcVars, countersVars
  <2>3. RoomInv'
    BY <1>2 DEF RoomInv, adcVars, countersVars
  <2> QED
    BY <2>2, <2>3
<1>3. turn = "tr" => inQ \in Seq(PduMsg) /\ Len(inQ) \in Nat /\ Len(inQ) <= Room
  BY DEF MessagesInv, QueuesTypeOK, RoomInv
<1>4. CASE NoFrame
  <2>1. Len(inQ) <= 1 + Room
    BY <1>3, <1>4, Limits DEF NoFrame
  <2> QED
    BY <1>2, <1>3, <1>4, <2>1 DEF NoFrame, MessagesInv
<1>5. ASSUME NEW r \in Requests, Ask(r) PROVE SlaveInv'
  <2> DEFINE m == [tag |-> "buffer"]
  <2>1. m \in PduMsg
    BY DEF PduMsg
  <2>2. turn = "tr" /\ inQ' = Push(inQ, m, PduQueueSize)
    BY <1>5 DEF Ask
  <2>3. Len(inQ) < PduQueueSize
    BY <1>3, <2>2, Limits, Sizes
  <2> HIDE DEF m
  <2>4. inQ' \in Seq(PduMsg) /\ Len(inQ') = Len(inQ) + 1
    BY <1>3, <2>1, <2>2, <2>3, Pushed, Sizes
  <2>5. Len(inQ') <= 1 + Room
    BY <1>3, <2>2, <2>4, Limits
  <2> QED
    BY <1>2, <1>5, <2>4, <2>5 DEF Ask
<1>6. CASE Conversion
  <2>1. /\ UNCHANGED <<turn, inQ, adcQ, counterQ, request, job, channels, adcPc>>
        /\ UNCHANGED <<signals, counters, edges, timeout, countersPc, rest, overdue>>
    BY <1>6 DEF Conversion, ConversionEnds, pduVars, countersVars
  <2>2. MessagesInv'
    BY <2>1 DEF MessagesInv, QueuesTypeOK
  <2>3. RoomInv'
    BY <2>1 DEF RoomInv, CountersRoom, Unreported, Samples, Owed, Falling, Again
  <2> QED
    BY <2>2, <2>3
<1>7. CASE UNCHANGED vars
  <2>1. MessagesInv'
    BY <1>7 DEF vars, pduVars, adcVars, countersVars, MessagesInv, QueuesTypeOK
  <2>2. RoomInv'
    BY <1>7 DEF vars, pduVars, adcVars, countersVars, RoomInv, CountersRoom, Unreported, Samples,
                Owed, Falling, Again
  <2> QED
    BY <2>1, <2>2
<1>8. CASE PowerFails \/ \E n \in 0 .. 14 : PowerFailsInSave(n)
  BY <1>8, AfterReset DEF PowerFails, PowerFailsInSave
<1>9. CASE MainLoop
  BY <1>1, <1>4, <1>9, PduKeeps, AdcKeeps, CountersKeep DEF MainLoop
<1> QED
  BY <1>5, <1>6, <1>7, <1>8, <1>9 DEF Next

\* The frame is the last in the queue of the PDU handler, and taken in the turn
\* it comes in; when it is executed the daemons' messages are all taken.
FrameLast ==
    /\ job.kind # "none" => inQ = <<>>
    /\ \A i \in 1 .. Len(inQ) : inQ[i].tag = "buffer" => i = Len(inQ) /\ turn = "pduh"

\* Which steps leave the order of the messages alone.
LEMMA FrameLastStep ==
    ASSUME SlaveInv, FrameLast, [Next]_vars
    PROVE  FrameLast'
<1> USE DEF SlaveInv
<1>1. inQ \in Seq(PduMsg)
  BY DEF MessagesInv, QueuesTypeOK
<1>2. ASSUME inQ' = <<>> PROVE FrameLast'
  BY <1>2 DEF FrameLast
<1>3. turn = "boot" \/ turn = "adc" => inQ = <<>>
  BY DEF RoomInv
<1>4. turn \notin {"boot", "pduh"} => job.kind = "none"
  BY DEF MessagesInv
<1>5. ASSUME turn # "pduh", job'.kind = "none",
             inQ' = inQ \/ \E m \in PduMsg : m.tag # "buffer" /\ inQ' = Append(inQ, m)
      PROVE  FrameLast'
  <2>1. \A i \in 1 .. Len(inQ) : inQ[i].tag # "buffer"
    BY <1>5 DEF FrameLast
  <2>2. ASSUME NEW m \in PduMsg, m.tag # "buffer", inQ' = Append(inQ, m)
        PROVE  \A i \in 1 .. Len(inQ') : inQ'[i].tag # "buffer"
    BY <1>1, <2>1, <2>2
  <2>3. \A i \in 1 .. Len(inQ') : inQ'[i].tag # "buffer"
    BY <1>5, <2>1, <2>2
  <2> QED
    BY <1>5, <2>3 DEF FrameLast
<1>6. CASE PduStep
  <2>1. CASE TakeIndication
    <3>1. inQ # <<>> /\ Head(inQ).tag = "buffer" /\ inQ' = Tail(inQ)
      BY <2>1 DEF TakeIndication, PduTurn
    <3>2. Len(inQ) > 0 /\ Head(inQ) = inQ[1] /\ Len(inQ) \in Nat
      BY <1>1, <3>1
    <3>3. Len(inQ) = 1
      <4>1. 1 \in 1 .. Len(inQ) /\ inQ[1].tag = "buffer"
        BY <3>1, <3>2
      <4> QED
        BY <4>1 DEF FrameLast
    <3>4. Tail(inQ) = <<>>
      <4>1. Tail(inQ) \in Seq(PduMsg) /\ Len(Tail(inQ)) = Len(inQ) - 1
        BY <1>1, <3>1, TakeHead
      <4>2. Len(Tail(inQ)) = 0
        BY <3>3, <4>1
      <4>3. \A q \in Seq(PduMsg) : Len(q) = 0 => q = <<>>
        OBVIOUS
      <4> QED
        BY <4>1, <4>2, <4>3
    <3> QED
      BY <1>2, <3>1, <3>4
  <2>2. CASE TakeReading \/ TakeCount
    <3>1. inQ # <<>> /\ inQ' = Tail(inQ) /\ job' = NoJob /\ turn' = "pduh"
      BY <2>2 DEF TakeReading, TakeCount, PduTurn
    <3> DEFINE r == Tail(inQ)
    <3>2. /\ Len(inQ) \in Nat /\ Len(r) = Len(inQ) - 1 /\ Len(r) \in Nat
          /\ \A i \in 1 .. Len(r) : r[i] = inQ[i + 1]
      BY <1>1, <3>1
    <3> HIDE DEF r
    <3>3. \A i \in 1 .. Len(r) : r[i].tag = "buffer" => i = Len(r)
      <4> SUFFICES ASSUME NEW i \in 1 .. Len(r), r[i].tag = "buffer" PROVE i = Len(r)
        OBVIOUS
      <4>1. i + 1 \in 1 .. Len(inQ) /\ inQ[i + 1].tag = "buffer"
        BY <3>2
      <4>2. i + 1 = Len(inQ)
        BY <4>1 DEF FrameLast
      <4> QED
        BY <3>2, <4>2
    <3> QED
      BY <3>1, <3>3 DEF FrameLast, r, NoJob
  <2>3. CASE PduWait
    BY <1>2, <2>3 DEF PduWait
  <2>4. CASE JobDone
    BY <1>2, <2>4 DEF JobDone, FrameLast
  <2>5. CASE Writing("coils") \/ Writing("registers")
    BY <1>2, <2>5 DEF Writing, FrameLast
  <2> QED
    BY <1>6, <2>1, <2>2, <2>3, <2>4, <2>5
    DEF PduStep, WriteDirection, WriteMode, WritePullUp, WriteCounting, WriteOutput, UnwritableCoil,
        SetRunning, SaveConfig, LoadConfig, WriteTimer, WriteCounter, WriteUserData, WriteReading,
        WritingCoil
<1>7. CASE AdcStep /\ UNCHANGED pduVars
  <2>1. turn = "adc" /\ job' = job
    BY <1>7 DEF AdcStep, TakeAdcMessage, NoAdcMessage, NothingRead, ReadChannel, AdcTurn, pduVars
  <2>2. inQ' = inQ \/ (active \in channels /\ inQ' = Append(inQ, [tag |-> "adc", id |-> active]))
    BY <1>7 DEF AdcStep, TakeAdcMessage, NoAdcMessage, NothingRead, ReadChannel
  <2>3. active \in channels
        => [tag |-> "adc", id |-> active] \in PduMsg /\ [tag |-> "adc", id |-> active].tag # "buffer"
    BY DEF PduMsg, MessagesInv
  <2> QED
    BY <1>4, <1>5, <2>1, <2>2, <2>3
<1>8. CASE CountersStep /\ UNCHANGED pduVars
  <2>1. turn = "counters" /\ job' = job
    BY <1>8
    DEF CountersStep, CountersWait, CountersWake, Elapse, HeadIs, CountersTurn, DisableCounter,
        EnableCounter, SetCounter, MessagesDone, Sample, ReportEdge, EdgesDone, pduVars
  <2>2. inQ' = inQ \/ \E c \in Counter : inQ' = Append(inQ, Report(c))
    <3>1. CASE EnableCounter
      <4>1. Head(counterQ) \in CounterMsg
        BY <3>1, TakeHead DEF EnableCounter, HeadIs, MessagesInv, QueuesTypeOK
      <4>2. Head(counterQ).id \in Counter
        BY <4>1 DEF CounterMsg
      <4> QED
        BY <3>1, <4>2 DEF EnableCounter
    <3>2. CASE ReportEdge
      <4>1. edges \in SUBSET Nat /\ edges # {} /\ edges \subseteq Counter
        BY <3>2 DEF ReportEdge, MessagesInv, Counter, Pin
      <4>2. (CHOOSE i \in edges : \A j \in edges : i <= j) \in edges
        BY <4>1, LeastEdge
      <4> QED
        BY <3>2, <4>1, <4>2 DEF ReportEdge
    <3> QED
      BY <1>8, <3>1, <3>2
      DEF CountersStep, CountersWait, CountersWake, Elapse, DisableCounter, SetCounter, MessagesDone,
          Sample, EdgesDone
  <2>3. \A c \in Counter : Report(c) \in PduMsg /\ Report(c).tag # "buffer"
    BY DEF Report, PduMsg, MessagesInv
  <2> QED
    BY <1>4, <1>5, <2>1, <2>2, <2>3
<1>9. CASE BootLoad
  BY <1>2, <1>3, <1>9 DEF BootLoad
<1>10. CASE NoFrame
  <2>1. turn = "tr" /\ UNCHANGED <<inQ, job>>
    BY <1>10 DEF NoFrame
  <2> QED
    BY <1>4, <1>5, <2>1
<1>11. ASSUME NEW r \in Requests, Ask(r) PROVE FrameLast'
  <2> DEFINE m == [tag |-> "buffer"]
  <2>1. turn = "tr" /\ turn' = "pduh" /\ job' = job /\ inQ' = Push(inQ, m, PduQueueSize)
    BY <1>11 DEF Ask
  <2>2. inQ' = inQ \/ inQ' = Append(inQ, m)
    BY <2>1 DEF Push
  <2> HIDE DEF m
  <2>3. \A i \in 1 .. Len(inQ) : inQ[i].tag # "buffer"
    BY <2>1 DEF FrameLast
  <2>4. \A i \in 1 .. Len(inQ') : inQ'[i].tag = "buffer" => i = Len(inQ')
    BY <1>1, <2>2, <2>3
  <2> QED
    BY <1>4, <2>1, <2>4 DEF FrameLast
<1>12. CASE Conversion
  BY <1>4, <1>5, <1>12 DEF Conversion, ConversionEnds, pduVars
<1>13. CASE PowerFails \/ \E n \in 0 .. 14 : PowerFailsInSave(n)
  BY <1>2, <1>13 DEF PowerFails, PowerFailsInSave, Reset
<1>14. CASE UNCHANGED vars
  BY <1>14 DEF vars, pduVars, FrameLast
<1>15. CASE MainLoop
  BY <1>6, <1>7, <1>8, <1>9, <1>10, <1>15 DEF MainLoop
<1> QED
  BY <1>11, <1>12, <1>13, <1>14, <1>15 DEF Next

\* The addresses beyond the records are of no kind.
LEMMA BeyondRecords ==
    ASSUME NEW a \in CoilsEnd .. RegistryMod * Bits - 1
    PROVE  KindOf(a) = "none"
<1>1. a \in CoilsEnd .. RegistryMod * Bits - 1 /\ a \in Nat
  BY Sizes DEF CoilsEnd
<1> DEFINE r == a \div Bits
           b == a % Bits
<1>2. r \in Nat /\ b \in 0 .. Bits - 1 /\ a = Bits * r + b
  BY <1>1, Sizes
<1> HIDE DEF r, b
<1>3. r >= 27
  <2>1. r <= 26 => Bits * r <= Bits * 26
    BY <1>2, Sizes
  <2> QED
    BY <1>1, <1>2, <2>1, Sizes DEF CoilsEnd
<1>4. r < RegistryMod
  <2>1. r >= RegistryMod => Bits * r >= Bits * RegistryMod
    BY <1>2, Sizes
  <2>2. Bits * RegistryMod = RegistryMod * Bits
    BY Sizes
  <2> QED
    BY <1>1, <1>2, <2>1, <2>2, Sizes
<1>5. Registry(a) = r
  <2>1. a \div Bits = r
    BY DEF r
  <2>2. r % RegistryMod = r
    BY <1>2, <1>4, Sizes
  <2> QED
    BY <2>1, <2>2 DEF Registry
<1>6. KindOf(a) = "none"
  <2>1. ~ (Registry(a) < 27)
    BY <1>2, <1>3, <1>5
  <2> QED
    BY <2>1 DEF KindOf
<1> QED
  BY <1>6

\* So are those of the commands, and the one before each of them.
LEMMA Commands ==
    ASSUME NEW a \in {SaveAddress, LoadAddress, RunAddress}
    PROVE  /\ a \in Nat /\ a >= CoilsEnd /\ KindOf(a) = "none"
           /\ a > CoilsEnd /\ a + MaxCoils < AddressMod /\ MaxCoils \in Nat
           /\ KindOf(a - 1) = "none"
<1>1. a \in CoilsEnd + 1 .. RegistryMod * Bits - 1 /\ CoilsEnd \in Nat /\ RegistryMod * Bits \in Nat
  BY AddressesAssumption, Sizes DEF CoilsEnd
<1>2. a \in CoilsEnd .. RegistryMod * Bits - 1 /\ a - 1 \in CoilsEnd .. RegistryMod * Bits - 1
  BY <1>1
<1>3. KindOf(a) = "none" /\ KindOf(a - 1) = "none"
  BY <1>2, BeyondRecords
<1>4. a + MaxCoils < AddressMod /\ MaxCoils \in Nat
  BY AddressesAssumption
<1> QED
  BY <1>1, <1>3, <1>4

\* The counters daemon gives way only at its wait.
LEMMA CountersStay ==
    ASSUME SlaveInv, SlaveInv', CountersStep
    PROVE  turn' = "counters" \/ CountersWait
<1>1. turn = "counters" /\ countersPc # "lost"
  BY DEF CountersStep, CountersWait, CountersWake, Elapse, HeadIs, CountersTurn, DisableCounter,
         EnableCounter, SetCounter, MessagesDone, Sample, ReportEdge, EdgesDone, SlaveInv, RoomInv,
         CountersRoom
<1>2. turn' # "counters" => countersPc' = "wait"
  BY DEF SlaveInv, RoomInv
<1> QED
  BY <1>1, <1>2
  DEF CountersStep, CountersWait, CountersWake, Elapse, HeadIs, CountersTurn, DisableCounter,
      EnableCounter, SetCounter, MessagesDone, Sample, ReportEdge, EdgesDone

\* A write that goes on does not come to a command, and a request with one has
\* nothing else.
LEMMA NoCommandNext ==
    ASSUME job \in Jobs, Writing("coils"), Advance,
           KindOf(job.addr) # "none" \/ Len(job.rest) = 1
    PROVE  job'.rest = <<>> \/ job'.addr \notin {SaveAddress, LoadAddress, RunAddress}
<1>1. job.kind = "coils" /\ job.addr \in 0 .. AddressMod - 1 /\ job.rest \in Seq(BOOLEAN) /\ job.rest # <<>>
  BY DEF Jobs, Writing, Address
<1>2. job'.addr = (job.addr + 1) % AddressMod /\ job'.rest = Tail(job.rest)
  BY DEF Advance, Jobs
<1>3. CASE Len(job.rest) = 1
  BY <1>1, <1>2, <1>3, LastTaken
<1>4. ASSUME KindOf(job.addr) # "none", NEW a \in {SaveAddress, LoadAddress, RunAddress}, job'.addr = a
      PROVE  FALSE
  <2>1. a \in Nat /\ a > 0 /\ KindOf(a - 1) = "none"
    BY Commands, Sizes DEF CoilsEnd
  <2>2. (job.addr + 1) % AddressMod = IF job.addr + 1 = AddressMod THEN 0 ELSE job.addr + 1
    <3>1. \A n \in 0 .. AddressMod - 1 : (n + 1) % AddressMod = IF n + 1 = AddressMod THEN 0 ELSE n + 1
      BY Sizes
    <3> QED
      BY <1>1, <3>1
  <2>3. job.addr = a - 1
    BY <1>1, <1>2, <1>4, <2>1, <2>2, Sizes
  <2> QED
    BY <1>4, <2>1, <2>3
<1> QED
  BY <1>3, <1>4

LEMMA CommandAlone ==
    ASSUME NEW r \in Requests, r.fn \in {"write_coil", "write_coils"}, Refusal(r) = "none",
           r.addr \in {SaveAddress, LoadAddress, RunAddress}
    PROVE  Len(r.data) = 1
<1>1. Len(r.data) = r.count /\ (r.fn = "write_coil" => r.count = 1) /\ r.count \in 0 .. AddressMod - 1
  BY RequestsAssumption
<1>2. CASE r.fn = "write_coil"
  BY <1>1, <1>2
<1>3. CASE r.fn = "write_coils"
  <2>1. WritableCoils(r.addr, r.count) /\ r.count \in 1 .. MaxCoils
    BY <1>3 DEF Refusal
  <2>2. r.addr \in Nat /\ r.addr > CoilsEnd /\ r.addr + MaxCoils < AddressMod /\ MaxCoils \in Nat
    BY Commands
  <2>3. (r.addr + r.count) % AddressMod = r.addr + r.count
    <3>1. r.addr + r.count \in 0 .. AddressMod - 1
      BY <2>1, <2>2, Sizes
    <3> QED
      BY <3>1, Sizes
  <2>4. CoilsEnd \in Nat
    BY Sizes DEF CoilsEnd
  <2> QED
    BY <1>1, <2>1, <2>2, <2>3, <2>4 DEF WritableCoils
<1> QED
  BY <1>2, <1>3

LEMMA SaveInvStep ==
    ASSUME SlaveInv, SlaveInv', FrameLast, SaveInv, [Next]_vars
    PROVE  SaveInv'
<1> DEFINE Command == {SaveAddress, LoadAddress, RunAddress}
<1>1. /\ job \in Jobs /\ (job.kind # "none" => turn \in {"boot", "pduh"})
      /\ turn \in Turn /\ inQ \in Seq(PduMsg) /\ (job.kind # "none" => inQ = <<>>)
      /\ overdue \in 0 .. SavePeriods + 1 /\ SavePeriods \in Nat
      /\ job.kind = "none" => job.rest = <<>>
  BY Limits DEF SlaveInv, MessagesInv, QueuesTypeOK, FrameLast, SaveInv, Jobs
<1>2. 1 \in 0 .. SavePeriods + 1 /\ 0 \in 0 .. SavePeriods + 1
  BY Limits
<1>3. FirstIOD \notin Command
  <2>1. \A a \in Command : a > CoilsEnd
    BY Commands
  <2> QED
    BY <2>1, Sizes DEF FirstIOD, CoilsEnd
<1> HIDE DEF Command
\* A step to or within the PDU handler's turn that does not put samples off.
<1>4. ASSUME turn \in {"boot", "pduh"}, turn' \in {turn, "tr"}, turn = "pduh" => turn' = turn,
             inQ' = <<>>, UNCHANGED overdue, overdue <= 1,
             job'.kind = "coils" => job'.rest = <<>> \/ job'.addr \notin Command
      PROVE  SaveInv'
  BY <1>1, <1>4 DEF SaveInv, Command
<1>5. CASE PduStep /\ Elapses /\ UNCHANGED <<adcVars, countersVars, asked, fresh>>
  <2>1. ASSUME Writing("coils") \/ Writing("registers")
        PROVE  /\ turn \in {"boot", "pduh"} /\ overdue <= 1 /\ inQ = <<>> /\ inQ' = <<>>
               /\ turn' \in {turn, "tr"} /\ (turn = "pduh" => turn' = turn)
    <3>1. turn \in {"boot", "pduh"} /\ inQ = <<>> /\ inQ' = <<>>
      BY <1>1, <2>1 DEF Writing
    <3>2. overdue <= 1
      BY <1>1, <2>1, <3>1 DEF SaveInv, Writing
    <3>3. turn' = turn \/ (turn = "boot" /\ turn' = "tr")
      BY <1>5, <2>1, <3>1
      DEF PduStep, TakeIndication, TakeReading, TakeCount, PduTurn, PduWait, JobDone, WriteDirection,
          WriteMode, WritePullUp, WriteCounting, WriteOutput, UnwritableCoil, SetRunning, SaveConfig,
          LoadConfig, WriteTimer, WriteCounter, WriteUserData, WriteReading, Advance, Finish, Writing,
          WritingCoil, NoJob
    <3> QED
      BY <3>1, <3>2, <3>3
  <2>2. ASSUME job.kind # "coils" \/ job.rest = <<>> \/ job.addr # SaveAddress
        PROVE  UNCHANGED overdue
    BY <1>5, <2>2 DEF Elapses, Saving
  <2>3. \A a \in Command : KindOf(a) = "none"
    BY Commands DEF Command
  <2>4. ASSUME NEW kind, kind # "none", WritingCoil(kind), Advance PROVE SaveInv'
    <3>1. KindOf(job.addr) # "none" /\ Writing("coils")
      BY <2>4 DEF WritingCoil
    <3>2. job.addr \notin Command
      BY <2>3, <3>1
    <3>3. UNCHANGED overdue
      BY <2>2, <3>2 DEF Command
    <3>4. job'.rest = <<>> \/ job'.addr \notin Command
      BY <1>1, <2>4, <3>1, NoCommandNext DEF Command
    <3> QED
      BY <1>4, <2>1, <3>1, <3>3, <3>4
  <2>5. ASSUME NEW how, Finish(how), Writing("coils") \/ Writing("registers"), UNCHANGED overdue
        PROVE  SaveInv'
    <3>1. job'.kind = "none"
      BY <2>5, JobOver
    <3> QED
      BY <1>4, <2>1, <2>5, <3>1
  <2>6. CASE WriteDirection \/ WriteMode \/ WritePullUp \/ WriteCounting
    BY <2>4, <2>6 DEF WriteDirection, WriteMode, WritePullUp, WriteCounting
  <2>7. CASE WriteOutput
    <3>1. WritingCoil("PO") /\ (Advance \/ Finish("failure"))
      BY <2>7 DEF WriteOutput
    <3>2. UNCHANGED overdue
      <4>1. job.addr \notin Command
        BY <2>3, <3>1 DEF WritingCoil
      <4> QED
        BY <2>2, <4>1 DEF Command
    <3> QED
      BY <2>4, <2>5, <3>1, <3>2 DEF WritingCoil
  <2>8. CASE UnwritableCoil
    <3>1. Writing("coils") /\ Finish("failure") /\ UNCHANGED overdue
      BY <2>2, <2>8 DEF UnwritableCoil, WritingCoil
    <3> QED
      BY <2>5, <3>1
  <2>9. ASSUME Writing("coils"), job.addr \in Command, Advance, UNCHANGED counterQ PROVE SaveInv'
    <3>1. turn = "pduh" /\ Len(job.rest) = 1 /\ counterQ = <<>> /\ turn' = "pduh"
      BY <2>9 DEF SaveInv, Command, Writing, Advance
    <3>2. job'.rest = <<>>
      <4>1. job.rest \in Seq(BOOLEAN)
        BY <1>1, <2>9 DEF Jobs, Writing
      <4>2. job'.rest = Tail(job.rest)
        BY <1>1, <2>9 DEF Advance, Jobs
      <4> QED
        BY <3>1, <4>1, <4>2, LastTaken
    <3>3. overdue' \in 0 .. SavePeriods + 1
      <4>1. overdue \in 0 .. 1
        BY <1>1, <2>1, <2>9
      <4>2. UNCHANGED overdue \/ overdue' = overdue + SavePeriods \/ overdue' = overdue + (SavePeriods - 1)
        BY <1>5 DEF Elapses
      <4> QED
        BY <1>1, <4>1, <4>2, PeriodsAssumption
    <3>4. inQ' = <<>> /\ counterQ' = <<>>
      BY <2>1, <2>9, <3>1
    <3> QED
      BY <3>1, <3>2, <3>3, <3>4 DEF SaveInv
  <2>10. CASE SetRunning \/ SaveConfig
    BY <2>9, <2>10 DEF SetRunning, SaveConfig, Command
  <2>11. CASE LoadConfig
    <3>1. Writing("coils") /\ UNCHANGED overdue
      <4>1. job.addr # SaveAddress
        BY <2>11, AddressesAssumption DEF LoadConfig
      <4> QED
        BY <2>2, <2>11, <4>1 DEF LoadConfig
    <3>2. CASE job' = ConfigJob /\ turn' = turn
      BY <1>3, <1>4, <2>1, <3>1, <3>2 DEF ConfigJob, Job
    <3>3. CASE Finish("failure")
      BY <2>5, <3>1, <3>3
    <3> QED
      BY <2>11, <3>2, <3>3 DEF LoadConfig
  <2>12. CASE WriteTimer \/ WriteCounter \/ WriteUserData \/ WriteReading
    <3>1. Writing("registers") /\ (Advance \/ \E how : Finish(how))
      BY <2>12 DEF WriteTimer, WriteCounter, WriteUserData, WriteReading
    <3>2. UNCHANGED overdue
      BY <2>2, <3>1 DEF Writing
    <3>3. CASE Advance
      <4>1. job'.kind = "registers"
        BY <1>1, <3>1, <3>3, NextJob DEF Writing
      <4> QED
        BY <1>4, <2>1, <3>1, <3>2, <4>1
    <3> QED
      BY <2>5, <3>1, <3>2, <3>3
  <2>13. CASE TakeIndication
    <3>1. /\ turn = "pduh" /\ job = NoJob /\ inQ # <<>> /\ Head(inQ).tag = "buffer"
          /\ inQ' = Tail(inQ) /\ UNCHANGED <<turn, counterQ>>
      BY <2>13 DEF TakeIndication, PduTurn
    <3>2. 1 \in 1 .. Len(inQ) /\ inQ[1].tag = "buffer"
      BY <1>1, <3>1
    <3>3. counterQ = <<>> /\ overdue <= 1
      BY <1>1, <3>1, <3>2 DEF SaveInv
    <3>4. UNCHANGED overdue
      BY <2>2, <3>1 DEF NoJob
    <3>5. job'.kind = "coils" /\ job'.rest # <<>> /\ job'.addr \in Command => Len(job'.rest) = 1
      <4>1. CASE UNCHANGED job
        BY <3>1, <4>1 DEF NoJob
      <4>2. CASE /\ Refusal(request) = "none"
                 /\ job' = Job(IF request.fn \in {"write_coil", "write_coils"} THEN "coils"
                               ELSE "registers", request.addr, request.data)
        <5> SUFFICES ASSUME job'.kind = "coils", job'.addr \in Command PROVE Len(job'.rest) = 1
          OBVIOUS
        <5>1. /\ request.fn \in {"write_coil", "write_coils"} /\ request.addr \in Command
              /\ job'.rest = request.data
          BY <4>2 DEF Job
        <5>2. request \in Requests
          BY <5>1 DEF SlaveInv, MessagesInv, NoRequest
        <5> QED
          BY <4>2, <5>1, <5>2, CommandAlone DEF Command
      <4> QED
        BY <2>13, <4>1, <4>2 DEF TakeIndication
    <3> QED
      BY <1>1, <3>1, <3>3, <3>4, <3>5 DEF SaveInv, Command
  <2>14. CASE TakeReading \/ TakeCount
    <3>1. /\ turn = "pduh" /\ job = NoJob /\ inQ # <<>> /\ inQ' = Tail(inQ)
          /\ UNCHANGED <<turn, job, counterQ>>
      BY <2>14 DEF TakeReading, TakeCount, PduTurn
    <3>2. UNCHANGED overdue /\ overdue <= 1
      BY <1>1, <2>2, <3>1 DEF NoJob, SaveInv
    <3>3. (\E i \in 1 .. Len(inQ') : inQ'[i].tag = "buffer") => counterQ = <<>>
      <4>1. ASSUME NEW i \in 1 .. Len(Tail(inQ)), Tail(inQ)[i].tag = "buffer"
            PROVE  i + 1 \in 1 .. Len(inQ) /\ inQ[i + 1].tag = "buffer"
        BY <1>1, <3>1, <4>1
      <4> QED
        BY <3>1, <4>1 DEF SaveInv
    <3> QED
      BY <1>1, <3>1, <3>2, <3>3 DEF SaveInv, NoJob
  <2>15. CASE PduWait
    <3>1. /\ turn = "pduh" /\ turn' = "adc" /\ job = NoJob
          /\ UNCHANGED <<inQ, counterQ, job>>
      BY <2>15 DEF PduWait, pduVars
    <3>2. UNCHANGED overdue
      BY <2>2, <3>1 DEF NoJob
    <3> QED
      BY <1>1, <3>1, <3>2 DEF SaveInv, NoJob
  <2>16. CASE JobDone
    <3>1. /\ job.kind # "none" /\ job.rest = <<>> /\ Finish("ok") /\ UNCHANGED <<inQ, counterQ>>
      BY <2>16 DEF JobDone
    <3>2. UNCHANGED overdue
      BY <2>2, <3>1
    <3>3. /\ turn \in {"boot", "pduh"} /\ inQ' = <<>> /\ job' = NoJob
          /\ (turn' = turn \/ (turn = "boot" /\ turn' = "tr"))
      BY <1>1, <3>1 DEF Finish
    <3> QED
      BY <1>1, <3>1, <3>2, <3>3 DEF SaveInv, NoJob
  <2> QED
    BY <1>5, <2>6, <2>7, <2>8, <2>10, <2>11, <2>12, <2>13, <2>14, <2>15, <2>16 DEF PduStep
<1>6. CASE AdcStep /\ UNCHANGED <<pduVars, countersVars, overdue, asked, fresh>>
  <2>1. /\ turn = "adc" /\ UNCHANGED <<counterQ, job, overdue>>
        /\ turn' = "counters" \/ (turn' = turn /\ inQ' = inQ)
    BY <1>6 DEF AdcStep, TakeAdcMessage, NoAdcMessage, NothingRead, ReadChannel, AdcTurn, pduVars
  <2> QED
    BY <1>1, <2>1 DEF SaveInv
<1>7. CASE CountersStep /\ UNCHANGED <<pduVars, adcVars, asked, fresh>>
  <2>1. turn = "counters" /\ UNCHANGED job /\ job.kind = "none"
    BY <1>1, <1>7
    DEF CountersStep, CountersWait, CountersWake, Elapse, HeadIs, CountersTurn, DisableCounter,
        EnableCounter, SetCounter, MessagesDone, Sample, ReportEdge, EdgesDone, pduVars
  <2>2. CASE turn' = "counters"
    <3>1. CountersRoom'
      BY <2>2 DEF SlaveInv, RoomInv
    <3>2. overdue' \in 0 .. SavePeriods + 1
      BY <1>1, <3>1 DEF CountersRoom, Samples
    <3> QED
      BY <2>1, <2>2, <3>2 DEF SaveInv
  <2>3. CASE CountersWait
    <3>1. countersPc = "wait"
      BY <2>1, <2>3 DEF CountersWait, SlaveInv, RoomInv, CountersRoom
    <3>2. overdue = 0 /\ overdue' \in overdue .. overdue + 1 /\ turn' = "tr"
      BY <2>3, <3>1 DEF CountersWait, GiveWay
    <3>3. overdue' \in 0 .. 1
      BY <3>2
    <3> QED
      BY <1>1, <2>1, <3>2, <3>3 DEF SaveInv
  <2> QED
    BY <1>7, <2>2, <2>3, CountersStay
<1>8. CASE BootLoad
  <2>1. /\ turn = "boot" /\ UNCHANGED <<inQ, counterQ, overdue>>
        /\ job = NoJob /\ (job' = job \/ job' = ConfigJob) /\ turn' \in {"boot", "tr"}
    BY <1>8 DEF BootLoad
  <2> QED
    BY <1>1, <1>3, <2>1 DEF SaveInv, NoJob, ConfigJob, Job, Command
<1>9. CASE NoFrame
  <2>1. turn = "tr" /\ turn' = "pduh" /\ UNCHANGED <<inQ, counterQ, job, overdue>>
    BY <1>9 DEF NoFrame
  <2>2. \A i \in 1 .. Len(inQ) : inQ[i].tag # "buffer"
    BY <2>1 DEF FrameLast
  <2> QED
    BY <1>1, <2>1, <2>2 DEF SaveInv
<1>10. ASSUME NEW r \in Requests, Ask(r) PROVE SaveInv'
  <2>1. turn = "tr" /\ turn' = "pduh" /\ counterQ = <<>> /\ UNCHANGED <<counterQ, job, overdue>>
    BY <1>10 DEF Ask
  <2> QED
    BY <1>1, <2>1 DEF SaveInv
<1>11. CASE Conversion
  BY <1>1, <1>11 DEF SaveInv, Conversion, ConversionEnds, pduVars
<1>12. CASE UNCHANGED vars
  BY <1>12 DEF SaveInv, vars, pduVars
<1>13. CASE PowerFails \/ \E n \in 0 .. 14 : PowerFailsInSave(n)
  <2>1. /\ overdue' = 0 /\ inQ' = <<>> /\ counterQ' = <<>> /\ job' = NoJob /\ turn' = "boot"
    BY <1>13 DEF PowerFails, PowerFailsInSave, Reset
  <2> QED
    BY <1>2, <2>1 DEF SaveInv, NoJob
<1>14. CASE MainLoop
  BY <1>5, <1>6, <1>7, <1>8, <1>9, <1>14 DEF MainLoop
<1> QED
  BY <1>10, <1>11, <1>12, <1>13, <1>14 DEF Next

LEMMA SaveInvInit == Init => FrameLast /\ SaveInv
<1> SUFFICES ASSUME Init PROVE FrameLast /\ SaveInv
  OBVIOUS
<1> USE DEF Init, QueuesInit, CountersInit, NoJob
<1>1. FrameLast
  BY DEF FrameLast
<1>2. SaveInv
  BY Limits DEF SaveInv
<1> QED
  BY <1>1, <1>2

\* No daemon ever has to wait in the reply to a message or in the report of an
\* edge, where a protothread would lose its locals (adc_daemon.cpp and
\* counters_daemon.cpp): the queue of the PDU handler has room for all that is
\* sent in a turn of the main loop, in the one after a save too, in which the
\* counters daemon makes up for the samples that were put off.
THEOREM NothingEverWaits == Spec => []NothingWaits
<1>1. SlaveInv => NothingWaits
  BY DEF SlaveInv, RoomInv, CountersRoom, NothingWaits
<1>2. SlaveInv /\ FrameLast /\ SaveInv /\ [Next]_vars => (SlaveInv /\ FrameLast /\ SaveInv)'
  BY SlaveInvStep, FrameLastStep, SaveInvStep
<1> QED
  BY <1>1, <1>2, AtStart, SaveInvInit, PTL DEF Spec

-----------------------------------------------------------------------------
(* Types.                                                                  *)

\* The types that MessagesInv leaves out, and that the counters daemon has an
\* edge to report only in the loop that reports them.
PinTypes ==
    /\ answer \in Answer /\ ddr \subseteq Pin /\ port \subseteq Pin /\ running \in BOOLEAN
    /\ adcOn \subseteq Channel /\ countersOn \subseteq Counter
    /\ countersValue \in [Counter -> Word]
    /\ refused \subseteq Counter /\ behind \subseteq Channel

RomTypes == eeprom.valid \in BOOLEAN /\ eeprom.bits \subseteq Config

DaemonTypes ==
    /\ active \in Channel /\ busy \in BOOLEAN
    /\ edges \subseteq signals /\ (countersPc # "edges" => edges = {})

MasterTypes == asked \in 0 .. MaxRequests /\ fresh \in BOOLEAN

TypesInv ==
    /\ SlaveInv /\ FrameLast /\ SaveInv /\ ChannelsInv
    /\ PinTypes /\ RomTypes /\ DaemonTypes /\ MasterTypes

LEMMA TypesAre == TypesInv => SlaveTypeOK
<1> SUFFICES ASSUME TypesInv PROVE SlaveTypeOK
  OBVIOUS
<1>1. QueuesTypeOK /\ request \in Requests \cup {NoRequest}
  BY DEF TypesInv, SlaveInv, MessagesInv
<1>2. PduTypeOK
  <2>1. job.kind \in {"none", "coils", "registers"} /\ job.addr \in 0 .. AddressMod - 1
    BY Sizes DEF TypesInv, SlaveInv, MessagesInv, Jobs, Address
  <2> QED
    BY <2>1 DEF TypesInv, PinTypes, RomTypes, PduTypeOK
<1>3. AdcTypeOK
  <2>1. enabledCount \in Nat
    BY FS_CardinalityType DEF TypesInv, ChannelsInv
  <2> QED
    BY <2>1 DEF TypesInv, SlaveInv, MessagesInv, RoomInv, DaemonTypes, AdcTypeOK
<1>4. CountersTypeOK
  <2>1. countersPc \in {"wait", "message", "edges", "lost"}
    <3>1. turn = "counters" => countersPc \in {"wait", "message", "edges", "lost"}
      BY DEF TypesInv, SlaveInv, RoomInv, CountersRoom
    <3>2. turn # "counters" => countersPc \in {"wait", "message", "edges", "lost"}
      BY DEF TypesInv, SlaveInv, RoomInv
    <3> QED
      BY <3>1, <3>2
  <2> QED
    BY <2>1 DEF TypesInv, SlaveInv, SaveInv, MessagesInv, DaemonTypes, CountersTypeOK
<1> QED
  BY <1>1, <1>2, <1>3, <1>4 DEF TypesInv, MasterTypes, SlaveTypeOK

\* The search for the next channel finds one.
LEMMA NextIsChannel ==
    ASSUME NEW on \in SUBSET Channel, on # {}, NEW i \in Channel
    PROVE  NextEnabled(on, i) \in Channel
<1> DEFINE S == {k \in 1 .. Bits : (i + k) % Bits \in on}
           least == CHOOSE k \in S : \A j \in S : k <= j
           Found(k) == (i + k) % Bits \in on /\ \A j \in 1 .. k - 1 : (i + j) % Bits \notin on
           K == CHOOSE k \in 1 .. Bits : Found(k)
<1>1. PICK c \in on : c \in Channel
  OBVIOUS
<1>2. i \in 0 .. Bits - 1 /\ c \in 0 .. Bits - 1
  BY <1>1 DEF Channel
<1>3. S # {}
  <2>1. \A n \in Nat : n < 2 * Bits => n % Bits = IF n < Bits THEN n ELSE n - Bits
    BY Sizes
  <2>2. CASE c > i
    <3>1. c - i \in 1 .. Bits /\ (i + (c - i)) % Bits = c
      BY <1>2, <2>1, <2>2, Sizes
    <3> QED
      BY <1>1, <3>1
  <2>3. CASE c <= i
    <3>1. c - i + Bits \in 1 .. Bits /\ (i + (c - i + Bits)) % Bits = c
      BY <1>2, <2>1, <2>3, Sizes
    <3> QED
      BY <1>1, <3>1
  <2> QED
    BY <1>2, <2>2, <2>3
<1>4. S \in SUBSET Nat
  OBVIOUS
<1>5. least \in S /\ \A j \in S : least <= j
  <2> HIDE DEF S
  <2>1. least \in S
    BY <1>3, <1>4, LeastEdge
  <2>2. \E k \in S : \A j \in S : k <= j
    BY <1>3, <1>4, LeastOf
  <2> QED
    BY <2>2
<1> HIDE DEF least
<1>6. least \in 1 .. Bits /\ Found(least)
  BY <1>5, Sizes
<1> HIDE DEF S, Found
<1>7. K \in 1 .. Bits
  BY <1>6
<1>8. NextEnabled(on, i) = (i + K) % Bits
  BY DEF NextEnabled, Found
<1> HIDE DEF K
<1>9. i + K \in Nat
  BY <1>2, <1>7, Sizes
<1> QED
  BY <1>8, <1>9, Sizes, Remainder DEF Channel

LEMMA Refusals == \A r : Refusal(r) \in Answer
  BY DEF Refusal, Answer

LEMMA PduTypes ==
    ASSUME SlaveInv, PinTypes, RomTypes, PduStep
    PROVE  PinTypes' /\ RomTypes'
<1> DEFINE Answers == answer' \in Answer
           Rest3 == UNCHANGED <<ddr, port, running, countersValue>>
<1>1. ASSUME NEW how \in Answer, Finish(how) PROVE answer' \in Answer
  BY <1>1 DEF Finish, PinTypes
<1>2. ASSUME Advance PROVE answer' \in Answer
  BY <1>2 DEF Advance, PinTypes
<1>3. "ok" \in Answer /\ "failure" \in Answer
  BY DEF Answer
<1>4. ASSUME NEW bits \in SUBSET Pin, NEW p \in Pin, NEW v PROVE SetBit(bits, p, v) \subseteq Pin
  BY <1>4 DEF SetBit
<1>5. CASE TakeIndication
  <2>1. answer' \in Answer
    BY <1>3, <1>5, Refusals DEF TakeIndication, PinTypes, ReadAnswer
  <2> QED
    BY <1>5, <2>1 DEF TakeIndication, PinTypes, RomTypes, mirrors, history
<1>6. ASSUME NEW tag, PduTurn(tag) PROVE Head(inQ) \in PduMsg /\ Head(inQ).tag = tag
  BY <1>6, TakeHead DEF PduTurn, SlaveInv, MessagesInv, QueuesTypeOK
<1>7. CASE TakeReading
  <2>1. Head(inQ).id \in Channel
    BY <1>6, <1>7 DEF TakeReading, PduMsg
  <2> QED
    BY <1>7, <2>1 DEF TakeReading, PinTypes, RomTypes, history
<1>8. CASE TakeCount
  <2>1. Head(inQ).id \in Counter /\ Head(inQ).value \in Word
    BY <1>6, <1>8 DEF TakeCount, PduMsg
  <2> QED
    BY <1>8, <2>1 DEF TakeCount, PinTypes, RomTypes, history
<1>9. CASE PduWait
  BY <1>9 DEF PduWait, PinTypes, RomTypes, pduVars, mirrors, history
<1>10. CASE JobDone
  <2>1. answer' \in Answer
    BY <1>1, <1>3, <1>10 DEF JobDone
  <2> QED
    BY <1>10, <2>1 DEF JobDone, PinTypes, RomTypes, mirrors, history
<1>11. ASSUME Writing("coils")
       PROVE PinOf(job.addr) \in Pin /\ ChannelOf(job.addr) \in Channel /\ Written \in BOOLEAN
  BY <1>11, Current, PinOfCoil
<1>12. CASE WriteDirection
  <2>1. answer' \in Answer /\ ddr' \subseteq Pin
    BY <1>2, <1>4, <1>11, <1>12 DEF WriteDirection, WritingCoil, PinTypes
  <2> QED
    BY <1>12, <2>1 DEF WriteDirection, PinTypes, RomTypes, mirrors, history
<1>13. CASE WriteMode
  <2>1. answer' \in Answer /\ adcOn' \subseteq Channel /\ behind' \subseteq Channel
    BY <1>2, <1>11, <1>13 DEF WriteMode, WritingCoil, PinTypes
  <2> QED
    BY <1>13, <2>1 DEF WriteMode, PinTypes, RomTypes
<1>14. CASE WritePullUp
  <2>1. answer' \in Answer /\ port' \subseteq Pin
    BY <1>2, <1>4, <1>11, <1>14 DEF WritePullUp, WritingCoil, PinTypes
  <2> QED
    BY <1>14, <2>1 DEF WritePullUp, PinTypes, RomTypes, mirrors, history
<1>15. CASE WriteCounting
  <2>1. answer' \in Answer /\ countersOn' \subseteq Counter /\ refused' \subseteq Counter
    BY <1>2, <1>11, <1>15 DEF WriteCounting, WritingCoil, PinTypes, Counter
  <2> QED
    BY <1>15, <2>1 DEF WriteCounting, PinTypes, RomTypes
<1>16. CASE WriteOutput
  <2>1. answer' \in Answer /\ port' \subseteq Pin
    BY <1>1, <1>2, <1>3, <1>4, <1>11, <1>16 DEF WriteOutput, WritingCoil, PinTypes
  <2> QED
    BY <1>16, <2>1 DEF WriteOutput, PinTypes, RomTypes, mirrors, history
<1>17. CASE UnwritableCoil
  <2>1. answer' \in Answer
    BY <1>1, <1>3, <1>17 DEF UnwritableCoil
  <2> QED
    BY <1>17, <2>1 DEF UnwritableCoil, PinTypes, RomTypes, mirrors, history
<1>18. CASE SetRunning
  <2>1. answer' \in Answer /\ running' \in BOOLEAN
    BY <1>2, <1>11, <1>18 DEF SetRunning
  <2> QED
    BY <1>18, <2>1 DEF SetRunning, PinTypes, RomTypes, mirrors, history
<1>19. CASE SaveConfig
  <2>1. answer' \in Answer
    BY <1>2, <1>19 DEF SaveConfig
  <2>2. RomTypes'
    BY <1>19 DEF SaveConfig, SavedConfig, RomTypes
  <2> QED
    BY <1>19, <2>1, <2>2 DEF SaveConfig, PinTypes, mirrors, history
<1>20. CASE LoadConfig
  <2>1. answer' \in Answer
    BY <1>1, <1>3, <1>20 DEF LoadConfig, PinTypes
  <2> QED
    BY <1>20, <2>1 DEF LoadConfig, PinTypes, RomTypes, mirrors, history
<1>21. CASE WriteTimer
  <2>1. answer' \in Answer
    BY <1>1, <1>2, <1>3, <1>21 DEF WriteTimer
  <2>2. ddr' \subseteq Pin
    BY <1>21, AddressesAssumption DEF WriteTimer, PinTypes
  <2> QED
    BY <1>21, <2>1, <2>2 DEF WriteTimer, PinTypes, RomTypes, mirrors, history
<1>22. CASE WriteCounter
  <2>1. answer' \in Answer
    BY <1>2, <1>22 DEF WriteCounter
  <2>2. Writing("registers") /\ job.addr \in FirstCounter .. UserBegin - 1
    BY <1>22 DEF WriteCounter
  <2>3. job.addr - FirstCounter \in Counter
    BY <2>2, Current, Limits, Sizes DEF Counter, Pin
  <2>4. Written % WordMod \in Word
    BY <2>2, Current, Sizes, Remainder DEF Word
  <2>5. countersValue' \in [Counter -> Word] /\ refused' \subseteq Counter
    BY <1>22, <2>3, <2>4 DEF WriteCounter, PinTypes
  <2> QED
    BY <1>22, <2>1, <2>5 DEF WriteCounter, PinTypes, RomTypes
<1>23. CASE WriteUserData
  <2>1. answer' \in Answer
    BY <1>1, <1>2, <1>3, <1>23 DEF WriteUserData
  <2> QED
    BY <1>23, <2>1 DEF WriteUserData, PinTypes, RomTypes, mirrors, history
<1>24. CASE WriteReading
  <2>1. answer' \in Answer
    BY <1>1, <1>3, <1>24 DEF WriteReading
  <2> QED
    BY <1>24, <2>1 DEF WriteReading, PinTypes, RomTypes, mirrors, history
<1> QED
  BY <1>5, <1>7, <1>8, <1>9, <1>10, <1>12, <1>13, <1>14, <1>15, <1>16, <1>17, <1>18, <1>19,
     <1>20, <1>21, <1>22, <1>23, <1>24 DEF PduStep

LEMMA AdcTypes ==
    ASSUME SlaveInv, ChannelsInv, DaemonTypes, AdcStep, UNCHANGED countersVars
    PROVE  DaemonTypes'
<1>1. UNCHANGED <<signals, edges, countersPc>>
  BY DEF countersVars
<1>2. active' \in Channel /\ busy' \in BOOLEAN
  <2>1. active \in Channel /\ busy \in BOOLEAN /\ channels \in SUBSET Channel
    BY DEF SlaveInv, MessagesInv, DaemonTypes
  <2>2. CASE TakeAdcMessage
    <3>1. Head(adcQ) \in AdcMsg
      BY <2>2, TakeHead DEF TakeAdcMessage, SlaveInv, MessagesInv, QueuesTypeOK
    <3>2. PICK c \in Channel : c = Head(adcQ).id
      BY <3>1 DEF AdcMsg
    <3>3. CASE EnableChannel(c)
      <4>1. channels' \in SUBSET Channel /\ channels' # {}
        BY <2>1, <3>3 DEF EnableChannel
      <4>2. NextEnabled(channels', active) \in Channel
        BY <2>1, <4>1, NextIsChannel
      <4> QED
        BY <2>1, <3>3, <4>2 DEF EnableChannel
    <3>4. CASE DisableChannel(c)
      BY <2>1, <3>4 DEF DisableChannel
    <3> QED
      BY <2>2, <3>2, <3>3, <3>4 DEF TakeAdcMessage
  <2>3. CASE ReadChannel
    <3>1. channels # {} => NextEnabled(channels, active) \in Channel
      BY <2>1, NextIsChannel
    <3> QED
      BY <2>1, <2>3, <3>1 DEF ReadChannel
  <2>4. CASE NoAdcMessage \/ NothingRead
    BY <2>1, <2>4 DEF NoAdcMessage, NothingRead
  <2> QED
    BY <2>2, <2>3, <2>4 DEF AdcStep
<1> QED
  BY <1>1, <1>2 DEF DaemonTypes

LEMMA CountersTypes ==
    ASSUME SlaveInv, DaemonTypes, CountersStep, UNCHANGED adcVars
    PROVE  DaemonTypes'
<1>1. active' \in Channel /\ busy' \in BOOLEAN
  BY DEF adcVars, DaemonTypes
<1>2. edges' \subseteq signals' /\ (countersPc' # "edges" => edges' = {})
  <2> USE DEF DaemonTypes
  <2>1. CASE CountersWait \/ CountersWake \/ Elapse \/ MessagesDone
    BY <2>1 DEF CountersWait, CountersWake, Elapse, MessagesDone, CountersTurn
  <2>2. CASE DisableCounter \/ EnableCounter \/ SetCounter
    BY <2>2 DEF DisableCounter, EnableCounter, SetCounter, HeadIs, CountersTurn
  <2>3. ASSUME NEW fallen \in SUBSET signals, Sample(fallen)
        PROVE edges' \subseteq signals' /\ (countersPc' # "edges" => edges' = {})
    BY <2>3 DEF Sample
  <2>4. CASE ReportEdge
    BY <2>4 DEF ReportEdge, CountersTurn
  <2>5. CASE EdgesDone
    BY <2>5 DEF EdgesDone
  <2> QED
    BY <2>1, <2>2, <2>3, <2>4, <2>5 DEF CountersStep
<1> QED
  BY <1>1, <1>2 DEF DaemonTypes

LEMMA ResetTypes ==
    ASSUME Reset PROVE PinTypes' /\ DaemonTypes' /\ fresh' \in BOOLEAN
<1>1. [c \in Counter |-> 0] \in [Counter -> Word]
  BY Sizes DEF Word
<1>2. 0 \in Channel
  BY Sizes DEF Channel
<1> QED
  BY <1>1, <1>2 DEF Reset, PinTypes, DaemonTypes, Answer

LEMMA TypesInit == Init => TypesInv
<1> SUFFICES ASSUME Init PROVE TypesInv
  OBVIOUS
<1>1. SlaveInv /\ FrameLast /\ SaveInv
  BY AtStart, SaveInvInit
<1>2. ChannelsInv
  BY FS_EmptySet DEF Init, AdcInit, ChannelsInv
<1>3. PinTypes
  <2>1. [c \in Counter |-> 0] \in [Counter -> Word]
    BY Sizes DEF Word
  <2> QED
    BY <2>1 DEF Init, PinTypes, Answer
<1>4. DaemonTypes
  <2>1. 0 \in Channel
    BY Sizes DEF Channel
  <2> QED
    BY <2>1 DEF Init, AdcInit, CountersInit, DaemonTypes
<1>5. RomTypes
  <2>1. CASE eeprom = Erased
    BY <2>1 DEF RomTypes, Erased
  <2>2. CASE eeprom \in [valid : {TRUE}, bits : Saved]
    BY <2>2, RequestsAssumption DEF RomTypes
  <2> QED
    BY <2>1, <2>2 DEF Init
<1>6. MasterTypes
  BY RequestsAssumption DEF Init, MasterTypes
<1> QED
  BY <1>1, <1>2, <1>3, <1>4, <1>5, <1>6 DEF TypesInv

LEMMA TypesStep == TypesInv /\ [Next]_vars => TypesInv'
<1> SUFFICES ASSUME TypesInv, [Next]_vars PROVE TypesInv'
  OBVIOUS
<1>1. SlaveInv' /\ FrameLast' /\ SaveInv' /\ ChannelsInv'
  BY SlaveInvStep, FrameLastStep, SaveInvStep, ChannelsInvStep DEF TypesInv
<1> DEFINE Others == PinTypes /\ RomTypes /\ DaemonTypes /\ MasterTypes
<1>2. SUFFICES Others'
  BY <1>1 DEF TypesInv
<1>3. Others /\ SlaveInv /\ ChannelsInv
  BY DEF TypesInv
<1>4. CASE PduStep /\ Elapses /\ UNCHANGED <<adcVars, countersVars, asked, fresh>>
  <2>1. PinTypes' /\ RomTypes'
    BY <1>3, <1>4, PduTypes
  <2>2. DaemonTypes' /\ MasterTypes'
    BY <1>3, <1>4 DEF DaemonTypes, MasterTypes, adcVars, countersVars
  <2> QED
    BY <2>1, <2>2
<1>5. CASE UNCHANGED <<pduVars, asked, fresh>> /\ DaemonTypes'
  BY <1>3, <1>5 DEF PinTypes, RomTypes, MasterTypes, pduVars, mirrors, history
<1>6. CASE AdcStep /\ UNCHANGED <<pduVars, countersVars, overdue, asked, fresh>>
  BY <1>3, <1>5, <1>6, AdcTypes
<1>7. CASE CountersStep /\ UNCHANGED <<pduVars, adcVars, asked, fresh>>
  BY <1>3, <1>5, <1>7, CountersTypes
<1>8. CASE BootLoad \/ NoFrame
  <2>1. answer' \in Answer
    BY <1>3, <1>8 DEF BootLoad, NoFrame, PinTypes, Answer
  <2>2. UNCHANGED <<ddr, port, running, mirrors, eeprom, history, adcVars, countersVars, asked, fresh>>
    BY <1>8 DEF BootLoad, NoFrame
  <2> QED
    BY <1>3, <2>1, <2>2
    DEF PinTypes, RomTypes, DaemonTypes, MasterTypes, mirrors, history, adcVars, countersVars
<1>9. ASSUME NEW r \in Requests, Ask(r) PROVE Others'
  <2>1. answer' \in Answer
    BY <1>9 DEF Ask, Answer
  <2>2. asked' \in 0 .. MaxRequests /\ fresh' \in BOOLEAN
    <3>1. MaxRequests \in Nat
      BY RequestsAssumption
    <3>2. asked \in 0 .. MaxRequests /\ asked < MaxRequests /\ asked' = asked + 1
      BY <1>3, <1>9 DEF Ask, MasterTypes
    <3>3. asked' \in 0 .. MaxRequests
      BY <3>1, <3>2
    <3>4. fresh' = FALSE
      BY <1>9 DEF Ask
    <3> QED
      BY <3>3, <3>4, Zenon
  <2>3. UNCHANGED <<ddr, port, running, mirrors, eeprom, history, adcVars, countersVars>>
    BY <1>9 DEF Ask
  <2> QED
    BY <1>3, <2>1, <2>2, <2>3
    DEF PinTypes, RomTypes, DaemonTypes, MasterTypes, mirrors, history, adcVars, countersVars
<1>10. CASE Conversion
  <2>1. DaemonTypes' /\ UNCHANGED <<pduVars, asked, fresh>>
    BY <1>3, <1>10 DEF Conversion, ConversionEnds, DaemonTypes, countersVars
  <2> QED
    BY <1>5, <2>1
<1>11. CASE PowerFails
  BY <1>3, <1>11, ResetTypes DEF PowerFails, RomTypes, MasterTypes
<1>12. ASSUME NEW n \in 0 .. 14, PowerFailsInSave(n) PROVE Others'
  <2>1. eeprom'.valid \in BOOLEAN
    BY <1>3, <1>12 DEF PowerFailsInSave, RomTypes
  <2>2. eeprom'.bits \subseteq Config
    BY <1>12 DEF PowerFailsInSave
  <2>3. RomTypes'
    BY <2>1, <2>2 DEF RomTypes
  <2>4. asked' = asked /\ Reset
    BY <1>12 DEF PowerFailsInSave
  <2> QED
    BY <1>3, <2>3, <2>4, ResetTypes DEF MasterTypes
<1>13. CASE UNCHANGED vars
  BY <1>3, <1>13
  DEF vars, PinTypes, RomTypes, DaemonTypes, MasterTypes, pduVars, mirrors, history, adcVars,
      countersVars
<1>14. CASE MainLoop
  BY <1>4, <1>6, <1>7, <1>8, <1>14 DEF MainLoop
<1> QED
  BY <1>9, <1>10, <1>11, <1>12, <1>13, <1>14 DEF Next

LEMMA TypesHold == Spec => []TypesInv
  BY TypesInit, TypesStep, PTL DEF Spec

\* Every variable of the slave keeps its type, for ports, queues and requests
\* of every size: the address of a write stays in the address space, the pin or
\* the channel taken from it is one of the chip, the search for the next channel
\* finds one (adc_daemon.cpp:64-70), and no mirror, EEPROM bit or message is
\* ever of something the chip has not got.
THEOREM SlaveTypesCorrect == Spec => []SlaveTypeOK
  BY TypesHold, TypesAre, PTL

-----------------------------------------------------------------------------
(* A load.                                                                 *)

\* The coils of the configuration one after the other, and the commands.
ConfigCoilAt(n) ==
    LET a == FirstIOD + n
    IN  /\ n < 3 * Bits => KindOf(a) = "IOD" /\ PinOf(a) = n
        /\ 3 * Bits <= n /\ n < 6 * Bits => KindOf(a) = "IOM"
        /\ 6 * Bits <= n /\ n < 9 * Bits => KindOf(a) = "EIP" /\ PinOf(a) = n - 6 * Bits
        /\ 9 * Bits <= n => KindOf(a) = "EC" /\ PinOf(a) = n - 9 * Bits

LEMMA Records == RegistryMod > 27
<1>1. 27 * Bits < RegistryMod * Bits
  <2>1. SaveAddress \in CoilsEnd + 1 .. RegistryMod * Bits - 1
    BY AddressesAssumption
  <2> QED
    BY <2>1, Sizes DEF CoilsEnd
<1>2. RegistryMod <= 27 => RegistryMod * Bits <= 27 * Bits
  BY Sizes
<1> QED
  BY <1>1, <1>2, Sizes

\* Bit `b` of record `r`.
LEMMA CoilOfRecord ==
    ASSUME NEW r \in 0 .. 26, NEW b \in 0 .. Bits - 1
    PROVE  Registry(r * Bits + b) = r /\ (r * Bits + b) % Bits = b
<1>1. r \in Nat /\ b \in Nat /\ Bits \in Nat \ {0} /\ RegistryMod \in Nat /\ RegistryMod > 27
  BY Sizes, Records
<1>2. (r * Bits + b) \div Bits = r /\ (r * Bits + b) % Bits = b
  BY <1>1
<1>3. r % RegistryMod = r
  BY <1>1
<1> QED
  BY <1>2, <1>3 DEF Registry

LEMMA ConfigCoils ==
    ASSUME NEW n \in 0 .. 12 * Bits - 1
    PROVE  ConfigCoilAt(n)
<1> DEFINE r == n \div Bits
           b == n % Bits
<1>1. r \in Nat /\ b \in 0 .. Bits - 1 /\ n = Bits * r + b
  BY Sizes
<1> HIDE DEF r, b
<1>2. r \in 0 .. 11
  <2>1. r >= 12 => Bits * r >= 12 * Bits
    BY <1>1, Sizes
  <2> QED
    BY <1>1, <2>1, Sizes
<1> DEFINE a == FirstIOD + n
<1>3. a = (r + 9) * Bits + b
  BY <1>1, <1>2, Sizes DEF FirstIOD
<1>4. Registry(a) = r + 9 /\ a % Bits = b
  <2>1. r + 9 \in 0 .. 26
    BY <1>2
  <2> HIDE DEF a
  <2> QED
    BY <1>1, <1>3, <2>1, CoilOfRecord
<1>5. KindOf(a) = Kinds[(r + 9) \div 3 + 1] /\ PinOf(a) = ((r + 9) % 3) * Bits + b
  BY <1>2, <1>4 DEF KindOf, PinOf
<1> HIDE DEF a
<1>6. CASE r \in 0 .. 2
  <2>1. KindOf(a) = "IOD" /\ PinOf(a) = n /\ n < 3 * Bits
    <3>1. r = 0 \/ r = 1 \/ r = 2
      BY <1>6
    <3> QED
      BY <1>1, <1>5, <3>1, Sizes DEF Kinds
  <2> QED
    BY <2>1, Sizes DEF ConfigCoilAt, a
<1>7. CASE r \in 3 .. 5
  <2>1. KindOf(a) = "IOM" /\ 3 * Bits <= n /\ n < 6 * Bits
    <3>1. r = 3 \/ r = 4 \/ r = 5
      BY <1>7
    <3> QED
      BY <1>1, <1>5, <3>1, Sizes DEF Kinds
  <2> QED
    BY <2>1, Sizes DEF ConfigCoilAt, a
<1>8. CASE r \in 6 .. 8
  <2>1. KindOf(a) = "EIP" /\ PinOf(a) = n - 6 * Bits /\ 6 * Bits <= n /\ n < 9 * Bits
    <3>1. r = 6 \/ r = 7 \/ r = 8
      BY <1>8
    <3> QED
      BY <1>1, <1>5, <3>1, Sizes DEF Kinds
  <2> QED
    BY <2>1, Sizes DEF ConfigCoilAt, a
<1>9. CASE r \in 9 .. 11
  <2>1. KindOf(a) = "EC" /\ PinOf(a) = n - 9 * Bits /\ 9 * Bits <= n
    <3>1. r = 9 \/ r = 10 \/ r = 11
      BY <1>9
    <3> QED
      BY <1>1, <1>5, <3>1, Sizes DEF Kinds
  <2> QED
    BY <2>1, Sizes DEF ConfigCoilAt, a
<1> QED
  BY <1>2, <1>6, <1>7, <1>8, <1>9

\* Where a load has come to: the first `n` coils are written.
LoadedTo(n) ==
    /\ job.addr = FirstIOD + n /\ Len(job.rest) = 12 * Bits - n
    /\ \A k \in 1 .. Len(job.rest) : job.rest[k] <=> n + k - 1 \in eeprom.bits
    /\ \A p \in Pin :
          /\ p < n => (p \in ddr <=> p \in eeprom.bits)
          /\ 6 * Bits + p < n /\ p \notin ddr => (p \in port <=> 6 * Bits + p \in eeprom.bits)

\* A write of coils at start-up or of a request to load is about to load, or is
\* loading.
LoadInv ==
    (job.kind = "coils" /\ (turn = "boot" \/ request.addr = LoadAddress))
    => \/ turn # "boot" /\ job.addr = LoadAddress
       \/ \E n \in 0 .. 12 * Bits : LoadedTo(n)

LEMMA LoadLeaves == LoadInv => PinsRestored
<1> SUFFICES ASSUME LoadInv, job.kind = "coils", job.addr = FirstIOD + 12 * Bits,
                    turn = "boot" \/ request.addr = LoadAddress,
                    NEW p \in Pin
             PROVE  /\ p \in ddr <=> p \in eeprom.bits
                    /\ p \notin ddr => (p \in port <=> 6 * Bits + p \in eeprom.bits)
  BY DEF PinsRestored
<1>1. job.addr # LoadAddress
  BY Commands, Sizes DEF FirstIOD, CoilsEnd
<1>2. PICK n \in 0 .. 12 * Bits : LoadedTo(n)
  BY <1>1 DEF LoadInv
<1>3. n = 12 * Bits
  BY <1>2, Sizes DEF LoadedTo, FirstIOD
<1>4. p < n /\ 6 * Bits + p < n
  BY <1>3, Sizes DEF Pin
<1> QED
  BY <1>2, <1>4 DEF LoadedTo

LEMMA LoadBegins ==
    ASSUME job' = ConfigJob, UNCHANGED <<ddr, port, eeprom>>
    PROVE  LoadedTo(0)'
<1> DEFINE n == 12 * Bits
           f == [k \in 1 .. n |-> k - 1 \in eeprom.bits]
<1>1. n \in Nat
  BY Limits
<1>2. job'.addr = FirstIOD /\ job'.rest = f
  BY DEF ConfigJob, Job
<1> HIDE DEF n
<1>3. f \in [1 .. n -> BOOLEAN] /\ Len(f) = n
  BY <1>1
<1>4. \A k \in 1 .. n : f[k] <=> k - 1 \in eeprom.bits
  OBVIOUS
<1> HIDE DEF f
<1>5. FirstIOD + 0 = FirstIOD /\ n - 0 = n
  BY <1>1, Sizes DEF FirstIOD
<1>6. \A k \in 1 .. n : 0 + k - 1 = k - 1
  BY <1>1
<1>7. \A p \in Pin : ~ (p < 0) /\ ~ (6 * Bits + p < 0)
  BY Sizes DEF Pin
<1>8. /\ job'.addr = FirstIOD + 0 /\ Len(job'.rest) = n - 0
      /\ \A k \in 1 .. Len(job'.rest) : job'.rest[k] <=> 0 + k - 1 \in eeprom'.bits
  BY <1>1, <1>2, <1>3, <1>4, <1>5, <1>6
<1> QED
  BY <1>7, <1>8 DEF LoadedTo, n

\* One more coil is written.
LEMMA LoadGoesOn ==
    ASSUME SlaveInv, job.kind = "coils", NEW n \in 0 .. 12 * Bits, LoadedTo(n),
           job.rest # <<>>, Advance, UNCHANGED eeprom,
           \A p \in Pin :
               /\ p < n + 1 => (p \in ddr' <=> p \in eeprom.bits)
               /\ 6 * Bits + p < n + 1 /\ p \notin ddr'
                  => (p \in port' <=> 6 * Bits + p \in eeprom.bits)
    PROVE  n + 1 \in 0 .. 12 * Bits /\ LoadedTo(n + 1)'
<1>1. job.rest \in Seq(BOOLEAN) /\ job.addr \in Address
  BY DEF SlaveInv, MessagesInv, Jobs
<1>2. job'.addr = (job.addr + 1) % AddressMod /\ job'.rest = Tail(job.rest)
  BY DEF Advance, SlaveInv, MessagesInv, Jobs
<1>3. Len(job.rest) \in Nat /\ Len(job.rest) > 0
  BY <1>1
<1>4. n < 12 * Bits
  BY <1>3, Sizes DEF LoadedTo
<1>5. job'.addr = FirstIOD + n + 1
  <2>1. job.addr = FirstIOD + n
    BY DEF LoadedTo
  <2>2. 27 * Bits < AddressMod
    BY AddressesAssumption, Sizes DEF CoilsEnd
  <2>3. job.addr + 1 \in Nat /\ job.addr + 1 < AddressMod
    BY <1>4, <2>1, <2>2, Sizes DEF FirstIOD
  <2> QED
    BY <1>2, <2>1, <2>3, Sizes DEF FirstIOD
<1>6. Len(job'.rest) = 12 * Bits - (n + 1)
  BY <1>1, <1>2, <1>3, Sizes DEF LoadedTo
<1>7. \A k \in 1 .. Len(job'.rest) : job'.rest[k] = job.rest[k + 1] /\ k + 1 \in 1 .. Len(job.rest)
  BY <1>1, <1>2, <1>3
<1>8. \A k \in 1 .. Len(job'.rest) : job'.rest[k] <=> (n + 1) + k - 1 \in eeprom'.bits
  <2> SUFFICES ASSUME NEW k \in 1 .. Len(job'.rest)
               PROVE  job'.rest[k] <=> (n + 1) + k - 1 \in eeprom'.bits
    OBVIOUS
  <2>1. job'.rest[k] = job.rest[k + 1] /\ k + 1 \in 1 .. Len(job.rest)
    BY <1>7
  <2>2. job.rest[k + 1] <=> n + (k + 1) - 1 \in eeprom.bits
    BY <2>1 DEF LoadedTo
  <2>3. k \in Nat /\ n + (k + 1) - 1 = (n + 1) + k - 1
    BY Sizes
  <2> QED
    BY <2>1, <2>2, <2>3
<1>9. FirstIOD + n + 1 = FirstIOD + (n + 1)
  BY Sizes DEF FirstIOD
<1> QED
  BY <1>4, <1>5, <1>6, <1>8, <1>9, Sizes DEF LoadedTo

\* Only these steps write coils of the configuration.
LEMMA LoadStep ==
    ASSUME SlaveInv, RomTypes, PduStep, job.kind = "coils", job.rest # <<>>,
           NEW n \in 0 .. 12 * Bits, LoadedTo(n)
    PROVE  turn' = turn /\ n + 1 \in 0 .. 12 * Bits /\ LoadedTo(n + 1)'
<1>1. n \in 0 .. 12 * Bits - 1
  <2>1. job.rest \in Seq(BOOLEAN)
    BY DEF SlaveInv, MessagesInv, Jobs
  <2>2. Len(job.rest) \in Nat /\ Len(job.rest) > 0
    BY <2>1
  <2> QED
    BY <2>2, Sizes DEF LoadedTo
<1>2. ConfigCoilAt(n) /\ job.addr = FirstIOD + n
  BY <1>1, ConfigCoils DEF LoadedTo
<1>3. job.addr \notin {SaveAddress, LoadAddress, RunAddress}
  BY <1>1, <1>2, Commands, Sizes DEF FirstIOD, CoilsEnd
<1>4. Written <=> n \in eeprom.bits
  <2>1. Written = job.rest[1] /\ 1 \in 1 .. Len(job.rest)
    BY DEF SlaveInv, MessagesInv, Jobs, Written
  <2>2. n + 1 - 1 = n
    BY Sizes
  <2> QED
    BY <2>1, <2>2 DEF LoadedTo
<1>5. \A p \in Pin :
          /\ p < n => (p \in ddr <=> p \in eeprom.bits)
          /\ 6 * Bits + p < n /\ p \notin ddr => (p \in port <=> 6 * Bits + p \in eeprom.bits)
  BY DEF LoadedTo
<1>6. \A p \in Pin : p \in 0 .. 3 * Bits - 1
  BY DEF Pin
<1>7. KindOf(job.addr) \in {"IOD", "IOM", "EIP", "EC"}
  BY <1>1, <1>2, Sizes DEF ConfigCoilAt
<1>8. WriteDirection \/ WriteMode \/ WritePullUp \/ WriteCounting
  BY <1>3, <1>7
  DEF PduStep, TakeIndication, TakeReading, TakeCount, PduTurn, PduWait, NoJob, JobDone, WriteOutput,
      UnwritableCoil, WritingCoil, SetRunning, SaveConfig, LoadConfig, WriteTimer, WriteCounter,
      WriteUserData, WriteReading, Writing
<1>9. Advance /\ UNCHANGED eeprom /\ turn' = turn
  BY <1>8 DEF WriteDirection, WriteMode, WritePullUp, WriteCounting, Advance
<1>10. \A p \in Pin :
          /\ p < n + 1 => (p \in ddr' <=> p \in eeprom.bits)
          /\ 6 * Bits + p < n + 1 /\ p \notin ddr'
             => (p \in port' <=> 6 * Bits + p \in eeprom.bits)
  <2>1. CASE n < 3 * Bits
    <3>1. KindOf(job.addr) = "IOD" /\ PinOf(job.addr) = n
      BY <1>2, <2>1 DEF ConfigCoilAt
    <3>2. ddr' = SetBit(ddr, n, Written)
      BY <1>8, <3>1 DEF WriteDirection, WriteMode, WritePullUp, WriteCounting, WritingCoil
    <3>3. \A p \in Pin : p # n => (p \in ddr' <=> p \in ddr)
      BY <3>2 DEF SetBit
    <3>4. n \in ddr' <=> Written
      BY <3>2 DEF SetBit
    <3>5. \A p \in Pin : (p < n + 1 => p < n \/ p = n) /\ ~ (6 * Bits + p < n + 1)
      BY <1>6, <2>1, Sizes
    <3> QED
      BY <1>4, <1>5, <3>3, <3>4, <3>5
  <2>2. CASE 3 * Bits <= n /\ n < 6 * Bits
    <3>1. KindOf(job.addr) = "IOM"
      BY <1>2, <2>2 DEF ConfigCoilAt
    <3>2. UNCHANGED ddr
      BY <1>8, <3>1 DEF WriteDirection, WriteMode, WritePullUp, WriteCounting, WritingCoil
    <3>3. \A p \in Pin : p < n /\ ~ (6 * Bits + p < n + 1)
      BY <1>6, <2>2, Sizes
    <3> QED
      BY <1>5, <3>2, <3>3
  <2>3. CASE 6 * Bits <= n /\ n < 9 * Bits
    <3> DEFINE q == n - 6 * Bits
    <3>1. KindOf(job.addr) = "EIP" /\ PinOf(job.addr) = q
      BY <1>2, <2>3 DEF ConfigCoilAt
    <3>2. UNCHANGED ddr /\ port' = IF q \in ddr THEN port ELSE SetBit(port, q, Written)
      BY <1>8, <3>1 DEF WriteDirection, WriteMode, WritePullUp, WriteCounting, WritingCoil
    <3>3. 6 * Bits + q = n
      BY Sizes
    <3>4. \A p \in Pin : p < n /\ (6 * Bits + p < n + 1 => 6 * Bits + p < n \/ p = q)
      <4> SUFFICES ASSUME NEW p \in Pin
                   PROVE  p < n /\ (6 * Bits + p < n + 1 => 6 * Bits + p < n \/ p = q)
        OBVIOUS
      <4>1. p \in Nat /\ p < 3 * Bits /\ n \in Nat
        BY <1>1, <1>6, Sizes
      <4> QED
        BY <2>3, <4>1, Sizes
    <3> HIDE DEF q
    <3>5. \A p \in Pin : p # q => (p \in port' <=> p \in port)
      BY <3>2 DEF SetBit
    <3>6. q \notin ddr => (q \in port' <=> Written)
      BY <3>2 DEF SetBit
    <3> QED
      BY <1>4, <1>5, <3>2, <3>3, <3>4, <3>5, <3>6
  <2>4. CASE 9 * Bits <= n
    <3>1. KindOf(job.addr) = "EC"
      BY <1>2, <2>4 DEF ConfigCoilAt
    <3>2. UNCHANGED <<ddr, port>>
      BY <1>8, <3>1 DEF WriteDirection, WriteMode, WritePullUp, WriteCounting, WritingCoil
    <3>3. \A p \in Pin : p < n /\ 6 * Bits + p < n
      BY <1>6, <2>4, Sizes
    <3> QED
      BY <1>5, <3>2, <3>3
  <2> QED
    BY <1>1, <2>1, <2>2, <2>3, <2>4, Sizes
<1> QED
  BY <1>9, <1>10, LoadGoesOn

LEMMA LoadInvPdu ==
    ASSUME SlaveInv, RomTypes, LoadInv, PduStep
    PROVE  LoadInv'
<1> SUFFICES ASSUME job'.kind = "coils", (turn = "boot")' \/ request'.addr = LoadAddress
             PROVE  \/ turn' # "boot" /\ job'.addr = LoadAddress
                    \/ \E n \in 0 .. 12 * Bits : LoadedTo(n)'
  BY DEF LoadInv
<1>1. \A how : ~ Finish(how)
  BY DEF Finish, NoJob
<1>2. CASE job.kind = "coils" /\ job.rest # <<>>
  <2>1. turn' = turn
    BY <1>1, <1>2
    DEF PduStep, TakeIndication, TakeReading, TakeCount, PduTurn, PduWait, NoJob, JobDone, WriteOutput,
        UnwritableCoil, WritingCoil, SetRunning, SaveConfig, LoadConfig, WriteTimer, WriteCounter,
        WriteUserData, WriteReading, Writing, WriteDirection, WriteMode, WritePullUp, WriteCounting,
        Advance
  <2>2. request' = request
    BY <1>2
    DEF PduStep, TakeIndication, TakeReading, TakeCount, PduTurn, PduWait, NoJob, JobDone, WriteOutput,
        UnwritableCoil, WritingCoil, SetRunning, SaveConfig, LoadConfig, WriteTimer, WriteCounter,
        WriteUserData, WriteReading, Writing, WriteDirection, WriteMode, WritePullUp, WriteCounting
  <2>3. CASE turn # "boot" /\ job.addr = LoadAddress
    <3>1. KindOf(job.addr) = "none"
      BY <2>3, Commands
    <3>2. LoadConfig
      BY <1>2, <2>3, <3>1, AddressesAssumption
      DEF PduStep, TakeIndication, TakeReading, TakeCount, PduTurn, PduWait, NoJob, JobDone, WriteOutput,
          UnwritableCoil, WritingCoil, SetRunning, SaveConfig, WriteTimer, WriteCounter,
          WriteUserData, WriteReading, Writing, WriteDirection, WriteMode, WritePullUp, WriteCounting
    <3>3. job' = ConfigJob /\ UNCHANGED <<ddr, port, eeprom>>
      BY <1>1, <3>2 DEF LoadConfig
    <3>4. LoadedTo(0)'
      BY <3>3, LoadBegins
    <3> QED
      BY <3>4, Limits
  <2>4. ASSUME NEW n \in 0 .. 12 * Bits, LoadedTo(n)
        PROVE  \E m \in 0 .. 12 * Bits : LoadedTo(m)'
    BY <1>2, <2>4, LoadStep
  <2> QED
    BY <1>2, <2>1, <2>2, <2>3, <2>4 DEF LoadInv
<1>3. CASE job.kind # "coils" \/ job.rest = <<>>
  <2>1. TakeIndication
    <3>1. ~ (Advance /\ Writing("registers"))
      BY NextJob DEF SlaveInv, MessagesInv, Writing
    <3> QED
      BY <1>1, <1>3, <3>1
      DEF PduStep, TakeReading, TakeCount, PduTurn, PduWait, NoJob, JobDone, WriteOutput,
          UnwritableCoil, WritingCoil, SetRunning, SaveConfig, LoadConfig, WriteTimer, WriteCounter,
          WriteUserData, WriteReading, Writing, WriteDirection, WriteMode, WritePullUp, WriteCounting,
          pduVars
  <2>2. turn' = "pduh" /\ job = NoJob /\ request' = request
    BY <2>1 DEF TakeIndication, PduTurn
  <2>3. job'.addr = request.addr
    BY <2>1, <2>2 DEF TakeIndication, NoJob, Job
  <2> QED
    BY <2>2, <2>3
<1> QED
  BY <1>2, <1>3

LEMMA LoadInvStep == TypesInv /\ LoadInv /\ [Next]_vars => LoadInv'
<1> SUFFICES ASSUME SlaveInv, RomTypes, LoadInv, [Next]_vars PROVE LoadInv'
  BY DEF TypesInv
<1>1. ASSUME UNCHANGED <<turn, request, job, ddr, port, eeprom>> PROVE LoadInv'
  BY <1>1 DEF LoadInv, LoadedTo
<1>2. ASSUME job'.kind = "none" PROVE LoadInv'
  BY <1>2 DEF LoadInv
<1>3. ASSUME UNCHANGED job, turn \notin {"boot", "pduh"} PROVE LoadInv'
  <2>1. job.kind = "none"
    BY <1>3 DEF SlaveInv, MessagesInv
  <2> QED
    BY <1>2, <1>3, <2>1
<1>4. CASE BootLoad
  <2>1. CASE eeprom.valid
    <3>1. job' = ConfigJob /\ UNCHANGED <<ddr, port, eeprom>>
      BY <1>4, <2>1 DEF BootLoad
    <3>2. LoadedTo(0)'
      BY <3>1, LoadBegins
    <3> QED
      BY <3>2, Limits DEF LoadInv
  <2>2. CASE ~ eeprom.valid
    BY <1>2, <1>4, <2>2 DEF BootLoad, NoJob
  <2> QED
    BY <2>1, <2>2
<1>5. CASE NoFrame \/ \E r \in Requests : Ask(r)
  BY <1>3, <1>5 DEF NoFrame, Ask
<1>6. CASE AdcStep /\ UNCHANGED pduVars
  BY <1>3, <1>6 DEF AdcStep, TakeAdcMessage, NoAdcMessage, NothingRead, ReadChannel, AdcTurn, pduVars
<1>7. CASE CountersStep /\ UNCHANGED pduVars
  BY <1>3, <1>7
  DEF CountersStep, CountersWait, CountersWake, Elapse, HeadIs, CountersTurn, DisableCounter,
      EnableCounter, SetCounter, MessagesDone, Sample, ReportEdge, EdgesDone, pduVars
<1>8. CASE Conversion
  BY <1>3, <1>8 DEF Conversion, ConversionEnds, pduVars
<1>9. CASE PowerFails \/ \E n \in 0 .. 14 : PowerFailsInSave(n)
  BY <1>2, <1>9 DEF PowerFails, PowerFailsInSave, Reset, NoJob
<1>10. CASE UNCHANGED vars
  BY <1>1, <1>10 DEF vars, pduVars
<1>11. CASE MainLoop
  BY <1>4, <1>5, <1>6, <1>7, <1>11, LoadInvPdu DEF MainLoop
<1> QED
  BY <1>5, <1>8, <1>9, <1>10, <1>11 DEF Next

\* A load, at start-up or on request, leaves every pin in the direction and every
\* input with the pull-up that the EEPROM has for it (load_config and
\* write_coils, pdu_handler_daemon.hpp), for ports of every size: the coils of
\* the configuration are written one by one, each to the pin its address
\* stands for, none of them can fail, and a save or a load in between is out of
\* the question.
THEOREM LoadRestores == Spec => []PinsRestored
<1>1. Init => LoadInv
  BY DEF Init, LoadInv, NoJob
<1> QED
  BY <1>1, LoadInvStep, LoadLeaves, TypesHold, PTL DEF Spec

-----------------------------------------------------------------------------
(* The mirrors of the channels.                                            *)

Enable(c)  == [id |-> c, enabled |-> TRUE]
Disable(c) == [id |-> c, enabled |-> FALSE]

Coming(q, c) == \E i \in 1 .. Len(q) : q[i] = Enable(c)
Going(q, c)  == q # <<>> /\ Head(q) = Disable(c)

\* A channel disabled behind another message is enabled again after it.
Orderly(q, c) ==
    \A i \in 2 .. Len(q) : q[i] = Disable(c) => \E j \in i + 1 .. Len(q) : q[j] = Enable(c)

\* What the mirror of a channel is, or will be without a further message.
Reading(c) == [tag |-> "adc", id |-> c]
Read(q, c) == \E i \in 1 .. Len(q) : q[i] = Reading(c)
Seen(c)    == c \in adcOn \/ Read(inQ, c)

\* The mirror is on only for a channel that is on, unless a message to turn it
\* on is under way; one to turn it off is so only until the daemon's turn.
ChannelFollows(c) ==
    /\ Orderly(adcQ, c)
    /\ \/ Coming(adcQ, c)
       \/ Going(adcQ, c) /\ ~ Seen(c) /\ turn # "counters" /\ (turn = "adc" => adcPc = "message")
       \/ ~ Going(adcQ, c) /\ (Seen(c) => c \in channels)

ChannelMirrors == \A c \in Channel \ behind : ChannelFollows(c)

LEMMA EnableSent ==
    ASSUME NEW q \in Seq(AdcMsg), NEW c \in Channel
    PROVE  Orderly(Append(q, Enable(c)), c) /\ Coming(Append(q, Enable(c)), c)
<1> DEFINE m == Enable(c)
           r == Append(q, m)
<1>1. Len(q) \in Nat /\ Len(r) = Len(q) + 1 /\ r[Len(q) + 1] = m
  OBVIOUS
<1>2. m = Enable(c) /\ m # Disable(c)
  BY DEF Enable, Disable
<1> HIDE DEF m, r
<1>3. Coming(r, c)
  BY <1>1, <1>2 DEF Coming
<1>4. Orderly(r, c)
  BY <1>1, <1>2 DEF Orderly
<1> QED
  BY <1>3, <1>4 DEF r, m

\* A message for another channel makes no difference.
LEMMA OtherSent ==
    ASSUME NEW q \in Seq(AdcMsg), NEW m \in AdcMsg, NEW c \in Channel, m.id # c
    PROVE  /\ (Orderly(q, c) => Orderly(Append(q, m), c))
           /\ (Coming(Append(q, m), c) <=> Coming(q, c))
           /\ (Going(Append(q, m), c) <=> Going(q, c))
<1> DEFINE r == Append(q, m)
<1>1. /\ Len(q) \in Nat /\ Len(r) = Len(q) + 1 /\ r[Len(q) + 1] = m
      /\ \A i \in 1 .. Len(q) : r[i] = q[i]
  OBVIOUS
<1>2. m # Enable(c) /\ m # Disable(c)
  BY DEF Enable, Disable
<1>9. /\ r # <<>> /\ Head(r) = r[1]
      /\ (q = <<>> => Len(q) = 0)
      /\ (q # <<>> => Len(q) > 0 /\ Head(q) = q[1])
  <2>1. q = <<>> => Len(q) = 0
    OBVIOUS
  <2>2. q # <<>> => Len(q) > 0 /\ Head(q) = q[1]
    OBVIOUS
  <2>3. r # <<>> /\ Head(r) = r[1]
    BY <1>1
  <2> QED
    BY <2>1, <2>2, <2>3
<1> HIDE DEF r
<1>3. (q # <<>> => Head(r) = Head(q)) /\ (q = <<>> => Head(r) = m) /\ r # <<>>
  <2>1. CASE q = <<>>
    BY <1>1, <1>9, <2>1
  <2>2. CASE q # <<>>
    <3>1. 1 \in 1 .. Len(q)
      BY <1>1, <1>9, <2>2
    <3> QED
      BY <1>1, <1>9, <2>2, <3>1
  <2> QED
    BY <2>1, <2>2
<1>4. \A i \in 1 .. Len(r) : i \in 1 .. Len(q) \/ i = Len(q) + 1
  BY <1>1
<1>5. \A i \in 1 .. Len(q) : i \in 1 .. Len(r)
  BY <1>1
<1>6. Coming(r, c) <=> Coming(q, c)
  BY <1>1, <1>2, <1>4, <1>5 DEF Coming
<1>7. Going(r, c) <=> Going(q, c)
  BY <1>2, <1>3 DEF Going
<1>8. ASSUME Orderly(q, c) PROVE Orderly(r, c)
  <2> SUFFICES ASSUME NEW i \in 2 .. Len(r), r[i] = Disable(c)
               PROVE  \E j \in i + 1 .. Len(r) : r[j] = Enable(c)
    BY DEF Orderly
  <2>1. i \in 2 .. Len(q) /\ q[i] = Disable(c)
    BY <1>1, <1>2
  <2>2. PICK j \in i + 1 .. Len(q) : q[j] = Enable(c)
    BY <1>8, <2>1 DEF Orderly
  <2>3. j \in i + 1 .. Len(r) /\ r[j] = q[j]
    BY <1>1, <2>1, <2>2
  <2> QED
    BY <2>2, <2>3
<1> QED
  BY <1>6, <1>7, <1>8 DEF r

LEMMA DisableSent ==
    ASSUME NEW c \in Channel
    PROVE  LET q == Append(<<>>, Disable(c)) IN Orderly(q, c) /\ Going(q, c)
<1> DEFINE m == Disable(c)
           q == Append(<<>>, m)
<1>1. Len(q) = 1 /\ q # <<>> /\ Head(q) = m
  OBVIOUS
<1> HIDE DEF m, q
<1>2. Orderly(q, c)
  BY <1>1 DEF Orderly
<1>3. Going(q, c)
  BY <1>1 DEF Going, m
<1> QED
  BY <1>2, <1>3 DEF q, m

\* What is left when the daemon has taken a message.
LEMMA AdcTaken ==
    ASSUME NEW q \in Seq(AdcMsg), q # <<>>, NEW c \in Channel, Orderly(q, c)
    PROVE  /\ Orderly(Tail(q), c)
           /\ Coming(q, c) => Coming(Tail(q), c) \/ Head(q) = Enable(c)
           /\ Going(Tail(q), c) => Coming(Tail(q), c)
<1> DEFINE r == Tail(q)
<1>1. /\ Len(q) \in Nat /\ Len(r) = Len(q) - 1 /\ Len(r) \in Nat /\ Head(q) = q[1]
      /\ \A i \in 1 .. Len(r) : r[i] = q[i + 1]
      /\ r # <<>> => Head(r) = r[1] /\ Len(r) > 0
  OBVIOUS
<1> HIDE DEF r
<1>2. \A j \in 2 .. Len(q) : j - 1 \in 1 .. Len(r) /\ r[j - 1] = q[j]
  <2> SUFFICES ASSUME NEW j \in 2 .. Len(q) PROVE j - 1 \in 1 .. Len(r) /\ r[j - 1] = q[j]
    OBVIOUS
  <2>1. j - 1 \in 1 .. Len(r) /\ (j - 1) + 1 = j
    BY <1>1
  <2> QED
    BY <1>1, <2>1
<1>3. ASSUME NEW i \in 1 .. Len(r), r[i] = Disable(c)
      PROVE  \E j \in i + 1 .. Len(r) : r[j] = Enable(c)
  <2>1. i + 1 \in 2 .. Len(q) /\ q[i + 1] = Disable(c)
    BY <1>1, <1>3
  <2>2. PICK j \in (i + 1) + 1 .. Len(q) : q[j] = Enable(c)
    BY <2>1 DEF Orderly
  <2>3. j \in 2 .. Len(q) /\ j - 1 \in i + 1 .. Len(r)
    BY <1>1, <2>2
  <2> QED
    BY <1>2, <2>2, <2>3
<1>4. Orderly(r, c)
  BY <1>1, <1>3 DEF Orderly
<1>5. Coming(q, c) => Coming(r, c) \/ Head(q) = Enable(c)
  <2> SUFFICES ASSUME NEW i \in 1 .. Len(q), q[i] = Enable(c), i # 1 PROVE Coming(r, c)
    BY <1>1 DEF Coming
  <2>1. i \in 2 .. Len(q)
    BY <1>1
  <2> QED
    BY <1>2, <2>1 DEF Coming
<1>6. ASSUME Going(r, c) PROVE Coming(r, c)
  <2>1. 1 \in 1 .. Len(r) /\ r[1] = Disable(c)
    BY <1>1, <1>6 DEF Going
  <2>2. PICK j \in 1 + 1 .. Len(r) : r[j] = Enable(c)
    BY <1>3, <2>1
  <2> QED
    BY <1>1, <2>2 DEF Coming
<1> QED
  BY <1>4, <1>5, <1>6 DEF r

\* What the PDU handler takes from its queue becomes a part of the mirror.
LEMMA ReadingTaken ==
    ASSUME NEW q \in Seq(PduMsg), q # <<>>, NEW c
    PROVE  Read(q, c) <=> Head(q) = Reading(c) \/ Read(Tail(q), c)
<1> DEFINE r == Tail(q)
<1>1. /\ Len(q) \in Nat /\ Len(r) = Len(q) - 1 /\ Len(r) \in Nat /\ Head(q) = q[1] /\ Len(q) > 0
      /\ \A i \in 1 .. Len(r) : r[i] = q[i + 1]
  OBVIOUS
<1> HIDE DEF r
<1>2. \A i \in 2 .. Len(q) : i - 1 \in 1 .. Len(r) /\ r[i - 1] = q[i]
  <2> SUFFICES ASSUME NEW i \in 2 .. Len(q) PROVE i - 1 \in 1 .. Len(r) /\ r[i - 1] = q[i]
    OBVIOUS
  <2>1. i - 1 \in 1 .. Len(r) /\ (i - 1) + 1 = i
    BY <1>1
  <2> QED
    BY <1>1, <2>1
<1>3. \A i \in 1 .. Len(r) : i + 1 \in 1 .. Len(q)
  BY <1>1
<1>4. 1 \in 1 .. Len(q) /\ \A i \in 1 .. Len(q) : i = 1 \/ i \in 2 .. Len(q)
  BY <1>1
<1> QED
  BY <1>1, <1>2, <1>3, <1>4 DEF r, Read

LEMMA ReadingSent ==
    ASSUME NEW q \in Seq(PduMsg), NEW m \in PduMsg, NEW c
    PROVE  Read(Append(q, m), c) <=> m = Reading(c) \/ Read(q, c)
<1> DEFINE r == Append(q, m)
<1>1. /\ Len(q) \in Nat /\ Len(r) = Len(q) + 1 /\ r[Len(q) + 1] = m
      /\ \A i \in 1 .. Len(q) : r[i] = q[i]
  OBVIOUS
<1> HIDE DEF r
<1>2. \A i \in 1 .. Len(r) : i \in 1 .. Len(q) \/ i = Len(q) + 1
  BY <1>1
<1>3. Len(q) + 1 \in 1 .. Len(r) /\ \A i \in 1 .. Len(q) : i \in 1 .. Len(r)
  BY <1>1
<1> QED
  BY <1>1, <1>2, <1>3 DEF r, Read

\* A step that takes no message for the ADC daemon.
LEMMA ChannelStays ==
    ASSUME NEW c \in Channel, ChannelFollows(c), UNCHANGED adcQ,
           Seen(c)' => Seen(c) \/ c \in channels',
           c \in channels => c \in channels',
           Going(adcQ, c) /\ ~ Coming(adcQ, c)
           => /\ turn' # "counters" /\ (turn' = "adc" => adcPc' = "message")
              /\ Seen(c)' => Seen(c)
    PROVE  ChannelFollows(c)'
<1>1. /\ Orderly(adcQ, c)' <=> Orderly(adcQ, c)
      /\ Coming(adcQ, c)' <=> Coming(adcQ, c)
      /\ Going(adcQ, c)' <=> Going(adcQ, c)
  BY DEF Orderly, Coming, Going
<1> QED
  BY <1>1 DEF ChannelFollows

LEMMA WriteModeFollows ==
    ASSUME SlaveInv, FrameLast, ChannelMirrors, WriteMode, UNCHANGED channels
    PROVE  ChannelMirrors'
<1>1. Writing("coils") /\ turn \in {"boot", "pduh"} /\ turn' = turn /\ inQ' = inQ
      /\ Written \in BOOLEAN /\ ChannelOf(job.addr) \in Channel
  BY Current, PinOfCoil DEF WriteMode, WritingCoil, Advance
<1>2. inQ = <<>>
  BY <1>1 DEF FrameLast, Writing
<1>3. adcQ \in Seq(AdcMsg) /\ Len(adcQ) \in Nat /\ Len(adcQ) <= AdcQueueSize
  BY DEF SlaveInv, MessagesInv, QueuesTypeOK
<1> SUFFICES ASSUME NEW c \in Channel, c \notin behind' PROVE ChannelFollows(c)'
  BY DEF ChannelMirrors
<1>4. \A i \in 1 .. Len(inQ') : FALSE
  BY <1>1, <1>2
<1>5. Seen(c)' <=> c \in adcOn'
  BY <1>4 DEF Seen, Read
<1>6. c \in adcOn => Seen(c)
  BY DEF Seen
<1>7. ASSUME UNCHANGED adcQ, c \in adcOn' => c \in adcOn, c \notin behind
      PROVE  ChannelFollows(c)'
  BY <1>1, <1>5, <1>6, <1>7, ChannelStays DEF ChannelMirrors
<1>8. CASE OnPortC(job.addr)
  <2> DEFINE d == ChannelOf(job.addr)
             m == [id |-> d, enabled |-> Written]
  <2>1. /\ adcQ' = Push(adcQ, m, AdcQueueSize)
        /\ adcOn' = IF Written THEN adcOn ELSE adcOn \ {d}
        /\ behind' = IF ~Written /\ adcQ # <<>> THEN behind \cup {d}
                     ELSE IF Len(adcQ) = AdcQueueSize THEN behind
                     ELSE behind \ {d}
    BY <1>8 DEF WriteMode
  <2>2. m \in AdcMsg /\ m.id = d /\ d \in Channel /\ m = IF Written THEN Enable(d) ELSE Disable(d)
    BY <1>1 DEF AdcMsg, Enable, Disable
  <2> HIDE DEF d, m
  <2>3. adcQ' = adcQ \/ adcQ' = Append(adcQ, m)
    BY <2>1 DEF Push
  <2>4. CASE c # d
    <3>1. c \notin behind /\ (c \in adcOn' <=> c \in adcOn)
      BY <2>1, <2>4
    <3>2. CASE adcQ' = Append(adcQ, m)
      <4>1. /\ Orderly(adcQ, c) => Orderly(adcQ', c)
            /\ Coming(adcQ', c) <=> Coming(adcQ, c)
            /\ Going(adcQ', c) <=> Going(adcQ, c)
        BY <1>3, <2>2, <2>4, <3>2, OtherSent
      <4>2. ChannelFollows(c)
        BY <3>1 DEF ChannelMirrors
      <4>3. Orderly(adcQ, c)' /\ (Coming(adcQ, c)' <=> Coming(adcQ, c))
            /\ (Going(adcQ, c)' <=> Going(adcQ, c))
        BY <4>1, <4>2 DEF ChannelFollows, Orderly, Coming, Going
      <4> QED
        BY <1>1, <1>5, <1>6, <3>1, <4>2, <4>3 DEF ChannelFollows
    <3> QED
      BY <1>7, <2>3, <3>1, <3>2
  <2>5. CASE c = d /\ Written
    <3>1. CASE Len(adcQ) = AdcQueueSize
      <4>1. adcQ' = adcQ /\ adcOn' = adcOn /\ behind' = behind
        BY <1>3, <2>1, <2>5, <3>1 DEF Push
      <4> QED
        BY <1>7, <4>1
    <3>2. CASE Len(adcQ) # AdcQueueSize
      <4>1. Len(adcQ) < AdcQueueSize
        BY <1>3, <3>2, Sizes
      <4>2. adcQ' = Append(adcQ, Enable(c))
        BY <2>1, <2>2, <2>5, <4>1 DEF Push
      <4>3. Orderly(adcQ', c) /\ Coming(adcQ', c)
        BY <1>3, <4>2, EnableSent
      <4> QED
        BY <4>3 DEF ChannelFollows, Orderly, Coming
    <3> QED
      BY <3>1, <3>2
  <2>6. CASE c = d /\ ~ Written
    <3>1. adcQ = <<>>
      BY <2>1, <2>6
    <3>2. Len(adcQ) < AdcQueueSize
      BY <3>1, Sizes
    <3>3. adcQ' = Append(<<>>, Disable(c))
      BY <2>1, <2>2, <2>6, <3>1, <3>2 DEF Push
    <3>4. Orderly(adcQ', c) /\ Going(adcQ', c)
      BY <3>3, DisableSent
    <3>5. Orderly(adcQ, c)' /\ Going(adcQ, c)'
      BY <3>4 DEF Orderly, Going
    <3>6. ~ Seen(c)'
      BY <1>5, <2>1, <2>6
    <3> QED
      BY <1>1, <3>5, <3>6 DEF ChannelFollows
  <2> QED
    BY <2>4, <2>5, <2>6
<1>9. CASE ~ OnPortC(job.addr)
  BY <1>7, <1>9 DEF WriteMode
<1> QED
  BY <1>8, <1>9

LEMMA ChannelMirrorsStep ==
    ASSUME SlaveInv, FrameLast, ChannelMirrors, [Next]_vars
    PROVE  ChannelMirrors'
<1>1. inQ \in Seq(PduMsg) /\ adcQ \in Seq(AdcMsg) /\ channels \subseteq Channel
  BY DEF SlaveInv, MessagesInv, QueuesTypeOK
<1>2. adcPc \in {"message", "read"} /\ (turn # "adc" => adcPc = "message")
  BY DEF SlaveInv, RoomInv
<1>3. \A c \in Channel : (UNCHANGED inQ /\ (c \in adcOn' => c \in adcOn)) => (Seen(c)' => Seen(c))
  BY DEF Seen, Read
<1>4. ASSUME UNCHANGED <<adcQ, channels, adcPc, behind>>, turn' # "counters" \/ turn = "counters",
             turn' = "adc" => adcPc = "message",
             \A c \in Channel : Seen(c)' => Seen(c)
      PROVE  ChannelMirrors'
  <2> SUFFICES ASSUME NEW c \in Channel, c \notin behind PROVE ChannelFollows(c)'
    BY <1>4 DEF ChannelMirrors
  <2>1. ChannelFollows(c)
    BY DEF ChannelMirrors
  <2>2. Going(adcQ, c) /\ ~ Coming(adcQ, c)
        => turn' # "counters" /\ (turn' = "adc" => adcPc' = "message")
    BY <1>4, <2>1 DEF ChannelFollows
  <2> QED
    BY <1>4, <2>1, <2>2, ChannelStays
<1>5. ASSUME PduStep, UNCHANGED adcVars PROVE ChannelMirrors'
  <2>1. UNCHANGED <<channels, adcPc>>
    BY <1>5 DEF adcVars
  <2>2. CASE WriteMode
    BY <2>1, <2>2, WriteModeFollows
  <2>3. CASE TakeReading
    <3>1. /\ inQ # <<>> /\ Head(inQ).tag = "adc" /\ inQ' = Tail(inQ) /\ turn' = "pduh"
          /\ UNCHANGED <<adcQ, behind>> /\ adcOn' = adcOn \cup {Head(inQ).id}
      BY <2>3 DEF TakeReading, PduTurn, history
    <3>2. Head(inQ) \in PduMsg
      BY <1>1, <3>1, TakeHead
    <3>3. Head(inQ) = Reading(Head(inQ).id)
      BY <3>1, <3>2 DEF PduMsg, Reading
    <3>4. ASSUME NEW c \in Channel PROVE Seen(c)' => Seen(c)
      BY <1>1, <3>1, <3>3, ReadingTaken DEF Seen
    <3> QED
      BY <1>4, <2>1, <3>1, <3>4
  <2>4. CASE TakeCount \/ TakeIndication
    <3>1. /\ inQ # <<>> /\ inQ' = Tail(inQ) /\ turn' = "pduh" /\ UNCHANGED <<adcQ, behind, adcOn>>
      BY <2>4 DEF TakeCount, TakeIndication, PduTurn, history, mirrors
    <3>2. ASSUME NEW c \in Channel PROVE Seen(c)' => Seen(c)
      BY <1>1, <3>1, ReadingTaken DEF Seen
    <3> QED
      BY <1>4, <2>1, <3>1, <3>2
  <2>5. CASE PduWait
    <3>1. adcPc = "message"
      BY <1>2, <2>5 DEF PduWait
    <3> QED
      BY <1>3, <1>4, <2>1, <2>5, <3>1 DEF PduWait, pduVars, mirrors, history
  <2>6. CASE JobDone \/ Writing("coils") \/ Writing("registers")
    <3>1. turn \in {"boot", "pduh"}
      BY <2>6 DEF JobDone, Writing, SlaveInv, MessagesInv
    <3>2. CASE UNCHANGED <<inQ, adcQ, adcOn, behind>> /\ turn' \in {turn, "tr"}
      BY <1>3, <1>4, <2>1, <3>1, <3>2
    <3> QED
      BY <1>5, <2>2, <2>3, <2>4, <2>5, <3>2
      DEF PduStep, JobDone, WriteDirection, WritePullUp, WriteCounting, WriteOutput, UnwritableCoil,
          SetRunning, SaveConfig, LoadConfig, WriteTimer, WriteCounter, WriteUserData, WriteReading,
          WritingCoil, Writing, Finish, Advance, mirrors, history
  <2> QED
    BY <1>5, <2>2, <2>3, <2>4, <2>5, <2>6
    DEF PduStep, JobDone, WriteDirection, WritePullUp, WriteCounting, WriteOutput, UnwritableCoil,
        SetRunning, SaveConfig, LoadConfig, WriteTimer, WriteCounter, WriteUserData, WriteReading,
        WritingCoil
<1>6. ASSUME AdcStep, UNCHANGED pduVars PROVE ChannelMirrors'
  <2>1. turn = "adc" /\ UNCHANGED <<adcOn, behind>>
    BY <1>6
    DEF AdcStep, TakeAdcMessage, NoAdcMessage, NothingRead, ReadChannel, AdcTurn, pduVars, mirrors, history
  <2> SUFFICES ASSUME NEW c \in Channel, c \notin behind PROVE ChannelFollows(c)'
    BY <2>1 DEF ChannelMirrors
  <2>2. ChannelFollows(c)
    BY DEF ChannelMirrors
  <2>3. CASE TakeAdcMessage
    <3>1. /\ adcQ # <<>> /\ adcQ' = Tail(adcQ) /\ inQ' = inQ
          /\ channels' = IF Head(adcQ).enabled THEN channels \cup {Head(adcQ).id}
                         ELSE channels \ {Head(adcQ).id}
      BY <2>3 DEF TakeAdcMessage, EnableChannel, DisableChannel
    <3>2. Head(adcQ) \in AdcMsg
      BY <1>1, <3>1, TakeHead
    <3>3. Head(adcQ) = IF Head(adcQ).enabled THEN Enable(Head(adcQ).id) ELSE Disable(Head(adcQ).id)
      BY <3>2 DEF AdcMsg, Enable, Disable
    <3>4. Seen(c)' <=> Seen(c)
      BY <2>1, <3>1 DEF Seen, Read
    <3>5. /\ Orderly(adcQ', c)
          /\ Coming(adcQ, c) => Coming(adcQ', c) \/ Head(adcQ) = Enable(c)
          /\ Going(adcQ', c) => Coming(adcQ', c)
      BY <1>1, <2>2, <3>1, AdcTaken DEF ChannelFollows
    <3>6. Orderly(adcQ, c)' /\ (Coming(adcQ', c) => Coming(adcQ, c)')
          /\ (Going(adcQ, c)' => Going(adcQ', c))
      BY <3>5 DEF Orderly, Coming, Going
    <3>7. Head(adcQ) = Enable(c) => c \in channels'
      BY <3>1 DEF Enable
    <3>8. c \in channels /\ Head(adcQ) # Disable(c) => c \in channels'
      BY <3>1, <3>3
    <3>9. Going(adcQ, c) <=> Head(adcQ) = Disable(c)
      BY <3>1 DEF Going
    <3>10. CASE Coming(adcQ, c)
      BY <3>5, <3>6, <3>7, <3>10 DEF ChannelFollows
    <3>11. CASE ~ Coming(adcQ, c)
      BY <2>2, <3>4, <3>5, <3>6, <3>8, <3>9, <3>11 DEF ChannelFollows
    <3> QED
      BY <3>10, <3>11
  <2>4. CASE NoAdcMessage
    <3>1. UNCHANGED <<inQ, adcQ, channels>> /\ adcQ = <<>>
      BY <2>4 DEF NoAdcMessage
    <3>2. ~ Going(adcQ, c) /\ (Seen(c)' => Seen(c))
      BY <1>3, <2>1, <3>1 DEF Going
    <3> QED
      BY <2>2, <3>1, <3>2, ChannelStays
  <2>5. CASE NothingRead \/ ReadChannel
    <3>1. adcPc # "message" /\ UNCHANGED <<adcQ, channels>>
      BY <2>5 DEF NothingRead, ReadChannel, AdcTurn
    <3>2. Coming(adcQ, c) \/ ~ Going(adcQ, c)
      BY <2>1, <2>2, <3>1 DEF ChannelFollows
    <3>3. inQ' = inQ \/ (active \in channels /\ inQ' = Append(inQ, Reading(active)))
      BY <2>5 DEF NothingRead, ReadChannel, Reading
    <3>4. active \in channels => Reading(active) \in PduMsg
      BY <1>1 DEF PduMsg, Reading
    <3>5. Reading(active) = Reading(c) => active = c
      BY DEF Reading
    <3>6. Seen(c)' => Seen(c) \/ c \in channels'
      BY <1>1, <1>3, <2>1, <3>1, <3>3, <3>4, <3>5, ReadingSent DEF Seen
    <3> QED
      BY <2>2, <3>1, <3>2, <3>6, ChannelStays
  <2> QED
    BY <1>6, <2>3, <2>4, <2>5 DEF AdcStep
<1>7. ASSUME CountersStep, UNCHANGED <<pduVars, adcVars>> PROVE ChannelMirrors'
  <2>1. turn = "counters" /\ UNCHANGED <<adcQ, channels, adcPc, behind, adcOn>>
    BY <1>7
    DEF CountersStep, CountersWait, CountersWake, Elapse, HeadIs, CountersTurn, DisableCounter,
        EnableCounter, SetCounter, MessagesDone, Sample, ReportEdge, EdgesDone, pduVars, adcVars,
        mirrors, history
  <2>2. turn' \in {"counters", "tr"}
    BY <1>7, <2>1
    DEF CountersStep, CountersWait, GiveWay, CountersWake, Elapse, DisableCounter,
        EnableCounter, SetCounter, MessagesDone, Sample, ReportEdge, EdgesDone
  <2>3. inQ' = inQ \/ \E c : inQ' = Append(inQ, Report(c)) /\ Report(c) \in PduMsg
    <3>1. \A c \in Counter : Report(c) \in PduMsg
      BY DEF Report, PduMsg, SlaveInv, MessagesInv
    <3>2. CASE EnableCounter
      <4>1. Head(counterQ) \in CounterMsg
        BY <3>2, TakeHead DEF EnableCounter, HeadIs, SlaveInv, MessagesInv, QueuesTypeOK
      <4>2. Head(counterQ).id \in Counter
        BY <4>1 DEF CounterMsg
      <4> QED
        BY <3>1, <3>2, <4>2 DEF EnableCounter
    <3>3. CASE ReportEdge
      <4>1. edges \in SUBSET Nat /\ edges # {} /\ edges \subseteq Counter
        BY <3>3 DEF ReportEdge, SlaveInv, MessagesInv, Counter, Pin
      <4>2. (CHOOSE i \in edges : \A j \in edges : i <= j) \in edges
        BY <4>1, LeastEdge
      <4> QED
        BY <3>1, <3>3, <4>1, <4>2 DEF ReportEdge
    <3> QED
      BY <1>7, <3>2, <3>3
      DEF CountersStep, CountersWait, CountersWake, Elapse, DisableCounter, SetCounter, MessagesDone,
          Sample, EdgesDone
  <2>4. ASSUME NEW c \in Channel PROVE Seen(c)' => Seen(c)
    <3>1. \A k : Report(k) # Reading(c)
      BY DEF Report, Reading
    <3> QED
      BY <1>1, <1>3, <2>1, <2>3, <3>1, ReadingSent DEF Seen
  <2> QED
    BY <1>2, <1>4, <2>1, <2>2, <2>4
<1>8. CASE BootLoad \/ NoFrame \/ Conversion \/ UNCHANGED vars
  <2>1. /\ UNCHANGED <<inQ, adcQ, adcOn, behind, channels, adcPc>>
        /\ turn' = turn \/ turn' \in {"tr", "pduh"}
    BY <1>8 DEF BootLoad, NoFrame, Conversion, ConversionEnds, vars, pduVars, adcVars, mirrors, history
  <2>2. turn' = "adc" /\ adcPc = "read" => turn = "adc"
    BY <2>1
  <2> SUFFICES ASSUME NEW c \in Channel, c \notin behind PROVE ChannelFollows(c)'
    BY <2>1 DEF ChannelMirrors
  <2>3. ChannelFollows(c)
    BY DEF ChannelMirrors
  <2> QED
    BY <1>3, <2>1, <2>3, ChannelStays DEF ChannelFollows
<1>9. ASSUME NEW r \in Requests, Ask(r) PROVE ChannelMirrors'
  <2> DEFINE m == [tag |-> "buffer"]
  <2>1. /\ UNCHANGED <<adcQ, adcOn, behind, channels, adcPc>> /\ turn' = "pduh"
        /\ inQ' = inQ \/ inQ' = Append(inQ, m)
    BY <1>9 DEF Ask, Push, adcVars, mirrors, history
  <2>2. m \in PduMsg /\ \A c : m # Reading(c)
    BY DEF PduMsg, Reading
  <2> HIDE DEF m
  <2>3. ASSUME NEW c \in Channel PROVE Seen(c)' => Seen(c)
    BY <1>1, <1>3, <2>1, <2>2, ReadingSent DEF Seen
  <2> QED
    BY <1>4, <2>1, <2>3
<1>10. CASE PowerFails \/ \E n \in 0 .. 14 : PowerFailsInSave(n)
  <2>1. inQ' = <<>> /\ adcQ' = <<>> /\ adcOn' = {}
    BY <1>10 DEF PowerFails, PowerFailsInSave, Reset
  <2> SUFFICES ASSUME NEW c \in Channel PROVE ChannelFollows(c)'
    BY DEF ChannelMirrors
  <2>2. Orderly(adcQ, c)' /\ ~ Going(adcQ, c)' /\ ~ Seen(c)'
    BY <2>1 DEF Orderly, Going, Seen, Read
  <2> QED
    BY <2>2 DEF ChannelFollows
<1>11. CASE MainLoop
  BY <1>5, <1>6, <1>7, <1>8, <1>11 DEF MainLoop
<1> QED
  BY <1>8, <1>9, <1>10, <1>11 DEF Next

-----------------------------------------------------------------------------
(* One message for each counter.                                           *)

LEMMA Appended ==
    ASSUME NEW S, NEW q \in Seq(S), NEW m \in S
    PROVE  LET r == Append(q, m)
           IN  /\ \A i \in 1 .. Len(r) : (i \in 1 .. Len(q) /\ r[i] = q[i]) \/ (i = Len(q) + 1 /\ r[i] = m)
               /\ \A i \in 1 .. Len(q) : i \in 1 .. Len(r) /\ r[i] = q[i]
               /\ Len(q) + 1 \in 1 .. Len(r) /\ r[Len(q) + 1] = m
<1> DEFINE r == Append(q, m)
<1>1. /\ Len(q) \in Nat /\ Len(r) = Len(q) + 1 /\ r[Len(q) + 1] = m
      /\ \A i \in 1 .. Len(q) : r[i] = q[i]
  OBVIOUS
<1> HIDE DEF r
<1>2. \A i \in 1 .. Len(r) : i \in 1 .. Len(q) \/ i = Len(q) + 1
  BY <1>1
<1>3. Len(q) + 1 \in 1 .. Len(r) /\ \A i \in 1 .. Len(q) : i \in 1 .. Len(r)
  BY <1>1
<1> QED
  BY <1>1, <1>2, <1>3 DEF r

LEMMA Taken ==
    ASSUME NEW S, NEW q \in Seq(S), q # <<>>
    PROVE  LET r == Tail(q)
           IN  /\ \A i \in 1 .. Len(r) : i + 1 \in 2 .. Len(q) /\ r[i] = q[i + 1]
               /\ \A i \in 2 .. Len(q) : i - 1 \in 1 .. Len(r) /\ r[i - 1] = q[i]
               /\ \A i \in 1 .. Len(q) : i = 1 \/ i \in 2 .. Len(q)
               /\ 1 \in 1 .. Len(q) /\ Head(q) = q[1]
<1> DEFINE r == Tail(q)
<1>1. /\ Len(q) \in Nat /\ Len(r) = Len(q) - 1 /\ Len(r) \in Nat /\ Head(q) = q[1] /\ Len(q) > 0
      /\ \A i \in 1 .. Len(r) : r[i] = q[i + 1]
  OBVIOUS
<1> HIDE DEF r
<1>2. \A i \in 2 .. Len(q) : i - 1 \in 1 .. Len(r) /\ r[i - 1] = q[i]
  <2> SUFFICES ASSUME NEW i \in 2 .. Len(q) PROVE i - 1 \in 1 .. Len(r) /\ r[i - 1] = q[i]
    OBVIOUS
  <2>1. i - 1 \in 1 .. Len(r) /\ (i - 1) + 1 = i
    BY <1>1
  <2> QED
    BY <1>1, <2>1
<1>3. \A i \in 1 .. Len(r) : i + 1 \in 2 .. Len(q)
  BY <1>1
<1>4. 1 \in 1 .. Len(q) /\ \A i \in 1 .. Len(q) : i = 1 \/ i \in 2 .. Len(q)
  BY <1>1
<1> QED
  BY <1>1, <1>2, <1>3, <1>4 DEF r

\* The coil after one that counts a pin counts the next pin, or cannot be
\* written.
LEMMA NextCoil ==
    ASSUME NEW a \in Address, KindOf(a) = "EC"
    PROVE  LET b == (a + 1) % AddressMod
           IN  \/ KindOf(b) = "EC" /\ PinOf(b) = PinOf(a) + 1
               \/ KindOf(b) \in {"AU", "PI"}
<1> DEFINE b == (a + 1) % AddressMod
           q == a \div Bits
           k == a % Bits
           r == q % RegistryMod
           m == q \div RegistryMod
<1>1. a \in Nat /\ q \in Nat /\ k \in 0 .. Bits - 1 /\ a = Bits * q + k
  BY Sizes DEF Address
<1>2. m \in Nat /\ r \in 0 .. RegistryMod - 1 /\ q = RegistryMod * m + r
  BY <1>1, Sizes
<1> HIDE DEF b, q, k, m
<1>3. Registry(a) = r /\ a % Bits = k
  BY DEF Registry, q, k
<1> HIDE DEF r
<1>4. r \in 18 .. 20
  <2>1. Registry(a) < 27 /\ Kinds[r \div 3 + 1] = "EC"
    BY <1>3 DEF KindOf
  <2>2. r \div 3 \in 0 .. 8
    BY <1>2, <1>3, <2>1
  <2>3. r \div 3 = 6
    BY <2>1, <2>2 DEF Kinds
  <2> QED
    BY <1>2, <2>3
<1>5. PinOf(a) = (r % 3) * Bits + k
  BY <1>3 DEF PinOf
<1>6. KindOf(0) = "AU"
  <2>1. Registry(0) = 0
    BY Sizes, Records DEF Registry
  <2> QED
    BY <2>1 DEF KindOf, Kinds
<1>7. b = a + 1 \/ b = 0
  <2>1. CASE a + 1 < AddressMod
    BY <1>1, <2>1, Sizes DEF b
  <2>2. CASE ~ (a + 1 < AddressMod)
    <3>1. a + 1 = AddressMod
      BY <1>1, <2>2, Sizes DEF Address
    <3> QED
      BY <3>1, Sizes DEF b
  <2> QED
    BY <2>1, <2>2
<1>8. CASE b = a + 1 /\ k < Bits - 1
  <2>1. b = Bits * q + (k + 1) /\ k + 1 \in 0 .. Bits - 1
    BY <1>1, <1>8, Sizes
  <2>2. b \div Bits = q /\ b % Bits = k + 1
    BY <1>1, <2>1, Sizes
  <2>3. Registry(b) = r /\ b % Bits = k + 1
    BY <2>2 DEF Registry, r
  <2>4. PinOf(b) = (r % 3) * Bits + (k + 1)
    BY <2>3 DEF PinOf
  <2>5. KindOf(b) = KindOf(a)
    BY <1>3, <2>3 DEF KindOf
  <2>6. PinOf(b) = PinOf(a) + 1
    <3>1. (r % 3) * Bits \in Nat
      BY <1>4, Sizes
    <3> QED
      BY <1>1, <1>5, <2>4, <3>1
  <2> QED
    BY <2>5, <2>6 DEF b
<1>9. CASE b = a + 1 /\ k = Bits - 1
  <2>1. b = Bits * (q + 1) + 0
    BY <1>1, <1>9, Sizes
  <2>2. b \div Bits = q + 1 /\ b % Bits = 0
    BY <1>1, <2>1, Sizes
  <2>3. (q + 1) % RegistryMod = r + 1
    <3>1. q + 1 = RegistryMod * m + (r + 1) /\ r + 1 \in 0 .. RegistryMod - 1
      BY <1>2, <1>4, Sizes, Records
    <3> QED
      BY <1>2, <3>1, Sizes
  <2>4. Registry(b) = r + 1
    BY <2>2, <2>3 DEF Registry
  <2>5. PinOf(b) = ((r + 1) % 3) * Bits + 0
    BY <2>2, <2>4 DEF PinOf
  <2>6. CASE r = 20
    <3>1. KindOf(b) = "PI"
      BY <2>4, <2>6 DEF KindOf, Kinds
    <3> QED
      BY <3>1 DEF b
  <2>7. CASE r \in 18 .. 19
    <3>1. KindOf(b) = "EC"
      BY <2>4, <2>7 DEF KindOf, Kinds
    <3>2. PinOf(b) = PinOf(a) + 1
      <4>1. r = 18 \/ r = 19
        BY <2>7
      <4>2. CASE r = 18
        BY <1>5, <1>9, <2>5, <4>2, Sizes
      <4>3. CASE r = 19
        BY <1>5, <1>9, <2>5, <4>3, Sizes
      <4> QED
        BY <4>1, <4>2, <4>3
    <3> QED
      BY <3>1, <3>2 DEF b
  <2> QED
    BY <1>4, <2>6, <2>7
<1> QED
  BY <1>1, <1>6, <1>7, <1>8, <1>9, Sizes DEF b

\* The queue of the counters daemon when a write begins.
Quiet == counterQ = <<>> \/ Len(counterQ) = CounterQueueSize

PendingBelow(q, n) == \A i \in 1 .. Len(q) : q[i].id < n
OneEach(q) == \A i, j \in 1 .. Len(q) : q[i].id = q[j].id => i = j

\* A write of coils counts each pin at most once, in their order: beyond the
\* coils that count lies one that cannot be written.
CoilsOnce ==
    \/ Quiet
    \/ KindOf(job.addr) = "EC" /\ PendingBelow(counterQ, PinOf(job.addr))
    \/ KindOf(job.addr) \in {"AU", "PI"}

\* A write of registers sets each counter at most once: an address that wraps
\* comes to a register that cannot be written.
RegistersOnce ==
    \/ Quiet
    \/ job.addr \in FirstCounter .. UserBegin - 1 /\ PendingBelow(counterQ, job.addr - FirstCounter)
    \/ job.addr >= UserBegin \/ job.addr < TimerA

\* The load at start-up leaves the queue full.
Filling ==
    \/ Len(counterQ) = CounterQueueSize
    \/ counterQ = <<>> /\ job.addr <= FirstIOD + 9 * Bits
    \/ Len(counterQ) = job.addr - (FirstIOD + 9 * Bits)

Once ==
    /\ OneEach(counterQ)
    /\ job.kind = "coils" => CoilsOnce
    /\ job.kind = "registers" => RegistersOnce
    /\ turn = "boot" => job.kind # "registers"
    /\ turn = "boot" /\ job.kind = "none" => counterQ = <<>>
    /\ turn = "boot" /\ job.kind = "coils" => Filling
    /\ turn = "tr" => Quiet
    /\ turn = "pduh" /\ inQ # <<>> => Quiet

\* A write goes on to the next address, or to the first.
LEMMA NextAddress ==
    ASSUME SlaveInv, Writing("coils") \/ Writing("registers"), Advance
    PROVE  /\ job'.kind = job.kind /\ turn' = turn /\ job.addr \in Address
           /\ job'.addr = (job.addr + 1) % AddressMod
           /\ job'.addr = job.addr + 1 \/ job'.addr = 0
<1>1. job \in Jobs /\ job.addr \in Address
  BY Sizes DEF SlaveInv, MessagesInv, Jobs, Address
<1>2. job'.kind = job.kind /\ job'.addr = (job.addr + 1) % AddressMod /\ turn' = turn
  <2>1. job'.kind = job.kind
    BY <1>1, NextJob
  <2>2. job'.addr = (job.addr + 1) % AddressMod /\ turn' = turn
    BY <1>1 DEF Advance, Jobs
  <2> QED
    BY <2>1, <2>2
<1>3. job.addr \in Nat /\ job.addr < AddressMod
  BY <1>1, Sizes DEF Address
<1>4. CASE job.addr + 1 < AddressMod
  BY <1>1, <1>2, <1>3, <1>4, Sizes
<1>5. CASE job.addr + 1 = AddressMod
  BY <1>1, <1>2, <1>5, Sizes
<1> QED
  BY <1>1, <1>2, <1>3, <1>4, <1>5, Sizes

\* A message behind those for lesser counters.
LEMMA OnceSent ==
    ASSUME NEW q \in Seq(CounterMsg), NEW m \in CounterMsg, OneEach(q),
           \A i \in 1 .. Len(q) : q[i].id < m.id
    PROVE  /\ OneEach(Append(q, m))
           /\ \A i \in 1 .. Len(Append(q, m)) : Append(q, m)[i].id < m.id + 1
<1> DEFINE r == Append(q, m)
<1>1. \A i \in 1 .. Len(r) : (i \in 1 .. Len(q) /\ r[i] = q[i]) \/ (i = Len(q) + 1 /\ r[i] = m)
  BY Appended
<1> HIDE DEF r
<1>2. m.id \in Nat /\ \A i \in 1 .. Len(q) : q[i].id \in Nat
  <2>1. \A x \in CounterMsg : x.id \in Nat
    BY Sizes DEF CounterMsg, Counter, Pin
  <2> QED
    BY <2>1
<1>3. OneEach(r)
  <2> SUFFICES ASSUME NEW i \in 1 .. Len(r), NEW j \in 1 .. Len(r), r[i].id = r[j].id PROVE i = j
    BY DEF OneEach
  <2>1. CASE i \in 1 .. Len(q) /\ r[i] = q[i] /\ j \in 1 .. Len(q) /\ r[j] = q[j]
    BY <2>1 DEF OneEach
  <2>2. CASE i \in 1 .. Len(q) /\ r[i] = q[i] /\ r[j] = m
    BY <1>2, <2>2
  <2>3. CASE j \in 1 .. Len(q) /\ r[j] = q[j] /\ r[i] = m
    BY <1>2, <2>3
  <2>4. CASE i = Len(q) + 1 /\ j = Len(q) + 1
    BY <2>4
  <2> QED
    BY <1>1, <2>1, <2>2, <2>3, <2>4
<1>4. \A i \in 1 .. Len(r) : r[i].id < m.id + 1
  BY <1>1, <1>2
<1> QED
  BY <1>3, <1>4 DEF r

LEMMA OnceTaken ==
    ASSUME NEW q \in Seq(CounterMsg), q # <<>>, OneEach(q)
    PROVE  OneEach(Tail(q)) /\ \A i \in 1 .. Len(Tail(q)) : Tail(q)[i].id # Head(q).id
<1> DEFINE r == Tail(q)
<1>1. /\ \A i \in 1 .. Len(r) : i + 1 \in 2 .. Len(q) /\ r[i] = q[i + 1]
      /\ 1 \in 1 .. Len(q) /\ Head(q) = q[1]
  BY Taken
<1> HIDE DEF r
<1>2. \A i \in 1 .. Len(r) : i + 1 \in 1 .. Len(q) /\ i + 1 # 1
  BY <1>1
<1>3. \A i, j \in 1 .. Len(r) : i + 1 = j + 1 => i = j
  OBVIOUS
<1>4. OneEach(r)
  BY <1>1, <1>2, <1>3 DEF OneEach
<1>5. \A i \in 1 .. Len(r) : r[i].id # Head(q).id
  BY <1>1, <1>2 DEF OneEach
<1> QED
  BY <1>4, <1>5 DEF r

\* The coils from the first of the counters on, in the configuration.
LEMMA CountingCoils ==
    \A a \in FirstIOD + 9 * Bits .. FirstIOD + 12 * Bits - 1 : KindOf(a) = "EC"
<1> SUFFICES ASSUME NEW a \in FirstIOD + 9 * Bits .. FirstIOD + 12 * Bits - 1 PROVE KindOf(a) = "EC"
  OBVIOUS
<1> DEFINE n == a - FirstIOD
<1>1. n \in 0 .. 12 * Bits - 1 /\ 9 * Bits <= n /\ FirstIOD + n = a
  BY Sizes DEF FirstIOD
<1> HIDE DEF n
<1>2. ConfigCoilAt(n)
  BY <1>1, ConfigCoils
<1> QED
  BY <1>1, <1>2 DEF ConfigCoilAt

LEMMA OnceWrites ==
    ASSUME SlaveInv, LoadInv, FrameLast, Once, RomTypes, PduStep,
           Writing("coils") \/ Writing("registers")
    PROVE  Once'
<1>1. inQ = <<>> /\ inQ' = <<>> /\ turn \in {"boot", "pduh"}
  BY Current DEF FrameLast, Writing
<1>2. counterQ \in Seq(CounterMsg) /\ Len(counterQ) \in Nat /\ Len(counterQ) <= CounterQueueSize
  BY DEF SlaveInv, MessagesInv, QueuesTypeOK
<1>3. ASSUME turn = "boot"
      PROVE  /\ job.kind = "coils" /\ turn' = turn /\ Advance
             /\ \E n \in 0 .. 12 * Bits - 1 : job.addr = FirstIOD + n /\ job'.addr = job.addr + 1
  <2>1. job.kind = "coils" /\ job.rest # <<>>
    BY <1>3 DEF Once, Writing
  <2>2. PICK n \in 0 .. 12 * Bits : LoadedTo(n)
    BY <1>3, <2>1 DEF LoadInv
  <2>3. turn' = turn /\ n + 1 \in 0 .. 12 * Bits /\ LoadedTo(n + 1)'
    BY <2>1, <2>2, LoadStep
  <2>4. n \in 0 .. 12 * Bits - 1 /\ job.addr = FirstIOD + n /\ job'.addr = job.addr + 1
    BY <2>2, <2>3, Sizes DEF LoadedTo, FirstIOD
  <2>5. Advance
    <3>1. ~ \E how : Finish(how)
      BY <1>3, <2>3 DEF Finish
    <3>2. job.addr # LoadAddress
      BY <2>4, Commands, Sizes DEF FirstIOD, CoilsEnd
    <3> QED
      BY <2>1, <3>1, <3>2
      DEF PduStep, TakeIndication, TakeReading, TakeCount, PduTurn, PduWait, NoJob, JobDone,
          WriteOutput, UnwritableCoil, WritingCoil, SetRunning, SaveConfig, LoadConfig, WriteTimer,
          WriteCounter, WriteUserData, WriteReading, Writing, WriteDirection, WriteMode, WritePullUp,
          WriteCounting
  <2> QED
    BY <2>1, <2>3, <2>4, <2>5
<1>4. ASSUME UNCHANGED counterQ PROVE OneEach(counterQ)' /\ (Quiet' <=> Quiet)
  BY <1>4 DEF Once, OneEach, Quiet
<1>5. ASSUME NEW how, Finish(how), UNCHANGED counterQ PROVE Once'
  <2>1. turn = "pduh"
    BY <1>1, <1>3, <1>5, NextAddress DEF Finish
  <2> QED
    BY <1>1, <1>4, <1>5, <2>1 DEF Finish, NoJob, Once
<1>6. ASSUME Advance, UNCHANGED counterQ, job.kind = "coils", Quiet,
             job.addr \notin FirstIOD + 9 * Bits .. FirstIOD + 12 * Bits - 1
      PROVE  Once'
  <2>1. turn' = turn /\ job'.kind = "coils"
    BY <1>6, NextAddress DEF Writing
  <2>2. CASE turn = "boot"
    <3>1. PICK n \in 0 .. 12 * Bits - 1 : job.addr = FirstIOD + n /\ job'.addr = job.addr + 1
      BY <1>3, <2>2
    <3>2. job'.addr <= FirstIOD + 9 * Bits
      BY <1>6, <3>1, Sizes DEF FirstIOD
    <3> QED
      BY <1>1, <1>4, <1>6, <2>1, <2>2, <3>2 DEF Once, Filling, CoilsOnce, Quiet
  <2>3. CASE turn = "pduh"
    BY <1>1, <1>4, <1>6, <2>1, <2>3 DEF Once, CoilsOnce
  <2> QED
    BY <1>1, <2>2, <2>3
<1>7. CASE WriteDirection \/ WriteMode \/ WritePullUp \/ WriteOutput
  <2>1. job.kind = "coils" /\ UNCHANGED counterQ /\ KindOf(job.addr) \in {"IOD", "IOM", "EIP", "PO"}
    BY <1>7 DEF WriteDirection, WriteMode, WritePullUp, WriteOutput, WritingCoil, Writing
  <2>2. Quiet
    BY <2>1 DEF Once, CoilsOnce
  <2>3. job.addr \notin FirstIOD + 9 * Bits .. FirstIOD + 12 * Bits - 1
    BY <2>1, CountingCoils
  <2>4. Advance \/ Finish("failure")
    BY <1>7 DEF WriteDirection, WriteMode, WritePullUp, WriteOutput
  <2> QED
    BY <1>5, <1>6, <2>1, <2>2, <2>3, <2>4
<1>8. CASE UnwritableCoil \/ WriteReading
  BY <1>5, <1>8 DEF UnwritableCoil, WriteReading
<1>9. CASE SetRunning \/ SaveConfig
  <2>1. /\ job.kind = "coils" /\ UNCHANGED counterQ /\ Advance
        /\ job.addr \in {SaveAddress, LoadAddress, RunAddress}
    BY <1>9 DEF SetRunning, SaveConfig, Writing
  <2>2. KindOf(job.addr) = "none"
    BY <2>1, Commands
  <2>3. Quiet
    BY <2>1, <2>2 DEF Once, CoilsOnce
  <2>4. job.addr \notin FirstIOD + 9 * Bits .. FirstIOD + 12 * Bits - 1
    BY <2>2, CountingCoils
  <2> QED
    BY <1>6, <2>1, <2>3, <2>4
<1>10. CASE LoadConfig
  <2>1. job.kind = "coils" /\ UNCHANGED counterQ /\ job.addr = LoadAddress
    BY <1>10 DEF LoadConfig, Writing
  <2>2. Quiet
    BY <2>1, Commands DEF Once, CoilsOnce
  <2>3. turn = "pduh"
    <3>1. \A n \in 0 .. 12 * Bits - 1 : LoadAddress # FirstIOD + n
      BY Commands, Sizes DEF FirstIOD, CoilsEnd
    <3> QED
      BY <1>1, <1>3, <2>1, <3>1
  <2>4. CASE Finish("failure")
    BY <1>5, <2>1, <2>4
  <2>5. CASE job' = ConfigJob /\ turn' = turn
    <3>1. job'.kind = "coils"
      BY <2>5, ConfigWrites
    <3> QED
      BY <1>1, <1>4, <2>1, <2>2, <2>3, <2>5, <3>1 DEF Once, CoilsOnce
  <2> QED
    BY <1>10, <2>4, <2>5 DEF LoadConfig
<1>11. CASE WriteTimer \/ WriteUserData
  <2>1. job.kind = "registers" /\ Writing("registers") /\ UNCHANGED counterQ
    BY <1>11 DEF WriteTimer, WriteUserData, Writing
  <2>2. turn = "pduh"
    BY <1>1, <1>3, <2>1
  <2>3. CASE Advance
    <3>1. /\ job'.kind = "registers" /\ turn' = turn /\ job.addr \in Nat
          /\ job'.addr = job.addr + 1 \/ job'.addr = 0
      BY <2>1, <2>3, NextAddress, Sizes DEF Address
    <3>2. 0 < TimerA /\ TimerA \in Nat /\ TimerB = TimerA + 1 /\ FirstCounter = TimerA + 2
      BY Sizes DEF TimerA, TimerB, FirstCounter
    <3>3. CASE job.addr \in {TimerA, TimerB}
      <4>1. Quiet
        BY <2>1, <3>2, <3>3, Limits, Sizes DEF Once, RegistersOnce
      <4> QED
        BY <1>1, <1>4, <2>1, <2>2, <3>1, <4>1 DEF Once, RegistersOnce
    <3>4. CASE job.addr >= UserBegin
      <4>1. job'.addr >= UserBegin \/ job'.addr < TimerA
        BY <3>1, <3>2, <3>4, Limits, Sizes
      <4> QED
        BY <1>1, <1>4, <2>1, <2>2, <3>1, <4>1 DEF Once, RegistersOnce
    <3> QED
      BY <1>11, <3>3, <3>4 DEF WriteTimer, WriteUserData
  <2> QED
    BY <1>5, <1>11, <2>1, <2>3 DEF WriteTimer, WriteUserData
<1>12. ASSUME Advance, NEW m \in CounterMsg, counterQ' = Push(counterQ, m, CounterQueueSize),
              Quiet \/ PendingBelow(counterQ, m.id)
       PROVE  /\ OneEach(counterQ)'
              /\ Quiet' \/ PendingBelow(counterQ', m.id + 1)
              /\ Len(counterQ') = CounterQueueSize \/ Len(counterQ') = Len(counterQ) + 1
  <2>1. CASE Len(counterQ) = CounterQueueSize
    <3>1. counterQ' = counterQ
      BY <1>2, <1>12, <2>1 DEF Push
    <3> QED
      BY <1>4, <2>1, <3>1 DEF Quiet
  <2>2. CASE Len(counterQ) # CounterQueueSize
    <3>1. Len(counterQ) < CounterQueueSize
      BY <1>2, <2>2, Sizes
    <3>2. counterQ' = Append(counterQ, m) /\ Len(counterQ') = Len(counterQ) + 1
      BY <1>2, <1>12, <3>1, Pushed, Sizes
    <3>3. \A i \in 1 .. Len(counterQ) : counterQ[i].id < m.id
      <4>1. CASE counterQ = <<>>
        BY <4>1
      <4> QED
        BY <1>12, <2>2, <4>1 DEF Quiet, PendingBelow
    <3>4. OneEach(counterQ') /\ \A i \in 1 .. Len(counterQ') : counterQ'[i].id < m.id + 1
      BY <1>2, <1>12, <3>2, <3>3, OnceSent DEF Once
    <3> QED
      BY <3>2, <3>4 DEF OneEach, PendingBelow
  <2> QED
    BY <2>1, <2>2
<1>13. CASE WriteCounting
  <2> DEFINE a == job.addr
             m == [tag |-> "enable", id |-> PinOf(a), enabled |-> Written]
  <2>1. /\ Writing("coils") /\ KindOf(a) = "EC" /\ Advance /\ job.kind = "coils"
        /\ counterQ' = Push(counterQ, m, CounterQueueSize)
    BY <1>13 DEF WriteCounting, WritingCoil, Writing
  <2>2. a \in Address /\ job'.addr = (a + 1) % AddressMod /\ job'.kind = "coils" /\ turn' = turn
    BY <2>1, NextAddress
  <2>3. m \in CounterMsg /\ m.id = PinOf(a)
    BY <2>1, Current, PinOfCoil DEF CounterMsg, Counter
  <2>4. Quiet \/ PendingBelow(counterQ, PinOf(a))
    BY <2>1 DEF Once, CoilsOnce
  <2> HIDE DEF m, a
  <2>5. /\ OneEach(counterQ)'
        /\ Quiet' \/ PendingBelow(counterQ', PinOf(a) + 1)
        /\ Len(counterQ') = CounterQueueSize \/ Len(counterQ') = Len(counterQ) + 1
    BY <1>12, <2>1, <2>3, <2>4
  <2>6. \/ KindOf(job'.addr) = "EC" /\ PinOf(job'.addr) = PinOf(a) + 1
        \/ KindOf(job'.addr) \in {"AU", "PI"}
    BY <2>1, <2>2, NextCoil
  <2>7. CoilsOnce'
    BY <2>5, <2>6 DEF CoilsOnce
  <2>8. CASE turn = "boot"
    <3>1. PICK n \in 0 .. 12 * Bits - 1 : a = FirstIOD + n /\ job'.addr = a + 1
      BY <1>3, <2>8 DEF a
    <3>2. n >= 9 * Bits
      <4>1. ConfigCoilAt(n)
        BY ConfigCoils
      <4> QED
        BY <2>1, <3>1, <4>1, Sizes DEF ConfigCoilAt
    <3>3. Filling
      BY <2>1, <2>8 DEF Once
    <3>4. Filling'
      <4>1. CASE Len(counterQ') = CounterQueueSize
        BY <4>1 DEF Filling
      <4>2. CASE Len(counterQ) = CounterQueueSize
        <5>1. counterQ' = counterQ
          BY <1>2, <2>1, <4>2 DEF Push
        <5> QED
          BY <4>2, <5>1 DEF Filling
      <4>3. CASE counterQ = <<>> /\ a <= FirstIOD + 9 * Bits /\ Len(counterQ') = Len(counterQ) + 1
        <5>1. Len(counterQ') = 1 /\ n = 9 * Bits
          BY <3>1, <3>2, <4>3, Sizes DEF FirstIOD
        <5>2. 1 = job'.addr - (FirstIOD + 9 * Bits)
          BY <3>1, <5>1, Sizes DEF FirstIOD
        <5> QED
          BY <5>1, <5>2 DEF Filling
      <4>4. CASE Len(counterQ) = a - (FirstIOD + 9 * Bits) /\ Len(counterQ') = Len(counterQ) + 1
        <5>1. Len(counterQ') = job'.addr - (FirstIOD + 9 * Bits)
          BY <1>2, <3>1, <4>4, Sizes DEF FirstIOD
        <5> QED
          BY <5>1 DEF Filling
      <4> QED
        BY <2>5, <3>3, <4>1, <4>2, <4>3, <4>4 DEF Filling, a
    <3> QED
      BY <1>1, <2>2, <2>5, <2>7, <2>8, <3>4 DEF Once
  <2>9. CASE turn = "pduh"
    BY <1>1, <2>2, <2>5, <2>7, <2>9 DEF Once
  <2> QED
    BY <1>1, <2>8, <2>9
<1>14. CASE WriteCounter
  <2> DEFINE a == job.addr
             m == [tag |-> "value", id |-> a - FirstCounter, value |-> Written % WordMod]
  <2>1. /\ Writing("registers") /\ Advance /\ job.kind = "registers"
        /\ a \in FirstCounter .. UserBegin - 1
        /\ counterQ' = Push(counterQ, m, CounterQueueSize)
    BY <1>14 DEF WriteCounter, Writing
  <2>2. /\ a \in Address /\ job'.kind = "registers" /\ turn' = turn
        /\ job'.addr = a + 1 \/ job'.addr = 0
    BY <2>1, NextAddress
  <2>3. m \in CounterMsg /\ m.id = a - FirstCounter
    <3>1. a - FirstCounter \in Counter
      BY <2>1, Limits, Sizes DEF Counter, Pin
    <3>2. Written % WordMod \in Word
      BY <2>1, Current, Sizes, Remainder DEF Word
    <3> QED
      BY <3>1, <3>2 DEF CounterMsg
  <2>4. Quiet \/ PendingBelow(counterQ, a - FirstCounter)
    <3>1. a < UserBegin /\ a >= TimerA /\ a \in Nat /\ UserBegin \in Nat
      BY <2>1, Limits, Sizes DEF FirstCounter, TimerA
    <3>2. ~ (a >= UserBegin) /\ ~ (a < TimerA)
      BY <3>1, Sizes DEF TimerA
    <3> QED
      BY <2>1, <3>2 DEF Once, RegistersOnce
  <2> HIDE DEF m, a
  <2>5. OneEach(counterQ)' /\ (Quiet' \/ PendingBelow(counterQ', (a - FirstCounter) + 1))
    BY <1>12, <2>1, <2>3, <2>4
  <2>6. RegistersOnce'
    <3>1. CASE job'.addr = 0
      BY <3>1, Sizes DEF RegistersOnce, TimerA
    <3>2. CASE job'.addr = a + 1 /\ a + 1 >= UserBegin
      BY <3>2 DEF RegistersOnce
    <3>3. CASE job'.addr = a + 1 /\ ~ (a + 1 >= UserBegin)
      <4>1. job'.addr \in FirstCounter .. UserBegin - 1
        BY <2>1, <3>3, Limits, Sizes
      <4>2. job'.addr - FirstCounter = (a - FirstCounter) + 1
        BY <2>1, <3>3, Limits, Sizes
      <4> QED
        BY <2>5, <4>1, <4>2 DEF RegistersOnce
    <3> QED
      BY <2>2, <3>1, <3>2, <3>3
  <2>7. turn = "pduh"
    BY <1>1, <1>3, <2>1
  <2> QED
    BY <1>1, <2>2, <2>5, <2>6, <2>7 DEF Once
<1> QED
  BY <1>7, <1>8, <1>9, <1>10, <1>11, <1>13, <1>14
  DEF PduStep, TakeIndication, TakeReading, TakeCount, PduTurn, PduWait, NoJob, JobDone, Writing

LEMMA OnceStep ==
    ASSUME SlaveInv, SlaveInv', LoadInv, FrameLast, FrameLast', RomTypes, Once, [Next]_vars
    PROVE  Once'
<1>1. counterQ \in Seq(CounterMsg) /\ Len(counterQ) \in Nat /\ Len(counterQ) <= CounterQueueSize
  BY DEF SlaveInv, MessagesInv, QueuesTypeOK
<1>2. OneEach(counterQ)
  BY DEF Once
<1>3. turn \notin {"boot", "pduh"} => job.kind = "none"
  BY DEF SlaveInv, MessagesInv
<1>4. ASSUME UNCHANGED counterQ PROVE OneEach(counterQ)' /\ (Quiet' <=> Quiet)
  BY <1>2, <1>4 DEF OneEach, Quiet
<1>5. ASSUME OneEach(counterQ)', job'.kind = "none", turn' \in {"adc", "counters"} PROVE Once'
  BY <1>5 DEF Once
<1>6. ASSUME Quiet, UNCHANGED counterQ, job'.kind = "none", turn' \in {"tr", "pduh"} PROVE Once'
  BY <1>4, <1>6 DEF Once
<1>7. CASE PduStep
  <2>1. CASE Writing("coils") \/ Writing("registers")
    BY <1>7, <2>1, OnceWrites
  <2>2. CASE TakeIndication \/ TakeReading \/ TakeCount
    <3>1. turn = "pduh" /\ turn' = "pduh" /\ inQ # <<>> /\ UNCHANGED counterQ
      BY <2>2 DEF TakeIndication, TakeReading, TakeCount, PduTurn
    <3>2. Quiet
      BY <3>1 DEF Once
    <3> QED
      BY <1>4, <3>1, <3>2 DEF Once, CoilsOnce, RegistersOnce
  <2>3. CASE PduWait
    BY <1>4, <1>5, <2>3 DEF PduWait, pduVars, NoJob
  <2>4. CASE JobDone
    <3>1. /\ job.kind # "none" /\ job.rest = <<>> /\ Finish("ok") /\ UNCHANGED <<inQ, counterQ>>
          /\ turn \in {"boot", "pduh"} /\ job'.kind = "none"
      BY <1>3, <2>4 DEF JobDone, Finish, NoJob
    <3>2. CASE turn = "boot"
      <4>1. job.kind = "coils" /\ turn' = "tr"
        BY <3>1, <3>2 DEF Once, Finish, SlaveInv, MessagesInv, Jobs
      <4>2. PICK n \in 0 .. 12 * Bits : LoadedTo(n)
        BY <3>2, <4>1 DEF LoadInv
      <4>3. job.addr = FirstIOD + 12 * Bits
        <5>1. Len(job.rest) = 0
          BY <3>1
        <5> QED
          BY <4>2, <5>1, Sizes DEF LoadedTo, FirstIOD
      <4>4. Filling
        BY <3>2, <4>1 DEF Once
      <4>5. ~ (job.addr <= FirstIOD + 9 * Bits) /\ job.addr - (FirstIOD + 9 * Bits) = 3 * Bits
        BY <4>3, Sizes DEF FirstIOD
      <4>6. Len(counterQ) = CounterQueueSize
        BY <1>1, <4>4, <4>5, LoadAssumption, Sizes DEF Filling
      <4> QED
        BY <1>6, <3>1, <4>1, <4>6 DEF Quiet
    <3>3. CASE turn = "pduh"
      <4>1. inQ' = <<>> /\ turn' = "pduh"
        BY <3>1, <3>3 DEF FrameLast, Finish
      <4> QED
        BY <1>4, <3>1, <4>1 DEF Once
    <3> QED
      BY <3>1, <3>2, <3>3
  <2> QED
    BY <1>7, <2>1, <2>2, <2>3, <2>4
    DEF PduStep, WriteDirection, WriteMode, WritePullUp, WriteCounting, WriteOutput, UnwritableCoil,
        SetRunning, SaveConfig, LoadConfig, WriteTimer, WriteCounter, WriteUserData, WriteReading,
        WritingCoil
<1>8. CASE AdcStep /\ UNCHANGED pduVars
  <2>1. turn = "adc" /\ turn' \in {"adc", "counters"} /\ UNCHANGED <<job, counterQ>>
    BY <1>8 DEF AdcStep, TakeAdcMessage, NoAdcMessage, NothingRead, ReadChannel, AdcTurn, pduVars
  <2> QED
    BY <1>3, <1>4, <1>5, <2>1
<1>9. CASE CountersStep /\ UNCHANGED pduVars
  <2>1. turn = "counters" /\ UNCHANGED job
    BY <1>9
    DEF CountersStep, CountersWait, CountersWake, Elapse, HeadIs, CountersTurn, DisableCounter,
        EnableCounter, SetCounter, MessagesDone, Sample, ReportEdge, EdgesDone, pduVars
  <2>2. counterQ' = counterQ \/ (counterQ # <<>> /\ counterQ' = Tail(counterQ))
    BY <1>9
    DEF CountersStep, CountersWait, CountersWake, Elapse, HeadIs, DisableCounter,
        EnableCounter, SetCounter, MessagesDone, Sample, ReportEdge, EdgesDone
  <2>3. OneEach(counterQ)'
    <3>1. CASE counterQ' = counterQ
      BY <1>4, <3>1
    <3>2. CASE counterQ # <<>> /\ counterQ' = Tail(counterQ)
      <4>1. OneEach(Tail(counterQ))
        BY <1>1, <1>2, <3>2, OnceTaken
      <4> QED
        BY <3>2, <4>1 DEF OneEach
    <3> QED
      BY <2>2, <3>1, <3>2
  <2>4. turn' = "counters" \/ CountersWait
    BY <1>9, <2>1, CountersStay
  <2>5. CASE CountersWait
    <3>1. turn' = "tr" /\ UNCHANGED counterQ /\ counterQ = <<>>
      BY <2>1, <2>5 DEF CountersWait, GiveWay, SlaveInv, RoomInv, CountersRoom
    <3> QED
      BY <1>3, <1>6, <2>1, <3>1 DEF Quiet
  <2> QED
    BY <1>3, <1>5, <2>1, <2>3, <2>4, <2>5
<1>10. CASE BootLoad
  <2>1. turn = "boot" /\ job = NoJob /\ UNCHANGED counterQ
    BY <1>10 DEF BootLoad
  <2>2. counterQ = <<>> /\ Quiet
    BY <2>1 DEF Once, NoJob, Quiet
  <2>3. CASE turn' = "tr" /\ UNCHANGED job
    BY <1>6, <2>1, <2>2, <2>3 DEF NoJob
  <2>4. CASE job' = ConfigJob /\ UNCHANGED turn
    <3>1. job'.kind = "coils" /\ job'.addr = FirstIOD
      BY <2>4 DEF ConfigJob, Job
    <3>2. FirstIOD <= FirstIOD + 9 * Bits
      BY Sizes DEF FirstIOD
    <3> QED
      BY <1>4, <2>1, <2>2, <2>4, <3>1, <3>2 DEF Once, CoilsOnce, Filling
  <2> QED
    BY <1>10, <2>3, <2>4 DEF BootLoad
<1>11. CASE NoFrame \/ \E r \in Requests : Ask(r)
  <2>1. turn = "tr" /\ turn' = "pduh" /\ UNCHANGED <<job, counterQ>>
    BY <1>11 DEF NoFrame, Ask
  <2> QED
    BY <1>3, <1>6, <2>1 DEF Once
<1>12. CASE Conversion
  <2>1. turn = "tr" /\ UNCHANGED <<turn, job, counterQ>>
    BY <1>12 DEF Conversion, ConversionEnds, pduVars
  <2> QED
    BY <1>3, <1>6, <2>1 DEF Once
<1>13. CASE PowerFails \/ \E n \in 0 .. 14 : PowerFailsInSave(n)
  <2>1. turn' = "boot" /\ job' = NoJob /\ counterQ' = <<>>
    BY <1>13 DEF PowerFails, PowerFailsInSave, Reset
  <2>2. OneEach(<<>>)
    BY DEF OneEach
  <2> QED
    BY <2>1, <2>2 DEF Once, NoJob
<1>14. CASE UNCHANGED vars
  <2>1. UNCHANGED <<turn, inQ, counterQ, job>>
    BY <1>14 DEF vars, pduVars
  <2> QED
    BY <1>4, <2>1 DEF Once, CoilsOnce, RegistersOnce, Filling
<1>15. CASE MainLoop
  BY <1>7, <1>8, <1>9, <1>10, <1>11, <1>15 DEF MainLoop
<1> QED
  BY <1>11, <1>12, <1>13, <1>14, <1>15 DEF Next

-----------------------------------------------------------------------------
(* The mirrors of the counters.                                            *)

About(m, c) == m.tag = "counter" /\ m.id = c

\* Is a report of the counter in the queue, and is `v` the last reported value?
Reported(q, c) == \E i \in 1 .. Len(q) : About(q[i], c)
LastReport(q, c, v) ==
    \E i \in 1 .. Len(q) :
        About(q[i], c) /\ q[i].value = v /\ \A j \in i + 1 .. Len(q) : ~ About(q[j], c)

\* The mirror of a counter whose message is under way.
Due(c, m) ==
    /\ ~ Reported(inQ, c)
    /\ \/ m.tag = "enable" /\ m.enabled
       \/ /\ m.tag = "enable" /\ ~ m.enabled
          /\ c \notin countersOn /\ countersValue[c] = counters[c]
       \/ /\ m.tag = "value"
          /\ countersValue[c] = m.value /\ (c \in countersOn <=> c \in signals)

\* The mirror of another, or what its last report will make of it.
Followed(c) ==
    /\ Reported(inQ, c) => c \in signals
    /\ ~ Reported(inQ, c) => (c \in countersOn <=> c \in signals)
    /\ \/ c \in edges
       \/ LastReport(inQ, c, counters[c])
       \/ ~ Reported(inQ, c) /\ countersValue[c] = counters[c]

Unasked(q, c) == \A i \in 1 .. Len(q) : q[i].id # c
AllDue(q, c) == \A i \in 1 .. Len(q) : q[i].id = c => Due(c, q[i])

CounterFollows(c) == AllDue(counterQ, c) /\ (Unasked(counterQ, c) => Followed(c))

CounterMirrors == \A c \in Counter \ refused : CounterFollows(c)

LEMMA ReportSent ==
    ASSUME NEW q \in Seq(PduMsg), NEW m \in PduMsg, NEW c
    PROVE  /\ About(m, c) => Reported(Append(q, m), c) /\ LastReport(Append(q, m), c, m.value)
           /\ ~ About(m, c) => /\ Reported(Append(q, m), c) <=> Reported(q, c)
                               /\ \A v : LastReport(q, c, v) => LastReport(Append(q, m), c, v)
<1> DEFINE r == Append(q, m)
<1>1. /\ \A i \in 1 .. Len(r) : (i \in 1 .. Len(q) /\ r[i] = q[i]) \/ (i = Len(q) + 1 /\ r[i] = m)
      /\ \A i \in 1 .. Len(q) : i \in 1 .. Len(r) /\ r[i] = q[i]
      /\ Len(q) + 1 \in 1 .. Len(r) /\ r[Len(q) + 1] = m
  BY Appended
<1>2. Len(r) = Len(q) + 1 /\ Len(q) \in Nat
  OBVIOUS
<1> HIDE DEF r
<1>3. ASSUME About(m, c) PROVE Reported(r, c) /\ LastReport(r, c, m.value)
  <2>1. \A j \in (Len(q) + 1) + 1 .. Len(r) : FALSE
    BY <1>2
  <2> QED
    BY <1>1, <1>3, <2>1 DEF Reported, LastReport
<1>4. ASSUME ~ About(m, c) PROVE Reported(r, c) <=> Reported(q, c)
  BY <1>1, <1>4 DEF Reported
<1>5. ASSUME ~ About(m, c), NEW v, LastReport(q, c, v) PROVE LastReport(r, c, v)
  <2>1. PICK i \in 1 .. Len(q) :
            About(q[i], c) /\ q[i].value = v /\ \A j \in i + 1 .. Len(q) : ~ About(q[j], c)
    BY <1>5 DEF LastReport
  <2>2. \A j \in i + 1 .. Len(r) : j \in 1 .. Len(r) /\ (j \in 1 .. Len(q) => j \in i + 1 .. Len(q))
    BY <1>2
  <2>3. \A j \in i + 1 .. Len(r) : ~ About(r[j], c)
    BY <1>1, <1>5, <2>1, <2>2
  <2> QED
    BY <1>1, <2>1, <2>3 DEF LastReport
<1> QED
  BY <1>3, <1>4, <1>5 DEF r

LEMMA ReportTaken ==
    ASSUME NEW q \in Seq(PduMsg), q # <<>>, NEW c
    PROVE  /\ About(Head(q), c)
              => /\ Reported(q, c)
                 /\ \A v : LastReport(q, c, v)
                           => LastReport(Tail(q), c, v) \/ (~ Reported(Tail(q), c) /\ Head(q).value = v)
           /\ ~ About(Head(q), c)
              => /\ Reported(Tail(q), c) <=> Reported(q, c)
                 /\ \A v : LastReport(q, c, v) => LastReport(Tail(q), c, v)
<1> DEFINE r == Tail(q)
<1>1. /\ \A i \in 1 .. Len(r) : i + 1 \in 2 .. Len(q) /\ r[i] = q[i + 1]
      /\ \A i \in 2 .. Len(q) : i - 1 \in 1 .. Len(r) /\ r[i - 1] = q[i]
      /\ \A i \in 1 .. Len(q) : i = 1 \/ i \in 2 .. Len(q)
      /\ 1 \in 1 .. Len(q) /\ Head(q) = q[1]
  BY Taken
<1>2. Len(q) \in Nat /\ Len(r) \in Nat
  OBVIOUS
<1> HIDE DEF r
<1>3. \A i \in 2 .. Len(q) : i \in 1 .. Len(q)
  BY <1>2
<1>4. ASSUME NEW v, LastReport(q, c, v)
      PROVE  LastReport(r, c, v) \/ (About(q[1], c) /\ ~ Reported(r, c) /\ q[1].value = v)
  <2>1. PICK i \in 1 .. Len(q) :
            About(q[i], c) /\ q[i].value = v /\ \A j \in i + 1 .. Len(q) : ~ About(q[j], c)
    BY <1>4 DEF LastReport
  <2>2. CASE i = 1
    <3>1. \A j \in 2 .. Len(q) : ~ About(q[j], c)
      BY <2>1, <2>2
    <3>2. ~ Reported(r, c)
      BY <1>1, <3>1 DEF Reported
    <3> QED
      BY <2>1, <2>2, <3>2
  <2>3. CASE i \in 2 .. Len(q)
    <3>1. \A j \in (i - 1) + 1 .. Len(r) : j \in 1 .. Len(r) /\ j + 1 \in i + 1 .. Len(q)
      <4>1. \A j \in 1 .. Len(r) : j + 1 \in 2 .. Len(q)
        BY <1>1
      <4> QED
        BY <1>2, <2>3, <4>1
    <3>2. \A j \in (i - 1) + 1 .. Len(r) : ~ About(r[j], c)
      BY <1>1, <2>1, <3>1
    <3> QED
      BY <1>1, <2>1, <2>3, <3>2 DEF LastReport
  <2> QED
    BY <1>1, <2>2, <2>3
<1>5. ASSUME ~ About(q[1], c) PROVE Reported(r, c) <=> Reported(q, c)
  BY <1>1, <1>3, <1>5 DEF Reported
<1>6. About(q[1], c) => Reported(q, c)
  BY <1>1 DEF Reported
<1> QED
  BY <1>1, <1>4, <1>5, <1>6 DEF r

\* The parts of the state the mirror of a counter depends on.
Same(c) ==
    /\ c \in countersOn' <=> c \in countersOn
    /\ countersValue'[c] = countersValue[c]
    /\ c \in signals' <=> c \in signals
    /\ counters'[c] = counters[c]

SameReports(c) ==
    /\ Reported(inQ', c) <=> Reported(inQ, c)
    /\ \A v : LastReport(inQ, c, v) => LastReport(inQ', c, v)

LEMMA DueStays ==
    ASSUME NEW c, NEW m, Due(c, m), Same(c), SameReports(c)
    PROVE  Due(c, m)'
<1>1. Reported(inQ, c)' <=> Reported(inQ, c)
  BY DEF SameReports, Reported
<1> QED
  BY <1>1 DEF Due, Same

LEMMA FollowedStays ==
    ASSUME NEW c, Followed(c), Same(c), SameReports(c), c \in edges => c \in edges'
    PROVE  Followed(c)'
<1>1. Reported(inQ, c)' <=> Reported(inQ, c)
  BY DEF SameReports, Reported
<1>2. LastReport(inQ, c, counters[c]) => LastReport(inQ', c, counters'[c])
  BY DEF SameReports, Same
<1>3. LastReport(inQ', c, counters'[c]) => LastReport(inQ, c, counters[c])'
  BY DEF LastReport
<1> QED
  BY <1>1, <1>2, <1>3 DEF Followed, Same

\* A step that neither sends nor takes a message for the counter.
LEMMA CounterStays ==
    ASSUME NEW c, CounterFollows(c), Same(c), SameReports(c), c \in edges => c \in edges',
           \A i \in 1 .. Len(counterQ') :
               counterQ'[i].id = c
               => \E j \in 1 .. Len(counterQ) : counterQ[j] = counterQ'[i],
           Unasked(counterQ', c) => Unasked(counterQ, c)
    PROVE  CounterFollows(c)'
<1>1. ASSUME NEW i \in 1 .. Len(counterQ'), counterQ'[i].id = c PROVE Due(c, counterQ[i])'
  <2>1. PICK m : m = counterQ'[i]
    OBVIOUS
  <2>2. Due(c, m)
    BY <1>1, <2>1 DEF CounterFollows, AllDue
  <2>3. Due(c, m)'
    BY <2>2, DueStays
  <2> QED
    BY <2>1, <2>3 DEF Due
<1>2. AllDue(counterQ, c)'
  BY <1>1 DEF AllDue
<1>3. Unasked(counterQ, c)' => Unasked(counterQ', c)
  BY DEF Unasked
<1>4. Unasked(counterQ, c)' => Followed(c)'
  BY <1>3, FollowedStays DEF CounterFollows
<1> QED
  BY <1>2, <1>4 DEF CounterFollows

\* A message for another counter.
LEMMA OtherAsked ==
    ASSUME NEW c, CounterFollows(c), Same(c), UNCHANGED <<inQ, edges>>, NEW m \in CounterMsg,
           counterQ \in Seq(CounterMsg), m.id # c,
           counterQ' = counterQ \/ counterQ' = Append(counterQ, m)
    PROVE  CounterFollows(c)'
<1>1. SameReports(c)
  BY DEF SameReports
<1>2. CASE counterQ' = counterQ
  BY <1>1, <1>2, CounterStays DEF Unasked
<1>3. CASE counterQ' = Append(counterQ, m)
  <2> DEFINE r == Append(counterQ, m)
  <2>1. /\ \A i \in 1 .. Len(r) : (i \in 1 .. Len(counterQ) /\ r[i] = counterQ[i])
                                 \/ (i = Len(counterQ) + 1 /\ r[i] = m)
        /\ \A i \in 1 .. Len(counterQ) : i \in 1 .. Len(r) /\ r[i] = counterQ[i]
    BY Appended
  <2> HIDE DEF r
  <2>2. counterQ' = r
    BY <1>3 DEF r
  <2>3. \A i \in 1 .. Len(counterQ') :
            counterQ'[i].id = c => \E j \in 1 .. Len(counterQ) : counterQ[j] = counterQ'[i]
    BY <2>1, <2>2
  <2>4. Unasked(counterQ', c) => Unasked(counterQ, c)
    BY <2>1, <2>2 DEF Unasked
  <2> QED
    BY <1>1, <2>3, <2>4, CounterStays
<1> QED
  BY <1>2, <1>3

\* The first message for a counter.
LEMMA Asked ==
    ASSUME NEW c, NEW m \in CounterMsg, counterQ \in Seq(CounterMsg), Unasked(counterQ, c), m.id = c,
           counterQ' = Append(counterQ, m), Due(c, m)'
    PROVE  CounterFollows(c)'
<1> DEFINE r == Append(counterQ, m)
<1>1. /\ \A i \in 1 .. Len(r) : (i \in 1 .. Len(counterQ) /\ r[i] = counterQ[i])
                               \/ (i = Len(counterQ) + 1 /\ r[i] = m)
      /\ Len(counterQ) + 1 \in 1 .. Len(r) /\ r[Len(counterQ) + 1] = m
  BY Appended
<1> HIDE DEF r
<1>2. counterQ' = r
  BY DEF r
<1>3. \A i \in 1 .. Len(counterQ') : counterQ'[i].id = c => counterQ'[i] = m
  BY <1>1, <1>2 DEF Unasked
<1>4. ASSUME NEW i \in 1 .. Len(counterQ'), counterQ'[i].id = c PROVE Due(c, counterQ[i])'
  <2>1. counterQ'[i] = m
    BY <1>3, <1>4
  <2> QED
    BY <2>1 DEF Due
<1>5. AllDue(counterQ, c)'
  BY <1>4 DEF AllDue
<1>6. ~ Unasked(counterQ, c)'
  BY <1>1, <1>2 DEF Unasked
<1> QED
  BY <1>5, <1>6 DEF CounterFollows

\* The only message for a counter is taken.
LEMMA OneTaken ==
    ASSUME NEW c, counterQ \in Seq(CounterMsg), OneEach(counterQ), counterQ # <<>>,
           Head(counterQ).id = c, counterQ' = Tail(counterQ), Followed(c)'
    PROVE  CounterFollows(c)'
<1>1. \A i \in 1 .. Len(counterQ') : counterQ'[i].id # c
  <2>1. PICK q : q = Tail(counterQ)
    OBVIOUS
  <2>3. \A i \in 1 .. Len(Tail(counterQ)) : Tail(counterQ)[i].id # Head(counterQ).id
    BY OnceTaken
  <2> QED
    BY <2>1, <2>3
<1>2. AllDue(counterQ, c)'
  BY <1>1 DEF AllDue
<1> QED
  BY <1>2 DEF CounterFollows

LEMMA OtherTaken ==
    ASSUME NEW c, CounterFollows(c), Same(c), SameReports(c), c \in edges => c \in edges',
           counterQ \in Seq(CounterMsg), counterQ # <<>>,
           Head(counterQ).id # c, counterQ' = Tail(counterQ)
    PROVE  CounterFollows(c)'
<1> DEFINE r == Tail(counterQ)
<1>1. /\ \A i \in 1 .. Len(r) : i + 1 \in 2 .. Len(counterQ) /\ r[i] = counterQ[i + 1]
      /\ \A i \in 2 .. Len(counterQ) : i - 1 \in 1 .. Len(r) /\ r[i - 1] = counterQ[i]
      /\ \A i \in 1 .. Len(counterQ) : i = 1 \/ i \in 2 .. Len(counterQ)
      /\ 1 \in 1 .. Len(counterQ) /\ Head(counterQ) = counterQ[1]
  BY Taken
<1>2. Len(counterQ) \in Nat
  OBVIOUS
<1> HIDE DEF r
<1>3. counterQ' = r
  BY DEF r
<1>4. \A i \in 2 .. Len(counterQ) : i \in 1 .. Len(counterQ)
  BY <1>2
<1>5. \A i \in 1 .. Len(counterQ') :
          counterQ'[i].id = c => \E j \in 1 .. Len(counterQ) : counterQ[j] = counterQ'[i]
  BY <1>1, <1>3, <1>4
<1>6. ASSUME Unasked(counterQ', c) PROVE Unasked(counterQ, c)
  <2>1. \A j \in 1 .. Len(r) : r[j].id # c
    BY <1>3, <1>6 DEF Unasked
  <2>2. \A i \in 2 .. Len(counterQ) : counterQ[i].id # c
    BY <1>1, <2>1
  <2> QED
    BY <1>1, <2>2 DEF Unasked
<1> QED
  BY <1>5, <1>6, CounterStays

LEMMA WriteCounterFollows ==
    ASSUME SlaveInv, TypesInv, FrameLast, Once, CounterMirrors, WriteCounting \/ WriteCounter,
           UNCHANGED countersVars
    PROVE  CounterMirrors'
<1>1. /\ inQ = <<>> /\ UNCHANGED <<inQ, signals, counters, edges>> /\ edges = {}
      /\ counterQ \in Seq(CounterMsg) /\ Len(counterQ) \in Nat /\ Len(counterQ) <= CounterQueueSize
  <2>1. Writing("coils") \/ Writing("registers")
    BY DEF WriteCounting, WriteCounter, WritingCoil
  <2>2. inQ = <<>> /\ turn \in {"boot", "pduh"} /\ inQ' = inQ
    BY <2>1, Current DEF FrameLast, Writing
  <2>3. edges = {}
    BY <2>2 DEF SlaveInv, RoomInv, TypesInv, DaemonTypes
  <2> QED
    BY <2>2, <2>3 DEF SlaveInv, MessagesInv, QueuesTypeOK, countersVars
<1>2. \A c : ~ Reported(inQ', c) /\ ~ Reported(inQ, c)
  BY <1>1 DEF Reported
<1>3. \A c, v : ~ LastReport(inQ, c, v)
  BY <1>1 DEF LastReport
<1> SUFFICES ASSUME NEW c \in Counter, c \notin refused' PROVE CounterFollows(c)'
  BY DEF CounterMirrors
<1>4. CASE WriteCounting
  <2> DEFINE p == PinOf(job.addr)
             n == [tag |-> "enable", id |-> p, enabled |-> Written]
  <2>1. /\ counterQ' = Push(counterQ, n, CounterQueueSize)
        /\ countersOn' = IF Written THEN countersOn ELSE countersOn \ {p}
        /\ refused' = IF Len(counterQ) = CounterQueueSize THEN refused \cup {p}
                      ELSE IF Written THEN refused \ {p} ELSE refused
        /\ countersValue' = countersValue
        /\ Writing("coils") /\ KindOf(job.addr) = "EC" /\ job.kind = "coils"
    BY <1>4 DEF WriteCounting, WritingCoil, Writing
  <2>2. n \in CounterMsg /\ n.id = p /\ n.tag = "enable" /\ (n.enabled <=> Written)
    BY <2>1, Current, PinOfCoil DEF CounterMsg, Counter
  <2>3. counterQ' = counterQ \/ counterQ' = Append(counterQ, n)
    BY <2>1 DEF Push
  <2>4. Quiet \/ PendingBelow(counterQ, p)
    BY <2>1 DEF Once, CoilsOnce
  <2>5. PICK m, d : m = n /\ d = p
    OBVIOUS
  <2> HIDE DEF n, p
  <2>6. CASE c # d
    <3>1. c \notin refused /\ (c \in countersOn' <=> c \in countersOn)
      BY <2>1, <2>5, <2>6
    <3>2. CounterFollows(c) /\ Same(c)
      BY <1>1, <2>1, <3>1 DEF CounterMirrors, Same
    <3> QED
      BY <1>1, <2>2, <2>3, <2>5, <2>6, <3>2, OtherAsked
  <2>7. CASE c = d
    <3>1. Len(counterQ) # CounterQueueSize
      BY <2>1, <2>5, <2>7
    <3>2. counterQ' = Append(counterQ, m)
      BY <1>1, <2>1, <2>5, <3>1, Sizes DEF Push
    <3>3. Unasked(counterQ, c)
      <4>1. PendingBelow(counterQ, c) \/ counterQ = <<>>
        BY <2>4, <2>5, <2>7, <3>1 DEF Quiet
      <4>2. c \in Nat /\ ~ (c < c)
        BY Sizes DEF Counter, Pin
      <4> QED
        BY <4>1, <4>2 DEF PendingBelow, Unasked
    <3>4. Due(c, m)'
      <4>1. CASE Written
        BY <1>2, <2>2, <2>5, <4>1 DEF Due, Reported
      <4>2. CASE ~ Written
        <5>1. c \notin refused
          BY <2>1, <3>1, <4>2
        <5>2. Followed(c)
          BY <3>3, <5>1 DEF CounterMirrors, CounterFollows
        <5>3. countersValue[c] = counters[c]
          BY <1>1, <1>3, <5>2 DEF Followed
        <5>4. c \notin countersOn'
          BY <2>1, <2>5, <2>7, <4>2
        <5>5. countersValue'[c] = counters'[c]
          BY <1>1, <2>1, <5>3
        <5>6. m.tag = "enable" /\ ~ m.enabled
          BY <2>2, <2>5, <4>2
        <5> QED
          BY <1>2, <5>4, <5>5, <5>6 DEF Due, Reported
      <4> QED
        BY <4>1, <4>2
    <3> QED
      BY <1>1, <2>2, <2>5, <2>7, <3>2, <3>3, <3>4, Asked
  <2> QED
    BY <2>6, <2>7
<1>5. CASE WriteCounter
  <2> DEFINE p == job.addr - FirstCounter
             w == Written % WordMod
             n == [tag |-> "value", id |-> p, value |-> w]
  <2>1. /\ counterQ' = Push(counterQ, n, CounterQueueSize)
        /\ countersValue' = [countersValue EXCEPT ![p] = w]
        /\ refused' = IF Len(counterQ) = CounterQueueSize THEN refused \cup {p} ELSE refused
        /\ countersOn' = countersOn
        /\ Writing("registers") /\ job.kind = "registers"
        /\ job.addr \in FirstCounter .. UserBegin - 1
    BY <1>5 DEF WriteCounter, Writing
  <2>2. n \in CounterMsg /\ n.id = p /\ n.tag = "value" /\ n.value = w
    <3>1. p \in Counter
      BY <2>1, Limits, Sizes DEF Counter, Pin
    <3>2. w \in Word
      BY <2>1, Current, Sizes, Remainder DEF Word
    <3> QED
      BY <3>1, <3>2 DEF CounterMsg
  <2>3. counterQ' = counterQ \/ counterQ' = Append(counterQ, n)
    BY <2>1 DEF Push
  <2>4. Quiet \/ PendingBelow(counterQ, p)
    <3>1. ~ (job.addr >= UserBegin) /\ ~ (job.addr < TimerA)
      BY <2>1, Limits, Sizes DEF FirstCounter, TimerA
    <3> QED
      BY <2>1, <3>1 DEF Once, RegistersOnce
  <2>5. PICK m, d, v : m = n /\ d = p /\ v = w
    OBVIOUS
  <2>6. countersValue \in [Counter -> Word]
    BY DEF TypesInv, PinTypes
  <2> HIDE DEF n, p, w
  <2>7. CASE c # d
    <3>1. c \notin refused /\ countersValue'[c] = countersValue[c]
      BY <2>1, <2>5, <2>6, <2>7
    <3>2. CounterFollows(c) /\ Same(c)
      BY <1>1, <2>1, <3>1 DEF CounterMirrors, Same
    <3> QED
      BY <1>1, <2>2, <2>3, <2>5, <2>7, <3>2, OtherAsked
  <2>8. CASE c = d
    <3>1. Len(counterQ) # CounterQueueSize /\ c \notin refused
      BY <2>1, <2>5, <2>8
    <3>2. counterQ' = Append(counterQ, m)
      BY <1>1, <2>1, <2>5, <3>1, Sizes DEF Push
    <3>3. Unasked(counterQ, c)
      <4>1. PendingBelow(counterQ, c) \/ counterQ = <<>>
        BY <2>4, <2>5, <2>8, <3>1 DEF Quiet
      <4>2. c \in Nat /\ ~ (c < c)
        BY Sizes DEF Counter, Pin
      <4> QED
        BY <4>1, <4>2 DEF PendingBelow, Unasked
    <3>4. Followed(c)
      BY <3>1, <3>3 DEF CounterMirrors, CounterFollows
    <3>5. c \in countersOn' <=> c \in signals'
      BY <1>1, <1>2, <2>1, <3>4 DEF Followed
    <3>6. countersValue'[c] = m.value /\ m.tag = "value"
      BY <2>1, <2>2, <2>5, <2>6, <2>8
    <3>7. Due(c, m)'
      BY <1>2, <3>5, <3>6 DEF Due, Reported
    <3> QED
      BY <1>1, <2>2, <2>5, <2>8, <3>2, <3>3, <3>7, Asked
  <2> QED
    BY <2>7, <2>8
<1> QED
  BY <1>4, <1>5

LEMMA CountFollows ==
    ASSUME SlaveInv, TypesInv, CounterMirrors, TakeCount, UNCHANGED countersVars
    PROVE  CounterMirrors'
<1> DEFINE n == Head(inQ)
<1>1. /\ inQ \in Seq(PduMsg) /\ inQ # <<>> /\ inQ' = Tail(inQ) /\ n.tag = "counter"
      /\ countersOn' = countersOn \cup {n.id}
      /\ countersValue' = [countersValue EXCEPT ![n.id] = n.value]
      /\ UNCHANGED <<counterQ, refused, signals, counters, edges>>
      /\ turn = "pduh"
  BY DEF TakeCount, PduTurn, SlaveInv, MessagesInv, QueuesTypeOK, countersVars, history
<1>2. edges = {}
  BY <1>1 DEF SlaveInv, RoomInv, TypesInv, DaemonTypes
<1>3. countersValue \in [Counter -> Word]
  BY DEF TypesInv, PinTypes
<1>4. PICK h, w : h = n.id /\ w = n.value
  OBVIOUS
<1>5. \A c : About(n, c) <=> c = h
  BY <1>1, <1>4 DEF About
<1>6. ASSUME NEW c
      PROVE  /\ c = h => /\ Reported(inQ, c)
                         /\ \A v : LastReport(inQ, c, v)
                                   => LastReport(inQ', c, v) \/ (~ Reported(inQ', c) /\ w = v)
             /\ c # h => SameReports(c)
  <2>1. /\ About(n, c)
              => /\ Reported(inQ, c)
                 /\ \A v : LastReport(inQ, c, v)
                           => LastReport(Tail(inQ), c, v) \/ (~ Reported(Tail(inQ), c) /\ n.value = v)
        /\ ~ About(n, c)
              => /\ Reported(Tail(inQ), c) <=> Reported(inQ, c)
                 /\ \A v : LastReport(inQ, c, v) => LastReport(Tail(inQ), c, v)
    BY <1>1, ReportTaken
  <2> HIDE DEF n
  <2> QED
    BY <1>1, <1>4, <1>5, <2>1 DEF SameReports
<1> HIDE DEF n
<1> SUFFICES ASSUME NEW c \in Counter, c \notin refused PROVE CounterFollows(c)'
  BY <1>1 DEF CounterMirrors
<1>7. CounterFollows(c)
  BY DEF CounterMirrors
<1>8. CASE c # h
  <2>1. Same(c) /\ SameReports(c)
    BY <1>1, <1>3, <1>4, <1>6, <1>8 DEF Same
  <2> QED
    BY <1>1, <1>7, <2>1, CounterStays DEF Unasked
<1>9. CASE c = h
  <2>1. Reported(inQ, c)
    BY <1>6, <1>9
  <2>2. Unasked(counterQ, c)
    <3>1. \A m : ~ Due(c, m)
      BY <2>1 DEF Due
    <3> QED
      BY <1>7, <3>1 DEF CounterFollows, AllDue, Unasked
  <2>3. Followed(c)
    BY <1>7, <2>2 DEF CounterFollows
  <2>4. c \in signals /\ LastReport(inQ, c, counters[c])
    BY <1>2, <2>1, <2>3 DEF Followed
  <2>5. c \in signals' /\ c \in countersOn' /\ countersValue'[c] = w /\ counters'[c] = counters[c]
    BY <1>1, <1>3, <1>4, <1>9, <2>4
  <2>6. LastReport(inQ', c, counters'[c]) \/ (~ Reported(inQ', c) /\ w = counters'[c])
    BY <1>6, <1>9, <2>4, <2>5
  <2>7. Reported(inQ, c)' <=> Reported(inQ', c)
    BY DEF Reported
  <2>8. LastReport(inQ, c, counters[c])' <=> LastReport(inQ', c, counters'[c])
    BY DEF LastReport
  <2>9. Followed(c)'
    BY <2>5, <2>6, <2>7, <2>8 DEF Followed
  <2>10. AllDue(counterQ, c)'
    BY <1>1, <2>2 DEF Unasked, AllDue
  <2> QED
    BY <2>9, <2>10 DEF CounterFollows
<1> QED
  BY <1>8, <1>9

LEMMA CountersFollow ==
    ASSUME SlaveInv, SlaveInv', TypesInv, Once, CounterMirrors, CountersStep, UNCHANGED pduVars
    PROVE  CounterMirrors'
<1>1. /\ counterQ \in Seq(CounterMsg) /\ inQ \in Seq(PduMsg) /\ OneEach(counterQ)
      /\ UNCHANGED <<countersOn, countersValue, refused>>
      /\ counters \in [Counter -> Word] /\ edges \subseteq signals
      /\ countersPc # "edges" => edges = {}
      /\ turn = "counters"
  BY DEF SlaveInv, MessagesInv, QueuesTypeOK, Once, pduVars, mirrors, history, TypesInv, DaemonTypes,
         CountersStep, CountersWait, CountersWake, Elapse, HeadIs, CountersTurn, DisableCounter,
         EnableCounter, SetCounter, MessagesDone, Sample, ReportEdge, EdgesDone
<1>2. turn' = "counters" \/ CountersWait
  BY CountersStay
<1>3. \A c \in Counter : Report(c) \in PduMsg
  BY <1>1 DEF Report, PduMsg
<1> SUFFICES ASSUME NEW c \in Counter, c \notin refused PROVE CounterFollows(c)'
  BY <1>1 DEF CounterMirrors
<1>4. CounterFollows(c)
  BY DEF CounterMirrors
<1>5. ASSUME UNCHANGED inQ PROVE SameReports(c)
  BY <1>5 DEF SameReports
<1>6. ASSUME NEW e \in Counter, inQ' = Append(inQ, Report(e))
      PROVE  /\ c = e => Reported(inQ', c) /\ LastReport(inQ', c, counters[c])
             /\ c # e => SameReports(c)
  <2>1. PICK m \in PduMsg : m = Report(e)
    BY <1>3
  <2>2. (About(m, c) <=> c = e) /\ (c = e => m.value = counters[c])
    BY <2>1 DEF About, Report
  <2> QED
    BY <1>1, <1>6, <2>1, <2>2, ReportSent DEF SameReports
<1>7. CASE CountersWait \/ CountersWake \/ Elapse \/ MessagesDone \/ EdgesDone
  <2>1. UNCHANGED <<inQ, counterQ, signals, counters, edges>>
    BY <1>7 DEF CountersWait, CountersWake, Elapse, MessagesDone, EdgesDone
  <2>2. Same(c)
    BY <1>1, <2>1 DEF Same
  <2> QED
    BY <1>4, <1>5, <2>1, <2>2, CounterStays DEF Unasked
<1>8. CASE DisableCounter \/ EnableCounter \/ SetCounter
  <2>1. counterQ # <<>> /\ counterQ' = Tail(counterQ) /\ countersPc = "message"
    BY <1>8 DEF DisableCounter, EnableCounter, SetCounter, HeadIs, CountersTurn
  <2>2. edges = {}
    BY <1>1, <2>1
  <2>3. PICK m \in CounterMsg : m = Head(counterQ) /\ m.id \in Counter
    <3>1. Head(counterQ) \in CounterMsg
      BY <1>1, <2>1, TakeHead
    <3>2. Head(counterQ).id \in Counter
      BY <3>1 DEF CounterMsg
    <3> QED
      BY <3>1, <3>2
  <2>4. m.id = c => Due(c, m)
    <3>1. 1 \in 1 .. Len(counterQ) /\ counterQ[1] = m
      BY <1>1, <2>1, <2>3
    <3> QED
      BY <1>4, <3>1 DEF CounterFollows, AllDue
  <2>5. CASE m.id # c
    <3>1. Same(c)
      BY <1>1, <1>8, <2>3, <2>5 DEF Same, DisableCounter, EnableCounter, SetCounter
    <3>2. SameReports(c)
      <4>1. inQ' = inQ \/ inQ' = Append(inQ, Report(m.id))
        BY <1>8, <2>3 DEF DisableCounter, EnableCounter, SetCounter
      <4> QED
        BY <1>5, <1>6, <2>3, <2>5, <4>1
    <3> QED
      BY <1>1, <1>4, <2>1, <2>2, <2>3, <2>5, <3>1, <3>2, OtherTaken
  <2>6. CASE m.id = c
    <3>1. ~ Reported(inQ, c)
      BY <2>4, <2>6 DEF Due
    <3>2. CASE DisableCounter
      <4>1. /\ m.tag = "enable" /\ ~ m.enabled /\ UNCHANGED <<inQ, counters>>
            /\ signals' = signals \ {c}
        BY <2>3, <2>6, <3>2 DEF DisableCounter, HeadIs
      <4>2. c \notin countersOn /\ countersValue[c] = counters[c]
        BY <2>4, <2>6, <4>1 DEF Due
      <4>3. Followed(c)'
        BY <1>1, <3>1, <4>1, <4>2 DEF Followed, Reported
      <4> QED
        BY <1>1, <2>1, <2>3, <2>6, <4>3, OneTaken
    <3>3. CASE EnableCounter
      <4>1. signals' = signals \cup {c} /\ UNCHANGED counters /\ inQ' = Append(inQ, Report(c))
        <5>1. turn' = "counters"
          BY <1>1, <1>2, <2>1 DEF CountersWait
        <5> QED
          BY <2>3, <2>6, <3>3, <5>1 DEF EnableCounter, GiveWay
      <4>2. Reported(inQ', c) /\ LastReport(inQ', c, counters[c])
        BY <1>6, <4>1
      <4>3. LastReport(inQ, c, counters[c])' <=> LastReport(inQ', c, counters'[c])
        BY DEF LastReport
      <4>4. Reported(inQ, c)' <=> Reported(inQ', c)
        BY DEF Reported
      <4>5. Followed(c)'
        BY <4>1, <4>2, <4>3, <4>4 DEF Followed
      <4> QED
        BY <1>1, <2>1, <2>3, <2>6, <4>5, OneTaken
    <3>4. CASE SetCounter
      <4>1. m.tag = "value" /\ counters' = [counters EXCEPT ![c] = m.value] /\ UNCHANGED <<inQ, signals>>
        BY <2>3, <2>6, <3>4 DEF SetCounter, HeadIs
      <4>2. countersValue[c] = m.value /\ (c \in countersOn <=> c \in signals)
        BY <2>4, <2>6, <4>1 DEF Due
      <4>3. counters'[c] = m.value
        BY <1>1, <4>1
      <4>4. Followed(c)'
        BY <1>1, <3>1, <4>1, <4>2, <4>3 DEF Followed, Reported
      <4> QED
        BY <1>1, <2>1, <2>3, <2>6, <4>4, OneTaken
    <3> QED
      BY <1>8, <3>2, <3>3, <3>4
  <2> QED
    BY <2>5, <2>6
<1>9. ASSUME NEW fallen \in SUBSET signals, Sample(fallen) PROVE CounterFollows(c)'
  <2>1. /\ counterQ = <<>> /\ countersPc = "message" /\ edges' = fallen
        /\ UNCHANGED <<inQ, counterQ, signals>>
        /\ c \notin fallen => counters'[c] = counters[c]
    BY <1>9 DEF Sample, CountersTurn
  <2>2. edges = {}
    BY <1>1, <2>1
  <2>3. CASE c \notin fallen
    <3>1. Same(c)
      BY <1>1, <2>1, <2>3 DEF Same
    <3> QED
      BY <1>4, <1>5, <2>1, <2>2, <3>1, CounterStays DEF Unasked
  <2>4. CASE c \in fallen
    <3>1. Unasked(counterQ, c) /\ AllDue(counterQ, c)'
      BY <2>1 DEF Unasked, AllDue
    <3>2. Followed(c)
      BY <1>4, <3>1 DEF CounterFollows
    <3>3. Followed(c)'
      BY <1>1, <2>1, <2>4, <3>2 DEF Followed, Reported
    <3> QED
      BY <3>1, <3>3 DEF CounterFollows
  <2> QED
    BY <2>3, <2>4
<1>10. CASE ReportEdge
  <2> DEFINE e == CHOOSE i \in edges : \A j \in edges : i <= j
  <2>1. /\ edges # {} /\ countersPc = "edges" /\ UNCHANGED <<counterQ, signals, counters>>
    BY <1>10 DEF ReportEdge, CountersTurn
  <2>2. e \in edges
    <3>1. edges \in SUBSET Nat
      BY DEF SlaveInv, MessagesInv, Counter, Pin
    <3> QED
      BY <2>1, <3>1, LeastEdge
  <2>3. inQ' = Append(inQ, Report(e)) /\ edges' = edges \ {e}
    <3>1. turn' = "counters"
      BY <1>2, <2>1 DEF CountersWait
    <3> QED
      BY <1>10, <3>1 DEF ReportEdge, GiveWay
  <2>4. PICK k : k = e
    OBVIOUS
  <2> HIDE DEF e
  <2>5. k \in edges /\ k \in Counter /\ inQ' = Append(inQ, Report(k)) /\ edges' = edges \ {k}
    BY <2>2, <2>3, <2>4 DEF SlaveInv, MessagesInv
  <2>6. CASE c # k
    <3>1. Same(c) /\ SameReports(c)
      BY <1>1, <1>6, <2>1, <2>5, <2>6 DEF Same
    <3> QED
      BY <1>4, <2>1, <2>5, <2>6, <3>1, CounterStays DEF Unasked
  <2>7. CASE c = k
    <3>1. Unasked(counterQ, c) /\ AllDue(counterQ, c)'
      <4>1. counterQ = <<>>
        BY <1>1, <2>1 DEF SlaveInv, RoomInv, CountersRoom
      <4> QED
        BY <2>1, <4>1 DEF Unasked, AllDue
    <3>2. Reported(inQ', c) /\ LastReport(inQ', c, counters[c])
      BY <1>6, <2>5, <2>7
    <3>3. LastReport(inQ, c, counters[c])' <=> LastReport(inQ', c, counters'[c])
      BY DEF LastReport
    <3>4. Reported(inQ, c)' <=> Reported(inQ', c)
      BY DEF Reported
    <3>5. c \in signals'
      BY <1>1, <2>1, <2>5, <2>7
    <3>6. Followed(c)'
      BY <2>1, <3>2, <3>3, <3>4, <3>5 DEF Followed
    <3> QED
      BY <3>1, <3>6 DEF CounterFollows
  <2> QED
    BY <2>6, <2>7
<1> QED
  BY <1>7, <1>8, <1>9, <1>10 DEF CountersStep

\* The mirrors of the counters stay right in every step.
LEMMA CounterMirrorsStep ==
    ASSUME SlaveInv, SlaveInv', TypesInv, FrameLast, Once, CounterMirrors, [Next]_vars
    PROVE  CounterMirrors'
<1>1. inQ \in Seq(PduMsg) /\ (turn # "counters" => edges = {})
  BY DEF SlaveInv, MessagesInv, QueuesTypeOK, RoomInv, TypesInv, DaemonTypes
<1>2. ASSUME UNCHANGED <<counterQ, countersOn, countersValue, refused, signals, counters, edges>>,
             \A c \in Counter : SameReports(c)
      PROVE  CounterMirrors'
  <2> SUFFICES ASSUME NEW c \in Counter, c \notin refused PROVE CounterFollows(c)'
    BY <1>2 DEF CounterMirrors
  <2>1. CounterFollows(c) /\ Same(c)
    BY <1>2 DEF CounterMirrors, Same
  <2> QED
    BY <1>2, <2>1, CounterStays DEF Unasked
<1>3. ASSUME UNCHANGED <<counterQ, countersOn, countersValue, refused, countersVars>>, UNCHANGED inQ
      PROVE  CounterMirrors'
  BY <1>2, <1>3 DEF SameReports, countersVars
<1>4. ASSUME NEW m \in PduMsg, inQ' = Append(inQ, m), m.tag # "counter"
      PROVE  \A c \in Counter : SameReports(c)
  BY <1>1, <1>4, ReportSent DEF SameReports, About
<1>5. CASE PduStep /\ UNCHANGED countersVars
  <2>1. CASE WriteCounting \/ WriteCounter
    BY <1>5, <2>1, WriteCounterFollows
  <2>2. CASE TakeCount
    BY <1>5, <2>2, CountFollows
  <2>3. CASE TakeReading \/ TakeIndication
    <3>1. /\ inQ # <<>> /\ Head(inQ).tag # "counter" /\ inQ' = Tail(inQ)
          /\ UNCHANGED <<counterQ, countersOn, countersValue, refused>>
      BY <2>3 DEF TakeReading, TakeIndication, PduTurn, mirrors, history
    <3>2. \A c \in Counter : SameReports(c)
      BY <1>1, <3>1, ReportTaken DEF SameReports, About
    <3> QED
      BY <1>2, <1>5, <3>1, <3>2 DEF countersVars
  <2>4. CASE UNCHANGED <<inQ, counterQ, countersOn, countersValue, refused>>
    BY <1>3, <1>5, <2>4
  <2> QED
    BY <1>5, <2>1, <2>2, <2>3, <2>4
    DEF PduStep, PduWait, JobDone, WriteDirection, WriteMode, WritePullUp, WriteOutput,
        UnwritableCoil, SetRunning, SaveConfig, LoadConfig, WriteTimer, WriteUserData, WriteReading,
        WritingCoil, Writing, pduVars, mirrors, history
<1>6. CASE AdcStep /\ UNCHANGED <<pduVars, countersVars>>
  <2>1. UNCHANGED <<counterQ, countersOn, countersValue, refused>>
    BY <1>6
    DEF AdcStep, TakeAdcMessage, NoAdcMessage, NothingRead, ReadChannel, pduVars, mirrors, history
  <2>2. inQ' = inQ \/ (active \in channels /\ inQ' = Append(inQ, Reading(active)))
    BY <1>6 DEF AdcStep, TakeAdcMessage, NoAdcMessage, NothingRead, ReadChannel, Reading
  <2>3. active \in channels => Reading(active) \in PduMsg /\ Reading(active).tag # "counter"
    BY DEF PduMsg, Reading, SlaveInv, MessagesInv
  <2> QED
    BY <1>2, <1>3, <1>4, <1>6, <2>1, <2>2, <2>3 DEF countersVars
<1>7. CASE CountersStep /\ UNCHANGED pduVars
  BY <1>7, CountersFollow
<1>8. CASE BootLoad \/ NoFrame \/ Conversion \/ UNCHANGED vars
  <2>1. UNCHANGED <<inQ, counterQ, countersOn, countersValue, refused, countersVars>>
    BY <1>8
    DEF BootLoad, NoFrame, Conversion, ConversionEnds, vars, pduVars, countersVars, mirrors, history
  <2> QED
    BY <1>3, <2>1
<1>9. ASSUME NEW r \in Requests, Ask(r) PROVE CounterMirrors'
  <2> DEFINE m == [tag |-> "buffer"]
  <2>1. /\ UNCHANGED <<counterQ, countersOn, countersValue, refused, countersVars>>
        /\ inQ' = inQ \/ inQ' = Append(inQ, m)
    BY <1>9 DEF Ask, Push, mirrors, history
  <2>2. m \in PduMsg /\ m.tag # "counter"
    BY DEF PduMsg
  <2> HIDE DEF m
  <2> QED
    BY <1>2, <1>3, <1>4, <2>1, <2>2 DEF countersVars
<1>10. CASE PowerFails \/ \E n \in 0 .. 14 : PowerFailsInSave(n)
  <2>1. /\ inQ' = <<>> /\ counterQ' = <<>> /\ countersOn' = {} /\ signals' = {}
        /\ countersValue' = [c \in Counter |-> 0] /\ counters' = [c \in Counter |-> 0]
    BY <1>10 DEF PowerFails, PowerFailsInSave, Reset
  <2> SUFFICES ASSUME NEW c \in Counter PROVE CounterFollows(c)'
    BY DEF CounterMirrors
  <2>2. AllDue(counterQ, c)' /\ ~ Reported(inQ, c)'
    BY <2>1 DEF AllDue, Reported
  <2>3. countersValue'[c] = counters'[c]
    BY <2>1
  <2> QED
    BY <2>1, <2>2, <2>3 DEF CounterFollows, Followed
<1>11. CASE MainLoop
  BY <1>5, <1>6, <1>7, <1>8, <1>11 DEF MainLoop
<1> QED
  BY <1>8, <1>9, <1>10, <1>11 DEF Next

-----------------------------------------------------------------------------
(* All of it together.                                                     *)

MirrorInv == TypesInv /\ LoadInv /\ ChannelMirrors /\ Once /\ CounterMirrors

LEMMA MirrorsInit == Init => MirrorInv
<1> SUFFICES ASSUME Init PROVE MirrorInv
  OBVIOUS
<1> USE DEF Init, QueuesInit, AdcInit, CountersInit, NoJob
<1>1. TypesInv
  BY TypesInit
<1>2. LoadInv
  BY DEF LoadInv
<1>4. ChannelMirrors
  BY DEF ChannelMirrors, ChannelFollows, Orderly, Going, Seen, Read
<1>5. Once
  <2>1. OneEach(counterQ)
    BY DEF OneEach
  <2> QED
    BY <2>1 DEF Once
<1>6. CounterMirrors
  <2> SUFFICES ASSUME NEW c \in Counter PROVE CounterFollows(c)
    BY DEF CounterMirrors
  <2>1. AllDue(counterQ, c) /\ ~ Reported(inQ, c)
    BY DEF AllDue, Reported
  <2>2. countersValue[c] = counters[c]
    OBVIOUS
  <2> QED
    BY <2>1, <2>2 DEF CounterFollows, Followed
<1> QED
  BY <1>1, <1>2, <1>4, <1>5, <1>6 DEF MirrorInv

LEMMA MirrorsStep == MirrorInv /\ [Next]_vars => MirrorInv'
<1> SUFFICES ASSUME MirrorInv, [Next]_vars PROVE MirrorInv'
  OBVIOUS
<1>1. TypesInv /\ LoadInv /\ ChannelMirrors /\ Once /\ CounterMirrors
  BY DEF MirrorInv
<1>2. TypesInv'
  BY <1>1, TypesStep
<1>3. SlaveInv /\ SlaveInv' /\ RomTypes /\ FrameLast /\ FrameLast'
  BY <1>1, <1>2 DEF TypesInv
<1>4. LoadInv'
  BY <1>1, LoadInvStep
<1>6. ChannelMirrors'
  BY <1>1, <1>3, ChannelMirrorsStep
<1>7. Once'
  BY <1>1, <1>3, OnceStep
<1>8. CounterMirrors'
  BY <1>1, <1>3, CounterMirrorsStep
<1> QED
  BY <1>2, <1>4, <1>6, <1>7, <1>8 DEF MirrorInv

LEMMA MirrorsAre == MirrorInv => MirrorsFollow
<1> SUFFICES ASSUME MirrorInv PROVE MirrorsFollow
  OBVIOUS
<1>1. /\ TypesInv /\ ChannelMirrors /\ CounterMirrors /\ SlaveInv
      /\ adcOn \subseteq Channel /\ (countersPc # "edges" => edges = {})
  BY DEF MirrorInv, TypesInv, PinTypes, DaemonTypes
<1>2. ASSUME ChannelsSettled PROVE adcOn \ behind \subseteq channels
  <2> SUFFICES ASSUME NEW c \in adcOn, c \notin behind PROVE c \in channels
    OBVIOUS
  <2>1. ChannelFollows(c)
    BY <1>1 DEF ChannelMirrors
  <2>2. ~ Coming(adcQ, c) /\ ~ Going(adcQ, c)
    BY <1>2 DEF ChannelsSettled, Coming, Going
  <2> QED
    BY <2>1, <2>2 DEF ChannelFollows, Seen
<1>3. ASSUME CountersSettled, NEW c \in Counter, c \notin refused
      PROVE  (c \in countersOn <=> c \in signals) /\ countersValue[c] = counters[c]
  <2>1. CounterFollows(c)
    BY <1>1, <1>3 DEF CounterMirrors
  <2>2. Unasked(counterQ, c) /\ edges = {}
    BY <1>1, <1>3 DEF CountersSettled, Unasked
  <2>3. Followed(c)
    BY <2>1, <2>2 DEF CounterFollows
  <2>4. \A i \in 1 .. Len(inQ) : ~ About(inQ[i], c)
    <3>1. inQ \in Seq(PduMsg)
      BY <1>1 DEF SlaveInv, MessagesInv, QueuesTypeOK
    <3> QED
      BY <1>3, <3>1 DEF CountersSettled, About
  <2>5. ~ Reported(inQ, c) /\ ~ LastReport(inQ, c, counters[c])
    BY <2>4 DEF Reported, LastReport
  <2> QED
    BY <2>2, <2>3, <2>5 DEF Followed
<1> QED
  BY <1>2, <1>3 DEF MirrorsFollow

\* With no message on the way the mirrors of the PDU handler (adc_state and
\* counters_state, pdu_handler_daemon.hpp) show what the daemons of channels
\* and counters do, though a reading or a count sent before a write is taken
\* after it: the ADC daemon takes the message that turns a channel off before it
\* reads the next channel, and a counter has one message at most in the queue of
\* its daemon and, while it has, no report on its way to the mirrors.
THEOREM MirrorsAgree == Spec => []MirrorsFollow
<1>1. Spec => []MirrorInv
  BY MirrorsInit, MirrorsStep, PTL DEF Spec
<1> QED
  BY <1>1, MirrorsAre, PTL
=============================================================================
