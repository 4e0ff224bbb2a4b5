--------------------------- MODULE RtuLinkProofs ---------------------------
(***************************************************************************)
(* Safety of the transmission daemon on a line with a master, for queues,  *)
(* buffers, requests, delays and latencies of every size within the        *)
(* margins of MarginsAssumption: what run "rtu_link" checks, its liveness  *)
(* apart.                                                                  *)
(*                                                                         *)
(* The invariant is a disjunction: Starting, Resting, Receiving, Ended,    *)
(* Handed, Executed, Emitting and Overlapping are the stages of the        *)
(* daemon's work on one request, each with what the queues, the timer and  *)
(* the master hold in it and with the time that is left.  One lemma per    *)
(* stage says where its steps lead.                                        *)
(***************************************************************************)
EXTENDS RtuLink, SequenceTheorems, FiniteSetTheorems, TLAPS

\* Ticks that may pass before the main loop comes round, ...
Left == MaxLate - late

\* ... and before the daemon has served what is in its queue.
Latency == IF turn = "tr" THEN Left ELSE Left + MaxLate

\* From setting a timer until its message is served.
Round == InterFrame + 2 * MaxLate

\* Until the slave is at rest, from the end of a frame and from its last
\* character.
EndTime == Latency + Turnaround + 2 * MaxLate
FrameTime == Latency + Round + Turnaround + 2 * MaxLate

Full == Reply(Sent(request, 0))

Timer(w) == <<[id |-> FALSE, when |-> w]>>

Begun == \A i \in 0 .. bufferI - 1 : buffer[i] = Sent(request, i)

SlaveShape ==
    /\ q \in Seq(Message) /\ Len(q) <= QueueSize
    /\ outQ \in Seq(Index) /\ Len(outQ) <= QueueSize
    /\ inputMsg \in Char \cup {NoChar} /\ bufferMsg \in Index
    /\ buffer \in [Index -> Char \cup {NoChar}] /\ bufferI \in Index
    /\ turn \in {"tr", "pduh"}

LineShape ==
    /\ rx \in BOOLEAN /\ late \in 0 .. MaxLate
    /\ request \in Request /\ sent \in 1 .. request.length
    /\ silence \in 0 .. Quiet /\ noise \in 0 .. MaxNoise /\ reply \in Seq(Char)
    /\ phase \in {"idle", "sending", "waiting"}
    /\ (phase = "sending" <=> sent < request.length)
    /\ (phase = "sending" => silence <= MaxGap)
    /\ (phase = "waiting" => request.mine)

Shape == SlaveShape /\ LineShape

Tables ==
    /\ tx \in Seq(Char) /\ Len(tx) <= TxSize
    /\ alarms \in Seq(Alarm) /\ alarmCount = Len(alarms) /\ Len(alarms) <= MaxAlarms

Silent == reply = <<>> /\ tx = <<>>

\* The frame is on the line, ...
Out == phase = (IF request.mine THEN "waiting" ELSE "idle")

Within(n) == phase = "idle" => silence + n < Quiet

-----------------------------------------------------------------------------
Ordered(a) == \A i, j \in 1 .. Len(a) : i < j => a[i].when <= a[j].when

LastDue == alarms[Len(alarms)].when

\* What is left of the conversation at power-up is over, at least for the slave.
Hushed == noise = 0 \/ silence > MaxGap

\* No alarm goes off before it is.
Patient(w) == w + MaxGap * (MaxNoise - noise) + silence >= InterFrame

Setting == pc \in {"initial", "initial_cancel", "initial_restart"}

\* Timeouts the slave has yet to see before it is at rest: there is one alarm
\* more with every character of the noise.
Extra == IF pc \in {"initial", "initial_cancel", "ready"} THEN 1
         ELSE IF pc = "initial_restart" THEN 2 ELSE 0
Steps == Len(alarms) + Len(q) + Extra - 1

NextTime(c) == IF c > 0 \/ Setting THEN Latency + Round
               ELSE IF alarms = <<>> THEN Latency ELSE LastDue + 2 * MaxLate

\* c characters of noise wait to be served, and the timeouts behind them.
Noisy(c) ==
    /\ \A i \in 1 .. c : \E x \in Noise : q[i] = Input(x)
    /\ \A i \in c + 1 .. Len(q) : q[i] = Timeout
    /\ (c < Len(q) \/ pc = "ready") => Hushed
    /\ pc = "ready" => c = 0 /\ Len(alarms) + Len(q) > 0
    /\ pc = "initial_wait" => Len(alarms) + Len(q) > c
    /\ silence + NextTime(c) + Round * Steps < Quiet
    /\ (pc = "initial_cancel" \/ (pc = "initial_wait" /\ c > 0)) => alarms # <<>> /\ LastDue >= Latency
    /\ pc = "initial_wait" /\ c = 0 /\ ~Hushed => alarms # <<>> /\ LastDue + silence >= InterFrame

\* Nothing has been asked of the slave.
Unasked ==
    ~request.mine /\ phase = "idle" /\ reply = <<>> /\ tx = <<>> /\ outQ = <<>> /\ bufferI = 0

\* INITIAL, or READY with timeouts of INITIAL still to come.
Starting ==
    /\ Setting \/ pc \in {"initial_wait", "ready"}
    /\ Setting => turn = "tr"
    /\ Unasked
    /\ Ordered(alarms)
    /\ Steps \in 0 .. MaxNoise - noise
    /\ \E c \in 0 .. Len(q) : Noisy(c)
    /\ ~Hushed => \A i \in 1 .. Len(alarms) : Patient(alarms[i].when)

\* All of the reply is on its way, or has arrived.
Spoken ==
    \/ phase = "waiting" /\ tx # <<>> /\ reply \o tx = Full
    \/ phase = "idle" /\ tx = <<>>

\* READY, with nothing to do.
Resting ==
    /\ pc = "ready" /\ q = <<>> /\ outQ = <<>> /\ alarms = <<>> /\ bufferI = 0
    /\ noise = 0 \/ (silence > MaxGap /\ ~request.mine)
    /\ Spoken

Storing == pc \in {"ready_set", "reception_cancel", "reception_drain", "reception_set"}
\* Characters of the frame the daemon has taken from its queue.
Taken == bufferI + (IF Storing THEN 1 ELSE 0)

\* So many can have come since it looked there last.
Backlog == 2 * MaxLate - Latency + (IF rx THEN 1 ELSE 0)

\* The timer behind the last character taken: it leaves time for the next one
\* as long as there is one.
Timing(w) ==
    /\ alarms = Timer(w)
    /\ IF Storing \/ Len(q) > 0
       THEN w >= Latency /\ Within(FrameTime)
       ELSE /\ phase = "sending" => w + silence >= InterFrame
            /\ Within(w + 2 * MaxLate + Turnaround + 2 * MaxLate)

\* A frame is coming in, from its first character in the queue to its last.
Receiving ==
    /\ pc \in {"ready", "reception"} \/ Storing
    /\ Storing => turn = "tr" /\ inputMsg = Sent(request, bufferI)
    /\ noise = 0 /\ outQ = <<>> /\ Silent
    /\ phase = "sending" \/ Out
    /\ pc = "ready" => Len(q) > 0
    /\ bufferI = 0 <=> pc \in {"ready", "ready_set"}
    /\ Taken + Len(q) = sent /\ Begun
    /\ \A i \in 1 .. Len(q) : q[i] = Input(Sent(request, Taken + i - 1))
    /\ Len(q) <= Backlog
    /\ IF pc \in {"reception", "reception_cancel"}
       THEN \E w \in 0 .. InterFrame : Timing(w)
       ELSE alarms = <<>> /\ Within(FrameTime)

\* The frame is complete, and the daemon has yet to say so.
Ended ==
    /\ \/ pc = "reception" /\ q = <<Timeout>>
       \/ pc = "reception_out" /\ q = <<>> /\ turn = "tr"
    /\ noise = 0 /\ outQ = <<>> /\ Silent /\ Out /\ alarms = <<>>
    /\ bufferI = request.length /\ Begun
    /\ Within(EndTime)

\* The frame is in the queue of the PDU handler.
Handed ==
    /\ pc = "processing" /\ q = <<>> /\ outQ = <<request.length>>
    /\ noise = 0 /\ Silent /\ Out /\ bufferI = 0
    /\ \A i \in 0 .. request.length - 1 : buffer[i] = Sent(request, i)
    /\ \E w \in 0 .. Turnaround :
         alarms = Timer(w) /\ w >= Left /\ Within(w + 2 * MaxLate)

Size == IF request.mine THEN Len(Full) ELSE 0
ReplyStored == request.mine => \A i \in 1 .. Len(Full) : buffer[i - 1] = Full[i]

\* The PDU handler is done: the answer and the turn-around timer are to be met.
Executed ==
    /\ outQ = <<>> /\ noise = 0 /\ Silent /\ Out /\ bufferI = 0 /\ ReplyStored
    /\ \/ \E w \in 0 .. Turnaround :
            /\ alarms = Timer(w) /\ Within(w + 2 * MaxLate)
            /\ \/ pc = "processing" /\ q = <<Buffer(Size)>>
               \/ pc = "processing_timeout" /\ q = <<>> /\ bufferMsg = Size
       \/ /\ alarms = <<>> /\ Within(Latency)
          /\ \/ pc = "processing" /\ q = <<Buffer(Size), Timeout>>
             \/ pc = "processing_timeout" /\ q = <<Timeout>> /\ bufferMsg = Size
             \/ pc = "processing_push" /\ q = <<>> /\ bufferMsg = Size /\ turn = "tr"
             \/ pc = "ready" /\ q = <<Buffer(Size)>> /\ turn = "tr"
             \/ pc = "must_transmit" /\ q = <<>> /\ bufferMsg = Size /\ turn = "tr"

Soon(n) == phase = "idle" => silence + n <= Between

\* Until it listens again.
SpeechTime == Latency + Round

Writing ==
    /\ pc = "emission" /\ q = <<>> /\ alarms = <<>> /\ ReplyStored
    /\ bufferMsg = Len(Full) /\ bufferMsgI \in 0 .. bufferMsg
    /\ reply \o tx = SubSeq(Full, 1, bufferMsgI)
    /\ phase = IF reply = Full THEN "idle" ELSE "waiting"
    /\ Soon(SpeechTime)

Written == pc = "emission_set" /\ q = <<>> /\ alarms = <<>> /\ turn = "tr" /\ Spoken /\ Soon(SpeechTime)

Pausing(w) ==
    pc = "emission_wait" /\ q = <<>> /\ alarms = Timer(w) /\ Spoken /\ Soon(w + 2 * MaxLate)

Paused == pc = "emission_wait" /\ q = <<Timeout>> /\ alarms = <<>> /\ Spoken /\ Soon(Latency)

\* EMISSION, and the wait for silence behind it.
Emitting ==
    /\ outQ = <<>> /\ noise = 0 /\ bufferI = 0 /\ request.mine
    /\ Writing \/ Written \/ (\E w \in 0 .. InterFrame : Pausing(w)) \/ Paused

\* The first character of the next request is there before the silence has been
\* noticed; its timeout comes first.
Overlapping ==
    /\ pc = "emission_wait" /\ q = <<Timeout, Input(Sent(request, 0))>> /\ alarms = <<>>
    /\ outQ = <<>> /\ noise = 0 /\ Silent /\ bufferI = 0
    /\ (phase = "sending" \/ Out)
    /\ rx /\ sent = 1 /\ silence = 0 /\ Latency = 0

LinkInv ==
    /\ Shape /\ Tables
    /\ Starting \/ Resting \/ Receiving \/ Ended \/ Handed \/ Executed \/ Emitting \/ Overlapping

-----------------------------------------------------------------------------
(* Numbers, queues and the alarm table.                                    *)

\* The assumptions on the constants, together.
LEMMA Margins ==
    /\ MaxLate \in Nat /\ MaxGap \in Nat /\ Turnaround \in Nat /\ MaxNoise \in Nat
    /\ Quiet \in Nat /\ Between \in Nat /\ InterFrame \in Nat /\ TxSize \in Nat
    /\ BufferSize \in Nat \ {0} /\ MaxAlarms \in 1 .. 255 /\ QueueSize \in Nat \ {0}
    /\ 0 < InterFrame /\ 0 < MaxLate /\ Turnaround <= InterFrame /\ MaxLate <= Turnaround
    /\ MaxGap + 2 * MaxLate <= InterFrame
    /\ 2 * MaxLate < QueueSize /\ MaxNoise < QueueSize /\ MaxNoise < MaxAlarms
    /\ Round \in Nat /\ Round = InterFrame + 2 * MaxLate
    /\ Round + Turnaround + 4 * MaxLate < Quiet
    /\ Round + 2 * MaxLate <= Between + 1
<1>1. {MaxNoise, MaxGap, Quiet, Between} \subseteq Nat
  BY LinkAssumption
<1> QED
  BY <1>1, SizesAssumption, TimesAssumption, MarginsAssumption, MaxAlarmsAssumption DEF Round

\* The two margins that are products.
LEMMA NoiseMargins ==
    /\ MaxGap * MaxNoise <= InterFrame
    /\ 2 * MaxLate + Round + Round * MaxNoise < Quiet
<1>1. MaxGap * MaxNoise = MaxNoise * MaxGap
  BY Margins
<1>2. (MaxNoise + 1) * Round = Round + Round * MaxNoise
  BY Margins
<1> QED
  BY <1>1, <1>2, Margins, MarginsAssumption DEF Round

LEMMA Remainder == \A n \in Nat, m \in Nat \ {0} : n % m \in 0 .. m - 1
  OBVIOUS

\* A message is told by its tag.
LEMMA MessageKinds ==
    /\ Timeout \in Message /\ \A c \in Char : Input(c) \in Message
    /\ \A n \in Index : Buffer(n) \in Message
    /\ \A m \in Message : \/ m.tag = "timeout" /\ m = Timeout
                          \/ m.tag = "char" /\ m.char \in Char /\ m = Input(m.char)
                          \/ m.tag = "buffer" /\ m.size \in Index /\ m = Buffer(m.size)
  BY DEF Message, Timeout, Input, Buffer

\* A push, refused or not, keeps the queue in its bounds.
LEMMA PushKeeps ==
    ASSUME NEW S, NEW s \in Seq(S), Len(s) <= QueueSize, NEW m \in S
    PROVE  /\ Push(s, m) \in Seq(S) /\ Len(Push(s, m)) <= QueueSize
           /\ Len(s) < QueueSize => Push(s, m) = Append(s, m)
  BY Margins DEF Push

\* Timeouts go behind what is there already.
LEMMA TimeoutsBehind ==
    ASSUME NEW s \in Seq(Message), Len(s) <= QueueSize, NEW n \in Nat
    PROVE  /\ PushTimeouts(s, n) \in Seq(Message) /\ Len(PushTimeouts(s, n)) <= QueueSize
           /\ n + Len(s) <= QueueSize => Len(PushTimeouts(s, n)) = Len(s) + n
           /\ \A i \in 1 .. Len(s) : PushTimeouts(s, n)[i] = s[i]
           /\ \A i \in Len(s) + 1 .. Len(PushTimeouts(s, n)) : PushTimeouts(s, n)[i] = Timeout
           /\ n = 0 => PushTimeouts(s, n) = s
<1> DEFINE room == QueueSize - Len(s)
           f == IF n < room THEN n ELSE room
           t == [i \in 1 .. f |-> Timeout]
<1>1. Len(s) \in Nat /\ f \in Nat /\ f <= room /\ (n + Len(s) <= QueueSize => f = n)
      /\ (n = 0 => f = 0) /\ room \in Nat
  BY Margins
<1> HIDE DEF f
<1>2. t \in Seq(Message) /\ Len(t) = f /\ \A i \in 1 .. f : t[i] = Timeout
  <2>1. t \in [1 .. f -> Message]
    BY MessageKinds
  <2> QED
    BY <1>1, <2>1, SeqDef
<1> HIDE DEF t
<1>3. /\ s \o t \in Seq(Message) /\ Len(s \o t) = Len(s) + Len(t)
      /\ \A i \in 1 .. Len(s) + Len(t) : (s \o t)[i] = IF i <= Len(s) THEN s[i] ELSE t[i - Len(s)]
  BY <1>2, ConcatProperties
<1>4. PushTimeouts(s, n) = s \o t
  BY DEF PushTimeouts, f, t
<1>5. n = 0 => s \o t = s
  <2>1. n = 0 => t = <<>>
    BY <1>1, <1>2
  <2> QED
    BY <2>1, ConcatEmptySeq
<1>6. \A i \in Len(s) + 1 .. Len(s) + f : i - Len(s) \in 1 .. f /\ ~(i <= Len(s)) /\ i \in 1 .. Len(s) + f
  BY <1>1
<1>7. \A i \in 1 .. Len(s) : i \in 1 .. Len(s) + f
  BY <1>1
<1> DEFINE r == s \o t
<1> HIDE DEF r, room
<1>8. /\ r \in Seq(Message) /\ Len(r) = Len(s) + f
      /\ \A i \in 1 .. Len(s) : r[i] = s[i]
      /\ \A i \in Len(s) + 1 .. Len(s) + f : r[i] = Timeout
  BY <1>2, <1>3, <1>6, <1>7 DEF r
<1>9. Len(s) + f <= QueueSize
  BY <1>1, Margins DEF room
<1>10. PushTimeouts(s, n) = r /\ (n = 0 => r = s)
  BY <1>4, <1>5 DEF r
<1> QED
  BY <1>1, <1>8, <1>9, <1>10

\* One timeout.
LEMMA OneTimeout ==
    ASSUME NEW s \in Seq(Message), Len(s) < QueueSize
    PROVE  PushTimeouts(s, 1) = Append(s, Timeout)
<1>1. /\ PushTimeouts(s, 1) \in Seq(Message)
      /\ Len(PushTimeouts(s, 1)) = Len(s) + 1
      /\ \A i \in 1 .. Len(s) : PushTimeouts(s, 1)[i] = s[i]
      /\ \A i \in Len(s) + 1 .. Len(PushTimeouts(s, 1)) : PushTimeouts(s, 1)[i] = Timeout
  <2>1. 1 + Len(s) <= QueueSize /\ Len(s) <= QueueSize /\ 1 \in Nat
    BY Margins
  <2> QED
    BY <2>1, TimeoutsBehind
<1>2. /\ Append(s, Timeout) \in Seq(Message) /\ Len(Append(s, Timeout)) = Len(s) + 1
      /\ \A i \in 1 .. Len(s) : Append(s, Timeout)[i] = s[i]
      /\ Append(s, Timeout)[Len(s) + 1] = Timeout
  BY MessageKinds
<1>3. Len(s) \in Nat
  OBVIOUS
<1> DEFINE a == PushTimeouts(s, 1)
           b == Append(s, Timeout)
<1> HIDE DEF a, b
<1>4. \A i \in 1 .. Len(a) : a[i] = b[i]
  BY <1>1, <1>2, <1>3 DEF a, b
<1> QED
  BY <1>1, <1>2, <1>4, SeqEqual DEF a, b

\* A nonempty set of natural numbers has a least element: the initial
\* segments of the naturals are finite sets, well-founded under inclusion.
LEMMA LeastNatural ==
    ASSUME NEW T \in SUBSET Nat, T # {}
    PROVE  \E x \in T : \A y \in T : x <= y
<1> DEFINE Segments == {1 .. n : n \in T}
<1>1. Segments \subseteq FiniteSubsetsOf(Nat) /\ Segments # {}
  <2>1. \A n \in T : IsFiniteSet(1 .. n) /\ 1 .. n \in SUBSET Nat
    BY FS_Interval
  <2> QED
    BY <2>1 DEF FiniteSubsetsOf
<1>2. PICK X \in Segments : \A Y \in Segments : <<Y, X>> \notin StrictSubsetOrdering(Nat)
  <2> HIDE DEF Segments
  <2> QED
    BY <1>1, FS_StrictSubsetOrderingWellFounded, WFMin
<1>3. PICK x \in T : X = 1 .. x
  OBVIOUS
<1>4. ASSUME NEW y \in T PROVE x <= y
  <2>1. SUFFICES ASSUME y < x PROVE FALSE
    OBVIOUS
  <2>2. 1 .. y \in SUBSET Nat /\ 1 .. x \in SUBSET Nat
    OBVIOUS
  <2>3. 1 .. y \subseteq 1 .. x /\ x \in 1 .. x /\ x \notin 1 .. y
    BY <2>1
  <2>4. <<1 .. y, 1 .. x>> \in StrictSubsetOrdering(Nat)
    BY <2>2, <2>3 DEF StrictSubsetOrdering
  <2> QED
    BY <1>2, <1>3, <2>4
<1> QED
  BY <1>4

\* Every entry of a table is an alarm.
LEMMA TableEntries ==
    ASSUME NEW a \in Seq(Alarm)
    PROVE  /\ Len(a) \in Nat
           /\ \A i \in 1 .. Len(a) : a[i] \in Alarm /\ a[i].when \in 0 .. InterFrame /\ a[i].when \in Nat
<1>1. Len(a) \in Nat /\ \A i \in 1 .. Len(a) : a[i] \in Alarm
  BY ElementOfSeq, LenProperties
<1> QED
  BY <1>1, Margins DEF Alarm

\* The loops of on_tick and set_alarm stop somewhere.
LEMMA DueBeforeStops ==
    ASSUME NEW a \in Seq(Alarm), NEW t \in Nat
    PROVE  /\ DueBefore(a, t) \in 0 .. Len(a)
           /\ \A i \in 1 .. DueBefore(a, t) : a[i].when < t
           /\ DueBefore(a, t) < Len(a) => a[DueBefore(a, t) + 1].when >= t
<1> DEFINE T == {n \in 0 .. Len(a) : n = Len(a) \/ a[n + 1].when >= t}
<1>1. Len(a) \in Nat /\ \A i \in 1 .. Len(a) : a[i].when \in Nat
  BY TableEntries
<1>2. Len(a) \in T /\ T \in SUBSET Nat
  BY <1>1
<1>3. PICK n \in T : \A m \in T : n <= m
  <2> HIDE DEF T
  <2> QED
    BY <1>2, LeastNatural
<1>4. n \in 0 .. Len(a) /\ (n < Len(a) => a[n + 1].when >= t)
  BY <1>1, <1>3
<1>5. ASSUME NEW i \in 1 .. n PROVE a[i].when < t
  <2>1. i - 1 \in 0 .. Len(a) /\ i - 1 < n
    BY <1>1, <1>4
  <2>2. i - 1 \notin T
    BY <1>3, <1>4, <2>1
  <2>3. ~(a[(i - 1) + 1].when >= t)
    BY <2>1, <2>2
  <2>4. (i - 1) + 1 = i /\ a[i].when \in Nat
    BY <1>1, <1>4
  <2> QED
    BY <2>3, <2>4
<1> QED
  BY <1>4, <1>5 DEF DueBefore

LEMMA DueNone == DueBefore(<<>>, 1) = 0 /\ \A t \in Nat : DueBefore(<<>>, t) = 0
<1>1. <<>> \in Seq(Alarm) /\ Len(<<>>) = 0
  OBVIOUS
<1>2. ASSUME NEW t \in Nat PROVE DueBefore(<<>>, t) = 0
  <2>1. DueBefore(<<>>, t) \in 0 .. Len(<<>>)
    BY <1>1, DueBeforeStops
  <2> QED
    BY <1>1, <2>1
<1> QED
  BY <1>2

\* One timer is due when its time has run out.
LEMMA DueOne ==
    ASSUME NEW w \in Nat
    PROVE  DueBefore(Timer(w), 1) = IF w = 0 THEN 1 ELSE 0
<1> DEFINE a == Timer(w)
<1>1. Len(a) = 1 /\ a[1].when = w
  BY DEF Timer
<1> HIDE DEF a
<1>2. \E n \in 0 .. Len(a) : /\ \A i \in 1 .. n : a[i].when < 1
                             /\ n < Len(a) => a[n + 1].when >= 1
  <2>1. CASE w = 0
    <3>1. /\ \A i \in 1 .. 1 : a[i].when < 1
          /\ 1 < Len(a) => a[1 + 1].when >= 1
      BY <1>1, <2>1
    <3> QED
      BY <1>1, <3>1
  <2>2. CASE w # 0
    <3>1. /\ \A i \in 1 .. 0 : a[i].when < 1
          /\ 0 < Len(a) => a[0 + 1].when >= 1
      BY <1>1, <2>2
    <3> QED
      BY <1>1, <3>1
  <2> QED
    BY <2>1, <2>2
<1>3. PICK n \in 0 .. Len(a) : /\ n = DueBefore(a, 1)
                               /\ \A i \in 1 .. n : a[i].when < 1
                               /\ n < Len(a) => a[n + 1].when >= 1
  BY <1>2 DEF DueBefore
<1>4. n = IF w = 0 THEN 1 ELSE 0
  BY <1>1, <1>3
<1> QED
  BY <1>3, <1>4 DEF a

LEMMA TimerShape ==
    ASSUME NEW w \in 0 .. InterFrame
    PROVE  /\ Timer(w) \in Seq(Alarm) /\ Len(Timer(w)) = 1
           /\ Timer(w)[1] = [id |-> FALSE, when |-> w] /\ Timer(w) # <<>>
  BY Margins DEF Timer, Alarm

\* A timer is set in an empty table, and cancelled though its id is not found.
LEMMA TimerSet ==
    ASSUME alarms = <<>>, alarmCount = 0, NEW d \in 0 .. InterFrame, SetAlarm(d, FALSE)
    PROVE  alarms' = Timer(d) /\ alarmCount' = 1
<1> DEFINE x == [id |-> FALSE, when |-> d]
<1>1. alarmCount # MaxAlarms /\ d \in Nat
  BY Margins
<1>2. alarms' = Insert(<<>>, x) /\ alarmCount' = 1
  BY <1>1 DEF SetAlarm
<1>3. DueBefore(<<>>, x.when) = 0
  BY <1>1, DueNone
<1>4. Insert(<<>>, x) = SubSeq(<<>>, 1, 0) \o <<x>> \o SubSeq(<<>>, 1, 0)
  <2>1. Len(<<>>) = 0
    OBVIOUS
  <2> QED
    BY <1>3, <2>1 DEF Insert
<1>5. SubSeq(<<>>, 1, 0) = <<>>
  BY SubSeqEmpty
<1>6. <<x>> \in Seq({x}) /\ <<>> \o <<x>> = <<x>> /\ <<x>> \o <<>> = <<x>>
  <2>1. <<x>> \in Seq({x})
    OBVIOUS
  <2> QED
    BY <2>1, ConcatEmptySeq
<1> QED
  BY <1>2, <1>4, <1>5, <1>6 DEF Timer

LEMMA TimerCancelled ==
    ASSUME NEW w \in 0 .. InterFrame, alarms = Timer(w), alarmCount = 1, CancelAid
    PROVE  alarms' = <<>> /\ alarmCount' = 0
<1>0. Len(alarms) = 1 /\ alarms[1] = [id |-> FALSE, when |-> w] /\ alarms # <<>>
  BY TimerShape
<1>1. ~Holds(alarms, TRUE)
  <2>1. alarms[1].id = FALSE /\ 1 .. Len(alarms) = {1}
    BY <1>0
  <2> QED
    BY <2>1, Zenon DEF Holds
<1>2. alarms' = Front(alarms) /\ alarmCount' = Decrement(1)
  BY <1>0, <1>1 DEF CancelAid, Cancel
<1>3. Front(alarms) = <<>>
  <2>1. Len(alarms) - 1 = 0
    BY <1>0
  <2>2. Front(alarms) = SubSeq(alarms, 1, 0)
    BY <2>1, Zenon DEF Front
  <2> QED
    BY <2>2, SubSeqEmpty
<1>4. Decrement(1) = 0
  BY DEF Decrement
<1> QED
  BY <1>2, <1>3, <1>4

\* What a tick does to a table of at most one timer.
LEMMA TickNone ==
    ASSUME alarms = <<>>, alarmCount = 0, q \in Seq(Message), Len(q) <= QueueSize, Tick
    PROVE  alarms' = <<>> /\ alarmCount' = 0 /\ q' = q
<1> DEFINE n == DueBefore(alarms, 1)
           kept == DropFirst(alarms, n)
<1>1. n = 0
  BY DueNone
<1>2. kept = <<>>
  <2>1. Len(<<>>) = 0
    OBVIOUS
  <2>2. kept = SubSeq(<<>>, 1, 0)
    BY <1>1, <2>1 DEF DropFirst
  <2> QED
    BY <2>2, SubSeqEmpty
<1>3. /\ alarms' = [i \in 1 .. Len(kept) |-> [kept[i] EXCEPT !.when = @ - 1]]
      /\ alarmCount' = alarmCount - n /\ q' = PushTimeouts(q, n)
  BY DEF Tick
<1> HIDE DEF n, kept
<1>4. alarms' = <<>>
  <2>1. 1 .. Len(kept) = {}
    BY <1>2
  <2> QED
    BY <1>3, <2>1
<1>5. q' = q
  BY <1>1, <1>3, TimeoutsBehind
<1> QED
  BY <1>1, <1>3, <1>4, <1>5

LEMMA TickRuns ==
    ASSUME NEW w \in 1 .. InterFrame, alarms = Timer(w), alarmCount = 1,
           q \in Seq(Message), Len(q) <= QueueSize, Tick
    PROVE  alarms' = Timer(w - 1) /\ alarmCount' = 1 /\ q' = q
<1> DEFINE n == DueBefore(alarms, 1)
           kept == DropFirst(alarms, n)
<1>0. w \in Nat /\ w # 0 /\ w \in 0 .. InterFrame
  BY Margins
<1>1. n = 0
  BY <1>0, DueOne
<1>2. kept = Timer(w)
  <2>1. kept = SubSeq(Timer(w), 1, Len(Timer(w)))
    BY <1>1 DEF DropFirst
  <2> QED
    BY <1>0, <2>1, TimerShape, SubSeqFull
<1>3. /\ alarms' = [i \in 1 .. Len(kept) |-> [kept[i] EXCEPT !.when = @ - 1]]
      /\ alarmCount' = alarmCount - n /\ q' = PushTimeouts(q, n)
  BY DEF Tick
<1> HIDE DEF n, kept
<1>4. alarms' = Timer(w - 1)
  <2>1. Len(kept) = 1 /\ kept[1] = [id |-> FALSE, when |-> w]
    BY <1>0, <1>2, TimerShape
  <2>2. w - 1 \in 0 .. InterFrame
    BY Margins
  <2>3. [kept[1] EXCEPT !.when = @ - 1] = [id |-> FALSE, when |-> w - 1]
    <3>1. PICK b : b = FALSE
      OBVIOUS
    <3>2. PICK r : r = kept[1]
      OBVIOUS
    <3>3. r = [id |-> b, when |-> w]
      BY <2>1, <3>1, <3>2, Zenon
    <3>4. [r EXCEPT !.when = r.when - 1] = [id |-> b, when |-> w - 1]
      BY <3>3, SMT
    <3> QED
      BY <3>1, <3>2, <3>4, Zenon
  <2>4. 1 .. Len(kept) = {1}
    BY <2>1
  <2>5. alarms' = [i \in {1} |-> [id |-> FALSE, when |-> w - 1]]
    BY <1>3, <2>3, <2>4, Zenon
  <2>6. [i \in {1} |-> [id |-> FALSE, when |-> w - 1]] = Timer(w - 1)
    <3>1. \A x : [i \in {1} |-> x] = <<x>>
      OBVIOUS
    <3> QED
      BY <3>1, Zenon DEF Timer
  <2> QED
    BY <2>5, <2>6
<1>5. q' = q
  BY <1>1, <1>3, TimeoutsBehind
<1> QED
  BY <1>1, <1>3, <1>4, <1>5

LEMMA TickExpires ==
    ASSUME alarms = Timer(0), alarmCount = 1, q \in Seq(Message), Len(q) < QueueSize, Tick
    PROVE  alarms' = <<>> /\ alarmCount' = 0 /\ q' = Append(q, Timeout)
<1> DEFINE n == DueBefore(alarms, 1)
           kept == DropFirst(alarms, n)
<1>0. 0 \in 0 .. InterFrame /\ 0 \in Nat
  BY Margins
<1>1. n = 1
  BY <1>0, DueOne
<1>2. kept = <<>>
  <2>1. n + 1 = 2 /\ Len(alarms) = 1
    <3>1. Len(Timer(0)) = 1
      BY <1>0, TimerShape
    <3> QED
      BY <1>1, <3>1
  <2>2. kept = SubSeq(alarms, 2, 1)
    BY <2>1, Zenon DEF DropFirst
  <2> QED
    BY <2>2, SubSeqEmpty
<1>3. /\ alarms' = [i \in 1 .. Len(kept) |-> [kept[i] EXCEPT !.when = @ - 1]]
      /\ alarmCount' = alarmCount - n /\ q' = PushTimeouts(q, n)
  BY DEF Tick
<1> HIDE DEF n, kept
<1>4. alarms' = <<>>
  <2>1. 1 .. Len(kept) = {}
    BY <1>2
  <2> QED
    BY <1>3, <2>1
<1>5. q' = Append(q, Timeout)
  BY <1>1, <1>3, OneTimeout
<1> QED
  BY <1>1, <1>3, <1>4, <1>5

-----------------------------------------------------------------------------
(* Steps.                                                                  *)

\* Each step of the daemon has its place.
LEMMA DaemonPlaces ==
    ASSUME Daemon
    PROVE  /\ turn = "tr"
           /\ \/ pc = "initial" /\ InitialSet
              \/ pc = "initial_wait" /\ InitialWait
              \/ pc = "initial_cancel" /\ InitialCancel
              \/ pc = "initial_restart" /\ InitialRestart
              \/ pc = "ready" /\ Ready
              \/ pc = "ready_set" /\ ReadySet
              \/ pc = "must_transmit" /\ MustTransmit
              \/ pc = "reception" /\ Reception
              \/ pc = "reception_cancel" /\ ReceptionCancel
              \/ pc = "reception_drain" /\ ReceptionDrain
              \/ pc = "reception_set" /\ ReceptionSet
              \/ pc = "reception_out" /\ ReceptionOut
              \/ pc = "processing" /\ Processing
              \/ pc = "processing_buffer" /\ ProcessingBuffer
              \/ pc = "processing_timeout" /\ ProcessingTimeout
              \/ pc = "processing_push" /\ ProcessingPush
              \/ pc = "emission" /\ Emission
              \/ pc = "emission_set" /\ EmissionSet
              \/ pc = "emission_wait" /\ EmissionWait
<1>1. InitialSet => turn = "tr" /\ pc = "initial"
  BY DEF InitialSet, ClockAt, At
<1>2. InitialWait => turn = "tr" /\ pc = "initial_wait"
  BY DEF InitialWait, WaitAt, At
<1>3. InitialCancel => turn = "tr" /\ pc = "initial_cancel"
  BY DEF InitialCancel, ClockAt, At
<1>4. InitialRestart => turn = "tr" /\ pc = "initial_restart"
  BY DEF InitialRestart, ClockAt, At
<1>5. Ready => turn = "tr" /\ pc = "ready"
  BY DEF Ready, WaitAt, At
<1>6. ReadySet => turn = "tr" /\ pc = "ready_set"
  BY DEF ReadySet, ClockAt, At
<1>7. MustTransmit => turn = "tr" /\ pc = "must_transmit"
  BY DEF MustTransmit, At
<1>8. Reception => turn = "tr" /\ pc = "reception"
  BY DEF Reception, WaitAt, At
<1>9. ReceptionCancel => turn = "tr" /\ pc = "reception_cancel"
  BY DEF ReceptionCancel, ClockAt, At
<1>10. ReceptionDrain => turn = "tr" /\ pc = "reception_drain"
  BY DEF ReceptionDrain, At
<1>11. ReceptionSet => turn = "tr" /\ pc = "reception_set"
  BY DEF ReceptionSet, ClockAt, At
<1>12. ReceptionOut => turn = "tr" /\ pc = "reception_out"
  BY DEF ReceptionOut, ClockAt, At
<1>13. Processing => turn = "tr" /\ pc = "processing"
  BY DEF Processing, WaitAt, At
<1>14. ProcessingBuffer => turn = "tr" /\ pc = "processing_buffer"
  BY DEF ProcessingBuffer, WaitAt, At
<1>15. ProcessingTimeout => turn = "tr" /\ pc = "processing_timeout"
  BY DEF ProcessingTimeout, WaitAt, At
<1>16. ProcessingPush => turn = "tr" /\ pc = "processing_push"
  BY DEF ProcessingPush, At
<1>17. Emission => turn = "tr" /\ pc = "emission"
  BY DEF Emission, At
<1>18. EmissionSet => turn = "tr" /\ pc = "emission_set"
  BY DEF EmissionSet, ClockAt, At
<1>19. EmissionWait => turn = "tr" /\ pc = "emission_wait"
  BY DEF EmissionWait, WaitAt, At
<1> QED
  BY <1>1, <1>2, <1>3, <1>4, <1>5, <1>6, <1>7, <1>8, <1>9, <1>10, <1>11, <1>12, <1>13, <1>14,
     <1>15, <1>16, <1>17, <1>18, <1>19, Zenon DEF Daemon

\* What the master and the rest of the line see of a step.
LEMMA LinkSteps ==
    ASSUME LinkNext
    PROVE  \/ Daemon /\ UNCHANGED master
           \/ Handle /\ UNCHANGED master
           \/ ComeRound /\ UNCHANGED master
           \/ LinkTick \/ Crackle \/ SendNext \/ \E r \in Request : Ask(r)
  BY DEF LinkNext, LinkLoop, MainLoop

\* A step of the daemon at one of its waits, the message at the head if there is
\* one.
LEMMA WaitStep ==
    ASSUME NEW label, NEW next, WaitAt(label, next)
    PROVE  /\ q = <<>> => /\ turn' = "pduh" /\ pc' = pc /\ q' = q
                          /\ inputMsg' = inputMsg /\ bufferMsg' = bufferMsg
           /\ q # <<>> => /\ turn' = turn /\ pc' = next[Head(q).tag] /\ q' = Tail(q)
                          /\ \/ inputMsg' = inputMsg
                             \/ Head(q).tag = "char" /\ inputMsg' = Head(q).char
                          /\ \/ bufferMsg' = bufferMsg
                             \/ Head(q).tag = "buffer" /\ bufferMsg' = Head(q).size
           /\ outQ' = outQ /\ buffer' = buffer /\ bufferI' = bufferI /\ bufferMsgI' = bufferMsgI
           /\ alarms' = alarms /\ alarmCount' = alarmCount
           /\ tx' = tx /\ rx' = rx /\ late' = late
  BY DEF WaitAt, At, frame, clock, isr

LEMMA WaitNext ==
    ASSUME NEW label, NEW next, q # <<>>, WaitAt(label, next), NEW tag, Head(q).tag = tag,
           NEW place, next[tag] = place
    PROVE  pc' = place
  BY WaitStep

\* Where the daemon goes on from its waits.
LEMMA WaitsNext ==
    ASSUME q # <<>>
    PROVE  /\ InitialWait /\ Head(q).tag = "char" => pc' = "initial_cancel"
           /\ InitialWait /\ Head(q).tag = "timeout" => pc' = "ready"
           /\ Ready /\ Head(q).tag = "char" => pc' = "ready_set"
           /\ Ready /\ Head(q).tag = "buffer" => pc' = "must_transmit"
           /\ Ready /\ Head(q).tag = "timeout" => pc' = "initial"
           /\ Reception /\ Head(q).tag = "char" => pc' = "reception_cancel"
           /\ Reception /\ Head(q).tag = "timeout" => pc' = "reception_out"
           /\ Processing /\ Head(q).tag = "buffer" => pc' = "processing_timeout"
           /\ ProcessingTimeout /\ Head(q).tag = "timeout" => pc' = "processing_push"
           /\ EmissionWait /\ Head(q).tag = "timeout" => pc' = "ready"
<1>1. ASSUME InitialWait, Head(q).tag = "char" PROVE pc' = "initial_cancel"
  <2> DEFINE next == [char |-> "initial_cancel", timeout |-> "ready", buffer |-> "initial"]
  <2>1. next["char"] = "initial_cancel"
    OBVIOUS
  <2>2. WaitAt("initial_wait", next)
    BY <1>1 DEF InitialWait
  <2> HIDE DEF next
  <2> QED
    BY <1>1, <2>1, <2>2, WaitNext
<1>2. ASSUME InitialWait, Head(q).tag = "timeout" PROVE pc' = "ready"
  <2> DEFINE next == [char |-> "initial_cancel", timeout |-> "ready", buffer |-> "initial"]
  <2>1. next["timeout"] = "ready"
    OBVIOUS
  <2>2. WaitAt("initial_wait", next)
    BY <1>2 DEF InitialWait
  <2> HIDE DEF next
  <2> QED
    BY <1>2, <2>1, <2>2, WaitNext
<1>3. ASSUME Ready, Head(q).tag = "char" PROVE pc' = "ready_set"
  <2> DEFINE next == [char |-> "ready_set", buffer |-> "must_transmit", timeout |-> "initial"]
  <2>1. next["char"] = "ready_set"
    OBVIOUS
  <2>2. WaitAt("ready", next)
    BY <1>3 DEF Ready
  <2> HIDE DEF next
  <2> QED
    BY <1>3, <2>1, <2>2, WaitNext
<1>4. ASSUME Ready, Head(q).tag = "buffer" PROVE pc' = "must_transmit"
  <2> DEFINE next == [char |-> "ready_set", buffer |-> "must_transmit", timeout |-> "initial"]
  <2>1. next["buffer"] = "must_transmit"
    OBVIOUS
  <2>2. WaitAt("ready", next)
    BY <1>4 DEF Ready
  <2> HIDE DEF next
  <2> QED
    BY <1>4, <2>1, <2>2, WaitNext
<1>5. ASSUME Ready, Head(q).tag = "timeout" PROVE pc' = "initial"
  <2> DEFINE next == [char |-> "ready_set", buffer |-> "must_transmit", timeout |-> "initial"]
  <2>1. next["timeout"] = "initial"
    OBVIOUS
  <2>2. WaitAt("ready", next)
    BY <1>5 DEF Ready
  <2> HIDE DEF next
  <2> QED
    BY <1>5, <2>1, <2>2, WaitNext
<1>6. ASSUME Reception, Head(q).tag = "char" PROVE pc' = "reception_cancel"
  <2> DEFINE next == [char |-> "reception_cancel", timeout |-> "reception_out", buffer |-> "initial"]
  <2>1. next["char"] = "reception_cancel"
    OBVIOUS
  <2>2. WaitAt("reception", next)
    BY <1>6 DEF Reception
  <2> HIDE DEF next
  <2> QED
    BY <1>6, <2>1, <2>2, WaitNext
<1>7. ASSUME Reception, Head(q).tag = "timeout" PROVE pc' = "reception_out"
  <2> DEFINE next == [char |-> "reception_cancel", timeout |-> "reception_out", buffer |-> "initial"]
  <2>1. next["timeout"] = "reception_out"
    OBVIOUS
  <2>2. WaitAt("reception", next)
    BY <1>7 DEF Reception
  <2> HIDE DEF next
  <2> QED
    BY <1>7, <2>1, <2>2, WaitNext
<1>8. ASSUME Processing, Head(q).tag = "buffer" PROVE pc' = "processing_timeout"
  <2> DEFINE next == [timeout |-> "processing_buffer", buffer |-> "processing_timeout"]
  <2>1. next["buffer"] = "processing_timeout"
    OBVIOUS
  <2>2. WaitAt("processing", next)
    BY <1>8 DEF Processing
  <2> HIDE DEF next
  <2> QED
    BY <1>8, <2>1, <2>2, WaitNext
<1>9. ASSUME ProcessingTimeout, Head(q).tag = "timeout" PROVE pc' = "processing_push"
  <2> DEFINE next == [timeout |-> "processing_push", char |-> "initial", buffer |-> "initial"]
  <2>1. next["timeout"] = "processing_push"
    OBVIOUS
  <2>2. WaitAt("processing_timeout", next)
    BY <1>9 DEF ProcessingTimeout
  <2> HIDE DEF next
  <2> QED
    BY <1>9, <2>1, <2>2, WaitNext
<1>10. ASSUME EmissionWait, Head(q).tag = "timeout" PROVE pc' = "ready"
  <2> DEFINE next == [timeout |-> "ready", char |-> "initial", buffer |-> "initial"]
  <2>1. next["timeout"] = "ready"
    OBVIOUS
  <2>2. WaitAt("emission_wait", next)
    BY <1>10 DEF EmissionWait
  <2> HIDE DEF next
  <2> QED
    BY <1>10, <2>1, <2>2, WaitNext
<1> QED
  BY <1>1, <1>2, <1>3, <1>4, <1>5, <1>6, <1>7, <1>8, <1>9, <1>10

LEMMA MasterUnchanged ==
    ASSUME UNCHANGED master
    PROVE  /\ request' = request /\ sent' = sent /\ phase' = phase /\ reply' = reply
           /\ silence' = silence /\ noise' = noise
  BY DEF master

LEMMA QueueMoves ==
    ASSUME NEW S, NEW s \in Seq(S), Len(s) <= QueueSize, s # <<>>
    PROVE  Head(s) \in S /\ Tail(s) \in Seq(S) /\ Len(Tail(s)) <= QueueSize
<1>1. Head(s) \in S /\ Tail(s) \in Seq(S) /\ Len(Tail(s)) = Len(s) - 1 /\ Len(s) \in Nat
  BY HeadTailProperties
<1> QED
  BY <1>1, Margins

LEMMA SlaveShapeWait ==
    ASSUME SlaveShape, NEW label, NEW next, WaitAt(label, next)
    PROVE  SlaveShape'
<1>1. /\ outQ' = outQ /\ buffer' = buffer /\ bufferI' = bufferI
  BY WaitStep
<1>2. CASE q = <<>>
  <2>1. turn' = "pduh" /\ q' = q /\ inputMsg' = inputMsg /\ bufferMsg' = bufferMsg
    BY <1>2, WaitStep
  <2> QED
    BY <1>1, <2>1 DEF SlaveShape
<1>3. CASE q # <<>>
  <2>1. Head(q) \in Message /\ Tail(q) \in Seq(Message) /\ Len(Tail(q)) <= QueueSize
    BY <1>3, QueueMoves DEF SlaveShape
  <2>2. /\ turn' = turn /\ q' = Tail(q)
        /\ \/ inputMsg' = inputMsg
           \/ Head(q).tag = "char" /\ inputMsg' = Head(q).char
        /\ \/ bufferMsg' = bufferMsg
           \/ Head(q).tag = "buffer" /\ bufferMsg' = Head(q).size
    BY <1>3, WaitStep
  <2>3. /\ (Head(q).tag = "char" => Head(q).char \in Char)
        /\ (Head(q).tag = "buffer" => Head(q).size \in Index)
    BY <2>1, MessageKinds
  <2> QED
    BY <1>1, <2>1, <2>2, <2>3 DEF SlaveShape
<1> QED
  BY <1>2, <1>3

LEMMA SlaveShapeStore ==
    ASSUME SlaveShape, Store, turn' = turn, q' = q, outQ' = outQ, inputMsg' = inputMsg,
           bufferMsg' = bufferMsg
    PROVE  SlaveShape'
<1>1. (bufferI + 1) % BufferSize \in 0 .. BufferSize - 1
  <2>1. bufferI + 1 \in Nat /\ BufferSize \in Nat \ {0}
    BY Margins DEF SlaveShape, Index
  <2> QED
    BY <2>1, Remainder
<1>2. bufferI' \in Index
  BY <1>1 DEF Store, Index
<1>3. buffer' \in [Index -> Char \cup {NoChar}]
  BY DEF Store, SlaveShape
<1> QED
  BY <1>2, <1>3 DEF SlaveShape

LEMMA SlaveShapeDaemon ==
    ASSUME SlaveShape, Daemon
    PROVE  SlaveShape' /\ rx' = rx /\ late' = late
<1>1. CASE InitialSet \/ InitialCancel \/ InitialRestart \/ EmissionSet
  BY <1>1 DEF InitialSet, InitialCancel, InitialRestart, EmissionSet, ClockAt, SlaveShape, frame, isr
<1>2. CASE InitialWait \/ Ready \/ Reception \/ Processing \/ ProcessingBuffer
           \/ ProcessingTimeout \/ EmissionWait
  <2>1. \E label, next : WaitAt(label, next)
    BY <1>2 DEF InitialWait, Ready, Reception, Processing, ProcessingBuffer,
                ProcessingTimeout, EmissionWait
  <2> QED
    BY <2>1, SlaveShapeWait, WaitStep
<1>3. CASE ReadySet \/ ReceptionSet
  BY <1>3, SlaveShapeStore DEF ReadySet, ReceptionSet, ClockAt, isr
<1>4. CASE ReceptionCancel
  BY <1>4 DEF ReceptionCancel, ClockAt, SlaveShape, frame, isr
<1>5. CASE ReceptionDrain
  <2>1. q' = q \/ (q # <<>> /\ q' = Tail(q))
    BY <1>5 DEF ReceptionDrain, HeadIs
  <2>2. q' \in Seq(Message) /\ Len(q') <= QueueSize
    BY <2>1, QueueMoves DEF SlaveShape
  <2> QED
    BY <1>5, <2>2 DEF ReceptionDrain, SlaveShape, frame, isr
<1>6. CASE ReceptionOut
  <2>1. outQ' \in Seq(Index) /\ Len(outQ') <= QueueSize
    BY <1>6, PushKeeps DEF ReceptionOut, SlaveShape
  <2>2. bufferI' \in Index
    BY <1>6, Margins DEF ReceptionOut, Index
  <2> QED
    BY <1>6, <2>1, <2>2 DEF ReceptionOut, ClockAt, SlaveShape, isr
<1>7. CASE ProcessingPush
  <2>1. q' \in Seq(Message) /\ Len(q') <= QueueSize
    BY <1>7, PushKeeps, MessageKinds DEF ProcessingPush, SlaveShape
  <2> QED
    BY <1>7, <2>1 DEF ProcessingPush, SlaveShape, frame, isr
<1>8. CASE MustTransmit
  BY <1>8 DEF MustTransmit, SlaveShape, frame, isr
<1>9. CASE Emission
  BY <1>9 DEF Emission, SlaveShape, frame
<1> QED
  BY <1>1, <1>2, <1>3, <1>4, <1>5, <1>6, <1>7, <1>8, <1>9, Zenon DEF Daemon

LEMMA SlaveShapeHandle ==
    ASSUME SlaveShape, Handle
    PROVE  SlaveShape' /\ rx' = rx /\ late' = late
<1> DEFINE c == buffer[0]
           mine == c \in Char /\ Address(c)
           r == Reply(c)
<1>1. /\ outQ # <<>> /\ outQ' = Tail(outQ)
      /\ buffer' = IF mine THEN [i \in Index |-> IF i < Len(r) THEN r[i + 1] ELSE buffer[i]]
                   ELSE buffer
      /\ q' = Push(q, Buffer(IF mine THEN Len(r) ELSE 0))
      /\ turn' = turn /\ inputMsg' = inputMsg /\ bufferMsg' = bufferMsg /\ bufferI' = bufferI
      /\ rx' = rx /\ late' = late
  BY DEF Handle, isr
<1>2. outQ' \in Seq(Index) /\ Len(outQ') <= QueueSize
  BY <1>1, QueueMoves DEF SlaveShape
<1>3. mine => r \in Seq(Char) /\ Len(r) \in 1 .. BufferSize - 1
  BY ReplyAssumption
<1> HIDE DEF mine, r
<1>4. q' \in Seq(Message) /\ Len(q') <= QueueSize
  <2>1. (IF mine THEN Len(r) ELSE 0) \in Index
    BY <1>3, Margins DEF Index
  <2> QED
    BY <1>1, <2>1, PushKeeps, MessageKinds DEF SlaveShape
<1>5. buffer' \in [Index -> Char \cup {NoChar}]
  <2>1. CASE mine
    <3>1. \A i \in Index : i < Len(r) => r[i + 1] \in Char
      BY <1>3, <2>1, Margins DEF Index
    <3> QED
      BY <1>1, <2>1, <3>1 DEF SlaveShape
  <2>2. CASE ~mine
    BY <1>1, <2>2 DEF SlaveShape
  <2> QED
    BY <2>1, <2>2
<1> QED
  BY <1>1, <1>2, <1>4, <1>5 DEF SlaveShape

LEMMA ComeRoundEffect ==
    ASSUME ComeRound
    PROVE  /\ turn = "pduh" /\ outQ = <<>> /\ turn' = "tr" /\ late' = 0
           /\ pc' = pc /\ q' = q /\ outQ' = outQ /\ inputMsg' = inputMsg /\ bufferMsg' = bufferMsg
           /\ buffer' = buffer /\ bufferI' = bufferI /\ bufferMsgI' = bufferMsgI
           /\ alarms' = alarms /\ alarmCount' = alarmCount /\ tx' = tx /\ rx' = rx
  BY DEF ComeRound, frame, clock

\* A tick of the line, variable by variable.
LEMMA TickEffect ==
    ASSUME LinkTick
    PROVE  /\ Tick /\ late < MaxLate /\ ~(phase = "sending" /\ silence >= MaxGap)
           /\ pc' = pc /\ turn' = turn /\ outQ' = outQ /\ inputMsg' = inputMsg
           /\ bufferMsg' = bufferMsg /\ buffer' = buffer /\ bufferI' = bufferI
           /\ bufferMsgI' = bufferMsgI
           /\ rx' = FALSE /\ late' = late + 1
           /\ tx' = (IF tx = <<>> THEN tx ELSE Tail(tx))
           /\ reply' = (IF tx = <<>> THEN reply ELSE Append(reply, Head(tx)))
           /\ phase' = (IF phase = "waiting" /\ reply' = Full THEN "idle" ELSE phase)
           /\ silence' = (IF tx # <<>> THEN 0 ELSE IF silence < Quiet THEN silence + 1 ELSE silence)
           /\ request' = request /\ sent' = sent /\ noise' = noise
<1>1. phase' = (IF phase = "waiting" /\ reply' = Full THEN "idle" ELSE phase)
  BY DEF LinkTick, Full
<1>2. reply' = (IF tx = <<>> THEN reply ELSE Append(reply, Head(tx)))
  BY DEF LinkTick
<1>3. silence' = (IF tx # <<>> THEN 0 ELSE IF silence < Quiet THEN silence + 1 ELSE silence)
  BY DEF LinkTick
<1>4. Tick /\ late < MaxLate /\ ~(phase = "sending" /\ silence >= MaxGap)
  BY DEF LinkTick
<1>5. /\ pc' = pc /\ turn' = turn /\ outQ' = outQ /\ inputMsg' = inputMsg
      /\ bufferMsg' = bufferMsg /\ buffer' = buffer /\ bufferI' = bufferI
      /\ bufferMsgI' = bufferMsgI
      /\ rx' = FALSE /\ late' = late + 1
      /\ tx' = (IF tx = <<>> THEN tx ELSE Tail(tx))
  BY <1>4 DEF Tick, frame
<1>6. request' = request /\ sent' = sent /\ noise' = noise
  BY DEF LinkTick
<1> QED
  BY <1>1, <1>2, <1>3, <1>4, <1>5, <1>6

LEMMA ReceiveEffect ==
    ASSUME NEW c, Receive(c)
    PROVE  /\ ~rx /\ rx' = TRUE /\ q' = Push(q, Input(c))
           /\ pc' = pc /\ turn' = turn /\ outQ' = outQ /\ inputMsg' = inputMsg
           /\ bufferMsg' = bufferMsg /\ buffer' = buffer /\ bufferI' = bufferI
           /\ bufferMsgI' = bufferMsgI
           /\ alarms' = alarms /\ alarmCount' = alarmCount /\ tx' = tx /\ late' = late
  BY DEF Receive, frame, clock

LEMMA SlaveShapeReceive ==
    ASSUME SlaveShape, NEW c \in Char, Receive(c)
    PROVE  SlaveShape'
<1>1. q' \in Seq(Message) /\ Len(q') <= QueueSize
  BY ReceiveEffect, PushKeeps, MessageKinds DEF SlaveShape
<1> QED
  BY <1>1, ReceiveEffect DEF SlaveShape

\* What the master may send, and what it will get.
LEMMA RequestFacts ==
    ASSUME NEW r \in Request
    PROVE  /\ r.id \in 0 .. 1 /\ r.mine \in BOOLEAN
           /\ r.length \in 1 .. BufferSize - 1
           /\ (Address(Sent(r, 0)) <=> r.mine)
           /\ \A i \in 0 .. r.length - 1 : Sent(r, i) \in Char
           /\ Sent(r, 0) \in Char
           /\ Reply(Sent(r, 0)) \in Seq(Char) /\ Len(Reply(Sent(r, 0))) \in 1 .. BufferSize - 1
<1>1. r.id \in 0 .. 1 /\ r.mine \in BOOLEAN /\ r.length \in 1 .. BufferSize - 1
  BY LinkAssumption DEF Request
<1>2. 0 \in 0 .. r.length - 1
  BY <1>1, Margins
<1>3. /\ (Address(Sent(r, 0)) <=> r.mine)
      /\ \A i \in 0 .. r.length - 1 : Sent(r, i) \in Char
  BY SentAssumption
<1>4. Sent(r, 0) \in Char
  BY <1>2, <1>3
<1> QED
  BY <1>1, <1>3, <1>4, ReplyAssumption

\* The effect of what the line does.
LEMMA CrackleEffect ==
    ASSUME Crackle
    PROVE  /\ phase = "idle" /\ noise > 0 /\ silence <= MaxGap
           /\ \E c \in Noise : c \in Char /\ Receive(c)
           /\ silence' = 0 /\ noise' = noise - 1
           /\ request' = request /\ sent' = sent /\ phase' = phase /\ reply' = reply
<1>1. Noise \subseteq Char
  BY LinkAssumption
<1> QED
  BY <1>1 DEF Crackle

LEMMA SendNextEffect ==
    ASSUME SendNext, LineShape
    PROVE  /\ phase = "sending" /\ sent < request.length
           /\ Receive(Sent(request, sent)) /\ Sent(request, sent) \in Char
           /\ sent' = sent + 1 /\ silence' = 0
           /\ phase' = (IF sent + 1 < request.length THEN "sending"
                        ELSE IF request.mine THEN "waiting" ELSE "idle")
           /\ request' = request /\ reply' = reply /\ noise' = noise
<1>1. sent \in 0 .. request.length - 1
  BY RequestFacts DEF SendNext, LineShape
<1>2. Sent(request, sent) \in Char
  BY <1>1, RequestFacts DEF LineShape
<1> QED
  BY <1>2 DEF SendNext, LineShape

LEMMA AskEffect ==
    ASSUME NEW r \in Request, Ask(r), LineShape
    PROVE  /\ phase = "idle" /\ silence >= (IF request.mine THEN Between ELSE Quiet)
           /\ Receive(Sent(r, 0)) /\ Sent(r, 0) \in Char
           /\ request' = r /\ sent' = 1 /\ reply' = <<>> /\ silence' = 0 /\ noise' = 0
           /\ phase' = (IF 1 < r.length THEN "sending"
                        ELSE IF r.mine THEN "waiting" ELSE "idle")
<1>1. r.length > 1 <=> 1 < r.length
  BY RequestFacts
<1> QED
  BY <1>1, RequestFacts DEF Ask, Pause

\* The types of slave and line are kept by every step, whatever the stage.
LEMMA ShapeStep ==
    ASSUME Shape, Tables, LinkNext
    PROVE  Shape'
<1>1. SlaveShape /\ LineShape
  BY DEF Shape
<1>2. ASSUME SlaveShape', rx' = rx, late' = late, UNCHANGED master
      PROVE  Shape'
  BY <1>1, <1>2, MasterUnchanged DEF LineShape, Shape
<1>3. CASE Daemon /\ UNCHANGED master
  BY <1>1, <1>2, <1>3, SlaveShapeDaemon
<1>4. CASE Handle /\ UNCHANGED master
  BY <1>1, <1>2, <1>4, SlaveShapeHandle
<1>5. CASE ComeRound /\ UNCHANGED master
  <2>1. SlaveShape'
    BY <1>1, <1>5, ComeRoundEffect DEF SlaveShape
  <2>2. late' \in 0 .. MaxLate
    BY <1>5, ComeRoundEffect, Margins
  <2> QED
    BY <1>1, <1>5, <2>1, <2>2, ComeRoundEffect, MasterUnchanged DEF LineShape, Shape
<1>6. CASE LinkTick
  <2>1. q' \in Seq(Message) /\ Len(q') <= QueueSize
    <3>1. Tick /\ q \in Seq(Message) /\ Len(q) <= QueueSize
      BY <1>1, <1>6, TickEffect DEF SlaveShape
    <3>2. \E n \in Nat : q' = PushTimeouts(q, n)
      <4>1. DueBefore(alarms, 1) \in Nat
        <5>1. 1 \in Nat /\ alarms \in Seq(Alarm) /\ Len(alarms) \in Nat
          BY TableEntries DEF Tables
        <5>2. DueBefore(alarms, 1) \in 0 .. Len(alarms)
          BY <5>1, DueBeforeStops
        <5> QED
          BY <5>1, <5>2
      <4>2. q' = PushTimeouts(q, DueBefore(alarms, 1))
        BY <3>1 DEF Tick
      <4> QED
        BY <4>1, <4>2
    <3> QED
      BY <3>1, <3>2, TimeoutsBehind
  <2>2. SlaveShape'
    BY <1>1, <1>6, <2>1, TickEffect DEF SlaveShape
  <2>3. late' \in 0 .. MaxLate /\ silence' \in 0 .. Quiet
    BY <1>1, <1>6, TickEffect, Margins DEF LineShape
  <2>4. phase' = "sending" <=> phase = "sending"
    BY <1>6, TickEffect
  <2>5. phase = "sending" => silence' <= MaxGap
    BY <1>1, <1>6, TickEffect, Margins DEF LineShape
  <2>6. rx' \in BOOLEAN /\ phase' \in {"idle", phase}
    BY <1>6, TickEffect
  <2>7. reply' \in Seq(Char)
    <3>1. reply \in Seq(Char) /\ tx \in Seq(Char)
      BY <1>1 DEF LineShape, Tables
    <3>2. CASE tx = <<>>
      BY <1>6, <3>1, <3>2, TickEffect
    <3>3. CASE tx # <<>>
      <4>1. Head(tx) \in Char
        BY <3>1, <3>3, HeadTailProperties
      <4>2. Append(reply, Head(tx)) \in Seq(Char)
        BY <3>1, <4>1, AppendProperties
      <4> QED
        BY <1>6, <3>3, <4>2, TickEffect
    <3> QED
      BY <3>2, <3>3
  <2> QED
    BY <1>1, <1>6, <2>2, <2>3, <2>4, <2>5, <2>6, <2>7, TickEffect DEF LineShape, Shape
<1>7. CASE Crackle
  <2>1. PICK c \in Char : Receive(c)
    BY <1>7, CrackleEffect
  <2>2. SlaveShape' /\ rx' = TRUE /\ late' = late
    BY <1>1, <2>1, SlaveShapeReceive, ReceiveEffect
  <2>3. silence' \in 0 .. Quiet /\ silence' = 0 /\ noise' \in 0 .. MaxNoise
    BY <1>1, <1>7, CrackleEffect, Margins DEF LineShape
  <2> QED
    BY <1>1, <1>7, <2>2, <2>3, CrackleEffect, Margins DEF LineShape, Shape
<1>8. CASE SendNext
  <2>1. SlaveShape' /\ rx' = TRUE /\ late' = late
    BY <1>1, <1>8, SendNextEffect, SlaveShapeReceive, ReceiveEffect
  <2>2. silence' \in 0 .. Quiet /\ silence' <= MaxGap
    BY <1>8, <1>1, SendNextEffect, Margins
  <2>3. /\ sent' \in 1 .. request.length /\ (phase' = "sending" <=> sent' < request.length)
        /\ phase' \in {"idle", "sending", "waiting"} /\ (phase' = "waiting" => request.mine)
    BY <1>8, <1>1, SendNextEffect, RequestFacts DEF LineShape
  <2>4. noise' = noise /\ request' = request
    BY <1>8, <1>1, SendNextEffect
  <2> QED
    BY <1>1, <1>8, <2>1, <2>2, <2>3, <2>4, SendNextEffect DEF LineShape, Shape
<1>9. ASSUME NEW r \in Request, Ask(r) PROVE Shape'
  <2>1. SlaveShape' /\ rx' = TRUE /\ late' = late
    BY <1>1, <1>9, AskEffect, SlaveShapeReceive, ReceiveEffect
  <2>2. silence' \in 0 .. Quiet /\ silence' <= MaxGap /\ noise' \in 0 .. MaxNoise
    BY <1>9, <1>1, AskEffect, Margins
  <2>3. /\ sent' \in 1 .. r.length /\ (phase' = "sending" <=> sent' < r.length)
        /\ phase' \in {"idle", "sending", "waiting"} /\ (phase' = "waiting" => r.mine)
        /\ request' = r
    BY <1>9, <1>1, AskEffect, RequestFacts DEF LineShape
  <2>4. reply' \in Seq(Char)
    <3>1. <<>> \in Seq(Char)
      OBVIOUS
    <3> QED
      BY <1>9, <1>1, <3>1, AskEffect
  <2> QED
    BY <1>1, <2>1, <2>2, <2>3, <2>4 DEF LineShape, Shape
<1> QED
  BY <1>3, <1>4, <1>5, <1>6, <1>7, <1>8, <1>9, LinkSteps

-----------------------------------------------------------------------------
(* Latency, and what cannot happen where the slave is busy.                *)

\* How much time there is, at most.
LEMMA LatencyFacts ==
    ASSUME Shape
    PROVE  /\ late \in 0 .. MaxLate /\ Left \in 0 .. MaxLate /\ Left = MaxLate - late
           /\ Latency \in 0 .. 2 * MaxLate /\ Left <= Latency
           /\ turn = "tr" => Latency = Left
           /\ turn = "pduh" => Latency = Left + MaxLate
           /\ silence \in 0 .. Quiet /\ noise \in 0 .. MaxNoise
<1>1. late \in 0 .. MaxLate /\ turn \in {"tr", "pduh"} /\ silence \in 0 .. Quiet
      /\ noise \in 0 .. MaxNoise
  BY DEF Shape, SlaveShape, LineShape
<1> QED
  BY <1>1, Margins DEF Latency, Left

\* A tick uses up a part of it, ...
LEMMA LatencyTick ==
    ASSUME Shape, LinkTick
    PROVE  /\ Latency \in 1 .. 2 * MaxLate /\ Left \in 1 .. MaxLate
           /\ Latency' = Latency - 1 /\ Left' = Left - 1
<1>1. late' = late + 1 /\ turn' = turn /\ late < MaxLate
  BY TickEffect
<1>2. late \in 0 .. MaxLate /\ turn \in {"tr", "pduh"}
  BY DEF Shape, SlaveShape, LineShape
<1>3. Left' = MaxLate - late' /\ Latency' = IF turn' = "tr" THEN Left' ELSE Left' + MaxLate
  BY DEF Latency, Left
<1> QED
  BY <1>1, <1>2, <1>3, Margins DEF Latency, Left

\* ... and the main loop that comes round does not add to it.
LEMMA LatencyRound ==
    ASSUME Shape, ComeRound
    PROVE  Latency' = MaxLate /\ MaxLate <= Latency /\ Left' = MaxLate /\ turn = "pduh"
<1>1. late' = 0 /\ turn' = "tr" /\ turn = "pduh"
  BY ComeRoundEffect
<1>2. Left' = MaxLate - late' /\ Latency' = IF turn' = "tr" THEN Left' ELSE Left' + MaxLate
  BY DEF Latency, Left
<1> QED
  BY <1>1, <1>2, LatencyFacts, Margins

LEMMA LatencyKept ==
    ASSUME turn' = turn, late' = late
    PROVE  Latency' = Latency /\ Left' = Left
<1>1. Left' = MaxLate - late' /\ Latency' = IF turn' = "tr" THEN Left' ELSE Left' + MaxLate
  BY DEF Latency, Left
<1> QED
  BY <1>1 DEF Latency, Left

\* The same of the sums they are part of.
LEMMA TimesTick ==
    ASSUME Shape, LinkTick
    PROVE  \E l \in 1 .. 2 * MaxLate :
             /\ Latency = l /\ Latency' = l - 1
             /\ EndTime = l + Turnaround + 2 * MaxLate
             /\ EndTime' = l - 1 + Turnaround + 2 * MaxLate
             /\ FrameTime = l + Round + Turnaround + 2 * MaxLate
             /\ FrameTime' = l - 1 + Round + Turnaround + 2 * MaxLate
<1>1. PICK l \in 1 .. 2 * MaxLate : l = Latency
  BY LatencyTick
<1>2. Latency' = l - 1
  BY <1>1, LatencyTick
<1> QED
  BY <1>1, <1>2 DEF EndTime, FrameTime

LEMMA TimesRound ==
    ASSUME Shape, ComeRound
    PROVE  \E l \in 0 .. 2 * MaxLate, m \in 0 .. 2 * MaxLate :
             /\ m <= l /\ Latency = l /\ Latency' = m
             /\ EndTime = l + Turnaround + 2 * MaxLate
             /\ EndTime' = m + Turnaround + 2 * MaxLate
             /\ FrameTime = l + Round + Turnaround + 2 * MaxLate
             /\ FrameTime' = m + Round + Turnaround + 2 * MaxLate
<1>1. PICK l \in 0 .. 2 * MaxLate : l = Latency
  BY LatencyFacts
<1>2. PICK m \in 0 .. 2 * MaxLate : m = Latency' /\ m = MaxLate
  BY LatencyRound, Margins
<1>3. m <= l
  BY <1>1, <1>2, LatencyRound
<1> QED
  BY <1>1, <1>2, <1>3 DEF EndTime, FrameTime

LEMMA TimesKept ==
    ASSUME turn' = turn, late' = late
    PROVE  Latency' = Latency /\ Left' = Left /\ EndTime' = EndTime /\ FrameTime' = FrameTime
  BY LatencyKept DEF EndTime, FrameTime

LEMMA TimesNow ==
    ASSUME Shape
    PROVE  \E l \in 0 .. 2 * MaxLate :
             /\ Latency = l
             /\ EndTime = l + Turnaround + 2 * MaxLate
             /\ FrameTime = l + Round + Turnaround + 2 * MaxLate
<1>1. PICK l \in 0 .. 2 * MaxLate : l = Latency
  BY LatencyFacts
<1> QED
  BY <1>1 DEF EndTime, FrameTime

\* The master's variables and those of the line as they are between frames.
LEMMA SilentTick ==
    ASSUME Shape, Silent, LinkTick
    PROVE  /\ reply' = <<>> /\ tx' = <<>> /\ phase' = phase /\ Silent'
           /\ silence' \in silence .. silence + 1
           /\ silence < Quiet => silence' = silence + 1
<1>1. tx' = <<>> /\ reply' = <<>>
  BY TickEffect DEF Silent
<1>2. reply' # Full
  <2>1. request \in Request
    BY DEF Shape, LineShape
  <2>2. Len(Full) \in 1 .. BufferSize - 1
    BY <2>1, RequestFacts DEF Full
  <2>3. Len(<<>>) = 0
    OBVIOUS
  <2> QED
    BY <1>1, <2>2, <2>3, Margins
<1>3. phase' = phase
  BY <1>2, TickEffect
<1>4. silence' \in silence .. silence + 1 /\ (silence < Quiet => silence' = silence + 1)
  BY TickEffect, LatencyFacts, Margins DEF Silent
<1> QED
  BY <1>1, <1>3, <1>4 DEF Silent

\* While the slave has a frame the master does not talk.
LEMMA MasterQuiet ==
    ASSUME Shape, Out, noise = 0, NEW n \in Nat, Within(n)
    PROVE  ~Crackle /\ ~SendNext /\ \A r \in Request : ~Ask(r)
<1>1. ~Crackle
  BY CrackleEffect, Margins
<1>2. ~SendNext
  BY DEF SendNext, Out
<1>3. \A r \in Request : ~Ask(r)
  <2> SUFFICES ASSUME NEW r \in Request, Ask(r) PROVE FALSE
    OBVIOUS
  <2>1. phase = "idle" /\ silence >= (IF request.mine THEN Between ELSE Quiet)
    BY AskEffect DEF Shape
  <2>2. ~request.mine
    BY <2>1 DEF Out
  <2>3. silence + n < Quiet
    BY <2>1 DEF Within
  <2> QED
    BY <2>1, <2>2, <2>3, LatencyFacts, Margins
<1> QED
  BY <1>1, <1>2, <1>3

LEMMA LessStill ==
    \A a, b, n, m \in Nat : a + n < Quiet /\ b + m <= a + n => b + m < Quiet
  BY Margins

LEMMA WithinKept ==
    ASSUME Shape, NEW n \in Nat, NEW m \in Nat, m <= n, Within(n), phase' = phase, silence' = silence
    PROVE  phase' = "idle" => silence' + m < Quiet
<1>1. PICK s \in Nat : s = silence
  BY LatencyFacts, Margins
<1>2. phase' = "idle" => s + n < Quiet
  BY <1>1 DEF Within
<1>3. phase' = "idle" => s + m < Quiet
  BY <1>2, Margins
<1> QED
  BY <1>1, <1>3

LEMMA WithinTick ==
    ASSUME Shape, Silent, LinkTick, NEW n \in Nat, NEW m \in Nat, m + 1 <= n, Within(n)
    PROVE  phase' = "idle" => silence' + m < Quiet
<1>1. PICK s \in Nat : s = silence
  BY LatencyFacts, Margins
<1>2. PICK s1 \in s .. s + 1 : s1 = silence'
  BY <1>1, SilentTick
<1>3. phase = "idle" => s + n < Quiet
  BY <1>1 DEF Within
<1>4. s1 \in s .. s + 1
  OBVIOUS
<1>5. phase = "idle" => s1 + m < Quiet
  BY <1>3, <1>4, Margins
<1> QED
  BY <1>2, <1>5, SilentTick, Zenon

\* What is promised of a time is kept when the time shortens, ...
LEMMA EndTimeRound ==
    ASSUME Shape, ComeRound, UNCHANGED master
    PROVE  /\ (Within(Latency) => Within(Latency)')
           /\ (Within(EndTime) => Within(EndTime)')
           /\ (Within(FrameTime) => Within(FrameTime)')
<1>1. PICK l \in 0 .. 2 * MaxLate, m \in 0 .. 2 * MaxLate :
             /\ m <= l /\ Latency = l /\ Latency' = m
             /\ EndTime = l + Turnaround + 2 * MaxLate
             /\ EndTime' = m + Turnaround + 2 * MaxLate
             /\ FrameTime = l + Round + Turnaround + 2 * MaxLate
             /\ FrameTime' = m + Round + Turnaround + 2 * MaxLate
  BY TimesRound
<1>2. phase' = phase /\ silence' = silence
  BY MasterUnchanged
<1>3. ASSUME NEW a \in Nat, NEW b \in Nat, b <= a, Within(a) PROVE phase' = "idle" => silence' + b < Quiet
  BY <1>2, <1>3, WithinKept
<1>4. m <= l
  BY <1>1
<1>5. /\ l \in Nat /\ l + Turnaround + 2 * MaxLate \in Nat
      /\ l + Round + Turnaround + 2 * MaxLate \in Nat
      /\ m \in Nat /\ m + Turnaround + 2 * MaxLate \in Nat
      /\ m + Round + Turnaround + 2 * MaxLate \in Nat
      /\ m + Turnaround + 2 * MaxLate <= l + Turnaround + 2 * MaxLate
      /\ m + Round + Turnaround + 2 * MaxLate <= l + Round + Turnaround + 2 * MaxLate
  BY <1>4, Margins
<1>6. Within(Latency) => Within(Latency)'
  BY <1>1, <1>3, <1>5, Zenon DEF Within
<1>7. Within(EndTime) => Within(EndTime)'
  BY <1>1, <1>3, <1>5, Zenon DEF Within
<1>8. Within(FrameTime) => Within(FrameTime)'
  BY <1>1, <1>3, <1>5, Zenon DEF Within
<1> QED
  BY <1>6, <1>7, <1>8

LEMMA EndTimeTick ==
    ASSUME Shape, Silent, LinkTick
    PROVE  /\ (Within(Latency) => Within(Latency)')
           /\ (Within(EndTime) => Within(EndTime)')
           /\ (Within(FrameTime) => Within(FrameTime)')
<1>1. PICK l \in 1 .. 2 * MaxLate :
             /\ Latency = l /\ Latency' = l - 1
             /\ EndTime = l + Turnaround + 2 * MaxLate
             /\ EndTime' = l - 1 + Turnaround + 2 * MaxLate
             /\ FrameTime = l + Round + Turnaround + 2 * MaxLate
             /\ FrameTime' = l - 1 + Round + Turnaround + 2 * MaxLate
  BY TimesTick
<1>3. ASSUME NEW a \in Nat, NEW b \in Nat, b + 1 <= a, Within(a) PROVE phase' = "idle" => silence' + b < Quiet
  BY <1>3, WithinTick
<1>5. /\ l \in Nat /\ l + Turnaround + 2 * MaxLate \in Nat
      /\ l + Round + Turnaround + 2 * MaxLate \in Nat
      /\ l - 1 \in Nat /\ l - 1 + Turnaround + 2 * MaxLate \in Nat
      /\ l - 1 + Round + Turnaround + 2 * MaxLate \in Nat
      /\ (l - 1) + 1 <= l
      /\ (l - 1 + Turnaround + 2 * MaxLate) + 1 <= l + Turnaround + 2 * MaxLate
      /\ (l - 1 + Round + Turnaround + 2 * MaxLate) + 1 <= l + Round + Turnaround + 2 * MaxLate
  BY Margins
<1>6. Within(Latency) => Within(Latency)'
  BY <1>1, <1>3, <1>5, Zenon DEF Within
<1>7. Within(EndTime) => Within(EndTime)'
  BY <1>1, <1>3, <1>5, Zenon DEF Within
<1>8. Within(FrameTime) => Within(FrameTime)'
  BY <1>1, <1>3, <1>5, Zenon DEF Within
<1> QED
  BY <1>6, <1>7, <1>8

LEMMA TablesOfNone ==
    ASSUME tx' \in Seq(Char), Len(tx') <= TxSize, alarms' = <<>>, alarmCount' = 0
    PROVE  Tables'
  BY Margins DEF Tables

LEMMA TablesOfOne ==
    ASSUME tx' \in Seq(Char), Len(tx') <= TxSize,
           NEW w \in 0 .. InterFrame, alarms' = Timer(w), alarmCount' = 1
    PROVE  Tables'
<1>1. Len(alarms') = 1 /\ alarms' \in Seq(Alarm)
  BY TimerShape
<1> QED
  BY <1>1, Margins DEF Tables

LEMMA NoTx == <<>> \in Seq(Char) /\ Len(<<>>) <= TxSize
  BY Margins

-----------------------------------------------------------------------------
(* The end of a frame.                                                     *)

\* After its last character the frame waits for its timeout, and is handed over.
LEMMA EndedStep ==
    ASSUME Shape, Tables, Ended, LinkNext
    PROVE  Tables' /\ (Ended' \/ Handed')
<1>0. /\ alarms = <<>> /\ alarmCount = 0 /\ outQ = <<>> /\ noise = 0 /\ Silent /\ Out
      /\ tx = <<>> /\ bufferI = request.length /\ Begun
      /\ Within(EndTime)
  BY DEF Ended, Silent, Tables
<1>1. ~Crackle /\ ~SendNext /\ \A r \in Request : ~Ask(r)
  <2>1. EndTime \in Nat
    BY TimesNow, Margins
  <2> QED
    BY <1>0, <2>1, MasterQuiet
<1>2. CASE Daemon /\ UNCHANGED master
  <2>1. CASE Reception /\ pc = "reception"
    <3>1. q = <<Timeout>> /\ turn = "tr"
      BY <1>2, <2>1, DaemonPlaces DEF Ended
    <3>2. Head(q).tag = "timeout" /\ Tail(q) = <<>> /\ q # <<>>
      BY <3>1 DEF Timeout
    <3>3. pc' = "reception_out" /\ q' = <<>> /\ turn' = turn
      BY <2>1, <3>2, WaitsNext, WaitStep DEF Reception
    <3>4. /\ outQ' = outQ /\ buffer' = buffer /\ bufferI' = bufferI /\ late' = late
          /\ alarms' = alarms /\ alarmCount' = alarmCount /\ tx' = tx
      BY <2>1, WaitStep DEF Reception
    <3>5. EndTime' = EndTime
      BY <3>3, <3>4, TimesKept
    <3>6. Ended'
      BY <1>0, <1>2, <3>1, <3>3, <3>4, <3>5, MasterUnchanged DEF Ended, Silent, Out, Begun, Within
    <3> QED
      BY <1>0, <3>4, <3>6, NoTx, TablesOfNone
  <2>2. CASE ReceptionOut /\ pc = "reception_out"
    <3>1. /\ pc' = "processing" /\ turn' = turn /\ turn = "tr" /\ q' = q /\ q = <<>>
          /\ outQ' = Push(outQ, bufferI)
          /\ bufferI' = 0 /\ buffer' = buffer /\ SetAlarm(Turnaround, FALSE)
          /\ tx' = tx /\ late' = late
      BY <1>2, <2>2, DaemonPlaces DEF ReceptionOut, ClockAt, Ended, isr
    <3>2. alarms' = Timer(Turnaround) /\ alarmCount' = 1
      <4>1. Turnaround \in 0 .. InterFrame
        BY Margins
      <4> QED
        BY <1>0, <3>1, <4>1, TimerSet
    <3>3. outQ' = <<request.length>>
      <4>1. Push(<<>>, bufferI) = Append(<<>>, bufferI)
        BY Margins DEF Push
      <4> QED
        BY <1>0, <3>1, <4>1
    <3>4. Left' <= Turnaround /\ Turnaround \in 0 .. Turnaround
      BY <3>1, LatencyKept, LatencyFacts, Margins
    <3>5. Within(Turnaround + 2 * MaxLate)
      <4>1. PICK l \in 0 .. 2 * MaxLate : EndTime = l + Turnaround + 2 * MaxLate
        BY TimesNow
      <4>2. PICK s \in Nat : s = silence
        BY LatencyFacts, Margins
      <4>3. phase = "idle" => s + (l + Turnaround + 2 * MaxLate) < Quiet
        BY <1>0, <4>1, <4>2, Zenon DEF Within
      <4>4. phase = "idle" => s + (Turnaround + 2 * MaxLate) < Quiet
        BY <4>3, Margins
      <4> QED
        BY <4>2, <4>4 DEF Within
    <3>6. /\ request' = request /\ phase' = phase /\ silence' = silence /\ noise' = noise
          /\ reply' = reply
      BY <1>2, MasterUnchanged
    <3>7. \A i \in 0 .. request.length - 1 : buffer'[i] = Sent(request, i)
      BY <1>0, <3>1 DEF Begun
    <3>8. Handed'
      <4>1. Within(Turnaround + 2 * MaxLate)'
        BY <3>5, <3>6 DEF Within
      <4>2. \E w \in 0 .. Turnaround : alarms' = Timer(w) /\ w >= Left' /\ Within(w + 2 * MaxLate)'
        BY <3>2, <3>4, <4>1
      <4> QED
        BY <1>0, <3>1, <3>3, <3>6, <3>7, <4>2 DEF Handed, Silent, Out
    <3>9. Turnaround \in 0 .. InterFrame
      BY Margins
    <3> QED
      BY <1>0, <3>1, <3>2, <3>8, <3>9, NoTx, TablesOfOne
  <2> QED
    BY <1>2, <2>1, <2>2, DaemonPlaces DEF Ended
<1>3. CASE Handle /\ UNCHANGED master
  BY <1>0, <1>3 DEF Handle
<1>4. CASE ComeRound /\ UNCHANGED master
  <2>1. pc = "reception" /\ q = <<Timeout>>
    BY <1>4, LatencyRound DEF Ended
  <2>2. Within(EndTime)'
    BY <1>0, <1>4, EndTimeRound
  <2>3. Ended'
    BY <1>0, <1>4, <2>1, <2>2, ComeRoundEffect, MasterUnchanged DEF Ended, Silent, Out, Begun
  <2> QED
    BY <1>0, <1>4, <2>3, ComeRoundEffect, NoTx, TablesOfNone
<1>5. CASE LinkTick
  <2>1. alarms' = <<>> /\ alarmCount' = 0 /\ q' = q
    BY <1>0, <1>5, TickEffect, TickNone DEF Shape, SlaveShape
  <2>2. reply' = <<>> /\ tx' = <<>> /\ phase' = phase /\ Silent'
    BY <1>0, <1>5, SilentTick
  <2>3. Within(EndTime)'
    BY <1>0, <1>5, EndTimeTick
  <2>4. Ended'
    BY <1>0, <1>5, <2>1, <2>2, <2>3, TickEffect DEF Ended, Out, Begun
  <2> QED
    BY <2>1, <2>2, <2>4, NoTx, TablesOfNone
<1> QED
  BY <1>1, <1>2, <1>3, <1>4, <1>5, LinkSteps

LEMMA LeftKept == ASSUME late' = late PROVE Left' = Left
<1>1. Left' = MaxLate - late'
  BY DEF Left
<1> QED
  BY <1>1 DEF Left

\* A wait on an empty queue only gives way.
LEMMA WaitEmpty ==
    ASSUME NEW label, NEW next, WaitAt(label, next), q = <<>>
    PROVE  /\ turn' = "pduh" /\ pc' = pc /\ q' = q /\ outQ' = outQ
           /\ inputMsg' = inputMsg /\ bufferMsg' = bufferMsg /\ bufferMsgI' = bufferMsgI
           /\ buffer' = buffer /\ bufferI' = bufferI
           /\ alarms' = alarms /\ alarmCount' = alarmCount /\ tx' = tx /\ rx' = rx /\ late' = late
           /\ Left' = Left
  BY WaitStep, LeftKept

LEMMA FullFacts ==
    ASSUME Shape
    PROVE  /\ request \in Request /\ Full \in Seq(Char) /\ Len(Full) \in 1 .. BufferSize - 1
           /\ Full # <<>> /\ Len(Full) \in Index /\ 0 \in Index
           /\ request.length \in 1 .. BufferSize - 1
<1>1. request \in Request
  BY DEF Shape, LineShape
<1>2. Full \in Seq(Char) /\ Len(Full) \in 1 .. BufferSize - 1 /\ request.length \in 1 .. BufferSize - 1
  BY <1>1, RequestFacts DEF Full
<1>3. Len(<<>>) = 0
  OBVIOUS
<1> QED
  BY <1>1, <1>2, <1>3, Margins DEF Index

\* The times of a timer.
LEMMA WithinRuns ==
    ASSUME Shape, Silent, LinkTick, NEW w \in Nat, w > 0, NEW k \in Nat, Within(w + k)
    PROVE  phase' = "idle" => silence' + (w - 1 + k) < Quiet
<1>1. w + k \in Nat /\ w - 1 + k \in Nat /\ (w - 1 + k) + 1 <= w + k
  OBVIOUS
<1> QED
  BY <1>1, WithinTick

LEMMA WithinExpires ==
    ASSUME Shape, Silent, LinkTick, Within(0 + 2 * MaxLate)
    PROVE  Within(Latency)'
<1>1. PICK l \in 1 .. 2 * MaxLate : Latency' = l - 1
  BY TimesTick
<1>2. 0 + 2 * MaxLate \in Nat /\ l - 1 \in Nat /\ (l - 1) + 1 <= 0 + 2 * MaxLate
  BY Margins
<1>3. phase' = "idle" => silence' + (l - 1) < Quiet
  BY <1>2, WithinTick
<1> QED
  BY <1>1, <1>3 DEF Within

\* The PDU handler finds the frame as it was sent, and puts its answer there.
LEMMA HandedStep ==
    ASSUME Shape, Tables, Handed, LinkNext
    PROVE  Tables' /\ (Handed' \/ Executed')
<1>0. /\ pc = "processing" /\ q = <<>> /\ outQ = <<request.length>> /\ noise = 0 /\ Silent /\ Out
      /\ tx = <<>> /\ bufferI = 0
      /\ \A i \in 0 .. request.length - 1 : buffer[i] = Sent(request, i)
  BY DEF Handed, Silent
<1>1. PICK w \in 0 .. Turnaround : alarms = Timer(w) /\ w >= Left /\ Within(w + 2 * MaxLate)
  BY DEF Handed
<1>2. w \in 0 .. InterFrame /\ w \in Nat /\ w + 2 * MaxLate \in Nat
  BY Margins
<1>3. alarmCount = 1
  BY <1>1, <1>2, TimerShape DEF Tables
<1>4. ~Crackle /\ ~SendNext /\ \A r \in Request : ~Ask(r)
  BY <1>0, <1>1, <1>2, MasterQuiet
<1>5. CASE Daemon /\ UNCHANGED master
  <2>1. Processing
    BY <1>0, <1>5, DaemonPlaces
  <2>2. /\ turn' = "pduh" /\ pc' = pc /\ q' = q /\ outQ' = outQ /\ buffer' = buffer
        /\ bufferI' = bufferI /\ alarms' = alarms /\ alarmCount' = alarmCount /\ tx' = tx
        /\ Left' = Left
    BY <1>0, <2>1, WaitEmpty DEF Processing
  <2>3. Within(w + 2 * MaxLate)'
    BY <1>1, <1>5, MasterUnchanged DEF Within
  <2>4. \E v \in 0 .. Turnaround : alarms' = Timer(v) /\ v >= Left' /\ Within(v + 2 * MaxLate)'
    BY <1>1, <2>2, <2>3
  <2>5. Handed'
    BY <1>0, <1>5, <2>2, <2>4, MasterUnchanged DEF Handed, Silent, Out
  <2> QED
    BY <1>0, <1>1, <1>2, <1>3, <2>2, <2>5, NoTx, TablesOfOne
<1>6. CASE Handle /\ UNCHANGED master
  <2> DEFINE c == buffer[0]
             mine == c \in Char /\ Address(c)
             r == Reply(c)
  <2>1. /\ outQ' = Tail(outQ)
        /\ buffer' = IF mine THEN [i \in Index |-> IF i < Len(r) THEN r[i + 1] ELSE buffer[i]]
                     ELSE buffer
        /\ q' = Push(q, Buffer(IF mine THEN Len(r) ELSE 0))
        /\ pc' = pc /\ bufferI' = bufferI /\ alarms' = alarms /\ alarmCount' = alarmCount /\ tx' = tx
    BY <1>6 DEF Handle, clock, isr
  <2>2. /\ request' = request /\ phase' = phase /\ silence' = silence /\ noise' = noise
        /\ reply' = reply
    BY <1>6, MasterUnchanged
  <2>3. c = Sent(request, 0) /\ c \in Char /\ r = Full
    <3>1. 0 \in 0 .. request.length - 1
      BY FullFacts, Margins
    <3>2. c = Sent(request, 0)
      BY <1>0, <3>1
    <3> QED
      BY <3>2, FullFacts, RequestFacts DEF Full
  <2>4. mine <=> request.mine
    BY <2>3, FullFacts, RequestFacts
  <2> HIDE DEF c, mine, r
  <2>5. q' = <<Buffer(Size)>>
    <3>1. Push(<<>>, Buffer(Size)) = <<Buffer(Size)>>
      BY Margins DEF Push
    <3>2. (IF mine THEN Len(r) ELSE 0) = Size
      BY <2>3, <2>4 DEF Size
    <3> QED
      BY <1>0, <2>1, <3>1, <3>2
  <2>6. request.mine => \A i \in 1 .. Len(Full) : buffer'[i - 1] = Full[i]
    <3> SUFFICES ASSUME request.mine, NEW i \in 1 .. Len(Full) PROVE buffer'[i - 1] = Full[i]
      OBVIOUS
    <3>1. i - 1 \in Index /\ i - 1 < Len(Full) /\ (i - 1) + 1 = i
      BY FullFacts, Margins DEF Index
    <3>2. buffer' = [j \in Index |-> IF j < Len(Full) THEN Full[j + 1] ELSE buffer[j]]
      BY <2>1, <2>3, <2>4
    <3>3. buffer'[i - 1] = Full[(i - 1) + 1]
      BY <3>1, <3>2
    <3> QED
      BY <3>1, <3>3
  <2>7. outQ' = <<>>
    BY <1>0, <2>1
  <2>8. Full' = Full /\ Size' = Size
    BY <2>2 DEF Full, Size
  <2>9. ReplyStored'
    BY <2>2, <2>6, <2>8 DEF ReplyStored
  <2>10. Within(w + 2 * MaxLate)'
    BY <1>1, <2>2 DEF Within
  <2>11. Executed'
    BY <1>0, <1>1, <2>1, <2>2, <2>5, <2>7, <2>8, <2>9, <2>10 DEF Executed, Silent, Out
  <2> QED
    BY <1>0, <1>1, <1>2, <1>3, <2>1, <2>11, NoTx, TablesOfOne
<1>7. CASE ComeRound /\ UNCHANGED master
  BY <1>0, <1>7, ComeRoundEffect
<1>8. CASE LinkTick
  <2>1. w \in 1 .. InterFrame /\ w - 1 \in 0 .. Turnaround /\ w - 1 >= Left'
        /\ w - 1 \in 0 .. InterFrame
    <3>1. PICK l \in 1 .. MaxLate : l = Left /\ Left' = l - 1
      BY <1>8, LatencyTick
    <3>2. w >= l
      BY <1>1, <3>1
    <3>3. w \in 1 .. InterFrame /\ w - 1 \in 0 .. Turnaround /\ w - 1 >= l - 1
          /\ w - 1 \in 0 .. InterFrame
      BY <1>2, <3>2, Margins
    <3> QED
      BY <3>1, <3>3
  <2>2. alarms' = Timer(w - 1) /\ alarmCount' = 1 /\ q' = q
    BY <1>1, <1>3, <1>8, <2>1, TickEffect, TickRuns DEF Shape, SlaveShape
  <2>3. reply' = <<>> /\ tx' = <<>> /\ phase' = phase /\ Silent'
    BY <1>0, <1>8, SilentTick
  <2>4. Within((w - 1) + 2 * MaxLate)'
    <3>1. w > 0 /\ 2 * MaxLate \in Nat
      BY <2>1, Margins
    <3> QED
      BY <1>0, <1>1, <1>2, <1>8, <3>1, WithinRuns DEF Within
  <2>5. Handed'
    BY <1>0, <1>8, <2>1, <2>2, <2>3, <2>4, TickEffect DEF Handed, Out
  <2> QED
    BY <2>1, <2>2, <2>3, <2>5, NoTx, TablesOfOne
<1> QED
  BY <1>4, <1>5, <1>6, <1>7, <1>8, LinkSteps

LEMMA AppendTo ==
    ASSUME NEW b, NEW t
    PROVE  Append(<<b>>, t) = <<b, t>> /\ Append(<<>>, t) = <<t>>
<1>1. <<b>> \in Seq({b, t}) /\ <<>> \in Seq({b, t}) /\ Len(<<b>>) = 1 /\ Len(<<>>) = 0 /\ <<b>>[1] = b
  OBVIOUS
<1>2. /\ Append(<<b>>, t) \in Seq({b, t}) /\ Len(Append(<<b>>, t)) = 2
      /\ Append(<<b>>, t)[1] = b /\ Append(<<b>>, t)[2] = t
      /\ Append(<<>>, t) \in Seq({b, t}) /\ Len(Append(<<>>, t)) = 1 /\ Append(<<>>, t)[1] = t
  BY <1>1, AppendProperties
<1>3. /\ <<b, t>> \in Seq({b, t}) /\ Len(<<b, t>>) = 2 /\ <<b, t>>[1] = b /\ <<b, t>>[2] = t
      /\ <<t>> \in Seq({b, t}) /\ Len(<<t>>) = 1 /\ <<t>>[1] = t
  OBVIOUS
<1> DEFINE x == Append(<<b>>, t)
           y == <<b, t>>
           u == Append(<<>>, t)
           v == <<t>>
<1> HIDE DEF x, y, u, v
<1>4. x \in Seq({b, t}) /\ y \in Seq({b, t}) /\ Len(x) = Len(y) /\ Len(x) = 2 /\ x[1] = y[1] /\ x[2] = y[2]
  BY <1>2, <1>3 DEF x, y
<1>5. u \in Seq({b, t}) /\ v \in Seq({b, t}) /\ Len(u) = Len(v) /\ Len(u) = 1 /\ u[1] = v[1]
  BY <1>2, <1>3 DEF u, v
<1>6. \A i \in 1 .. Len(x) : x[i] = y[i]
  BY <1>4
<1>7. \A i \in 1 .. Len(u) : u[i] = v[i]
  BY <1>5
<1>8. x = y /\ u = v
  BY <1>4, <1>5, <1>6, <1>7, SeqEqual
<1> QED
  BY <1>8 DEF x, y, u, v

LEMMA StoredKept ==
    ASSUME request' = request
    PROVE  /\ Full' = Full /\ Size' = Size
           /\ buffer' = buffer /\ ReplyStored => ReplyStored'
  BY DEF Full, Size, ReplyStored

\* The turn-around timer may go off before or after the answer is in the queue.
LEMMA ExecutedTick ==
    ASSUME Shape, Tables, Executed, LinkTick
    PROVE  Tables' /\ Executed'
<1>0. outQ = <<>> /\ noise = 0 /\ Silent /\ Out /\ tx = <<>> /\ bufferI = 0 /\ ReplyStored
  BY DEF Executed, Silent
<1>1. /\ reply' = <<>> /\ tx' = <<>> /\ phase' = phase /\ Silent'
      /\ pc' = pc /\ turn' = turn /\ outQ' = outQ /\ bufferMsg' = bufferMsg /\ buffer' = buffer
      /\ bufferI' = bufferI /\ request' = request /\ noise' = noise /\ Tick
      /\ q \in Seq(Message) /\ Len(q) <= QueueSize
  BY <1>0, SilentTick, TickEffect DEF Shape, SlaveShape
<1>2. Out' /\ ReplyStored' /\ Size' = Size
  BY <1>0, <1>1, StoredKept DEF Out
<1>3. ASSUME NEW w \in 0 .. Turnaround, alarms = Timer(w), Within(w + 2 * MaxLate),
             \/ pc = "processing" /\ q = <<Buffer(Size)>>
             \/ pc = "processing_timeout" /\ q = <<>> /\ bufferMsg = Size
      PROVE  Tables' /\ Executed'
  <2>00. w \in 0 .. InterFrame /\ w \in Nat
    BY Margins
  <2>0. w \in 0 .. InterFrame /\ w \in Nat /\ alarmCount = 1
    BY <1>3, <2>00, TimerShape DEF Tables
  <2>1. CASE w = 0
    <3>1. Len(q) < QueueSize
      <4>1. MaxLate >= 1 /\ 2 * MaxLate < QueueSize
        BY LatencyTick, LatencyFacts, Margins
      <4>2. Len(q) <= 1
        <5>1. Len(<<Buffer(Size)>>) = 1 /\ Len(<<>>) = 0
          OBVIOUS
        <5>2. Len(q) \in {0, 1}
          BY <1>3, <5>1, Zenon
        <5>3. \A n \in {0, 1} : n <= 1
          OBVIOUS
        <5> QED
          BY <5>2, <5>3, Zenon
      <4> QED
        BY <4>1, <4>2, Margins
    <3>2. alarms' = <<>> /\ alarmCount' = 0 /\ q' = Append(q, Timeout)
      BY <1>1, <1>3, <2>0, <2>1, <3>1, TickExpires
    <3>3. \/ pc = "processing" /\ q' = <<Buffer(Size), Timeout>>
          \/ pc = "processing_timeout" /\ q' = <<Timeout>> /\ bufferMsg = Size
      <4>2. Append(<<Buffer(Size)>>, Timeout) = <<Buffer(Size), Timeout>>
            /\ Append(<<>>, Timeout) = <<Timeout>>
        BY AppendTo
      <4>3. CASE pc = "processing" /\ q = <<Buffer(Size)>>
        BY <3>2, <4>2, <4>3
      <4>4. CASE pc = "processing_timeout" /\ q = <<>> /\ bufferMsg = Size
        BY <3>2, <4>2, <4>4
      <4> QED
        BY <1>3, <4>3, <4>4
    <3>4. Within(Latency)'
      BY <1>0, <1>3, <2>1, WithinExpires
    <3>5. Executed'
      BY <1>0, <1>1, <1>2, <3>2, <3>3, <3>4 DEF Executed
    <3> QED
      BY <1>1, <3>2, <3>5, NoTx, TablesOfNone
  <2>2. CASE w # 0
    <3>1. w \in 1 .. InterFrame /\ w > 0 /\ w - 1 \in 0 .. Turnaround /\ w - 1 \in 0 .. InterFrame
          /\ 2 * MaxLate \in Nat
      BY <2>0, <2>2, Margins
    <3>2. alarms' = Timer(w - 1) /\ alarmCount' = 1 /\ q' = q
      BY <1>1, <1>3, <2>0, <3>1, TickRuns
    <3>3. Within((w - 1) + 2 * MaxLate)'
      BY <1>0, <1>3, <2>0, <3>1, WithinRuns DEF Within
    <3>4. Executed'
      BY <1>0, <1>1, <1>2, <1>3, <3>1, <3>2, <3>3 DEF Executed
    <3> QED
      BY <1>1, <3>1, <3>2, <3>4, NoTx, TablesOfOne
  <2> QED
    BY <2>1, <2>2
<1>4. ASSUME alarms = <<>>, Within(Latency),
             \/ pc = "processing" /\ q = <<Buffer(Size), Timeout>>
             \/ pc = "processing_timeout" /\ q = <<Timeout>> /\ bufferMsg = Size
             \/ pc = "processing_push" /\ q = <<>> /\ bufferMsg = Size /\ turn = "tr"
             \/ pc = "ready" /\ q = <<Buffer(Size)>> /\ turn = "tr"
             \/ pc = "must_transmit" /\ q = <<>> /\ bufferMsg = Size /\ turn = "tr"
      PROVE  Tables' /\ Executed'
  <2>1. alarmCount = 0
    BY <1>4 DEF Tables
  <2>2. alarms' = <<>> /\ alarmCount' = 0 /\ q' = q
    BY <1>1, <1>4, <2>1, TickNone
  <2>3. Within(Latency)'
    BY <1>0, <1>4, EndTimeTick
  <2>4. Executed'
    BY <1>0, <1>1, <1>2, <1>4, <2>2, <2>3 DEF Executed
  <2> QED
    BY <1>1, <2>2, <2>4, NoTx, TablesOfNone
<1> QED
  BY <1>3, <1>4 DEF Executed

\* Answer and timeout meet in either order; then there is a reply to emit, or none.
LEMMA ExecutedStep ==
    ASSUME Shape, Tables, Executed, LinkNext
    PROVE  Tables' /\ (Executed' \/ Emitting' \/ Resting')
<1>0. outQ = <<>> /\ noise = 0 /\ Silent /\ Out /\ tx = <<>> /\ reply = <<>> /\ bufferI = 0 /\ ReplyStored
  BY DEF Executed, Silent
<1>1. ~Crackle /\ ~SendNext /\ \A r \in Request : ~Ask(r)
  <2>1. \E n \in Nat : Within(n)
    <3>1. \A w \in 0 .. Turnaround : w + 2 * MaxLate \in Nat
      BY Margins
    <3>2. Latency \in Nat
      BY LatencyFacts, Margins
    <3> QED
      BY <3>1, <3>2 DEF Executed
  <2> QED
    BY <1>0, <2>1, MasterQuiet
<1>2. ASSUME UNCHANGED master
      PROVE  /\ request' = request /\ sent' = sent /\ phase' = phase /\ reply' = reply
             /\ silence' = silence /\ noise' = noise /\ Out' /\ Size' = Size /\ Full' = Full
             /\ buffer' = buffer => ReplyStored'
             /\ tx' = tx => Silent'
             /\ Latency' = Latency => (Within(Latency) => Within(Latency)')
             /\ \A w : Within(w + 2 * MaxLate) => Within(w + 2 * MaxLate)'
  BY <1>0, <1>2, MasterUnchanged, StoredKept DEF Out, Within, Silent
<1>3. CASE Daemon /\ UNCHANGED master
  <2>0. turn = "tr"
    BY <1>3, DaemonPlaces
  <2>1. ASSUME NEW w \in 0 .. Turnaround, alarms = Timer(w), Within(w + 2 * MaxLate),
               \/ pc = "processing" /\ q = <<Buffer(Size)>>
               \/ pc = "processing_timeout" /\ q = <<>> /\ bufferMsg = Size
        PROVE  Tables' /\ Executed'
    <3>00. w \in 0 .. InterFrame
      BY Margins
    <3>0. w \in 0 .. InterFrame /\ alarmCount = 1
      BY <2>1, <3>00, TimerShape DEF Tables
    <3>1. CASE pc = "processing" /\ q = <<Buffer(Size)>>
      <4>1. Processing
        BY <1>3, <3>1, DaemonPlaces
      <4>2. q # <<>> /\ Head(q) = Buffer(Size) /\ Head(q).tag = "buffer" /\ Tail(q) = <<>>
            /\ Head(q).size = Size /\ "buffer" # "char"
        BY <3>1 DEF Buffer
      <4>3. /\ pc' = "processing_timeout" /\ q' = <<>> /\ turn' = turn
            /\ outQ' = outQ /\ buffer' = buffer /\ bufferI' = bufferI
            /\ alarms' = alarms /\ alarmCount' = alarmCount /\ tx' = tx /\ late' = late
        BY <4>1, <4>2, WaitsNext, WaitStep DEF Processing
      <4>4. bufferMsg' = Size
        BY <4>1, <4>2, <4>3 DEF Processing, WaitAt
      <4>5. Executed'
        BY <1>0, <1>2, <1>3, <2>1, <4>3, <4>4 DEF Executed
      <4> QED
        BY <1>0, <2>1, <3>0, <4>3, <4>5, NoTx, TablesOfOne
    <3>2. CASE pc = "processing_timeout" /\ q = <<>> /\ bufferMsg = Size
      <4>1. ProcessingTimeout
        BY <1>3, <3>2, DaemonPlaces
      <4>2. /\ turn' = "pduh" /\ pc' = pc /\ q' = q /\ outQ' = outQ /\ buffer' = buffer
            /\ bufferI' = bufferI /\ alarms' = alarms /\ alarmCount' = alarmCount /\ tx' = tx
            /\ bufferMsg' = bufferMsg
        BY <3>2, <4>1, WaitEmpty DEF ProcessingTimeout
      <4>3. Executed'
        BY <1>0, <1>2, <1>3, <2>1, <3>2, <4>2 DEF Executed
      <4> QED
        BY <1>0, <2>1, <3>0, <4>2, <4>3, NoTx, TablesOfOne
    <3> QED
      BY <2>1, <3>1, <3>2
  <2>2. ASSUME alarms = <<>>, Within(Latency),
               \/ pc = "processing" /\ q = <<Buffer(Size), Timeout>>
               \/ pc = "processing_timeout" /\ q = <<Timeout>> /\ bufferMsg = Size
               \/ pc = "processing_push" /\ q = <<>> /\ bufferMsg = Size /\ turn = "tr"
               \/ pc = "ready" /\ q = <<Buffer(Size)>> /\ turn = "tr"
        PROVE  Tables' /\ Executed'
    <3>0. alarmCount = 0
      BY <2>2 DEF Tables
    <3>1. SUFFICES /\ outQ' = outQ /\ buffer' = buffer /\ bufferI' = bufferI
                   /\ alarms' = alarms /\ alarmCount' = alarmCount /\ tx' = tx /\ late' = late
                   /\ turn' = turn /\ bufferMsg' = Size
                   /\ \/ pc' = "processing_timeout" /\ q' = <<Timeout>>
                      \/ pc' = "processing_push" /\ q' = <<>>
                      \/ pc' = "ready" /\ q' = <<Buffer(Size)>>
                      \/ pc' = "must_transmit" /\ q' = <<>>
      <4>1. Latency' = Latency
        BY <3>1, TimesKept
      <4>2. Executed'
        BY <1>0, <1>2, <1>3, <2>0, <2>2, <3>1, <4>1 DEF Executed
      <4> QED
        BY <1>0, <2>2, <3>0, <3>1, <4>2, NoTx, TablesOfNone
    <3>2. CASE pc = "processing" /\ q = <<Buffer(Size), Timeout>>
      <4>1. Processing
        BY <1>3, <3>2, DaemonPlaces
      <4>2. q # <<>> /\ Head(q) = Buffer(Size) /\ Head(q).tag = "buffer" /\ Tail(q) = <<Timeout>>
            /\ Head(q).size = Size
        BY <3>2 DEF Buffer
      <4>3. /\ pc' = "processing_timeout" /\ q' = <<Timeout>> /\ turn' = turn
            /\ outQ' = outQ /\ buffer' = buffer /\ bufferI' = bufferI
            /\ alarms' = alarms /\ alarmCount' = alarmCount /\ tx' = tx /\ late' = late
        BY <4>1, <4>2, WaitsNext, WaitStep DEF Processing
      <4>4. bufferMsg' = Size
        BY <4>1, <4>2, <4>3 DEF Processing, WaitAt
      <4> QED
        BY <4>3, <4>4
    <3>3. CASE pc = "processing_timeout" /\ q = <<Timeout>> /\ bufferMsg = Size
      <4>1. ProcessingTimeout
        BY <1>3, <3>3, DaemonPlaces
      <4>2. q # <<>> /\ Head(q).tag = "timeout" /\ Tail(q) = <<>>
        BY <3>3 DEF Timeout
      <4>3. /\ pc' = "processing_push" /\ q' = <<>> /\ turn' = turn /\ bufferMsg' = bufferMsg
            /\ outQ' = outQ /\ buffer' = buffer /\ bufferI' = bufferI
            /\ alarms' = alarms /\ alarmCount' = alarmCount /\ tx' = tx /\ late' = late
        BY <4>1, <4>2, WaitsNext, WaitStep DEF ProcessingTimeout
      <4> QED
        BY <3>3, <4>3
    <3>4. CASE pc = "processing_push" /\ q = <<>> /\ bufferMsg = Size /\ turn = "tr"
      <4>1. ProcessingPush
        BY <1>3, <3>4, DaemonPlaces
      <4>2. Push(<<>>, Buffer(Size)) = <<Buffer(Size)>>
        BY Margins DEF Push
      <4>3. /\ pc' = "ready" /\ q' = Push(q, Buffer(bufferMsg)) /\ turn' = turn /\ bufferMsg' = bufferMsg
            /\ outQ' = outQ /\ buffer' = buffer /\ bufferI' = bufferI
            /\ alarms' = alarms /\ alarmCount' = alarmCount /\ tx' = tx /\ late' = late
        BY <4>1 DEF ProcessingPush, frame, clock, isr
      <4> QED
        BY <3>4, <4>2, <4>3
    <3>5. CASE pc = "ready" /\ q = <<Buffer(Size)>> /\ turn = "tr"
      <4>1. Ready
        BY <1>3, <3>5, DaemonPlaces
      <4>2. q # <<>> /\ Head(q) = Buffer(Size) /\ Head(q).tag = "buffer" /\ Tail(q) = <<>>
            /\ Head(q).size = Size
        BY <3>5 DEF Buffer
      <4>3. /\ pc' = "must_transmit" /\ q' = <<>> /\ turn' = turn
            /\ outQ' = outQ /\ buffer' = buffer /\ bufferI' = bufferI
            /\ alarms' = alarms /\ alarmCount' = alarmCount /\ tx' = tx /\ late' = late
        BY <4>1, <4>2, WaitsNext, WaitStep DEF Ready
      <4>4. bufferMsg' = Size
        BY <4>1, <4>2, <4>3 DEF Ready, WaitAt
      <4> QED
        BY <4>3, <4>4
    <3> QED
      BY <2>2, <3>2, <3>3, <3>4, <3>5
  <2>3. ASSUME pc = "must_transmit", q = <<>>, bufferMsg = Size, alarms = <<>>
        PROVE  Tables' /\ (Emitting' \/ Resting')
    <3>1. MustTransmit
      BY <1>3, <2>3, DaemonPlaces
    <3>2. /\ turn' = turn /\ q' = q /\ outQ' = outQ /\ bufferMsg' = bufferMsg /\ buffer' = buffer
          /\ bufferI' = bufferI /\ alarms' = alarms /\ alarmCount' = alarmCount /\ tx' = tx
          /\ IF bufferMsg > 0 THEN pc' = "emission" /\ bufferMsgI' = 0
             ELSE pc' = "ready"
      BY <3>1 DEF MustTransmit, frame, clock, isr
    <3>3. alarmCount = 0
      BY <2>3 DEF Tables
    <3>4. CASE request.mine
      <4>1. Size = Len(Full) /\ Len(Full) \in Nat /\ Len(Full) > 0 /\ Full # <<>>
        BY <3>4, FullFacts, Margins DEF Size
      <4>2. pc' = "emission" /\ bufferMsgI' = 0
        BY <2>3, <3>2, <4>1
      <4>3. reply' \o tx' = SubSeq(Full', 1, bufferMsgI')
        <5>1. <<>> \o <<>> = <<>>
          BY EmptySeq, ConcatEmptySeq
        <5>2. SubSeq(Full, 1, 0) = <<>>
          BY SubSeqEmpty
        <5> QED
          BY <1>0, <1>2, <1>3, <3>2, <4>2, <5>1, <5>2
      <4>4. phase' = "waiting"
        BY <1>0, <1>2, <1>3, <3>4 DEF Out
      <4>5. phase' = IF reply' = Full' THEN "idle" ELSE "waiting"
        BY <1>0, <1>2, <1>3, <4>1, <4>4
      <4>6. 0 \in 0 .. bufferMsg' /\ bufferMsg' = Len(Full')
        BY <1>2, <1>3, <2>3, <3>2, <4>1
      <4>7. Soon(SpeechTime)'
        BY <4>4 DEF Soon
      <4>8. Emitting'
        BY <1>0, <1>2, <1>3, <2>3, <3>2, <3>4, <4>2, <4>3, <4>5, <4>6, <4>7 DEF Emitting, Writing
      <4> QED
        BY <1>0, <2>3, <3>2, <3>3, <4>8, NoTx, TablesOfNone
    <3>5. CASE ~request.mine
      <4>1. pc' = "ready"
        BY <2>3, <3>2, <3>5 DEF Size
      <4>2. phase' = "idle"
        BY <1>0, <1>2, <1>3, <3>5 DEF Out
      <4>3. Resting'
        BY <1>0, <1>2, <1>3, <2>3, <3>2, <4>1, <4>2 DEF Resting, Spoken
      <4> QED
        BY <1>0, <2>3, <3>2, <3>3, <4>3, NoTx, TablesOfNone
    <3> QED
      BY <3>4, <3>5
  <2> QED
    BY <2>1, <2>2, <2>3 DEF Executed
<1>4. CASE Handle /\ UNCHANGED master
  BY <1>0, <1>4 DEF Handle
<1>5. CASE ComeRound /\ UNCHANGED master
  <2>1. turn = "pduh" /\ turn # "tr"
    BY <1>5, ComeRoundEffect
  <2>2. Within(Latency) => Within(Latency)'
    BY <1>5, EndTimeRound
  <2>3. Executed'
    BY <1>0, <1>2, <1>5, <2>1, <2>2, ComeRoundEffect DEF Executed
  <2>4. Tables'
    BY <1>5, ComeRoundEffect DEF Tables
  <2> QED
    BY <2>3, <2>4
<1>6. CASE LinkTick
  BY <1>6, ExecutedTick
<1> QED
  BY <1>1, <1>3, <1>4, <1>5, <1>6, LinkSteps

-----------------------------------------------------------------------------
(* The reply.                                                              *)

LEMMA SoonKept ==
    ASSUME Shape, NEW n \in Nat, NEW m \in Nat, m <= n, Soon(n), phase' = phase, silence' = silence
    PROVE  phase' = "idle" => silence' + m <= Between
<1>1. PICK s \in Nat : s = silence
  BY LatencyFacts, Margins
<1>2. phase' = "idle" => s + n <= Between
  BY <1>1 DEF Soon
<1>3. phase' = "idle" => s + m <= Between
  BY <1>2, Margins
<1> QED
  BY <1>1, <1>3

\* The silence goes on, or it begins with the last character of the reply.
SilenceGoes == phase' = "idle" => \/ phase = "idle" /\ silence' \in silence .. silence + 1
                                  \/ silence' = 0

LEMMA SoonTick ==
    ASSUME Shape, SilenceGoes, NEW n \in Nat, NEW m \in Nat, m + 1 <= n, Soon(n), m <= Between
    PROVE  phase' = "idle" => silence' + m <= Between
<1>1. PICK s \in Nat : s = silence
  BY LatencyFacts, Margins
<1>2. CASE silence' = 0
  <2>1. 0 + m <= Between
    BY Margins
  <2> QED
    BY <1>2, <2>1
<1>3. CASE phase = "idle" /\ silence' \in silence .. silence + 1
  <2>1. PICK s1 \in s .. s + 1 : s1 = silence'
    BY <1>1, <1>3
  <2>2. s + n <= Between
    BY <1>1, <1>3 DEF Soon
  <2>3. s1 \in s .. s + 1
    OBVIOUS
  <2>4. s1 + m <= Between
    BY <2>2, <2>3, Margins
  <2> QED
    BY <2>1, <2>4
<1> QED
  BY <1>2, <1>3 DEF SilenceGoes

LEMMA SpeechNow ==
    ASSUME Shape
    PROVE  \E l \in 0 .. 2 * MaxLate : Latency = l /\ SpeechTime = l + Round
  BY LatencyFacts DEF SpeechTime

LEMMA SpeechTick ==
    ASSUME Shape, LinkTick
    PROVE  \E l \in 1 .. 2 * MaxLate :
             /\ Latency = l /\ Latency' = l - 1
             /\ SpeechTime = l + Round /\ SpeechTime' = l - 1 + Round
<1>1. PICK l \in 1 .. 2 * MaxLate : l = Latency
  BY LatencyTick
<1>2. Latency' = l - 1
  BY <1>1, LatencyTick
<1> QED
  BY <1>1, <1>2 DEF SpeechTime

LEMMA SpeechRound ==
    ASSUME Shape, ComeRound
    PROVE  \E l \in 0 .. 2 * MaxLate, m \in 0 .. 2 * MaxLate :
             /\ m <= l /\ Latency = l /\ Latency' = m
             /\ SpeechTime = l + Round /\ SpeechTime' = m + Round
<1>1. PICK l \in 0 .. 2 * MaxLate, m \in 0 .. 2 * MaxLate : m <= l /\ Latency = l /\ Latency' = m
  BY TimesRound
<1> QED
  BY <1>1 DEF SpeechTime

\* A character that arrives is the next one.
LEMMA Arrives ==
    ASSUME NEW r \in Seq(Char), NEW t \in Seq(Char), t # <<>>
    PROVE  /\ Append(r, Head(t)) \o Tail(t) = r \o t
           /\ Append(r, Head(t)) \in Seq(Char)
           /\ Tail(t) \in Seq(Char) /\ Len(Tail(t)) < Len(t)
<1>1. /\ Head(t) \in Char /\ Tail(t) \in Seq(Char) /\ Len(Tail(t)) = Len(t) - 1 /\ Len(t) \in Nat
      /\ \A i \in 1 .. Len(Tail(t)) : Tail(t)[i] = t[i + 1]
      /\ Len(t) # 0 /\ Head(t) = t[1]
  BY HeadTailProperties
<1>0. \A n \in Nat : n # 0 => n > 0 /\ n - 1 < n
  OBVIOUS
<1>10. Len(t) > 0 /\ Len(Tail(t)) < Len(t)
  BY <1>0, <1>1, Zenon
<1>2. /\ Append(r, Head(t)) \in Seq(Char) /\ Len(Append(r, Head(t))) = Len(r) + 1 /\ Len(r) \in Nat
      /\ \A i \in 1 .. Len(r) : Append(r, Head(t))[i] = r[i]
      /\ Append(r, Head(t))[Len(r) + 1] = Head(t)
  BY <1>1, AppendProperties
<1> DEFINE a == Append(r, Head(t))
           b == Tail(t)
<1> HIDE DEF a, b
<1>3. /\ a \in Seq(Char) /\ b \in Seq(Char) /\ Len(a) = Len(r) + 1 /\ Len(b) = Len(t) - 1
      /\ \A i \in 1 .. Len(r) : a[i] = r[i]
      /\ a[Len(r) + 1] = t[1]
      /\ \A i \in 1 .. Len(b) : b[i] = t[i + 1]
  BY <1>1, <1>2 DEF a, b
<1>4. /\ a \o b \in Seq(Char) /\ Len(a \o b) = Len(a) + Len(b)
      /\ \A i \in 1 .. Len(a) + Len(b) : (a \o b)[i] = IF i <= Len(a) THEN a[i] ELSE b[i - Len(a)]
  BY <1>3, ConcatProperties
<1>5. /\ r \o t \in Seq(Char) /\ Len(r \o t) = Len(r) + Len(t)
      /\ \A i \in 1 .. Len(r) + Len(t) : (r \o t)[i] = IF i <= Len(r) THEN r[i] ELSE t[i - Len(r)]
  BY ConcatProperties
<1>6. PICK k \in Nat, n \in Nat : k = Len(r) /\ n = Len(t) /\ n > 0
  BY <1>1, <1>2, <1>10, Zenon
<1>7. ASSUME NEW i \in 1 .. k + n PROVE (a \o b)[i] = (r \o t)[i]
  <2>1. i \in 1 .. (k + 1) + (n - 1) /\ Len(a) = k + 1 /\ Len(b) = n - 1
    BY <1>3, <1>6
  <2>2. (a \o b)[i] = IF i <= k + 1 THEN a[i] ELSE b[i - (k + 1)]
    BY <1>4, <2>1
  <2>3. (r \o t)[i] = IF i <= k THEN r[i] ELSE t[i - k]
    BY <1>5, <1>6
  <2>4. CASE i <= k
    BY <1>3, <1>6, <2>2, <2>3, <2>4
  <2>5. CASE i = k + 1
    <3>1. i <= k + 1 /\ ~(i <= k) /\ i - k = 1
      BY <2>5
    <3>2. a[i] = t[1]
      BY <1>3, <1>6, <2>5
    <3> QED
      BY <2>2, <2>3, <3>1, <3>2
  <2>6. CASE i > k + 1
    <3>1. i - (k + 1) \in 1 .. n - 1 /\ (i - (k + 1)) + 1 = i - k /\ ~(i <= k) /\ ~(i <= k + 1)
      BY <2>6
    <3>2. b[i - (k + 1)] = t[(i - (k + 1)) + 1]
      BY <1>3, <2>1, <3>1
    <3> QED
      BY <2>2, <2>3, <3>1, <3>2
  <2>7. i <= k \/ i = k + 1 \/ i > k + 1
    OBVIOUS
  <2> QED
    BY <2>4, <2>5, <2>6, <2>7, Zenon
<1>8. Len(a \o b) = k + n /\ Len(r \o t) = k + n
  BY <1>3, <1>4, <1>5, <1>6
<1>9. a \o b = r \o t
  BY <1>4, <1>5, <1>7, <1>8, SeqEqual
<1> QED
  BY <1>1, <1>2, <1>9, <1>10 DEF a, b

LEMMA Associative ==
    ASSUME NEW r \in Seq(Char), NEW t \in Seq(Char), NEW f \in Seq(Char)
    PROVE  (r \o t) \o f = r \o (t \o f)
  BY ConcatAssociative

\* Characters written go behind those on their way.
LEMMA WrittenBehind ==
    ASSUME NEW s \in Seq(Char), NEW k \in Nat, NEW n \in Nat, k + n <= Len(s),
           NEW f \in Seq(Char), Len(f) = n, \A i \in 1 .. n : f[i] = s[k + i]
    PROVE  SubSeq(s, 1, k) \o f = SubSeq(s, 1, k + n)
<1>0. Len(s) \in Nat /\ \A i \in 1 .. Len(s) : s[i] \in Char
  BY ElementOfSeq, LenProperties
<1> DEFINE a == SubSeq(s, 1, k)
           b == SubSeq(s, 1, k + n)
<1> HIDE DEF a, b
<1>2. a \in Seq(Char) /\ Len(a) = k /\ \A i \in 1 .. k : a[i] = s[i]
  <2>1. \A i \in 1 .. k : s[i] \in Char
    BY <1>0
  <2>2. /\ SubSeq(s, 1, k) \in Seq(Char)
        /\ Len(SubSeq(s, 1, k)) = IF 1 <= k THEN k - 1 + 1 ELSE 0
        /\ \A i \in 1 .. k - 1 + 1 : SubSeq(s, 1, k)[i] = s[1 + i - 1]
    BY <2>1, SubSeqProperties
  <2> QED
    BY <2>2 DEF a
<1>3. b \in Seq(Char) /\ Len(b) = k + n /\ \A i \in 1 .. k + n : b[i] = s[i]
  <2>1. \A i \in 1 .. k + n : s[i] \in Char
    BY <1>0
  <2>2. /\ SubSeq(s, 1, k + n) \in Seq(Char)
        /\ Len(SubSeq(s, 1, k + n)) = IF 1 <= k + n THEN k + n - 1 + 1 ELSE 0
        /\ \A i \in 1 .. k + n - 1 + 1 : SubSeq(s, 1, k + n)[i] = s[1 + i - 1]
    BY <2>1, SubSeqProperties
  <2> QED
    BY <2>2 DEF b
<1>4. /\ a \o f \in Seq(Char) /\ Len(a \o f) = k + n
      /\ \A i \in 1 .. k + n : (a \o f)[i] = IF i <= k THEN a[i] ELSE f[i - k]
  BY <1>2, ConcatProperties
<1>5. \A i \in 1 .. k + n : (a \o f)[i] = b[i]
  <2> SUFFICES ASSUME NEW i \in 1 .. k + n PROVE (a \o f)[i] = b[i]
    OBVIOUS
  <2>0. (a \o f)[i] = (IF i <= k THEN a[i] ELSE f[i - k]) /\ b[i] = s[i]
    BY <1>3, <1>4
  <2>1. CASE i <= k
    <3>1. i \in 1 .. k
      BY <2>1
    <3> QED
      BY <1>2, <2>0, <2>1, <3>1
  <2>2. CASE i > k
    <3>1. i - k \in 1 .. n /\ k + (i - k) = i /\ ~(i <= k)
      BY <2>2
    <3>2. f[i - k] = s[k + (i - k)]
      BY <3>1
    <3> QED
      BY <2>0, <3>1, <3>2
  <2>3. i <= k \/ i > k
    OBVIOUS
  <2> QED
    BY <2>1, <2>2, <2>3, Zenon
<1>6. a \o f = b
  BY <1>3, <1>4, <1>5, SeqEqual
<1> QED
  BY <1>6 DEF a, b

\* A tick while the reply is on its way.
LEMMA ReplyTick ==
    ASSUME Shape, Tables, LinkTick, NEW k \in 0 .. Len(Full),
           reply \o tx = SubSeq(Full, 1, k),
           phase = IF reply = Full THEN "idle" ELSE "waiting"
    PROVE  /\ reply' \o tx' = SubSeq(Full, 1, k) /\ SilenceGoes
           /\ phase' = IF reply' = Full THEN "idle" ELSE "waiting"
           /\ tx' \in Seq(Char) /\ Len(tx') <= TxSize
<1>0. reply \in Seq(Char) /\ tx \in Seq(Char) /\ Len(tx) <= TxSize /\ Full \in Seq(Char)
      /\ silence \in 0 .. Quiet
  BY FullFacts DEF Shape, LineShape, Tables
<1>1. CASE tx = <<>>
  <2>1. tx' = tx /\ reply' = reply
    BY <1>1, TickEffect
  <2>2. phase' = phase
    <3>1. phase = "waiting" => reply' # Full
      BY <2>1
    <3> QED
      BY <3>1, TickEffect
  <2>3. silence' \in silence .. silence + 1
    BY <1>0, <1>1, TickEffect, Margins
  <2> QED
    BY <1>0, <2>1, <2>2, <2>3 DEF SilenceGoes
<1>2. CASE tx # <<>>
  <2>1. tx' = Tail(tx) /\ reply' = Append(reply, Head(tx)) /\ silence' = 0
    BY <1>2, TickEffect
  <2>2. /\ reply' \o tx' = reply \o tx
        /\ tx' \in Seq(Char) /\ Len(tx') < Len(tx)
    BY <1>0, <1>2, <2>1, Arrives
  <2>3. Len(tx') <= TxSize
    <3>1. PICK m \in Nat, n \in Nat : m = Len(tx') /\ n = Len(tx)
      BY <1>0, <2>2
    <3>2. m <= TxSize
      BY <1>0, <2>2, <3>1, Margins
    <3> QED
      BY <3>1, <3>2
  <2>4. phase = "waiting"
    <3>1. SUFFICES ASSUME reply = Full PROVE FALSE
      OBVIOUS
    <3>2. Len(reply \o tx) = Len(reply) + Len(tx) /\ Len(tx) \in Nat /\ Len(tx) # 0 /\ Len(Full) \in Nat
      BY <1>0, <1>2, ConcatProperties
    <3>3. Len(SubSeq(Full, 1, k)) = k
      <4>1. \A i \in 1 .. k : Full[i] \in Char
        BY <1>0, ElementOfSeq
      <4>2. Len(SubSeq(Full, 1, k)) = IF 1 <= k THEN k - 1 + 1 ELSE 0
        BY <4>1, SubSeqProperties
      <4> QED
        BY <4>2, <3>2
    <3>4. PICK a \in Nat, b \in Nat : a = Len(Full) /\ b = Len(tx) /\ b # 0 /\ k = a + b /\ k \in 0 .. a
      BY <3>1, <3>2, <3>3, Zenon
    <3> QED
      BY <3>4
  <2>5. phase' = IF reply' = Full THEN "idle" ELSE "waiting"
    BY <2>4, TickEffect
  <2> QED
    BY <2>1, <2>2, <2>3, <2>5 DEF SilenceGoes
<1> QED
  BY <1>1, <1>2

LEMMA SpokenTick ==
    ASSUME Shape, Tables, Spoken, LinkTick
    PROVE  Spoken' /\ SilenceGoes /\ tx' \in Seq(Char) /\ Len(tx') <= TxSize
<1>0. reply \in Seq(Char) /\ tx \in Seq(Char) /\ Full' = Full /\ Full \in Seq(Char)
      /\ silence \in 0 .. Quiet
  BY FullFacts, TickEffect DEF Shape, LineShape, Tables, Full
<1>1. CASE phase = "idle" /\ tx = <<>>
  <2>1. tx' = <<>> /\ phase' = "idle"
    BY <1>1, TickEffect
  <2>2. silence' \in silence .. silence + 1
    BY <1>0, <1>1, TickEffect, Margins
  <2> QED
    BY <1>1, <2>1, <2>2, NoTx DEF Spoken, SilenceGoes
<1>2. CASE phase = "waiting" /\ tx # <<>> /\ reply \o tx = Full
  <2>1. Len(Full) \in 0 .. Len(Full) /\ Full = SubSeq(Full, 1, Len(Full))
    BY <1>0, FullFacts, SubSeqFull, LenProperties
  <2>2. reply # Full
    <3> SUFFICES ASSUME reply = Full PROVE FALSE
      OBVIOUS
    <3>1. Full \o tx = Full
      BY <1>2
    <3>2. Len(Full \o tx) = Len(Full) + Len(tx) /\ Len(tx) \in Nat /\ Len(tx) # 0 /\ Len(Full) \in Nat
      BY <1>0, <1>2, ConcatProperties
    <3>3. PICK a \in Nat, b \in Nat : a = Len(Full) /\ b = Len(tx) /\ b # 0 /\ a = a + b
      BY <3>1, <3>2, Zenon
    <3> QED
      BY <3>3
  <2>3. /\ reply' \o tx' = Full /\ SilenceGoes
        /\ phase' = IF reply' = Full THEN "idle" ELSE "waiting"
        /\ tx' \in Seq(Char) /\ Len(tx') <= TxSize
    <3>1. reply \o tx = SubSeq(Full, 1, Len(Full)) /\ phase = IF reply = Full THEN "idle" ELSE "waiting"
      BY <1>2, <2>1, <2>2
    <3>2. reply' \o tx' = SubSeq(Full, 1, Len(Full)) /\ SilenceGoes
          /\ phase' = (IF reply' = Full THEN "idle" ELSE "waiting")
          /\ tx' \in Seq(Char) /\ Len(tx') <= TxSize
      BY <2>1, <3>1, ReplyTick
    <3> QED
      BY <2>1, <3>2
  <2>4. reply' \in Seq(Char)
    <3>1. reply' = Append(reply, Head(tx))
      BY <1>2, TickEffect
    <3> QED
      BY <1>0, <1>2, <3>1, Arrives
  <2>5. CASE tx' = <<>>
    <3>1. reply' = Full
      <4>1. reply' \o <<>> = reply'
        BY <2>4, ConcatEmptySeq
      <4> QED
        BY <2>3, <2>5, <4>1
    <3> QED
      BY <2>3, <2>5, <3>1 DEF Spoken
  <2>6. CASE tx' # <<>>
    <3>1. reply' # Full
      <4> SUFFICES ASSUME reply' = Full PROVE FALSE
        OBVIOUS
      <4>1. PICK t \in Seq(Char) : t = tx'
        BY <2>3
      <4>2. Full \o t = Full /\ t # <<>>
        BY <2>3, <2>6, <4>1
      <4>3. Len(Full \o t) = Len(Full) + Len(t) /\ Len(t) \in Nat /\ Len(t) # 0 /\ Len(Full) \in Nat
        BY <1>0, <4>2, ConcatProperties
      <4>4. PICK a \in Nat, b \in Nat : a = Len(Full) /\ b = Len(t) /\ b # 0 /\ a = a + b
        BY <4>2, <4>3, Zenon
      <4> QED
        BY <4>4
    <3> QED
      BY <1>0, <2>3, <2>6, <3>1 DEF Spoken
  <2> QED
    BY <2>3, <2>5, <2>6
<1> QED
  BY <1>1, <1>2 DEF Spoken

LEMMA Tabulated ==
    ASSUME NEW n \in Nat, NEW g \in [1 .. n -> Char]
    PROVE  g \in Seq(Char) /\ Len(g) = n
  BY SeqDef

\* While it emits, the line takes a character a tick.
LEMMA EmittingTick ==
    ASSUME Shape, Tables, Emitting, LinkTick
    PROVE  Tables' /\ Emitting'
<1>0. outQ = <<>> /\ noise = 0 /\ bufferI = 0 /\ request.mine
  BY DEF Emitting
<1>1. /\ pc' = pc /\ turn' = turn /\ outQ' = outQ /\ bufferMsg' = bufferMsg /\ buffer' = buffer
      /\ bufferI' = bufferI /\ bufferMsgI' = bufferMsgI /\ request' = request /\ noise' = noise
      /\ Tick /\ q \in Seq(Message) /\ Len(q) <= QueueSize
  BY TickEffect DEF Shape, SlaveShape
<1>2. ReplyStored => ReplyStored'
  BY <1>1, StoredKept
<1>3. Full' = Full
  BY <1>1 DEF Full
<1>4. PICK l \in 1 .. 2 * MaxLate : /\ Latency = l /\ Latency' = l - 1
                                    /\ SpeechTime = l + Round /\ SpeechTime' = l - 1 + Round
  BY SpeechTick
<1>5. /\ l \in Nat /\ l - 1 \in Nat /\ l + Round \in Nat /\ l - 1 + Round \in Nat
      /\ (l - 1) + 1 <= l /\ (l - 1 + Round) + 1 <= l + Round
      /\ l - 1 + Round <= Between /\ l - 1 <= Between
      /\ 2 * MaxLate \in Nat /\ l <= 2 * MaxLate /\ 1 <= 2 * MaxLate
  BY Margins
<1>6. ASSUME SilenceGoes, Soon(SpeechTime) PROVE Soon(SpeechTime)'
  <2>1. Soon(l + Round)
    BY <1>4, <1>6
  <2>2. phase' = "idle" => silence' + (l - 1 + Round) <= Between
    BY <1>5, <1>6, <2>1, SoonTick
  <2> QED
    BY <1>4, <2>2 DEF Soon
<1>7. CASE Writing
  <2>1. /\ alarms' = <<>> /\ alarmCount' = 0 /\ q' = q
    BY <1>1, <1>7, TickNone DEF Writing, Tables
  <2>2. bufferMsgI \in 0 .. Len(Full)
    BY <1>7 DEF Writing
  <2>3. /\ reply' \o tx' = SubSeq(Full, 1, bufferMsgI) /\ SilenceGoes
        /\ phase' = IF reply' = Full THEN "idle" ELSE "waiting"
        /\ tx' \in Seq(Char) /\ Len(tx') <= TxSize
    BY <1>7, <2>2, ReplyTick DEF Writing
  <2>4. Soon(SpeechTime)'
    BY <1>6, <1>7, <2>3 DEF Writing
  <2>5. Writing'
    BY <1>1, <1>2, <1>3, <1>7, <2>1, <2>3, <2>4 DEF Writing
  <2> QED
    BY <1>0, <1>1, <2>1, <2>3, <2>5, TablesOfNone DEF Emitting
<1>8. CASE Written
  <2>1. /\ alarms' = <<>> /\ alarmCount' = 0 /\ q' = q
    BY <1>1, <1>8, TickNone DEF Written, Tables
  <2>2. Spoken' /\ SilenceGoes /\ tx' \in Seq(Char) /\ Len(tx') <= TxSize
    BY <1>8, SpokenTick DEF Written
  <2>3. Written'
    BY <1>1, <1>6, <1>8, <2>1, <2>2 DEF Written
  <2> QED
    BY <1>0, <1>1, <2>1, <2>2, <2>3, TablesOfNone DEF Emitting
<1>9. CASE Paused
  <2>1. /\ alarms' = <<>> /\ alarmCount' = 0 /\ q' = q
    BY <1>1, <1>9, TickNone DEF Paused, Tables
  <2>2. Spoken' /\ SilenceGoes /\ tx' \in Seq(Char) /\ Len(tx') <= TxSize
    BY <1>9, SpokenTick DEF Paused
  <2>3. phase' = "idle" => silence' + (l - 1) <= Between
    <3>1. Soon(l)
      BY <1>4, <1>9 DEF Paused
    <3> QED
      BY <1>5, <2>2, <3>1, SoonTick
  <2>4. Soon(Latency)'
    BY <1>4, <2>3 DEF Soon
  <2>5. Paused'
    BY <1>1, <1>9, <2>1, <2>2, <2>4 DEF Paused
  <2> QED
    BY <1>0, <1>1, <2>1, <2>2, <2>5, TablesOfNone DEF Emitting
<1>10. ASSUME NEW w \in 0 .. InterFrame, Pausing(w) PROVE Tables' /\ Emitting'
  <2>1. alarms = Timer(w) /\ q = <<>> /\ Soon(w + 2 * MaxLate)
    BY <1>10 DEF Pausing
  <2>2. alarmCount = 1
    BY <2>1, TimerShape DEF Tables
  <2>3. Spoken' /\ SilenceGoes /\ tx' \in Seq(Char) /\ Len(tx') <= TxSize
    BY <1>10, SpokenTick DEF Pausing
  <2>4. CASE w = 0
    <3>1. Len(q) < QueueSize
      <4>1. Len(<<>>) = 0
        OBVIOUS
      <4> QED
        BY <2>1, <4>1, Margins
    <3>2. alarms' = <<>> /\ alarmCount' = 0 /\ q' = <<Timeout>>
      <4>1. alarms' = <<>> /\ alarmCount' = 0 /\ q' = Append(q, Timeout)
        BY <1>1, <2>1, <2>2, <2>4, <3>1, TickExpires
      <4> QED
        BY <2>1, <4>1, AppendTo
    <3>3. phase' = "idle" => silence' + (l - 1) <= Between
      <4>1. w + 2 * MaxLate \in Nat /\ (l - 1) + 1 <= w + 2 * MaxLate
        BY <1>5, <2>4, Margins
      <4> QED
        BY <1>5, <2>1, <2>3, <4>1, SoonTick
    <3>4. Soon(Latency)'
      BY <1>4, <3>3 DEF Soon
    <3>5. Paused'
      BY <1>1, <1>10, <2>3, <3>2, <3>4 DEF Paused, Pausing
    <3> QED
      BY <1>0, <1>1, <2>3, <3>2, <3>5, TablesOfNone DEF Emitting
  <2>5. CASE w # 0
    <3>1. w \in 1 .. InterFrame /\ w - 1 \in 0 .. InterFrame
          /\ w + 2 * MaxLate \in Nat /\ w - 1 + 2 * MaxLate \in Nat
          /\ (w - 1 + 2 * MaxLate) + 1 <= w + 2 * MaxLate
          /\ w - 1 + 2 * MaxLate <= Between
      BY <2>5, Margins
    <3>2. alarms' = Timer(w - 1) /\ alarmCount' = 1 /\ q' = q
      BY <1>1, <2>1, <2>2, <3>1, TickRuns
    <3>3. phase' = "idle" => silence' + (w - 1 + 2 * MaxLate) <= Between
      BY <2>1, <2>3, <3>1, SoonTick
    <3>4. Soon(w - 1 + 2 * MaxLate)'
      BY <3>3 DEF Soon
    <3>5. Pausing(w - 1)'
      BY <1>1, <1>10, <2>3, <3>2, <3>4 DEF Pausing
    <3> QED
      BY <1>0, <1>1, <2>3, <3>1, <3>2, <3>5, TablesOfOne DEF Emitting
  <2> QED
    BY <2>4, <2>5
<1> QED
  BY <1>7, <1>8, <1>9, <1>10 DEF Emitting

\* write_some takes the next characters of the reply.
LEMMA EmissionStep ==
    ASSUME Shape, Tables, Emitting, Emission, UNCHANGED master
    PROVE  Tables' /\ Emitting'
<1>0. outQ = <<>> /\ noise = 0 /\ bufferI = 0 /\ request.mine
  BY DEF Emitting
<1>1. pc = "emission" /\ turn = "tr"
  BY DEF Emission, At
<1>2. Writing
  BY <1>1 DEF Emitting, Written, Pausing, Paused
<1>3. /\ q' = q /\ outQ' = outQ /\ bufferMsg' = bufferMsg /\ buffer' = buffer /\ bufferI' = bufferI
      /\ alarms' = alarms /\ alarmCount' = alarmCount /\ late' = late
  BY DEF Emission, frame, clock
<1>4. /\ request' = request /\ phase' = phase /\ reply' = reply /\ silence' = silence /\ noise' = noise
      /\ Full' = Full /\ ReplyStored'
  BY <1>2, <1>3, MasterUnchanged, StoredKept DEF Writing
<1>5. alarms = <<>> /\ alarmCount = 0 /\ q = <<>> /\ bufferMsg = Len(Full) /\ Full \in Seq(Char)
      /\ reply \in Seq(Char) /\ tx \in Seq(Char) /\ Len(tx) <= TxSize
      /\ Len(Full) \in Nat /\ bufferMsgI \in 0 .. Len(Full)
      /\ reply \o tx = SubSeq(Full, 1, bufferMsgI)
  BY <1>2, FullFacts, LenProperties DEF Writing, Tables, Shape, LineShape
<1>6. CASE bufferMsgI < bufferMsg
  <2> DEFINE room == TxSize - Len(tx)
             rest == bufferMsg - bufferMsgI
             written == IF rest < room THEN rest ELSE room
             f == [i \in 1 .. written |-> buffer[bufferMsgI + i - 1]]
  <2>1. tx' = tx \o f /\ bufferMsgI' = bufferMsgI + written /\ pc' = pc
    BY <1>6 DEF Emission
  <2>2. written \in Nat /\ bufferMsgI + written <= Len(Full) /\ bufferMsgI \in Nat
        /\ Len(tx) + written <= TxSize /\ Len(tx) \in Nat
    <3>1. PICK a \in Nat, b \in Nat, c \in Nat :
            a = Len(Full) /\ b = Len(tx) /\ c = bufferMsgI /\ c <= a /\ b <= TxSize
      <4>1. Len(tx) \in Nat
        BY <1>5, LenProperties
      <4>2. bufferMsgI \in Nat /\ bufferMsgI <= Len(Full)
        BY <1>5
      <4> QED
        BY <1>5, <4>1, <4>2, Zenon
    <3>2. written = IF a - c < TxSize - b THEN a - c ELSE TxSize - b
      BY <1>5, <3>1, Zenon
    <3>3. (IF a - c < TxSize - b THEN a - c ELSE TxSize - b) \in Nat
          /\ c + (IF a - c < TxSize - b THEN a - c ELSE TxSize - b) <= a
          /\ b + (IF a - c < TxSize - b THEN a - c ELSE TxSize - b) <= TxSize
      BY <3>1, Margins
    <3> QED
      BY <3>1, <3>2, <3>3, Zenon
  <2> HIDE DEF written
  <2>3. \A i \in 1 .. written : buffer[bufferMsgI + i - 1] = Full[bufferMsgI + i]
                                /\ Full[bufferMsgI + i] \in Char
    <3> SUFFICES ASSUME NEW i \in 1 .. written
                 PROVE  buffer[bufferMsgI + i - 1] = Full[bufferMsgI + i]
                        /\ Full[bufferMsgI + i] \in Char
      OBVIOUS
    <3>1. bufferMsgI + i \in 1 .. Len(Full) /\ (bufferMsgI + i) - 1 = bufferMsgI + i - 1
      BY <2>2, <1>5
    <3>2. buffer[(bufferMsgI + i) - 1] = Full[bufferMsgI + i]
      BY <1>0, <1>2, <3>1 DEF Writing, ReplyStored
    <3> QED
      BY <1>5, <3>1, <3>2, ElementOfSeq
  <2>4. f \in Seq(Char) /\ Len(f) = written /\ \A i \in 1 .. written : f[i] = Full[bufferMsgI + i]
    <3>1. f \in [1 .. written -> Char]
      BY <2>3
    <3>2. \A i \in 1 .. written : f[i] = buffer[bufferMsgI + i - 1]
      OBVIOUS
    <3> HIDE DEF f
    <3>3. f \in Seq(Char) /\ Len(f) = written
      BY <2>2, <3>1, Tabulated
    <3> QED
      BY <2>3, <3>2, <3>3
  <2> HIDE DEF f
  <2>5. tx' \in Seq(Char) /\ Len(tx') <= TxSize
    BY <1>5, <2>1, <2>2, <2>4, ConcatProperties
  <2>6. reply' \o tx' = SubSeq(Full', 1, bufferMsgI')
    <3>1. reply \o (tx \o f) = SubSeq(Full, 1, bufferMsgI + written)
      <4>1. SubSeq(Full, 1, bufferMsgI) \o f = SubSeq(Full, 1, bufferMsgI + written)
        <5>1. PICK s \in Seq(Char), k \in Nat, n \in Nat, g \in Seq(Char) :
                s = Full /\ k = bufferMsgI /\ n = written /\ g = f
          BY <1>5, <2>2, <2>4
        <5>2. k + n <= Len(s) /\ Len(g) = n /\ \A i \in 1 .. n : g[i] = s[k + i]
          BY <1>5, <2>2, <2>4, <5>1, Zenon
        <5>3. SubSeq(s, 1, k) \o g = SubSeq(s, 1, k + n)
          BY <5>2, WrittenBehind, SMTT(30)
        <5> QED
          BY <5>1, <5>3, Zenon
      <4>2. (reply \o tx) \o f = reply \o (tx \o f)
        BY <1>5, <2>4, Associative
      <4> QED
        BY <1>5, <4>1, <4>2
    <3> QED
      BY <1>4, <2>1, <3>1
  <2>7. phase = "waiting"
    <3> SUFFICES ASSUME reply = Full PROVE FALSE
      BY <1>2 DEF Writing
    <3>1. Len(reply \o tx) = Len(reply) + Len(tx)
      BY <1>5, ConcatProperties
    <3>2. Len(SubSeq(Full, 1, bufferMsgI)) = bufferMsgI
      <4>1. \A i \in 1 .. bufferMsgI : Full[i] \in Char
        BY <1>5, ElementOfSeq
      <4>2. Len(SubSeq(Full, 1, bufferMsgI)) = IF 1 <= bufferMsgI THEN bufferMsgI - 1 + 1 ELSE 0
        BY <2>2, <4>1, SubSeqProperties
      <4> QED
        BY <2>2, <4>2
    <3>3. PICK a \in Nat, b \in Nat, c \in Nat :
            a = Len(Full) /\ b = Len(tx) /\ c = bufferMsgI
      BY <1>5, <2>2
    <3>4. c = a + b /\ c < a
      BY <1>5, <1>6, <3>1, <3>2, <3>3, Zenon
    <3> QED
      BY <3>4
  <2>8. Soon(SpeechTime)'
    BY <1>4, <2>7 DEF Soon
  <2>9. bufferMsgI' \in 0 .. bufferMsg'
    <3>1. bufferMsgI + written \in 0 .. Len(Full)
      BY <1>5, <2>2
    <3> QED
      BY <1>3, <1>5, <2>1, <3>1
  <2>10. phase' = IF reply' = Full' THEN "idle" ELSE "waiting"
    BY <1>2, <1>4 DEF Writing
  <2>11. Writing'
    BY <1>1, <1>3, <1>4, <1>5, <2>1, <2>6, <2>8, <2>9, <2>10 DEF Writing
  <2> QED
    BY <1>0, <1>3, <1>4, <1>5, <2>5, <2>11, TablesOfNone DEF Emitting
<1>7. CASE ~(bufferMsgI < bufferMsg)
  <2>1. pc' = "emission_set" /\ tx' = tx /\ bufferMsgI' = bufferMsgI /\ turn' = turn
    BY <1>7 DEF Emission
  <2>2. bufferMsgI = Len(Full)
    BY <1>5, <1>7
  <2>3. reply \o tx = Full
    BY <1>5, <2>2, FullFacts, SubSeqFull
  <2>4. Spoken
    <3>1. CASE tx = <<>>
      <4>1. reply = Full
        <5>1. reply \o <<>> = reply
          BY <1>5, ConcatEmptySeq
        <5> QED
          BY <2>3, <3>1, <5>1
      <4> QED
        BY <1>2, <3>1, <4>1 DEF Spoken, Writing
    <3>2. CASE tx # <<>>
      <4>1. reply # Full
        <5> SUFFICES ASSUME reply = Full PROVE FALSE
          OBVIOUS
        <5>1. Len(reply \o tx) = Len(reply) + Len(tx) /\ Len(tx) \in Nat /\ Len(tx) # 0
          BY <1>5, <3>2, ConcatProperties
        <5>2. PICK a \in Nat, b \in Nat : a = Len(Full) /\ b = Len(tx) /\ b # 0 /\ a = a + b
          BY <1>5, <2>3, <5>1, Zenon
        <5> QED
          BY <5>2
      <4> QED
        BY <1>2, <2>3, <3>2, <4>1 DEF Spoken, Writing
    <3> QED
      BY <3>1, <3>2
  <2>5. Spoken'
    BY <1>4, <2>1, <2>4 DEF Spoken
  <2>6. Soon(SpeechTime)'
    <3>1. SpeechTime' = SpeechTime
      <4>1. Latency' = Latency
        BY <1>3, <2>1, LatencyKept
      <4> QED
        BY <4>1 DEF SpeechTime
    <3> QED
      BY <1>2, <1>4, <3>1 DEF Soon, Writing
  <2>7. Written'
    BY <1>1, <1>3, <1>5, <2>1, <2>5, <2>6 DEF Written
  <2> QED
    BY <1>0, <1>3, <1>4, <1>5, <2>1, <2>7, TablesOfNone DEF Emitting
<1> QED
  BY <1>6, <1>7

\* The master asks again no sooner than the slave has its last timeout.
LEMMA EmittingAsk ==
    ASSUME Shape, Tables, Emitting, NEW r \in Request, Ask(r)
    PROVE  Tables' /\ Overlapping'
<1>0. outQ = <<>> /\ noise = 0 /\ bufferI = 0 /\ request.mine
  BY DEF Emitting
<1>1. phase = "idle" /\ silence >= Between /\ silence \in Nat
  <2>1. phase = "idle" /\ silence >= (IF request.mine THEN Between ELSE Quiet)
    BY AskEffect DEF Shape
  <2> QED
    BY <1>0, <2>1, LatencyFacts, Margins
<1>2. ASSUME NEW n \in Nat, n > 0 PROVE ~Soon(n)
  <2>1. PICK s \in Nat : s = silence /\ s >= Between
    BY <1>1
  <2>2. ~(s + n <= Between)
    BY <1>2, <2>1, Margins
  <2> QED
    BY <1>1, <2>1, <2>2 DEF Soon
<1>3. Paused /\ Latency = 0
  <2>1. PICK l \in 0 .. 2 * MaxLate : Latency = l /\ SpeechTime = l + Round
    BY SpeechNow
  <2>2. l + Round \in Nat /\ l + Round > 0 /\ l \in Nat /\ (l = 0 \/ l > 0)
        /\ \A w \in 0 .. InterFrame : w + 2 * MaxLate \in Nat /\ w + 2 * MaxLate > 0
    BY Margins
  <2>3. ~Soon(SpeechTime) /\ \A w \in 0 .. InterFrame : ~Soon(w + 2 * MaxLate)
    BY <1>2, <2>1, <2>2
  <2>4. Soon(l) => l = 0
    BY <1>2, <2>2
  <2>5. ~Writing /\ ~Written /\ \A w \in 0 .. InterFrame : ~Pausing(w)
    BY <2>3 DEF Writing, Written, Pausing
  <2> QED
    BY <2>1, <2>4, <2>5 DEF Emitting, Paused
<1>4. q = <<Timeout>> /\ alarms = <<>> /\ tx = <<>> /\ pc = "emission_wait" /\ alarmCount = 0
  BY <1>1, <1>3 DEF Paused, Spoken, Tables
<1>5. /\ rx' = TRUE /\ q' = Push(q, Input(Sent(r, 0))) /\ request' = r /\ sent' = 1
      /\ pc' = pc /\ turn' = turn /\ outQ' = outQ /\ bufferI' = bufferI
      /\ alarms' = alarms /\ alarmCount' = alarmCount /\ tx' = tx /\ late' = late
      /\ reply' = <<>> /\ silence' = 0 /\ noise' = 0
      /\ phase' = (IF 1 < r.length THEN "sending" ELSE IF r.mine THEN "waiting" ELSE "idle")
  BY AskEffect, ReceiveEffect DEF Shape
<1>6. q' = <<Timeout, Input(Sent(request', 0))>>
  <2>1. Len(<<Timeout>>) = 1 /\ 1 < QueueSize
    BY Margins
  <2>2. Push(<<Timeout>>, Input(Sent(r, 0))) = Append(<<Timeout>>, Input(Sent(r, 0)))
    BY <2>1 DEF Push
  <2> QED
    BY <1>4, <1>5, <2>2, AppendTo
<1>7. Latency' = 0
  BY <1>3, <1>5, LatencyKept
<1>8. phase' = "sending" \/ Out'
  BY <1>5 DEF Out
<1>9. Overlapping'
  BY <1>0, <1>4, <1>5, <1>6, <1>7, <1>8 DEF Overlapping, Silent
<1> QED
  BY <1>4, <1>5, <1>9, NoTx, TablesOfNone

\* The whole reply is written, then the slave waits for silence, and listens again;
\* the next request may have begun by then.
LEMMA EmittingStep ==
    ASSUME Shape, Tables, Emitting, LinkNext
    PROVE  Tables' /\ (Emitting' \/ Resting' \/ Overlapping')
<1>0. outQ = <<>> /\ noise = 0 /\ bufferI = 0 /\ request.mine
  BY DEF Emitting
<1>1. ASSUME UNCHANGED master
      PROVE  /\ request' = request /\ phase' = phase /\ reply' = reply /\ silence' = silence
             /\ noise' = noise /\ Full' = Full
             /\ buffer' = buffer /\ ReplyStored => ReplyStored'
             /\ tx' = tx /\ Spoken => Spoken'
  BY <1>1, MasterUnchanged, StoredKept DEF Spoken
<1>2. tx \in Seq(Char) /\ Len(tx) <= TxSize
  BY DEF Tables
<1>3. PICK l \in 0 .. 2 * MaxLate : Latency = l /\ SpeechTime = l + Round
  BY SpeechNow
<1>4. CASE Daemon /\ UNCHANGED master
  <2>1. CASE Emission
    BY <1>4, <2>1, EmissionStep
  <2>2. CASE EmissionSet /\ pc = "emission_set"
    <3>1. Written /\ alarms = <<>> /\ alarmCount = 0
      BY <2>2 DEF Emitting, Writing, Written, Pausing, Paused, Tables
    <3>2. /\ pc' = "emission_wait" /\ q' = q /\ outQ' = outQ /\ bufferI' = bufferI
          /\ tx' = tx /\ SetAlarm(InterFrame, FALSE)
      BY <2>2 DEF EmissionSet, ClockAt, frame, isr
    <3>3. InterFrame \in 0 .. InterFrame
      BY Margins
    <3>4. alarms' = Timer(InterFrame) /\ alarmCount' = 1
      BY <3>1, <3>2, <3>3, TimerSet
    <3>5. Soon(InterFrame + 2 * MaxLate)'
      <4>1. Soon(l + Round)
        BY <1>3, <3>1 DEF Written
      <4>2. l + Round \in Nat /\ InterFrame + 2 * MaxLate \in Nat /\ InterFrame + 2 * MaxLate <= l + Round
        BY Margins
      <4>3. phase' = "idle" => silence' + (InterFrame + 2 * MaxLate) <= Between
        BY <1>1, <1>4, <4>1, <4>2, SoonKept
      <4> QED
        BY <4>3 DEF Soon
    <3>6. Pausing(InterFrame)'
      BY <1>1, <1>4, <3>1, <3>2, <3>4, <3>5 DEF Pausing, Written
    <3> QED
      BY <1>0, <1>1, <1>2, <1>4, <3>2, <3>3, <3>4, <3>6, TablesOfOne DEF Emitting
  <2>3. CASE EmissionWait /\ pc = "emission_wait"
    <3>1. ASSUME NEW w \in 0 .. InterFrame, Pausing(w) PROVE Tables' /\ Emitting'
      <4>1. q = <<>> /\ alarms = Timer(w)
        BY <3>1 DEF Pausing
      <4>2. alarmCount = 1
        BY <4>1, TimerShape DEF Tables
      <4>3. /\ pc' = pc /\ q' = q /\ outQ' = outQ /\ bufferI' = bufferI
            /\ alarms' = alarms /\ alarmCount' = alarmCount /\ tx' = tx
        BY <2>3, <4>1, WaitEmpty DEF EmissionWait
      <4>4. Soon(w + 2 * MaxLate)'
        BY <1>1, <1>4, <3>1 DEF Soon, Pausing
      <4>5. Pausing(w)'
        BY <1>1, <1>4, <3>1, <4>3, <4>4 DEF Pausing
      <4> QED
        BY <1>0, <1>1, <1>2, <1>4, <4>1, <4>2, <4>3, <4>5, TablesOfOne DEF Emitting
    <3>2. CASE Paused
      <4>1. q # <<>> /\ Head(q).tag = "timeout" /\ Tail(q) = <<>> /\ alarms = <<>> /\ alarmCount = 0
        BY <3>2 DEF Timeout, Paused, Tables
      <4>2. /\ pc' = "ready" /\ q' = <<>> /\ outQ' = outQ /\ bufferI' = bufferI
            /\ alarms' = alarms /\ alarmCount' = alarmCount /\ tx' = tx
        BY <2>3, <4>1, WaitsNext, WaitStep DEF EmissionWait
      <4>3. Resting'
        BY <1>0, <1>1, <1>4, <3>2, <4>1, <4>2 DEF Resting, Paused
      <4> QED
        BY <1>2, <4>1, <4>2, <4>3, TablesOfNone
    <3> QED
      BY <2>3, <3>1, <3>2 DEF Emitting, Writing, Written
  <2> QED
    BY <1>4, <2>1, <2>2, <2>3, DaemonPlaces DEF Emitting, Writing, Written, Pausing, Paused
<1>5. CASE Handle /\ UNCHANGED master
  BY <1>0, <1>5 DEF Handle
<1>6. CASE ComeRound /\ UNCHANGED master
  <2>1. /\ turn # "tr" /\ pc' = pc /\ q' = q /\ outQ' = outQ /\ bufferMsg' = bufferMsg
        /\ buffer' = buffer /\ bufferI' = bufferI /\ bufferMsgI' = bufferMsgI
        /\ alarms' = alarms /\ alarmCount' = alarmCount /\ tx' = tx
    BY <1>6, ComeRoundEffect
  <2>2. PICK a \in 0 .. 2 * MaxLate, m \in 0 .. 2 * MaxLate :
               /\ m <= a /\ Latency = a /\ Latency' = m
               /\ SpeechTime = a + Round /\ SpeechTime' = m + Round
    BY <1>6, SpeechRound
  <2>3. a \in Nat /\ m \in Nat /\ a + Round \in Nat /\ m + Round \in Nat /\ m + Round <= a + Round
    BY <2>2, Margins
  <2>4. Soon(SpeechTime) => Soon(SpeechTime)'
    <3> SUFFICES ASSUME Soon(SpeechTime) PROVE Soon(SpeechTime)'
      OBVIOUS
    <3>1. Soon(a + Round)
      BY <2>2
    <3>2. phase' = "idle" => silence' + (m + Round) <= Between
      BY <1>1, <1>6, <2>3, <3>1, SoonKept
    <3> QED
      BY <2>2, <3>2 DEF Soon
  <2>5. Soon(Latency) => Soon(Latency)'
    <3> SUFFICES ASSUME Soon(Latency) PROVE Soon(Latency)'
      OBVIOUS
    <3>1. Soon(a)
      BY <2>2
    <3>2. phase' = "idle" => silence' + m <= Between
      BY <1>1, <1>6, <2>2, <2>3, <3>1, SoonKept
    <3> QED
      BY <2>2, <3>2 DEF Soon
  <2>6. CASE Writing
    <3>1. Writing'
      BY <1>1, <1>6, <2>1, <2>4, <2>6 DEF Writing
    <3>2. alarms = <<>> /\ alarmCount = 0
      BY <2>6 DEF Writing, Tables
    <3> QED
      BY <1>0, <1>1, <1>2, <1>6, <2>1, <3>1, <3>2, TablesOfNone DEF Emitting
  <2>7. CASE Paused
    <3>1. Paused'
      BY <1>1, <1>6, <2>1, <2>5, <2>7 DEF Paused
    <3>2. alarms = <<>> /\ alarmCount = 0
      BY <2>7 DEF Paused, Tables
    <3> QED
      BY <1>0, <1>1, <1>2, <1>6, <2>1, <3>1, <3>2, TablesOfNone DEF Emitting
  <2>8. ASSUME NEW w \in 0 .. InterFrame, Pausing(w) PROVE Tables' /\ Emitting'
    <3>1. Pausing(w)'
      BY <1>1, <1>6, <2>1, <2>8 DEF Pausing, Soon
    <3>2. alarms = Timer(w) /\ alarmCount = 1
      BY <2>8, TimerShape DEF Pausing, Tables
    <3> QED
      BY <1>0, <1>1, <1>2, <1>6, <2>1, <3>1, <3>2, TablesOfOne DEF Emitting
  <2> QED
    BY <2>1, <2>6, <2>7, <2>8 DEF Emitting, Written
<1>7. CASE LinkTick
  BY <1>7, EmittingTick
<1>8. CASE Crackle
  BY <1>0, <1>8, CrackleEffect, Margins
<1>9. CASE SendNext
  <2>1. phase = "idle" \/ phase = "waiting"
    BY DEF Emitting, Writing, Written, Pausing, Paused, Spoken
  <2> QED
    BY <1>9, <2>1 DEF SendNext
<1>10. ASSUME NEW r \in Request, Ask(r) PROVE Tables' /\ Overlapping'
  BY <1>10, EmittingAsk
<1> QED
  BY <1>4, <1>5, <1>6, <1>7, <1>8, <1>9, <1>10, LinkSteps

-----------------------------------------------------------------------------
(* A frame begins.                                                         *)

LEMMA LatencyNext ==
    ASSUME Shape'
    PROVE  \E l \in 0 .. 2 * MaxLate :
             Latency' = l /\ FrameTime' = l + Round + Turnaround + 2 * MaxLate
<1>1. late' \in 0 .. MaxLate /\ turn' \in {"tr", "pduh"}
  BY DEF Shape, SlaveShape, LineShape
<1>2. Left' = MaxLate - late' /\ Latency' = IF turn' = "tr" THEN Left' ELSE Left' + MaxLate
  BY DEF Latency, Left
<1>3. Latency' \in 0 .. 2 * MaxLate
  <2>1. PICK n \in 0 .. MaxLate : n = late'
    BY <1>1
  <2>2. MaxLate - n \in 0 .. 2 * MaxLate /\ MaxLate - n + MaxLate \in 0 .. 2 * MaxLate
    BY Margins
  <2> QED
    BY <1>2, <2>1, <2>2
<1> QED
  BY <1>3 DEF FrameTime

\* Behind a character there is time for the whole end of the frame.
LEMMA FreshFrame ==
    ASSUME Shape', silence' = 0
    PROVE  Within(FrameTime)'
<1>1. PICK l \in 0 .. 2 * MaxLate : FrameTime' = l + Round + Turnaround + 2 * MaxLate
  BY LatencyNext
<1>2. 0 + (l + Round + Turnaround + 2 * MaxLate) < Quiet
  BY Margins
<1> QED
  BY <1>1, <1>2 DEF Within

LEMMA FrameBegins ==
    ASSUME Shape', pc' = "ready", q' = <<Input(Sent(request', 0))>>, outQ' = <<>>, alarms' = <<>>,
           noise' = 0, Silent', bufferI' = 0, phase' = "sending" \/ Out', rx' = TRUE, sent' = 1,
           silence' = 0
    PROVE  Receiving'
<1>1. ~Storing'
  BY DEF Storing
<1>2. Taken' = 0
  BY <1>1 DEF Taken
<1>3. Len(q') = 1 /\ q'[1] = Input(Sent(request', 0))
  OBVIOUS
<1>4. Len(q') > 0 /\ Taken' + Len(q') = sent' /\ Begun'
  BY <1>2, <1>3 DEF Begun
<1>5. \A i \in 1 .. Len(q') : q'[i] = Input(Sent(request', Taken' + i - 1))
  <2>1. \A i \in 1 .. 1 : i = 1 /\ 0 + i - 1 = 0
    OBVIOUS
  <2> QED
    BY <1>2, <1>3, <2>1
<1>6. Len(q') <= 2 * MaxLate - Latency' + (IF rx' THEN 1 ELSE 0)
  <2>1. PICK l \in 0 .. 2 * MaxLate : Latency' = l
    BY LatencyNext
  <2>2. 1 <= 2 * MaxLate - l + 1
    BY Margins
  <2> QED
    BY <1>3, <2>1, <2>2
<1>7. Within(FrameTime)'
  BY FreshFrame
<1>8. /\ pc' = "ready" /\ bufferI' = 0 /\ pc' \notin {"reception", "reception_cancel"}
  OBVIOUS
<1>9. Len(q') <= Backlog'
  BY <1>6 DEF Backlog
<1> QED
  BY <1>1, <1>4, <1>5, <1>7, <1>8, <1>9 DEF Receiving

\* A request that began as the wait for silence ended is received from its first character.
LEMMA OverlappingStep ==
    ASSUME Shape, Tables, Overlapping, LinkNext, Shape'
    PROVE  Tables' /\ Receiving'
<1>0. /\ pc = "emission_wait" /\ q = <<Timeout, Input(Sent(request, 0))>> /\ alarms = <<>>
      /\ outQ = <<>> /\ noise = 0 /\ Silent /\ bufferI = 0
      /\ (phase = "sending" \/ Out)
      /\ rx /\ sent = 1 /\ silence = 0 /\ Latency = 0
      /\ tx = <<>> /\ reply = <<>> /\ alarmCount = 0
  BY DEF Overlapping, Silent, Tables
<1>1. CASE Daemon /\ UNCHANGED master
  <2>1. EmissionWait
    BY <1>0, <1>1, DaemonPlaces
  <2>2. q # <<>> /\ Head(q).tag = "timeout" /\ Tail(q) = <<Input(Sent(request, 0))>>
    <3>1. Head(q) = Timeout /\ Tail(q) = <<Input(Sent(request, 0))>> /\ q # <<>>
      BY <1>0
    <3> QED
      BY <3>1 DEF Timeout
  <2>3. /\ pc' = "ready" /\ q' = <<Input(Sent(request, 0))>> /\ outQ' = outQ
        /\ bufferI' = bufferI /\ alarms' = alarms /\ alarmCount' = alarmCount /\ tx' = tx /\ rx' = rx
    BY <2>1, <2>2, WaitsNext, WaitStep DEF EmissionWait
  <2>4. /\ request' = request /\ sent' = sent /\ phase' = phase /\ reply' = reply
        /\ silence' = silence /\ noise' = noise /\ Silent' /\ (phase' = "sending" \/ Out')
    BY <1>0, <1>1, <2>3, MasterUnchanged DEF Silent, Out
  <2>5. Receiving'
    BY <1>0, <2>3, <2>4, FrameBegins DEF Shape, LineShape
  <2> QED
    BY <1>0, <2>3, <2>5, NoTx, TablesOfNone
<1>2. CASE Handle /\ UNCHANGED master
  BY <1>0, <1>2 DEF Handle
<1>3. CASE ComeRound /\ UNCHANGED master
  BY <1>0, <1>3, LatencyRound, Margins
<1>4. CASE LinkTick
  BY <1>0, <1>4, LatencyTick
<1>5. CASE Crackle
  BY <1>0, <1>5, CrackleEffect, ReceiveEffect
<1>6. CASE SendNext
  BY <1>0, <1>6, SendNextEffect, ReceiveEffect DEF Shape
<1>7. ASSUME NEW r \in Request, Ask(r) PROVE FALSE
  BY <1>0, <1>7, AskEffect, ReceiveEffect DEF Shape
<1> QED
  BY <1>1, <1>2, <1>3, <1>4, <1>5, <1>6, <1>7, LinkSteps

\* At rest nothing but a request makes a difference.
LEMMA RestingStep ==
    ASSUME Shape, Tables, Resting, LinkNext, Shape'
    PROVE  Tables' /\ (Resting' \/ Receiving')
<1>0. /\ pc = "ready" /\ q = <<>> /\ outQ = <<>> /\ alarms = <<>> /\ bufferI = 0 /\ alarmCount = 0
      /\ (noise = 0 \/ (silence > MaxGap /\ ~request.mine)) /\ Spoken
      /\ tx \in Seq(Char) /\ Len(tx) <= TxSize
  BY DEF Resting, Tables
<1>1. CASE Daemon /\ UNCHANGED master
  <2>1. Ready
    BY <1>0, <1>1, DaemonPlaces
  <2>2. /\ pc' = pc /\ q' = q /\ outQ' = outQ
        /\ bufferI' = bufferI /\ alarms' = alarms /\ alarmCount' = alarmCount /\ tx' = tx
    BY <1>0, <2>1, WaitEmpty DEF Ready
  <2>3. Resting'
    BY <1>0, <1>1, <2>2, MasterUnchanged DEF Resting, Spoken, Full
  <2> QED
    BY <1>0, <2>2, <2>3, TablesOfNone
<1>2. CASE Handle /\ UNCHANGED master
  BY <1>0, <1>2 DEF Handle
<1>3. CASE ComeRound /\ UNCHANGED master
  <2>1. Resting'
    BY <1>0, <1>3, ComeRoundEffect, MasterUnchanged DEF Resting, Spoken, Full
  <2> QED
    BY <1>0, <1>3, <2>1, ComeRoundEffect, TablesOfNone
<1>4. CASE LinkTick
  <2>1. Spoken' /\ SilenceGoes /\ tx' \in Seq(Char) /\ Len(tx') <= TxSize
    BY <1>0, <1>4, SpokenTick
  <2>2. alarms' = <<>> /\ alarmCount' = 0 /\ q' = q
    BY <1>0, <1>4, TickEffect, TickNone DEF Shape, SlaveShape
  <2>3. pc' = pc /\ outQ' = outQ /\ bufferI' = bufferI /\ noise' = noise /\ request' = request
    BY <1>4, TickEffect
  <2>4. ASSUME silence > MaxGap, ~request.mine PROVE silence' > MaxGap
    <3>1. tx = <<>>
      BY <1>0, <2>4 DEF Spoken, Shape, LineShape
    <3>2. silence' = (IF silence < Quiet THEN silence + 1 ELSE silence)
      BY <1>4, <3>1, TickEffect
    <3>3. PICK s \in Nat : s = silence
      BY LatencyFacts, Margins
    <3>4. (IF s < Quiet THEN s + 1 ELSE s) > MaxGap
      BY <2>4, <3>3, Margins
    <3> QED
      BY <3>2, <3>3, <3>4
  <2>5. Resting'
    BY <1>0, <2>1, <2>2, <2>3, <2>4 DEF Resting
  <2> QED
    BY <2>1, <2>2, <2>5, TablesOfNone
<1>5. CASE Crackle
  <2>1. noise > 0 /\ silence <= MaxGap /\ silence \in Nat
    BY <1>5, CrackleEffect, LatencyFacts, Margins
  <2>2. noise # 0 /\ ~(silence > MaxGap)
    BY <2>1, LatencyFacts, Margins
  <2> QED
    BY <1>0, <2>2
<1>6. CASE SendNext
  BY <1>0, <1>6 DEF Spoken, SendNext
<1>7. ASSUME NEW r \in Request, Ask(r) PROVE Tables' /\ Receiving'
  <2>1. /\ phase = "idle"
        /\ rx' = TRUE /\ q' = Push(q, Input(Sent(r, 0))) /\ request' = r /\ sent' = 1
        /\ pc' = pc /\ outQ' = outQ /\ bufferI' = bufferI
        /\ alarms' = alarms /\ alarmCount' = alarmCount /\ tx' = tx
        /\ reply' = <<>> /\ silence' = 0 /\ noise' = 0
        /\ phase' = (IF 1 < r.length THEN "sending" ELSE IF r.mine THEN "waiting" ELSE "idle")
    BY <1>7, AskEffect, ReceiveEffect DEF Shape
  <2>2. tx = <<>>
    BY <1>0, <2>1 DEF Spoken
  <2>3. q' = <<Input(Sent(request', 0))>>
    <3>1. Push(<<>>, Input(Sent(r, 0))) = Append(<<>>, Input(Sent(r, 0)))
      BY Margins DEF Push
    <3> QED
      BY <1>0, <2>1, <3>1, AppendTo
  <2>4. Silent' /\ (phase' = "sending" \/ Out')
    BY <2>1, <2>2 DEF Silent, Out
  <2>5. Receiving'
    BY <1>0, <2>1, <2>3, <2>4, FrameBegins
  <2> QED
    BY <1>0, <2>1, <2>2, <2>5, NoTx, TablesOfNone
<1> QED
  BY <1>1, <1>2, <1>3, <1>4, <1>5, <1>6, <1>7, LinkSteps

-----------------------------------------------------------------------------
(* A frame comes in.                                                       *)

LEMMA BacklogFacts ==
    ASSUME Shape
    PROVE  Backlog \in Nat /\ (~rx => Backlog <= 2 * MaxLate)
<1>1. PICK l \in 0 .. 2 * MaxLate : l = Latency
  BY LatencyFacts
<1>2. rx \in BOOLEAN
  BY DEF Shape, LineShape
<1>3. 2 * MaxLate - l \in Nat /\ 2 * MaxLate - l <= 2 * MaxLate /\ 2 * MaxLate - l + 1 \in Nat
      /\ 2 * MaxLate - l + 0 = 2 * MaxLate - l
  BY Margins
<1>4. CASE rx
  BY <1>1, <1>3, <1>4 DEF Backlog
<1>5. CASE ~rx
  BY <1>1, <1>3, <1>5 DEF Backlog
<1> QED
  BY <1>4, <1>5

\* The backlog grows with a tick, with a character, and in a longer round.
LEMMA BacklogGrows ==
    ASSUME Shape
    PROVE  /\ turn' = turn /\ late' = late /\ rx' = rx => Backlog' = Backlog
           /\ turn' = turn /\ late' = late /\ rx' = TRUE /\ ~rx => Backlog' = Backlog + 1
           /\ LinkTick => Backlog' \in Nat /\ Backlog <= Backlog'
           /\ ComeRound => Backlog' \in Nat /\ Backlog <= Backlog'
           /\ Shape' => Backlog' \in Nat
<1>1. PICK l \in 0 .. 2 * MaxLate : l = Latency
  BY LatencyFacts
<1>2. rx \in BOOLEAN
  BY DEF Shape, LineShape
<1>3. Backlog' = 2 * MaxLate - Latency' + (IF rx' THEN 1 ELSE 0)
  BY DEF Backlog
<1>4. Backlog = 2 * MaxLate - l + (IF rx THEN 1 ELSE 0)
  BY <1>1 DEF Backlog
<1>5. ASSUME turn' = turn, late' = late, rx' = rx PROVE Backlog' = Backlog
  <2>1. Latency' = l
    BY <1>1, <1>5, LatencyKept
  <2> QED
    BY <1>3, <1>4, <1>5, <2>1
<1>6. ASSUME turn' = turn, late' = late, rx' = TRUE, ~rx PROVE Backlog' = Backlog + 1
  <2>1. Latency' = l
    BY <1>1, <1>6, LatencyKept
  <2>2. Backlog = 2 * MaxLate - l + 0 /\ Backlog' = 2 * MaxLate - l + 1
    BY <1>3, <1>4, <1>6, <2>1
  <2>3. 2 * MaxLate - l + 1 = (2 * MaxLate - l + 0) + 1
    BY Margins
  <2> QED
    BY <2>2, <2>3
<1>7. ASSUME LinkTick PROVE Backlog' \in Nat /\ Backlog <= Backlog'
  <2>1. l \in 1 .. 2 * MaxLate /\ Latency' = l - 1 /\ rx' = FALSE
    BY <1>1, <1>7, LatencyTick, TickEffect
  <2>2. Backlog' = 2 * MaxLate - (l - 1) + 0
    BY <1>3, <2>1
  <2>3. 2 * MaxLate - (l - 1) + 0 \in Nat
        /\ 2 * MaxLate - l + 1 <= 2 * MaxLate - (l - 1) + 0
        /\ 2 * MaxLate - l + 0 <= 2 * MaxLate - (l - 1) + 0
    BY <2>1, Margins
  <2> QED
    BY <1>2, <1>4, <2>2, <2>3
<1>8. ASSUME ComeRound PROVE Backlog' \in Nat /\ Backlog <= Backlog'
  <2>1. PICK m \in 0 .. 2 * MaxLate : Latency' = m /\ m <= l
    BY <1>1, <1>8, TimesRound
  <2>2. rx' = rx
    BY <1>8, ComeRoundEffect
  <2>3. Backlog' = 2 * MaxLate - m + (IF rx THEN 1 ELSE 0)
    BY <1>3, <2>1, <2>2
  <2>4. 2 * MaxLate - m + 0 \in Nat /\ 2 * MaxLate - m + 1 \in Nat
        /\ 2 * MaxLate - l + 1 <= 2 * MaxLate - m + 1
        /\ 2 * MaxLate - l + 0 <= 2 * MaxLate - m + 0
    BY <2>1, Margins
  <2> QED
    BY <1>2, <1>4, <2>3, <2>4
<1>9. ASSUME Shape' PROVE Backlog' \in Nat
  <2>1. PICK m \in 0 .. 2 * MaxLate : Latency' = m
    BY <1>9, LatencyNext
  <2>2. rx' \in BOOLEAN
    BY <1>9 DEF Shape, LineShape
  <2>3. 2 * MaxLate - m + 0 \in Nat /\ 2 * MaxLate - m + 1 \in Nat
    BY Margins
  <2> QED
    BY <1>3, <2>1, <2>2, <2>3
<1> QED
  BY <1>5, <1>6, <1>7, <1>8, <1>9

\* The next character of the frame is at the head of the queue.
LEMMA TakeNext ==
    ASSUME NEW s \in Seq(Message), s # <<>>, NEW n \in Nat, NEW r,
           \A i \in 1 .. Len(s) : s[i] = Input(Sent(r, n + i - 1))
    PROVE  /\ Head(s).tag = "char" /\ Head(s).char = Sent(r, n)
           /\ Len(Tail(s)) \in Nat /\ Len(s) = Len(Tail(s)) + 1
           /\ \A i \in 1 .. Len(Tail(s)) : Tail(s)[i] = Input(Sent(r, (n + 1) + i - 1))
<1>1. /\ Tail(s) \in Seq(Message) /\ Len(Tail(s)) = Len(s) - 1 /\ Head(s) = s[1]
      /\ \A i \in 1 .. Len(Tail(s)) : Tail(s)[i] = s[i + 1]
      /\ Len(s) \in Nat /\ Len(s) # 0
  BY HeadTailProperties
<1>2. PICK k \in Nat : Len(s) = k + 1 /\ Len(Tail(s)) = k
  <2>1. PICK a \in Nat : a = Len(s) /\ a # 0
    BY <1>1
  <2>2. a - 1 \in Nat /\ (a - 1) + 1 = a
    BY <2>1
  <2> QED
    BY <1>1, <2>1, <2>2
<1>3. Head(s) = Input(Sent(r, n))
  <2>1. 1 \in 1 .. k + 1 /\ n + 1 - 1 = n
    OBVIOUS
  <2> QED
    BY <1>1, <1>2, <2>1
<1>4. ASSUME NEW i \in 1 .. k PROVE Tail(s)[i] = Input(Sent(r, (n + 1) + i - 1))
  <2>1. i + 1 \in 1 .. k + 1 /\ n + (i + 1) - 1 = (n + 1) + i - 1
    OBVIOUS
  <2>2. s[i + 1] = Input(Sent(r, n + (i + 1) - 1))
    BY <1>2, <2>1
  <2> QED
    BY <1>1, <1>2, <2>1, <2>2
<1> QED
  BY <1>2, <1>3, <1>4 DEF Input

\* One more comes behind.
LEMMA ComesBehind ==
    ASSUME NEW s \in Seq(Message), NEW n \in Nat, NEW r,
           \A i \in 1 .. Len(s) : s[i] = Input(Sent(r, n + i - 1)),
           NEW m \in Nat, n + Len(s) = m, Sent(r, m) \in Char
    PROVE  /\ Len(Append(s, Input(Sent(r, m)))) = Len(s) + 1
           /\ \A i \in 1 .. Len(s) + 1 : Append(s, Input(Sent(r, m)))[i] = Input(Sent(r, n + i - 1))
<1>1. Input(Sent(r, m)) \in Message
  BY MessageKinds
<1> DEFINE a == Append(s, Input(Sent(r, m)))
<1>2. /\ Len(a) = Len(s) + 1 /\ \A i \in 1 .. Len(s) : a[i] = s[i]
      /\ a[Len(s) + 1] = Input(Sent(r, m)) /\ Len(s) \in Nat
  BY <1>1, AppendProperties
<1> HIDE DEF a
<1>3. PICK k \in Nat : k = Len(s) /\ m = n + k
  BY <1>2
<1>4. ASSUME NEW i \in 1 .. k + 1 PROVE a[i] = Input(Sent(r, n + i - 1))
  <2>1. CASE i = k + 1
    <3>1. n + i - 1 = m
      BY <1>3, <2>1
    <3> QED
      BY <1>2, <1>3, <2>1, <3>1
  <2>2. CASE i # k + 1
    <3>1. i \in 1 .. k
      BY <2>2
    <3> QED
      BY <1>2, <1>3, <3>1
  <2> QED
    BY <2>1, <2>2
<1> QED
  BY <1>2, <1>3, <1>4 DEF a

\* What is in the queue are characters of the frame that have yet to be taken.
LEMMA ReceivingFacts ==
    ASSUME Shape, Tables, Receiving
    PROVE  /\ q \in Seq(Message) /\ Len(q) \in Nat /\ Len(q) <= QueueSize /\ tx = <<>>
           /\ bufferI \in Nat /\ Taken \in Nat /\ Backlog \in Nat
           /\ sent \in Nat /\ request \in Request /\ request.length \in 1 .. BufferSize - 1
           /\ sent <= request.length
           /\ Storing => Taken = bufferI + 1
           /\ ~Storing => Taken = bufferI
           /\ alarms = <<>> => alarmCount = 0
           /\ \A w \in 0 .. InterFrame : alarms = Timer(w) => alarmCount = 1
<1>1. bufferI \in Nat
  BY Margins DEF Shape, SlaveShape, Index
<1>2. request \in Request /\ request.length \in 1 .. BufferSize - 1 /\ sent \in 1 .. request.length
  BY FullFacts DEF Shape, LineShape
<1>3. sent \in Nat /\ sent <= request.length
  BY <1>2
<1>4. (Storing => Taken = bufferI + 1) /\ (~Storing => Taken = bufferI) /\ Taken \in Nat
  BY <1>1 DEF Taken
<1>5. alarms = <<>> => alarmCount = 0
  BY DEF Tables
<1>6. \A w \in 0 .. InterFrame : alarms = Timer(w) => alarmCount = 1
  BY TimerShape DEF Tables
<1>7. q \in Seq(Message) /\ Len(q) \in Nat /\ Len(q) <= QueueSize
  BY LenProperties DEF Shape, SlaveShape
<1> QED
  BY <1>1, <1>2, <1>3, <1>4, <1>5, <1>6, <1>7, BacklogFacts DEF Receiving, Silent

\* A character is taken from the queue.
LEMMA CharacterTaken ==
    ASSUME Shape, Tables, Receiving, UNCHANGED master,
           \/ pc = "ready" /\ Ready
           \/ pc = "reception" /\ q # <<>> /\ Reception
    PROVE  Tables' /\ Receiving'
<1>0. /\ q \in Seq(Message) /\ Len(q) \in Nat /\ tx = <<>> /\ bufferI \in Nat /\ Backlog \in Nat
      /\ Taken = bufferI /\ ~Storing /\ Silent
      /\ noise = 0 /\ outQ = <<>> /\ (phase = "sending" \/ Out) /\ Taken + Len(q) = sent /\ Begun
      /\ Len(q) <= Backlog /\ (bufferI = 0 <=> pc = "ready")
      /\ \A i \in 1 .. Len(q) : q[i] = Input(Sent(request, bufferI + i - 1))
  BY ReceivingFacts DEF Receiving, Storing
<1>1. q # <<>>
  <2>1. Len(<<>>) = 0
    OBVIOUS
  <2>2. pc = "ready" => Len(q) > 0
    BY DEF Receiving
  <2>3. ~(0 > 0)
    OBVIOUS
  <2> QED
    BY <2>1, <2>2, <2>3
<1>2. /\ Head(q).tag = "char" /\ Head(q).char = Sent(request, bufferI)
      /\ Len(Tail(q)) \in Nat /\ Len(q) = Len(Tail(q)) + 1
      /\ \A i \in 1 .. Len(Tail(q)) : Tail(q)[i] = Input(Sent(request, (bufferI + 1) + i - 1))
  BY <1>0, <1>1, TakeNext
<1>3. /\ \/ pc = "ready" /\ pc' = "ready_set"
         \/ pc = "reception" /\ pc' = "reception_cancel"
      /\ turn = "tr" /\ turn' = turn /\ q' = Tail(q) /\ inputMsg' = Sent(request, bufferI)
      /\ outQ' = outQ /\ buffer' = buffer /\ bufferI' = bufferI
      /\ alarms' = alarms /\ alarmCount' = alarmCount /\ tx' = tx /\ rx' = rx /\ late' = late
  <2>1. CASE pc = "ready" /\ Ready
    <3>1. pc' = "ready_set"
      BY <1>1, <1>2, <2>1, WaitsNext
    <3>2. /\ turn' = turn /\ q' = Tail(q)
          /\ outQ' = outQ /\ buffer' = buffer /\ bufferI' = bufferI
          /\ alarms' = alarms /\ alarmCount' = alarmCount /\ tx' = tx /\ rx' = rx /\ late' = late
      BY <1>1, <2>1, WaitStep DEF Ready
    <3>3. inputMsg' = Head(q).char /\ turn = "tr"
      <4>1. "ready_set" # "initial"
        OBVIOUS
      <4> QED
        BY <1>1, <1>2, <2>1, <3>1, <4>1 DEF Ready, WaitAt, At
    <3> QED
      BY <1>2, <2>1, <3>1, <3>2, <3>3
  <2>2. CASE pc = "reception" /\ q # <<>> /\ Reception
    <3>1. pc' = "reception_cancel"
      BY <1>1, <1>2, <2>2, WaitsNext
    <3>2. /\ turn' = turn /\ q' = Tail(q)
          /\ outQ' = outQ /\ buffer' = buffer /\ bufferI' = bufferI
          /\ alarms' = alarms /\ alarmCount' = alarmCount /\ tx' = tx /\ rx' = rx /\ late' = late
      BY <1>1, <2>2, WaitStep DEF Reception
    <3>3. inputMsg' = Head(q).char /\ turn = "tr"
      <4>1. "reception_cancel" # "initial"
        OBVIOUS
      <4> QED
        BY <1>1, <1>2, <2>2, <3>1, <4>1 DEF Reception, WaitAt, At
    <3> QED
      BY <1>2, <2>2, <3>1, <3>2, <3>3
  <2> QED
    BY <2>1, <2>2
<1>4. /\ request' = request /\ sent' = sent /\ phase' = phase /\ reply' = reply
      /\ silence' = silence /\ noise' = noise
  BY MasterUnchanged
<1>5. Storing' /\ Taken' = bufferI + 1
  BY <1>3 DEF Storing, Taken
<1>6. Taken' + Len(q') = sent'
  <2>1. PICK a \in Nat, b \in Nat : a = bufferI /\ b = Len(Tail(q)) /\ a + (b + 1) = sent
    BY <1>0, <1>2
  <2>2. (a + 1) + b = a + (b + 1)
    OBVIOUS
  <2> QED
    BY <1>3, <1>4, <1>5, <2>1, <2>2
<1>7. Begun' /\ Silent' /\ (phase' = "sending" \/ Out')
  BY <1>0, <1>3, <1>4 DEF Begun, Silent, Out
<1>8. \A i \in 1 .. Len(q') : q'[i] = Input(Sent(request', Taken' + i - 1))
  BY <1>2, <1>3, <1>4, <1>5
<1>9. Len(q') <= Backlog'
  <2>1. Backlog' = Backlog
    BY <1>3, BacklogGrows
  <2>2. PICK a \in Nat, b \in Nat : a = Len(Tail(q)) /\ b = Backlog /\ a + 1 <= b
    BY <1>0, <1>2
  <2>3. a <= b
    BY <2>2
  <2> QED
    BY <1>3, <2>1, <2>2, <2>3
<1>10. IF pc' \in {"reception", "reception_cancel"}
       THEN \E w \in 0 .. InterFrame : Timing(w)'
       ELSE alarms' = <<>> /\ Within(FrameTime)'
  <2>1. FrameTime' = FrameTime /\ Latency' = Latency
    BY <1>3, TimesKept
  <2>2. Within(FrameTime) => Within(FrameTime)'
    BY <1>4, <2>1 DEF Within
  <2>3. CASE pc = "ready"
    <3>1. alarms = <<>> /\ Within(FrameTime)
      BY <2>3 DEF Receiving
    <3>2. pc' = "ready_set"
      BY <1>3, <2>3
    <3> QED
      BY <1>3, <2>2, <3>1, <3>2
  <2>4. CASE pc = "reception"
    <3>1. PICK w \in 0 .. InterFrame : Timing(w)
      BY <2>4 DEF Receiving
    <3>2. Len(q) > 0
      BY <1>2
    <3>3. alarms = Timer(w) /\ w >= Latency /\ Within(FrameTime)
      BY <3>1, <3>2 DEF Timing
    <3>4. Timing(w)'
      BY <1>3, <1>5, <2>1, <2>2, <3>3 DEF Timing
    <3>5. pc' = "reception_cancel"
      BY <1>3, <2>4
    <3> QED
      BY <3>4, <3>5
  <2> QED
    BY <1>3, <2>3, <2>4
<1>11. bufferI' = 0 <=> pc' \in {"ready", "ready_set"}
  BY <1>0, <1>3
<1>12. Receiving'
  BY <1>0, <1>3, <1>4, <1>5, <1>6, <1>7, <1>8, <1>9, <1>10, <1>11 DEF Receiving, Storing
<1>13. Tables'
  BY <1>3 DEF Tables
<1> QED
  BY <1>12, <1>13

\* It goes to its place in the buffer and the timer is set anew.
LEMMA CharacterStored ==
    ASSUME Shape, Tables, Receiving, UNCHANGED master,
           \/ pc = "ready_set" /\ ReadySet
           \/ pc = "reception_set" /\ ReceptionSet
    PROVE  Tables' /\ Receiving'
<1>0. /\ q \in Seq(Message) /\ Len(q) \in Nat /\ tx = <<>> /\ bufferI \in Nat /\ Backlog \in Nat
      /\ Storing /\ Taken = bufferI + 1 /\ Silent /\ alarms = <<>> /\ alarmCount = 0
      /\ noise = 0 /\ outQ = <<>> /\ (phase = "sending" \/ Out) /\ Taken + Len(q) = sent /\ Begun
      /\ Len(q) <= Backlog /\ inputMsg = Sent(request, bufferI) /\ Within(FrameTime)
      /\ \A i \in 1 .. Len(q) : q[i] = Input(Sent(request, Taken + i - 1))
      /\ sent <= request.length /\ request.length \in 1 .. BufferSize - 1 /\ sent \in Nat
  <2>1. pc \in {"ready_set", "reception_set"}
    OBVIOUS
  <2>2. Storing /\ pc \notin {"reception", "reception_cancel"}
    BY <2>1 DEF Storing
  <2> QED
    BY <2>2, ReceivingFacts DEF Receiving
<1>1. /\ pc' = "reception" /\ turn' = turn /\ q' = q /\ outQ' = outQ /\ tx' = tx
      /\ rx' = rx /\ late' = late /\ Store /\ SetAlarm(InterFrame, FALSE)
  BY DEF ReadySet, ReceptionSet, ClockAt, isr
<1>2. /\ request' = request /\ sent' = sent /\ phase' = phase /\ reply' = reply
      /\ silence' = silence /\ noise' = noise
  BY MasterUnchanged
<1>3. bufferI' = bufferI + 1 /\ bufferI \in Index
  <2>1. PICK a \in Nat, b \in Nat, c \in Nat, d \in Nat :
          a = bufferI /\ b = Len(q) /\ c = request.length /\ d = sent /\ c <= BufferSize - 1
          /\ (a + 1) + b = d /\ d <= c
    <3>1. request.length \in Nat /\ request.length <= BufferSize - 1
      BY <1>0, Margins
    <3> QED
      BY <1>0, <3>1
  <2>2. a + 1 <= BufferSize - 1 /\ (a + 1) % BufferSize = a + 1 /\ a \in 0 .. BufferSize - 1
    BY <2>1, Margins
  <2> QED
    BY <1>1, <2>1, <2>2 DEF Store, Index
<1>4. Begun'
  <2>1. buffer' = [buffer EXCEPT ![bufferI] = inputMsg]
    BY <1>1 DEF Store
  <2>2. buffer \in [Index -> Char \cup {NoChar}]
    BY DEF Shape, SlaveShape
  <2>3. ASSUME NEW i \in 0 .. bufferI PROVE buffer'[i] = Sent(request, i)
    <3>1. i \in Index
      BY <1>3, Margins DEF Index
    <3>2. CASE i = bufferI
      BY <1>0, <1>3, <2>1, <2>2, <3>2
    <3>3. CASE i # bufferI
      <4>1. i \in 0 .. bufferI - 1
        BY <1>0, <3>3
      <4> QED
        BY <1>0, <2>1, <2>2, <3>1, <3>3, <4>1 DEF Begun
    <3> QED
      BY <3>2, <3>3
  <2>4. 0 .. bufferI' - 1 = 0 .. bufferI
    BY <1>0, <1>3
  <2> QED
    BY <1>2, <2>3, <2>4 DEF Begun
<1>5. alarms' = Timer(InterFrame) /\ alarmCount' = 1 /\ InterFrame \in 0 .. InterFrame
  <2>1. InterFrame \in 0 .. InterFrame
    BY Margins
  <2> QED
    BY <1>0, <1>1, <2>1, TimerSet
<1>6. ~Storing' /\ Taken' = Taken
  BY <1>0, <1>1, <1>3 DEF Storing, Taken
<1>7. Backlog' = Backlog /\ FrameTime' = FrameTime /\ Latency' = Latency
  BY <1>1, BacklogGrows, TimesKept
<1>8. Timing(InterFrame)'
  <2>1. PICK l \in 0 .. 2 * MaxLate : Latency = l /\ FrameTime = l + Round + Turnaround + 2 * MaxLate
    BY TimesNow
  <2>2. InterFrame >= Latency'
    <3>1. InterFrame >= l
      BY <2>1, Margins
    <3> QED
      BY <1>7, <2>1, <3>1
  <2>3. Within(FrameTime)'
    BY <1>0, <1>2, <1>7 DEF Within
  <2>4. phase' = "sending" => InterFrame + silence' >= InterFrame
    <3>1. PICK s \in Nat : s = silence
      BY LatencyFacts, Margins
    <3>2. InterFrame + s >= InterFrame
      BY Margins
    <3> QED
      BY <1>2, <3>1, <3>2
  <2>5. Within(InterFrame + 2 * MaxLate + Turnaround + 2 * MaxLate)'
    <3>1. /\ l + Round + Turnaround + 2 * MaxLate \in Nat
          /\ InterFrame + 2 * MaxLate + Turnaround + 2 * MaxLate \in Nat
          /\ InterFrame + 2 * MaxLate + Turnaround + 2 * MaxLate <= l + Round + Turnaround + 2 * MaxLate
      BY Margins
    <3>2. Within(l + Round + Turnaround + 2 * MaxLate)
      BY <1>0, <2>1
    <3>3. phase' = "idle" => silence' + (InterFrame + 2 * MaxLate + Turnaround + 2 * MaxLate) < Quiet
      BY <1>2, <3>1, <3>2, WithinKept
    <3> QED
      BY <3>3 DEF Within
  <2> QED
    BY <1>5, <2>2, <2>3, <2>4, <2>5 DEF Timing
<1>9. Silent' /\ (phase' = "sending" \/ Out')
  BY <1>0, <1>1, <1>2 DEF Silent, Out
<1>10. bufferI' # 0
  BY <1>0, <1>3
<1>11. Receiving'
  BY <1>0, <1>1, <1>2, <1>4, <1>5, <1>6, <1>7, <1>8, <1>9, <1>10 DEF Receiving
<1>12. Tables'
  BY <1>0, <1>1, <1>5, NoTx, TablesOfOne
<1> QED
  BY <1>11, <1>12

\* Between them the timer of the character before is taken back, though
\* cancel_alarm does not find its id.
LEMMA TimerTakenBack ==
    ASSUME Shape, Tables, Receiving, UNCHANGED master,
           \/ pc = "reception_cancel" /\ ReceptionCancel
           \/ pc = "reception_drain" /\ ReceptionDrain
    PROVE  Tables' /\ Receiving'
<1>0. /\ tx = <<>> /\ Storing /\ Silent /\ outQ = <<>> /\ Within(FrameTime)
      /\ q \in Seq(Message) /\ Len(q) <= Backlog
      /\ \A i \in 1 .. Len(q) : q[i] = Input(Sent(request, Taken + i - 1))
  <2>1. Storing
    BY DEF Storing
  <2>2. Within(FrameTime)
    BY <2>1 DEF Receiving, Timing
  <2> QED
    BY <2>1, <2>2, ReceivingFacts DEF Receiving
<1>1. ~HeadIs("timeout")
  <2>1. CASE q = <<>>
    BY <2>1 DEF HeadIs
  <2>2. CASE q # <<>>
    <3>1. 1 \in 1 .. Len(q)
      BY <1>0, <2>2, LenProperties
    <3>2. q[1] = Input(Sent(request, Taken + 1 - 1))
      BY <1>0, <3>1
    <3>3. Head(q) = q[1]
      BY <1>0, <2>2
    <3>4. Head(q).tag = "char"
      BY <3>2, <3>3 DEF Input
    <3> QED
      BY <3>4 DEF HeadIs
  <2> QED
    BY <2>1, <2>2
<1>2. /\ turn' = turn /\ q' = q /\ outQ' = outQ /\ tx' = tx /\ inputMsg' = inputMsg
      /\ rx' = rx /\ late' = late /\ buffer' = buffer /\ bufferI' = bufferI
      /\ alarms' = <<>> /\ alarmCount' = 0
      /\ pc' \in {"reception_drain", "reception_set"} /\ turn = "tr"
  <2>1. CASE pc = "reception_cancel" /\ ReceptionCancel
    <3>1. PICK w \in 0 .. InterFrame : alarms = Timer(w)
      BY <2>1 DEF Receiving, Timing
    <3>2. alarmCount = 1
      BY <3>1, ReceivingFacts
    <3>3. CancelAid
      BY <2>1 DEF ReceptionCancel
    <3>4. alarms' = <<>> /\ alarmCount' = 0
      BY <3>1, <3>2, <3>3, TimerCancelled
    <3> QED
      BY <2>1, <3>4 DEF ReceptionCancel, ClockAt, At, frame, isr
  <2>2. CASE pc = "reception_drain" /\ ReceptionDrain
    <3>1. alarms = <<>> /\ alarmCount = 0
      BY <2>2 DEF Receiving, Tables
    <3> QED
      BY <1>1, <2>2, <3>1 DEF ReceptionDrain, At, frame, clock, isr
  <2> QED
    BY <2>1, <2>2
<1>3. /\ request' = request /\ sent' = sent /\ phase' = phase /\ reply' = reply
      /\ silence' = silence /\ noise' = noise
  BY MasterUnchanged
<1>4. Storing' /\ Taken' = Taken
  BY <1>0, <1>2 DEF Storing, Taken
<1>5. Backlog' = Backlog /\ FrameTime' = FrameTime
  BY <1>2, BacklogGrows, TimesKept
<1>6. Within(FrameTime)' /\ Silent' /\ (Out => Out') /\ (Begun => Begun')
  BY <1>0, <1>2, <1>3, <1>5 DEF Within, Silent, Out, Begun
<1>7. pc' \notin {"reception", "reception_cancel", "ready", "ready_set"}
      /\ pc \notin {"ready", "ready_set"}
  BY <1>2
<1>8. Receiving'
  BY <1>0, <1>2, <1>3, <1>4, <1>5, <1>6, <1>7 DEF Receiving
<1> QED
  BY <1>0, <1>2, <1>8, NoTx, TablesOfNone

\* A tick finds the timer due only where the frame is over.
LEMMA ReceivingTick ==
    ASSUME Shape, Tables, Receiving, LinkTick
    PROVE  Tables' /\ (Receiving' \/ Ended')
<1>0. /\ q \in Seq(Message) /\ Len(q) \in Nat /\ tx = <<>> /\ bufferI \in Nat /\ Backlog \in Nat
      /\ Len(q) <= QueueSize /\ Silent /\ noise = 0 /\ outQ = <<>> /\ (phase = "sending" \/ Out)
      /\ Taken + Len(q) = sent /\ Begun /\ Len(q) <= Backlog
      /\ \A i \in 1 .. Len(q) : q[i] = Input(Sent(request, Taken + i - 1))
  BY ReceivingFacts DEF Receiving
<1>1. /\ reply' = <<>> /\ tx' = <<>> /\ phase' = phase /\ Silent'
      /\ pc' = pc /\ turn' = turn /\ outQ' = outQ /\ inputMsg' = inputMsg /\ buffer' = buffer
      /\ bufferI' = bufferI /\ request' = request /\ noise' = noise /\ sent' = sent /\ Tick
  BY <1>0, SilentTick, TickEffect
<1>2. /\ Taken' = Taken /\ Storing' = Storing /\ (Begun => Begun') /\ (Out => Out')
  BY <1>1 DEF Taken, Storing, Begun, Out
<1>3. Len(q) <= Backlog'
  <2>1. Backlog' \in Nat /\ Backlog <= Backlog'
    BY BacklogGrows
  <2>2. PICK a \in Nat, b \in Nat, c \in Nat : a = Len(q) /\ b = Backlog /\ c = Backlog' /\ a <= b /\ b <= c
    BY <1>0, <2>1
  <2>3. a <= c
    BY <2>2
  <2> QED
    BY <2>2, <2>3
<1>4. ASSUME q' = q,
             IF pc \in {"reception", "reception_cancel"}
             THEN \E w \in 0 .. InterFrame : Timing(w)'
             ELSE alarms' = <<>> /\ Within(FrameTime)'
      PROVE  Receiving'
  <2>1. Len(q') <= Backlog' /\ Taken' + Len(q') = sent'
    BY <1>0, <1>1, <1>2, <1>3, <1>4
  <2>2. \A i \in 1 .. Len(q') : q'[i] = Input(Sent(request', Taken' + i - 1))
    BY <1>0, <1>1, <1>2, <1>4
  <2>3. /\ pc' \in {"ready", "reception"} \/ Storing'
        /\ Storing' => turn' = "tr" /\ inputMsg' = Sent(request', bufferI')
        /\ noise' = 0 /\ outQ' = <<>> /\ Silent'
        /\ phase' = "sending" \/ Out'
        /\ pc' = "ready" => Len(q') > 0
        /\ bufferI' = 0 <=> pc' \in {"ready", "ready_set"}
    BY <1>0, <1>1, <1>2, <1>4 DEF Receiving
  <2>4. Begun'
    BY <1>0, <1>2
  <2>5. IF pc' \in {"reception", "reception_cancel"}
        THEN \E w \in 0 .. InterFrame : Timing(w)'
        ELSE alarms' = <<>> /\ Within(FrameTime)'
    BY <1>1, <1>4
  <2> QED
    BY <2>1, <2>2, <2>3, <2>4, <2>5 DEF Receiving
<1>5. CASE pc \notin {"reception", "reception_cancel"}
  <2>1. alarms = <<>> /\ alarmCount = 0 /\ Within(FrameTime)
    BY <1>5 DEF Receiving, Tables
  <2>2. alarms' = <<>> /\ alarmCount' = 0 /\ q' = q
    BY <1>0, <1>1, <2>1, TickNone
  <2>3. Within(FrameTime)'
    BY <1>0, <2>1, EndTimeTick
  <2> QED
    BY <1>1, <1>4, <1>5, <2>2, <2>3, NoTx, TablesOfNone
<1>6. CASE pc \in {"reception", "reception_cancel"}
  <2>1. PICK w \in 0 .. InterFrame : Timing(w)
    BY <1>6 DEF Receiving
  <2>2. alarms = Timer(w) /\ alarmCount = 1 /\ w \in Nat
    BY <2>1, ReceivingFacts, Margins DEF Timing
  <2>3. CASE Storing \/ Len(q) > 0
    <3>1. w >= Latency /\ Within(FrameTime)
      BY <2>1, <2>3 DEF Timing
    <3>2. PICK l \in 1 .. 2 * MaxLate : l = Latency /\ Latency' = l - 1
      BY LatencyTick
    <3>3. w \in 1 .. InterFrame /\ w - 1 >= l - 1 /\ w - 1 \in 0 .. InterFrame
      <4>1. w >= l
        BY <3>1, <3>2
      <4> QED
        BY <2>2, <4>1, Margins
    <3>4. alarms' = Timer(w - 1) /\ alarmCount' = 1 /\ q' = q
      BY <1>0, <1>1, <2>2, <3>3, TickRuns
    <3>5. Within(FrameTime)'
      BY <1>0, <3>1, EndTimeTick
    <3>6. w - 1 >= Latency'
      BY <3>2, <3>3
    <3>7. Storing' \/ Len(q') > 0
      BY <1>2, <2>3, <3>4
    <3>8. Timing(w - 1)'
      BY <3>4, <3>5, <3>6, <3>7 DEF Timing
    <3> QED
      BY <1>1, <1>4, <1>6, <3>3, <3>4, <3>8, NoTx, TablesOfOne
  <2>4. CASE ~(Storing \/ Len(q) > 0)
    <3>1. /\ phase = "sending" => w + silence >= InterFrame
          /\ Within(w + 2 * MaxLate + Turnaround + 2 * MaxLate)
      BY <2>1, <2>4 DEF Timing
    <3>2. q = <<>> /\ pc = "reception"
      <4>1. Len(q) = 0
        BY <1>0, <2>4
      <4>2. pc = "reception"
        BY <1>6, <2>4 DEF Storing
      <4> QED
        BY <1>0, <4>1, <4>2
    <3>3. PICK s \in Nat : s = silence
      BY LatencyFacts, Margins
    <3>4. phase = "sending" => s <= MaxGap /\ s < Quiet
      <4>1. phase = "sending" => silence <= MaxGap
        BY DEF Shape, LineShape
      <4>2. MaxGap < Quiet
        BY Margins
      <4> QED
        BY <3>3, <4>1, <4>2, Margins
    <3>5. CASE w = 0
      <4>1. phase # "sending"
        <5>1. phase = "sending" => 0 + s >= InterFrame
          BY <3>1, <3>3, <3>5
        <5>2. s <= MaxGap => ~(0 + s >= InterFrame)
          BY Margins
        <5> QED
          BY <3>4, <5>1, <5>2
      <4>2. Len(q) < QueueSize
        <5>1. Len(<<>>) = 0
          OBVIOUS
        <5> QED
          BY <3>2, <5>1, Margins
      <4>3. alarms' = <<>> /\ alarmCount' = 0 /\ q' = <<Timeout>>
        <5>1. alarms' = <<>> /\ alarmCount' = 0 /\ q' = Append(q, Timeout)
          BY <1>0, <1>1, <2>2, <3>5, <4>2, TickExpires
        <5> QED
          BY <3>2, <5>1, AppendTo
      <4>4. bufferI = request.length
        <5>1. Taken = bufferI /\ Len(q) = 0 /\ sent <= request.length /\ sent \in Nat
              /\ request.length \in Nat
          <6>1. Len(<<>>) = 0
            OBVIOUS
          <6> QED
            BY <2>4, <3>2, <6>1, ReceivingFacts, Margins
        <5>2. ~(sent < request.length)
          BY <4>1 DEF Shape, LineShape
        <5>3. sent = request.length
          BY <5>1, <5>2
        <5>4. bufferI + 0 = sent
          BY <1>0, <5>1
        <5> QED
          BY <1>0, <5>3, <5>4
      <4>5. Within(EndTime)'
        <5>1. PICK l \in 1 .. 2 * MaxLate : EndTime' = l - 1 + Turnaround + 2 * MaxLate
          BY TimesTick
        <5>2. /\ 0 + 2 * MaxLate + Turnaround + 2 * MaxLate \in Nat
              /\ l - 1 + Turnaround + 2 * MaxLate \in Nat
              /\ (l - 1 + Turnaround + 2 * MaxLate) + 1 <= 0 + 2 * MaxLate + Turnaround + 2 * MaxLate
          BY Margins
        <5>3. phase' = "idle" => silence' + (l - 1 + Turnaround + 2 * MaxLate) < Quiet
          BY <1>0, <3>1, <3>5, <5>2, WithinTick
        <5> QED
          BY <5>1, <5>3 DEF Within
      <4>6. Ended'
        BY <1>0, <1>1, <1>2, <3>2, <4>1, <4>3, <4>4, <4>5 DEF Ended
      <4> QED
        BY <1>1, <4>3, <4>6, NoTx, TablesOfNone
    <3>6. CASE w # 0
      <4>1. w \in 1 .. InterFrame /\ w - 1 \in 0 .. InterFrame
        BY <2>2, <3>6, Margins
      <4>2. alarms' = Timer(w - 1) /\ alarmCount' = 1 /\ q' = q
        BY <1>0, <1>1, <2>2, <4>1, TickRuns
      <4>3. phase' = "sending" => (w - 1) + silence' >= InterFrame
        <5>1. phase = "sending" => silence' = s + 1
          BY <1>0, <3>3, <3>4, SilentTick
        <5>2. phase = "sending" => w + s >= InterFrame
          BY <3>1, <3>3
        <5>3. w + s >= InterFrame => (w - 1) + (s + 1) >= InterFrame
          BY <2>2, Margins
        <5> QED
          BY <1>1, <5>1, <5>2, <5>3
      <4>4. Within((w - 1) + 2 * MaxLate + Turnaround + 2 * MaxLate)'
        <5>1. /\ w + 2 * MaxLate + Turnaround + 2 * MaxLate \in Nat
              /\ (w - 1) + 2 * MaxLate + Turnaround + 2 * MaxLate \in Nat
              /\ ((w - 1) + 2 * MaxLate + Turnaround + 2 * MaxLate) + 1
                   <= w + 2 * MaxLate + Turnaround + 2 * MaxLate
          BY <4>1, Margins
        <5>2. phase' = "idle" => silence' + ((w - 1) + 2 * MaxLate + Turnaround + 2 * MaxLate) < Quiet
          BY <1>0, <3>1, <5>1, WithinTick
        <5> QED
          BY <5>2 DEF Within
      <4>5. ~(Storing' \/ Len(q') > 0)
        BY <1>2, <2>4, <4>2
      <4>6. Timing(w - 1)'
        BY <4>2, <4>3, <4>4, <4>5 DEF Timing
      <4> QED
        BY <1>1, <1>4, <1>6, <4>1, <4>2, <4>6, NoTx, TablesOfOne
    <3> QED
      BY <3>5, <3>6
  <2> QED
    BY <2>3, <2>4
<1> QED
  BY <1>5, <1>6

\* The next character finds room in the queue, and the timer far from due.
LEMMA ReceivingSend ==
    ASSUME Shape, Tables, Receiving, SendNext, Shape'
    PROVE  Tables' /\ Receiving'
<1>0. /\ q \in Seq(Message) /\ Len(q) \in Nat /\ tx = <<>> /\ bufferI \in Nat /\ Backlog \in Nat
      /\ Taken \in Nat /\ sent \in Nat
      /\ Len(q) <= QueueSize /\ Silent /\ noise = 0 /\ outQ = <<>>
      /\ Taken + Len(q) = sent /\ Begun /\ Len(q) <= Backlog
      /\ \A i \in 1 .. Len(q) : q[i] = Input(Sent(request, Taken + i - 1))
  BY ReceivingFacts DEF Receiving
<1>1. /\ phase = "sending" /\ Receive(Sent(request, sent)) /\ Sent(request, sent) \in Char
      /\ sent' = sent + 1 /\ silence' = 0
      /\ phase' = (IF sent + 1 < request.length THEN "sending"
                   ELSE IF request.mine THEN "waiting" ELSE "idle")
      /\ request' = request /\ reply' = reply /\ noise' = noise
  BY SendNextEffect DEF Shape
<1>2. /\ ~rx /\ rx' = TRUE /\ q' = Push(q, Input(Sent(request, sent)))
      /\ pc' = pc /\ turn' = turn /\ outQ' = outQ /\ inputMsg' = inputMsg
      /\ buffer' = buffer /\ bufferI' = bufferI
      /\ alarms' = alarms /\ alarmCount' = alarmCount /\ tx' = tx /\ late' = late
  BY <1>1, ReceiveEffect
<1>3. q' = Append(q, Input(Sent(request, sent)))
  <2>1. Backlog <= 2 * MaxLate
    BY <1>2, BacklogFacts
  <2>2. PICK a \in Nat, b \in Nat : a = Len(q) /\ b = Backlog /\ a <= b /\ b <= 2 * MaxLate
    BY <1>0, <2>1
  <2>3. a < QueueSize
    BY <2>2, Margins
  <2> QED
    BY <1>2, <2>2, <2>3 DEF Push
<1>4. /\ Len(q') = Len(q) + 1
      /\ \A i \in 1 .. Len(q) + 1 : q'[i] = Input(Sent(request, Taken + i - 1))
  BY <1>0, <1>1, <1>3, ComesBehind
<1>5. Storing' = Storing /\ Taken' = Taken /\ Begun' /\ Silent' /\ (phase' = "sending" \/ Out')
  BY <1>0, <1>1, <1>2 DEF Storing, Taken, Begun, Silent, Out
<1>6. Taken' + Len(q') = sent' /\ Len(q') <= Backlog' /\ Len(q') > 0
  <2>1. Backlog' = Backlog + 1
    BY <1>2, BacklogGrows
  <2>2. PICK a \in Nat, b \in Nat, c \in Nat, d \in Nat :
          a = Len(q) /\ b = Backlog /\ c = Taken /\ d = sent /\ a <= b /\ c + a = d
    BY <1>0
  <2>3. c + (a + 1) = d + 1 /\ a + 1 <= b + 1 /\ a + 1 > 0
    BY <2>2
  <2> QED
    BY <1>1, <1>4, <1>5, <2>1, <2>2, <2>3
<1>7. Within(FrameTime)'
  BY <1>1, FreshFrame
<1>8. ASSUME NEW w \in 0 .. InterFrame, Timing(w) PROVE Timing(w)'
  <2>1. alarms' = Timer(w)
    BY <1>2, <1>8 DEF Timing
  <2>2. PICK l \in 0 .. 2 * MaxLate : l = Latency
    BY LatencyFacts
  <2>3. w >= l
    <3>1. CASE Storing \/ Len(q) > 0
      BY <1>8, <2>2, <3>1 DEF Timing
    <3>2. CASE ~(Storing \/ Len(q) > 0)
      <4>1. PICK s \in Nat : s = silence
        BY LatencyFacts, Margins
      <4>2. w + s >= InterFrame
        BY <1>1, <1>8, <3>2, <4>1 DEF Timing
      <4>3. s <= MaxGap
        BY <1>1, <4>1 DEF Shape, LineShape
      <4> QED
        BY <4>2, <4>3, Margins
    <3> QED
      BY <3>1, <3>2
  <2>4. Latency' = l
    BY <1>2, <2>2, LatencyKept
  <2> QED
    BY <1>6, <1>7, <2>1, <2>3, <2>4 DEF Timing
<1>9. IF pc' \in {"reception", "reception_cancel"}
      THEN \E w \in 0 .. InterFrame : Timing(w)'
      ELSE alarms' = <<>> /\ Within(FrameTime)'
  <2>1. CASE pc \in {"reception", "reception_cancel"}
    <3>1. PICK w \in 0 .. InterFrame : Timing(w)
      BY <2>1 DEF Receiving
    <3> QED
      BY <1>2, <1>8, <2>1, <3>1
  <2>2. CASE pc \notin {"reception", "reception_cancel"}
    BY <1>2, <1>7, <2>2 DEF Receiving
  <2> QED
    BY <2>1, <2>2
<1>10. \A i \in 1 .. Len(q') : q'[i] = Input(Sent(request', Taken' + i - 1))
  BY <1>1, <1>4, <1>5
<1>11. /\ pc' \in {"ready", "reception"} \/ Storing'
       /\ Storing' => turn' = "tr" /\ inputMsg' = Sent(request', bufferI')
       /\ noise' = 0 /\ outQ' = <<>>
       /\ pc' = "ready" => Len(q') > 0
       /\ bufferI' = 0 <=> pc' \in {"ready", "ready_set"}
  BY <1>0, <1>1, <1>2, <1>5, <1>6 DEF Receiving
<1>12. Receiving'
  BY <1>5, <1>6, <1>9, <1>10, <1>11 DEF Receiving
<1>13. Tables'
  BY <1>2 DEF Tables
<1> QED
  BY <1>12, <1>13

\* Character by character, with the timer behind the last one, the frame comes in whole.
LEMMA ReceivingStep ==
    ASSUME Shape, Tables, Receiving, LinkNext, Shape'
    PROVE  Tables' /\ (Receiving' \/ Ended')
<1>0. /\ q \in Seq(Message) /\ Len(q) \in Nat /\ tx = <<>> /\ Backlog \in Nat
      /\ Silent /\ noise = 0 /\ outQ = <<>> /\ (phase = "sending" \/ Out)
      /\ Taken + Len(q) = sent /\ Begun /\ Len(q) <= Backlog
      /\ \A i \in 1 .. Len(q) : q[i] = Input(Sent(request, Taken + i - 1))
  BY ReceivingFacts DEF Receiving
<1>1. ASSUME UNCHANGED master
      PROVE  /\ request' = request /\ sent' = sent /\ phase' = phase /\ reply' = reply
             /\ silence' = silence /\ noise' = noise
             /\ Out => Out'
             /\ buffer' = buffer /\ bufferI' = bufferI => Begun'
             /\ tx' = tx => Silent'
             /\ pc' = pc => Storing' = Storing
             /\ pc' = pc /\ bufferI' = bufferI => Taken' = Taken
  BY <1>0, <1>1, MasterUnchanged DEF Out, Begun, Silent, Storing, Taken
<1>2. CASE Daemon /\ UNCHANGED master
  <2>1. CASE pc = "reception" /\ q = <<>> /\ Reception
    <3>1. /\ pc' = pc /\ q' = q /\ outQ' = outQ /\ buffer' = buffer /\ bufferI' = bufferI
          /\ alarms' = alarms /\ alarmCount' = alarmCount /\ tx' = tx
      BY <2>1, WaitEmpty DEF Reception
    <3>2. ~Storing
      BY <2>1 DEF Storing
    <3>3. Len(q) = 0 /\ ~(Len(q) > 0)
      <4>1. Len(<<>>) = 0 /\ ~(0 > 0)
        OBVIOUS
      <4> QED
        BY <2>1, <4>1
    <3>4. PICK w \in 0 .. InterFrame : Timing(w)
      BY <2>1 DEF Receiving
    <3>5. Timing(w)'
      BY <1>1, <1>2, <3>1, <3>2, <3>3, <3>4 DEF Timing, Within
    <3>6. Len(q') <= Backlog'
      <4>1. Backlog' \in Nat
        BY BacklogGrows
      <4>2. PICK b \in Nat : b = Backlog'
        BY <4>1
      <4>3. 0 <= b
        BY <4>2
      <4> QED
        BY <3>1, <3>3, <4>2, <4>3
    <3>7. \A i \in 1 .. Len(q') : q'[i] = Input(Sent(request', Taken' + i - 1))
      BY <1>0, <1>1, <1>2, <3>1
    <3>8. /\ pc' \in {"ready", "reception"}
          /\ ~Storing'
          /\ noise' = 0 /\ outQ' = <<>> /\ Silent'
          /\ phase' = "sending" \/ Out'
          /\ pc' = "ready" => Len(q') > 0
          /\ bufferI' = 0 <=> pc' \in {"ready", "ready_set"}
          /\ Taken' + Len(q') = sent' /\ Begun'
      BY <1>0, <1>1, <1>2, <2>1, <3>1, <3>2 DEF Receiving
    <3>9. Receiving'
      BY <2>1, <3>1, <3>5, <3>6, <3>7, <3>8 DEF Receiving
    <3>10. Tables'
      BY <3>1 DEF Tables
    <3> QED
      BY <3>9, <3>10
  <2>2. \/ pc = "reception" /\ q = <<>> /\ Reception
        \/ pc = "ready" /\ Ready
        \/ pc = "reception" /\ q # <<>> /\ Reception
        \/ pc = "ready_set" /\ ReadySet
        \/ pc = "reception_set" /\ ReceptionSet
        \/ pc = "reception_cancel" /\ ReceptionCancel
        \/ pc = "reception_drain" /\ ReceptionDrain
    BY <1>2, DaemonPlaces DEF Receiving, Storing
  <2> QED
    BY <1>2, <2>1, <2>2, CharacterTaken, CharacterStored, TimerTakenBack
<1>3. CASE Handle /\ UNCHANGED master
  BY <1>0, <1>3 DEF Handle
<1>4. CASE ComeRound /\ UNCHANGED master
  <2>1. /\ turn = "pduh" /\ pc' = pc /\ q' = q /\ outQ' = outQ /\ buffer' = buffer /\ bufferI' = bufferI
        /\ alarms' = alarms /\ alarmCount' = alarmCount /\ tx' = tx /\ inputMsg' = inputMsg
    BY <1>4, ComeRoundEffect
  <2>2. ~Storing
    BY <2>1 DEF Receiving
  <2>3. Within(FrameTime) => Within(FrameTime)'
    BY <1>4, EndTimeRound
  <2>4. ASSUME NEW w \in 0 .. InterFrame, Timing(w) PROVE Timing(w)'
    <3>1. PICK l \in 0 .. 2 * MaxLate, m \in 0 .. 2 * MaxLate : m <= l /\ Latency = l /\ Latency' = m
      BY <1>4, TimesRound
    <3>2. w >= l => w >= m
      BY <3>1
    <3>3. /\ Len(q') = Len(q) /\ Storing' = Storing /\ phase' = phase /\ silence' = silence
          /\ alarms' = alarms
      BY <1>1, <1>4, <2>1
    <3>4. CASE Storing \/ Len(q) > 0
      <4>1. alarms = Timer(w) /\ w >= l /\ Within(FrameTime)
        BY <2>4, <3>1, <3>4 DEF Timing
      <4> QED
        BY <2>3, <3>1, <3>2, <3>3, <3>4, <4>1 DEF Timing
    <3>5. CASE ~(Storing \/ Len(q) > 0)
      BY <2>4, <3>3, <3>5 DEF Timing, Within
    <3> QED
      BY <3>4, <3>5
  <2>5. IF pc' \in {"reception", "reception_cancel"}
        THEN \E w \in 0 .. InterFrame : Timing(w)'
        ELSE alarms' = <<>> /\ Within(FrameTime)'
    <3>1. CASE pc \in {"reception", "reception_cancel"}
      <4>1. PICK w \in 0 .. InterFrame : Timing(w)
        BY <3>1 DEF Receiving
      <4> QED
        BY <2>1, <2>4, <3>1, <4>1
    <3>2. CASE pc \notin {"reception", "reception_cancel"}
      BY <2>1, <2>3, <3>2 DEF Receiving
    <3> QED
      BY <3>1, <3>2
  <2>6. Len(q') <= Backlog'
    <3>1. Backlog' \in Nat /\ Backlog <= Backlog'
      BY <1>4, BacklogGrows
    <3>2. PICK a \in Nat, b \in Nat, c \in Nat : a = Len(q) /\ b = Backlog /\ c = Backlog' /\ a <= b /\ b <= c
      BY <1>0, <3>1
    <3>3. a <= c
      BY <3>2
    <3> QED
      BY <2>1, <3>2, <3>3
  <2>7. \A i \in 1 .. Len(q') : q'[i] = Input(Sent(request', Taken' + i - 1))
    BY <1>0, <1>1, <1>4, <2>1
  <2>8. /\ pc' \in {"ready", "reception"}
        /\ ~Storing'
        /\ noise' = 0 /\ outQ' = <<>> /\ Silent'
        /\ phase' = "sending" \/ Out'
        /\ pc' = "ready" => Len(q') > 0
        /\ bufferI' = 0 <=> pc' \in {"ready", "ready_set"}
        /\ Taken' + Len(q') = sent' /\ Begun'
    BY <1>0, <1>1, <1>4, <2>1, <2>2 DEF Receiving
  <2>9. Receiving'
    BY <2>5, <2>6, <2>7, <2>8 DEF Receiving
  <2>10. Tables'
    BY <2>1 DEF Tables
  <2> QED
    BY <2>9, <2>10
<1>5. CASE LinkTick
  BY <1>5, ReceivingTick
<1>6. CASE Crackle
  BY <1>0, <1>6, CrackleEffect, Margins
<1>7. CASE SendNext
  BY <1>7, ReceivingSend
<1>8. ASSUME NEW r \in Request, Ask(r) PROVE FALSE
  <2>1. phase = "idle"
    BY <1>8, AskEffect DEF Shape
  <2>2. Out
    BY <1>0, <2>1
  <2>3. \E n \in Nat : Within(n)
    <3>1. FrameTime \in Nat
      BY TimesNow, Margins
    <3>2. \A w \in 0 .. InterFrame : w + 2 * MaxLate + Turnaround + 2 * MaxLate \in Nat
      BY Margins
    <3>3. \A w \in 0 .. InterFrame : Timing(w) => Within(FrameTime)
                                       \/ Within(w + 2 * MaxLate + Turnaround + 2 * MaxLate)
      BY DEF Timing
    <3> QED
      BY <3>1, <3>2, <3>3 DEF Receiving
  <2> QED
    BY <1>0, <1>8, <2>2, <2>3, MasterQuiet
<1> QED
  BY <1>2, <1>3, <1>4, <1>5, <1>6, <1>7, <1>8, LinkSteps

\* Insert puts the new entry behind the n entries due earlier.
LEMMA InsertEntries ==
    ASSUME NEW a \in Seq(Alarm), NEW x \in Alarm, NEW n \in 0 .. Len(a),
           n = DueBefore(a, x.when)
    PROVE  /\ Insert(a, x) \in Seq(Alarm)
           /\ Len(Insert(a, x)) = Len(a) + 1
           /\ \A i \in 1 .. Len(a) + 1 :
                Insert(a, x)[i] = IF i <= n THEN a[i] ELSE IF i = n + 1 THEN x ELSE a[i - 1]
<1>1. Len(a) \in Nat /\ \A i \in 1 .. Len(a) : a[i] \in Alarm
  BY TableEntries
<1> DEFINE front == SubSeq(a, 1, n)
           behind == SubSeq(a, n + 1, Len(a))
<1>2. /\ front \in Seq(Alarm) /\ Len(front) = n /\ \A i \in 1 .. n : front[i] = a[i]
  BY <1>1, SubSeqProperties
<1>3. /\ behind \in Seq(Alarm) /\ Len(behind) = Len(a) - n
      /\ \A i \in 1 .. Len(a) - n : behind[i] = a[n + i]
  BY <1>1, SubSeqProperties
<1>4. /\ <<x>> \in Seq(Alarm) /\ Len(<<x>>) = 1 /\ <<x>>[1] = x
  OBVIOUS
<1> HIDE DEF front, behind
<1>5. /\ front \o <<x>> \in Seq(Alarm) /\ Len(front \o <<x>>) = n + 1
      /\ \A i \in 1 .. n + 1 : (front \o <<x>>)[i] = IF i <= n THEN a[i] ELSE x
  BY <1>1, <1>2, <1>4, ConcatProperties
<1>6. /\ (front \o <<x>>) \o behind \in Seq(Alarm)
      /\ Len((front \o <<x>>) \o behind) = Len(a) + 1
      /\ \A i \in 1 .. Len(a) + 1 :
           ((front \o <<x>>) \o behind)[i] = IF i <= n + 1 THEN (front \o <<x>>)[i] ELSE behind[i - (n + 1)]
  BY <1>1, <1>3, <1>5, ConcatProperties
<1>7. \A i \in n + 2 .. Len(a) + 1 : behind[i - (n + 1)] = a[i - 1]
  BY <1>1, <1>3
<1>8. Insert(a, x) = (front \o <<x>>) \o behind
  BY DEF Insert, front, behind
<1> QED
  BY <1>1, <1>5, <1>6, <1>7, <1>8

\* RemoveAt closes the gap.
LEMMA RemoveEntries ==
    ASSUME NEW a \in Seq(Alarm), NEW p \in 1 .. Len(a)
    PROVE  /\ RemoveAt(a, p) \in Seq(Alarm)
           /\ Len(RemoveAt(a, p)) = Len(a) - 1
           /\ \A i \in 1 .. Len(a) - 1 :
                RemoveAt(a, p)[i] = IF i < p THEN a[i] ELSE a[i + 1]
<1>1. Len(a) \in Nat /\ \A i \in 1 .. Len(a) : a[i] \in Alarm
  BY TableEntries
<1> DEFINE l == SubSeq(a, 1, p - 1)
           r == SubSeq(a, p + 1, Len(a))
<1>2. /\ l \in Seq(Alarm) /\ Len(l) = p - 1 /\ \A i \in 1 .. p - 1 : l[i] = a[i]
  BY <1>1, SubSeqProperties
<1>3. /\ r \in Seq(Alarm) /\ Len(r) = Len(a) - p
      /\ \A i \in 1 .. Len(a) - p : r[i] = a[p + i]
  BY <1>1, SubSeqProperties
<1> HIDE DEF l, r
<1>4. /\ l \o r \in Seq(Alarm) /\ Len(l \o r) = Len(l) + Len(r)
      /\ \A i \in 1 .. Len(l) + Len(r) :
           (l \o r)[i] = IF i <= Len(l) THEN l[i] ELSE r[i - Len(l)]
  BY <1>2, <1>3, ConcatProperties
<1>5. Len(l) + Len(r) = Len(a) - 1
  BY <1>1, <1>2, <1>3
<1>6. ASSUME NEW i \in 1 .. Len(a) - 1
      PROVE  (l \o r)[i] = IF i < p THEN a[i] ELSE a[i + 1]
  <2>1. CASE i < p
    BY <1>1, <1>2, <1>4, <1>5, <2>1
  <2>2. CASE ~(i < p)
    <3>1. i - Len(l) \in 1 .. Len(a) - p /\ p + (i - Len(l)) = i + 1 /\ ~(i <= Len(l))
      BY <1>1, <1>2, <2>2
    <3> QED
      BY <1>3, <1>4, <1>5, <2>2, <3>1
  <2> QED
    BY <2>1, <2>2
<1>7. RemoveAt(a, p) = l \o r
  BY DEF RemoveAt, l, r
<1> QED
  BY <1>4, <1>5, <1>6, <1>7

\* DropFirst moves the rest to the front.
LEMMA DropEntries ==
    ASSUME NEW a \in Seq(Alarm), NEW n \in 0 .. Len(a)
    PROVE  /\ DropFirst(a, n) \in Seq(Alarm)
           /\ Len(DropFirst(a, n)) = Len(a) - n
           /\ \A i \in 1 .. Len(a) - n : DropFirst(a, n)[i] = a[n + i]
<1>1. Len(a) \in Nat /\ \A i \in 1 .. Len(a) : a[i] \in Alarm
  BY TableEntries
<1>2. /\ SubSeq(a, n + 1, Len(a)) \in Seq(Alarm)
      /\ Len(SubSeq(a, n + 1, Len(a))) = Len(a) - n
      /\ \A i \in 1 .. Len(a) - n : SubSeq(a, n + 1, Len(a))[i] = a[n + i]
  BY <1>1, SubSeqProperties
<1> QED
  BY <1>2 DEF DropFirst

-----------------------------------------------------------------------------
(* Tables of more than one alarm.                                          *)

\* A table stays in the order of its times when an alarm is set.
LEMMA OrderedInsert ==
    ASSUME NEW a \in Seq(Alarm), Ordered(a), NEW x \in Alarm
    PROVE  /\ Insert(a, x) \in Seq(Alarm) /\ Len(Insert(a, x)) = Len(a) + 1
           /\ Ordered(Insert(a, x))
           /\ \A i \in 1 .. Len(a) + 1 :
                Insert(a, x)[i] = x \/ \E j \in 1 .. Len(a) : Insert(a, x)[i] = a[j]
           /\ x.when = InterFrame => Insert(a, x)[Len(a) + 1].when = InterFrame
<1>1. Len(a) \in Nat /\ (\A i \in 1 .. Len(a) : a[i] \in Alarm /\ a[i].when \in Nat /\ a[i].when <= InterFrame)
      /\ x.when \in Nat
  <2>1. \A w \in 0 .. InterFrame : w \in Nat /\ w <= InterFrame
    BY Margins
  <2>2. x.when \in 0 .. InterFrame
    BY DEF Alarm
  <2> QED
    BY <2>1, <2>2, TableEntries
<1>2. PICK n \in 0 .. Len(a) : /\ n = DueBefore(a, x.when)
                               /\ \A i \in 1 .. n : a[i].when < x.when
                               /\ n < Len(a) => a[n + 1].when >= x.when
  BY <1>1, DueBeforeStops
<1>3. PICK b : b = Insert(a, x)
  OBVIOUS
<1>4. /\ b \in Seq(Alarm) /\ Len(b) = Len(a) + 1
      /\ \A i \in 1 .. Len(a) + 1 :
           b[i] = IF i <= n THEN a[i] ELSE IF i = n + 1 THEN x ELSE a[i - 1]
  BY <1>2, <1>3, InsertEntries
<1>5. \A i \in n + 1 .. Len(a) : a[i].when >= x.when
  BY <1>1, <1>2 DEF Ordered
<1>6. /\ \A i \in 1 .. n : b[i] = a[i]
      /\ b[n + 1] = x
      /\ \A i \in n + 2 .. Len(a) + 1 : b[i] = a[i - 1] /\ i - 1 \in n + 1 .. Len(a)
  BY <1>1, <1>4
<1>7. Ordered(b)
  <2> SUFFICES ASSUME NEW i \in 1 .. Len(a) + 1, NEW j \in 1 .. Len(a) + 1, i < j
               PROVE  b[i].when <= b[j].when
    BY <1>4 DEF Ordered
  <2>0. i \in Nat /\ j \in Nat /\ i \in 1 .. Len(a) /\ j - 1 \in 1 .. Len(a)
    BY <1>1
  <2>1. CASE j <= n
    <3>1. /\ b[i].when = a[i].when /\ b[j].when = a[j].when
          /\ i < j /\ i \in 1 .. Len(a) /\ j \in 1 .. Len(a)
      BY <1>1, <1>6, <2>0, <2>1
    <3>2. a[i].when <= a[j].when
      BY <3>1 DEF Ordered
    <3> QED
      BY <3>1, <3>2, Zenon
  <2>2. CASE i <= n /\ j = n + 1
    <3>1. b[i] = a[i] /\ b[j] = x /\ i \in 1 .. n /\ i \in 1 .. Len(a)
      BY <1>1, <1>6, <2>0, <2>2
    <3>2. a[i].when < x.when /\ a[i].when \in Nat /\ x.when \in Nat
      BY <1>1, <1>2, <3>1
    <3> QED
      BY <3>1, <3>2
  <2>3. CASE i <= n /\ j > n + 1
    <3>1. b[i] = a[i] /\ b[j] = a[j - 1] /\ i < j - 1 /\ j - 1 \in 1 .. Len(a) /\ i \in 1 .. Len(a)
      BY <1>1, <1>6, <2>0, <2>3
    <3> QED
      BY <3>1 DEF Ordered
  <2>4. CASE i = n + 1
    <3>1. b[i] = x /\ b[j] = a[j - 1] /\ j - 1 \in n + 1 .. Len(a)
      BY <1>1, <1>6, <2>0, <2>4
    <3> QED
      BY <1>1, <1>5, <3>1
  <2>5. CASE i > n + 1
    <3>1. b[i] = a[i - 1] /\ b[j] = a[j - 1] /\ i - 1 < j - 1 /\ j - 1 \in 1 .. Len(a) /\ i - 1 \in 1 .. Len(a)
      BY <1>1, <1>6, <2>0, <2>5
    <3> QED
      BY <3>1 DEF Ordered
  <2> QED
    BY <2>0, <2>1, <2>2, <2>3, <2>4, <2>5
<1>8. \A i \in 1 .. Len(a) + 1 : b[i] = x \/ \E j \in 1 .. Len(a) : b[i] = a[j]
  <2> TAKE i \in 1 .. Len(a) + 1
  <2>1. CASE i <= n
    BY <1>1, <1>6, <2>1
  <2>2. CASE i = n + 1
    BY <1>6, <2>2
  <2>3. CASE i > n + 1
    <3>1. b[i] = a[i - 1] /\ i - 1 \in 1 .. Len(a)
      BY <1>1, <1>6, <2>3
    <3> QED
      BY <3>1
  <2> QED
    BY <1>1, <2>1, <2>2, <2>3
<1>9. x.when = InterFrame => b[Len(a) + 1].when = InterFrame
  <2> HAVE x.when = InterFrame
  <2>1. CASE n = Len(a)
    BY <1>6, <2>1
  <2>2. CASE n < Len(a)
    <3>1. b[Len(a) + 1] = a[Len(a)] /\ Len(a) \in n + 1 .. Len(a) /\ Len(a) \in 1 .. Len(a)
      <4>1. Len(a) + 1 \in n + 2 .. Len(a) + 1 /\ (Len(a) + 1) - 1 = Len(a)
        BY <1>1, <2>2
      <4> QED
        BY <1>6, <1>1, <2>2, <4>1
    <3>2. a[Len(a)].when >= x.when /\ a[Len(a)].when <= InterFrame /\ a[Len(a)].when \in Nat
      BY <1>1, <1>5, <3>1
    <3> QED
      BY <3>1, <3>2, Margins
  <2> QED
    BY <1>1, <2>1, <2>2
<1> QED
  BY <1>3, <1>4, <1>7, <1>8, <1>9

\* The ids do not matter for the times.
LEMMA Relabelled ==
    ASSUME NEW a \in Seq(Alarm), Ordered(a),
           NEW b, b = [i \in DOMAIN a |-> [a[i] EXCEPT !.id = FALSE]]
    PROVE  /\ b \in Seq(Alarm) /\ Len(b) = Len(a) /\ Ordered(b)
           /\ \A i \in 1 .. Len(a) : b[i].when = a[i].when
<1>1. Len(a) \in Nat /\ DOMAIN a = 1 .. Len(a) /\ \A i \in 1 .. Len(a) : a[i] \in Alarm
  BY TableEntries, LenProperties
<1>2. ASSUME NEW i \in 1 .. Len(a)
      PROVE  b[i] \in Alarm /\ b[i].when = a[i].when
  <2>1. PICK r : r = a[i]
    OBVIOUS
  <2>2. b[i] = [r EXCEPT !.id = FALSE]
    BY <1>1, <2>1
  <2>3. r \in Alarm
    BY <1>1, <2>1
  <2>4. \A z \in BOOLEAN : [r EXCEPT !.id = z] \in Alarm /\ [r EXCEPT !.id = z].when = r.when
    BY <2>3 DEF Alarm
  <2> QED
    BY <2>1, <2>2, <2>4, Zenon
<1>3. b \in [1 .. Len(a) -> Alarm]
  BY <1>1, <1>2
<1>4. b \in Seq(Alarm) /\ Len(b) = Len(a)
  BY <1>1, <1>3, SeqDef
<1>5. Ordered(b)
  BY <1>2, <1>4 DEF Ordered
<1> QED
  BY <1>2, <1>4, <1>5

\* set_alarm for the silence between frames.
LEMMA SetAlarmTable ==
    ASSUME Tables, Ordered(alarms), Len(alarms) < MaxAlarms, NEW stored \in BOOLEAN,
           SetAlarm(InterFrame, stored)
    PROVE  /\ alarms' \in Seq(Alarm) /\ Len(alarms') = Len(alarms) + 1
           /\ alarmCount' = Len(alarms) + 1 /\ Ordered(alarms')
           /\ alarms'[Len(alarms) + 1].when = InterFrame
           /\ \A i \in 1 .. Len(alarms) + 1 :
                \/ alarms'[i].when = InterFrame
                \/ \E j \in 1 .. Len(alarms) : alarms'[i].when = alarms[j].when
<1>1. alarms \in Seq(Alarm) /\ alarmCount = Len(alarms) /\ Len(alarms) \in Nat /\ MaxAlarms \in Nat
  BY Margins DEF Tables
<1>2. PICK b : b = IF stored THEN [i \in DOMAIN alarms |-> [alarms[i] EXCEPT !.id = FALSE]]
                   ELSE alarms
  OBVIOUS
<1>3. /\ b \in Seq(Alarm) /\ Len(b) = Len(alarms) /\ Ordered(b)
      /\ \A i \in 1 .. Len(alarms) : b[i].when = alarms[i].when
  <2>1. CASE stored
    <3>1. b = [i \in DOMAIN alarms |-> [alarms[i] EXCEPT !.id = FALSE]]
      BY <1>2, <2>1, Zenon
    <3> QED
      BY <1>1, <3>1, Relabelled
  <2>2. CASE ~stored
    <3>1. b = alarms
      BY <1>2, <2>2, Zenon
    <3> QED
      BY <1>1, <3>1, Zenon
  <2> QED
    BY <2>1, <2>2
<1>4. PICK x : x = [id |-> stored, when |-> InterFrame]
  OBVIOUS
<1>5. x \in Alarm /\ x.when = InterFrame
  <2>1. \A z \in BOOLEAN : [id |-> z, when |-> InterFrame] \in Alarm
                           /\ [id |-> z, when |-> InterFrame].when = InterFrame
    BY Margins DEF Alarm
  <2> QED
    BY <1>4, <2>1, Zenon
<1>6. alarmCount # MaxAlarms
  BY <1>1
<1>7. alarms' = Insert(b, x) /\ alarmCount' = alarmCount + 1
  BY <1>2, <1>4, <1>6, Zenon DEF SetAlarm
<1>8. PICK t : t = Insert(b, x)
  OBVIOUS
<1>9. /\ t \in Seq(Alarm) /\ Len(t) = Len(b) + 1 /\ Ordered(t)
      /\ \A i \in 1 .. Len(b) + 1 : t[i] = x \/ \E j \in 1 .. Len(b) : t[i] = b[j]
      /\ t[Len(b) + 1].when = InterFrame
  BY <1>3, <1>5, <1>8, OrderedInsert
<1>10. \A i \in 1 .. Len(alarms) + 1 :
          t[i].when = InterFrame \/ \E j \in 1 .. Len(alarms) : t[i].when = alarms[j].when
  BY <1>3, <1>5, <1>9, Zenon
<1>11. alarms' = t /\ alarmCount' = Len(alarms) + 1
  BY <1>1, <1>7, <1>8, Zenon
<1>12. Len(t) = Len(alarms) + 1 /\ t[Len(alarms) + 1].when = InterFrame
  BY <1>3, <1>9, Zenon
<1> QED
  BY <1>9, <1>10, <1>11, <1>12, Zenon

\* The search of the table for an id finds the first entry that has it.
LEMMA FoundFirst ==
    ASSUME NEW a \in Seq(Alarm), NEW id, Holds(a, id)
    PROVE  Position(a, id) \in 1 .. Len(a)
<1>0. Len(a) \in Nat
  BY TableEntries
<1> DEFINE T == {i \in 1 .. Len(a) : a[i].id = id}
<1>1. T # {} /\ T \in SUBSET Nat
  BY <1>0 DEF Holds
<1>2. PICK i \in T : \A j \in T : i <= j
  <2> HIDE DEF T
  <2> QED
    BY <1>1, LeastNatural
<1>3. \A j \in 1 .. i - 1 : j \notin T /\ j \in 1 .. Len(a)
  <2> TAKE j \in 1 .. i - 1
  <2>1. i \in 1 .. Len(a)
    OBVIOUS
  <2>2. j \in 1 .. Len(a) /\ ~(i <= j)
    BY <1>0, <2>1
  <2> HIDE DEF T
  <2> QED
    BY <1>2, <2>2
<1>4. i \in 1 .. Len(a) /\ a[i].id = id /\ \A j \in 1 .. i - 1 : a[j].id # id
  BY <1>3
<1> QED
  BY <1>4, Zenon DEF Position

\* An alarm taken out of a table leaves the others.
LEMMA OrderedRemove ==
    ASSUME NEW a \in Seq(Alarm), Ordered(a), NEW p \in 1 .. Len(a)
    PROVE  /\ RemoveAt(a, p) \in Seq(Alarm) /\ Len(RemoveAt(a, p)) = Len(a) - 1
           /\ Ordered(RemoveAt(a, p))
           /\ \A i \in 1 .. Len(a) - 1 : \E j \in 1 .. Len(a) : RemoveAt(a, p)[i] = a[j]
<1>1. Len(a) \in Nat
  BY TableEntries
<1>2. PICK b : b = RemoveAt(a, p)
  OBVIOUS
<1>3. /\ b \in Seq(Alarm) /\ Len(b) = Len(a) - 1
      /\ \A i \in 1 .. Len(a) - 1 : b[i] = IF i < p THEN a[i] ELSE a[i + 1]
  BY <1>2, RemoveEntries
<1>4. \A i \in 1 .. Len(a) - 1 : i \in 1 .. Len(a) /\ i + 1 \in 1 .. Len(a)
  BY <1>1
<1>5. \A i \in 1 .. Len(a) - 1 : \E j \in 1 .. Len(a) : b[i] = a[j]
  BY <1>3, <1>4
<1>6. Ordered(b)
  <2> SUFFICES ASSUME NEW i \in 1 .. Len(a) - 1, NEW j \in 1 .. Len(a) - 1, i < j
               PROVE  b[i].when <= b[j].when
    BY <1>3 DEF Ordered
  <2>1. PICK k \in 1 .. Len(a) : b[i] = a[k] /\ k = IF i < p THEN i ELSE i + 1
    BY <1>3, <1>4
  <2>2. PICK l \in 1 .. Len(a) : b[j] = a[l] /\ l = IF j < p THEN j ELSE j + 1
    BY <1>3, <1>4
  <2>3. k < l
    BY <1>1, <2>1, <2>2
  <2> QED
    BY <2>1, <2>2, <2>3 DEF Ordered
<1> QED
  BY <1>2, <1>3, <1>5, <1>6

\* To count an alarm off is to take the last one out.
LEMMA FrontIsRemoval ==
    ASSUME NEW a \in Seq(Alarm), a # <<>>
    PROVE  Len(a) \in 1 .. Len(a) /\ Front(a) = RemoveAt(a, Len(a))
<1>1. Len(a) \in Nat \ {0}
  BY EmptySeq, TableEntries
<1>2. SubSeq(a, Len(a) + 1, Len(a)) = <<>>
  BY <1>1, SubSeqEmpty
<1>3. SubSeq(a, 1, Len(a) - 1) \in Seq(Alarm)
  BY <1>1, SubSeqProperties
<1>4. SubSeq(a, 1, Len(a) - 1) \o <<>> = SubSeq(a, 1, Len(a) - 1)
  BY <1>3, ConcatEmptySeq
<1> QED
  BY <1>1, <1>2, <1>4 DEF Front, RemoveAt

\* cancel_alarm takes one alarm, whichever it is.
LEMMA CancelTable ==
    ASSUME Tables, Ordered(alarms), alarms # <<>>, CancelAid
    PROVE  /\ alarms' \in Seq(Alarm) /\ Len(alarms) \in Nat \ {0} /\ Len(alarms') = Len(alarms) - 1
           /\ alarmCount' = Len(alarms) - 1 /\ Ordered(alarms')
           /\ \A i \in 1 .. Len(alarms) - 1 : \E j \in 1 .. Len(alarms) : alarms'[i] = alarms[j]
<1>1. /\ alarms \in Seq(Alarm) /\ alarmCount = Len(alarms) /\ Len(alarms) \in Nat \ {0}
      /\ Len(alarms) <= 255
  <2>1. alarms \in Seq(Alarm) /\ alarmCount = Len(alarms) /\ Len(alarms) <= MaxAlarms
    BY DEF Tables
  <2>2. Len(alarms) \in Nat \ {0}
    BY <2>1, EmptySeq, TableEntries
  <2> QED
    BY <2>1, <2>2, Margins
<1>2. \E p \in 1 .. Len(alarms) : Cancel(alarms, TRUE) = RemoveAt(alarms, p)
  <2>1. CASE Holds(alarms, TRUE)
    BY <1>1, <2>1, FoundFirst DEF Cancel
  <2>2. CASE ~Holds(alarms, TRUE)
    BY <1>1, <2>2, FrontIsRemoval DEF Cancel
  <2> QED
    BY <2>1, <2>2
<1>3. PICK p \in 1 .. Len(alarms) : alarms' = RemoveAt(alarms, p)
  BY <1>2 DEF CancelAid
<1>4. alarmCount' = Decrement(Len(alarms))
  BY <1>1 DEF CancelAid
<1>5. Decrement(Len(alarms)) = Len(alarms) - 1
  BY <1>1 DEF Decrement
<1>6. /\ RemoveAt(alarms, p) \in Seq(Alarm) /\ Len(RemoveAt(alarms, p)) = Len(alarms) - 1
      /\ Ordered(RemoveAt(alarms, p))
      /\ \A i \in 1 .. Len(alarms) - 1 : \E j \in 1 .. Len(alarms) : RemoveAt(alarms, p)[i] = alarms[j]
  BY <1>1, OrderedRemove
<1> QED
  BY <1>1, <1>3, <1>4, <1>5, <1>6, Zenon

\* A tick expires the n alarms that are due and brings the others nearer.
LEMMA TickTable ==
    ASSUME Tables, Ordered(alarms), Tick
    PROVE  \E n \in 0 .. Len(alarms) :
             /\ alarms' \in Seq(Alarm) /\ Len(alarms') = Len(alarms) - n
             /\ alarmCount' = Len(alarms) - n /\ Ordered(alarms')
             /\ \A i \in 1 .. n : alarms[i].when = 0
             /\ \A i \in 1 .. Len(alarms) - n :
                  alarms[n + i].when > 0 /\ alarms'[i].when = alarms[n + i].when - 1
             /\ q' = PushTimeouts(q, n)
<1> DEFINE n == DueBefore(alarms, 1)
           kept == DropFirst(alarms, n)
<1>1. /\ alarms \in Seq(Alarm) /\ alarmCount = Len(alarms) /\ Len(alarms) \in Nat
      /\ \A i \in 1 .. Len(alarms) : alarms[i] \in Alarm /\ alarms[i].when \in Nat
  BY TableEntries DEF Tables
<1>2. /\ n \in 0 .. Len(alarms)
      /\ \A i \in 1 .. n : alarms[i].when < 1
      /\ n < Len(alarms) => alarms[n + 1].when >= 1
  BY <1>1, DueBeforeStops
<1>3. /\ alarms' = [i \in 1 .. Len(kept) |-> [kept[i] EXCEPT !.when = @ - 1]]
      /\ alarmCount' = alarmCount - n /\ q' = PushTimeouts(q, n)
  BY DEF Tick
<1>4. /\ kept \in Seq(Alarm) /\ Len(kept) = Len(alarms) - n
      /\ \A i \in 1 .. Len(alarms) - n : kept[i] = alarms[n + i]
  <2> HIDE DEF n
  <2> QED
    BY <1>1, <1>2, DropEntries
<1> HIDE DEF n, kept
<1>5. \A i \in 1 .. n : alarms[i].when = 0
  BY <1>1, <1>2
<1>6. ASSUME NEW i \in 1 .. Len(alarms) - n
      PROVE  alarms[n + i].when > 0 /\ n + i \in 1 .. Len(alarms)
  <2>1. n + 1 \in 1 .. Len(alarms) /\ n + i \in 1 .. Len(alarms) /\ (i = 1 \/ n + 1 < n + i)
        /\ n < Len(alarms)
    BY <1>1, <1>2
  <2>2. alarms[n + 1].when <= alarms[n + i].when
    <3>1. CASE i = 1
      BY <1>1, <2>1, <3>1
    <3>2. CASE n + 1 < n + i
      BY <2>1, <3>2 DEF Ordered
    <3> QED
      BY <2>1, <3>1, <3>2
  <2> QED
    BY <1>1, <1>2, <2>1, <2>2
<1>7. ASSUME NEW i \in 1 .. Len(alarms) - n
      PROVE  alarms'[i] \in Alarm /\ alarms'[i].when = alarms[n + i].when - 1
  <2>1. PICK r : r = alarms[n + i]
    OBVIOUS
  <2>2. alarms'[i] = [r EXCEPT !.when = r.when - 1]
    BY <1>3, <1>4, <2>1
  <2>3. r \in Alarm /\ r.when > 0
    BY <1>1, <1>6, <2>1
  <2>4. [r EXCEPT !.when = r.when - 1] \in Alarm /\ [r EXCEPT !.when = r.when - 1].when = r.when - 1
    <3>1. PICK k : k = r.when - 1
      OBVIOUS
    <3>2. k \in 0 .. InterFrame
      BY <2>3, <3>1, Margins DEF Alarm
    <3>3. [r EXCEPT !.when = k] \in Alarm /\ [r EXCEPT !.when = k].when = k
      BY <2>3, <3>2 DEF Alarm
    <3> QED
      BY <3>1, <3>3, Zenon
  <2> QED
    BY <2>1, <2>2, <2>4, Zenon
<1>8. alarms' \in [1 .. Len(alarms) - n -> Alarm] /\ Len(alarms) - n \in Nat
  <2>1. DOMAIN alarms' = 1 .. Len(alarms) - n /\ Len(alarms) - n \in Nat
    BY <1>1, <1>2, <1>3, <1>4
  <2>2. alarms' = [i \in 1 .. Len(alarms) - n |-> alarms'[i]]
    BY <1>3, <1>4
  <2> QED
    BY <1>7, <2>1, <2>2
<1>9. alarms' \in Seq(Alarm) /\ Len(alarms') = Len(alarms) - n
  BY <1>8, SeqDef
<1>10. Ordered(alarms')
  <2> SUFFICES ASSUME NEW i \in 1 .. Len(alarms) - n, NEW j \in 1 .. Len(alarms) - n, i < j
               PROVE  alarms'[i].when <= alarms'[j].when
    BY <1>9 DEF Ordered
  <2>1. n + i \in 1 .. Len(alarms) /\ n + j \in 1 .. Len(alarms) /\ n + i < n + j
    BY <1>1, <1>2
  <2>2. alarms[n + i].when <= alarms[n + j].when
    BY <2>1 DEF Ordered
  <2>3. alarms[n + i].when \in Nat /\ alarms[n + j].when \in Nat
    BY <1>1, <2>1
  <2> QED
    BY <1>7, <2>2, <2>3
<1>11. alarmCount' = Len(alarms) - n
  BY <1>1, <1>3
<1> QED
  BY <1>2, <1>3, <1>5, <1>6, <1>7, <1>9, <1>10, <1>11

-----------------------------------------------------------------------------
(* The start.                                                              *)

\* Numbers at the start.
LEMMA StartingFacts ==
    ASSUME Shape, Tables, Starting
    PROVE  /\ Len(alarms) \in Nat /\ Len(q) \in Nat /\ Extra \in 0 .. 2
           /\ Steps \in Nat /\ Steps <= MaxNoise - noise
           /\ Steps = Len(alarms) + Len(q) + Extra - 1
           /\ Len(alarms) + Len(q) <= MaxNoise - noise + 1 - Extra
           /\ Len(alarms) + Len(q) <= QueueSize
           /\ Latency \in 0 .. 2 * MaxLate /\ silence \in Nat /\ noise \in 0 .. MaxNoise
           /\ alarms = <<>> <=> Len(alarms) = 0
           /\ alarms # <<>> => Len(alarms) \in 1 .. Len(alarms) /\ LastDue \in Nat /\ LastDue <= InterFrame
           /\ \A c \in 0 .. Len(q) : NextTime(c) \in Nat
           /\ Round * Steps \in Nat
<1>1. /\ Len(alarms) \in Nat /\ (alarms = <<>> <=> Len(alarms) = 0)
      /\ \A i \in 1 .. Len(alarms) : alarms[i].when \in Nat /\ alarms[i].when \in 0 .. InterFrame
  BY EmptySeq, TableEntries DEF Tables
<1>2. Len(q) \in Nat
  BY DEF Shape, SlaveShape
<1>3. Extra \in 0 .. 2
  BY DEF Extra
<1>4. Latency \in 0 .. 2 * MaxLate /\ silence \in 0 .. Quiet /\ noise \in 0 .. MaxNoise
  BY LatencyFacts
<1>5. Steps \in 0 .. MaxNoise - noise /\ Steps = Len(alarms) + Len(q) + Extra - 1
  BY DEF Starting, Steps
<1>6. PICK a, l, x, s, n : a = Len(alarms) /\ l = Len(q) /\ x = Extra /\ s = Steps /\ n = noise
  OBVIOUS
<1>7. /\ s \in Nat /\ s <= MaxNoise - n /\ a + l <= MaxNoise - n + 1 - x /\ a + l <= QueueSize
  <2>1. a \in Nat /\ l \in Nat /\ x \in 0 .. 2 /\ s \in 0 .. MaxNoise - n /\ s = a + l + x - 1 /\ n \in 0 .. MaxNoise
    BY <1>1, <1>2, <1>3, <1>4, <1>5, <1>6
  <2> QED
    BY <2>1, Margins
<1>8. alarms # <<>> => Len(alarms) \in 1 .. Len(alarms) /\ LastDue \in Nat /\ LastDue <= InterFrame
  <2> HAVE alarms # <<>>
  <2>1. Len(alarms) \in 1 .. Len(alarms)
    BY <1>1
  <2>2. LastDue \in Nat /\ LastDue \in 0 .. InterFrame
    BY <1>1, <2>1 DEF LastDue
  <2> QED
    BY <2>1, <2>2, Margins
<1>9. \A c \in 0 .. Len(q) : NextTime(c) \in Nat
  <2>1. Latency \in Nat /\ Latency + Round \in Nat /\ (alarms # <<>> => LastDue + 2 * MaxLate \in Nat)
    BY <1>4, <1>8, Margins
  <2> QED
    BY <2>1 DEF NextTime
<1>10. Round * Steps \in Nat
  BY <1>6, <1>7, Margins
<1>11. silence \in Nat
  BY <1>4, Margins
<1> QED
  BY <1>1, <1>2, <1>3, <1>4, <1>5, <1>6, <1>7, <1>8, <1>9, <1>10, <1>11

LEMMA UnaskedKept ==
    ASSUME Unasked, request' = request, phase' = phase, reply' = reply, tx' = tx, outQ' = outQ,
           bufferI' = bufferI
    PROVE  Unasked'
  BY DEF Unasked

\* It is not long yet since the noise.
LEMMA NotYet ==
    ASSUME Shape, Tables, Starting, NEW c \in 0 .. Len(q), Noisy(c)
    PROVE  silence < Quiet
<1>1. PICK s, t, p : s = silence /\ t = NextTime(c) /\ p = Round * Steps
  OBVIOUS
<1>2. s \in Nat /\ t \in Nat /\ p \in Nat
  BY <1>1, StartingFacts
<1>3. s + t + p < Quiet
  BY <1>1 DEF Noisy
<1>4. s < Quiet
  BY <1>2, <1>3, Margins
<1> QED
  BY <1>1, <1>4

\* The master does not speak before the slave listens.
LEMMA NobodyAsks ==
    ASSUME Shape, Tables, Starting
    PROVE  ~SendNext /\ \A r \in Request : ~Ask(r)
<1>1. phase = "idle" /\ ~request.mine
  BY DEF Starting, Unasked
<1>2. silence < Quiet
  BY NotYet DEF Starting
<1>3. ~SendNext
  BY <1>1 DEF SendNext
<1>4. ASSUME NEW r \in Request, Ask(r) PROVE FALSE
  <2>1. silence >= Quiet
    BY <1>1, <1>4 DEF Ask, Pause
  <2>2. silence \in Nat
    BY StartingFacts
  <2> QED
    BY <1>2, <2>1, <2>2, Margins
<1> QED
  BY <1>3, <1>4

\* Nothing is said at the start.
LEMMA NoReplyYet ==
    ASSUME Unasked, LinkTick
    PROVE  /\ tx' = <<>> /\ reply' = <<>> /\ phase' = "idle" /\ Unasked'
           /\ silence' = IF silence < Quiet THEN silence + 1 ELSE silence
<1>1. tx = <<>> /\ reply = <<>> /\ phase = "idle" /\ ~request.mine /\ outQ = <<>> /\ bufferI = 0
  BY DEF Unasked
<1>2. tx' = <<>> /\ reply' = <<>> /\ request' = request /\ outQ' = outQ /\ bufferI' = bufferI
  BY <1>1, TickEffect
<1>3. phase' = "idle"
  BY <1>1, TickEffect
<1>4. silence' = IF silence < Quiet THEN silence + 1 ELSE silence
  BY <1>1, TickEffect
<1> QED
  BY <1>1, <1>2, <1>3, <1>4 DEF Unasked

\* Silence goes on, or it has lasted for as long as it takes.
LEMMA HushedTick ==
    ASSUME Hushed, silence \in Nat, silence' = silence + 1, noise' = noise
    PROVE  Hushed'
<1>1. noise' = 0 \/ silence > MaxGap
  BY DEF Hushed
<1>2. silence > MaxGap => silence' > MaxGap
  BY Margins
<1> QED
  BY <1>1, <1>2 DEF Hushed

\* The first alarm is not due before the noise is over.
LEMMA PatientDue ==
    ASSUME Shape, ~Hushed, Patient(0), silence' = silence + 1, noise' = noise
    PROVE  Hushed'
<1>1. PICK s, n : s = silence /\ n = noise
  OBVIOUS
<1>2. s \in Nat /\ n \in 0 .. MaxNoise /\ n # 0 /\ s <= MaxGap
  <2>1. silence \in 0 .. Quiet /\ noise \in 0 .. MaxNoise
    BY LatencyFacts
  <2> QED
    BY <1>1, <2>1, Margins DEF Hushed
<1>3. MaxGap * (MaxNoise - n) + s >= InterFrame
  <2>1. 0 + MaxGap * (MaxNoise - n) + s >= InterFrame
    BY <1>1 DEF Patient
  <2>2. MaxGap * (MaxNoise - n) \in Nat
    BY <1>2, Margins
  <2> QED
    BY <1>2, <2>1, <2>2
<1>4. MaxGap * (MaxNoise - n) + MaxGap <= MaxGap * MaxNoise
  <2>1. PICK k \in Nat : k = MaxNoise - n
    BY <1>2, Margins
  <2>2. MaxNoise = k + n /\ n \in Nat /\ n >= 1
    BY <1>2, <2>1, Margins
  <2>3. MaxGap * MaxNoise = MaxGap * k + MaxGap * n /\ MaxGap * n >= MaxGap
    BY <2>2, Margins
  <2>4. MaxGap * k \in Nat /\ MaxGap * n \in Nat
    BY <2>1, <2>2, Margins
  <2> QED
    BY <2>1, <2>3, <2>4, Margins
<1>5. PICK u \in Nat : u = MaxGap * (MaxNoise - n)
  BY <1>2, Margins
<1>6. PICK v \in Nat : v = MaxGap * MaxNoise
  BY Margins
<1>7. u + s >= InterFrame /\ u + MaxGap <= v /\ v <= InterFrame
  BY <1>3, <1>4, <1>5, <1>6, NoiseMargins
<1>8. s + 1 > MaxGap
  BY <1>2, <1>7, Margins
<1> QED
  BY <1>1, <1>8 DEF Hushed

\* What a tick does at the start: n timeouts.
LEMMA StartingTicks ==
    ASSUME Shape, Tables, Starting, LinkTick
    PROVE  \E n \in 0 .. Len(alarms) :
             /\ alarms' \in Seq(Alarm) /\ Len(alarms') = Len(alarms) - n
             /\ alarmCount' = Len(alarms') /\ Ordered(alarms')
             /\ \A i \in 1 .. n : alarms[i].when = 0
             /\ \A i \in 1 .. Len(alarms') :
                  alarms[n + i].when > 0 /\ alarms'[i].when = alarms[n + i].when - 1
             /\ Len(q') = Len(q) + n
             /\ \A i \in 1 .. Len(q) : q'[i] = q[i]
             /\ \A i \in Len(q) + 1 .. Len(q') : q'[i] = Timeout
<1>1. Tick /\ Ordered(alarms)
  BY TickEffect DEF Starting
<1>2. PICK n \in 0 .. Len(alarms) :
             /\ alarms' \in Seq(Alarm) /\ Len(alarms') = Len(alarms) - n
             /\ alarmCount' = Len(alarms) - n /\ Ordered(alarms')
             /\ \A i \in 1 .. n : alarms[i].when = 0
             /\ \A i \in 1 .. Len(alarms) - n :
                  alarms[n + i].when > 0 /\ alarms'[i].when = alarms[n + i].when - 1
             /\ q' = PushTimeouts(q, n)
  BY <1>1, TickTable
<1>3. q \in Seq(Message) /\ Len(q) <= QueueSize /\ n \in Nat /\ n + Len(q) <= QueueSize
  <2>1. PICK a, l : a = Len(alarms) /\ l = Len(q)
    OBVIOUS
  <2>2. a \in Nat /\ l \in Nat /\ a + l <= QueueSize /\ n \in 0 .. a
    BY <2>1, StartingFacts
  <2>3. n \in Nat /\ n + l <= QueueSize
    BY <2>2, Margins
  <2> QED
    BY <2>1, <2>3 DEF Shape, SlaveShape
<1>4. PICK t : t = PushTimeouts(q, n)
  OBVIOUS
<1>5. /\ Len(t) = Len(q) + n
      /\ \A i \in 1 .. Len(q) : t[i] = q[i]
      /\ \A i \in Len(q) + 1 .. Len(t) : t[i] = Timeout
  BY <1>3, <1>4, TimeoutsBehind
<1>6. q' = t
  BY <1>2, <1>4
<1>7. alarmCount' = Len(alarms')
  BY <1>2
<1>8. \A i \in 1 .. Len(alarms') : alarms[n + i].when > 0 /\ alarms'[i].when = alarms[n + i].when - 1
  BY <1>2
<1>9. /\ Len(q') = Len(q) + n
      /\ \A i \in 1 .. Len(q) : q'[i] = q[i]
      /\ \A i \in Len(q) + 1 .. Len(q') : q'[i] = Timeout
  BY <1>5, <1>6, Zenon
<1> QED
  BY <1>2, <1>7, <1>8, <1>9, Zenon

\* At the start a tick brings the last timeout nearer, whatever goes off.
LEMMA StartingTick ==
    ASSUME Shape, Tables, Starting, LinkTick
    PROVE  Tables' /\ Starting'
<1>0. /\ late < MaxLate /\ pc' = pc /\ turn' = turn /\ noise' = noise
      /\ tx' = <<>> /\ silence' = silence + 1 /\ Unasked'
  <2>1. silence < Quiet /\ Unasked
    BY NotYet DEF Starting
  <2> QED
    BY <2>1, NoReplyYet, TickEffect
<1>1. PICK c \in 0 .. Len(q) : Noisy(c)
  BY DEF Starting
<1>2. PICK n \in 0 .. Len(alarms) :
             /\ alarms' \in Seq(Alarm) /\ Len(alarms') = Len(alarms) - n
             /\ alarmCount' = Len(alarms') /\ Ordered(alarms')
             /\ \A i \in 1 .. n : alarms[i].when = 0
             /\ \A i \in 1 .. Len(alarms') :
                  alarms[n + i].when > 0 /\ alarms'[i].when = alarms[n + i].when - 1
             /\ Len(q') = Len(q) + n
             /\ \A i \in 1 .. Len(q) : q'[i] = q[i]
             /\ \A i \in Len(q) + 1 .. Len(q') : q'[i] = Timeout
  BY StartingTicks
<1>3. Latency \in Nat /\ Latency >= 1 /\ Latency <= 2 * MaxLate /\ Latency' = Latency - 1
  BY LatencyTick, Margins
<1>4. PICK a, l : a = Len(alarms) /\ l = Len(q)
  OBVIOUS
<1>5. /\ a \in Nat /\ l \in Nat /\ n \in 0 .. a /\ c \in 0 .. l
      /\ Len(alarms') = a - n /\ Len(q') = l + n
  BY <1>2, <1>4, StartingFacts
<1>6. Extra' = Extra /\ (Setting' <=> Setting) /\ Steps' = Steps
  <2>1. Extra' = Extra /\ (Setting' <=> Setting)
    BY <1>0 DEF Extra, Setting
  <2>2. PICK x \in 0 .. 2 : x = Extra
    BY StartingFacts
  <2>3. Steps = a + l + x - 1 /\ Steps' = (a - n) + (l + n) + x - 1
    BY <1>4, <1>5, <2>1, <2>2 DEF Steps
  <2>4. (a - n) + (l + n) + x - 1 = a + l + x - 1
    BY <1>5, <2>2
  <2> QED
    BY <2>1, <2>3, <2>4
<1>7. Tables'
  <2>1. Len(alarms') <= MaxAlarms
    <3>1. a <= MaxAlarms
      BY <1>4 DEF Tables
    <3> QED
      BY <1>5, <3>1, Margins
  <2> QED
    BY <1>0, <1>2, <2>1, NoTx DEF Tables
<1>8. /\ alarms = <<>> <=> a = 0
      /\ alarms # <<>> => LastDue \in Nat
      /\ n < a => /\ alarms' # <<>> /\ alarms # <<>>
                  /\ LastDue > 0 /\ LastDue' = LastDue - 1
      /\ n = a => /\ alarms' = <<>>
                  /\ alarms # <<>> => LastDue = 0
  <2>1. (alarms = <<>> <=> a = 0) /\ (alarms # <<>> => LastDue \in Nat)
    BY <1>4, StartingFacts
  <2>2. ASSUME n < a
        PROVE  alarms' # <<>> /\ alarms # <<>> /\ LastDue > 0 /\ LastDue' = LastDue - 1
    <3>1. a - n \in 1 .. Len(alarms') /\ n + (a - n) = a /\ a # 0
      BY <1>5, <2>2
    <3>2. alarms' # <<>>
      BY <3>1
    <3>3. alarms[n + (a - n)].when > 0 /\ alarms'[a - n].when = alarms[n + (a - n)].when - 1
      BY <1>2, <3>1
    <3>4. LastDue = alarms[a].when /\ LastDue' = alarms'[a - n].when
      BY <1>4, <1>5 DEF LastDue
    <3>5. LastDue > 0 /\ LastDue' = LastDue - 1
      BY <3>1, <3>3, <3>4, Zenon
    <3> QED
      BY <2>1, <3>1, <3>2, <3>5
  <2>3. ASSUME n = a
        PROVE  alarms' = <<>> /\ (alarms # <<>> => LastDue = 0)
    <3>1. alarms' \in Seq(Alarm) /\ Len(alarms') = 0
      BY <1>2, <1>5, <2>3
    <3>2. alarms' = <<>>
      BY <3>1, EmptySeq
    <3>3. alarms # <<>> => a \in 1 .. n
      BY <1>5, <2>1, <2>3
    <3>4. alarms # <<>> => alarms[a].when = 0
      BY <1>2, <3>3
    <3> QED
      BY <1>4, <3>2, <3>4, Zenon DEF LastDue
  <2> QED
    BY <2>1, <2>2, <2>3
<1>9. Hushed => Hushed'
  BY <1>0, HushedTick, StartingFacts
<1>10. ~Hushed => \A i \in 1 .. a : Patient(alarms[i].when)
  BY <1>4 DEF Starting
<1>11. n > 0 => Hushed'
  <2>1. SUFFICES ASSUME n > 0, ~Hushed PROVE Hushed'
    BY <1>9
  <2>2. 1 \in 1 .. n /\ 1 \in 1 .. a
    BY <1>5, <2>1
  <2>3. alarms[1].when = 0 /\ Patient(alarms[1].when)
    BY <1>2, <1>10, <2>1, <2>2
  <2>4. Patient(0)
    BY <2>3
  <2> QED
    BY <1>0, <2>1, <2>4, PatientDue
<1>12. Noisy(c)'
  <2>1. \A i \in 1 .. c : \E x \in Noise : q'[i] = Input(x)
    <3>1. \A i \in 1 .. c : i \in 1 .. Len(q)
      BY <1>4, <1>5
    <3> QED
      BY <1>1, <1>2, <3>1 DEF Noisy
  <2>2. \A i \in c + 1 .. Len(q') : q'[i] = Timeout
    <3>1. ASSUME NEW i \in c + 1 .. Len(q') PROVE q'[i] = Timeout
      <4>1. i \in c + 1 .. Len(q) \/ i \in Len(q) + 1 .. Len(q')
        BY <1>4, <1>5
      <4>2. ASSUME i \in c + 1 .. Len(q) PROVE q'[i] = Timeout
        <5>1. i \in 1 .. Len(q)
          BY <1>4, <1>5, <4>2
        <5> QED
          BY <1>1, <1>2, <4>2, <5>1 DEF Noisy
      <4> QED
        BY <1>2, <4>1, <4>2
    <3> QED
      BY <3>1
  <2>3. (c < Len(q') \/ pc' = "ready") => Hushed'
    <3>1. (c < l \/ pc = "ready") => Hushed
      BY <1>1, <1>4 DEF Noisy
    <3>2. c < Len(q') => c < l \/ n > 0
      BY <1>5
    <3> QED
      BY <1>0, <1>9, <1>11, <3>1, <3>2
  <2>4. pc' = "ready" => c = 0 /\ Len(alarms') + Len(q') > 0
    <3>1. pc = "ready" => c = 0 /\ a + l > 0
      BY <1>1, <1>4 DEF Noisy
    <3> QED
      BY <1>0, <1>5, <3>1
  <2>5. pc' = "initial_wait" => Len(alarms') + Len(q') > c
    <3>1. pc = "initial_wait" => a + l > c
      BY <1>1, <1>4 DEF Noisy
    <3> QED
      BY <1>0, <1>5, <3>1
  <2>6. silence' + NextTime(c)' + Round * Steps' < Quiet
    <3>1. PICK s, t, u, p, y, d, k : s = silence /\ t = NextTime(c) /\ u = NextTime(c)' /\ p = Round * Steps
                                     /\ y = Latency /\ d = LastDue /\ k = LastDue'
      OBVIOUS
    <3>2. s \in Nat /\ t \in Nat /\ p \in Nat /\ s + t + p < Quiet
      BY <1>1, <3>1, StartingFacts DEF Noisy
    <3>3. u \in Nat /\ u + 1 <= t
      <4>1. CASE c > 0 \/ Setting
        <5>1. t = y + Round /\ u = y - 1 + Round
          BY <1>3, <1>6, <3>1, <4>1, Zenon DEF NextTime, Round
        <5> QED
          BY <1>3, <3>1, <5>1, Margins
      <4>2. CASE ~(c > 0 \/ Setting)
        <5>1. CASE n < a
          <6>1. t = d + 2 * MaxLate /\ u = k + 2 * MaxLate /\ k = d - 1 /\ d > 0 /\ d \in Nat
            BY <1>6, <1>8, <3>1, <4>2, <5>1, Zenon DEF NextTime
          <6> QED
            BY <6>1, Margins
        <5>2. CASE n = a /\ a = 0
          <6>1. t = y /\ u = y - 1
            BY <1>3, <1>6, <1>8, <3>1, <4>2, <5>2, Zenon DEF NextTime
          <6> QED
            BY <1>3, <3>1, <6>1
        <5>3. CASE n = a /\ a # 0
          <6>1. t = 0 + 2 * MaxLate /\ u = y - 1
            BY <1>3, <1>6, <1>8, <3>1, <4>2, <5>3, Zenon DEF NextTime
          <6> QED
            BY <1>3, <3>1, <6>1, Margins
        <5> QED
          BY <1>5, <5>1, <5>2, <5>3
      <4> QED
        BY <4>1, <4>2
    <3>4. s + 1 + u + p < Quiet
      BY <3>2, <3>3, Margins
    <3>5. silence' = s + 1 /\ Round * Steps' = p
      BY <1>0, <1>6, <3>1
    <3> QED
      BY <3>1, <3>4, <3>5, Zenon
  <2>7. (pc' = "initial_cancel" \/ (pc' = "initial_wait" /\ c > 0)) => alarms' # <<>> /\ LastDue' >= Latency'
    <3> HAVE pc' = "initial_cancel" \/ (pc' = "initial_wait" /\ c > 0)
    <3>1. alarms # <<>> /\ LastDue >= Latency
      BY <1>0, <1>1 DEF Noisy
    <3>2. PICK d, y : d = LastDue /\ y = Latency
      OBVIOUS
    <3>3. d \in Nat /\ y \in Nat /\ d >= y /\ y >= 1
      BY <1>3, <1>8, <3>1, <3>2
    <3>4. n < a
      <4>1. d # 0
        BY <3>3
      <4>2. n # a
        BY <1>8, <3>1, <3>2, <4>1
      <4> QED
        BY <1>5, <4>2
    <3>5. LastDue' = d - 1 /\ Latency' = y - 1 /\ alarms' # <<>>
      BY <1>3, <1>8, <3>2, <3>4, Zenon
    <3>6. d - 1 >= y - 1
      BY <3>3
    <3> QED
      BY <3>5, <3>6, Zenon
  <2>8. pc' = "initial_wait" /\ c = 0 /\ ~Hushed' => alarms' # <<>> /\ LastDue' + silence' >= InterFrame
    <3> HAVE pc' = "initial_wait" /\ c = 0 /\ ~Hushed'
    <3>1. alarms # <<>> /\ LastDue + silence >= InterFrame
      BY <1>0, <1>1, <1>9 DEF Noisy
    <3>2. PICK d, s : d = LastDue /\ s = silence
      OBVIOUS
    <3>3. d \in Nat /\ s \in Nat /\ d + s >= InterFrame
      BY <1>8, <3>1, <3>2, StartingFacts
    <3>4. n = 0
      BY <1>5, <1>11
    <3>5. n < a
      BY <1>5, <1>8, <3>1, <3>4
    <3>6. LastDue' = d - 1 /\ silence' = s + 1 /\ alarms' # <<>>
      BY <1>0, <1>8, <3>2, <3>5, Zenon
    <3>7. d - 1 + (s + 1) >= InterFrame
      BY <3>3, Margins
    <3> QED
      BY <3>6, <3>7, Zenon
  <2> QED
    BY <2>1, <2>2, <2>3, <2>4, <2>5, <2>6, <2>7, <2>8, Zenon DEF Noisy
<1>13. ~Hushed' => \A i \in 1 .. Len(alarms') :
                      alarms'[i].when + MaxGap * (MaxNoise - noise') + silence' >= InterFrame
  <2> SUFFICES ASSUME ~Hushed', NEW i \in 1 .. Len(alarms')
               PROVE  alarms'[i].when + MaxGap * (MaxNoise - noise') + silence' >= InterFrame
    OBVIOUS
  <2>1. n = 0
    BY <1>5, <1>11
  <2>2. i \in 1 .. a /\ n + i = i
    BY <1>5, <2>1
  <2>3. alarms'[i].when = alarms[i].when - 1 /\ Patient(alarms[i].when) /\ alarms[i].when \in Nat
    <3>1. alarms[i].when \in Nat
      BY <1>4, <2>2, TableEntries DEF Tables
    <3>2. ~Hushed
      BY <1>9
    <3> QED
      BY <1>2, <1>10, <2>2, <3>1, <3>2
  <2>4. PICK w, s, m : w = alarms[i].when /\ s = silence /\ m = MaxGap * (MaxNoise - noise)
    OBVIOUS
  <2>5. w \in Nat /\ s \in Nat /\ m \in Nat /\ w + m + s >= InterFrame
    <3>1. MaxNoise - noise \in Nat
      BY LatencyFacts, Margins
    <3>2. m \in Nat
      BY <2>4, <3>1, Margins
    <3> QED
      BY <2>3, <2>4, <3>2, StartingFacts DEF Patient
  <2>6. w - 1 + m + (s + 1) >= InterFrame
    BY <2>5, Margins
  <2> QED
    BY <1>0, <2>3, <2>4, <2>6, Zenon
<1>14. (\E k \in 0 .. Len(q') : Noisy(k)') /\ Steps' \in 0 .. MaxNoise - noise'
  <2>1. c \in 0 .. Len(q')
    BY <1>5
  <2>2. Steps \in 0 .. MaxNoise - noise
    BY DEF Starting
  <2> QED
    BY <1>0, <1>6, <1>12, <2>1, <2>2, Zenon
<1>15. /\ Setting' \/ pc' \in {"initial_wait", "ready"}
       /\ Setting' => turn' = "tr"
  BY <1>0, <1>6, Zenon DEF Starting
<1> QED
  BY <1>0, <1>2, <1>7, <1>13, <1>14, <1>15, Zenon DEF Starting, Patient

\* Where the alarms, the queue and the silence stay, there may be less time left.
LEMMA NoisyKept ==
    ASSUME Shape, Tables, Starting, NEW c \in 0 .. Len(q), Noisy(c),
           pc' = pc, q' = q, alarms' = alarms, silence' = silence, noise' = noise,
           Latency' \in Nat, Latency' <= Latency \/ (~Setting /\ c = 0 /\ alarms # <<>>)
    PROVE  Noisy(c)'
<1>1. Extra' = Extra /\ (Setting' <=> Setting) /\ Steps' = Steps /\ (Hushed' <=> Hushed)
      /\ LastDue' = LastDue
  BY DEF Extra, Setting, Steps, Hushed, LastDue
<1>2. silence' + NextTime(c)' + Round * Steps' < Quiet
  <2>1. PICK s, t, u, p, y, z : s = silence /\ t = NextTime(c) /\ u = NextTime(c)' /\ p = Round * Steps
                                /\ y = Latency /\ z = Latency'
    OBVIOUS
  <2>2. /\ s \in Nat /\ t \in Nat /\ p \in Nat /\ s + t + p < Quiet
        /\ y \in Nat /\ z \in Nat /\ (z <= y \/ (~Setting /\ c = 0 /\ alarms # <<>>))
    <3>1. Latency \in 0 .. 2 * MaxLate
      BY LatencyFacts
    <3> QED
      BY <2>1, <3>1, StartingFacts, Margins DEF Noisy
  <2>3. u \in Nat /\ u <= t
    <3>0. c \in Nat
      BY StartingFacts
    <3>1. CASE c > 0 \/ Setting
      <4>1. t = y + Round /\ u = z + Round
        BY <1>1, <2>1, <3>1, Zenon DEF NextTime, Round
      <4>2. z <= y
        BY <2>2, <3>0, <3>1
      <4> QED
        BY <2>2, <4>1, <4>2, Margins
    <3>2. CASE ~(c > 0 \/ Setting) /\ alarms = <<>>
      <4>1. t = y /\ u = z
        BY <1>1, <2>1, <3>2, Zenon DEF NextTime
      <4> QED
        BY <2>2, <3>2, <4>1
    <3>3. CASE ~(c > 0 \/ Setting) /\ alarms # <<>>
      <4>1. t = LastDue + 2 * MaxLate /\ u = LastDue + 2 * MaxLate
        BY <1>1, <2>1, <3>3, Zenon DEF NextTime
      <4> QED
        BY <2>2, <4>1
    <3> QED
      BY <3>1, <3>2, <3>3
  <2>4. s + u + p < Quiet
    BY <2>2, <2>3, Margins
  <2>5. silence' = s /\ Round * Steps' = p
    BY <1>1, <2>1
  <2> QED
    BY <2>1, <2>4, <2>5, Zenon
<1>3. (pc' = "initial_cancel" \/ (pc' = "initial_wait" /\ c > 0)) => alarms' # <<>> /\ LastDue' >= Latency'
  <2> HAVE pc' = "initial_cancel" \/ (pc' = "initial_wait" /\ c > 0)
  <2>1. alarms # <<>> /\ LastDue >= Latency
    BY DEF Noisy
  <2>2. Latency' <= Latency
    <3>1. CASE pc = "initial_cancel"
      BY <3>1 DEF Setting
    <3>2. CASE c > 0
      <4>1. c \in Nat /\ c # 0
        BY <3>2, StartingFacts
      <4> QED
        BY <4>1
    <3> QED
      BY <3>1, <3>2
  <2>3. PICK d, y, z : d = LastDue /\ y = Latency /\ z = Latency'
    OBVIOUS
  <2>4. d \in Nat /\ y \in Nat /\ z \in Nat /\ d >= y /\ z <= y
    <3>1. Latency \in 0 .. 2 * MaxLate
      BY LatencyFacts
    <3> QED
      BY <2>1, <2>2, <2>3, <3>1, StartingFacts, Margins
  <2>5. d >= z
    BY <2>4
  <2> QED
    BY <1>1, <2>1, <2>3, <2>5, Zenon
<1>4. /\ \A i \in 1 .. c : \E x \in Noise : q'[i] = Input(x)
      /\ \A i \in c + 1 .. Len(q') : q'[i] = Timeout
      /\ (c < Len(q') \/ pc' = "ready") => Hushed'
      /\ pc' = "ready" => c = 0 /\ Len(alarms') + Len(q') > 0
      /\ pc' = "initial_wait" => Len(alarms') + Len(q') > c
      /\ pc' = "initial_wait" /\ c = 0 /\ ~Hushed' => alarms' # <<>> /\ LastDue' + silence' >= InterFrame
  BY <1>1, Zenon DEF Noisy
<1> QED
  BY <1>2, <1>3, <1>4, Zenon DEF Noisy

\* Coming round costs no more time than was allowed for.
LEMMA StartingRound ==
    ASSUME Shape, Tables, Starting, ComeRound, UNCHANGED master
    PROVE  Tables' /\ Starting'
<1>0. /\ turn = "pduh" /\ turn' = "tr" /\ pc' = pc /\ q' = q /\ outQ' = outQ /\ bufferI' = bufferI
      /\ alarms' = alarms /\ alarmCount' = alarmCount /\ tx' = tx
      /\ request' = request /\ phase' = phase /\ reply' = reply /\ silence' = silence /\ noise' = noise
  BY ComeRoundEffect, MasterUnchanged
<1>1. PICK c \in 0 .. Len(q) : Noisy(c)
  BY DEF Starting
<1>2. Latency' \in Nat /\ Latency' <= Latency
  BY LatencyRound, Margins
<1>3. Noisy(c)'
  BY <1>0, <1>1, <1>2, NoisyKept
<1>4. Tables'
  BY <1>0, Zenon DEF Tables
<1>5. Unasked'
  BY <1>0, UnaskedKept DEF Starting
<1>6. (Setting' <=> Setting) /\ Steps' = Steps /\ (Hushed' <=> Hushed)
  BY <1>0 DEF Setting, Steps, Extra, Hushed
<1>7. ~Hushed' => \A i \in 1 .. Len(alarms') :
                     alarms'[i].when + MaxGap * (MaxNoise - noise') + silence' >= InterFrame
  BY <1>0, <1>6, Zenon DEF Starting, Patient
<1>8. /\ Setting' \/ pc' \in {"initial_wait", "ready"}
      /\ Setting' => turn' = "tr"
      /\ Ordered(alarms')
      /\ Steps' \in 0 .. MaxNoise - noise'
      /\ \E k \in 0 .. Len(q') : Noisy(k)'
  BY <1>0, <1>1, <1>3, <1>6, Zenon DEF Starting
<1> QED
  BY <1>4, <1>5, <1>7, <1>8, Zenon DEF Starting, Patient

\* Another character of the noise takes one timeout more.
LEMMA StartingCrackle ==
    ASSUME Shape, Tables, Starting, Crackle
    PROVE  Tables' /\ Starting'
<1>0. PICK x \in Noise : x \in Char /\ Receive(x)
  BY CrackleEffect
<1>1. /\ phase = "idle" /\ noise > 0 /\ silence <= MaxGap
      /\ silence' = 0 /\ noise' = noise - 1
      /\ request' = request /\ phase' = phase /\ reply' = reply
      /\ q' = Push(q, Input(x)) /\ pc' = pc /\ turn' = turn /\ outQ' = outQ /\ bufferI' = bufferI
      /\ alarms' = alarms /\ alarmCount' = alarmCount /\ tx' = tx /\ late' = late
  BY <1>0, CrackleEffect, ReceiveEffect
<1>2. PICK c \in 0 .. Len(q) : Noisy(c)
  BY DEF Starting
<1>3. PICK a, l, n, s, e : a = Len(alarms) /\ l = Len(q) /\ n = noise /\ s = silence /\ e = Extra
  OBVIOUS
<1>4. /\ a \in Nat /\ l \in Nat /\ n \in 0 .. MaxNoise /\ n > 0 /\ s \in Nat /\ s <= MaxGap
      /\ e \in 0 .. 2 /\ a + l <= MaxNoise - n + 1 - e /\ Steps = a + l + e - 1
  BY <1>1, <1>3, StartingFacts
<1>5. ~Hushed
  BY <1>1, <1>3, <1>4, Margins DEF Hushed
<1>6. c = l /\ pc # "ready"
  BY <1>2, <1>3, <1>4, <1>5 DEF Noisy
<1>7. /\ q' = Append(q, Input(x)) /\ q \in Seq(Message) /\ Input(x) \in Message
      /\ Len(q') = l + 1 /\ q'[l + 1] = Input(x) /\ \A i \in 1 .. l : q'[i] = q[i]
  <2>1. l < QueueSize
    BY <1>4, Margins
  <2>2. q \in Seq(Message) /\ Input(x) \in Message /\ Len(q) <= QueueSize
    BY <1>0, MessageKinds DEF Shape, SlaveShape
  <2>3. q' = Append(q, Input(x))
    BY <1>1, <1>3, <2>1, <2>2, PushKeeps
  <2> QED
    BY <1>3, <2>2, <2>3
<1>8. Latency' = Latency /\ Extra' = Extra /\ (Setting' <=> Setting) /\ LastDue' = LastDue
  BY <1>1, LatencyKept DEF Extra, Setting, LastDue
<1>9. Steps' = a + (l + 1) + e - 1 /\ Steps' \in 0 .. MaxNoise - noise' /\ Steps' \in Nat /\ Steps' <= MaxNoise
  <2>1. Steps' = a + (l + 1) + e - 1
    BY <1>1, <1>3, <1>7, <1>8 DEF Steps
  <2>2. Steps \in Nat
    BY StartingFacts
  <2>3. noise' = n - 1
    BY <1>1, <1>3
  <2> QED
    BY <1>4, <2>1, <2>2, <2>3, Margins
<1>10. c + 1 \in 0 .. Len(q') /\ c + 1 > 0 /\ c + 1 = Len(q') /\ c \in Nat
  BY <1>4, <1>6, <1>7
<1>11. Noisy(c + 1)'
  <2>1. \A i \in 1 .. c + 1 : \E y \in Noise : q'[i] = Input(y)
    <3>1. ASSUME NEW i \in 1 .. c + 1 PROVE \E y \in Noise : q'[i] = Input(y)
      <4>1. CASE i = c + 1
        BY <1>6, <1>7, <4>1
      <4>2. CASE i # c + 1
        <5>1. i \in 1 .. l /\ i \in 1 .. c
          BY <1>4, <1>6, <4>2
        <5> QED
          BY <1>2, <1>7, <5>1 DEF Noisy
      <4> QED
        BY <4>1, <4>2
    <3> QED
      BY <3>1
  <2>2. \A i \in (c + 1) + 1 .. Len(q') : q'[i] = Timeout
    BY <1>10
  <2>3. (c + 1 < Len(q') \/ pc' = "ready") => Hushed'
    BY <1>1, <1>6, <1>10
  <2>4. pc' = "ready" => c + 1 = 0 /\ Len(alarms') + Len(q') > 0
    BY <1>1, <1>6
  <2>5. pc' = "initial_wait" => Len(alarms') + Len(q') > c + 1
    <3>1. pc = "initial_wait" => a + l > c
      BY <1>2, <1>3 DEF Noisy
    <3>2. Len(alarms') = a
      BY <1>1, <1>3
    <3> QED
      BY <1>1, <1>4, <1>7, <3>1, <3>2, <1>10
  <2>6. silence' + NextTime(c + 1)' + Round * Steps' < Quiet
    <3>1. PICK t, y, k : t = NextTime(c + 1)' /\ y = Latency /\ k = Steps'
      OBVIOUS
    <3>2. t = y + Round
      BY <1>8, <1>10, <3>1 DEF NextTime, Round
    <3>3. y \in 0 .. 2 * MaxLate /\ k \in Nat /\ k <= MaxNoise
      BY <1>9, <3>1, StartingFacts
    <3>4. Round * k \in Nat /\ Round * k <= Round * MaxNoise /\ Round * MaxNoise \in Nat
      <4>1. PICK j \in Nat : j = MaxNoise - k
        BY <3>3, Margins
      <4>2. MaxNoise = k + j
        BY <3>3, <4>1, Margins
      <4>3. Round * MaxNoise = Round * k + Round * j /\ Round * k \in Nat /\ Round * j \in Nat
        BY <3>3, <4>1, <4>2, Margins
      <4> QED
        BY <4>3
    <3>5. PICK u, v : u = Round * k /\ v = Round * MaxNoise
      OBVIOUS
    <3>6. 0 + t + u < Quiet
      <4>1. 2 * MaxLate + Round + v < Quiet
        BY <3>5, NoiseMargins
      <4>2. u \in Nat /\ v \in Nat /\ u <= v
        BY <3>4, <3>5
      <4> QED
        BY <3>2, <3>3, <4>1, <4>2, Margins
    <3> QED
      BY <1>1, <3>1, <3>5, <3>6, Zenon
  <2>7. (pc' = "initial_cancel" \/ (pc' = "initial_wait" /\ c + 1 > 0)) => alarms' # <<>> /\ LastDue' >= Latency'
    <3> HAVE pc' = "initial_cancel" \/ (pc' = "initial_wait" /\ c + 1 > 0)
    <3>1. CASE pc = "initial_cancel" \/ c > 0
      <4>1. alarms # <<>> /\ LastDue >= Latency
        BY <1>1, <1>2, <3>1 DEF Noisy
      <4> QED
        BY <1>1, <1>8, <4>1, Zenon
    <3>2. CASE pc # "initial_cancel" /\ ~(c > 0)
      <4>1. pc = "initial_wait" /\ c = 0
        BY <1>1, <1>10, <3>2
      <4>2. alarms # <<>> /\ LastDue + silence >= InterFrame
        BY <1>2, <1>5, <4>1 DEF Noisy
      <4>3. PICK d, y : d = LastDue /\ y = Latency
        OBVIOUS
      <4>4. d \in Nat /\ y \in 0 .. 2 * MaxLate /\ d + s >= InterFrame
        BY <1>3, <4>2, <4>3, StartingFacts
      <4>5. d >= y
        BY <1>4, <4>4, Margins
      <4> QED
        BY <1>1, <1>8, <4>2, <4>3, <4>5, Zenon
    <3> QED
      BY <3>1, <3>2
  <2>8. pc' = "initial_wait" /\ c + 1 = 0 /\ ~Hushed' => alarms' # <<>> /\ LastDue' + silence' >= InterFrame
    <3>1. c + 1 # 0
      BY <1>10
    <3> QED
      BY <3>1
  <2> QED
    BY <2>1, <2>2, <2>3, <2>4, <2>5, <2>6, <2>7, <2>8, Zenon DEF Noisy
<1>12. \A i \in 1 .. Len(alarms') :
          alarms'[i].when + MaxGap * (MaxNoise - noise') + silence' >= InterFrame
  <2> SUFFICES ASSUME NEW i \in 1 .. Len(alarms)
               PROVE  alarms[i].when + MaxGap * (MaxNoise - noise') + silence' >= InterFrame
    BY <1>1
  <2>1. Patient(alarms[i].when) /\ alarms[i].when \in Nat
    <3>1. alarms[i].when \in Nat
      BY TableEntries DEF Tables
    <3> QED
      BY <1>5, <3>1 DEF Starting
  <2>2. PICK w : w = alarms[i].when
    OBVIOUS
  <2>3. PICK k \in Nat : k = MaxNoise - n
    BY <1>4, Margins
  <2>4. w \in Nat /\ w + MaxGap * k + s >= InterFrame
    BY <1>3, <2>1, <2>2, <2>3 DEF Patient
  <2>5. MaxNoise - (n - 1) = k + 1
    BY <1>4, <2>3, Margins
  <2>6. MaxGap * (k + 1) = MaxGap * k + MaxGap /\ MaxGap * k \in Nat
    BY <2>3, Margins
  <2>7. PICK u, v : u = MaxGap * k /\ v = MaxGap * (k + 1)
    OBVIOUS
  <2>8. w + v + 0 >= InterFrame
    <3>1. v = u + MaxGap /\ u \in Nat /\ w + u + s >= InterFrame
      BY <2>4, <2>6, <2>7
    <3> QED
      BY <1>4, <2>4, <3>1, Margins
  <2>9. MaxGap * (MaxNoise - noise') = v
    BY <1>1, <1>3, <2>5, <2>7
  <2> QED
    BY <1>1, <2>2, <2>8, <2>9, Zenon
<1>13. Tables'
  BY <1>1, Zenon DEF Tables
<1>14. Unasked'
  BY <1>1, UnaskedKept DEF Starting
<1>15. /\ Setting' \/ pc' \in {"initial_wait", "ready"}
       /\ Setting' => turn' = "tr"
       /\ Ordered(alarms')
       /\ \E k \in 0 .. Len(q') : Noisy(k)'
  BY <1>1, <1>8, <1>10, <1>11, Zenon DEF Starting
<1> QED
  BY <1>9, <1>12, <1>13, <1>14, <1>15, Zenon DEF Starting, Patient

\* A step at the clock leaves the rest alone.
LEMMA ClockStep ==
    ASSUME Shape, Tables, Starting, UNCHANGED master, NEW label, NEW next, ClockAt(label, next),
           outQ' = outQ, frame' = frame
    PROVE  /\ turn = "tr" /\ turn' = "tr" /\ pc = label /\ pc' = next /\ q' = q
           /\ silence' = silence /\ noise' = noise /\ tx' = tx
           /\ Unasked' /\ Latency' = Latency /\ (Hushed' <=> Hushed)
<1>1. /\ turn = "tr" /\ turn' = turn /\ pc = label /\ pc' = next /\ q' = q /\ tx' = tx /\ late' = late
      /\ outQ' = outQ /\ bufferI' = bufferI
  BY DEF ClockAt, At, isr, frame
<1>2. /\ request' = request /\ phase' = phase /\ reply' = reply /\ silence' = silence /\ noise' = noise
  BY MasterUnchanged
<1>3. Latency' = Latency
  BY <1>1, LatencyKept
<1>4. Hushed' <=> Hushed
  BY <1>2 DEF Hushed
<1>5. Unasked'
  BY <1>1, <1>2, UnaskedKept DEF Starting
<1> QED
  BY <1>1, <1>2, <1>3, <1>4, <1>5

\* Patience in the new table, of a new alarm and of the old ones.
LEMMA PatientStill ==
    ASSUME Shape, Tables, Starting, ~Hushed, silence' = silence, noise' = noise,
           NEW w, \/ w = InterFrame
                  \/ \E j \in 1 .. Len(alarms) : w = alarms[j].when
    PROVE  w + MaxGap * (MaxNoise - noise') + silence' >= InterFrame
<1>1. PICK s, m : s = silence /\ m = MaxGap * (MaxNoise - noise)
  OBVIOUS
<1>2. s \in Nat /\ m \in Nat
  <2>1. MaxNoise - noise \in Nat
    BY LatencyFacts, Margins
  <2>2. PICK k \in Nat : k = MaxNoise - noise
    BY <2>1
  <2>3. MaxGap * k \in Nat
    BY <2>2, Margins
  <2> QED
    BY <1>1, <2>2, <2>3, StartingFacts, Zenon
<1>3. w + m + s >= InterFrame
  <2>1. CASE w = InterFrame
    BY <1>2, <2>1, Margins
  <2>2. CASE \E j \in 1 .. Len(alarms) : w = alarms[j].when
    <3>1. PICK j \in 1 .. Len(alarms) : w = alarms[j].when
      BY <2>2
    <3>2. Patient(alarms[j].when)
      BY <3>1 DEF Starting
    <3> QED
      BY <1>1, <3>1, <3>2, Zenon DEF Patient
  <2> QED
    BY <2>1, <2>2
<1> QED
  BY <1>1, <1>3

\* Alarms are set in INITIAL; the table has room.
LEMMA SettingInitial ==
    ASSUME Shape, Tables, Starting, UNCHANGED master,
           \/ InitialSet
           \/ InitialRestart
    PROVE  Tables' /\ Starting'
<1>0. /\ turn = "tr" /\ turn' = "tr" /\ q' = q /\ silence' = silence /\ noise' = noise /\ tx' = tx
      /\ Unasked' /\ Latency' = Latency /\ (Hushed' <=> Hushed)
      /\ \/ pc = "initial" /\ pc' = "initial_wait" /\ SetAlarm(InterFrame, TRUE)
         \/ pc = "initial_restart" /\ pc' = "initial" /\ SetAlarm(InterFrame, FALSE)
  <2>1. CASE InitialSet
    <3>1. ClockAt("initial", "initial_wait") /\ SetAlarm(InterFrame, TRUE) /\ outQ' = outQ /\ frame' = frame
      BY <2>1 DEF InitialSet
    <3>2. /\ turn = "tr" /\ turn' = "tr" /\ q' = q /\ silence' = silence /\ noise' = noise /\ tx' = tx
          /\ Unasked' /\ Latency' = Latency /\ (Hushed' <=> Hushed)
          /\ pc = "initial" /\ pc' = "initial_wait"
      BY <3>1, ClockStep
    <3> QED
      BY <3>1, <3>2, Zenon
  <2>2. CASE InitialRestart
    <3>1. ClockAt("initial_restart", "initial") /\ SetAlarm(InterFrame, FALSE) /\ outQ' = outQ /\ frame' = frame
      BY <2>2 DEF InitialRestart
    <3>2. /\ turn = "tr" /\ turn' = "tr" /\ q' = q /\ silence' = silence /\ noise' = noise /\ tx' = tx
          /\ Unasked' /\ Latency' = Latency /\ (Hushed' <=> Hushed)
          /\ pc = "initial_restart" /\ pc' = "initial"
      BY <3>1, ClockStep
    <3> QED
      BY <3>1, <3>2, Zenon
  <2> QED
    BY <2>1, <2>2
<1>1. PICK c \in 0 .. Len(q) : Noisy(c)
  BY DEF Starting
<1>2. PICK a, l, n : a = Len(alarms) /\ l = Len(q) /\ n = noise
  OBVIOUS
<1>3. /\ a \in Nat /\ l \in Nat /\ n \in 0 .. MaxNoise /\ c \in 0 .. l /\ Len(alarms) < MaxAlarms
      /\ Steps \in 0 .. MaxNoise - n /\ (pc = "initial" => Steps = a + l) /\ (pc = "initial_restart" => Steps = a + l + 1)
  <2>0. PICK e : e = Extra
    OBVIOUS
  <2>1. /\ a \in Nat /\ l \in Nat /\ n \in 0 .. MaxNoise /\ c \in 0 .. l /\ e \in 0 .. 2
        /\ a + l <= MaxNoise - n + 1 - e /\ Steps = a + l + e - 1
    BY <1>2, <2>0, StartingFacts
  <2>2. (pc = "initial" => e = 1) /\ (pc = "initial_restart" => e = 2)
    BY <2>0 DEF Extra
  <2>3. e >= 1
    <3>1. e = 1 \/ e = 2
      BY <1>0, <2>2, Zenon
    <3> QED
      BY <3>1
  <2>4. a < MaxAlarms
    BY <2>1, <2>3, Margins
  <2>5. Steps \in 0 .. MaxNoise - n
    BY <1>2 DEF Starting
  <2>6. (e = 1 => Steps = a + l) /\ (e = 2 => Steps = a + l + 1)
    BY <2>1
  <2> QED
    BY <1>2, <2>1, <2>2, <2>4, <2>5, <2>6
<1>4. /\ alarms' \in Seq(Alarm) /\ Len(alarms') = a + 1
      /\ alarmCount' = a + 1 /\ Ordered(alarms') /\ a + 1 <= MaxAlarms
      /\ alarms'[a + 1].when = InterFrame
      /\ \A i \in 1 .. a + 1 :
           \/ alarms'[i].when = InterFrame
           \/ \E j \in 1 .. Len(alarms) : alarms'[i].when = alarms[j].when
  <2>1. Ordered(alarms) /\ Len(alarms) < MaxAlarms /\ \E st \in BOOLEAN : SetAlarm(InterFrame, st)
    BY <1>0, <1>3 DEF Starting
  <2>2. a + 1 <= MaxAlarms
    BY <1>2, <1>3, Margins
  <2> QED
    BY <1>2, <2>1, <2>2, SetAlarmTable
<1>5. Tables'
  BY <1>0, <1>4, Zenon DEF Tables
<1>6. Steps' = Steps /\ alarms' # <<>> /\ LastDue' = InterFrame
  <2>1. (pc = "initial" => Extra' = 0) /\ (pc = "initial_restart" => Extra' = 1)
    BY <1>0 DEF Extra
  <2>2. Steps' = a + 1 + l + Extra' - 1
    BY <1>0, <1>2, <1>4 DEF Steps
  <2>3. a + 1 + l + 0 - 1 = a + l /\ a + 1 + l + 1 - 1 = a + l + 1
    BY <1>3
  <2>4. Steps' = Steps
    BY <1>0, <1>3, <2>1, <2>2, <2>3
  <2>5. alarms' # <<>> /\ alarms'[Len(alarms')].when = InterFrame
    BY <1>3, <1>4
  <2> QED
    BY <2>4, <2>5, Zenon DEF LastDue
<1>7. Noisy(c)'
  <2>1. /\ \A i \in 1 .. c : \E x \in Noise : q'[i] = Input(x)
        /\ \A i \in c + 1 .. Len(q') : q'[i] = Timeout
        /\ c < Len(q') => Hushed'
    BY <1>0, <1>1, Zenon DEF Noisy
  <2>2. (c < Len(q') \/ pc' = "ready") => Hushed'
    BY <1>0, <2>1
  <2>3. pc' = "ready" => c = 0 /\ Len(alarms') + Len(q') > 0
    BY <1>0
  <2>4. pc' = "initial_wait" => Len(alarms') + Len(q') > c
    BY <1>0, <1>2, <1>3, <1>4
  <2>5. silence' + NextTime(c)' + Round * Steps' < Quiet
    <3>1. PICK s, t, u, p, y : s = silence /\ t = NextTime(c) /\ u = NextTime(c)' /\ p = Round * Steps
                               /\ y = Latency
      OBVIOUS
    <3>2. s \in Nat /\ t \in Nat /\ p \in Nat /\ s + t + p < Quiet /\ y \in Nat
      BY <1>1, <3>1, StartingFacts, Margins DEF Noisy
    <3>3. t = y + Round
      BY <1>0, <3>1, Zenon DEF NextTime, Setting
    <3>4. u \in Nat /\ u <= t
      <4>1. u = y + Round \/ u = InterFrame + 2 * MaxLate
        BY <1>0, <1>6, <3>1, Zenon DEF NextTime, Round
      <4> QED
        BY <3>2, <3>3, <4>1, Margins
    <3>5. s + u + p < Quiet
      BY <3>2, <3>4, Margins
    <3> QED
      BY <1>0, <1>6, <3>1, <3>5, Zenon
  <2>6. InterFrame >= Latency' /\ InterFrame + silence' >= InterFrame
    <3>1. PICK y, s : y = Latency /\ s = silence
      OBVIOUS
    <3>2. y \in 0 .. 2 * MaxLate /\ s \in Nat
      BY <3>1, StartingFacts
    <3>3. InterFrame >= y /\ InterFrame + s >= InterFrame
      BY <3>2, Margins
    <3> QED
      BY <1>0, <3>1, <3>3, Zenon
  <2> QED
    BY <1>0, <1>6, <2>1, <2>2, <2>3, <2>4, <2>5, <2>6, Zenon DEF Noisy
<1>8. ~Hushed' => \A i \in 1 .. Len(alarms') :
                     alarms'[i].when + MaxGap * (MaxNoise - noise') + silence' >= InterFrame
  BY <1>0, <1>4, PatientStill
<1>9. /\ Setting' \/ pc' \in {"initial_wait", "ready"}
      /\ Setting' => turn' = "tr"
  BY <1>0 DEF Setting
<1>10. (\E k \in 0 .. Len(q') : Noisy(k)') /\ Steps' \in 0 .. MaxNoise - noise'
  <2>1. c \in 0 .. Len(q')
    BY <1>0
  <2>2. Steps \in 0 .. MaxNoise - noise
    BY DEF Starting
  <2> QED
    BY <1>0, <1>6, <1>7, <2>1, <2>2, Zenon
<1> QED
  BY <1>0, <1>4, <1>5, <1>8, <1>9, <1>10, Zenon DEF Starting, Patient

\* INITIAL cancels an alarm that is there.
LEMMA StartingCancel ==
    ASSUME Shape, Tables, Starting, UNCHANGED master, InitialCancel
    PROVE  Tables' /\ Starting'
<1>0. /\ turn = "tr" /\ turn' = "tr" /\ q' = q /\ silence' = silence /\ noise' = noise /\ tx' = tx
      /\ Unasked' /\ Latency' = Latency /\ (Hushed' <=> Hushed)
      /\ pc = "initial_cancel" /\ pc' = "initial_restart" /\ CancelAid
  <2>1. ClockAt("initial_cancel", "initial_restart") /\ CancelAid /\ outQ' = outQ /\ frame' = frame
    BY DEF InitialCancel
  <2> QED
    BY <2>1, ClockStep
<1>1. PICK c \in 0 .. Len(q) : Noisy(c)
  BY DEF Starting
<1>2. PICK a, l : a = Len(alarms) /\ l = Len(q)
  OBVIOUS
<1>3. /\ alarms' \in Seq(Alarm) /\ a \in Nat \ {0} /\ Len(alarms') = a - 1
      /\ alarmCount' = a - 1 /\ Ordered(alarms')
      /\ \A i \in 1 .. a - 1 : \E j \in 1 .. Len(alarms) : alarms'[i] = alarms[j]
  <2>1. Ordered(alarms) /\ alarms # <<>>
    BY <1>0, <1>1 DEF Starting, Noisy
  <2> QED
    BY <1>0, <1>2, <2>1, CancelTable
<1>4. Tables'
  <2>1. a - 1 <= MaxAlarms
    <3>1. a <= MaxAlarms
      BY <1>2 DEF Tables
    <3> QED
      BY <1>3, <3>1, Margins
  <2> QED
    BY <1>0, <1>3, <2>1, Zenon DEF Tables
<1>5. Steps' = Steps
  <2>1. Extra = 1 /\ Extra' = 2
    BY <1>0 DEF Extra
  <2>2. Steps' = a - 1 + l + 2 - 1 /\ Steps = a + l + 1 - 1
    BY <1>0, <1>2, <1>3, <2>1 DEF Steps
  <2>3. l \in Nat
    BY <1>2, StartingFacts
  <2> QED
    BY <1>3, <2>2, <2>3
<1>6. Noisy(c)'
  <2>1. /\ \A i \in 1 .. c : \E x \in Noise : q'[i] = Input(x)
        /\ \A i \in c + 1 .. Len(q') : q'[i] = Timeout
        /\ c < Len(q') => Hushed'
    BY <1>0, <1>1, Zenon DEF Noisy
  <2>2. NextTime(c)' = NextTime(c)
    BY <1>0 DEF NextTime, Setting, Round
  <2>3. silence' + NextTime(c)' + Round * Steps' < Quiet
    BY <1>0, <1>1, <1>5, <2>2, Zenon DEF Noisy
  <2> QED
    BY <1>0, <2>1, <2>3 DEF Noisy
<1>7. ~Hushed' => \A i \in 1 .. Len(alarms') :
                     alarms'[i].when + MaxGap * (MaxNoise - noise') + silence' >= InterFrame
  <2>1. \A i \in 1 .. Len(alarms') : \E j \in 1 .. Len(alarms) : alarms'[i].when = alarms[j].when
    BY <1>3
  <2> QED
    BY <1>0, <2>1, PatientStill
<1>8. /\ Setting' \/ pc' \in {"initial_wait", "ready"}
      /\ Setting' => turn' = "tr"
  BY <1>0 DEF Setting
<1>9. (\E k \in 0 .. Len(q') : Noisy(k)') /\ Steps' \in 0 .. MaxNoise - noise'
  <2>1. c \in 0 .. Len(q')
    BY <1>0
  <2>2. Steps \in 0 .. MaxNoise - noise
    BY DEF Starting
  <2> QED
    BY <1>0, <1>5, <1>6, <2>1, <2>2, Zenon
<1> QED
  BY <1>0, <1>3, <1>4, <1>7, <1>8, <1>9, Zenon DEF Starting, Patient

\* A wait changes neither the clock nor what the line carries.
LEMMA StartingWait ==
    ASSUME Shape, Tables, Starting, UNCHANGED master, NEW label, NEW next, WaitAt(label, next)
    PROVE  /\ turn = "tr" /\ pc = label
           /\ alarms' = alarms /\ alarmCount' = alarmCount /\ silence' = silence /\ noise' = noise
           /\ outQ' = outQ /\ bufferI' = bufferI /\ tx' = tx /\ late' = late
           /\ request' = request /\ phase' = phase
           /\ Tables' /\ Unasked' /\ (Hushed' <=> Hushed) /\ LastDue' = LastDue
           /\ q = <<>> => turn' = "pduh" /\ pc' = pc /\ q' = q
           /\ q # <<>> => /\ turn' = turn /\ Latency' = Latency
                          /\ pc' = next[Head(q).tag] /\ q' = Tail(q)
<1>1. turn = "tr" /\ pc = label
  BY DEF WaitAt, At
<1>2. /\ alarms' = alarms /\ alarmCount' = alarmCount /\ outQ' = outQ /\ bufferI' = bufferI
      /\ tx' = tx /\ late' = late
      /\ q = <<>> => turn' = "pduh" /\ pc' = pc /\ q' = q
      /\ q # <<>> => turn' = turn /\ pc' = next[Head(q).tag] /\ q' = Tail(q)
  BY WaitStep
<1>3. /\ request' = request /\ phase' = phase /\ reply' = reply /\ silence' = silence /\ noise' = noise
  BY MasterUnchanged
<1>4. Tables'
  BY <1>2, Zenon DEF Tables
<1>5. Unasked'
  BY <1>2, <1>3, UnaskedKept DEF Starting
<1>6. (Hushed' <=> Hushed) /\ LastDue' = LastDue
  BY <1>2, <1>3 DEF Hushed, LastDue
<1>7. turn' = turn => Latency' = Latency
  BY <1>2, LatencyKept
<1> QED
  BY <1>1, <1>2, <1>3, <1>4, <1>5, <1>6, <1>7, Zenon

\* With nothing in its queue the daemon gives way.
LEMMA StartingIdle ==
    ASSUME Shape, Tables, Starting, UNCHANGED master, NEW label, NEW next, WaitAt(label, next),
           q = <<>>, pc \in {"initial_wait", "ready"}
    PROVE  Tables' /\ Starting'
<1>0. /\ alarms' = alarms /\ silence' = silence /\ noise' = noise
      /\ Tables' /\ Unasked' /\ (Hushed' <=> Hushed) /\ pc' = pc /\ q' = q /\ turn' = "pduh" /\ late' = late
  BY StartingWait
<1>1. PICK c \in 0 .. Len(q) : Noisy(c)
  BY DEF Starting
<1>2. c = 0 /\ alarms # <<>> /\ ~Setting
  <2>1. Len(q) = 0 /\ c = 0
    BY <1>1
  <2>2. Len(alarms) + 0 > 0
    BY <1>1, <2>1 DEF Noisy
  <2>3. alarms # <<>>
    BY <2>2, StartingFacts
  <2> QED
    BY <2>1, <2>3 DEF Setting
<1>3. Latency' \in Nat
  <2>1. Latency' = Left + MaxLate
    <3>1. Left' = Left
      BY <1>0, LeftKept
    <3>2. turn' # "tr"
      BY <1>0
    <3> QED
      BY <3>1, <3>2, Zenon DEF Latency
  <2>2. Left \in 0 .. MaxLate
    BY LatencyFacts
  <2>3. Left + MaxLate \in Nat
    BY <2>2, Margins
  <2> QED
    BY <2>1, <2>3
<1>4. Noisy(c)'
  BY <1>0, <1>1, <1>2, <1>3, NoisyKept
<1>5. (Setting' <=> Setting) /\ Steps' = Steps
  BY <1>0 DEF Setting, Steps, Extra
<1>6. ~Hushed' => \A i \in 1 .. Len(alarms') :
                     alarms'[i].when + MaxGap * (MaxNoise - noise') + silence' >= InterFrame
  BY <1>0, Zenon DEF Starting, Patient
<1>7. /\ Setting' \/ pc' \in {"initial_wait", "ready"}
      /\ Setting' => turn' = "tr"
      /\ Ordered(alarms')
      /\ Steps' \in 0 .. MaxNoise - noise'
      /\ \E k \in 0 .. Len(q') : Noisy(k)'
  BY <1>0, <1>1, <1>2, <1>4, <1>5, Zenon DEF Starting
<1> QED
  BY <1>0, <1>6, <1>7, Zenon DEF Starting, Patient

\* What is at the head of the queue, and behind it.
LEMMA NoisyHead ==
    ASSUME Shape, q # <<>>, NEW c \in 0 .. Len(q), Noisy(c)
    PROVE  /\ Len(q) \in Nat \ {0} /\ Len(Tail(q)) = Len(q) - 1
           /\ c > 0 => /\ Head(q).tag = "char" /\ c - 1 \in 0 .. Len(q) - 1
                       /\ \A i \in 1 .. c - 1 : \E x \in Noise : Tail(q)[i] = Input(x)
                       /\ \A i \in (c - 1) + 1 .. Len(q) - 1 : Tail(q)[i] = Timeout
           /\ c = 0 => /\ Head(q).tag = "timeout" /\ Hushed
                       /\ \A i \in 1 .. Len(q) - 1 : Tail(q)[i] = Timeout
<1>1. q \in Seq(Message)
  BY DEF Shape, SlaveShape
<1>2. PICK l : l = Len(q)
  OBVIOUS
<1>3. PICK t : t = Tail(q)
  OBVIOUS
<1>4. /\ l \in Nat \ {0} /\ Len(t) = l - 1 /\ Head(q) = q[1]
      /\ \A i \in 1 .. l - 1 : t[i] = q[i + 1]
  BY <1>1, <1>2, <1>3, HeadTailProperties
<1>5. /\ \A i \in 1 .. c : \E x \in Noise : q[i] = Input(x)
      /\ \A i \in c + 1 .. l : q[i] = Timeout
      /\ c < l => Hushed
  BY <1>2 DEF Noisy
<1>6. c \in 0 .. l
  BY <1>2
<1>7. ASSUME c > 0
      PROVE  /\ Head(q).tag = "char" /\ c - 1 \in 0 .. l - 1
             /\ \A i \in 1 .. c - 1 : \E x \in Noise : t[i] = Input(x)
             /\ \A i \in (c - 1) + 1 .. l - 1 : t[i] = Timeout
  <2>1. PICK x \in Noise : q[1] = Input(x)
    BY <1>4, <1>5, <1>6, <1>7
  <2>2. Head(q).tag = "char"
    BY <1>4, <2>1 DEF Input
  <2>3. ASSUME NEW i \in 1 .. c - 1 PROVE \E y \in Noise : t[i] = Input(y)
    <3>1. i + 1 \in 1 .. c /\ i \in 1 .. l - 1
      BY <1>4, <1>6, <1>7
    <3> QED
      BY <1>4, <1>5, <3>1
  <2>4. ASSUME NEW i \in (c - 1) + 1 .. l - 1 PROVE t[i] = Timeout
    <3>1. i + 1 \in c + 1 .. l /\ i \in 1 .. l - 1
      BY <1>4, <1>6, <1>7
    <3> QED
      BY <1>4, <1>5, <3>1
  <2>5. c - 1 \in 0 .. l - 1
    BY <1>4, <1>6, <1>7
  <2> QED
    BY <2>2, <2>3, <2>4, <2>5
<1>8. ASSUME c = 0
      PROVE  /\ Head(q).tag = "timeout" /\ Hushed
             /\ \A i \in 1 .. l - 1 : t[i] = Timeout
  <2>1. q[1] = Timeout
    BY <1>4, <1>5, <1>8
  <2>2. ASSUME NEW i \in 1 .. l - 1 PROVE t[i] = Timeout
    <3>1. i + 1 \in c + 1 .. l
      BY <1>4, <1>8
    <3> QED
      BY <1>4, <1>5, <3>1
  <2>3. Hushed
    BY <1>4, <1>5, <1>8
  <2> QED
    BY <1>4, <2>1, <2>2, <2>3 DEF Timeout
<1> QED
  BY <1>2, <1>3, <1>4, <1>7, <1>8

\* A character of the noise is taken.
LEMMA NoiseTaken ==
    ASSUME Shape, Tables, Starting, UNCHANGED master, InitialWait, q # <<>>,
           NEW c \in 0 .. Len(q), Noisy(c), c > 0
    PROVE  Tables' /\ Starting'
<1>0. PICK next : WaitAt("initial_wait", next)
  BY DEF InitialWait
<1>1. /\ Len(q) \in Nat \ {0} /\ Len(Tail(q)) = Len(q) - 1
      /\ Head(q).tag = "char" /\ c - 1 \in 0 .. Len(q) - 1
      /\ \A i \in 1 .. c - 1 : \E x \in Noise : Tail(q)[i] = Input(x)
      /\ \A i \in (c - 1) + 1 .. Len(q) - 1 : Tail(q)[i] = Timeout
  BY NoisyHead
<1>2. pc' = "initial_cancel"
  BY <1>1, WaitsNext
<1>3. /\ turn = "tr" /\ pc = "initial_wait"
      /\ alarms' = alarms /\ silence' = silence /\ noise' = noise
      /\ Tables' /\ Unasked' /\ (Hushed' <=> Hushed) /\ LastDue' = LastDue
      /\ turn' = turn /\ Latency' = Latency /\ q' = Tail(q)
  BY <1>0, StartingWait
<1>4. PICK a, l : a = Len(alarms) /\ l = Len(q)
  OBVIOUS
<1>5. a \in Nat /\ l \in Nat \ {0} /\ c \in 1 .. l /\ Len(q') = l - 1
  BY <1>1, <1>3, <1>4, StartingFacts
<1>6. Steps' = Steps
  <2>1. Extra = 0 /\ Extra' = 1
    BY <1>2, <1>3 DEF Extra
  <2>2. Steps = a + l + 0 - 1 /\ Steps' = a + (l - 1) + 1 - 1
    BY <1>3, <1>4, <1>5, <2>1 DEF Steps
  <2>3. a + l + 0 - 1 = a + (l - 1) + 1 - 1
    BY <1>5
  <2> QED
    BY <2>2, <2>3
<1>7. Noisy(c - 1)'
  <2>1. /\ \A i \in 1 .. c - 1 : \E x \in Noise : q'[i] = Input(x)
        /\ \A i \in (c - 1) + 1 .. Len(q') : q'[i] = Timeout
    BY <1>1, <1>3, <1>4, <1>5, Zenon
  <2>2. c - 1 < Len(q') => Hushed'
    <3>1. c < l => Hushed
      BY <1>4 DEF Noisy
    <3>2. c - 1 < l - 1 => c < l
      BY <1>5
    <3> QED
      BY <1>3, <1>5, <3>1, <3>2
  <2>3. NextTime(c - 1)' = NextTime(c)
    <3>1. NextTime(c) = Latency + Round
      BY Zenon DEF NextTime
    <3>2. NextTime(c - 1)' = Latency + Round
      BY <1>2, <1>3, Zenon DEF NextTime, Setting, Round
    <3> QED
      BY <3>1, <3>2
  <2>4. silence' + NextTime(c - 1)' + Round * Steps' < Quiet
    BY <1>3, <1>6, <2>3, Zenon DEF Noisy
  <2>5. alarms' # <<>> /\ LastDue' >= Latency'
    BY <1>3, Zenon DEF Noisy
  <2> QED
    BY <1>2, <2>1, <2>2, <2>4, <2>5, Zenon DEF Noisy
<1>8. ~Hushed' => \A i \in 1 .. Len(alarms') :
                     alarms'[i].when + MaxGap * (MaxNoise - noise') + silence' >= InterFrame
  BY <1>3, Zenon DEF Starting, Patient
<1>9. /\ Setting' \/ pc' \in {"initial_wait", "ready"}
      /\ Setting' => turn' = "tr"
      /\ Ordered(alarms')
  BY <1>2, <1>3, Zenon DEF Starting, Setting
<1>10. (\E k \in 0 .. Len(q') : Noisy(k)') /\ Steps' \in 0 .. MaxNoise - noise'
  <2>1. c - 1 \in 0 .. Len(q')
    BY <1>5
  <2>2. Steps \in 0 .. MaxNoise - noise
    BY DEF Starting
  <2> QED
    BY <1>3, <1>6, <1>7, <2>1, <2>2, Zenon
<1> QED
  BY <1>3, <1>8, <1>9, <1>10, Zenon DEF Starting, Patient

\* A timeout ends the wait at the start: the slave listens, if nothing is left.
LEMMA SilenceHeard ==
    ASSUME Shape, Tables, Starting, UNCHANGED master, InitialWait, q # <<>>, Noisy(0)
    PROVE  Tables' /\ (Starting' \/ Resting')
<1>0. PICK next : WaitAt("initial_wait", next)
  BY DEF InitialWait
<1>1. /\ Len(q) \in Nat \ {0} /\ Len(Tail(q)) = Len(q) - 1
      /\ Head(q).tag = "timeout" /\ Hushed
      /\ \A i \in 1 .. Len(q) - 1 : Tail(q)[i] = Timeout
  <2>1. 0 \in 0 .. Len(q)
    BY DEF Shape, SlaveShape
  <2> QED
    BY <2>1, NoisyHead
<1>2. pc' = "ready"
  BY <1>1, WaitsNext
<1>3. /\ turn = "tr" /\ pc = "initial_wait"
      /\ alarms' = alarms /\ silence' = silence /\ noise' = noise /\ outQ' = outQ /\ bufferI' = bufferI
      /\ tx' = tx /\ request' = request /\ phase' = phase
      /\ Tables' /\ Unasked' /\ (Hushed' <=> Hushed) /\ LastDue' = LastDue
      /\ turn' = turn /\ Latency' = Latency /\ q' = Tail(q)
  BY <1>0, StartingWait
<1>4. PICK a, l : a = Len(alarms) /\ l = Len(q)
  OBVIOUS
<1>5. a \in Nat /\ l \in Nat \ {0} /\ Len(q') = l - 1 /\ q' \in Seq(Message)
  <2>1. q \in Seq(Message)
    BY DEF Shape, SlaveShape
  <2> QED
    BY <1>1, <1>3, <1>4, <2>1, StartingFacts, HeadTailProperties
<1>6. CASE a + (l - 1) = 0
  <2>1. a = 0 /\ l - 1 = 0
    BY <1>5, <1>6
  <2>2. alarms' = <<>> /\ q' = <<>>
    <3>1. alarms = <<>>
      BY <1>4, <2>1, StartingFacts
    <3>2. q' = <<>>
      BY <1>5, <2>1, EmptySeq
    <3> QED
      BY <1>3, <3>1, <3>2
  <2>3. noise' = 0 \/ (silence' > MaxGap /\ ~request'.mine)
    BY <1>1, <1>3 DEF Starting, Unasked, Hushed
  <2>4. outQ' = <<>> /\ bufferI' = 0 /\ phase' = "idle" /\ tx' = <<>>
    BY <1>3 DEF Unasked
  <2> QED
    BY <1>2, <1>3, <2>2, <2>3, <2>4 DEF Resting, Spoken
<1>7. CASE a + (l - 1) > 0
  <2>1. Steps' = Steps
    <3>1. Extra = 0 /\ Extra' = 1
      BY <1>2, <1>3 DEF Extra
    <3>2. Steps = a + l + 0 - 1 /\ Steps' = a + (l - 1) + 1 - 1
      BY <1>3, <1>4, <1>5, <3>1 DEF Steps
    <3>3. a + l + 0 - 1 = a + (l - 1) + 1 - 1
      BY <1>5
    <3> QED
      BY <3>2, <3>3
  <2>2. Noisy(0)'
    <3>1. /\ \A i \in 1 .. 0 : \E x \in Noise : q'[i] = Input(x)
          /\ \A i \in 0 + 1 .. Len(q') : q'[i] = Timeout
      BY <1>1, <1>3, <1>4, <1>5
    <3>2. NextTime(0)' = NextTime(0)
      BY <1>2, <1>3 DEF NextTime, Setting
    <3>3. silence' + NextTime(0)' + Round * Steps' < Quiet
      BY <1>3, <2>1, <3>2, Zenon DEF Noisy
    <3>4. Len(alarms') + Len(q') > 0
      BY <1>3, <1>4, <1>5, <1>7
    <3> QED
      BY <1>1, <1>2, <1>3, <3>1, <3>3, <3>4 DEF Noisy
  <2>3. Setting' \/ pc' \in {"initial_wait", "ready"}
    BY <1>2
  <2>4. (Setting' => turn' = "tr") /\ Ordered(alarms') /\ Hushed'
    BY <1>1, <1>3, Zenon DEF Starting
  <2>5. (\E k \in 0 .. Len(q') : Noisy(k)') /\ Steps' \in 0 .. MaxNoise - noise'
    <3>1. 0 \in 0 .. Len(q')
      BY <1>5
    <3>2. Steps \in 0 .. MaxNoise - noise
      BY DEF Starting
    <3> QED
      BY <1>3, <2>1, <2>2, <3>1, <3>2, Zenon
  <2> QED
    BY <1>3, <2>3, <2>4, <2>5, Zenon DEF Starting
<1> QED
  BY <1>5, <1>6, <1>7

\* A timeout too many: the slave starts over.
LEMMA StartsOver ==
    ASSUME Shape, Tables, Starting, UNCHANGED master, Ready, q # <<>>, NEW c \in 0 .. Len(q), Noisy(c)
    PROVE  Tables' /\ Starting'
<1>0. PICK next : WaitAt("ready", next)
  BY DEF Ready
<1>1. /\ turn = "tr" /\ pc = "ready"
      /\ alarms' = alarms /\ silence' = silence /\ noise' = noise
      /\ Tables' /\ Unasked' /\ (Hushed' <=> Hushed)
      /\ turn' = turn /\ Latency' = Latency /\ q' = Tail(q)
  BY <1>0, StartingWait
<1>2. c = 0 /\ Hushed
  BY <1>1 DEF Noisy
<1>3. /\ Len(q) \in Nat \ {0} /\ Len(Tail(q)) = Len(q) - 1
      /\ Head(q).tag = "timeout"
      /\ \A i \in 1 .. Len(q) - 1 : Tail(q)[i] = Timeout
  BY <1>2, NoisyHead
<1>4. pc' = "initial"
  BY <1>3, WaitsNext
<1>5. PICK a, l : a = Len(alarms) /\ l = Len(q)
  OBVIOUS
<1>6. a \in Nat /\ l \in Nat \ {0} /\ Len(q') = l - 1
  BY <1>1, <1>3, <1>5, StartingFacts
<1>7. Steps = a + l /\ Steps' = a + (l - 1)
  <2>1. Extra = 1 /\ Extra' = 1
    BY <1>1, <1>4 DEF Extra
  <2>2. Steps = a + l + 1 - 1 /\ Steps' = a + (l - 1) + 1 - 1
    BY <1>1, <1>5, <1>6, <2>1 DEF Steps
  <2> QED
    BY <1>6, <2>2
<1>8. Noisy(0)'
  <2>1. /\ \A i \in 1 .. 0 : \E x \in Noise : q'[i] = Input(x)
        /\ \A i \in 0 + 1 .. Len(q') : q'[i] = Timeout
    BY <1>1, <1>3, <1>5, <1>6
  <2>2. silence' + NextTime(0)' + Round * Steps' < Quiet
    <3>1. PICK s, t, y : s = silence /\ t = NextTime(0) /\ y = Latency
      OBVIOUS
    <3>2. PICK k \in Nat : k = a + (l - 1)
      BY <1>6
    <3>3. Steps = k + 1 /\ Steps' = k
      BY <1>6, <1>7, <3>2
    <3>4. Round * (k + 1) = Round * k + Round /\ Round * k \in Nat
      BY <3>2, Margins
    <3>5. PICK p : p = Round * k
      OBVIOUS
    <3>6. s \in Nat /\ t \in Nat /\ y \in 0 .. 2 * MaxLate /\ s + t + (p + Round) < Quiet /\ p \in Nat
      BY <1>2, <3>1, <3>3, <3>4, <3>5, StartingFacts DEF Noisy
    <3>7. y <= t
      <4>1. ~Setting
        BY <1>1 DEF Setting
      <4>2. CASE alarms = <<>>
        <5>1. t = y
          BY <3>1, <4>1, <4>2 DEF NextTime
        <5> QED
          BY <3>6, <5>1
      <4>3. CASE alarms # <<>>
        <5>1. t = LastDue + 2 * MaxLate /\ LastDue \in Nat
          BY <3>1, <4>1, <4>3, StartingFacts DEF NextTime
        <5> QED
          BY <3>6, <5>1, Margins
      <4> QED
        BY <4>2, <4>3
    <3>8. NextTime(0)' = y + Round
      BY <1>1, <1>4, <3>1 DEF NextTime, Setting, Round
    <3>9. s + (y + Round) + p < Quiet
      BY <3>6, <3>7, Margins
    <3> QED
      BY <1>1, <3>1, <3>3, <3>5, <3>8, <3>9, Zenon
  <2> QED
    BY <1>1, <1>2, <1>4, <2>1, <2>2 DEF Noisy
<1>9. Setting' /\ turn' = "tr" /\ Ordered(alarms') /\ Hushed'
  BY <1>1, <1>2, <1>4 DEF Starting, Setting
<1>10. (\E k \in 0 .. Len(q') : Noisy(k)') /\ Steps' \in 0 .. MaxNoise - noise'
  <2>1. 0 \in 0 .. Len(q')
    BY <1>6
  <2>2. Steps' \in 0 .. MaxNoise - noise
    <3>1. PICK m : m = MaxNoise - noise
      OBVIOUS
    <3>2. a + l \in 0 .. m /\ m \in Nat
      BY <1>7, <3>1, LatencyFacts, Margins DEF Starting
    <3>3. a + (l - 1) \in 0 .. m
      BY <1>6, <3>2
    <3> QED
      BY <1>7, <3>1, <3>3
  <2> QED
    BY <1>1, <1>8, <2>1, <2>2, Zenon
<1> QED
  BY <1>1, <1>9, <1>10, Zenon DEF Starting

\* The noise over, the slave sees its timeouts one by one and comes to rest.
LEMMA StartingStep ==
    ASSUME Shape, Tables, Starting, LinkNext
    PROVE  Tables' /\ (Starting' \/ Resting')
<1>1. PICK c \in 0 .. Len(q) : Noisy(c)
  BY DEF Starting
<1>2. outQ = <<>> /\ (Setting \/ pc \in {"initial_wait", "ready"})
  BY DEF Starting, Unasked
<1>3. CASE Daemon /\ UNCHANGED master
  <2>1. CASE InitialSet \/ InitialRestart
    BY <1>3, <2>1, SettingInitial
  <2>2. CASE InitialCancel
    BY <1>3, <2>2, StartingCancel
  <2>3. CASE pc = "initial_wait" /\ InitialWait
    <3>1. CASE q = <<>>
      BY <1>3, <2>3, <3>1, StartingIdle DEF InitialWait
    <3>2. CASE q # <<>> /\ c > 0
      BY <1>1, <1>3, <2>3, <3>2, NoiseTaken
    <3>3. CASE q # <<>> /\ c = 0
      BY <1>1, <1>3, <2>3, <3>3, SilenceHeard
    <3>4. c > 0 \/ c = 0
      BY StartingFacts
    <3> QED
      BY <3>1, <3>2, <3>3, <3>4
  <2>4. CASE pc = "ready" /\ Ready
    <3>1. CASE q = <<>>
      BY <1>3, <2>4, <3>1, StartingIdle DEF Ready
    <3>2. CASE q # <<>>
      BY <1>1, <1>3, <2>4, <3>2, StartsOver
    <3> QED
      BY <3>1, <3>2
  <2> QED
    BY <1>2, <1>3, <2>1, <2>2, <2>3, <2>4, DaemonPlaces DEF Setting
<1>4. CASE Handle
  BY <1>2, <1>4 DEF Handle
<1>5. CASE ComeRound /\ UNCHANGED master
  BY <1>5, StartingRound
<1>6. CASE LinkTick
  BY <1>6, StartingTick
<1>7. CASE Crackle
  BY <1>7, StartingCrackle
<1> QED
  BY <1>3, <1>4, <1>5, <1>6, <1>7, LinkSteps, NobodyAsks

-----------------------------------------------------------------------------
(* The invariant.                                                          *)

\* At power-up the slave is starting.
LEMMA LinkInvInit == LinkInit => LinkInv
<1> SUFFICES ASSUME LinkInit PROVE LinkInv
  OBVIOUS
<1>1. /\ pc = "initial" /\ turn = "tr" /\ q = <<>> /\ outQ = <<>>
      /\ inputMsg = NoChar /\ bufferMsg = 0
      /\ buffer = [i \in Index |-> NoChar] /\ bufferI = 0
      /\ tx = <<>> /\ alarms = <<>> /\ alarmCount = 0 /\ rx = FALSE /\ late = 0
  BY DEF LinkInit, Init, frame, clock
<1>2. /\ request \in Request /\ ~request.mine /\ sent = request.length /\ phase = "idle"
      /\ reply = <<>> /\ silence = 0 /\ noise = MaxNoise
  BY DEF LinkInit
<1>3. 0 \in Index /\ 0 \in Nat
  BY Margins DEF Index
<1>4. SlaveShape
  <2>1. q \in Seq(Message) /\ Len(q) <= QueueSize /\ outQ \in Seq(Index) /\ Len(outQ) <= QueueSize
    BY <1>1, Margins
  <2>2. buffer \in [Index -> Char \cup {NoChar}] /\ inputMsg \in Char \cup {NoChar}
    BY <1>1
  <2> QED
    BY <1>1, <1>3, <2>1, <2>2 DEF SlaveShape
<1>5. LineShape
  <2>1. request.length \in 1 .. request.length
    BY <1>2, RequestFacts
  <2>2. silence \in 0 .. Quiet /\ noise \in 0 .. MaxNoise /\ late \in 0 .. MaxLate /\ reply \in Seq(Char)
    BY <1>1, <1>2, Margins
  <2>3. ~(sent < request.length)
    BY <1>2, <2>1
  <2> QED
    BY <1>1, <1>2, <2>1, <2>2, <2>3 DEF LineShape
<1>6. Tables
  BY <1>1, Margins DEF Tables
<1>7. Len(alarms) = 0 /\ Len(q) = 0
  BY <1>1
<1>8. Steps = 0 /\ Extra = 1
  BY <1>1, <1>7 DEF Steps, Extra
<1>9. Latency = MaxLate
  BY <1>1, Margins DEF Latency, Left
<1>10. silence + NextTime(0) + Round * Steps < Quiet
  <2>1. NextTime(0) = MaxLate + Round
    BY <1>1, <1>9, Zenon DEF NextTime, Setting
  <2>2. Round * Steps = 0
    BY <1>8, Margins
  <2> QED
    BY <1>2, <2>1, <2>2, Margins
<1>11. Noisy(0)
  BY <1>1, <1>7, <1>10 DEF Noisy
<1>12. 0 \in 0 .. Len(q) /\ Steps \in 0 .. MaxNoise - noise
  BY <1>2, <1>7, <1>8, Margins
<1>13. Ordered(alarms) /\ Setting /\ Unasked /\ ~(\E i \in 1 .. Len(alarms) : TRUE)
  BY <1>1, <1>2, <1>7 DEF Ordered, Setting, Unasked
<1>14. Starting
  BY <1>1, <1>11, <1>12, <1>13, Zenon DEF Starting
<1> QED
  BY <1>4, <1>5, <1>6, <1>14 DEF LinkInv, Shape

\* Nothing happens.
LEMMA LinkInvStill ==
    ASSUME LinkInv, UNCHANGED LinkVars
    PROVE  LinkInv'
<1>1. /\ pc' = pc /\ turn' = turn /\ q' = q /\ outQ' = outQ /\ inputMsg' = inputMsg
      /\ bufferMsg' = bufferMsg /\ buffer' = buffer /\ bufferI' = bufferI /\ bufferMsgI' = bufferMsgI
      /\ alarms' = alarms /\ alarmCount' = alarmCount /\ tx' = tx /\ rx' = rx /\ late' = late
      /\ request' = request /\ sent' = sent /\ phase' = phase /\ reply' = reply
      /\ silence' = silence /\ noise' = noise
  BY DEF LinkVars, vars, frame, clock, isr, master
<1>2. Shape' /\ Tables'
  BY <1>1 DEF LinkInv, Shape, SlaveShape, LineShape, Tables
<1>3. Left' = Left /\ Latency' = Latency /\ EndTime' = EndTime /\ FrameTime' = FrameTime
      /\ SpeechTime' = SpeechTime
  BY <1>1, TimesKept, LeftKept DEF SpeechTime, Round
<1>4. Full' = Full /\ Size' = Size /\ (ReplyStored' <=> ReplyStored) /\ (Begun' <=> Begun)
      /\ (Silent' <=> Silent) /\ (Out' <=> Out) /\ (Spoken' <=> Spoken)
  BY <1>1, Zenon DEF Full, Size, ReplyStored, Begun, Silent, Out, Spoken
<1>5. Starting => Starting'
  <2>1. LastDue' = LastDue /\ (Hushed' <=> Hushed) /\ (Setting' <=> Setting) /\ Extra' = Extra
        /\ Steps' = Steps /\ (Unasked' <=> Unasked)
    BY <1>1 DEF LastDue, Hushed, Setting, Extra, Steps, Unasked
  <2>2. ASSUME NEW c PROVE Noisy(c) => Noisy(c)'
    <3>1. NextTime(c)' = NextTime(c)
      BY <1>1, <1>3, <2>1, Zenon DEF NextTime, Round
    <3> QED
      BY <1>1, <1>3, <2>1, <3>1, Zenon DEF Noisy
  <2> QED
    BY <1>1, <2>1, <2>2, Zenon DEF Starting, Patient
<1>6. Resting => Resting'
  BY <1>1, <1>4, Zenon DEF Resting
<1>7. Receiving => Receiving'
  <2>1. (Storing' <=> Storing) /\ Taken' = Taken /\ Backlog' = Backlog
    BY <1>1, <1>3 DEF Storing, Taken, Backlog
  <2>2. ASSUME NEW w PROVE Timing(w) => Timing(w)'
    BY <1>1, <1>3, <2>1, Zenon DEF Timing, Within
  <2> QED
    BY <1>1, <1>3, <1>4, <2>1, <2>2, Zenon DEF Receiving, Within
<1>8. Ended => Ended'
  BY <1>1, <1>3, <1>4, Zenon DEF Ended, Within
<1>9. Handed => Handed'
  BY <1>1, <1>3, <1>4, Zenon DEF Handed, Within
<1>10. Executed => Executed'
  BY <1>1, <1>3, <1>4, Zenon DEF Executed, Within
<1>11. Emitting => Emitting'
  <2>1. Writing => Writing'
    BY <1>1, <1>3, <1>4, Zenon DEF Writing, Soon
  <2>2. (Written => Written') /\ (Paused => Paused')
    BY <1>1, <1>3, <1>4, Zenon DEF Written, Paused, Soon
  <2>3. ASSUME NEW w PROVE Pausing(w) => Pausing(w)'
    BY <1>1, <1>3, <1>4, Zenon DEF Pausing, Soon
  <2> QED
    BY <1>1, <2>1, <2>2, <2>3, Zenon DEF Emitting
<1>12. Overlapping => Overlapping'
  BY <1>1, <1>3, <1>4, Zenon DEF Overlapping
<1> QED
  BY <1>2, <1>5, <1>6, <1>7, <1>8, <1>9, <1>10, <1>11, <1>12 DEF LinkInv

\* Every stage leads to itself or to the next.
LEMMA LinkInvNext ==
    ASSUME LinkInv, [LinkNext]_LinkVars
    PROVE  LinkInv'
<1>1. CASE LinkNext
  <2>1. Shape /\ Tables
    BY DEF LinkInv
  <2>2. Shape'
    BY <1>1, <2>1, ShapeStep
  <2>3. Tables' /\ \/ Starting' \/ Resting' \/ Receiving' \/ Ended'
                   \/ Handed' \/ Executed' \/ Emitting' \/ Overlapping'
    <3>1. CASE Starting
      BY <1>1, <2>1, <3>1, StartingStep
    <3>2. CASE Resting
      BY <1>1, <2>1, <2>2, <3>2, RestingStep
    <3>3. CASE Receiving
      BY <1>1, <2>1, <2>2, <3>3, ReceivingStep
    <3>4. CASE Ended
      BY <1>1, <2>1, <3>4, EndedStep
    <3>5. CASE Handed
      BY <1>1, <2>1, <3>5, HandedStep
    <3>6. CASE Executed
      BY <1>1, <2>1, <3>6, ExecutedStep
    <3>7. CASE Emitting
      BY <1>1, <2>1, <3>7, EmittingStep
    <3>8. CASE Overlapping
      BY <1>1, <2>1, <2>2, <3>8, OverlappingStep
    <3> QED
      BY <3>1, <3>2, <3>3, <3>4, <3>5, <3>6, <3>7, <3>8 DEF LinkInv
  <2> QED
    BY <2>2, <2>3 DEF LinkInv
<1>2. CASE UNCHANGED LinkVars
  BY <1>2, LinkInvStill
<1> QED
  BY <1>1, <1>2

\* The slave is always in one of the stages: operator()() with its handlers, the
\* PDU handler and the master taken together.
THEOREM LinkInvAlways == LinkSpec => []LinkInv
<1>1. LinkInv /\ [LinkNext]_LinkVars => LinkInv'
  BY LinkInvNext
<1> QED
  BY LinkInvInit, <1>1, PTL DEF LinkSpec

-----------------------------------------------------------------------------
(* What follows from it.                                                   *)

\* In every stage the types are right, ...
LEMMA TypeOKFollows == LinkInv => LinkTypeOK
<1> SUFFICES ASSUME LinkInv PROVE LinkTypeOK
  OBVIOUS
<1>1. Shape /\ Tables
  BY DEF LinkInv
<1>2. bufferMsgI \in 0 .. bufferMsg \/ pc # "emission"
  <2>1. Writing => bufferMsgI \in 0 .. bufferMsg
    BY DEF Writing
  <2>2. /\ (Starting => pc # "emission") /\ (Resting => pc # "emission")
        /\ (Receiving => pc # "emission") /\ (Ended => pc # "emission")
        /\ (Handed => pc # "emission") /\ (Executed => pc # "emission")
        /\ (Overlapping => pc # "emission")
    BY DEF Starting, Setting, Resting, Receiving, Storing, Ended, Handed, Executed, Overlapping
  <2>3. Emitting => Writing \/ pc # "emission"
    BY DEF Emitting, Written, Pausing, Paused
  <2> QED
    BY <2>1, <2>2, <2>3 DEF LinkInv
<1> QED
  BY <1>1, <1>2 DEF LinkTypeOK, Shape, SlaveShape, LineShape, Tables, Defined

\* ... a frame in the hands of the PDU handler is whole, ...
LEMMA FramesFollow == LinkInv => FramesIntact
<1> SUFFICES ASSUME LinkInv, outQ # <<>> PROVE FramesIntact
  BY DEF FramesIntact
<1>1. Handed
  BY DEF LinkInv, Starting, Unasked, Resting, Receiving, Ended, Executed, Emitting, Overlapping
<1>2. sent = request.length
  <2>1. phase # "sending" /\ LineShape
    BY <1>1 DEF Handed, Out, LinkInv, Shape
  <2>2. request.length \in Nat /\ sent \in 1 .. request.length /\ ~(sent < request.length)
    BY <2>1, RequestFacts DEF LineShape
  <2> QED
    BY <2>2
<1> QED
  BY <1>1, <1>2 DEF FramesIntact, Handed

\* ... what is emitted is the reply to the request, ...
LEMMA SpeechFollows == LinkInv => SpeaksWhenAsked
<1> SUFFICES ASSUME LinkInv, tx # <<>> PROVE SpeaksWhenAsked
  BY DEF SpeaksWhenAsked
<1>1. Shape /\ Tables
  BY DEF LinkInv
<1>2. /\ Full \in Seq(Char) /\ reply \in Seq(Char) /\ tx \in Seq(Char)
      /\ Full = Reply(Sent(request, 0))
  BY <1>1, FullFacts DEF Shape, LineShape, Tables, Full
<1>3. PICK a, b, n : a = Len(reply) /\ b = Len(tx) /\ n = Len(Full)
  OBVIOUS
<1>4. a \in Nat /\ b \in Nat \ {0} /\ n \in Nat /\ Len(reply \o tx) = a + b
  <2>1. b # 0
    BY <1>2, <1>3, EmptySeq
  <2> QED
    BY <1>2, <1>3, <2>1, ConcatProperties
<1>5. ASSUME Spoken PROVE phase = "waiting" /\ reply \o tx = SubSeq(Full, 1, a + b)
  <2>1. phase = "waiting" /\ reply \o tx = Full
    BY <1>5 DEF Spoken
  <2>2. a + b = n
    BY <1>3, <1>4, <2>1
  <2>3. SubSeq(Full, 1, n) = Full
    BY <1>2, <1>3, SubSeqFull
  <2> QED
    BY <2>1, <2>2, <2>3
<1>6. ASSUME Writing PROVE phase = "waiting" /\ reply \o tx = SubSeq(Full, 1, a + b)
  <2>1. /\ bufferMsg = n /\ bufferMsgI \in 0 .. bufferMsg
        /\ reply \o tx = SubSeq(Full, 1, bufferMsgI)
        /\ phase = IF reply = Full THEN "idle" ELSE "waiting"
    BY <1>3, <1>6 DEF Writing
  <2>2. PICK k : k = bufferMsgI
    OBVIOUS
  <2>3. k \in 0 .. n
    BY <2>1, <2>2
  <2>4. Len(SubSeq(Full, 1, k)) = k
    BY <1>2, <1>3, <1>4, <2>3, SubSeqProperties
  <2>5. a + b = k
    BY <1>4, <2>1, <2>2, <2>4
  <2>6. reply # Full
    <3>1. a # n
      BY <1>4, <2>3, <2>5
    <3> QED
      BY <1>3, <3>1
  <2> QED
    BY <2>1, <2>2, <2>5, <2>6
<1>7. Spoken \/ Writing
  BY DEF LinkInv, Starting, Unasked, Resting, Receiving, Ended, Handed, Executed, Silent, Emitting,
         Written, Pausing, Paused, Overlapping
<1> QED
  BY <1>2, <1>3, <1>5, <1>6, <1>7, Zenon DEF SpeaksWhenAsked

\* ... and there is one timer, or its message, in RECEPTION.
LEMMA TimerFollows == LinkInv => OneTimer
<1> SUFFICES ASSUME LinkInv, pc = "reception" PROVE OneTimer
  BY DEF OneTimer
<1>1. Receiving \/ Ended
  BY DEF LinkInv, Starting, Setting, Resting, Handed, Executed, Emitting,
         Writing, Written, Pausing, Paused, Overlapping
<1> DEFINE T == {i \in DOMAIN q : q[i] = Timeout}
<1>2. ASSUME Receiving PROVE Len(alarms) = 1 /\ T = {}
  <2>1. PICK w \in 0 .. InterFrame : alarms = Timer(w)
    BY <1>2 DEF Receiving, Timing
  <2>2. Len(alarms) = 1
    BY <2>1, TimerShape
  <2>3. q \in Seq(Message) /\ DOMAIN q = 1 .. Len(q)
    BY DEF LinkInv, Shape, SlaveShape
  <2>4. \A i \in 1 .. Len(q) : q[i] # Timeout
    <3>1. \A c : Input(c) # Timeout
      BY DEF Input, Timeout
    <3> QED
      BY <1>2, <3>1 DEF Receiving
  <2> QED
    BY <2>2, <2>3, <2>4
<1>3. ASSUME Ended PROVE Len(alarms) = 0 /\ T = {1}
  <2>1. q = <<Timeout>> /\ alarms = <<>>
    BY <1>3 DEF Ended
  <2>2. DOMAIN q = {1} /\ q[1] = Timeout
    BY <2>1
  <2> QED
    BY <2>1, <2>2
<1>4. Cardinality({}) = 0 /\ Cardinality({1}) = 1
  BY FS_EmptySet, FS_Singleton
<1>5. Len(alarms) + Cardinality(T) = 1
  <2> HIDE DEF T
  <2>1. CASE Receiving
    <3>1. Len(alarms) = 1 /\ Cardinality(T) = 0
      BY <1>2, <1>4, <2>1, Zenon
    <3> QED
      BY <3>1
  <2>2. CASE Ended
    <3>1. Len(alarms) = 0 /\ Cardinality(T) = 1
      BY <1>3, <1>4, <2>2, Zenon
    <3> QED
      BY <3>1
  <2> QED
    BY <1>1, <2>1, <2>2
<1> QED
  BY <1>5 DEF OneTimer

\* The types of the slave and of the line: no queue, buffer or table overflows,
\* the alarms counted are those of the table, a pass of the main loop ends.
THEOREM LinkTypesCorrect == LinkSpec => []LinkTypeOK
  BY LinkInvAlways, TypeOKFollows, PTL

\* The PDU handler gets the master's frames whole and nothing else, for all
\* latencies, noise and lengths within the margins: on_tick, char_ready_cb, the
\* wait for silence and buffer_i taken together.
THEOREM FramesStayWhole == LinkSpec => []FramesIntact
  BY LinkInvAlways, FramesFollow, PTL

\* EMISSION sends what was asked for, from its first character and once, and
\* nothing while the master talks.
THEOREM SpeaksOnlyWhenAsked == LinkSpec => []SpeaksWhenAsked
  BY LinkInvAlways, SpeechFollows, PTL

\* In RECEPTION cancelling by an id that is not in the table takes off the one
\* alarm there is: one timer, or its message, is there for the end of a frame.
THEOREM OneTimerOnly == LinkSpec => []OneTimer
  BY LinkInvAlways, TimerFollows, PTL
=============================================================================
