------------------------------ MODULE RtuLink ------------------------------
(***************************************************************************)
(* The slave of module Transmission on a line with one master that keeps   *)
(* to the timing of Modbus: the characters of a frame follow each other    *)
(* within MaxGap, a frame comes after a silence, and the master waits for  *)
(* the reply to a frame it has addressed to this slave.  What it sends to  *)
(* others stays without a reply on this line.  At power-up there may be    *)
(* characters of a conversation the slave has not seen the beginning of.   *)
(***************************************************************************)
EXTENDS Transmission

CONSTANTS
    Lengths,        \* lengths of requests
    Sent(_, _),     \* the character at an index of a request
    Noise,          \* characters seen at power-up, ...
    MaxNoise,       \* ... bound: at most so many
    MaxGap,         \* most ticks between two characters of a frame
    Quiet,          \* silence after which the slave listens, whatever it did
    Between         \* silence between a reply and the next request

ASSUME LinkAssumption ==
    /\ Lengths \subseteq 1 .. BufferSize - 1
    /\ Noise \subseteq Char
    /\ {MaxNoise, MaxGap, Quiet, Between} \subseteq Nat

VARIABLES
    request,        \* the master's last frame
    sent,           \* how many of its characters are on the line
    phase,          \* what the master does
    reply,          \* the characters it has received since
    silence,        \* ticks since the line last carried a character
    noise           \* power-up characters still to come

master == <<request, sent, phase, reply, silence, noise>>

\* Two ids tell a frame from the one before.
Request == [id : 0 .. 1, mine : BOOLEAN, length : Lengths]

\* A frame that is for the slave begins with an address it answers to.
ASSUME SentAssumption ==
    \A r \in Request :
        /\ Address(Sent(r, 0)) <=> r.mine
        /\ \A i \in 0 .. r.length - 1 : Sent(r, i) \in Char

\* The margins: a character is served before the silence behind the one before
\* it counts as the end of a frame; the noise at power-up is over before the first
\* alarm of INITIAL goes off, which no later character cancels; there is room for
\* what waits; and the master is quiet for as long as the slave may take to come
\* to rest.
ASSUME MarginsAssumption ==
    /\ 0 < InterFrame /\ 0 < MaxLate /\ Turnaround <= InterFrame /\ MaxLate <= Turnaround
    /\ MaxGap + 2 * MaxLate <= InterFrame
    /\ MaxNoise * MaxGap <= InterFrame
    /\ 2 * MaxLate < QueueSize /\ MaxNoise < QueueSize /\ MaxNoise < MaxAlarms
    /\ 2 * MaxLate + (MaxNoise + 1) * (InterFrame + 2 * MaxLate) < Quiet
    /\ InterFrame + Turnaround + 6 * MaxLate < Quiet
    /\ InterFrame + 4 * MaxLate <= Between + 1

LinkInit ==
    /\ Init
    /\ request \in Request /\ ~request.mine
    /\ sent = request.length
    /\ phase = "idle"
    /\ reply = <<>>
    /\ silence = 0
    /\ noise = MaxNoise

Pause == IF request.mine THEN Between ELSE Quiet

Crackle ==
    /\ phase = "idle" /\ noise > 0 /\ silence <= MaxGap
    /\ \E c \in Noise : Receive(c)
    /\ silence' = 0 /\ noise' = noise - 1
    /\ UNCHANGED <<request, sent, phase, reply>>

\* A new frame: its first character.
Ask(r) ==
    /\ phase = "idle" /\ silence >= Pause
    /\ r.id # request.id
    /\ Receive(Sent(r, 0))
    /\ request' = r /\ sent' = 1 /\ reply' = <<>>
    /\ phase' = IF r.length > 1 THEN "sending" ELSE IF r.mine THEN "waiting" ELSE "idle"
    /\ silence' = 0 /\ noise' = 0

SendNext ==
    /\ phase = "sending"
    /\ Receive(Sent(request, sent))
    /\ sent' = sent + 1
    /\ phase' = IF sent' < request.length THEN "sending"
                ELSE IF request.mine THEN "waiting" ELSE "idle"
    /\ silence' = 0
    /\ UNCHANGED <<request, reply, noise>>

\* A tick, in a main loop that comes round in time, on a line where a frame
\* is not interrupted.  The reply arrives one character a tick.
LinkTick ==
    /\ late < MaxLate
    /\ ~(phase = "sending" /\ silence >= MaxGap)
    /\ Tick
    /\ reply' = IF tx = <<>> THEN reply ELSE Append(reply, Head(tx))
    /\ phase' = IF phase = "waiting" /\ reply' = Reply(Sent(request, 0)) THEN "idle" ELSE phase
    /\ silence' = IF tx # <<>> THEN 0 ELSE IF silence < Quiet THEN silence + 1 ELSE silence
    /\ UNCHANGED <<request, sent, noise>>

LinkLoop == MainLoop /\ UNCHANGED master

LinkNext ==
    \/ LinkLoop
    \/ LinkTick
    \/ Crackle \/ SendNext
    \/ \E r \in Request : Ask(r)

LinkVars == <<vars, master>>

LinkSpec ==
    /\ LinkInit /\ [][LinkNext]_LinkVars
    /\ WF_LinkVars(LinkLoop) /\ WF_LinkVars(LinkTick) /\ WF_LinkVars(SendNext)

-----------------------------------------------------------------------------

LinkTypeOK ==
    /\ q \in Seq(Message) /\ Len(q) <= QueueSize
    /\ outQ \in Seq(Index) /\ Len(outQ) <= QueueSize
    /\ inputMsg \in Char \cup {NoChar} /\ bufferMsg \in Index
    /\ buffer \in [Index -> Char \cup {NoChar}] /\ bufferI \in Index
    /\ bufferMsgI \in 0 .. bufferMsg \/ pc # "emission"
    /\ tx \in Seq(Char) /\ Len(tx) <= TxSize
    /\ alarms \in Seq(Alarm) /\ alarmCount = Len(alarms) /\ Defined
    /\ late \in 0 .. MaxLate
    /\ request \in Request /\ silence \in 0 .. Quiet

\* Silence cuts the line into frames: what the PDU handler is given is one
\* whole request of the master, its characters in order, no matter how its
\* handlers, ticks and the main loop interleave.
FramesIntact ==
    outQ # <<>> =>
        /\ outQ = <<request.length>> /\ sent = request.length
        /\ \A i \in 0 .. request.length - 1 : buffer[i] = Sent(request, i)

\* The slave talks only when it was asked and never while the master talks:
\* what it emits is the reply to the request that is outstanding, from its
\* first character and once, though reply and request share one buffer.
SpeaksWhenAsked ==
    tx # <<>> => /\ phase = "waiting"
                 /\ reply \o tx = SubSeq(Reply(Sent(request, 0)), 1, Len(reply) + Len(tx))

\* While a frame comes in there is one timer for its end, running or expired
\* with its message in the queue, although cancel_alarm is given an id that
\* is not in the table.
OneTimer ==
    pc = "reception" =>
        Len(alarms) + Cardinality({i \in DOMAIN q : q[i] = Timeout}) = 1

\* Every request to this slave is answered in full.
Answered == (phase = "waiting") ~> (phase = "idle")
=============================================================================
