---------------------------- MODULE Transmission ----------------------------
(***************************************************************************)
(* The transmission daemon of the Modbus slave: it cuts the characters of  *)
(* the serial line into frames by the silence between them, hands each     *)
(* frame to the PDU handler and emits the reply.                           *)
(*                                                                         *)
(* One step of the daemon is one call on the queue or on the clock; the    *)
(* handlers of the timer and of the serial line run between two steps.     *)
(* The daemon is a protothread: it gives way to the PDU handler only where *)
(* it waits on an empty queue and after each write_some.  Queue operations *)
(* are atomic here (MsgQueue tells when they are).  Time is relative: an   *)
(* alarm carries the ticks left, so that the clock never wraps, and a tick *)
(* is the time of one character on the line.                               *)
(***************************************************************************)
EXTENDS Alarms, FiniteSets

CONSTANTS
    Char,           \* received and emitted characters
    Address(_),     \* is this an address the slave answers to, its own or 0?
    Reply(_),       \* the reply to an indication, from its first character
    NoChar,         \* what the buffer holds at start
    QueueSize,      \* capacity of transmission_queue_t and pdu_handler_queue_t
    BufferSize,     \* PDU_MAX = 256, which is also where buffer_i wraps
    TxSize,         \* capacity of the write buffer of the serial port
    InterFrame,     \* inter_frame_delay, in ticks
    Turnaround,     \* inter_frame_delay - inter_char_delay, in ticks
    MaxLate         \* bound: ticks counted in one pass of the main loop

ASSUME ReplyAssumption ==
    \A c \in Char : Reply(c) \in Seq(Char) /\ Len(Reply(c)) \in 1 .. BufferSize - 1
ASSUME SizesAssumption ==
    /\ QueueSize \in Nat \ {0} /\ BufferSize \in Nat \ {0} /\ TxSize \in Nat \ {0}
    /\ NoChar \notin Char
ASSUME TimesAssumption == InterFrame \in Nat /\ Turnaround \in Nat /\ MaxLate \in Nat

VARIABLES
    pc,             \* state_t and the next call in that state
    turn,           \* which daemon the main loop is running
    q,              \* transmission_queue_t
    outQ,           \* pdu_handler_queue_t: sizes, the data being in buffer
    inputMsg,       \* the character popped last
    bufferMsg,      \* size of buffer_msg, whose data is buffer too
    buffer,         \* uint8_t buffer[PDU_MAX]
    bufferI,        \* uint8_t buffer_i
    bufferMsgI,     \* uint8_t buffer_msg_i
    tx,             \* the write buffer of the serial port
    alarms,         \* the alarms of the clock, with the ticks left
    alarmCount,     \* its alarm_count
    rx,             \* has the line carried a character since the last tick?
    late            \* ticks since the main loop last came round

frame == <<buffer, bufferI>>
clock == <<alarms, alarmCount>>
isr   == <<tx, rx, late>>
vars  == <<pc, turn, q, outQ, inputMsg, bufferMsg, frame, bufferMsgI, clock, isr>>

Index == 0 .. BufferSize - 1

Message == [tag : {"timeout"}] \cup [tag : {"char"}, char : Char]
           \cup [tag : {"buffer"}, size : Index]

Timeout   == [tag |-> "timeout"]
Input(c)  == [tag |-> "char", char |-> c]
Buffer(n) == [tag |-> "buffer", size |-> n]

\* push: refused, unnoticed, when the queue is full.
Push(s, m) == IF Len(s) < QueueSize THEN Append(s, m) ELSE s

\* n pushes of a timeout: as many as there is room for.
PushTimeouts(s, n) ==
    LET room == QueueSize - Len(s)
    IN  s \o [i \in 1 .. IF n < room THEN n ELSE room |-> Timeout]

\* An id matters only as equal to `aid` or not: TRUE marks the one alarm whose
\* id was stored there last.
Alarm == [id : BOOLEAN, when : 0 .. InterFrame]

Init ==
    /\ pc = "initial" /\ turn = "tr"
    /\ q = <<>> /\ outQ = <<>>
    /\ inputMsg = NoChar /\ bufferMsg = 0
    /\ buffer = [i \in Index |-> NoChar] /\ bufferI = 0 /\ bufferMsgI = 0
    /\ tx = <<>>
    /\ alarms = <<>> /\ alarmCount = 0
    /\ rx = FALSE /\ late = 0

-----------------------------------------------------------------------------
(* What the daemon calls.                                                  *)

\* set_alarm; `stored` when the id is assigned to aid.
SetAlarm(delay, stored) ==
    LET others == IF stored THEN [i \in DOMAIN alarms |-> [alarms[i] EXCEPT !.id = FALSE]]
                  ELSE alarms
        full   == alarmCount = MaxAlarms
    IN  /\ alarms' = IF full THEN others
                     ELSE Insert(others, [id |-> stored, when |-> delay])
        /\ alarmCount' = IF full THEN alarmCount ELSE alarmCount + 1

\* Mutant: an alarm that is not found is not taken off, but counted off.
CancelAidMutant ==
    /\ alarms' = IF Holds(alarms, TRUE) THEN Cancel(alarms, TRUE) ELSE alarms
    /\ alarmCount' = Decrement(alarmCount)

\* cancel_alarm(aid)
CancelAid ==
    /\ alarms' = Cancel(alarms, TRUE)
    /\ alarmCount' = Decrement(alarmCount)

\* Past a wrong alarm_count the clock reads and moves memory that is not its
\* own: nothing is said of what follows.
Defined == alarmCount <= MaxAlarms

HeadIs(tag) == q # <<>> /\ Head(q).tag = tag

At(label) == Defined /\ turn = "tr" /\ pc = label

\* buffer[buffer_i++] = input_msg
Store ==
    /\ buffer' = [buffer EXCEPT ![bufferI] = inputMsg]
    /\ bufferI' = (bufferI + 1) % BufferSize

\* ptxx_wait(!q.empty()), then a pop of each alternative in turn and ignore()
\* when none fits: the head decides where the daemon goes on.
WaitAt(label, next) ==
    /\ At(label)
    /\ IF q = <<>>
       THEN turn' = "pduh" /\ UNCHANGED <<pc, q, inputMsg, bufferMsg>>
       ELSE LET m == Head(q)
            IN  /\ pc' = next[m.tag]
                /\ q' = Tail(q)
                /\ inputMsg' = IF m.tag = "char" /\ pc' # "initial" THEN m.char ELSE inputMsg
                /\ bufferMsg' = IF m.tag = "buffer" /\ pc' # "initial" THEN m.size ELSE bufferMsg
                /\ UNCHANGED turn
    /\ UNCHANGED <<outQ, frame, bufferMsgI, clock, isr>>

\* A step of the daemon that changes the clock and goes on.
ClockAt(label, next) ==
    /\ At(label) /\ pc' = next
    /\ UNCHANGED <<turn, q, inputMsg, bufferMsg, bufferMsgI, isr>>

-----------------------------------------------------------------------------
(* operator()().                                                           *)

InitialSet ==
    /\ ClockAt("initial", "initial_wait")
    /\ SetAlarm(InterFrame, TRUE)
    /\ UNCHANGED <<outQ, frame>>

InitialWait == WaitAt("initial_wait", [char |-> "initial_cancel", timeout |-> "ready",
                                       buffer |-> "initial"])

InitialCancel ==
    /\ ClockAt("initial_cancel", "initial_restart")
    /\ CancelAid
    /\ UNCHANGED <<outQ, frame>>

InitialRestart ==
    /\ ClockAt("initial_restart", "initial")
    /\ SetAlarm(InterFrame, FALSE)
    /\ UNCHANGED <<outQ, frame>>

Ready == WaitAt("ready", [char |-> "ready_set", buffer |-> "must_transmit",
                          timeout |-> "initial"])

ReadySet ==
    /\ ClockAt("ready_set", "reception")
    /\ SetAlarm(InterFrame, FALSE)
    /\ Store
    /\ UNCHANGED outQ

Reception == WaitAt("reception", [char |-> "reception_cancel", timeout |-> "reception_out",
                                  buffer |-> "initial"])

\* Mutant: the timer of the last character is left running.
ReceptionCancelMutant ==
    /\ ClockAt("reception_cancel", "reception_drain")
    /\ UNCHANGED <<clock, outQ, frame>>

ReceptionCancel ==
    /\ ClockAt("reception_cancel", "reception_drain")
    /\ CancelAid
    /\ UNCHANGED <<outQ, frame>>

\* while (q.pop(timeout_msg));
ReceptionDrain ==
    /\ At("reception_drain")
    /\ IF HeadIs("timeout")
       THEN q' = Tail(q) /\ UNCHANGED pc
       ELSE pc' = "reception_set" /\ UNCHANGED q
    /\ UNCHANGED <<turn, outQ, inputMsg, bufferMsg, frame, bufferMsgI, clock, isr>>

ReceptionSet ==
    /\ ClockAt("reception_set", "reception")
    /\ SetAlarm(InterFrame, FALSE)
    /\ Store
    /\ UNCHANGED outQ

\* Mutant: buffer_i is not reset.
ReceptionOutMutant ==
    /\ ClockAt("reception_out", "processing")
    /\ outQ' = Push(outQ, bufferI)
    /\ SetAlarm(Turnaround, FALSE)
    /\ UNCHANGED frame

\* The frame is over.  No handler touches out_q, so one step will do.
ReceptionOut ==
    /\ ClockAt("reception_out", "processing")
    /\ outQ' = Push(outQ, bufferI)
    /\ bufferI' = 0
    /\ SetAlarm(Turnaround, FALSE)
    /\ UNCHANGED buffer

\* There is no branch for a character.  The loop would come back to this wait,
\* not give way and find the same head again, without end: the daemon has no
\* step then that changes anything.
Processing ==
    /\ ~HeadIs("char")
    /\ WaitAt("processing", [timeout |-> "processing_buffer", buffer |-> "processing_timeout"])

ProcessingBuffer == WaitAt("processing_buffer", [buffer |-> "processing_push", char |-> "initial",
                                                 timeout |-> "initial"])

\* Mutant: the buffer that came first is not put back.
ProcessingTimeoutMutant == WaitAt("processing_timeout", [timeout |-> "ready", char |-> "initial",
                                                         buffer |-> "initial"])

ProcessingTimeout == WaitAt("processing_timeout", [timeout |-> "processing_push", char |-> "initial",
                                                   buffer |-> "initial"])

ProcessingPush ==
    /\ At("processing_push")
    /\ pc' = "ready"
    /\ q' = Push(q, Buffer(bufferMsg))
    /\ UNCHANGED <<turn, outQ, inputMsg, bufferMsg, frame, bufferMsgI, clock, isr>>

MustTransmit ==
    /\ At("must_transmit")
    /\ IF bufferMsg > 0
       THEN pc' = "emission" /\ bufferMsgI' = 0
       ELSE pc' = "ready" /\ UNCHANGED bufferMsgI
    /\ UNCHANGED <<turn, q, outQ, inputMsg, bufferMsg, frame, clock, isr>>

\* write_some takes what there is room for; the daemon gives way each time.
Emission ==
    /\ At("emission")
    /\ IF bufferMsgI < bufferMsg
       THEN LET room    == TxSize - Len(tx)
                rest    == bufferMsg - bufferMsgI
                written == IF rest < room THEN rest ELSE room
            IN  /\ tx' = tx \o [i \in 1 .. written |-> buffer[bufferMsgI + i - 1]]
                /\ bufferMsgI' = bufferMsgI + written
                /\ turn' = "pduh"
                /\ UNCHANGED pc
       ELSE /\ pc' = "emission_set"
            /\ UNCHANGED <<tx, bufferMsgI, turn>>
    /\ UNCHANGED <<q, outQ, inputMsg, bufferMsg, frame, clock, rx, late>>

EmissionSet ==
    /\ ClockAt("emission_set", "emission_wait")
    /\ SetAlarm(InterFrame, FALSE)
    /\ UNCHANGED <<outQ, frame>>

EmissionWait == WaitAt("emission_wait", [timeout |-> "ready", char |-> "initial",
                                         buffer |-> "initial"])

Daemon ==
    \/ InitialSet \/ InitialWait \/ InitialCancel \/ InitialRestart
    \/ Ready \/ ReadySet \/ MustTransmit
    \/ Reception \/ ReceptionCancel \/ ReceptionDrain \/ ReceptionSet \/ ReceptionOut
    \/ Processing \/ ProcessingBuffer \/ ProcessingTimeout \/ ProcessingPush
    \/ Emission \/ EmissionSet \/ EmissionWait

-----------------------------------------------------------------------------
(* The PDU handler daemon, as far as the transmission daemon sees it.      *)

\* Mutant: frames for other slaves are executed and answered too.
HandleMutant ==
    /\ Defined /\ turn = "pduh" /\ outQ # <<>>
    /\ outQ' = Tail(outQ)
    /\ LET reply == Reply(buffer[0])
       IN  /\ buffer' = [i \in Index |-> IF i < Len(reply) THEN reply[i + 1] ELSE buffer[i]]
           /\ q' = Push(q, Buffer(Len(reply)))
    /\ UNCHANGED <<pc, turn, inputMsg, bufferMsg, bufferI, bufferMsgI, clock, isr>>

\* handle_indication: reply and indication share the buffer; only a frame with
\* an address the slave answers to is executed and answered.
Handle ==
    /\ Defined /\ turn = "pduh" /\ outQ # <<>>
    /\ outQ' = Tail(outQ)
    /\ LET c     == buffer[0]
           mine  == c \in Char /\ Address(c)
           reply == Reply(c)
       IN  /\ buffer' = IF mine THEN [i \in Index |-> IF i < Len(reply) THEN reply[i + 1]
                                                     ELSE buffer[i]]
                        ELSE buffer
           /\ q' = Push(q, Buffer(IF mine THEN Len(reply) ELSE 0))
    /\ UNCHANGED <<pc, turn, inputMsg, bufferMsg, bufferI, bufferMsgI, clock, isr>>

\* Its queue is empty: the main loop goes round, through the other daemons.
ComeRound ==
    /\ Defined /\ turn = "pduh" /\ outQ = <<>>
    /\ turn' = "tr" /\ late' = 0
    /\ UNCHANGED <<pc, q, outQ, inputMsg, bufferMsg, frame, bufferMsgI, clock, tx, rx>>

MainLoop == Daemon \/ Handle \/ ComeRound

-----------------------------------------------------------------------------
(* The interrupt handlers.                                                 *)

\* on_tick calls enqueue_timeout for every alarm past its time; meanwhile the
\* serial port has sent the character at the head of its buffer.
Tick ==
    /\ Defined
    /\ LET n    == DueBefore(alarms, 1)
           kept == DropFirst(alarms, n)
       IN  /\ alarms' = [i \in 1 .. Len(kept) |-> [kept[i] EXCEPT !.when = @ - 1]]
           /\ alarmCount' = alarmCount - n
           /\ q' = PushTimeouts(q, n)
    /\ tx' = IF tx = <<>> THEN tx ELSE Tail(tx)
    /\ rx' = FALSE
    /\ late' = IF late < MaxLate THEN late + 1 ELSE late
    /\ UNCHANGED <<pc, turn, outQ, inputMsg, bufferMsg, frame, bufferMsgI>>

\* char_ready_cb
Receive(c) ==
    /\ Defined /\ ~rx
    /\ q' = Push(q, Input(c))
    /\ rx' = TRUE
    /\ UNCHANGED <<pc, turn, outQ, inputMsg, bufferMsg, frame, bufferMsgI, clock, tx, late>>

-----------------------------------------------------------------------------
(* Any characters at any time, a main loop of any latency.                 *)

Next == MainLoop \/ Tick \/ \E c \in Char : Receive(c)

Spec == Init /\ [][Next]_vars

-----------------------------------------------------------------------------

\* Once RECEPTION has cancelled the timer of the last character the clock
\* still counts its alarms right, also when the timer has gone off "during pop
\* and cancellation", the case its comment provides for.
CancelledInTime == pc = "reception_drain" => alarmCount = Len(alarms)
=============================================================================
