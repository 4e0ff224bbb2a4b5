--------------------------- MODULE CountersDaemon ---------------------------
(***************************************************************************)
(* The counters daemon: it enables, sets and counts the falling edges of   *)
(* the pins, and reports to the PDU handler.  Which debounced signals fall *)
(* in a sample is any set of enabled ones here, but the integrator (module *)
(* Debouncer) has to rise and to fall between two falls of one signal.     *)
(*                                                                         *)
(* Turns of the main loop are shorter than a period but for those with a   *)
(* save of the configuration, which waits for the EEPROM.  A daemon that   *)
(* is behind takes its samples one after the other without giving way.     *)
(*                                                                         *)
(* `timeout` and the message just popped are locals of a protothread: they *)
(* are gone when it goes on after giving way.                              *)
(***************************************************************************)
EXTENDS SlaveQueues

CONSTANTS
    SavePeriods,    \* periods over at most while the EEPROM is written: 7
    Apart           \* samples from one fall of a signal to the next: 6

\* So a signal falls twice at most in the samples of one turn.
ASSUME PeriodsAssumption ==
    /\ SavePeriods \in Nat \ {0} /\ Apart \in Nat \ {0}
    /\ SavePeriods + 1 <= 2 * Apart

VARIABLES
    signals,        \* the counters that are enabled
    counters,       \* uint16_t _counters[]
    edges,          \* the counters with an edge still to be reported
    timeout,        \* the local: the period is over
    countersPc,     \* where the daemon goes on
    rest,           \* samples a signal takes before it may fall
    overdue         \* periods over that no sample was taken for: now - next_ts

countersVars == <<signals, counters, edges, timeout, countersPc, rest>>

CountersTypeOK ==
    /\ signals \subseteq Counter /\ edges \subseteq signals
    /\ counters \in [Counter -> Word]
    /\ timeout \in BOOLEAN
    /\ countersPc \in {"wait", "message", "edges", "lost"}
    /\ rest \in [Counter -> 0 .. Apart - 1] /\ overdue \in Nat

CountersInit ==
    /\ signals = {} /\ counters = [c \in Counter |-> 0] /\ edges = {}
    /\ timeout = FALSE /\ countersPc = "wait"
    /\ rest = [c \in Counter |-> Apart - 1] /\ overdue = 0

CountersTurn(label) == turn = "counters" /\ countersPc = label

\* The next turn; a period may be over until then.
GiveWay == turn' = "tr" /\ timeout' = FALSE /\ overdue' \in overdue .. overdue + 1

Report(c) == [tag |-> "counter", id |-> c, value |-> counters[c]]

\* Giving way: at the wait with nothing to do, or for ever in a reply whose
\* message is lost, for it answers to nobody then.
CountersWait ==
    /\ turn = "counters" /\ countersPc \in {"wait", "lost"}
    /\ countersPc = "wait" => counterQ = <<>> /\ overdue = 0
    /\ GiveWay
    /\ UNCHANGED <<inQ, adcQ, counterQ, signals, counters, edges, countersPc, rest>>

CountersWake ==
    /\ CountersTurn("wait") /\ counterQ # <<>>
    /\ countersPc' = "message"
    /\ UNCHANGED <<turn, inQ, adcQ, counterQ, signals, counters, edges, timeout, rest, overdue>>

\* is_period_elapsed: next_ts goes on by one period.
Elapse ==
    /\ CountersTurn("wait") /\ counterQ = <<>> /\ overdue > 0
    /\ overdue' = overdue - 1
    /\ timeout' = TRUE /\ countersPc' = "message"
    /\ UNCHANGED <<turn, inQ, adcQ, counterQ, signals, counters, edges, rest>>

HeadIs(tag) == CountersTurn("message") /\ counterQ # <<>> /\ Head(counterQ).tag = tag

DisableCounter ==
    /\ HeadIs("enable") /\ ~Head(counterQ).enabled
    /\ signals' = signals \ {Head(counterQ).id}
    /\ counterQ' = Tail(counterQ)
    /\ UNCHANGED <<turn, inQ, adcQ, counters, edges, timeout, countersPc, rest, overdue>>

\* The reply is made at once; if the queue is full the daemon waits, and the
\* message it wants to reply to is lost.
EnableCounter ==
    /\ HeadIs("enable") /\ Head(counterQ).enabled
    /\ signals' = signals \cup {Head(counterQ).id}
    /\ counterQ' = Tail(counterQ)
    /\ IF Len(inQ) = PduQueueSize
       THEN countersPc' = "lost" /\ GiveWay /\ UNCHANGED inQ
       ELSE /\ inQ' = Append(inQ, Report(Head(counterQ).id))
            /\ UNCHANGED <<countersPc, turn, timeout, overdue>>
    /\ UNCHANGED <<adcQ, counters, edges, rest>>

\* Mutant: the counter is set only while it is enabled.
SetCounterMutant ==
    /\ HeadIs("value")
    /\ LET m == Head(counterQ)
       IN  counters' = IF m.id \in signals THEN [counters EXCEPT ![m.id] = m.value] ELSE counters
    /\ counterQ' = Tail(counterQ)
    /\ UNCHANGED <<turn, inQ, adcQ, signals, edges, timeout, countersPc, rest, overdue>>

SetCounter ==
    /\ HeadIs("value")
    /\ counters' = [counters EXCEPT ![Head(counterQ).id] = Head(counterQ).value]
    /\ counterQ' = Tail(counterQ)
    /\ UNCHANGED <<turn, inQ, adcQ, signals, edges, timeout, countersPc, rest, overdue>>

\* No message is left: back to the wait, or do_one() if the period was over.
MessagesDone ==
    /\ CountersTurn("message") /\ counterQ = <<>> /\ ~timeout
    /\ countersPc' = "wait"
    /\ UNCHANGED <<turn, inQ, adcQ, counterQ, signals, counters, edges, timeout, rest, overdue>>

Sample(fallen) ==
    /\ CountersTurn("message") /\ counterQ = <<>> /\ timeout
    /\ counters' = [c \in Counter |-> IF c \in fallen THEN (counters[c] + 1) % WordMod
                                      ELSE counters[c]]
    /\ rest' = [c \in Counter |-> IF c \in fallen THEN Apart - 1
                                  ELSE IF c \in signals /\ rest[c] > 0 THEN rest[c] - 1
                                  ELSE rest[c]]
    /\ edges' = fallen
    /\ countersPc' = "edges"
    /\ UNCHANGED <<turn, inQ, adcQ, counterQ, signals, timeout, overdue>>

\* The loop over the signals, which goes on where it was after a wait.
ReportEdge ==
    /\ CountersTurn("edges") /\ edges # {}
    /\ LET c == CHOOSE i \in edges : \A j \in edges : i <= j
       IN  IF Len(inQ) = PduQueueSize
           THEN GiveWay /\ UNCHANGED <<inQ, edges>>
           ELSE /\ inQ' = Append(inQ, Report(c))
                /\ edges' = edges \ {c}
                /\ UNCHANGED <<turn, timeout, overdue>>
    /\ UNCHANGED <<adcQ, counterQ, signals, counters, countersPc, rest>>

EdgesDone ==
    /\ CountersTurn("edges") /\ edges = {}
    /\ countersPc' = "wait"
    /\ UNCHANGED <<turn, inQ, adcQ, counterQ, signals, counters, edges, timeout, rest, overdue>>

CountersStep ==
    \/ CountersWait \/ CountersWake \/ Elapse
    \/ DisableCounter \/ EnableCounter \/ SetCounter \/ MessagesDone
    \/ \E fallen \in SUBSET {c \in signals : rest[c] = 0} : Sample(fallen)
    \/ ReportEdge \/ EdgesDone
=============================================================================
