----------------------------- MODULE SlaveQueues -----------------------------
(***************************************************************************)
(* What the PDU handler, the ADC daemon and the counters daemon of the     *)
(* Modbus slave share: the numbering of pins, channels and counters, and   *)
(* their three queues.  All of them run in the main loop, one at a time    *)
(* and in a fixed order (`turn`), so a call on a queue is one step.        *)
(***************************************************************************)
EXTENDS Integers, Sequences, FiniteSets

CONSTANTS
    Bits,               \* bits of a port: 8
    AdcQueueSize,       \* capacity of adc_queue_t: 8
    CounterQueueSize,   \* capacity of counters_queue_t: 8
    PduQueueSize,       \* capacity of pdu_handler_queue_t: 50
    WordMod             \* 2^16: counters are uint16_t

ASSUME QueuesAssumption ==
    {Bits, AdcQueueSize, CounterQueueSize, PduQueueSize, WordMod} \subseteq Nat \ {0}

Pin     == 0 .. 3 * Bits - 1    \* first those of PORTB, then PORTC and PORTD
Counter == Pin
Channel == 0 .. Bits - 1        \* those of PORTC
Word    == 0 .. WordMod - 1

AdcMsg == [id : Channel, enabled : BOOLEAN]

CounterMsg == [tag : {"enable"}, id : Counter, enabled : BOOLEAN]
              \cup [tag : {"value"}, id : Counter, value : Word]

\* The value of a channel is left out: nothing depends on it.
PduMsg == [tag : {"buffer"}] \cup [tag : {"adc"}, id : Channel]
          \cup [tag : {"counter"}, id : Counter, value : Word]

VARIABLES
    turn,           \* the part of main() that is running
    inQ,            \* pdu_handler_queue_t
    adcQ,           \* adc_queue_t
    counterQ        \* counters_queue_t

Turn == {"boot", "tr", "pduh", "adc", "counters"}

QueuesTypeOK ==
    /\ turn \in Turn
    /\ inQ \in Seq(PduMsg) /\ Len(inQ) <= PduQueueSize
    /\ adcQ \in Seq(AdcMsg) /\ Len(adcQ) <= AdcQueueSize
    /\ counterQ \in Seq(CounterMsg) /\ Len(counterQ) <= CounterQueueSize

QueuesInit == turn = "boot" /\ inQ = <<>> /\ adcQ = <<>> /\ counterQ = <<>>

\* push: refused when the queue is full.
Push(q, m, size) == IF Len(q) < size THEN Append(q, m) ELSE q
=============================================================================
