---------------------------- MODULE CleanSignals ----------------------------
(***************************************************************************)
(* What vla::debouncer_base promises with an integrating policy: signals   *)
(* without the bounces of the inputs they follow, and a count of their     *)
(* falls.  A signal changes only after `Samples` readings against it, and  *)
(* has changed after as many in a row.                                     *)
(***************************************************************************)
EXTENDS Integers

CONSTANTS Signals, Samples, WordMod

VARIABLES
    on,         \* the signals that are enabled
    value,      \* what a signal shows
    against,    \* readings that differed since it last changed, up to Samples
    run,        \* how many of these were the last ones, in a row
    count,      \* falls, modulo 2^16
    fallen      \* the falls reported after the last sample

signalVars == <<on, value, against, run, count, fallen>>

SignalsInit ==
    /\ on = {} /\ fallen = {}
    /\ value = [i \in Signals |-> 0] /\ count = [i \in Signals |-> 0]
    /\ against = [i \in Signals |-> 0] /\ run = [i \in Signals |-> 0]

Switch(i, to) ==
    /\ on' = IF to THEN on \cup {i} ELSE on \ {i}
    /\ UNCHANGED <<value, against, run, count, fallen>>

SetCount(i, n) ==
    /\ count' = [count EXCEPT ![i] = n]
    /\ UNCHANGED <<on, value, against, run, fallen>>

Differs(i, input) == i \in on /\ input[i] # value[i]

\* The signals in `flips` change, the disabled ones keep what they are.
Sample(input, flips) ==
    /\ \A i \in flips : Differs(i, input) /\ against[i] + 1 >= Samples
    /\ \A i \in on : Differs(i, input) /\ run[i] + 1 >= Samples => i \in flips
    /\ value' = [i \in Signals |-> IF i \in flips THEN input[i] ELSE value[i]]
    /\ against' = [i \in Signals |-> IF i \in flips THEN 0
                                     ELSE IF Differs(i, input) /\ against[i] < Samples
                                     THEN against[i] + 1 ELSE against[i]]
    /\ run' = [i \in Signals |-> IF i \in flips THEN 0
                                 ELSE IF Differs(i, input) THEN run[i] + 1
                                 ELSE IF i \in on THEN 0 ELSE run[i]]
    /\ fallen' = {i \in flips : input[i] = 0}
    /\ count' = [i \in Signals |-> IF i \in fallen' THEN (count[i] + 1) % WordMod ELSE count[i]]
    /\ UNCHANGED on

SignalsNext ==
    \/ \E i \in Signals, to \in BOOLEAN : Switch(i, to)
    \/ \E i \in Signals, n \in 0 .. WordMod - 1 : SetCount(i, n)
    \/ \E input \in [Signals -> {0, 1}], flips \in SUBSET on : Sample(input, flips)

SignalsSpec == SignalsInit /\ [][SignalsNext]_signalVars
=============================================================================
