------------------------------ MODULE Debouncer ------------------------------
(***************************************************************************)
(* vla::debouncer_base as the counters daemon instantiates it: all pins,   *)
(* the integral policy, counters of falling edges, a cycle whenever the    *)
(* period is over.  Messages for the counters come between two cycles.     *)
(***************************************************************************)
EXTENDS Integers

CONSTANTS
    Signals,        \* 24 pins
    CounterMax,     \* COUNTER_MAX: 3
    WordMod         \* 2^16: counters are uint16_t

ASSUME DebouncerAssumption == {CounterMax, WordMod} \subseteq Nat \ {0}

Bit == {0, 1}

VARIABLES
    signals,        \* signal_state signals[]
    counters,       \* uint16_t _counters[]
    reported,       \* signals whose falling edge was reported after the last cycle
    against, run    \* history: readings that differed from a signal, see CleanSignals

history == <<against, run>>
vars == <<signals, counters, reported, history>>

State == [enabled : BOOLEAN, current : Bit, previous : Bit, read : Bit, counter : 0 .. CounterMax]

Init ==
    /\ signals = [i \in Signals |-> [enabled |-> FALSE, current |-> 0, previous |-> 0,
                                     read |-> 0, counter |-> 0]]
    /\ counters = [i \in Signals |-> 0] /\ reported = {}
    /\ against = [i \in Signals |-> 0] /\ run = [i \in Signals |-> 0]

SetEnabled(i, enable) ==
    /\ signals' = [signals EXCEPT ![i].enabled = enable]
    /\ UNCHANGED <<counters, reported, history>>

SetValue(i, v) ==
    /\ counters' = [counters EXCEPT ![i] = v]
    /\ UNCHANGED <<signals, reported, history>>

\* read_signals, for one of them: disabled ones keep what they have read.
Reading(s, pin) == IF s.enabled THEN [s EXCEPT !.read = pin] ELSE s

\* Mutant: the integrator is not held at its maximum.
IntegratedMutant(s) ==
    IF s.read = 1 THEN s.counter + 1
    ELSE IF s.counter > 0 THEN s.counter - 1 ELSE s.counter

Integrated(s) ==
    IF s.read = 1
    THEN IF s.counter < CounterMax THEN s.counter + 1 ELSE s.counter
    ELSE IF s.counter > 0 THEN s.counter - 1 ELSE s.counter

\* Mutant: a signal rises one reading too early.
DebouncedMutant(s) ==
    IF ~s.enabled THEN s
    ELSE [s EXCEPT !.previous = s.current,
                   !.counter  = Integrated(s),
                   !.current  = IF s.read = 1 /\ Integrated(s) + 1 >= CounterMax THEN 1
                                ELSE IF s.read = 0 /\ Integrated(s) = 0 THEN 0
                                ELSE s.current]

Debounced(s) ==
    IF ~s.enabled THEN s
    ELSE [s EXCEPT !.previous = s.current,
                   !.counter  = Integrated(s),
                   !.current  = IF s.read = 1 /\ Integrated(s) = CounterMax THEN 1
                                ELSE IF s.read = 0 /\ Integrated(s) = 0 THEN 0
                                ELSE s.current]

\* Mutant: the edge of a signal disabled since is counted at every cycle.
FallMutant(s) == s.current = 0 /\ s.previous = 1

\* is_enabled and is_fall_edge.
Fall(s) == s.enabled /\ s.current = 0 /\ s.previous = 1

\* do_one and, with the queue of the PDU handler never full, the loop that
\* reports the edges (CountersDaemon).
Cycle(pins) ==
    /\ signals' = [i \in Signals |-> Debounced(Reading(signals[i], pins[i]))]
    /\ counters' = [i \in Signals |-> IF Fall(signals'[i]) THEN (counters[i] + 1) % WordMod
                                      ELSE counters[i]]
    /\ reported' = {i \in Signals : Fall(signals'[i])}
    /\ LET Differs(i) == signals[i].enabled /\ pins[i] # signals[i].current
           Flips(i)   == signals'[i].current # signals[i].current
       IN  /\ against' = [i \in Signals |-> IF Flips(i) THEN 0
                                            ELSE IF Differs(i) /\ against[i] < CounterMax
                                            THEN against[i] + 1 ELSE against[i]]
           /\ run' = [i \in Signals |-> IF Flips(i) THEN 0
                                        ELSE IF Differs(i) THEN run[i] + 1
                                        ELSE IF signals[i].enabled THEN 0 ELSE run[i]]

Next ==
    \/ \E i \in Signals, enable \in BOOLEAN : SetEnabled(i, enable)
    \/ \E i \in Signals, v \in 0 .. WordMod - 1 : SetValue(i, v)
    \/ \E pins \in [Signals -> Bit] : Cycle(pins)

Spec == Init /\ [][Next]_vars

-----------------------------------------------------------------------------

TypeOK ==
    /\ signals \in [Signals -> State]
    /\ counters \in [Signals -> 0 .. WordMod - 1]
    /\ reported \subseteq Signals
    /\ against \in [Signals -> 0 .. CounterMax] /\ run \in [Signals -> 0 .. CounterMax]

\* How many readings a signal is on its way to a change.
Moved(s) == IF s.current = 0 THEN s.counter ELSE CounterMax - s.counter

\* The integrator is an honest judge, also of a signal that was disabled for a
\* while: it has never moved by more readings than differed since the last
\* change, and never by fewer than the last ones that did so in a row
\* (debounce_policy_integral).
Hysteresis ==
    \A i \in Signals :
        /\ Moved(signals[i]) < CounterMax
        /\ run[i] <= Moved(signals[i]) /\ Moved(signals[i]) <= against[i]

Clean == INSTANCE CleanSignals
    WITH Samples <- CounterMax,
         on      <- {i \in Signals : signals[i].enabled},
         value   <- [i \in Signals |-> signals[i].current],
         count   <- counters,
         fallen  <- reported

\* The debouncer is what a counter of falls needs: bounces shorter than
\* COUNTER_MAX readings are never counted, a steady input is always followed,
\* and each fall is counted and reported once, for enabled signals only.
ImplementsClean == Clean!SignalsSpec
=============================================================================
