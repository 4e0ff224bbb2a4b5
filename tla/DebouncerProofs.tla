--------------------------- MODULE DebouncerProofs ---------------------------
(***************************************************************************)
(* The debouncer keeps its types, judges its inputs as the integrator is   *)
(* meant to and implements CleanSignals, for any number of signals, any    *)
(* threshold and any width of the counters.                                *)
(***************************************************************************)
EXTENDS Debouncer, TLAPS

DebouncerInv == TypeOK /\ Hysteresis

Next1(s, pin) == Debounced(Reading(s, pin))     \* a signal after a cycle

LEMMA Sizes == CounterMax \in Nat \ {0} /\ WordMod \in Nat \ {0}
  BY DebouncerAssumption

-----------------------------------------------------------------------------
(* One signal.                                                             *)

LEMMA Disabled ==
    ASSUME NEW s \in State, NEW pin \in Bit, ~s.enabled
    PROVE  Next1(s, pin) = s
  BY DEF Next1, Debounced, Reading

\* What a cycle does to an enabled signal: a reading that differs moves it on
\* by one, one that agrees moves it back, and it changes at the threshold.
LEMMA Enabled ==
    ASSUME NEW s \in State, NEW pin \in Bit, s.enabled, Moved(s) < CounterMax
    PROVE  LET t == Next1(s, pin)
           IN  /\ t \in State /\ t.enabled /\ t.previous = s.current
               /\ pin = s.current => t.current = s.current /\ Moved(t) <= Moved(s)
               /\ pin # s.current /\ Moved(s) + 1 < CounterMax
                  => t.current = s.current /\ Moved(t) = Moved(s) + 1
               /\ pin # s.current /\ Moved(s) + 1 = CounterMax
                  => t.current = pin /\ Moved(t) = 0
               /\ Moved(t) \in 0 .. CounterMax - 1
<1> DEFINE r == [s EXCEPT !.read = pin]
           t == Next1(s, pin)
<1>1. /\ r \in State /\ r.enabled /\ r.read = pin
      /\ r.current = s.current /\ r.counter = s.counter /\ Reading(s, pin) = r
  BY DEF State, Reading
<1>2. s.current \in {0, 1} /\ s.counter \in 0 .. CounterMax /\ pin \in {0, 1}
  BY DEF State, Bit
<1>3. Integrated(r) = IF pin = 1 THEN IF s.counter < CounterMax THEN s.counter + 1 ELSE s.counter
                      ELSE IF s.counter > 0 THEN s.counter - 1 ELSE s.counter
  BY <1>1 DEF Integrated
<1> DEFINE now == IF pin = 1 /\ Integrated(r) = CounterMax THEN 1
                  ELSE IF pin = 0 /\ Integrated(r) = 0 THEN 0 ELSE s.current
<1>4. t = [r EXCEPT !.previous = s.current, !.counter = Integrated(r), !.current = now]
  BY <1>1 DEF Next1, Debounced
<1>5. Integrated(r) \in 0 .. CounterMax /\ now \in {0, 1}
  BY <1>2, <1>3, Sizes
<1>6. /\ t \in State /\ t.enabled /\ t.previous = s.current
      /\ t.current = now /\ t.counter = Integrated(r)
  <2> HIDE DEF r, now
  <2> QED
    BY <1>1, <1>2, <1>4, <1>5 DEF State, Bit
<1> HIDE DEF t, r
<1>7. Moved(s) = (IF s.current = 0 THEN s.counter ELSE CounterMax - s.counter)
      /\ Moved(t) = (IF now = 0 THEN Integrated(r) ELSE CounterMax - Integrated(r))
  BY <1>6 DEF Moved
<1>8. /\ pin = s.current => now = s.current /\ Moved(t) <= Moved(s)
      /\ pin # s.current /\ Moved(s) + 1 < CounterMax => now = s.current /\ Moved(t) = Moved(s) + 1
      /\ pin # s.current /\ Moved(s) + 1 = CounterMax => now = pin /\ Moved(t) = 0
      /\ Moved(t) \in 0 .. CounterMax - 1
  <2>1. CASE pin = 1
    BY <1>2, <1>3, <1>7, <2>1, Sizes
  <2>2. CASE pin = 0
    BY <1>2, <1>3, <1>7, <2>2, Sizes
  <2> QED
    BY <1>2, <2>1, <2>2
<1> QED
  BY <1>6, <1>8 DEF t

-----------------------------------------------------------------------------
(* The invariant.                                                          *)

\* What a cycle does to a signal and its history, in terms of CleanSignals.
LEMMA CycleOfSignal ==
    ASSUME DebouncerInv, NEW pins \in [Signals -> Bit], Cycle(pins), NEW i \in Signals
    PROVE  LET s       == signals[i]
               t       == signals'[i]
               differs == s.enabled /\ pins[i] # s.current
           IN  /\ s \in State /\ pins[i] \in Bit /\ t \in State /\ t.enabled = s.enabled
               /\ Moved(t) < CounterMax /\ run'[i] <= Moved(t) /\ Moved(t) <= against'[i]
               /\ against'[i] \in 0 .. CounterMax /\ run'[i] \in 0 .. CounterMax
               /\ t.current # s.current =>
                      /\ differs /\ against[i] + 1 >= CounterMax /\ t.current = pins[i]
                      /\ against'[i] = 0 /\ run'[i] = 0
               /\ t.current = s.current =>
                      /\ differs => run[i] + 1 < CounterMax
                      /\ against'[i] = IF differs /\ against[i] < CounterMax THEN against[i] + 1
                                       ELSE against[i]
                      /\ run'[i] = IF differs THEN run[i] + 1
                                   ELSE IF s.enabled THEN 0 ELSE run[i]
               /\ Fall(t) <=> t.current # s.current /\ pins[i] = 0
<1> DEFINE s       == signals[i]
           t       == signals'[i]
           differs == s.enabled /\ pins[i] # s.current
<1>1. /\ s \in State /\ pins[i] \in Bit /\ t = Next1(s, pins[i])
      /\ against[i] \in 0 .. CounterMax /\ run[i] \in 0 .. CounterMax
      /\ Moved(s) < CounterMax /\ run[i] <= Moved(s) /\ Moved(s) <= against[i]
  BY DEF DebouncerInv, TypeOK, Hysteresis, Cycle, Next1
<1>2. /\ against'[i] = IF t.current # s.current THEN 0
                       ELSE IF differs /\ against[i] < CounterMax THEN against[i] + 1
                       ELSE against[i]
      /\ run'[i] = IF t.current # s.current THEN 0
                   ELSE IF differs THEN run[i] + 1
                   ELSE IF s.enabled THEN 0 ELSE run[i]
  BY DEF Cycle
<1>3. /\ s.current \in {0, 1} /\ pins[i] \in {0, 1} /\ s.enabled \in BOOLEAN
      /\ s.counter \in 0 .. CounterMax /\ Moved(s) \in 0 .. CounterMax
  BY <1>1, Sizes DEF State, Bit, Moved
<1> HIDE DEF s, t
<1>4. CASE ~s.enabled
  <2>1. t = s
    BY <1>1, <1>4, Disabled
  <2> QED
    BY <1>1, <1>2, <1>4, <2>1 DEF Fall, s, t
<1>5. CASE s.enabled
  <2>1. /\ t \in State /\ t.enabled /\ t.previous = s.current
        /\ pins[i] = s.current => t.current = s.current /\ Moved(t) <= Moved(s)
        /\ pins[i] # s.current /\ Moved(s) + 1 < CounterMax
           => t.current = s.current /\ Moved(t) = Moved(s) + 1
        /\ pins[i] # s.current /\ Moved(s) + 1 = CounterMax
           => t.current = pins[i] /\ Moved(t) = 0
        /\ Moved(t) \in 0 .. CounterMax - 1
    BY <1>1, <1>5, Enabled
  <2>2. CASE pins[i] = s.current
    BY <1>1, <1>2, <1>3, <1>5, <2>1, <2>2, Sizes DEF Fall, s, t
  <2>3. CASE pins[i] # s.current /\ Moved(s) + 1 < CounterMax
    BY <1>1, <1>2, <1>3, <1>5, <2>1, <2>3, Sizes DEF Fall, s, t
  <2>4. CASE pins[i] # s.current /\ Moved(s) + 1 = CounterMax
    BY <1>1, <1>2, <1>3, <1>5, <2>1, <2>4, Sizes DEF Fall, s, t
  <2> QED
    BY <1>1, <1>3, <2>2, <2>3, <2>4, Sizes
<1> QED
  BY <1>3, <1>4, <1>5

LEMMA InvInit == Init => DebouncerInv
  BY Sizes DEF Init, DebouncerInv, TypeOK, Hysteresis, State, Bit, Moved

LEMMA InvStep == DebouncerInv /\ [Next]_vars => DebouncerInv'
<1> SUFFICES ASSUME DebouncerInv, [Next]_vars PROVE DebouncerInv'
  OBVIOUS
<1>1. ASSUME NEW i \in Signals, NEW enable \in BOOLEAN, SetEnabled(i, enable)
      PROVE  DebouncerInv'
  <2>1. \A j \in Signals :
            /\ signals'[j] \in State
            /\ signals'[j].current = signals[j].current /\ signals'[j].counter = signals[j].counter
    <3> SUFFICES ASSUME NEW j \in Signals
                 PROVE /\ signals'[j] \in State
                       /\ signals'[j].current = signals[j].current
                       /\ signals'[j].counter = signals[j].counter
      OBVIOUS
    <3>1. signals[j] \in State
      BY DEF DebouncerInv, TypeOK
    <3>2. signals'[j] = IF j = i THEN [signals[j] EXCEPT !.enabled = enable] ELSE signals[j]
      BY <1>1 DEF SetEnabled, DebouncerInv, TypeOK
    <3> QED
      BY <3>1, <3>2 DEF State
  <2>2. TypeOK'
    <3>1. signals' \in [Signals -> State]
      BY <1>1, <2>1 DEF SetEnabled, DebouncerInv, TypeOK
    <3> QED
      BY <1>1, <3>1 DEF SetEnabled, DebouncerInv, TypeOK, history
  <2>3. Hysteresis'
    BY <1>1, <2>1 DEF SetEnabled, DebouncerInv, Hysteresis, Moved, history
  <2> QED
    BY <2>2, <2>3 DEF DebouncerInv
<1>2. ASSUME NEW i \in Signals, NEW v \in 0 .. WordMod - 1, SetValue(i, v)
      PROVE  DebouncerInv'
  BY <1>2 DEF SetValue, DebouncerInv, TypeOK, Hysteresis, Moved, history
<1>3. ASSUME NEW pins \in [Signals -> Bit], Cycle(pins)
      PROVE  DebouncerInv'
  <2>1. \A i \in Signals :
            /\ signals'[i] \in State
            /\ Moved(signals'[i]) < CounterMax
            /\ run'[i] <= Moved(signals'[i]) /\ Moved(signals'[i]) <= against'[i]
            /\ against'[i] \in 0 .. CounterMax /\ run'[i] \in 0 .. CounterMax
    BY <1>3, CycleOfSignal
  <2>2. signals' \in [Signals -> State]
    BY <1>3, <2>1 DEF Cycle
  <2>3. against' \in [Signals -> 0 .. CounterMax] /\ run' \in [Signals -> 0 .. CounterMax]
    <3>1. /\ against' = [i \in Signals |-> against'[i]]
          /\ run' = [i \in Signals |-> run'[i]]
      BY <1>3, Zenon DEF Cycle
    <3> QED
      BY <2>1, <3>1
  <2>4. counters' \in [Signals -> 0 .. WordMod - 1]
    <3>1. \A n \in 0 .. WordMod - 1 : (n + 1) % WordMod \in 0 .. WordMod - 1
      BY Sizes
    <3>2. \A i \in Signals : counters[i] \in 0 .. WordMod - 1
      BY DEF DebouncerInv, TypeOK
    <3> QED
      BY <1>3, <3>1, <3>2 DEF Cycle
  <2>5. reported' \subseteq Signals
    BY <1>3 DEF Cycle
  <2> QED
    BY <2>1, <2>2, <2>3, <2>4, <2>5 DEF DebouncerInv, TypeOK, Hysteresis
<1>4. CASE UNCHANGED vars
  BY <1>4 DEF vars, history, DebouncerInv, TypeOK, Hysteresis, Moved
<1> QED
  BY <1>1, <1>2, <1>3, <1>4 DEF Next

LEMMA Invariant == Spec => []DebouncerInv
  BY InvInit, InvStep, PTL DEF Spec

\* Counters and integrators stay in their fields, for any threshold.
THEOREM TypeCorrect == Spec => []TypeOK
<1>1. DebouncerInv => TypeOK
  BY DEF DebouncerInv
<1> QED
  BY <1>1, Invariant, PTL

\* The integrator never moves by more readings than differed, nor by fewer than
\* did so in a row (debounce_policy_integral), however long a signal has been
\* disabled.
THEOREM IntegratorJudges == Spec => []Hysteresis
<1>1. DebouncerInv => Hysteresis
  BY DEF DebouncerInv
<1> QED
  BY <1>1, Invariant, PTL

-----------------------------------------------------------------------------
(* The debouncer implements CleanSignals.                                  *)

On == {i \in Signals : signals[i].enabled}
Value == [i \in Signals |-> signals[i].current]

LEMMA CycleIsSample ==
    ASSUME DebouncerInv, NEW pins \in [Signals -> Bit], Cycle(pins)
    PROVE  \E flips \in SUBSET On : Clean!Sample(pins, flips)
<1> DEFINE flips == {i \in Signals : signals'[i].current # signals[i].current}
<1>1. \A i \in Signals :
          LET s       == signals[i]
              t       == signals'[i]
              differs == s.enabled /\ pins[i] # s.current
          IN  /\ t.enabled = s.enabled
              /\ i \in flips =>
                     /\ differs /\ against[i] + 1 >= CounterMax /\ t.current = pins[i]
                     /\ against'[i] = 0 /\ run'[i] = 0
              /\ i \notin flips =>
                     /\ t.current = s.current
                     /\ differs => run[i] + 1 < CounterMax
                     /\ against'[i] = IF differs /\ against[i] < CounterMax THEN against[i] + 1
                                      ELSE against[i]
                     /\ run'[i] = IF differs THEN run[i] + 1
                                  ELSE IF s.enabled THEN 0 ELSE run[i]
              /\ Fall(t) <=> i \in flips /\ pins[i] = 0
  BY CycleOfSignal
<1>2. \A i \in Signals : Clean!Differs(i, pins) <=> signals[i].enabled /\ pins[i] # signals[i].current
  BY DEF Clean!Differs
<1>3. \A i \in Signals : against[i] \in Nat /\ run[i] \in Nat
  BY DEF DebouncerInv, TypeOK
<1>4. flips \subseteq On
  BY <1>1 DEF On
<1> HIDE DEF flips
<1>5. \A i \in flips : Clean!Differs(i, pins) /\ against[i] + 1 >= CounterMax
  BY <1>1, <1>2, <1>4 DEF On
<1>6. \A i \in On : Clean!Differs(i, pins) /\ run[i] + 1 >= CounterMax => i \in flips
  BY <1>1, <1>2, <1>3, Sizes DEF On
<1>7. Value' = [i \in Signals |-> IF i \in flips THEN pins[i] ELSE Value[i]]
  BY <1>1 DEF Value
<1>8. against' = [i \in Signals |-> IF i \in flips THEN 0
                                    ELSE IF Clean!Differs(i, pins) /\ against[i] < CounterMax
                                    THEN against[i] + 1 ELSE against[i]]
  <2>1. against' = [i \in Signals |-> against'[i]]
    BY Zenon DEF Cycle
  <2> QED
    BY <1>1, <1>2, <2>1
<1>9. run' = [i \in Signals |-> IF i \in flips THEN 0
                                ELSE IF Clean!Differs(i, pins) THEN run[i] + 1
                                ELSE IF i \in On THEN 0 ELSE run[i]]
  <2>1. run' = [i \in Signals |-> run'[i]]
    BY Zenon DEF Cycle
  <2> QED
    BY <1>1, <1>2, <2>1 DEF On
<1>10. reported' = {i \in flips : pins[i] = 0}
  BY <1>1, <1>4 DEF Cycle, On
<1>11. counters' = [i \in Signals |-> IF i \in reported' THEN (counters[i] + 1) % WordMod
                                      ELSE counters[i]]
  BY DEF Cycle
<1>12. On' = On
  BY <1>1 DEF On
<1>13. Clean!Sample(pins, flips)
  BY <1>5, <1>6, <1>7, <1>8, <1>9, <1>10, <1>11, <1>12 DEF Clean!Sample, On, Value
<1>14. flips \in SUBSET On
  BY <1>4
<1> QED
  BY <1>13, <1>14, Zenon DEF Clean!Sample

LEMMA StepIsClean == DebouncerInv /\ [Next]_vars => [Clean!SignalsNext]_(Clean!signalVars)
<1> SUFFICES ASSUME DebouncerInv, [Next]_vars
             PROVE  Clean!SignalsNext \/ UNCHANGED Clean!signalVars
  OBVIOUS
<1>1. ASSUME NEW i \in Signals, NEW enable \in BOOLEAN, SetEnabled(i, enable)
      PROVE  Clean!SignalsNext
  <2>1. \A j \in Signals :
            /\ signals'[j].current = signals[j].current
            /\ signals'[j].enabled = IF j = i THEN enable ELSE signals[j].enabled
    <3> SUFFICES ASSUME NEW j \in Signals
                 PROVE /\ signals'[j].current = signals[j].current
                       /\ signals'[j].enabled = IF j = i THEN enable ELSE signals[j].enabled
      OBVIOUS
    <3>1. signals[j] \in State
      BY DEF DebouncerInv, TypeOK
    <3>2. signals'[j] = IF j = i THEN [signals[j] EXCEPT !.enabled = enable] ELSE signals[j]
      BY <1>1 DEF SetEnabled, DebouncerInv, TypeOK
    <3> QED
      BY <3>1, <3>2 DEF State
  <2>2. On' = IF enable THEN On \cup {i} ELSE On \ {i}
    BY <2>1 DEF On
  <2>3. Value' = Value
    BY <2>1 DEF Value
  <2>4. Clean!Switch(i, enable)
    BY <1>1, <2>2, <2>3 DEF Clean!Switch, SetEnabled, On, Value, history
  <2> QED
    BY <2>4 DEF Clean!SignalsNext
<1>2. ASSUME NEW i \in Signals, NEW v \in 0 .. WordMod - 1, SetValue(i, v)
      PROVE  Clean!SignalsNext
  <2>1. Clean!SetCount(i, v)
    BY <1>2 DEF SetValue, Clean!SetCount, history
  <2> QED
    BY <2>1 DEF Clean!SignalsNext
<1>3. ASSUME NEW pins \in [Signals -> Bit], Cycle(pins)
      PROVE  Clean!SignalsNext
  <2>1. PICK flips \in SUBSET On : Clean!Sample(pins, flips)
    BY <1>3, CycleIsSample
  <2> QED
    BY <2>1 DEF Clean!SignalsNext, On, Bit
<1>4. CASE UNCHANGED vars
  BY <1>4 DEF vars, history, Clean!signalVars
<1> QED
  BY <1>1, <1>2, <1>3, <1>4 DEF Next

\* The debouncer, cycle by cycle, is a filter of bounces with a count of falls
\* (debouncer.hpp:80-164): for any number of signals, any threshold and any
\* width of the counters.
THEOREM DebouncerImplementsClean == Spec => ImplementsClean
<1>1. Init => Clean!SignalsInit
  BY DEF Init, Clean!SignalsInit
<1> QED
  BY <1>1, StepIsClean, Invariant, PTL DEF Spec, ImplementsClean, Clean!SignalsSpec
=============================================================================
