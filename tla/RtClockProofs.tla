--------------------------- MODULE RtClockProofs ---------------------------
(***************************************************************************)
(* For every table size, tick period, set of delays and horizon: the alarm *)
(* table of rt_clock accounts for every alarm, and alarms fire on time, of *)
(* one clock and of clocks that come and go with the ticks of a program;   *)
(* and a unit that interrupts finds its handler, for any such ticks.       *)
(***************************************************************************)
EXTENDS Ticks, SequenceTheorems, FiniteSetTheorems, TLAPS

-----------------------------------------------------------------------------
(* The operators on the table.                                             *)

\* A nonempty set of natural numbers has a least element: the initial
\* segments of the naturals are finite sets, well-founded under inclusion.
LEMMA LeastNatural ==
    ASSUME NEW T \in SUBSET Nat, T # {}
    PROVE  \E x \in T : \A y \in T : x <= y
<1> DEFINE Segments == {1 .. n : n \in T}
<1>1. Segments \subseteq FiniteSubsetsOf(Nat) /\ Segments # {}
  <2>1. \A n \in T : IsFiniteSet(1 .. n) /\ 1 .. n \in SUBSET Nat
    BY FS_Interval
  <2> QED
    BY <2>1 DEF FiniteSubsetsOf
<1>2. PICK X \in Segments : \A Y \in Segments : <<Y, X>> \notin StrictSubsetOrdering(Nat)
  <2> HIDE DEF Segments
  <2> QED
    BY <1>1, FS_StrictSubsetOrderingWellFounded, WFMin
<1>3. PICK x \in T : X = 1 .. x
  OBVIOUS
<1>4. ASSUME NEW y \in T PROVE x <= y
  <2>1. SUFFICES ASSUME y < x PROVE FALSE
    OBVIOUS
  <2>2. 1 .. y \in SUBSET Nat /\ 1 .. x \in SUBSET Nat
    OBVIOUS
  <2>3. 1 .. y \subseteq 1 .. x /\ x \in 1 .. x /\ x \notin 1 .. y
    BY <2>1
  <2>4. <<1 .. y, 1 .. x>> \in StrictSubsetOrdering(Nat)
    BY <2>2, <2>3 DEF StrictSubsetOrdering
  <2> QED
    BY <1>2, <1>3, <2>4
<1> QED
  BY <1>4

\* Every entry of a table is an alarm.
LEMMA TableEntries ==
    ASSUME NEW a \in Seq(Alarm)
    PROVE  /\ Len(a) \in Nat
           /\ \A i \in 1 .. Len(a) : a[i] \in Alarm /\ a[i].id \in Id /\ a[i].when \in Nat
<1>1. Len(a) \in Nat /\ \A i \in 1 .. Len(a) : a[i] \in Alarm
  BY ElementOfSeq, LenProperties
<1> QED
  BY <1>1 DEF Alarm

\* The loops of on_tick and set_alarm stop somewhere, and in a sorted table
\* everything behind that place is due at t or later.
LEMMA DueBeforeStops ==
    ASSUME NEW a \in Seq(Alarm), NEW t \in Nat
    PROVE  /\ DueBefore(a, t) \in 0 .. Len(a)
           /\ \A i \in 1 .. DueBefore(a, t) : a[i].when < t
           /\ DueBefore(a, t) < Len(a) => a[DueBefore(a, t) + 1].when >= t
<1> DEFINE T == {n \in 0 .. Len(a) : n = Len(a) \/ a[n + 1].when >= t}
<1>1. Len(a) \in Nat /\ \A i \in 1 .. Len(a) : a[i].when \in Nat
  BY TableEntries
<1>2. Len(a) \in T /\ T \in SUBSET Nat
  BY <1>1
<1>3. PICK n \in T : \A m \in T : n <= m
  <2> HIDE DEF T
  <2> QED
    BY <1>2, LeastNatural
<1>4. n \in 0 .. Len(a) /\ (n < Len(a) => a[n + 1].when >= t)
  BY <1>1, <1>3
<1>5. ASSUME NEW i \in 1 .. n PROVE a[i].when < t
  <2>1. i - 1 \in 0 .. Len(a) /\ i - 1 < n
    BY <1>1, <1>4
  <2>2. i - 1 \notin T
    BY <1>3, <1>4, <2>1
  <2>3. ~(a[(i - 1) + 1].when >= t)
    BY <2>1, <2>2
  <2>4. (i - 1) + 1 = i /\ a[i].when \in Nat
    BY <1>1, <1>4
  <2> QED
    BY <2>3, <2>4
<1> QED
  BY <1>4, <1>5 DEF DueBefore

\* Insert puts the new entry behind the n entries due earlier.
LEMMA InsertEntries ==
    ASSUME NEW a \in Seq(Alarm), NEW x \in Alarm, NEW n \in 0 .. Len(a),
           n = DueBefore(a, x.when)
    PROVE  /\ Insert(a, x) \in Seq(Alarm)
           /\ Len(Insert(a, x)) = Len(a) + 1
           /\ \A i \in 1 .. Len(a) + 1 :
                Insert(a, x)[i] = IF i <= n THEN a[i] ELSE IF i = n + 1 THEN x ELSE a[i - 1]
<1>1. Len(a) \in Nat /\ \A i \in 1 .. Len(a) : a[i] \in Alarm
  BY TableEntries
<1> DEFINE p == SubSeq(a, 1, n)
           q == SubSeq(a, n + 1, Len(a))
<1>2. /\ p \in Seq(Alarm) /\ Len(p) = n /\ \A i \in 1 .. n : p[i] = a[i]
  BY <1>1, SubSeqProperties
<1>3. /\ q \in Seq(Alarm) /\ Len(q) = Len(a) - n
      /\ \A i \in 1 .. Len(a) - n : q[i] = a[n + i]
  BY <1>1, SubSeqProperties
<1>4. /\ <<x>> \in Seq(Alarm) /\ Len(<<x>>) = 1 /\ <<x>>[1] = x
  OBVIOUS
<1> HIDE DEF p, q
<1>5. /\ p \o <<x>> \in Seq(Alarm) /\ Len(p \o <<x>>) = n + 1
      /\ \A i \in 1 .. n + 1 : (p \o <<x>>)[i] = IF i <= n THEN a[i] ELSE x
  BY <1>1, <1>2, <1>4, ConcatProperties
<1>6. /\ (p \o <<x>>) \o q \in Seq(Alarm)
      /\ Len((p \o <<x>>) \o q) = Len(a) + 1
      /\ \A i \in 1 .. Len(a) + 1 :
           ((p \o <<x>>) \o q)[i] = IF i <= n + 1 THEN (p \o <<x>>)[i] ELSE q[i - (n + 1)]
  BY <1>1, <1>3, <1>5, ConcatProperties
<1>7. \A i \in n + 2 .. Len(a) + 1 : q[i - (n + 1)] = a[i - 1]
  BY <1>1, <1>3
<1>8. Insert(a, x) = (p \o <<x>>) \o q
  BY DEF Insert, p, q
<1> QED
  BY <1>1, <1>5, <1>6, <1>7, <1>8

\* RemoveAt closes the gap.
LEMMA RemoveEntries ==
    ASSUME NEW a \in Seq(Alarm), NEW p \in 1 .. Len(a)
    PROVE  /\ RemoveAt(a, p) \in Seq(Alarm)
           /\ Len(RemoveAt(a, p)) = Len(a) - 1
           /\ \A i \in 1 .. Len(a) - 1 :
                RemoveAt(a, p)[i] = IF i < p THEN a[i] ELSE a[i + 1]
<1>1. Len(a) \in Nat /\ \A i \in 1 .. Len(a) : a[i] \in Alarm
  BY TableEntries
<1> DEFINE l == SubSeq(a, 1, p - 1)
           r == SubSeq(a, p + 1, Len(a))
<1>2. /\ l \in Seq(Alarm) /\ Len(l) = p - 1 /\ \A i \in 1 .. p - 1 : l[i] = a[i]
  BY <1>1, SubSeqProperties
<1>3. /\ r \in Seq(Alarm) /\ Len(r) = Len(a) - p
      /\ \A i \in 1 .. Len(a) - p : r[i] = a[p + i]
  BY <1>1, SubSeqProperties
<1> HIDE DEF l, r
<1>4. /\ l \o r \in Seq(Alarm) /\ Len(l \o r) = Len(l) + Len(r)
      /\ \A i \in 1 .. Len(l) + Len(r) :
           (l \o r)[i] = IF i <= Len(l) THEN l[i] ELSE r[i - Len(l)]
  BY <1>2, <1>3, ConcatProperties
<1>5. Len(l) + Len(r) = Len(a) - 1
  BY <1>1, <1>2, <1>3
<1>6. ASSUME NEW i \in 1 .. Len(a) - 1
      PROVE  (l \o r)[i] = IF i < p THEN a[i] ELSE a[i + 1]
  <2>1. CASE i < p
    BY <1>1, <1>2, <1>4, <1>5, <2>1
  <2>2. CASE ~(i < p)
    <3>1. i - Len(l) \in 1 .. Len(a) - p /\ p + (i - Len(l)) = i + 1 /\ ~(i <= Len(l))
      BY <1>1, <1>2, <2>2
    <3> QED
      BY <1>3, <1>4, <1>5, <2>2, <3>1
  <2> QED
    BY <2>1, <2>2
<1>7. RemoveAt(a, p) = l \o r
  BY DEF RemoveAt, l, r
<1> QED
  BY <1>4, <1>5, <1>6, <1>7

\* DropFirst moves the rest to the front.
LEMMA DropEntries ==
    ASSUME NEW a \in Seq(Alarm), NEW n \in 0 .. Len(a)
    PROVE  /\ DropFirst(a, n) \in Seq(Alarm)
           /\ Len(DropFirst(a, n)) = Len(a) - n
           /\ \A i \in 1 .. Len(a) - n : DropFirst(a, n)[i] = a[n + i]
<1>1. Len(a) \in Nat /\ \A i \in 1 .. Len(a) : a[i] \in Alarm
  BY TableEntries
<1>2. /\ SubSeq(a, n + 1, Len(a)) \in Seq(Alarm)
      /\ Len(SubSeq(a, n + 1, Len(a))) = Len(a) - n
      /\ \A i \in 1 .. Len(a) - n : SubSeq(a, n + 1, Len(a))[i] = a[n + i]
  BY <1>1, SubSeqProperties
<1> QED
  BY <1>2 DEF DropFirst

-----------------------------------------------------------------------------
(* The inductive invariant.                                                *)

\* The table is sorted, nothing in it is overdue, ids are given in order.
Sorted == \A i, j \in 1 .. Len(alarms) : i < j => alarms[i].when <= alarms[j].when

NothingOverdue == \A i \in 1 .. Len(alarms) : now <= alarms[i].when

Unused == \A id \in Id : nextId < id => fate[id] = "unset"

ClockInv == TypeOK /\ NoAlarmLost /\ Sorted /\ NothingOverdue /\ Unused

LEMMA ClockInvInit == Init => ClockInv
<1> SUFFICES ASSUME Init PROVE ClockInv
  OBVIOUS
<1>1. alarms = <<>> /\ alarms \in Seq(Alarm) /\ Len(alarms) = 0 /\ 1 .. Len(alarms) = {}
  BY DEF Init
<1>2. TypeOK
  BY <1>1, MaxAlarmsAssumption, BoundAssumption DEF Init, TypeOK, Id
<1>3. Ids(alarms) = {}
  BY <1>1 DEF Ids
<1>4. NoAlarmLost
  BY <1>1, <1>3 DEF Init, NoAlarmLost
<1>5. Sorted /\ NothingOverdue
  BY <1>1 DEF Sorted, NothingOverdue
<1>6. Unused
  BY DEF Init, Unused
<1> QED
  BY <1>2, <1>4, <1>5, <1>6 DEF ClockInv

\* What the invariant says of single entries.
LEMMA Entries ==
    ASSUME ClockInv
    PROVE  /\ Len(alarms) \in 0 .. MaxAlarms /\ alarmCount = Len(alarms)
           /\ \A i \in 1 .. Len(alarms) :
                /\ alarms[i] \in Alarm /\ alarms[i].id \in Id /\ alarms[i].when \in Nat
                /\ fate[alarms[i].id] = "pending"
                /\ alarms[i].when = due[alarms[i].id]
           /\ \A id \in Id : fate[id] = "pending" => \E i \in 1 .. Len(alarms) : alarms[i].id = id
<1>1. Len(alarms) \in Nat
      /\ \A i \in 1 .. Len(alarms) : /\ alarms[i] \in Alarm /\ alarms[i].id \in Id
                                      /\ alarms[i].when \in Nat
  BY TableEntries DEF ClockInv, TypeOK
<1>2. Len(alarms) <= MaxAlarms /\ alarmCount = Len(alarms)
  BY DEF ClockInv, TypeOK, NoAlarmLost
<1>3. Ids(alarms) = {id \in Id : fate[id] = "pending"}
  BY DEF ClockInv, NoAlarmLost
<1>4. \A i \in 1 .. Len(alarms) : fate[alarms[i].id] = "pending"
  BY <1>3 DEF Ids
<1>5. \A id \in Id : fate[id] = "pending" => \E i \in 1 .. Len(alarms) : alarms[i].id = id
  BY <1>3 DEF Ids
<1>6. \A i \in 1 .. Len(alarms) : alarms[i].when = due[alarms[i].id]
  BY DEF ClockInv, NoAlarmLost
<1> QED
  BY <1>1, <1>2, <1>4, <1>5, <1>6, MaxAlarmsAssumption

\* The converse, for the state after a step.
LEMMA NoAlarmLostNext ==
    ASSUME alarmCount' = Len(alarms'),
           \A i \in 1 .. Len(alarms') :
              /\ alarms'[i].id \in Id /\ fate'[alarms'[i].id] = "pending"
              /\ alarms'[i].when = due'[alarms'[i].id],
           \A id \in Id : fate'[id] = "pending" => \E i \in 1 .. Len(alarms') : alarms'[i].id = id,
           \A i, j \in 1 .. Len(alarms') : alarms'[i].id = alarms'[j].id => i = j
    PROVE  NoAlarmLost'
<1>1. Ids(alarms') = {id \in Id : fate'[id] = "pending"}
  BY DEF Ids
<1> QED
  BY <1>1 DEF NoAlarmLost

LEMMA UnchangedStep == ClockInv /\ UNCHANGED vars => ClockInv'
<1> SUFFICES ASSUME ClockInv, UNCHANGED vars PROVE ClockInv'
  OBVIOUS
<1>1. UNCHANGED now /\ UNCHANGED alarms /\ UNCHANGED alarmCount
      /\ UNCHANGED nextId /\ UNCHANGED due /\ UNCHANGED fate
  BY DEF vars
<1>2. TypeOK'
  BY <1>1 DEF ClockInv, TypeOK
<1>3. NoAlarmLost'
  BY <1>1 DEF ClockInv, NoAlarmLost
<1>4. Sorted' /\ NothingOverdue' /\ Unused'
  BY <1>1 DEF ClockInv, Sorted, NothingOverdue, Unused
<1> QED
  BY <1>2, <1>3, <1>4 DEF ClockInv

LEMMA SetAlarmStep ==
    ASSUME ClockInv, NEW us \in Delays, SetAlarm(us)
    PROVE  ClockInv'
<1>1. CASE alarmCount = MaxAlarms
  BY <1>1, UnchangedStep DEF SetAlarm
<1>2. CASE alarmCount # MaxAlarms
  <2> DEFINE x == [id |-> nextId + 1, when |-> now + us]
             n == DueBefore(alarms, x.when)
             L == Len(alarms)
  <2>1. /\ nextId < MaxId /\ nextId' = nextId + 1
        /\ alarms' = Insert(alarms, x) /\ alarmCount' = alarmCount + 1
        /\ due' = [due EXCEPT ![nextId + 1] = now + us]
        /\ fate' = [fate EXCEPT ![nextId + 1] = "pending"]
        /\ now' = now
    BY <1>2 DEF SetAlarm
  <2>2. /\ now \in Nat /\ nextId \in 0 .. MaxId /\ us \in Nat /\ MaxId \in Nat
        /\ alarms \in Seq(Alarm) /\ due \in [Id -> Nat]
        /\ fate \in [Id -> {"unset", "pending", "fired", "cancelled"}]
    BY DelaysAssumption, BoundAssumption DEF ClockInv, TypeOK
  <2>3. /\ x \in Alarm /\ x.when = now + us /\ x.id = nextId + 1 /\ x.when \in Nat /\ x.id \in Id
        /\ now <= x.when
    BY <2>1, <2>2 DEF Alarm, Id
  <2>4. /\ n \in 0 .. L
        /\ \A i \in 1 .. n : alarms[i].when < x.when
        /\ n < L => alarms[n + 1].when >= x.when
    BY <2>2, <2>3, DueBeforeStops
  <2>5. /\ alarms' \in Seq(Alarm) /\ Len(alarms') = L + 1
        /\ \A i \in 1 .. L + 1 :
             alarms'[i] = IF i <= n THEN alarms[i] ELSE IF i = n + 1 THEN x ELSE alarms[i - 1]
    BY <2>1, <2>2, <2>3, <2>4, InsertEntries
  <2>6. /\ L \in 0 .. MaxAlarms - 1 /\ alarmCount = L /\ MaxAlarms \in 1 .. 255
        /\ \A i \in 1 .. L :
             /\ alarms[i].id \in Id /\ alarms[i].when \in Nat
             /\ fate[alarms[i].id] = "pending" /\ alarms[i].when = due[alarms[i].id]
        /\ \A id \in Id : fate[id] = "pending" => \E i \in 1 .. L : alarms[i].id = id
    BY <1>2, Entries, MaxAlarmsAssumption
  <2>7. /\ x.when = now + us /\ due'[x.id] = x.when /\ fate'[x.id] = "pending"
        /\ \A id \in Id : id # x.id => due'[id] = due[id] /\ fate'[id] = fate[id]
    BY <2>1, <2>2, <2>3
  <2> HIDE DEF x, n, L
  <2>8. \A i \in 1 .. L : alarms[i].id # x.id
    <3>1. fate[x.id] = "unset"
      BY <2>2, <2>3 DEF ClockInv, Unused
    <3> QED
      BY <2>6, <3>1
  \* Where the new table has its entries from.
  <2>9. \A i \in 1 .. L + 1 : \/ alarms'[i] = x /\ i = n + 1
                              \/ i <= n /\ i \in 1 .. L /\ alarms'[i] = alarms[i]
                              \/ n + 1 < i /\ i - 1 \in 1 .. L /\ alarms'[i] = alarms[i - 1]
    BY <2>4, <2>5, <2>6
  <2>10. TypeOK'
    <3>1. now' \in Nat /\ nextId' \in 0 .. MaxId /\ alarmCount' \in 0 .. 255
      BY <2>1, <2>2, <2>6
    <3>2. due' \in [Id -> Nat] /\ fate' \in [Id -> {"unset", "pending", "fired", "cancelled"}]
      BY <2>1, <2>2, <2>3
    <3>3. alarms' \in Seq(Alarm) /\ Len(alarms') <= MaxAlarms
      BY <2>5, <2>6
    <3> QED
      BY <3>1, <3>2, <3>3 DEF TypeOK
  <2>11. NoAlarmLost'
    <3>1. alarmCount' = Len(alarms')
      BY <2>1, <2>5, <2>6
    <3>2. \A i \in 1 .. L : fate'[alarms[i].id] = "pending" /\ alarms[i].when = due'[alarms[i].id]
      BY <2>6, <2>7, <2>8
    <3>3. \A i \in 1 .. L + 1 : /\ alarms'[i].id \in Id /\ fate'[alarms'[i].id] = "pending"
                                /\ alarms'[i].when = due'[alarms'[i].id]
      BY <2>3, <2>6, <2>7, <2>9, <3>2
    <3>4. ASSUME NEW id \in Id, fate'[id] = "pending"
          PROVE  \E i \in 1 .. L + 1 : alarms'[i].id = id
      <4>1. CASE id = x.id
        <5>1. n + 1 \in 1 .. L + 1 /\ alarms'[n + 1] = x
          BY <2>4, <2>5, <2>6
        <5> QED
          BY <4>1, <5>1
      <4>2. CASE id # x.id
        <5>1. PICK i \in 1 .. L : alarms[i].id = id
          BY <2>6, <2>7, <3>4, <4>2
        <5>2. CASE i <= n
          <6>1. i \in 1 .. L + 1 /\ alarms'[i] = alarms[i]
            BY <2>5, <2>6, <5>2
          <6> QED
            BY <5>1, <6>1
        <5>3. CASE ~(i <= n)
          <6>1. i + 1 \in 1 .. L + 1 /\ ~(i + 1 <= n) /\ i + 1 # n + 1 /\ (i + 1) - 1 = i
            BY <2>4, <2>6, <5>3
          <6>2. alarms'[i + 1] = alarms[i]
            BY <2>5, <6>1
          <6> QED
            BY <5>1, <6>1, <6>2
        <5> QED
          BY <5>2, <5>3
      <4> QED
        BY <4>1, <4>2
    <3>5. \A i, j \in 1 .. L + 1 : alarms'[i].id = alarms'[j].id => i = j
      <4>1. \A i, j \in 1 .. L : alarms[i].id = alarms[j].id => i = j
        BY DEF ClockInv, NoAlarmLost, L
      <4> SUFFICES ASSUME NEW i \in 1 .. L + 1, NEW j \in 1 .. L + 1,
                          alarms'[i].id = alarms'[j].id
                   PROVE  i = j
        OBVIOUS
      <4>2. CASE i = n + 1 \/ j = n + 1
        BY <2>4, <2>6, <2>8, <2>9, <4>2
      <4>3. CASE i # n + 1 /\ j # n + 1
        <5>1. PICK k \in 1 .. L : alarms'[i] = alarms[k] /\ i = IF k <= n THEN k ELSE k + 1
          BY <2>4, <2>6, <2>9, <4>3
        <5>2. PICK m \in 1 .. L : alarms'[j] = alarms[m] /\ j = IF m <= n THEN m ELSE m + 1
          BY <2>4, <2>6, <2>9, <4>3
        <5>3. k = m
          BY <4>1, <5>1, <5>2
        <5> QED
          BY <5>1, <5>2, <5>3
      <4> QED
        BY <4>2, <4>3
    <3> QED
      BY <2>5, <3>1, <3>3, <3>4, <3>5, NoAlarmLostNext
  <2>12. Sorted'
    <3>1. \A i, j \in 1 .. L : i < j => alarms[i].when <= alarms[j].when
      BY DEF ClockInv, Sorted, L
    <3>2. \A j \in n + 1 .. L : x.when <= alarms[j].when
      <4> SUFFICES ASSUME NEW j \in n + 1 .. L PROVE x.when <= alarms[j].when
        OBVIOUS
      <4>1. n + 1 \in 1 .. L /\ j \in 1 .. L /\ alarms[n + 1].when >= x.when
        BY <2>4, <2>6
      <4>2. n + 1 = j \/ alarms[n + 1].when <= alarms[j].when
        BY <2>4, <2>6, <3>1, <4>1
      <4> QED
        BY <2>3, <2>6, <4>1, <4>2
    <3> SUFFICES ASSUME NEW i \in 1 .. L + 1, NEW j \in 1 .. L + 1, i < j
                 PROVE  alarms'[i].when <= alarms'[j].when
      BY <2>5 DEF Sorted
    <3>3. CASE i = n + 1
      <4>1. n + 1 < j /\ j - 1 \in n + 1 .. L /\ alarms'[j] = alarms[j - 1] /\ alarms'[i] = x
        BY <2>4, <2>5, <2>6, <3>3
      <4> QED
        BY <3>2, <4>1
    <3>4. CASE j = n + 1
      <4>1. i \in 1 .. n /\ i \in 1 .. L /\ alarms'[i] = alarms[i] /\ alarms'[j] = x
        BY <2>4, <2>5, <2>6, <3>4
      <4>2. alarms[i].when < x.when /\ alarms[i].when \in Nat
        BY <2>4, <2>6, <4>1
      <4> QED
        BY <2>3, <4>1, <4>2
    <3>5. CASE i # n + 1 /\ j # n + 1
      <4>1. PICK k \in 1 .. L : alarms'[i] = alarms[k] /\ i = IF k <= n THEN k ELSE k + 1
        BY <2>4, <2>6, <2>9, <3>5
      <4>2. PICK m \in 1 .. L : alarms'[j] = alarms[m] /\ j = IF m <= n THEN m ELSE m + 1
        BY <2>4, <2>6, <2>9, <3>5
      <4>3. k < m
        BY <2>4, <2>6, <4>1, <4>2
      <4> QED
        BY <3>1, <4>1, <4>2, <4>3
    <3> QED
      BY <3>3, <3>4, <3>5
  <2>13. NothingOverdue'
    <3>1. \A i \in 1 .. L : now <= alarms[i].when
      BY DEF ClockInv, NothingOverdue, L
    <3>2. \A i \in 1 .. L + 1 : now <= alarms'[i].when
      BY <2>3, <2>9, <3>1
    <3> QED
      BY <2>1, <2>5, <3>2 DEF NothingOverdue
  <2>14. Unused'
    <3> SUFFICES ASSUME NEW id \in Id, nextId' < id PROVE fate'[id] = "unset"
      BY DEF Unused
    <3>1. id # x.id /\ nextId < id
      BY <2>1, <2>2, <2>3 DEF Id
    <3> QED
      BY <2>7, <3>1 DEF ClockInv, Unused
  <2> QED
    BY <2>10, <2>11, <2>12, <2>13, <2>14 DEF ClockInv
<1> QED
  BY <1>1, <1>2

\* An id that is pending is found where it is, and its entry goes.
LEMMA CancelEntries ==
    ASSUME ClockInv, NEW id \in Id, fate[id] = "pending"
    PROVE  \E p \in 1 .. Len(alarms) :
              /\ alarms[p].id = id
              /\ Cancel(alarms, id) \in Seq(Alarm)
              /\ Len(Cancel(alarms, id)) = Len(alarms) - 1
              /\ \A i \in 1 .. Len(alarms) - 1 :
                   Cancel(alarms, id)[i] = IF i < p THEN alarms[i] ELSE alarms[i + 1]
<1>1. PICK p \in 1 .. Len(alarms) : alarms[p].id = id
  BY Entries
<1>2. \A i, j \in 1 .. Len(alarms) : alarms[i].id = alarms[j].id => i = j
  BY DEF ClockInv, NoAlarmLost
<1>3. Len(alarms) \in Nat /\ alarms \in Seq(Alarm)
  BY DEF ClockInv, TypeOK
<1>4. \A j \in 1 .. p - 1 : alarms[j].id # id
  BY <1>1, <1>2, <1>3
<1>5. Holds(alarms, id)
  BY <1>1 DEF Holds
<1>6. Position(alarms, id) \in 1 .. Len(alarms) /\ alarms[Position(alarms, id)].id = id
  BY <1>1, <1>4 DEF Position
<1>7. Position(alarms, id) = p
  BY <1>1, <1>2, <1>6
<1>8. Cancel(alarms, id) = RemoveAt(alarms, p)
  BY <1>5, <1>7 DEF Cancel
<1> QED
  BY <1>1, <1>3, <1>8, RemoveEntries

LEMMA CancelAlarmStep ==
    ASSUME ClockInv, NEW id \in Id, CancelAlarm(id)
    PROVE  ClockInv'
<1> DEFINE L == Len(alarms)
<1>1. /\ fate[id] = "pending"
      /\ alarms' = Cancel(alarms, id) /\ alarmCount' = (alarmCount - 1) % 256
      /\ fate' = [fate EXCEPT ![id] = "cancelled"]
      /\ now' = now /\ nextId' = nextId /\ due' = due
  BY DEF CancelAlarm, Decrement
<1>2. PICK p \in 1 .. L :
        /\ alarms[p].id = id
        /\ alarms' \in Seq(Alarm) /\ Len(alarms') = L - 1
        /\ \A i \in 1 .. L - 1 : alarms'[i] = IF i < p THEN alarms[i] ELSE alarms[i + 1]
  BY <1>1, CancelEntries
<1>3. /\ L \in 0 .. MaxAlarms /\ alarmCount = L /\ MaxAlarms \in 1 .. 255
      /\ \A i \in 1 .. L :
           /\ alarms[i].id \in Id /\ alarms[i].when \in Nat
           /\ fate[alarms[i].id] = "pending" /\ alarms[i].when = due[alarms[i].id]
      /\ \A k \in Id : fate[k] = "pending" => \E i \in 1 .. L : alarms[i].id = k
  BY Entries, MaxAlarmsAssumption
<1>4. \A i, j \in 1 .. L : alarms[i].id = alarms[j].id => i = j
  BY DEF ClockInv, NoAlarmLost
<1>5. fate \in [Id -> {"unset", "pending", "fired", "cancelled"}]
  BY DEF ClockInv, TypeOK
<1>6. fate'[id] = "cancelled" /\ \A k \in Id : k # id => fate'[k] = fate[k]
  BY <1>1, <1>5
<1> HIDE DEF L
\* Where the new table has its entries from.
<1>7. \A i \in 1 .. L - 1 : \E k \in 1 .. L :
         alarms'[i] = alarms[k] /\ k # p /\ k = IF i < p THEN i ELSE i + 1
  <2> SUFFICES ASSUME NEW i \in 1 .. L - 1
               PROVE  \E k \in 1 .. L :
                        alarms'[i] = alarms[k] /\ k # p /\ k = IF i < p THEN i ELSE i + 1
    OBVIOUS
  <2>1. CASE i < p
    BY <1>2, <1>3, <2>1
  <2>2. CASE ~(i < p)
    <3>1. i + 1 \in 1 .. L /\ i + 1 # p /\ alarms'[i] = alarms[i + 1]
      BY <1>2, <1>3, <2>2
    <3> QED
      BY <2>2, <3>1
  <2> QED
    BY <2>1, <2>2
<1>8. alarmCount' = L - 1 /\ L - 1 \in 0 .. 255 /\ L - 1 <= MaxAlarms
  <2>1. L \in 1 .. 255 /\ L <= MaxAlarms
    BY <1>2, <1>3
  <2>2. \A c \in 0 .. 255 : c % 256 = c
    OBVIOUS
  <2> QED
    BY <1>1, <1>3, <2>1, <2>2
<1>9. TypeOK'
  <2>1. /\ now' \in Nat /\ nextId' \in 0 .. MaxId /\ due' \in [Id -> Nat]
        /\ fate' \in [Id -> {"unset", "pending", "fired", "cancelled"}]
    BY <1>1, <1>5 DEF ClockInv, TypeOK
  <2>2. /\ alarms' \in Seq(Alarm) /\ Len(alarms') <= MaxAlarms /\ alarmCount' \in 0 .. 255
    BY <1>2, <1>8
  <2> QED
    BY <2>1, <2>2 DEF TypeOK
<1>10. NoAlarmLost'
  <2>1. alarmCount' = Len(alarms')
    BY <1>2, <1>8
  <2>2. \A k \in 1 .. L : k # p => fate'[alarms[k].id] = "pending"
    BY <1>2, <1>3, <1>4, <1>6
  <2>3. \A i \in 1 .. L - 1 : /\ alarms'[i].id \in Id /\ fate'[alarms'[i].id] = "pending"
                              /\ alarms'[i].when = due'[alarms'[i].id]
    BY <1>1, <1>3, <1>7, <2>2
  <2>4. ASSUME NEW k \in Id, fate'[k] = "pending"
        PROVE  \E i \in 1 .. L - 1 : alarms'[i].id = k
    <3>1. k # id /\ fate[k] = "pending"
      BY <1>6, <2>4
    <3>2. PICK m \in 1 .. L : alarms[m].id = k
      BY <1>3, <3>1
    <3>3. m # p
      BY <1>2, <3>1, <3>2
    <3>4. CASE m < p
      <4>1. m \in 1 .. L - 1 /\ alarms'[m] = alarms[m]
        BY <1>2, <1>3, <3>4
      <4> QED
        BY <3>2, <4>1
    <3>5. CASE p < m
      <4>1. m - 1 \in 1 .. L - 1 /\ ~(m - 1 < p) /\ (m - 1) + 1 = m
        BY <1>2, <1>3, <3>5
      <4>2. alarms'[m - 1] = alarms[m]
        BY <1>2, <4>1
      <4> QED
        BY <3>2, <4>1, <4>2
    <3> QED
      BY <1>2, <1>3, <3>3, <3>4, <3>5
  <2>5. \A i, j \in 1 .. L - 1 : alarms'[i].id = alarms'[j].id => i = j
    <3> SUFFICES ASSUME NEW i \in 1 .. L - 1, NEW j \in 1 .. L - 1, alarms'[i].id = alarms'[j].id
                 PROVE  i = j
      OBVIOUS
    <3>1. PICK k \in 1 .. L : alarms'[i] = alarms[k] /\ k # p /\ k = IF i < p THEN i ELSE i + 1
      BY <1>7
    <3>2. PICK m \in 1 .. L : alarms'[j] = alarms[m] /\ m # p /\ m = IF j < p THEN j ELSE j + 1
      BY <1>7
    <3>3. k = m
      BY <1>4, <3>1, <3>2
    <3> QED
      BY <1>2, <1>3, <3>1, <3>2, <3>3
  <2> QED
    BY <1>2, <2>1, <2>3, <2>4, <2>5, NoAlarmLostNext
<1>11. Sorted'
  <2>1. \A i, j \in 1 .. L : i < j => alarms[i].when <= alarms[j].when
    BY DEF ClockInv, Sorted, L
  <2> SUFFICES ASSUME NEW i \in 1 .. L - 1, NEW j \in 1 .. L - 1, i < j
               PROVE  alarms'[i].when <= alarms'[j].when
    BY <1>2 DEF Sorted
  <2>2. PICK k \in 1 .. L : alarms'[i] = alarms[k] /\ k # p /\ k = IF i < p THEN i ELSE i + 1
    BY <1>7
  <2>3. PICK m \in 1 .. L : alarms'[j] = alarms[m] /\ m # p /\ m = IF j < p THEN j ELSE j + 1
    BY <1>7
  <2>4. k < m
    BY <1>2, <1>3, <2>2, <2>3
  <2> QED
    BY <2>1, <2>2, <2>3, <2>4
<1>12. NothingOverdue'
  <2>1. \A k \in 1 .. L : now <= alarms[k].when
    BY DEF ClockInv, NothingOverdue, L
  <2>2. \A i \in 1 .. L - 1 : now <= alarms'[i].when
    BY <1>7, <2>1
  <2> QED
    BY <1>1, <1>2, <2>2 DEF NothingOverdue
<1>13. Unused'
  <2>1. fate[id] # "unset"
    BY <1>1
  <2>2. \A k \in Id : nextId < k => k # id
    BY <2>1 DEF ClockInv, Unused
  <2> QED
    BY <1>1, <1>6, <2>2 DEF ClockInv, Unused
<1> QED
  BY <1>9, <1>10, <1>11, <1>12, <1>13 DEF ClockInv

\* A tick: the n alarms at the head fire, the others move up.
LEMMA OnTickStep ==
    ASSUME ClockInv, OnTick
    PROVE  ClockInv'
<1> DEFINE L == Len(alarms)
           n == DueBefore(alarms, now + Period)
<1>1. /\ now' = now + Period
      /\ alarms' = DropFirst(alarms, n) /\ alarmCount' = alarmCount - n
      /\ fate' = [id \in Id |-> IF id \in Ids(SubSeq(alarms, 1, n)) THEN "fired" ELSE fate[id]]
      /\ nextId' = nextId /\ due' = due
  BY DEF OnTick
<1>2. /\ now \in Nat /\ now + Period \in Nat /\ nextId \in 0 .. MaxId
      /\ alarms \in Seq(Alarm) /\ due \in [Id -> Nat]
      /\ fate \in [Id -> {"unset", "pending", "fired", "cancelled"}]
  BY PeriodAssumption DEF ClockInv, TypeOK
<1>3. /\ n \in 0 .. L
      /\ \A i \in 1 .. n : alarms[i].when < now + Period
      /\ n < L => alarms[n + 1].when >= now + Period
  BY <1>2, DueBeforeStops
<1>4. /\ alarms' \in Seq(Alarm) /\ Len(alarms') = L - n
      /\ \A i \in 1 .. L - n : alarms'[i] = alarms[n + i]
  BY <1>1, <1>2, <1>3, DropEntries
<1>5. /\ L \in 0 .. MaxAlarms /\ alarmCount = L /\ MaxAlarms \in 1 .. 255
      /\ \A i \in 1 .. L :
           /\ alarms[i].id \in Id /\ alarms[i].when \in Nat
           /\ fate[alarms[i].id] = "pending" /\ alarms[i].when = due[alarms[i].id]
      /\ \A k \in Id : fate[k] = "pending" => \E i \in 1 .. L : alarms[i].id = k
  BY Entries, MaxAlarmsAssumption
<1> HIDE DEF L, n
<1>6. \A id \in Id : fate'[id] = IF \E i \in 1 .. n : alarms[i].id = id THEN "fired" ELSE fate[id]
  <2>1. Len(SubSeq(alarms, 1, n)) = n /\ \A i \in 1 .. n : SubSeq(alarms, 1, n)[i] = alarms[i]
    BY <1>2, <1>3, SubSeqProperties DEF L
  <2>2. Ids(SubSeq(alarms, 1, n)) = {alarms[i].id : i \in 1 .. n}
    BY <2>1 DEF Ids
  <2> QED
    BY <1>1, <2>2
<1>7. \A i, j \in 1 .. L : alarms[i].id = alarms[j].id => i = j
  BY DEF ClockInv, NoAlarmLost, L
<1>8. \A i \in 1 .. L - n : n + i \in 1 .. L /\ ~(n + i \in 1 .. n) /\ alarms'[i] = alarms[n + i]
  BY <1>3, <1>4, <1>5
<1>9. TypeOK'
  <2>1. now' \in Nat /\ nextId' \in 0 .. MaxId /\ due' \in [Id -> Nat]
    BY <1>1, <1>2
  <2>2. fate' \in [Id -> {"unset", "pending", "fired", "cancelled"}]
    BY <1>1, <1>2
  <2>3. /\ alarms' \in Seq(Alarm) /\ Len(alarms') <= MaxAlarms /\ alarmCount' \in 0 .. 255
    <3>1. Len(alarms') = L - n /\ alarmCount' = L - n
      BY <1>1, <1>4, <1>5
    <3>2. L - n \in Int /\ L - n <= MaxAlarms /\ L - n \in 0 .. 255
      BY <1>3, <1>5
    <3> QED
      BY <1>4, <3>1, <3>2
  <2> QED
    BY <2>1, <2>2, <2>3 DEF TypeOK
<1>10. NoAlarmLost'
  <2>1. alarmCount' = Len(alarms')
    BY <1>1, <1>4, <1>5
  <2>2. ASSUME NEW k \in 1 .. L, ~(k \in 1 .. n) PROVE fate'[alarms[k].id] = "pending"
    <3>1. ~ \E i \in 1 .. n : alarms[i].id = alarms[k].id
      BY <1>3, <1>5, <1>7, <2>2
    <3> QED
      BY <1>5, <1>6, <3>1
  <2>3. \A i \in 1 .. L - n : /\ alarms'[i].id \in Id /\ fate'[alarms'[i].id] = "pending"
                              /\ alarms'[i].when = due'[alarms'[i].id]
    BY <1>1, <1>5, <1>8, <2>2
  <2>4. ASSUME NEW id \in Id, fate'[id] = "pending"
        PROVE  \E i \in 1 .. L - n : alarms'[i].id = id
    <3>1. ~(\E i \in 1 .. n : alarms[i].id = id) /\ fate[id] = "pending"
      BY <1>6, <2>4
    <3>2. PICK k \in 1 .. L : alarms[k].id = id
      BY <1>5, <3>1
    <3>3. k - n \in 1 .. L - n /\ n + (k - n) = k
      BY <1>3, <1>5, <3>1, <3>2
    <3>4. alarms'[k - n] = alarms[k]
      BY <1>4, <3>3
    <3> QED
      BY <3>2, <3>3, <3>4
  <2>5. \A i, j \in 1 .. L - n : alarms'[i].id = alarms'[j].id => i = j
    <3> SUFFICES ASSUME NEW i \in 1 .. L - n, NEW j \in 1 .. L - n, alarms'[i].id = alarms'[j].id
                 PROVE  i = j
      OBVIOUS
    <3>1. n + i = n + j
      BY <1>7, <1>8
    <3> QED
      BY <1>3, <1>5, <3>1
  <2> QED
    BY <1>4, <2>1, <2>3, <2>4, <2>5, NoAlarmLostNext
<1>11. Sorted' /\ NothingOverdue'
  <2>1. \A i, j \in 1 .. L : i < j => alarms[i].when <= alarms[j].when
    BY DEF ClockInv, Sorted, L
  <2>2. ASSUME NEW i \in 1 .. L - n PROVE now' <= alarms'[i].when
    <3>1. n + 1 \in 1 .. L /\ n < L /\ alarms[n + 1].when >= now + Period
      BY <1>3, <1>5
    <3>2. n + 1 = n + i \/ alarms[n + 1].when <= alarms[n + i].when
      BY <1>3, <1>5, <1>8, <2>1, <3>1
    <3>3. alarms[n + 1].when \in Nat /\ alarms[n + i].when \in Nat /\ alarms'[i] = alarms[n + i]
      BY <1>5, <1>8, <3>1
    <3>4. alarms[n + i].when >= now + Period
      BY <1>2, <3>1, <3>2, <3>3
    <3> QED
      BY <1>1, <1>2, <3>3, <3>4
  <2>3. ASSUME NEW i \in 1 .. L - n, NEW j \in 1 .. L - n, i < j
        PROVE  alarms'[i].when <= alarms'[j].when
    <3>1. n + i < n + j
      BY <1>3, <1>5, <2>3
    <3> QED
      BY <1>8, <2>1, <3>1
  <2> QED
    BY <1>4, <2>2, <2>3 DEF Sorted, NothingOverdue
<1>12. Unused'
  <2> SUFFICES ASSUME NEW id \in Id, nextId' < id PROVE fate'[id] = "unset"
    BY DEF Unused
  <2>1. fate[id] = "unset"
    BY <1>1 DEF ClockInv, Unused
  <2>2. \A i \in 1 .. n : alarms[i].id # id
    BY <1>3, <1>5, <2>1
  <2> QED
    BY <1>6, <2>1, <2>2
<1> QED
  BY <1>9, <1>10, <1>11, <1>12 DEF ClockInv

LEMMA ClockInvStep == ClockInv /\ [Next]_vars => ClockInv'
<1> SUFFICES ASSUME ClockInv, [Next]_vars PROVE ClockInv'
  OBVIOUS
<1>1. ASSUME NEW us \in Delays, SetAlarm(us) PROVE ClockInv'
  BY <1>1, SetAlarmStep
<1>2. ASSUME NEW id \in Id, CancelAlarm(id) PROVE ClockInv'
  BY <1>2, CancelAlarmStep
<1>3. CASE OnTick
  BY <1>3, OnTickStep
<1>4. CASE UNCHANGED vars
  BY <1>4, UnchangedStep
<1> QED
  BY <1>1, <1>2, <1>3, <1>4 DEF Next

-----------------------------------------------------------------------------
(* The theorems.                                                           *)

\* The inductive invariant of the clock.
THEOREM ClockInvariant == Spec => []ClockInv
BY ClockInvInit, ClockInvStep, PTL DEF Spec

\* rt_clock::set_alarm, cancel_alarm and on_tick keep the table well-formed.
THEOREM TypeCorrect == Spec => []TypeOK
<1>1. ClockInv => TypeOK
  BY DEF ClockInv
<1> QED
  BY <1>1, ClockInvariant, PTL

\* Shifting the table never loses, duplicates or revives an alarm.
THEOREM AlarmsAccountedFor == Spec => []NoAlarmLost
<1>1. ClockInv => NoAlarmLost
  BY DEF ClockInv
<1> QED
  BY <1>1, ClockInvariant, PTL

\* The action of FiresOnTime.
OnTime ==
    \A id \in Id :
        /\ fate[id] = "pending" /\ fate'[id] = "fired" => now <= due[id] /\ due[id] < now'
        /\ fate'[id] = "pending" => now' <= due'[id]

\* An alarm that fires is due between the last tick and this one: nothing in
\* the table is overdue, and on_tick calls back only what is.
LEMMA FiringStep ==
    ASSUME ClockInv, ClockInv', Next
    PROVE  OnTime
<1>1. ASSUME NEW id \in Id, fate'[id] = "pending" PROVE now' <= due'[id]
  <2>1. PICK i \in 1 .. Len(alarms') : alarms'[i].id = id
    <3>1. id \in Ids(alarms')
      BY <1>1 DEF ClockInv, NoAlarmLost
    <3> QED
      BY <3>1 DEF Ids
  <2>2. now' <= alarms'[i].when /\ alarms'[i].when = due'[id]
    BY <2>1 DEF ClockInv, NoAlarmLost, NothingOverdue
  <2> QED
    BY <2>2
<1>2. ASSUME NEW id \in Id, fate[id] = "pending", fate'[id] = "fired"
      PROVE  now <= due[id] /\ due[id] < now'
  <2>1. fate \in [Id -> {"unset", "pending", "fired", "cancelled"}]
    BY DEF ClockInv, TypeOK
  <2>2. ASSUME NEW us \in Delays, SetAlarm(us) PROVE FALSE
    <3>1. fate' = fate \/ fate' = [fate EXCEPT ![nextId'] = "pending"]
      BY <2>2 DEF SetAlarm, vars
    <3> QED
      BY <1>2, <2>1, <3>1
  <2>3. ASSUME NEW k \in Id, CancelAlarm(k) PROVE FALSE
    <3>1. fate' = [fate EXCEPT ![k] = "cancelled"]
      BY <2>3 DEF CancelAlarm
    <3> QED
      BY <1>2, <2>1, <3>1
  <2>4. CASE OnTick
    <3> DEFINE n == DueBefore(alarms, now + Period)
    <3>1. /\ now' = now + Period
          /\ fate' = [k \in Id |-> IF k \in Ids(SubSeq(alarms, 1, n)) THEN "fired" ELSE fate[k]]
      BY <2>4 DEF OnTick
    <3>2. now + Period \in Nat /\ alarms \in Seq(Alarm) /\ Len(alarms) \in Nat
      BY PeriodAssumption DEF ClockInv, TypeOK
    <3>3. n \in 0 .. Len(alarms) /\ \A i \in 1 .. n : alarms[i].when < now + Period
      BY <3>2, DueBeforeStops
    <3> HIDE DEF n
    <3>4. id \in Ids(SubSeq(alarms, 1, n))
      BY <1>2, <3>1
    <3>5. Len(SubSeq(alarms, 1, n)) = n /\ \A i \in 1 .. n : SubSeq(alarms, 1, n)[i] = alarms[i]
      BY <3>2, <3>3, SubSeqProperties
    <3>6. PICK i \in 1 .. n : alarms[i].id = id
      BY <3>4, <3>5 DEF Ids
    <3>7. i \in 1 .. Len(alarms) /\ alarms[i].when < now'
      BY <3>1, <3>2, <3>3, <3>6
    <3>8. now <= alarms[i].when /\ alarms[i].when = due[id]
      BY <3>6, <3>7 DEF ClockInv, NoAlarmLost, NothingOverdue
    <3> QED
      BY <3>7, <3>8
  <2> QED
    BY <2>2, <2>3, <2>4 DEF Next
<1> QED
  BY <1>1, <1>2 DEF OnTime

\* No alarm fires before its time, and no tick passes over one that is due.
THEOREM AlarmsFireOnTime == Spec => FiresOnTime
<1>1. ClockInv /\ ClockInv' /\ [Next]_vars => [OnTime]_vars
  BY FiringStep
<1>2. Spec => [][OnTime]_vars
  BY <1>1, ClockInvariant, PTL DEF Spec
<1> QED
  BY <1>2 DEF FiresOnTime, OnTime

-----------------------------------------------------------------------------
(* Ticks.  Whatever ticks a program constructs and destroys, and wherever  *)
(* the interrupt comes, the clock keeps its invariant: but at the end of a *)
(* clock every step of Ticks is one of RtClock or leaves the clock alone.  *)

LEMMA TicksInitClock == TicksInit => ClockInv
BY ClockInvInit DEF TicksInit

\* The steps of the program and of the hardware, as the clock sees them.
LEMMA TicksSteps == [TicksNext]_<<vars, tickVars>> => [Next]_vars \/ Destructed
<1> SUFFICES ASSUME [TicksNext]_<<vars, tickVars>> PROVE [Next]_vars \/ Destructed
  OBVIOUS
<1>1. CASE Scope
  BY <1>1 DEF Scope, Construct, Statement, Constructed
<1>2. CASE Destruct
  BY <1>2 DEF Destruct
<1>3. CASE UseClock
  BY <1>3 DEF UseClock, Next
<1>4. ASSUME NEW u \in Unit, Match(u) \/ Interrupt(u) PROVE [Next]_vars
  BY <1>4 DEF Match, Interrupt, Next
<1> QED
  BY <1>1, <1>2, <1>3, <1>4 DEF TicksNext

\* A clock that ends leaves an empty table, and none of its alarms pending.
LEMMA DestructedClock ==
    ASSUME ClockInv, Destructed
    PROVE  ClockInv'
<1>1. /\ now' = 0 /\ alarms' = <<>> /\ alarmCount' = 0
      /\ fate' = [id \in Id |-> IF fate[id] = "pending" THEN "cancelled" ELSE fate[id]]
      /\ nextId' = nextId /\ due' = due
  BY DEF Destructed
<1>2. alarms' \in Seq(Alarm) /\ Len(alarms') = 0 /\ 1 .. Len(alarms') = {}
  BY <1>1
<1>3. fate \in [Id -> {"unset", "pending", "fired", "cancelled"}]
  BY DEF ClockInv, TypeOK
<1>4. \A id \in Id : fate'[id] # "pending" /\ (fate[id] = "unset" => fate'[id] = "unset")
  BY <1>1, <1>3
<1>5. TypeOK'
  <2>1. fate' \in [Id -> {"unset", "pending", "fired", "cancelled"}]
    BY <1>1, <1>3
  <2>2. nextId' \in 0 .. MaxId /\ due' \in [Id -> Nat]
    BY <1>1 DEF ClockInv, TypeOK
  <2> QED
    BY <1>1, <1>2, <2>1, <2>2, MaxAlarmsAssumption DEF TypeOK
<1>6. NoAlarmLost'
  BY <1>1, <1>2, <1>4, NoAlarmLostNext
<1>7. Sorted' /\ NothingOverdue'
  BY <1>2 DEF Sorted, NothingOverdue
<1>8. Unused'
  BY <1>1, <1>4 DEF ClockInv, Unused
<1> QED
  BY <1>5, <1>6, <1>7, <1>8 DEF ClockInv

\* The invariant of the clock holds in every program of ticks.
THEOREM TicksClockInvariant == TicksSpec => []ClockInv
<1>1. ClockInv /\ [TicksNext]_<<vars, tickVars>> => ClockInv'
  BY TicksSteps, ClockInvStep, DestructedClock
<1> QED
  BY <1>1, TicksInitClock, PTL DEF TicksSpec

\* The table accounts for every alarm, interrupted wherever it is.
THEOREM TicksAlarmsAccountedFor == TicksSpec => [](TypeOK /\ NoAlarmLost)
<1>1. ClockInv => TypeOK /\ NoAlarmLost
  BY DEF ClockInv
<1> QED
  BY <1>1, TicksClockInvariant, PTL

\* No alarm fires before its time or is passed over, on any unit.
THEOREM TicksFireOnTime == TicksSpec => FiresOnTime
<1>1. ClockInv /\ ClockInv' /\ [TicksNext]_<<vars, tickVars>> => [OnTime]_vars
  <2> SUFFICES ASSUME ClockInv, ClockInv', [TicksNext]_<<vars, tickVars>> PROVE [OnTime]_vars
    OBVIOUS
  <2>1. CASE [Next]_vars
    BY <2>1, FiringStep
  <2>2. CASE Destructed
    <3>1. fate \in [Id -> {"unset", "pending", "fired", "cancelled"}]
      BY DEF ClockInv, TypeOK
    <3>2. \A id \in Id : fate'[id] # "pending" /\ (fate[id] = "pending" => fate'[id] = "cancelled")
      BY <2>2, <3>1 DEF Destructed
    <3> QED
      BY <3>2 DEF OnTime
  <2> QED
    BY <2>1, <2>2, TicksSteps
<1>2. TicksSpec => [][OnTime]_vars
  BY <1>1, TicksClockInvariant, PTL DEF TicksSpec
<1> QED
  BY <1>2 DEF FiresOnTime, OnTime

-----------------------------------------------------------------------------
(* The handlers of the units, statement by statement.                      *)

Pointers == {"handler", "data", "enabled"}
Others   == {"wgm", "source", "com", "ocr"}

IsSeq(s) == \E S : s \in Seq(S)

\* r is s followed by t, of lengths m and n.
Joined(r, s, t, m, n) ==
    Len(r) = m + n /\ \A i \in 1 .. m + n : r[i] = IF i <= m THEN s[i] ELSE t[i - m]

LEMMA Join ==
    ASSUME NEW S, NEW s \in Seq(S), NEW t \in Seq(S)
    PROVE  \A m, n \in Nat : Len(s) = m /\ Len(t) = n => s \o t \in Seq(S) /\ Joined(s \o t, s, t, m, n)
BY ConcatProperties DEF Joined

\* set_cm_handler with and without a handler, in full.
LEMMA HandlerStatements ==
    ASSUME NEW u \in Unit
    PROVE  /\ SetHandler(u, "nullptr", "nullptr")
               = << <<"enabled", u, FALSE>>, <<"handler", u, "nullptr">>, <<"data", u, "nullptr">> >>
           /\ SetHandler(u, "on_tick", "clock")
               = << <<"handler", u, "on_tick">>, <<"data", u, "clock">>, <<"enabled", u, TRUE>> >>
<1>1. ASSUME NEW a, NEW b, NEW c
      PROVE  <<a>> \o <<b, c>> = <<a, b, c>> /\ <<a, b>> \o <<c>> = <<a, b, c>>
  <2> DEFINE S == {a, b, c}
  <2>1. /\ <<a>> \in Seq(S) /\ <<b, c>> \in Seq(S) /\ Len(<<a>>) = 1 /\ Len(<<b, c>>) = 2
        /\ <<a, b>> \in Seq(S) /\ <<c>> \in Seq(S) /\ Len(<<a, b>>) = 2 /\ Len(<<c>>) = 1
        /\ <<a, b, c>> \in Seq(S) /\ Len(<<a, b, c>>) = 3
    OBVIOUS
  <2> HIDE DEF S
  <2>2. 1 \in Nat /\ 2 \in Nat
    OBVIOUS
  <2>3. /\ <<a>> \o <<b, c>> \in Seq(S) /\ Joined(<<a>> \o <<b, c>>, <<a>>, <<b, c>>, 1, 2)
        /\ <<a, b>> \o <<c>> \in Seq(S) /\ Joined(<<a, b>> \o <<c>>, <<a, b>>, <<c>>, 2, 1)
    BY <2>1, <2>2, Join, Zenon
  <2>4. <<a>> \o <<b, c>> = <<a, b, c>>
    <3> DEFINE r == <<a>> \o <<b, c>>
    <3>1. r \in Seq(S) /\ Joined(r, <<a>>, <<b, c>>, 1, 2)
      BY <2>3
    <3> HIDE DEF r
    <3>2. Len(r) = 3 /\ r[1] = a /\ r[2] = b /\ r[3] = c
      BY <3>1 DEF Joined
    <3>3. r = <<a, b, c>>
      BY <2>1, <3>1, <3>2, SeqEqual
    <3> QED
      BY <3>3 DEF r
  <2>5. <<a, b>> \o <<c>> = <<a, b, c>>
    <3> DEFINE r == <<a, b>> \o <<c>>
    <3>1. r \in Seq(S) /\ Joined(r, <<a, b>>, <<c>>, 2, 1)
      BY <2>3
    <3> HIDE DEF r
    <3>2. Len(r) = 3 /\ r[1] = a /\ r[2] = b /\ r[3] = c
      BY <3>1 DEF Joined
    <3>3. r = <<a, b, c>>
      BY <2>1, <3>1, <3>2, SeqEqual
    <3> QED
      BY <3>3 DEF r
  <2> QED
    BY <2>4, <2>5
<1> QED
  BY <1>1 DEF SetHandler

LEMMA Triple ==
    ASSUME NEW S, NEW s, NEW a, NEW b, NEW c, s = <<a, b, c>>,
           s[1] \in S, s[2] \in S, s[3] \in S
    PROVE  s \in Seq(S) /\ Len(s) = 3 /\ s[1] = a /\ s[2] = b /\ s[3] = c
OBVIOUS

\* n statements that leave the handlers alone.
Plain(r, n) == Len(r) = n /\ \A i \in 1 .. n : r[i][1] \in Others

LEMMA PlainJoin ==
    ASSUME NEW S, NEW s \in Seq(S), NEW t \in Seq(S), NEW m \in Nat, NEW n \in Nat,
           Plain(s, m), Plain(t, n)
    PROVE  s \o t \in Seq(S) /\ Plain(s \o t, m + n)
<1>1. s \o t \in Seq(S) /\ Joined(s \o t, s, t, m, n)
  BY Join, Zenon DEF Plain
<1>2. ASSUME NEW r, Joined(r, s, t, m, n) PROVE Plain(r, m + n)
  BY <1>2 DEF Joined, Plain
<1> QED
  BY <1>1, <1>2

\* What the constructor and the destructor do to the handlers, a statement at a
\* time.
LEMMA ConstructorStatements ==
    ASSUME NEW u \in Unit
    PROVE  LET c == Constructor(u)
           IN  /\ IsSeq(c) /\ Len(c) = 14 /\ \A k \in 1 .. 8 : c[k][1] \in Others
               /\ c[9] = <<"enabled", u, FALSE>> /\ c[10] = <<"handler", u, "nullptr">>
               /\ c[11] = <<"data", u, "nullptr">> /\ c[12] = <<"handler", u, "on_tick">>
               /\ c[13] = <<"data", u, "clock">> /\ c[14] = <<"enabled", u, TRUE>>
<1> DEFINE s1 == NORMAL
           s2 == SetClock("STOP")
           s3 == Disconnect(u)
           s4 == TOGGLE_ON_COMPARE_MATCH
           s5 == SetClock("PRESCALE_8")
           s6 == SetOutputCompare(u)
           s7 == SetHandler(u, "nullptr", "nullptr")
           s8 == SetHandler(u, "on_tick", "clock")
           S  == {s1[1], s1[2], s2[1], s3[1], s4[1], s4[2], s5[1], s6[1],
                  s7[1], s7[2], s7[3], s8[1], s8[2], s8[3]}
           r2 == s1 \o s2
           r3 == r2 \o s3
           r4 == r3 \o s4
           r5 == r4 \o s5
           r6 == r5 \o s6
           r7 == r6 \o s7
           r8 == r7 \o s8
<1>1. Constructor(u) = r8
  BY DEF Constructor
<1>2. s1 \in Seq(S) /\ Plain(s1, 2) /\ s4 \in Seq(S) /\ Plain(s4, 2)
  BY DEF NORMAL, TOGGLE_ON_COMPARE_MATCH, SetMode, Plain, Others
<1>3. s2 \in Seq(S) /\ Plain(s2, 1) /\ s5 \in Seq(S) /\ Plain(s5, 1)
  BY DEF SetClock, Plain, Others
<1>4. s3 \in Seq(S) /\ Plain(s3, 1) /\ s6 \in Seq(S) /\ Plain(s6, 1)
  BY DEF Disconnect, SetOutputCompare, Plain, Others
<1>5. /\ s7 \in Seq(S) /\ Len(s7) = 3 /\ s8 \in Seq(S) /\ Len(s8) = 3
      /\ s7[1] = <<"enabled", u, FALSE>> /\ s7[2] = <<"handler", u, "nullptr">>
      /\ s7[3] = <<"data", u, "nullptr">> /\ s8[1] = <<"handler", u, "on_tick">>
      /\ s8[2] = <<"data", u, "clock">> /\ s8[3] = <<"enabled", u, TRUE>>
  <2>1. s7[1] \in S /\ s7[2] \in S /\ s7[3] \in S /\ s8[1] \in S /\ s8[2] \in S /\ s8[3] \in S
    OBVIOUS
  <2> HIDE DEF S
  <2>2. /\ s7 = << <<"enabled", u, FALSE>>, <<"handler", u, "nullptr">>, <<"data", u, "nullptr">> >>
        /\ s8 = << <<"handler", u, "on_tick">>, <<"data", u, "clock">>, <<"enabled", u, TRUE>> >>
    BY HandlerStatements
  <2> HIDE DEF s7, s8
  <2> QED
    BY <2>1, <2>2, Triple
<1> HIDE DEF s1, s2, s3, s4, s5, s6, s7, s8, S
<1>6. /\ 1 \in Nat /\ 2 \in Nat /\ 3 \in Nat /\ 4 \in Nat /\ 6 \in Nat /\ 7 \in Nat
      /\ 8 \in Nat /\ 11 \in Nat
      /\ 2 + 1 = 3 /\ 3 + 1 = 4 /\ 4 + 2 = 6 /\ 6 + 1 = 7 /\ 7 + 1 = 8
  OBVIOUS
<1>7. r2 \in Seq(S) /\ Plain(r2, 3)
  BY <1>2, <1>3, <1>6, PlainJoin, Zenon
<1> HIDE DEF r2
<1>8. r3 \in Seq(S) /\ Plain(r3, 4)
  BY <1>7, <1>4, <1>6, PlainJoin, Zenon
<1> HIDE DEF r3
<1>9. r4 \in Seq(S) /\ Plain(r4, 6)
  BY <1>8, <1>2, <1>6, PlainJoin, Zenon
<1> HIDE DEF r4
<1>10. r5 \in Seq(S) /\ Plain(r5, 7)
  BY <1>9, <1>3, <1>6, PlainJoin, Zenon
<1> HIDE DEF r5
<1>11. r6 \in Seq(S) /\ Plain(r6, 8)
  BY <1>10, <1>4, <1>6, PlainJoin, Zenon
<1> HIDE DEF r6
<1>12. r7 \in Seq(S) /\ Joined(r7, r6, s7, 8, 3)
  BY <1>11, <1>5, <1>6, Join, Zenon DEF Plain
<1> HIDE DEF r7
<1>13. /\ Len(r7) = 11 /\ \A k \in 1 .. 8 : r7[k][1] \in Others
       /\ r7[9] = s7[1] /\ r7[10] = s7[2] /\ r7[11] = s7[3]
  BY <1>11, <1>12 DEF Joined, Plain
<1>14. r8 \in Seq(S) /\ Joined(r8, r7, s8, 11, 3)
  BY <1>5, <1>6, <1>12, <1>13, Join, Zenon
<1> HIDE DEF r8
<1>15. /\ Len(r8) = 14 /\ \A k \in 1 .. 11 : r8[k] = r7[k]
       /\ r8[12] = s8[1] /\ r8[13] = s8[2] /\ r8[14] = s8[3]
  BY <1>14 DEF Joined
<1>16. /\ \A k \in 1 .. 8 : r8[k][1] \in Others
       /\ r8[9] = s7[1] /\ r8[10] = s7[2] /\ r8[11] = s7[3]
  BY <1>13, <1>15
<1>17. LET c == r8
       IN  /\ IsSeq(c) /\ Len(c) = 14 /\ \A k \in 1 .. 8 : c[k][1] \in Others
           /\ c[9] = <<"enabled", u, FALSE>> /\ c[10] = <<"handler", u, "nullptr">>
           /\ c[11] = <<"data", u, "nullptr">> /\ c[12] = <<"handler", u, "on_tick">>
           /\ c[13] = <<"data", u, "clock">> /\ c[14] = <<"enabled", u, TRUE>>
  BY <1>5, <1>14, <1>15, <1>16, Zenon DEF IsSeq
<1> QED
  BY <1>1, <1>17, Zenon

LEMMA DestructorStatements ==
    ASSUME NEW u \in Unit
    PROVE  LET d == Destructor(u)
           IN  /\ IsSeq(d) /\ Len(d) = 7 /\ \A k \in 4 .. 7 : d[k][1] \in Others
               /\ d[1] = <<"enabled", u, FALSE>> /\ d[2] = <<"handler", u, "nullptr">>
               /\ d[3] = <<"data", u, "nullptr">>
<1> DEFINE s1 == SetHandler(u, "nullptr", "nullptr")
           s2 == Disconnect(u)
           s3 == NORMAL
           s4 == SetClock("STOP")
           S  == {s1[1], s1[2], s1[3], s2[1], s3[1], s3[2], s4[1]}
           r2 == s1 \o s2
           r3 == r2 \o s3
           r4 == r3 \o s4
<1>1. Destructor(u) = r4
  BY DEF Destructor
<1>2. /\ s1 \in Seq(S) /\ Len(s1) = 3 /\ s1[1] = <<"enabled", u, FALSE>>
      /\ s1[2] = <<"handler", u, "nullptr">> /\ s1[3] = <<"data", u, "nullptr">>
  <2>1. s1[1] \in S /\ s1[2] \in S /\ s1[3] \in S
    OBVIOUS
  <2> HIDE DEF S
  <2>2. s1 = << <<"enabled", u, FALSE>>, <<"handler", u, "nullptr">>, <<"data", u, "nullptr">> >>
    BY HandlerStatements
  <2> HIDE DEF s1
  <2> QED
    BY <2>1, <2>2, Triple
<1>3. s2 \in Seq(S) /\ Len(s2) = 1 /\ s2[1][1] \in Others
  BY DEF Disconnect, Others
<1>4. s3 \in Seq(S) /\ Len(s3) = 2 /\ s3[1][1] \in Others /\ s3[2][1] \in Others
  BY DEF NORMAL, SetMode, Others
<1>5. s4 \in Seq(S) /\ Len(s4) = 1 /\ s4[1][1] \in Others
  BY DEF SetClock, Others
<1> HIDE DEF s1, s2, s3, s4, S
<1>6. 1 \in Nat /\ 2 \in Nat /\ 3 \in Nat /\ 4 \in Nat /\ 6 \in Nat
  OBVIOUS
<1>7. r2 \in Seq(S) /\ Joined(r2, s1, s2, 3, 1)
  BY <1>2, <1>3, <1>6, Join, Zenon
<1> HIDE DEF r2
<1>8. Len(r2) = 4 /\ r2[1] = s1[1] /\ r2[2] = s1[2] /\ r2[3] = s1[3] /\ r2[4] = s2[1]
  BY <1>7 DEF Joined
<1>9. r3 \in Seq(S) /\ Joined(r3, r2, s3, 4, 2)
  BY <1>4, <1>6, <1>7, <1>8, Join, Zenon
<1> HIDE DEF r3
<1>10. /\ Len(r3) = 6 /\ r3[1] = s1[1] /\ r3[2] = s1[2] /\ r3[3] = s1[3] /\ r3[4] = s2[1]
       /\ r3[5] = s3[1] /\ r3[6] = s3[2]
  BY <1>8, <1>9 DEF Joined
<1>11. r4 \in Seq(S) /\ Joined(r4, r3, s4, 6, 1)
  BY <1>5, <1>6, <1>9, <1>10, Join, Zenon
<1> HIDE DEF r4
<1>12. /\ Len(r4) = 7 /\ r4[1] = s1[1] /\ r4[2] = s1[2] /\ r4[3] = s1[3]
       /\ r4[4] = s2[1] /\ r4[5] = s3[1] /\ r4[6] = s3[2] /\ r4[7] = s4[1]
  BY <1>10, <1>11 DEF Joined
<1>13. \A k \in 4 .. 7 : r4[k][1] \in Others
  <2>1. \A k \in 4 .. 7 : k \in {4, 5, 6, 7}
    OBVIOUS
  <2> QED
    BY <1>3, <1>4, <1>5, <1>12, <2>1
<1> QED
  BY <1>1, <1>2, <1>11, <1>12, <1>13, Zenon DEF IsSeq

-----------------------------------------------------------------------------

Shape ==
    /\ io = [f \in Pointers \cup Others |-> io[f]]
    /\ \A f \in Pointers : io[f] = [v \in Unit |-> io[f][v]]

LEMMA SwitchOff ==
    ASSUME NEW s, NEW u, s = <<"enabled", u, FALSE>>
    PROVE  s[1] = "enabled" /\ s[2] = u /\ s[3] = FALSE
<1>1. s[1] = "enabled" /\ s[2] = u
  OBVIOUS
<1>2. s[3] = FALSE
  OBVIOUS
<1> QED
  BY <1>1, <1>2

Assigned(s) == s[1] \in Pointers \cup Others /\ io' = [io EXCEPT ![s[1]][s[2]] = s[3]]

Effect(s) ==
    \A f \in Pointers, v \in Unit :
        io'[f][v] = IF s[1] = f /\ s[2] = v THEN s[3] ELSE io[f][v]

\* A statement assigns to one place.
LEMMA Assignment ==
    ASSUME Shape, NEW s, Assigned(s)
    PROVE  Shape' /\ Effect(s)
<1>1. io' = [f \in Pointers \cup Others |->
                 IF f = s[1] THEN [io[f] EXCEPT ![s[2]] = s[3]] ELSE io[f]]
  BY DEF Shape, Assigned
<1>2. \A f \in Pointers \cup Others :
          io'[f] = IF f = s[1] THEN [io[f] EXCEPT ![s[2]] = s[3]] ELSE io[f]
  BY <1>1
<1>3. \A f \in Pointers :
          io'[f] = [v \in Unit |-> IF f = s[1] /\ v = s[2] THEN s[3] ELSE io[f][v]]
  BY <1>2 DEF Shape
<1>4. io' = [f \in Pointers \cup Others |-> io'[f]]
  BY <1>1
<1>5. \A f \in Pointers : io'[f] = [v \in Unit |-> io'[f][v]]
  <2> SUFFICES ASSUME NEW f \in Pointers PROVE io'[f] = [v \in Unit |-> io'[f][v]]
    OBVIOUS
  <2> DEFINE g == [v \in Unit |-> IF f = s[1] /\ v = s[2] THEN s[3] ELSE io[f][v]]
  <2>1. io'[f] = g /\ g = [v \in Unit |-> g[v]]
    BY <1>3
  <2> HIDE DEF g
  <2> QED
    BY <2>1
<1>6. ASSUME NEW f \in Pointers, NEW v \in Unit
      PROVE  io'[f][v] = IF s[1] = f /\ s[2] = v THEN s[3] ELSE io[f][v]
  <2> DEFINE g == [w \in Unit |-> IF f = s[1] /\ w = s[2] THEN s[3] ELSE io[f][w]]
  <2>1. io'[f] = g /\ g[v] = IF f = s[1] /\ v = s[2] THEN s[3] ELSE io[f][v]
    BY <1>3
  <2> HIDE DEF g
  <2> QED
    BY <2>1
<1>7. Shape'
  BY <1>4, <1>5 DEF Shape
<1> QED
  BY <1>6, <1>7 DEF Effect

\* k statements of s have been executed.
Executed(s, k) ==
    /\ IsSeq(rest) /\ Len(rest) = Len(s) - k
    /\ \A j \in 1 .. Len(s) - k : rest[j] = s[k + j]

Up(u) ==
    \E k \in 0 .. 14 :
        /\ Executed(Constructor(u), k)
        /\ \A v \in Unit : io.enabled[v] => k = 14
        /\ 12 <= k => io.handler[u] = "on_tick"
        /\ 13 <= k => io.data[u] = "clock"

Down(u) ==
    \E k \in 0 .. 7 :
        /\ Executed(Destructor(u), k)
        /\ \A v \in Unit : io.enabled[v] => k = 0

UnitsInv ==
    /\ Shape /\ HandlerReady
    /\ use \in Nat \ {0} /\ phase \in {"none", "up", "live", "down"}
    /\ phase # "none" => use <= Len(Uses)
    /\ phase \in {"none", "live"} => rest = <<>>
    /\ phase = "up" => Up(Uses[use])
    /\ phase = "down" => Down(Uses[use])

LEMMA CurrentUnit == ASSUME UnitsInv, use <= Len(Uses) PROVE Uses[use] \in Unit
BY TicksAssumption DEF UnitsInv, Unit

LEMMA UnitsInvInit == TicksInit => UnitsInv
<1> SUFFICES ASSUME TicksInit PROVE UnitsInv
  OBVIOUS
<1>1. Shape
  BY DEF TicksInit, Shape, Pointers, Others, Unit
<1>2. \A v \in Unit : ~io.enabled[v]
  BY DEF TicksInit, Unit
<1> QED
  BY <1>1, <1>2 DEF TicksInit, UnitsInv, HandlerReady

LEMMA NextStatement ==
    ASSUME NEW s, IsSeq(s), NEW n \in Nat, Len(s) = n, NEW k \in 0 .. n, Executed(s, k), rest # <<>>,
           rest' = Tail(rest)
    PROVE  k < n /\ Head(rest) = s[k + 1] /\ Executed(s, k + 1)'
<1>1. PICK S : rest \in Seq(S)
  BY DEF Executed, IsSeq
<1>2. /\ Head(rest) = rest[1] /\ Tail(rest) \in Seq(S) /\ Len(Tail(rest)) = Len(rest) - 1
      /\ \A i \in 1 .. Len(Tail(rest)) : Tail(rest)[i] = rest[i + 1]
      /\ Len(rest) \in Nat \ {0}
  BY <1>1, HeadTailProperties, EmptySeq, LenProperties
<1>3. Len(rest) = n - k /\ \A j \in 1 .. n - k : rest[j] = s[k + j]
  BY DEF Executed
<1>4. k < n
  BY <1>2, <1>3
<1>5. Head(rest) = s[k + 1]
  BY <1>2, <1>3, <1>4
<1>6. /\ rest' \in Seq(S) /\ Len(rest') = n - (k + 1)
      /\ \A j \in 1 .. n - (k + 1) : rest'[j] = s[(k + 1) + j]
  <2>1. /\ Len(rest') = n - (k + 1)
    BY <1>2, <1>3, <1>4
  <2>2. ASSUME NEW j \in 1 .. n - (k + 1) PROVE rest'[j] = s[(k + 1) + j]
    <3>1. j + 1 \in 1 .. n - k /\ k + (j + 1) = (k + 1) + j /\ j \in 1 .. Len(Tail(rest))
      BY <1>2, <1>3, <1>4
    <3> QED
      BY <1>2, <1>3, <3>1
  <2> QED
    BY <1>2, <2>1, <2>2
<1> QED
  BY <1>4, <1>5, <1>6 DEF Executed, IsSeq

LEMMA UpStep ==
    ASSUME UnitsInv, phase = "up", Statement
    PROVE  UnitsInv'
<1> DEFINE u == Uses[use]
<1>1. u \in Unit /\ UNCHANGED <<use, phase>>
  BY CurrentUnit DEF UnitsInv, Statement
<1>2. PICK k \in 0 .. 14 :
          /\ Executed(Constructor(u), k)
          /\ \A v \in Unit : io.enabled[v] => k = 14
          /\ 12 <= k => io.handler[u] = "on_tick"
          /\ 13 <= k => io.data[u] = "clock"
  BY DEF UnitsInv, Up
<1> DEFINE c == Constructor(u)
<1>3. /\ IsSeq(c) /\ Len(c) = 14 /\ \A i \in 1 .. 8 : c[i][1] \in Others
      /\ c[9] = <<"enabled", u, FALSE>> /\ c[10] = <<"handler", u, "nullptr">>
      /\ c[11] = <<"data", u, "nullptr">> /\ c[12] = <<"handler", u, "on_tick">>
      /\ c[13] = <<"data", u, "clock">> /\ c[14] = <<"enabled", u, TRUE>>
  BY <1>1, ConstructorStatements, Zenon
<1>4. u' = u /\ c' = c
  BY <1>1
<1> HIDE DEF c, u
<1>0. PICK s : s = c[k + 1]
  OBVIOUS
<1>5. k < 14 /\ Head(rest) = c[k + 1] /\ \A d : d = c => Executed(d, k + 1)'
  <2>1. ASSUME NEW d, d = c
        PROVE  k < 14 /\ Head(rest) = d[k + 1] /\ Executed(d, k + 1)'
    <3>1. 14 \in Nat /\ k \in 0 .. 14 /\ IsSeq(d) /\ Len(d) = 14 /\ Executed(d, k)
      BY <1>2, <1>3, <2>1 DEF c
    <3>2. rest # <<>> /\ rest' = Tail(rest)
      BY DEF Statement
    <3> QED
      BY <3>1, <3>2, NextStatement, Zenon
  <2> QED
    BY <2>1
<1>6. Assigned(s)
  <2>1. k + 1 \in 1 .. 8 \/ k + 1 \in {9, 10, 11, 12, 13, 14}
    BY <1>5
  <2>2. s[1] \in Pointers \cup Others
    BY <1>0, <1>3, <2>1 DEF Pointers
  <2> QED
    BY <1>0, <1>5, <2>2 DEF Statement, Assigned
<1>7. Shape' /\ Effect(s)
  <2>1. Shape
    BY DEF UnitsInv
  <2> QED
    BY <1>6, <2>1, Assignment, Zenon
<1>8. /\ \A v \in Unit : io'.enabled[v] => k + 1 = 14 /\ v = u
      /\ 12 <= k + 1 => io'.handler[u] = "on_tick"
      /\ 13 <= k + 1 => io'.data[u] = "clock"
  <2>1. \A v \in Unit : ~io.enabled[v]
    BY <1>2, <1>5
  <2>2. /\ \A v \in Unit : io'.enabled[v] =
                IF s[1] = "enabled" /\ s[2] = v THEN s[3] ELSE io.enabled[v]
        /\ io'.handler[u] = IF s[1] = "handler" /\ s[2] = u THEN s[3] ELSE io.handler[u]
        /\ io'.data[u] = IF s[1] = "data" /\ s[2] = u THEN s[3] ELSE io.data[u]
    BY <1>1, <1>7 DEF Pointers, Effect
  <2>3. CASE k + 1 \in 1 .. 8
    <3>1. s[1] \notin Pointers
      BY <1>0, <1>3, <2>3 DEF Pointers, Others
    <3>2. \A v \in Unit : ~io'.enabled[v]
      BY <2>1, <2>2, <3>1 DEF Pointers
    <3> QED
      BY <2>3, <3>2
  <2>4. CASE k + 1 \in {9, 10, 11}
    <3>1. s[1] = "enabled" => s[3] = FALSE
      <4>1. CASE k + 1 = 9
        <5>1. s = c[9]
          BY <1>0, <4>1
        <5>2. s = <<"enabled", u, FALSE>>
          BY <1>3, <5>1, Zenon
        <5> QED
          BY <5>2, SwitchOff
      <4>2. CASE k + 1 = 10 \/ k + 1 = 11
        BY <1>0, <1>3, <4>2
      <4> QED
        BY <2>4, <4>1, <4>2
    <3>2. \A v \in Unit : ~io'.enabled[v]
      BY <2>1, <2>2, <3>1, Zenon
    <3> QED
      BY <2>4, <3>2
  <2>5. CASE k + 1 = 12
    <3>1. s = <<"handler", u, "on_tick">>
      BY <1>0, <1>3, <2>5
    <3> QED
      BY <2>1, <2>2, <2>5, <3>1
  <2>6. CASE k + 1 = 13
    <3>1. s = <<"data", u, "clock">>
      BY <1>0, <1>3, <2>6
    <3>2. io.handler[u] = "on_tick"
      BY <1>2, <2>6
    <3> QED
      BY <2>1, <2>2, <2>6, <3>1, <3>2
  <2>7. CASE k + 1 = 14
    <3>1. s[1] = "enabled" /\ s[2] = u
      BY <1>0, <1>3, <2>7
    <3>2. io.handler[u] = "on_tick" /\ io.data[u] = "clock"
      BY <1>2, <2>7
    <3>3. \A v \in Unit : io'.enabled[v] => v = u
      BY <2>1, <2>2, <3>1, Zenon
    <3>4. io'.handler[u] = "on_tick" /\ io'.data[u] = "clock"
      BY <2>2, <3>1, <3>2
    <3> QED
      BY <2>7, <3>3, <3>4
  <2> QED
    BY <1>5, <2>3, <2>4, <2>5, <2>6, <2>7
<1>9. Up(u)'
  <2>1. Executed(Constructor(u), k + 1)'
    BY <1>4, <1>5 DEF c
  <2>2. k + 1 \in 0 .. 14
    BY <1>5
  <2> QED
    BY <1>4, <1>8, <2>1, <2>2 DEF Up
<1>10. HandlerReady'
  BY <1>1, <1>8 DEF HandlerReady, u
<1> QED
  BY <1>1, <1>7, <1>9, <1>10 DEF UnitsInv, u

LEMMA DownStep ==
    ASSUME UnitsInv, phase = "down", Statement
    PROVE  UnitsInv'
<1> DEFINE u == Uses[use]
<1>1. u \in Unit /\ UNCHANGED <<use, phase>>
  BY CurrentUnit DEF UnitsInv, Statement
<1>2. PICK k \in 0 .. 7 :
          /\ Executed(Destructor(u), k)
          /\ \A v \in Unit : io.enabled[v] => k = 0
  BY DEF UnitsInv, Down
<1> DEFINE c == Destructor(u)
<1>3. /\ IsSeq(c) /\ Len(c) = 7 /\ \A i \in 4 .. 7 : c[i][1] \in Others
      /\ c[1] = <<"enabled", u, FALSE>> /\ c[2] = <<"handler", u, "nullptr">>
      /\ c[3] = <<"data", u, "nullptr">>
  BY <1>1, DestructorStatements, Zenon
<1>4. u' = u /\ c' = c
  BY <1>1
<1>11. \A v \in Unit : io.enabled[v] => v = u
  BY DEF UnitsInv, HandlerReady
<1> HIDE DEF c, u
<1>0. PICK s : s = c[k + 1]
  OBVIOUS
<1>5. k < 7 /\ Head(rest) = c[k + 1] /\ \A d : d = c => Executed(d, k + 1)'
  <2>1. ASSUME NEW d, d = c
        PROVE  k < 7 /\ Head(rest) = d[k + 1] /\ Executed(d, k + 1)'
    <3>1. 7 \in Nat /\ k \in 0 .. 7 /\ IsSeq(d) /\ Len(d) = 7 /\ Executed(d, k)
      BY <1>2, <1>3, <2>1 DEF c
    <3>2. rest # <<>> /\ rest' = Tail(rest)
      BY DEF Statement
    <3> QED
      BY <3>1, <3>2, NextStatement, Zenon
  <2> QED
    BY <2>1
<1>6. Assigned(s)
  <2>1. k + 1 \in 4 .. 7 \/ k + 1 \in {1, 2, 3}
    BY <1>5
  <2>2. s[1] \in Pointers \cup Others
    BY <1>0, <1>3, <2>1 DEF Pointers
  <2> QED
    BY <1>0, <1>5, <2>2 DEF Statement, Assigned
<1>7. Shape' /\ Effect(s)
  <2>1. Shape
    BY DEF UnitsInv
  <2> QED
    BY <1>6, <2>1, Assignment, Zenon
\* The interrupt is off from the first statement on.
<1>8. \A v \in Unit : ~io'.enabled[v]
  <2>1. \A v \in Unit : io'.enabled[v] =
            IF s[1] = "enabled" /\ s[2] = v THEN s[3] ELSE io.enabled[v]
    BY <1>7 DEF Pointers, Effect
  <2>2. CASE k = 0
    <3>1. s[1] = "enabled" /\ s[2] = u /\ s[3] = FALSE
      <4>1. s = c[1]
        BY <1>0, <2>2
      <4>2. s = <<"enabled", u, FALSE>>
        BY <1>3, <4>1, Zenon
      <4> QED
        BY <4>2, SwitchOff
    <3> QED
      BY <1>11, <2>1, <3>1, Zenon
  <2>3. CASE k # 0
    <3>1. \A v \in Unit : ~io.enabled[v]
      BY <1>2, <2>3
    <3>2. s[1] # "enabled"
      <4>1. k + 1 \in 4 .. 7 \/ k + 1 \in {2, 3}
        BY <1>5, <2>3
      <4> QED
        BY <1>0, <1>3, <4>1 DEF Others
    <3> QED
      BY <2>1, <3>1, <3>2
  <2> QED
    BY <2>2, <2>3
<1>9. Down(u)'
  <2>1. Executed(Destructor(u), k + 1)'
    BY <1>4, <1>5 DEF c
  <2>2. k + 1 \in 0 .. 7
    BY <1>5
  <2> QED
    BY <1>4, <1>8, <2>1, <2>2 DEF Down
<1>10. HandlerReady'
  BY <1>8 DEF HandlerReady
<1> QED
  BY <1>1, <1>7, <1>9, <1>10 DEF UnitsInv, u

LEMMA UnitsFrame ==
    ASSUME UnitsInv, UNCHANGED <<use, phase, rest, io>>
    PROVE  UnitsInv'
<1>1. \A s, k : Executed(s, k)' <=> Executed(s, k)
  BY DEF Executed
<1>2. \A u : (Up(u)' <=> Up(u)) /\ (Down(u)' <=> Down(u))
  BY <1>1, Zenon DEF Up, Down
<1>3. Shape' /\ HandlerReady'
  BY DEF UnitsInv, Shape, HandlerReady
<1>4. Uses[use'] = Uses[use]
  OBVIOUS
<1> QED
  BY <1>2, <1>3, <1>4 DEF UnitsInv

LEMMA UnitsInvStep == UnitsInv /\ [TicksNext]_<<vars, tickVars>> => UnitsInv'
<1> SUFFICES ASSUME UnitsInv, [TicksNext]_<<vars, tickVars>> PROVE UnitsInv'
  OBVIOUS
<1>1. CASE Construct
  <2> DEFINE c == Constructor(Uses[use])
  <2>1. /\ use <= Len(Uses) /\ phase = "none" /\ phase' = "up"
        /\ UNCHANGED <<use, io>> /\ rest' = c /\ c' = c
    BY <1>1 DEF Construct
  <2>2. IsSeq(c) /\ Len(c) = 14
    BY <2>1, CurrentUnit, ConstructorStatements, Zenon
  <2>3. \A v \in Unit : ~io.enabled[v]
    BY <2>1 DEF UnitsInv, HandlerReady
  <2> HIDE DEF c
  <2>4. Executed(c, 0)'
    BY <2>1, <2>2 DEF Executed
  <2>5. Up(Uses[use])'
    BY <2>1, <2>3, <2>4 DEF Up, c
  <2> QED
    BY <2>1, <2>3, <2>5 DEF UnitsInv, Shape, HandlerReady
<1>2. CASE Statement
  <2>1. phase = "up" \/ phase = "down"
    BY <1>2 DEF Statement, UnitsInv
  <2> QED
    BY <1>2, <2>1, UpStep, DownStep
<1>3. CASE Constructed
  BY <1>3 DEF Constructed, UnitsInv, Shape, HandlerReady
<1>4. CASE Destruct
  <2> DEFINE c == Destructor(Uses[use])
  <2>1. /\ use <= Len(Uses) /\ phase = "live" /\ phase' = "down"
        /\ UNCHANGED <<use, io>> /\ rest' = c /\ c' = c
    BY <1>4 DEF Destruct, UnitsInv
  <2>2. IsSeq(c) /\ Len(c) = 7
    BY <2>1, CurrentUnit, DestructorStatements, Zenon
  <2> HIDE DEF c
  <2>4. Executed(c, 0)'
    BY <2>1, <2>2 DEF Executed
  <2>5. Down(Uses[use])'
    BY <2>1, <2>4 DEF Down, c
  <2> QED
    BY <2>1, <2>5 DEF UnitsInv, Shape, HandlerReady
<1>5. CASE Destructed
  <2>1. \A v \in Unit : ~io.enabled[v]
    <3>1. PICK k \in 0 .. 7 : /\ Executed(Destructor(Uses[use]), k)
                              /\ \A v \in Unit : io.enabled[v] => k = 0
      BY <1>5 DEF Destructed, UnitsInv, Down
    <3>2. Len(Destructor(Uses[use])) = 7
      BY <1>5, CurrentUnit, DestructorStatements, Zenon DEF Destructed, UnitsInv
    <3>3. Len(rest) = 7 - k /\ rest = <<>>
      BY <1>5, <3>1, <3>2 DEF Executed, Destructed
    <3>4. k # 0
      BY <3>3
    <3> QED
      BY <3>1, <3>4
  <2> QED
    <3>1. HandlerReady' /\ Shape'
      BY <1>5, <2>1 DEF Destructed, UnitsInv, Shape, HandlerReady
    <3>2. /\ use' \in Nat \ {0} /\ phase' = "none" /\ rest' = <<>>
      BY <1>5 DEF Destructed, UnitsInv
    <3> QED
      BY <3>1, <3>2 DEF UnitsInv
<1>6. CASE UNCHANGED tickVars
  BY <1>6, UnitsFrame DEF tickVars
<1>7. ASSUME NEW v \in Unit, Match(v) \/ Interrupt(v) PROVE UnitsInv'
  <2>1. UNCHANGED <<use, phase, rest, io>>
    BY <1>7 DEF Match, Interrupt
  <2> QED
    BY <2>1, UnitsFrame
<1> QED
  BY <1>1, <1>2, <1>3, <1>4, <1>5, <1>6, <1>7 DEF TicksNext, Scope, UseClock

\* "The API ensures cm_handler will NOT be null if this interrupt is enabled"
\* (timer0_compa_vect.cpp): at every statement of every constructor and destructor,
\* for any sequence of ticks on either unit.
THEOREM UnitHandlersReady == TicksSpec => []HandlerReady
<1>1. UnitsInv => HandlerReady
  BY DEF UnitsInv
<1> QED
  BY <1>1, UnitsInvInit, UnitsInvStep, PTL DEF TicksSpec
==============================================================================
