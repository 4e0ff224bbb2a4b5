------------------------------ MODULE Alarms ------------------------------
(***************************************************************************)
(* The alarm table of vla::rt_clock as operators: the array alarms[] up to *)
(* alarm_count, sorted by due time, is a sequence.  What lies behind       *)
(* alarm_count is never read as long as alarm_count is the true number.    *)
(***************************************************************************)
EXTENDS Integers, Sequences, SequencesExt

CONSTANT MaxAlarms      \* MAX_ALARMS, 16 in the code

ASSUME MaxAlarmsAssumption == MaxAlarms \in 1 .. 255

\* Mutant: the loops also pass an alarm due exactly at t.
DueBeforeMutant(a, t) ==
    CHOOSE n \in 0 .. Len(a) :
        /\ \A i \in 1 .. n : a[i].when <= t
        /\ n < Len(a) => a[n + 1].when > t

\* How many alarms at the head of the table are due before t: the loops of
\* on_tick and set_alarm stop at the first one that is not.
DueBefore(a, t) ==
    CHOOSE n \in 0 .. Len(a) :
        /\ \A i \in 1 .. n : a[i].when < t
        /\ n < Len(a) => a[n + 1].when >= t

\* set_alarm: behind every alarm due earlier, before one due at the same time.
Insert(a, x) ==
    LET n == DueBefore(a, x.when)
    IN  SubSeq(a, 1, n) \o <<x>> \o SubSeq(a, n + 1, Len(a))

\* on_tick: the n alarms at the head have been called back.
DropFirst(a, n) == SubSeq(a, n + 1, Len(a))

\* cancel_alarm: the search of the table for an id.
Holds(a, id) == \E i \in 1 .. Len(a) : a[i].id = id

Position(a, id) ==
    CHOOSE i \in 1 .. Len(a) : a[i].id = id /\ \A j \in 1 .. i - 1 : a[j].id # id

\* cancel_alarm: an id that is not there is not looked for any further, and
\* yet --alarm_count takes an alarm off: the last one, due last.
Cancel(a, id) ==
    IF Holds(a, id) THEN RemoveAt(a, Position(a, id))
    ELSE IF a = <<>> THEN a
    ELSE Front(a)

\* --alarm_count on an uint8_t.
Decrement(count) == (count - 1) % 256

Ids(a) == {a[i].id : i \in 1 .. Len(a)}
===========================================================================
