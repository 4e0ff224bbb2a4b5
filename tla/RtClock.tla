------------------------------ MODULE RtClock ------------------------------
(***************************************************************************)
(* vla::rt_clock: alarms set and cancelled by the main loop, with the      *)
(* interrupts disabled (CliSei), and called back by the timer interrupt    *)
(* on_tick.  Every operation is therefore one step.  The clients of this   *)
(* module cancel only alarms that are still pending, as the test program   *)
(* timers_test/rt_clock does; Transmission shows a client that does not.   *)
(***************************************************************************)
EXTENDS Alarms

CONSTANTS Period,       \* microseconds between two ticks
          Delays,       \* the delays clients ask for
          MaxTime,      \* bound: the horizon, before the 32 bits of now wrap
          MaxId         \* bound: alarms set, before the 16 bits of ids wrap

ASSUME PeriodAssumption == Period \in Nat \ {0}
ASSUME DelaysAssumption == Delays \subseteq Nat
ASSUME BoundAssumption == MaxTime \in Nat /\ MaxId \in Nat /\ MaxId < 65536

VARIABLES
    now,            \* microseconds since the start
    alarms,         \* the live part of alarms[]
    alarmCount,     \* uint8_t alarm_count
    nextId,         \* the id given last
    due,            \* history: when the alarm with this id is due
    fate            \* history: what has become of it

vars == <<now, alarms, alarmCount, nextId, due, fate>>

Id == 1 .. MaxId
Alarm == [id : Id, when : Nat]

Init ==
    /\ now = 0
    /\ alarms = <<>> /\ alarmCount = 0
    /\ nextId = 0
    /\ due = [id \in Id |-> 0]
    /\ fate = [id \in Id |-> "unset"]

\* Mutant: the check for a full table is missing.
SetAlarmMutant(us) ==
    /\ nextId < MaxId
    /\ nextId' = nextId + 1
    /\ alarms' = Insert(alarms, [id |-> nextId', when |-> now + us])
    /\ alarmCount' = alarmCount + 1
    /\ due' = [due EXCEPT ![nextId'] = now + us]
    /\ fate' = [fate EXCEPT ![nextId'] = "pending"]
    /\ UNCHANGED now

\* set_alarm: refused (id 0) when the table is full.
SetAlarm(us) ==
    IF alarmCount = MaxAlarms
    THEN UNCHANGED vars
    ELSE /\ nextId < MaxId
         /\ nextId' = nextId + 1
         /\ alarms' = Insert(alarms, [id |-> nextId', when |-> now + us])
         /\ alarmCount' = alarmCount + 1
         /\ due' = [due EXCEPT ![nextId'] = now + us]
         /\ fate' = [fate EXCEPT ![nextId'] = "pending"]
         /\ UNCHANGED now

\* Mutant: the gap is closed only where the search stopped before the end.
CancelAlarmMutant(id) ==
    /\ fate[id] = "pending"
    /\ alarms' = IF Position(alarms, id) < Len(alarms) - 1
                 THEN Cancel(alarms, id) ELSE Front(alarms)
    /\ alarmCount' = Decrement(alarmCount)
    /\ fate' = [fate EXCEPT ![id] = "cancelled"]
    /\ UNCHANGED <<now, nextId, due>>

\* cancel_alarm
CancelAlarm(id) ==
    /\ fate[id] = "pending"
    /\ alarms' = Cancel(alarms, id)
    /\ alarmCount' = Decrement(alarmCount)
    /\ fate' = [fate EXCEPT ![id] = "cancelled"]
    /\ UNCHANGED <<now, nextId, due>>

\* on_tick: the time advances, the alarms due before it are called back.
OnTick ==
    /\ now + Period <= MaxTime
    /\ now' = now + Period
    /\ LET n == DueBefore(alarms, now')
       IN  /\ alarms' = DropFirst(alarms, n)
           /\ alarmCount' = alarmCount - n
           /\ fate' = [id \in Id |-> IF id \in Ids(SubSeq(alarms, 1, n)) THEN "fired"
                                     ELSE fate[id]]
    /\ UNCHANGED <<nextId, due>>

Next == (\E us \in Delays : SetAlarm(us)) \/ (\E id \in Id : CancelAlarm(id)) \/ OnTick

Spec == Init /\ [][Next]_vars

-----------------------------------------------------------------------------

\* The table is a sequence of at most MAX_ALARMS alarms.
TypeOK ==
    /\ now \in Nat
    /\ alarms \in Seq(Alarm) /\ Len(alarms) <= MaxAlarms
    /\ alarmCount \in 0 .. 255
    /\ nextId \in 0 .. MaxId
    /\ due \in [Id -> Nat]
    /\ fate \in [Id -> {"unset", "pending", "fired", "cancelled"}]

\* The table holds exactly the alarms that were set and have neither fired nor
\* been cancelled, each once, with its own due time, and alarm_count is their
\* number: shifting the array never loses, duplicates or revives an alarm.
NoAlarmLost ==
    /\ alarmCount = Len(alarms)
    /\ Ids(alarms) = {id \in Id : fate[id] = "pending"}
    /\ \A i, j \in 1 .. Len(alarms) : alarms[i].id = alarms[j].id => i = j
    /\ \A i \in 1 .. Len(alarms) : alarms[i].when = due[alarms[i].id]

\* An alarm fires at the first tick past its due time: never before, and no
\* tick passes over it.
FiresOnTime ==
    [][\A id \in Id :
        /\ fate[id] = "pending" /\ fate'[id] = "fired"
               => now <= due[id] /\ due[id] < now'
        /\ fate'[id] = "pending" => now' <= due'[id]]_vars
=============================================================================
