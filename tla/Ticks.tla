-------------------------------- MODULE Ticks --------------------------------
(***************************************************************************)
(* What drives module RtClock: a tick_20khz_t on one of the two compare    *)
(* units of a timer, constructed and destroyed statement by statement with *)
(* interrupts on.  A program constructs one after the other, as            *)
(* timers_test/tick does, each with a clock that is set alarms as long as  *)
(* both live, as in timers_test/rt_clock.                                  *)
(***************************************************************************)
EXTENDS RtClock

CONSTANTS Uses,         \* the units that the program's ticks are on, in turn
          Compare       \* what the output compare register is set to, 99

ASSUME TicksAssumption == Uses \in Seq({"A", "B"}) /\ Compare \in Nat \ {0}

VARIABLES
    use, phase,     \* the tick at hand, and what becomes of it
    rest,           \* the statements to come of its constructor or destructor
    io,             \* the registers of the timer, and the handlers of its units
    flags           \* units whose counter has matched and had no interrupt yet

tickVars == <<use, phase, rest, io, flags>>

Unit == {"A", "B"}

\* After a reset.
TicksInit ==
    /\ Init
    /\ use = 1 /\ phase = "none" /\ rest = <<>> /\ flags = {}
    /\ io = [wgm     |-> [bit \in 0 .. 1 |-> FALSE],
             source  |-> [timer |-> "STOP"],
             com     |-> [u \in Unit |-> "DISCONNECTED"],
             ocr     |-> [u \in Unit |-> 0],
             handler |-> [u \in Unit |-> "nullptr"],
             data    |-> [u \in Unit |-> "nullptr"],
             enabled |-> [u \in Unit |-> FALSE]]

-----------------------------------------------------------------------------
(* Statements: the register, which one of them, and its new value.         *)

SetMode(bit0, bit1) == << <<"wgm", 0, bit0>>, <<"wgm", 1, bit1>> >>
NORMAL              == SetMode(FALSE, FALSE)
TOGGLE_ON_COMPARE_MATCH == SetMode(FALSE, TRUE)
SetClock(cs)        == << <<"source", "timer", cs>> >>
Disconnect(u)       == << <<"com", u, "DISCONNECTED">> >>
SetOutputCompare(u) == << <<"ocr", u, Compare>> >>

\* Mutant: the handler is set after its interrupt.
SetHandlerMutant(u, f, data) ==
    << <<"enabled", u, f # "nullptr">>, <<"handler", u, f>>, <<"data", u, data>> >>

\* set_cm_handler
SetHandler(u, f, data) ==
    LET pointers == << <<"handler", u, f>>, <<"data", u, data>> >>
    IN  IF f = "nullptr" THEN << <<"enabled", u, FALSE>> >> \o pointers
        ELSE pointers \o << <<"enabled", u, TRUE>> >>

\* timer_counter, cm_unit, tick_20khz_t and rt_clock
Constructor(u) ==
    NORMAL \o SetClock("STOP") \o Disconnect(u)
    \o TOGGLE_ON_COMPARE_MATCH \o SetClock("PRESCALE_8") \o SetOutputCompare(u)
    \o SetHandler(u, "nullptr", "nullptr") \o SetHandler(u, "on_tick", "clock")

\* Mutant: the compare register is cleared with the rest.
DestructorMutant(u) ==
    SetHandler(u, "nullptr", "nullptr") \o Disconnect(u) \o NORMAL \o SetClock("STOP")
    \o << <<"ocr", u, 0>> >>

\* ~tick_20khz_t, ~cm_unit and ~timer_counter; a clock has no destructor.
Destructor(u) ==
    SetHandler(u, "nullptr", "nullptr") \o Disconnect(u) \o NORMAL \o SetClock("STOP")

Construct ==
    /\ phase = "none" /\ use <= Len(Uses)
    /\ phase' = "up" /\ rest' = Constructor(Uses[use])
    /\ UNCHANGED <<vars, use, io, flags>>

Statement ==
    /\ rest # <<>> /\ rest' = Tail(rest)
    /\ LET s == Head(rest)
       IN  io' = [io EXCEPT ![s[1]][s[2]] = s[3]]
    /\ UNCHANGED <<vars, use, phase, flags>>

Constructed ==
    /\ phase = "up" /\ rest = <<>> /\ phase' = "live"
    /\ UNCHANGED <<vars, use, rest, io, flags>>

\* The end of the block.
Destruct ==
    /\ phase = "live" /\ phase' = "down" /\ rest' = Destructor(Uses[use])
    /\ UNCHANGED <<vars, use, io, flags>>

\* The alarms go with the clock; only the last id is static.
Destructed ==
    /\ phase = "down" /\ rest = <<>>
    /\ phase' = "none" /\ use' = use + 1
    /\ now' = 0 /\ alarms' = <<>> /\ alarmCount' = 0
    /\ fate' = [id \in Id |-> IF fate[id] = "pending" THEN "cancelled" ELSE fate[id]]
    /\ UNCHANGED <<nextId, due, rest, io, flags>>

\* What the program does with its clock.
UseClock ==
    /\ phase = "live"
    /\ (\E us \in Delays : SetAlarm(us)) \/ (\E id \in Id : CancelAlarm(id))
    /\ UNCHANGED tickVars

-----------------------------------------------------------------------------
(* The hardware.                                                           *)

\* The counter comes by the unit's compare value.  In the mode above it turns
\* round at that of unit A, whichever unit it is set for.
Reaches(u) ==
    /\ io.source.timer # "STOP"
    /\ io.wgm[1] /\ ~io.wgm[0] => io.ocr[u] <= io.ocr["A"]

Match(u) ==
    /\ Reaches(u) /\ u \notin flags /\ flags' = flags \cup {u}
    /\ UNCHANGED <<vars, use, phase, rest, io>>

\* The vector of the unit, which calls its handler.
Interrupt(u) ==
    /\ u \in flags /\ io.enabled[u] /\ flags' = flags \ {u}
    /\ io.handler[u] = "on_tick" /\ OnTick
    /\ UNCHANGED <<use, phase, rest, io>>

Scope == Construct \/ Statement \/ Constructed \/ Destructed

TicksNext ==
    \/ Scope \/ Destruct \/ UseClock
    \/ \E u \in Unit : Match(u) \/ Interrupt(u)

\* A constructor or destructor comes to its end, the counter comes round and a
\* pending interrupt is taken; a program may stay in a block.
TicksSpec ==
    /\ TicksInit /\ [][TicksNext]_<<vars, tickVars>>
    /\ WF_<<vars, tickVars>>(Scope)
    /\ \A u \in Unit : WF_<<vars, tickVars>>(Match(u)) /\ WF_<<vars, tickVars>>(Interrupt(u))

-----------------------------------------------------------------------------

\* "The API ensures cm_handler will NOT be null if this interrupt is enabled"
\* (timer0_compa_vect.cpp), nor what it is given, and only the unit of a tick that
\* is alive interrupts.
HandlerReady ==
    \A u \in Unit : io.enabled[u] =>
        /\ io.handler[u] = "on_tick" /\ io.data[u] = "clock"
        /\ phase # "none" /\ Uses[use] = u

\* An alarm due before the horizon fires, unless it is cancelled or its clock
\* ends: whatever the ticks before left in the timer, it comes round to the unit of
\* the present one.
AlarmsFire ==
    \A id \in Id :
        fate[id] = "pending" /\ due[id] < MaxTime ~> fate[id] # "pending"
=============================================================================
