-------------------------------- MODULE Robot --------------------------------
(***************************************************************************)
(* The firmware of the robots: it reads a line, obeys it if it is a        *)
(* command for the two motors, and answers.  There are two boards, with a  *)
(* driver each: one turns a motor by two poles in a shift register and a   *)
(* power, the other by a power alone, 127 being rest.                      *)
(*                                                                         *)
(* A line is the four numbers of a well-formed command.  The port has no   *)
(* buffer: what arrives while the robot starts or answers may be lost, and *)
(* what is left of a line is no command.                                   *)
(***************************************************************************)
EXTENDS Integers, Sequences

Motor     == {0, 1}             \* motors 2 and 3 of one board, 0 and 1 of the other
Direction == 0 .. 17            \* FIRST .. LAST of direction_t
FORWARD   == 1
BACKWARD  == 2
Poles     == <<[a |-> 5, b |-> 7], [a |-> 0, b |-> 6]>>     \* of motors 2 and 3

VARIABLES
    board,      \* "msv1" or "mvla" (never changes)
    drive,      \* the motors, see Rest
    garbage,    \* of the line that comes first a part was lost
    wire,       \* lines on their way to the robot
    answers     \* lines on their way back

robotVars == <<board, drive, garbage, wire, answers>>

\* control_register_t::data as the set of its bits, the members of each motor
\* (of the second driver) and the comparator register of its power.
Rest == [control |-> {},
         dir     |-> [m \in Motor |-> IF board = "mvla" THEN FORWARD ELSE 0],
         speed   |-> [m \in Motor |-> 0],
         level   |-> [m \in Motor |-> IF board = "mvla" THEN 127 ELSE 0]]

BitsOf(n) == {k \in 0 .. 7 : (n \div 2^k) % 2 = 1}

\* set_direction of the first driver: n >> 1 goes to one pole, n & 1 to the
\* other, with whatever more bits n >> 1 has.
Control(bits, m, n) ==
    LET p == Poles[m + 1]
    IN  (bits \ {p.a, p.b})
        \cup {k \in 0 .. 7 : k - p.a \in BitsOf(n \div 2)}
        \cup (IF n % 2 = 1 THEN {p.b} ELSE {})

\* set_speed of the second.
Level(d, s) ==
    IF d = FORWARD THEN 127 - s \div 2 ELSE IF d = BACKWARD THEN 127 + s \div 2 ELSE 127

\* Mutant: the poles of a motor are set and never cleared.
SetDirectionMutant(v, m, d) ==
    IF board = "msv1"
    THEN [v EXCEPT !.control = @ \cup Control(@, m, d)]
    ELSE [v EXCEPT !.dir[m] = d, !.level[m] = Level(d, v.speed[m])]

SetDirection(v, m, d) ==
    IF board = "msv1"
    THEN [v EXCEPT !.control = Control(@, m, d)]
    ELSE [v EXCEPT !.dir[m] = d, !.level[m] = Level(d, v.speed[m])]

SetSpeed(v, m, s) ==
    IF board = "msv1"
    THEN [v EXCEPT !.level[m] = s]
    ELSE [v EXCEPT !.speed[m] = s, !.level[m] = Level(v.dir[m], s)]

Obeyed(v, line) ==
    SetSpeed(SetDirection(SetSpeed(SetDirection(v, 0, line[1]), 0, line[2]), 1, line[3]),
             1, line[4])

RobotInit ==
    /\ board \in {"msv1", "mvla"} /\ drive = Rest /\ garbage = FALSE
    /\ wire = <<>> /\ answers = <<"READY">>

\* skip_prefix, read_direction and read_uint8_hex, of both motors: the whole line
\* is read before the first motor moves.
IsCommand == ~garbage /\ Head(wire)[1] \in Direction /\ Head(wire)[3] \in Direction

\* A line, read to its end, is obeyed or refused, and answered.  A part of a
\* line that comes in the meantime may be lost; not all of it, for it is longer
\* than the answer.
Obey ==
    /\ wire # <<>>
    /\ drive' = IF IsCommand THEN Obeyed(drive, Head(wire)) ELSE drive
    /\ answers' = Append(answers, IF IsCommand THEN "OK" ELSE "ERROR")
    /\ wire' = Tail(wire)
    /\ garbage' \in {FALSE, wire' # <<>>}
    /\ UNCHANGED board

\* The robot starts again and says so; the first lines that come until then
\* are lost, and maybe the start of the next one.  An answer that was not all
\* sent makes one line with the greeting.
Restart ==
    /\ drive' = Rest
    /\ \/ answers' = Append(answers, "READY")
       \/ answers # <<>> /\ answers' = [answers EXCEPT ![Len(answers)] = "garbled"]
    /\ \E k \in 0 .. Len(wire) :
           /\ wire' = SubSeq(wire, k + 1, Len(wire))
           /\ garbage' \in {garbage /\ k = 0, wire' # <<>>}
    /\ UNCHANGED board
=============================================================================
