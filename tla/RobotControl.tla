---------------------------- MODULE RobotControl ----------------------------
(***************************************************************************)
(* A robot driven from a browser: two fingers on the screen set the speeds *)
(* of two motors, the page sends them over a websocket to a server, which  *)
(* keeps them in a queue and writes them to the serial line of the robot   *)
(* one at a time, the next when the last is answered.                      *)
(***************************************************************************)
EXTENDS Robot, FiniteSets

CONSTANTS
    Tilts,      \* where the left and the right finger are, in tenths from the middle
    MaxMoves,   \* bound of moves, and of touches for them
    MaxFaults   \* bound of lost connections and restarts of the robot

ASSUME ControlAssumption ==
    /\ Tilts \subseteq (-10 .. 10) \X (-10 .. 10)
    /\ {MaxMoves, MaxFaults} \subseteq Nat

Side == {"left", "right"}

VARIABLES
    \* the browser
    open,           \* server.readyState == OPEN
    fingers,        \* the sides whose lSpeed or rSpeed is not null
    cached,         \* <<m0Speed, m1Speed>>
    pending,        \* keys of promises
    msgCounter,
    \* the websocket
    conn,           \* how many there were before
    up, down,       \* messages to and from the server
    \* the server
    serialQueue,
    \* history
    obeyed,         \* the last line the robot has obeyed since it started, see None
    calm,           \* see Send
    moves, resets

browserVars == <<open, fingers, cached, pending, msgCounter>>
socketVars  == <<conn, up, down>>
history     == <<obeyed, calm, moves, resets>>
vars        == <<robotVars, browserVars, socketVars, serialQueue, history>>

None   == <<>>
Nobody == -1
Stop   == <<0, 0, 0, 0>>

Quiet == up = <<>> /\ down = <<>> /\ serialQueue = <<>> /\ wire = <<>> /\ answers = <<>>

Init ==
    /\ RobotInit
    /\ open = FALSE /\ fingers = {} /\ cached = <<0, 0>> /\ pending = {} /\ msgCounter = 0
    /\ conn = 0 /\ up = <<>> /\ down = <<>> /\ serialQueue = <<>>
    /\ obeyed = None /\ calm = FALSE /\ moves = 0 /\ resets = 0

-----------------------------------------------------------------------------
(* The browser.                                                            *)

DiscretizePositive(t) ==
    IF t < 1 THEN 0 ELSE IF t < 4 THEN 127 ELSE IF t < 7 THEN 189 ELSE IF t < 10 THEN 255 ELSE 0

Discretize(t) == IF t < 0 THEN -DiscretizePositive(-t) ELSE DiscretizePositive(t)

\* Mutant: the speed of a motor that turns backward is negative.
LineMutant(speeds) ==
    LET d(s) == IF s > 0 THEN FORWARD ELSE IF s < 0 THEN BACKWARD ELSE 0
    IN  <<d(speeds[1]), speeds[1], d(speeds[2]), speeds[2]>>

Line(speeds) ==
    LET d(s) == IF s > 0 THEN FORWARD ELSE IF s < 0 THEN BACKWARD ELSE 0
        a(s) == IF s < 0 THEN -s ELSE s
    IN  <<d(speeds[1]), a(speeds[1]), d(speeds[2]), a(speeds[2])>>

\* setSpeed2, setSpeed4 and _makeMessagePromise.  What was sent last is not
\* sent again, whether or not it was sent.  (History: from a command sent when
\* nothing was under way on, until the robot starts again or the connection is
\* lost, commands and answers go in step.)
Send(tilts) ==
    LET speeds == <<Discretize(tilts[1]), Discretize(tilts[2])>>
    IN  /\ cached' = speeds
        /\ IF speeds # cached /\ open
           THEN /\ pending' = pending \cup {msgCounter} /\ msgCounter' = msgCounter + 1
                /\ up' = Append(up, [line |-> Line(speeds), id |-> msgCounter, conn |-> conn])
                /\ calm' = (calm \/ Quiet)
           ELSE UNCHANGED <<pending, msgCounter, up, calm>>

Touch(side) ==
    /\ side \notin fingers /\ moves < MaxMoves
    /\ fingers' = fingers \cup {side}
    /\ UNCHANGED <<robotVars, open, cached, pending, msgCounter, socketVars, serialQueue, history>>

\* touchmove tells where each finger is; both are needed.
Move(tilts) ==
    /\ fingers = Side /\ moves < MaxMoves
    /\ Send(tilts)
    /\ moves' = moves + 1
    /\ UNCHANGED <<robotVars, open, fingers, conn, down, serialQueue, obeyed, resets>>

\* touchend, of a finger on either side or elsewhere.
Lift(from) ==
    /\ from \subseteq fingers /\ Cardinality(from) < 2
    /\ fingers' = fingers \ from
    /\ Send(<<0, 0>>)
    /\ UNCHANGED <<robotVars, open, conn, down, serialQueue, obeyed, moves, resets>>

\* onmessage
Reply ==
    /\ down # <<>>
    /\ pending' = pending \ {Head(down)} /\ down' = Tail(down)
    /\ UNCHANGED <<robotVars, open, fingers, cached, msgCounter, conn, up, serialQueue, history>>

\* The connection is lost; some of what was sent gets through.  onclose rejects
\* what is pending and starts over.
Break ==
    /\ open /\ conn + resets < MaxFaults
    /\ open' = FALSE /\ pending' = {} /\ conn' = conn + 1
    /\ \E k \in 0 .. Len(up) : up' = SubSeq(up, 1, k)
    /\ down' = <<>> /\ calm' = FALSE
    /\ UNCHANGED <<robotVars, fingers, cached, msgCounter, serialQueue, obeyed, moves, resets>>

Connect ==
    /\ ~open
    /\ open' = TRUE
    /\ UNCHANGED <<robotVars, fingers, cached, pending, msgCounter, socketVars, serialQueue, history>>

-----------------------------------------------------------------------------
(* The server.                                                             *)

\* Mutant: a line is written at once, whatever is under way.
EnqueueMutant(entry) ==
    /\ serialQueue' = Append(serialQueue, entry)
    /\ wire' = Append(wire, entry.line)

\* _serialEnqueue
Enqueue(entry) ==
    /\ serialQueue' = Append(serialQueue, entry)
    /\ wire' = IF serialQueue = <<>> THEN Append(wire, entry.line) ELSE wire

\* handleSpeed2 and UnaiBot.setSpeed2.  What the page sends is in the ranges
\* that this accepts (TypeOK).
Accept ==
    /\ up # <<>>
    /\ Enqueue(Head(up)) /\ up' = Tail(up)
    /\ UNCHANGED <<board, drive, garbage, answers, browserVars, conn, down, history>>

\* What is answered reaches the page over the connection it was asked over, in
\* the order it was asked.
Answer(entries) ==
    LET live == {i \in DOMAIN entries : entries[i].conn = conn}
    IN  \E order \in [1 .. Cardinality(live) -> live] :
            /\ \A i, j \in DOMAIN order : i < j => order[i] < order[j]
            /\ down' = down \o [i \in DOMAIN order |-> entries[order[i]].id]

\* Mutant: the next line waits until something is asked again.
DequeueMutant ==
    /\ Answer(<<Head(serialQueue)>>)
    /\ serialQueue' = Tail(serialQueue) /\ wire' = wire

\* _serialDequeue, a line that answers the head of the queue.
Dequeue ==
    /\ Answer(<<Head(serialQueue)>>)
    /\ serialQueue' = Tail(serialQueue)
    /\ wire' = IF Len(serialQueue) > 1 THEN Append(wire, serialQueue[2].line) ELSE wire

ToStop == [line |-> Stop, id |-> Nobody, conn |-> Nobody]

\* Mutant: what was asked of the robot before it started stays in the queue.
WelcomeMutant == Enqueue(ToStop) /\ UNCHANGED down

\* _serialDequeue, the greeting: what was asked before is dropped, and the robot
\* told to stop on behalf of nobody.
Welcome ==
    /\ Answer(serialQueue)
    /\ serialQueue' = <<ToStop>> /\ wire' = Append(wire, Stop)

\* _serialDequeue
Heard ==
    /\ answers # <<>> /\ answers' = Tail(answers)
    /\ \/ Head(answers) = "READY" /\ Welcome
       \/ Head(answers) # "READY" /\ serialQueue = <<>> /\ UNCHANGED <<down, serialQueue, wire>>
       \/ Head(answers) # "READY" /\ serialQueue # <<>> /\ Dequeue
    /\ UNCHANGED <<board, drive, garbage, browserVars, conn, up, history>>

-----------------------------------------------------------------------------
(* The robot.                                                              *)

RobotObeys ==
    /\ Obey
    /\ obeyed' = IF answers'[Len(answers')] = "OK" THEN Head(wire) ELSE obeyed
    /\ UNCHANGED <<browserVars, socketVars, serialQueue, calm, moves, resets>>

RobotRestarts ==
    /\ conn + resets < MaxFaults /\ resets' = resets + 1
    /\ Restart
    /\ obeyed' = None /\ calm' = FALSE
    /\ UNCHANGED <<browserVars, socketVars, serialQueue, moves>>

Next ==
    \/ \E side \in Side : Touch(side)
    \/ \E tilts \in Tilts : Move(tilts)
    \/ \E from \in SUBSET Side : Lift(from)
    \/ Reply \/ Break \/ Connect
    \/ Accept \/ Heard
    \/ RobotObeys \/ RobotRestarts

\* The line, the socket and three event loops go on; fingers need not.
Spec ==
    /\ Init /\ [][Next]_vars
    /\ WF_vars(Reply) /\ WF_vars(Accept) /\ WF_vars(Heard) /\ WF_vars(RobotObeys)

-----------------------------------------------------------------------------

Lines == (0 .. 3) \X (0 .. 255) \X (0 .. 3) \X (0 .. 255)    \* what the server accepts
Ids   == 0 .. 2 * MaxMoves - 1

Asked == [line : Lines, id : Ids, conn : 0 .. MaxFaults]

TypeOK ==
    /\ board \in {"msv1", "mvla"} /\ garbage \in BOOLEAN
    /\ wire \in Seq(Lines) /\ answers \in Seq({"OK", "ERROR", "READY", "garbled"})
    /\ open \in BOOLEAN /\ fingers \subseteq Side /\ cached \in (-255 .. 255) \X (-255 .. 255)
    /\ pending \subseteq Ids /\ msgCounter \in Nat /\ conn \in 0 .. MaxFaults
    /\ up \in Seq(Asked) /\ down \in Seq(Ids) /\ serialQueue \in Seq(Asked \cup {ToStop})
    /\ obeyed \in Lines \cup {None} /\ calm \in BOOLEAN
    /\ moves \in 0 .. MaxMoves /\ resets \in 0 .. MaxFaults

\* The motors do what the last line says and nothing else: neither the poles in
\* the shift register nor the levels keep anything of the lines before it
\* (motor::set_direction, motor::set_speed of either driver).
NoResidue == drive = IF obeyed = None THEN Rest ELSE Obeyed(Rest, obeyed)

\* The server never waits for an answer that cannot come (it has no timeout),
\* whatever was lost while the robot started; and commands and answers
\* go in step, so each answer is about the command it is taken for, unless the
\* robot has started again since nothing was under way (_serialDequeue).
InStep ==
    /\ serialQueue # <<>> => wire # <<>> \/ answers # <<>>
    /\ calm => Len(wire) + Len(answers) = IF serialQueue = <<>> THEN 0 ELSE 1

\* The robot obeys what the page believes it does, and will not repeat
\* (m0Speed and m1Speed of api.js): when all is quiet, unless the connection
\* was lost or the robot has started since.
Believed == Quiet /\ calm => obeyed = Line(cached)

\* Every promise of the page is kept or broken in the end, whatever happens to
\* the connection and to the robot: after the last move none is pending.
Settled == <>[](pending = {})

\* "0 => stop" (api.js:65): when the page asks to stop, all being quiet and the
\* server connected, it sends that or the robot is at rest.
StopHeeded ==
    [][(\E from \in SUBSET Side : Lift(from)) /\ open /\ Quiet
       => up' # <<>> \/ obeyed \in {None, Stop}]_vars
=============================================================================
