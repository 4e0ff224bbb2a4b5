----------------------------- MODULE RobotProofs -----------------------------
(***************************************************************************)
(* Commands and answers of a robot go in step, the page knows what the     *)
(* robot obeys, and the motors keep nothing of the lines before: for any   *)
(* moves of the fingers and any number of faults.                          *)
(***************************************************************************)
EXTENDS RobotControl, SequenceTheorems, FiniteSetTheorems, TLAPS

Command == Direction \X Int \X Direction \X Int
Entry   == [line : Command, id : Int, conn : Int]
Word    == {"OK", "ERROR", "READY", "garbled"}

MessagesInv ==
    /\ up \in Seq(Entry) /\ serialQueue \in Seq(Entry)
    /\ wire \in Seq(Command) /\ answers \in Seq(Word)
    /\ cached \in Int \X Int /\ msgCounter \in Int /\ conn \in Int
    /\ garbage \in BOOLEAN /\ calm \in BOOLEAN /\ open \in BOOLEAN

\* What the page sent last is on its way, or in the queue, or was obeyed.
LastCommand ==
    IF up # <<>> THEN up[Len(up)].line
    ELSE IF serialQueue = <<>> \/ (Len(serialQueue) = 1 /\ answers # <<>>) THEN obeyed
    ELSE serialQueue[Len(serialQueue)].line

\* In calm a line on the wire is the head of the queue, undamaged.
CalmInv ==
    calm => /\ open
            /\ \A i \in 1 .. Len(answers) : answers[i] # "READY"
            /\ wire # <<>> => ~garbage /\ wire[1] = serialQueue[1].line
            /\ LastCommand = Line(cached)

ControlInv ==
    /\ MessagesInv /\ CalmInv /\ InStep
    /\ garbage => wire # <<>>

Tilt == -10 .. 10

LEMMA LineIsCommand ==
    ASSUME NEW tilts \in Tilt \X Tilt
    PROVE  LET speeds == <<Discretize(tilts[1]), Discretize(tilts[2])>>
           IN  speeds \in Int \X Int /\ Line(speeds) \in Command
<1>1. \A t \in Tilt : Discretize(t) \in Int
  BY DEF Tilt, Discretize, DiscretizePositive
<1> DEFINE speeds == <<Discretize(tilts[1]), Discretize(tilts[2])>>
<1>2. speeds \in Int \X Int
  BY <1>1
<1>3. speeds[1] \in Int /\ speeds[2] \in Int
  BY <1>2
<1> HIDE DEF speeds
<1>4. Line(speeds) \in Command
  BY <1>3 DEF Line, Command, Direction, FORWARD, BACKWARD
<1> QED
  BY <1>2, <1>4 DEF speeds

LEMMA EntryLine == \A e \in Entry : e.line \in Command
  BY DEF Entry

LEMMA Length ==
    ASSUME NEW S, NEW s \in Seq(S)
    PROVE  Len(s) \in Nat /\ (s = <<>> <=> Len(s) = 0)
  BY EmptySeq, LenProperties

\* What a sequence is without its head.
LEMMA Rest1 ==
    ASSUME NEW S, NEW s \in Seq(S), s # <<>>
    PROVE  /\ Head(s) = s[1] /\ Head(s) \in S /\ s[Len(s)] \in S
           /\ Tail(s) \in Seq(S) /\ Len(Tail(s)) = Len(s) - 1 /\ Len(s) \in Nat \ {0}
           /\ Tail(s) = <<>> <=> Len(s) = 1
           /\ \A i \in 2 .. Len(s) : s[i] \in S /\ Tail(s)[i - 1] = s[i]
<1>1. /\ Head(s) = s[1] /\ Head(s) \in S /\ Tail(s) \in Seq(S) /\ Len(Tail(s)) = Len(s) - 1
      /\ \A i \in 1 .. Len(Tail(s)) : Tail(s)[i] = s[i + 1]
  BY HeadTailProperties
<1>2. Len(s) \in Nat \ {0} /\ \A i \in 1 .. Len(s) : s[i] \in S
  BY Length, ElementOfSeq
<1>3. Tail(s) = <<>> <=> Len(Tail(s)) = 0
  BY <1>1, Length
<1> QED
  BY <1>1, <1>2, <1>3

LEMMA Queues ==
    ASSUME ControlInv
    PROVE  /\ up \in Seq(Entry) /\ serialQueue \in Seq(Entry) /\ wire \in Seq(Command)
           /\ answers \in Seq(Word)
           /\ Len(wire) \in Nat /\ (wire = <<>> <=> Len(wire) = 0)
           /\ Len(answers) \in Nat /\ (answers = <<>> <=> Len(answers) = 0)
           /\ Len(serialQueue) \in Nat /\ (serialQueue = <<>> <=> Len(serialQueue) = 0)
<1>1. /\ up \in Seq(Entry) /\ serialQueue \in Seq(Entry) /\ wire \in Seq(Command)
      /\ answers \in Seq(Word)
  BY DEF ControlInv, MessagesInv
<1>2. Len(wire) \in Nat /\ (wire = <<>> <=> Len(wire) = 0)
  BY <1>1, Length
<1>3. Len(answers) \in Nat /\ (answers = <<>> <=> Len(answers) = 0)
  BY <1>1, Length
<1>4. Len(serialQueue) \in Nat /\ (serialQueue = <<>> <=> Len(serialQueue) = 0)
  BY <1>1, Length
<1> QED
  BY <1>1, <1>2, <1>3, <1>4

LEMMA StopIsCommand == Stop \in Command /\ ToStop \in Entry
  BY DEF Stop, ToStop, Nobody, Command, Entry, Direction

LEMMA InvInit == Init => ControlInv
<1> SUFFICES ASSUME Init PROVE ControlInv
  OBVIOUS
<1>1. /\ up = <<>> /\ serialQueue = <<>> /\ wire = <<>> /\ answers = <<"READY">>
      /\ cached = <<0, 0>> /\ msgCounter = 0 /\ conn = 0
      /\ garbage = FALSE /\ calm = FALSE /\ open = FALSE
  BY DEF Init, RobotInit
<1>2. answers \in Seq(Word)
  BY <1>1 DEF Word
<1>3. MessagesInv
  <2>1. <<>> \in Seq(Entry) /\ <<>> \in Seq(Command)
    OBVIOUS
  <2>2. cached \in Int \X Int
    BY <1>1
  <2> QED
    BY <1>1, <1>2, <2>1, <2>2 DEF MessagesInv
<1> QED
  BY <1>1, <1>3 DEF ControlInv, CalmInv, InStep

LEMMA SendStep ==
    ASSUME ControlInv, NEW tilts \in Tilt \X Tilt, Send(tilts),
           UNCHANGED <<open, garbage, wire, answers, serialQueue, obeyed, conn>>
    PROVE  ControlInv'
<1> DEFINE speeds == <<Discretize(tilts[1]), Discretize(tilts[2])>>
<1>1. speeds \in Int \X Int /\ Line(speeds) \in Command
  BY LineIsCommand
<1> HIDE DEF speeds
<1>2. CASE speeds # cached /\ open
  <2> DEFINE new == [line |-> Line(speeds), id |-> msgCounter, conn |-> conn]
  <2>1. /\ up' = Append(up, new) /\ calm' = (calm \/ Quiet)
        /\ cached' = speeds /\ msgCounter' = msgCounter + 1
    BY <1>2 DEF Send, speeds
  <2>2. new \in Entry /\ new.line = Line(speeds)
    BY <1>1 DEF Entry, ControlInv, MessagesInv
  <2> HIDE DEF new
  <2>3. up' \in Seq(Entry) /\ up' # <<>> /\ up'[Len(up')] = new
    <3>1. up \in Seq(Entry) /\ Len(up) \in Nat
      BY Length DEF ControlInv, MessagesInv
    <3> QED
      BY <2>1, <2>2, <3>1, AppendProperties
  <2>4. MessagesInv'
    BY <1>1, <2>1, <2>3 DEF ControlInv, MessagesInv, Quiet
  <2>5. LastCommand' = Line(cached)'
    BY <2>1, <2>2, <2>3 DEF LastCommand, Line
  <2>6. CalmInv'
    <3>1. CASE calm
      BY <1>2, <2>1, <2>5, <3>1 DEF ControlInv, CalmInv
    <3>2. CASE ~calm /\ ~Quiet
      BY <2>1, <3>2 DEF CalmInv
    <3>3. CASE Quiet
      <4>1. answers' = <<>> /\ wire' = <<>> /\ Len(answers') = 0
        BY <3>3 DEF Quiet
      <4> QED
        BY <1>2, <2>5, <4>1 DEF CalmInv
    <3> QED
      BY <3>1, <3>2, <3>3
  <2>7. InStep'
    <3>1. Quiet => Len(wire) + Len(answers) = 0 /\ serialQueue = <<>>
      BY DEF Quiet
    <3> QED
      BY <2>1, <3>1, Zenon DEF ControlInv, InStep
  <2> QED
    BY <2>4, <2>6, <2>7 DEF ControlInv
<1>3. CASE ~(speeds # cached /\ open)
  <2>1. UNCHANGED <<up, calm, msgCounter>> /\ cached' = speeds
    BY <1>3 DEF Send, speeds
  <2>2. calm => cached' = cached
    BY <1>3, <2>1 DEF ControlInv, CalmInv
  <2>3. CalmInv'
    BY <2>1, <2>2 DEF ControlInv, CalmInv, LastCommand
  <2> QED
    BY <1>1, <2>1, <2>3 DEF ControlInv, MessagesInv, InStep
<1> QED
  BY <1>2, <1>3

LEMMA AcceptStep == ControlInv /\ Accept => ControlInv'
<1> SUFFICES ASSUME ControlInv, Accept PROVE ControlInv'
  OBVIOUS
<1>1. /\ up \in Seq(Entry) /\ serialQueue \in Seq(Entry) /\ wire \in Seq(Command)
      /\ answers \in Seq(Word)
      /\ Len(wire) \in Nat /\ (wire = <<>> <=> Len(wire) = 0)
      /\ Len(answers) \in Nat /\ (answers = <<>> <=> Len(answers) = 0)
      /\ Len(serialQueue) \in Nat /\ (serialQueue = <<>> <=> Len(serialQueue) = 0)
  BY Queues
<1>2. /\ up # <<>> /\ up' = Tail(up) /\ serialQueue' = Append(serialQueue, Head(up))
      /\ wire' = IF serialQueue = <<>> THEN Append(wire, Head(up).line) ELSE wire
      /\ UNCHANGED <<garbage, answers, open, cached, msgCounter, conn, obeyed, calm>>
  BY DEF Accept, Enqueue, browserVars, history
<1>3. Head(up) \in Entry /\ Head(up).line \in Command
  BY <1>1, <1>2, Rest1, EntryLine
<1>4. MessagesInv'
  BY <1>1, <1>2, <1>3 DEF ControlInv, MessagesInv
<1>5. /\ serialQueue' # <<>> /\ Len(serialQueue') = Len(serialQueue) + 1
      /\ serialQueue'[Len(serialQueue')] = Head(up)
      /\ serialQueue # <<>> => serialQueue'[1] = serialQueue[1]
      /\ serialQueue = <<>> => serialQueue'[1] = Head(up)
  BY <1>1, <1>2, <1>3, AppendProperties, Length
<1>6. /\ serialQueue = <<>> => wire' # <<>> /\ Len(wire') = Len(wire) + 1
      /\ serialQueue = <<>> /\ wire = <<>> => wire'[1] = Head(up).line
      /\ wire = <<>> => Len(wire) = 0
      /\ garbage => wire' # <<>>
  <2>1. CASE serialQueue = <<>>
    <3>1. /\ wire' # <<>> /\ Len(wire') = Len(wire) + 1 /\ wire'[Len(wire) + 1] = Head(up).line
      BY <1>1, <1>2, <1>3, <2>1, AppendProperties
    <3> QED
      BY <1>1, <2>1, <3>1
  <2>2. CASE serialQueue # <<>>
    BY <1>1, <1>2, <2>2 DEF ControlInv
  <2> QED
    BY <2>1, <2>2
<1>7. /\ up' = <<>> => Head(up) = up[Len(up)]
      /\ up' # <<>> => up'[Len(up')] = up[Len(up)]
  <2>1. /\ Head(up) = up[1] /\ Len(up') = Len(up) - 1 /\ Len(up) \in Nat \ {0}
        /\ up' = <<>> <=> Len(up) = 1
        /\ \A i \in 2 .. Len(up) : up'[i - 1] = up[i]
    <3>1. /\ Head(up) = up[1] /\ Len(Tail(up)) = Len(up) - 1 /\ Len(up) \in Nat \ {0}
          /\ Tail(up) = <<>> <=> Len(up) = 1
          /\ \A i \in 2 .. Len(up) : Tail(up)[i - 1] = up[i]
      BY <1>1, <1>2, Rest1
    <3> QED
      BY <1>2, <3>1
  <2> QED
    BY <2>1
<1>8. InStep'
  BY <1>1, <1>2, <1>5, <1>6 DEF ControlInv, InStep
<1>9. ASSUME calm PROVE LastCommand' = LastCommand
  <2>1. serialQueue = <<>> => answers = <<>>
    BY <1>1, <1>9 DEF ControlInv, InStep
  <2>2. LastCommand = up[Len(up)].line
    BY <1>2 DEF LastCommand
  <2>3. ~(serialQueue' = <<>> \/ (Len(serialQueue') = 1 /\ answers' # <<>>))
    BY <1>1, <1>2, <1>5, <2>1
  <2>4. LastCommand' = IF up' # <<>> THEN up'[Len(up')].line ELSE serialQueue'[Len(serialQueue')].line
    BY <2>3 DEF LastCommand
  <2> QED
    BY <1>5, <1>7, <2>2, <2>4
<1>10. ASSUME calm, wire' # <<>> PROVE ~garbage /\ wire'[1] = serialQueue'[1].line
  <2>1. serialQueue = <<>> => wire = <<>>
    BY <1>1, <1>10 DEF ControlInv, InStep
  <2> QED
    BY <1>2, <1>5, <1>6, <1>10, <2>1 DEF ControlInv, CalmInv
<1>11. CalmInv'
  BY <1>2, <1>9, <1>10 DEF ControlInv, CalmInv, Line
<1> QED
  BY <1>2, <1>4, <1>6, <1>8, <1>11 DEF ControlInv

LEMMA HeardStep == ControlInv /\ Heard => ControlInv'
<1> SUFFICES ASSUME ControlInv, Heard PROVE ControlInv'
  OBVIOUS
<1>1. /\ up \in Seq(Entry) /\ serialQueue \in Seq(Entry) /\ wire \in Seq(Command)
      /\ answers \in Seq(Word)
      /\ Len(wire) \in Nat /\ (wire = <<>> <=> Len(wire) = 0)
      /\ Len(answers) \in Nat /\ (answers = <<>> <=> Len(answers) = 0)
      /\ Len(serialQueue) \in Nat /\ (serialQueue = <<>> <=> Len(serialQueue) = 0)
  BY Queues
<1>2. /\ answers # <<>> /\ answers' = Tail(answers)
      /\ UNCHANGED <<garbage, open, cached, msgCounter, conn, up, obeyed, calm>>
  BY DEF Heard, browserVars, history
<1>3. answers' \in Seq(Word) /\ Len(answers') = Len(answers) - 1 /\ Len(answers) >= 1
      /\ Head(answers) = answers[1]
  BY <1>1, <1>2
<1>4. ASSUME Head(answers) = "READY", Welcome PROVE ControlInv'
  <2>1. /\ serialQueue' = <<ToStop>> /\ wire' = Append(wire, Stop)
        /\ serialQueue' \in Seq(Entry) /\ wire' \in Seq(Command) /\ wire' # <<>>
    BY <1>1, <1>4, StopIsCommand, AppendProperties DEF Welcome
  <2>2. ~calm
    BY <1>1, <1>3, <1>4 DEF ControlInv, CalmInv
  <2>3. MessagesInv'
    BY <1>1, <1>2, <1>3, <2>1 DEF ControlInv, MessagesInv
  <2> QED
    BY <1>2, <2>1, <2>2, <2>3 DEF ControlInv, CalmInv, InStep
<1>5. ASSUME Head(answers) # "READY", serialQueue = <<>>, UNCHANGED <<down, serialQueue, wire>>
      PROVE  ControlInv'
  <2>1. ~calm
    BY <1>1, <1>3, <1>5 DEF ControlInv, InStep
  <2>2. MessagesInv'
    BY <1>1, <1>2, <1>3, <1>5 DEF ControlInv, MessagesInv
  <2> QED
    BY <1>2, <1>5, <2>1, <2>2 DEF ControlInv, CalmInv, InStep
<1>6. ASSUME Head(answers) # "READY", serialQueue # <<>>, Dequeue PROVE ControlInv'
  <2>1. /\ serialQueue' = Tail(serialQueue)
        /\ wire' = IF Len(serialQueue) > 1 THEN Append(wire, serialQueue[2].line) ELSE wire
    BY <1>6 DEF Dequeue
  <2>2. Len(serialQueue) > 1 => serialQueue[2] \in Entry /\ serialQueue[2].line \in Command
    BY <1>1, <1>6, Rest1, EntryLine
  <2>3. /\ serialQueue' \in Seq(Entry) /\ wire' \in Seq(Command)
        /\ Len(serialQueue') = Len(serialQueue) - 1
        /\ serialQueue' # <<>> <=> Len(serialQueue) > 1
        /\ serialQueue' = <<>> <=> Len(serialQueue) = 1
        /\ Len(serialQueue) > 1 =>
               /\ wire' # <<>> /\ Len(wire') = Len(wire) + 1 /\ serialQueue'[1] = serialQueue[2]
               /\ serialQueue'[Len(serialQueue')] = serialQueue[Len(serialQueue)]
               /\ wire = <<>> => wire'[1] = serialQueue[2].line
        /\ ~(Len(serialQueue) > 1) => Len(serialQueue) = 1 /\ wire' = wire
    <3>1. /\ serialQueue' \in Seq(Entry) /\ Len(serialQueue') = Len(serialQueue) - 1
          /\ Len(serialQueue) \in Nat \ {0}
          /\ serialQueue' = <<>> <=> Len(serialQueue) = 1
          /\ \A i \in 2 .. Len(serialQueue) : serialQueue'[i - 1] = serialQueue[i]
      <4>1. /\ Tail(serialQueue) \in Seq(Entry)
            /\ Len(Tail(serialQueue)) = Len(serialQueue) - 1
            /\ Len(serialQueue) \in Nat \ {0}
            /\ Tail(serialQueue) = <<>> <=> Len(serialQueue) = 1
            /\ \A i \in 2 .. Len(serialQueue) : Tail(serialQueue)[i - 1] = serialQueue[i]
        BY <1>1, <1>6, Rest1
      <4> QED
        BY <2>1, <4>1
    <3>2. CASE Len(serialQueue) > 1
      <4>1. /\ wire' \in Seq(Command) /\ wire' # <<>> /\ Len(wire') = Len(wire) + 1
            /\ wire = <<>> => wire'[1] = serialQueue[2].line
        BY <1>1, <2>1, <2>2, <3>2, AppendProperties, Length
      <4> QED
        BY <3>1, <3>2, <4>1
    <3>3. CASE ~(Len(serialQueue) > 1)
      BY <1>1, <2>1, <3>1, <3>3
    <3> QED
      BY <3>2, <3>3
  <2>4. MessagesInv'
    BY <1>1, <1>2, <1>3, <2>3 DEF ControlInv, MessagesInv
  <2>5. InStep'
    BY <1>1, <1>2, <1>3, <1>6, <2>3 DEF ControlInv, InStep
  <2>6. garbage' => wire' # <<>>
    BY <1>2, <2>3 DEF ControlInv
  <2>7. ASSUME calm PROVE wire = <<>> /\ answers' = <<>> /\ ~garbage
    BY <1>1, <1>3, <1>6, <2>7 DEF ControlInv, InStep
  <2>8. ASSUME calm PROVE LastCommand' = LastCommand
    <3>1. CASE up # <<>>
      BY <1>2, <3>1 DEF LastCommand
    <3>2. CASE up = <<>> /\ Len(serialQueue) > 1
      <4>1. ~(serialQueue = <<>> \/ (Len(serialQueue) = 1 /\ answers # <<>>))
        BY <1>6, <2>3, <3>2, Zenon
      <4>2. ~(serialQueue' = <<>> \/ (Len(serialQueue') = 1 /\ answers' # <<>>))
        BY <2>3, <2>7, <2>8, <3>2
      <4> QED
        BY <1>2, <2>3, <3>2, <4>1, <4>2 DEF LastCommand
    <3>3. CASE up = <<>> /\ ~(Len(serialQueue) > 1)
      BY <1>2, <2>3, <3>3 DEF LastCommand
    <3> QED
      BY <3>1, <3>2, <3>3
  <2>9. CalmInv'
    <3>1. SUFFICES ASSUME calm PROVE CalmInv'
      BY <1>2 DEF CalmInv
    <3>2. wire' # <<>> => wire'[1] = serialQueue'[1].line
      BY <2>3, <2>7, <3>1
    <3>3. \A i \in 1 .. Len(answers') : answers'[i] # "READY"
      BY <2>7, <3>1
    <3> QED
      BY <1>2, <2>7, <2>8, <3>1, <3>2, <3>3 DEF ControlInv, CalmInv, Line
  <2> QED
    BY <2>4, <2>5, <2>6, <2>9 DEF ControlInv
<1> QED
  BY <1>4, <1>5, <1>6 DEF Heard

LEMMA ObeyStep == ControlInv /\ RobotObeys => ControlInv'
<1> SUFFICES ASSUME ControlInv, RobotObeys PROVE ControlInv'
  OBVIOUS
<1>1. /\ up \in Seq(Entry) /\ serialQueue \in Seq(Entry) /\ wire \in Seq(Command)
      /\ answers \in Seq(Word)
      /\ Len(wire) \in Nat /\ (wire = <<>> <=> Len(wire) = 0)
      /\ Len(answers) \in Nat /\ (answers = <<>> <=> Len(answers) = 0)
      /\ Len(serialQueue) \in Nat /\ (serialQueue = <<>> <=> Len(serialQueue) = 0)
  BY Queues
<1> DEFINE answer == IF IsCommand THEN "OK" ELSE "ERROR"
<1>2. /\ wire # <<>> /\ wire' = Tail(wire) /\ garbage' \in {FALSE, wire' # <<>>}
      /\ answers' = Append(answers, answer)
      /\ obeyed' = IF answers'[Len(answers')] = "OK" THEN Head(wire) ELSE obeyed
      /\ UNCHANGED <<open, cached, msgCounter, conn, up, serialQueue, calm>>
  BY DEF RobotObeys, Obey, browserVars, socketVars
<1>3. answer \in Word /\ answer # "READY" /\ (answer = "OK" \/ answer = "ERROR")
  BY DEF Word
<1>4. Head(wire) = wire[1] /\ Head(wire)[1] \in Direction /\ Head(wire)[3] \in Direction
  BY <1>1, <1>2 DEF Command
<1>5. ~garbage => answer = "OK"
  BY <1>4 DEF IsCommand
<1> HIDE DEF answer
<1>6. /\ answers' \in Seq(Word) /\ answers' # <<>> /\ Len(answers') = Len(answers) + 1
      /\ answers'[Len(answers')] = answer /\ wire' \in Seq(Command)
      /\ Len(wire') = Len(wire) - 1 /\ Len(wire) >= 1
      /\ \A i \in 1 .. Len(answers') : \/ i \in 1 .. Len(answers) /\ answers'[i] = answers[i]
                                       \/ answers'[i] = answer
  <2>1. /\ wire' \in Seq(Command) /\ Len(wire') = Len(wire) - 1 /\ Len(wire) >= 1
    BY <1>1, <1>2, Rest1
  <2>2. /\ answers' \in Seq(Word) /\ answers' # <<>> /\ Len(answers') = Len(answers) + 1
        /\ answers'[Len(answers) + 1] = answer /\ Len(answers) \in Nat
        /\ \A i \in 1 .. Len(answers) : answers'[i] = answers[i]
    BY <1>1, <1>2, <1>3, AppendProperties, Length
  <2> QED
    BY <2>1, <2>2
<1>7. MessagesInv'
  BY <1>1, <1>2, <1>6 DEF ControlInv, MessagesInv
<1>8. InStep'
  BY <1>1, <1>2, <1>6 DEF ControlInv, InStep
<1>9. CalmInv'
  <2>1. SUFFICES ASSUME calm PROVE CalmInv'
    BY <1>2 DEF CalmInv
  <2>2. /\ serialQueue # <<>> /\ answers = <<>> /\ wire' = <<>>
        /\ ~garbage /\ Head(wire) = serialQueue[1].line
    BY <1>1, <1>2, <1>4, <1>6, <2>1 DEF ControlInv, InStep, CalmInv
  <2>3. obeyed' = serialQueue[1].line
    BY <1>2, <1>5, <1>6, <2>2
  <2>4. LastCommand' = LastCommand
    BY <1>1, <1>2, <1>6, <2>2, <2>3 DEF LastCommand
  <2>5. \A i \in 1 .. Len(answers') : answers'[i] # "READY"
    BY <1>3, <1>6, <2>1 DEF ControlInv, CalmInv
  <2> QED
    BY <1>2, <2>1, <2>2, <2>4, <2>5 DEF ControlInv, CalmInv, Line
<1> QED
  BY <1>2, <1>7, <1>8, <1>9 DEF ControlInv

LEMMA RestartStep == ControlInv /\ RobotRestarts => ControlInv'
<1> SUFFICES ASSUME ControlInv, RobotRestarts PROVE ControlInv'
  OBVIOUS
<1>1. /\ wire \in Seq(Command) /\ answers \in Seq(Word)
  BY DEF ControlInv, MessagesInv
<1>2. /\ UNCHANGED <<open, cached, msgCounter, conn, up, serialQueue>> /\ calm' = FALSE
      /\ \/ answers' = Append(answers, "READY")
         \/ answers # <<>> /\ answers' = [answers EXCEPT ![Len(answers)] = "garbled"]
  BY DEF RobotRestarts, Restart, browserVars, socketVars
<1>3. answers' \in Seq(Word) /\ answers' # <<>>
  BY <1>1, <1>2 DEF Word
<1>4. PICK k \in 0 .. Len(wire) : /\ wire' = SubSeq(wire, k + 1, Len(wire))
                                  /\ garbage' \in {garbage /\ k = 0, wire' # <<>>}
  BY DEF RobotRestarts, Restart
<1>5. wire' \in Seq(Command) /\ (k = 0 => wire' = wire)
  BY <1>1, <1>4
<1>6. garbage' \in BOOLEAN /\ (garbage' => wire' # <<>>)
  BY <1>4, <1>5 DEF ControlInv, MessagesInv
<1>7. MessagesInv'
  BY <1>2, <1>3, <1>5, <1>6 DEF ControlInv, MessagesInv
<1> QED
  BY <1>2, <1>3, <1>6, <1>7 DEF ControlInv, CalmInv, InStep

LEMMA BreakStep == ControlInv /\ Break => ControlInv'
<1> SUFFICES ASSUME ControlInv, Break PROVE ControlInv'
  OBVIOUS
<1>1. up \in Seq(Entry) /\ Len(up) \in Nat /\ conn \in Int
  BY Length DEF ControlInv, MessagesInv
<1>2. PICK k \in 0 .. Len(up) : up' = SubSeq(up, 1, k)
  BY DEF Break
<1>3. up' \in Seq(Entry)
  BY <1>1, <1>2, ElementOfSeq, SubSeqProperties
<1>4. /\ UNCHANGED <<garbage, wire, answers, cached, msgCounter, serialQueue>>
      /\ open' = FALSE /\ conn' = conn + 1 /\ calm' = FALSE
  BY DEF Break, robotVars
<1>5. conn' \in Int /\ open' \in BOOLEAN /\ calm' \in BOOLEAN
  <2>1. conn' \in Int
    BY <1>1, <1>4
  <2>2. open' \in BOOLEAN /\ calm' \in BOOLEAN
    BY <1>4, Zenon
  <2> QED
    BY <2>1, <2>2
<1>6. MessagesInv'
  BY <1>3, <1>4, <1>5 DEF ControlInv, MessagesInv
<1> QED
  BY <1>4, <1>6 DEF ControlInv, CalmInv, InStep

LEMMA InvStep == ControlInv /\ [Next]_vars => ControlInv'
<1> SUFFICES ASSUME ControlInv, [Next]_vars PROVE ControlInv'
  OBVIOUS
<1> USE DEF ControlInv, MessagesInv, CalmInv, InStep, LastCommand, Line
<1>1. ASSUME NEW side \in Side, Touch(side) PROVE ControlInv'
  BY <1>1 DEF Touch, robotVars, socketVars, history
<1>2. ASSUME NEW tilts \in Tilts, Move(tilts) PROVE ControlInv'
  <2>1. tilts \in Tilt \X Tilt
    BY ControlAssumption DEF Tilt
  <2> QED
    BY <1>2, <2>1, SendStep DEF Move, robotVars
<1>3. ASSUME NEW from \in SUBSET Side, Lift(from) PROVE ControlInv'
  <2>1. <<0, 0>> \in Tilt \X Tilt
    BY DEF Tilt
  <2> QED
    BY <1>3, <2>1, SendStep DEF Lift, robotVars
<1>4. CASE Reply
  BY <1>4 DEF Reply, robotVars, history
<1>5. CASE Connect
  BY <1>5 DEF Connect, robotVars, socketVars, history
<1>6. CASE UNCHANGED vars
  BY <1>6 DEF vars, robotVars, browserVars, socketVars, history
<1> QED
  BY <1>1, <1>2, <1>3, <1>4, <1>5, <1>6,
     BreakStep, AcceptStep, HeardStep, ObeyStep, RestartStep DEF Next

LEMMA Invariant == Spec => []ControlInv
  BY InvInit, InvStep, PTL DEF Spec

\* The server never waits for an answer that cannot come, and what is answered
\* is the command it is taken for unless the robot has started since
\* (_serialDequeue): for any number of commands, lost connections and restarts.
THEOREM CommandsInStep == Spec => []InStep
<1>1. ControlInv => InStep
  BY DEF ControlInv
<1> QED
  BY <1>1, Invariant, PTL

\* When all is quiet the robot obeys what the page believes (m0Speed and m1Speed
\* of api.js), unless a connection was lost or the robot has started.
THEOREM PageBelievesRight == Spec => []Believed
<1>1. ControlInv => Believed
  BY DEF ControlInv, CalmInv, Believed, Quiet, LastCommand
<1> QED
  BY <1>1, Invariant, PTL

-----------------------------------------------------------------------------
(* Types: what the page numbers and the server accepts stays in its range. *)

Speeds == (-255 .. 255) \X (-255 .. 255)

\* Each move is the source of two messages at most: its own and the stop that
\* follows it.
Owed(speeds) == IF speeds = <<0, 0>> THEN 0 ELSE 1
Sent == msgCounter + Owed(cached) <= 2 * moves

PageTypes ==
    /\ open \in BOOLEAN /\ fingers \subseteq Side /\ cached \in Speeds
    /\ pending \subseteq Ids /\ msgCounter \in Nat /\ moves \in 0 .. MaxMoves
    /\ Sent

SocketTypes ==
    /\ conn \in 0 .. MaxFaults /\ resets \in 0 .. MaxFaults /\ conn + resets <= MaxFaults
    /\ up \in Seq(Asked) /\ down \in Seq(Ids) /\ serialQueue \in Seq(Asked \cup {ToStop})

RobotTypes ==
    /\ board \in {"msv1", "mvla"} /\ garbage \in BOOLEAN
    /\ wire \in Seq(Lines) /\ answers \in Seq(Word)
    /\ obeyed \in Lines \cup {None} /\ calm \in BOOLEAN

TypeInv == PageTypes /\ SocketTypes /\ RobotTypes

LEMMA Bounds == MaxMoves \in Nat /\ MaxFaults \in Nat
BY ControlAssumption

LEMMA TypesAre == TypeInv => TypeOK
BY DEF TypeInv, PageTypes, SocketTypes, RobotTypes, Speeds, TypeOK, Word

LEMMA TypeInit == Init => TypeInv
<1> SUFFICES ASSUME Init PROVE TypeInv
  OBVIOUS
<1>1. PageTypes
  <2>1. cached \in Speeds
    BY DEF Init, Speeds
  <2>2. Sent
    BY DEF Init, Sent, Owed
  <2>3. open \in BOOLEAN /\ fingers \subseteq Side /\ pending \subseteq Ids
    BY DEF Init
  <2>4. msgCounter \in Nat /\ moves \in 0 .. MaxMoves
    BY Bounds DEF Init
  <2> QED
    BY <2>1, <2>2, <2>3, <2>4 DEF PageTypes
<1>2. SocketTypes
  BY Bounds DEF Init, SocketTypes
<1>3. RobotTypes
  <2>1. answers \in Seq(Word)
    BY DEF Init, RobotInit, Word
  <2>2. wire \in Seq(Lines)
    BY DEF Init, RobotInit
  <2> QED
    BY <2>1, <2>2 DEF Init, RobotInit, RobotTypes
<1> QED
  BY <1>1, <1>2, <1>3 DEF TypeInv

LEMMA LineInRange ==
    ASSUME NEW tilts \in Tilt \X Tilt
    PROVE  LET speeds == <<Discretize(tilts[1]), Discretize(tilts[2])>>
           IN  speeds \in Speeds /\ Line(speeds) \in Lines
<1>1. \A t \in Tilt : Discretize(t) \in -255 .. 255
  <2>1. SUFFICES ASSUME NEW t \in Tilt PROVE Discretize(t) \in -255 .. 255
    OBVIOUS
  <2>2. \A p \in Int : DiscretizePositive(p) \in {0, 127, 189, 255}
    BY DEF DiscretizePositive
  <2>3. t \in Int /\ -t \in Int
    BY DEF Tilt
  <2>4. DiscretizePositive(t) \in {0, 127, 189, 255} /\ DiscretizePositive(-t) \in {0, 127, 189, 255}
    BY <2>2, <2>3
  <2>5. Discretize(t) = -DiscretizePositive(-t) \/ Discretize(t) = DiscretizePositive(t)
    BY DEF Discretize
  <2> QED
    BY <2>4, <2>5
<1> DEFINE speeds == <<Discretize(tilts[1]), Discretize(tilts[2])>>
<1>2. speeds \in Speeds
  BY <1>1 DEF Speeds
<1>3. speeds[1] \in -255 .. 255 /\ speeds[2] \in -255 .. 255
  BY <1>2 DEF Speeds
<1> HIDE DEF speeds
<1>4. Line(speeds) \in Lines
  <2>1. PICK x \in -255 .. 255, y \in -255 .. 255 : x = speeds[1] /\ y = speeds[2]
    BY <1>3
  <2> DEFINE d(s) == IF s > 0 THEN FORWARD ELSE IF s < 0 THEN BACKWARD ELSE 0
             a(s) == IF s < 0 THEN -s ELSE s
  <2>2. \A s \in -255 .. 255 : d(s) \in 0 .. 3 /\ a(s) \in 0 .. 255
    BY DEF FORWARD, BACKWARD
  <2>3. Line(speeds) = <<d(x), a(x), d(y), a(y)>>
    BY <2>1 DEF Line
  <2> HIDE DEF d, a
  <2>4. d(x) \in 0 .. 3 /\ a(x) \in 0 .. 255 /\ d(y) \in 0 .. 3 /\ a(y) \in 0 .. 255
    BY <2>2
  <2>5. \A p, r \in 0 .. 3, q, t \in 0 .. 255 : <<p, q, r, t>> \in Lines
    BY DEF Lines
  <2> QED
    BY <2>3, <2>4, <2>5, Zenon
<1> QED
  BY <1>2, <1>4 DEF speeds

\* What sending does, when the move that caused it is counted.
LEMMA SendTypes ==
    ASSUME TypeInv, NEW tilts \in Tilt \X Tilt, Send(tilts),
           \/ moves' = moves + 1 /\ moves < MaxMoves
           \/ moves' = moves /\ tilts = <<0, 0>>,
           open' = open, fingers' \subseteq Side,
           UNCHANGED <<conn, resets, down, serialQueue>>,
           UNCHANGED <<board, garbage, wire, answers, obeyed>>
    PROVE  TypeInv'
<1> DEFINE speeds == <<Discretize(tilts[1]), Discretize(tilts[2])>>
<1>1. speeds \in Speeds /\ Line(speeds) \in Lines
  BY LineInRange
<1>2. tilts = <<0, 0>> => speeds = <<0, 0>>
  BY DEF Discretize, DiscretizePositive
<1>3. cached' = speeds
  BY DEF Send
<1>4. /\ moves' \in 0 .. MaxMoves /\ moves \in Nat /\ msgCounter \in Nat
      /\ msgCounter + Owed(cached) <= 2 * moves
  BY Bounds DEF TypeInv, PageTypes, Sent
<1>5. CASE speeds # cached /\ open
  <2> DEFINE new == [line |-> Line(speeds), id |-> msgCounter, conn |-> conn]
  <2>1. /\ pending' = pending \cup {msgCounter} /\ msgCounter' = msgCounter + 1
        /\ up' = Append(up, new) /\ calm' = (calm \/ Quiet)
    BY <1>5 DEF Send
  <2> HIDE DEF speeds
  <2>2. msgCounter + 1 + Owed(speeds) <= 2 * moves'
    <3>1. Owed(speeds) \in {0, 1} /\ Owed(cached) \in {0, 1}
      BY DEF Owed
    <3>2. CASE moves' = moves + 1
      BY <1>4, <3>1, <3>2
    <3>3. CASE moves' = moves /\ tilts = <<0, 0>>
      <4>1. Owed(speeds) = 0 /\ Owed(cached) = 1
        BY <1>2, <1>5, <3>3 DEF Owed
      <4> QED
        BY <1>4, <3>3, <4>1
    <3> QED
      BY <3>2, <3>3
  <2>3. msgCounter \in Ids
    <3>1. Owed(speeds) \in {0, 1}
      BY DEF Owed
    <3>2. msgCounter <= 2 * MaxMoves - 1
      BY <1>4, <2>2, <3>1, Bounds
    <3> QED
      BY <1>4, <3>2, Bounds DEF Ids
  <2>4. PageTypes'
    <3>1. Sent'
      BY <1>3, <2>1, <2>2 DEF Sent, Owed
    <3>2. msgCounter' \in Nat /\ pending' \subseteq Ids /\ open' \in BOOLEAN
      BY <1>4, <2>1, <2>3 DEF TypeInv, PageTypes
    <3> QED
      BY <1>1, <1>3, <1>4, <3>1, <3>2 DEF PageTypes
  <2>5. new \in Asked
    BY <1>1, <2>3 DEF Asked, TypeInv, SocketTypes
  <2> HIDE DEF new
  <2>6. SocketTypes'
    BY <2>1, <2>5, AppendProperties DEF TypeInv, SocketTypes
  <2>7. calm' \in BOOLEAN
    BY <2>1 DEF TypeInv, RobotTypes, Quiet
  <2>8. RobotTypes'
    BY <2>7 DEF TypeInv, RobotTypes
  <2> QED
    BY <2>4, <2>6, <2>8 DEF TypeInv
<1>6. CASE ~(speeds # cached /\ open)
  <2>1. UNCHANGED <<pending, msgCounter, up, calm>>
    BY <1>6 DEF Send
  <2> HIDE DEF speeds
  <2>2. msgCounter + Owed(speeds) <= 2 * moves'
    <3>1. Owed(speeds) \in {0, 1} /\ Owed(cached) \in {0, 1}
      BY DEF Owed
    <3>2. CASE moves' = moves + 1
      BY <1>4, <3>1, <3>2
    <3>3. CASE moves' = moves /\ tilts = <<0, 0>>
      <4>1. Owed(speeds) = 0
        BY <1>2, <3>3 DEF Owed
      <4> QED
        BY <1>4, <3>1, <3>3, <4>1
    <3> QED
      BY <3>2, <3>3
  <2>3. Sent'
    BY <1>3, <2>1, <2>2 DEF Sent, Owed
  <2>4. PageTypes'
    BY <1>1, <1>3, <1>4, <2>1, <2>3 DEF TypeInv, PageTypes
  <2> QED
    BY <2>1, <2>4 DEF TypeInv, SocketTypes, RobotTypes
<1> QED
  BY <1>5, <1>6

\* What is answered has a number of a promise.
LEMMA AnswerTypes ==
    ASSUME TypeInv, NEW entries \in Seq(Asked \cup {ToStop}), Answer(entries)
    PROVE  down' \in Seq(Ids)
<1> DEFINE live == {i \in DOMAIN entries : entries[i].conn = conn}
           n == Cardinality(live)
<1>1. PICK order \in [1 .. n -> live] : 
          down' = down \o [i \in DOMAIN order |-> entries[order[i]].id]
  BY DEF Answer
<1>2. \A i \in live : entries[i].id \in Ids
  <2>1. ASSUME NEW i \in live PROVE entries[i].id \in Ids
    <3>1. entries[i] \in Asked \cup {ToStop} /\ entries[i].conn = conn
      OBVIOUS
    <3>2. conn # Nobody
      BY Bounds DEF TypeInv, SocketTypes, Nobody
    <3>3. entries[i] \in Asked
      BY <3>1, <3>2 DEF ToStop
    <3> QED
      BY <3>3 DEF Asked
  <2> QED
    BY <2>1
<1>3. n \in Nat
  <2>1. IsFiniteSet(1 .. Len(entries)) /\ live \subseteq 1 .. Len(entries)
    BY FS_Interval
  <2>2. IsFiniteSet(live)
    BY <2>1, FS_Subset
  <2> QED
    BY <2>2, FS_CardinalityType
<1> HIDE DEF live, n
<1>4. [i \in DOMAIN order |-> entries[order[i]].id] \in Seq(Ids)
  <2>1. DOMAIN order = 1 .. n
    OBVIOUS
  <2>2. [i \in DOMAIN order |-> entries[order[i]].id] \in [1 .. n -> Ids]
    BY <1>2, <2>1
  <2> QED
    BY <1>3, <2>2
<1>5. down \in Seq(Ids)
  BY DEF TypeInv, SocketTypes
<1> QED
  BY <1>1, <1>4, <1>5, ConcatProperties

LEMMA StopTypes == Stop \in Lines
  BY DEF Stop, Lines

LEMMA QueueLines == \A e \in Asked \cup {ToStop} : e.line \in Lines
  BY StopTypes DEF Asked, ToStop

LEMMA AcceptTypes == TypeInv /\ Accept => TypeInv'
<1> SUFFICES ASSUME TypeInv, Accept PROVE TypeInv'
  OBVIOUS
<1>1. /\ up # <<>> /\ up' = Tail(up) /\ serialQueue' = Append(serialQueue, Head(up))
      /\ wire' = IF serialQueue = <<>> THEN Append(wire, Head(up).line) ELSE wire
      /\ UNCHANGED <<board, garbage, answers, browserVars, conn, down, history>>
  BY DEF Accept, Enqueue
<1>2. Head(up) \in Asked /\ up' \in Seq(Asked)
  BY <1>1, Rest1 DEF TypeInv, SocketTypes
<1>3. Head(up).line \in Lines
  BY <1>2, QueueLines
<1>4. wire' \in Seq(Lines)
  BY <1>1, <1>3 DEF TypeInv, RobotTypes
<1>5. serialQueue' \in Seq(Asked \cup {ToStop})
  BY <1>1, <1>2 DEF TypeInv, SocketTypes
<1> QED
  BY <1>1, <1>2, <1>4, <1>5
  DEF TypeInv, PageTypes, SocketTypes, RobotTypes, Sent, browserVars, history

LEMMA HeardTypes == TypeInv /\ Heard => TypeInv'
<1> SUFFICES ASSUME TypeInv, Heard PROVE TypeInv'
  OBVIOUS
<1>1. /\ answers # <<>> /\ answers' = Tail(answers)
      /\ UNCHANGED <<board, garbage, browserVars, conn, up, history>>
  BY DEF Heard
<1>2. answers' \in Seq(Word)
  BY <1>1, Rest1 DEF TypeInv, RobotTypes
<1>3. /\ down' \in Seq(Ids) /\ serialQueue' \in Seq(Asked \cup {ToStop}) /\ wire' \in Seq(Lines)
  <2>1. /\ down \in Seq(Ids) /\ serialQueue \in Seq(Asked \cup {ToStop}) /\ wire \in Seq(Lines)
    BY DEF TypeInv, SocketTypes, RobotTypes
  <2>2. CASE Welcome
    <3>1. down' \in Seq(Ids)
      BY <2>1, <2>2, AnswerTypes DEF Welcome
    <3>2. ToStop \in Asked \cup {ToStop}
      OBVIOUS
    <3> HIDE DEF ToStop
    <3> QED
      BY <2>1, <2>2, <3>1, <3>2, StopTypes DEF Welcome
  <2>3. CASE UNCHANGED <<down, serialQueue, wire>>
    BY <2>1, <2>3
  <2>4. CASE serialQueue # <<>> /\ Dequeue
    <3>1. Head(serialQueue) \in Asked \cup {ToStop} /\ Tail(serialQueue) \in Seq(Asked \cup {ToStop})
      BY <2>1, <2>4, Rest1
    <3>2. <<Head(serialQueue)>> \in Seq(Asked \cup {ToStop})
      BY <3>1
    <3>3. down' \in Seq(Ids)
      BY <2>4, <3>2, AnswerTypes DEF Dequeue
    <3>4. Len(serialQueue) > 1 => serialQueue[2].line \in Lines
      BY <2>1, <2>4, Rest1, QueueLines
    <3>5. wire' \in Seq(Lines)
      BY <2>1, <2>4, <3>4 DEF Dequeue
    <3> QED
      BY <2>4, <3>1, <3>3, <3>5 DEF Dequeue
  <2> QED
    BY <2>2, <2>3, <2>4 DEF Heard
<1> QED
  BY <1>1, <1>2, <1>3
  DEF TypeInv, PageTypes, SocketTypes, RobotTypes, Sent, browserVars, history

LEMMA ObeyTypes == TypeInv /\ RobotObeys => TypeInv'
<1> SUFFICES ASSUME TypeInv, RobotObeys PROVE TypeInv'
  OBVIOUS
<1> DEFINE answer == IF IsCommand THEN "OK" ELSE "ERROR"
<1>1. /\ wire # <<>> /\ wire' = Tail(wire) /\ garbage' \in {FALSE, wire' # <<>>}
      /\ answers' = Append(answers, answer)
      /\ obeyed' = IF answers'[Len(answers')] = "OK" THEN Head(wire) ELSE obeyed
      /\ UNCHANGED <<board, browserVars, socketVars, serialQueue, calm, moves, resets>>
  BY DEF RobotObeys, Obey
<1>2. Head(wire) \in Lines /\ wire' \in Seq(Lines)
  BY <1>1, Rest1 DEF TypeInv, RobotTypes
<1>3. obeyed' \in Lines \cup {None}
  BY <1>1, <1>2 DEF TypeInv, RobotTypes
<1>4. answer \in Word
  BY DEF Word
<1> HIDE DEF answer
<1>5. answers' \in Seq(Word)
  BY <1>1, <1>4 DEF TypeInv, RobotTypes
<1>6. garbage' \in BOOLEAN
  BY <1>1
<1> QED
  BY <1>1, <1>2, <1>3, <1>5, <1>6
  DEF TypeInv, PageTypes, SocketTypes, RobotTypes, Sent, browserVars, socketVars

LEMMA RestartTypes == TypeInv /\ RobotRestarts => TypeInv'
<1> SUFFICES ASSUME TypeInv, RobotRestarts PROVE TypeInv'
  OBVIOUS
<1>1. /\ conn + resets < MaxFaults /\ resets' = resets + 1 /\ obeyed' = None /\ calm' = FALSE
      /\ \/ answers' = Append(answers, "READY")
         \/ answers # <<>> /\ answers' = [answers EXCEPT ![Len(answers)] = "garbled"]
      /\ UNCHANGED <<board, browserVars, socketVars, serialQueue, moves>>
  BY DEF RobotRestarts, Restart
<1>2. wire \in Seq(Lines) /\ answers \in Seq(Word)
  BY DEF TypeInv, RobotTypes
<1>3. answers' \in Seq(Word)
  <2>1. Len(answers) \in Nat /\ "READY" \in Word /\ "garbled" \in Word
    BY <1>2, Length DEF Word
  <2>2. answers # <<>> => [answers EXCEPT ![Len(answers)] = "garbled"] \in Seq(Word)
    <3>1. answers # <<>> => Len(answers) \in 1 .. Len(answers)
      BY <1>2, <2>1, EmptySeq
    <3> QED
      BY <1>2, <2>1, <3>1, ExceptSeq
  <2> QED
    BY <1>1, <1>2, <2>1, <2>2
<1>4. PICK k \in 0 .. Len(wire) : /\ wire' = SubSeq(wire, k + 1, Len(wire))
                                  /\ garbage' \in {garbage /\ k = 0, wire' # <<>>}
  BY DEF RobotRestarts, Restart
<1>5. wire' \in Seq(Lines)
  <2>1. Len(wire) \in Nat
    BY <1>2, Length
  <2> QED
    BY <1>2, <1>4, <2>1, ElementOfSeq, SubSeqProperties
<1>7. garbage' \in BOOLEAN
  BY <1>4
<1>6. resets' \in 0 .. MaxFaults /\ conn + resets' <= MaxFaults
  BY <1>1, Bounds DEF TypeInv, SocketTypes
<1> QED
  BY <1>1, <1>3, <1>5, <1>6, <1>7
  DEF TypeInv, PageTypes, SocketTypes, RobotTypes, Sent, browserVars, socketVars

LEMMA BreakTypes == TypeInv /\ Break => TypeInv'
<1> SUFFICES ASSUME TypeInv, Break PROVE TypeInv'
  OBVIOUS
<1>1. /\ conn + resets < MaxFaults /\ open' = FALSE /\ pending' = {} /\ conn' = conn + 1
      /\ down' = <<>> /\ calm' = FALSE
      /\ UNCHANGED <<robotVars, fingers, cached, msgCounter, serialQueue, obeyed, moves, resets>>
  BY DEF Break
<1>2. PICK k \in 0 .. Len(up) : up' = SubSeq(up, 1, k)
  BY DEF Break
<1>3. up \in Seq(Asked) /\ Len(up) \in Nat
  BY Length DEF TypeInv, SocketTypes
<1>4. up' \in Seq(Asked)
  BY <1>2, <1>3, ElementOfSeq, SubSeqProperties
<1>5. conn' \in 0 .. MaxFaults /\ conn' + resets <= MaxFaults
  BY <1>1, Bounds DEF TypeInv, SocketTypes
<1>6. PageTypes'
  BY <1>1 DEF TypeInv, PageTypes, Sent
<1>7. SocketTypes'
  BY <1>1, <1>4, <1>5 DEF TypeInv, SocketTypes
<1> QED
  BY <1>1, <1>6, <1>7 DEF TypeInv, RobotTypes, robotVars

LEMMA TypeStep == TypeInv /\ [Next]_vars => TypeInv'
<1> SUFFICES ASSUME TypeInv, [Next]_vars PROVE TypeInv'
  OBVIOUS
<1>1. ASSUME NEW side \in Side, Touch(side) PROVE TypeInv'
  BY <1>1
  DEF Touch, TypeInv, PageTypes, SocketTypes, RobotTypes, Sent, robotVars, socketVars, history
<1>2. ASSUME NEW tilts \in Tilts, Move(tilts) PROVE TypeInv'
  <2>1. tilts \in Tilt \X Tilt
    BY ControlAssumption DEF Tilt
  <2>2. fingers' \subseteq Side
    BY <1>2 DEF Move
  <2> QED
    BY <1>2, <2>1, <2>2, SendTypes DEF Move, robotVars
<1>3. ASSUME NEW from \in SUBSET Side, Lift(from) PROVE TypeInv'
  <2>1. <<0, 0>> \in Tilt \X Tilt
    BY DEF Tilt
  <2>2. fingers' \subseteq Side
    BY <1>3 DEF Lift, TypeInv, PageTypes
  <2> QED
    BY <1>3, <2>1, <2>2, SendTypes DEF Lift, robotVars
<1>4. CASE Reply
  <2>1. down' \in Seq(Ids)
    BY <1>4, Rest1 DEF Reply, TypeInv, SocketTypes
  <2> QED
    BY <1>4, <2>1
    DEF Reply, TypeInv, PageTypes, SocketTypes, RobotTypes, Sent, robotVars, history
<1>5. CASE Connect
  BY <1>5
  DEF Connect, TypeInv, PageTypes, SocketTypes, RobotTypes, Sent, robotVars, socketVars, history
<1>6. CASE UNCHANGED vars
  BY <1>6
  DEF vars, TypeInv, PageTypes, SocketTypes, RobotTypes, Sent, robotVars, browserVars,
      socketVars, history
<1> QED
  BY <1>1, <1>2, <1>3, <1>4, <1>5, <1>6,
     BreakTypes, AcceptTypes, HeardTypes, ObeyTypes, RestartTypes DEF Next

LEMMA TypesHold == Spec => []TypeInv
  BY TypeInit, TypeStep, PTL DEF Spec

\* Every value is in its range: the page numbers no more messages than it has
\* room for (msgCounter of api.js), whatever fingers, line and robot do, and the
\* speeds and directions it sends are those that handleSpeed2 accepts.
THEOREM TypesCorrect == Spec => []TypeOK
  BY TypesHold, TypesAre, PTL

-----------------------------------------------------------------------------
(* The motors.                                                             *)

Poled(m, n) == (IF n \in {2, 3} THEN {Poles[m + 1].a} ELSE {})
               \cup (IF n \in {1, 3} THEN {Poles[m + 1].b} ELSE {})

Levels == [Motor -> Int]

Drives ==
    IF board = "msv1"
    THEN [control : SUBSET {0, 5, 6, 7}, dir : {[m \in Motor |-> 0]},
          speed : {[m \in Motor |-> 0]}, level : Levels]
    ELSE [control : {{}}, dir : [Motor -> 0 .. 3], speed : [Motor -> 0 .. 255], level : Levels]

\* Both motors as a line asks, whatever they were before.
At(line) ==
    IF board = "msv1"
    THEN [control |-> Poled(0, line[1]) \cup Poled(1, line[3]),
          dir |-> [m \in Motor |-> 0], speed |-> [m \in Motor |-> 0],
          level |-> [m \in Motor |-> IF m = 0 THEN line[2] ELSE line[4]]]
    ELSE [control |-> {},
          dir |-> [m \in Motor |-> IF m = 0 THEN line[1] ELSE line[3]],
          speed |-> [m \in Motor |-> IF m = 0 THEN line[2] ELSE line[4]],
          level |-> [m \in Motor |-> IF m = 0 THEN Level(line[1], line[2])
                                              ELSE Level(line[3], line[4])]]

LEMMA BitsOfPole == BitsOf(0) = {} /\ BitsOf(1) = {0}
<1>1. \A k \in 0 .. 7 : k \in {0, 1, 2, 3, 4, 5, 6, 7}
  OBVIOUS
<1>2. /\ 2^0 = 1 /\ 2^1 = 2 /\ 2^2 = 4 /\ 2^3 = 8 /\ 2^4 = 16 /\ 2^5 = 32 /\ 2^6 = 64
      /\ 2^7 = 128
  OBVIOUS
<1>3. ASSUME NEW k \in 0 .. 7 PROVE /\ (0 \div 2^k) % 2 # 1
                                    /\ (1 \div 2^k) % 2 = 1 <=> k = 0
  <2> DEFINE p == 2^k
  <2>0. k \in {0, 1, 2, 3, 4, 5, 6, 7}
    BY <1>1
  <2>1. /\ (k = 0 => p = 1) /\ (k = 1 => p = 2) /\ (k = 2 => p = 4) /\ (k = 3 => p = 8)
        /\ (k = 4 => p = 16) /\ (k = 5 => p = 32) /\ (k = 6 => p = 64) /\ (k = 7 => p = 128)
    BY <1>2, Zenon
  <2> HIDE DEF p
  <2>2. (0 \div p) % 2 # 1 /\ ((1 \div p) % 2 = 1 <=> k = 0)
    BY <2>0, <2>1
  <2> QED
    BY <2>2 DEF p
<1>4. \A k \in 0 .. 7 : k \notin BitsOf(0) /\ (k \in BitsOf(1) <=> k = 0)
  BY <1>3, Zenon DEF BitsOf
<1>5. BitsOf(0) \subseteq 0 .. 7 /\ BitsOf(1) \subseteq 0 .. 7
  BY DEF BitsOf
<1> QED
  BY <1>4, <1>5

\* The driver of two poles clears those of its motor and no other.
LEMMA ControlOf ==
    ASSUME NEW bits \in SUBSET {0, 5, 6, 7}, NEW m \in Motor, NEW n \in 0 .. 3
    PROVE  /\ Control(bits, m, n) = (bits \ {Poles[m + 1].a, Poles[m + 1].b}) \cup Poled(m, n)
           /\ Control(bits, m, n) \in SUBSET {0, 5, 6, 7}
<1>1. n \in {0, 1, 2, 3} /\ m \in {0, 1}
  BY DEF Motor
<1>2. /\ 0 \div 2 = 0 /\ 1 \div 2 = 0 /\ 2 \div 2 = 1 /\ 3 \div 2 = 1
      /\ 0 % 2 = 0 /\ 1 % 2 = 1 /\ 2 % 2 = 0 /\ 3 % 2 = 1
  OBVIOUS
<1>3. /\ Poles[m + 1].a \in 0 .. 7 /\ Poles[m + 1].b \in 0 .. 7
      /\ Poles[m + 1].a \in {0, 5, 6, 7} /\ Poles[m + 1].b \in {0, 5, 6, 7}
  BY <1>1 DEF Poles
<1>4. {k \in 0 .. 7 : k - Poles[m + 1].a \in BitsOf(n \div 2)}
      = IF n \in {2, 3} THEN {Poles[m + 1].a} ELSE {}
  <2>1. CASE n \in {2, 3}
    <3>1. BitsOf(n \div 2) = {0}
      BY <1>2, <2>1, BitsOfPole
    <3> QED
      BY <1>3, <2>1, <3>1
  <2>2. CASE n \in {0, 1}
    <3>1. BitsOf(n \div 2) = {}
      BY <1>2, <2>2, BitsOfPole
    <3> QED
      BY <2>2, <3>1
  <2> QED
    BY <1>1, <2>1, <2>2
<1>5. (n % 2 = 1) <=> n \in {1, 3}
  BY <1>1, <1>2
<1>6. Control(bits, m, n) = (bits \ {Poles[m + 1].a, Poles[m + 1].b}) \cup Poled(m, n)
  BY <1>4, <1>5 DEF Control, Poled
<1> QED
  BY <1>3, <1>6 DEF Poled

LEMMA PolesApart ==
    ASSUME NEW bits \in SUBSET {0, 5, 6, 7}, NEW n \in 0 .. 3, NEW k \in 0 .. 3
    PROVE  Control(Control(bits, 0, n), 1, k) = Poled(0, n) \cup Poled(1, k)
<1>1. /\ Poles[0 + 1].a = 5 /\ Poles[0 + 1].b = 7 /\ Poles[1 + 1].a = 0 /\ Poles[1 + 1].b = 6
      /\ 0 \in Motor /\ 1 \in Motor
  BY DEF Poles, Motor
<1>2. Control(bits, 0, n) = (bits \ {5, 7}) \cup Poled(0, n)
  BY <1>1, ControlOf
<1>3. Control(Control(bits, 0, n), 1, k) = (Control(bits, 0, n) \ {0, 6}) \cup Poled(1, k)
  BY <1>1, ControlOf
<1>4. Poled(0, n) \subseteq {5, 7}
  BY <1>1 DEF Poled
<1>5. /\ Poles[0 + 1].a = 5 /\ Poles[0 + 1].b = 7
      /\ Poled(0, n) \cap {0, 6} = {} /\ bits \ {5, 7} \subseteq {0, 6}
  BY <1>1, <1>4
<1>6. Control(bits, 0, n) \ {0, 6} = Poled(0, n)
  BY <1>2, <1>5
<1> QED
  BY <1>3, <1>6

\* The other driver: what one motor is told, whatever it was told before.
Turned(w, m, d, s) ==
    [control |-> w.control, dir |-> [w.dir EXCEPT ![m] = d],
     speed |-> [w.speed EXCEPT ![m] = s], level |-> [w.level EXCEPT ![m] = Level(d, s)]]

LEMMA MotorTurned ==
    ASSUME NEW m \in Motor, NEW d \in 0 .. 3, NEW s \in 0 .. 255, NEW w \in Drives,
           board # "msv1"
    PROVE  /\ SetSpeed(SetDirection(w, m, d), m, s) = Turned(w, m, d, s)
           /\ Turned(w, m, d, s) \in Drives
<1>1. /\ w = [control |-> w.control, dir |-> w.dir, speed |-> w.speed, level |-> w.level]
      /\ w.control = {} /\ w.level \in Levels
      /\ w.dir \in [Motor -> 0 .. 3] /\ w.speed \in [Motor -> 0 .. 255]
  BY DEF Drives
<1>2. SetDirection(w, m, d) = [control |-> w.control, dir |-> [w.dir EXCEPT ![m] = d],
              speed |-> w.speed, level |-> [w.level EXCEPT ![m] = Level(d, w.speed[m])]]
  BY <1>1 DEF SetDirection
<1>3. [w.dir EXCEPT ![m] = d][m] = d
  BY <1>1
<1>4. SetSpeed(SetDirection(w, m, d), m, s) =
      [control |-> w.control, dir |-> [w.dir EXCEPT ![m] = d],
       speed |-> [w.speed EXCEPT ![m] = s],
       level |-> [[w.level EXCEPT ![m] = Level(d, w.speed[m])] EXCEPT ![m] = Level(d, s)]]
  <2>1. PICK x : x = SetDirection(w, m, d)
    OBVIOUS
  <2>2. /\ x = [control |-> x.control, dir |-> x.dir, speed |-> x.speed, level |-> x.level]
        /\ x.control = w.control /\ x.dir = [w.dir EXCEPT ![m] = d] /\ x.speed = w.speed
        /\ x.level = [w.level EXCEPT ![m] = Level(d, w.speed[m])] /\ x.dir[m] = d
    BY <1>2, <1>3, <2>1
  <2>3. SetSpeed(x, m, s) =
            [control |-> x.control, dir |-> x.dir, speed |-> [x.speed EXCEPT ![m] = s],
             level |-> [x.level EXCEPT ![m] = Level(x.dir[m], s)]]
    BY <2>2 DEF SetSpeed
  <2> QED
    BY <2>1, <2>2, <2>3
<1>5. Level(d, s) \in Int
  BY DEF Level
<1>6. [[w.level EXCEPT ![m] = Level(d, w.speed[m])] EXCEPT ![m] = Level(d, s)]
      = [w.level EXCEPT ![m] = Level(d, s)]
  BY <1>1 DEF Levels
<1>7. /\ [w.level EXCEPT ![m] = Level(d, s)] \in Levels
      /\ [w.dir EXCEPT ![m] = d] \in [Motor -> 0 .. 3]
      /\ [w.speed EXCEPT ![m] = s] \in [Motor -> 0 .. 255]
  BY <1>1, <1>5 DEF Levels
<1> QED
  BY <1>1, <1>4, <1>6, <1>7 DEF Drives, Turned

LEMMA ObeyedAt ==
    ASSUME NEW v \in Drives, NEW line \in Lines, board \in {"msv1", "mvla"}
    PROVE  Obeyed(v, line) = At(line) /\ At(line) \in Drives
<1>1. /\ line[1] \in 0 .. 3 /\ line[2] \in 0 .. 255 /\ line[3] \in 0 .. 3 /\ line[4] \in 0 .. 255
  BY DEF Lines
<1>2. CASE board = "msv1"
  <2>1. /\ v = [control |-> v.control, dir |-> v.dir, speed |-> v.speed, level |-> v.level]
        /\ v.control \in SUBSET {0, 5, 6, 7} /\ v.level \in Levels
        /\ v.dir = [m \in Motor |-> 0] /\ v.speed = [m \in Motor |-> 0]
    BY <1>2 DEF Drives
  <2>2. Obeyed(v, line) =
            [control |-> Control(Control(v.control, 0, line[1]), 1, line[3]),
             dir |-> v.dir, speed |-> v.speed,
             level |-> [[v.level EXCEPT ![0] = line[2]] EXCEPT ![1] = line[4]]]
    BY <1>2, <2>1 DEF Obeyed, SetDirection, SetSpeed
  <2>3. [[v.level EXCEPT ![0] = line[2]] EXCEPT ![1] = line[4]]
        = [m \in Motor |-> IF m = 0 THEN line[2] ELSE line[4]]
    BY <2>1 DEF Levels, Motor
  <2>4. Obeyed(v, line) = At(line)
    <3>1. Control(Control(v.control, 0, line[1]), 1, line[3])
          = Poled(0, line[1]) \cup Poled(1, line[3])
      BY <1>1, <2>1, PolesApart
    <3>2. At(line) = [control |-> Poled(0, line[1]) \cup Poled(1, line[3]),
                      dir |-> [m \in Motor |-> 0], speed |-> [m \in Motor |-> 0],
                      level |-> [m \in Motor |-> IF m = 0 THEN line[2] ELSE line[4]]]
      BY <1>2 DEF At
    <3> QED
      BY <2>1, <2>2, <2>3, <3>1, <3>2
  <2>5. Poled(0, line[1]) \cup Poled(1, line[3]) \in SUBSET {0, 5, 6, 7}
    BY DEF Poled, Poles
  <2>6. [m \in Motor |-> IF m = 0 THEN line[2] ELSE line[4]] \in Levels
    BY <1>1 DEF Levels
  <2> QED
    BY <1>2, <2>4, <2>5, <2>6 DEF At, Drives
<1>3. CASE board = "mvla"
  <2>0. board # "msv1"
    BY <1>3
  <2>1. /\ v = [control |-> v.control, dir |-> v.dir, speed |-> v.speed, level |-> v.level]
        /\ v.control = {} /\ v.level \in Levels
        /\ v.dir \in [Motor -> 0 .. 3] /\ v.speed \in [Motor -> 0 .. 255]
    BY <2>0 DEF Drives
  <2>2. \A m \in Motor, d \in 0 .. 3, t \in 0 .. 255, w \in Drives :
           /\ SetSpeed(SetDirection(w, m, d), m, t) = Turned(w, m, d, t)
           /\ Turned(w, m, d, t) \in Drives
    BY <2>0, MotorTurned
  <2>3. 0 \in Motor /\ 1 \in Motor
    BY DEF Motor
  <2>4. PICK w \in Drives : w = SetSpeed(SetDirection(v, 0, line[1]), 0, line[2])
    BY <1>1, <2>2, <2>3
  <2>5. w = Turned(v, 0, line[1], line[2])
    BY <1>1, <2>2, <2>3, <2>4
  <2>6. Obeyed(v, line) = Turned(w, 1, line[3], line[4]) /\ Obeyed(v, line) \in Drives
    BY <1>1, <2>2, <2>3, <2>4 DEF Obeyed
  <2>7. /\ [[v.dir EXCEPT ![0] = line[1]] EXCEPT ![1] = line[3]]
           = [m \in Motor |-> IF m = 0 THEN line[1] ELSE line[3]]
        /\ [[v.speed EXCEPT ![0] = line[2]] EXCEPT ![1] = line[4]]
           = [m \in Motor |-> IF m = 0 THEN line[2] ELSE line[4]]
        /\ [[v.level EXCEPT ![0] = Level(line[1], line[2])] EXCEPT ![1] = Level(line[3], line[4])]
           = [m \in Motor |-> IF m = 0 THEN Level(line[1], line[2]) ELSE Level(line[3], line[4])]
    BY <2>1 DEF Motor, Levels
  <2>8. Obeyed(v, line) = At(line)
    <3>1. w.control = {} /\ w.dir = [v.dir EXCEPT ![0] = line[1]]
          /\ w.speed = [v.speed EXCEPT ![0] = line[2]]
          /\ w.level = [v.level EXCEPT ![0] = Level(line[1], line[2])]
      BY <2>1, <2>5 DEF Turned
    <3>2. Obeyed(v, line) =
              [control |-> w.control, dir |-> [w.dir EXCEPT ![1] = line[3]],
               speed |-> [w.speed EXCEPT ![1] = line[4]],
               level |-> [w.level EXCEPT ![1] = Level(line[3], line[4])]]
      BY <2>6 DEF Turned
    <3>3. At(line) =
              [control |-> {}, dir |-> [m \in Motor |-> IF m = 0 THEN line[1] ELSE line[3]],
               speed |-> [m \in Motor |-> IF m = 0 THEN line[2] ELSE line[4]],
               level |-> [m \in Motor |-> IF m = 0 THEN Level(line[1], line[2])
                                                   ELSE Level(line[3], line[4])]]
      BY <2>0 DEF At
    <3> QED
      BY <2>7, <3>1, <3>2, <3>3
  <2> QED
    BY <2>6, <2>8
<1> QED
  BY <1>2, <1>3

LEMMA RestIsDrive == board \in {"msv1", "mvla"} => Rest \in Drives
<1>1. CASE board = "msv1"
  BY <1>1 DEF Rest, Drives, Levels
<1>2. CASE board = "mvla"
  <2>1. board # "msv1"
    BY <1>2
  <2> QED
    BY <1>2, <2>1 DEF Rest, Drives, Levels, FORWARD
<1> QED
  BY <1>1, <1>2

ResidueInv == drive \in Drives /\ NoResidue

LEMMA ResidueStep == TypeInv /\ ResidueInv /\ [Next]_vars => ResidueInv'
<1> SUFFICES ASSUME TypeInv, ResidueInv, [Next]_vars PROVE ResidueInv'
  OBVIOUS
<1>1. board' = board /\ board \in {"msv1", "mvla"}
  BY DEF TypeInv, RobotTypes, Next, Touch, Move, Lift, Reply, Break, Connect, Accept, Heard,
         RobotObeys, RobotRestarts, Obey, Restart, vars, robotVars
<1>2. Rest' = Rest /\ Drives' = Drives
  BY <1>1 DEF Rest, Drives
<1>3. CASE UNCHANGED <<drive, obeyed>>
  <2>1. ASSUME NEW l PROVE Obeyed(Rest, l)' = Obeyed(Rest, l)
    BY <1>1, <1>2 DEF Obeyed, SetDirection, SetSpeed
  <2> QED
    BY <1>2, <1>3, <2>1 DEF ResidueInv, NoResidue
<1>4. CASE RobotObeys
  <2>1. /\ wire # <<>> /\ drive' = IF IsCommand THEN Obeyed(drive, Head(wire)) ELSE drive
        /\ answers' = Append(answers, IF IsCommand THEN "OK" ELSE "ERROR")
        /\ obeyed' = IF answers'[Len(answers')] = "OK" THEN Head(wire) ELSE obeyed
    BY <1>4 DEF RobotObeys, Obey
  <2>2. answers \in Seq(Word) /\ Head(wire) \in Lines
    BY <2>1, Rest1 DEF TypeInv, RobotTypes
  <2>3. CASE IsCommand
    <3>1. answers'[Len(answers')] = "OK"
      BY <2>1, <2>2, <2>3, AppendProperties, Length DEF Word
    <3>2. obeyed' = Head(wire) /\ drive' = At(Head(wire))
      BY <1>1, <2>1, <2>2, <2>3, <3>1, ObeyedAt DEF ResidueInv
    <3>3. drive' \in Drives /\ drive' = Obeyed(Rest, Head(wire))
      BY <1>1, <2>2, <3>2, ObeyedAt, RestIsDrive
    <3>4. Head(wire) # None
      <4>1. Head(wire)[1] \in 0 .. 3 /\ DOMAIN Head(wire) = 1 .. 4
        BY <2>2 DEF Lines
      <4>2. DOMAIN None = {}
        BY DEF None
      <4> QED
        BY <4>1, <4>2
    <3>5. Obeyed(Rest, obeyed)' = Obeyed(Rest, obeyed')
      BY <1>1, <1>2 DEF Obeyed, SetDirection, SetSpeed
    <3> QED
      BY <1>2, <3>2, <3>3, <3>4, <3>5 DEF ResidueInv, NoResidue
  <2>4. CASE ~IsCommand
    <3>1. answers'[Len(answers')] = "ERROR"
      BY <2>1, <2>2, <2>4, AppendProperties, Length DEF Word
    <3>2. UNCHANGED <<drive, obeyed>>
      BY <2>1, <2>4, <3>1
    <3> QED
      BY <1>3, <3>2
  <2> QED
    BY <2>3, <2>4
<1>5. CASE RobotRestarts
  <2>1. drive' = Rest /\ obeyed' = None
    BY <1>5 DEF RobotRestarts, Restart
  <2> QED
    BY <1>1, <1>2, <2>1, RestIsDrive DEF ResidueInv, NoResidue
<1>6. ASSUME [Next]_vars, ~RobotObeys, ~RobotRestarts PROVE UNCHANGED <<drive, obeyed>>
  BY <1>6 DEF Next, Touch, Move, Lift, Reply, Break, Connect, Accept, Heard,
              vars, robotVars, history
<1> QED
  BY <1>3, <1>4, <1>5, <1>6

LEMMA ResidueInit == Init => ResidueInv
<1> SUFFICES ASSUME Init PROVE ResidueInv
  OBVIOUS
<1>1. board \in {"msv1", "mvla"} /\ drive = Rest /\ obeyed = None
  BY DEF Init, RobotInit
<1> QED
  BY <1>1, RestIsDrive DEF ResidueInv, NoResidue

\* The motors do what the last line says and nothing else, from whatever lines
\* came before (motor::set_direction and set_speed of either driver).
THEOREM MotorsKeepNothing == Spec => []NoResidue
<1>1. ResidueInv => NoResidue
  BY DEF ResidueInv
<1> QED
  BY <1>1, ResidueInit, ResidueStep, TypesHold, PTL DEF Spec
==============================================================================
