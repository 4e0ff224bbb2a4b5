--------------------------- MODULE ConsoleProofs ---------------------------
(***************************************************************************)
(* For buffers, receivers, arrays and lines of any size: the handlers of   *)
(* the serial port find what they need in the middle of every constructor  *)
(* and destructor, what a program writes leaves once and in order, a       *)
(* command is obeyed for what stands in its line, and a client that waits  *)
(* for its answers is read to the letter.                                  *)
(***************************************************************************)
EXTENDS Console, SequenceTheorems, WellFoundedInduction, TLAPS

-----------------------------------------------------------------------------
(* The scripts of the asynchronous port, statement by statement.           *)

LEMMA ConstructorScript ==
    LET c == Constructor("async")
    IN  /\ Len(c) = 8
        /\ c[1] = Set({"read_buffer"}) /\ c[2] = Set({"on_serial_received"})
        /\ c[3] = Set({"RXEN0", "RXCIE0"}) /\ c[4] = Set({"I"})
        /\ c[5] = Set({"write_buffer"}) /\ c[6] = Set({"on_serial_ready_to_send"})
        /\ c[7] = Set({"TXEN0"}) /\ c[8] = Set({"I"})
BY DEF Constructor

LEMMA DestructorScript ==
    LET d == Destructor("async")
    IN  /\ Len(d) = 6
        /\ d[1] = Clear({"UDRIE0"}) /\ d[2] = Clear({"on_serial_ready_to_send"})
        /\ d[3] = Clear({"write_buffer"}) /\ d[4] = Clear({"RXEN0", "RXCIE0"})
        /\ d[5] = Clear({"on_serial_received"}) /\ d[6] = Clear({"read_buffer"})
BY DEF Destructor

LEMMA SyncScripts ==
    /\ Len(Constructor("sync")) = 2
    /\ Constructor("sync")[1] = Set({"RXEN0"}) /\ Constructor("sync")[2] = Set({"TXEN0"})
    /\ Len(Destructor("sync")) = 2
    /\ Destructor("sync")[1] = Clear({"TXEN0"}) /\ Destructor("sync")[2] = Clear({"RXEN0"})
BY DEF Constructor, Destructor

-----------------------------------------------------------------------------
(* The handlers.                                                           *)

\* Where the port is neither being made nor being taken down.
InUse == {"write", "enable", "read", "handle"}

\* What is set at each statement.
Ready ==
    /\ step \in Nat \ {0}
    /\ pc \in {"declare", "construct", "destruct"} \cup InUse
    /\ mode \in {"none", "sync", "async"}
    /\ pc # "declare" => mode # "none"
    /\ pc = "enable" => mode = "async"
    /\ mode # "async" \/ pc = "declare" => "RXCIE0" \notin regs /\ "UDRIE0" \notin regs
    /\ pc \in InUse \/ (pc = "construct" /\ (IF mode = "sync" THEN 1 ELSE 3) < step)
       => "RXEN0" \in regs
    /\ mode = "async" /\ pc \in InUse => Reading \subseteq regs /\ Writing \subseteq regs
    /\ mode = "async" /\ pc = "construct" =>
           /\ "UDRIE0" \notin regs
           /\ "RXCIE0" \in regs => 3 < step
           /\ 1 < step => "read_buffer" \in regs
           /\ 2 < step => "on_serial_received" \in regs
           /\ 5 < step => "write_buffer" \in regs
           /\ 6 < step => "on_serial_ready_to_send" \in regs
    /\ mode = "async" /\ pc = "destruct" =>
           /\ 1 < step => "UDRIE0" \notin regs
           /\ step = 1 => Writing \subseteq regs
           /\ step <= 4 => Reading \subseteq regs
           /\ 4 < step => "RXCIE0" \notin regs

LEMMA ReadyInit == Init => Ready
BY DEF Init, PortInit, Ready, InUse

LEMMA ConstructPlace ==
    ASSUME Ready, Construct
    PROVE  \/ mode = "async" /\ step \in 1 .. 8
           \/ mode = "sync" /\ step \in 1 .. 2
<1>1. /\ pc = "construct" /\ mode \in {"none", "sync", "async"} /\ (pc # "declare" => mode # "none")
      /\ step \in Nat \ {0} /\ step <= Len(Constructor(mode))
  BY DEF Ready, Construct, Execute, Goto
<1>2. CASE mode = "async"
  <2>1. step <= 8
    BY <1>1, <1>2, ConstructorScript, Zenon
  <2> QED
    BY <1>1, <1>2, <2>1
<1>3. CASE mode = "sync"
  <2>1. step <= 2
    BY <1>1, <1>3, SyncScripts, Zenon
  <2> QED
    BY <1>1, <1>3, <2>1
<1> QED
  BY <1>1, <1>2, <1>3

LEMMA ConstructReady ==
    ASSUME Ready, Construct
    PROVE  Ready'
<1>1. /\ pc = "construct" /\ mode' = mode /\ step' = step + 1
      /\ step <= Len(Constructor(mode))
      /\ regs' = (regs \ Constructor(mode)[step].clear) \cup Constructor(mode)[step].set
      /\ pc' = IF step = Len(Constructor(mode)) THEN "write" ELSE "construct"
  BY DEF Construct, Execute, Goto
<1>2. CASE mode = "sync"
  <2>1. step \in 1 .. 2
    BY <1>2, ConstructPlace
  <2>2. "RXCIE0" \notin regs' /\ "UDRIE0" \notin regs'
    BY <1>1, <1>2, <2>1, SyncScripts DEF Ready, Set
  <2>3. "RXEN0" \in regs'
    <3>1. step = 1 => "RXEN0" \in regs'
      BY <1>1, <1>2, SyncScripts DEF Set
    <3>2. step = 2 => "RXEN0" \in regs'
      BY <1>1, <1>2, SyncScripts DEF Set, Ready
    <3> QED
      BY <2>1, <3>1, <3>2
  <2> QED
    BY <1>1, <1>2, <2>1, <2>2, <2>3 DEF Ready, InUse
<1>3. CASE mode = "async"
  <2>1. step \in 1 .. 8
    BY <1>3, ConstructPlace
  <2>2. \A r : r \in regs' <=> \/ r \in regs
                               \/ step = 1 /\ r = "read_buffer"
                               \/ step = 2 /\ r = "on_serial_received"
                               \/ step = 3 /\ r \in {"RXEN0", "RXCIE0"}
                               \/ step \in {4, 8} /\ r = "I"
                               \/ step = 5 /\ r = "write_buffer"
                               \/ step = 6 /\ r = "on_serial_ready_to_send"
                               \/ step = 7 /\ r = "TXEN0"
    BY <1>1, <1>3, <2>1, ConstructorScript DEF Set
  <2>3. pc' = IF step = 8 THEN "write" ELSE "construct"
    BY <1>1, <1>3, ConstructorScript
  <2> QED
    BY <1>1, <1>3, <2>1, <2>2, <2>3 DEF Ready, InUse, Reading, Writing
<1> QED
  BY <1>1, <1>2, <1>3 DEF Ready

LEMMA DestructPlace ==
    ASSUME Ready, Destruct
    PROVE  \/ mode = "async" /\ step \in 1 .. 6
           \/ mode = "sync" /\ step \in 1 .. 2
<1>1. /\ pc = "destruct" /\ mode \in {"none", "sync", "async"} /\ (pc # "declare" => mode # "none")
      /\ step \in Nat \ {0} /\ step <= Len(Destructor(mode))
  BY DEF Ready, Destruct, Execute, Goto
<1>2. CASE mode = "async"
  <2>1. step <= 6
    BY <1>1, <1>2, DestructorScript, Zenon
  <2> QED
    BY <1>1, <1>2, <2>1
<1>3. CASE mode = "sync"
  <2>1. step <= 2
    BY <1>1, <1>3, SyncScripts, Zenon
  <2> QED
    BY <1>1, <1>3, <2>1
<1> QED
  BY <1>1, <1>2, <1>3

LEMMA DestructReady ==
    ASSUME Ready, Destruct
    PROVE  Ready'
<1>1. /\ pc = "destruct" /\ mode' = mode /\ step' = step + 1
      /\ step <= Len(Destructor(mode))
      /\ regs' = (regs \ Destructor(mode)[step].clear) \cup Destructor(mode)[step].set
      /\ pc' = IF step = Len(Destructor(mode)) THEN "declare" ELSE "destruct"
  BY DEF Destruct, Execute, Goto
<1>2. CASE mode = "sync"
  <2>1. step \in 1 .. 2
    BY <1>2, DestructPlace
  <2>2. "RXCIE0" \notin regs' /\ "UDRIE0" \notin regs'
    BY <1>1, <1>2, <2>1, SyncScripts DEF Ready, Clear
  <2> QED
    BY <1>1, <1>2, <2>1, <2>2 DEF Ready, InUse
<1>3. CASE mode = "async"
  <2>1. step \in 1 .. 6
    BY <1>3, DestructPlace
  <2>2. \A r : r \in regs' <=> /\ r \in regs
                               /\ ~(step = 1 /\ r = "UDRIE0")
                               /\ ~(step = 2 /\ r = "on_serial_ready_to_send")
                               /\ ~(step = 3 /\ r = "write_buffer")
                               /\ ~(step = 4 /\ r \in {"RXEN0", "RXCIE0"})
                               /\ ~(step = 5 /\ r = "on_serial_received")
                               /\ ~(step = 6 /\ r = "read_buffer")
    BY <1>1, <1>3, <2>1, DestructorScript DEF Clear
  <2>3. pc' = IF step = 6 THEN "declare" ELSE "destruct"
    BY <1>1, <1>3, DestructorScript
  <2> QED
    BY <1>1, <1>3, <2>1, <2>2, <2>3 DEF Ready, InUse, Reading, Writing
<1> QED
  BY <1>1, <1>2, <1>3 DEF Ready

LEMMA ReadyStep == Ready /\ [Next]_vars => Ready'
<1> SUFFICES ASSUME Ready, [Next]_vars PROVE Ready'
  OBVIOUS
<1>1. CASE UNCHANGED vars
  BY <1>1 DEF vars, portVars, consoleVars, Ready
<1>2. CASE Declare
  BY <1>2 DEF Declare, Begin, Goto, Ready, InUse
<1>3. CASE Construct \/ Destruct
  BY <1>3, ConstructReady, DestructReady
\* Nothing else but the data register interrupt's enabling changes a bit.
<1>4. CASE WriteSync \/ ReadChar \/ ReadFull \/ Handle
  <2>1. UNCHANGED <<mode, regs, step>> /\ pc \in InUse /\ pc' \in InUse \ {"enable"}
    BY <1>4 DEF WriteSync, ReadChar, ReadFull, Handle, Put, Wrote, Take, Goto, portVars, InUse
  <2> QED
    BY <2>1 DEF Ready, InUse
<1>5. CASE WriteAsync
  <2>1. /\ UNCHANGED <<mode, step>> /\ pc \in InUse /\ pc' \in InUse /\ mode = "async"
        /\ regs' \in {regs, regs \cup {"UDRIE0"}}
    BY <1>5 DEF WriteAsync, Push, Enable, Wrote, Goto, InUse, Ready
  <2> QED
    BY <2>1 DEF Ready, InUse
<1>6. CASE Written
  BY <1>6 DEF Written, Goto, Ready, InUse
<1>7. CASE Handlers
  <2>1. /\ UNCHANGED <<mode, step, pc>> /\ regs' \in {regs, regs \ {"UDRIE0"}}
    BY <1>7 DEF Handlers, RxInterrupt, UdreInterrupt, consoleVars
  <2> QED
    BY <2>1 DEF Ready, Reading, Writing
<1>8. CASE Receive \/ Send \/ \E line \in Lines : Ask(line)
  <2>1. UNCHANGED <<mode, regs, step, pc>>
    BY <1>8 DEF Receive, Arrive, Send, Transmit, Ask, consoleVars, portVars
  <2> QED
    BY <2>1 DEF Ready
<1> QED
  BY <1>1, <1>2, <1>3, <1>4, <1>5, <1>6, <1>7, <1>8 DEF Next, Program

\* The handlers of the port are never called over a null pointer.
THEOREM HandlersAreReady == Spec => []HandlersReady
<1>1. Ready => HandlersReady
  <2> SUFFICES ASSUME Ready PROVE HandlersReady
    OBVIOUS
  <2>1. "RXCIE0" \in regs => Reading \subseteq regs
    BY DEF Ready, InUse, Reading, Writing
  <2>2. "UDRIE0" \in regs => Writing \subseteq regs
    BY DEF Ready, InUse, Reading, Writing
  <2> QED
    BY <2>1, <2>2 DEF HandlersReady
<1> QED
  BY <1>1, ReadyInit, ReadyStep, PTL DEF Spec

-----------------------------------------------------------------------------
(* Types.                                                                  *)

LEMMA Pieces ==
    /\ mark \in Piece /\ NUL \in Piece
    /\ Greeting \in Seq(Piece) /\ OK \in Seq(Piece) /\ ERROR \in Seq(Piece)
<1>1. \A is \in {"name", "space", "junk", "mark", "NUL"} : Ch(is) \in Piece
  BY DEF Ch, Piece
<1> QED
  BY <1>1 DEF mark, NUL, Greeting, OK, ERROR

\* What is taken off and put on a sequence.
LEMMA Ends ==
    ASSUME NEW s \in Seq(Piece)
    PROVE  /\ s # <<>> => /\ Head(s) \in Piece /\ Tail(s) \in Seq(Piece)
                          /\ Len(Tail(s)) = Len(s) - 1
                          /\ Front(s) \in Seq(Piece) /\ Len(Front(s)) = Len(s) - 1
           /\ \A c \in Piece : Append(s, c) \in Seq(Piece) /\ Len(Append(s, c)) = Len(s) + 1
           /\ s = <<>> <=> Len(s) = 0
<1>1. s # <<>> => Len(s) >= 1
  BY EmptySeq
<1>2. s # <<>> => Front(s) \in Seq(Piece) /\ Len(Front(s)) = Len(s) - 1
  <2>1. \A k \in 1 .. Len(s) - 1 : s[k] \in Piece
    BY ElementOfSeq, LenProperties
  <2>2. /\ SubSeq(s, 1, Len(s) - 1) \in Seq(Piece)
        /\ Len(SubSeq(s, 1, Len(s) - 1)) = IF 1 <= Len(s) - 1 THEN Len(s) - 1 - 1 + 1 ELSE 0
    BY <2>1, SubSeqProperties, LenProperties
  <2>3. Front(s) = SubSeq(s, 1, Len(s) - 1)
    BY Zenon DEF Front
  <2>4. Len(s) \in Nat
    BY LenProperties
  <2>5. s # <<>> => (IF 1 <= Len(s) - 1 THEN Len(s) - 1 - 1 + 1 ELSE 0) = Len(s) - 1
    <3>1. \A n \in Nat : n >= 1 => (IF 1 <= n - 1 THEN n - 1 - 1 + 1 ELSE 0) = n - 1
      OBVIOUS
    <3> QED
      BY <1>1, <2>4, <3>1, Zenon
  <2> QED
    BY <2>2, <2>3, <2>5, Zenon
<1> QED
  BY <1>1, <1>2, HeadTailProperties, AppendProperties, EmptySeq

PortTypes ==
    /\ regs \subseteq Reading \cup Writing \cup UCSR0B \cup {"I"}
    /\ readBuffer \in Seq(Piece) /\ Len(readBuffer) <= BufferSize
    /\ writeBuffer \in Seq(Piece) /\ Len(writeBuffer) <= BufferSize
    /\ received \in Seq(Piece) /\ Len(received) <= RxDepth
    /\ udr \in Seq(Piece) /\ Len(udr) <= 1

ProgramTypes ==
    /\ mode \in {"none", "sync", "async"} /\ step \in 1 .. 9
    /\ pc = "construct" => step <= Len(Constructor(mode))
    /\ pc = "destruct" => step <= Len(Destructor(mode))
    /\ program \in {"motor_main", "echo", "write_sync_async"} /\ behind \in BOOLEAN
    /\ pc \in Pcs /\ out \in Seq(Piece)
    /\ buff \in [0 .. Size - 1 -> Piece] /\ i \in 0 .. Size - 1

ClientTypes ==
    /\ coming \in Seq(Piece) /\ due \in Nat /\ sent \in 0 .. MaxLines
    /\ owed \in Seq(Piece) /\ asked \in Seq(Piece) /\ calm \in BOOLEAN

LEMMA NothingFits == <<>> \in Seq(Piece) /\ Len(<<>>) <= BufferSize /\ Len(<<>>) <= RxDepth
BY EmptySeq, PortAssumption

Types == PortTypes /\ ProgramTypes /\ ClientTypes

Bits == Reading \cup Writing \cup UCSR0B \cup {"I"}

LEMMA ConstructorBits ==
    /\ \A k \in 1 .. 8 : Constructor("async")[k].set \subseteq Bits
    /\ \A k \in 1 .. 2 : Constructor("sync")[k].set \subseteq Bits
<1>1. \A s \in SUBSET Bits : Set(s).set \subseteq Bits
  BY DEF Set
<1>2. /\ {"read_buffer"} \in SUBSET Bits /\ {"on_serial_received"} \in SUBSET Bits
      /\ {"RXEN0", "RXCIE0"} \in SUBSET Bits /\ {"I"} \in SUBSET Bits
      /\ {"write_buffer"} \in SUBSET Bits /\ {"on_serial_ready_to_send"} \in SUBSET Bits
      /\ {"RXEN0"} \in SUBSET Bits /\ {"TXEN0"} \in SUBSET Bits
  BY DEF Bits, Reading, Writing, UCSR0B
<1>3. ASSUME NEW k \in 1 .. 8 PROVE Constructor("async")[k].set \subseteq Bits
  <2>1. k \in {1, 2, 3, 4, 5, 6, 7, 8}
    OBVIOUS
  <2> QED
    BY <1>1, <1>2, <2>1, ConstructorScript, Zenon
<1>4. ASSUME NEW k \in 1 .. 2 PROVE Constructor("sync")[k].set \subseteq Bits
  <2>1. k \in {1, 2}
    OBVIOUS
  <2> QED
    BY <1>1, <1>2, <2>1, SyncScripts, Zenon
<1> QED
  BY <1>3, <1>4

LEMMA DestructorBits ==
    /\ \A k \in 1 .. 6 : Destructor("async")[k].set = {}
    /\ \A k \in 1 .. 2 : Destructor("sync")[k].set = {}
BY DestructorScript, SyncScripts DEF Clear

LEMMA PortTypesStep ==
    ASSUME Types, Ready, Next
    PROVE  PortTypes'
<1> USE DEF Types, PortTypes, PortAssumption
<1>1. CASE Declare
  BY <1>1, PortAssumption, EmptySeq DEF Declare, Begin
<1>2. CASE Construct
  <2>1. Constructor(mode)[step].set \subseteq Bits
    BY <1>2, ConstructPlace, ConstructorBits
  <2>2. /\ regs' = (regs \ Constructor(mode)[step].clear) \cup Constructor(mode)[step].set
        /\ received' \in {received, <<>>} /\ UNCHANGED <<readBuffer, writeBuffer, udr>>
    BY <1>2 DEF Construct, Execute
  <2> QED
    BY <2>1, <2>2, NothingFits DEF Bits
<1>3. CASE Destruct
  <2>1. Destructor(mode)[step].set = {}
    BY <1>3, DestructPlace, DestructorBits
  <2>2. /\ regs' = (regs \ Destructor(mode)[step].clear) \cup Destructor(mode)[step].set
        /\ received' \in {received, <<>>} /\ UNCHANGED <<readBuffer, writeBuffer, udr>>
    BY <1>3 DEF Destruct, Execute
  <2> QED
    BY <2>1, <2>2, NothingFits DEF Bits
<1>4. CASE WriteSync
  <2>1. Head(out) \in Piece
    BY <1>4, Ends DEF WriteSync, ProgramTypes
  <2> QED
    BY <1>4, <2>1 DEF WriteSync, Put
<1>5. CASE WriteAsync
  <2>1. CASE out # <<>> /\ Push(Head(out))
    BY <2>1, Ends, PortAssumption DEF Push, ProgramTypes
  <2>2. CASE Enable
    BY <2>2 DEF Enable, UCSR0B
  <2> QED
    BY <1>5, <2>1, <2>2 DEF WriteAsync
<1>6. CASE Written \/ ReadFull \/ Handle \/ \E line \in Lines : Ask(line)
  BY <1>6 DEF Written, ReadFull, Handle, Ask, portVars
<1>7. CASE ReadChar
  <2>1. CASE mode = "sync"
    <3>1. received # <<>> /\ received' = Tail(received)
          /\ UNCHANGED <<regs, readBuffer, writeBuffer, udr>>
      BY <1>7, <2>1 DEF ReadChar, Take, Incoming
    <3> QED
      BY <3>1, Ends, PortAssumption
  <2>2. CASE mode # "sync"
    <3>1. readBuffer # <<>> /\ readBuffer' = Tail(readBuffer)
          /\ UNCHANGED <<regs, received, writeBuffer, udr>>
      BY <1>7, <2>2 DEF ReadChar, Take, Incoming
    <3> QED
      BY <3>1, Ends, PortAssumption
  <2> QED
    BY <2>1, <2>2
<1>8. CASE Handlers
  <2>1. CASE RxInterrupt
    <3>1. Head(received) \in Piece
      BY <2>1, Ends DEF RxInterrupt
    <3>2. received' \in Seq(Piece) /\ Len(received') <= RxDepth
      BY <2>1, Ends, PortAssumption DEF RxInterrupt
    <3>3. readBuffer' \in Seq(Piece) /\ Len(readBuffer') <= BufferSize
      BY <2>1, <3>1, Ends, PortAssumption DEF RxInterrupt
    <3> QED
      BY <2>1, <3>2, <3>3 DEF RxInterrupt
  <2>2. CASE UdreInterrupt
    <3>1. CASE writeBuffer # <<>>
      <4>0. /\ udr' = <<Head(writeBuffer)>> /\ writeBuffer' = Tail(writeBuffer)
            /\ UNCHANGED <<regs, received, readBuffer>>
        BY <2>2, <3>1 DEF UdreInterrupt
      <4>1. Head(writeBuffer) \in Piece /\ <<Head(writeBuffer)>> \in Seq(Piece)
            /\ Len(<<Head(writeBuffer)>>) = 1
        BY <3>1, Ends
      <4> QED
        BY <3>1, <4>0, <4>1, Ends, PortAssumption
    <3>2. CASE writeBuffer = <<>>
      BY <2>2, <3>2 DEF UdreInterrupt
    <3> QED
      BY <3>1, <3>2
  <2> QED
    BY <1>8, <2>1, <2>2 DEF Handlers
<1>9. CASE Receive
  <2>1. Head(coming) \in Piece
    BY <1>9, Ends DEF Receive, ClientTypes
  <2>2. Len(received) = RxDepth => received # <<>>
    BY PortAssumption, EmptySeq
  <2>3. received # <<>> => Front(received) \in Seq(Piece) /\ Len(Front(received)) = Len(received) - 1
    BY Ends
  <2>4. /\ received' = IF "RXEN0" \notin regs THEN <<>>
                       ELSE IF Len(received) < RxDepth THEN Append(received, Head(coming))
                       ELSE Append(Front(received), Head(coming))
        /\ UNCHANGED <<regs, readBuffer, writeBuffer, udr>>
    BY <1>9 DEF Receive, Arrive
  <2>5. CASE "RXEN0" \notin regs
    BY <2>4, <2>5, PortAssumption, EmptySeq
  <2>6. CASE "RXEN0" \in regs /\ Len(received) < RxDepth
    BY <2>1, <2>4, <2>6, Ends, PortAssumption
  <2>7. CASE "RXEN0" \in regs /\ ~(Len(received) < RxDepth)
    BY <2>1, <2>2, <2>3, <2>4, <2>7, Ends, PortAssumption
  <2> QED
    BY <2>5, <2>6, <2>7
<1>10. CASE Send
  BY <1>10, EmptySeq DEF Send, Transmit
<1> QED
  BY <1>1, <1>2, <1>3, <1>4, <1>5, <1>6, <1>7, <1>8, <1>9, <1>10 DEF Next, Program

LEMMA ScriptLengths ==
    /\ Len(Constructor("async")) = 8 /\ Len(Constructor("sync")) = 2
    /\ Len(Destructor("async")) = 6 /\ Len(Destructor("sync")) = 2
BY ConstructorScript, DestructorScript, SyncScripts

LEMMA ProgramTypesStep ==
    ASSUME Types, Ready, Next
    PROVE  ProgramTypes'
<1> USE DEF Types, ProgramTypes, ConsoleAssumption, Pcs
<1>1. CASE Declare
  <2>1. /\ mode' \in {"sync", "async"} /\ step' = 1 /\ pc' = "construct"
        /\ UNCHANGED <<program, behind, out, buff, i>>
    BY <1>1 DEF Declare, Begin, Goto
  <2>2. Len(Constructor(mode')) \in {2, 8}
    BY <2>1, ScriptLengths, Zenon
  <2>3. \A n \in {2, 8} : 1 <= n
    OBVIOUS
  <2>4. step' <= Len(Constructor(mode'))
    BY <2>1, <2>2, <2>3, Zenon
  <2> QED
    BY <2>1, <2>4
<1>2. CASE Construct
  <2>1. /\ mode' = mode /\ step' = step + 1 /\ UNCHANGED <<program, behind, buff, i>>
        /\ IF step = Len(Constructor(mode)) THEN pc' = "write" /\ out' = Greeting
           ELSE pc' = "construct" /\ UNCHANGED out
    BY <1>2 DEF Construct, Execute, Goto
  <2>2. CASE mode = "async"
    <3>1. step \in 1 .. 8 /\ Len(Constructor(mode)) = 8
      BY <1>2, <2>2, ConstructPlace, ScriptLengths
    <3> QED
      <4>1. /\ IF step = 8 THEN pc' = "write" /\ out' = Greeting
               ELSE pc' = "construct" /\ UNCHANGED out
        BY <2>1, <3>1, Zenon
      <4>2. pc' = "construct" => step' <= 8
        BY <2>1, <3>1, <4>1
      <4>3. pc' = "construct" => step' <= Len(Constructor(mode'))
        BY <2>1, <3>1, <4>2, Zenon
      <4> QED
        BY <2>1, <2>2, <3>1, <4>1, <4>3, Pieces
  <2>3. CASE mode = "sync"
    <3>1. step \in 1 .. 2 /\ Len(Constructor(mode)) = 2
      BY <1>2, <2>3, ConstructPlace, ScriptLengths
    <3> QED
      <4>1. /\ IF step = 2 THEN pc' = "write" /\ out' = Greeting
               ELSE pc' = "construct" /\ UNCHANGED out
        BY <2>1, <3>1, Zenon
      <4>2. pc' = "construct" => step' <= 2
        BY <2>1, <3>1, <4>1
      <4>3. pc' = "construct" => step' <= Len(Constructor(mode'))
        BY <2>1, <3>1, <4>2, Zenon
      <4> QED
        BY <2>1, <2>3, <3>1, <4>1, <4>3, Pieces
  <2> QED
    BY <1>2, <2>2, <2>3, ConstructPlace
<1>3. CASE Destruct
  <2>1. /\ mode' = mode /\ step' = step + 1 /\ UNCHANGED <<program, behind, out, buff, i>>
        /\ pc' = IF step = Len(Destructor(mode)) THEN "declare" ELSE "destruct"
    BY <1>3 DEF Destruct, Execute, Goto
  <2>2. CASE mode = "async"
    <3>1. step \in 1 .. 6 /\ Len(Destructor(mode)) = 6
      BY <1>3, <2>2, DestructPlace, ScriptLengths
    <3> QED
      <4>1. /\ pc' = IF step = 6 THEN "declare" ELSE "destruct"
        BY <2>1, <3>1, Zenon
      <4>2. pc' = "destruct" => step' <= 6
        BY <2>1, <3>1, <4>1
      <4>3. pc' = "destruct" => step' <= Len(Destructor(mode'))
        BY <2>1, <3>1, <4>2, Zenon
      <4> QED
        BY <2>1, <2>2, <3>1, <4>1, <4>3
  <2>3. CASE mode = "sync"
    <3>1. step \in 1 .. 2 /\ Len(Destructor(mode)) = 2
      BY <1>3, <2>3, DestructPlace, ScriptLengths
    <3> QED
      <4>1. /\ pc' = IF step = 2 THEN "declare" ELSE "destruct"
        BY <2>1, <3>1, Zenon
      <4>2. pc' = "destruct" => step' <= 2
        BY <2>1, <3>1, <4>1
      <4>3. pc' = "destruct" => step' <= Len(Destructor(mode'))
        BY <2>1, <3>1, <4>2, Zenon
      <4> QED
        BY <2>1, <2>3, <3>1, <4>1, <4>3
  <2> QED
    BY <1>3, <2>2, <2>3, DestructPlace
<1>4. CASE WriteSync \/ WriteAsync
  <2>1. /\ UNCHANGED <<mode, step, program, behind, buff, i>> /\ pc' \in {"write", "enable"}
        /\ \/ out' = out
           \/ out # <<>> /\ out' = Tail(out)
    BY <1>4 DEF WriteSync, WriteAsync, Put, Push, Enable, Wrote, Goto
  <2> QED
    BY <2>1, Ends
<1>5. CASE Written
  <2>1. /\ UNCHANGED <<mode, program, behind, buff, out>> /\ i' \in {i, 0}
        /\ \/ pc' = "destruct" /\ step' = 1
           \/ pc' = "read" /\ step' = step
    BY <1>5 DEF Written, Goto
  <2>2. mode \in {"sync", "async"}
    BY <1>5 DEF Written, Goto, Ready
  <2>3. Len(Destructor(mode')) \in {2, 6}
    BY <2>1, <2>2, ScriptLengths, Zenon
  <2>4. \A n \in {2, 6} : 1 <= n
    OBVIOUS
  <2>5. step' = 1 => step' <= Len(Destructor(mode'))
    BY <2>3, <2>4, Zenon
  <2> QED
    BY <2>1, <2>5, ConsoleAssumption
<1>6. CASE ReadChar
  <2>1. Head(Incoming) \in Piece
    BY <1>6, Ends DEF ReadChar, Take, Incoming, PortTypes
  <2>2. /\ UNCHANGED <<mode, step, program, behind, out>> /\ i < Size - 1
        /\ \/ pc' = "handle" /\ buff' = [[buff EXCEPT ![i] = Head(Incoming)] EXCEPT ![i] = NUL]
              /\ i' = i
           \/ pc' = "read" /\ buff' = [buff EXCEPT ![i] = Head(Incoming)] /\ i' = i + 1
    BY <1>6 DEF ReadChar, Take, Goto, LineEnd
  <2> QED
    BY <2>1, <2>2, Pieces, ConsoleAssumption
<1>7. CASE ReadFull
  <2>1. /\ UNCHANGED <<mode, step, program, behind, out, i>> /\ pc' = "handle"
        /\ buff' = [buff EXCEPT ![i] = NUL]
    BY <1>7 DEF ReadFull, Goto, LineEnd, portVars
  <2> QED
    BY <2>1, Pieces
<1>8. CASE Handle
  <2>1. Text \in Seq(Piece)
    BY ConsoleAssumption DEF Text
  <2>2. Append(Text, mark) \in Seq(Piece)
    BY <2>1, Ends, Pieces
  <2>3. /\ UNCHANGED <<mode, step, program, behind, buff, i>> /\ pc' = "write"
        /\ out' \in {Append(Text, mark), OK, ERROR}
    BY <1>8 DEF Handle, Goto, portVars
  <2> QED
    BY <2>2, <2>3, Pieces
<1>9. CASE Handlers \/ Receive \/ Send \/ \E line \in Lines : Ask(line)
  <2>1. UNCHANGED <<mode, step, program, behind, pc, out, buff, i>>
    BY <1>9 DEF Handlers, RxInterrupt, UdreInterrupt, Receive, Arrive, Send, Transmit, Ask,
                portVars, consoleVars
  <2> QED
    BY <2>1
<1> QED
  BY <1>1, <1>2, <1>3, <1>4, <1>5, <1>6, <1>7, <1>8, <1>9 DEF Next, Program

LEMMA ClientTypesStep ==
    ASSUME Types, NothingUnsent, Next
    PROVE  ClientTypes'
<1> USE DEF Types, ClientTypes, ConsoleAssumption
<1>1. CASE Declare \/ Construct \/ Written \/ Destruct \/ ReadChar \/ ReadFull \/ Handle \/ Handlers
  <2>1. UNCHANGED <<clientVars, owed>>
    BY <1>1 DEF Declare, Construct, Written, Destruct, ReadChar, ReadFull, Handle, Handlers
  <2> QED
    BY <2>1 DEF clientVars
<1>2. CASE WriteSync \/ WriteAsync
  <2>1. /\ UNCHANGED clientVars
        /\ \/ owed' = owed
           \/ out # <<>> /\ owed' = Append(owed, Head(out))
    BY <1>2 DEF WriteSync, WriteAsync, Wrote
  <2>2. out # <<>> => Head(out) \in Piece
    BY Ends DEF ProgramTypes
  <2> QED
    BY <2>1, <2>2, Ends DEF clientVars
<1>3. CASE Receive
  <2>1. coming # <<>> /\ coming' = Tail(coming) /\ UNCHANGED <<due, sent, asked, calm, owed>>
    BY <1>3 DEF Receive
  <2> QED
    BY <2>1, Ends
<1>4. CASE Send
  <2>1. /\ owed' = Tail(owed) /\ due' \in {due, due - 1} /\ (due' = due - 1 => due > 0 \/ due' = due)
        /\ UNCHANGED <<coming, sent, asked, calm>>
    BY <1>4 DEF Send
  <2>2. owed # <<>>
    <3>1. udr # <<>>
      BY <1>4 DEF Send, Transmit
    <3> QED
      BY <3>1, ConcatEqualIffEmpty DEF NothingUnsent, PortTypes
  <2> QED
    BY <2>1, <2>2, Ends
<1>5. ASSUME NEW line \in Lines, Ask(line) PROVE ClientTypes'
  <2>1. line \in Seq(Piece) /\ Append(line, mark) \in Seq(Piece)
    BY <1>5, ConsoleAssumption, Pieces, Ends
  <2>2. coming \o Append(line, mark) \in Seq(Piece)
    BY <2>1, ConcatProperties
  <2>3. /\ sent < MaxLines /\ sent' = sent + 1 /\ due' = due + 1 /\ asked' = line
        /\ coming' = coming \o Append(line, mark) /\ calm' \in BOOLEAN /\ UNCHANGED owed
    BY <1>5 DEF Ask
  <2> QED
    BY <2>1, <2>2, <2>3, ConsoleAssumption
<1> QED
  BY <1>1, <1>2, <1>3, <1>4, <1>5 DEF Next, Program

-----------------------------------------------------------------------------
(* What is written leaves once and in order.                               *)

LEMMA HeadAndTail ==
    ASSUME NEW s \in Seq(Piece), s # <<>>
    PROVE  <<Head(s)>> \o Tail(s) = s
<1>1. SubSeq(s, 1, Len(s)) = s /\ Len(s) \in Nat \ {0}
  BY EmptySeq, SubSeqFull
<1>2. SubSeq(s, 1, Len(s)) = <<s[1]>> \o SubSeq(s, 2, Len(s))
  <2>1. 1 \in 1 .. Len(s) /\ Len(s) \in 1 .. Len(s)
    BY <1>1
  <2>2. SubSeq(s, 1, Len(s)) = <<s[1]>> \o SubSeq(s, 1 + 1, Len(s))
    BY <2>1, SubSeqRecursiveFirst
  <2> QED
    BY <2>2
<1> QED
  BY <1>1, <1>2, TailIsSubSeq

LEMMA TailOfConcat ==
    ASSUME NEW c \in Piece, NEW t \in Seq(Piece)
    PROVE  Tail(<<c>> \o t) = t
<1>1. <<c>> \in Seq(Piece) /\ <<c>> \o t \in Seq(Piece) /\ <<c>> \o t # <<>>
  BY ConcatProperties, ConcatEqualIffEmpty
<1>2. <<Head(<<c>> \o t)>> \o Tail(<<c>> \o t) = <<c>> \o t
  BY <1>1, HeadAndTail
<1>3. Head(<<c>> \o t) = c
  BY <1>1, ConcatProperties
<1>4. Tail(<<c>> \o t) \in Seq(Piece)
  BY <1>1, HeadTailProperties
<1>5. \A v \in Seq(Piece) : <<c>> \o v = <<c>> \o t => v = t
  BY <1>1, ConcatSimplifications, Zenon
<1> QED
  BY <1>2, <1>3, <1>4, <1>5, Zenon

Unsent ==
    /\ NothingUnsent
    /\ mode # "async" \/ pc \in {"declare", "construct", "destruct"} => writeBuffer = <<>>

LEMMA UnsentStep ==
    ASSUME Types, Ready, Unsent, Next
    PROVE  Unsent'
<1> USE DEF Unsent, NothingUnsent
<1>1. CASE Declare
  BY <1>1 DEF Declare, Begin, Goto
<1>2. CASE Construct \/ Destruct
  <2>1. UNCHANGED <<mode, udr, writeBuffer, owed>> /\ pc \in {"construct", "destruct"}
    BY <1>2 DEF Construct, Destruct, Execute, Goto
  <2> QED
    BY <2>1
<1>3. CASE WriteSync
  <2>1. /\ mode = "sync" /\ udr = <<>> /\ udr' = <<Head(out)>> /\ out # <<>> /\ mode' = mode
        /\ owed' = Append(owed, Head(out)) /\ UNCHANGED writeBuffer
    BY <1>3 DEF WriteSync, Put, Wrote
  <2>2. Head(out) \in Piece
    BY <2>1, Ends DEF Types, ProgramTypes
  <2>3. owed = <<>> /\ writeBuffer = <<>>
    BY <2>1
  <2>4. owed' = <<Head(out)>>
    BY <2>1, <2>3
  <2>5. <<Head(out)>> \o <<>> = <<Head(out)>>
    BY <2>2, ConcatEmptySeq
  <2> QED
    BY <2>1, <2>3, <2>4, <2>5
<1>4. CASE WriteAsync
  <2>1. CASE Goto("write", "enable") /\ out # <<>> /\ Push(Head(out)) /\ Wrote
    <3>1. /\ mode' = "async" /\ pc' = "enable" /\ writeBuffer' = Append(writeBuffer, Head(out))
          /\ owed' = Append(owed, Head(out)) /\ UNCHANGED udr
      BY <2>1 DEF Goto, Push, Wrote
    <3>2. Head(out) \in Piece
      BY <2>1, Ends DEF Types, ProgramTypes
    <3>3. /\ Append(writeBuffer, Head(out)) = writeBuffer \o <<Head(out)>>
          /\ Append(udr \o writeBuffer, Head(out)) = (udr \o writeBuffer) \o <<Head(out)>>
      BY <3>2, AppendIsConcat, ConcatProperties DEF Types, PortTypes
    <3>4. (udr \o writeBuffer) \o <<Head(out)>> = udr \o (writeBuffer \o <<Head(out)>>)
      BY <3>2, ConcatAssociative DEF Types, PortTypes
    <3> QED
      BY <3>1, <3>3, <3>4
  <2>2. CASE Goto("enable", "write") /\ Enable /\ UNCHANGED owed
    BY <2>2 DEF Goto, Enable
  <2> QED
    BY <1>4, <2>1, <2>2 DEF WriteAsync
<1>5. CASE Written
  <2>1. CASE pc' = "destruct" /\ (mode = "async" => owed = <<>>) /\ UNCHANGED <<mode, udr, writeBuffer, owed>>
    <3>1. udr \o writeBuffer = <<>> => writeBuffer = <<>>
      BY ConcatEqualIffEmpty DEF Types, PortTypes
    <3> QED
      BY <2>1, <3>1
  <2>2. CASE pc' = "read" /\ UNCHANGED <<mode, udr, writeBuffer, owed>>
    BY <2>2
  <2> QED
    BY <1>5, <2>1, <2>2 DEF Written, Goto
<1>6. CASE ReadChar \/ ReadFull \/ Handle \/ Receive \/ \E line \in Lines : Ask(line)
  <2>1. /\ UNCHANGED <<mode, udr, writeBuffer, owed>>
        /\ pc' = pc \/ pc' \notin {"declare", "construct", "destruct"}
    BY <1>6 DEF ReadChar, ReadFull, Handle, Receive, Ask, Take, Arrive, Goto, portVars, consoleVars
  <2> QED
    BY <2>1
<1>7. CASE Handlers
  <2>1. CASE writeBuffer = <<>> \/ RxInterrupt
    <3>1. UNCHANGED <<mode, udr, writeBuffer, owed, pc>>
      BY <1>7, <2>1 DEF Handlers, RxInterrupt, UdreInterrupt, consoleVars
    <3> QED
      BY <3>1
  <2>2. CASE writeBuffer # <<>> /\ UdreInterrupt
    <3>1. /\ udr = <<>> /\ udr' = <<Head(writeBuffer)>> /\ writeBuffer' = Tail(writeBuffer)
          /\ UNCHANGED <<mode, owed, pc>>
      BY <1>7, <2>2 DEF Handlers, UdreInterrupt, consoleVars
    <3>2. owed = writeBuffer
      BY <3>1, ConcatEmptySeq DEF Types, PortTypes
    <3> QED
      BY <2>2, <3>1, <3>2, HeadAndTail DEF Types, PortTypes
  <2> QED
    BY <1>7, <2>1, <2>2 DEF Handlers
<1>8. CASE Send
  <2>1. udr # <<>> /\ udr' = <<>> /\ owed' = Tail(owed) /\ UNCHANGED <<mode, writeBuffer, pc>>
    BY <1>8 DEF Send, Transmit, consoleVars
  <2>2. PICK c \in Piece : udr = <<c>>
    <3>0. Len(udr) \in Nat \ {0} /\ Len(udr) <= 1
      BY <2>1, EmptySeq DEF Types, PortTypes
    <3>1. Len(udr) = 1
      <4>1. \A n \in Nat \ {0} : n <= 1 => n = 1
        OBVIOUS
      <4> QED
        BY <3>0, <4>1, Zenon
    <3>2. udr[1] \in Piece
      <4>1. udr \in Seq(Piece) /\ 1 \in 1 .. Len(udr)
        BY <3>1 DEF Types, PortTypes
      <4> QED
        BY <4>1, ElementOfSeq, Zenon
    <3>3. <<udr[1]>> \in Seq(Piece) /\ Len(<<udr[1]>>) = 1 /\ <<udr[1]>>[1] = udr[1]
      BY <3>2
    <3>4. udr = <<udr[1]>>
      BY <3>1, <3>3, SeqEqual DEF Types, PortTypes
    <3> QED
      BY <3>2, <3>4
  <2>3. Tail(owed) = writeBuffer
    BY <2>2, TailOfConcat DEF Types, PortTypes
  <2>4. <<>> \o writeBuffer = writeBuffer
    BY ConcatEmptySeq DEF Types, PortTypes
  <2> QED
    BY <2>1, <2>3, <2>4
<1> QED
  BY <1>1, <1>2, <1>3, <1>4, <1>5, <1>6, <1>7, <1>8 DEF Next, Program

-----------------------------------------------------------------------------
(* The theorems.                                                           *)

ConsoleInv == Ready /\ Types /\ Unsent

\* The inductive invariant: where the port is in its life, what holds of its
\* registers there, the types, and an empty buffer wherever one is made anew.
THEOREM ConsoleInvariant == Spec => []ConsoleInv
<1>1. Init => ConsoleInv
  <2> SUFFICES ASSUME Init PROVE ConsoleInv
    OBVIOUS
  <2>1. PortTypes
    BY NothingFits, EmptySeq DEF Init, PortInit, PortTypes
  <2>2. ProgramTypes
    <3>1. /\ mode = "none" /\ step = 1 /\ pc = "declare" /\ out = <<>> /\ i = 0
          /\ program \in {"motor_main", "echo", "write_sync_async"}
          /\ buff = [k \in 0 .. Size - 1 |-> Ch("junk")]
      BY DEF Init, PortInit
    <3>2. behind \in BOOLEAN
      BY Zenon DEF Init
    <3>3. Ch("junk") \in Piece
      BY DEF Ch, Piece
    <3>4. i \in 0 .. Size - 1
      BY <3>1, ConsoleAssumption DEF ConsoleAssumption
    <3> QED
      BY <3>1, <3>2, <3>3, <3>4, EmptySeq DEF ProgramTypes, Pcs
  <2>3. ClientTypes
    BY EmptySeq, ConsoleAssumption DEF Init, ClientTypes, ConsoleAssumption
  <2>4. Unsent
    BY ConcatEmptySeq DEF Init, PortInit, Unsent, NothingUnsent
  <2> QED
    BY <2>1, <2>2, <2>3, <2>4, ReadyInit DEF ConsoleInv, Types
<1>2. ConsoleInv /\ [Next]_vars => ConsoleInv'
  <2> SUFFICES ASSUME ConsoleInv, [Next]_vars PROVE ConsoleInv'
    OBVIOUS
  <2>1. Ready'
    BY ReadyStep DEF ConsoleInv
  <2>2. CASE Next
    BY <2>1, <2>2, PortTypesStep, ProgramTypesStep, ClientTypesStep, UnsentStep
    DEF ConsoleInv, Types, Unsent
  <2>3. CASE UNCHANGED vars
    BY <2>1, <2>3 DEF ConsoleInv, Types, PortTypes, ProgramTypes, ClientTypes, Unsent, NothingUnsent,
                      vars, portVars, consoleVars, clientVars
  <2> QED
    BY <2>2, <2>3
<1> QED
  BY <1>1, <1>2, PTL DEF Spec

\* The array of a line is never left, nor any buffer overfilled, whatever comes.
THEOREM TypeCorrect == Spec => []TypeOK
<1>1. ConsoleInv => TypeOK
  BY DEF ConsoleInv, Types, PortTypes, ProgramTypes, ClientTypes, TypeOK
<1> QED
  BY <1>1, ConsoleInvariant, PTL

\* With either port, and across the change from one to the other, every
\* character written leaves once and in its turn.
THEOREM NothingIsUnsent == Spec => []NothingUnsent
<1>1. ConsoleInv => NothingUnsent
  BY DEF ConsoleInv, Unsent
<1> QED
  BY <1>1, ConsoleInvariant, PTL

-----------------------------------------------------------------------------
(* What is obeyed stands in the line.                                      *)

\* What the search for the end of the blanks rests on: a set of numbers that is
\* not empty has a least one.
LEMMA LeastPlace ==
    ASSUME NEW T \in SUBSET Nat, T # {}
    PROVE  \E n \in T : \A m \in T : n <= m
<1>1. PICK n \in T : \A m \in T : ~(<<m, n>> \in OpToRel(<, Nat))
  BY NatLessThanWellFounded, WFMin
<1>2. \A m \in T : <<m, n>> \in OpToRel(<, Nat) <=> m < n
  BY <1>1 DEF OpToRel
<1>3. \A m \in T : ~(m < n)
  BY <1>1, <1>2, Zenon
<1>4. \A m \in T : n <= m
  BY <1>3
<1> QED
  BY <1>4

\* Blanks are skipped up to a NUL, never over it.
LEMMA BlanksStop ==
    ASSUME NEW e \in 0 .. Size - 1, buff[e] = NUL, NEW k \in 0 .. e
    PROVE  Blanks(k) \in k .. e
<1> DEFINE T == {n \in k .. Size : At(n).is # "space"}
<1>0. Size \in Nat
  BY ConsoleAssumption DEF ConsoleAssumption
<1>1. At(e).is # "space"
  BY <1>0 DEF At, NUL, Ch
<1>2. e \in T /\ T \in SUBSET Nat
  BY <1>0, <1>1
<1>3. PICK n \in T : \A m \in T : n <= m
  <2> HIDE DEF T
  <2> QED
    BY <1>2, LeastPlace
<1>4. \A j \in k .. n - 1 : At(j).is = "space"
  BY <1>0, <1>3
<1>5. /\ Blanks(k) \in k .. Size
      /\ \A j \in k .. Blanks(k) - 1 : At(j).is = "space"
  BY <1>3, <1>4 DEF Blanks
<1> QED
  BY <1>0, <1>1, <1>5

\* The places of the four arguments, one after the other.
LEMMA Places ==
    /\ Place[1] = Blanks(Arguments)
    /\ \A n \in 2 .. 4 : Place[n] = Blanks(Place[n - 1] + 1)
<1> DEFINE p1 == Blanks(Arguments)
           p2 == Blanks(p1 + 1)
           p3 == Blanks(p2 + 1)
           p4 == Blanks(p3 + 1)
           g == [n \in 1 .. 4 |-> IF n = 1 THEN p1 ELSE IF n = 2 THEN p2 ELSE IF n = 3 THEN p3 ELSE p4]
           Step(f, n) == Blanks(IF n = 1 THEN Arguments ELSE f[n - 1] + 1)
<1>1. g = [n \in 1 .. 4 |-> Step(g, n)]
  <2>1. /\ g[1] = p1 /\ g[2] = p2 /\ g[3] = p3 /\ g[4] = p4
        /\ 2 - 1 = 1 /\ 3 - 1 = 2 /\ 4 - 1 = 3
    OBVIOUS
  <2>2. ASSUME NEW n \in 1 .. 4 PROVE g[n] = Step(g, n)
    <3>1. n = 1 \/ n = 2 \/ n = 3 \/ n = 4
      OBVIOUS
    <3>2. 1 # 2 /\ 1 # 3 /\ 1 # 4
      OBVIOUS
    <3> HIDE DEF g
    <3> QED
      BY <2>1, <3>1, <3>2, Zenon
  <2> QED
    BY <2>2, Zenon
<1>2. Place = CHOOSE f : f = [n \in 1 .. 4 |-> Step(f, n)]
  BY Zenon DEF Place
<1>3. Place = [n \in 1 .. 4 |-> Step(Place, n)]
  <2> HIDE DEF g, Step
  <2> QED
    BY <1>1, <1>2, Zenon
<1>4. \A n \in 1 .. 4 : Place[n] = Step(Place, n)
  <2> HIDE DEF Step
  <2> QED
    BY <1>3, Zenon
<1>5. /\ \A n \in 2 .. 4 : n \in 1 .. 4 /\ n # 1
      /\ 1 \in 1 .. 4
  OBVIOUS
<1> QED
  BY <1>4, <1>5, Zenon

LineEnded == pc = "handle" => buff[i] = NUL

LEMMA LineEndedStep ==
    ASSUME ConsoleInv, LineEnded, [Next]_vars
    PROVE  LineEnded'
<1> USE DEF LineEnded
<1>1. i \in 0 .. Size - 1 /\ buff \in [0 .. Size - 1 -> Piece]
  BY DEF ConsoleInv, Types, ProgramTypes
<1>2. CASE ReadChar
  <2>1. \/ pc' # "handle"
        \/ i' = i /\ buff' = [[buff EXCEPT ![i] = Head(Incoming)] EXCEPT ![i] = NUL]
    BY <1>2 DEF ReadChar, Goto, LineEnd
  <2> QED
    BY <1>1, <2>1
<1>3. CASE ReadFull
  <2>1. i' = i /\ buff' = [buff EXCEPT ![i] = NUL]
    BY <1>3 DEF ReadFull, LineEnd
  <2> QED
    BY <1>1, <2>1
<1>4. CASE Declare \/ Construct \/ WriteSync \/ WriteAsync \/ Written \/ Destruct \/ Handle
  <2>1. pc' # "handle"
    BY <1>4 DEF Declare, Construct, WriteSync, WriteAsync, Written, Destruct, Handle, Goto
  <2> QED
    BY <2>1
<1>5. CASE Handlers \/ Receive \/ Send \/ (\E line \in Lines : Ask(line)) \/ UNCHANGED vars
  <2>1. UNCHANGED <<pc, buff, i>>
    BY <1>5 DEF Handlers, Receive, Send, Ask, vars, consoleVars
  <2> QED
    BY <2>1
<1> QED
  BY <1>2, <1>3, <1>4, <1>5 DEF Next, Program

\* A command is obeyed for what stands in its line, whatever the array held.
THEOREM NothingIsStale == Spec => []NothingStale
<1>1. Init => LineEnded
  BY DEF Init, LineEnded
<1>2. ConsoleInv /\ LineEnded => NothingStale
  <2> SUFFICES ASSUME ConsoleInv, LineEnded, pc = "handle", IsCommand
               PROVE  Place[4] < i \/ (i = 1 /\ behind)
    BY DEF NothingStale
  <2>0. Size \in Nat \ {0, 1}
    BY ConsoleAssumption DEF ConsoleAssumption
  <2>1. i \in 0 .. Size - 1 /\ buff[i] = NUL
    BY DEF ConsoleInv, Types, ProgramTypes, LineEnded
  <2>2. /\ Arguments > 0
        /\ \A n \in 1 .. 4 : At(Place[n]).is = "number"
    BY DEF IsCommand
  <2>3. At(0).is = "name" /\ Arguments \in {1, 2} /\ (Arguments = 2 => behind /\ At(1) = NUL)
    BY <2>2 DEF Arguments
  <2>4. i >= 1
    <3>1. At(0) = buff[0]
      BY <2>0 DEF At
    <3>2. NUL.is # "name"
      BY DEF NUL, Ch
    <3> QED
      BY <2>1, <2>3, <3>1, <3>2
  <2>5. CASE Arguments > i
    BY <2>0, <2>1, <2>3, <2>4, <2>5
  <2>6. CASE Arguments <= i
    <3>1. ASSUME NEW k \in 0 .. i, At(Blanks(k)).is = "number"
          PROVE  Blanks(k) + 1 \in 0 .. i
      <4>1. Blanks(k) \in k .. i
        BY <2>1, BlanksStop
      <4>2. At(i) = NUL /\ NUL.is # "number"
        BY <2>0, <2>1 DEF At, NUL, Ch
      <4>3. Blanks(k) # i
        BY <3>1, <4>2
      <4> QED
        BY <2>0, <2>1, <4>1, <4>3
    <3>2. Place[1] = Blanks(Arguments) /\ Place[2] = Blanks(Place[1] + 1)
          /\ Place[3] = Blanks(Place[2] + 1) /\ Place[4] = Blanks(Place[3] + 1)
      <4>1. 2 - 1 = 1 /\ 3 - 1 = 2 /\ 4 - 1 = 3 /\ 2 \in 2 .. 4 /\ 3 \in 2 .. 4 /\ 4 \in 2 .. 4
        OBVIOUS
      <4> QED
        BY <4>1, Places, Zenon
    <3>3. At(Place[1]).is = "number" /\ At(Place[2]).is = "number"
          /\ At(Place[3]).is = "number" /\ At(Place[4]).is = "number"
      BY <2>2
    <3>4. Arguments \in 0 .. i
      BY <2>1, <2>3, <2>6
    <3>5. Place[1] + 1 \in 0 .. i
      BY <3>1, <3>2, <3>3, <3>4
    <3>6. Place[2] + 1 \in 0 .. i
      BY <3>1, <3>2, <3>3, <3>5
    <3>7. Place[3] + 1 \in 0 .. i
      BY <3>1, <3>2, <3>3, <3>6
    <3>8. Place[4] = Blanks(Place[3] + 1) /\ Blanks(Place[3] + 1) + 1 \in 0 .. i
          /\ Blanks(Place[3] + 1) \in Place[3] + 1 .. i
      BY <2>1, <3>1, <3>2, <3>3, <3>7, BlanksStop
    <3> QED
      BY <2>1, <3>7, <3>8
  <2> QED
    BY <2>1, <2>3, <2>5, <2>6
<1>3. Spec => []LineEnded
  BY <1>1, LineEndedStep, ConsoleInvariant, PTL DEF Spec
<1> QED
  BY <1>2, <1>3, ConsoleInvariant, PTL

-----------------------------------------------------------------------------
(* A client that waits.                                                    *)

Unmarked(s) == \A k \in 1 .. Len(s) : s[k] # mark

\* A text to be written: it ends with its only mark.
Marked(s) == s # <<>> /\ \A k \in 1 .. Len(s) : s[k] = mark <=> k = Len(s)

\* What is left of `line` behind its first n pieces.
Rest(s, line, n) ==
    /\ n \in Nat /\ Len(s) = Len(line) - n
    /\ \A k \in 1 .. Len(s) : s[k] = line[n + k]

NothingIn == received = <<>> /\ readBuffer = <<>>
Silence   == coming = <<>> /\ NothingIn

Starting == pc \in {"declare", "construct"} /\ due = 1 /\ owed = <<>> /\ Silence

\* The mark is still to be written, or has not left yet.
Answering ==
    /\ pc \in {"write", "enable", "read"} /\ due = 1 /\ Silence
    /\ \/ pc # "read" /\ Unmarked(owed) /\ Marked(out)
       \/ out = <<>> /\ Marked(owed)
    /\ pc = "read" => i = 0

Idle ==
    /\ pc \in {"write", "enable", "read"} /\ due = 0 /\ Silence /\ owed = <<>> /\ out = <<>>
    /\ pc = "read" => i = 0

\* The line comes in piece by piece: the receiver, or the buffer, holds one at
\* most.
Fits == Unmarked(asked) /\ Len(asked) <= Size - 2

ComingIn(line) ==
    \/ NothingIn /\ Rest(coming, line, i)
    \/ received = <<line[i + 1]>> /\ readBuffer = <<>> /\ Rest(coming, line, i + 1)
    \/ mode = "async" /\ readBuffer = <<line[i + 1]>> /\ received = <<>> /\ Rest(coming, line, i + 1)

ReadIn == i <= Len(asked) /\ \A k \in 0 .. i - 1 : buff[k] = asked[k + 1]

ReadingIn ==
    /\ due = 1 /\ owed = <<>> /\ out = <<>> /\ Fits
    /\ \/ pc \in {"write", "enable"} /\ NothingIn /\ Rest(coming, Append(asked, mark), 0)
       \/ pc = "read" /\ ComingIn(Append(asked, mark)) /\ ReadIn

Handling == pc = "handle" /\ due = 1 /\ owed = <<>> /\ Silence /\ Unmarked(asked) /\ Text = asked

Dialogue ==
    calm => /\ program # "write_sync_async"
            /\ Starting \/ Answering \/ Idle \/ ReadingIn \/ Handling

LEMMA Taken ==
    ASSUME NEW s \in Seq(Piece), s # <<>>
    PROVE  /\ \A k \in 1 .. Len(Tail(s)) : k + 1 \in 2 .. Len(s) /\ Tail(s)[k] = s[k + 1]
           /\ 1 \in 1 .. Len(s) /\ Head(s) = s[1]
           /\ Len(Tail(s)) = Len(s) - 1 /\ Len(s) \in Nat
OBVIOUS

LEMMA Appended ==
    ASSUME NEW s \in Seq(Piece), NEW c \in Piece
    PROVE  /\ Len(Append(s, c)) = Len(s) + 1 /\ Len(s) \in Nat
           /\ \A k \in 1 .. Len(s) : Append(s, c)[k] = s[k]
           /\ Append(s, c)[Len(s) + 1] = c
           /\ Append(s, c) # <<>>
OBVIOUS

LEMMA MarkedTaken ==
    ASSUME NEW s \in Seq(Piece), Marked(s)
    PROVE  /\ s # <<>> /\ (Head(s) = mark <=> Tail(s) = <<>>)
           /\ Tail(s) # <<>> => Marked(Tail(s))
<1>1. /\ \A k \in 1 .. Len(Tail(s)) : k + 1 \in 2 .. Len(s) /\ Tail(s)[k] = s[k + 1]
      /\ 1 \in 1 .. Len(s) /\ Head(s) = s[1]
      /\ Len(Tail(s)) = Len(s) - 1 /\ Len(s) \in Nat /\ s # <<>>
  BY Taken DEF Marked
<1>2. Tail(s) = <<>> <=> Len(Tail(s)) = 0
  BY <1>1, Ends
<1>3. Head(s) = mark <=> 1 = Len(s)
  BY <1>1 DEF Marked
<1>4. Head(s) = mark <=> Tail(s) = <<>>
  BY <1>1, <1>2, <1>3
<1>5. \A k \in 1 .. Len(Tail(s)) : k + 1 \in 1 .. Len(s) /\ (k + 1 = Len(s) <=> k = Len(Tail(s)))
  BY <1>1
<1>6. \A k \in 1 .. Len(Tail(s)) : Tail(s)[k] = mark <=> k = Len(Tail(s))
  BY <1>1, <1>5 DEF Marked
<1> QED
  BY <1>1, <1>4, <1>6 DEF Marked

LEMMA UnmarkedTaken ==
    ASSUME NEW s \in Seq(Piece), Unmarked(s), s # <<>>
    PROVE  Head(s) # mark /\ Unmarked(Tail(s))
<1>1. /\ \A k \in 1 .. Len(Tail(s)) : k + 1 \in 2 .. Len(s) /\ Tail(s)[k] = s[k + 1]
      /\ 1 \in 1 .. Len(s) /\ Head(s) = s[1]
  BY Taken
<1>2. \A k \in 1 .. Len(Tail(s)) : k + 1 \in 1 .. Len(s)
  BY <1>1
<1> QED
  BY <1>1, <1>2 DEF Unmarked

LEMMA MarkedSent ==
    ASSUME NEW s \in Seq(Piece), NEW c \in Piece, Unmarked(s)
    PROVE  /\ c = mark => Marked(Append(s, c))
           /\ c # mark => Unmarked(Append(s, c))
<1>1. /\ Len(Append(s, c)) = Len(s) + 1 /\ Len(s) \in Nat
      /\ \A k \in 1 .. Len(s) : Append(s, c)[k] = s[k]
      /\ Append(s, c)[Len(s) + 1] = c
      /\ Append(s, c) # <<>>
  BY Appended
<1>2. \A k \in 1 .. Len(s) + 1 : k = Len(s) + 1 \/ k \in 1 .. Len(s)
  BY <1>1
<1>3. \A k \in 1 .. Len(s) : k # Len(s) + 1
  BY <1>1
<1> QED
  BY <1>1, <1>2, <1>3 DEF Unmarked, Marked

LEMMA RestTaken ==
    ASSUME NEW s \in Seq(Piece), NEW line \in Seq(Piece), NEW n \in Nat, Rest(s, line, n), s # <<>>
    PROVE  Head(s) = line[n + 1] /\ Rest(Tail(s), line, n + 1)
<1>1. /\ \A k \in 1 .. Len(Tail(s)) : k + 1 \in 2 .. Len(s) /\ Tail(s)[k] = s[k + 1]
      /\ 1 \in 1 .. Len(s) /\ Head(s) = s[1]
      /\ Len(Tail(s)) = Len(s) - 1 /\ Len(s) \in Nat
  BY Taken
<1>2. Head(s) = line[n + 1]
  BY <1>1 DEF Rest
<1>3. \A k \in 1 .. Len(Tail(s)) : k + 1 \in 1 .. Len(s) /\ n + (k + 1) = (n + 1) + k
  BY <1>1
<1>4. \A k \in 1 .. Len(Tail(s)) : Tail(s)[k] = line[(n + 1) + k]
  BY <1>1, <1>3 DEF Rest
<1>5. Len(line) \in Nat
  OBVIOUS
<1>6. Len(Tail(s)) = Len(line) - (n + 1)
  BY <1>1, <1>5 DEF Rest
<1> QED
  BY <1>2, <1>4, <1>6 DEF Rest

LEMMA AllIsRest ==
    ASSUME NEW line \in Seq(Piece)
    PROVE  Rest(line, line, 0)
BY DEF Rest

LEMMA Answers ==
    /\ Marked(Greeting) /\ Marked(OK) /\ Marked(ERROR)
    /\ Ch("name") # mark
<1>1. Ch("name") # mark /\ Ch("space") # mark /\ Ch("junk") # mark
  BY DEF Ch, mark
<1>2. ASSUME NEW c, c # mark PROVE Marked(<<c, mark>>)
  <2>1. \A k \in 1 .. 2 : k = 1 \/ k = 2
    OBVIOUS
  <2> QED
    BY <1>2, <2>1 DEF Marked
<1> QED
  BY <1>1, <1>2 DEF Greeting, OK, ERROR

\* The port: what is written, and what is read, in calm.
LEMMA NoneOwed == ASSUME Types, Unsent, owed = <<>> PROVE udr = <<>> /\ writeBuffer = <<>>
<1>1. udr \o writeBuffer = <<>>
  BY DEF Unsent, NothingUnsent
<1> QED
  BY <1>1, ConcatEqualIffEmpty DEF Types, PortTypes

LEMMA WriteDialogue ==
    ASSUME Types, Answering, pc = "write", out # <<>>, Wrote, pc' \in {"write", "enable"},
           UNCHANGED <<received, readBuffer>>
    PROVE  Answering'
<1>1. /\ owed' = Append(owed, Head(out)) /\ out' = Tail(out) /\ UNCHANGED <<due, coming>>
      /\ Unmarked(owed) /\ Marked(out) /\ owed \in Seq(Piece) /\ out \in Seq(Piece)
      /\ due = 1 /\ Silence
  BY DEF Wrote, Answering, Types, ProgramTypes, ClientTypes, clientVars
<1>2. PICK c \in Piece : c = Head(out)
  BY <1>1, Ends
<1>3. /\ c = mark <=> Tail(out) = <<>>
      /\ Tail(out) # <<>> => Marked(Tail(out))
  BY <1>1, <1>2, MarkedTaken
<1>4. /\ c = mark => Marked(Append(owed, c))
      /\ c # mark => Unmarked(Append(owed, c))
  BY <1>1, MarkedSent
<1>5. Silence'
  BY <1>1 DEF Silence, NothingIn
<1>6. PICK s, t : s = Append(owed, c) /\ t = Tail(out)
  OBVIOUS
<1>7. owed' = s /\ out' = t /\ ((t = <<>> /\ Marked(s)) \/ (Unmarked(s) /\ Marked(t)))
  BY <1>1, <1>2, <1>3, <1>4, <1>6
<1>8. (out' = <<>> /\ Marked(owed)') \/ (Unmarked(owed)' /\ Marked(out)')
  <2>1. owed' = s => (Marked(s) => Marked(owed)') /\ (Unmarked(s) => Unmarked(owed)')
    BY DEF Marked, Unmarked
  <2>2. out' = t => (Marked(t) => Marked(out)')
    BY DEF Marked
  <2> QED
    BY <1>7, <2>1, <2>2
<1> QED
  BY <1>1, <1>5, <1>8 DEF Answering

LEMMA SendDialogue ==
    ASSUME Types, Unsent, Answering, Send
    PROVE  (Answering \/ Idle)'
<1>1. /\ udr # <<>> /\ owed' = Tail(owed) /\ UNCHANGED <<pc, out, i, coming, received, readBuffer>>
      /\ due' = IF udr = <<mark>> /\ due > 0 THEN due - 1 ELSE due
      /\ owed \in Seq(Piece) /\ udr \in Seq(Piece) /\ writeBuffer \in Seq(Piece) /\ Len(udr) <= 1
      /\ due = 1 /\ owed = udr \o writeBuffer /\ Silence /\ pc \in {"write", "enable", "read"}
      /\ pc = "read" => i = 0
  BY DEF Send, Transmit, consoleVars, Types, ClientTypes, PortTypes, Answering, Unsent, NothingUnsent
<1>2. udr = <<Head(owed)>> /\ owed # <<>>
  <2>1. PICK c \in Piece : udr = <<c>>
    <3>0. Len(udr) \in Nat \ {0} /\ Len(udr) <= 1
      BY <1>1, EmptySeq
    <3>1. Len(udr) = 1
      <4>1. \A n \in Nat \ {0} : n <= 1 => n = 1
        OBVIOUS
      <4> QED
        BY <3>0, <4>1, Zenon
    <3>2. udr[1] \in Piece
      <4>1. udr \in Seq(Piece) /\ 1 \in 1 .. Len(udr)
        BY <1>1, <3>1
      <4> QED
        BY <4>1, ElementOfSeq, Zenon
    <3>3. <<udr[1]>> \in Seq(Piece) /\ Len(<<udr[1]>>) = 1 /\ <<udr[1]>>[1] = udr[1]
      BY <3>2
    <3>4. udr = <<udr[1]>>
      BY <1>1, <3>1, <3>3, SeqEqual
    <3> QED
      BY <3>2, <3>4
  <2>2. <<c>> \in Seq(Piece) /\ <<c>> \o writeBuffer # <<>>
    BY <1>1, ConcatEqualIffEmpty
  <2>3. Head(<<c>> \o writeBuffer) = c
    BY <1>1, <2>2, ConcatProperties
  <2> QED
    BY <1>1, <2>1, <2>2, <2>3
<1>3. Silence'
  BY <1>1 DEF Silence, NothingIn
<1>4. udr = <<mark>> <=> Head(owed) = mark
  BY <1>2
<1>5. PICK t : t = Tail(owed)
  OBVIOUS
<1>6. CASE Marked(out)
  <2>1. Unmarked(owed) /\ pc # "read"
    BY <1>6 DEF Answering, Marked
  <2>2. Head(owed) # mark /\ Unmarked(t)
    BY <1>1, <1>2, <1>5, <2>1, UnmarkedTaken
  <2>3. due' = 1 /\ Unmarked(owed)' /\ Marked(out)'
    BY <1>1, <1>4, <1>5, <1>6, <2>2 DEF Unmarked, Marked
  <2> QED
    BY <1>1, <1>3, <2>1, <2>3 DEF Answering
<1>7. CASE ~ Marked(out)
  <2>1. out = <<>> /\ Marked(owed)
    BY <1>7 DEF Answering
  <2>2. (Head(owed) = mark <=> t = <<>>) /\ (t # <<>> => Marked(t))
    BY <1>1, <1>5, <2>1, MarkedTaken
  <2>3. CASE t = <<>>
    <3>1. due' = 0 /\ owed' = <<>> /\ out' = <<>>
      BY <1>1, <1>4, <1>5, <2>1, <2>2, <2>3
    <3> QED
      BY <1>1, <1>3, <3>1 DEF Idle
  <2>4. CASE t # <<>>
    <3>1. due' = 1 /\ Marked(owed)' /\ out' = <<>>
      BY <1>1, <1>4, <1>5, <2>1, <2>2, <2>4 DEF Marked
    <3> QED
      BY <1>1, <1>3, <3>1 DEF Answering
  <2> QED
    BY <2>3, <2>4
<1> QED
  BY <1>6, <1>7

LEMMA ReadDialogue ==
    ASSUME Types, ReadingIn, ReadChar
    PROVE  (ReadingIn \/ Handling)'
<1>1. /\ pc = "read" /\ Incoming # <<>> /\ due = 1 /\ owed = <<>> /\ out = <<>> /\ Fits
      /\ UNCHANGED <<out, due, owed, coming, asked, mode>>
      /\ asked \in Seq(Piece) /\ mark \in Piece /\ i \in 0 .. Size - 1
      /\ buff \in [0 .. Size - 1 -> Piece] /\ coming \in Seq(Piece)
      /\ ComingIn(Append(asked, mark)) /\ ReadIn /\ i < Size - 1 /\ Size \in Nat
  BY Pieces, ConsoleAssumption
  DEF ReadChar, Take, Goto, ReadingIn, clientVars, Types, ProgramTypes, ClientTypes, ConsoleAssumption
<1>2. PICK line : line = Append(asked, mark)
  OBVIOUS
<1>3. /\ Len(line) = Len(asked) + 1 /\ Len(asked) \in Nat
      /\ \A k \in 1 .. Len(asked) : line[k] = asked[k]
      /\ line[Len(asked) + 1] = mark
  BY <1>1, <1>2, Appended
<1>4. ComingIn(line)
  BY <1>1, <1>2
<1>5. Head(Incoming) = line[i + 1] /\ NothingIn' /\ Rest(coming, line, i + 1)
  <2>1. CASE mode = "sync"
    <3>1. Incoming = received /\ received # <<>> /\ received' = Tail(received) /\ UNCHANGED readBuffer
      BY <1>1, <2>1 DEF ReadChar, Take, Incoming
    <3>2. received = <<line[i + 1]>> /\ readBuffer = <<>> /\ Rest(coming, line, i + 1)
      BY <1>4, <2>1, <3>1 DEF ComingIn, NothingIn
    <3> QED
      BY <3>1, <3>2 DEF NothingIn
  <2>2. CASE mode # "sync"
    <3>1. Incoming = readBuffer /\ readBuffer # <<>> /\ readBuffer' = Tail(readBuffer) /\ UNCHANGED received
      BY <1>1, <2>2 DEF ReadChar, Take, Incoming
    <3>2. readBuffer = <<line[i + 1]>> /\ received = <<>> /\ Rest(coming, line, i + 1)
      BY <1>4, <3>1 DEF ComingIn, NothingIn
    <3> QED
      BY <3>1, <3>2 DEF NothingIn
  <2> QED
    BY <2>1, <2>2
<1>6. i \in Nat /\ i <= Len(asked) /\ \A k \in 0 .. i - 1 : buff[k] = asked[k + 1]
  BY <1>1 DEF ReadIn
<1>7. line[i + 1] = mark <=> i = Len(asked)
  <2>1. i # Len(asked) => i + 1 \in 1 .. Len(asked)
    BY <1>3, <1>6
  <2> QED
    BY <1>1, <1>3, <2>1 DEF Fits, Unmarked
<1>8. CASE i = Len(asked)
  <2>1. pc' = "handle" /\ buff' = [[buff EXCEPT ![i] = mark] EXCEPT ![i] = NUL] /\ i' = i
    BY <1>5, <1>7, <1>8 DEF ReadChar, Goto, LineEnd
  <2>2. coming = <<>>
    <3>1. Len(coming) = Len(line) - (i + 1)
      BY <1>5 DEF Rest
    <3>2. Len(coming) = 0
      BY <1>3, <1>8, <3>1
    <3> QED
      BY <1>1, <3>2, Ends
  <2>3. \A k \in 1 .. i : buff'[k - 1] = asked[k]
    <3> SUFFICES ASSUME NEW k \in 1 .. i PROVE buff'[k - 1] = asked[k]
      OBVIOUS
    <3>1. k - 1 \in 0 .. i - 1 /\ k - 1 # i /\ (k - 1) + 1 = k /\ k - 1 \in 0 .. Size - 1
      BY <1>1, <1>6
    <3>2. buff[k - 1] = asked[k]
      BY <1>6, <3>1
    <3> QED
      BY <1>1, <2>1, <3>1, <3>2
  <2>4. Text' = asked
    <3>1. asked = [k \in 1 .. Len(asked) |-> asked[k]]
      BY <1>1
    <3>2. Text' = [k \in 1 .. i |-> buff'[k - 1]]
      BY <2>1 DEF Text
    <3>3. Text' = [k \in 1 .. i |-> asked[k]]
      BY <2>3, <3>2, Zenon
    <3> QED
      BY <1>8, <3>1, <3>3
  <2>5. Silence' /\ Unmarked(asked)'
    BY <1>1, <1>5, <2>2 DEF Silence, Fits, Unmarked, NothingIn
  <2> QED
    BY <1>1, <2>1, <2>4, <2>5 DEF Handling
<1>9. CASE i # Len(asked)
  <2>1. pc' = "read" /\ buff' = [buff EXCEPT ![i] = line[i + 1]] /\ i' = i + 1
    BY <1>5, <1>7, <1>9 DEF ReadChar, Goto
  <2>2. i + 1 \in 1 .. Len(asked) /\ i + 1 <= Len(asked)
    BY <1>3, <1>6, <1>9
  <2>3. \A k \in 0 .. i : buff'[k] = asked[k + 1]
    <3> SUFFICES ASSUME NEW k \in 0 .. i PROVE buff'[k] = asked[k + 1]
      OBVIOUS
    <3>1. CASE k = i
      BY <1>1, <1>3, <2>1, <2>2, <3>1
    <3>2. CASE k # i
      <4>1. k \in 0 .. i - 1 /\ k \in 0 .. Size - 1
        BY <1>1, <3>2
      <4> QED
        BY <1>1, <1>6, <2>1, <3>2, <4>1
    <3> QED
      BY <3>1, <3>2
  <2>4. ReadIn'
    <3>1. i' - 1 = i
      BY <1>6, <2>1
    <3> QED
      BY <1>1, <2>1, <2>2, <2>3, <3>1 DEF ReadIn
  <2>5. ComingIn(line)'
    BY <1>1, <1>5, <2>1 DEF ComingIn, NothingIn, Rest
  <2>6. ComingIn(Append(asked, mark))' /\ Fits'
    BY <1>1, <1>2, <2>5 DEF Fits, Unmarked
  <2> QED
    BY <1>1, <2>1, <2>4, <2>6 DEF ReadingIn
<1> QED
  BY <1>8, <1>9

LEMMA RxDialogue ==
    ASSUME Ready, Types, ReadingIn, RxInterrupt, UNCHANGED <<consoleVars, clientVars, owed>>
    PROVE  ReadingIn'
<1>1. /\ mode = "async" /\ received # <<>> /\ received' = Tail(received)
      /\ readBuffer' = IF Len(readBuffer) < BufferSize THEN Append(readBuffer, Head(received))
                       ELSE readBuffer
      /\ UNCHANGED <<mode, pc, out, due, owed, coming, asked, i, buff>>
  BY DEF RxInterrupt, Ready, consoleVars, clientVars
<1>2. PICK line : line = Append(asked, mark)
  OBVIOUS
<1>3. pc = "read" /\ ComingIn(line) /\ ReadIn /\ Fits
  BY <1>1, <1>2 DEF ReadingIn, NothingIn
<1>4. received = <<line[i + 1]>> /\ readBuffer = <<>> /\ Rest(coming, line, i + 1)
  BY <1>1, <1>3 DEF ComingIn, NothingIn
<1>5. Len(readBuffer) < BufferSize
  BY <1>4, PortAssumption DEF PortAssumption
<1>6. received' = <<>> /\ readBuffer' = <<line[i + 1]>>
  BY <1>1, <1>4, <1>5
<1>7. ComingIn(line)'
  BY <1>1, <1>4, <1>6 DEF ComingIn, Rest
<1>8. ComingIn(Append(asked, mark))' /\ ReadIn' /\ Fits'
  BY <1>1, <1>2, <1>3, <1>7 DEF ReadIn, Fits, Unmarked
<1> QED
  BY <1>1, <1>3, <1>8 DEF ReadingIn

LEMMA ReceiveDialogue ==
    ASSUME Ready, Types, ReadingIn, Receive
    PROVE  ReadingIn'
<1>1. /\ coming # <<>> /\ Slow /\ (mode = "async" => received = <<>>) /\ Arrive(Head(coming))
      /\ coming' = Tail(coming) /\ coming \in Seq(Piece) /\ asked \in Seq(Piece) /\ mark \in Piece
      /\ UNCHANGED <<mode, readBuffer, pc, out, due, owed, asked, i, buff>> /\ i \in Nat
  BY Pieces DEF Receive, Arrive, consoleVars, Types, ProgramTypes, ClientTypes
<1>2. PICK line : line = Append(asked, mark)
  OBVIOUS
<1>0. line \in Seq(Piece)
  BY <1>1, <1>2
<1>3. pc = "read" /\ Incoming = <<>> /\ ComingIn(line) /\ ReadIn /\ Fits
  <2>1. pc = "read" /\ Incoming = <<>>
    BY <1>1 DEF ReadingIn, Slow
  <2>2. ComingIn(Append(asked, mark)) /\ ReadIn /\ Fits
    BY <2>1 DEF ReadingIn
  <2> QED
    BY <1>2, <2>1, <2>2
<1>4. NothingIn /\ Rest(coming, line, i)
  <2>1. mode \in {"sync", "async"}
    BY <1>3 DEF Ready
  <2>2. CASE mode = "sync"
    <3>1. received = <<>>
      BY <1>3, <2>2 DEF Incoming
    <3> QED
      BY <1>3, <2>2, <3>1 DEF ComingIn, NothingIn
  <2>3. CASE mode = "async"
    <3>1. readBuffer = <<>> /\ received = <<>>
      BY <1>1, <1>3, <2>3 DEF Incoming
    <3> QED
      BY <1>3, <3>1 DEF ComingIn, NothingIn
  <2> QED
    BY <2>1, <2>2, <2>3
<1>5. Head(coming) = line[i + 1] /\ Rest(Tail(coming), line, i + 1)
  BY <1>0, <1>1, <1>4, RestTaken
<1>6. "RXEN0" \in regs
  BY <1>3 DEF Ready, InUse
<1>7. received' = <<line[i + 1]>>
  <2>1. Len(received) < RxDepth /\ received = <<>>
    BY <1>4, PortAssumption DEF PortAssumption, NothingIn
  <2> QED
    BY <1>1, <1>5, <1>6, <2>1 DEF Arrive
<1>8. ComingIn(line)'
  <2>1. PICK t, n : t = Tail(coming) /\ n = i + 1
    OBVIOUS
  <2>2. Rest(t, line, n) /\ coming' = t /\ i' + 1 = n
    BY <1>1, <1>5, <2>1
  <2>3. Rest(coming, line, i + 1)'
    BY <2>2 DEF Rest
  <2>4. received' = <<line[i' + 1]>> /\ readBuffer' = <<>>
    BY <1>1, <1>4, <1>7 DEF NothingIn
  <2> QED
    BY <2>3, <2>4 DEF ComingIn
<1>9. ComingIn(Append(asked, mark))' /\ ReadIn' /\ Fits'
  BY <1>1, <1>2, <1>3, <1>8 DEF ReadIn, Fits, Unmarked
<1> QED
  BY <1>1, <1>3, <1>9 DEF ReadingIn

Phase == Starting \/ Answering \/ Idle \/ ReadingIn \/ Handling

LEMMA DialogueStep ==
    ASSUME ConsoleInv, Dialogue, [Next]_vars
    PROVE  Dialogue'
<1> SUFFICES ASSUME calm' PROVE program' # "write_sync_async" /\ Phase'
  BY DEF Dialogue, Phase
<1>1. Types /\ Ready /\ Unsent
  BY DEF ConsoleInv
<1>2. calm /\ program' = program
  BY DEF Next, Program, Declare, Construct, WriteSync, WriteAsync, Wrote, Written, Destruct, ReadChar,
         ReadFull, Handle, Handlers, Receive, Send, Ask, vars, consoleVars, clientVars
<1>3. program # "write_sync_async" /\ Phase
  BY <1>2 DEF Dialogue, Phase
<1> SUFFICES Phase'
  BY <1>2, <1>3
<1>4. owed = <<>> => udr = <<>> /\ writeBuffer = <<>>
  BY <1>1, NoneOwed
<1>5. ASSUME UNCHANGED <<pc, due, owed, out, coming, received, readBuffer, mode, asked, i, buff>>
      PROVE  Phase'
  <2>1. Silence' = Silence /\ NothingIn' = NothingIn /\ Unmarked(owed)' = Unmarked(owed)
        /\ Marked(owed)' = Marked(owed) /\ Marked(out)' = Marked(out) /\ Fits' = Fits
        /\ Unmarked(asked)' = Unmarked(asked)
    BY <1>5 DEF Silence, NothingIn, Unmarked, Marked, Fits
  <2>2. Text' = Text /\ ReadIn' = ReadIn
    BY <1>5 DEF Text, ReadIn
  <2>4. ComingIn(Append(asked, mark))' = ComingIn(Append(asked, mark))
    BY <1>5 DEF ComingIn, NothingIn, Rest
  <2>5. Rest(coming, Append(asked, mark), 0)' = Rest(coming, Append(asked, mark), 0)
    BY <1>5 DEF Rest
  <2> QED
    BY <1>3, <1>5, <2>1, <2>2, <2>4, <2>5 DEF Phase, Starting, Answering, Idle, ReadingIn, Handling
<1>6. CASE Declare
  <2>1. pc = "declare" /\ pc' = "construct" /\ readBuffer' = <<>> /\ UNCHANGED <<received, due, owed, coming>>
    BY <1>6 DEF Declare, Goto, Begin, clientVars
  <2> QED
    BY <1>3, <2>1 DEF Phase, Starting, Answering, Idle, ReadingIn, Handling, Silence, NothingIn
<1>7. CASE Construct
  <2>1. /\ pc = "construct" /\ received' \in {received, <<>>}
        /\ UNCHANGED <<readBuffer, due, owed, coming, i>>
        /\ (pc' = "write" /\ out' = Greeting) \/ pc' = "construct"
    BY <1>7 DEF Construct, Execute, Goto, clientVars
  <2>2. Starting
    BY <1>3, <2>1 DEF Phase, Answering, Idle, ReadingIn, Handling
  <2>3. Silence'
    BY <2>1, <2>2 DEF Starting, Silence, NothingIn
  <2>4. Unmarked(owed)' /\ owed' = <<>> /\ due' = 1
    BY <2>1, <2>2 DEF Starting, Unmarked
  <2>5. CASE pc' = "construct"
    BY <2>3, <2>4, <2>5 DEF Phase, Starting
  <2>6. CASE pc' = "write" /\ out' = Greeting
    <3>1. Marked(out)'
      BY <2>6, Answers DEF Marked
    <3> QED
      BY <2>3, <2>4, <2>6, <3>1 DEF Phase, Answering
  <2> QED
    BY <2>1, <2>5, <2>6
<1>8. CASE WriteSync \/ (WriteAsync /\ out # <<>> /\ Goto("write", "enable") /\ Wrote)
  <2>1. /\ pc = "write" /\ out # <<>> /\ Wrote /\ pc' \in {"write", "enable"}
        /\ UNCHANGED <<received, readBuffer>>
    BY <1>8 DEF WriteSync, WriteAsync, Goto, Put, Push
  <2>2. Answering
    BY <1>3, <2>1 DEF Phase, Starting, Idle, ReadingIn, Handling
  <2> QED
    BY <1>1, <2>1, <2>2, WriteDialogue DEF Phase
<1>9. CASE Goto("enable", "write") /\ WriteAsync
  <2>1. /\ pc = "enable" /\ pc' = "write"
        /\ UNCHANGED <<due, owed, out, coming, received, readBuffer, mode, asked, i>>
    BY <1>9 DEF WriteAsync, Goto, Enable, Push, clientVars
  <2> QED
    BY <1>3, <2>1
    DEF Phase, Starting, Answering, Idle, ReadingIn, Handling, Silence, NothingIn, Unmarked, Marked,
        Fits, Rest
<1>10. CASE Written
  <2>1. /\ pc = "write" /\ out = <<>> /\ pc' = "read" /\ i' = 0
        /\ UNCHANGED <<due, owed, out, coming, received, readBuffer, mode, asked, buff>>
    BY <1>3, <1>10 DEF Written, Goto, clientVars
  <2>2. CASE Answering \/ Idle
    BY <2>1, <2>2 DEF Phase, Answering, Idle, Silence, NothingIn, Marked
  <2>3. CASE ReadingIn
    <3>1. NothingIn /\ Rest(coming, Append(asked, mark), 0) /\ Fits
      BY <2>1, <2>3 DEF ReadingIn
    <3>2. NothingIn' /\ Rest(coming, Append(asked, mark), i)' /\ Fits'
      BY <2>1, <3>1 DEF NothingIn, Rest, Fits, Unmarked
    <3>3. ReadIn'
      <4>1. Len(asked) >= 0
        BY <1>1 DEF Types, ClientTypes
      <4> QED
        BY <2>1, <4>1 DEF ReadIn
    <3>4. ComingIn(Append(asked, mark))'
      BY <3>2 DEF ComingIn
    <3> QED
      BY <2>1, <2>3, <3>2, <3>3, <3>4 DEF Phase, ReadingIn
  <2> QED
    BY <1>3, <2>1, <2>2, <2>3 DEF Phase, Starting, Handling
<1>11. CASE Destruct
  <2>1. pc = "destruct"
    BY <1>11 DEF Destruct, Goto
  <2> QED
    BY <1>3, <2>1 DEF Phase, Starting, Answering, Idle, ReadingIn, Handling
<1>12. CASE ReadChar
  <2>1. pc = "read" /\ Incoming # <<>>
    BY <1>12 DEF ReadChar, Goto, Take
  <2>2. ~ Silence
    BY <2>1 DEF Silence, NothingIn, Incoming
  <2>3. ReadingIn
    BY <1>3, <2>1, <2>2 DEF Phase, Starting, Answering, Idle, Handling
  <2> QED
    BY <1>1, <1>12, <2>3, ReadDialogue DEF Phase
<1>13. CASE ReadFull
  <2>1. pc = "read" /\ i = Size - 1 /\ Size \in Nat \ {0, 1}
    BY <1>13, ConsoleAssumption DEF ReadFull, Goto, ConsoleAssumption
  <2>2. ReadingIn
    BY <1>3, <2>1 DEF Phase, Starting, Answering, Idle, Handling
  <2>3. i <= Len(asked) /\ Len(asked) <= Size - 2 /\ Len(asked) \in Nat
    BY <1>1, <2>1, <2>2 DEF ReadingIn, ReadIn, Fits, Types, ClientTypes
  <2> QED
    BY <2>1, <2>3
<1>14. CASE Handle
  <2>1. /\ pc = "handle" /\ pc' = "write" /\ UNCHANGED <<due, owed, coming, received, readBuffer>>
        /\ out' \in {Append(Text, mark), OK, ERROR}
    BY <1>14 DEF Handle, Goto, clientVars, portVars
  <2>2. Handling
    BY <1>3, <2>1 DEF Phase, Starting, Answering, Idle, ReadingIn
  <2>3. Marked(Append(Text, mark))
    <3>1. asked \in Seq(Piece) /\ Unmarked(asked) /\ Text = asked
      BY <1>1, <2>2 DEF Handling, Types, ClientTypes
    <3> QED
      BY <3>1, MarkedSent, Pieces
  <2>4. Marked(out)'
    <3>1. \A s : Marked(s) /\ out' = s => Marked(out)'
      BY DEF Marked
    <3> QED
      BY <2>1, <2>3, <3>1, Answers
  <2>5. Silence' /\ Unmarked(owed)' /\ due' = 1
    BY <2>1, <2>2 DEF Handling, Silence, NothingIn, Unmarked
  <2> QED
    BY <2>1, <2>4, <2>5 DEF Phase, Answering
<1>15. CASE Handlers
  <2>1. CASE RxInterrupt
    <3>1. received # <<>> /\ UNCHANGED <<consoleVars, clientVars, owed>>
      BY <1>15, <2>1 DEF RxInterrupt, Handlers
    <3>2. ReadingIn
      BY <1>3, <3>1 DEF Phase, Starting, Answering, Idle, Handling, Silence, NothingIn
    <3> QED
      BY <1>1, <2>1, <3>1, <3>2, RxDialogue DEF Phase
  <2>2. CASE UdreInterrupt
    BY <1>5, <1>15, <2>2 DEF Handlers, UdreInterrupt, consoleVars, clientVars
  <2> QED
    BY <1>15, <2>1, <2>2 DEF Handlers
<1>16. CASE Receive
  <2>1. ReadingIn
    BY <1>3, <1>16 DEF Receive, Phase, Starting, Answering, Idle, Handling, Silence
  <2> QED
    BY <1>1, <1>16, <2>1, ReceiveDialogue DEF Phase
<1>17. CASE Send
  <2>1. owed # <<>>
    BY <1>4, <1>17 DEF Send, Transmit
  <2>2. Answering
    BY <1>3, <2>1 DEF Phase, Starting, Idle, ReadingIn, Handling
  <2> QED
    BY <1>1, <1>17, <2>2, SendDialogue DEF Phase
<1>18. ASSUME NEW line \in Lines, Ask(line) PROVE Phase'
  <2>0. due = 0 /\ Len(line) <= Size - 2
    BY <1>18, Zenon DEF Ask
  <2>1. /\ due = 0 /\ Len(line) <= Size - 2 /\ asked' = line /\ due' = 1
        /\ coming' = coming \o Append(line, mark)
        /\ UNCHANGED <<received, readBuffer, mode, owed, pc, out, i, buff>>
    BY <1>18, <2>0 DEF Ask, portVars, consoleVars
  <2>2. Idle
    BY <1>3, <2>1 DEF Phase, Starting, Answering, ReadingIn, Handling
  <2>3. /\ line \in Seq(Piece) /\ Unmarked(line) /\ mark \in Piece
        /\ Append(line, mark) \in Seq(Piece)
    BY ConsoleAssumption, LinesAssumption, Pieces DEF ConsoleAssumption, LinesAssumption, Unmarked
  <2>4. PICK l : l = Append(line, mark)
    OBVIOUS
  <2>5. coming' = l /\ Append(asked', mark) = l /\ Rest(l, l, 0)
    BY <2>1, <2>2, <2>3, <2>4, AllIsRest, ConcatEmptySeq DEF Idle, Silence
  <2>6. Rest(coming, Append(asked, mark), 0)' /\ Fits' /\ NothingIn'
    BY <2>1, <2>2, <2>3, <2>5 DEF Rest, Fits, Unmarked, Idle, Silence, NothingIn
  <2>7. CASE pc \in {"write", "enable"}
    BY <2>1, <2>2, <2>6, <2>7 DEF Phase, ReadingIn, Idle
  <2>8. CASE pc = "read"
    <3>1. i' = 0
      BY <2>1, <2>2, <2>8 DEF Idle
    <3>2. Rest(coming, Append(asked, mark), i)'
      BY <2>6, <3>1 DEF Rest
    <3>3. ReadIn'
      <4>1. Len(asked') >= 0
        BY <2>1, <2>3
      <4> QED
        BY <3>1, <4>1 DEF ReadIn
    <3>4. ComingIn(Append(asked, mark))'
      BY <2>6, <3>2 DEF ComingIn
    <3> QED
      BY <2>1, <2>2, <2>6, <2>8, <3>3, <3>4 DEF Phase, ReadingIn, Idle
  <2> QED
    BY <2>2, <2>7, <2>8 DEF Idle
<1>19. CASE UNCHANGED vars
  BY <1>5, <1>19 DEF vars, portVars, consoleVars, clientVars
<1>20. CASE WriteAsync
  BY <1>8, <1>9, <1>20 DEF WriteAsync
<1> QED
  BY <1>6, <1>7, <1>8, <1>10, <1>11, <1>12, <1>13, <1>14, <1>15, <1>16, <1>17, <1>18, <1>19, <1>20
  DEF Next, Program

\* A client that asks again only when it has its answer, and whose lines fit,
\* is read to the letter: read_line finds the line sent last, whole and alone,
\* and when the answer has left nothing is left over that the next one could be
\* taken for, with either port and buffers of any size.
THEOREM ReadToTheLetter == Spec => []LineByLine
<1>1. Init => Dialogue
  BY DEF Init, PortInit, Dialogue, Starting, Silence, NothingIn
<1>2. ConsoleInv /\ Dialogue => LineByLine
  <2> SUFFICES ASSUME ConsoleInv, Dialogue, calm
               PROVE  /\ pc = "handle" => Text = asked
                      /\ due = 0 => coming = <<>> /\ received = <<>> /\ readBuffer = <<>> /\ owed = <<>>
    BY DEF LineByLine
  <2> QED
    BY DEF Dialogue, Starting, Answering, Idle, ReadingIn, Handling, Silence, NothingIn
<1>3. Spec => []Dialogue
  BY <1>1, DialogueStep, ConsoleInvariant, PTL DEF Spec
<1> QED
  BY <1>2, <1>3, ConsoleInvariant, PTL
=============================================================================
