------------------------------ MODULE Console ------------------------------
(***************************************************************************)
(* The programs that talk over a serial port: the main loop of the robots  *)
(* with its command parser, and two of serial_test, which answer what they *)
(* read and which declare one port after the other; and a client.          *)
(*                                                                         *)
(* A line is a sequence of pieces, each a few characters that the parser   *)
(* treats alike.  A piece that is cut, or that has lost a part, is junk.   *)
(***************************************************************************)
EXTENDS SerialPort

CONSTANTS
    Size,           \* of the array read_line fills: 64 or 255 in the code
    LAST,           \* of direction_t, FIRST being 0
    Lines,          \* what the client may send, without the mark at the end
    MaxLines        \* bound: lines sent

Piece == [is : {"name", "space", "number", "junk", "mark", "NUL"}, v : 0 .. 255]

ASSUME ConsoleAssumption ==
    /\ Size \in Nat \ {0, 1} /\ LAST \in 0 .. 255 /\ MaxLines \in Nat
    /\ Lines \subseteq Seq(Piece)

VARIABLES
    program,        \* "motor_main", "echo" or "write_sync_async" (never changes)
    behind,         \* is there another NUL behind that of "SPEEDS2" (never changes)
    pc,             \* where the program is
    out,            \* what is left of the text it writes
    buff, i,        \* the array of read_line, and how far it is
    \* the client
    coming,         \* what it has sent and has not arrived
    due,            \* answers it waits for
    sent,           \* lines sent
    \* history
    owed,           \* what was written and has not left
    asked,          \* the line sent last
    calm            \* see Ask

consoleVars == <<program, behind, pc, out, buff, i>>
clientVars  == <<coming, due, sent, asked, calm>>
vars        == <<portVars, consoleVars, clientVars, owed>>

Ch(is)    == [is |-> is, v |-> 0]
Num(n)    == [is |-> "number", v |-> n]
mark      == Ch("mark")
NUL       == Ch("NUL")
Greeting  == <<Ch("name"), mark>>       \* "READY\r\n", and the texts of serial_test
OK        == <<Ch("space"), mark>>
ERROR     == <<Ch("junk"), mark>>

\* A mark ends the line.
ASSUME LinesAssumption == \A line \in Lines : \A k \in 1 .. Len(line) : line[k] # mark

Init ==
    /\ PortInit
    /\ program \in {"motor_main", "echo", "write_sync_async"}
    /\ behind \in {FALSE, program = "motor_main"}
    /\ pc = "declare" /\ out = <<>>
    /\ buff = [k \in 0 .. Size - 1 |-> Ch("junk")] /\ i = 0
    /\ coming = <<>> /\ due = 1 /\ sent = 0 /\ owed = <<>> /\ asked = <<>>
    /\ calm = (program # "write_sync_async")

-----------------------------------------------------------------------------
(* The port, declared and written to.                                      *)

Goto(from, to) == pc = from /\ pc' = to

\* The second program takes turns.
Declare ==
    /\ Goto("declare", "construct")
    /\ Begin(IF program = "motor_main" THEN "sync" ELSE IF program = "echo" THEN "async"
             ELSE IF mode = "sync" THEN "async" ELSE "sync")
    /\ UNCHANGED <<program, behind, out, buff, i, clientVars, owed>>

Construct ==
    /\ Execute(Constructor(mode))
    /\ IF step = Len(Constructor(mode)) THEN Goto("construct", "write") /\ out' = Greeting
       ELSE Goto("construct", "construct") /\ UNCHANGED out
    /\ UNCHANGED <<program, behind, buff, i, clientVars, owed>>

Wrote ==
    /\ out' = Tail(out) /\ owed' = Append(owed, Head(out))
    /\ UNCHANGED <<program, behind, buff, i, clientVars>>

WriteSync ==
    /\ out # <<>> /\ Goto("write", "write")
    /\ Put(Head(out)) /\ Wrote

\* Mutant: the interrupt is enabled before the push, not after it.
WriteAsyncMutant ==
    \/ out # <<>> /\ mode = "async" /\ Goto("write", "enable") /\ Enable
       /\ UNCHANGED <<program, behind, out, buff, i, clientVars, owed>>
    \/ Goto("enable", "write") /\ Push(Head(out)) /\ Wrote

WriteAsync ==
    \/ out # <<>> /\ Goto("write", "enable") /\ Push(Head(out)) /\ Wrote
    \/ Goto("enable", "write") /\ Enable
       /\ UNCHANGED <<program, behind, out, buff, i, clientVars, owed>>

\* Mutant: the next line goes on where the last one ended.
WrittenMutant ==
    /\ out = <<>>
    /\ IF program = "write_sync_async"
       THEN Goto("write", "destruct") /\ (mode = "async" => owed = <<>>) /\ step' = 1
       ELSE Goto("write", "read") /\ UNCHANGED step
    /\ UNCHANGED <<mode, regs, readBuffer, writeBuffer, received, udr,
                   program, behind, out, buff, i, clientVars, owed>>

\* All is written.  The second program waits for longer than the buffer takes
\* before the port goes out of scope; the others read the next line.
Written ==
    /\ out = <<>>
    /\ IF program = "write_sync_async"
       THEN /\ Goto("write", "destruct")
            /\ mode = "async" => owed = <<>>
            /\ step' = 1 /\ UNCHANGED i
       ELSE Goto("write", "read") /\ i' = 0 /\ UNCHANGED step
    /\ UNCHANGED <<mode, regs, readBuffer, writeBuffer, received, udr,
                   program, behind, out, buff, clientVars, owed>>

Destruct ==
    /\ Execute(Destructor(mode))
    /\ Goto("destruct", IF step = Len(Destructor(mode)) THEN "declare" ELSE "destruct")
    /\ UNCHANGED <<program, behind, out, buff, i, clientVars, owed>>

-----------------------------------------------------------------------------
(* Reading a line and obeying it.                                          *)

LineEnd(b) == [b EXCEPT ![i] = NUL]

\* Mutant: no room is left for the NUL.
ReadCharMutant ==
    /\ i < Size /\ Take
    /\ LET c == Head(Incoming)
           b == [buff EXCEPT ![i] = c]
       IN  IF c = mark THEN Goto("read", "handle") /\ buff' = LineEnd(b) /\ UNCHANGED i
           ELSE Goto("read", "read") /\ buff' = b /\ i' = i + 1
    /\ UNCHANGED <<program, behind, out, clientVars, owed>>

\* read_line: up to the mark, which is read and taken off ...
ReadChar ==
    /\ i < Size - 1 /\ Take
    /\ LET c == Head(Incoming)
           b == [buff EXCEPT ![i] = c]
       IN  IF c = mark THEN Goto("read", "handle") /\ buff' = LineEnd(b) /\ UNCHANGED i
           ELSE Goto("read", "read") /\ buff' = b /\ i' = i + 1
    /\ UNCHANGED <<program, behind, out, clientVars, owed>>

\* ... or to the end of the array; the rest of the line is the next one.
ReadFull ==
    /\ i = Size - 1 /\ Goto("read", "handle")
    /\ buff' = LineEnd(buff)
    /\ UNCHANGED <<portVars, program, behind, out, i, clientVars, owed>>

At(k) == IF k < Size THEN buff[k] ELSE Ch("junk")

\* skip_prefix: where the arguments begin, 0 if the name is not there.  At the
\* end of a line that is the name alone it goes on behind both strings (here by
\* one character; what the literal has behind it is not the program's).
Arguments ==
    IF At(0).is # "name" THEN 0
    ELSE IF At(1) # NUL THEN 1
    ELSE IF behind /\ At(2) # NUL THEN 2
    ELSE 0

\* Mutant: what is not more than a blank is skipped, a NUL too.
BlanksMutant(k) ==
    CHOOSE n \in k .. Size : /\ \A j \in k .. n - 1 : At(j).is \in {"space", "mark", "NUL"}
                             /\ At(n).is \notin {"space", "mark", "NUL"}

\* read_uint8_hex skips any number of blanks, none too.
Blanks(k) == CHOOSE n \in k .. Size : /\ \A j \in k .. n - 1 : At(j).is = "space"
                                      /\ At(n).is # "space"

\* Where the n-th argument is.
Place[n \in 1 .. 4] == Blanks(IF n = 1 THEN Arguments ELSE Place[n - 1] + 1)

\* read_direction, read_uint8_hex, and again.  What follows is not looked at.
IsCommand ==
    /\ Arguments > 0
    /\ \A n \in 1 .. 4 : At(Place[n]).is = "number"
    /\ \A n \in {1, 3} : At(Place[n]).v <= LAST

Text == [k \in 1 .. i |-> buff[k - 1]]      \* before any NUL

\* dispatch, or what echo writes.
Handle ==
    /\ Goto("handle", "write")
    /\ out' = IF program = "echo" THEN Append(Text, mark) ELSE IF IsCommand THEN OK ELSE ERROR
    /\ UNCHANGED <<portVars, program, behind, buff, i, clientVars, owed>>

Program ==
    \/ Declare \/ Construct \/ WriteSync \/ WriteAsync \/ Written \/ Destruct
    \/ ReadChar \/ ReadFull \/ Handle

-----------------------------------------------------------------------------
(* The line and the client.                                                *)

\* (History: calm as long as the client waits for the answer before it sends
\* the next line, and the lines fit.)
Ask(line) ==
    /\ sent < MaxLines
    /\ calm' = (calm /\ due = 0 /\ coming = <<>> /\ Len(line) <= Size - 2)
    /\ coming' = coming \o Append(line, mark)
    /\ sent' = sent + 1 /\ due' = due + 1 /\ asked' = line
    /\ UNCHANGED <<portVars, consoleVars, owed>>

\* What takes the program as long as a character does: it waits for one, or for
\* room to write one; echo sleeps before it answers; a port is set up.
Slow ==
    \/ pc = "read" /\ Incoming = <<>>
    \/ pc = "write" /\ out # <<>> /\ IF mode = "sync" THEN udr # <<>>
                                     ELSE Len(writeBuffer) = BufferSize
    \/ pc = "handle" /\ program = "echo"
    \/ pc \in {"declare", "construct", "destruct"}

\* Handlers and what else a program does take far less.
Receive ==
    /\ coming # <<>> /\ Slow
    /\ mode = "async" => received = <<>>
    /\ Arrive(Head(coming)) /\ coming' = Tail(coming)
    /\ UNCHANGED <<consoleVars, due, sent, asked, calm, owed>>

\* An answer ends with a mark.
Send ==
    /\ Transmit
    /\ owed' = Tail(owed)
    /\ due' = IF udr = <<mark>> /\ due > 0 THEN due - 1 ELSE due
    /\ UNCHANGED <<consoleVars, coming, sent, asked, calm>>

Handlers == (RxInterrupt \/ UdreInterrupt) /\ UNCHANGED <<consoleVars, clientVars, owed>>

Next == Program \/ Handlers \/ Receive \/ Send \/ \E line \in Lines : Ask(line)

Spec ==
    /\ Init /\ [][Next]_vars
    /\ WF_vars(Program) /\ WF_vars(Handlers) /\ WF_vars(Receive) /\ WF_vars(Send)

-----------------------------------------------------------------------------

Pcs == {"declare", "construct", "write", "enable", "destruct", "read", "handle"}

TypeOK ==
    /\ mode \in {"none", "sync", "async"} /\ step \in 1 .. 9
    /\ regs \subseteq Reading \cup Writing \cup UCSR0B \cup {"I"}
    /\ readBuffer \in Seq(Piece) /\ Len(readBuffer) <= BufferSize
    /\ writeBuffer \in Seq(Piece) /\ Len(writeBuffer) <= BufferSize
    /\ received \in Seq(Piece) /\ Len(received) <= RxDepth
    /\ udr \in Seq(Piece) /\ Len(udr) <= 1
    /\ program \in {"motor_main", "echo", "write_sync_async"} /\ behind \in BOOLEAN
    /\ pc \in Pcs /\ out \in Seq(Piece)
    /\ buff \in [0 .. Size - 1 -> Piece] /\ i \in 0 .. Size - 1
    /\ coming \in Seq(Piece) /\ due \in Nat /\ sent \in 0 .. MaxLines
    /\ owed \in Seq(Piece) /\ asked \in Seq(Piece) /\ calm \in BOOLEAN

\* No handler is called over a null pointer: whenever an interrupt can be taken
\* its callback and its buffer are set, in the middle of a constructor or a
\* destructor too.
HandlersReady ==
    "I" \in regs => /\ "RXCIE0" \in regs => Reading \subseteq regs
                    /\ "UDRIE0" \in regs => Writing \subseteq regs

\* What was written leaves once and in order: none is lost in a full buffer,
\* when a port goes out of scope or when the next one takes its place.
NothingUnsent == owed = udr \o writeBuffer

\* A client that waits for the answer, and whose lines fit, is read to the
\* letter, and when it has its answer nothing is left over that the next one
\* could be taken for, with either port.
LineByLine ==
    /\ calm /\ pc = "handle" => Text = asked
    /\ calm /\ due = 0 => coming = <<>> /\ received = <<>> /\ readBuffer = <<>> /\ owed = <<>>

\* A command that is obeyed stands in the line that was read, and no part of it
\* in what the array still holds of the lines before; but for the name alone,
\* if another NUL follows that of the literal.
NothingStale ==
    pc = "handle" /\ IsCommand => Place[4] < i \/ (i = 1 /\ behind)

\* A calm client gets its answer: the data register interrupt is never left
\* disabled with characters in the buffer, whatever the handler found between
\* the push and the enabling.
Answered == (calm /\ due > 0) ~> (~calm \/ due = 0)
=============================================================================
