----------------------------- MODULE SerialPort -----------------------------
(***************************************************************************)
(* vla::serial over the USART of the micro-controller, with the bases that *)
(* serial_sync and serial_async put together.  The synchronous one polls   *)
(* the flags of the hardware; the asynchronous one has a buffer each way,  *)
(* a msg_queue (module MsgQueue), and two interrupt handlers, which reach  *)
(* it over global pointers that constructors and destructors set.          *)
(*                                                                         *)
(* UCSR0B is changed by a load and a store that a handler may come between.*)
(* A handler clears UDRIE0 only, and every such pair that may be hit sets  *)
(* or clears that very bit, so one step stands for both.                   *)
(***************************************************************************)
EXTENDS Naturals, Sequences, SequencesExt

CONSTANTS BufferSize,   \* SERIAL_ASYNC_BUFFER_SIZE_DEFAULT, 16 in the code
          RxDepth       \* what the receiver holds: two characters and one half way in

ASSUME PortAssumption == BufferSize \in Nat \ {0} /\ RxDepth \in Nat \ {0}

VARIABLES
    mode,           \* of the port in being: "none", "sync" or "async"
    regs,           \* globals that are not null, bits of UCSR0B, "I" of SREG
    step,           \* the statement its constructor or destructor is at
    readBuffer, writeBuffer,
    received,       \* characters in the receiver
    udr             \* the transmit data register: one character or none

portVars == <<mode, regs, step, readBuffer, writeBuffer, received, udr>>

Reading == {"read_buffer", "on_serial_received"}
Writing == {"write_buffer", "on_serial_ready_to_send"}
UCSR0B  == {"RXEN0", "RXCIE0", "TXEN0", "UDRIE0"}

PortInit ==
    /\ mode = "none" /\ regs = {} /\ step = 1
    /\ readBuffer = <<>> /\ writeBuffer = <<>> /\ received = <<>> /\ udr = <<>>

-----------------------------------------------------------------------------
(* Constructors and destructors, a statement at a time.                    *)

\* What a statement sets and what it clears.
Set(s)   == [set |-> s, clear |-> {}]
Clear(s) == [set |-> {}, clear |-> s]

\* The bases are constructed in the order read, write, and destructed in the
\* opposite one.
Constructor(m) ==
    IF m = "sync" THEN <<Set({"RXEN0"}), Set({"TXEN0"})>>
    ELSE <<Set({"read_buffer"}), Set({"on_serial_received"}), Set({"RXEN0", "RXCIE0"}),
           Set({"I"}), Set({"write_buffer"}), Set({"on_serial_ready_to_send"}),
           Set({"TXEN0"}), Set({"I"})>>

\* Mutant: the callback is taken away before its interrupt is disabled.
DestructorMutant(m) ==
    IF m = "sync" THEN <<Clear({"TXEN0"}), Clear({"RXEN0"})>>
    ELSE <<Clear({"on_serial_ready_to_send"}), Clear({"UDRIE0"}), Clear({"write_buffer"}),
           Clear({"RXEN0", "RXCIE0"}), Clear({"on_serial_received"}), Clear({"read_buffer"})>>

Destructor(m) ==
    IF m = "sync" THEN <<Clear({"TXEN0"}), Clear({"RXEN0"})>>
    ELSE <<Clear({"UDRIE0"}), Clear({"on_serial_ready_to_send"}), Clear({"write_buffer"}),
           Clear({"RXEN0", "RXCIE0"}), Clear({"on_serial_received"}), Clear({"read_buffer"})>>

\* The statement of `script` that is next.  A receiver that is disabled
\* forgets what it holds.
Execute(script) ==
    /\ step <= Len(script)
    /\ regs' = (regs \ script[step].clear) \cup script[step].set
    /\ step' = step + 1
    /\ received' = IF "RXEN0" \in regs' THEN received ELSE <<>>
    /\ UNCHANGED <<mode, readBuffer, writeBuffer, udr>>

\* A port is declared: its buffers are empty.
Begin(m) ==
    /\ mode' = m /\ step' = 1
    /\ readBuffer' = <<>> /\ writeBuffer' = <<>>
    /\ UNCHANGED <<regs, received, udr>>

-----------------------------------------------------------------------------
(* Reading and writing.                                                    *)

\* read(), once it need not wait: where the characters come from.
Incoming == IF mode = "sync" THEN received ELSE readBuffer

Take ==
    /\ Incoming # <<>>
    /\ IF mode = "sync" THEN received' = Tail(received) /\ UNCHANGED readBuffer
       ELSE readBuffer' = Tail(readBuffer) /\ UNCHANGED received
    /\ UNCHANGED <<mode, regs, step, writeBuffer, udr>>

\* write() of the synchronous port, once the data register is empty.
Put(c) ==
    /\ mode = "sync" /\ udr = <<>>
    /\ udr' = <<c>>
    /\ UNCHANGED <<mode, regs, step, readBuffer, writeBuffer, received>>

\* Mutant: write() does not wait for room, and push refuses the character.
PushMutant(c) ==
    /\ mode = "async"
    /\ writeBuffer' = IF Len(writeBuffer) < BufferSize THEN Append(writeBuffer, c) ELSE writeBuffer
    /\ UNCHANGED <<mode, regs, step, readBuffer, received, udr>>

\* write() of the other one: the push, once there is room, ...
Push(c) ==
    /\ mode = "async" /\ Len(writeBuffer) < BufferSize
    /\ writeBuffer' = Append(writeBuffer, c)
    /\ UNCHANGED <<mode, regs, step, readBuffer, received, udr>>

\* ... then the data register interrupt is enabled.
Enable ==
    /\ regs' = regs \cup {"UDRIE0"}
    /\ UNCHANGED <<mode, step, readBuffer, writeBuffer, received, udr>>

-----------------------------------------------------------------------------
(* The interrupts and the hardware.                                        *)

\* USART_RX_vect: what finds the buffer full is dropped.
RxInterrupt ==
    /\ {"I", "RXCIE0"} \subseteq regs /\ received # <<>>
    /\ received' = Tail(received)
    /\ readBuffer' = IF Len(readBuffer) < BufferSize THEN Append(readBuffer, Head(received))
                     ELSE readBuffer
    /\ UNCHANGED <<mode, regs, step, writeBuffer, udr>>

\* USART_UDRE_vect: the next character, or the interrupt is disabled.
UdreInterrupt ==
    /\ {"I", "UDRIE0"} \subseteq regs /\ udr = <<>>
    /\ IF writeBuffer # <<>>
       THEN udr' = <<Head(writeBuffer)>> /\ writeBuffer' = Tail(writeBuffer) /\ UNCHANGED regs
       ELSE regs' = regs \ {"UDRIE0"} /\ UNCHANGED <<udr, writeBuffer>>
    /\ UNCHANGED <<mode, step, readBuffer, received>>

\* A character leaves.  A transmitter that is disabled first sends what it has.
Transmit ==
    /\ udr # <<>> /\ udr' = <<>>
    /\ UNCHANGED <<mode, regs, step, readBuffer, writeBuffer, received>>

\* A character arrives; if there is no room the one half way in is lost.
Arrive(c) ==
    /\ received' = IF "RXEN0" \notin regs THEN <<>>
                   ELSE IF Len(received) < RxDepth THEN Append(received, c)
                   ELSE Append(Front(received), c)
    /\ UNCHANGED <<mode, regs, step, readBuffer, writeBuffer, udr>>
=============================================================================
