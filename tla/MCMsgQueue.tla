---------------------------- MODULE MCMsgQueue ----------------------------
(***************************************************************************)
(* A ring of two slots, messages of two alternatives.  The usages are the  *)
(* queues the program declares, each with the calls it makes.              *)
(***************************************************************************)
EXTENDS MsgQueue

CONSTANTS char1, char2, timeout

MCMsg == {char1, char2, timeout}
MCTag == {"char", "timeout"}
MCTagOf(m) == IF m = timeout THEN "timeout" ELSE "char"

Declared(r, w, t, i, g) == [readLock |-> r, writeLock |-> w, taskPushes |-> t,
                            isrPushes |-> i, ignores |-> g]

\* vla::msg_queue: the flag is saved and restored on both sides.
MsgQueueCliSei == Declared("CliSei", "CliSei", TRUE, TRUE, FALSE)
\* vla::msg_queue_fast and the queues of the adc and counters daemons, all
\* of whose users run in the main loop.
MsgQueueFast == Declared("Nop", "Nop", TRUE, FALSE, TRUE)
\* pdu_handler_queue_t: no handler pushes to it.
PduHandlerQueue == Declared("Cli", "Nop", TRUE, FALSE, TRUE)
\* The instantiation the lock comment describes: all writes in handlers.
WritesInHandlers == Declared("Cli", "Nop", FALSE, TRUE, FALSE)
\* transmission_queue_t: declared like the one above, but the transmission
\* and the PDU handler daemons push to it and call ignore() in the main loop.
TransmissionQueue == Declared("Cli", "Nop", TRUE, TRUE, TRUE)

\* The replies of the PDU handler against the handlers of the serial line and
\* of the clock: the queue above, without its ignore().
MCReplyUsages == {[TransmissionQueue EXCEPT !.ignores = FALSE]}

MCUsages == {MsgQueueCliSei, MsgQueueFast, PduHandlerQueue, WritesInHandlers,
             TransmissionQueue}
===========================================================================
