---------------------------- MODULE BoundedFifo ----------------------------
(***************************************************************************)
(* What vla::basic_msg_queue promises its users: a bounded first-in        *)
(* first-out channel.  A push appends or, when the queue is full, changes  *)
(* nothing (push returns false).  A reader receives the oldest message.    *)
(* ignore() drops the oldest message unread.                               *)
(***************************************************************************)
EXTENDS Naturals, Sequences

CONSTANTS Msg,          \* the messages a queue can hold
          Capacity      \* the template parameter `size`

VARIABLES items,        \* the queued messages, oldest first
          out           \* the message the last successful pop handed out

fifoVars == <<items, out>>

FifoInit == items = <<>> /\ out \in Msg

\* push: accepted only below the capacity, at the tail.
Accept(m) ==
    /\ Len(items) < Capacity
    /\ items' = Append(items, m)
    /\ UNCHANGED out

\* pop: the head moves from the queue to the reader.
Deliver ==
    /\ items # <<>>
    /\ out' = Head(items)
    /\ items' = Tail(items)

\* ignore: the head leaves the queue, nobody reads it.
Skip ==
    /\ items # <<>>
    /\ items' = Tail(items)
    /\ UNCHANGED out

FifoNext == (\E m \in Msg : Accept(m)) \/ Deliver \/ Skip

FifoSpec == FifoInit /\ [][FifoNext]_fifoVars
=============================================================================
