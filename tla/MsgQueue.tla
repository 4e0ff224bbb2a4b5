------------------------------ MODULE MsgQueue ------------------------------
(***************************************************************************)
(* vla::basic_msg_queue and vla::basic_tagged_union_queue: a ring buffer   *)
(* shared by the main loop (the task) and the interrupt handlers of an AVR *)
(* micro-controller.  One step of the task is one statement of the source; *)
(* an interrupt handler runs to its end between two such steps, provided   *)
(* the global interrupt flag is set.  What keeps the two apart is the pair *)
(* of lock types the queue is instantiated with.                           *)
(***************************************************************************)
EXTENDS Naturals, Sequences

CONSTANTS Msg,          \* messages
          Tag,          \* alternatives of the tagged union
          TagOf(_),     \* the alternative a message holds
          Size,         \* template parameter `size`
          Usages        \* the ways the queue is instantiated and used

\* How one queue of the program is declared and who calls what:
\* the lock types, whether the task and the handlers push, and whether the
\* task calls ignore().
Usage == [readLock   : {"Cli", "CliSei", "Nop"},
          writeLock  : {"CliSei", "Nop"},
          taskPushes : BOOLEAN,
          isrPushes  : BOOLEAN,
          ignores    : BOOLEAN]

ASSUME SizeAssumption == Size \in Nat \ {0}
ASSUME TagAssumption == \A m \in Msg : TagOf(m) \in Tag
ASSUME UsagesAssumption == Usages \subseteq Usage

VARIABLES
    usage,      \* the instantiation (never changes)
    buffer,     \* ValueType buffer[size]
    read,       \* index of the oldest message
    write,      \* index of the next free slot
    isEmpty,    \* tells a full ring from an empty one when read = write
    iflag,      \* the global interrupt flag, bit I of SREG
    sreg,       \* CliSei::sreg_restore of the lock the task holds
    pc,         \* the next statement of the call the task is in, or "idle"
    op,         \* the function that call entered
    arg,        \* the message to push
    want,       \* the alternative a tagged pop asks for
    readOld,    \* local variable read_old of _pop
    out         \* the message handed out by the last successful pop

ring == <<buffer, read, write, isEmpty>>
lock == <<iflag, sreg>>
call == <<op, arg, want, readOld>>
vars == <<usage, ring, lock, pc, call, out>>

Slots == 0 .. Size - 1

\* Mutant: the index is compared with the size one step late.
SuccMutant(i) == IF i = Size THEN 0 ELSE i + 1

\* (i + 1) % size, for an index i of the ring.
Succ(i) == IF i + 1 = Size THEN 0 ELSE i + 1

Empty == isEmpty
Full  == ~isEmpty /\ read = write

Peek == buffer[read]

Init ==
    /\ usage \in Usages
    /\ buffer \in [Slots -> Msg]
    /\ read = 0 /\ write = 0
    /\ isEmpty = TRUE
    /\ iflag = TRUE /\ sreg = TRUE
    /\ pc = "idle" /\ op = "pop"
    /\ arg \in Msg /\ want \in Tag /\ readOld = 0
    /\ out \in Msg

-----------------------------------------------------------------------------
(* The locks: Cli, CliSei and NopLock, as constructor and destructor.      *)

\* Mutant: the tagged pop forgets its lock.
LockOfMutant(o) == IF o = "push" THEN usage.writeLock
                   ELSE IF o = "pop" THEN usage.readLock
                   ELSE "Nop"

LockOf(o) == IF o = "push" THEN usage.writeLock
             ELSE IF o = "ignore" THEN "Nop"
             ELSE usage.readLock

Construct(l) ==
    /\ sreg'  = IF l = "CliSei" THEN iflag ELSE sreg
    /\ iflag' = IF l = "Nop" THEN iflag ELSE FALSE

Destruct(l) ==
    /\ iflag' = IF l = "CliSei" THEN sreg ELSE (l = "Cli" \/ iflag)
    /\ UNCHANGED sreg

-----------------------------------------------------------------------------
(* The task.                                                               *)

Goto(from, to) == pc = from /\ pc' = to

\* A call: its lock is constructed.
BeginPush(m) ==
    /\ usage.taskPushes
    /\ Goto("idle", "push_full")
    /\ Construct(LockOf("push"))
    /\ op' = "push" /\ arg' = m
    /\ UNCHANGED <<usage, ring, want, readOld, out>>

BeginPop ==
    /\ Goto("idle", "pop_empty")
    /\ Construct(LockOf("pop"))
    /\ op' = "pop"
    /\ UNCHANGED <<usage, ring, arg, want, readOld, out>>

BeginTake(t) ==
    /\ Goto("idle", "take_match")
    /\ Construct(LockOf("take"))
    /\ op' = "take" /\ want' = t
    /\ UNCHANGED <<usage, ring, arg, readOld, out>>

\* ignore() constructs no lock.  Its callers have seen the queue not empty.
BeginIgnore ==
    /\ usage.ignores
    /\ ~Empty
    /\ Goto("idle", "advance")
    /\ Construct(LockOf("ignore"))
    /\ op' = "ignore"
    /\ UNCHANGED <<usage, ring, arg, want, readOld, out>>

\* _push: refuse when full ...
PushFull ==
    /\ Goto("push_full", IF Full THEN "unlock" ELSE "push_store")
    /\ UNCHANGED <<usage, ring, lock, call, out>>

\* ... else buffer[write] = v; ...
PushStore ==
    /\ Goto("push_store", "push_advance")
    /\ buffer' = [buffer EXCEPT ![write] = arg]
    /\ UNCHANGED <<usage, read, write, isEmpty, lock, call, out>>

\* ... write = (write + 1) % size; ...
PushAdvance ==
    /\ Goto("push_advance", "push_flag")
    /\ write' = Succ(write)
    /\ UNCHANGED <<usage, buffer, read, isEmpty, lock, call, out>>

\* ... is_empty = false.
PushFlag ==
    /\ Goto("push_flag", "unlock")
    /\ isEmpty' = FALSE
    /\ UNCHANGED <<usage, buffer, read, write, lock, call, out>>

\* pop(v): return false when empty, else remember the slot (_pop).
PopEmpty ==
    /\ Goto("pop_empty", IF Empty THEN "unlock" ELSE "advance")
    /\ readOld' = read
    /\ UNCHANGED <<usage, ring, lock, op, arg, want, out>>

\* The tagged pop: only a head of the wanted alternative is read.  The first
\* statement of _read_ptr_next belongs to this step: no handler touches
\* `read` or the caller's variable.
TakeMatch ==
    /\ IF ~Empty /\ TagOf(Peek) = want
       THEN Goto("take_match", "flag") /\ out' = Peek /\ read' = Succ(read)
       ELSE Goto("take_match", "unlock") /\ UNCHANGED <<out, read>>
    /\ UNCHANGED <<usage, buffer, write, isEmpty, lock, call>>

\* _read_ptr_next: read = (read + 1) % size; ...
Advance ==
    /\ Goto("advance", "flag")
    /\ read' = Succ(read)
    /\ UNCHANGED <<usage, buffer, write, isEmpty, lock, call, out>>

\* Mutant: _read_ptr_next leaves is_empty alone.
FlagMutant ==
    /\ Goto("flag", IF op = "pop" THEN "pop_copy" ELSE "unlock")
    /\ UNCHANGED <<usage, ring, lock, call, out>>

\* ... is_empty = read == write.
Flag ==
    /\ Goto("flag", IF op = "pop" THEN "pop_copy" ELSE "unlock")
    /\ isEmpty' = (read = write)
    /\ UNCHANGED <<usage, buffer, read, write, lock, call, out>>

\* _pop copies the message after it has advanced the index.
PopCopy ==
    /\ Goto("pop_copy", "unlock")
    /\ out' = buffer[readOld]
    /\ UNCHANGED <<usage, ring, lock, call>>

\* The call returns: its lock is destructed.
Unlock ==
    /\ Goto("unlock", "idle")
    /\ Destruct(LockOf(op))
    /\ UNCHANGED <<usage, ring, call, out>>

Task ==
    \/ \E m \in Msg : BeginPush(m)
    \/ BeginPop
    \/ \E t \in Tag : BeginTake(t)
    \/ BeginIgnore
    \/ PushFull \/ PushStore \/ PushAdvance \/ PushFlag
    \/ PopEmpty \/ TakeMatch \/ Advance \/ Flag \/ PopCopy
    \/ Unlock

-----------------------------------------------------------------------------
(* The interrupt handlers.                                                 *)

\* A handler pushes.  The hardware clears the interrupt flag on entry and
\* reti sets it again, so neither NopLock nor CliSei changes anything here.
IsrPush(m) ==
    /\ usage.isrPushes
    /\ iflag
    /\ IF Full
       THEN UNCHANGED ring
       ELSE /\ buffer' = [buffer EXCEPT ![write] = m]
            /\ write' = Succ(write)
            /\ isEmpty' = FALSE
            /\ UNCHANGED read
    /\ UNCHANGED <<usage, lock, pc, call, out>>

Isr == \E m \in Msg : IsrPush(m)

Next == Task \/ Isr

Spec == Init /\ [][Next]_vars

\* The rule in the comment on the lock parameters of basic_msg_queue: a lock
\* may be a nop only if what it guards never runs outside the handlers, and
\* so ignore(), which has no lock, needs handlers that do not push.
Disciplined(u) ==
    u.isrPushes =>
        /\ u.readLock # "Nop"
        /\ u.taskPushes => u.writeLock # "Nop"
        /\ ~u.ignores

DisciplinedInit == Init /\ Disciplined(usage)

DisciplinedSpec == DisciplinedInit /\ [][Next]_vars

-----------------------------------------------------------------------------
(* The content of the ring, as the abstract queue sees it.                 *)

\* Behind the first statement of _read_ptr_next, and behind `write` has moved in
\* _push, the flag is not yet up to date: the ring is then empty exactly if the
\* indices are equal, and not empty.
Vacant == IF pc = "flag" THEN read = write ELSE pc # "push_flag" /\ isEmpty

\* The number of messages from index r up to index w, at least one.
Between(r, w) == IF r < w THEN w - r ELSE w + Size - r

Count == IF Vacant THEN 0 ELSE Between(read, write)

\* The slot of the k-th message from index r on.
Slot(r, k) == IF r + k - 1 < Size THEN r + k - 1 ELSE r + k - 1 - Size

Items == [k \in 1 .. Count |-> buffer[Slot(read, k)]]

\* What the reader has been handed, counting the copy _pop is about to make.
Out == IF op = "pop" /\ pc \in {"flag", "pop_copy"} THEN buffer[readOld] ELSE out

Fifo == INSTANCE BoundedFifo WITH Capacity <- Size, items <- Items, out <- Out

-----------------------------------------------------------------------------
(* Properties.                                                             *)

TaskPc == {"idle", "push_full", "push_store", "push_advance", "push_flag",
           "pop_empty", "take_match", "advance", "flag", "pop_copy", "unlock"}

\* Every variable holds a value of its C++ type; indices stay in the buffer.
TypeOK ==
    /\ usage \in Usages
    /\ buffer \in [Slots -> Msg]
    /\ read \in Slots /\ write \in Slots /\ readOld \in Slots
    /\ isEmpty \in BOOLEAN
    /\ iflag \in BOOLEAN /\ sreg \in BOOLEAN
    /\ pc \in TaskPc
    /\ op \in {"push", "pop", "take", "ignore"}
    /\ arg \in Msg /\ want \in Tag
    /\ out \in Msg

\* Whenever an interrupt handler that pushes can run, _full() and _empty()
\* tell it the truth about the content of the ring, whatever statement the
\* task was interrupted at: no push is refused while there is room, none
\* overwrites a message.
HandlerSeesTruth ==
    iflag /\ usage.isrPushes =>
        /\ Full <=> Len(Items) = Size
        /\ Empty <=> Items = <<>>

\* The ring implements the bounded FIFO: whatever the handlers do between two
\* statements of the task, accepted messages are delivered once and in order.
\* A push of the task takes effect when `write` moves, one of a handler at once.
ImplementsFifo == Fifo!FifoSpec
=============================================================================
