--------------------------- MODULE MsgQueueProofs ---------------------------
(***************************************************************************)
(* For every message set, every ring size and every set of disciplined     *)
(* usages: the ring keeps its types, a handler that pushes always sees the *)
(* truth, and the ring implements the bounded FIFO.                        *)
(***************************************************************************)
EXTENDS MsgQueue, SequenceTheorems, TLAPS

USE SizeAssumption, TagAssumption, UsagesAssumption

-----------------------------------------------------------------------------
(* The ring arithmetic.                                                    *)

\* The next index is an index.
LEMMA SuccInSlots ==
    ASSUME NEW i \in Slots
    PROVE  Succ(i) \in Slots
BY DEF Slots, Succ

\* Advancing `write` of a ring that is not full adds one message, at the end.
LEMMA RingGrows ==
    ASSUME NEW r \in Slots, NEW w \in Slots, r # w
    PROVE  /\ Between(r, w) \in 1 .. Size - 1
           /\ Between(r, Succ(w)) = Between(r, w) + 1
           /\ Slot(r, Between(r, w) + 1) = w
           /\ \A k \in 1 .. Between(r, w) : Slot(r, k) \in Slots \ {w}
BY DEF Slots, Succ, Slot, Between

\* The first message written to an empty ring is the only one.
LEMMA RingStarts ==
    ASSUME NEW r \in Slots
    PROVE  Between(r, Succ(r)) = 1 /\ Slot(r, 1) = r
BY DEF Slots, Succ, Slot, Between

\* Advancing `read` of a ring that is not empty removes the oldest message.
LEMMA RingShrinks ==
    ASSUME NEW r \in Slots, NEW w \in Slots
    PROVE  /\ Between(r, w) \in 1 .. Size
           /\ Slot(r, 1) = r
           /\ IF Succ(r) = w THEN Between(r, w) = 1
              ELSE Between(Succ(r), w) = Between(r, w) - 1
           /\ \A k \in 1 .. Between(r, w) - 1 : Slot(Succ(r), k) = Slot(r, k + 1)
BY DEF Slots, Succ, Slot, Between

-----------------------------------------------------------------------------
(* Type correctness.                                                       *)

\* No step takes a variable out of its type.
LEMMA TypeCorrectStep == TypeOK /\ [Next]_vars => TypeOK'
<1> SUFFICES ASSUME TypeOK, [Next]_vars PROVE TypeOK'
  OBVIOUS
<1> USE DEF TypeOK, TaskPc, Goto, ring, lock, call, LockOf, Construct, Destruct
<1> usage \in Usage
  OBVIOUS
<1>1. CASE UNCHANGED vars
  BY <1>1 DEF vars
<1>2. ASSUME NEW m \in Msg, BeginPush(m) PROVE TypeOK'
  BY <1>2 DEF BeginPush, Usage
<1>3. CASE BeginPop
  BY <1>3 DEF BeginPop, Usage
<1>4. ASSUME NEW t \in Tag, BeginTake(t) PROVE TypeOK'
  BY <1>4 DEF BeginTake, Usage
<1>5. CASE BeginIgnore
  BY <1>5 DEF BeginIgnore
<1>6. CASE PushFull
  BY <1>6 DEF PushFull
<1>7. CASE PushStore
  BY <1>7 DEF PushStore
<1>8. CASE PushAdvance
  BY <1>8, SuccInSlots DEF PushAdvance
<1>9. CASE PushFlag
  BY <1>9 DEF PushFlag
<1>10. CASE PopEmpty
  BY <1>10 DEF PopEmpty
<1>11. CASE TakeMatch
  BY <1>11, SuccInSlots DEF TakeMatch, Peek
<1>12. CASE Advance
  BY <1>12, SuccInSlots DEF Advance
<1>13. CASE Flag
  BY <1>13 DEF Flag
<1>14. CASE PopCopy
  BY <1>14 DEF PopCopy
<1>15. CASE Unlock
  BY <1>15 DEF Unlock, Usage
<1>16. ASSUME NEW m \in Msg, IsrPush(m) PROVE TypeOK'
  BY <1>16, SuccInSlots DEF IsrPush
<1> QED
  BY <1>1, <1>2, <1>3, <1>4, <1>5, <1>6, <1>7, <1>8, <1>9, <1>10, <1>11,
     <1>12, <1>13, <1>14, <1>15, <1>16 DEF Next, Task, Isr

\* The queue's indices never leave the buffer, in any usage.
THEOREM TypeCorrect == Spec => []TypeOK
<1>1. Init => TypeOK
  BY DEF Init, TypeOK, TaskPc, Slots
<1> QED
  BY <1>1, TypeCorrectStep, PTL DEF Spec

-----------------------------------------------------------------------------
(* The inductive invariant of disciplined usages.                          *)

\* Which function the task is in at each statement, and that the usage allows it.
ControlInv ==
    /\ pc \in {"push_full", "push_store", "push_advance", "push_flag"} => op = "push"
    /\ pc \in {"pop_empty", "pop_copy"} => op = "pop"
    /\ pc = "take_match" => op = "take"
    /\ pc = "advance" => op \in {"pop", "ignore"}
    /\ pc = "flag" => op # "push"
    /\ pc # "idle" /\ op = "push" => usage.taskPushes
    /\ pc # "idle" /\ op = "ignore" => usage.ignores

\* A call made under a lock holds it: interrupts are disabled.
LockInv == pc # "idle" /\ LockOf(op) # "Nop" => ~iflag

\* What the flag and the indices say at each statement.
RingInv ==
    /\ pc \notin {"push_flag", "flag"} => (isEmpty => read = write)
    /\ pc \in {"push_store", "push_advance"} => ~Full
    /\ pc = "push_advance" => buffer[write] = arg
    /\ pc = "push_flag" /\ isEmpty => write = Succ(read) /\ buffer[read] = arg
    /\ pc \in {"advance", "flag"} => ~isEmpty
    /\ pc = "advance" /\ op = "pop" => readOld = read

QueueInv ==
    /\ TypeOK
    /\ Disciplined(usage)
    /\ ControlInv
    /\ LockInv
    /\ RingInv

\* A handler that pushes finds the task outside every call.
LEMMA HandlerFindsIdle ==
    ASSUME QueueInv, usage.isrPushes, iflag
    PROVE  pc = "idle"
BY DEF QueueInv, Disciplined, ControlInv, LockInv, LockOf, TypeOK, TaskPc, Usage

LEMMA QueueInvInit == Init /\ Disciplined(usage) => QueueInv
BY DEF Init, QueueInv, TypeOK, TaskPc, Slots, ControlInv, LockInv, RingInv, Full

LEMMA QueueInvNext == QueueInv /\ [Next]_vars => QueueInv'
<1> SUFFICES ASSUME QueueInv, [Next]_vars PROVE QueueInv'
  OBVIOUS
<1>1. TypeOK'
  BY TypeCorrectStep DEF QueueInv
<1>2. usage' = usage
  BY DEF Next, Task, Isr, vars, BeginPush, BeginPop, BeginTake, BeginIgnore,
     PushFull, PushStore, PushAdvance, PushFlag, PopEmpty, TakeMatch, Advance,
     Flag, PopCopy, Unlock, IsrPush
<1>3. Disciplined(usage)'
  BY <1>2 DEF QueueInv, Disciplined
<1>4. ControlInv' /\ LockInv' /\ RingInv'
  <2> USE <1>2 DEF QueueInv, TypeOK, TaskPc, ControlInv, LockInv, RingInv, Goto,
      ring, lock, call, LockOf, Construct, Destruct, Full, Empty
  <2> usage \in Usage
    OBVIOUS
  <2>1. CASE UNCHANGED vars
    BY <2>1 DEF vars
  <2>2. ASSUME NEW m \in Msg, BeginPush(m) PROVE ControlInv' /\ LockInv' /\ RingInv'
    BY <2>2 DEF BeginPush
  <2>3. CASE BeginPop
    BY <2>3 DEF BeginPop
  <2>4. ASSUME NEW t \in Tag, BeginTake(t) PROVE ControlInv' /\ LockInv' /\ RingInv'
    BY <2>4 DEF BeginTake
  <2>5. CASE BeginIgnore
    BY <2>5 DEF BeginIgnore
  <2>6. CASE PushFull
    BY <2>6 DEF PushFull
  <2>7. CASE PushStore
    BY <2>7 DEF PushStore
  <2>8. CASE PushAdvance
    BY <2>8 DEF PushAdvance
  <2>9. CASE PushFlag
    BY <2>9 DEF PushFlag
  <2>10. CASE PopEmpty
    BY <2>10 DEF PopEmpty
  <2>11. CASE TakeMatch
    BY <2>11 DEF TakeMatch
  <2>12. CASE Advance
    BY <2>12 DEF Advance
  <2>13. CASE Flag
    BY <2>13 DEF Flag
  <2>14. CASE PopCopy
    BY <2>14 DEF PopCopy
  <2>15. CASE Unlock
    BY <2>15 DEF Unlock
  <2>16. ASSUME NEW m \in Msg, IsrPush(m) PROVE ControlInv' /\ LockInv' /\ RingInv'
    BY <2>16, HandlerFindsIdle DEF IsrPush
  <2> QED
    BY <2>1, <2>2, <2>3, <2>4, <2>5, <2>6, <2>7, <2>8, <2>9, <2>10, <2>11,
       <2>12, <2>13, <2>14, <2>15, <2>16 DEF Next, Task, Isr
<1> QED
  BY <1>1, <1>3, <1>4 DEF QueueInv

THEOREM QueueInvariant == DisciplinedSpec => []QueueInv
<1>1. DisciplinedInit => QueueInv
  BY QueueInvInit DEF DisciplinedInit
<1> QED
  BY <1>1, QueueInvNext, PTL DEF DisciplinedSpec

-----------------------------------------------------------------------------
(* What a handler sees.                                                    *)

LEMMA CountRange == TypeOK => Count \in 0 .. Size
BY DEF TypeOK, Slots, Count, Between, Vacant

LEMMA ItemsAreMessages ==
    TypeOK => Items \in Seq(Msg) /\ Len(Items) = Count
<1> SUFFICES ASSUME TypeOK PROVE Items \in Seq(Msg) /\ Len(Items) = Count
  OBVIOUS
<1>1. \A k \in 1 .. Count : Slot(read, k) \in Slots
  BY CountRange DEF TypeOK, Slots, Slot
<1>2. \A k \in 1 .. Count : buffer[Slot(read, k)] \in Msg
  BY <1>1 DEF TypeOK
<1>3. Count \in Nat
  BY CountRange
<1>4. Items \in [1 .. Count -> Msg]
  BY <1>2 DEF Items
<1> QED
  BY <1>3, <1>4

LEMMA TruthFromInv == QueueInv => HandlerSeesTruth
<1> SUFFICES ASSUME QueueInv, iflag, usage.isrPushes
             PROVE  (Full <=> Len(Items) = Size) /\ (Empty <=> Items = <<>>)
  BY DEF HandlerSeesTruth
<1>1. pc = "idle"
  BY HandlerFindsIdle
<1>2. Items \in Seq(Msg) /\ Len(Items) = Count
  BY ItemsAreMessages DEF QueueInv
<1>3. Full <=> Count = Size
  BY <1>1 DEF QueueInv, TypeOK, Slots, RingInv, Full, Count, Between, Vacant
<1>4. Empty <=> Count = 0
  BY <1>1 DEF QueueInv, TypeOK, Slots, RingInv, Empty, Count, Between, Vacant
<1> QED
  BY <1>2, <1>3, <1>4

\* In a disciplined usage no handler is misled by a call it interrupts.
THEOREM HandlersSeeTruth == DisciplinedSpec => []HandlerSeesTruth
BY QueueInvariant, TruthFromInv, PTL

-----------------------------------------------------------------------------
(* The ring implements the bounded FIFO.                                   *)

\* The content after the indices moved: one message more at the end ...
LEMMA ItemsGrow ==
    ASSUME TypeOK, TypeOK', NEW m \in Msg,
           Count < Size, Count' = Count + 1,
           buffer'[Slot(read', Count + 1)] = m,
           \A k \in 1 .. Count : buffer'[Slot(read', k)] = buffer[Slot(read, k)]
    PROVE  Len(Items) < Size /\ Items' = Append(Items, m)
<1>1. Items \in Seq(Msg) /\ Len(Items) = Count
  BY ItemsAreMessages
<1>2. (Items \in Seq(Msg) /\ Len(Items) = Count)'
  BY ItemsAreMessages, PTL
<1>3. Count \in Nat
  BY CountRange
<1>4. /\ Append(Items, m) \in Seq(Msg)
      /\ Len(Append(Items, m)) = Len(Items) + 1
      /\ \A k \in 1 .. Count + 1 :
           Append(Items, m)[k] = IF k = Count + 1 THEN m ELSE Items[k]
  BY <1>1, <1>3, AppendProperties
<1>5. \A k \in 1 .. Count + 1 : Items'[k] = buffer'[Slot(read', k)]
  BY DEF Items
<1>6. \A k \in 1 .. Count : Items[k] = buffer[Slot(read, k)]
  BY DEF Items
<1>7. ASSUME NEW k \in 1 .. Count + 1 PROVE Items'[k] = Append(Items, m)[k]
  <2>1. CASE k = Count + 1
    BY <1>4, <1>5, <2>1
  <2>2. CASE k # Count + 1
    <3>1. k \in 1 .. Count
      BY <1>3, <2>2
    <3> QED
      BY <1>4, <1>5, <1>6, <2>2, <3>1
  <2> QED
    BY <2>1, <2>2
<1>8. Items' = Append(Items, m)
  BY <1>1, <1>2, <1>4, <1>7, SeqEqual
<1> QED
  BY <1>1, <1>8

\* ... or the oldest message gone ...
LEMMA ItemsShrink ==
    ASSUME TypeOK, TypeOK', Count > 0, Count' = Count - 1,
           Slot(read, 1) = read, buffer' = buffer,
           \A k \in 1 .. Count - 1 : Slot(read', k) = Slot(read, k + 1)
    PROVE  Items # <<>> /\ Items' = Tail(Items) /\ Head(Items) = buffer[read]
<1>1. Items \in Seq(Msg) /\ Len(Items) = Count
  BY ItemsAreMessages
<1>2. (Items \in Seq(Msg) /\ Len(Items) = Count)'
  BY ItemsAreMessages, PTL
<1>3. Count \in Nat
  BY CountRange
<1>4. Items # <<>>
  BY <1>1, <1>3
<1>5. /\ Tail(Items) \in Seq(Msg)
      /\ Len(Tail(Items)) = Count - 1
      /\ \A k \in 1 .. Count - 1 : Tail(Items)[k] = Items[k + 1]
  BY <1>1, <1>4, HeadTailProperties
<1>6. \A k \in 1 .. Count - 1 : Items'[k] = buffer'[Slot(read', k)]
  BY DEF Items
<1>7. \A k \in 1 .. Count : Items[k] = buffer[Slot(read, k)]
  BY DEF Items
<1>8. \A k \in 1 .. Count - 1 : Items'[k] = Tail(Items)[k]
  BY <1>3, <1>5, <1>6, <1>7
<1>9. Items' = Tail(Items)
  BY <1>1, <1>2, <1>5, <1>8, SeqEqual
<1>10. Head(Items) = buffer[read]
  BY <1>1, <1>3, <1>7
<1> QED
  BY <1>4, <1>9, <1>10

\* ... or as before.
LEMMA ItemsStay ==
    ASSUME Count' = Count, read' = read,
           \A k \in 1 .. Count : buffer'[Slot(read, k)] = buffer[Slot(read, k)]
    PROVE  Items' = Items
BY DEF Items

LEMMA FifoInitially == Init => Fifo!FifoInit
<1> SUFFICES ASSUME Init PROVE Items = <<>> /\ Out \in Msg
  BY DEF Fifo!FifoInit
<1>1. Count = 0
  BY DEF Init, Count, Vacant
<1> QED
  BY <1>1 DEF Init, Items, Out

\* A handler that runs while the task is outside every call pushes to the FIFO.
LEMMA HandlerStep ==
    ASSUME QueueInv, QueueInv', NEW m \in Msg, IsrPush(m)
    PROVE  [Fifo!FifoNext]_(Fifo!fifoVars)
<1>1. pc = "idle" /\ pc' = "idle"
  BY HandlerFindsIdle DEF IsrPush
<1>2. Out' = Out
  BY <1>1 DEF IsrPush, Out, call
<1>3. CASE Full
  <2>1. Count' = Count
    BY <1>1, <1>3 DEF IsrPush, ring, Count, Vacant
  <2>2. Items' = Items
    BY <1>3, <2>1, ItemsStay DEF IsrPush, ring
  <2> QED
    BY <1>2, <2>2 DEF Fifo!fifoVars
<1>4. CASE ~Full
  <2>1. /\ buffer' = [buffer EXCEPT ![write] = m]
        /\ read' = read /\ write' = Succ(write) /\ ~isEmpty'
    BY <1>4 DEF IsrPush
  <2>2. read \in Slots /\ write \in Slots /\ buffer \in [Slots -> Msg]
    BY DEF QueueInv, TypeOK
  <2>3. isEmpty => read = write
    BY <1>1 DEF QueueInv, RingInv
  <2>4. Count' = Between(read, Succ(write))
    BY <1>1, <2>1 DEF Count, Vacant, Between
  <2>5. /\ Count < Size /\ Count' = Count + 1
        /\ Slot(read, Count + 1) = write
        /\ \A k \in 1 .. Count : Slot(read, k) \in Slots \ {write}
    <3>1. CASE isEmpty
      <4>1. Count = 0
        BY <1>1, <3>1 DEF Count, Vacant
      <4> QED
        BY <2>2, <2>3, <2>4, <3>1, <4>1, RingStarts DEF QueueInv
    <3>2. CASE ~isEmpty
      <4>1. Count = Between(read, write) /\ read # write
        BY <1>1, <1>4, <3>2 DEF Count, Vacant, Full
      <4> QED
        BY <2>2, <2>4, <4>1, RingGrows
    <3> QED
      BY <3>1, <3>2
  <2>6. Len(Items) < Size /\ Items' = Append(Items, m)
    BY <2>1, <2>2, <2>5, ItemsGrow DEF QueueInv
  <2>7. Fifo!Accept(m)
    BY <1>2, <2>6 DEF Fifo!Accept
  <2> QED
    BY <2>7 DEF Fifo!FifoNext
<1> QED
  BY <1>3, <1>4

\* A push of the task takes effect when `write` moves.
LEMMA PushStep ==
    ASSUME QueueInv, QueueInv', PushStore \/ PushAdvance \/ PushFlag
    PROVE  [Fifo!FifoNext]_(Fifo!fifoVars)
<1> USE DEF Goto
<1>1. Out' = Out
  BY DEF PushStore, PushAdvance, PushFlag, Out, call, QueueInv, ControlInv
<1>2. read \in Slots /\ write \in Slots /\ buffer \in [Slots -> Msg] /\ arg \in Msg
  BY DEF QueueInv, TypeOK
<1>3. CASE PushStore
  <2>1. /\ buffer' = [buffer EXCEPT ![write] = arg]
        /\ read' = read /\ Count' = Count /\ ~Full
    BY <1>3 DEF PushStore, QueueInv, RingInv, Count, Vacant
  <2>2. \A k \in 1 .. Count : Slot(read, k) \in Slots \ {write}
    BY <1>2, <1>3, <2>1, RingGrows
    DEF PushStore, QueueInv, RingInv, Count, Vacant, Full
  <2>3. Items' = Items
    BY <1>2, <2>1, <2>2, ItemsStay
  <2> QED
    BY <1>1, <2>3 DEF Fifo!fifoVars
<1>4. CASE PushAdvance
  <2>1. /\ buffer' = buffer /\ buffer[write] = arg /\ read' = read
        /\ Count' = Between(read, Succ(write))
    BY <1>4 DEF PushAdvance, QueueInv, RingInv, Count, Vacant, Between
  <2>2. Count < Size /\ Count' = Count + 1 /\ Slot(read, Count + 1) = write
    <3>1. CASE isEmpty
      <4>1. Count = 0 /\ read = write
        BY <1>4, <3>1 DEF PushAdvance, QueueInv, RingInv, Count, Vacant
      <4> QED
        BY <1>2, <2>1, <4>1, RingStarts
    <3>2. CASE ~isEmpty
      <4>1. Count = Between(read, write) /\ read # write
        BY <1>4, <3>2 DEF PushAdvance, QueueInv, RingInv, Full, Count, Vacant
      <4> QED
        BY <1>2, <2>1, <4>1, RingGrows
    <3> QED
      BY <3>1, <3>2
  <2>3. \A k \in 1 .. Count : buffer'[Slot(read', k)] = buffer[Slot(read, k)]
    BY <2>1
  <2>4. Len(Items) < Size /\ Items' = Append(Items, arg)
    BY <1>2, <2>1, <2>2, <2>3, ItemsGrow DEF QueueInv
  <2> QED
    BY <1>1, <1>2, <2>4 DEF Fifo!FifoNext, Fifo!Accept
<1>5. CASE PushFlag
  <2>1. Count' = Count /\ read' = read /\ buffer' = buffer
    BY <1>5 DEF PushFlag, Count, Vacant
  <2>2. Items' = Items
    BY <2>1, ItemsStay
  <2> QED
    BY <1>1, <2>2 DEF Fifo!fifoVars
<1> QED
  BY <1>3, <1>4, <1>5

\* A pop or ignore() takes effect when `read` moves.
LEMMA ReadStep ==
    ASSUME QueueInv, QueueInv', Advance \/ TakeMatch, read' = Succ(read),
           buffer' = buffer, write' = write, pc' = "flag", ~isEmpty, pc # "flag"
    PROVE  [Fifo!FifoNext]_(Fifo!fifoVars)
<1>1. read \in Slots /\ write \in Slots
  BY DEF QueueInv, TypeOK
<1>2. Count = Between(read, write)
  BY DEF Count, Vacant
<1>3. Count' = IF Succ(read) = write THEN 0 ELSE Between(Succ(read), write)
  BY DEF Count, Vacant, Between
<1>4. Count > 0 /\ Count' = Count - 1
  BY <1>1, <1>2, <1>3, RingShrinks
<1>5. \A k \in 1 .. Count - 1 : Slot(read', k) = Slot(read, k + 1)
  BY <1>1, <1>2, RingShrinks
<1>6. Items # <<>> /\ Items' = Tail(Items) /\ Head(Items) = buffer[read]
  BY <1>1, <1>4, <1>5, RingShrinks, ItemsShrink DEF QueueInv
<1>7. CASE Advance /\ op = "pop"
  <2>1. Out' = buffer[read]
    BY <1>7 DEF Advance, Goto, call, QueueInv, RingInv, Out
  <2> QED
    BY <1>6, <2>1 DEF Fifo!FifoNext, Fifo!Deliver
<1>8. CASE Advance /\ op # "pop"
  <2>1. Out' = Out
    BY <1>8 DEF Advance, call, Out
  <2> QED
    BY <1>6, <2>1 DEF Fifo!FifoNext, Fifo!Skip
<1>9. CASE TakeMatch
  <2>1. Out' = buffer[read]
    BY <1>9 DEF TakeMatch, Goto, call, Peek, QueueInv, ControlInv, Out
  <2> QED
    BY <1>6, <2>1 DEF Fifo!FifoNext, Fifo!Deliver
<1> QED
  BY <1>7, <1>8, <1>9

\* The other steps of the task change neither the content nor the reader's view.
LEMMA SilentStep ==
    ASSUME QueueInv, QueueInv', read' = read, buffer' = buffer,
           Vacant' = Vacant, write' = write, Out' = Out
    PROVE  UNCHANGED Fifo!fifoVars
<1>1. Count' = Count
  BY DEF Count
<1> QED
  BY <1>1, ItemsStay DEF Fifo!fifoVars

LEMMA FifoStep == QueueInv /\ QueueInv' /\ [Next]_vars => [Fifo!FifoNext]_(Fifo!fifoVars)
<1> SUFFICES ASSUME QueueInv, QueueInv', [Next]_vars
             PROVE  [Fifo!FifoNext]_(Fifo!fifoVars)
  OBVIOUS
<1> USE DEF Goto, ring, lock, call
<1>1. CASE UNCHANGED vars
  BY <1>1, SilentStep DEF vars, Vacant, Out
<1>2. CASE \/ \E m \in Msg : BeginPush(m)
           \/ BeginPop
           \/ \E t \in Tag : BeginTake(t)
           \/ BeginIgnore
  BY <1>2, SilentStep DEF BeginPush, BeginPop, BeginTake, BeginIgnore, Vacant, Out
<1>3. CASE PushFull \/ PopEmpty
  BY <1>3, SilentStep DEF PushFull, PopEmpty, Vacant, Out
<1>4. CASE PushStore \/ PushAdvance \/ PushFlag
  BY <1>4, PushStep
<1>5. CASE TakeMatch
  <2>1. CASE ~Empty /\ TagOf(Peek) = want
    BY <1>5, <2>1, ReadStep DEF TakeMatch, Empty
  <2>2. CASE ~(~Empty /\ TagOf(Peek) = want)
    BY <1>5, <2>2, SilentStep DEF TakeMatch, Vacant, Out
  <2> QED
    BY <2>1, <2>2
<1>6. CASE Advance
  BY <1>6, ReadStep DEF Advance, QueueInv, RingInv
<1>7. CASE Flag
  BY <1>7, SilentStep DEF Flag, Vacant, Out, QueueInv, ControlInv
<1>8. CASE PopCopy
  BY <1>8, SilentStep DEF PopCopy, Vacant, Out, QueueInv, ControlInv
<1>9. CASE Unlock
  BY <1>9, SilentStep DEF Unlock, Vacant, Out
<1>10. CASE Isr
  BY <1>10, HandlerStep DEF Isr
<1> QED
  BY <1>1, <1>2, <1>3, <1>4, <1>5, <1>6, <1>7, <1>8, <1>9, <1>10 DEF Next, Task

\* In a disciplined usage the ring buffer is a bounded FIFO to its readers and
\* writers, whatever the handlers do between two statements of the task.
THEOREM RingImplementsFifo == DisciplinedSpec => ImplementsFifo
<1>1. DisciplinedInit => Fifo!FifoInit
  BY FifoInitially DEF DisciplinedInit
<1> QED
  BY <1>1, FifoStep, QueueInvariant, PTL
  DEF DisciplinedSpec, ImplementsFifo, Fifo!FifoSpec
=============================================================================
