---------------------------- MODULE DynamicDeque ----------------------------
(***************************************************************************)
(* collections/dequeue.rs: a queue kept in two parts, a fixed array        *)
(* ("stack", heapless::Deque) that is filled first and a growing one       *)
(* ("heap", VecDeque) that takes what does not fit.  Each call of the code *)
(* works on one part and must leave the two looking like one queue.        *)
(***************************************************************************)
EXTENDS TwoParts

VARIABLES deque,    \* [stack, heap], the two parts
          result    \* the call answered last and what it answered

vars == <<deque, result>>

\* The pop of the fixed part that starts pop_front.
StackPopped(d) ==
  IF d.stack = <<>> THEN d ELSE [d EXCEPT !.stack = Tail(@)]

\* Mutant of Refilled: the heap is left behind the gap.
RefilledNever(d) == d

\* The rest of pop_front: one value of the heap moves to the fixed part.
Refilled(d) ==
  IF ~StackFull(d) /\ d.heap # <<>>
    THEN [stack |-> Append(d.stack, Head(d.heap)), heap |-> Tail(d.heap)]
    ELSE d

\* Mutant of Popped: the refill comes before the pop.
PoppedLate(d) == StackPopped(Refilled(d))

\* What pop_front leaves behind, and what it answers.
Popped(d) == Refilled(StackPopped(d))

FrontOf(d) == IF d.stack = <<>> THEN None ELSE Head(d.stack)

-----------------------------------------------------------------------------
Init == deque = Empty /\ result = <<"init", None>>

\* push_back_stack: never spills to the heap.
PushBackStack(v) ==
  IF StackFull(deque)
    THEN UNCHANGED deque /\ result' = <<"push", FALSE>>
    ELSE /\ deque' = [deque EXCEPT !.stack = Append(@, v)]
         /\ result' = <<"push", TRUE>>

PushBack(v) ==
  /\ TotalLen(deque) < MaxLen
  /\ deque' = Pushed(deque, v)
  /\ result' = <<"push", TRUE>>

PopFront == deque' = Popped(deque) /\ result' = <<"pop", FrontOf(deque)>>

\* pop2: the value goes straight through an empty deque.
Pop2(v) ==
  IF deque.stack = <<>>
    THEN UNCHANGED deque /\ result' = <<"pop", v>>
    ELSE /\ deque' = Pushed(Popped(deque), v)
         /\ result' = <<"pop", FrontOf(deque)>>

\* is_empty looks at the fixed part alone.
IsEmpty == result' = <<"is_empty", deque.stack = <<>> >> /\ UNCHANGED deque

Length == result' = <<"len", TotalLen(deque)>> /\ UNCHANGED deque

Next ==
  \/ \E v \in Value : PushBackStack(v) \/ PushBack(v) \/ Pop2(v)
  \/ PopFront
  \/ IsEmpty
  \/ Length

Spec == Init /\ [][Next]_vars

-----------------------------------------------------------------------------
\* The two parts read as one queue, the fixed part first.
Contents == deque.stack \o deque.heap

Fifo == INSTANCE FifoQueue WITH queue <- Contents, Limit <- StackSize

\* Type invariant: two sequences of values, the fixed one within its capacity.
TypeOK == deque \in TwoPart /\ Len(deque.stack) <= StackSize

\* Values wait on the heap only behind a full fixed part.  It is what makes
\* is_empty (which ignores the heap), push_back (which appends to the fixed
\* part whenever that has room) and push_back_stack right: a value left on the
\* heap behind a gap would be overtaken, or forgotten by is_empty.
HeapOnlyBehindFullStack == deque.heap # <<>> => Len(deque.stack) = StackSize

\* The two-part deque is a FIFO queue: every call changes the contents and
\* answers its caller exactly as one queue with a bounded push would.
ImplementsFifo == Fifo!Spec
=============================================================================
