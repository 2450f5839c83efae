----------------------------- MODULE DynamicVec -----------------------------
(***************************************************************************)
(* collections/vec.rs: a vector kept in two parts.  The bus keeps the      *)
(* subscribers of a channel in it.  Values are pushed to the fixed part    *)
(* first and popped from the heap first, so that the parts read as one.    *)
(***************************************************************************)
EXTENDS TwoParts

VARIABLES vec,    \* [stack, heap], the two parts
          found   \* the call answered last and what it answered

vecVars == <<vec, found>>

VecInit == vec = Empty /\ found = <<"init", None>>

\* Mutant of HeldAt: the index into the heap is not shifted.
HeldAtUnshifted(i) ==
  CASE i < Len(vec.stack) -> vec.stack[i + 1]
    [] i >= Len(vec.stack) /\ i < Len(vec.heap) -> vec.heap[i + 1]
    [] OTHER -> None

\* get and get_mut.
HeldAt(i) ==
  CASE i < Len(vec.stack) -> vec.stack[i + 1]
    [] i >= Len(vec.stack) /\ i < TotalLen(vec) -> vec.heap[i - Len(vec.stack) + 1]
    [] OTHER -> None

AllButLast(s) == SubSeq(s, 1, Len(s) - 1)
LastOf(s) == IF s = <<>> THEN None ELSE s[Len(s)]

\* Mutant of LastOnHeap: the fixed part is emptied first, as if it were a queue.
LastOnHeapLate(d) == d.stack = <<>>

\* The last value is on the heap, if any is.
LastOnHeap(d) == d.heap # <<>>

LastIn(d) == LastOf(IF LastOnHeap(d) THEN d.heap ELSE d.stack)

WithoutLast(d) ==
  IF LastOnHeap(d) THEN [d EXCEPT !.heap = AllButLast(@)] ELSE [d EXCEPT !.stack = AllButLast(@)]

\* push_stack: never spills to the heap.
VecPushStack(v) ==
  /\ vec' = IF StackFull(vec) THEN vec ELSE [vec EXCEPT !.stack = Append(@, v)]
  /\ found' = <<"push", ~StackFull(vec)>>

VecPush(v) ==
  /\ TotalLen(vec) < MaxLen
  /\ vec' = Pushed(vec, v)
  /\ found' = <<"push", TRUE>>

VecPop == vec' = WithoutLast(vec) /\ found' = <<"pop", LastIn(vec)>>

VecGet(i) == found' = <<"get", HeldAt(i)>> /\ UNCHANGED vec

\* A write by set or by what get_mut finds; beyond the end nothing is found
\* (set and get_mut_or_panic panic).
VecSet(i, v) ==
  /\ vec' = CASE i < Len(vec.stack) -> [vec EXCEPT !.stack[i + 1] = v]
              [] i >= Len(vec.stack) /\ i < TotalLen(vec) ->
                   [vec EXCEPT !.heap[i - Len(vec.stack) + 1] = v]
              [] OTHER -> vec
  /\ found' = <<"get", HeldAt(i)>>

VecLast == found' = <<"get", LastIn(vec)>> /\ UNCHANGED vec

\* is_empty looks at the fixed part alone.
VecIsEmpty == found' = <<"is_empty", vec.stack = <<>> >> /\ UNCHANGED vec

VecLength == found' = <<"len", TotalLen(vec)>> /\ UNCHANGED vec

VecNext ==
  \/ \E v \in Value : VecPushStack(v) \/ VecPush(v)
  \/ \E i \in 0..MaxLen : VecGet(i) \/ \E v \in Value : VecSet(i, v)
  \/ VecPop \/ VecLast \/ VecIsEmpty \/ VecLength

VecSpec == VecInit /\ [][VecNext]_vecVars

-----------------------------------------------------------------------------
\* The two parts read as one vector, the fixed part first.
VecContents == vec.stack \o vec.heap

Vector == INSTANCE PlainVector WITH items <- VecContents, answer <- found, Limit <- StackSize

\* Type invariant, and the place of the heap: values are on it only behind a
\* full fixed part.  It is what makes is_empty (which ignores the heap) and
\* push_stack right, though pops and pushes alternate in any order.
VecPartsInOrder ==
  /\ vec \in TwoPart /\ Len(vec.stack) <= StackSize
  /\ vec.heap # <<>> => Len(vec.stack) = StackSize

\* The two-part vector is a vector: each call changes the contents and answers
\* as one sequence would, whichever part an index falls in.
ImplementsVector == Vector!Spec
=============================================================================
