------------------------------ MODULE TwoParts ------------------------------
(***************************************************************************)
(* What the two collections of the runtime have in common: a fixed array   *)
(* ("stack", of the heapless crate) that is filled first and a growing     *)
(* part ("heap") that takes what does not fit.                             *)
(***************************************************************************)
EXTENDS Naturals, Sequences

CONSTANTS Value,      \* what a collection holds
          StackSize,  \* STACK_SIZE, the capacity of the fixed part
          MaxLen,     \* bound of the model: no push grows a collection past it
          None        \* the answer of a pop from an empty collection

ASSUME StackSizeAssumption == StackSize \in Nat \ {0}
ASSUME MaxLenAssumption == MaxLen \in Nat /\ StackSize <= MaxLen
ASSUME NoneAssumption == None \notin Value

TwoPart == [stack : Seq(Value), heap : Seq(Value)]

Empty == [stack |-> <<>>, heap |-> <<>>]

\* Mutant of StackFull: one value too many.
StackFullLate(d) == Len(d.stack) > StackSize

\* The fixed part refuses a push when it holds its capacity.
StackFull(d) == Len(d.stack) >= StackSize

\* The length of both parts.
TotalLen(d) == Len(d.stack) + Len(d.heap)

\* A push at the end: to the fixed part, or to the heap when that is full.
Pushed(d, v) ==
  IF StackFull(d)
    THEN [d EXCEPT !.heap = Append(@, v)]
    ELSE [d EXCEPT !.stack = Append(@, v)]
=============================================================================
