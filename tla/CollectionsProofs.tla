------------------------ MODULE CollectionsProofs -------------------------
(***************************************************************************)
(* The containers of collections/ and the buffer.  Deque and vector keep   *)
(* one collection in two parts: their pushes are treated once, then each   *)
(* implements one plain FIFO queue or vector, for every value set, every   *)
(* capacity and every bound.  The range of a buffer is a payload of bytes.  *)
(***************************************************************************)
EXTENDS DynamicDeque, DynamicVec, Buffer, SequenceTheorems, TLAPS

\* What a good collection is, as a predicate on a value rather than on the state.
Good(d) ==
  /\ d \in TwoPart
  /\ Len(d.stack) <= StackSize
  /\ d.heap # <<>> => Len(d.stack) = StackSize

\* A push keeps a collection good and appends to what its two parts hold.
LEMMA PushedAppends ==
  ASSUME NEW d, Good(d), NEW v \in Value
  PROVE  /\ Good(Pushed(d, v))
         /\ Pushed(d, v).stack \o Pushed(d, v).heap = Append(d.stack \o d.heap, v)
<1> USE StackSizeAssumption DEF Good, TwoPart
<1>1. CASE StackFull(d)
  <2>1. Pushed(d, v) = [stack |-> d.stack, heap |-> Append(d.heap, v)]
    BY <1>1 DEF Pushed
  <2>2. Len(d.stack) = StackSize
    BY <1>1 DEF StackFull
  <2>3. Good(Pushed(d, v))
    BY <2>1, <2>2
  <2>4. d.stack \o Append(d.heap, v) = Append(d.stack \o d.heap, v)
    OBVIOUS
  <2> QED BY <2>1, <2>3, <2>4
<1>2. CASE ~StackFull(d)
  <2>1. Pushed(d, v) = [stack |-> Append(d.stack, v), heap |-> d.heap]
    BY <1>2 DEF Pushed
  <2>2. d.heap = <<>> /\ Len(d.stack) < StackSize
    BY <1>2 DEF StackFull
  <2>3. Good(Pushed(d, v))
    BY <2>1, <2>2
  <2>4. Append(d.stack, v) \o <<>> = Append(d.stack \o <<>>, v)
    OBVIOUS
  <2> QED BY <2>1, <2>2, <2>3, <2>4
<1> QED BY <1>1, <1>2

\* The fixed part of a good collection is empty only when everything is.
LEMMA StackEmptyAllEmpty ==
  ASSUME NEW d, Good(d)
  PROVE  d.stack = <<>> <=> d.stack \o d.heap = <<>>
BY StackSizeAssumption DEF Good, TwoPart

-----------------------------------------------------------------------------
\* The inductive invariant: the type invariant and the place of the heap.
DequeInv == TypeOK /\ HeapOnlyBehindFullStack

-----------------------------------------------------------------------------
\* pop_front on a deque with an empty fixed part changes nothing: the deque
\* holds nothing at all.
LEMMA PoppedOfEmpty ==
  ASSUME NEW d, Good(d), d.stack = <<>>
  PROVE  Popped(d) = d /\ d.heap = <<>> /\ d.stack \o d.heap = <<>>
BY StackSizeAssumption DEF Good, TwoPart, Popped, Refilled, StackPopped, StackFull

\* Otherwise it takes the head of what the two parts hold, and stays good.
LEMMA PoppedTakesHead ==
  ASSUME NEW d, Good(d), d.stack # <<>>
  PROVE  /\ Good(Popped(d))
         /\ d.stack \o d.heap # <<>>
         /\ Head(d.stack) = Head(d.stack \o d.heap)
         /\ Popped(d).stack \o Popped(d).heap = Tail(d.stack \o d.heap)
<1> USE StackSizeAssumption DEF Good, TwoPart
<1> DEFINE p == StackPopped(d)
<1>1. p = [stack |-> Tail(d.stack), heap |-> d.heap]
  BY DEF StackPopped
<1>2. /\ Tail(d.stack) \in Seq(Value) /\ Len(Tail(d.stack)) = Len(d.stack) - 1
      /\ ~StackFull(p)
  BY <1>1, HeadTailProperties DEF StackFull
<1>3. /\ d.stack \o d.heap # <<>>
      /\ Head(d.stack) = Head(d.stack \o d.heap)
      /\ Tail(d.stack \o d.heap) = Tail(d.stack) \o d.heap
  OBVIOUS
<1>4. CASE d.heap = <<>>
  <2>1. Popped(d) = [stack |-> Tail(d.stack), heap |-> <<>>]
    BY <1>1, <1>4 DEF Popped, Refilled
  <2> QED BY <2>1, <1>2, <1>3, <1>4
<1>5. CASE d.heap # <<>>
  <2>1. Popped(d) = [stack |-> Append(Tail(d.stack), Head(d.heap)), heap |-> Tail(d.heap)]
    BY <1>1, <1>2, <1>5 DEF Popped, Refilled
  <2>2. /\ Head(d.heap) \in Value /\ Tail(d.heap) \in Seq(Value)
        /\ <<Head(d.heap)>> \o Tail(d.heap) = d.heap
    BY <1>5, HeadTailProperties
  <2>3. Good(Popped(d))
    BY <2>1, <2>2, <1>2, <1>5
  <2>4. Append(Tail(d.stack), Head(d.heap)) \o Tail(d.heap)
          = Tail(d.stack) \o (<<Head(d.heap)>> \o Tail(d.heap))
    BY <2>2, <1>2
  <2>5. /\ Popped(d).stack = Append(Tail(d.stack), Head(d.heap))
        /\ Popped(d).heap = Tail(d.heap)
    BY <2>1
  <2> QED BY <2>2, <2>3, <2>4, <2>5, <1>3
<1> QED BY <1>4, <1>5

-----------------------------------------------------------------------------
LEMMA GoodIsInv == DequeInv <=> Good(deque)
BY DEF DequeInv, TypeOK, HeapOnlyBehindFullStack, Good

LEMMA InvInit == Init => DequeInv
BY StackSizeAssumption
   DEF Init, Empty, DequeInv, TypeOK, HeapOnlyBehindFullStack, TwoPart

\* Every call keeps the invariant.
LEMMA InvStep == DequeInv /\ [Next]_vars => DequeInv'
<1> SUFFICES ASSUME Good(deque), [Next]_vars
             PROVE  Good(deque')
  BY GoodIsInv DEF DequeInv, TypeOK, HeapOnlyBehindFullStack, Good
<1>1. ASSUME NEW v \in Value, PushBackStack(v) PROVE Good(deque')
  <2>1. CASE StackFull(deque)
    BY <1>1, <2>1 DEF PushBackStack
  <2>2. CASE ~StackFull(deque)
    <3>1. deque' = Pushed(deque, v)
      BY <1>1, <2>2 DEF PushBackStack, Pushed
    <3> QED BY <3>1, PushedAppends
  <2> QED BY <2>1, <2>2
<1>2. ASSUME NEW v \in Value, PushBack(v) PROVE Good(deque')
  BY <1>2, PushedAppends DEF PushBack
<1>3. ASSUME NEW v \in Value, Pop2(v) PROVE Good(deque')
  <2>1. CASE deque.stack = <<>>
    BY <1>3, <2>1 DEF Pop2
  <2>2. CASE deque.stack # <<>>
    <3>1. Good(Popped(deque))
      BY <2>2, PoppedTakesHead
    <3>2. Good(Pushed(Popped(deque), v))
      BY <3>1, PushedAppends
    <3> QED BY <1>3, <2>2, <3>2 DEF Pop2
  <2> QED BY <2>1, <2>2
<1>4. ASSUME PopFront PROVE Good(deque')
  <2>1. deque' = Popped(deque)
    BY <1>4 DEF PopFront
  <2> QED BY <2>1, PoppedOfEmpty, PoppedTakesHead
<1>5. ASSUME IsEmpty \/ Length \/ UNCHANGED vars PROVE Good(deque')
  BY <1>5 DEF IsEmpty, Length, vars
<1> QED BY <1>1, <1>2, <1>3, <1>4, <1>5 DEF Next

\* Every behaviour of the deque keeps both parts well formed, and values wait
\* on the heap only behind a full fixed part.
THEOREM DequeInvariant == Spec => [](TypeOK /\ HeapOnlyBehindFullStack)
<1>1. Spec => []DequeInv
  BY InvInit, InvStep, PTL DEF Spec
<1> QED BY <1>1, PTL DEF DequeInv

\* Each part is a sequence of values, the fixed one within its capacity.
THEOREM DequeTypes == Spec => []TypeOK
BY DequeInvariant, PTL

-----------------------------------------------------------------------------
\* Under the invariant the fixed part is empty only when everything is.
LEMMA StackEmptyIsEmpty ==
  ASSUME Good(deque)
  PROVE  deque.stack = <<>> <=> Contents = <<>>
BY StackSizeAssumption DEF Good, TwoPart, Contents

LEMMA StepRefines == DequeInv /\ [Next]_vars => [Fifo!Next]_(Fifo!vars)
<1> SUFFICES ASSUME Good(deque), [Next]_vars
             PROVE  [Fifo!Next]_(Fifo!vars)
  BY GoodIsInv
<1> USE DEF Contents
<1>1. ASSUME NEW v \in Value, PushBackStack(v) PROVE Fifo!PushBackStack(v)
  <2>1. CASE StackFull(deque)
    <3>1. ~(Len(Contents) < StackSize)
      BY <2>1, StackSizeAssumption DEF StackFull, Good, TwoPart
    <3> QED BY <1>1, <2>1, <3>1 DEF PushBackStack, Fifo!PushBackStack
  <2>2. CASE ~StackFull(deque)
    <3>1. deque' = Pushed(deque, v) /\ result' = <<"push", TRUE>>
      BY <1>1, <2>2 DEF PushBackStack, Pushed
    <3>2. Len(Contents) < StackSize
      BY <2>2, StackSizeAssumption DEF StackFull, Good, TwoPart
    <3> QED BY <3>1, <3>2, PushedAppends DEF Fifo!PushBackStack
  <2> QED BY <2>1, <2>2
<1>2. ASSUME NEW v \in Value, PushBack(v) PROVE Fifo!PushBack(v)
  <2>1. TotalLen(deque) = Len(Contents)
    BY DEF TotalLen, Good, TwoPart
  <2> QED BY <1>2, <2>1, PushedAppends DEF PushBack, Fifo!PushBack
<1>3. ASSUME NEW v \in Value, Pop2(v) PROVE Fifo!Pop2(v)
  <2>1. Contents \in Seq(Value)
    BY DEF Good, TwoPart
  <2>2. CASE deque.stack = <<>>
    <3>1. Contents = <<>>
      BY <2>2, StackEmptyIsEmpty
    <3>2. Head(Append(Contents, v)) = v /\ Tail(Append(Contents, v)) = Contents
      BY <2>1, <3>1, HeadTailAppend
    <3>3. UNCHANGED Contents /\ result' = <<"pop", v>>
      BY <1>3, <2>2 DEF Pop2
    <3> QED BY <3>2, <3>3 DEF Fifo!Pop2
  <2>3. CASE deque.stack # <<>>
    <3>1. /\ Good(Popped(deque))
          /\ Contents # <<>>
          /\ Head(deque.stack) = Head(Contents)
          /\ Popped(deque).stack \o Popped(deque).heap = Tail(Contents)
      BY <2>3, PoppedTakesHead
    <3>2. Contents' = Append(Tail(Contents), v)
      BY <1>3, <2>3, <3>1, PushedAppends DEF Pop2
    <3>3. result' = <<"pop", Head(Contents)>>
      BY <1>3, <2>3, <3>1 DEF Pop2, FrontOf
    <3>4. /\ Head(Append(Contents, v)) = Head(Contents)
          /\ Tail(Append(Contents, v)) = Append(Tail(Contents), v)
      BY <2>1, <3>1, HeadTailAppend
    <3> QED BY <3>2, <3>3, <3>4 DEF Fifo!Pop2
  <2> QED BY <2>2, <2>3
<1>4. ASSUME PopFront PROVE Fifo!PopFront
  <2>1. CASE deque.stack = <<>>
    <3>1. deque' = deque /\ Contents = <<>> /\ result' = <<"pop", None>>
      BY <1>4, <2>1, PoppedOfEmpty DEF PopFront, FrontOf
    <3> QED BY <3>1 DEF Fifo!PopFront
  <2>2. CASE deque.stack # <<>>
    <3>1. /\ Contents # <<>>
          /\ Head(deque.stack) = Head(Contents)
          /\ Popped(deque).stack \o Popped(deque).heap = Tail(Contents)
      BY <2>2, PoppedTakesHead
    <3> QED BY <1>4, <2>2, <3>1 DEF PopFront, FrontOf, Fifo!PopFront
  <2> QED BY <2>1, <2>2
<1>5. ASSUME IsEmpty PROVE Fifo!IsEmpty
  BY <1>5, StackEmptyIsEmpty DEF IsEmpty, Fifo!IsEmpty
<1>6. ASSUME Length PROVE Fifo!Length
  <2>1. TotalLen(deque) = Len(Contents)
    BY DEF TotalLen, Good, TwoPart
  <2> QED BY <1>6, <2>1 DEF Length, Fifo!Length
<1>7. ASSUME UNCHANGED vars PROVE UNCHANGED Fifo!vars
  BY <1>7 DEF vars, Fifo!vars
<1> QED BY <1>1, <1>2, <1>3, <1>4, <1>5, <1>6, <1>7 DEF Next, Fifo!Next

LEMMA InitRefines == Init => Fifo!Init
BY DEF Init, Empty, Contents, Fifo!Init

\* The two-part deque implements one FIFO queue with a bounded push.
THEOREM DequeImplementsFifo == Spec => ImplementsFifo
<1>1. Spec => []DequeInv
  BY InvInit, InvStep, PTL DEF Spec
<1> QED
  BY <1>1, InitRefines, StepRefines, PTL DEF Spec, ImplementsFifo, Fifo!Spec

-----------------------------------------------------------------------------
LEMMA VecGoodIsInv == VecPartsInOrder <=> Good(vec)
BY DEF VecPartsInOrder, Good

LEMMA VecInvInit == VecInit => VecPartsInOrder
BY StackSizeAssumption DEF VecInit, Empty, VecPartsInOrder, TwoPart

\* Taking the last value off a sequence.
LEMMA AllButLastProperties ==
  ASSUME NEW s \in Seq(Value), s # <<>>
  PROVE  /\ AllButLast(s) \in Seq(Value)
         /\ Len(AllButLast(s)) = Len(s) - 1
         /\ \A i \in 1..(Len(s) - 1) : AllButLast(s)[i] = s[i]
<1> DEFINE n == Len(s) - 1
<1>1. n \in Nat /\ n \in Int /\ 1 \in Int /\ n - 1 + 1 = n /\ \A i \in 1..n : s[i] \in Value
  OBVIOUS
<1>2. (1 <= n \/ n = 0) /\ \A i \in 1..n : 1 + i - 1 = i
  BY <1>1
<1> HIDE DEF n
<1>3. /\ SubSeq(s, 1, n) \in Seq(Value)
      /\ Len(SubSeq(s, 1, n)) = IF 1 <= n THEN n - 1 + 1 ELSE 0
      /\ \A i \in 1..n - 1 + 1 : SubSeq(s, 1, n)[i] = s[1 + i - 1]
  BY <1>1, SubSeqProperties
<1>4. Len(SubSeq(s, 1, n)) = n
  BY <1>1, <1>2, <1>3
<1>5. \A i \in 1..n : SubSeq(s, 1, n)[i] = s[i]
  BY <1>1, <1>2, <1>3
<1> QED
  BY <1>3, <1>4, <1>5 DEF AllButLast, n

\* pop takes the last value of what the two parts hold, and keeps them good.
LEMMA PopTakesLast ==
  ASSUME NEW d, Good(d), d.stack \o d.heap # <<>>
  PROVE  LET all == d.stack \o d.heap
             p == WithoutLast(d)
         IN  /\ Good(p)
             /\ LastIn(d) = all[Len(all)]
             /\ p.stack \o p.heap = SubSeq(all, 1, Len(all) - 1)
<1> USE StackSizeAssumption DEF Good, TwoPart
<1> DEFINE all == d.stack \o d.heap
           p == WithoutLast(d)
<1>1. all \in Seq(Value) /\ Len(all) = Len(d.stack) + Len(d.heap)
  OBVIOUS
<1>2. CASE d.heap # <<>>
  <2>1. p = [stack |-> d.stack, heap |-> AllButLast(d.heap)]
    BY <1>2 DEF WithoutLast, LastOnHeap
  <2>2. Good(p)
    BY <1>2, <2>1, AllButLastProperties
  <2>3. LastIn(d) = all[Len(all)]
    BY <1>1, <1>2 DEF LastIn, LastOnHeap, LastOf
  <2>4. d.stack \o AllButLast(d.heap) = SubSeq(all, 1, Len(all) - 1)
    BY <1>1, <1>2 DEF AllButLast
  <2> QED
    BY <2>1, <2>2, <2>3, <2>4
<1>3. CASE d.heap = <<>>
  <2>1. p = [stack |-> AllButLast(d.stack), heap |-> <<>>]
    BY <1>3 DEF WithoutLast, LastOnHeap
  <2>2. d.stack # <<>> /\ all = d.stack
    BY <1>3
  <2>3. Good(p)
    BY <1>3, <2>1, <2>2, AllButLastProperties
  <2>4. LastIn(d) = all[Len(all)]
    BY <1>3, <2>2 DEF LastIn, LastOnHeap, LastOf
  <2>5. AllButLast(d.stack) \o <<>> = SubSeq(all, 1, Len(all) - 1)
    <3>1. AllButLast(d.stack) \o <<>> = AllButLast(d.stack)
      BY <2>2, AllButLastProperties, ConcatEmptySeq
    <3> QED
      BY <2>2, <3>1 DEF AllButLast
  <2> QED
    BY <2>1, <2>3, <2>4, <2>5
<1> QED
  BY <1>2, <1>3

\* Where there is nothing, nothing is popped.
LEMMA PopOfEmpty ==
  ASSUME NEW d, Good(d), d.stack \o d.heap = <<>>
  PROVE  LastIn(d) = None /\ WithoutLast(d) = d
<1>1. d.stack = <<>> /\ d.heap = <<>>
  BY DEF Good, TwoPart
<1>2. AllButLast(<<>>) = <<>>
  BY SubSeqEmpty DEF AllButLast
<1> QED
  BY <1>1, <1>2 DEF LastIn, LastOf, WithoutLast, LastOnHeap, Good, TwoPart

\* An index falls in the part that the vector as a whole has it in.
LEMMA HeldAtIndex ==
  ASSUME Good(vec), NEW i \in Nat
  PROVE  HeldAt(i) = IF i < Len(VecContents) THEN VecContents[i + 1] ELSE None
BY DEF Good, TwoPart, HeldAt, TotalLen, VecContents

\* A write into one of two sequences is a write into both together.
LEMMA WriteFirst ==
  ASSUME NEW s \in Seq(Value), NEW t \in Seq(Value), NEW k \in 1..Len(s), NEW v \in Value
  PROVE  [s EXCEPT ![k] = v] \o t = [s \o t EXCEPT ![k] = v]
<1> DEFINE all == s \o t
           w == [s EXCEPT ![k] = v]
           x == [all EXCEPT ![k] = v]
<1>1. /\ w \in Seq(Value) /\ Len(w) = Len(s)
      /\ \A i \in 1..Len(s) : w[i] = IF i = k THEN v ELSE s[i]
  BY ExceptSeq
<1>2. /\ all \in Seq(Value) /\ Len(all) = Len(s) + Len(t) /\ k \in 1..Len(all)
      /\ \A i \in 1..Len(all) : all[i] = IF i <= Len(s) THEN s[i] ELSE t[i - Len(s)]
  OBVIOUS
<1> HIDE DEF all
<1>3. /\ x \in Seq(Value) /\ Len(x) = Len(all)
      /\ \A i \in 1..Len(all) : x[i] = IF i = k THEN v ELSE all[i]
  BY <1>2, ExceptSeq
<1> HIDE DEF w, x
<1>4. /\ w \o t \in Seq(Value) /\ Len(w \o t) = Len(s) + Len(t)
      /\ \A i \in 1..Len(s) + Len(t) :
           (w \o t)[i] = IF i <= Len(s) THEN w[i] ELSE t[i - Len(s)]
  <2>1. /\ w \o t \in Seq(Value) /\ Len(w \o t) = Len(w) + Len(t)
        /\ \A i \in 1..Len(w) + Len(t) : (w \o t)[i] = IF i <= Len(w) THEN w[i] ELSE t[i - Len(w)]
    BY <1>1, ConcatProperties
  <2> QED
    BY <1>1, <2>1
<1>5. ASSUME NEW i \in 1..Len(w \o t)
      PROVE  (w \o t)[i] = x[i]
  BY <1>1, <1>2, <1>3, <1>4
<1>6. w \o t = x
  BY <1>2, <1>3, <1>4, <1>5, SeqEqual
<1> QED
  BY <1>6 DEF w, x, all

LEMMA WriteSecond ==
  ASSUME NEW s \in Seq(Value), NEW t \in Seq(Value), NEW k \in 1..Len(t), NEW v \in Value
  PROVE  s \o [t EXCEPT ![k] = v] = [s \o t EXCEPT ![Len(s) + k] = v]
<1> DEFINE all == s \o t
           w == [t EXCEPT ![k] = v]
           x == [all EXCEPT ![Len(s) + k] = v]
<1>1. /\ w \in Seq(Value) /\ Len(w) = Len(t)
      /\ \A i \in 1..Len(t) : w[i] = IF i = k THEN v ELSE t[i]
  BY ExceptSeq
<1>2. /\ all \in Seq(Value) /\ Len(all) = Len(s) + Len(t) /\ Len(s) + k \in 1..Len(all)
      /\ \A i \in 1..Len(all) : all[i] = IF i <= Len(s) THEN s[i] ELSE t[i - Len(s)]
  OBVIOUS
<1> HIDE DEF all
<1>3. /\ x \in Seq(Value) /\ Len(x) = Len(all)
      /\ \A i \in 1..Len(all) : x[i] = IF i = Len(s) + k THEN v ELSE all[i]
  BY <1>2, ExceptSeq
<1> HIDE DEF w, x
<1>4. /\ s \o w \in Seq(Value) /\ Len(s \o w) = Len(s) + Len(t)
      /\ \A i \in 1..Len(s) + Len(t) :
           (s \o w)[i] = IF i <= Len(s) THEN s[i] ELSE w[i - Len(s)]
  <2>1. /\ s \o w \in Seq(Value) /\ Len(s \o w) = Len(s) + Len(w)
        /\ \A i \in 1..Len(s) + Len(w) : (s \o w)[i] = IF i <= Len(s) THEN s[i] ELSE w[i - Len(s)]
    BY <1>1, ConcatProperties
  <2> QED
    BY <1>1, <2>1
<1>5. ASSUME NEW i \in 1..Len(s \o w)
      PROVE  (s \o w)[i] = x[i]
  <2>1. CASE i <= Len(s)
    <3>1. i # Len(s) + k /\ i \in 1..Len(all)
      BY <1>2, <1>4, <2>1
    <3> QED
      BY <1>2, <1>3, <1>4, <2>1, <3>1
  <2>2. CASE ~(i <= Len(s))
    <3>1. i - Len(s) \in 1..Len(t) /\ i \in 1..Len(all) /\ (i - Len(s) = k <=> i = Len(s) + k)
      BY <1>2, <1>4, <2>2
    <3>2. (s \o w)[i] = w[i - Len(s)] /\ x[i] = IF i = Len(s) + k THEN v ELSE t[i - Len(s)]
      BY <1>2, <1>3, <1>4, <2>2, <3>1
    <3> QED
      BY <1>1, <3>1, <3>2
  <2> QED
    BY <2>1, <2>2
<1>6. s \o w = x
  BY <1>2, <1>3, <1>4, <1>5, SeqEqual
<1> QED
  BY <1>6 DEF w, x, all

\* A write by index.
LEMMA SetAtIndex ==
  ASSUME Good(vec), NEW i \in Nat, NEW v \in Value, VecSet(i, v)
  PROVE  /\ Good(vec')
         /\ VecContents' = IF i < Len(VecContents) THEN [VecContents EXCEPT ![i + 1] = v] ELSE VecContents
<1> DEFINE m == Len(vec.stack)
           n == Len(vec.heap)
           total == m + n
<1>1. vec.stack \in Seq(Value) /\ vec.heap \in Seq(Value) /\ vec = [stack |-> vec.stack, heap |-> vec.heap]
  BY DEF Good, TwoPart
<1>2. m \in Nat /\ n \in Nat /\ Len(VecContents) = total /\ TotalLen(vec) = total
  BY <1>1 DEF TotalLen, VecContents
<1> HIDE DEF m, n
<1>3. CASE i < m
  <2> DEFINE k == i + 1
             s == [vec.stack EXCEPT ![k] = v]
  <2>1. k \in 1..m /\ i < total
    BY <1>2, <1>3
  <2>2. vec' = [vec EXCEPT !.stack[i + 1] = v]
    BY <1>3 DEF VecSet, m
  <2>3. vec' = [stack |-> s, heap |-> vec.heap]
    BY <1>1, <2>2
  <2> HIDE DEF k
  <2>4. s \in Seq(Value) /\ Len(s) = m
    BY <1>1, <2>1, ExceptSeq DEF m
  <2>5. s \o vec.heap = [vec.stack \o vec.heap EXCEPT ![k] = v]
    BY <1>1, <2>1, WriteFirst DEF m
  <2> HIDE DEF s
  <2>6. Good(vec')
    BY <1>1, <2>3, <2>4 DEF Good, TwoPart, m
  <2>7. VecContents' = [VecContents EXCEPT ![k] = v]
    BY <2>3, <2>5 DEF VecContents
  <2> QED
    BY <1>2, <2>1, <2>6, <2>7 DEF k
<1>4. CASE i >= m /\ i < total
  <2> DEFINE k == i - m + 1
             s == [vec.heap EXCEPT ![k] = v]
  <2>1. k \in 1..n /\ m + k = i + 1 /\ ~(i < m)
    BY <1>2, <1>4
  <2>2. vec' = [vec EXCEPT !.heap[i - Len(vec.stack) + 1] = v]
    BY <1>2, <1>4, <2>1 DEF VecSet, m
  <2>3. vec' = [stack |-> vec.stack, heap |-> s]
    BY <1>1, <2>2 DEF m
  <2> HIDE DEF k
  <2>4. s \in Seq(Value) /\ Len(s) = n
    BY <1>1, <2>1, ExceptSeq DEF n
  <2>5. vec.stack \o s = [vec.stack \o vec.heap EXCEPT ![m + k] = v]
    <3>1. k \in 1..Len(vec.heap)
      BY <2>1 DEF n
    <3>2. vec.stack \o s = [vec.stack \o vec.heap EXCEPT ![Len(vec.stack) + k] = v]
      BY <1>1, <3>1, WriteSecond
    <3> QED BY <3>2 DEF m
  <2> HIDE DEF s
  <2>6. Good(vec')
    BY <1>1, <2>1, <2>3, <2>4 DEF Good, TwoPart, n
  <2>7. VecContents' = [VecContents EXCEPT ![i + 1] = v]
    BY <2>1, <2>3, <2>5 DEF VecContents
  <2> QED
    BY <1>2, <1>4, <2>6, <2>7
<1>5. CASE i >= total
  <2>1. ~(i < total) /\ ~(i < m)
    BY <1>2, <1>5
  <2>2. vec' = vec
    BY <1>2, <2>1 DEF VecSet, m
  <2>3. VecContents' = VecContents
    BY <2>2 DEF VecContents
  <2> QED
    BY <1>2, <2>1, <2>2, <2>3
<1>6. i < m \/ (i >= m /\ i < total) \/ i >= total
  BY <1>2
<1> QED
  BY <1>3, <1>4, <1>5, <1>6

-----------------------------------------------------------------------------
\* Each call keeps the parts in order and is the same call of one vector.
LEMMA VecStep ==
  VecPartsInOrder /\ [VecNext]_vecVars
    => VecPartsInOrder' /\ [Vector!Next]_(Vector!vars)
<1> SUFFICES ASSUME Good(vec), [VecNext]_vecVars
             PROVE  Good(vec') /\ [Vector!Next]_(Vector!vars)
  BY VecGoodIsInv DEF VecPartsInOrder, Good
<1> USE DEF VecContents
<1>0. Len(VecContents) = TotalLen(vec) /\ VecContents \in Seq(Value)
  BY DEF TotalLen, Good, TwoPart
<1>1. ASSUME NEW v \in Value, VecPushStack(v)
      PROVE  Good(vec') /\ Vector!Push(v, StackSize)
  <2>1. CASE StackFull(vec)
    <3>1. ~(Len(VecContents) < StackSize)
      BY <2>1, StackSizeAssumption DEF StackFull, Good, TwoPart
    <3> QED
      BY <1>1, <2>1, <3>1 DEF VecPushStack, Vector!Push
  <2>2. CASE ~StackFull(vec)
    <3>1. vec' = Pushed(vec, v) /\ found' = <<"push", TRUE>>
      BY <1>1, <2>2 DEF VecPushStack, Pushed
    <3>2. Len(VecContents) < StackSize
      BY <2>2, StackSizeAssumption DEF StackFull, Good, TwoPart
    <3> QED
      BY <3>1, <3>2, PushedAppends DEF Vector!Push
  <2> QED
    BY <2>1, <2>2
<1>2. ASSUME NEW v \in Value, VecPush(v)
      PROVE  Good(vec') /\ Len(VecContents) < MaxLen /\ Vector!Push(v, MaxLen)
  BY <1>0, <1>2, PushedAppends DEF VecPush, Vector!Push
<1>3. ASSUME VecPop
      PROVE  Good(vec') /\ Vector!Pop
  <2>1. CASE VecContents = <<>>
    BY <1>3, <2>1, PopOfEmpty DEF VecPop, Vector!Pop
  <2>2. CASE VecContents # <<>>
    BY <1>3, <2>2, PopTakesLast DEF VecPop, Vector!Pop
  <2> QED
    BY <2>1, <2>2
<1>4. ASSUME NEW i \in 0..MaxLen, VecGet(i)
      PROVE  Good(vec') /\ Vector!Get(i)
  <2>1. i \in Nat
    BY MaxLenAssumption
  <2> QED
    BY <1>4, <2>1, HeldAtIndex DEF VecGet, Vector!Get, Vector!Held
<1>5. ASSUME NEW i \in 0..MaxLen, NEW v \in Value, VecSet(i, v)
      PROVE  Good(vec') /\ Vector!Set(i, v)
  <2>1. i \in Nat
    BY MaxLenAssumption
  <2>2. found' = <<"get", HeldAt(i)>>
    BY <1>5 DEF VecSet
  <2> QED
    BY <1>5, <2>1, <2>2, HeldAtIndex, SetAtIndex DEF Vector!Set, Vector!Held
<1>6. ASSUME VecLast
      PROVE  Good(vec') /\ Vector!Last
  <2>1. CASE VecContents = <<>>
    BY <1>6, <2>1, PopOfEmpty DEF VecLast, Vector!Last
  <2>2. CASE VecContents # <<>>
    BY <1>6, <2>2, PopTakesLast DEF VecLast, Vector!Last
  <2> QED
    BY <2>1, <2>2
<1>7. ASSUME VecIsEmpty
      PROVE  Good(vec') /\ Vector!IsEmpty
  BY <1>7, StackEmptyAllEmpty DEF VecIsEmpty, Vector!IsEmpty
<1>8. ASSUME VecLength
      PROVE  Good(vec') /\ Vector!Length
  BY <1>0, <1>8 DEF VecLength, Vector!Length
<1>9. ASSUME UNCHANGED vecVars
      PROVE  Good(vec') /\ UNCHANGED Vector!vars
  BY <1>9 DEF vecVars, Vector!vars
<1> QED
  BY <1>1, <1>2, <1>3, <1>4, <1>5, <1>6, <1>7, <1>8, <1>9 DEF VecNext, Vector!Next

LEMMA VecInitRefines == VecInit => Vector!Init
BY DEF VecInit, Empty, VecContents, Vector!Init

\* The parts of the vector are well formed in every state, and values are on
\* the heap only behind a full fixed part.
THEOREM VecInvariant == VecSpec => []VecPartsInOrder
BY VecInvInit, VecStep, PTL DEF VecSpec

\* The two-part vector implements one vector with a bounded push.
THEOREM VecImplementsVector == VecSpec => ImplementsVector
<1>1. VecSpec => []VecPartsInOrder
  BY VecInvariant
<1> QED
  BY <1>1, VecInitRefines, VecStep, PTL DEF VecSpec, ImplementsVector, Vector!Spec

-----------------------------------------------------------------------------
Buffers == [bytes : Seq(Byte), start : Nat, end : Nat]
Ranges == [start : Nat, end : Nat]

\* A buffer whose range is good, as a predicate on a value.
Sound(b) == b \in Buffers /\ Within(b, Len(b.bytes))

LEMMA ZerosBytes ==
  ASSUME NEW n \in Nat
  PROVE  Zeros(n) \in Seq(Byte) /\ Len(Zeros(n)) = n
BY ZeroAssumption DEF Zeros

LEMMA DataBytes ==
  ASSUME NEW n \in Nat, NEW d \in Data(n)
  PROVE  d \in Seq(Byte) /\ Len(d) = n
BY DEF Data

\* Writing over some bytes keeps the length, and bytes are bytes.
LEMMA WrittenBytes ==
  ASSUME NEW bytes \in Seq(Byte), NEW i \in Nat, NEW d \in Seq(Byte)
  PROVE  Written(bytes, i, d) \in Seq(Byte) /\ Len(Written(bytes, i, d)) = Len(bytes)
<1>1. \A j \in 1..Len(bytes) :
        (IF j \in (i + 1)..(i + Len(d)) THEN d[j - i] ELSE bytes[j]) \in Byte
  <2>1. ASSUME NEW j \in 1..Len(bytes), j \in (i + 1)..(i + Len(d))
        PROVE  d[j - i] \in Byte
    BY <2>1
  <2> QED
    BY <2>1
<1>2. Len(bytes) \in Nat
  OBVIOUS
<1>3. Written(bytes, i, d) \in Data(Len(bytes))
  BY <1>1 DEF Written, Data
<1> QED
  BY <1>2, <1>3, DataBytes

\* ensure_front makes room for more bytes, if there was none or enough.
LEMMA FrontRoom ==
  ASSUME NEW b, Sound(b), NEW more \in Nat, b.start = 0 \/ b.start >= more
  PROVE  Sound(EnsureFront(b, more)) /\ EnsureFront(b, more).start >= more
<1>1. CASE b.start >= more
  BY <1>1 DEF Sound, Buffers, EnsureFront
<1>2. CASE b.start < more
  <2>1. b.start = 0 /\ more - b.start = more
    BY <1>2 DEF Sound, Buffers
  <2>2. EnsureFront(b, more) =
          [bytes |-> Zeros(more) \o b.bytes, start |-> b.start + more, end |-> b.end + more]
    BY <1>2, <2>1 DEF Sound, Buffers, EnsureFront, AllocateFront
  <2>3. /\ Zeros(more) \o b.bytes \in Seq(Byte)
        /\ Len(Zeros(more) \o b.bytes) = more + Len(b.bytes)
    <3>1. Zeros(more) \in Seq(Byte) /\ Len(Zeros(more)) = more
      BY ZerosBytes
    <3>2. b.bytes \in Seq(Byte)
      BY DEF Sound, Buffers
    <3>3. /\ Zeros(more) \o b.bytes \in Seq(Byte)
          /\ Len(Zeros(more) \o b.bytes) = Len(Zeros(more)) + Len(b.bytes)
      BY <3>1, <3>2, ConcatProperties
    <3> QED
      BY <3>1, <3>3
  <2> QED
    BY <2>1, <2>2, <2>3 DEF Sound, Buffers, Within, Forward
<1> QED
  BY <1>1, <1>2 DEF Sound, Buffers

\* ensure_back makes room for more bytes, and leaves the range.
LEMMA BackRoom ==
  ASSUME NEW b, Sound(b), NEW more \in Nat
  PROVE  /\ Sound(EnsureBack(b, more))
         /\ EnsureBack(b, more).start = b.start /\ EnsureBack(b, more).end = b.end
         /\ b.end + more <= Len(EnsureBack(b, more).bytes)
<1> DEFINE room == Len(b.bytes) - b.end
<1>1. CASE ~(room < more)
  BY <1>1 DEF Sound, Buffers, Within, Forward, EnsureBack
<1>2. CASE room < more
  <2>1. room \in Nat /\ more - room \in Nat
    BY <1>2 DEF Sound, Buffers, Within, Forward
  <2>2. EnsureBack(b, more) =
          [bytes |-> b.bytes \o Zeros(more - room), start |-> b.start, end |-> b.end]
    BY <1>2 DEF Sound, Buffers, EnsureBack, AllocateBack
  <2>3. /\ b.bytes \o Zeros(more - room) \in Seq(Byte)
        /\ Len(b.bytes \o Zeros(more - room)) = Len(b.bytes) + (more - room)
    BY <2>1, ZerosBytes DEF Sound, Buffers
  <2> QED
    BY <2>1, <2>2, <2>3 DEF Sound, Buffers, Within, Forward
<1> QED
  BY <1>1, <1>2

-----------------------------------------------------------------------------
LEMMA ThreeParts ==
  ASSUME NEW S, NEW a \in Seq(S), NEW b \in Seq(S), NEW c \in Seq(S)
  PROVE  a \o b \o c \in Seq(S) /\ Len(a \o b \o c) = Len(a) + Len(b) + Len(c)
<1>1. a \o b \in Seq(S) /\ Len(a \o b) = Len(a) + Len(b)
  OBVIOUS
<1> QED
  BY <1>1

LEMMA RangeInit == BufferInit => RangeInBytes
<1>0. ASSUME BufferInit
      PROVE  astray \in BOOLEAN /\ (~astray => Forward(buffer)) /\ view = NoView /\ piece = NoView
  BY <1>0 DEF BufferInit, Forward
<1> SUFFICES ASSUME BufferInit, Forward(buffer) PROVE Sound(buffer)
  BY <1>0 DEF NoView, RangeInBytes, InBytes, Sound, Buffers, Within, Forward
<1> USE DEF Forward
<1>1. ASSUME NEW left \in 0..MaxSize, NEW main \in 0..MaxSize, buffer = New(left, main)
      PROVE  Sound(buffer)
  BY <1>1, MaxSizeAssumption, ZerosBytes DEF New, Sound, Buffers, Within, Forward
<1>2. ASSUME NEW left \in 0..MaxSize, NEW right \in 0..MaxSize, NEW n \in 0..MaxSize,
             NEW d \in Data(n), buffer = Build(d, left, right)
      PROVE  Sound(buffer)
  <2>1. d \in Seq(Byte) /\ Len(d) = n /\ n \in Nat /\ left \in Nat /\ right \in Nat
    BY MaxSizeAssumption, DataBytes
  <2>2. /\ Zeros(left) \in Seq(Byte) /\ Len(Zeros(left)) = left
        /\ Zeros(right) \in Seq(Byte) /\ Len(Zeros(right)) = right
    BY <2>1, ZerosBytes
  <2>3. /\ Zeros(left) \o d \o Zeros(right) \in Seq(Byte)
        /\ Len(Zeros(left) \o d \o Zeros(right)) = left + n + right
    BY <2>1, <2>2, ThreeParts
  <2> QED
    BY <1>2, <2>1, <2>3 DEF Build, Sound, Buffers, Within, Forward
<1>3. ASSUME NEW n \in 0..MaxSize, NEW start \in 0..MaxSize, NEW d \in Data(n), NEW end \in 0..n,
             buffer = FromVecRaw(d, start, end)
      PROVE  Sound(buffer)
  <2>1. d \in Seq(Byte) /\ Len(d) = n
    BY MaxSizeAssumption, DataBytes
  <2> QED
    BY <1>3, <2>1, MaxSizeAssumption DEF FromVecRaw, Sound, Buffers, Within, Forward
<1> QED
  BY <1>1, <1>2, <1>3 DEF BufferInit

\* What nothing going astray says of the two kinds of call that may let it.
LEMMA FrontEnough ==
  ASSUME NEW n, FrontMoves(n), ~astray'
  PROVE  ~(0 < buffer.start /\ buffer.start < n)
BY Zenon DEF FrontMoves

LEMMA SubViewForward ==
  ASSUME NEW m, NEW n, SubView(m, n), ~astray', answer'[3] = "granted"
  PROVE  ~(n < m)
BY Zenon DEF SubView

\* The calls that may make room.
LEMMA RoomStep ==
  ASSUME InBytes, ~astray', NEW n \in 0..MaxSize, NEW d \in Data(n),
         BufPushFront(d) \/ BufPushBack(d) \/ FrontMut(d) \/ BackMut(d) \/ RemainMut(d)
  PROVE  InBytes'
<1> DEFINE f == EnsureFront(buffer, n)
           k == EnsureBack(buffer, n)
<1>1. Sound(buffer) /\ n \in Nat /\ d \in Seq(Byte) /\ Len(d) = n
  BY MaxSizeAssumption, DataBytes DEF InBytes, Sound, Buffers
<1> USE DEF Within, Forward
<1>2. SUFFICES view' = NoView /\ piece' = NoView /\ Sound(buffer')
  BY DEF NoView, InBytes, Sound, Buffers
<1>3. ASSUME buffer.start = 0 \/ buffer.start >= n
      PROVE  Sound(f) /\ f.start >= n
  BY <1>1, <1>3, FrontRoom
<1>4. Sound(k) /\ k.start = buffer.start /\ k.end = buffer.end /\ buffer.end + n <= Len(k.bytes)
  BY <1>1, BackRoom
<1> HIDE DEF f, k
<1>5. CASE BufPushFront(d)
  <2>0. buffer.start = 0 \/ buffer.start >= n
    BY <1>1, <1>5, FrontEnough DEF BufPushFront, Sound, Buffers
  <2>1. /\ Sound(f) /\ f.start >= n /\ view' = NoView /\ piece' = NoView
        /\ buffer' = [f EXCEPT !.start = f.start - n, !.bytes = Written(f.bytes, f.start - n, d)]
    BY <1>1, <1>3, <1>5, <2>0 DEF BufPushFront, Leaves, Lends, Outcome, Sound, Buffers, f
  <2>2. f.start - n \in Nat
    BY <1>1, <2>1 DEF Sound, Buffers
  <2>3. /\ Written(f.bytes, f.start - n, d) \in Seq(Byte)
        /\ Len(Written(f.bytes, f.start - n, d)) = Len(f.bytes)
    BY <1>1, <2>1, <2>2, WrittenBytes DEF Sound, Buffers
  <2>4. buffer' = [bytes |-> Written(f.bytes, f.start - n, d), start |-> f.start - n, end |-> f.end]
    BY <2>1 DEF Sound, Buffers
  <2>5. f.start - n <= f.end /\ f.end <= Len(f.bytes) /\ f.end \in Nat
    BY <1>1, <2>1 DEF Sound, Buffers, Within, Forward
  <2> QED
    BY <2>1, <2>2, <2>3, <2>4, <2>5 DEF Sound, Buffers, Within, Forward
<1>6. CASE BufPushBack(d)
  <2>1. /\ view' = NoView /\ piece' = NoView
        /\ buffer' = [k EXCEPT !.end = k.end + n, !.bytes = Written(k.bytes, k.end, d)]
    BY <1>1, <1>6 DEF BufPushBack, Leaves, Lends, Outcome, Sound, Buffers, k
  <2>2. /\ Written(k.bytes, k.end, d) \in Seq(Byte)
        /\ Len(Written(k.bytes, k.end, d)) = Len(k.bytes)
    BY <1>1, <1>4, WrittenBytes DEF Sound, Buffers
  <2>3. buffer' = [bytes |-> Written(k.bytes, k.end, d), start |-> k.start, end |-> k.end + n]
    BY <1>4, <2>1 DEF Sound, Buffers
  <2>4. /\ k.start \in Nat /\ k.end + n \in Nat
        /\ k.start <= k.end + n /\ k.end + n <= Len(k.bytes)
    BY <1>1, <1>4 DEF Sound, Buffers, Within, Forward
  <2> QED
    BY <2>1, <2>2, <2>3, <2>4 DEF Sound, Buffers, Within, Forward
<1>7. CASE FrontMut(d)
  <2>0. buffer.start = 0 \/ buffer.start >= n
    BY <1>1, <1>7, FrontEnough DEF FrontMut, Sound, Buffers
  <2>1. /\ Sound(f) /\ f.start >= n /\ view' = NoView /\ piece' = NoView
        /\ buffer' = [f EXCEPT !.bytes = Written(f.bytes, f.start - n, d)]
    BY <1>1, <1>3, <1>7, <2>0 DEF FrontMut, Leaves, Lends, Outcome, Sound, Buffers, f
  <2>2. f.start - n \in Nat
    BY <1>1, <2>1 DEF Sound, Buffers
  <2>3. /\ Written(f.bytes, f.start - n, d) \in Seq(Byte)
        /\ Len(Written(f.bytes, f.start - n, d)) = Len(f.bytes)
    BY <1>1, <2>1, <2>2, WrittenBytes DEF Sound, Buffers
  <2> QED
    BY <2>1, <2>3 DEF Sound, Buffers, Within, Forward
<1>8. CASE BackMut(d)
  <2>1. view' = NoView /\ piece' = NoView /\ buffer' = [k EXCEPT !.bytes = Written(k.bytes, k.end, d)]
    BY <1>1, <1>8 DEF BackMut, Leaves, Lends, Outcome, Sound, Buffers, k
  <2>2. /\ Written(k.bytes, k.end, d) \in Seq(Byte)
        /\ Len(Written(k.bytes, k.end, d)) = Len(k.bytes)
    BY <1>1, <1>4, WrittenBytes DEF Sound, Buffers
  <2> QED
    BY <1>4, <2>1, <2>2 DEF Sound, Buffers, Within, Forward
<1>9. CASE RemainMut(d)
  <2>1. /\ Written(buffer.bytes, buffer.start, d) \in Seq(Byte)
        /\ Len(Written(buffer.bytes, buffer.start, d)) = Len(buffer.bytes)
    BY <1>1, WrittenBytes DEF Sound, Buffers
  <2> QED
    BY <1>1, <1>9, <2>1 DEF RemainMut, Leaves, Lends, Outcome, Sound, Buffers
<1> QED
  BY <1>5, <1>6, <1>7, <1>8, <1>9

\* The calls that move the range, or take a view.
LEMMA RangeStep ==
  ASSUME InBytes, NEW n \in Nat,
         \/ Truncate(n) \/ BufPopBack(n) \/ BufPopFront(n)
         \/ MoveFrontRight(n) \/ MoveFrontLeft(n) \/ MoveBackRight(n) \/ MoveBackLeft(n)
  PROVE  InBytes'
<1> USE DEF InBytes, Within, Forward, Width, NoView, Leaves, Lends, Outcome
<1>1. CASE Truncate(n)
  BY <1>1 DEF Truncate
<1>2. CASE BufPopBack(n)
  BY <1>2 DEF BufPopBack
<1>3. CASE BufPopFront(n)
  BY <1>3 DEF BufPopFront
<1>4. CASE MoveFrontRight(n)
  BY <1>4 DEF MoveFrontRight
<1>5. CASE MoveFrontLeft(n)
  <2>1. CASE buffer.start >= n
    <3>1. /\ buffer' = [bytes |-> buffer.bytes, start |-> buffer.start - n, end |-> buffer.end]
          /\ view' = NoView /\ piece' = NoView
      BY <1>5, <2>1 DEF MoveFrontLeft
    <3>2. buffer.start - n \in Nat /\ buffer.start - n <= buffer.end
      BY <2>1
    <3> QED
      BY <3>1, <3>2
  <2>2. CASE ~(buffer.start >= n)
    BY <1>5, <2>2 DEF MoveFrontLeft
  <2> QED
    BY <2>1, <2>2
<1>6. CASE MoveBackRight(n)
  BY <1>6 DEF MoveBackRight
<1>7. CASE MoveBackLeft(n)
  BY <1>7 DEF MoveBackLeft
<1> QED
  BY <1>1, <1>2, <1>3, <1>4, <1>5, <1>6, <1>7

\* The calls on a view, and those that make one.
LEMMA ViewStep ==
  ASSUME InBytes, ~astray',
         \/ \E n \in Nat : ViewPopFront(n) \/ ViewPopBack(n) \/ \E m \in Nat : SubView(m, n)
         \/ BufferAsView \/ KeepPiece
  PROVE  InBytes'
<1> USE DEF InBytes, Within, Forward, Width, OnView, Outcome, NoView
<1>1. ASSUME NEW n \in Nat, ViewPopFront(n)
      PROVE  InBytes'
  BY <1>1 DEF ViewPopFront
<1>2. ASSUME NEW n \in Nat, ViewPopBack(n)
      PROVE  InBytes'
  BY <1>2 DEF ViewPopBack
<1>3. ASSUME NEW n \in Nat, NEW m \in Nat, SubView(m, n)
      PROVE  InBytes'
  <2>1. buffer' = buffer /\ view' = view
    BY <1>3 DEF SubView
  <2>2. CASE Width(view) >= n
    <3>1. answer'[3] = "granted"
      BY <1>3, <2>2 DEF SubView, Answers
    <3>2. m <= n
      BY <1>3, <3>1, SubViewForward
    <3>3. piece' = [start |-> view.start + m, end |-> view.start + n]
      BY <1>3, <2>2 DEF SubView
    <3> QED
      BY <2>1, <2>2, <3>2, <3>3
  <2>3. CASE ~(Width(view) >= n)
    BY <1>3, <2>1, <2>3 DEF SubView
  <2> QED
    BY <2>2, <2>3
<1>4. CASE BufferAsView
  BY <1>4 DEF BufferAsView, Lends
<1>5. CASE KeepPiece
  BY <1>5 DEF KeepPiece
<1> QED
  BY <1>1, <1>2, <1>3, <1>4, <1>5

\* What has gone astray stays so.
LEMMA AstrayStays ==
  ASSUME astray \in BOOLEAN, [BufferNext]_bufferVars
  PROVE  astray' \in BOOLEAN /\ (astray => astray')
BY DEF BufferNext, BufPushFront, FrontMut, BufPushBack, BackMut, RemainMut, FrontMoves, Truncate,
       BufPopBack, BufPopFront, MoveFrontRight, MoveFrontLeft, MoveBackRight, MoveBackLeft,
       ViewPopFront, ViewPopBack, SubView, BufferAsView, KeepPiece, Panicked, bufferVars

\* A step keeps the ranges within the bytes.
LEMMA RangeInBytesStep ==
  ASSUME RangeInBytes, [BufferNext]_bufferVars
  PROVE  RangeInBytes'
<1>1. SUFFICES ASSUME ~astray' PROVE InBytes'
  BY AstrayStays DEF RangeInBytes
<1>2. InBytes
  BY <1>1, AstrayStays DEF RangeInBytes
<1>3. ASSUME NEW n \in 0..MaxSize, NEW d \in Data(n),
             BufPushFront(d) \/ BufPushBack(d) \/ FrontMut(d) \/ BackMut(d) \/ RemainMut(d)
      PROVE  InBytes'
  BY <1>1, <1>2, <1>3, RoomStep
<1>4. \A n \in 0..MaxSize : n \in Nat
  BY MaxSizeAssumption
<1>5. ASSUME NEW n \in 0..MaxSize,
             \/ Truncate(n) \/ BufPopBack(n) \/ BufPopFront(n)
             \/ MoveFrontRight(n) \/ MoveFrontLeft(n) \/ MoveBackRight(n) \/ MoveBackLeft(n)
      PROVE  InBytes'
  BY <1>2, <1>4, <1>5, RangeStep
<1>6. ASSUME NEW n \in 0..MaxSize,
             ViewPopFront(n) \/ ViewPopBack(n) \/ \E m \in 0..MaxSize : SubView(m, n)
      PROVE  InBytes'
  BY <1>1, <1>2, <1>4, <1>6, ViewStep
<1>7. CASE BufferAsView \/ KeepPiece
  BY <1>1, <1>2, <1>7, ViewStep
<1>8. CASE Panicked \/ UNCHANGED bufferVars
  BY <1>2, <1>8 DEF Panicked, bufferVars, InBytes
<1> QED
  BY <1>3, <1>5, <1>6, <1>7, <1>8 DEF BufferNext

\* Every range that a buffer, a view or a piece of it reads by lies within the
\* vector, until a caller hands one in backwards or meets the fault of ensure_front.
THEOREM RangesStayInBytes == BufferSpec => []RangeInBytes
<1>1. RangeInBytes /\ [BufferNext]_bufferVars => RangeInBytes'
  BY RangeInBytesStep
<1> QED
  BY <1>1, RangeInit, PTL DEF BufferSpec

-----------------------------------------------------------------------------
\* The bytes from start to end, counted from 0, as the ranges count them.
Cut(bytes, start, end) == SubSeq(bytes, start + 1, end)

LEMMA CutBytes ==
  ASSUME NEW bytes \in Seq(Byte), NEW s \in Nat, NEW e \in Nat, s <= e, e <= Len(bytes)
  PROVE  /\ Cut(bytes, s, e) \in Seq(Byte) /\ Len(Cut(bytes, s, e)) = e - s
         /\ \A i \in 1..(e - s) : Cut(bytes, s, e)[i] = bytes[s + i]
<1>1. \A i \in (s + 1)..e : bytes[i] \in Byte
  OBVIOUS
<1>2. /\ Cut(bytes, s, e) \in Seq(Byte)
      /\ Len(Cut(bytes, s, e)) = IF s + 1 <= e THEN e - (s + 1) + 1 ELSE 0
      /\ \A i \in 1..(e - (s + 1) + 1) : Cut(bytes, s, e)[i] = bytes[s + 1 + i - 1]
  <2>1. s + 1 \in Int /\ e \in Int
    OBVIOUS
  <2> QED BY <1>1, <2>1, SubSeqProperties DEF Cut
<1>3. e - (s + 1) + 1 = e - s /\ (~(s + 1 <= e) => e - s = 0)
  OBVIOUS
<1>4. \A i \in 1..(e - s) : s + 1 + i - 1 = s + i
  OBVIOUS
<1> QED BY <1>2, <1>3, <1>4

\* A cut is known by its length and its bytes.
LEMMA CutIs ==
  ASSUME NEW bytes \in Seq(Byte), NEW s \in Nat, NEW e \in Nat, s <= e, e <= Len(bytes),
         NEW t \in Seq(Byte), Len(t) = e - s, \A i \in 1..(e - s) : t[i] = bytes[s + i]
  PROVE  Cut(bytes, s, e) = t
<1> DEFINE c == Cut(bytes, s, e)
<1>1. c \in Seq(Byte) /\ Len(c) = e - s /\ \A i \in 1..(e - s) : c[i] = bytes[s + i]
  BY CutBytes
<1> HIDE DEF c
<1>2. \A i \in 1..Len(c) : c[i] = t[i]
  BY <1>1
<1>3. c = t
  BY <1>1, <1>2, SeqEqual
<1> QED BY <1>3 DEF c

LEMMA CutEmpty ==
  ASSUME NEW bytes
  PROVE  Cut(bytes, 0, 0) = <<>>
BY SubSeqEmpty DEF Cut

LEMMA CutSplits ==
  ASSUME NEW bytes \in Seq(Byte), NEW s \in Nat, NEW m \in Nat, NEW e \in Nat,
         s <= m, m <= e, e <= Len(bytes)
  PROVE  Cut(bytes, s, e) = Cut(bytes, s, m) \o Cut(bytes, m, e)
<1> DEFINE a == Cut(bytes, s, m)
           b == Cut(bytes, m, e)
<1>1. a \in Seq(Byte) /\ Len(a) = m - s /\ \A i \in 1..(m - s) : a[i] = bytes[s + i]
  <2>1. m <= Len(bytes)
    OBVIOUS
  <2> QED BY <2>1, CutBytes
<1>2. b \in Seq(Byte) /\ Len(b) = e - m /\ \A i \in 1..(e - m) : b[i] = bytes[m + i]
  BY CutBytes
<1> HIDE DEF a, b
<1>3. /\ a \o b \in Seq(Byte) /\ Len(a \o b) = Len(a) + Len(b)
      /\ \A i \in 1..(Len(a) + Len(b)) : (a \o b)[i] = IF i <= Len(a) THEN a[i] ELSE b[i - Len(a)]
  BY <1>1, <1>2, ConcatProperties
<1>4. Len(a \o b) = e - s
  BY <1>1, <1>2, <1>3
<1>5. ASSUME NEW i \in 1..(e - s)
      PROVE  (a \o b)[i] = bytes[s + i]
  <2>1. CASE i <= m - s
    BY <1>1, <1>2, <1>3, <2>1
  <2>2. CASE ~(i <= m - s)
    <3>1. i - (m - s) \in 1..(e - m) /\ m + (i - (m - s)) = s + i
      BY <2>2
    <3>2. (a \o b)[i] = b[i - (m - s)]
      BY <1>1, <1>2, <1>3, <2>2
    <3> QED BY <1>2, <3>1, <3>2
  <2> QED BY <2>1, <2>2
<1>6. s <= e
  OBVIOUS
<1>7. Cut(bytes, s, e) = a \o b
  BY <1>3, <1>4, <1>5, <1>6, CutIs
<1> QED BY <1>7 DEF a, b

\* What is cut from a cut.
LEMMA CutOfCut ==
  ASSUME NEW bytes \in Seq(Byte), NEW s \in Nat, NEW e \in Nat, s <= e, e <= Len(bytes),
         NEW m \in Nat, NEW n \in Nat, m <= n, n <= e - s
  PROVE  Cut(Cut(bytes, s, e), m, n) = Cut(bytes, s + m, s + n)
<1> DEFINE c == Cut(bytes, s, e)
           t == Cut(c, m, n)
<1>1. c \in Seq(Byte) /\ Len(c) = e - s /\ \A i \in 1..(e - s) : c[i] = bytes[s + i]
  BY CutBytes
<1> HIDE DEF c
<1>2. t \in Seq(Byte) /\ Len(t) = n - m /\ \A i \in 1..(n - m) : t[i] = c[m + i]
  BY <1>1, CutBytes
<1> HIDE DEF t
<1>4. /\ s + m \in Nat /\ s + n \in Nat /\ s + m <= s + n /\ s + n <= Len(bytes)
      /\ (s + n) - (s + m) = n - m
  OBVIOUS
<1>5. ASSUME NEW i \in 1..(n - m)
      PROVE  t[i] = bytes[(s + m) + i]
  <2>1. m + i \in 1..(e - s) /\ s + (m + i) = (s + m) + i
    OBVIOUS
  <2> QED BY <1>1, <1>2, <2>1
<1>6. Cut(bytes, s + m, s + n) = t
  <2>1. Len(t) = (s + n) - (s + m) /\ \A i \in 1..((s + n) - (s + m)) : t[i] = bytes[(s + m) + i]
    BY <1>2, <1>4, <1>5
  <2> QED BY <1>2, <1>4, <2>1, CutIs
<1> QED BY <1>6 DEF c, t

\* Writing is seen where it was done, and nowhere else.
LEMMA CutWritten ==
  ASSUME NEW bytes \in Seq(Byte), NEW at \in Nat, NEW d \in Seq(Byte),
         NEW s \in Nat, NEW e \in Nat, s <= e, e <= Len(bytes)
  PROVE  /\ s = at /\ e = at + Len(d) => Cut(Written(bytes, at, d), s, e) = d
         /\ e <= at \/ at + Len(d) <= s => Cut(Written(bytes, at, d), s, e) = Cut(bytes, s, e)
<1> DEFINE w == Written(bytes, at, d)
<1>1. w \in Seq(Byte) /\ Len(w) = Len(bytes)
  BY WrittenBytes
<1>2. \A j \in 1..Len(bytes) : w[j] = IF j \in (at + 1)..(at + Len(d)) THEN d[j - at] ELSE bytes[j]
  BY DEF Written
<1> HIDE DEF w
<1>3. ASSUME s = at, e = at + Len(d)
      PROVE  Cut(w, s, e) = d
  <2>1. e - s = Len(d)
    BY <1>3
  <2>2. ASSUME NEW i \in 1..(e - s)
        PROVE  d[i] = w[s + i]
    <3>1. /\ s + i \in 1..Len(bytes) /\ s + i \in (at + 1)..(at + Len(d)) /\ (s + i) - at = i
      BY <1>3
    <3> QED BY <1>2, <3>1
  <2> QED BY <1>1, <2>1, <2>2, CutIs
<1>4. ASSUME e <= at \/ at + Len(d) <= s
      PROVE  Cut(w, s, e) = Cut(bytes, s, e)
  <2>1. /\ Cut(bytes, s, e) \in Seq(Byte) /\ Len(Cut(bytes, s, e)) = e - s
        /\ \A i \in 1..(e - s) : Cut(bytes, s, e)[i] = bytes[s + i]
    BY CutBytes
  <2>2. ASSUME NEW i \in 1..(e - s)
        PROVE  Cut(bytes, s, e)[i] = w[s + i]
    <3>1. Len(d) \in Nat /\ s + i \in 1..Len(bytes) /\ ~(s + i \in (at + 1)..(at + Len(d)))
      BY <1>4
    <3> QED BY <1>2, <2>1, <3>1
  <2> QED BY <1>1, <2>1, <2>2, CutIs
<1> QED BY <1>3, <1>4 DEF w

\* Bytes put in front of the vector move a cut along; bytes behind it do not.
LEMMA CutMoves ==
  ASSUME NEW bytes \in Seq(Byte), NEW z \in Seq(Byte),
         NEW s \in Nat, NEW e \in Nat, s <= e, e <= Len(bytes)
  PROVE  /\ Cut(z \o bytes, s + Len(z), e + Len(z)) = Cut(bytes, s, e)
         /\ Cut(bytes \o z, s, e) = Cut(bytes, s, e)
<1> DEFINE c == Cut(bytes, s, e)
           f == z \o bytes
           k == bytes \o z
<1>1. c \in Seq(Byte) /\ Len(c) = e - s /\ \A i \in 1..(e - s) : c[i] = bytes[s + i]
  BY CutBytes
<1>2. /\ f \in Seq(Byte) /\ Len(f) = Len(z) + Len(bytes)
      /\ \A i \in 1..(Len(z) + Len(bytes)) : f[i] = IF i <= Len(z) THEN z[i] ELSE bytes[i - Len(z)]
  BY ConcatProperties
<1>3. /\ k \in Seq(Byte) /\ Len(k) = Len(bytes) + Len(z)
      /\ \A i \in 1..(Len(bytes) + Len(z)) : k[i] = IF i <= Len(bytes) THEN bytes[i] ELSE z[i - Len(bytes)]
  BY ConcatProperties
<1> HIDE DEF c, f, k
<1>4. Cut(f, s + Len(z), e + Len(z)) = c
  <2>1. /\ s + Len(z) \in Nat /\ e + Len(z) \in Nat /\ s + Len(z) <= e + Len(z)
        /\ e + Len(z) <= Len(f) /\ (e + Len(z)) - (s + Len(z)) = e - s
    BY <1>2
  <2>2. ASSUME NEW i \in 1..(e - s)
        PROVE  c[i] = f[(s + Len(z)) + i]
    <3>1. /\ (s + Len(z)) + i \in 1..(Len(z) + Len(bytes)) /\ ~((s + Len(z)) + i <= Len(z))
          /\ ((s + Len(z)) + i) - Len(z) = s + i
      OBVIOUS
    <3> QED BY <1>1, <1>2, <3>1
  <2>3. /\ Len(c) = (e + Len(z)) - (s + Len(z))
        /\ \A i \in 1..((e + Len(z)) - (s + Len(z))) : c[i] = f[(s + Len(z)) + i]
    BY <1>1, <2>1, <2>2
  <2> QED BY <1>1, <1>2, <2>1, <2>3, CutIs
<1>5. Cut(k, s, e) = c
  <2>1. e <= Len(k)
    BY <1>3
  <2>2. ASSUME NEW i \in 1..(e - s)
        PROVE  c[i] = k[s + i]
    <3>1. s + i \in 1..(Len(bytes) + Len(z)) /\ s + i <= Len(bytes)
      OBVIOUS
    <3> QED BY <1>1, <1>3, <3>1
  <2> QED BY <1>1, <1>3, <2>1, <2>2, CutIs
<1> QED BY <1>4, <1>5 DEF c, f, k

Payload(b) == Cut(b.bytes, b.start, b.end)

\* Making room changes nothing of the payload.
LEMMA FrontKept ==
  ASSUME NEW b, Sound(b), NEW more \in Nat, b.start = 0 \/ b.start >= more
  PROVE  Payload(EnsureFront(b, more)) = Payload(b)
<1>1. CASE b.start >= more
  BY <1>1 DEF Sound, Buffers, EnsureFront
<1>2. CASE b.start < more
  <2>1. EnsureFront(b, more) =
          [bytes |-> Zeros(more) \o b.bytes, start |-> b.start + more, end |-> b.end + more]
    <3>1. b.start = 0 /\ more - b.start = more
      BY <1>2 DEF Sound, Buffers
    <3> QED BY <1>2, <3>1 DEF Sound, Buffers, EnsureFront, AllocateFront
  <2>2. Zeros(more) \in Seq(Byte) /\ Len(Zeros(more)) = more
    BY ZerosBytes
  <2>3. b.bytes \in Seq(Byte) /\ b.start \in Nat /\ b.end \in Nat /\ b.start <= b.end /\ b.end <= Len(b.bytes)
    BY DEF Sound, Buffers, Within, Forward
  <2>4. Cut(Zeros(more) \o b.bytes, b.start + more, b.end + more) = Cut(b.bytes, b.start, b.end)
    <3>1. Cut(Zeros(more) \o b.bytes, b.start + Len(Zeros(more)), b.end + Len(Zeros(more)))
            = Cut(b.bytes, b.start, b.end)
      BY <2>2, <2>3, CutMoves
    <3> QED BY <2>2, <3>1
  <2> QED BY <2>1, <2>4 DEF Payload
<1> QED BY <1>1, <1>2 DEF Sound, Buffers

LEMMA BackKept ==
  ASSUME NEW b, Sound(b), NEW more \in Nat
  PROVE  Payload(EnsureBack(b, more)) = Payload(b)
<1> DEFINE room == Len(b.bytes) - b.end
<1>1. CASE ~(room < more)
  BY <1>1 DEF Sound, Buffers, Within, Forward, EnsureBack
<1>2. CASE room < more
  <2>1. more - room \in Nat
    BY <1>2 DEF Sound, Buffers, Within, Forward
  <2>2. EnsureBack(b, more) =
          [bytes |-> b.bytes \o Zeros(more - room), start |-> b.start, end |-> b.end]
    BY <1>2 DEF Sound, Buffers, EnsureBack, AllocateBack
  <2>3. b.bytes \in Seq(Byte) /\ b.start \in Nat /\ b.end \in Nat /\ b.start <= b.end /\ b.end <= Len(b.bytes)
    BY DEF Sound, Buffers, Within, Forward
  <2>4. Cut(b.bytes \o Zeros(more - room), b.start, b.end) = Cut(b.bytes, b.start, b.end)
    BY <2>1, <2>3, ZerosBytes, CutMoves
  <2> QED BY <2>2, <2>4 DEF Payload
<1> QED BY <1>1, <1>2

\* What the abstract specification shows of the state.
LEMMA Shown ==
  /\ Slice(buffer.bytes, buffer) = Payload(buffer)
  /\ Slice(buffer.bytes, view) = Cut(buffer.bytes, view.start, view.end)
  /\ Slice(buffer.bytes, piece) = Cut(buffer.bytes, piece.start, piece.end)
BY DEF Slice, Payload, Cut

\* A call that ends a borrow shows nothing of it.
LEMMA NothingViewed ==
  ASSUME view' = NoView
  PROVE  Slice(buffer.bytes, view)' = <<>>
<1>1. Slice(buffer'.bytes, view') = Cut(buffer'.bytes, 0, 0)
  BY DEF Slice, Cut, NoView
<1> QED BY <1>1, CutEmpty

LEMMA NothingTaken ==
  ASSUME piece' = NoView
  PROVE  Slice(buffer.bytes, piece)' = <<>>
<1>1. Slice(buffer'.bytes, piece') = Cut(buffer'.bytes, 0, 0)
  BY DEF Slice, Cut, NoView
<1> QED BY <1>1, CutEmpty

\* Bytes of a sound buffer in data of a given length.
LEMMA CutData ==
  ASSUME NEW bytes \in Seq(Byte), NEW s \in Nat, NEW e \in Nat, s <= e, e <= Len(bytes)
  PROVE  Cut(bytes, s, e) \in Bytes!Data(e - s)
<1>1. Cut(bytes, s, e) \in Seq(Byte) /\ Len(Cut(bytes, s, e)) = e - s
  BY CutBytes
<1> QED BY <1>1, LenProperties DEF Bytes!Data

LEMMA BytesInit == BufferInit => Bytes!Init
<1> SUFFICES ASSUME BufferInit, ~astray PROVE Bytes!Init
  BY DEF BufferInit, Bytes!Init
<1>1. InBytes
  BY RangeInit DEF RangeInBytes
<1>2. Payload(buffer) \in Seq(Byte)
  BY <1>1, CutBytes DEF InBytes, Within, Forward, Payload
<1>3. view = NoView /\ piece = NoView /\ answer = <<"init", 0, "granted">> /\ astray = FALSE
  BY DEF BufferInit
<1>4. /\ Slice(buffer.bytes, view) = Cut(buffer.bytes, 0, 0)
      /\ Slice(buffer.bytes, piece) = Cut(buffer.bytes, 0, 0)
  BY <1>3 DEF Slice, Cut, NoView
<1> QED BY <1>2, <1>3, <1>4, Shown, CutEmpty DEF Bytes!Init

\* push_front and front_mut.
LEMMA FrontRefines ==
  ASSUME InBytes, ~astray', NEW n \in 0..MaxSize, NEW d \in Data(n),
         BufPushFront(d) \/ FrontMut(d)
  PROVE  Bytes!PushFront(n) \/ Bytes!MakeRoom(n)
<1> DEFINE f == EnsureFront(buffer, n)
           w == Written(f.bytes, f.start - n, d)
<1>1. Sound(buffer) /\ n \in Nat /\ d \in Seq(Byte) /\ Len(d) = n
  BY MaxSizeAssumption, DataBytes DEF InBytes, Sound, Buffers
<1>2. buffer.start = 0 \/ buffer.start >= n
  <2>1. FrontMoves(n)
    BY <1>1 DEF BufPushFront, FrontMut
  <2> QED BY <1>1, <2>1, FrontEnough DEF Sound, Buffers
<1>9. view' = NoView /\ piece' = NoView
  BY DEF BufPushFront, FrontMut, Leaves, Lends, NoView
<1>3. Sound(f) /\ f.start >= n /\ Payload(f) = Payload(buffer)
  BY <1>1, <1>2, FrontRoom, FrontKept
<1> HIDE DEF f
<1>4. /\ f.bytes \in Seq(Byte) /\ f.start \in Nat /\ f.end \in Nat
      /\ f.start <= f.end /\ f.end <= Len(f.bytes) /\ f.start - n \in Nat /\ f.start - n <= f.start
      /\ (f.start - n) + Len(d) = f.start /\ f.start <= Len(f.bytes)
  BY <1>1, <1>3 DEF Sound, Buffers, Within, Forward
<1>5. w \in Seq(Byte) /\ Len(w) = Len(f.bytes)
  BY <1>1, <1>4, WrittenBytes
<1>6. Cut(w, f.start - n, f.start) = d /\ Cut(w, f.start, f.end) = Payload(buffer)
  <2>1. Cut(w, f.start - n, f.start) = d
    BY <1>1, <1>4, CutWritten
  <2>2. Cut(w, f.start, f.end) = Cut(f.bytes, f.start, f.end)
    BY <1>1, <1>4, CutWritten
  <2> QED BY <2>1, <2>2, <1>3 DEF Payload
<1>7. CASE BufPushFront(d)
  <2>1. /\ buffer' = [f EXCEPT !.start = f.start - n, !.bytes = w]
        /\ answer' = <<"push_front", n, "granted">>
    BY <1>1, <1>4, <1>7 DEF BufPushFront, Leaves, Lends, Answers, Outcome, f
  <2>2. buffer'.bytes = w /\ buffer'.start = f.start - n /\ buffer'.end = f.end
    BY <1>3, <2>1 DEF Sound, Buffers
  <2>3. Cut(w, f.start - n, f.end) = d \o Payload(buffer)
    <3>1. f.end <= Len(w)
      BY <1>4, <1>5
    <3>2. Cut(w, f.start - n, f.end) = Cut(w, f.start - n, f.start) \o Cut(w, f.start, f.end)
      BY <1>4, <1>5, <3>1, CutSplits
    <3> QED BY <1>6, <3>2
  <2>4. Slice(buffer.bytes, buffer)' = d \o Slice(buffer.bytes, buffer)
    BY <2>2, <2>3, Shown DEF Slice, Cut
  <2>5. d \in Bytes!Data(n)
    BY DEF Data, Bytes!Data
  <2> QED BY <1>9, <2>1, <2>4, <2>5, NothingViewed, NothingTaken DEF Bytes!PushFront, Bytes!Answers, Bytes!Becomes
<1>8. CASE FrontMut(d)
  <2>1. buffer' = [f EXCEPT !.bytes = w] /\ answer' = <<"front_mut", n, "granted">>
    BY <1>1, <1>4, <1>8 DEF FrontMut, Leaves, Lends, Answers, Outcome, f
  <2>2. buffer'.bytes = w /\ buffer'.start = f.start /\ buffer'.end = f.end
    BY <1>3, <2>1 DEF Sound, Buffers
  <2>3. Slice(buffer.bytes, buffer)' = Slice(buffer.bytes, buffer)
    BY <1>6, <2>2, Shown DEF Slice, Cut
  <2> QED BY <1>9, <2>1, <2>3, NothingViewed, NothingTaken DEF Bytes!MakeRoom, Bytes!Answers, Bytes!Becomes
<1> QED BY <1>7, <1>8

\* push_back and back_mut.
LEMMA BackRefines ==
  ASSUME InBytes, NEW n \in 0..MaxSize, NEW d \in Data(n),
         BufPushBack(d) \/ BackMut(d)
  PROVE  Bytes!PushBack(n) \/ Bytes!MakeRoom(n)
<1> DEFINE k == EnsureBack(buffer, n)
           w == Written(k.bytes, k.end, d)
<1>1. Sound(buffer) /\ n \in Nat /\ d \in Seq(Byte) /\ Len(d) = n
  BY MaxSizeAssumption, DataBytes DEF InBytes, Sound, Buffers
<1>2. view' = NoView /\ piece' = NoView
  BY DEF BufPushBack, BackMut, Leaves, Lends, NoView
<1>3. Sound(k) /\ k.end + n <= Len(k.bytes) /\ Payload(k) = Payload(buffer)
  BY <1>1, BackRoom, BackKept
<1> HIDE DEF k
<1>4. /\ k.bytes \in Seq(Byte) /\ k.start \in Nat /\ k.end \in Nat
      /\ k.start <= k.end /\ k.end <= Len(k.bytes) /\ k.end + n \in Nat /\ k.end <= k.end + n
  BY <1>1, <1>3 DEF Sound, Buffers, Within, Forward
<1>5. w \in Seq(Byte) /\ Len(w) = Len(k.bytes)
  BY <1>1, <1>4, WrittenBytes
<1>6. Cut(w, k.end, k.end + n) = d /\ Cut(w, k.start, k.end) = Payload(buffer)
  <2>1. Cut(w, k.end, k.end + n) = d
    <3>1. /\ k.end + n <= Len(k.bytes) /\ k.end + n \in Nat /\ k.end <= k.end + n
          /\ k.end + n = k.end + Len(d)
      BY <1>1, <1>3, <1>4
    <3> QED BY <1>1, <1>4, <3>1, CutWritten
  <2>2. Cut(w, k.start, k.end) = Cut(k.bytes, k.start, k.end)
    BY <1>1, <1>4, CutWritten
  <2> QED BY <2>1, <2>2, <1>3 DEF Payload
<1>7. CASE BufPushBack(d)
  <2>1. /\ buffer' = [k EXCEPT !.end = k.end + n, !.bytes = w]
        /\ answer' = <<"push_back", n, "granted">>
    BY <1>1, <1>7 DEF BufPushBack, Leaves, Lends, Answers, Outcome, Sound, Buffers, Within, Forward, k
  <2>2. buffer'.bytes = w /\ buffer'.start = k.start /\ buffer'.end = k.end + n
    BY <1>3, <2>1 DEF Sound, Buffers
  <2>3. Cut(w, k.start, k.end + n) = Payload(buffer) \o d
    <3>1. k.end + n <= Len(w) /\ k.end + n \in Nat /\ k.end <= k.end + n
      BY <1>3, <1>4, <1>5
    <3>2. Cut(w, k.start, k.end + n) = Cut(w, k.start, k.end) \o Cut(w, k.end, k.end + n)
      BY <1>4, <1>5, <3>1, CutSplits
    <3> QED BY <1>6, <3>2
  <2>4. Slice(buffer.bytes, buffer)' = Slice(buffer.bytes, buffer) \o d
    BY <2>2, <2>3, Shown DEF Slice, Cut
  <2>5. d \in Bytes!Data(n)
    BY DEF Data, Bytes!Data
  <2> QED BY <1>2, <2>1, <2>4, <2>5, NothingViewed, NothingTaken DEF Bytes!PushBack, Bytes!Answers, Bytes!Becomes
<1>8. CASE BackMut(d)
  <2>1. buffer' = [k EXCEPT !.bytes = w] /\ answer' = <<"back_mut", n, "granted">>
    BY <1>1, <1>8 DEF BackMut, Leaves, Lends, Answers, Outcome, Sound, Buffers, Within, Forward, k
  <2>2. buffer'.bytes = w /\ buffer'.start = k.start /\ buffer'.end = k.end
    BY <1>3, <2>1 DEF Sound, Buffers
  <2>3. Slice(buffer.bytes, buffer)' = Slice(buffer.bytes, buffer)
    BY <1>6, <2>2, Shown DEF Slice, Cut
  <2> QED BY <1>2, <2>1, <2>3, NothingViewed, NothingTaken DEF Bytes!MakeRoom, Bytes!Answers, Bytes!Becomes
<1> QED BY <1>7, <1>8

LEMMA RemainRefines ==
  ASSUME InBytes, NEW n \in 0..MaxSize, NEW d \in Data(n), RemainMut(d)
  PROVE  Bytes!RemainMut
<1> DEFINE w == Written(buffer.bytes, buffer.start, d)
           p == Cut(w, buffer.start, buffer.end)
<1>1. /\ buffer.bytes \in Seq(Byte) /\ buffer.start \in Nat /\ buffer.end \in Nat
      /\ buffer.start <= buffer.end /\ buffer.end <= Len(buffer.bytes)
  BY DEF InBytes, Within, Forward
<1>2. w \in Seq(Byte) /\ Len(w) = Len(buffer.bytes)
  BY <1>1, MaxSizeAssumption, DataBytes, WrittenBytes
<1>3. /\ buffer' = [buffer EXCEPT !.bytes = w] /\ view' = NoView /\ piece' = NoView
      /\ answer' = <<"remain_mut", 0, "granted">>
  BY <1>1 DEF RemainMut, Leaves, Lends, Answers, Outcome
<1> HIDE DEF w
<1>4. buffer'.bytes = w /\ buffer'.start = buffer.start /\ buffer'.end = buffer.end
  BY <1>3 DEF InBytes
<1>5. Len(Slice(buffer.bytes, buffer)) = buffer.end - buffer.start
  <2>1. Len(Cut(buffer.bytes, buffer.start, buffer.end)) = buffer.end - buffer.start
    BY <1>1, CutBytes
  <2> QED BY <2>1, Shown DEF Payload
<1>6. p \in Bytes!Data(Len(Slice(buffer.bytes, buffer)))
  BY <1>1, <1>2, <1>5, CutData
<1>7. Slice(buffer.bytes, buffer)' = p
  BY <1>4 DEF Slice, Cut
<1> QED BY <1>3, <1>6, <1>7, NothingViewed, NothingTaken DEF Bytes!RemainMut, Bytes!Answers, Bytes!Becomes

\* The two ends of a cut, and what is left without them.
LEMMA CutEnds ==
  ASSUME NEW bytes \in Seq(Byte), NEW s \in Nat, NEW e \in Nat, s <= e, e <= Len(bytes),
         NEW n \in Nat, n <= e - s
  PROVE  /\ Bytes!First(Cut(bytes, s, e), n) = Cut(bytes, s, s + n)
         /\ Bytes!AllBut(Cut(bytes, s, e), n) = Cut(bytes, s + n, e)
         /\ Bytes!First(Cut(bytes, s, e), Len(Cut(bytes, s, e)) - n) = Cut(bytes, s, e - n)
         /\ Bytes!AllBut(Cut(bytes, s, e), Len(Cut(bytes, s, e)) - n) = Cut(bytes, e - n, e)
<1> DEFINE c == Cut(bytes, s, e)
           l == e - s
<1>1. Len(c) = l
  BY CutBytes
<1>2. l \in Nat /\ l - n \in Nat /\ l - n <= l /\ s + 0 = s /\ s + l = e /\ s + (l - n) = e - n
  OBVIOUS
<1>3. Cut(c, 0, n) = Cut(bytes, s + 0, s + n)
  BY CutOfCut
<1>4. Cut(c, n, l) = Cut(bytes, s + n, s + l)
  BY <1>2, CutOfCut
<1>5. Cut(c, 0, l - n) = Cut(bytes, s + 0, s + (l - n))
  BY <1>2, CutOfCut
<1>6. Cut(c, l - n, l) = Cut(bytes, s + (l - n), s + l)
  BY <1>2, CutOfCut
<1> HIDE DEF c, l
<1>7. 0 + 1 = 1
  OBVIOUS
<1>8. /\ Bytes!First(c, n) = Cut(bytes, s, s + n)
      /\ Bytes!AllBut(c, n) = Cut(bytes, s + n, e)
      /\ Bytes!First(c, Len(c) - n) = Cut(bytes, s, e - n)
      /\ Bytes!AllBut(c, Len(c) - n) = Cut(bytes, e - n, e)
  BY <1>1, <1>2, <1>3, <1>4, <1>5, <1>6, <1>7 DEF Bytes!First, Bytes!AllBut, Cut
<1> QED BY <1>8 DEF c

\* What is known of the two ranges.
LEMMA RangesKnown ==
  ASSUME InBytes
  PROVE  /\ buffer.bytes \in Seq(Byte) /\ buffer.start \in Nat /\ buffer.end \in Nat
         /\ buffer.start <= buffer.end /\ buffer.end <= Len(buffer.bytes)
         /\ view.start \in Nat /\ view.end \in Nat
         /\ view.start <= view.end /\ view.end <= Len(buffer.bytes)
         /\ Len(Slice(buffer.bytes, buffer)) = Width(buffer)
         /\ Len(Slice(buffer.bytes, view)) = Width(view)
<1>1. /\ buffer.bytes \in Seq(Byte) /\ buffer.start \in Nat /\ buffer.end \in Nat
      /\ buffer.start <= buffer.end /\ buffer.end <= Len(buffer.bytes)
      /\ view.start \in Nat /\ view.end \in Nat
      /\ view.start <= view.end /\ view.end <= Len(buffer.bytes)
  BY DEF InBytes, Within, Forward
<1>2. Len(Cut(buffer.bytes, buffer.start, buffer.end)) = buffer.end - buffer.start
  BY <1>1, CutBytes
<1>3. Len(Cut(buffer.bytes, view.start, view.end)) = view.end - view.start
  BY <1>1, CutBytes
<1> QED BY <1>1, <1>2, <1>3, Shown DEF Payload, Width

\* A range of the buffer that has moved shows another cut of the same bytes.
LEMMA MovedTo ==
  ASSUME InBytes, NEW s \in Nat, NEW e \in Nat,
         \/ buffer' = [buffer EXCEPT !.start = s] /\ e = buffer.end
         \/ buffer' = [buffer EXCEPT !.end = e] /\ s = buffer.start
  PROVE  Slice(buffer.bytes, buffer)' = Cut(buffer.bytes, s, e) /\ buffer'.bytes = buffer.bytes
<1>1. buffer'.bytes = buffer.bytes /\ buffer'.start = s /\ buffer'.end = e
  BY DEF InBytes
<1> QED BY <1>1 DEF Slice, Cut

\* A call that is refused.
LEMMA Refused ==
  ASSUME buffer' = buffer, view' = NoView, piece' = NoView
  PROVE  Bytes!Becomes(Slice(buffer.bytes, buffer), <<>>)
BY NothingViewed, NothingTaken DEF Bytes!Becomes

\* The calls that give bytes up: truncate, move_front_right, move_back_left and,
\* with a view of what they took, pop_back and pop_front.
LEMMA TakesRefine ==
  ASSUME InBytes, NEW n \in Nat,
         Truncate(n) \/ MoveFrontRight(n) \/ MoveBackLeft(n) \/ BufPopBack(n) \/ BufPopFront(n)
  PROVE  \/ Bytes!Truncate(n) \/ Bytes!MoveFrontRight(n) \/ Bytes!MoveBackLeft(n)
         \/ Bytes!PopBack(n) \/ Bytes!PopFront(n)
<1> DEFINE p == Slice(buffer.bytes, buffer)
           s == buffer.start
           e == buffer.end
<1>1. /\ buffer.bytes \in Seq(Byte) /\ s \in Nat /\ e \in Nat /\ s <= e /\ e <= Len(buffer.bytes)
      /\ Len(p) = e - s /\ Width(buffer) = e - s
  BY RangesKnown DEF Width
<1>2. p = Cut(buffer.bytes, s, e)
  BY Shown DEF Payload
<1>3. ASSUME n <= e - s
      PROVE  /\ Bytes!First(p, n) = Cut(buffer.bytes, s, s + n)
             /\ Bytes!AllBut(p, n) = Cut(buffer.bytes, s + n, e)
             /\ Bytes!First(p, Len(p) - n) = Cut(buffer.bytes, s, e - n)
             /\ Bytes!AllBut(p, Len(p) - n) = Cut(buffer.bytes, e - n, e)
             /\ s + n \in Nat /\ e - n \in Nat
  <2>1. /\ Bytes!First(Cut(buffer.bytes, s, e), n) = Cut(buffer.bytes, s, s + n)
        /\ Bytes!AllBut(Cut(buffer.bytes, s, e), n) = Cut(buffer.bytes, s + n, e)
        /\ Bytes!First(Cut(buffer.bytes, s, e), Len(Cut(buffer.bytes, s, e)) - n) = Cut(buffer.bytes, s, e - n)
        /\ Bytes!AllBut(Cut(buffer.bytes, s, e), Len(Cut(buffer.bytes, s, e)) - n) = Cut(buffer.bytes, e - n, e)
    BY <1>1, <1>3, CutEnds
  <2>2. s + n \in Nat /\ e - n \in Nat
    BY <1>1, <1>3
  <2> QED BY <1>2, <2>1, <2>2
<1> HIDE DEF p
<1> USE DEF Bytes!Takes, Bytes!Answers, Bytes!Beheaded, Bytes!Curtailed
<1>4. CASE Truncate(n)
  <2>1. /\ answer' = <<"truncate", n, IF n <= Len(p) THEN "granted" ELSE "refused">>
        /\ view' = NoView /\ piece' = NoView
    BY <1>1, <1>4 DEF Truncate, Leaves, Lends, Answers, Outcome, Forward, NoView
  <2>2. CASE n <= Len(p)
    <3>1. buffer' = [buffer EXCEPT !.end = s + n] /\ s + n \in Nat
      BY <1>1, <1>3, <1>4, <2>2 DEF Truncate, Leaves, Lends, Answers, Outcome, Forward, NoView
    <3>2. Slice(buffer.bytes, buffer)' = Cut(buffer.bytes, s, s + n)
      BY <1>1, <3>1, MovedTo
    <3> QED BY <1>1, <1>3, <2>1, <2>2, <3>2, NothingViewed, NothingTaken DEF Bytes!Truncate, Bytes!Becomes, p
  <2>3. CASE ~(n <= Len(p))
    <3>1. buffer' = buffer
      BY <1>1, <1>4, <2>3 DEF Truncate, Leaves, Lends, Answers, Outcome, Forward, NoView
    <3> QED BY <2>1, <2>3, <3>1, Refused DEF Bytes!Truncate, p
  <2> QED BY <2>2, <2>3
<1>5. CASE MoveFrontRight(n)
  <2>1. /\ answer' = <<"move_front_right", n, IF n <= Len(p) THEN "granted" ELSE "refused">>
        /\ view' = NoView /\ piece' = NoView
    <3>1. s + n <= e <=> n <= Len(p)
      BY <1>1
    <3> QED BY <1>5, <3>1 DEF MoveFrontRight, Leaves, Lends, Answers, Outcome, Forward, NoView
  <2>2. CASE n <= Len(p)
    <3>1. buffer' = [buffer EXCEPT !.start = s + n] /\ s + n \in Nat
      BY <1>1, <1>3, <1>5, <2>2 DEF MoveFrontRight, Leaves, Lends, Answers, Outcome, Forward, NoView
    <3>2. Slice(buffer.bytes, buffer)' = Cut(buffer.bytes, s + n, e)
      BY <1>1, <3>1, MovedTo
    <3> QED BY <1>1, <1>3, <2>1, <2>2, <3>2, NothingViewed, NothingTaken DEF Bytes!MoveFrontRight, Bytes!Becomes, p
  <2>3. CASE ~(n <= Len(p))
    <3>1. buffer' = buffer
      BY <1>1, <1>5, <2>3 DEF MoveFrontRight, Leaves, Lends, Answers, Outcome, Forward, NoView
    <3> QED BY <2>1, <2>3, <3>1, Refused DEF Bytes!MoveFrontRight, p
  <2> QED BY <2>2, <2>3
<1>6. CASE MoveBackLeft(n)
  <2>1. /\ answer' = <<"move_back_left", n, IF n <= Len(p) THEN "granted" ELSE "refused">>
        /\ view' = NoView /\ piece' = NoView
    <3>1. (e >= n /\ e - n >= s) <=> n <= Len(p)
      BY <1>1
    <3> QED BY <1>6, <3>1 DEF MoveBackLeft, Leaves, Lends, Answers, Outcome, Forward, NoView
  <2>2. CASE n <= Len(p)
    <3>1. buffer' = [buffer EXCEPT !.end = e - n] /\ e - n \in Nat
      BY <1>1, <1>3, <1>6, <2>2 DEF MoveBackLeft, Leaves, Lends, Answers, Outcome, Forward, NoView
    <3>2. Slice(buffer.bytes, buffer)' = Cut(buffer.bytes, s, e - n)
      BY <1>1, <3>1, MovedTo
    <3> QED BY <1>1, <1>3, <2>1, <2>2, <3>2, NothingViewed, NothingTaken DEF Bytes!MoveBackLeft, Bytes!Becomes, p
  <2>3. CASE ~(n <= Len(p))
    <3>1. buffer' = buffer
      BY <1>1, <1>6, <2>3 DEF MoveBackLeft, Leaves, Lends, Answers, Outcome, Forward, NoView
    <3> QED BY <2>1, <2>3, <3>1, Refused DEF Bytes!MoveBackLeft, p
  <2> QED BY <2>2, <2>3
<1>7. CASE BufPopBack(n)
  <2>1. /\ answer' = <<"pop_back", n, IF n <= Len(p) THEN "granted" ELSE "refused">>
        /\ piece' = NoView
    BY <1>1, <1>7 DEF BufPopBack, Lends, Answers, Outcome, Forward, NoView
  <2>2. CASE n <= Len(p)
    <3>1. /\ buffer' = [buffer EXCEPT !.end = e - n] /\ e - n \in Nat
          /\ view' = [start |-> e - n, end |-> e]
      BY <1>1, <1>3, <1>7, <2>2 DEF BufPopBack, Lends, Answers, Outcome, Forward, NoView
    <3>2. Slice(buffer.bytes, buffer)' = Cut(buffer.bytes, s, e - n) /\ buffer'.bytes = buffer.bytes
      BY <1>1, <3>1, MovedTo
    <3>3. Slice(buffer.bytes, view)' = Cut(buffer.bytes, e - n, e)
      BY <3>1, <3>2 DEF Slice, Cut
    <3> QED BY <1>1, <1>3, <2>1, <2>2, <3>2, <3>3, NothingTaken DEF Bytes!PopBack, Bytes!Becomes, p
  <2>3. CASE ~(n <= Len(p))
    <3>1. buffer' = buffer /\ view' = NoView
      BY <1>1, <1>7, <2>3 DEF BufPopBack, Lends, Answers, Outcome, Forward, NoView
    <3> QED BY <2>1, <2>3, <3>1, Refused DEF Bytes!PopBack, p
  <2> QED BY <2>2, <2>3
<1>8. CASE BufPopFront(n)
  <2>1. /\ answer' = <<"pop_front", n, IF n <= Len(p) THEN "granted" ELSE "refused">>
        /\ piece' = NoView
    BY <1>1, <1>8 DEF BufPopFront, Lends, Answers, Outcome, Forward, NoView
  <2>2. CASE n <= Len(p)
    <3>1. /\ buffer' = [buffer EXCEPT !.start = s + n] /\ s + n \in Nat
          /\ view' = [start |-> s, end |-> s + n]
      BY <1>1, <1>3, <1>8, <2>2 DEF BufPopFront, Lends, Answers, Outcome, Forward, NoView
    <3>2. Slice(buffer.bytes, buffer)' = Cut(buffer.bytes, s + n, e) /\ buffer'.bytes = buffer.bytes
      BY <1>1, <3>1, MovedTo
    <3>3. Slice(buffer.bytes, view)' = Cut(buffer.bytes, s, s + n)
      BY <3>1, <3>2 DEF Slice, Cut
    <3> QED BY <1>1, <1>3, <2>1, <2>2, <3>2, <3>3, NothingTaken DEF Bytes!PopFront, Bytes!Becomes, p
  <2>3. CASE ~(n <= Len(p))
    <3>1. buffer' = buffer /\ view' = NoView
      BY <1>1, <1>8, <2>3 DEF BufPopFront, Lends, Answers, Outcome, Forward, NoView
    <3> QED BY <2>1, <2>3, <3>1, Refused DEF Bytes!PopFront, p
  <2> QED BY <2>2, <2>3
<1> QED BY <1>4, <1>5, <1>6, <1>7, <1>8

\* move_front_left and move_back_right: bytes that were there become part of it.
LEMMA GrowthRefines ==
  ASSUME InBytes, NEW n \in Nat, MoveFrontLeft(n) \/ MoveBackRight(n)
  PROVE  Bytes!MoveFrontLeft(n) \/ Bytes!MoveBackRight(n)
<1> DEFINE p == Slice(buffer.bytes, buffer)
           s == buffer.start
           e == buffer.end
<1>1. /\ buffer.bytes \in Seq(Byte) /\ s \in Nat /\ e \in Nat /\ s <= e /\ e <= Len(buffer.bytes)
  BY RangesKnown
<1>2. p = Cut(buffer.bytes, s, e)
  BY Shown DEF Payload
<1> HIDE DEF p
<1>3. view' = NoView /\ piece' = NoView
  BY DEF MoveFrontLeft, MoveBackRight, Leaves, Lends, NoView
<1> USE DEF Bytes!Answers
<1>4. CASE MoveFrontLeft(n)
  <2>1. CASE s >= n
    <3>1. /\ buffer' = [buffer EXCEPT !.start = s - n] /\ s - n \in Nat
          /\ answer' = <<"move_front_left", n, "granted">>
      <4>1. s - n \in Nat
        BY <1>1, <2>1
      <4> QED BY <1>4, <2>1, <4>1 DEF MoveFrontLeft, Leaves, Lends, Answers, Outcome
    <3>2. s - n <= s /\ s <= Len(buffer.bytes) /\ s - (s - n) = n
      BY <1>1, <3>1
    <3>3. Slice(buffer.bytes, buffer)' = Cut(buffer.bytes, s - n, e)
      BY <1>1, <3>1, MovedTo
    <3>4. Cut(buffer.bytes, s - n, e) = Cut(buffer.bytes, s - n, s) \o Cut(buffer.bytes, s, e)
      BY <1>1, <3>1, <3>2, CutSplits
    <3>5. Cut(buffer.bytes, s - n, s) \in Bytes!Data(s - (s - n))
      BY <1>1, <3>1, <3>2, CutData
    <3>6. \E d \in Bytes!Data(n) : Slice(buffer.bytes, buffer)' = d \o p
      BY <1>2, <3>2, <3>3, <3>4, <3>5
    <3> QED BY <1>3, <3>1, <3>6, NothingViewed, NothingTaken DEF Bytes!MoveFrontLeft, Bytes!Becomes, p
  <2>2. CASE ~(s >= n)
    <3>1. buffer' = buffer /\ answer' = <<"move_front_left", n, "refused">> /\ n > 0
      <4>1. n > 0
        BY <1>1, <2>2
      <4>2. buffer' = buffer /\ answer' = <<"move_front_left", n, "refused">>
        BY <1>4, <2>2 DEF MoveFrontLeft, Leaves, Lends, Answers, Outcome
      <4> QED BY <4>1, <4>2
    <3> QED BY <1>3, <3>1, Refused DEF Bytes!MoveFrontLeft
  <2> QED BY <2>1, <2>2
<1>5. CASE MoveBackRight(n)
  <2>1. CASE e + n <= Len(buffer.bytes)
    <3>1. /\ buffer' = [buffer EXCEPT !.end = e + n]
          /\ answer' = <<"move_back_right", n, "granted">>
      BY <1>5, <2>1 DEF MoveBackRight, Leaves, Lends, Answers, Outcome
    <3>2. e + n \in Nat /\ e <= e + n /\ (e + n) - e = n
      BY <1>1
    <3>3. Slice(buffer.bytes, buffer)' = Cut(buffer.bytes, s, e + n)
      BY <1>1, <3>1, <3>2, MovedTo
    <3>4. Cut(buffer.bytes, s, e + n) = Cut(buffer.bytes, s, e) \o Cut(buffer.bytes, e, e + n)
      BY <1>1, <2>1, <3>2, CutSplits
    <3>5. Cut(buffer.bytes, e, e + n) \in Bytes!Data((e + n) - e)
      BY <1>1, <2>1, <3>2, CutData
    <3>6. \E d \in Bytes!Data(n) : Slice(buffer.bytes, buffer)' = p \o d
      BY <1>2, <3>2, <3>3, <3>4, <3>5
    <3> QED BY <1>3, <3>1, <3>6, NothingViewed, NothingTaken DEF Bytes!MoveBackRight, Bytes!Becomes, p
  <2>2. CASE ~(e + n <= Len(buffer.bytes))
    <3>1. buffer' = buffer /\ answer' = <<"move_back_right", n, "refused">> /\ n > 0
      <4>1. n > 0
        BY <1>1, <2>2
      <4>2. buffer' = buffer /\ answer' = <<"move_back_right", n, "refused">>
        BY <1>5, <2>2 DEF MoveBackRight, Leaves, Lends, Answers, Outcome
      <4> QED BY <4>1, <4>2
    <3> QED BY <1>3, <3>1, Refused DEF Bytes!MoveBackRight
  <2> QED BY <2>1, <2>2
<1> QED BY <1>4, <1>5

LEMMA ViewEnds ==
  ASSUME InBytes, NEW n \in Nat, n <= Width(view)
  PROVE  LET v == Slice(buffer.bytes, view)
         IN  /\ Bytes!First(v, n) = Cut(buffer.bytes, view.start, view.start + n)
             /\ Bytes!AllBut(v, n) = Cut(buffer.bytes, view.start + n, view.end)
             /\ Bytes!First(v, Len(v) - n) = Cut(buffer.bytes, view.start, view.end - n)
             /\ Bytes!AllBut(v, Len(v) - n) = Cut(buffer.bytes, view.end - n, view.end)
<1> DEFINE s == view.start
           e == view.end
<1>1. /\ buffer.bytes \in Seq(Byte) /\ s \in Nat /\ e \in Nat /\ s <= e /\ e <= Len(buffer.bytes)
      /\ n <= e - s
  BY RangesKnown DEF Width
<1>2. /\ Bytes!First(Cut(buffer.bytes, s, e), n) = Cut(buffer.bytes, s, s + n)
      /\ Bytes!AllBut(Cut(buffer.bytes, s, e), n) = Cut(buffer.bytes, s + n, e)
      /\ Bytes!First(Cut(buffer.bytes, s, e), Len(Cut(buffer.bytes, s, e)) - n) = Cut(buffer.bytes, s, e - n)
      /\ Bytes!AllBut(Cut(buffer.bytes, s, e), Len(Cut(buffer.bytes, s, e)) - n) = Cut(buffer.bytes, e - n, e)
  BY <1>1, CutEnds
<1> QED BY <1>2, Shown

\* The calls on a view: what is taken off it is no longer in view.
LEMMA ViewRefines ==
  ASSUME InBytes, ~astray', NEW n \in Nat, NEW m \in Nat,
         ViewPopFront(n) \/ ViewPopBack(n) \/ SubView(m, n)
  PROVE  Bytes!ViewPopFront(n) \/ Bytes!ViewPopBack(n) \/ Bytes!SubView(m, n)
<1> DEFINE v == Slice(buffer.bytes, view)
           s == view.start
           e == view.end
<1>1. /\ buffer.bytes \in Seq(Byte) /\ s \in Nat /\ e \in Nat /\ s <= e /\ e <= Len(buffer.bytes)
      /\ Len(v) = e - s /\ Width(view) = e - s
  BY RangesKnown DEF Width
<1>2. v = Cut(buffer.bytes, s, e)
  BY Shown
<1>3. buffer' = buffer
  BY DEF ViewPopFront, ViewPopBack, SubView, OnView
<1>4. view \in Ranges
  BY DEF InBytes, Ranges
<1>5. ASSUME n <= e - s
      PROVE  /\ Bytes!First(v, n) = Cut(buffer.bytes, s, s + n)
             /\ Bytes!AllBut(v, n) = Cut(buffer.bytes, s + n, e)
             /\ Bytes!First(v, Len(v) - n) = Cut(buffer.bytes, s, e - n)
             /\ Bytes!AllBut(v, Len(v) - n) = Cut(buffer.bytes, e - n, e)
  BY <1>1, <1>5, ViewEnds
<1>6. ASSUME NEW a, NEW b, view' = [start |-> a, end |-> b]
      PROVE  Slice(buffer.bytes, view)' = Cut(buffer.bytes, a, b)
  BY <1>3, <1>6 DEF Slice, Cut
<1>7. ASSUME NEW a, NEW b, piece' = [start |-> a, end |-> b]
      PROVE  Slice(buffer.bytes, piece)' = Cut(buffer.bytes, a, b)
  BY <1>3, <1>7 DEF Slice, Cut
<1>8. Slice(buffer.bytes, buffer)' = Slice(buffer.bytes, buffer)
  BY <1>3
\* Whether it is granted, and that nothing changes if it is not.
<1>9. ASSUME NEW call, NEW to, NEW off, OnView(call, n, to, off)
      PROVE  /\ answer' = <<call, n, IF n <= Len(v) THEN "granted" ELSE "refused">>
             /\ n <= Len(v) => view' = to /\ piece' = off
             /\ ~(n <= Len(v)) => Slice(buffer.bytes, view)' = v /\ Slice(buffer.bytes, piece)' = <<>>
  <2>1. Forward(view)
    BY <1>1 DEF Forward
  <2>2. CASE n <= Len(v)
    BY <1>1, <1>9, <2>1, <2>2 DEF OnView, Outcome, Answers
  <2>3. CASE ~(n <= Len(v))
    <3>1. answer' = <<call, n, "refused">> /\ view' = view /\ piece' = NoView
      BY <1>1, <1>9, <2>1, <2>3 DEF OnView, Outcome, Answers
    <3> QED BY <1>3, <2>3, <3>1, NothingTaken
  <2> QED BY <2>2, <2>3
<1>10. CASE ViewPopFront(n)
  <2>1. OnView("view_pop_front", n, [start |-> s + n, end |-> e], [start |-> s, end |-> s + n])
    BY <1>4, <1>10 DEF ViewPopFront, Ranges
  <2>2. CASE n <= Len(v)
    <3>1. view' = [start |-> s + n, end |-> e] /\ piece' = [start |-> s, end |-> s + n]
      BY <1>9, <2>1, <2>2
    <3>2. Slice(buffer.bytes, view)' = Bytes!AllBut(v, n) /\ Slice(buffer.bytes, piece)' = Bytes!First(v, n)
      BY <1>1, <1>5, <1>6, <1>7, <2>2, <3>1
    <3> QED BY <1>8, <1>9, <2>1, <2>2, <3>2 DEF Bytes!ViewPopFront, Bytes!OnView, Bytes!Answers
  <2>3. CASE ~(n <= Len(v))
    BY <1>8, <1>9, <2>1, <2>3 DEF Bytes!ViewPopFront, Bytes!OnView, Bytes!Answers
  <2> QED BY <2>2, <2>3
<1>11. CASE ViewPopBack(n)
  <2>1. OnView("view_pop_back", n, [start |-> s, end |-> e - n], [start |-> e - n, end |-> e])
    BY <1>4, <1>11 DEF ViewPopBack, Ranges
  <2>2. CASE n <= Len(v)
    <3>1. view' = [start |-> s, end |-> e - n] /\ piece' = [start |-> e - n, end |-> e]
      BY <1>9, <2>1, <2>2
    <3>2. /\ Slice(buffer.bytes, view)' = Bytes!First(v, Len(v) - n)
          /\ Slice(buffer.bytes, piece)' = Bytes!AllBut(v, Len(v) - n)
      BY <1>1, <1>5, <1>6, <1>7, <2>2, <3>1
    <3> QED BY <1>8, <1>9, <2>1, <2>2, <3>2 DEF Bytes!ViewPopBack, Bytes!OnView, Bytes!Answers
  <2>3. CASE ~(n <= Len(v))
    BY <1>8, <1>9, <2>1, <2>3 DEF Bytes!ViewPopBack, Bytes!OnView, Bytes!Answers
  <2> QED BY <2>2, <2>3
<1>12. CASE SubView(m, n)
  <2>1. OnView("view", n, view, [start |-> s + m, end |-> s + n])
    BY <1>12 DEF SubView
  <2>2. CASE n <= Len(v)
    <3>1. view' = view /\ piece' = [start |-> s + m, end |-> s + n]
      BY <1>9, <2>1, <2>2
    <3>2. m <= n
      BY <1>9, <1>12, <2>1, <2>2, SubViewForward
    <3>3. Cut(v, m, n) = Cut(buffer.bytes, s + m, s + n)
      <4>1. n <= e - s
        BY <1>1, <2>2
      <4>2. Cut(Cut(buffer.bytes, s, e), m, n) = Cut(buffer.bytes, s + m, s + n)
        BY <1>1, <3>2, <4>1, CutOfCut
      <4> QED BY <1>2, <4>2
    <3>4. Slice(buffer.bytes, piece)' = SubSeq(v, m + 1, n)
      BY <1>7, <3>1, <3>3 DEF Cut
    <3>5. Slice(buffer.bytes, view)' = v
      BY <1>3, <3>1
    <3> QED BY <1>8, <1>9, <2>1, <2>2, <3>2, <3>4, <3>5 DEF Bytes!SubView, Bytes!OnView, Bytes!Answers
  <2>3. CASE ~(n <= Len(v))
    BY <1>8, <1>9, <2>1, <2>3 DEF Bytes!SubView, Bytes!OnView, Bytes!Answers
  <2> QED BY <2>2, <2>3
<1> QED BY <1>10, <1>11, <1>12

\* The payload as a view, and the piece of a view as the view.
LEMMA WholeRefines ==
  ASSUME InBytes, BufferAsView \/ KeepPiece
  PROVE  Bytes!AsView \/ Bytes!KeepPiece
<1>1. CASE BufferAsView
  <2>1. /\ buffer' = buffer /\ view' = [start |-> buffer.start, end |-> buffer.end]
        /\ piece' = NoView /\ answer' = <<"as_view", 0, "granted">>
    BY <1>1 DEF BufferAsView, Lends, Answers, Outcome, InBytes
  <2>2. /\ Slice(buffer.bytes, buffer)' = Slice(buffer.bytes, buffer)
        /\ Slice(buffer.bytes, view)' = Slice(buffer.bytes, buffer)
    BY <2>1 DEF Slice
  <2> QED BY <2>1, <2>2, NothingTaken DEF Bytes!AsView, Bytes!Answers, Bytes!Becomes
<1>2. CASE KeepPiece
  <2>1. buffer' = buffer /\ view' = piece /\ piece' = NoView /\ answer' = <<"keep", 0, "granted">>
    BY <1>2 DEF KeepPiece, Answers
  <2>2. /\ Slice(buffer.bytes, buffer)' = Slice(buffer.bytes, buffer)
        /\ Slice(buffer.bytes, view)' = Slice(buffer.bytes, piece)
    BY <2>1
  <2> QED BY <2>1, <2>2, NothingTaken DEF Bytes!KeepPiece, Bytes!Answers, Bytes!Becomes
<1> QED BY <1>1, <1>2

\* No call panics as long as nothing has gone astray: each is a call on the payload.
LEMMA CallsRefine ==
  ASSUME InBytes, ~astray', BufferNext, ~Panicked
  PROVE  Bytes!Calls
<1>1. ASSUME NEW n \in 0..MaxSize, NEW d \in Data(n), BufPushFront(d) \/ FrontMut(d)
      PROVE  Bytes!Calls
  BY <1>1, FrontRefines DEF Bytes!Calls
<1>2. ASSUME NEW n \in 0..MaxSize, NEW d \in Data(n), BufPushBack(d) \/ BackMut(d)
      PROVE  Bytes!Calls
  BY <1>2, BackRefines DEF Bytes!Calls
<1>3. ASSUME NEW n \in 0..MaxSize, NEW d \in Data(n), RemainMut(d)
      PROVE  Bytes!Calls
  BY <1>3, RemainRefines DEF Bytes!Calls
<1>4. \A n \in 0..MaxSize : n \in Nat
  BY MaxSizeAssumption
<1>5. ASSUME NEW n \in 0..MaxSize,
             \/ Truncate(n) \/ MoveFrontRight(n) \/ MoveBackLeft(n) \/ BufPopBack(n) \/ BufPopFront(n)
      PROVE  Bytes!Calls
  <2>1. \/ Bytes!Truncate(n) \/ Bytes!MoveFrontRight(n) \/ Bytes!MoveBackLeft(n)
        \/ Bytes!PopBack(n) \/ Bytes!PopFront(n)
    BY <1>4, <1>5, TakesRefine
  <2> QED BY <2>1 DEF Bytes!Calls
<1>6. ASSUME NEW n \in 0..MaxSize, MoveFrontLeft(n) \/ MoveBackRight(n)
      PROVE  Bytes!Calls
  <2>1. Bytes!MoveFrontLeft(n) \/ Bytes!MoveBackRight(n)
    BY <1>4, <1>6, GrowthRefines
  <2> QED BY <2>1 DEF Bytes!Calls
<1>7. ASSUME NEW n \in 0..MaxSize, NEW m \in 0..MaxSize,
             ViewPopFront(n) \/ ViewPopBack(n) \/ SubView(m, n)
      PROVE  Bytes!Calls
  <2>1. Bytes!ViewPopFront(n) \/ Bytes!ViewPopBack(n) \/ Bytes!SubView(m, n)
    BY <1>4, <1>7, ViewRefines
  <2> QED BY <2>1 DEF Bytes!Calls
<1>8. ASSUME NEW n \in 0..MaxSize, ViewPopFront(n) \/ ViewPopBack(n)
      PROVE  Bytes!Calls
  <2>1. n \in 0..MaxSize
    OBVIOUS
  <2> QED BY <1>7, <1>8, <2>1
<1>9. CASE BufferAsView \/ KeepPiece
  BY <1>9, WholeRefines DEF Bytes!Calls
<1> QED BY <1>1, <1>2, <1>3, <1>5, <1>6, <1>7, <1>8, <1>9 DEF BufferNext

\* Every step of a buffer is a step of the payload.
LEMMA BytesStep ==
  ASSUME RangeInBytes, [BufferNext]_bufferVars
  PROVE  [Bytes!Next]_(Bytes!vars)
<1>1. astray' \in BOOLEAN /\ (~astray' => ~astray)
  BY AstrayStays DEF RangeInBytes
<1>2. CASE astray'
  BY <1>1, <1>2 DEF Bytes!Next
<1>3. CASE ~astray' /\ BufferNext /\ ~Panicked
  <2>1. InBytes /\ astray = FALSE /\ astray' = FALSE
    BY <1>1, <1>3 DEF RangeInBytes
  <2> QED BY <1>3, <2>1, CallsRefine DEF Bytes!Next
<1>4. CASE Panicked \/ UNCHANGED bufferVars
  BY <1>4 DEF Panicked, bufferVars, Bytes!vars
<1> QED BY <1>2, <1>3, <1>4

\* The range of the vector is a payload of its own, for every size and any
\* bytes, until a range goes astray: no call panics, making room never changes
\* the payload, what is pushed comes out again at the same end, and a view shows
\* what was there, less what was taken off it.
THEOREM BufferImplementsBytes == BufferSpec => ImplementsBytes
<1>1. RangeInBytes /\ [BufferNext]_bufferVars => [Bytes!Next]_(Bytes!vars)
  BY BytesStep
<1>2. BufferSpec => []RangeInBytes
  BY RangesStayInBytes
<1> QED BY <1>1, <1>2, BytesInit, PTL DEF BufferSpec, ImplementsBytes, Bytes!Spec
=============================================================================
