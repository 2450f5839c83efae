------------------------------ MODULE FifoQueue ------------------------------
(***************************************************************************)
(* What every queue of the runtime promises its users: values leave in the *)
(* order they entered, none is lost or made up, a bounded push is refused  *)
(* exactly when the queue holds Limit values or more, and the emptiness    *)
(* and length queries tell the truth.  DynamicDeque implements it; the bus *)
(* modules use it as their queue.                                          *)
(***************************************************************************)
EXTENDS Naturals, Sequences

CONSTANTS Value,    \* what a queue holds
          Limit,    \* the length from which a bounded push is refused
          MaxLen,   \* bound of the model: no push grows the queue past it
          None      \* the answer of a pop from an empty queue

VARIABLES queue,    \* the values held, the oldest first
          result    \* the call answered last and what it answered

vars == <<queue, result>>

Init == queue = <<>> /\ result = <<"init", None>>

PushBackStack(v) ==
  /\ IF Len(queue) < Limit
       THEN queue' = Append(queue, v) /\ result' = <<"push", TRUE>>
       ELSE UNCHANGED queue /\ result' = <<"push", FALSE>>

PushBack(v) ==
  /\ Len(queue) < MaxLen
  /\ queue' = Append(queue, v)
  /\ result' = <<"push", TRUE>>

PopFront ==
  IF queue = <<>>
    THEN UNCHANGED queue /\ result' = <<"pop", None>>
    ELSE queue' = Tail(queue) /\ result' = <<"pop", Head(queue)>>

\* A push at the back followed at once by a pop from the front.
Pop2(v) ==
  /\ queue' = Tail(Append(queue, v))
  /\ result' = <<"pop", Head(Append(queue, v))>>

IsEmpty == result' = <<"is_empty", queue = <<>> >> /\ UNCHANGED queue

Length == result' = <<"len", Len(queue)>> /\ UNCHANGED queue

Next ==
  \/ \E v \in Value : PushBackStack(v) \/ PushBack(v) \/ Pop2(v)
  \/ PopFront
  \/ IsEmpty
  \/ Length

Spec == Init /\ [][Next]_vars
=============================================================================
