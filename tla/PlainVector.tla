---------------------------- MODULE PlainVector ----------------------------
(***************************************************************************)
(* What a vector promises its users: it is one sequence that grows and     *)
(* shrinks at its end, read and written by index from 0; a bounded push is *)
(* refused exactly when it holds Limit values or more.                     *)
(***************************************************************************)
EXTENDS Naturals, Sequences

CONSTANTS Value,    \* what a vector holds
          Limit,    \* the length from which a bounded push is refused
          MaxLen,   \* bound of the model: no push grows the vector past it
          None      \* the answer where there is no value

VARIABLES items,    \* the values held
          answer    \* the call answered last and what it answered

vars == <<items, answer>>

Held(i) == IF i < Len(items) THEN items[i + 1] ELSE None

Init == items = <<>> /\ answer = <<"init", None>>

Push(v, max) ==
  IF Len(items) < max
    THEN items' = Append(items, v) /\ answer' = <<"push", TRUE>>
    ELSE UNCHANGED items /\ answer' = <<"push", FALSE>>

Pop ==
  IF items = <<>>
    THEN UNCHANGED items /\ answer' = <<"pop", None>>
    ELSE /\ items' = SubSeq(items, 1, Len(items) - 1)
         /\ answer' = <<"pop", items[Len(items)]>>

Get(i) == answer' = <<"get", Held(i)>> /\ UNCHANGED items

Set(i, v) ==
  /\ items' = IF i < Len(items) THEN [items EXCEPT ![i + 1] = v] ELSE items
  /\ answer' = <<"get", Held(i)>>

Last ==
  /\ answer' = <<"get", IF items = <<>> THEN None ELSE items[Len(items)]>>
  /\ UNCHANGED items

IsEmpty == answer' = <<"is_empty", items = <<>> >> /\ UNCHANGED items

Length == answer' = <<"len", Len(items)>> /\ UNCHANGED items

Next ==
  \/ \E v \in Value : Push(v, Limit) \/ (Len(items) < MaxLen /\ Push(v, MaxLen))
  \/ \E i \in 0..MaxLen : Get(i) \/ \E v \in Value : Set(i, v)
  \/ Pop \/ Last \/ IsEmpty \/ Length

Spec == Init /\ [][Next]_vars
=============================================================================
