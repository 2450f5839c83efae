----------------------------- MODULE ByteBuffer -----------------------------
(***************************************************************************)
(* What a buffer promises its users: a payload of bytes that grows and     *)
(* shrinks at both ends, is never touched by making room, and is shown by  *)
(* views of what was taken off it.  Only what move_front_left and          *)
(* move_back_right uncover, and whether there is room for it, is left to   *)
(* the implementation, and all that happens once a range has gone astray.  *)
(***************************************************************************)
EXTENDS Naturals, Sequences

CONSTANTS Byte,    \* the bytes
          MaxSize  \* bound of the model: the most bytes a call is about

VARIABLES payload,  \* what the buffer holds
          viewed,   \* what the view shows that is held
          taken,    \* what was taken off the view last
          answer,   \* the call made last, its length, its outcome
          astray    \* nothing is promised any more

vars == <<payload, viewed, taken, answer, astray>>

Data(n) == [1..n -> Byte]
First(s, n) == SubSeq(s, 1, n)
AllBut(s, n) == SubSeq(s, n + 1, Len(s))

Init ==
  \/ astray = TRUE
  \/ /\ astray = FALSE
     /\ payload \in Seq(Byte) /\ viewed = <<>> /\ taken = <<>>
     /\ answer = <<"init", 0, "granted">>

Answers(call, n, ok) == answer' = <<call, n, IF ok THEN "granted" ELSE "refused">>

\* The call leaves the payload p and a view of v.
Becomes(p, v) == payload' = p /\ viewed' = v /\ taken' = <<>>

\* A call that takes n bytes is granted if there are as many.
Takes(call, n, p, v) ==
  /\ Answers(call, n, n <= Len(payload))
  /\ IF n <= Len(payload) THEN Becomes(p, v) ELSE Becomes(payload, <<>>)

Beheaded(n) == AllBut(payload, n)
Curtailed(n) == First(payload, Len(payload) - n)

PushFront(n) == Answers("push_front", n, TRUE) /\ \E d \in Data(n) : Becomes(d \o payload, <<>>)
PushBack(n) == Answers("push_back", n, TRUE) /\ \E d \in Data(n) : Becomes(payload \o d, <<>>)
PopFront(n) == Takes("pop_front", n, Beheaded(n), First(payload, n))
PopBack(n) == Takes("pop_back", n, Curtailed(n), AllBut(payload, Len(payload) - n))
Truncate(n) == Takes("truncate", n, First(payload, n), <<>>)
MoveFrontRight(n) == Takes("move_front_right", n, Beheaded(n), <<>>)
MoveBackLeft(n) == Takes("move_back_left", n, Curtailed(n), <<>>)

\* Bytes that were there before, if any, become part of the payload.
MoveFrontLeft(n) ==
  \/ Answers("move_front_left", n, TRUE) /\ \E d \in Data(n) : Becomes(d \o payload, <<>>)
  \/ Answers("move_front_left", n, FALSE) /\ n > 0 /\ Becomes(payload, <<>>)
MoveBackRight(n) ==
  \/ Answers("move_back_right", n, TRUE) /\ \E d \in Data(n) : Becomes(payload \o d, <<>>)
  \/ Answers("move_back_right", n, FALSE) /\ n > 0 /\ Becomes(payload, <<>>)

\* Room at an end, to be written before it is made part of the payload.
MakeRoom(n) == \E end \in {"front_mut", "back_mut"} : Answers(end, n, TRUE) /\ Becomes(payload, <<>>)

\* Writing to the buffer in place.
RemainMut == Answers("remain_mut", 0, TRUE) /\ \E d \in Data(Len(payload)) : Becomes(d, <<>>)

AsView == Answers("as_view", 0, TRUE) /\ Becomes(payload, payload)

\* What is taken off a view, p, leaves v in view; the payload never changes.
OnView(call, n, v, p) ==
  /\ Answers(call, n, n <= Len(viewed))
  /\ payload' = payload
  /\ IF n <= Len(viewed) THEN viewed' = v /\ taken' = p ELSE viewed' = viewed /\ taken' = <<>>

ViewPopFront(n) == OnView("view_pop_front", n, AllBut(viewed, n), First(viewed, n))
ViewPopBack(n) ==
  OnView("view_pop_back", n, First(viewed, Len(viewed) - n), AllBut(viewed, Len(viewed) - n))
SubView(m, n) ==
  (n <= Len(viewed) => m <= n) /\ OnView("view", n, viewed, SubSeq(viewed, m + 1, n))

KeepPiece == Answers("keep", 0, TRUE) /\ Becomes(payload, taken)

Calls ==
  \/ \E n \in 0..MaxSize :
       \/ PushFront(n) \/ PushBack(n) \/ PopFront(n) \/ PopBack(n) \/ Truncate(n)
       \/ MoveFrontRight(n) \/ MoveFrontLeft(n) \/ MoveBackRight(n) \/ MoveBackLeft(n)
       \/ MakeRoom(n) \/ ViewPopFront(n) \/ ViewPopBack(n)
       \/ \E m \in 0..MaxSize : SubView(m, n)
  \/ RemainMut \/ AsView \/ KeepPiece

Next == astray' = TRUE \/ (astray = FALSE /\ astray' = FALSE /\ Calls)

Spec == Init /\ [][Next]_vars
=============================================================================
