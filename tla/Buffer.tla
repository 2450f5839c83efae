------------------------------- MODULE Buffer -------------------------------
(***************************************************************************)
(* buffer.rs: the payload of a network packet is a range of a vector of    *)
(* bytes, with room on both sides so that protocol headers can be put in   *)
(* front and at the back without a copy, and taken off again.              *)
(*                                                                         *)
(* A view borrows the buffer: it is gone with the next call on the buffer. *)
(* What is popped off a view is a view itself, here its piece, and borrows *)
(* it: the next call on the view ends it, unless the caller drops the view *)
(* and goes on with the piece.  Ranges are start..end, counted from 0.     *)
(*                                                                         *)
(* Nothing stops a caller from handing in a range that runs backwards, and *)
(* ensure_front may move a range off its bytes.  From then on the calls    *)
(* panic at some time, as a build with overflow checks does; `astray'      *)
(* records that it has come to that.                                       *)
(***************************************************************************)
EXTENDS Naturals, Sequences

CONSTANTS Byte,           \* the bytes
          Zero,           \* what new room is filled with
          MaxSize         \* bound of the model: the length of the vector

ASSUME ZeroAssumption == Zero \in Byte
ASSUME MaxSizeAssumption == MaxSize \in Nat

VARIABLES buffer,  \* [bytes, start, end]
          view,    \* [start, end] of the view held, NoView if it is gone
          piece,   \* that of what was taken off the view last
          answer,  \* the call made last, its length, its outcome
          astray   \* history: a range was handed in backwards, or moved off

bufferVars == <<buffer, view, piece, answer, astray>>

NoView == [start |-> 0, end |-> 0]

Zeros(n) == [i \in 1..n |-> Zero]
Slice(bytes, r) == SubSeq(bytes, r.start + 1, r.end)
Width(r) == r.end - r.start
Forward(r) == r.start <= r.end
Within(r, n) == Forward(r) /\ r.end <= n

\* The vector with d written over it from i on.
Written(bytes, i, d) ==
  [j \in 1..Len(bytes) |-> IF j \in (i + 1)..(i + Len(d)) THEN d[j - i] ELSE bytes[j]]

Data(n) == [1..n -> Byte]

-----------------------------------------------------------------------------
\* The constructors: new, build, from_vec_raw (which From<Vec> is a case of).
New(left, main) == [bytes |-> Zeros(left + main), start |-> left, end |-> left]

Build(data, left, right) ==
  [bytes |-> Zeros(left) \o data \o Zeros(right), start |-> left, end |-> left + Len(data)]

FromVecRaw(data, start, end) == [bytes |-> data, start |-> start, end |-> end]

BufferInit ==
  /\ \/ \E left, main \in 0..MaxSize :
          left + main <= MaxSize /\ buffer = New(left, main)
     \/ \E left, right, n \in 0..MaxSize :
          left + n + right <= MaxSize /\ \E d \in Data(n) : buffer = Build(d, left, right)
     \/ \E n, start \in 0..MaxSize : \E d \in Data(n), end \in 0..n :
          buffer = FromVecRaw(d, start, end)
  /\ view = NoView /\ piece = NoView /\ answer = <<"init", 0, "granted">>
  /\ astray = ~Forward(buffer)

-----------------------------------------------------------------------------
\* Making room.

\* allocate_front and allocate_back: the vector is longer, the range unchanged.
AllocateFront(b, n) == [b EXCEPT !.bytes = Zeros(n) \o @]
AllocateBack(b, n) == [b EXCEPT !.bytes = @ \o Zeros(n)]

\* ensure_front: what is missing is allocated, but the range moves by all that
\* was asked for.
EnsureFront(b, more) ==
  IF b.start < more
    THEN [AllocateFront(b, more - b.start) EXCEPT !.start = @ + more, !.end = @ + more]
    ELSE b

\* Mutant of EnsureBack: one byte too few.
EnsureBackShort(b, more) ==
  IF Len(b.bytes) - b.end < more THEN AllocateBack(b, more - (Len(b.bytes) - b.end) - 1) ELSE b

\* ensure_back.
EnsureBack(b, more) ==
  IF Len(b.bytes) - b.end < more THEN AllocateBack(b, more - (Len(b.bytes) - b.end)) ELSE b

\* The bound of the model.
MayGrowFront(n) == Len(buffer.bytes) + n <= MaxSize
MayGrowBack(n) == buffer.end + n <= MaxSize

-----------------------------------------------------------------------------
\* The calls.  A slice or a subtraction out of range panics.
Outcome(inRange, ok) == IF ~inRange THEN "panicked" ELSE IF ok THEN "granted" ELSE "refused"

Answers(call, n, outcome) == answer[3] # "panicked" /\ answer' = <<call, n, outcome>>

\* A call on the buffer ends the borrow of a view.  If it is granted it leaves
\* the buffer b and lends a view of v.
Lends(call, n, outcome, b, v) ==
  /\ Answers(call, n, outcome)
  /\ buffer' = (IF outcome = "granted" THEN b ELSE buffer)
  /\ view' = (IF outcome = "granted" THEN v ELSE NoView)
  /\ piece' = NoView

Leaves(call, n, outcome, b) == Lends(call, n, outcome, b, NoView)

\* Room asked for at the front where there is some, but not enough.
FrontMoves(n) == astray' = (astray \/ (0 < buffer.start /\ buffer.start < n))

BufPushFront(d) ==
  LET n == Len(d)
      b == EnsureFront(buffer, n)
  IN  /\ MayGrowFront(n) /\ FrontMoves(n)
      /\ Leaves("push_front", n, Outcome(b.start <= Len(b.bytes), TRUE),
                [b EXCEPT !.start = @ - n, !.bytes = Written(@, b.start - n, d)])

BufPushBack(d) ==
  LET n == Len(d)
      b == EnsureBack(buffer, n)
  IN  /\ MayGrowBack(n) /\ UNCHANGED astray
      /\ Leaves("push_back", n, Outcome(buffer.end <= Len(buffer.bytes), TRUE),
                [b EXCEPT !.end = @ + n, !.bytes = Written(@, b.end, d)])

\* front_mut and back_mut: room is made, lent, and written to by the caller.
FrontMut(d) ==
  LET n == Len(d)
      b == EnsureFront(buffer, n)
  IN  /\ MayGrowFront(n) /\ FrontMoves(n)
      /\ Leaves("front_mut", n, Outcome(b.start <= Len(b.bytes), TRUE),
                [b EXCEPT !.bytes = Written(@, b.start - n, d)])

BackMut(d) ==
  LET n == Len(d)
      b == EnsureBack(buffer, n)
  IN  /\ MayGrowBack(n) /\ UNCHANGED astray
      /\ Leaves("back_mut", n, Outcome(buffer.end <= Len(buffer.bytes), TRUE),
                [b EXCEPT !.bytes = Written(@, b.end, d)])

\* remain_mut: the caller (a socket that receives) writes from the start on.
RemainMut(d) ==
  LET room == Len(buffer.bytes) - buffer.start
  IN  /\ room >= 0 => Len(d) <= room
      /\ UNCHANGED astray
      /\ Leaves("remain_mut", 0, Outcome(room >= 0, TRUE),
                [buffer EXCEPT !.bytes = Written(@, buffer.start, d)])

Truncate(n) ==
  /\ Leaves("truncate", n, Outcome(Forward(buffer), Width(buffer) >= n),
            [buffer EXCEPT !.end = buffer.start + n])
  /\ UNCHANGED astray

MoveFrontRight(n) ==
  /\ Leaves("move_front_right", n, Outcome(TRUE, buffer.start + n <= buffer.end),
            [buffer EXCEPT !.start = @ + n])
  /\ UNCHANGED astray

MoveFrontLeft(n) ==
  /\ Leaves("move_front_left", n, Outcome(TRUE, buffer.start >= n), [buffer EXCEPT !.start = @ - n])
  /\ UNCHANGED astray

MoveBackRight(n) ==
  /\ Leaves("move_back_right", n, Outcome(TRUE, buffer.end + n <= Len(buffer.bytes)),
            [buffer EXCEPT !.end = @ + n])
  /\ UNCHANGED astray

MoveBackLeft(n) ==
  /\ Leaves("move_back_left", n, Outcome(TRUE, buffer.end >= n /\ buffer.end - n >= buffer.start),
            [buffer EXCEPT !.end = @ - n])
  /\ UNCHANGED astray

\* pop_back and pop_front: the bytes leave the range and are lent as a view.
BufPopBack(n) ==
  /\ Lends("pop_back", n, Outcome(Forward(buffer), Width(buffer) >= n),
           [buffer EXCEPT !.end = @ - n], [start |-> buffer.end - n, end |-> buffer.end])
  /\ UNCHANGED astray

BufPopFront(n) ==
  /\ Lends("pop_front", n, Outcome(Forward(buffer), Width(buffer) >= n),
           [buffer EXCEPT !.start = @ + n], [start |-> buffer.start, end |-> buffer.start + n])
  /\ UNCHANGED astray

\* The whole payload is read as a slice, and the slice made a view.
BufferAsView ==
  /\ Lends("as_view", 0, Outcome(Within(buffer, Len(buffer.bytes)), TRUE),
           buffer, [start |-> buffer.start, end |-> buffer.end])
  /\ UNCHANGED astray

-----------------------------------------------------------------------------
\* The calls of BufferView, refused if fewer than n bytes are in view: the view
\* becomes v, and p is the piece of it that is returned.
OnView(call, n, v, p) ==
  LET outcome == Outcome(Forward(view), Width(view) >= n)
  IN  /\ Answers(call, n, outcome)
      /\ view' = (IF outcome = "granted" THEN v ELSE view)
      /\ piece' = (IF outcome = "granted" THEN p ELSE NoView)
      /\ UNCHANGED buffer

ViewPopFront(n) ==
  /\ OnView("view_pop_front", n, [view EXCEPT !.start = @ + n], [view EXCEPT !.end = view.start + n])
  /\ UNCHANGED astray

\* Mutant of ViewPopBack: the view is not shortened by what was taken off it.
ViewPopBackKept(n) ==
  /\ OnView("view_pop_back", n, view, [view EXCEPT !.start = view.end - n])
  /\ UNCHANGED astray

ViewPopBack(n) ==
  /\ OnView("view_pop_back", n, [view EXCEPT !.end = @ - n], [view EXCEPT !.start = view.end - n])
  /\ UNCHANGED astray

\* view: only the end of the range that is asked for is compared.
SubView(m, n) ==
  /\ OnView("view", n, view, [start |-> view.start + m, end |-> view.start + n])
  /\ astray' = (astray \/ (n < m /\ answer'[3] = "granted"))

\* The caller drops the view and goes on with the piece of it.
KeepPiece ==
  /\ Answers("keep", 0, "granted")
  /\ view' = piece /\ piece' = NoView /\ UNCHANGED <<buffer, astray>>

\* A panic unwinds the caller, and the buffer is dropped.
Panicked == answer[3] = "panicked" /\ UNCHANGED bufferVars

-----------------------------------------------------------------------------
BufferNext ==
  \/ \E n \in 0..MaxSize : \E d \in Data(n) :
       BufPushFront(d) \/ BufPushBack(d) \/ FrontMut(d) \/ BackMut(d) \/ RemainMut(d)
  \/ \E n \in 0..MaxSize :
       \/ Truncate(n) \/ BufPopBack(n) \/ BufPopFront(n)
       \/ MoveFrontRight(n) \/ MoveFrontLeft(n) \/ MoveBackRight(n) \/ MoveBackLeft(n)
  \/ \E n \in 0..MaxSize :
       ViewPopFront(n) \/ ViewPopBack(n) \/ \E m \in 0..MaxSize : SubView(m, n)
  \/ BufferAsView \/ KeepPiece \/ Panicked

BufferSpec == BufferInit /\ [][BufferNext]_bufferVars

-----------------------------------------------------------------------------
InBytes ==
  /\ buffer \in [bytes : Seq(Byte), start : Nat, end : Nat]
  /\ view \in [start : Nat, end : Nat]
  /\ piece \in [start : Nat, end : Nat]
  /\ Within(buffer, Len(buffer.bytes))
  /\ Within(view, Len(buffer.bytes))
  /\ Within(piece, Len(buffer.bytes))

\* What each access to the bytes relies on: the range of the buffer, that of a
\* view and that of a piece of it lie within the vector, whatever room was made,
\* taken and given back before, as long as no caller has handed in a range that
\* runs backwards and none has met the fault of ensure_front.  Beyond it the
\* code would panic, far from the call that broke it.
RangeInBytes == astray \in BOOLEAN /\ (~astray => InBytes)

Bytes == INSTANCE ByteBuffer WITH
  payload <- Slice(buffer.bytes, buffer), viewed <- Slice(buffer.bytes, view),
  taken <- Slice(buffer.bytes, piece)

\* The range of a vector behaves as a payload of its own, until a range goes
\* astray: no call panics, making room changes nothing of the payload, what is
\* pushed comes out again, and what is taken off a view is gone from the view.
ImplementsBytes == Bytes!Spec

\* "Reverse the front for at least `len` bytes at front": there are then that
\* many bytes before the payload, and the payload is what it was.
FrontReserved ==
  [][\A n \in 0..MaxSize : ~astray /\ answer' = <<"front_mut", n, "granted">> =>
       /\ buffer'.start >= n /\ buffer'.end <= Len(buffer'.bytes)
       /\ Slice(buffer'.bytes, buffer') = Slice(buffer.bytes, buffer)]_bufferVars
=============================================================================
