---------------------------- MODULE SocketsProofs ----------------------------
(***************************************************************************)
(* No packet before the answer that names its socket, and never more       *)
(* tokens than slots, for any number of sockets and packets.               *)
(***************************************************************************)
EXTENDS Sockets, CountingLemmas, SequenceTheorems

Slot == Socket \cup {Vacant, Waker}

\* The answer that tells its owner the slot of a socket has been handed out,
\* or waits in the output.
Answering ==
  \A slot \in Taken :
    At(slot).id \in known \/ \E k \in 1..Len(output) : output[k] = Result(At(slot).id)

\* Packets are never put into the output.
OutputAnswers == \A k \in 1..Len(output) : output[k].kind # "packet"

\* The tokens of one poll are gone before the next.
TokensTaken == (phase = "work" \/ ~polling) => tokens = <<>>

SocketInv ==
  /\ TypeOK
  /\ Answering /\ OutputAnswers /\ AnsweredFirst
  /\ TokensTaken /\ TokensFit

-----------------------------------------------------------------------------
\* The events, and what can be told of one from its kind.
LEMMA EventKinds ==
  /\ Nothing \in Event /\ Awake \in Event /\ Failure \in Event
  /\ \A i \in 1..MaxOpen : Result(i) \in Event /\ Packet(i) \in Event
  /\ \A e \in Event : e.kind = "result" => e.id \in 1..MaxOpen
<1>1. Nothing \in Event /\ Awake \in Event /\ Failure \in Event
  BY DEF Event
<1>2. \A i \in 1..MaxOpen : Result(i) \in Event /\ Packet(i) \in Event
  BY DEF Event
<1>3. ASSUME NEW e \in Event, e.kind = "result"  PROVE e.id \in 1..MaxOpen
  <2>1. CASE e \in {Nothing, Awake, Failure}
    BY <1>3, <2>1 DEF Nothing, Awake, Failure
  <2>2. CASE \E i \in 1..MaxOpen : e = Result(i)
    BY <2>2 DEF Result
  <2>3. CASE \E i \in 1..MaxOpen : e = Packet(i)
    BY <1>3, <2>3 DEF Packet
  <2> QED BY <2>1, <2>2, <2>3 DEF Event
<1> QED BY <1>1, <1>2, <1>3

\* What the type invariant says of a slot.
LEMMA SlotTypes ==
  ASSUME TypeOK
  PROVE  /\ Len(sockets) \in Nat /\ sockets \in Seq(Slot)
         /\ \A slot \in Slots : slot \in Nat /\ slot + 1 \in 1..Len(sockets) /\ At(slot) \in Slot
         /\ \A slot \in Taken : slot \in Slots /\ At(slot) \in Socket
         /\ \A slot \in Taken : At(slot).id \in 1..MaxOpen
<1>1. sockets \in Seq(Slot) /\ Len(sockets) \in Nat
  BY DEF TypeOK, Slot
<1>2. \A slot \in Slots : slot \in Nat /\ slot + 1 \in 1..Len(sockets) /\ At(slot) \in Slot
  BY <1>1 DEF Slots, At
<1>3. \A slot \in Taken : slot \in Slots /\ At(slot) \in Socket
  BY <1>2 DEF Taken, IsSocket, Slot
<1> QED BY <1>1, <1>2, <1>3 DEF Socket

\* select_slot finds a vacant slot or the place behind the last.
LEMMA WithSlotPlaces ==
  ASSUME TypeOK, NEW s \in Slot
  PROVE  \E n \in 0..Len(sockets) :
           /\ n \in Slots => At(n) = Vacant
           /\ WithSlot(s) \in Seq(Slot)
           /\ Len(WithSlot(s)) = IF n = Len(sockets) THEN Len(sockets) + 1 ELSE Len(sockets)
           /\ WithSlot(s)[n + 1] = s
           /\ \A k \in 1..Len(sockets) : k # n + 1 => WithSlot(s)[k] = sockets[k]
<1>1. sockets \in Seq(Slot) /\ Len(sockets) \in Nat
  BY SlotTypes
<1>2. CASE \E i \in Slots : At(i) = Vacant
  <2> DEFINE Gaps == {i \in Slots : At(i) = Vacant}
  <2>1. PICK j \in Gaps : \A k \in Gaps : j <= k
    <3>1. Gaps \in SUBSET Nat /\ Gaps # {}
      BY <1>2, SlotTypes
    <3> QED BY <3>1, LeastOf
  <2>2. j \in Slots /\ At(j) = Vacant /\ \A k \in 0..(j - 1) : At(k) # Vacant
    BY <1>1, <2>1 DEF Slots
  <2>3. PICK n \in Slots : n = SelectSlot /\ At(n) = Vacant
    BY <1>2, <2>2 DEF SelectSlot
  <2>4. n \in 0..Len(sockets) /\ n # Len(sockets) /\ n + 1 \in 1..Len(sockets)
    BY <1>1 DEF Slots
  <2>5. WithSlot(s) = [sockets EXCEPT ![n + 1] = s]
    BY <2>3, <2>4 DEF WithSlot
  <2>6. /\ WithSlot(s) \in Seq(Slot) /\ Len(WithSlot(s)) = Len(sockets)
        /\ WithSlot(s)[n + 1] = s
        /\ \A k \in 1..Len(sockets) : k # n + 1 => WithSlot(s)[k] = sockets[k]
    BY <1>1, <2>4, <2>5
  <2> QED BY <2>3, <2>4, <2>6
<1>3. CASE ~ \E i \in Slots : At(i) = Vacant
  <2>1. SelectSlot = Len(sockets)
    BY <1>3 DEF SelectSlot
  <2>2. WithSlot(s) = Append(sockets, s)
    BY <2>1 DEF WithSlot
  <2> DEFINE n == Len(sockets)
  <2>3. /\ WithSlot(s) \in Seq(Slot) /\ Len(WithSlot(s)) = n + 1
        /\ WithSlot(s)[n + 1] = s
        /\ \A k \in 1..n : WithSlot(s)[k] = sockets[k]
    BY <1>1, <2>2
  <2>4. n \in 0..Len(sockets) /\ n \notin Slots
    BY <1>1 DEF Slots
  <2> QED BY <2>3, <2>4
<1> QED BY <1>2, <1>3

\* What a step that leaves the slots alone has to keep.
LEMMA SameSockets ==
  ASSUME SocketInv, UNCHANGED <<polling, sockets>>,
         waiting' \in [1..MaxOpen -> 0..MaxWaiting], output' \in Seq(Event), tokens' \in Seq(Nat),
         phase' \in {"work", "pop", "handle"}, scan' \in Nat,
         given' \in Event, known' \subseteq 1..MaxOpen,
         \A slot \in Taken :
           At(slot).id \in known' \/ \E k \in 1..Len(output') : output'[k] = Result(At(slot).id),
         OutputAnswers', AnsweredFirst', TokensTaken', Len(tokens') <= Len(sockets)
  PROVE  SocketInv'
<1>1. Slots' = Slots /\ Taken' = Taken /\ \A slot \in Slots : At(slot)' = At(slot)
  BY DEF Slots, Taken, At
<1>2. \A slot \in Taken : slot \in Slots
  BY DEF Taken
<1>3. TypeOK'
  BY <1>1, <1>2 DEF SocketInv, TypeOK
<1>4. Answering'
  BY <1>1, <1>2 DEF SocketInv, Answering
<1>5. TokensFit'
  BY DEF TokensFit
<1> QED BY <1>3, <1>4, <1>5 DEF SocketInv

\* A new socket, or the slot of one that the poller refuses.
LEMMA PlacedKeepsInv ==
  ASSUME SocketInv, NEW s \in Socket \cup {Vacant}, sockets' = WithSlot(s),
         UNCHANGED <<polling, waiting, tokens, phase, scan, given>>,
         s \in Socket => /\ ~Open(s.id) /\ s.id # given.id /\ known' = known \ {s.id}
                        /\ output' = Append(output, Result(s.id)),
         s = Vacant => output' = output /\ known' = known
  PROVE  SocketInv'
<1>1. /\ Len(sockets) \in Nat /\ s \in Slot /\ s # Waker
      /\ output \in Seq(Event)
      /\ s \in Socket => s.id \in 1..MaxOpen
  BY SlotTypes, SlotAssumption DEF SocketInv, TypeOK, Slot, Socket
<1>2. PICK n \in 0..Len(sockets) :
        /\ n \in Slots => At(n) = Vacant
        /\ sockets' \in Seq(Slot)
        /\ Len(sockets') = IF n = Len(sockets) THEN Len(sockets) + 1 ELSE Len(sockets)
        /\ sockets'[n + 1] = s
        /\ \A k \in 1..Len(sockets) : k # n + 1 => sockets'[k] = sockets[k]
  BY <1>1, WithSlotPlaces DEF SocketInv
<1>3. /\ Slots' = Slots \cup {n} /\ At(n)' = s
      /\ \A slot \in Slots : slot # n => At(slot)' = At(slot)
  BY <1>1, <1>2 DEF Slots, At
<1>4. n \notin Taken
  BY <1>2 DEF Taken, IsSocket
<1>5. Taken' = IF s = Vacant THEN Taken ELSE Taken \cup {n}
  <2>1. \A slot \in Slots : slot # n => (slot \in Taken' <=> slot \in Taken)
    BY <1>3 DEF Taken
  <2>2. n \in Taken' <=> s # Vacant
    BY <1>1, <1>3 DEF Taken, IsSocket
  <2>3. Taken \subseteq Slots /\ Taken' \subseteq Slots \cup {n}
    BY <1>3 DEF Taken
  <2>4. \A slot \in Slots \cup {n} : slot \in Taken' <=> slot \in Taken \/ (slot = n /\ s # Vacant)
    BY <1>4, <2>1, <2>2
  <2> QED BY <2>3, <2>4
<1>6. \A slot \in Taken : At(slot)' = At(slot)
  BY <1>3, <1>4 DEF Taken
<1>7. s \in Socket => \A slot \in Taken : At(slot).id # s.id
  BY DEF Open
<1>9. output' \in Seq(Event) /\ OutputAnswers'
  <2>1. CASE s = Vacant
    BY <1>1, <2>1 DEF SocketInv, OutputAnswers
  <2>2. CASE s \in Socket
    <3>1. Result(s.id) \in Event /\ Result(s.id).kind # "packet"
      BY <1>1, <2>2, EventKinds DEF Result
    <3> QED BY <1>1, <2>2, <3>1 DEF SocketInv, OutputAnswers
  <2> QED BY <2>1, <2>2
<1>10. Answering'
  <2>1. \A slot \in Taken : \/ At(slot)'.id \in known'
                            \/ \E k \in 1..Len(output') : output'[k] = Result(At(slot)'.id)
    <3> TAKE slot \in Taken
    <3>1. \A k \in 1..Len(output) : k \in 1..Len(output') /\ output'[k] = output[k]
      BY <1>1
    <3>2. At(slot).id \in known => At(slot).id \in known'
      BY <1>7
    <3> QED BY <1>6, <3>1, <3>2 DEF SocketInv, Answering
  <2>2. s # Vacant => \E k \in 1..Len(output') : output'[k] = Result(At(n)'.id)
    <3>1. s # Vacant => /\ output'[Len(output) + 1] = Result(s.id)
                        /\ Len(output) + 1 \in 1..Len(output')
      BY <1>1
    <3> QED BY <1>3, <3>1
  <2> QED BY <1>5, <2>1, <2>2 DEF Answering
<1>11. TypeOK'
  <2>1. \A i \in Slots' : At(i)' = Waker <=> polling' /\ i = 0
    <3>1. ASSUME NEW i \in Slots, i # n  PROVE At(i)' = Waker <=> polling' /\ i = 0
      BY <1>3, <3>1 DEF SocketInv, TypeOK
    <3>2. ~(polling' /\ n = 0)
      BY <1>1, <1>2, SlotAssumption DEF SocketInv, TypeOK, Slots
    <3> QED BY <1>1, <1>3, <3>1, <3>2
  <2>2. \A i, j \in Taken' : At(i)'.id = At(j)'.id => i = j
    BY <1>1, <1>3, <1>5, <1>6, <1>7 DEF SocketInv, TypeOK
  <2>3. polling' => sockets' # <<>>
    BY <1>1, <1>2 DEF SocketInv, TypeOK
  <2> QED BY <1>1, <1>2, <1>9, <2>1, <2>2, <2>3 DEF SocketInv, TypeOK, Slot
<1>12. AnsweredFirst' /\ TokensTaken' /\ TokensFit'
  BY <1>1, <1>2 DEF SocketInv, AnsweredFirst, TokensTaken, TokensFit, TypeOK
<1> QED BY <1>9, <1>10, <1>11, <1>12 DEF SocketInv

LEMMA SocketsInit == Init => SocketInv
<1> SUFFICES ASSUME Init  PROVE SocketInv
  OBVIOUS
<1>1. /\ polling \in BOOLEAN /\ sockets = IF polling THEN <<Waker>> ELSE <<>>
      /\ sockets \in Seq(Slot) /\ Len(sockets) = IF polling THEN 1 ELSE 0
  <2>1. polling \in BOOLEAN /\ sockets = IF polling THEN <<Waker>> ELSE <<>>
    BY BackendsAssumption DEF Init
  <2>2. CASE polling
    BY <2>1, <2>2 DEF Slot
  <2>3. CASE ~polling
    BY <2>1, <2>3
  <2> QED BY <2>1, <2>2, <2>3
<1>2. /\ Slots = IF polling THEN {0} ELSE {}
      /\ \A i \in Slots : i = 0 /\ At(i) = Waker
  <2>1. CASE polling
    BY <1>1, <2>1 DEF Slots, At
  <2>2. CASE ~polling
    <3>1. Len(sockets) = 0
      BY <1>1, <2>2
    <3>2. Slots = {}
      BY <3>1 DEF Slots
    <3> QED BY <2>2, <3>2
  <2> QED BY <2>1, <2>2
<1>3. Taken = {}
  BY <1>2 DEF Taken, IsSocket
<1>4. TypeOK
  BY <1>1, <1>2, <1>3, EventKinds, BoundsAssumption DEF Init, TypeOK, Slot
<1>5. /\ Answering /\ OutputAnswers /\ AnsweredFirst /\ TokensTaken
      /\ TokensFit
  BY <1>1, <1>3
  DEF Init, Answering, OutputAnswers, AnsweredFirst, TokensTaken, TokensFit, Nothing
<1> QED BY <1>4, <1>5 DEF SocketInv

LEMMA OpenKeepsInv ==
  ASSUME SocketInv, UdpListen \/ TunBind \/ RegisterFails \/ ListenFails
  PROVE  SocketInv'
<1>1. ASSUME NEW kind \in Kinds, Bind(kind)  PROVE SocketInv'
  <2>1. PICK id \in 1..MaxOpen :
          /\ ~Open(id) /\ id # given.id
          /\ sockets' = WithSlot([id |-> id, kind |-> kind])
          /\ output' = Append(output, Result(id))
          /\ known' = known \ {id}
    BY <1>1 DEF Bind
  <2> DEFINE s == [id |-> id, kind |-> kind]
  <2>2. s \in Socket /\ s # Vacant /\ s.id = id
    BY SlotAssumption DEF Socket
  <2>3. sockets' = WithSlot(s) /\ UNCHANGED <<polling, waiting, tokens, phase, scan, given>>
    BY <1>1, <2>1 DEF Bind
  <2> HIDE DEF s
  <2> QED BY <2>1, <2>2, <2>3, PlacedKeepsInv
<1>2. CASE RegisterFails
  <2>1. sockets' = WithSlot(Vacant) /\ output' = output
        /\ UNCHANGED <<polling, waiting, tokens, phase, scan, given, known>>
    BY <1>2 DEF RegisterFails
  <2> QED BY <2>1, SlotAssumption, PlacedKeepsInv
<1>3. CASE ListenFails
  <2>1. /\ output' = Append(output, Failure)
        /\ UNCHANGED <<polling, sockets, waiting, tokens, phase, scan, given, known>>
    BY <1>3 DEF ListenFails
  <2>2. Slots' = Slots /\ Taken' = Taken /\ \A slot \in Slots : At(slot)' = At(slot)
    BY <2>1 DEF Slots, Taken, At
  <2>3. \A slot \in Taken : slot \in Slots /\ At(slot).id \in Nat
    BY SlotTypes DEF SocketInv
  <2>4. output \in Seq(Event) /\ Failure \in Event /\ Failure.kind # "packet"
    BY EventKinds DEF SocketInv, TypeOK, Failure
  <2>5. /\ output' \in Seq(Event) /\ Len(output') = Len(output) + 1
        /\ \A k \in 1..Len(output) : k \in 1..Len(output') /\ output'[k] = output[k]
        /\ output'[Len(output) + 1] = Failure
    BY <2>1, <2>4
  <2>6. TypeOK'
    BY <2>1, <2>2, <2>3, <2>5 DEF SocketInv, TypeOK
  <2>7. OutputAnswers' /\ Answering'
    <3>1. OutputAnswers'
      BY <2>4, <2>5 DEF SocketInv, OutputAnswers
    <3>2. Answering'
      BY <2>1, <2>2, <2>3, <2>5 DEF SocketInv, Answering
    <3> QED BY <3>1, <3>2
  <2>8. AnsweredFirst' /\ TokensTaken' /\ TokensFit'
    BY <2>1 DEF SocketInv, AnsweredFirst, TokensTaken, TokensFit
  <2> QED BY <2>6, <2>7, <2>8 DEF SocketInv
<1> QED BY <1>1, <1>2, <1>3 DEF UdpListen, TunBind

LEMMA CloseKeepsInv ==
  ASSUME SocketInv, NEW slot \in Slots, Close(slot)
  PROVE  SocketInv'
<1>1. /\ sockets \in Seq(Slot) /\ Len(sockets) \in Nat /\ Vacant \in Slot
      /\ slot \in Taken /\ slot \in Nat /\ slot + 1 \in 1..Len(sockets) /\ At(slot).id \in 1..MaxOpen
  BY SlotTypes DEF SocketInv, Close, Slot
<1>2. sockets' = [sockets EXCEPT ![slot + 1] = Vacant]
      /\ UNCHANGED <<polling, output, tokens, phase, scan, given, known>>
  BY DEF Close
<1>3. /\ sockets' \in Seq(Slot) /\ Len(sockets') = Len(sockets) /\ sockets'[slot + 1] = Vacant
      /\ \A k \in 1..Len(sockets) : k # slot + 1 => sockets'[k] = sockets[k]
  BY <1>1, <1>2
<1>4. Slots' = Slots /\ At(slot)' = Vacant /\ \A i \in Slots : i # slot => At(i)' = At(i)
  BY <1>1, <1>3 DEF Slots, At
<1>5. Taken' = Taken \ {slot} /\ \A i \in Taken' : i \in Taken /\ At(i)' = At(i)
  BY <1>1, <1>4 DEF Taken, IsSocket
<1>6. waiting' \in [1..MaxOpen -> 0..MaxWaiting]
  BY <1>1, BoundsAssumption DEF SocketInv, TypeOK, Close
<1>7. \A i \in Slots' : At(i)' = Waker <=> polling' /\ i = 0
  <2>1. At(slot) # Waker /\ Vacant # Waker
    BY <1>1, SlotAssumption DEF Taken, IsSocket
  <2> QED BY <1>2, <1>4, <2>1 DEF SocketInv, TypeOK
<1>8. TypeOK'
  <2>1. polling' => sockets' # <<>>
    BY <1>1, <1>2, <1>3 DEF SocketInv, TypeOK
  <2>2. \A i, j \in Taken' : At(i)'.id = At(j)'.id => i = j
    BY <1>5 DEF SocketInv, TypeOK
  <2> QED BY <1>2, <1>3, <1>6, <1>7, <2>1, <2>2 DEF SocketInv, TypeOK, Slot
<1>9. Answering'
  BY <1>2, <1>5 DEF SocketInv, Answering
<1>10. OutputAnswers' /\ AnsweredFirst' /\ TokensTaken' /\ TokensFit'
  BY <1>2, <1>3 DEF SocketInv, OutputAnswers, AnsweredFirst, TokensTaken, TokensFit
<1> QED BY <1>8, <1>9, <1>10 DEF SocketInv

\* The poller reports at most one token for each slot but the waker's.
LEMMA WaitKeepsInv ==
  ASSUME SocketInv, Wait
  PROVE  SocketInv'
<1> DEFINE ready == {slot \in Slots : Readable(slot)}
<1>1. PICK awake \in {<<>>, <<0>>}, order \in Orders(ready) : tokens' = tokens \o awake \o order
  BY DEF Wait
<1>2. Len(sockets) \in Nat /\ Len(sockets) > 0
  BY SlotTypes DEF SocketInv, TypeOK, Wait
<1>3. IsFiniteSet(ready) /\ Cardinality(ready) \in Nat /\ Cardinality(ready) <= Len(sockets) - 1
  <2>1. ready \subseteq 1..(Len(sockets) - 1)
    <3> SUFFICES ASSUME NEW slot \in ready  PROVE slot \in 1..(Len(sockets) - 1)
      OBVIOUS
    <3>1. At(slot) # Waker
      BY DEF Readable, Reads, Taken, IsSocket
    <3>2. slot # 0
      BY <3>1 DEF SocketInv, TypeOK, Wait
    <3> QED BY <1>2, <3>2 DEF Slots
  <2>2. /\ IsFiniteSet(1..(Len(sockets) - 1))
        /\ Cardinality(1..(Len(sockets) - 1)) = Len(sockets) - 1
    <3>1. 1 \in Int /\ Len(sockets) - 1 \in Int
      BY <1>2
    <3> HIDE DEF ready
    <3>2. /\ IsFiniteSet(1..(Len(sockets) - 1))
          /\ Cardinality(1..(Len(sockets) - 1)) =
               IF 1 > Len(sockets) - 1 THEN 0 ELSE (Len(sockets) - 1) - 1 + 1
      BY <3>1, FS_Interval
    <3> QED BY <1>2, <3>2
  <2> HIDE DEF ready
  <2>3. IsFiniteSet(ready) /\ Cardinality(ready) <= Cardinality(1..(Len(sockets) - 1))
    BY <2>1, <2>2, FS_Subset
  <2> QED BY <2>2, <2>3, FS_CardinalityType
<1>4. order \in Seq(Nat) /\ Len(order) = Cardinality(ready)
  <2>1. order \in [1..Cardinality(ready) -> ready]
    BY DEF Orders
  <2>2. ready \subseteq Nat
    BY SlotTypes DEF SocketInv
  <2>3. order \in [1..Cardinality(ready) -> Nat]
    <3> HIDE DEF ready
    <3> QED BY <2>1, <2>2
  <2> HIDE DEF ready
  <2>4. order \in Seq(Nat)
    BY <1>3, <2>3, SeqDef
  <2> QED BY <1>3, <2>1, <2>4
<1>5. tokens = <<>> /\ awake \in Seq(Nat) /\ Len(awake) <= 1
  <2>1. tokens = <<>>
    BY DEF SocketInv, TokensTaken, Wait
  <2>2. awake \in Seq(Nat) /\ Len(awake) <= 1
    <3>1. CASE awake = <<>>
      BY <3>1
    <3>2. CASE awake = <<0>>
      BY <3>2
    <3> QED BY <3>1, <3>2
  <2> QED BY <2>1, <2>2
<1>6. tokens' \in Seq(Nat) /\ Len(tokens') <= Len(sockets)
  <2> HIDE DEF ready
  <2>1. tokens' \in Seq(Nat) /\ Len(tokens') = Len(awake) + Len(order)
    BY <1>1, <1>4, <1>5
  <2> QED BY <1>2, <1>3, <1>4, <1>5, <2>1
<1>7. /\ UNCHANGED <<polling, sockets, waiting, output, scan, given, known>>
      /\ phase' = "pop" /\ polling
  BY DEF Wait
<1>8. OutputAnswers' /\ AnsweredFirst' /\ TokensTaken'
  BY <1>7 DEF SocketInv, OutputAnswers, AnsweredFirst, TokensTaken
<1> QED BY <1>6, <1>7, <1>8, SameSockets DEF SocketInv, TypeOK, Answering

\* An answer waits until it is handed out, and makes its socket known then.
LEMMA PopOutputKeepsInv ==
  ASSUME SocketInv, PopOutput
  PROVE  SocketInv'
<1> DEFINE e == Head(output)
<1>1. /\ output \in Seq(Event) /\ output # <<>> /\ output' = Tail(output)
      /\ given' = e /\ phase' = "handle"
      /\ known' = IF e.kind = "result" THEN known \cup {e.id} ELSE known
      /\ UNCHANGED <<polling, sockets, waiting, tokens, scan>>
  BY DEF SocketInv, TypeOK, PopOutput, HandOut
<1>2. /\ e \in Event /\ e = output[1] /\ Len(output) \in Nat \ {0}
      /\ output' \in Seq(Event) /\ Len(output') = Len(output) - 1
      /\ \A k \in 1..(Len(output) - 1) : output'[k] = output[k + 1]
  BY <1>1
<1>3. known' \subseteq 1..MaxOpen /\ known \subseteq known'
  BY <1>1, <1>2, EventKinds DEF SocketInv, TypeOK
<1>4. OutputAnswers' /\ AnsweredFirst'
  <2>1. e.kind # "packet"
    BY <1>2 DEF SocketInv, OutputAnswers
  <2>2. OutputAnswers'
    BY <1>2 DEF SocketInv, OutputAnswers
  <2> QED BY <1>1, <2>1, <2>2 DEF AnsweredFirst
<1>5. ASSUME NEW slot \in Taken
      PROVE  At(slot).id \in known' \/ \E k \in 1..Len(output') : output'[k] = Result(At(slot).id)
  <2>1. CASE At(slot).id \in known
    BY <1>3, <2>1
  <2>2. CASE \E k \in 1..Len(output) : output[k] = Result(At(slot).id)
    <3>1. PICK k \in 1..Len(output) : output[k] = Result(At(slot).id)
      BY <2>2
    <3>2. CASE k = 1
      BY <1>1, <1>2, <3>1, <3>2 DEF Result
    <3>3. CASE k # 1
      <4>1. k - 1 \in 1..(Len(output) - 1) /\ output'[k - 1] = output[k]
        BY <1>2, <3>3
      <4> QED BY <1>2, <3>1, <4>1
    <3> QED BY <3>2, <3>3
  <2> QED BY <2>1, <2>2 DEF SocketInv, Answering
<1>6. TokensTaken'
  BY <1>1 DEF SocketInv, TokensTaken
<1>7. scan' \in Nat /\ tokens' \in Seq(Nat) /\ Len(tokens') <= Len(sockets)
      /\ waiting' \in [1..MaxOpen -> 0..MaxWaiting]
  BY <1>1 DEF SocketInv, TypeOK, TokensFit
<1> HIDE DEF e
<1> QED BY <1>1, <1>2, <1>3, <1>4, <1>5, <1>6, <1>7, SameSockets

\* With the output empty, every socket there is has been answered for: a packet
\* that is read belongs to one.
LEMMA ReadKeepsInv ==
  ASSUME SocketInv, OutputDone, NEW slot \in Nat, Read(slot),
         UNCHANGED <<polling, sockets, output, known>>,
         scan' \in Nat, tokens' \in Seq(Nat), Len(tokens') <= Len(sockets),
         polling \/ tokens' = <<>>
  PROVE  SocketInv'
<1>1. slot \in Taken /\ At(slot).id \in 1..MaxOpen /\ waiting[At(slot).id] > 0
  BY SlotTypes DEF SocketInv, Read, Readable, Reads
<1> DEFINE i == At(slot).id
<1>2. /\ waiting' = [waiting EXCEPT ![i] = waiting[i] - 1]
      /\ given' = Packet(i) /\ phase' = "handle" /\ output = <<>>
  BY DEF Read, HandOut, OutputDone
<1> HIDE DEF i
<1>3. i \in 1..MaxOpen /\ waiting[i] > 0
  BY <1>1 DEF i
<1>4. waiting' \in [1..MaxOpen -> 0..MaxWaiting]
  <2>1. waiting \in [1..MaxOpen -> 0..MaxWaiting]
    BY DEF SocketInv, TypeOK
  <2>2. waiting[i] - 1 \in 0..MaxWaiting
    BY <1>3, <2>1, BoundsAssumption
  <2> QED BY <1>2, <2>1, <2>2
<1>5. i \in known
  BY <1>1, <1>2 DEF SocketInv, Answering, i
<1>6. AnsweredFirst'
  BY <1>2, <1>5 DEF AnsweredFirst, Packet
<1>7. given' \in Event
  BY <1>2, <1>3, EventKinds
<1>8. OutputAnswers' /\ TokensTaken'
  BY <1>2 DEF SocketInv, OutputAnswers, TokensTaken
<1>9. output' \in Seq(Event) /\ known' \subseteq 1..MaxOpen
      /\ \A other \in Taken :
           At(other).id \in known' \/ \E k \in 1..Len(output') : output'[k] = Result(At(other).id)
  BY DEF SocketInv, TypeOK, Answering
<1> QED BY <1>2, <1>4, <1>6, <1>7, <1>8, <1>9, SameSockets

\* The steps that take tokens, or change nothing but where the loop is.
LEMMA QuietKeepsInv ==
  ASSUME SocketInv, UNCHANGED <<polling, sockets, known>>,
         waiting' \in [1..MaxOpen -> 0..MaxWaiting], tokens' \in Seq(Nat),
         Len(tokens') <= Len(sockets), TokensTaken',
         phase' \in {"work", "pop", "handle"}, scan' \in Nat,
         given' \in {given, Awake}, output' \in {output, <<Awake>>},
         output' = <<Awake>> => output \in {<<>>, <<Awake>>}
  PROVE  SocketInv'
<1>1. given' \in Event /\ AnsweredFirst'
  <2>1. given' \in Event
    BY EventKinds DEF SocketInv, TypeOK
  <2>2. CASE given' = given
    BY <2>1, <2>2 DEF SocketInv, AnsweredFirst
  <2>3. CASE given' = Awake
    BY <2>1, <2>3 DEF AnsweredFirst, Awake
  <2> QED BY <2>1, <2>2, <2>3
<1>2. /\ output' \in Seq(Event) /\ OutputAnswers'
      /\ \A slot \in Taken :
           At(slot).id \in known' \/ \E k \in 1..Len(output') : output'[k] = Result(At(slot).id)
  <2>1. CASE output' = output
    BY <2>1 DEF SocketInv, TypeOK, OutputAnswers, Answering
  <2>2. CASE output' # output
    <3>1. output' = <<Awake>> /\ output = <<>>
      BY <2>2
    <3>2. output' \in Seq(Event) /\ OutputAnswers'
      BY <3>1, EventKinds DEF OutputAnswers, Awake
    <3>3. \A slot \in Taken : At(slot).id \in known'
      BY <3>1 DEF SocketInv, Answering
    <3> QED BY <3>2, <3>3
  <2> QED BY <2>1, <2>2
<1>3. known' \subseteq 1..MaxOpen
  BY DEF SocketInv, TypeOK
<1> QED BY <1>1, <1>2, <1>3, SameSockets

LEMMA SocketsStep == SocketInv /\ [Next]_vars => SocketInv'
<1> SUFFICES ASSUME SocketInv, [Next]_vars  PROVE SocketInv'
  OBVIOUS
<1>1. /\ tokens \in Seq(Nat) /\ Len(tokens) \in Nat /\ Len(sockets) \in Nat /\ Len(tokens) <= Len(sockets)
      /\ waiting \in [1..MaxOpen -> 0..MaxWaiting] /\ scan \in Nat /\ phase \in {"work", "pop", "handle"}
      /\ (phase = "work" \/ ~polling) => tokens = <<>>
  BY SlotTypes DEF SocketInv, TypeOK, TokensFit, TokensTaken
<1>2. tokens # <<>> => /\ Head(tokens) \in Nat /\ Tail(tokens) \in Seq(Nat)
                       /\ Len(Tail(tokens)) <= Len(sockets)
  BY <1>1
<1>3. CASE UdpListen \/ TunBind \/ ListenFails \/ RegisterFails
  BY <1>3, OpenKeepsInv
<1>4. CASE \E slot \in Slots : UdpUnlisten(slot) \/ TunUnbind(slot)
  BY <1>4, CloseKeepsInv DEF UdpUnlisten, TunUnbind
<1>5. CASE \E slot \in Slots : Arrive(slot)
  <2>1. PICK slot \in Slots : Arrive(slot)
    BY <1>5
  <2>2. At(slot).id \in 1..MaxOpen
    BY <2>1, SlotTypes DEF SocketInv, Arrive
  <2> DEFINE i == At(slot).id
  <2>3. /\ waiting' = [waiting EXCEPT ![i] = waiting[i] + 1] /\ waiting[i] < MaxWaiting
        /\ UNCHANGED <<polling, sockets, output, tokens, phase, scan, given, known>>
    BY <2>1 DEF Arrive
  <2> HIDE DEF i
  <2>4. waiting[i] + 1 \in 0..MaxWaiting
    <3>1. waiting[i] \in 0..MaxWaiting
      BY <1>1, <2>2 DEF i
    <3> QED BY <2>3, <3>1, BoundsAssumption
  <2>5. waiting' \in [1..MaxOpen -> 0..MaxWaiting]
    BY <1>1, <2>3, <2>4
  <2> QED BY <1>1, <2>3, <2>5, QuietKeepsInv DEF TokensTaken
<1>6. CASE Wait
  BY <1>6, WaitKeepsInv
<1>7. CASE WaitFails \/ PopNone \/ Handled
  <2>1. UNCHANGED <<polling, sockets, waiting, output, tokens, scan, given, known>>
        /\ phase' \in {"work", "pop", "handle"} /\ ((phase' = "work" \/ ~polling) => tokens = <<>>)
    BY <1>1, <1>7 DEF WaitFails, PopNone, Handled
  <2> QED BY <1>1, <2>1, QuietKeepsInv DEF TokensTaken
<1>8. CASE Sleep
  <2>1. /\ UNCHANGED <<polling, sockets, waiting, tokens, scan, given, known>>
        /\ phase' = "pop" /\ ~polling
        /\ output' = IF output = <<>> THEN <<Awake>> ELSE output
    BY <1>8 DEF Sleep
  <2> QED BY <1>1, <2>1, QuietKeepsInv DEF TokensTaken
<1>9. CASE PopOutput
  BY <1>9, PopOutputKeepsInv
<1>10. CASE PopWaker
  <2>1. /\ tokens # <<>> /\ tokens' = Tail(tokens) /\ given' = Awake /\ phase' = "handle" /\ polling
        /\ UNCHANGED <<polling, sockets, waiting, output, scan, known>>
    BY <1>10 DEF PopWaker, NextToken, HandOut
  <2> QED BY <1>1, <1>2, <2>1, QuietKeepsInv DEF TokensTaken
<1>11. CASE PopUdp \/ PopTun
  <2>1. OutputDone /\ polling /\ Read(Head(tokens)) /\ tokens # <<>> /\ tokens' \in {tokens, Tail(tokens)}
        /\ UNCHANGED <<polling, sockets, output, scan, known>>
    BY <1>11 DEF PopUdp, PopTun, NextToken
  <2>2. scan' \in Nat /\ tokens' \in Seq(Nat) /\ Len(tokens') <= Len(sockets) /\ Head(tokens) \in Nat
    BY <1>1, <1>2, <2>1
  <2> QED BY <2>1, <2>2, ReadKeepsInv
<1>12. CASE PopUdpEmpty
  <2>1. /\ tokens' = SubSeq(tokens, 3, Len(tokens)) /\ polling /\ tokens # <<>> /\ phase = "pop"
        /\ UNCHANGED <<polling, sockets, waiting, output, phase, scan, given, known>>
    BY <1>12 DEF PopUdpEmpty, NextToken, OutputDone
  <2>2. tokens' \in Seq(Nat) /\ Len(tokens') <= Len(tokens)
    BY <1>1, <2>1
  <2>3. Len(tokens') <= Len(sockets)
    BY <1>1, <2>2
  <2> QED BY <1>1, <2>1, <2>2, <2>3, QuietKeepsInv DEF TokensTaken
<1>13. CASE PopUseless
  <2>1. /\ tokens' = Tail(tokens) /\ polling /\ tokens # <<>> /\ phase = "pop"
        /\ UNCHANGED <<polling, sockets, waiting, output, phase, scan, given, known>>
    BY <1>13 DEF PopUseless, NextToken, OutputDone
  <2> QED BY <1>1, <1>2, <2>1, QuietKeepsInv DEF TokensTaken
<1>14. CASE ScanRead
  <2>1. OutputDone /\ ~polling /\ Read(scan) /\ scan' = 0 /\ tokens' = <<>>
        /\ UNCHANGED <<polling, sockets, output, tokens, known>>
    BY <1>1, <1>14 DEF ScanRead
  <2> QED BY <1>1, <2>1, ReadKeepsInv
<1>15. CASE ScanOn
  <2>1. /\ scan' \in Nat /\ phase' \in {"work", "pop", "handle"} /\ ~polling
        /\ UNCHANGED <<polling, sockets, waiting, output, tokens, given, known>>
    BY <1>1, <1>15 DEF ScanOn
  <2> QED BY <1>1, <2>1, QuietKeepsInv DEF TokensTaken
<1>16. CASE UNCHANGED vars
  BY <1>1, <1>16, QuietKeepsInv DEF vars, TokensTaken
<1> QED BY <1>3, <1>4, <1>5, <1>6, <1>7, <1>8, <1>9, <1>10, <1>11, <1>12, <1>13, <1>14, <1>15, <1>16
    DEF Next, Pop

LEMMA SocketsInvariant == Spec => []SocketInv
BY SocketsInit, SocketsStep, PTL DEF Spec

-----------------------------------------------------------------------------
\* The slots hold what they should: the waker where the poller expects it, and
\* no socket twice.
THEOREM SocketTypes == Spec => []TypeOK
<1>1. SocketInv => TypeOK
  BY DEF SocketInv
<1> QED BY <1>1, SocketsInvariant, PTL

\* No packet is handed out before the answer that names its slot.
THEOREM AnswersComeFirst == Spec => []AnsweredFirst
<1>1. SocketInv => AnsweredFirst
  BY DEF SocketInv
<1> QED BY <1>1, SocketsInvariant, PTL

\* The token queue never holds more tokens than there are slots.
THEOREM TokensAlwaysFit == Spec => []TokensFit
<1>1. SocketInv => TokensFit
  BY DEF SocketInv
<1> QED BY <1>1, SocketsInvariant, PTL
=============================================================================
