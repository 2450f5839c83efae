--------------------------- MODULE TaskGroupProofs ---------------------------
(***************************************************************************)
(* What a group of tasks keeps apart from its slots (the count, the set of *)
(* empty tasks, the flags) agrees with them, for any number of slots and   *)
(* outputs and any size of a byte.                                         *)
(***************************************************************************)
EXTENDS TaskGroup, CountingLemmas, SequenceTheorems

Slot == Container \cup {Vacant}

\* With the type invariant, what makes it inductive: a task that counts as
\* empty is there, so that trimming the slots leaves no index behind.
GroupTypes == TypeOK /\ emptyTasks \subseteq Occupied

-----------------------------------------------------------------------------
\* What first_set_index finds: the least visible bit, if there is one.
LEMMA FirstSetFinds ==
  ASSUME NEW b \in BitVecs
  PROVE  /\ FirstSet(b) = NoBit <=> Visible(b) = {}
         /\ FirstSet(b) # NoBit => /\ FirstSet(b) \in Visible(b)
                                   /\ \A j \in Visible(b) : FirstSet(b) <= j
<1>1. Visible(b) \in SUBSET Nat
  BY DEF Visible, BitVecs
<1>2. CASE Visible(b) = {}
  BY <1>2 DEF FirstSet
<1>3. CASE Visible(b) # {}
  <2>1. \E i \in Visible(b) : \A j \in Visible(b) : i <= j
    BY <1>1, <1>3, LeastOf
  <2>2. FirstSet(b) \in Visible(b) /\ \A j \in Visible(b) : FirstSet(b) <= j
    BY <2>1, <1>3 DEF FirstSet
  <2> QED BY <2>2, <1>1, <1>3, NoBitAssumption
<1> QED BY <1>2, <1>3

\* set_len keeps the bits, and gets the bytes for the new length.
LEMMA SetLenKeeps ==
  ASSUME NEW b \in BitVecs, b.set \subseteq Room(b), b.len <= b.bytes * ByteBits,
         NEW n \in Nat
  PROVE  LET c == SetLen(b, n)
         IN  /\ c \in BitVecs /\ c.set = b.set /\ c.len = n
             /\ c.set \subseteq Room(c)
             /\ c.len <= c.bytes * ByteBits
<1> DEFINE c == SetLen(b, n)
           more == n \div ByteBits + 1
<1>1. more \in Nat \ {0} /\ more * ByteBits > n
  BY WholeBytes, ByteBitsAssumption
<1>2. b.bytes \in Nat \ {0} /\ b.set \in SUBSET Nat /\ b.bytes * ByteBits \in Nat
  BY ByteBitsAssumption DEF BitVecs
<1>3. /\ c = [b EXCEPT !.len = n, !.bytes = c.bytes]
      /\ c.set = b.set /\ c.len = n
      /\ c.bytes = IF n > b.bytes * ByteBits THEN more ELSE b.bytes
  BY DEF SetLen, BitVecs
<1>4. c \in BitVecs /\ c.set = b.set /\ c.len = n
  BY <1>1, <1>2, <1>3 DEF BitVecs
<1>5. c.len <= c.bytes * ByteBits /\ b.bytes * ByteBits <= c.bytes * ByteBits
  <2> HIDE DEF more
  <2>1. more * ByteBits \in Nat
    BY <1>1, ByteBitsAssumption
  <2>2. CASE n > b.bytes * ByteBits
    BY <2>1, <2>2, <1>1, <1>2, <1>3
  <2>3. CASE ~(n > b.bytes * ByteBits)
    BY <2>3, <1>2, <1>3
  <2> QED BY <2>2, <2>3
<1>6. c.set \subseteq Room(c)
  <2>1. c.bytes * ByteBits \in Nat
    BY <1>4, ByteBitsAssumption DEF BitVecs
  <2> HIDE DEF c
  <2> QED BY <2>1, <1>2, <1>4, <1>5 DEF Room
<1> QED BY <1>4, <1>5, <1>6

\* The slots that are left when the vacant ones at the end are gone.
LEMMA TrimmedKeeps ==
  ASSUME NEW s \in Seq(Slot)
  PROVE  LET r == Trimmed(s)
         IN  /\ r \in Seq(Slot) /\ Len(r) <= Len(s)
             /\ \A k \in 1..Len(r) : r[k] = s[k]
             /\ \A k \in (Len(r) + 1)..Len(s) : s[k] = Vacant
             /\ r # <<>> => r[Len(r)] # Vacant
<1> DEFINE Fits(n) == /\ \A k \in (n + 1)..Len(s) : s[k] = Vacant
                      /\ n > 0 => s[n] # Vacant
           T == {n \in 0..Len(s) : \A k \in (n + 1)..Len(s) : s[k] = Vacant}
           last == CHOOSE n \in 0..Len(s) : Fits(n)
<1>1. PICK m \in T : \A n \in T : m <= n
  <2>1. Len(s) \in T /\ T \in SUBSET Nat
    OBVIOUS
  <2> QED BY <2>1, LeastOf
<1>2. Fits(m)
  <2>1. ASSUME m > 0, s[m] = Vacant  PROVE FALSE
    <3>1. m \in Nat /\ m - 1 \in T
      BY <2>1
    <3>2. m <= m - 1
      BY <3>1, <1>1
    <3> QED BY <3>1, <3>2
  <2> QED BY <2>1
<1>3. last \in 0..Len(s) /\ Fits(last)
  BY <1>2
<1>4. Trimmed(s) = SubSeq(s, 1, last)
  BY DEF Trimmed
<1> HIDE DEF last
<1>5. /\ Trimmed(s) \in Seq(Slot) /\ Len(Trimmed(s)) = last
      /\ \A k \in 1..last : Trimmed(s)[k] = s[k]
  BY <1>3, <1>4
<1> QED BY <1>3, <1>5

\* What the type invariant says of a slot and of a flag.
LEMMA SlotTypes ==
  ASSUME GroupTypes
  PROVE  /\ slots \in Seq(Slot) /\ Len(slots) \in Nat /\ Index \in SUBSET Nat
         /\ \A i \in Index : i + 1 \in 1..Len(slots) /\ At(i) \in Slot
         /\ \A i \in Occupied : i \in Index /\ At(i) \in Container
         /\ Visible(flags) \subseteq Index
<1>1. slots \in Seq(Slot) /\ Len(slots) \in Nat
  BY DEF GroupTypes, TypeOK, Slot
<1>2. \A i \in Index : i \in Nat /\ i + 1 \in 1..Len(slots) /\ At(i) \in Slot
  BY <1>1 DEF Index, At
<1>3. \A i \in Occupied : i \in Index /\ At(i) \in Container
  BY <1>2 DEF Occupied, Slot
<1>4. Visible(flags) \subseteq Index
  BY <1>1 DEF GroupTypes, TypeOK, Visible, Index, BitVecs
<1> QED BY <1>1, <1>2, <1>3, <1>4

\* The pass of pop_output over the flags: it finishes tasks with no news, and
\* stops at one that has news.
LEMMA PassFinds ==
  ASSUME GroupTypes
  PROVE  /\ FlagsAfterPass = [flags EXCEPT !.set = flags.set \ Passed]
         /\ FlagsAfterPass \in BitVecs
         /\ Passed \subseteq Visible(flags)
         /\ Visible(FlagsAfterPass) = Visible(flags) \ Passed
         /\ \A i \in Passed : ~HasNews(i)
         /\ FirstSet(FlagsAfterPass) = NoBit => Visible(FlagsAfterPass) = {}
         /\ FirstSet(FlagsAfterPass) # NoBit =>
              /\ FirstSet(FlagsAfterPass) \in Visible(flags) \ Passed
              /\ HasNews(FirstSet(FlagsAfterPass))
<1> DEFINE after == FlagsAfterPass
           i == FirstSet(after)
<1>1. Passed \subseteq Visible(flags) /\ Visible(flags) \in SUBSET Nat
  BY SlotTypes DEF Passed
<1>2. /\ after = [flags EXCEPT !.set = flags.set \ Passed] /\ after \in BitVecs
      /\ after.set = flags.set \ Passed /\ after.len = flags.len
  BY DEF GroupTypes, TypeOK, FlagsAfterPass, ClearBits, BitVecs
<1>3. Visible(after) = Visible(flags) \ Passed
  BY <1>2 DEF Visible
<1>4. \A j \in Passed : ~HasNews(j)
  BY <1>1 DEF Passed
<1>5. /\ i = NoBit => Visible(after) = {}
      /\ i # NoBit => i \in Visible(after) /\ \A j \in Visible(after) : i <= j
  <2> HIDE DEF after
  <2> QED BY <1>2, FirstSetFinds
<1> HIDE DEF i, after
<1>6. ASSUME i # NoBit  PROVE HasNews(i)
  <2>1. i \in Visible(flags) /\ i \notin Passed
    BY <1>3, <1>5, <1>6
  <2>2. PICK j \in Visible(flags) : j <= i /\ HasNews(j)
    BY <2>1 DEF Passed
  <2>3. j \in Visible(after)
    BY <2>2, <1>3, <1>4
  <2>4. i <= j /\ i \in Nat /\ j \in Nat
    BY <2>1, <2>3, <1>1, <1>5, <1>6
  <2>5. i = j
    BY <2>2, <2>4
  <2> QED BY <2>2, <2>5
<1> QED BY <1>1, <1>2, <1>3, <1>4, <1>5, <1>6 DEF i, after

\* The tasks it passes keep their slots; an announcement that no longer holds
\* is taken back.
LEMMA PassKeepsSlots ==
  ASSUME GroupTypes
  PROVE  /\ SlotsAfterPass \in Seq(Slot) /\ Len(SlotsAfterPass) = Len(slots)
         /\ TakenBack \subseteq Occupied /\ TakenBack \subseteq Passed
         /\ \A k \in 1..Len(slots) :
              SlotsAfterPass[k] = IF k - 1 \in TakenBack THEN [slots[k] EXCEPT !.told = FALSE]
                                  ELSE slots[k]
         /\ \A k \in 1..Len(slots) : SlotsAfterPass[k] = Vacant <=> slots[k] = Vacant
<1>1. slots \in Seq(Slot) /\ TakenBack \subseteq Occupied /\ TakenBack \subseteq Passed
  BY SlotTypes DEF TakenBack
<1>2. \A k \in 1..Len(slots) :
        /\ SlotsAfterPass[k] = IF k - 1 \in TakenBack THEN [slots[k] EXCEPT !.told = FALSE]
                               ELSE slots[k]
        /\ SlotsAfterPass[k] \in Slot
        /\ SlotsAfterPass[k] = Vacant <=> slots[k] = Vacant
  <2> TAKE k \in 1..Len(slots)
  <2>1. slots[k] \in Slot
    BY <1>1
  <2>2. CASE k - 1 \in TakenBack
    <3>1. slots[k] \in Container
      BY <1>1, <2>2, SlotTypes DEF At
    <3>2. [slots[k] EXCEPT !.told = FALSE] \in Container
      BY <3>1 DEF Container
    <3>3. SlotsAfterPass[k] = [slots[k] EXCEPT !.told = FALSE]
      <4>1. k \in DOMAIN slots
        BY <1>1
      <4> QED BY <2>2, <4>1, Zenon DEF SlotsAfterPass
    <3>4. slots[k] # Vacant /\ SlotsAfterPass[k] # Vacant
      BY <3>1, <3>2, <3>3, VacantAssumption
    <3> QED BY <2>2, <3>2, <3>3, <3>4 DEF Slot
  <2>3. CASE k - 1 \notin TakenBack
    BY <1>1, <2>1, <2>3 DEF SlotsAfterPass
  <2> QED BY <2>2, <2>3
<1>3. SlotsAfterPass \in Seq(Slot) /\ Len(SlotsAfterPass) = Len(slots)
  <2>1. SlotsAfterPass = [k \in 1..Len(slots) |-> SlotsAfterPass[k]]
    BY <1>1 DEF SlotsAfterPass
  <2>2. SlotsAfterPass \in [1..Len(slots) -> Slot] /\ Len(slots) \in Nat
    BY <1>1, <1>2, <2>1
  <2> QED BY <2>2, SeqDef
<1> QED BY <1>1, <1>2, <1>3

\* add_task takes a vacant slot or one behind the last; set_task, called with
\* care, does too: the slots there were before keep their tasks.
LEMMA AddTaskPlaces ==
  ASSUME GroupTypes, NEW t \in NewTasks, AddTask(t)
  PROVE  /\ GroupTypes'
         /\ \E i \in Nat \ Occupied : /\ Occupied' = Occupied \cup {i} /\ At(i)' = t
                                      /\ \A k \in Occupied : At(k)' = At(k)
         /\ Visible(flags) \subseteq Visible(flags)'
<1>1. /\ slots \in Seq(Slot) /\ Len(slots) \in Nat /\ Len(slots) <= MaxSlots
      /\ t \in Slot /\ t # Vacant /\ t.told = FALSE
  BY SlotTypes, VacantAssumption DEF GroupTypes, TypeOK, NewTasks, Container, Slot
<1>2. CASE \E i \in Index : At(i) = Vacant
  <2> DEFINE first == CHOOSE j \in Index : At(j) = Vacant /\ \A k \in 0..(j - 1) : At(k) # Vacant
             Gaps == {j \in Index : At(j) = Vacant}
  <2>0. PICK i \in Index : i = first /\ At(i) = Vacant
    <3>1. PICK j \in Gaps : \A k \in Gaps : j <= k
      <4>1. Gaps \in SUBSET Nat /\ Gaps # {}
        BY <1>2, SlotTypes
      <4> QED BY <4>1, LeastOf
    <3>2. j \in Index /\ At(j) = Vacant /\ \A k \in 0..(j - 1) : At(k) # Vacant
      BY <1>1, <3>1 DEF Index
    <3> QED BY <3>2
  <2>1. i \in Index /\ At(i) = Vacant
    BY <2>0
  <2>2. slots' = [slots EXCEPT ![i + 1] = t] /\ flags' = flags
    BY <1>2, <2>0 DEF AddTask
  <2> HIDE DEF first
  <2>3. /\ slots' \in Seq(Slot) /\ Len(slots') = Len(slots) /\ i \in 0..(Len(slots) - 1)
        /\ slots'[i + 1] = t /\ \A k \in 1..Len(slots) : k # i + 1 => slots'[k] = slots[k]
    BY <1>1, <2>1, <2>2 DEF Index
  <2>4. /\ Index' = Index /\ At(i)' = t /\ \A k \in Index : k # i => At(k)' = At(k)
    BY <1>1, <2>3 DEF Index, At
  <2>5. Occupied' = Occupied \cup {i} /\ i \notin Occupied /\ i \in Nat
    BY <1>1, <2>1, <2>3, <2>4 DEF Occupied
  <2>6. \A k \in Occupied : At(k)' = At(k)
    BY <2>1, <2>4 DEF Occupied
  <2>7. GroupTypes'
    <3>1. slots' # <<>> => slots'[Len(slots')] # Vacant
      BY <1>1, <2>3 DEF GroupTypes, TypeOK
    <3>2. emptyTasks' \subseteq Occupied' /\ emptyTasks' \subseteq Index'
      BY <2>4, <2>5 DEF GroupTypes, TypeOK, AddTask
    <3>3. /\ flags' \in BitVecs /\ flags'.set \subseteq Room(flags') /\ flags'.len = Len(slots')
          /\ flags'.len <= flags'.bytes * ByteBits
      BY <2>2, <2>3 DEF GroupTypes, TypeOK
    <3>4. count' \in Nat /\ {branchFlag', branchEmpty', touched', draining'} \subseteq BOOLEAN
      BY DEF GroupTypes, TypeOK, AddTask, Input
    <3> QED BY <1>1, <2>3, <3>1, <3>2, <3>3, <3>4 DEF GroupTypes, TypeOK, Slot
  <2> QED BY <2>2, <2>4, <2>5, <2>6, <2>7
<1>3. CASE ~ \E i \in Index : At(i) = Vacant
  <2> PICK i \in Nat : i = Len(slots)
    BY <1>1
  <2>1. /\ slots' = Append(slots, t) /\ Len(slots) < MaxSlots
        /\ flags' = SetLen(flags, Len(slots) + 1)
    BY <1>1, <1>3 DEF AddTask
  <2>2. /\ slots' \in Seq(Slot) /\ Len(slots') = Len(slots) + 1 /\ Len(slots') <= MaxSlots
        /\ slots'[i + 1] = t /\ \A k \in 1..Len(slots) : slots'[k] = slots[k]
    BY <1>1, <2>1, MaxSlotsAssumption
  <2>3. Index' = Index \cup {i} /\ At(i)' = t /\ \A k \in Index : At(k)' = At(k)
    BY <1>1, <2>2 DEF Index, At
  <2>4. i \notin Index /\ i \in Nat
    BY <1>1 DEF Index
  <2>5. Occupied' = Occupied \cup {i} /\ i \notin Occupied /\ \A k \in Occupied : At(k)' = At(k)
    BY <1>1, <2>3, <2>4 DEF Occupied
  <2>6. /\ flags' \in BitVecs /\ flags'.set \subseteq Room(flags') /\ flags'.len = Len(slots')
        /\ flags'.len <= flags'.bytes * ByteBits /\ flags'.set = flags.set
    BY <1>1, <2>1, <2>2, SetLenKeeps DEF GroupTypes, TypeOK
  <2>7. Visible(flags) \subseteq Visible(flags')
    BY <1>1, <2>2, <2>6, SlotTypes DEF Visible, GroupTypes, TypeOK, BitVecs
  <2>8. GroupTypes'
    <3>1. emptyTasks' \subseteq Occupied' /\ emptyTasks' \subseteq Index'
      BY <2>3, <2>5 DEF GroupTypes, TypeOK, AddTask
    <3> QED BY <1>1, <2>2, <2>6, <3>1 DEF GroupTypes, TypeOK, AddTask, Input, Slot
  <2> QED BY <2>3, <2>4, <2>5, <2>7, <2>8 DEF Visible
<1> QED BY <1>2, <1>3

LEMMA SetTaskPlaces ==
  ASSUME GroupTypes, NEW t \in NewTasks, NEW i \in 0..(MaxSlots - 1), SetTask(i, t)
  PROVE  /\ GroupTypes'
         /\ Occupied' = Occupied \cup {i} /\ At(i)' = t
         /\ \A k \in Occupied : k # i => At(k)' = At(k)
         /\ Visible(flags) \subseteq Visible(flags)'
<1>1. /\ slots \in Seq(Slot) /\ Len(slots) \in Nat /\ Len(slots) <= MaxSlots
      /\ t \in Slot /\ t # Vacant /\ i \in Nat /\ i + 1 <= MaxSlots
  <2>1. slots \in Seq(Slot) /\ Len(slots) \in Nat /\ Len(slots) <= MaxSlots
    BY SlotTypes DEF GroupTypes, TypeOK
  <2>2. t \in Slot /\ t # Vacant
    BY VacantAssumption DEF NewTasks, Container, Slot
  <2>3. i \in Nat /\ i + 1 <= MaxSlots
    BY MaxSlotsAssumption
  <2> QED BY <2>1, <2>2, <2>3
<1>2. PICK n \in Nat : n = IF i < Len(slots) THEN Len(slots) ELSE i + 1
  BY <1>1
<1>3. slots' = [k \in 1..n |-> IF k = i + 1 THEN t ELSE IF k <= Len(slots) THEN slots[k] ELSE Vacant]
  BY <1>2 DEF SetTask
<1>4. slots' \in Seq(Slot) /\ Len(slots') = n /\ n <= MaxSlots /\ n >= Len(slots) /\ i < n
  <2>1. slots' \in [1..n -> Slot]
    BY <1>1, <1>3 DEF Slot
  <2> QED BY <1>1, <1>2, <1>3, <2>1, SeqDef
<1>5. /\ slots'[i + 1] = t
      /\ \A k \in 1..Len(slots) : k # i + 1 => slots'[k] = slots[k]
      /\ \A k \in (Len(slots) + 1)..n : k # i + 1 => slots'[k] = Vacant
  BY <1>1, <1>3, <1>4
<1>6. /\ Index' = 0..(n - 1) /\ Index \subseteq Index' /\ At(i)' = t
      /\ \A k \in Index : k # i => At(k)' = At(k)
      /\ \A k \in Index' \ Index : k # i => At(k)' = Vacant
  BY <1>1, <1>4, <1>5 DEF Index, At
<1>7. Occupied' = Occupied \cup {i}
  <2>1. i \in Index'
    BY <1>1, <1>4, <1>6
  <2>2. \A k \in Index' : k # i => (At(k)' # Vacant <=> k \in Index /\ At(k) # Vacant)
    BY <1>6
  <2> QED BY <1>1, <1>6, <2>1, <2>2 DEF Occupied
<1>8. \A k \in Occupied : k # i => At(k)' = At(k)
  BY <1>6 DEF Occupied
<1>9. /\ flags' \in BitVecs /\ flags'.set \subseteq Room(flags') /\ flags'.len = Len(slots')
      /\ flags'.len <= flags'.bytes * ByteBits /\ flags'.set = flags.set
  BY <1>4, SetLenKeeps DEF GroupTypes, TypeOK, SetTask
<1>10. Visible(flags) \subseteq Visible(flags')
  BY <1>1, <1>4, <1>9, SlotTypes DEF Visible, GroupTypes, TypeOK, BitVecs
<1>11. GroupTypes'
  <2>1. slots' # <<>> => slots'[Len(slots')] # Vacant
    <3>1. CASE n = i + 1
      BY <3>1, <1>1, <1>4, <1>5
    <3>2. CASE n # i + 1
      <4>1. n = Len(slots) /\ slots # <<>> /\ n \in 1..Len(slots)
        BY <3>2, <1>1, <1>2, <1>4
      <4> QED BY <3>2, <4>1, <1>4, <1>5 DEF GroupTypes, TypeOK
    <3> QED BY <3>1, <3>2
  <2>2. emptyTasks' \subseteq Occupied' /\ emptyTasks' \subseteq Index'
    BY <1>6, <1>7 DEF GroupTypes, TypeOK, SetTask
  <2>3. count' \in Nat /\ {branchFlag', branchEmpty', touched', draining'} \subseteq BOOLEAN
    BY DEF GroupTypes, TypeOK, SetTask, Input
  <2> QED BY <1>4, <1>9, <2>1, <2>2, <2>3 DEF GroupTypes, TypeOK, Slot
<1> QED BY <1>6, <1>7, <1>8, <1>10, <1>11 DEF Visible

\* remove_task takes one task out, and only vacant slots are trimmed.
LEMMA RemoveTaskTakesOut ==
  ASSUME GroupTypes, NEW i \in Index, RemoveTask(i)
  PROVE  /\ GroupTypes'
         /\ Occupied' = Occupied \ {i}
         /\ \A k \in Occupied' : At(k)' = At(k) /\ (k \in Visible(flags) => k \in Visible(flags)')
<1>1. /\ slots \in Seq(Slot) /\ Len(slots) \in Nat /\ Len(slots) <= MaxSlots
      /\ i \in 0..(Len(slots) - 1)
  BY SlotTypes DEF GroupTypes, TypeOK, Index
<1>2. PICK s \in Seq(Slot) : s = [slots EXCEPT ![i + 1] = Vacant]
  <2>1. i + 1 \in 1..Len(slots) /\ Vacant \in Slot
    BY <1>1 DEF Slot
  <2>2. [slots EXCEPT ![i + 1] = Vacant] \in Seq(Slot)
    BY <1>1, <2>1
  <2> QED BY <2>2, Zenon
<1>3. /\ Len(s) = Len(slots) /\ s[i + 1] = Vacant
      /\ \A k \in 1..Len(slots) : k # i + 1 => s[k] = slots[k]
  BY <1>1, <1>2
<1>4. slots' = Trimmed(s)
  BY <1>2 DEF RemoveTask
<1>5. /\ slots' \in Seq(Slot) /\ Len(slots') \in Nat /\ Len(slots') <= Len(slots)
      /\ \A k \in 1..Len(slots') : slots'[k] = s[k]
      /\ \A k \in (Len(slots') + 1)..Len(slots) : s[k] = Vacant
      /\ slots' # <<>> => slots'[Len(slots')] # Vacant
  BY <1>3, <1>4, TrimmedKeeps
<1>6. /\ Index' \subseteq Index
      /\ \A k \in Index' : At(k)' = IF k = i THEN Vacant ELSE At(k)
      /\ \A k \in Index \ Index' : k # i => At(k) = Vacant
  <2>1. Index = 0..(Len(slots) - 1) /\ Index' = 0..(Len(slots') - 1)
    BY DEF Index
  <2>2. ASSUME NEW k \in Index'  PROVE At(k)' = IF k = i THEN Vacant ELSE At(k)
    <3>1. k + 1 \in 1..Len(slots') /\ k + 1 \in 1..Len(slots) /\ k \in Nat
      BY <1>1, <1>5, <2>1
    <3> QED BY <1>1, <1>3, <1>5, <3>1 DEF At
  <2>3. ASSUME NEW k \in Index \ Index', k # i  PROVE At(k) = Vacant
    <3>1. k + 1 \in (Len(slots') + 1)..Len(slots) /\ k + 1 \in 1..Len(slots) /\ k + 1 # i + 1
      BY <1>1, <1>5, <2>1, <2>3
    <3> QED BY <1>3, <1>5, <3>1 DEF At
  <2> QED BY <1>1, <1>5, <2>1, <2>2, <2>3
<1>7. Occupied' = Occupied \ {i}
  BY <1>6 DEF Occupied
<1>8. \A k \in Occupied' : At(k)' = At(k) /\ k \in Index'
  BY <1>6, <1>7 DEF Occupied
<1>9. /\ flags' \in BitVecs /\ flags'.set \subseteq Room(flags') /\ flags'.len = Len(slots')
      /\ flags'.len <= flags'.bytes * ByteBits /\ flags'.set = flags.set
  BY <1>5, SetLenKeeps DEF GroupTypes, TypeOK, RemoveTask
<1>10. \A k \in Index' : k \in Visible(flags) => k \in Visible(flags')
  BY <1>5, <1>9 DEF Visible, Index
<1>11. GroupTypes'
  <2>1. emptyTasks' \subseteq Occupied' /\ emptyTasks' \subseteq Index'
    BY <1>7, <1>8 DEF GroupTypes, TypeOK, RemoveTask
  <2>2. count' \in Nat /\ {branchFlag', branchEmpty', touched', draining'} \subseteq BOOLEAN
    BY DEF GroupTypes, TypeOK, RemoveTask, Input
  <2>3. Len(slots') <= MaxSlots
    BY <1>1, <1>5, MaxSlotsAssumption
  <2> QED BY <1>5, <1>9, <2>1, <2>2, <2>3 DEF GroupTypes, TypeOK, Slot
<1> QED BY <1>7, <1>8, <1>10, <1>11 DEF Visible

\* An input keeps a container a container and its announcement.
LEMMA FedKeeps ==
  ASSUME NEW t \in Container
  PROVE  \A adds, closes \in BOOLEAN :
           /\ Fed(t, adds, closes) \in Slot /\ Fed(t, adds, closes) # Vacant
           /\ Fed(t, adds, closes).told = t.told
<1> TAKE adds, closes \in BOOLEAN
<1>1. Fed(t, adds, closes) \in Container /\ Fed(t, adds, closes).told = t.told
  <2> DEFINE n == IF adds /\ t.outs < MaxOut THEN t.outs + 1 ELSE t.outs
  <2>1. t.outs \in 0..MaxOut
    BY DEF Container
  <2>2. n \in 0..MaxOut
    BY <2>1, MaxOutAssumption
  <2>3. Fed(t, adds, closes) = [t EXCEPT !.outs = n, !.closing = closes, !.fed = TRUE]
    BY Zenon DEF Fed
  <2> HIDE DEF n
  <2> QED BY <2>2, <2>3 DEF Container
<1> QED BY <1>1, VacantAssumption DEF Slot

\* on_tick and on_shutdown flag every task.
LEMMA FeedAllKeeps ==
  ASSUME GroupTypes, FeedAll, draining' \in BOOLEAN
  PROVE  /\ GroupTypes'
         /\ Occupied' = Occupied
         /\ \A k \in Occupied : At(k)'.told = At(k).told /\ k \in Visible(flags)'
<1>1. slots \in Seq(Slot) /\ Len(slots) \in Nat /\ Len(slots) <= MaxSlots
  BY SlotTypes DEF GroupTypes, TypeOK
<1>2. PICK adding \in SUBSET Occupied, closing \in SUBSET Occupied :
        slots' = [k \in DOMAIN slots |->
                    IF slots[k] = Vacant THEN Vacant
                    ELSE Fed(slots[k], k - 1 \in adding, k - 1 \in closing)]
  BY DEF FeedAll
<1>3. ASSUME NEW k \in 1..Len(slots)
      PROVE  /\ slots'[k] \in Slot
             /\ slots'[k] = Vacant <=> slots[k] = Vacant
             /\ slots[k] # Vacant => slots'[k].told = slots[k].told
  <2>1. slots[k] \in Slot /\ k \in DOMAIN slots
    BY <1>1
  <2>2. CASE slots[k] = Vacant
    BY <1>2, <2>1, <2>2
  <2>3. CASE slots[k] # Vacant
    <3>1. slots[k] \in Container
      BY <2>1, <2>3 DEF Slot
    <3>2. slots'[k] = Fed(slots[k], k - 1 \in adding, k - 1 \in closing)
      BY <1>2, <2>1, <2>3
    <3>3. (k - 1 \in adding) \in BOOLEAN /\ (k - 1 \in closing) \in BOOLEAN
      OBVIOUS
    <3>4. PICK a \in BOOLEAN, c \in BOOLEAN : slots'[k] = Fed(slots[k], a, c)
      BY <3>2, <3>3, Zenon
    <3>5. /\ Fed(slots[k], a, c) \in Slot /\ Fed(slots[k], a, c) # Vacant
          /\ Fed(slots[k], a, c).told = slots[k].told
      BY <3>1, FedKeeps
    <3>6. /\ slots'[k] \in Slot /\ slots'[k] # Vacant
          /\ slots'[k].told = slots[k].told
      BY <3>4, <3>5, Zenon
    <3> QED BY <2>3, <3>6
  <2> QED BY <2>2, <2>3
<1>4. slots' \in Seq(Slot) /\ Len(slots') = Len(slots)
  <2>1. slots' \in [1..Len(slots) -> Slot]
    <3>1. DOMAIN slots = 1..Len(slots) /\ slots' = [k \in DOMAIN slots |-> slots'[k]]
      BY <1>1, <1>2
    <3> QED BY <1>3, <3>1
  <2> QED BY <1>1, <2>1, SeqDef
<1>5. /\ Index' = Index
      /\ \A k \in Index : /\ At(k)' = Vacant <=> At(k) = Vacant
                          /\ At(k) # Vacant => At(k)'.told = At(k).told
  <2>1. Index' = Index
    BY <1>4 DEF Index
  <2>2. ASSUME NEW k \in Index  PROVE k + 1 \in 1..Len(slots)
    BY <1>1 DEF Index
  <2> QED BY <1>3, <2>1, <2>2 DEF At
<1>6. Occupied' = Occupied /\ \A k \in Occupied : At(k)'.told = At(k).told
  <2>1. Occupied' = Occupied
    BY <1>5 DEF Occupied
  <2>2. ASSUME NEW k \in Occupied  PROVE At(k)'.told = At(k).told
    BY <1>5 DEF Occupied
  <2> QED BY <2>1, <2>2
<1>7. /\ flags' \in BitVecs /\ flags'.set = Room(flags) /\ Room(flags') = Room(flags)
      /\ flags'.len = flags.len /\ flags'.bytes = flags.bytes
  <2>1. flags' = [flags EXCEPT !.set = Room(flags)] /\ Room(flags) \subseteq Nat
    BY DEF FeedAll, SetAll, Room
  <2> QED BY <2>1 DEF GroupTypes, TypeOK, BitVecs, Room
<1>8. \A k \in Occupied : k \in Visible(flags')
  <2>1. flags.len <= flags.bytes * ByteBits /\ flags.len = Len(slots)
        /\ flags.bytes * ByteBits \in Nat
    BY ByteBitsAssumption DEF GroupTypes, TypeOK, BitVecs
  <2>2. Index \subseteq Room(flags)
    BY <1>1, <2>1 DEF Index, Room
  <2> QED BY <1>1, <1>7, <2>1, <2>2 DEF Visible, Occupied, Index
<1>9. GroupTypes'
  <2>1. slots' # <<>> => slots'[Len(slots')] # Vacant
    BY <1>1, <1>3, <1>4 DEF GroupTypes, TypeOK
  <2>2. emptyTasks' \subseteq Occupied' /\ emptyTasks' \subseteq Index'
    BY <1>5, <1>6 DEF GroupTypes, TypeOK, FeedAll
  <2>3. count' \in Nat /\ {branchFlag', branchEmpty', touched', draining'} \subseteq BOOLEAN
    BY DEF GroupTypes, TypeOK, FeedAll, Input
  <2>4. /\ flags' \in BitVecs /\ flags'.set \subseteq Room(flags') /\ flags'.len = Len(slots')
        /\ flags'.len <= flags'.bytes * ByteBits
    BY <1>4, <1>7 DEF GroupTypes, TypeOK
  <2> QED BY <1>1, <1>4, <2>1, <2>2, <2>3, <2>4 DEF GroupTypes, TypeOK, Slot
<1> QED BY <1>6, <1>8, <1>9 DEF Visible

\* on_event flags the task it feeds, if that is there.
LEMMA OnEventKeeps ==
  ASSUME GroupTypes, NEW i \in 0..(MaxSlots - 1), OnEvent(i)
  PROVE  /\ GroupTypes'
         /\ Occupied' = Occupied
         /\ \A k \in Occupied : At(k)'.told = At(k).told
         /\ \A k \in Occupied : At(k)' # At(k) => k \in Visible(flags)'
         /\ Visible(flags) \subseteq Visible(flags)'
<1>1. slots \in Seq(Slot) /\ Len(slots) \in Nat /\ Len(slots) <= MaxSlots
  BY SlotTypes DEF GroupTypes, TypeOK
<1>2. count' \in Nat /\ {branchFlag', branchEmpty', touched', draining'} \subseteq BOOLEAN
  BY DEF GroupTypes, TypeOK, OnEvent, Input
<1>3. CASE i \notin Occupied
  <2>1. slots' = slots /\ flags' = flags /\ emptyTasks' = emptyTasks
    BY <1>3 DEF OnEvent
  <2>2. Index' = Index /\ Occupied' = Occupied /\ \A k \in Occupied : At(k)' = At(k)
    BY <2>1 DEF Index, Occupied, At
  <2>3. GroupTypes'
    BY <1>2, <2>1, <2>2 DEF GroupTypes, TypeOK
  <2> QED BY <2>1, <2>2, <2>3
<1>4. CASE i \in Occupied
  <2>1. PICK adds \in BOOLEAN, closes \in BOOLEAN :
          slots' = [slots EXCEPT ![i + 1] = Fed(slots[i + 1], adds, closes)]
    BY <1>4 DEF OnEvent
  <2>2. i \in Index /\ i \in Nat /\ i + 1 \in 1..Len(slots) /\ slots[i + 1] \in Container
    BY <1>4, SlotTypes DEF At
  <2>3. PICK t \in Slot : t = Fed(slots[i + 1], adds, closes) /\ t # Vacant /\ t.told = slots[i + 1].told
    BY <2>2, FedKeeps
  <2>4. /\ slots' \in Seq(Slot) /\ Len(slots') = Len(slots) /\ slots'[i + 1] = t
        /\ \A k \in 1..Len(slots) : k # i + 1 => slots'[k] = slots[k]
    BY <1>1, <2>1, <2>2, <2>3
  <2>5. Index' = Index /\ At(i)' = t /\ \A k \in Index : k # i => At(k)' = At(k)
    BY <1>1, <2>2, <2>4 DEF Index, At
  <2>6. Occupied' = Occupied
    BY <1>4, <2>2, <2>3, <2>5 DEF Occupied
  <2>7. \A k \in Occupied : /\ At(k)'.told = At(k).told
                            /\ k # i => At(k)' = At(k)
    BY <2>3, <2>5 DEF Occupied, At
  <2>8. flags' = [flags EXCEPT !.set = flags.set \cup {i}]
    BY <1>4 DEF OnEvent, SetBit
  <2>9. i \in Room(flags) /\ i < flags.len
    <3>1. flags.len <= flags.bytes * ByteBits /\ flags.len = Len(slots)
          /\ flags.bytes * ByteBits \in Nat
      BY ByteBitsAssumption DEF GroupTypes, TypeOK, BitVecs
    <3> QED BY <1>1, <2>2, <3>1 DEF Room
  <2>10. /\ flags' \in BitVecs /\ flags'.set = flags.set \cup {i} /\ flags'.len = flags.len
         /\ flags'.bytes = flags.bytes /\ Room(flags') = Room(flags)
    BY <2>2, <2>8 DEF GroupTypes, TypeOK, BitVecs, Room
  <2>11. Visible(flags) \cup {i} \subseteq Visible(flags')
    BY <2>9, <2>10 DEF Visible
  <2>12. GroupTypes'
    <3>1. slots' # <<>> => slots'[Len(slots')] # Vacant
      BY <1>1, <2>3, <2>4 DEF GroupTypes, TypeOK
    <3>2. emptyTasks' \subseteq Occupied' /\ emptyTasks' \subseteq Index'
      BY <2>5, <2>6 DEF GroupTypes, TypeOK, OnEvent
    <3>3. /\ flags' \in BitVecs /\ flags'.set \subseteq Room(flags') /\ flags'.len = Len(slots')
          /\ flags'.len <= flags'.bytes * ByteBits
      BY <2>4, <2>9, <2>10 DEF GroupTypes, TypeOK
    <3> QED BY <1>1, <1>2, <2>4, <3>1, <3>2, <3>3 DEF GroupTypes, TypeOK, Slot
  <2>13. \A k \in Occupied : At(k)'.told = At(k).told
    BY <2>7
  <2>14. \A k \in Occupied : At(k)' # At(k) => k \in Visible(flags)'
    BY <2>7, <2>11 DEF Visible
  <2>15. Visible(flags) \subseteq Visible(flags)'
    BY <2>11 DEF Visible
  <2> QED BY <2>6, <2>12, <2>13, <2>14, <2>15
<1> QED BY <1>3, <1>4

\* What a pass alone does to a task.
AfterPass(k) == IF k \in TakenBack THEN [At(k) EXCEPT !.told = FALSE] ELSE At(k)

\* The flags after a pass are those of tasks it did not finish.
LEMMA FlagsAfterPassKept ==
  ASSUME GroupTypes, flags' = FlagsAfterPass, Len(slots') = Len(slots)
  PROVE  /\ flags' \in BitVecs /\ flags'.set \subseteq Room(flags') /\ flags'.len = Len(slots')
         /\ flags'.len <= flags'.bytes * ByteBits
         /\ Visible(flags)' = Visible(flags) \ Passed
<1>1. flags' = [flags EXCEPT !.set = flags.set \ Passed] /\ flags' \in BitVecs
      /\ Visible(flags') = Visible(flags) \ Passed
  BY PassFinds
<1>2. flags'.set = flags.set \ Passed /\ flags'.len = flags.len /\ flags'.bytes = flags.bytes
  BY <1>1 DEF GroupTypes, TypeOK, BitVecs
<1>3. Room(flags') = Room(flags)
  BY <1>2 DEF Room
<1> QED BY <1>1, <1>2, <1>3 DEF GroupTypes, TypeOK, Visible

\* When the group gives something out, it is of a task with news: an output, or
\* that it is empty.
LEMMA PopGroupKeeps ==
  ASSUME GroupTypes, PopGroup
  PROVE  /\ GroupTypes'
         /\ Occupied' = Occupied
         /\ Visible(flags)' = Visible(flags) \ Passed
         /\ \E i \in (Occupied \cap Visible(flags)) \ Passed :
              /\ \A k \in Occupied : k # i => At(k)' = AfterPass(k)
              /\ \/ At(i)'.told = At(i).told /\ emptyTasks' = EmptyAfterPass
                 \/ At(i)'.told = TRUE /\ emptyTasks' = EmptyAfterPass \cup {i}
<1>1. /\ slots \in Seq(Slot) /\ Len(slots) \in Nat /\ Len(slots) <= MaxSlots
      /\ SlotsAfterPass \in Seq(Slot) /\ Len(SlotsAfterPass) = Len(slots)
  BY SlotTypes, PassKeepsSlots DEF GroupTypes, TypeOK
<1>2. PICK i \in Visible(flags) \ Passed :
        i = FirstSet(FlagsAfterPass) /\ HasNews(i) /\ (PopTaskOutput(i) \/ PopTaskEmpty(i))
  BY PassFinds DEF PopGroup
<1>3. /\ i \in Occupied /\ i \in Nat /\ i + 1 \in 1..Len(slots) /\ slots[i + 1] \in Container
      /\ i \notin TakenBack
  <2>1. i \in Index
    BY SlotTypes
  <2>2. i \in Occupied
    BY <1>2, <2>1 DEF HasNews, Occupied
  <2> QED BY <2>1, <2>2, SlotTypes, PassKeepsSlots DEF At
<1>4. SlotsAfterPass[i + 1] = slots[i + 1]
  <2>1. (i + 1) - 1 = i
    BY <1>3
  <2>2. (i + 1) - 1 \notin TakenBack
    BY <1>3, <2>1, Zenon
  <2> QED BY <1>3, <2>2, PassKeepsSlots
<1>5. \E t \in Container :
        /\ slots' = [SlotsAfterPass EXCEPT ![i + 1] = t]
        /\ \/ t.told = At(i).told /\ emptyTasks' = EmptyAfterPass
           \/ t.told = TRUE /\ emptyTasks' = EmptyAfterPass \cup {i}
  <2>1. CASE PopTaskOutput(i)
    <3>1. PICK closing \in BOOLEAN :
            slots' = [SlotsAfterPass EXCEPT ![i + 1].outs = @ - 1, ![i + 1].closing = closing]
      BY <2>1 DEF PopTaskOutput
    <3> DEFINE t == [slots[i + 1] EXCEPT !.outs = @ - 1, !.closing = closing]
    <3>2. slots' = [SlotsAfterPass EXCEPT ![i + 1] = t]
      BY <1>1, <1>3, <1>4, <3>1
    <3>3. slots[i + 1].outs > 0 /\ slots[i + 1].outs \in 0..MaxOut
      BY <1>3, <2>1 DEF PopTaskOutput, Container, At
    <3>4. slots[i + 1].outs - 1 \in 0..MaxOut
      BY <3>3, MaxOutAssumption
    <3>5. t \in Container /\ t.told = slots[i + 1].told
      BY <1>3, <3>4 DEF Container
    <3> HIDE DEF t
    <3> QED BY <2>1, <3>2, <3>5 DEF PopTaskOutput, At
  <2>2. CASE PopTaskEmpty(i)
    <3> DEFINE t == [slots[i + 1] EXCEPT !.told = TRUE]
    <3>1. slots' = [SlotsAfterPass EXCEPT ![i + 1] = t]
      BY <1>1, <1>3, <1>4, <2>2 DEF PopTaskEmpty
    <3>2. t \in Container /\ t.told = TRUE
      BY <1>3 DEF Container
    <3> HIDE DEF t
    <3> QED BY <2>2, <3>1, <3>2 DEF PopTaskEmpty
  <2> QED BY <1>2, <2>1, <2>2
<1>6. PICK t \in Container :
        /\ slots' = [SlotsAfterPass EXCEPT ![i + 1] = t]
        /\ \/ t.told = At(i).told /\ emptyTasks' = EmptyAfterPass
           \/ t.told = TRUE /\ emptyTasks' = EmptyAfterPass \cup {i}
  BY <1>5
<1>7. /\ slots' \in Seq(Slot) /\ Len(slots') = Len(slots) /\ slots'[i + 1] = t /\ t # Vacant
      /\ \A k \in 1..Len(slots) : k # i + 1 => slots'[k] = SlotsAfterPass[k]
  BY <1>1, <1>3, <1>6, VacantAssumption DEF Slot
<1>8. Index' = Index /\ At(i)' = t
  BY <1>7 DEF Index, At
<1>9. \A k \in Index : k # i => At(k)' = AfterPass(k) /\ (At(k)' = Vacant <=> At(k) = Vacant)
  <2> TAKE k \in Index
  <2> HAVE k # i
  <2>1. k \in Nat /\ k + 1 \in 1..Len(slots) /\ k + 1 # i + 1 /\ (k + 1) - 1 = k
    BY <1>3, SlotTypes
  <2>2. slots'[k + 1] = SlotsAfterPass[k + 1]
    BY <1>7, <2>1
  <2>3. /\ SlotsAfterPass[k + 1] = IF (k + 1) - 1 \in TakenBack
                                     THEN [slots[k + 1] EXCEPT !.told = FALSE]
                                     ELSE slots[k + 1]
        /\ SlotsAfterPass[k + 1] = Vacant <=> slots[k + 1] = Vacant
    BY <2>1, PassKeepsSlots
  <2> QED BY <2>1, <2>2, <2>3, Zenon DEF At, AfterPass
<1>10. Occupied' = Occupied
  BY <1>3, <1>7, <1>8, <1>9 DEF Occupied
<1>11. \A k \in Occupied : k # i => At(k)' = AfterPass(k)
  BY <1>9 DEF Occupied
<1>12. GroupTypes'
  <2>1. slots' # <<>> => slots'[Len(slots')] # Vacant
    <3>1. CASE Len(slots) = i + 1
      BY <3>1, <1>7
    <3>2. CASE Len(slots) # i + 1
      BY <3>2, <1>1, <1>3, <1>7, PassKeepsSlots DEF GroupTypes, TypeOK
    <3> QED BY <3>1, <3>2
  <2>2. emptyTasks' \subseteq Occupied' /\ emptyTasks' \subseteq Index'
    BY <1>3, <1>6, <1>8, <1>10 DEF GroupTypes, TypeOK, EmptyAfterPass, Occupied
  <2>3. count' \in Nat /\ {branchFlag', branchEmpty', touched', draining'} \subseteq BOOLEAN
    BY DEF GroupTypes, TypeOK, PopGroup
  <2>4. /\ flags' \in BitVecs /\ flags'.set \subseteq Room(flags') /\ flags'.len = Len(slots')
        /\ flags'.len <= flags'.bytes * ByteBits
    BY <1>7, FlagsAfterPassKept DEF PopGroup
  <2> QED BY <1>1, <1>7, <2>1, <2>2, <2>3, <2>4 DEF GroupTypes, TypeOK, Slot
<1>13. Visible(flags)' = Visible(flags) \ Passed
  BY <1>7, FlagsAfterPassKept DEF PopGroup
<1>14. /\ i \in (Occupied \cap Visible(flags)) \ Passed
       /\ \/ At(i)'.told = At(i).told /\ emptyTasks' = EmptyAfterPass
          \/ At(i)'.told = TRUE /\ emptyTasks' = EmptyAfterPass \cup {i}
  BY <1>3, <1>6, <1>8
<1> QED BY <1>10, <1>11, <1>12, <1>13, <1>14

\* When it gives nothing out, it has finished every flagged task.
LEMMA PopBranchKeeps ==
  ASSUME GroupTypes, PopBranch
  PROVE  /\ GroupTypes'
         /\ Occupied' = Occupied
         /\ Visible(flags) = Passed
         /\ \A k \in Occupied : At(k)' = AfterPass(k)
<1>1. /\ slots \in Seq(Slot) /\ Len(slots) \in Nat /\ Len(slots) <= MaxSlots
      /\ slots' = SlotsAfterPass /\ slots' \in Seq(Slot) /\ Len(slots') = Len(slots)
  BY SlotTypes, PassKeepsSlots DEF GroupTypes, TypeOK, PopBranch
<1>2. \A k \in Index : At(k)' = AfterPass(k) /\ (At(k)' = Vacant <=> At(k) = Vacant)
  <2> TAKE k \in Index
  <2>1. k \in Nat /\ k + 1 \in 1..Len(slots) /\ (k + 1) - 1 = k
    BY SlotTypes
  <2>2. /\ SlotsAfterPass[k + 1] = IF (k + 1) - 1 \in TakenBack
                                     THEN [slots[k + 1] EXCEPT !.told = FALSE]
                                     ELSE slots[k + 1]
        /\ SlotsAfterPass[k + 1] = Vacant <=> slots[k + 1] = Vacant
    BY <2>1, PassKeepsSlots
  <2> QED BY <1>1, <2>1, <2>2, Zenon DEF At, AfterPass
<1>3. Index' = Index
  BY <1>1 DEF Index
<1>4. Occupied' = Occupied /\ \A k \in Occupied : At(k)' = AfterPass(k)
  BY <1>2, <1>3 DEF Occupied
<1>5. Visible(flags) = Passed
  BY PassFinds DEF PopBranch
<1>6. GroupTypes'
  <2>1. slots' # <<>> => slots'[Len(slots')] # Vacant
    BY <1>1, PassKeepsSlots DEF GroupTypes, TypeOK
  <2>2. emptyTasks' \subseteq Occupied' /\ emptyTasks' \subseteq Index'
    BY <1>3, <1>4 DEF GroupTypes, TypeOK, EmptyAfterPass, PopBranch
  <2>3. count' \in Nat /\ {branchFlag', branchEmpty', touched', draining'} \subseteq BOOLEAN
    BY DEF GroupTypes, TypeOK, PopBranch, GroupEmpty
  <2>4. /\ flags' \in BitVecs /\ flags'.set \subseteq Room(flags') /\ flags'.len = Len(slots')
        /\ flags'.len <= flags'.bytes * ByteBits
    BY <1>1, FlagsAfterPassKept DEF PopBranch
  <2> QED BY <1>1, <2>1, <2>2, <2>3, <2>4 DEF GroupTypes, TypeOK, Slot
<1> QED BY <1>4, <1>5, <1>6

\* The tables of a group, and what its flags stand for.
GroupTables ==
  GroupTypes /\ CountIsTasks /\ EmptySetExact /\ NothingForgotten /\ BranchKnowsEmpty

LEMMA GroupInit == Init => GroupTables
<1> SUFFICES ASSUME Init  PROVE GroupTables
  OBVIOUS
<1>1. slots = <<>> /\ Len(slots) = 0 /\ Index = {} /\ Occupied = {}
  BY DEF Init, Index, Occupied
<1>2. /\ flags \in BitVecs /\ flags.set = {} /\ flags.len = 0
      /\ flags.len <= flags.bytes * ByteBits
  <2>1. 0 \div ByteBits + 1 \in Nat \ {0} /\ (0 \div ByteBits + 1) * ByteBits > 0
    BY WholeBytes, ByteBitsAssumption
  <2> DEFINE n == 0 \div ByteBits + 1
  <2>2. flags = [set |-> {}, bytes |-> n, len |-> 0]
    BY DEF Init, News
  <2> HIDE DEF n
  <2>3. n \in Nat \ {0} /\ n * ByteBits > 0 /\ n * ByteBits \in Nat
    BY <2>1, ByteBitsAssumption DEF n
  <2> QED BY <2>2, <2>3 DEF BitVecs
<1>3. GroupTypes
  <2>1. slots \in Seq(Slot) /\ Len(slots) <= MaxSlots /\ slots = <<>>
    BY <1>1, MaxSlotsAssumption
  <2>2. /\ count \in Nat /\ {branchFlag, branchEmpty, touched, draining} \subseteq BOOLEAN
        /\ emptyTasks \subseteq Index /\ emptyTasks \subseteq Occupied
    BY DEF Init
  <2> QED BY <1>1, <1>2, <2>1, <2>2 DEF GroupTypes, TypeOK, Slot
<1>4. CountIsTasks /\ EmptySetExact /\ NothingForgotten /\ BranchKnowsEmpty
  BY <1>1, FS_EmptySet DEF CountIsTasks, EmptySetExact, NothingForgotten, BranchKnowsEmpty, Init
<1> QED BY <1>3, <1>4 DEF GroupTables

LEMMA TypesStep == GroupTypes /\ [Next]_vars => GroupTypes'
<1> SUFFICES ASSUME GroupTypes, [Next]_vars  PROVE GroupTypes'
  OBVIOUS
<1>1. CASE \E t \in NewTasks : AddTask(t)
  BY <1>1, AddTaskPlaces
<1>2. CASE \E t \in NewTasks : \E i \in 0..(MaxSlots - 1) : SetTask(i, t)
  BY <1>2, SetTaskPlaces
<1>3. CASE \E i \in Index : RemoveTask(i)
  BY <1>3, RemoveTaskTakesOut
<1>4. CASE \E i \in 0..(MaxSlots - 1) : OnEvent(i)
  BY <1>4, OnEventKeeps
<1>5. CASE OnTick \/ OnShutdown
  <2>1. draining' \in BOOLEAN /\ FeedAll
    BY <1>5 DEF GroupTypes, TypeOK, OnTick, OnShutdown
  <2> QED BY <2>1, FeedAllKeeps
<1>6. CASE PopGroup
  BY <1>6, PopGroupKeeps
<1>7. CASE PopBranch
  BY <1>7, PopBranchKeeps
<1>8. CASE EndDrain \/ UNCHANGED vars
  <2>1. /\ slots' = slots /\ count' = count /\ emptyTasks' = emptyTasks /\ flags' = flags
        /\ {branchFlag', branchEmpty', touched', draining'} \subseteq BOOLEAN
    BY <1>8 DEF EndDrain, vars, GroupTypes, TypeOK
  <2>2. Index' = Index /\ Occupied' = Occupied
    BY <2>1 DEF Index, Occupied, At
  <2> QED BY <2>1, <2>2 DEF GroupTypes, TypeOK
<1> QED BY <1>1, <1>2, <1>3, <1>4, <1>5, <1>6, <1>7, <1>8 DEF Next, Pop

\* One more task, in a slot that had none, and not announced empty.
LEMMA PlacedCounts ==
  ASSUME GroupTables, GroupTypes', NEW t \in NewTasks, NEW i \in Nat \ Occupied,
         Occupied' = Occupied \cup {i}, At(i)' = t,
         \A k \in Occupied : At(k)' = At(k),
         Visible(flags) \subseteq Visible(flags)',
         count' = count + 1, emptyTasks' = emptyTasks, branchFlag' = TRUE
  PROVE  GroupTables'
<1>1. IsFiniteSet(Occupied)
  <2>1. 0 \in Int /\ Len(slots) - 1 \in Int
    BY SlotTypes DEF GroupTables
  <2>2. IsFiniteSet(Index)
    BY <2>1, FS_Interval DEF Index
  <2>3. Occupied \in SUBSET Index
    BY DEF Occupied
  <2> QED BY <2>2, <2>3, FS_Subset
<1>2. CountIsTasks'
  BY <1>1, FS_AddElement DEF GroupTables, CountIsTasks
<1>3. t.told = FALSE /\ t.fed = FALSE
  BY DEF NewTasks
<1>4. EmptySetExact'
  BY <1>3 DEF GroupTables, EmptySetExact
<1>5. NothingForgotten'
  <2> SUFFICES ASSUME NEW k \in Occupied', At(k)'.fed, k \notin Visible(flags)'
               PROVE  At(k)'.outs = 0 /\ (At(k)'.told <=> TaskEmpty(At(k)'))
    BY DEF NothingForgotten
  <2>1. k \in Occupied /\ At(k)' = At(k) /\ k \notin Visible(flags)
    BY <1>3
  <2> QED BY <2>1 DEF GroupTables, NothingForgotten
<1> QED BY <1>2, <1>4, <1>5 DEF GroupTables, BranchKnowsEmpty

\* The count, the set of empty tasks and the flags after every step, when
\* callers take care.
LEMMA TablesStep ==
  ASSUME Careful, GroupTables, [Next]_vars
  PROVE  GroupTables'
<1>1. GroupTypes /\ GroupTypes'
  BY TypesStep DEF GroupTables
<1>2. IsFiniteSet(Occupied)
  <2>1. 0 \in Int /\ Len(slots) - 1 \in Int
    BY <1>1, SlotTypes
  <2>2. IsFiniteSet(Index)
    BY <2>1, FS_Interval DEF Index
  <2>3. Occupied \in SUBSET Index
    BY DEF Occupied
  <2> QED BY <2>2, <2>3, FS_Subset
<1>3. CASE \E t \in NewTasks : AddTask(t)
  <2>1. PICK t \in NewTasks : AddTask(t)
    BY <1>3
  <2>2. PICK i \in Nat \ Occupied :
          /\ Occupied' = Occupied \cup {i} /\ At(i)' = t
          /\ \A k \in Occupied : At(k)' = At(k)
    BY <1>1, <2>1, AddTaskPlaces
  <2>3. Visible(flags) \subseteq Visible(flags)'
    BY <1>1, <2>1, AddTaskPlaces
  <2>4. count' = count + 1 /\ emptyTasks' = emptyTasks /\ branchFlag' = TRUE
    BY <2>1 DEF AddTask, Input
  <2> QED BY <1>1, <2>2, <2>3, <2>4, PlacedCounts
<1>4. CASE \E t \in NewTasks : \E i \in 0..(MaxSlots - 1) : SetTask(i, t)
  <2>1. PICK t \in NewTasks, i \in 0..(MaxSlots - 1) : SetTask(i, t)
    BY <1>4
  <2>2. i \in Nat \ Occupied
    BY <2>1, MaxSlotsAssumption DEF SetTask
  <2>3. /\ Occupied' = Occupied \cup {i} /\ At(i)' = t
        /\ \A k \in Occupied : At(k)' = At(k)
        /\ Visible(flags) \subseteq Visible(flags)'
    BY <1>1, <2>1, <2>2, SetTaskPlaces
  <2>4. count' = count + 1 /\ emptyTasks' = emptyTasks /\ branchFlag' = TRUE
    BY <2>1 DEF SetTask, Input
  <2> QED BY <1>1, <2>2, <2>3, <2>4, PlacedCounts
<1>5. CASE \E i \in Index : RemoveTask(i)
  <2>1. PICK i \in Index : RemoveTask(i)
    BY <1>5
  <2>2. /\ Occupied' = Occupied \ {i}
        /\ \A k \in Occupied' : At(k)' = At(k) /\ (k \in Visible(flags) => k \in Visible(flags)')
    BY <1>1, <2>1, RemoveTaskTakesOut
  <2>3. /\ i \in Occupied /\ count' = count - 1 /\ emptyTasks' = emptyTasks \ {i}
        /\ branchFlag' = TRUE
    BY <2>1 DEF RemoveTask, Input
  <2>4. CountIsTasks'
    BY <1>2, <2>2, <2>3, FS_RemoveElement DEF GroupTables, CountIsTasks
  <2>5. EmptySetExact'
    BY <2>2, <2>3 DEF GroupTables, EmptySetExact
  <2>6. NothingForgotten'
    <3> SUFFICES ASSUME NEW k \in Occupied', At(k)'.fed, k \notin Visible(flags)'
                 PROVE  At(k)'.outs = 0 /\ (At(k)'.told <=> TaskEmpty(At(k)'))
      BY <2>3 DEF NothingForgotten
    <3>1. k \in Occupied /\ At(k)' = At(k) /\ k \notin Visible(flags)
      BY <2>2
    <3> QED BY <3>1 DEF GroupTables, NothingForgotten
  <2> QED BY <1>1, <2>3, <2>4, <2>5, <2>6 DEF GroupTables, BranchKnowsEmpty
<1>6. CASE \E i \in 0..(MaxSlots - 1) : OnEvent(i)
  <2>1. PICK i \in 0..(MaxSlots - 1) : OnEvent(i)
    BY <1>6
  <2>2. /\ Occupied' = Occupied
        /\ \A k \in Occupied : At(k)'.told = At(k).told
        /\ \A k \in Occupied : At(k)' # At(k) => k \in Visible(flags)'
        /\ Visible(flags) \subseteq Visible(flags)'
    BY <1>1, <2>1, OnEventKeeps
  <2>3. count' = count /\ emptyTasks' = emptyTasks /\ branchFlag' = TRUE
    BY <2>1 DEF OnEvent, Input
  <2>4. CountIsTasks' /\ EmptySetExact'
    BY <2>2, <2>3 DEF GroupTables, CountIsTasks, EmptySetExact
  <2>5. NothingForgotten'
    <3> SUFFICES ASSUME NEW k \in Occupied', At(k)'.fed, k \notin Visible(flags)'
                 PROVE  At(k)'.outs = 0 /\ (At(k)'.told <=> TaskEmpty(At(k)'))
      BY <2>3 DEF NothingForgotten
    <3>1. k \in Occupied /\ At(k)' = At(k) /\ k \notin Visible(flags)
      BY <2>2
    <3> QED BY <3>1 DEF GroupTables, NothingForgotten
  <2> QED BY <1>1, <2>3, <2>4, <2>5 DEF GroupTables, BranchKnowsEmpty
<1>7. CASE OnTick \/ OnShutdown
  <2>1. FeedAll /\ draining' \in BOOLEAN
    BY <1>1, <1>7 DEF GroupTypes, TypeOK, OnTick, OnShutdown
  <2>2. /\ Occupied' = Occupied
        /\ \A k \in Occupied : At(k)'.told = At(k).told /\ k \in Visible(flags)'
    BY <1>1, <2>1, FeedAllKeeps
  <2>3. count' = count /\ emptyTasks' = emptyTasks /\ branchFlag' = TRUE
    BY <2>1 DEF FeedAll, Input
  <2>4. CountIsTasks' /\ EmptySetExact'
    BY <2>2, <2>3 DEF GroupTables, CountIsTasks, EmptySetExact
  <2>5. NothingForgotten'
    BY <2>2, <2>3 DEF NothingForgotten
  <2> QED BY <1>1, <2>3, <2>4, <2>5 DEF GroupTables, BranchKnowsEmpty
<1>8. CASE PopGroup \/ PopBranch
  <2>1. /\ Occupied' = Occupied /\ count' = count
        /\ Visible(flags)' = Visible(flags) \ Passed
    BY <1>1, <1>8, PopGroupKeeps, PopBranchKeeps, FlagsAfterPassKept, PassKeepsSlots
    DEF PopGroup, PopBranch
  <2>2. ASSUME NEW k \in Occupied, At(k)' = AfterPass(k)
        PROVE  /\ k \in TakenBack => ~At(k)'.told
               /\ k \notin TakenBack => At(k)' = At(k)
               /\ k \notin Visible(flags)' /\ At(k)'.fed =>
                    At(k)'.outs = 0 /\ (At(k)'.told <=> TaskEmpty(At(k)'))
    <3>1. At(k) \in Container /\ At(k) # Vacant
      BY <1>1, SlotTypes, VacantAssumption
    <3>2. CASE k \in TakenBack
      <4>1. At(k)' = [At(k) EXCEPT !.told = FALSE] /\ k \in Passed /\ ~TaskEmpty(At(k))
        BY <2>2, <3>2 DEF AfterPass, TakenBack
      <4>2. At(k)'.told = FALSE /\ At(k)'.outs = At(k).outs /\ At(k)'.closing = At(k).closing
        BY <3>1, <4>1 DEF Container
      <4>3. ~HasNews(k) /\ At(k).outs \in Nat
        BY <1>1, <3>1, <4>1, PassFinds, MaxOutAssumption DEF Container
      <4> QED BY <3>1, <3>2, <4>1, <4>2, <4>3 DEF HasNews, TaskEmpty
    <3>3. CASE k \notin TakenBack /\ k \in Passed
      <4>1. At(k)' = At(k)
        BY <2>2, <3>3 DEF AfterPass
      <4>2. ~HasNews(k) /\ At(k).outs \in Nat /\ At(k).told \in BOOLEAN
        BY <1>1, <3>1, <3>3, PassFinds, MaxOutAssumption DEF Container
      <4>3. At(k).told => TaskEmpty(At(k))
        BY <3>3 DEF TakenBack
      <4> QED BY <3>1, <3>3, <4>1, <4>2, <4>3 DEF HasNews, TaskEmpty
    <3>4. CASE k \notin TakenBack /\ k \notin Passed
      <4>1. At(k)' = At(k) /\ (k \notin Visible(flags)' => k \notin Visible(flags))
        BY <2>1, <2>2, <3>4 DEF AfterPass
      <4> QED BY <3>4, <4>1 DEF GroupTables, NothingForgotten
    <3> QED BY <3>2, <3>3, <3>4
  <2>3. CountIsTasks'
    BY <2>1 DEF GroupTables, CountIsTasks
  <2>4. CASE PopGroup
    <3>1. PICK i \in (Occupied \cap Visible(flags)) \ Passed :
            /\ \A k \in Occupied : k # i => At(k)' = AfterPass(k)
            /\ \/ At(i)'.told = At(i).told /\ emptyTasks' = EmptyAfterPass
               \/ At(i)'.told = TRUE /\ emptyTasks' = EmptyAfterPass \cup {i}
      BY <1>1, <2>4, PopGroupKeeps
    <3>2. i \in Visible(flags)' /\ i \notin TakenBack /\ branchFlag' = TRUE
      BY <1>1, <2>1, <2>4, <3>1, PassKeepsSlots DEF PopGroup, GroupTypes, TypeOK
    <3>3. EmptySetExact'
      <4>1. \A k \in Occupied : k # i => (k \in emptyTasks' <=> At(k)'.told)
        <5> TAKE k \in Occupied
        <5> HAVE k # i
        <5>1. k \in emptyTasks' <=> k \in emptyTasks /\ k \notin TakenBack
          BY <3>1 DEF EmptyAfterPass
        <5>2. k \in emptyTasks <=> At(k).told
          BY DEF GroupTables, EmptySetExact
        <5>3. /\ k \in TakenBack => ~At(k)'.told
              /\ k \notin TakenBack => At(k)' = At(k)
          BY <2>2, <3>1
        <5> QED BY <5>1, <5>2, <5>3
      <4>2. i \in emptyTasks' <=> At(i)'.told
        <5>1. i \in emptyTasks <=> At(i).told
          BY <3>1 DEF GroupTables, EmptySetExact
        <5> QED BY <3>1, <3>2, <5>1 DEF EmptyAfterPass
      <4>3. emptyTasks' \subseteq Occupied'
        BY <1>1 DEF GroupTypes
      <4> QED BY <2>1, <4>1, <4>2, <4>3 DEF EmptySetExact
    <3>4. NothingForgotten'
      BY <2>1, <2>2, <3>1, <3>2 DEF NothingForgotten
    <3> QED BY <1>1, <2>3, <3>2, <3>3, <3>4 DEF GroupTables, BranchKnowsEmpty
  <2>5. CASE PopBranch
    <3>1. /\ Visible(flags)' = {} /\ emptyTasks' = EmptyAfterPass
          /\ \A k \in Occupied : At(k)' = AfterPass(k)
      BY <1>1, <2>1, <2>5, PopBranchKeeps DEF PopBranch
    <3>2. EmptySetExact'
      <4>1. \A k \in Occupied : k \in emptyTasks' <=> At(k)'.told
        <5> TAKE k \in Occupied
        <5>1. k \in emptyTasks' <=> k \in emptyTasks /\ k \notin TakenBack
          BY <3>1 DEF EmptyAfterPass
        <5>2. k \in emptyTasks <=> At(k).told
          BY DEF GroupTables, EmptySetExact
        <5>3. /\ k \in TakenBack => ~At(k)'.told
              /\ k \notin TakenBack => At(k)' = At(k)
          BY <2>2, <3>1
        <5> QED BY <5>1, <5>2, <5>3
      <4>2. emptyTasks' \subseteq Occupied'
        BY <1>1 DEF GroupTypes
      <4> QED BY <2>1, <4>1, <4>2 DEF EmptySetExact
    <3>3. NothingForgotten'
      BY <2>1, <2>2, <3>1 DEF NothingForgotten
    <3>4. BranchKnowsEmpty'
      BY <2>1, <2>5 DEF PopBranch, BranchKnowsEmpty, GroupEmpty
    <3> QED BY <1>1, <2>3, <3>2, <3>3, <3>4 DEF GroupTables
  <2> QED BY <1>8, <2>4, <2>5
<1>9. CASE EndDrain \/ UNCHANGED vars
  <2>1. UNCHANGED <<slots, count, emptyTasks, flags, branchFlag, branchEmpty, touched>>
    BY <1>9 DEF EndDrain, vars
  <2>2. /\ Index' = Index /\ Occupied' = Occupied /\ Visible(flags)' = Visible(flags)
        /\ \A k \in Occupied : At(k)' = At(k)
    BY <2>1 DEF Index, Occupied, At, Visible
  <2> QED BY <1>1, <2>1, <2>2
      DEF GroupTables, CountIsTasks, EmptySetExact, NothingForgotten, BranchKnowsEmpty, GroupEmpty
<1> QED BY <1>3, <1>4, <1>5, <1>6, <1>7, <1>8, <1>9 DEF Next, Pop

-----------------------------------------------------------------------------
\* The types hold for callers of either kind.
THEOREM GroupTypesHold == Spec => []TypeOK
<1>1. Init => GroupTypes
  BY GroupInit DEF GroupTables
<1>2. GroupTypes /\ [Next]_vars => GroupTypes'
  BY TypesStep
<1>3. GroupTypes => TypeOK
  BY DEF GroupTypes
<1> QED BY <1>1, <1>2, <1>3, PTL DEF Spec

LEMMA GroupInvariant ==
  ASSUME Careful
  PROVE  Spec => []GroupTables
<1>1. Init => GroupTables
  BY GroupInit
<1>2. GroupTables /\ [Next]_vars => GroupTables'
  BY TablesStep
<1> QED BY <1>1, <1>2, PTL DEF Spec

\* tasks() tells how many tasks there are: the count, kept apart from the
\* slots, never parts from them, whatever is added, removed and trimmed.
THEOREM GroupCounts ==
  ASSUME Careful
  PROVE  Spec => []CountIsTasks
<1>1. GroupTables => CountIsTasks
  BY DEF GroupTables
<1> QED BY <1>1, GroupInvariant, PTL

\* is_empty is right: the set of empty tasks holds those announced empty.
THEOREM GroupKnowsEmptyTasks ==
  ASSUME Careful
  PROVE  Spec => []EmptySetExact
<1>1. GroupTables => EmptySetExact
  BY DEF GroupTables
<1> QED BY <1>1, GroupInvariant, PTL

\* No output and no announcement of a task is left behind without a flag that
\* leads to it.
THEOREM GroupForgetsNothing ==
  ASSUME Careful
  PROVE  Spec => []NothingForgotten
<1>1. GroupTables => NothingForgotten
  BY DEF GroupTables
<1> QED BY <1>1, GroupInvariant, PTL

\* A branch with nothing to say has announced its group empty just when it is.
THEOREM BranchIsRight ==
  ASSUME Careful
  PROVE  Spec => []BranchKnowsEmpty
<1>1. GroupTables => BranchKnowsEmpty
  BY DEF GroupTables
<1> QED BY <1>1, GroupInvariant, PTL
=============================================================================
