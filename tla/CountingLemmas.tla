--------------------------- MODULE CountingLemmas ---------------------------
(***************************************************************************)
(* Facts about numbers, and about how many places of a sequence hold one   *)
(* of some values, that several proofs rest on.  The least element of a    *)
(* set of naturals comes from the library's theorem that the finite sets   *)
(* are well founded under strict inclusion.                                *)
(***************************************************************************)
EXTENDS FiniteSetTheorems, SequenceTheorems, TLAPS

\* Every nonempty set of naturals has a least element.
LEMMA LeastOf ==
  ASSUME NEW T \in SUBSET Nat, T # {}
  PROVE  \E x \in T : \A y \in T : x <= y
<1> DEFINE R == StrictSubsetOrdering(Nat)
           U == {0..n : n \in T}
<1>1. IsWellFoundedOn(R, FiniteSubsetsOf(Nat))
  BY FS_StrictSubsetOrderingWellFounded
<1>2. U \subseteq FiniteSubsetsOf(Nat)
  <2>1. ASSUME NEW n \in T  PROVE 0..n \in SUBSET Nat /\ IsFiniteSet(0..n)
    BY FS_Interval
  <2> QED BY <2>1 DEF FiniteSubsetsOf
<1>3. U # {}
  OBVIOUS
<1>4. PICK X \in U : \A Y \in U : <<Y, X>> \notin R
  <2> HIDE DEF R, U
  <2> QED BY <1>1, <1>2, <1>3, WFMin
<1>5. PICK x \in T : X = 0..x
  OBVIOUS
<1>6. ASSUME NEW y \in T, ~(x <= y)  PROVE FALSE
  <2>1. 0..y \subseteq 0..x /\ x \in 0..x /\ x \notin 0..y
    BY <1>6
  <2>2. <<0..y, X>> \in R
    BY <2>1, <1>5 DEF StrictSubsetOrdering
  <2> QED BY <2>2, <1>4
<1> QED
  BY <1>6

\* Induction, for a property given as the set of the numbers that have it.
LEMMA AllOfNat ==
  ASSUME NEW S \in SUBSET Nat, 0 \in S, \A n \in S : n + 1 \in S
  PROVE  S = Nat
<1>1. SUFFICES ASSUME Nat \ S # {}  PROVE FALSE
  OBVIOUS
<1>2. PICK x \in Nat \ S : \A y \in Nat \ S : x <= y
  BY <1>1, LeastOf
<1>3. x # 0 /\ x - 1 \in Nat /\ x - 1 \in S
  BY <1>2
<1> QED
  BY <1>3, <1>2

\* One whole byte more than the quotient is room for every bit.
LEMMA WholeBytes ==
  ASSUME NEW size \in Nat \ {0}, NEW n \in Nat
  PROVE  n \div size \in Nat /\ (n \div size + 1) * size > n
OBVIOUS

-----------------------------------------------------------------------------
\* How many places of a sequence hold one of the values V.
Places(s, V) == {i \in DOMAIN s : s[i] \in V}
HowMany(s, V) == Cardinality(Places(s, V))

\* The places of a sequence are finitely many, no more than it is long.
LEMMA HowManyType ==
  ASSUME NEW S, NEW s \in Seq(S), NEW V
  PROVE  /\ IsFiniteSet(Places(s, V))
         /\ HowMany(s, V) \in Nat /\ HowMany(s, V) <= Len(s)
         /\ HowMany(s, V) = 0 <=> Places(s, V) = {}
<1>1. Len(s) \in Nat /\ Places(s, V) \in SUBSET (1..Len(s))
  BY DEF Places
<1>2. IsFiniteSet(1..Len(s)) /\ Cardinality(1..Len(s)) = Len(s)
  <2>1. 1 \in Int /\ Len(s) \in Int
    BY <1>1
  <2>2. Cardinality(1..Len(s)) = IF 1 > Len(s) THEN 0 ELSE Len(s) - 1 + 1
    BY <2>1, FS_Interval
  <2> QED BY <1>1, <2>1, <2>2, FS_Interval
<1>3. IsFiniteSet(Places(s, V)) /\ Cardinality(Places(s, V)) <= Len(s)
  BY <1>1, <1>2, FS_Subset
<1> QED BY <1>3, FS_CardinalityType, FS_EmptySet DEF HowMany

LEMMA HowManyEmpty ==
  ASSUME NEW V
  PROVE  HowMany(<<>>, V) = 0
<1>1. Places(<<>>, V) = {}
  BY DEF Places
<1> QED BY <1>1, FS_EmptySet DEF HowMany

\* A push counts when its value does.
LEMMA HowManyAppend ==
  ASSUME NEW S, NEW s \in Seq(S), NEW x, NEW V
  PROVE  HowMany(Append(s, x), V) = IF x \in V THEN HowMany(s, V) + 1 ELSE HowMany(s, V)
<1> DEFINE n == Len(s) + 1
<1>1. /\ Len(s) \in Nat /\ DOMAIN Append(s, x) = 1..n /\ DOMAIN s = 1..Len(s)
      /\ \A i \in 1..Len(s) : Append(s, x)[i] = s[i]
      /\ Append(s, x)[n] = x
  OBVIOUS
<1>2. n \notin Places(s, V)
  BY <1>1 DEF Places
<1>3. Places(Append(s, x), V) = IF x \in V THEN Places(s, V) \cup {n} ELSE Places(s, V)
  <2>1. \A i \in 1..n : i \in 1..Len(s) \/ i = n
    BY <1>1
  <2>2. n \in 1..n /\ \A i \in 1..Len(s) : i \in 1..n /\ i # n
    BY <1>1
  <2> HIDE DEF n
  <2> QED BY <1>1, <2>1, <2>2 DEF Places
<1>4. IsFiniteSet(Places(s, V))
  BY HowManyType
<1> HIDE DEF n
<1> QED BY <1>2, <1>3, <1>4, FS_AddElement DEF HowMany

\* A pop counts when the value at the head does.
LEMMA HowManyTail ==
  ASSUME NEW S, NEW s \in Seq(S), s # <<>>, NEW V
  PROVE  HowMany(Tail(s), V) = IF Head(s) \in V THEN HowMany(s, V) - 1 ELSE HowMany(s, V)
<1> DEFINE rest == Places(s, V) \ {1}
<1>1. /\ Len(s) \in Nat \ {0} /\ DOMAIN Tail(s) = 1..(Len(s) - 1) /\ DOMAIN s = 1..Len(s)
      /\ \A i \in 1..(Len(s) - 1) : Tail(s)[i] = s[i + 1]
      /\ Head(s) = s[1] /\ Tail(s) \in Seq(S)
  OBVIOUS
<1>2. IsFiniteSet(Places(s, V)) /\ IsFiniteSet(Places(Tail(s), V))
  BY <1>1, HowManyType
<1>3. 1 \in Places(s, V) <=> Head(s) \in V
  BY <1>1 DEF Places
<1>4. Cardinality(rest) = IF Head(s) \in V THEN HowMany(s, V) - 1 ELSE HowMany(s, V)
  BY <1>2, <1>3, FS_RemoveElement DEF HowMany
<1>5. ExistsBijection(Places(Tail(s), V), rest)
  <2> DEFINE f == [i \in Places(Tail(s), V) |-> i + 1]
  <2>1. \A i \in Places(Tail(s), V) : i \in Nat /\ i + 1 \in rest
    BY <1>1 DEF Places
  <2>2. \A i, j \in Places(Tail(s), V) : f[i] = f[j] => i = j
    BY <2>1
  <2>3. \A j \in rest : j - 1 \in Places(Tail(s), V) /\ f[j - 1] = j
    <3> TAKE j \in rest
    <3>1. j \in 2..Len(s) /\ s[j] \in V
      BY <1>1 DEF Places
    <3>2. j - 1 \in 1..(Len(s) - 1) /\ (j - 1) + 1 = j
      BY <1>1, <3>1
    <3>3. j - 1 \in Places(Tail(s), V)
      BY <1>1, <3>1, <3>2 DEF Places
    <3> QED BY <3>2, <3>3
  <2>4. f \in [Places(Tail(s), V) -> rest]
    BY <2>1
  <2> HIDE DEF f, rest
  <2>5. f \in Injection(Places(Tail(s), V), rest)
    BY <2>2, <2>4 DEF Injection, IsInjective
  <2>6. f \in Surjection(Places(Tail(s), V), rest)
    BY <2>3, <2>4 DEF Surjection
  <2>7. f \in Bijection(Places(Tail(s), V), rest)
    BY <2>5, <2>6 DEF Bijection
  <2> QED BY <2>7 DEF ExistsBijection
<1> HIDE DEF rest
<1>6. Cardinality(rest) = Cardinality(Places(Tail(s), V))
  BY <1>2, <1>5, FS_Bijection
<1> QED BY <1>4, <1>6 DEF HowMany
=============================================================================
