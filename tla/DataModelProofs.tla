--------------------------- MODULE DataModelProofs ---------------------------
(***************************************************************************)
(* Facts about the contiguous-offset scan that the proofs about CommitList *)
(* and Sink share.                                                         *)
(***************************************************************************)
EXTENDS DataModel, WellFoundedInduction, FiniteSetTheorems, TLAPS

\* Every non-empty set of natural numbers has a least element.
LEMMA LeastNatural ==
    ASSUME NEW T \in SUBSET Nat, T # {}
    PROVE  \E n \in T : \A m \in T : n <= m
<1> DEFINE Less == OpToRel(<, Nat)
<1>1. IsWellFoundedOn(Less, Nat)
  BY NatLessThanWellFounded
<1>2. \A x, y \in Nat : y < x => <<y, x>> \in Less
  BY DEF OpToRel
<1> HIDE DEF Less
<1>3. PICK n \in T : \A m \in T : ~ (<<m, n>> \in Less)
  BY <1>1, WFMin
<1>4. ASSUME NEW m \in T PROVE n <= m
  <2>1. m \in Nat /\ n \in Nat
    OBVIOUS
  <2>2. ~ (m < n)
    BY <1>2, <1>3, <2>1, Zenon
  <2> QED
    BY <2>1, <2>2
<1> QED
  BY <1>4

\* What ContiguousEnd is characterised by: it lies at or above the watermark,
\* all in between is uploaded and it is not (the scan of
\* make_topic_partition_list stops there).
IsContiguousEnd(S, w, n) ==
    /\ w <= n
    /\ w .. n - 1 \subseteq S
    /\ n \notin S

\* No two offsets qualify: the result does not depend on how it is searched.
LEMMA ContiguousEndUnique ==
    ASSUME NEW S, NEW w \in Nat, NEW m \in Nat, NEW n \in Nat,
           IsContiguousEnd(S, w, m), IsContiguousEnd(S, w, n)
    PROVE  m = n
<1>1. ~ (m < n)
  <2> SUFFICES ASSUME m < n PROVE FALSE
    OBVIOUS
  <2>1. m \in w .. n - 1
    BY DEF IsContiguousEnd
  <2> QED
    BY <2>1 DEF IsContiguousEnd
<1>2. ~ (n < m)
  <2> SUFFICES ASSUME n < m PROVE FALSE
    OBVIOUS
  <2>1. n \in w .. m - 1
    BY DEF IsContiguousEnd
  <2> QED
    BY <2>1 DEF IsContiguousEnd
<1> QED
  BY <1>1, <1>2

\* For a set of offsets of a log the scan has a result: the least natural
\* number from the watermark on that is missing from the set.
LEMMA ContiguousEndExists ==
    ASSUME NEW S \in SUBSET Offsets, NEW w \in Nat
    PROVE  \E n \in Nat : IsContiguousEnd(S, w, n)
<1> DEFINE Missing == {x \in Nat : w <= x /\ x \notin S}
<1>1. LogSize \in Nat
  BY LogAssumption
<1>2. w + LogSize \in Missing
  BY <1>1 DEF Offsets
<1>3. PICK n \in Missing : \A m \in Missing : n <= m
  BY <1>2, LeastNatural
<1>4. n \in Nat /\ w <= n /\ n \notin S
  BY <1>3
<1>5. ASSUME NEW x \in w .. n - 1 PROVE x \in S
  BY <1>3, <1>4
<1> QED
  BY <1>4, <1>5 DEF IsContiguousEnd

\* ContiguousEnd returns the one number that qualifies.
THEOREM ContiguousEndCorrect ==
    ASSUME NEW S \in SUBSET Offsets, NEW w \in Nat
    PROVE  /\ ContiguousEnd(S, w) \in Nat
           /\ IsContiguousEnd(S, w, ContiguousEnd(S, w))
<1> DEFINE Candidates == {w} \cup {o + 1 : o \in S}
<1>1. PICK n \in Nat : IsContiguousEnd(S, w, n)
  BY ContiguousEndExists
<1>2. n \in Candidates
  <2>1. CASE n = w
    BY <2>1
  <2>2. CASE n # w
    <3>1. n - 1 \in w .. n - 1
      BY <1>1, <2>2 DEF IsContiguousEnd
    <3>2. n - 1 \in S /\ n = (n - 1) + 1
      BY <1>1, <3>1 DEF IsContiguousEnd
    <3> QED
      BY <3>2
  <2> QED
    BY <2>1, <2>2
<1>3. \E x \in Candidates : IsContiguousEnd(S, w, x)
  BY <1>1, <1>2
<1>4. /\ ContiguousEnd(S, w) \in Candidates
      /\ IsContiguousEnd(S, w, ContiguousEnd(S, w))
  BY <1>3 DEF ContiguousEnd, IsContiguousEnd
<1>5. Candidates \subseteq Nat
  BY DEF Offsets
<1> QED
  BY <1>4, <1>5
=============================================================================
