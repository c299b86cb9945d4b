-------------------------- MODULE ListFilterProofs ---------------------------
(***************************************************************************)
(* What filtering a list keeps, for lists of any length.                   *)
(***************************************************************************)
EXTENDS ListFilter, SequenceTheorems, FiniteSetTheorems, WellFoundedInduction, TLAPS

\* A set of numbers has a least one.
LEMMA LeastNatural ==
  ASSUME NEW T \in SUBSET Nat, T # {}
  PROVE  \E m \in T : \A k \in T : m <= k
<1> DEFINE R == StrictSubsetOrdering(Nat)
           segments == {0..m : m \in T}
<1>1. \A m \in Nat : 0..m \in FiniteSubsetsOf(Nat)
  BY FS_Interval DEF FiniteSubsetsOf
<1>2. segments \subseteq FiniteSubsetsOf(Nat) /\ segments # {}
  BY <1>1
<1>3. IsWellFoundedOn(R, FiniteSubsetsOf(Nat))
  BY FS_StrictSubsetOrderingWellFounded
<1> HIDE DEF R, segments
<1>4. PICK x \in segments : \A y \in segments : ~(<<y, x>> \in R)
  BY <1>2, <1>3, WFMin
<1>5. PICK m \in T : x = 0..m
  BY <1>4 DEF segments
<1>6. ASSUME NEW k \in T, k < m
      PROVE  FALSE
  <2>1. 0..k \in SUBSET Nat /\ 0..m \in SUBSET Nat
    OBVIOUS
  <2>2. 0..k \subseteq 0..m /\ m \in 0..m /\ m \notin 0..k
    BY <1>6
  <2>3. <<0..k, 0..m>> \in R
    BY <2>1, <2>2 DEF R, StrictSubsetOrdering
  <2>4. 0..k \in segments
    BY DEF segments
  <2>5. QED
    BY <1>4, <1>5, <2>3, <2>4
<1>7. QED
  BY <1>6

LEMMA UpToFinite ==
  ASSUME NEW L \in Nat, NEW places \in SUBSET (1..L), NEW i
  PROVE  /\ IsFiniteSet(places) /\ Cardinality(places) \in Nat
         /\ IsFiniteSet(UpTo(places, i)) /\ Cardinality(UpTo(places, i)) \in Nat
<1>1. IsFiniteSet(1..L)
  BY FS_Interval
<1>2. IsFiniteSet(places) /\ UpTo(places, i) \in SUBSET places
  BY <1>1, FS_Subset DEF UpTo
<1>3. IsFiniteSet(UpTo(places, i))
  BY <1>2, FS_Subset
<1>4. QED
  BY <1>2, <1>3, FS_CardinalityType

\* Of two places that are kept, fewer are kept up to the first.
LEMMA UpToGrows ==
  ASSUME NEW L \in Nat, NEW places \in SUBSET (1..L), NEW i \in places, NEW j \in places, i < j
  PROVE  Cardinality(UpTo(places, i)) < Cardinality(UpTo(places, j))
<1>1. UpTo(places, i) \in SUBSET UpTo(places, j) /\ j \in UpTo(places, j) /\ j \notin UpTo(places, i)
  <2>1. \A k \in places : k \in Int
    OBVIOUS
  <2>2. \A k \in places : k <= i => k <= j
    BY <2>1
  <2>3. ~(j <= i) /\ j <= j
    BY <2>1
  <2>4. UpTo(places, i) \subseteq UpTo(places, j)
    BY <2>2 DEF UpTo
  <2>5. QED
    BY <2>3, <2>4 DEF UpTo
<1>2. Cardinality(UpTo(places, i)) <= Cardinality(UpTo(places, j))
      /\ Cardinality(UpTo(places, i)) # Cardinality(UpTo(places, j))
  BY <1>1, UpToFinite, FS_Subset
<1>3. Cardinality(UpTo(places, i)) \in Nat /\ Cardinality(UpTo(places, j)) \in Nat
  BY UpToFinite
<1>4. QED
  BY <1>2, <1>3

\* Every number up to how many are kept is the rank of a place: the first by
\* which so many are kept.
LEMMA RankedPlace ==
  ASSUME NEW L \in Nat, NEW places \in SUBSET (1..L), NEW n \in 1..Cardinality(places)
  PROVE  \E i \in places : Cardinality(UpTo(places, i)) = n
<1> DEFINE T == {m \in Nat : Cardinality(UpTo(places, m)) >= n}
<1>1. Cardinality(places) \in Nat /\ \A m \in Nat : Cardinality(UpTo(places, m)) \in Nat
  BY UpToFinite
<1>2. UpTo(places, L) = places /\ UpTo(places, 0) = {}
  <2>1. \A i \in places : i <= L /\ ~(i <= 0)
    OBVIOUS
  <2>2. QED
    BY <2>1 DEF UpTo
<1>3. L \in T
  BY <1>1, <1>2
<1>4. PICK m \in T : \A k \in T : m <= k
  BY <1>3, LeastNatural
<1>5. m # 0
  BY <1>2, FS_EmptySet
<1>6. m - 1 \in Nat /\ m - 1 \notin T
  BY <1>4, <1>5
<1>7. Cardinality(UpTo(places, m - 1)) < n
  BY <1>1, <1>6
<1>8. CASE m \in places
  <2>1. UpTo(places, m) = UpTo(places, m - 1) \cup {m} /\ m \notin UpTo(places, m - 1)
    <3>1. \A i \in places : i <= m <=> i <= m - 1 \/ i = m
      BY <1>6
    <3>2. ~(m <= m - 1)
      BY <1>6
    <3>3. QED
      BY <1>8, <3>1, <3>2 DEF UpTo
  <2>2. Cardinality(UpTo(places, m)) = Cardinality(UpTo(places, m - 1)) + 1
    BY <2>1, UpToFinite, FS_AddElement
  <2>3. Cardinality(UpTo(places, m)) = n
    BY <1>1, <1>4, <1>6, <1>7, <2>2
  <2>4. QED
    BY <1>8, <2>3
<1>9. CASE m \notin places
  <2>1. UpTo(places, m) = UpTo(places, m - 1)
    <3>1. \A i \in places : i <= m <=> i <= m - 1
      BY <1>6, <1>9
    <3>2. QED
      BY <3>1 DEF UpTo
  <2>2. QED
    BY <1>1, <1>4, <1>6, <1>7, <2>1
<1>10. QED
  BY <1>8, <1>9

\* The places that are kept, in their order, each once.
LEMMA NthPlaces ==
  ASSUME NEW L \in Nat, NEW places \in SUBSET (1..L)
  PROVE  /\ \A n \in 1..Cardinality(places) : NthPlace(places, n) \in places
         /\ \A m, n \in 1..Cardinality(places) :
              NthPlace(places, m) = NthPlace(places, n) => m = n
         /\ \A m, n \in 1..Cardinality(places) :
              m < n => NthPlace(places, m) < NthPlace(places, n)
         /\ \A i \in places : \E n \in 1..Cardinality(places) : NthPlace(places, n) = i
<1> DEFINE rank(i) == Cardinality(UpTo(places, i))
<1>1. \A n \in 1..Cardinality(places) :
        NthPlace(places, n) \in places /\ rank(NthPlace(places, n)) = n
  BY RankedPlace DEF NthPlace
<1>2. Cardinality(places) \in Nat /\ places \subseteq Nat
      /\ \A i \in places : rank(i) \in Nat
  <2>1. places \subseteq Nat
    OBVIOUS
  <2>2. QED
    BY <2>1, UpToFinite
<1>3. \A i, j \in places : i < j => rank(i) < rank(j)
  BY UpToGrows
<1>4. \A i \in places : rank(i) \in 1..Cardinality(places)
  <2> SUFFICES ASSUME NEW i \in places
               PROVE  rank(i) \in 1..Cardinality(places)
    OBVIOUS
  <2>1. UpTo(places, i) \in SUBSET places /\ IsFiniteSet(places) /\ i \in UpTo(places, i)
    <3>1. IsFiniteSet(places)
      BY UpToFinite
    <3>2. i <= i
      BY <1>2
    <3>3. QED
      BY <3>1, <3>2 DEF UpTo
  <2>2. rank(i) <= Cardinality(places)
    BY <2>1, FS_Subset
  <2>3. rank(i) # 0
    BY <2>1, UpToFinite, FS_EmptySet
  <2>4. QED
    BY <1>2, <2>2, <2>3
<1> HIDE DEF rank
<1>5. \A i, j \in places : rank(i) = rank(j) => i = j
  BY <1>2, <1>3
<1>6. \A m, n \in 1..Cardinality(places) :
        m < n => NthPlace(places, m) < NthPlace(places, n)
  <2> SUFFICES ASSUME NEW m \in 1..Cardinality(places), NEW n \in 1..Cardinality(places), m < n
               PROVE  NthPlace(places, m) < NthPlace(places, n)
    OBVIOUS
  <2> DEFINE i == NthPlace(places, m)
             j == NthPlace(places, n)
  <2>1. i \in places /\ j \in places /\ rank(i) = m /\ rank(j) = n
    BY <1>1
  <2> HIDE DEF i, j
  <2>2. i \in Nat /\ j \in Nat /\ m \in Nat /\ n \in Nat
    BY <1>2, <2>1
  <2>3. ~(j < i) /\ j # i
    BY <1>3, <2>1, <2>2
  <2>4. i < j
    BY <2>2, <2>3
  <2>5. QED
    BY <2>4 DEF i, j
<1>7. \A i \in places : \E n \in 1..Cardinality(places) : NthPlace(places, n) = i
  BY <1>1, <1>4, <1>5
<1>8. QED
  BY <1>1, <1>6, <1>7

\* What is left of a list are items of it, in their order, each place once.
LEMMA OnlyProperties ==
  ASSUME NEW S, NEW list \in Seq(S), NEW places \in SUBSET DOMAIN list
  PROVE  /\ Only(list, places) \in Seq(S)
         /\ Len(Only(list, places)) = Cardinality(places)
         /\ DOMAIN Only(list, places) = 1..Cardinality(places)
         /\ Cardinality(places) \in 0..Len(list)
         /\ \A n \in 1..Cardinality(places) :
              /\ NthPlace(places, n) \in places
              /\ Only(list, places)[n] = list[NthPlace(places, n)]
         /\ \A m, n \in 1..Cardinality(places) :
              NthPlace(places, m) = NthPlace(places, n) => m = n
         /\ \A i \in places : \E n \in 1..Cardinality(places) : NthPlace(places, n) = i
<1>1. Len(list) \in Nat /\ DOMAIN list = 1..Len(list)
  BY LenProperties
<1>2. places \in SUBSET (1..Len(list))
  BY <1>1
<1>3. Cardinality(places) \in Nat /\ Cardinality(places) <= Len(list)
  <2>1. IsFiniteSet(1..Len(list)) /\ Cardinality(1..Len(list)) = Len(list)
    <3>1. 1 \in Int /\ Len(list) \in Int /\ Len(list) = (IF 1 > Len(list) THEN 0 ELSE Len(list) - 1 + 1)
      BY <1>1
    <3>2. QED
      BY <3>1, FS_Interval
  <2>2. Cardinality(places) <= Len(list)
    BY <1>2, <2>1, FS_Subset
  <2>3. QED
    BY <1>1, <1>2, <2>2, UpToFinite
<1>4. \A n \in 1..Cardinality(places) : NthPlace(places, n) \in places
  BY <1>1, <1>2, NthPlaces
<1>5. \A n \in 1..Cardinality(places) : list[NthPlace(places, n)] \in S
  BY <1>1, <1>4, ElementOfSeq
<1>6. /\ Only(list, places) \in Seq(S) /\ Len(Only(list, places)) = Cardinality(places)
      /\ DOMAIN Only(list, places) = 1..Cardinality(places)
  BY <1>3, <1>5, IsASeq, LenProperties DEF Only
<1>7. /\ \A m, n \in 1..Cardinality(places) :
            NthPlace(places, m) = NthPlace(places, n) => m = n
      /\ \A i \in places : \E n \in 1..Cardinality(places) : NthPlace(places, n) = i
  BY <1>1, <1>2, NthPlaces
<1>8. \A n \in 1..Cardinality(places) : Only(list, places)[n] = list[NthPlace(places, n)]
  BY DEF Only
<1>9. Cardinality(places) \in 0..Len(list)
  BY <1>1, <1>3
<1>10. QED
  BY <1>4, <1>6, <1>7, <1>8, <1>9
=============================================================================
