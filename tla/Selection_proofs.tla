-------------------------- MODULE Selection_proofs --------------------------
(***************************************************************************)
(* What the operators of Selection return, for every set and sequence.     *)
(***************************************************************************)
EXTENDS Selection, FiniteSetTheorems, TLAPS

\* A larger number has a higher rank.
LEMMA RankGrows ==
    ASSUME NEW R \in SUBSET Nat, IsFiniteSet(R), NEW r \in R, NEW s \in R, r < s
    PROVE  Cardinality({q \in R : q <= r}) < Cardinality({q \in R : q <= s})
  <1>. DEFINE A == {q \in R : q <= r}
              B == {q \in R : q <= s}
  <1>1. A \in SUBSET B /\ B \in SUBSET R /\ s \in B /\ s \notin A
    <2>1. \A q \in R : q \in Nat
      OBVIOUS
    <2>2. \A q \in R : q <= r => q <= s
      BY <2>1
    <2>3. s <= s /\ ~(s <= r)
      BY <2>1
    <2>. QED
      BY <2>2, <2>3
  <1>2. IsFiniteSet(B)
    BY <1>1, FS_Subset
  <1>3. /\ IsFiniteSet(A) /\ Cardinality(A) <= Cardinality(B)
        /\ Cardinality(B) = Cardinality(A) => B = A
    BY <1>1, <1>2, FS_Subset
  <1>4. Cardinality(A) \in Nat /\ Cardinality(B) \in Nat
    BY <1>2, <1>3, FS_CardinalityType
  <1>. QED
    BY <1>1, <1>3, <1>4

\* Every place up to the size of the set is the rank of one of its numbers.
LEMMA RankExists ==
    ASSUME NEW R \in SUBSET Nat, IsFiniteSet(R), NEW n \in 1 .. Cardinality(R)
    PROVE  \E r \in R : Cardinality({q \in R : q <= r}) = n
  <1>. DEFINE rank == [r \in R |-> Cardinality({q \in R : q <= r})]
              places == 1 .. Cardinality(R)
  <1>1. Cardinality(R) \in Nat
    BY FS_CardinalityType
  <1>2. ASSUME NEW r \in R PROVE rank[r] \in places
    <2>. DEFINE A == {q \in R : q <= r}
    <2>1. A \in SUBSET R /\ r \in A
      OBVIOUS
    <2>2. IsFiniteSet(A) /\ Cardinality(A) <= Cardinality(R)
      BY <2>1, FS_Subset
    <2>3. Cardinality(A) \in Nat /\ Cardinality(A) # 0
      BY <2>1, <2>2, FS_CardinalityType, FS_EmptySet
    <2>. QED
      BY <1>1, <2>2, <2>3
  <1>3. ASSUME NEW r \in R, NEW s \in R, rank[r] = rank[s] PROVE r = s
    <2>1. r \in Nat /\ s \in Nat /\ rank[r] \in Int /\ rank[s] \in Int
      BY <1>2
    <2>2. ~(r < s) /\ ~(s < r)
      BY <1>3, <2>1, RankGrows
    <2>. QED
      BY <2>1, <2>2
  <1>4. rank \in Injection(R, places)
    <2>. HIDE DEF places
    <2>1. rank \in [R -> places]
      BY <1>2
    <2>. QED
      BY <1>3, <2>1 DEF Injection, IsInjective
  <1>5. IsFiniteSet(places) /\ Cardinality(places) = Cardinality(R)
    BY <1>1, FS_Interval
  <1>6. rank \in Surjection(R, places)
    <2>. HIDE DEF rank, places
    <2>. QED
      BY <1>4, <1>5, FS_Injection
  <1>7. n \in places
    OBVIOUS
  <1>8. PICK r \in R : rank[r] = n
    <2>. HIDE DEF rank, places
    <2>. QED
      BY <1>6, <1>7 DEF Surjection
  <1>. QED
    BY <1>8

\* InOrder lists a finite set of numbers, each one once and in their order.
LEMMA InOrderLists ==
    ASSUME NEW R \in SUBSET Nat, IsFiniteSet(R)
    PROVE  /\ InOrder(R) \in Seq(R)
           /\ Len(InOrder(R)) = Cardinality(R)
           /\ \A r \in R : \E n \in DOMAIN InOrder(R) : InOrder(R)[n] = r
           /\ \A m, n \in DOMAIN InOrder(R) :
                 m < n => InOrder(R)[m] < InOrder(R)[n]
  <1>. DEFINE Rank(r) == Cardinality({q \in R : q <= r})
              size == Cardinality(R)
  <1>1. size \in Nat
    BY FS_CardinalityType
  <1>2. ASSUME NEW n \in 1 .. size
        PROVE  InOrder(R)[n] \in R /\ Rank(InOrder(R)[n]) = n
    <2>1. \E r \in R : Rank(r) = n
      BY RankExists
    <2>2. InOrder(R)[n] = CHOOSE r \in R : Rank(r) = n
      BY DEF InOrder
    <2>. HIDE DEF Rank
    <2>. QED
      BY <2>1, <2>2
  <1>3. InOrder(R) = [n \in 1 .. size |-> InOrder(R)[n]]
    <2>. DEFINE Pick(n) == CHOOSE r \in R : Rank(r) = n
    <2>1. InOrder(R) = [n \in 1 .. size |-> Pick(n)]
      BY DEF InOrder
    <2>. HIDE DEF Pick, size
    <2>. QED
      BY <2>1
  <1>4. InOrder(R) \in [1 .. size -> R]
    BY <1>2, <1>3
  <1>5. InOrder(R) \in Seq(R) /\ Len(InOrder(R)) = size /\ DOMAIN InOrder(R) = 1 .. size
    <2>. HIDE DEF size
    <2>. QED
      BY <1>1, <1>4
  <1>6. ASSUME NEW r \in R, NEW s \in R
        PROVE  /\ r < s => Rank(r) < Rank(s)
               /\ Rank(r) \in 1 .. size
    <2>1. r < s => Rank(r) < Rank(s)
      BY RankGrows
    <2>2. {q \in R : q <= r} \in SUBSET R /\ r \in {q \in R : q <= r}
      OBVIOUS
    <2>3. Rank(r) \in Nat /\ Rank(r) <= size /\ Rank(r) # 0
      BY <2>2, FS_Subset, FS_CardinalityType, FS_EmptySet
    <2>. QED
      BY <1>1, <2>1, <2>3
  <1>7. ASSUME NEW r \in R PROVE \E n \in 1 .. size : InOrder(R)[n] = r
    <2>. DEFINE s == InOrder(R)[Rank(r)]
    <2>1. Rank(r) \in 1 .. size
      BY <1>6
    <2>2. s \in R /\ Rank(s) = Rank(r)
      BY <1>2, <2>1
    <2>3. ~(s < r) /\ ~(r < s)
      <3>1. Rank(r) \in Int /\ Rank(s) \in Int
        BY <2>1, <2>2
      <3>. HIDE DEF Rank, s
      <3>. QED
        BY <1>6, <2>2, <3>1
    <2>4. s = r
      <3>. HIDE DEF s
      <3>. QED
        BY <2>2, <2>3
    <2>. QED
      BY <2>1, <2>4
  <1>8. ASSUME NEW m \in 1 .. size, NEW n \in 1 .. size, m < n
        PROVE  InOrder(R)[m] < InOrder(R)[n]
    <2>. DEFINE r == InOrder(R)[m]
                s == InOrder(R)[n]
    <2>1. r \in R /\ s \in R /\ Rank(r) = m /\ Rank(s) = n
      BY <1>2
    <2>2. s < r => n < m
      BY <1>6, <2>1
    <2>3. r \in Nat /\ s \in Nat
      BY <2>1
    <2>4. ~(n < m) /\ m # n
      BY <1>1, <1>8
    <2>5. r # s
      <3>. HIDE DEF r, s, Rank
      <3>. QED
        BY <2>1, <2>4
    <2>. HIDE DEF r, s
    <2>6. r < s
      BY <2>2, <2>3, <2>4, <2>5
    <2>. QED
      BY <2>6 DEF r, s
  <1>. QED
    BY <1>5, <1>7, <1>8

\* Those picks the elements that belong to the set, in the order they have.
LEMMA ThoseSelects ==
    ASSUME NEW S, NEW s \in Seq(S), NEW T
    PROVE  /\ Those(s, T) \in Seq(S)
           /\ \A n \in DOMAIN Those(s, T) :
                 \E i \in DOMAIN s : s[i] = Those(s, T)[n] /\ s[i] \in T
           /\ \A i \in DOMAIN s :
                 s[i] \in T => \E n \in DOMAIN Those(s, T) : Those(s, T)[n] = s[i]
           /\ \A m, n \in DOMAIN Those(s, T) : m < n =>
                 \E i, j \in DOMAIN s : /\ i < j /\ s[i] = Those(s, T)[m]
                                        /\ s[j] = Those(s, T)[n]
  <1>. DEFINE R == {i \in DOMAIN s : s[i] \in T}
              places == InOrder(R)
  <1>1. R \in SUBSET Nat /\ IsFiniteSet(R)
    <2>1. Len(s) \in Nat /\ DOMAIN s = 1 .. Len(s)
      OBVIOUS
    <2>2. IsFiniteSet(1 .. Len(s))
      BY <2>1, FS_Interval
    <2>. QED
      BY <2>1, <2>2, FS_Subset
  <1>2. /\ places \in Seq(R)
        /\ \A r \in R : \E n \in DOMAIN places : places[n] = r
        /\ \A m, n \in DOMAIN places : m < n => places[m] < places[n]
    <2>. HIDE DEF R
    <2>. QED
      BY <1>1, InOrderLists
  <1>3. Those(s, T) = [n \in DOMAIN places |-> s[places[n]]]
    BY DEF Those
  <1>. HIDE DEF places
  <1>4. Len(places) \in Nat /\ DOMAIN places = 1 .. Len(places)
    BY <1>2
  <1>5. ASSUME NEW n \in DOMAIN places
        PROVE  /\ places[n] \in DOMAIN s /\ s[places[n]] \in T
               /\ s[places[n]] \in S
    <2>1. places[n] \in R
      BY <1>2
    <2>. QED
      BY <2>1
  <1>6. Those(s, T) \in [1 .. Len(places) -> S]
    BY <1>3, <1>4, <1>5
  <1>7. Those(s, T) \in Seq(S)
    BY <1>4, <1>6
  <1>8. DOMAIN Those(s, T) = DOMAIN places
        /\ \A n \in DOMAIN places : Those(s, T)[n] = s[places[n]]
    BY <1>3
  <1>9. \A n \in DOMAIN Those(s, T) :
           \E i \in DOMAIN s : s[i] = Those(s, T)[n] /\ s[i] \in T
    BY <1>5, <1>8
  <1>10. \A i \in DOMAIN s :
            s[i] \in T => \E n \in DOMAIN Those(s, T) : Those(s, T)[n] = s[i]
    BY <1>2, <1>8
  <1>11. \A m, n \in DOMAIN Those(s, T) : m < n =>
            \E i, j \in DOMAIN s : /\ i < j /\ s[i] = Those(s, T)[m]
                                   /\ s[j] = Those(s, T)[n]
    BY <1>2, <1>5, <1>8
  <1>. QED
    BY <1>7, <1>9, <1>10, <1>11
=============================================================================
