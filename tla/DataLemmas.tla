----------------------------- MODULE DataLemmas -----------------------------
(***************************************************************************)
(* What the proofs about lists need: induction over the naturals, in the   *)
(* form of a set that is closed under successor; the existence of what a   *)
(* recursive function computes; and the order of keys.                     *)
(***************************************************************************)
EXTENDS KeyOrder, Sequences, FiniteSetTheorems, TLAPS

-----------------------------------------------------------------------------
(* Induction *)

\* A set of naturals that is not empty has a least element.
LEMMA LeastNatural ==
    ASSUME NEW T \in SUBSET Nat, T # {}
    PROVE  \E n \in T : \A m \in T : n <= m
<1>1. PICK n \in T : \A m \in T : ~ (<<m, n>> \in OpToRel(<, Nat))
  BY NatLessThanWellFounded, WFMin
<1>2. \A m \in T : ~ (m < n)
  BY <1>1, Zenon DEF OpToRel
<1>3. n \in Nat /\ \A m \in T : m \in Nat
  OBVIOUS
<1>4. \A m \in T : n <= m
  BY <1>2, <1>3
<1> QED
  BY <1>4

\* What holds of 0 and of the successor of all it holds of, holds of all
\* naturals.
LEMMA Induction ==
    ASSUME NEW T \in SUBSET Nat, 0 \in T, \A n \in T : n + 1 \in T
    PROVE  \A n \in Nat : n \in T
<1> SUFFICES ASSUME NEW m \in Nat, m \notin T
             PROVE  FALSE
  OBVIOUS
<1>1. PICK n \in Nat \ T : \A k \in Nat \ T : n <= k
  BY LeastNatural
<1>2. n - 1 \in Nat /\ n - 1 \notin Nat \ T
  BY <1>1
<1> QED
  BY <1>1, <1>2

\* The same up to a bound.
LEMMA InductionUpTo ==
    ASSUME NEW n \in Nat, NEW T, 0 \in T, \A i \in 1 .. n : i - 1 \in T => i \in T
    PROVE  \A i \in 0 .. n : i \in T
<1> DEFINE U == {i \in Nat : i <= n => i \in T}
<1>1. 0 \in U
  OBVIOUS
<1>2. ASSUME NEW i \in U
      PROVE  i + 1 \in U
  <2>1. i + 1 <= n => i + 1 \in 1 .. n /\ (i + 1) - 1 = i /\ i <= n
    OBVIOUS
  <2> QED
    BY <2>1
<1> HIDE DEF U
<1>3. \A i \in Nat : i \in U
  BY <1>1, <1>2, Induction DEF U
<1> QED
  BY <1>3 DEF U

\* A function that is computed entry by entry exists.
Computed(f, n, S, a, step) ==
    /\ f \in [0 .. n -> S]
    /\ f[0] = a
    /\ \A i \in 1 .. n : f[i] = step[<<f[i - 1], i>>]

LEMMA RecursionExists ==
    ASSUME NEW n \in Nat, NEW S, NEW a \in S, NEW step \in [S \X (1 .. n) -> S]
    PROVE  \E f : Computed(f, n, S, a, step)
<1> DEFINE Upto(m, f) == f[0] = a /\ \A i \in 1 .. m : f[i] = step[<<f[i - 1], i>>]
           T == {m \in Nat : m <= n => \E f \in [0 .. m -> S] : Upto(m, f)}
<1>1. 0 \in T
  <2>1. [i \in 0 .. 0 |-> a] \in [0 .. 0 -> S] /\ Upto(0, [i \in 0 .. 0 |-> a])
    OBVIOUS
  <2> QED
    BY <2>1
<1>2. ASSUME NEW m \in T
      PROVE  m + 1 \in T
  <2> SUFFICES ASSUME m + 1 <= n
               PROVE  \E f \in [0 .. (m + 1) -> S] : Upto(m + 1, f)
    OBVIOUS
  <2>1. PICK f \in [0 .. m -> S] : Upto(m, f)
    BY m <= n
  <2> DEFINE last == step[<<f[m], m + 1>>]
             g == [i \in 0 .. (m + 1) |-> IF i <= m THEN f[i] ELSE last]
  <2>2. last \in S
    BY m + 1 \in 1 .. n, f[m] \in S
  <2>3. g \in [0 .. (m + 1) -> S]
    BY <2>2
  <2>4. Upto(m + 1, g)
    <3>1. g[0] = a
      BY <2>1
    <3>2. ASSUME NEW i \in 1 .. (m + 1)
          PROVE  g[i] = step[<<g[i - 1], i>>]
      <4>1. CASE i <= m
        <5>1. i \in 1 .. m /\ g[i] = f[i] /\ g[i - 1] = f[i - 1]
          BY <4>1
        <5> QED
          BY <2>1, <5>1
      <4>2. CASE i = m + 1
        <5>1. g[i] = last /\ g[i - 1] = f[m]
          BY <4>2
        <5> QED
          BY <4>2, <5>1
      <4> QED
        BY <4>1, <4>2
    <3> QED
      BY <3>1, <3>2
  <2> QED
    BY <2>3, <2>4
<1> HIDE DEF T
<1>3. n \in T
  BY <1>1, <1>2, Induction DEF T
<1>4. PICK f \in [0 .. n -> S] : Upto(n, f)
  BY <1>3 DEF T
<1> QED
  BY <1>4 DEF Computed

-----------------------------------------------------------------------------
(* Keys in order *)

\* The ranks of different keys are different numbers.
Ranked(keys, rank) ==
    /\ IsFiniteSet(keys)
    /\ \A k \in keys : rank[k] \in Int
    /\ \A j, k \in keys : rank[j] = rank[k] => j = k

InOrder(s, keys, rank) ==
    /\ s \in [1 .. Cardinality(keys) -> keys]
    /\ \A i, j \in 1 .. Cardinality(keys) : i < j => rank[s[i]] < rank[s[j]]

UpTo(k, keys, rank) == {j \in keys : rank[j] <= rank[k]}

\* The place of a key is the number of keys up to it.
LEMMA Places ==
    ASSUME NEW keys, NEW rank, Ranked(keys, rank), NEW k \in keys
    PROVE  /\ IsFiniteSet(UpTo(k, keys, rank))
           /\ Cardinality(UpTo(k, keys, rank)) \in 1 .. Cardinality(keys)
           /\ \A j \in keys : rank[j] < rank[k] =>
                 Cardinality(UpTo(j, keys, rank)) < Cardinality(UpTo(k, keys, rank))
<1>1. \A j \in keys : /\ UpTo(j, keys, rank) \subseteq keys
                      /\ IsFiniteSet(UpTo(j, keys, rank))
                      /\ Cardinality(UpTo(j, keys, rank)) \in Nat
  BY FS_Subset, FS_CardinalityType DEF UpTo, Ranked
<1>2. Cardinality(keys) \in Nat /\ Cardinality(UpTo(k, keys, rank)) <= Cardinality(keys)
  BY <1>1, FS_Subset, FS_CardinalityType DEF Ranked
<1>3. Cardinality(UpTo(k, keys, rank)) # 0
  <2>1. k \in UpTo(k, keys, rank)
    BY DEF UpTo, Ranked
  <2> QED
    BY <1>1, <2>1, FS_EmptySet
<1>4. ASSUME NEW j \in keys, rank[j] < rank[k]
      PROVE  Cardinality(UpTo(j, keys, rank)) < Cardinality(UpTo(k, keys, rank))
  <2>1. UpTo(j, keys, rank) \subseteq UpTo(k, keys, rank)
    BY <1>4 DEF UpTo, Ranked
  <2>2. UpTo(j, keys, rank) # UpTo(k, keys, rank)
    BY <1>4 DEF UpTo, Ranked
  <2>3. /\ Cardinality(UpTo(j, keys, rank)) <= Cardinality(UpTo(k, keys, rank))
        /\ Cardinality(UpTo(j, keys, rank)) # Cardinality(UpTo(k, keys, rank))
    BY <1>1, <2>1, <2>2, FS_Subset
  <2> QED
    BY <1>1, <2>3
<1> QED
  BY <1>1, <1>2, <1>3, <1>4

\* Keys can be put in order.
LEMMA OrderExists ==
    ASSUME NEW keys, NEW rank, Ranked(keys, rank)
    PROVE  InOrder(in_key_order(keys, rank), keys, rank)
<1> DEFINE n == Cardinality(keys)
           place == [k \in keys |-> Cardinality(UpTo(k, keys, rank))]
<1>1. n \in Nat /\ IsFiniteSet(1 .. n) /\ Cardinality(1 .. n) = n
  BY FS_CardinalityType, FS_Interval DEF Ranked
<1>2. place \in Injection(keys, 1 .. n)
  <2>1. place \in [keys -> 1 .. n]
    BY Places
  <2>2. ASSUME NEW j \in keys, NEW k \in keys, place[j] = place[k]
        PROVE  j = k
    <3>1. ~(rank[j] < rank[k]) /\ ~(rank[k] < rank[j])
      BY <2>1, <2>2, Places
    <3> QED
      BY <3>1 DEF Ranked
  <2> QED
    BY <2>1, <2>2 DEF Injection, IsInjective
<1>3. place \in Surjection(keys, 1 .. n)
  BY <1>1, <1>2, FS_Injection
<1> DEFINE s == [i \in 1 .. n |-> CHOOSE k \in keys : place[k] = i]
<1>4. ASSUME NEW i \in 1 .. n
      PROVE  s[i] \in keys /\ place[s[i]] = i
  BY <1>3 DEF Surjection
<1>5. ASSUME NEW i \in 1 .. n, NEW j \in 1 .. n, i < j
      PROVE  rank[s[i]] < rank[s[j]]
  <2> HIDE DEF s
  <2>1. s[i] \in keys /\ s[j] \in keys
    BY <1>4
  <2>2. /\ Cardinality(UpTo(s[i], keys, rank)) = i
        /\ Cardinality(UpTo(s[j], keys, rank)) = j
    BY <1>4, <2>1
  <2>3. ~(rank[s[j]] < rank[s[i]]) /\ s[i] # s[j]
    BY <1>5, <2>1, <2>2, Places
  <2> QED
    BY <2>1, <2>3 DEF Ranked
<1>6. InOrder(s, keys, rank)
  <2>1. s \in [1 .. n -> keys]
    BY <1>4
  <2> HIDE DEF s
  <2> QED
    BY <1>5, <2>1 DEF InOrder
<1> HIDE DEF s
<1> QED
  BY <1>6 DEF InOrder, in_key_order

\* An order has every key, each at its place.
LEMMA OrderPlaces ==
    ASSUME NEW keys, NEW rank, Ranked(keys, rank), NEW s, InOrder(s, keys, rank)
    PROVE  /\ \A i \in 1 .. Cardinality(keys) :
                 Cardinality(UpTo(s[i], keys, rank)) = i
           /\ \A k \in keys : \E i \in 1 .. Cardinality(keys) : s[i] = k
<1> DEFINE n == Cardinality(keys)
<1>1. n \in Nat /\ IsFiniteSet(1 .. n) /\ Cardinality(1 .. n) = n
  BY FS_CardinalityType, FS_Interval DEF Ranked
<1>2. s \in [1 .. n -> keys] /\ \A i, j \in 1 .. n : i < j => rank[s[i]] < rank[s[j]]
  BY DEF InOrder
<1>3. \A i \in 1 .. n : s[i] \in keys /\ rank[s[i]] \in Int
  BY <1>2 DEF Ranked
<1>4. \A i, j \in 1 .. n : s[i] = s[j] => i = j
  <2> SUFFICES ASSUME NEW i \in 1 .. n, NEW j \in 1 .. n, s[i] = s[j], i # j
               PROVE  FALSE
    OBVIOUS
  <2>1. i < j \/ j < i
    OBVIOUS
  <2>2. rank[s[i]] < rank[s[j]] \/ rank[s[j]] < rank[s[i]]
    BY <1>2, <2>1
  <2> QED
    BY <1>3, <2>2
<1>5. s \in Injection(1 .. n, keys)
  BY <1>2, <1>4 DEF Injection, IsInjective
<1>6. \A k \in keys : \E i \in 1 .. n : s[i] = k
  <2>1. s \in Surjection(1 .. n, keys)
    BY <1>1, <1>5, FS_Injection DEF Ranked
  <2> QED
    BY <2>1 DEF Surjection
<1>7. ASSUME NEW i \in 1 .. n
      PROVE  Cardinality(UpTo(s[i], keys, rank)) = i
  <2> DEFINE U == UpTo(s[i], keys, rank)
             f == [m \in 1 .. i |-> s[m]]
  <2>1. \A m \in 1 .. n : s[m] \in U <=> m <= i
    <3> TAKE m \in 1 .. n
    <3>1. CASE m < i
      BY <1>2, <1>3, <3>1 DEF UpTo
    <3>2. CASE m = i
      BY <1>3, <3>2 DEF UpTo
    <3>3. CASE m > i
      <4>1. rank[s[i]] < rank[s[m]]
        BY <1>2, <3>3
      <4> QED
        BY <1>3, <3>3, <4>1 DEF UpTo
    <3> QED
      BY <3>1, <3>2, <3>3
  <2>2. 1 .. i \subseteq 1 .. n
    BY <1>1
  <2>3. U \subseteq keys
    BY DEF UpTo
  <2> HIDE DEF U
  <2>4. f \in [1 .. i -> U]
    BY <2>1, <2>2
  <2>5. f \in Injection(1 .. i, U)
    BY <1>4, <2>2, <2>4 DEF Injection, IsInjective
  <2>6. f \in Surjection(1 .. i, U)
    <3>1. ASSUME NEW k \in U
          PROVE  \E m \in 1 .. i : f[m] = k
      <4>1. PICK m \in 1 .. n : s[m] = k
        BY <1>6, <2>3
      <4> QED
        BY <2>1, <4>1
    <3> QED
      BY <2>4, <3>1 DEF Surjection
  <2>7. ExistsBijection(1 .. i, U)
    BY <2>5, <2>6 DEF ExistsBijection, Bijection
  <2> QED
    BY <2>7, FS_CountingElements DEF U
<1> QED
  BY <1>6, <1>7

\* Keys in order are a sequence with a place for every key.
LEMMA KeyList ==
    ASSUME NEW keys, NEW rank, Ranked(keys, rank)
    PROVE  LET all == in_key_order(keys, rank)
           IN /\ InOrder(all, keys, rank)
              /\ all \in Seq(keys) /\ Len(all) = Cardinality(keys)
              /\ Cardinality(keys) \in Nat
              /\ \A k \in keys : \E i \in 1 .. Len(all) : all[i] = k
<1> DEFINE all == in_key_order(keys, rank)
<1>1. InOrder(all, keys, rank)
  BY OrderExists
<1>2. Cardinality(keys) \in Nat
  BY FS_CardinalityType DEF Ranked
<1>3. \A k \in keys : \E i \in 1 .. Cardinality(keys) : all[i] = k
  BY <1>1, OrderPlaces
<1> HIDE DEF all
<1>4. all \in Seq(keys) /\ Len(all) = Cardinality(keys)
  BY <1>1, <1>2 DEF InOrder
<1> QED
  BY <1>1, <1>2, <1>3, <1>4 DEF all

\* A key keeps its place or moves to a later one when keys are added.
LEMMA PlacesGrow ==
    ASSUME NEW keys, NEW more, keys \subseteq more, NEW rank, NEW rank2,
           Ranked(keys, rank), Ranked(more, rank2),
           \A k \in keys : rank[k] = rank2[k],
           NEW s, InOrder(s, keys, rank), NEW t, InOrder(t, more, rank2),
           NEW i \in 1 .. Cardinality(keys), NEW j \in 1 .. Cardinality(more),
           s[i] = t[j]
    PROVE  i <= j
<1>1. s[i] \in keys
  BY DEF InOrder
<1>2. UpTo(s[i], keys, rank) \subseteq UpTo(t[j], more, rank2)
  BY <1>1 DEF UpTo
<1>3. IsFiniteSet(UpTo(t[j], more, rank2))
  BY <1>1, Places
<1>4. Cardinality(UpTo(s[i], keys, rank)) <= Cardinality(UpTo(t[j], more, rank2))
  BY <1>2, <1>3, FS_Subset
<1> QED
  BY <1>4, OrderPlaces

=============================================================================
