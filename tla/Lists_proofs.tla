------------------------------- MODULE Lists_proofs -------------------------------
(***************************************************************************)
(* What Picked returns, for every list and every set of places: the        *)
(* elements at those places, each once and in the order of the list.       *)
(*                                                                         *)
(* Induction goes by sets of numbers, not by predicates: a set that has 0  *)
(* and with each number the next one has them all, since the numbers it    *)
(* lacked would have a least one.                                          *)
(***************************************************************************)
EXTENDS Lists, Integers, TLAPS, FiniteSetTheorems

LEMMA LeastNumber ==
    ASSUME NEW T \in SUBSET Nat, T # {}
    PROVE  \E n \in T : \A m \in T : n <= m
<1>1. PICK n \in T : \A m \in T : <<m, n>> \notin OpToRel(<, Nat)
  BY NatLessThanWellFounded, WFMin
<1>2. \A m \in T : ~(m < n)
  BY <1>1 DEF OpToRel
<1> QED BY <1>2

LEMMA InductionBySet ==
    ASSUME NEW T, 0 \in T, \A n \in Nat : n \in T => n + 1 \in T
    PROVE  Nat \subseteq T
<1>1. SUFFICES ASSUME Nat \ T # {} PROVE FALSE
  OBVIOUS
<1>2. PICK n \in Nat \ T : \A m \in Nat \ T : n <= m
  BY <1>1, LeastNumber
<1>3. n # 0 /\ n - 1 \in Nat /\ n - 1 + 1 = n
  BY <1>2
<1>4. n - 1 \in T
  BY <1>2, <1>3
<1> QED BY <1>2, <1>3, <1>4

--------------------------------------------------------------------------------
(***************************************************************************)
(* The loop.                                                               *)
(***************************************************************************)

\* What the loop has appended after n elements, in terms of what it had before.
Appended(before, list, places, n) ==
    IF n = 0 THEN <<>>
    ELSE IF n \in places THEN Append(before[n - 1], list[n])
    ELSE before[n - 1]

\* There is a function with the recursive definition of Picked.
LEMMA OrderedExists ==
    ASSUME NEW V, NEW list \in Seq(V), NEW places
    PROVE  \E f : f = [n \in 0 .. Len(list) |-> Appended(f, list, places, n)]
<1> DEFINE L == Len(list)
           Upto(k) == {f \in [0 .. k -> Seq(V)] :
                           \A n \in 0 .. k : f[n] = Appended(f, list, places, n)}
           Good == {k \in Nat : k <= L => Upto(k) # {}}
<1> HIDE DEF Upto
<1>1. L \in Nat
  OBVIOUS
<1>2. 0 \in Good
  <2> DEFINE f == [n \in 0 .. 0 |-> <<>>]
  <2>1. f \in [0 .. 0 -> Seq(V)] /\ \A n \in 0 .. 0 : f[n] = Appended(f, list, places, n)
    BY DEF Appended
  <2>2. f \in Upto(0)
    BY <2>1 DEF Upto
  <2> QED BY <2>2
<1>3. ASSUME NEW k \in Nat, k \in Good
      PROVE  k + 1 \in Good
  <2> SUFFICES ASSUME k + 1 <= L PROVE Upto(k + 1) # {}
    OBVIOUS
  <2>1. PICK f \in Upto(k) : TRUE
    BY <1>1, <1>3
  <2> DEFINE g == [n \in 0 .. k + 1 |->
                       IF n <= k THEN f[n] ELSE Appended(f, list, places, k + 1)]
  <2>2. f \in [0 .. k -> Seq(V)] /\ \A n \in 0 .. k : f[n] = Appended(f, list, places, n)
    BY <2>1 DEF Upto
  <2>3. Appended(f, list, places, k + 1) \in Seq(V)
    <3>1. k + 1 # 0 /\ k + 1 - 1 = k /\ f[k] \in Seq(V) /\ list[k + 1] \in V
      BY <1>1, <2>2
    <3> QED BY <3>1 DEF Appended
  <2>4. g \in [0 .. k + 1 -> Seq(V)]
    BY <2>2, <2>3
  <2>5. ASSUME NEW n \in 0 .. k + 1
        PROVE  g[n] = Appended(g, list, places, n)
    <3>1. n # 0 => g[n - 1] = f[n - 1]
      OBVIOUS
    <3>2. Appended(g, list, places, n) = Appended(f, list, places, n)
      BY <3>1 DEF Appended
    <3>3. n <= k \/ n = k + 1
      OBVIOUS
    <3> QED BY <2>2, <3>2, <3>3
  <2>6. g \in Upto(k + 1)
    BY <2>4, <2>5 DEF Upto
  <2> QED BY <2>6
<1> HIDE DEF Good
<1>4. Nat \subseteq Good
  BY <1>2, <1>3, InductionBySet
<1>5. PICK f \in Upto(L) : TRUE
  BY <1>1, <1>4 DEF Good
<1>6. f = [n \in 0 .. L |-> Appended(f, list, places, n)]
  BY <1>5 DEF Upto
<1> QED BY <1>6

\* These places are those of K, in their order.
Enumerates(place, n, K) ==
    /\ place \in [1 .. n -> K]
    /\ \A i, j \in 1 .. n : i < j => place[i] < place[j]
    /\ \A k \in K : \E i \in 1 .. n : place[i] = k

\* The elements of list at the places of K, in their order.
ListsPlaces(new, list, K) ==
    \E place : /\ Enumerates(place, Len(new), K)
               /\ \A i \in 1 .. Len(new) : new[i] = list[place[i]]

\* Picked returns the elements at the places, each once and in the order of the list
\* (_apply_order, build_bibliography).
LEMMA PickedListsPlaces ==
    ASSUME NEW V, NEW list \in Seq(V), NEW places
    PROVE  /\ Picked(list, places) \in Seq(V)
           /\ ListsPlaces(Picked(list, places), list, DOMAIN list \cap places)
<1> DEFINE L == Len(list)
           f == CHOOSE g : g = [n \in 0 .. L |-> Appended(g, list, places, n)]
           Upto(n) == {k \in 1 .. n : k \in places}
           Sound(n) == f[n] \in Seq(V) /\ ListsPlaces(f[n], list, Upto(n))
           Good == {n \in Nat : n <= L => Sound(n)}
<1>1. L \in Nat /\ DOMAIN list = 1 .. L
  OBVIOUS
<1>2. f = [n \in 0 .. L |-> Appended(f, list, places, n)]
  BY OrderedExists
<1>3. Picked(list, places) = f[L]
  BY DEF Picked, Appended
<1> HIDE DEF f, Sound
<1>4. \A n \in 0 .. L : f[n] = Appended(f, list, places, n)
  BY <1>2
<1>5. 0 \in Good
  <2>1. f[0] = <<>>
    BY <1>1, <1>4 DEF Appended
  <2>2. ListsPlaces(<<>>, list, Upto(0))
    <3>1. Enumerates(<<>>, 0, Upto(0))
      BY DEF Enumerates
    <3> QED BY <3>1 DEF ListsPlaces
  <2>3. Sound(0)
    BY <2>1, <2>2 DEF Sound
  <2> QED BY <2>3
<1>6. ASSUME NEW n \in Nat, n \in Good
      PROVE  n + 1 \in Good
  <2> SUFFICES ASSUME n + 1 <= L
               PROVE  f[n + 1] \in Seq(V) /\ ListsPlaces(f[n + 1], list, Upto(n + 1))
    BY DEF Sound
  <2>1. f[n] \in Seq(V) /\ ListsPlaces(f[n], list, Upto(n))
    BY <1>1, <1>6 DEF Sound
  <2>2. f[n + 1] = IF n + 1 \in places THEN Append(f[n], list[n + 1]) ELSE f[n]
    BY <1>1, <1>4 DEF Appended
  <2>3. CASE n + 1 \notin places
    <3>1. Upto(n + 1) = Upto(n)
      BY <2>3
    <3> QED BY <2>1, <2>2, <2>3, <3>1
  <2>4. CASE n + 1 \in places
    <3> DEFINE m == Len(f[n])
    <3>1. PICK place : /\ Enumerates(place, m, Upto(n))
                       /\ \A i \in 1 .. m : f[n][i] = list[place[i]]
      BY <2>1 DEF ListsPlaces
    <3> DEFINE more == [i \in 1 .. m + 1 |-> IF i <= m THEN place[i] ELSE n + 1]
    <3>2. /\ m \in Nat /\ list[n + 1] \in V
          /\ f[n + 1] = Append(f[n], list[n + 1])
      BY <1>1, <2>1, <2>2, <2>4
    <3>3. /\ f[n + 1] \in Seq(V) /\ Len(f[n + 1]) = m + 1
          /\ f[n + 1][m + 1] = list[n + 1]
          /\ \A i \in 1 .. m : f[n + 1][i] = f[n][i]
      BY <2>1, <3>2
    <3>4. Upto(n + 1) = Upto(n) \cup {n + 1}
      BY <2>4
    <3>5. Enumerates(more, m + 1, Upto(n + 1))
      <4>1. more \in [1 .. m + 1 -> Upto(n + 1)]
        BY <3>1, <3>2, <3>4 DEF Enumerates
      <4>2. ASSUME NEW i \in 1 .. m + 1, NEW j \in 1 .. m + 1, i < j
            PROVE  more[i] < more[j]
        <5>1. i <= m /\ place[i] \in Upto(n) /\ more[i] = place[i]
          BY <3>1, <3>2, <4>2 DEF Enumerates
        <5>2. CASE j <= m
          BY <3>1, <3>2, <4>2, <5>1, <5>2 DEF Enumerates
        <5>3. CASE j = m + 1
          BY <3>2, <5>1, <5>3
        <5> QED BY <3>2, <5>2, <5>3
      <4>3. ASSUME NEW k \in Upto(n + 1)
            PROVE  \E i \in 1 .. m + 1 : more[i] = k
        <5>1. CASE k = n + 1
          BY <3>2, <5>1
        <5>2. CASE k \in Upto(n)
          <6>1. PICK i \in 1 .. m : place[i] = k
            BY <3>1, <5>2 DEF Enumerates
          <6>2. i \in 1 .. m + 1 /\ more[i] = k
            BY <3>2, <6>1
          <6> QED BY <6>2
        <5> QED BY <3>4, <5>1, <5>2
      <4> QED BY <4>1, <4>2, <4>3 DEF Enumerates
    <3>6. \A i \in 1 .. m + 1 : f[n + 1][i] = list[more[i]]
      BY <3>1, <3>2, <3>3
    <3> HIDE DEF more
    <3> QED BY <3>3, <3>5, <3>6 DEF ListsPlaces
  <2> QED BY <2>3, <2>4
<1> HIDE DEF Good
<1>7. Nat \subseteq Good
  BY <1>5, <1>6, InductionBySet
<1>8. Sound(L)
  BY <1>1, <1>7 DEF Good
<1>9. Upto(L) = DOMAIN list \cap places
  BY <1>1
<1> QED BY <1>3, <1>8, <1>9 DEF Sound

\* So every element it returns is one at those places, every one at those places is
\* returned, and none twice if the list has none twice there.
LEMMA PickedElements ==
    ASSUME NEW V, NEW list \in Seq(V), NEW places
    PROVE  LET K == DOMAIN list \cap places
               new == Picked(list, places)
           IN  /\ new \in Seq(V)
               /\ \A i \in DOMAIN new : \E k \in K : new[i] = list[k]
               /\ \A k \in K : \E i \in DOMAIN new : new[i] = list[k]
               /\ (\A j, k \in K : list[j] = list[k] => j = k)
                      => \A i, j \in DOMAIN new : new[i] = new[j] => i = j
<1> DEFINE K == DOMAIN list \cap places
           new == Picked(list, places)
<1>1. new \in Seq(V) /\ ListsPlaces(new, list, K)
  BY PickedListsPlaces
<1> HIDE DEF K, new
<1>2. PICK place : /\ Enumerates(place, Len(new), K)
                   /\ \A i \in 1 .. Len(new) : new[i] = list[place[i]]
  BY <1>1 DEF ListsPlaces
<1>3. DOMAIN new = 1 .. Len(new) /\ Len(new) \in Nat
  BY <1>1
<1>4. ASSUME \A j, k \in K : list[j] = list[k] => j = k,
             NEW i \in DOMAIN new, NEW j \in DOMAIN new, new[i] = new[j], i # j
      PROVE  FALSE
  <2>1. place[i] = place[j]
    BY <1>2, <1>3, <1>4 DEF Enumerates
  <2>2. place[i] \in Nat
    BY <1>2, <1>3 DEF Enumerates, K
  <2>3. i \in 1 .. Len(new) /\ j \in 1 .. Len(new) /\ (i < j \/ j < i)
    BY <1>3, <1>4
  <2>4. place[i] < place[j] \/ place[j] < place[i]
    BY <1>2, <2>3 DEF Enumerates
  <2> QED BY <2>1, <2>2, <2>4
<1>5. \A i \in DOMAIN new : \E k \in K : new[i] = list[k]
  BY <1>2, <1>3 DEF Enumerates
<1>6. \A k \in K : \E i \in DOMAIN new : new[i] = list[k]
  BY <1>2, <1>3 DEF Enumerates
<1>7. (\A j, k \in K : list[j] = list[k] => j = k)
          => \A i, j \in DOMAIN new : new[i] = new[j] => i = j
  BY <1>4
<1> QED BY <1>1, <1>5, <1>6, <1>7 DEF K, new

--------------------------------------------------------------------------------
(***************************************************************************)
(* Lists without repetition, and lists in an order.                        *)
(***************************************************************************)

\* A list with every element of S and no other is one of a finite set; it is as long as S is
\* large if none is on it twice.
LEMMA ListOfAll ==
    ASSUME NEW n \in Nat, NEW S, NEW list \in [1 .. n -> S], \A p \in S : \E i \in 1 .. n : list[i] = p
    PROVE  /\ IsFiniteSet(S)
           /\ (\A i, j \in 1 .. n : list[i] = list[j] => i = j) => n = Cardinality(S)
<1>1. IsFiniteSet(1 .. n) /\ Cardinality(1 .. n) = n
  BY FS_Interval
<1>2. list \in Surjection(1 .. n, S)
  BY DEF Surjection
<1>3. /\ IsFiniteSet(S)
      /\ Cardinality(S) = Cardinality(1 .. n) <=> list \in Injection(1 .. n, S)
  BY <1>1, <1>2, FS_Surjection
<1> QED BY <1>1, <1>3 DEF Injection, IsInjective

\* A list that is as long as S is large, and has no element of S twice, has them all.
LEMMA ListHasAll ==
    ASSUME NEW S, IsFiniteSet(S), NEW list \in [1 .. Cardinality(S) -> S],
           \A i, j \in 1 .. Cardinality(S) : list[i] = list[j] => i = j
    PROVE  \A p \in S : \E i \in 1 .. Cardinality(S) : list[i] = p
<1>1. Cardinality(S) \in Nat
  BY FS_CardinalityType
<1>2. Cardinality(1 .. Cardinality(S)) = Cardinality(S)
  BY <1>1, FS_Interval
<1>3. list \in Injection(1 .. Cardinality(S), S)
  BY DEF Injection, IsInjective
<1>4. Cardinality(1 .. Cardinality(S)) = Cardinality(S)
          <=> list \in Surjection(1 .. Cardinality(S), S)
  BY <1>3, FS_Injection
<1> QED BY <1>2, <1>4 DEF Surjection

\* The elements of S in the order of their keys.
SortedBy(rows, S, key) ==
    /\ rows \in [1 .. Cardinality(S) -> S]
    /\ \A i, j \in DOMAIN rows : i < j => key[rows[i]] < key[rows[j]]

\* Every finite set can be sorted by keys that tell its elements apart: its element with the
\* least key comes first (_sorted_bibliography_rows).
LEMMA SortedExists ==
    ASSUME NEW S, IsFiniteSet(S), NEW key, \A p \in S : key[p] \in Nat,
           \A p, q \in S : key[p] = key[q] => p = q
    PROVE  \E rows : SortedBy(rows, S, key)
<1> DEFINE Sortable(n) == \A C \in SUBSET S : Cardinality(C) = n => \E rows : SortedBy(rows, C, key)
           Good == {n \in Nat : Sortable(n)}
<1>1. \A C \in SUBSET S : IsFiniteSet(C) /\ Cardinality(C) \in Nat
  BY FS_Subset, FS_CardinalityType
<1>2. 0 \in Good
  <2> SUFFICES ASSUME NEW C \in SUBSET S, Cardinality(C) = 0
               PROVE  \E rows : SortedBy(rows, C, key)
    OBVIOUS
  <2>1. SortedBy(<<>>, C, key)
    BY DEF SortedBy
  <2> QED BY <2>1
<1>3. ASSUME NEW n \in Nat, n \in Good
      PROVE  n + 1 \in Good
  <2> SUFFICES ASSUME NEW C \in SUBSET S, Cardinality(C) = n + 1
               PROVE  \E rows : SortedBy(rows, C, key)
    OBVIOUS
  <2> DEFINE keys == {key[p] : p \in C}
  <2>1. keys \in SUBSET Nat /\ keys # {}
    <3>1. C # {}
      BY <1>1, FS_EmptySet
    <3> QED BY <3>1
  <2>2. PICK p \in C : \A q \in C : key[p] <= key[q]
    <3> HIDE DEF keys
    <3>1. PICK k \in keys : \A l \in keys : k <= l
      BY <2>1, LeastNumber
    <3> QED BY <3>1 DEF keys
  <2> DEFINE D == C \ {p}
  <2>3. D \in SUBSET S /\ Cardinality(D) = n
    <3>1. IsFiniteSet(C) /\ n + 1 - 1 = n
      BY <1>1
    <3>2. Cardinality(D) = Cardinality(C) - 1
      BY <3>1, FS_RemoveElement
    <3> QED BY <3>1, <3>2
  <2>4. PICK rest : SortedBy(rest, D, key)
    BY <1>3, <2>3
  <2>5. rest \in [1 .. n -> D] /\ \A i, j \in 1 .. n : i < j => key[rest[i]] < key[rest[j]]
    BY <2>3, <2>4 DEF SortedBy
  <2>6. \A q \in D : key[p] < key[q]
    <3> SUFFICES ASSUME NEW q \in D PROVE key[p] < key[q]
      OBVIOUS
    <3>1. key[p] \in Nat /\ key[q] \in Nat /\ key[p] <= key[q] /\ key[p] # key[q]
      BY <2>2
    <3> QED BY <3>1
  <2> DEFINE rows == [i \in 1 .. n + 1 |-> IF i = 1 THEN p ELSE rest[i - 1]]
  <2>7. rows \in [1 .. n + 1 -> C]
    <3> SUFFICES ASSUME NEW i \in 1 .. n + 1, i # 1 PROVE rest[i - 1] \in C
      OBVIOUS
    <3>1. i - 1 \in 1 .. n
      OBVIOUS
    <3> QED BY <2>5, <3>1
  <2>8. ASSUME NEW i \in 1 .. n + 1, NEW j \in 1 .. n + 1, i < j
        PROVE  key[rows[i]] < key[rows[j]]
    <3>1. j # 1 /\ j - 1 \in 1 .. n /\ rows[j] = rest[j - 1] /\ rest[j - 1] \in D
      BY <2>5, <2>8
    <3>2. CASE i = 1
      BY <2>6, <3>1, <3>2
    <3>3. CASE i # 1
      <4>1. i - 1 \in 1 .. n /\ i - 1 < j - 1 /\ rows[i] = rest[i - 1]
        BY <2>8, <3>3
      <4> QED BY <2>5, <3>1, <4>1
    <3> QED BY <3>2, <3>3
  <2> HIDE DEF rows
  <2>9. SortedBy(rows, C, key)
    BY <2>7, <2>8 DEF SortedBy
  <2> QED BY <2>9
<1> HIDE DEF Good
<1>4. Nat \subseteq Good
  BY <1>2, <1>3, InductionBySet
<1> QED BY <1>1, <1>4 DEF Good

\* A sorted list of rows has every element, and none twice.
LEMMA SortedHasAll ==
    ASSUME NEW S, IsFiniteSet(S), NEW key, \A p \in S : key[p] \in Nat,
           NEW rows, SortedBy(rows, S, key)
    PROVE  \A p \in S : \E i \in DOMAIN rows : rows[i] = p
<1>1. /\ rows \in [1 .. Cardinality(S) -> S] /\ Cardinality(S) \in Nat
      /\ \A i, j \in 1 .. Cardinality(S) : i < j => key[rows[i]] < key[rows[j]]
  BY FS_CardinalityType DEF SortedBy
<1>2. ASSUME NEW i \in 1 .. Cardinality(S), NEW j \in 1 .. Cardinality(S), i # j
      PROVE  rows[i] # rows[j]
  <2>1. i < j \/ j < i
    BY <1>1, <1>2
  <2>2. key[rows[i]] < key[rows[j]] \/ key[rows[j]] < key[rows[i]]
    BY <1>1, <2>1
  <2>3. key[rows[i]] \in Nat
    BY <1>1
  <2> QED BY <2>2, <2>3
<1> QED BY <1>1, <1>2, ListHasAll

================================================================================
