--------------------------- MODULE Sorting_proofs ---------------------------
(***************************************************************************)
(* What the passes of the two sorts do, for every number of entries.       *)
(*                                                                         *)
(* A pass puts the entry at i where the number of entries that come before *)
(* it says.  "Comes before" is a strict total order, so different entries  *)
(* get different places and every place gets an entry (Ranking).  Hence a  *)
(* pass rearranges (CountingSortPlaces, PartitionPlaces), and since it is  *)
(* stable it refines the order by the lower digits into the order by one   *)
(* digit more (DigitsExtend).                                              *)
(***************************************************************************)
EXTENDS Sorting, IntegerFacts

Ordering(T, R) ==
    /\ R \subseteq T \X T
    /\ \A i \in T : <<i, i>> \notin R
    /\ \A i, j \in T : i # j => <<i, j>> \in R \/ <<j, i>> \in R
    /\ \A i, j, k \in T : <<i, j>> \in R /\ <<j, k>> \in R => <<i, k>> \in R

Before(T, R, i) == {k \in T : <<k, i>> \in R}
Rank(T, R, i)   == Cardinality(Before(T, R, i))

\* What comes earlier has fewer before it.
LEMMA RankGrows ==
    ASSUME NEW T, IsFiniteSet(T), NEW R, Ordering(T, R),
           NEW i \in T, NEW j \in T, <<i, j>> \in R
    PROVE  Rank(T, R, i) < Rank(T, R, j)
  <1>1. Before(T, R, i) \cup {i} \in SUBSET Before(T, R, j) /\ i \notin Before(T, R, i)
    BY DEF Before, Ordering
  <1>2. IsFiniteSet(Before(T, R, i)) /\ IsFiniteSet(Before(T, R, j))
    BY FS_Subset DEF Before
  <1>3. Cardinality(Before(T, R, i) \cup {i}) = Cardinality(Before(T, R, i)) + 1
    BY <1>1, <1>2, FS_AddElement
  <1>4. Cardinality(Before(T, R, i) \cup {i}) <= Cardinality(Before(T, R, j))
    BY <1>1, <1>2, FS_Subset
  <1>5. /\ Cardinality(Before(T, R, i)) \in Nat
        /\ Cardinality(Before(T, R, j)) \in Nat
    BY <1>2, FS_CardinalityType
  <1> QED
    BY <1>3, <1>4, <1>5 DEF Rank

\* Ranks count from 0, and nothing has all of the others and itself before it.
LEMMA RankBound ==
    ASSUME NEW T, IsFiniteSet(T), NEW R, Ordering(T, R), NEW i \in T
    PROVE  Rank(T, R, i) \in 0 .. Cardinality(T) - 1
  <1>1. Before(T, R, i) \cup {i} \in SUBSET T /\ i \notin Before(T, R, i)
    BY DEF Before, Ordering
  <1>2. IsFiniteSet(Before(T, R, i))
    BY FS_Subset DEF Before
  <1>3. Cardinality(Before(T, R, i) \cup {i}) = Cardinality(Before(T, R, i)) + 1
    BY <1>1, <1>2, FS_AddElement
  <1>4. Cardinality(Before(T, R, i) \cup {i}) <= Cardinality(T)
    BY <1>1, FS_Subset
  <1>5. Cardinality(Before(T, R, i)) \in Nat /\ Cardinality(T) \in Nat
    BY <1>2, FS_CardinalityType
  <1> QED
    BY <1>3, <1>4, <1>5 DEF Rank

\* Every place of the region is somebody's.
LEMMA Ranking ==
    ASSUME NEW lo \in Int, NEW hi \in Int, NEW R, Ordering(lo .. hi, R)
    PROVE  \A p \in lo .. hi : \E i \in lo .. hi : lo + Rank(lo .. hi, R, i) = p
  <1> DEFINE T == lo .. hi
             f == [i \in T |-> lo + Rank(T, R, i)]
  <1>1. IsFiniteSet(T) /\ (lo <= hi => Cardinality(T) = hi - lo + 1)
    BY FS_Interval
  <1>2. ASSUME NEW i \in T PROVE f[i] \in T
    <2>1. Rank(T, R, i) \in 0 .. Cardinality(T) - 1
      BY <1>1, RankBound
    <2> QED
      BY <1>1, <2>1
  <1>3. ASSUME NEW i \in T, NEW j \in T, i # j PROVE f[i] # f[j]
    <2>1. <<i, j>> \in R \/ <<j, i>> \in R
      BY <1>3 DEF Ordering
    <2>2. Rank(T, R, i) < Rank(T, R, j) \/ Rank(T, R, j) < Rank(T, R, i)
      BY <1>1, <2>1, RankGrows
    <2>3. /\ Rank(T, R, i) \in 0 .. Cardinality(T) - 1
          /\ Rank(T, R, j) \in 0 .. Cardinality(T) - 1
      BY <1>1, RankBound
    <2>4. CASE lo <= hi
      BY <1>1, <2>2, <2>3, <2>4
    <2> QED
      BY <2>4
  <1>4. f \in Injection(T, T)
    <2>1. f \in [T -> T]
      BY <1>2
    <2> HIDE DEF f
    <2> QED
      BY <1>3, <2>1 DEF Injection, IsInjective
  <1>5. f \in Surjection(T, T)
    BY <1>1, <1>4, FS_Injection
  <1>6. \A p \in T : \E i \in T : f[i] = p
    BY <1>5 DEF Surjection
  <1> QED
    BY <1>6

-----------------------------------------------------------------------------
(* A pass.                                                                 *)

Digit(a, d, base, i) == (count[a[i]] \div d) % base

\* Where the entries of the tail come from.
Source(s, from) ==
    /\ s \in [Positions -> Positions]
    /\ \A p \in Positions : p < from => s[p] = p
    /\ \A p \in from .. N : s[p] \in from .. N
    /\ \A q \in Positions : \E p \in Positions : s[p] = q

Falling(a, s, from, d, base) ==
    \A p, q \in from .. N : p < q =>
        \/ Digit(a, d, base, s[p]) > Digit(a, d, base, s[q])
        \/ Digit(a, d, base, s[p]) = Digit(a, d, base, s[q]) /\ s[p] < s[q]

Moved(b, a, s) == b = [p \in Positions |-> a[s[p]]]

\* The entry at i goes to its place, so that at p is s[p].
Ranked(T, R, from, place) == \A i \in T : place[i] = from + Rank(T, R, i)
Fetched(T, from, place, s) ==
    s = [p \in Positions |-> IF p < from THEN p ELSE CHOOSE i \in T : place[i] = p]

\* The tail is sorted by a ranking: what a pass takes from where.
LEMMA RankSource ==
    ASSUME SortingAssumption, NEW from \in 1 .. N + 1,
           NEW R, Ordering(from .. N, R),
           NEW place, Ranked(from .. N, R, from, place),
           NEW s, Fetched(from .. N, from, place, s)
    PROVE  /\ Source(s, from)
           /\ \A p, q \in from .. N : p < q => <<s[p], s[q]>> \in R
  <1> DEFINE T == from .. N
  <1> USE DEF Ranked, Fetched
  <1>0. /\ N \in Nat /\ T \subseteq Positions /\ IsFiniteSet(T)
        /\ T # {} => Cardinality(T) = N - from + 1
    <2>1. N \in Nat /\ from \in Int /\ N \in Int
      BY DEF SortingAssumption
    <2>2. IsFiniteSet(T) /\ Cardinality(T) = IF from > N THEN 0 ELSE N - from + 1
      BY <2>1, FS_Interval
    <2> QED
      BY <2>1, <2>2 DEF Positions
  <1>1. ASSUME NEW p \in T PROVE s[p] \in T /\ place[s[p]] = p
    <2>1. PICK i \in T : from + Rank(T, R, i) = p
      BY <1>0, Ranking
    <2>2. s[p] = CHOOSE k \in T : place[k] = p
      BY <1>0
    <2>3. place[i] = p
      BY <2>1
    <2> QED
      BY <2>2, <2>3, Zenon
  <1>2. ASSUME NEW i \in T PROVE place[i] \in T /\ s[place[i]] = i
    <2>1. Rank(T, R, i) \in 0 .. Cardinality(T) - 1 /\ Cardinality(T) = N - from + 1
      BY <1>0, RankBound
    <2>2. place[i] \in T
      BY <1>0, <2>1
    <2>3. s[place[i]] \in T /\ place[s[place[i]]] = place[i]
      BY <1>1, <2>2
    <2> DEFINE j == s[place[i]]
    <2> HIDE DEF j
    <2>4. j \in T /\ place[j] = place[i]
      BY <2>3 DEF j
    <2>5. Rank(T, R, j) \in 0 .. Cardinality(T) - 1
      BY <1>0, <2>4, RankBound
    <2>6. Rank(T, R, j) = Rank(T, R, i)
      BY <1>0, <2>1, <2>4, <2>5
    <2>7. CASE i # j
      <3>1. <<i, j>> \in R \/ <<j, i>> \in R
        BY <2>4, <2>7 DEF Ordering
      <3>2. Rank(T, R, i) < Rank(T, R, j) \/ Rank(T, R, j) < Rank(T, R, i)
        BY <1>0, <2>4, <3>1, RankGrows
      <3> QED
        BY <2>1, <2>6, <3>2
    <2> QED
      BY <2>2, <2>7 DEF j
  <1>3. ASSUME NEW p \in T, NEW q \in T, p < q PROVE <<s[p], s[q]>> \in R
    <2>1. s[p] \in T /\ place[s[p]] = p /\ s[q] \in T /\ place[s[q]] = q
      BY <1>1
    <2>2. s[p] # s[q]
      BY <1>3, <2>1
    <2>3. CASE <<s[q], s[p]>> \in R
      <3>1. Rank(T, R, s[q]) < Rank(T, R, s[p])
        BY <1>0, <2>1, <2>3, RankGrows
      <3>2. /\ Rank(T, R, s[p]) \in 0 .. Cardinality(T) - 1
            /\ Rank(T, R, s[q]) \in 0 .. Cardinality(T) - 1
            /\ Cardinality(T) = N - from + 1
        BY <1>0, <2>1, RankBound
      <3>3. p = from + Rank(T, R, s[p]) /\ q = from + Rank(T, R, s[q])
        BY <2>1
      <3> QED
        BY <1>0, <1>3, <3>1, <3>2, <3>3
    <2> QED
      BY <2>1, <2>2, <2>3 DEF Ordering
  <1>4. \A p \in Positions : (p < from => s[p] = p) /\ (~(p < from) => p \in T)
    BY <1>0 DEF Positions
  <1>5. s \in [Positions -> Positions]
    BY <1>0, <1>1, <1>4
  <1>6. ASSUME NEW q \in Positions PROVE \E p \in Positions : s[p] = q
    BY <1>0, <1>2, <1>4
  <1> QED
    BY <1>1, <1>3, <1>4, <1>5, <1>6 DEF Source

Counted == \A i \in Positions : count[i] \in Nat

\* A counting sort rearranges the tail by one digit, and is stable.
LEMMA CountingSortPlaces ==
    ASSUME SortingAssumption, Counted, NEW a \in [Positions -> Positions],
           NEW from \in 1 .. N + 1, NEW d \in Nat \ {0}, NEW base \in Nat \ {0}
    PROVE  \E s : /\ Source(s, from)
                  /\ Falling(a, s, from, d, base)
                  /\ Moved(CountingSort(a, from, d, base), a, s)
  <1> DEFINE T == from .. N
             D(i) == Digit(a, d, base, i)
             R == {r \in T \X T : D(r[1]) > D(r[2]) \/ (D(r[1]) = D(r[2]) /\ r[1] < r[2])}
             place == [i \in T |-> from + Cardinality({k \in T :
                                      D(k) > D(i) \/ (D(k) = D(i) /\ k < i)})]
             s == [p \in Positions |-> IF p < from THEN p
                     ELSE CHOOSE i \in T : place[i] = p]
  <1>0. N \in Nat /\ T \subseteq Positions
    BY DEF SortingAssumption, Positions
  <1>1. ASSUME NEW i \in T PROVE D(i) \in Nat
    <2>1. a[i] \in Positions
      BY <1>0
    <2>2. count[a[i]] \in Nat
      BY <2>1 DEF Counted
    <2>3. count[a[i]] \div d \in Nat
      BY <2>2, DivNat
    <2> DEFINE x == count[a[i]] \div d
    <2> HIDE DEF x
    <2>4. x % base \in 0 .. base - 1
      <3>1. x \in Int
        BY <2>3 DEF x
      <3> QED
        BY <3>1, DivMod
    <2> QED
      BY <2>4 DEF x, D, Digit
  <1> HIDE DEF D
  <1>2. \A i, j \in T : <<i, j>> \in R <=> D(i) > D(j) \/ (D(i) = D(j) /\ i < j)
    OBVIOUS
  <1>3. Ordering(T, R)
    <2>1. R \subseteq T \X T
      OBVIOUS
    <2> HIDE DEF R
    <2>2. \A i \in T : <<i, i>> \notin R
      BY <1>1, <1>2
    <2>3. \A i, j \in T : i # j => <<i, j>> \in R \/ <<j, i>> \in R
      BY <1>1, <1>2
    <2>4. \A i, j, k \in T : <<i, j>> \in R /\ <<j, k>> \in R => <<i, k>> \in R
      BY <1>1, <1>2
    <2> QED
      BY <2>1, <2>2, <2>3, <2>4 DEF Ordering
  <1>4. ASSUME NEW i \in T PROVE place[i] = from + Rank(T, R, i)
    <2>1. {k \in T : D(k) > D(i) \/ (D(k) = D(i) /\ k < i)} = Before(T, R, i)
      BY <1>2 DEF Before
    <2> QED
      BY <2>1 DEF Rank
  <1> HIDE DEF R
  <1>5. /\ Source(s, from)
        /\ \A p, q \in T : p < q => <<s[p], s[q]>> \in R
    <2>1. Fetched(T, from, place, s)
      BY DEF Fetched
    <2>2. Ranked(T, R, from, place)
      BY <1>4 DEF Ranked
    <2> HIDE DEF place, s, T
    <2>3. Ordering(T, R)
      BY <1>3
    <2> QED
      BY <2>1, <2>2, <2>3, RankSource DEF T
  <1>6. Falling(a, s, from, d, base)
    <2>1. \A p \in T : s[p] \in T
      BY <1>5 DEF Source
    <2> HIDE DEF s
    <2> QED
      BY <1>2, <1>5, <2>1 DEF Falling, D
  <1>7. Moved(CountingSort(a, from, d, base), a, s)
    <2> DEFINE P(i) == from + Cardinality({k \in T :
                          Digit(a, d, base, k) > Digit(a, d, base, i)
                          \/ (Digit(a, d, base, k) = Digit(a, d, base, i) /\ k < i)})
    <2>1. CountingSort(a, from, d, base) =
            [p \in Positions |-> IF p < from THEN a[p]
                                 ELSE a[CHOOSE i \in T : P(i) = p]]
      BY DEF CountingSort, Digit
    <2>2. \A i \in T : place[i] = P(i)
      BY DEF D
    <2> HIDE DEF P, place
    <2>3. ASSUME NEW p \in Positions
          PROVE  (CHOOSE i \in T : P(i) = p) = (CHOOSE i \in T : place[i] = p)
      BY <2>2
    <2>4. \A p \in Positions : s[p] = IF p < from THEN p ELSE CHOOSE i \in T : place[i] = p
      BY Zenon
    <2> HIDE DEF s
    <2> QED
      BY <2>1, <2>3, <2>4 DEF Moved
  <1> QED
    BY <1>5, <1>6, <1>7

\* The sizes of disjoint sets add up.
LEMMA DisjointSizes ==
    ASSUME NEW S, NEW T, IsFiniteSet(S), IsFiniteSet(T), S \cap T = {}
    PROVE  Cardinality(S \cup T) = Cardinality(S) + Cardinality(T)
  <1>1. Cardinality(S \cup T) = Cardinality(S) + Cardinality(T) - Cardinality(S \cap T)
    BY FS_Union
  <1>2. Cardinality(S \cap T) = 0
    BY FS_EmptySet
  <1>3. Cardinality(S) \in Nat /\ Cardinality(T) \in Nat
    BY FS_CardinalityType
  <1> QED
    BY <1>1, <1>2, <1>3

\* The partition rearranges the tail.
LEMMA PartitionPlaces ==
    ASSUME SortingAssumption, NEW a \in [Positions -> Positions],
           NEW from \in 1 .. N + 1, NEW d
    PROVE  \E s : Source(s, from) /\ Moved(stable_partition(a, from, d), a, s)
  <1> DEFINE T == from .. N
             small == Small(a, from, d)
             R == {r \in T \X T : \/ r[1] \in small /\ r[2] \notin small
                                  \/ (r[1] \in small <=> r[2] \in small) /\ r[1] < r[2]}
             P(i) == from + IF i \in small
                            THEN Cardinality({k \in small : k < i})
                            ELSE Cardinality(small)
                                 + Cardinality({k \in T \ small : k < i})
             place == [i \in T |-> P(i)]
             s == [p \in Positions |-> IF p < from THEN p
                     ELSE CHOOSE i \in T : place[i] = p]
  <1>0. /\ N \in Int /\ from \in Int /\ IsFiniteSet(T)
        /\ small \subseteq T /\ \A i \in T : i \in Int
    <2>1. N \in Int /\ from \in Int
      BY DEF SortingAssumption
    <2>2. IsFiniteSet(T)
      BY <2>1, FS_Interval
    <2> QED
      BY <2>1, <2>2 DEF Small
  <1>1. stable_partition(a, from, d) =
            [p \in Positions |-> IF p < from THEN a[p]
                                 ELSE a[CHOOSE i \in T : P(i) = p]]
    BY DEF stable_partition
  <1> HIDE DEF small
  <1>2. \A i, j \in T : <<i, j>> \in R <=> \/ i \in small /\ j \notin small
                                           \/ (i \in small <=> j \in small) /\ i < j
    OBVIOUS
  <1>3. Ordering(T, R)
    <2>1. R \subseteq T \X T
      OBVIOUS
    <2> HIDE DEF R
    <2>2. \A i \in T : <<i, i>> \notin R
      BY <1>0, <1>2
    <2>3. \A i, j \in T : i # j => <<i, j>> \in R \/ <<j, i>> \in R
      BY <1>0, <1>2
    <2>4. \A i, j, k \in T : <<i, j>> \in R /\ <<j, k>> \in R => <<i, k>> \in R
      BY <1>0, <1>2
    <2> QED
      BY <2>1, <2>2, <2>3, <2>4 DEF Ordering
  <1> HIDE DEF R
  <1>4. ASSUME NEW i \in T PROVE place[i] = from + Rank(T, R, i)
    <2>1. CASE i \in small
      <3>1. {k \in small : k < i} = Before(T, R, i)
        BY <1>0, <1>2, <2>1 DEF Before
      <3> QED
        BY <2>1, <3>1 DEF Rank
    <2>2. CASE i \notin small
      <3> DEFINE ahead == {k \in T \ small : k < i}
      <3>1. Before(T, R, i) = small \cup ahead /\ small \cap ahead = {}
        BY <1>0, <1>2, <2>2, ZenonT(40) DEF Before
      <3>2. ahead \in SUBSET T /\ small \in SUBSET T
        BY <1>0
      <3>3. IsFiniteSet(small) /\ IsFiniteSet(ahead)
        BY <1>0, <3>2, FS_Subset
      <3>4. P(i) = from + (Cardinality(small) + Cardinality(ahead))
        BY <2>2
      <3> HIDE DEF ahead, P
      <3>5. Cardinality(small \cup ahead) = Cardinality(small) + Cardinality(ahead)
        BY <3>1, <3>3, DisjointSizes, Zenon
      <3> QED
        BY <3>1, <3>4, <3>5 DEF Rank
    <2> QED
      BY <2>1, <2>2
  <1>5. \A i \in T : place[i] = P(i)
    OBVIOUS
  <1> HIDE DEF P, place
  <1>6. Source(s, from)
    <2>1. Fetched(T, from, place, s)
      BY DEF Fetched
    <2>2. Ranked(T, R, from, place)
      BY <1>4 DEF Ranked
    <2> HIDE DEF s, T
    <2>3. Ordering(T, R)
      BY <1>3
    <2> QED
      BY <2>1, <2>2, <2>3, RankSource DEF T
  <1>7. Moved(stable_partition(a, from, d), a, s)
    <2>1. ASSUME NEW p \in Positions
          PROVE  (CHOOSE i \in T : P(i) = p) = (CHOOSE i \in T : place[i] = p)
      BY <1>5
    <2>2. \A p \in Positions : s[p] = IF p < from THEN p ELSE CHOOSE i \in T : place[i] = p
      BY Zenon
    <2> HIDE DEF s
    <2> QED
      BY <1>1, <2>1, <2>2 DEF Moved
  <1> QED
    BY <1>6, <1>7

Rearranged(a) == /\ a \in [Positions -> Positions]
                 /\ \A p \in Positions : \E i \in Positions : a[i] = p

\* Taken from all the places, the entries are all there.
LEMMA MovedAll ==
    ASSUME NEW a, Rearranged(a), NEW from, NEW s, Source(s, from), NEW b, Moved(b, a, s)
    PROVE  Rearranged(b)
  <1>1. \A p \in Positions : s[p] \in Positions /\ b[p] = a[s[p]]
    BY DEF Source, Moved
  <1>2. b \in [Positions -> Positions]
    BY <1>1 DEF Moved, Rearranged
  <1>3. ASSUME NEW q \in Positions PROVE \E p \in Positions : b[p] = q
    <2>1. PICK i \in Positions : a[i] = q
      BY DEF Rearranged
    <2>2. PICK p \in Positions : s[p] = i
      BY DEF Source
    <2> QED
      BY <1>1, <2>1, <2>2
  <1> QED
    BY <1>2, <1>3 DEF Rearranged

\* The small entries of the tail are at most all of it.
LEMMA ActiveBound ==
    ASSUME SortingAssumption, NEW from \in 1 .. N + 1, NEW a, NEW d
    PROVE  from + Cardinality(Small(a, from, d)) \in 1 .. N + 1
  <1> DEFINE T == from .. N
  <1>1. N \in Int /\ from \in Int
    BY DEF SortingAssumption
  <1>2. IsFiniteSet(T) /\ Cardinality(T) = IF from > N THEN 0 ELSE N - from + 1
    BY <1>1, FS_Interval
  <1>3. Small(a, from, d) \in SUBSET T
    BY DEF Small
  <1>4. /\ IsFiniteSet(Small(a, from, d))
        /\ Cardinality(Small(a, from, d)) <= Cardinality(T)
    BY <1>2, <1>3, FS_Subset
  <1>5. Cardinality(Small(a, from, d)) \in Nat
    BY <1>4, FS_CardinalityType
  <1> QED
    BY <1>1, <1>2, <1>4, <1>5

-----------------------------------------------------------------------------
(* Digits.                                                                 *)

\* The lower digits and the next one make the number one digit longer.
LEMMA DigitsExtend ==
    ASSUME NEW x \in Nat, NEW e \in Nat \ {0}, NEW base \in Nat \ {0}
    PROVE  /\ (x \div e) % base \in 0 .. base - 1
           /\ x % e \in 0 .. e - 1
           /\ x % (e * base) = e * ((x \div e) % base) + (x % e)
  <1> DEFINE q == x \div e
             r == x % e
             k == q \div base
             g == q % base
  <1>1. x = e * q + r /\ r \in 0 .. e - 1 /\ q \in Nat
    <2>1. x \in Int
      OBVIOUS
    <2> QED
      BY <2>1, DivMod, DivNat, Zenon
  <1>2. q = base * k + g /\ g \in 0 .. base - 1 /\ k \in Int
    <2> HIDE DEF q
    <2> QED
      BY <1>1, DivMod
  <1> HIDE DEF q, r, k, g
  <1> DEFINE w == e * base
             y == e * g + r
  <1>3. w \in Nat \ {0} /\ y \in Int
    <2>1. e * base \in Nat /\ e * base >= e * 1
      BY SMT
    <2>2. e * g \in Int
      BY <1>2
    <2> QED
      BY <1>1, <2>1, <2>2
  <1>4. y \in 0 .. w - 1
    <2>1. e * g <= e * (base - 1) /\ e * g >= 0
      BY <1>2
    <2>2. e * (base - 1) = w - e
      OBVIOUS
    <2>3. e * g \in Int
      BY <1>2
    <2> HIDE DEF w
    <2> QED
      BY <1>1, <1>3, <2>1, <2>2, <2>3
  <1>5. x = w * k + y
    <2>1. e * q = e * (base * k + g)
      BY <1>2
    <2>2. e * (base * k + g) = (e * base) * k + e * g
      BY <1>2
    <2> QED
      BY <1>1, <1>2, <2>1, <2>2
  <1> HIDE DEF w, y
  <1>6. x % w = y
    <2>1. x \in Int
      OBVIOUS
    <2> QED
      BY <1>2, <1>3, <1>4, <1>5, <2>1, ModUnique, Zenon
  <1> QED
    BY <1>1, <1>2, <1>6 DEF q, r, g, w, y

\* In descending order of the digits below e, and stable: what PassesSort says
\* of the weight reached.
Ordered(a, e) ==
    \A i, j \in Positions : i < j =>
        \/ count[a[i]] % e > count[a[j]] % e
        \/ count[a[i]] % e = count[a[j]] % e /\ a[i] < a[j]

\* A pass extends the order by one digit.
LEMMA PassExtends ==
    ASSUME SortingAssumption, Counted, NEW a \in [Positions -> Positions],
           NEW e \in Nat \ {0}, NEW base \in Nat \ {0}, Ordered(a, e),
           NEW b, b = CountingSort(a, 1, e, base)
    PROVE  Ordered(b, e * base)
  <1>0. N \in Nat /\ 1 \in 1 .. N + 1 /\ Positions = 1 .. N
    BY DEF SortingAssumption, Positions
  <1>1. PICK s : Source(s, 1) /\ Falling(a, s, 1, e, base) /\ Moved(b, a, s)
    BY <1>0, CountingSortPlaces
  <1> SUFFICES ASSUME NEW p \in Positions, NEW q \in Positions, p < q
               PROVE  \/ count[b[p]] % (e * base) > count[b[q]] % (e * base)
                      \/ count[b[p]] % (e * base) = count[b[q]] % (e * base) /\ b[p] < b[q]
    BY DEF Ordered
  <1> DEFINE i == s[p]
             j == s[q]
             x == count[a[i]]
             y == count[a[j]]
  <1>2. i \in Positions /\ j \in Positions /\ b[p] = a[i] /\ b[q] = a[j]
    BY <1>1 DEF Source, Moved
  <1>3. \/ (x \div e) % base > (y \div e) % base
        \/ (x \div e) % base = (y \div e) % base /\ i < j
    BY <1>0, <1>1 DEF Falling, Digit
  <1> HIDE DEF i, j
  <1>4. x \in Nat /\ y \in Nat
    BY <1>2 DEF Counted
  <1>5. i < j => x % e > y % e \/ (x % e = y % e /\ a[i] < a[j])
    BY <1>2 DEF Ordered
  <1> HIDE DEF x, y
  <1> DEFINE u == (x \div e) % base
             v == (y \div e) % base
             l == x % e
             m == y % e
             w == e * base
  <1>6. /\ u \in 0 .. base - 1 /\ l \in 0 .. e - 1 /\ x % w = e * u + l
        /\ v \in 0 .. base - 1 /\ m \in 0 .. e - 1 /\ y % w = e * v + m
    BY <1>4, DigitsExtend
  <1> HIDE DEF u, v, l, m, w
  <1>7. CASE u > v
    <2>1. e * u >= e * (v + 1) /\ e * (v + 1) = e * v + e
      BY <1>6, <1>7
    <2>2. e * u \in Int /\ e * v \in Int
      BY <1>6
    <2>3. x % w > y % w
      BY <1>6, <2>1, <2>2
    <2> QED
      BY <1>2, <2>3 DEF w, x, y
  <1>8. CASE u = v /\ i < j
    <2>1. e * u \in Int /\ e * u = e * v
      BY <1>6, <1>8
    <2>2. \/ x % w > y % w
          \/ x % w = y % w /\ a[i] < a[j]
      BY <1>5, <1>6, <1>8, <2>1 DEF l, m
    <2> QED
      BY <1>2, <2>2 DEF w, x, y
  <1> QED
    BY <1>3, <1>7, <1>8 DEF u, v

\* Once the digits make up the whole count, the order is that of the counts.
LEMMA AllDigits ==
    ASSUME SortingAssumption, Counted, Rearranged(arr), NEW e \in Nat \ {0},
           Ordered(arr, e), \A i \in Positions : count[i] < e
    PROVE  Descending
  <1> SUFFICES ASSUME NEW i \in Positions, NEW j \in Positions, i < j
               PROVE  count[arr[i]] >= count[arr[j]]
    BY DEF Descending
  <1>1. arr[i] \in Positions /\ arr[j] \in Positions
    BY DEF Rearranged
  <1> DEFINE x == count[arr[i]]
             y == count[arr[j]]
  <1>2. x \in 0 .. e - 1 /\ y \in 0 .. e - 1
    BY <1>1 DEF Counted
  <1>3. x % e >= y % e
    <2>1. x % e > y % e \/ x % e = y % e
      BY DEF Ordered
    <2> HIDE DEF x, y
    <2> QED
      BY <1>2, <2>1, ModSmall
  <1> HIDE DEF x, y
  <1>4. x % e = x /\ y % e = y
    BY <1>2, ModSmall
  <1> QED
    BY <1>3, <1>4 DEF x, y

\* The same after a step.
LEMMA AllDigitsNext ==
    ASSUME SortingAssumption, Counted', Rearranged(arr)', NEW e \in Nat \ {0},
           Ordered(arr, e)', (\A i \in Positions : count[i] < e)'
    PROVE  Descending'
  BY AllDigits, PTL

-----------------------------------------------------------------------------
(* The inductive invariant.                                                *)

Weighty(W) == /\ W \in SUBSET (1 .. WIDTH)
              /\ 1 \in W
              /\ \A e \in W : e = WIDTH \/ e * BASE \in W

\* The powers of BASE up to WIDTH.
Weights == CHOOSE W : Weighty(W)

\* The assumption says that there are such weights.
LEMMA WeightsExist ==
    ASSUME WidthAssumption
    PROVE  Weighty(Weights)
  BY Zenon DEF WidthAssumption, Weights, Weighty

\* exp that has wrapped to 0 has got past the top byte.
Reached == IF exp = 0 THEN WIDTH ELSE exp

Types == /\ count \in [Positions -> Counts]
         /\ f_max \in Nat
         /\ pc \in {"radix", "slpr", "done", "crashed"}
         /\ exp \in {0} \cup (Weights \ {WIDTH})
         /\ div \in Nat \ {0}
         /\ first_active \in 1 .. N + 1

RadixInv == pc = "radix" => div = 1 /\ Ordered(arr, Reached)

\* With at most two rounds the region that slpr_sort sorts is the whole array.
SlprInv == pc = "slpr" =>
    \/ div = 1 /\ first_active = 1 /\ Ordered(arr, 1)
    \/ div = N /\ first_active = 1 /\ Ordered(arr, N)
    \/ div > 1 /\ f_max >= N * N

IInv == Types /\ Rearranged(arr) /\ RadixInv /\ SlprInv /\ SortsDescending

\* The invariant covers what the runs check.
LEMMA IInvCovers ==
    ASSUME IInv
    PROVE  IsRearranged /\ PassesSort /\ SortsDescending
  BY DEF IInv, Rearranged, IsRearranged, RadixInv, PassesSort, Ordered, Reached

\* Before the first pass nothing has been looked at.
LEMMA InitInv ==
    ASSUME SortingAssumption, WidthAssumption, Init
    PROVE  IInv
  <1>0. N \in Nat \ {0, 1} /\ Counts \subseteq Nat /\ WIDTH \in Nat \ {0, 1}
    BY DEF SortingAssumption
  <1>1. 1 \in Weights
    BY WeightsExist DEF Weighty
  <1>2. Types
    BY <1>0, <1>1 DEF Init, Types
  <1>3. Rearranged(arr)
    BY DEF Init, Rearranged
  <1>4. Ordered(arr, 1)
    <2>1. ASSUME NEW i \in Positions, NEW j \in Positions, i < j
          PROVE  count[arr[i]] % 1 = count[arr[j]] % 1 /\ arr[i] < arr[j]
      <3>1. arr[i] = i /\ arr[j] = j
        BY DEF Init
      <3>2. count[i] \in Counts /\ count[j] \in Counts
        BY DEF Init
      <3>3. ASSUME NEW x \in Nat PROVE x % 1 = 0
        <4>1. x % 1 \in 0 .. 1 - 1
          BY DivMod
        <4> QED
          BY <4>1
      <3>4. count[i] % 1 = 0 /\ count[j] % 1 = 0
        BY <1>0, <3>2, <3>3
      <3> QED
        BY <2>1, <3>1, <3>4
    <2> QED
      BY <2>1 DEF Ordered
  <1>5. RadixInv /\ SlprInv /\ SortsDescending
    BY <1>4 DEF Init, RadixInv, SlprInv, SortsDescending, Reached
  <1> QED
    BY <1>2, <1>3, <1>5 DEF IInv

\* What a pass does to the array.
LEMMA SortRearranges ==
    ASSUME SortingAssumption, Counted, NEW a, Rearranged(a), NEW from \in 1 .. N + 1,
           NEW d \in Nat \ {0}, NEW base \in Nat \ {0}
    PROVE  Rearranged(CountingSort(a, from, d, base))
  <1>1. a \in [Positions -> Positions]
    BY DEF Rearranged
  <1>2. PICK s : Source(s, from) /\ Moved(CountingSort(a, from, d, base), a, s)
    BY <1>1, CountingSortPlaces
  <1> QED
    BY <1>2, MovedAll

\* So does the partition.
LEMMA PartitionRearranges ==
    ASSUME SortingAssumption, NEW a, Rearranged(a), NEW from \in 1 .. N + 1, NEW d
    PROVE  Rearranged(stable_partition(a, from, d))
  <1>1. a \in [Positions -> Positions]
    BY DEF Rearranged
  <1>2. PICK s : Source(s, from) /\ Moved(stable_partition(a, from, d), a, s)
    BY <1>1, PartitionPlaces
  <1> QED
    BY <1>2, MovedAll

\* Counts are numbers of WIDTH.
LEMMA CountsAreCounted ==
    ASSUME SortingAssumption, Types
    PROVE  /\ Counted
           /\ \A i \in Positions : count[i] < WIDTH
           /\ N \in Nat \ {0, 1} /\ BASE \in Nat \ {0, 1} /\ WIDTH \in Nat \ {0, 1}
           /\ 1 \in 1 .. N + 1
  <1>1. /\ N \in Nat \ {0, 1} /\ BASE \in Nat \ {0, 1} /\ WIDTH \in Nat \ {0, 1}
        /\ Counts \subseteq 0 .. WIDTH - 1
    BY DEF SortingAssumption
  <1>2. \A i \in Positions : count[i] \in Counts
    BY DEF Types
  <1>3. \A c \in Counts : c \in Nat /\ c < WIDTH
    BY <1>1
  <1>4. 1 \in 1 .. N + 1
    BY <1>1
  <1> QED
    BY <1>1, <1>2, <1>3, <1>4, Zenon DEF Counted

\* radix_sort's next weight is the next power, or 0 in place of WIDTH.
LEMMA NextWeightReached ==
    ASSUME SortingAssumption, WidthAssumption, NEW e \in Weights \ {WIDTH}
    PROVE  /\ e \in Nat \ {0}
           /\ NextWeight(e) \in {0} \cup (Weights \ {WIDTH})
           /\ e * BASE = IF NextWeight(e) = 0 THEN WIDTH ELSE NextWeight(e)
  <1>1. WIDTH \in Nat \ {0} /\ Weights \subseteq 1 .. WIDTH /\ e * BASE \in Weights
    BY WeightsExist DEF SortingAssumption, Weighty
  <1>2. e \in Nat \ {0} /\ e * BASE \in 1 .. WIDTH
    BY <1>1
  <1> DEFINE w == e * BASE
  <1>3. NextWeight(e) = w % WIDTH
    BY DEF NextWeight
  <1>4. w \in 1 .. WIDTH /\ w \in Weights
    BY <1>1, <1>2
  <1> HIDE DEF w
  <1>5. CASE w = WIDTH
    <2>1. WIDTH = WIDTH * 1 + 0 /\ WIDTH \in Int /\ 0 \in 0 .. WIDTH - 1
      BY <1>1
    <2>2. w % WIDTH = 0
      BY <1>1, <1>5, <2>1, ModUnique
    <2> QED
      BY <1>2, <1>3, <1>5, <2>2 DEF w
  <1>6. CASE w # WIDTH
    <2>1. w \in 0 .. WIDTH - 1
      BY <1>1, <1>4, <1>6
    <2>2. w % WIDTH = w
      BY <1>1, <2>1, ModSmall
    <2> QED
      BY <1>1, <1>2, <1>3, <1>4, <1>6, <2>2 DEF w
  <1> QED
    BY <1>5, <1>6

\* A pass of radix_sort.
LEMMA RadixStep ==
    ASSUME SortingAssumption, WidthAssumption, IInv, radix_sort_pass
    PROVE  IInv'
  <1>0. /\ Counted /\ N \in Nat \ {0, 1} /\ BASE \in Nat \ {0, 1} /\ 1 \in 1 .. N + 1
        /\ Rearranged(arr)
    BY CountsAreCounted DEF IInv
  <1>1. exp \in Weights \ {WIDTH}
    BY DEF radix_sort_pass, IInv, Types
  <1>2. /\ exp \in Nat \ {0}
        /\ exp' \in {0} \cup (Weights \ {WIDTH})
        /\ exp * BASE = Reached'
    BY <1>1, NextWeightReached DEF radix_sort_pass, Reached
  <1>3. Types'
    BY <1>2 DEF radix_sort_pass, IInv, Types
  <1>4. Rearranged(arr')
    BY <1>0, <1>2, SortRearranges DEF radix_sort_pass
  <1>5. RadixInv'
    <2>1. Ordered(arr, exp)
      BY <1>2 DEF radix_sort_pass, IInv, RadixInv, Reached
    <2>2. arr \in [Positions -> Positions] /\ arr' = CountingSort(arr, 1, exp, BASE)
      BY <1>0 DEF radix_sort_pass, Rearranged
    <2>3. Ordered(arr', exp * BASE)
      BY <1>0, <1>2, <2>1, <2>2, PassExtends
    <2>4. Ordered(arr, Reached)'
      BY <1>2, <2>3 DEF Ordered, radix_sort_pass
    <2> QED
      BY <2>4 DEF radix_sort_pass, IInv, RadixInv
  <1>6. SlprInv' /\ SortsDescending'
    BY DEF radix_sort_pass, SlprInv, SortsDescending
  <1>7. Rearranged(arr)'
    BY <1>4 DEF Rearranged
  <1> QED
    BY <1>3, <1>5, <1>6, <1>7 DEF IInv

\* The end of radix_sort.
LEMMA RadixEnd ==
    ASSUME SortingAssumption, WidthAssumption, IInv, radix_sort_end
    PROVE  IInv'
  <1>0. /\ Counted /\ WIDTH \in Nat \ {0, 1} /\ Rearranged(arr)
        /\ \A i \in Positions : count[i] < WIDTH /\ count[i] \in Nat
    BY CountsAreCounted DEF IInv, Counted
  <1>1. Types'
    BY DEF radix_sort_end, IInv, Types
  <1>2. Rearranged(arr)'
    BY DEF radix_sort_end, IInv, Rearranged
  <1>3. RadixInv' /\ SlprInv'
    BY DEF radix_sort_end, RadixInv, SlprInv
  <1>4. ASSUME \A i \in Positions : count[i] <= f_max PROVE Descending
    <2>1. Reached \in Nat \ {0}
      BY <1>0, WeightsExist DEF IInv, Types, Reached, Weighty
    <2>2. \A i \in Positions : count[i] < Reached
      <3>1. CASE exp = 0
        BY <1>0, <3>1 DEF Reached
      <3>2. CASE exp # 0
        <4>1. f_max \div exp = 0 /\ Reached = exp /\ f_max \in Nat
          BY <3>2 DEF radix_sort_end, Reached, IInv, Types
        <4>2. f_max = exp * (f_max \div exp) + (f_max % exp) /\ f_max % exp \in 0 .. exp - 1
          <5>1. f_max \in Int /\ exp \in Nat \ {0}
            BY <2>1, <4>1
          <5> QED
            BY <5>1, DivMod
        <4>3. exp * 0 = 0
          BY <2>1, <4>1
        <4>4. f_max < exp
          BY <2>1, <4>1, <4>2, <4>3
        <4> QED
          BY <1>0, <1>4, <2>1, <4>1, <4>4
      <3> QED
        BY <3>1, <3>2
    <2>3. Ordered(arr, Reached)
      BY DEF radix_sort_end, IInv, RadixInv
    <2> QED
      BY <1>0, <2>1, <2>2, <2>3, AllDigits
  <1>5. SortsDescending'
    BY <1>4 DEF radix_sort_end, SortsDescending, Descending
  <1> QED
    BY <1>1, <1>2, <1>3, <1>5 DEF IInv

\* f_max has another digit in base N above that of weight d, or fits below it.
LEMMA RoundsLeft ==
    ASSUME NEW n \in Nat \ {0}, NEW d \in Nat \ {0}, NEW m \in Nat
    PROVE  m \div d >= n <=> m >= n * d
  <1>1. CASE m < n * d
    <2>1. m \div d \in 0 .. n - 1
      BY <1>1, DivBelow
    <2>2. n * d \in Nat
      OBVIOUS
    <2> QED
      BY <1>1, <2>1, <2>2
  <1>2. CASE m >= n * d
    <2>1. n * d \in Int /\ n * d <= m /\ (n * d) \div d <= m \div d
      BY <1>2, DivMono
    <2>2. (n * d) \div d = n
      BY MulDiv
    <2> QED
      BY <1>2, <2>1, <2>2
  <1>3. n * d \in Nat
    OBVIOUS
  <1> QED
    BY <1>1, <1>2, <1>3

\* The first round of slpr_sort, which is its only one when f_max has one digit.
LEMMA SlprFirst ==
    ASSUME SortingAssumption, WidthAssumption, IInv, slpr_sort_first
    PROVE  IInv'
  <1>0. /\ Counted /\ N \in Nat \ {0, 1} /\ 1 \in 1 .. N + 1 /\ Rearranged(arr)
        /\ f_max \in Nat
    BY CountsAreCounted DEF IInv, Types
  <1>1. first_active = 1 /\ Ordered(arr, 1)
    BY <1>0 DEF slpr_sort_first, IInv, SlprInv
  <1>2. Types'
    BY <1>0 DEF slpr_sort_first, IInv, Types
  <1>3. Rearranged(arr')
    BY <1>0, SortRearranges DEF slpr_sort_first
  <1>4. f_max # 0 => Ordered(arr', N)
    <2>1. arr \in [Positions -> Positions]
      BY <1>0 DEF Rearranged
    <2>2. ASSUME f_max # 0 PROVE Ordered(arr', 1 * N)
      <3>1. arr' = CountingSort(arr, 1, 1, N)
        BY <2>2 DEF slpr_sort_first
      <3> QED
        BY <1>0, <1>1, <2>1, <3>1, PassExtends
    <2> QED
      BY <1>0, <2>2
  <1>5. Ordered(arr', N) => Ordered(arr, N)'
    BY DEF Ordered, slpr_sort_first
  <1>6. pc' = "slpr" => f_max # 0
    BY DEF slpr_sort_first
  <1>7. SlprInv' /\ RadixInv'
    BY <1>1, <1>4, <1>5, <1>6 DEF slpr_sort_first, SlprInv, RadixInv
  <1>8. ASSUME pc' = "done", \A i \in Positions : count[i] <= f_max
        PROVE  Descending'
    <2>1. CASE f_max = 0
      <3>1. ASSUME NEW i \in Positions, NEW j \in Positions
            PROVE  count[arr'[i]] >= count[arr'[j]]
        <4>1. arr'[i] \in Positions /\ arr'[j] \in Positions
          BY <1>3 DEF Rearranged
        <4>2. count[arr'[i]] = 0 /\ count[arr'[j]] = 0
          BY <1>0, <1>8, <2>1, <4>1 DEF Counted
        <4> QED
          BY <4>2
      <3> QED
        BY <3>1 DEF Descending, slpr_sort_first
    <2>2. CASE f_max # 0
      <3>1. ~MoreRounds(1)
        BY <1>0, <1>8, <2>2 DEF slpr_sort_first
      <3>2. f_max < N
        BY <1>0, <3>1, RoundsLeft DEF MoreRounds
      <3>3. \A i \in Positions : count[i] < N
        BY <1>0, <1>8, <3>2 DEF Counted
      <3>4. Counted' /\ Rearranged(arr)' /\ Ordered(arr, N)'
        BY <1>0, <1>3, <1>4, <1>5, <2>2 DEF Counted, Rearranged, slpr_sort_first
      <3>5. (\A i \in Positions : count[i] < N)'
        BY <3>3 DEF slpr_sort_first
      <3> QED
        BY <1>0, <3>4, <3>5, AllDigitsNext
    <2> QED
      BY <2>1, <2>2
  <1>9. SortsDescending'
    BY <1>8 DEF SortsDescending, slpr_sort_first
  <1>10. Rearranged(arr)'
    BY <1>3 DEF Rearranged
  <1> QED
    BY <1>2, <1>7, <1>9, <1>10 DEF IInv

\* A round in the middle: f_max has a third digit.
LEMMA SlprRound ==
    ASSUME SortingAssumption, WidthAssumption, IInv, slpr_sort_round
    PROVE  IInv'
  <1> DEFINE from == first_active + Cardinality(Small(arr, first_active, div))
             b == stable_partition(arr, first_active, div)
  <1>0. /\ Counted /\ N \in Nat \ {0, 1} /\ 1 \in 1 .. N + 1 /\ Rearranged(arr)
        /\ f_max \in Nat /\ div \in Nat \ {0} /\ first_active \in 1 .. N + 1
    BY CountsAreCounted DEF IInv, Types
  <1>1. /\ pc = "slpr" /\ div > 1 /\ MoreRounds(div)
        /\ arr' = CountingSort(b, from, div, N)
        /\ first_active' = from /\ div' = div * N
        /\ pc' = IF from > N THEN "done" ELSE pc
        /\ UNCHANGED <<count, f_max, exp>>
    BY DEF slpr_sort_round
  <1>2. from \in 1 .. N + 1
    BY <1>0, ActiveBound
  <1>3. Rearranged(b)
    BY <1>0, PartitionRearranges
  <1> HIDE DEF from, b
  <1>4. Rearranged(arr')
    BY <1>0, <1>1, <1>2, <1>3, SortRearranges
  <1>5. f_max >= N * div
    BY <1>0, <1>1, RoundsLeft DEF MoreRounds
  <1>6. div' \in Nat \ {0} /\ div' > 1
    <2>1. div * N \in Nat /\ div * N >= div * 1
      BY <1>0
    <2> QED
      BY <1>0, <1>1, <2>1
  <1>7. f_max >= N * N
    BY <1>0, <1>1, <1>5 DEF IInv, SlprInv
  <1>8. Types'
    <2>1. pc' \in {"radix", "slpr", "done", "crashed"}
      BY <1>1
    <2> QED
      BY <1>1, <1>2, <1>6, <2>1 DEF IInv, Types
  <1>9. RadixInv'
    BY <1>1 DEF RadixInv
  <1>10. SlprInv' /\ SortsDescending'
    <2>1. f_max' >= N * N /\ ~(f_max' < N * N)
      BY <1>0, <1>1, <1>7
    <2> QED
      BY <1>6, <2>1 DEF SlprInv, SortsDescending
  <1>11. Rearranged(arr)'
    BY <1>4 DEF Rearranged
  <1> QED
    BY <1>8, <1>9, <1>10, <1>11 DEF IInv

\* The last of several rounds.
LEMMA SlprLast ==
    ASSUME SortingAssumption, WidthAssumption, IInv, slpr_sort_last
    PROVE  IInv'
  <1>0. /\ Counted /\ N \in Nat \ {0, 1} /\ 1 \in 1 .. N + 1 /\ Rearranged(arr)
        /\ f_max \in Nat /\ div \in Nat \ {0} /\ first_active \in 1 .. N + 1
    BY CountsAreCounted DEF IInv, Types
  <1>1. Rearranged(arr')
    BY <1>0, SortRearranges DEF slpr_sort_last
  <1>2. Types'
    BY DEF slpr_sort_last, IInv, Types
  <1>3. RadixInv' /\ SlprInv'
    BY DEF slpr_sort_last, RadixInv, SlprInv
  <1>4. ASSUME \A i \in Positions : count[i] <= f_max, f_max < N * N
        PROVE  Descending'
    <2>0. N * N \in Nat \ {0}
      <3>1. N * N \in Nat /\ N * N >= N * 1
        BY <1>0
      <3> QED
        BY <1>0, <3>1
    <2>1. div = N /\ first_active = 1 /\ Ordered(arr, N)
      BY <1>0, <1>4, <2>0 DEF slpr_sort_last, IInv, SlprInv
    <2>2. arr \in [Positions -> Positions] /\ arr' = CountingSort(arr, 1, N, N)
      BY <1>0, <2>1 DEF Rearranged, slpr_sort_last
    <2>3. Ordered(arr', N * N)
      BY <1>0, <2>1, <2>2, PassExtends
    <2>4. \A i \in Positions : count[i] < N * N
      BY <1>0, <1>4, <2>0 DEF Counted
    <2>5. Counted' /\ Rearranged(arr)' /\ Ordered(arr, N * N)'
      BY <1>0, <1>1, <2>3 DEF Counted, Rearranged, Ordered, slpr_sort_last
    <2>6. (\A i \in Positions : count[i] < N * N)'
      BY <2>4 DEF slpr_sort_last
    <2> QED
      BY <2>0, <2>5, <2>6, AllDigitsNext
  <1>5. div' > 1
    BY DEF slpr_sort_last
  <1>6. SortsDescending'
    BY <1>4, <1>5 DEF SortsDescending, slpr_sort_last
  <1>7. Rearranged(arr)'
    BY <1>1 DEF Rearranged
  <1> QED
    BY <1>2, <1>3, <1>6, <1>7 DEF IInv

\* The conjuncts of the invariant read the variables only.
LEMMA StutterInv ==
    ASSUME IInv, UNCHANGED vars
    PROVE  IInv'
  BY DEF IInv, vars, Types, Rearranged, RadixInv, SlprInv, SortsDescending,
         Descending, Ordered, Reached

LEMMA Invariance == Spec => []IInv
  <1> USE SortingAssumption, WidthAssumption
  <1>1. Init => IInv
    BY InitInv
  <1>2. IInv /\ [Next]_vars => IInv'
    BY RadixStep, RadixEnd, SlprFirst, SlprRound, SlprLast, StutterInv DEF Next
  <1> QED
    BY <1>1, <1>2, PTL DEF Spec

\* No pass of either sort drops or doubles an entry of the dump, for any number
\* of entries, any counts and any f_max.
THEOREM NoEntryIsLost == Spec => []IsRearranged
  BY Invariance, IInvCovers, PTL

\* Each pass of radix_sort leaves the entries in descending order of the bytes
\* looked at so far, equal ones in their original order, until and including the
\* pass that makes the weight wrap.
THEOREM PassesAreStable == Spec => []PassesSort
  BY Invariance, IInvCovers, PTL

\* Given a maximum that none of the counts exceeds, radix_sort ends in
\* descending order whatever the maximum is, and slpr_sort when the maximum has
\* at most two digits in base N.
THEOREM DumpIsDescending == Spec => []SortsDescending
  BY Invariance, IInvCovers, PTL
=============================================================================
