---------------------------- MODULE IntegerFacts ----------------------------
(***************************************************************************)
(* Facts about numbers and their sums that the proofs of several modules   *)
(* need: \div and % by a positive number (what unsigned wraparound         *)
(* followed by "% MAX_BUCKETS" preserves), induction over numbers and over *)
(* the subsets of a finite set, and sums of functions over finite sets.    *)
(* Sets stand for predicates, so that each principle is a lemma to cite:   *)
(* it rests on the least element of a set of numbers.                      *)
(***************************************************************************)
EXTENDS Integers, FiniteSetTheorems, TLAPS

-----------------------------------------------------------------------------
(* Division and remainder.                                                 *)

\* Division with remainder, as C computes it on unsigned numbers.
LEMMA DivMod ==
    ASSUME NEW x \in Int, NEW d \in Nat \ {0}
    PROVE  /\ x % d \in 0 .. d - 1
           /\ x \div d \in Int
           /\ x = d * (x \div d) + (x % d)
  BY SMT

\* Shifting an unsigned number right leaves an unsigned number.
LEMMA DivNat ==
    ASSUME NEW x \in Nat, NEW d \in Nat \ {0}
    PROVE  x \div d \in Nat
  BY SMT

\* The remainder is the only representative of x in 0 .. d - 1.
LEMMA ModUnique ==
    ASSUME NEW x \in Int, NEW d \in Nat \ {0}, NEW q \in Int,
           NEW r \in 0 .. d - 1, x = d * q + r
    PROVE  x % d = r
  BY SMT

\* A multiple of the divisor does not change the remainder.
LEMMA ModShift ==
    ASSUME NEW x \in Int, NEW d \in Nat \ {0}, NEW q \in Int
    PROVE  (x + d * q) % d = x % d
  <1>1. /\ x % d \in 0 .. d - 1
        /\ x \div d \in Int
        /\ x = d * (x \div d) + (x % d)
    BY DivMod
  <1>2. x + d * q = d * ((x \div d) + q) + (x % d)
    BY <1>1
  <1>3. x + d * q \in Int /\ (x \div d) + q \in Int
    BY <1>1
  <1> QED
    BY <1>1, <1>2, <1>3, ModUnique, Zenon

\* Wrapping at n does not change the residue modulo a divisor m of n.
LEMMA ModMod ==
    ASSUME NEW x \in Int, NEW n \in Nat \ {0}, NEW m \in Nat \ {0}, n % m = 0
    PROVE  (x % n) % m = x % m
  <1> DEFINE k == n \div m
             q == x \div n
             r == x % n
  <1>1. n = m * k /\ k \in Int
    BY DivMod
  <1>2. x = n * q + r /\ q \in Int /\ r \in Int
    BY DivMod
  <1> HIDE DEF k, q, r
  <1>3. x = r + m * (k * q) /\ k * q \in Int
    BY <1>1, <1>2
  <1>4. (r + m * (k * q)) % m = r % m
    BY <1>2, <1>3, ModShift, Zenon
  <1>5. r % m = x % m
    BY <1>3, <1>4
  <1> QED
    BY <1>5 DEF r

\* Numbers with equal residues keep equal residues when both are shifted.
LEMMA ModAdd ==
    ASSUME NEW x \in Int, NEW y \in Int, NEW p \in Int, NEW m \in Nat \ {0},
           x % m = y % m
    PROVE  (x + p) % m = (y + p) % m
  <1> DEFINE s == x \div m
             t == y \div m
  <1>1. x = m * s + (x % m) /\ s \in Int
    BY DivMod
  <1>2. y = m * t + (y % m) /\ t \in Int /\ y % m \in Int
    BY DivMod
  <1> HIDE DEF s, t
  <1>3. x + p = (y + p) + m * (s - t) /\ s - t \in Int /\ y + p \in Int
    BY <1>1, <1>2
  <1>4. ((y + p) + m * (s - t)) % m = (y + p) % m
    BY <1>3, ModShift, Zenon
  <1> QED
    BY <1>3, <1>4

\* Division is monotone.
LEMMA DivMono ==
    ASSUME NEW x \in Int, NEW y \in Int, NEW d \in Nat \ {0}, x <= y
    PROVE  x \div d <= y \div d
  <1> DEFINE p == x \div d
             q == y \div d
  <1>1. /\ p \in Int /\ q \in Int
        /\ x = d * p + (x % d) /\ x % d \in 0 .. d - 1
        /\ y = d * q + (y % d) /\ y % d \in 0 .. d - 1
    BY DivMod
  <1> HIDE DEF p, q
  <1>2. CASE p > q
    <2>1. d * p >= d * (q + 1)
      BY <1>1, <1>2
    <2>2. d * (q + 1) = d * q + d
      BY <1>1
    <2>3. d * p \in Int /\ d * q \in Int
      BY <1>1
    <2> QED
      BY <1>1, <2>1, <2>2, <2>3
  <1> QED
    BY <1>1, <1>2 DEF p, q

\* A number below the modulus is its own remainder.
LEMMA ModSmall ==
    ASSUME NEW d \in Nat \ {0}, NEW x \in 0 .. d - 1
    PROVE  x % d = x
  <1>1. x = d * 0 + x
    OBVIOUS
  <1> QED
    BY <1>1, ModUnique

\* Division undoes multiplication.
LEMMA MulDiv ==
    ASSUME NEW x \in Nat, NEW d \in Nat \ {0}
    PROVE  (x * d) \div d = x
  <1> DEFINE q == (x * d) \div d
  <1>1. x * d \in Int /\ x * d = d * x + 0
    OBVIOUS
  <1>2. (x * d) % d = 0
    BY <1>1, ModUnique
  <1>3. q \in Int /\ x * d = d * q + 0
    BY <1>1, <1>2, DivMod
  <1> HIDE DEF q
  <1>4. d * x = d * q
    BY <1>1, <1>3
  <1>5. x = q
    <2>1. CASE x < q
      <3>1. d * (x + 1) <= d * q /\ d * (x + 1) = d * x + d
        BY <1>3, <2>1
      <3> QED
        BY <1>1, <1>3, <1>4, <3>1
    <2>2. CASE q < x
      <3>1. d * (q + 1) <= d * x /\ d * (q + 1) = d * q + d
        BY <1>3, <2>2
      <3> QED
        BY <1>1, <1>3, <1>4, <3>1
    <2> QED
      BY <1>3, <2>1, <2>2
  <1> QED
    BY <1>5 DEF q

\* What fits under the quotient fits, multiplied, under the number divided.
LEMMA MulFits ==
    ASSUME NEW x \in Nat, NEW y \in Nat, NEW d \in Nat \ {0}, x <= y \div d
    PROVE  x * d \in 0 .. y
  <1> DEFINE q == y \div d
  <1>1. q \in Int /\ y = d * q + (y % d) /\ y % d \in 0 .. d - 1
    BY DivMod
  <1> HIDE DEF q
  <1>2. x <= q
    BY DEF q
  <1>3. d * x <= d * q
    BY <1>1, <1>2
  <1>4. d * x \in Int /\ d * q \in Int /\ x * d = d * x /\ d * x >= 0
    BY <1>1
  <1> QED
    BY <1>1, <1>3, <1>4

\* A quotient is no larger than what is divided.
LEMMA DivSmall ==
    ASSUME NEW x \in Nat, NEW d \in Nat \ {0}
    PROVE  x \div d \in 0 .. x
  <1> DEFINE q == x \div d
  <1>0. q \in Nat
    BY DivNat
  <1>1. q \in Nat /\ x = d * q + (x % d) /\ x % d \in 0 .. d - 1
    BY <1>0, DivMod
  <1> HIDE DEF q
  <1>2. d * q = q + (d - 1) * q /\ (d - 1) * q \in Nat
    BY <1>1
  <1> QED
    BY <1>1, <1>2 DEF q

\* What is below a multiple of the divisor has its quotient below the factor.
LEMMA DivBelow ==
    ASSUME NEW x \in Nat, NEW d \in Nat \ {0}, NEW n \in Nat, x < n * d
    PROVE  x \div d \in 0 .. n - 1
  <1> DEFINE q == x \div d
  <1>0. q \in Nat
    BY DivNat
  <1>1. q \in Nat /\ x = d * q + (x % d) /\ x % d \in 0 .. d - 1
    BY <1>0, DivMod
  <1> HIDE DEF q
  <1>2. CASE q >= n
    <2>1. d * q >= d * n /\ d * n = n * d
      BY <1>1, <1>2
    <2>2. d * q \in Int /\ n * d \in Int
      BY <1>1
    <2> QED
      BY <1>1, <2>1, <2>2
  <1> QED
    BY <1>1, <1>2 DEF q

-----------------------------------------------------------------------------
(* Induction.                                                              *)

\* A set of numbers has a least one.
LEMMA LeastNumber ==
    ASSUME NEW T, T \subseteq Nat, T # {}
    PROVE  \E m \in T : \A k \in T : m <= k
  <1> DEFINE R == OpToRel(<, Nat)
  <1>1. \A j, k \in Nat : j < k => <<j, k>> \in R
    BY DEF OpToRel
  <1>2. IsWellFoundedOn(R, Nat)
    BY NatLessThanWellFounded
  <1> HIDE DEF R
  <1>3. \E m \in T : \A k \in T : <<k, m>> \notin R
    BY <1>2, WFMin, Zenon
  <1>4. PICK m \in T : \A k \in T : <<k, m>> \notin R
    BY <1>3
  <1>5. ASSUME NEW k \in T PROVE m <= k
    <2>1. ~(k < m)
      BY <1>1, <1>4
    <2> QED
      BY <2>1
  <1> QED
    BY <1>5

\* The least number outside a set that holds 0 and, with a number, the next one
\* would have a predecessor in the set: there is none.
LEMMA NatInduction0 ==
    ASSUME NEW P, P \subseteq Nat, 0 \in P, \A n \in P : n + 1 \in P
    PROVE  P = Nat
  <1> SUFFICES ASSUME Nat \ P # {} PROVE FALSE
    OBVIOUS
  <1>1. PICK m \in Nat \ P : \A k \in Nat \ P : m <= k
    BY LeastNumber
  <1>2. m \in Nat /\ m # 0 /\ m - 1 \in Nat /\ m = (m - 1) + 1
    OBVIOUS
  <1>3. m - 1 \in Nat \ P
    BY <1>2
  <1> QED
    BY <1>1, <1>2, <1>3

\* A set of subsets of a finite set that holds {} and every set whose smaller
\* subsets it holds is all of them.
LEMMA SubsetInduction ==
    ASSUME NEW S, IsFiniteSet(S), NEW P, {} \in P,
           \A T \in SUBSET S : T # {} /\ (\A x \in T : T \ {x} \in P) => T \in P
    PROVE  \A T \in SUBSET S : T \in P
  <1> DEFINE N == {n \in Nat : \A T \in SUBSET S : Cardinality(T) = n => T \in P}
  <1>1. \A T \in SUBSET S : IsFiniteSet(T) /\ Cardinality(T) \in Nat
    BY FS_Subset, FS_CardinalityType
  <1>2. 0 \in N
    BY <1>1, FS_EmptySet
  <1>3. ASSUME NEW n \in N PROVE n + 1 \in N
    <2> SUFFICES ASSUME NEW T \in SUBSET S, Cardinality(T) = n + 1
                 PROVE  T \in P
      OBVIOUS
    <2>1. T # {}
      BY <1>1, FS_EmptySet
    <2>2. ASSUME NEW x \in T PROVE T \ {x} \in P
      <3>1. Cardinality(T \ {x}) = n
        BY <1>1, FS_RemoveElement
      <3> QED
        BY <3>1
    <2> QED
      BY <2>1, <2>2
  <1> HIDE DEF N
  <1>4. N \subseteq Nat
    BY DEF N
  <1>5. N = Nat
    BY <1>2, <1>3, <1>4, NatInduction0
  <1> QED
    BY <1>1, <1>5 DEF N

-----------------------------------------------------------------------------
(* Sums over finite sets.                                                  *)

Chosen(s) == CHOOSE x \in s : TRUE
SumStep(h, g, s) == IF s = {} THEN 0 ELSE g[Chosen(s)] + h[s \ {Chosen(s)}]
PartialSums(g, S) == CHOOSE h : h = [s \in SUBSET S |-> SumStep(h, g, s)]

\* The community module defines a sum by the choice of a recursive function on
\* the subsets: SumFunctionOnSet is its value at the whole set.
LEMMA SumDef ==
    ASSUME NEW g, NEW S
    PROVE  SumFunctionOnSet(g, S) = PartialSums(g, S)[S]
  BY DEF SumFunctionOnSet, FoldFunctionOnSet, MapThenFoldSet, PartialSums, SumStep, Chosen

\* There is such a function.
LEMMA PartialExists ==
    ASSUME NEW g, NEW S, IsFiniteSet(S)
    PROVE  PartialSums(g, S) = [s \in SUBSET S |-> SumStep(PartialSums(g, S), g, s)]
  <1> DEFINE Upto(h, n) == 
                 /\ h = [s \in SUBSET S |-> h[s]]
                 /\ \A s \in SUBSET S : Cardinality(s) <= n => h[s] = SumStep(h, g, s)
             N == {n \in Nat : \E h : Upto(h, n)}
  <1>1. \A T \in SUBSET S : /\ IsFiniteSet(T) /\ Cardinality(T) \in Nat
                            /\ Cardinality(T) <= Cardinality(S)
                            /\ Cardinality(T) = 0 => T = {}
                            /\ T # {} => /\ Chosen(T) \in T
                                         /\ Cardinality(T \ {Chosen(T)}) = Cardinality(T) - 1
                                         /\ T \ {Chosen(T)} \in SUBSET S
    BY FS_Subset, FS_CardinalityType, FS_EmptySet, FS_RemoveElement DEF Chosen
  <1>2. 0 \in N
    <2> DEFINE h == [s \in SUBSET S |-> 0]
    <2>1. ASSUME NEW s \in SUBSET S, Cardinality(s) <= 0
          PROVE  h[s] = SumStep(h, g, s)
      <3>1. IsFiniteSet(s) /\ Cardinality(s) \in Nat
        BY <1>1
      <3>2. s = {}
        BY <2>1, <3>1, FS_EmptySet
      <3> QED
        BY <3>2 DEF SumStep
    <2>2. Upto(h, 0)
      BY <2>1
    <2> HIDE DEF Upto, h
    <2> QED BY <2>2
  <1>3. ASSUME NEW n \in N PROVE n + 1 \in N
    <2>1. PICK h : Upto(h, n)
      OBVIOUS
    <2> DEFINE k == [s \in SUBSET S |-> SumStep(h, g, s)]
    <2>2. ASSUME NEW s \in SUBSET S, Cardinality(s) <= n + 1
          PROVE  k[s] = SumStep(k, g, s)
      <3>1. CASE s = {}
        BY <3>1 DEF SumStep
      <3>2. CASE s # {}
        <4> DEFINE r == s \ {Chosen(s)}
        <4>1. r \in SUBSET S /\ Cardinality(r) <= n
          BY <1>1, <2>2, <3>2
        <4>2. k[r] = h[r]
          BY <2>1, <4>1
        <4> QED
          BY <3>2, <4>2 DEF SumStep
      <3> QED BY <3>1, <3>2
    <2>3. Upto(k, n + 1)
      BY <2>2
    <2> HIDE DEF Upto, k
    <2> QED BY <2>3
  <1>4. N \subseteq Nat
    OBVIOUS
  <1> HIDE DEF N
  <1>5. N = Nat
    BY <1>2, <1>3, <1>4, NatInduction0
  <1>6. PICK h : Upto(h, Cardinality(S))
    BY <1>1, <1>5 DEF N
  <1>7. h = [s \in SUBSET S |-> SumStep(h, g, s)]
    BY <1>1, <1>6
  <1> QED
    BY <1>7 DEF PartialSums

\* It gives a subset the sum of that subset.
LEMMA PartialSame ==
    ASSUME NEW g, NEW S, IsFiniteSet(S), NEW R \in SUBSET S
    PROVE  PartialSums(g, S)[R] = SumFunctionOnSet(g, R)
  <1> DEFINE Same(T) == \A U \in SUBSET S : T \subseteq U => PartialSums(g, U)[T] = PartialSums(g, T)[T]
             P == {T \in SUBSET S : Same(T)}
  <1>1. ASSUME NEW U \in SUBSET S, NEW T \in SUBSET U
        PROVE  PartialSums(g, U)[T] = SumStep(PartialSums(g, U), g, T)
    <2>1. PartialSums(g, U) = [s \in SUBSET U |-> SumStep(PartialSums(g, U), g, s)]
      BY FS_Subset, PartialExists
    <2> QED
      BY <2>1, Zenon
  <1>2. Same({})
    BY <1>1 DEF SumStep
  <1>3. ASSUME NEW T \in SUBSET S, T # {}, \A x \in T : T \ {x} \in P
        PROVE  Same(T)
    <2> DEFINE r == T \ {Chosen(T)}
    <2>1. Chosen(T) \in T /\ r \in SUBSET T
      BY <1>3 DEF Chosen
    <2>2. Same(r)
      BY <1>3, <2>1
    <2>3. ASSUME NEW U \in SUBSET S, T \subseteq U
          PROVE  PartialSums(g, U)[T] = g[Chosen(T)] + PartialSums(g, r)[r]
      <3>1. PartialSums(g, U)[T] = g[Chosen(T)] + PartialSums(g, U)[r]
        BY <1>1, <1>3, <2>3 DEF SumStep
      <3>2. PartialSums(g, U)[r] = PartialSums(g, r)[r]
        BY <2>1, <2>2, <2>3
      <3> QED
        BY <3>1, <3>2
    <2> HIDE DEF r
    <2> QED
      BY <2>3
  <1>4. {} \in P /\ \A T \in SUBSET S : T # {} /\ (\A x \in T : T \ {x} \in P) => T \in P
    BY <1>2, <1>3
  <1> HIDE DEF P
  <1>5. R \in P
    BY <1>4, SubsetInduction
  <1>6. Same(R)
    BY <1>5 DEF P
  <1> QED
    BY <1>6, SumDef

\* The empty sum is 0.
LEMMA SumEmpty == \A g : SumFunctionOnSet(g, {}) = 0
  <1> SUFFICES ASSUME NEW g PROVE SumFunctionOnSet(g, {}) = 0
    OBVIOUS
  <1>1. PartialSums(g, {}) = [s \in SUBSET {} |-> SumStep(PartialSums(g, {}), g, s)]
    BY FS_EmptySet, PartialExists
  <1>2. PartialSums(g, {})[{}] = SumStep(PartialSums(g, {}), g, {})
    BY <1>1, Zenon
  <1> QED
    BY <1>2, SumDef DEF SumStep

\* A sum is one chosen summand and the sum of the rest.
LEMMA SumPick ==
    ASSUME NEW g, NEW S, IsFiniteSet(S), S # {}
    PROVE  /\ Chosen(S) \in S
           /\ SumFunctionOnSet(g, S) = g[Chosen(S)] + SumFunctionOnSet(g, S \ {Chosen(S)})
  <1>1. Chosen(S) \in S
    BY DEF Chosen
  <1>2. PartialSums(g, S) = [s \in SUBSET S |-> SumStep(PartialSums(g, S), g, s)]
    BY PartialExists, ZenonT(40)
  <1>3. PartialSums(g, S)[S] = SumStep(PartialSums(g, S), g, S)
    BY <1>2, Zenon
  <1>4. PartialSums(g, S)[S \ {Chosen(S)}] = SumFunctionOnSet(g, S \ {Chosen(S)})
    BY PartialSame
  <1> QED
    BY <1>1, <1>3, <1>4, SumDef DEF SumStep

\* The sum of integers is an integer, and of naturals a natural.
LEMMA SumType ==
    ASSUME NEW S, IsFiniteSet(S), NEW g, \A x \in S : g[x] \in Int
    PROVE  /\ SumFunctionOnSet(g, S) \in Int
           /\ (\A x \in S : g[x] >= 0) => SumFunctionOnSet(g, S) >= 0
  <1> DEFINE P == {T \in SUBSET S : /\ SumFunctionOnSet(g, T) \in Int
                                    /\ (\A x \in S : g[x] >= 0) => SumFunctionOnSet(g, T) >= 0}
  <1>1. {} \in P
    BY SumEmpty
  <1>2. ASSUME NEW T \in SUBSET S, T # {}, \A x \in T : T \ {x} \in P
        PROVE  T \in P
    <2>1. /\ Chosen(T) \in T
          /\ SumFunctionOnSet(g, T) = g[Chosen(T)] + SumFunctionOnSet(g, T \ {Chosen(T)})
      BY <1>2, FS_Subset, SumPick
    <2> QED
      BY <1>2, <2>1
  <1> HIDE DEF P
  <1>3. S \in P
    <2>1. S \in SUBSET S
      OBVIOUS
    <2> QED
      BY <1>1, <1>2, <2>1, SubsetInduction
  <1> QED
    BY <1>3 DEF P

\* It is any summand and the sum of the rest: the order does not matter.
LEMMA SumRemove ==
    ASSUME NEW S, IsFiniteSet(S), NEW g, \A x \in S : g[x] \in Int, NEW x \in S
    PROVE  SumFunctionOnSet(g, S) = g[x] + SumFunctionOnSet(g, S \ {x})
  <1> DEFINE Sum(T) == SumFunctionOnSet(g, T)
             P == {T \in SUBSET S : \A y \in T : Sum(T) = g[y] + Sum(T \ {y})}
  <1>1. {} \in P
    OBVIOUS
  <1>2. ASSUME NEW T \in SUBSET S, T # {}, \A y \in T : T \ {y} \in P
        PROVE  T \in P
    <2>0. \A U \in SUBSET S : IsFiniteSet(U) /\ Sum(U) \in Int
      BY FS_Subset, SumType
    <2> DEFINE z == Chosen(T)
    <2>1. z \in T /\ Sum(T) = g[z] + Sum(T \ {z})
      BY <1>2, <2>0, SumPick
    <2> HIDE DEF z, Sum
    <2>2. ASSUME NEW y \in T, y # z PROVE Sum(T) = g[y] + Sum(T \ {y})
      <3>1. Sum(T \ {z}) = g[y] + Sum((T \ {z}) \ {y})
        BY <1>2, <2>1, <2>2
      <3>2. Sum(T \ {y}) = g[z] + Sum((T \ {y}) \ {z})
        BY <1>2, <2>1, <2>2
      <3>3. Sum((T \ {y}) \ {z}) = Sum((T \ {z}) \ {y})
        <4>1. (T \ {y}) \ {z} = (T \ {z}) \ {y}
          OBVIOUS
        <4> QED
          BY <4>1, Zenon
      <3>4. Sum((T \ {z}) \ {y}) \in Int /\ g[y] \in Int /\ g[z] \in Int
        BY <2>0, <2>1
      <3> QED
        BY <2>1, <3>1, <3>2, <3>3, <3>4
    <2> QED
      BY <2>1, <2>2
  <1> HIDE DEF P
  <1>3. S \in P
    <2>1. S \in SUBSET S
      OBVIOUS
    <2> QED
      BY <1>1, <1>2, <2>1, SubsetInduction
  <1> QED
    BY <1>3 DEF P

\* A sum of zeros is zero.
LEMMA SumZero ==
    ASSUME NEW S, IsFiniteSet(S), NEW g, \A x \in S : g[x] = 0
    PROVE  SumFunctionOnSet(g, S) = 0
  <1> DEFINE P == {T \in SUBSET S : SumFunctionOnSet(g, T) = 0}
  <1>1. {} \in P
    BY SumEmpty
  <1>2. ASSUME NEW T \in SUBSET S, T # {}, \A x \in T : T \ {x} \in P
        PROVE  T \in P
    <2>1. IsFiniteSet(T)
      BY FS_Subset
    <2>2. /\ Chosen(T) \in T
          /\ SumFunctionOnSet(g, T) = g[Chosen(T)] + SumFunctionOnSet(g, T \ {Chosen(T)})
      BY <1>2, <2>1, SumPick
    <2>3. g[Chosen(T)] = 0 /\ SumFunctionOnSet(g, T \ {Chosen(T)}) = 0
      BY <1>2, <2>2
    <2> QED
      BY <2>2, <2>3
  <1> HIDE DEF P
  <1>3. S \in P
    BY <1>1, <1>2, SubsetInduction
  <1> QED
    BY <1>3 DEF P

\* Equal summands have equal sums.
LEMMA SumSame ==
    ASSUME NEW S, IsFiniteSet(S), NEW g, NEW h, \A x \in S : g[x] = h[x]
    PROVE  SumFunctionOnSet(g, S) = SumFunctionOnSet(h, S)
  <1> DEFINE P == {T \in SUBSET S : SumFunctionOnSet(g, T) = SumFunctionOnSet(h, T)}
  <1>1. {} \in P
    BY SumEmpty
  <1>2. ASSUME NEW T \in SUBSET S, T # {}, \A y \in T : T \ {y} \in P
        PROVE  T \in P
    <2>1. /\ Chosen(T) \in T
          /\ SumFunctionOnSet(g, T) = g[Chosen(T)] + SumFunctionOnSet(g, T \ {Chosen(T)})
          /\ SumFunctionOnSet(h, T) = h[Chosen(T)] + SumFunctionOnSet(h, T \ {Chosen(T)})
      BY <1>2, FS_Subset, SumPick
    <2> QED
      BY <1>2, <2>1
  <1> HIDE DEF P
  <1>3. S \in SUBSET S
    OBVIOUS
  <1>4. S \in P
    BY <1>1, <1>2, <1>3, SubsetInduction
  <1> QED
    BY <1>4 DEF P

\* Larger summands have no smaller sum.
LEMMA SumLess ==
    ASSUME NEW S, IsFiniteSet(S), NEW g, NEW h,
           \A x \in S : g[x] \in Int /\ h[x] \in Int /\ g[x] <= h[x]
    PROVE  SumFunctionOnSet(g, S) <= SumFunctionOnSet(h, S)
  <1> DEFINE P == {T \in SUBSET S : SumFunctionOnSet(g, T) <= SumFunctionOnSet(h, T)}
  <1>1. {} \in P
    BY SumEmpty
  <1>2. ASSUME NEW T \in SUBSET S, T # {}, \A y \in T : T \ {y} \in P
        PROVE  T \in P
    <2>1. /\ Chosen(T) \in T
          /\ SumFunctionOnSet(g, T) = g[Chosen(T)] + SumFunctionOnSet(g, T \ {Chosen(T)})
          /\ SumFunctionOnSet(h, T) = h[Chosen(T)] + SumFunctionOnSet(h, T \ {Chosen(T)})
      BY <1>2, FS_Subset, SumPick
    <2>2. /\ SumFunctionOnSet(g, T \ {Chosen(T)}) \in Int
          /\ SumFunctionOnSet(h, T \ {Chosen(T)}) \in Int
      <3>1. IsFiniteSet(T \ {Chosen(T)}) /\ T \ {Chosen(T)} \subseteq S
        BY FS_Subset
      <3> QED
        BY <3>1, SumType
    <2> QED
      BY <1>2, <2>1, <2>2
  <1> HIDE DEF P
  <1>3. S \in SUBSET S
    OBVIOUS
  <1>4. S \in P
    BY <1>1, <1>2, <1>3, SubsetInduction
  <1> QED
    BY <1>4 DEF P

\* Functions that differ in one place of S at most.
DifferAt(g, h, S, x) ==
    /\ IsFiniteSet(S) /\ x \in S
    /\ \A y \in S : g[y] \in Int /\ h[y] \in Int
    /\ \A y \in S \ {x} : g[y] = h[y]

\* Two functions that differ in one place have sums that differ by as much.
LEMMA SumChange ==
    ASSUME NEW g, NEW h, NEW S, NEW x, DifferAt(g, h, S, x)
    PROVE  SumFunctionOnSet(h, S) = SumFunctionOnSet(g, S) + h[x] - g[x]
  <1> USE DEF DifferAt
  <1>1. IsFiniteSet(S \ {x}) /\ \A y \in S \ {x} : g[y] \in Int
    BY FS_RemoveElement
  <1>2. SumFunctionOnSet(g, S \ {x}) = SumFunctionOnSet(h, S \ {x})
    BY <1>1, SumSame
  <1>3. SumFunctionOnSet(g, S \ {x}) \in Int
    BY <1>1, SumType
  <1>4. /\ SumFunctionOnSet(g, S) = g[x] + SumFunctionOnSet(g, S \ {x})
        /\ SumFunctionOnSet(h, S) = h[x] + SumFunctionOnSet(h, S \ {x})
    BY SumRemove
  <1> QED
    BY <1>2, <1>3, <1>4

\* Counting one in one place counts one in every sum over it.
LEMMA SumIncrement ==
    ASSUME NEW S, IsFiniteSet(S), NEW D, S \subseteq D, NEW g \in [D -> Int], NEW x \in D
    PROVE  SumFunctionOnSet([g EXCEPT ![x] = @ + 1], S)
                = SumFunctionOnSet(g, S) + (IF x \in S THEN 1 ELSE 0)
  <1> DEFINE h == [g EXCEPT ![x] = @ + 1]
  <1>1. SumFunctionOnSet(g, S) \in Int
    BY SumType
  <1>2. CASE x \in S
    <2>1. h[x] = g[x] + 1 /\ g[x] \in Int
      BY <1>2
    <2>2. /\ \A y \in S : g[y] \in Int /\ h[y] \in Int
          /\ \A y \in S \ {x} : g[y] = h[y]
      OBVIOUS
    <2>3. DifferAt(g, h, S, x)
      BY <1>2, <2>2 DEF DifferAt
    <2> HIDE DEF h
    <2>4. SumFunctionOnSet(h, S) = SumFunctionOnSet(g, S) + h[x] - g[x]
      BY <2>3, SumChange
    <2> QED
      BY <1>1, <1>2, <2>1, <2>4 DEF h
  <1>3. CASE x \notin S
    <2>1. \A y \in S : g[y] = h[y]
      BY <1>3
    <2> HIDE DEF h
    <2>2. SumFunctionOnSet(g, S) = SumFunctionOnSet(h, S)
      BY <2>1, SumSame
    <2> QED
      BY <1>1, <1>3, <2>2 DEF h
  <1> QED
    BY <1>2, <1>3

\* Counting one more counts one more in all.
LEMMA OneMoreInSum ==
    ASSUME NEW S, IsFiniteSet(S), NEW g \in [S -> Int], NEW x \in S
    PROVE  SumFunctionOnSet([g EXCEPT ![x] = @ + 1], S) = SumFunctionOnSet(g, S) + 1
  <1>1. S \subseteq S
    OBVIOUS
  <1>2. SumFunctionOnSet([g EXCEPT ![x] = @ + 1], S)
            = SumFunctionOnSet(g, S) + (IF x \in S THEN 1 ELSE 0)
    BY <1>1, SumIncrement, Zenon
  <1> QED
    BY <1>2

\* The same summands in another order have the same sum.
LEMMA SumReorder ==
    ASSUME NEW S, IsFiniteSet(S), NEW g, NEW h, NEW f,
           \A x \in S : g[x] \in Int /\ f[x] \in S /\ h[x] = g[f[x]],
           \A x, y \in S : f[x] = f[y] => x = y,
           \A z \in S : \E x \in S : f[x] = z
    PROVE  SumFunctionOnSet(h, S) = SumFunctionOnSet(g, S)
  <1> DEFINE Image(T) == {z \in S : \E x \in T : f[x] = z}
             P == {T \in SUBSET S : SumFunctionOnSet(h, T) = SumFunctionOnSet(g, Image(T))}
  <1>1. {} \in P
    <2>1. Image({}) = {}
      OBVIOUS
    <2> QED
      BY <2>1, SumEmpty
  <1>2. ASSUME NEW T \in SUBSET S, T # {}, \A y \in T : T \ {y} \in P
        PROVE  T \in P
    <2>1. /\ Chosen(T) \in T
          /\ SumFunctionOnSet(h, T) = h[Chosen(T)] + SumFunctionOnSet(h, T \ {Chosen(T)})
      BY <1>2, FS_Subset, SumPick
    <2> DEFINE z == f[Chosen(T)]
    <2>2. /\ IsFiniteSet(Image(T)) /\ z \in Image(T) /\ \A y \in Image(T) : g[y] \in Int
          /\ Image(T) \ {z} = Image(T \ {Chosen(T)})
      <3>1. Image(T) \in SUBSET S
        OBVIOUS
      <3>2. IsFiniteSet(Image(T))
        BY <3>1, FS_Subset
      <3> QED
        BY <2>1, <3>2
    <2>3. SumFunctionOnSet(g, Image(T)) = g[z] + SumFunctionOnSet(g, Image(T) \ {z})
      <3> HIDE DEF Image, z
      <3> QED BY <2>2, SumRemove
    <2>4. SumFunctionOnSet(h, T \ {Chosen(T)}) = SumFunctionOnSet(g, Image(T \ {Chosen(T)}))
      BY <1>2, <2>1
    <2>5. h[Chosen(T)] = g[z]
      BY <2>1
    <2>6. SumFunctionOnSet(g, Image(T) \ {z}) = SumFunctionOnSet(h, T \ {Chosen(T)})
      <3> HIDE DEF Image, z
      <3> QED BY <2>2, <2>4, Zenon
    <2>7. SumFunctionOnSet(g, Image(T)) = SumFunctionOnSet(h, T)
      <3> HIDE DEF Image, z
      <3> QED BY <2>1, <2>3, <2>5, <2>6
    <2> QED
      BY <2>7
  <1> HIDE DEF P
  <1>3. S \in SUBSET S
    OBVIOUS
  <1>4. S \in P
    BY <1>1, <1>2, <1>3, SubsetInduction
  <1>5. Image(S) = S
    OBVIOUS
  <1>6. SumFunctionOnSet(h, S) = SumFunctionOnSet(g, Image(S))
    BY <1>4 DEF P
  <1> HIDE DEF Image
  <1> QED
    BY <1>5, <1>6

-----------------------------------------------------------------------------
(* Sums over lists indexed from 0.                                         *)

\* Function h is g with the value at i moved up to q.
Rotates(g, h, n, q, i) ==
    /\ n \in Nat /\ i \in 0 .. n /\ q \in 0 .. i
    /\ \A k \in 0 .. n : g[k] \in Int
    /\ h[q] = g[i]
    /\ \A k \in 0 .. n : k < q \/ k > i => h[k] = g[k]
    /\ \A k \in q + 1 .. i : h[k] = g[k - 1]

\* Moving entry i of a list up to place q, and those between down by one,
\* does not change the sum.
LEMMA SumRotate ==
    ASSUME NEW g, NEW h, NEW n, NEW q, NEW i, Rotates(g, h, n, q, i)
    PROVE  SumFunctionOnSet(h, 0 .. n) = SumFunctionOnSet(g, 0 .. n)
  <1> USE DEF Rotates
  <1> DEFINE S == 0 .. n
             f == [k \in S |-> IF k < q \/ k > i THEN k ELSE IF k = q THEN i ELSE k - 1]
  <1>1. \A x \in S : f[x] \in S /\ h[x] = g[f[x]]
    OBVIOUS
  <1>2. \A x, y \in S : f[x] = f[y] => x = y
    OBVIOUS
  <1>3. ASSUME NEW z \in S
        PROVE  \E x \in S : f[x] = z
    <2>1. CASE z < q \/ z > i
      BY <2>1
    <2>2. CASE z = i
      <3>1. q \in S /\ f[q] = i
        OBVIOUS
      <3> QED
        BY <2>2, <3>1
    <2>3. CASE z >= q /\ z < i
      <3>1. z + 1 \in S /\ f[z + 1] = z
        BY <2>3
      <3> QED
        BY <3>1
    <2> QED
      BY <2>1, <2>2, <2>3
  <1>4. IsFiniteSet(S)
    BY FS_Interval
  <1>5. \A x \in S : g[x] \in Int /\ f[x] \in S /\ h[x] = g[f[x]]
    BY <1>1
  <1> HIDE DEF S, f
  <1>6. SumFunctionOnSet(h, S) = SumFunctionOnSet(g, S)
    BY <1>2, <1>3, <1>4, <1>5, SumReorder
  <1> QED
    BY <1>6 DEF S

\* Function h is g moved down by one, with any first value.
Shifts(g, h, n) ==
    /\ n \in Nat
    /\ \A k \in 0 .. n : g[k] \in Int
    /\ h[0] \in Int
    /\ \A k \in 1 .. n : h[k] = g[k - 1]

\* Moving all entries down by one loses the last and makes room for a first.
LEMMA SumShift ==
    ASSUME NEW g, NEW h, NEW n, Shifts(g, h, n)
    PROVE  SumFunctionOnSet(h, 0 .. n)
                = SumFunctionOnSet(g, 0 .. n) + h[0] - g[n]
  <1> USE DEF Shifts
  <1> DEFINE S == 0 .. n
             m == [k \in S |-> IF k = n THEN h[0] ELSE g[k]]
  <1>1. /\ n \in S /\ 0 \in 0 .. n /\ m[n] = h[0] /\ n \in Nat
        /\ \A k \in S : m[k] \in Int /\ g[k] \in Int
        /\ \A k \in S \ {n} : g[k] = m[k]
    OBVIOUS
  <1>2. IsFiniteSet(S)
    BY FS_Interval
  <1>3. SumFunctionOnSet(m, S) = SumFunctionOnSet(g, S) + m[n] - g[n]
    <2>1. DifferAt(g, m, S, n)
      BY <1>1, <1>2 DEF DifferAt
    <2> HIDE DEF m, S, Shifts
    <2> QED
      BY <2>1, SumChange
  <1>4. SumFunctionOnSet(h, S) = SumFunctionOnSet(m, S)
    <2>1. Rotates(m, h, n, 0, n)
      BY <1>1 DEF Rotates
    <2> HIDE DEF m
    <2> QED
      BY <2>1, SumRotate
  <1> QED
    BY <1>1, <1>3, <1>4

\* Function h is g with the gap at i closed, and any last value.
Closes(g, h, n, i) ==
    /\ n \in Nat /\ i \in 0 .. n
    /\ \A k \in 0 .. n : g[k] \in Int
    /\ h[n] \in Int
    /\ \A k \in 0 .. n : k < i => h[k] = g[k]
    /\ \A k \in 0 .. n : k >= i /\ k < n => h[k] = g[k + 1]

\* Closing the gap at i loses that entry and leaves room for a last.
LEMMA SumClose ==
    ASSUME NEW g, NEW h, NEW n, NEW i, Closes(g, h, n, i)
    PROVE  SumFunctionOnSet(h, 0 .. n)
                = SumFunctionOnSet(g, 0 .. n) + h[n] - g[i]
  <1> USE DEF Closes
  <1> DEFINE S == 0 .. n
             m == [k \in S |-> IF k = n THEN g[i] ELSE h[k]]
  <1>1. \A k \in S : h[k] \in Int
    <2> SUFFICES ASSUME NEW k \in S PROVE h[k] \in Int
      OBVIOUS
    <2>1. CASE k = n
      BY <2>1
    <2>2. CASE k < i
      BY <2>2
    <2>3. CASE k >= i /\ k <= n - 1
      <3>1. k + 1 \in S /\ h[k] = g[k + 1]
        BY <2>3
      <3> QED
        BY <3>1
    <2> QED
      BY <2>1, <2>2, <2>3
  <1>2. /\ n \in S /\ n \in Nat /\ m[n] = g[i] /\ i \in 0 .. n
        /\ \A k \in S : m[k] \in Int
        /\ \A k \in S \ {n} : h[k] = m[k]
    BY <1>1
  <1>3. \A k \in i + 1 .. n : g[k] = m[k - 1]
    <2> SUFFICES ASSUME NEW k \in i + 1 .. n PROVE g[k] = m[k - 1]
      OBVIOUS
    <2>1. k - 1 \in i .. n - 1 /\ (k - 1) + 1 = k
      OBVIOUS
    <2>2. h[k - 1] = g[k]
      BY <2>1
    <2> QED
      BY <2>1, <2>2
  <1>4. \A k \in S : k < i \/ k > n => g[k] = m[k]
    OBVIOUS
  <1>5. IsFiniteSet(S)
    BY FS_Interval
  <1>6. SumFunctionOnSet(m, S) = SumFunctionOnSet(h, S) + m[n] - h[n]
    <2>1. DifferAt(h, m, S, n)
      BY <1>1, <1>2, <1>5 DEF DifferAt
    <2> HIDE DEF m, S, Closes
    <2> QED
      BY <2>1, SumChange
  <1>7. SumFunctionOnSet(g, S) = SumFunctionOnSet(m, S)
    <2>1. Rotates(m, g, n, i, n)
      BY <1>2, <1>3, <1>4 DEF Rotates
    <2> HIDE DEF m
    <2> QED
      BY <2>1, SumRotate
  <1>8. SumFunctionOnSet(h, S) \in Int
    <2> HIDE DEF S
    <2> QED BY <1>1, <1>5, SumType
  <1> QED
    BY <1>2, <1>6, <1>7, <1>8
=============================================================================
