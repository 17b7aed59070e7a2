------------------------------ MODULE Sorting ------------------------------
(***************************************************************************)
(* How the loaders order the hot entries they dump: radix_sort by bytes    *)
(* and slpr_sort by digits in base n, both driven by the f_max of the      *)
(* sketch in place of the true maximum.                                    *)
(*                                                                         *)
(* Entries are told apart by their position in the dump; arr lists these   *)
(* positions in the order reached so far.  One step is one pass.           *)
(***************************************************************************)
EXTENDS Integers, FiniteSets

CONSTANTS
    N,        \* entries dumped (2 * MAX_BUCKETS)
    Counts,   \* counts an entry may have
    BASE,     \* 256
    WIDTH     \* 2^32: the range of exp and div

ASSUME SortingAssumption == /\ N \in Nat \ {0, 1}
                            /\ Counts \subseteq 0 .. WIDTH - 1
                            /\ BASE \in Nat \ {0, 1}
                            /\ WIDTH \in Nat \ {0, 1}
\* WIDTH is a power of BASE: multiplied by BASE again and again, 1 becomes WIDTH.
ASSUME WidthAssumption == \E W \in SUBSET (1 .. WIDTH) :
                            /\ 1 \in W
                            /\ \A e \in W : e = WIDTH \/ e * BASE \in W

VARIABLES
    count,         \* the counts dumped
    f_max,         \* of the sketch; the largest count dumped may differ
    pc,            \* "radix", "slpr", "done" or "crashed" (division by 0)
    arr,
    exp,           \* radix_sort: weight of the next byte
    div,           \* slpr_sort: weight of the next round's digit
    first_active   \* slpr_sort: where the active region starts

vars == <<count, f_max, pc, arr, exp, div, first_active>>

Positions == 1 .. N

\* Mutant: equal digits change places.
CountingSort_Unstable(a, from, d, base) ==
    LET digit(i) == (count[a[i]] \div d) % base
        place(i) == from + Cardinality({k \in from .. N :
                        digit(k) > digit(i) \/ (digit(k) = digit(i) /\ k > i)})
    IN  [p \in Positions |-> IF p < from THEN a[p]
                             ELSE a[CHOOSE i \in from .. N : place(i) = p]]

\* Mutant: the places of equal digits coincide.
CountingSort_Collides(a, from, d, base) ==
    LET digit(i) == (count[a[i]] \div d) % base
        place(i) == from + Cardinality({k \in from .. N : digit(k) > digit(i)})
    IN  [p \in Positions |-> IF \A i \in from .. N : place(i) # p THEN a[p]
                             ELSE a[CHOOSE i \in from .. N : place(i) = p]]

\* A stable counting sort of the tail of a, largest digit first.
CountingSort(a, from, d, base) ==
    LET digit(i) == (count[a[i]] \div d) % base
        place(i) == from + Cardinality({k \in from .. N :
                        digit(k) > digit(i) \/ (digit(k) = digit(i) /\ k < i)})
    IN  [p \in Positions |-> IF p < from THEN a[p]
                             ELSE a[CHOOSE i \in from .. N : place(i) = p]]

Small(a, from, d) == {i \in from .. N : count[a[i]] \div d = 0}

\* The entries of the tail with no digit of weight d or above, in their order, then
\* the others.
stable_partition(a, from, d) ==
    LET small    == Small(a, from, d)
        place(i) == from + IF i \in small
                           THEN Cardinality({k \in small : k < i})
                           ELSE Cardinality(small)
                                + Cardinality({k \in (from .. N) \ small : k < i})
    IN  [p \in Positions |-> IF p < from THEN a[p]
                             ELSE a[CHOOSE i \in from .. N : place(i) = p]]

\* Mutant: the weight does not advance.
NextWeight_Stuck(e) == e

\* Mutant: the weight skips a byte.
NextWeight_Skips(e) == (e * BASE * BASE) % WIDTH

\* The weight of the next byte, in 32 bits.
NextWeight(e) == (e * BASE) % WIDTH

\* slpr_sort makes one round per digit of f_max in base N: there is one above
\* the digit of weight d.
MoreRounds(d) == f_max \div d >= N

-----------------------------------------------------------------------------

Init ==
    /\ count \in [Positions -> Counts]
    /\ f_max \in Counts \union {0}
    /\ pc \in {"radix", "slpr"}
    /\ arr = [i \in Positions |-> i]
    /\ exp = 1
    /\ div = 1
    /\ first_active = 1

radix_sort_pass ==
    /\ pc = "radix"
    /\ exp # 0
    /\ f_max \div exp > 0
    /\ arr' = CountingSort(arr, 1, exp, BASE)
    /\ exp' = NextWeight(exp)
    /\ UNCHANGED <<count, f_max, pc, div, first_active>>

\* The loop's test divides by exp: once that has wrapped to 0, the division
\* traps or, on a machine that does not trap, returns 0.
radix_sort_end ==
    /\ pc = "radix"
    /\ \/ exp = 0 /\ pc' \in {"crashed", "done"}
       \/ exp # 0 /\ f_max \div exp = 0 /\ pc' = "done"
    /\ UNCHANGED <<count, f_max, arr, exp, div, first_active>>

slpr_sort_first ==
    /\ pc = "slpr"
    /\ div = 1
    /\ arr' = IF f_max = 0 THEN arr ELSE CountingSort(arr, 1, 1, N)
    /\ div' = N
    /\ pc' = IF f_max = 0 \/ ~MoreRounds(1) THEN "done" ELSE pc
    /\ UNCHANGED <<count, f_max, exp, first_active>>

\* Rounds 2 to R - 1.
slpr_sort_round ==
    LET from == first_active + Cardinality(Small(arr, first_active, div))
    IN  /\ pc = "slpr"
        /\ div > 1
        /\ MoreRounds(div)
        /\ arr' = CountingSort(stable_partition(arr, first_active, div), from, div, N)
        /\ first_active' = from
        /\ div' = div * N
        /\ pc' = IF from > N THEN "done" ELSE pc
        /\ UNCHANGED <<count, f_max, exp>>

slpr_sort_last ==
    /\ pc = "slpr"
    /\ div > 1
    /\ ~MoreRounds(div)
    /\ arr' = CountingSort(arr, first_active, div, N)
    /\ pc' = "done"
    /\ UNCHANGED <<count, f_max, exp, div, first_active>>

Next == \/ radix_sort_pass \/ radix_sort_end
        \/ slpr_sort_first \/ slpr_sort_round \/ slpr_sort_last

Spec == Init /\ [][Next]_vars /\ WF_vars(Next)

-----------------------------------------------------------------------------
(* Properties.                                                             *)

\* No pass drops or doubles an entry.
IsRearranged == \A p \in Positions : \E i \in Positions : arr[i] = p

\* After each pass of radix_sort the entries are in descending order of what
\* the passes so far have looked at, and equal ones in their original order:
\* the next pass may rely on it.  This holds whatever f_max is.
PassesSort ==
    pc = "radix" /\ exp # 0 =>
        \A i, j \in Positions : i < j =>
            LET x == count[arr[i]] % exp
                y == count[arr[j]] % exp
            IN  x > y \/ (x = y /\ arr[i] < arr[j])

Descending == \A i, j \in Positions : i < j => count[arr[i]] >= count[arr[j]]

\* Given the true maximum, radix_sort ends in descending order, and slpr_sort
\* does when it needs at most two rounds (a maximum below the square of the
\* number of entries).
SortsDescending ==
    /\ pc = "done"
    /\ \A i \in Positions : count[i] <= f_max
    /\ div > 1 => f_max < N * N
    => Descending

\* What the comment in slpr_sort says of the entries that stable_partition puts
\* in front of the active region: they are in final position, so nothing behind
\* them is larger.  The other entries, which are larger, come after them.
FinishedInPlace ==
    \A i \in 1 .. first_active - 1, j \in Positions :
        i < j => count[arr[i]] >= count[arr[j]]

\* Both sorts end in "done", radix_sort as long as the weight above the top byte
\* of f_max is still representable; otherwise it may trap.
Ends == (f_max < WIDTH \div BASE) ~> (pc = "done")
=============================================================================
