---------------------------- MODULE BubbleSketch ----------------------------
(***************************************************************************)
(* The Bubble Sketch as the kernel programs keep it in the BPF array map   *)
(* sketch_map: two arrays of buckets, each bucket a short list of counters *)
(* whose slot 0 is "hot" (matched on the 32-bit fp) and whose other slots  *)
(* are "cold" (matched on the 8-bit fingerprint, the top byte of fp).      *)
(*                                                                         *)
(* The operators below are the Entry_ and Bucket_ functions, which         *)
(* s-bubble, t-bubble and m-bubble share word for word; the actions are    *)
(* the branches of BubbleSketch_Insert, run atomically.  Modules that      *)
(* EXTEND this one say who calls Insert and what else moves with it.       *)
(*                                                                         *)
(* Operators marked "Mutant" are wrong on purpose: no specification uses   *)
(* them.  Put in the place of the operator they precede, they break the    *)
(* properties PROJECT.json pairs them with.                                *)
(***************************************************************************)
EXTENDS Integers, Functions

CONSTANTS
    Flows,        \* the 5-tuple keys that traffic may carry
    NoFlow,       \* the all-zero id of an entry no key was written to
    Hash,         \* fasthash64 of each key
    HASH_SPACE,   \* 2^64: hash values are unsigned and wrap here
    FP_UNIT,      \* 2^32: fp is hash >> 32
    TAG_UNIT,     \* 2^24: the fingerprint is fp >> 24
    MAX_BUCKETS,  \* buckets per array (8192, 4096 or 2048)
    MAX_ENTRY,    \* entries per bucket (5)
    COUNT_MAX,    \* 0xFFFFFFFF: counters saturate here
    K,            \* divisor of the promotion threshold (1000)
    THRESHOLD_INIT \* the threshold1 the loader writes (10)

VARIABLES
    buckets,      \* buckets[a][j][i]: entry i of bucket j of array a
    f_max,        \* largest count a hot hit has produced
    threshold1    \* a cold count must exceed it to be promoted

sketch == <<buckets, f_max, threshold1>>

Slots   == 0 .. MAX_ENTRY - 1
Arrays  == 0 .. 1
Indices == 0 .. MAX_BUCKETS - 1

ASSUME HashAssumption  == /\ HASH_SPACE \in Nat \ {0}
                          /\ FP_UNIT \in Nat \ {0}
                          /\ TAG_UNIT \in Nat \ {0}
                          /\ Hash \in [Flows -> 0 .. HASH_SPACE - 1]
ASSUME SizeAssumption  == /\ MAX_BUCKETS \in Nat \ {0}
                          /\ MAX_ENTRY \in Nat \ {0, 1}
\* K = 1000 keeps 3 * COUNT_MAX / (2 * K) within the signed threshold1.
ASSUME CountAssumption == /\ COUNT_MAX \in Nat \ {0}
                          /\ K \in Nat
                          /\ THRESHOLD_INIT \in Nat

-----------------------------------------------------------------------------
(* What Insert derives from the key of a packet.                           *)

Tag(fp) == fp \div TAG_UNIT

\* The locals of BubbleSketch_Insert: fp, hash_value and keys.
Context(f) ==
    LET fp         == Hash[f] \div FP_UNIT
        hash_value == [a \in Arrays |-> (Hash[f] + a * Tag(fp)) % HASH_SPACE]
    IN  [key        |-> f,
         fp         |-> fp,
         hash_value |-> hash_value,
         keys       |-> [a \in Arrays |-> hash_value[a] % MAX_BUCKETS]]

-----------------------------------------------------------------------------
(* Entries and buckets.                                                    *)

Entry == [id : Flows \union {NoFlow}, fingerprint : Nat, l0fp : Nat,
          count : 0 .. COUNT_MAX]

Bucket == [Slots -> Entry]

Entry_init == [id |-> NoFlow, fingerprint |-> 0, l0fp |-> 0, count |-> 0]

\* Mutant: the counter runs past 32 bits.
Entry_Insert_Unbounded(e) == [e EXCEPT !.count = @ + 1]

Entry_Insert(e) == [e EXCEPT !.count = IF @ < COUNT_MAX THEN @ + 1 ELSE @]

\* Mutant: a new entry is counted once when set and once more as a hit.
Entry_Insert_with_Twice(c) ==
    [id |-> c.key, fingerprint |-> Tag(c.fp), l0fp |-> c.fp, count |-> 2]

Entry_Insert_with(c) ==
    [id |-> c.key, fingerprint |-> Tag(c.fp), l0fp |-> c.fp, count |-> 1]

\* Mutant: a last entry never gives way.
Entry_Lossy_Never(e) == e

\* A counter that falls to 0 keeps its id, fingerprint and l0fp.
Entry_Lossy(e) == [e EXCEPT !.count = IF @ > 0 THEN @ - 1 ELSE @]

Bucket_Empty(b, i) == b[i].count = 0

\* Mutant: only the lowest bit of the fingerprint is compared.
Bucket_Equal_Truncated(b, i, fp) ==
    IF i = 0 THEN b[0].l0fp = fp ELSE b[i].fingerprint % 2 = Tag(fp) % 2

\* Emptiness is not looked at: an empty entry may match.
Bucket_Equal(b, i, fp) ==
    IF i = 0 THEN b[0].l0fp = fp ELSE b[i].fingerprint = Tag(fp)

\* Mutant: one comparison instead of the loop.
Bucket_BucketSort_OneStep(b, i) ==
    IF i > 0 /\ b[i].count > b[i - 1].count
    THEN [b EXCEPT ![i] = b[i - 1], ![i - 1] = b[i]] ELSE b

\* Mutant: slot 0 is out of reach.
Bucket_BucketSort_ColdOnly(b, i) ==
    LET Passes(q) == q > 0 /\ \A r \in q .. i - 1 : b[r].count < b[i].count
    IN  [k \in Slots |->
            IF k > i \/ ~Passes(k) THEN b[k]
            ELSE IF k = 0 \/ ~Passes(k - 1) THEN b[i]
            ELSE b[k - 1]]

\* Entry i bubbles up past every entry with a strictly smaller count.
Bucket_BucketSort(b, i) ==
    LET Passes(q) == \A r \in q .. i - 1 : b[r].count < b[i].count
    IN  [k \in Slots |->
            IF k > i \/ ~Passes(k) THEN b[k]
            ELSE IF k = 0 \/ ~Passes(k - 1) THEN b[i]
            ELSE b[k - 1]]

\* Mutant: the promoted entry also stays where it was.
Bucket_Remove_Forgotten(b, i) == b

Bucket_Remove(b, i) ==
    [k \in Slots |-> IF k = MAX_ENTRY - 1 THEN Entry_init
                     ELSE IF k >= i THEN b[k + 1] ELSE b[k]]

\* Mutant: the entry at index itself is not moved down.
Bucket_down_stairs_Late(b, i) ==
    [k \in Slots |-> IF k > i + 1 THEN b[k - 1] ELSE b[k]]

\* Entries from index on move one slot down; the last one is overwritten.
Bucket_down_stairs(b, i) ==
    [k \in Slots |-> IF k > i THEN b[k - 1] ELSE b[k]]

-----------------------------------------------------------------------------
(* Where a packet stops.  Insert probes slot 0 of array 0, slot 0 of array *)
(* 1, slot 1 of array 0, ... and stops at the first entry that matches the *)
(* packet or is empty.                                                     *)

Probe(c, a) == buckets[a][c.keys[a]]

Stops(c, a, i) == \/ Bucket_Equal(Probe(c, a), i, c.fp)
                  \/ Bucket_Empty(Probe(c, a), i)

FirstStop(c, a, i) ==
    /\ Stops(c, a, i)
    /\ \A k \in 0 .. i, x \in Arrays :
            (k < i \/ x < a) => ~Stops(c, x, k)

calculate_threshold(f) == IF K = 0 THEN f ELSE (3 * f) \div (2 * K)

-----------------------------------------------------------------------------
(* The branches of BubbleSketch_Insert.                                    *)

Init_sketch ==
    /\ buckets = [a \in Arrays |-> [j \in Indices |-> [i \in Slots |-> Entry_init]]]
    /\ f_max = 0
    /\ threshold1 = THRESHOLD_INIT

\* The hot entry counts, and raises f_max and the threshold with it.
CountHot(c, a) ==
    LET b   == [Probe(c, a) EXCEPT ![0] = Entry_Insert(@)]
        new == calculate_threshold(b[0].count)
    IN  /\ buckets' = [buckets EXCEPT ![a][c.keys[a]] = b]
        /\ IF b[0].count > f_max
           THEN /\ f_max' = b[0].count
                /\ threshold1' = IF new > threshold1 THEN new ELSE threshold1
           ELSE UNCHANGED <<f_max, threshold1>>

HotHit(c, a) ==
    /\ FirstStop(c, a, 0)
    /\ Bucket_Equal(Probe(c, a), 0, c.fp)
    /\ CountHot(c, a)

\* The packet's key takes the entry with count 1.
Take(c, a, i) ==
    /\ buckets' = [buckets EXCEPT ![a][c.keys[a]][i] = Entry_Insert_with(c)]
    /\ UNCHANGED <<f_max, threshold1>>

\* An empty entry comes first.
Fill(c, a, i) ==
    /\ FirstStop(c, a, i)
    /\ ~Bucket_Equal(Probe(c, a), i, c.fp)
    /\ Take(c, a, i)

\* Mutant: the fingerprint is added from either array.
KickTarget_AlwaysUp(c, a, e) ==
    ((c.hash_value[a] + e.fingerprint) % HASH_SPACE) % MAX_BUCKETS

\* Mutant: the whole fp is added, not its top byte.
KickTarget_FullFp(c, a, e) ==
    ((c.hash_value[a] + (IF a = 0 THEN e.l0fp ELSE -e.l0fp)) % HASH_SPACE) % MAX_BUCKETS

\* The bucket of the other array that shares entry e with this one.
KickTarget(c, a, e) ==
    ((c.hash_value[a] + (IF a = 0 THEN e.fingerprint ELSE -e.fingerprint))
        % HASH_SPACE) % MAX_BUCKETS

\* Mutant: the entry it would displace is not looked at.
Kicks_Blindly(e, next) == e.count > threshold1

\* Entry e leaves for the head of bucket next.
Kicks(e, next) == e.count > threshold1 /\ e.count > next[0].count

\* The cold entry counts and bubbles up; when slot 1 is then above the
\* threshold and above the hot entry of its other bucket, it moves to the
\* head of that bucket.
CountCold(c, a, i) ==
    LET b      == Bucket_BucketSort([Probe(c, a) EXCEPT ![i] = Entry_Insert(@)], i)
        target == KickTarget(c, a, b[1])
        next   == buckets[1 - a][target]
    IN  /\ IF Kicks(b[1], next)
           THEN buckets' = [buckets EXCEPT
                    ![1 - a][target] = [Bucket_down_stairs(next, 0) EXCEPT ![0] = b[1]],
                    ![a][c.keys[a]]  = Bucket_Remove(b, 1)]
           ELSE buckets' = [buckets EXCEPT ![a][c.keys[a]] = b]
        /\ UNCHANGED <<f_max, threshold1>>

ColdHit(c, a, i) ==
    /\ i > 0
    /\ FirstStop(c, a, i)
    /\ Bucket_Equal(Probe(c, a), i, c.fp)
    /\ CountCold(c, a, i)

\* The array whose last entry is the smaller one; array 1 on a tie.
LossyArray(c) ==
    LET last == MAX_ENTRY - 1
    IN  IF Probe(c, 0)[last].count < Probe(c, 1)[last].count THEN 0 ELSE 1

\* Mutant: the head of the bucket decays.
Decay_Head(c) ==
    /\ buckets' = [buckets EXCEPT
            ![LossyArray(c)][c.keys[LossyArray(c)]][0] = Entry_Lossy(@)]
    /\ UNCHANGED <<f_max, threshold1>>

\* The smaller of the two last entries decays.
Decay(c) ==
    /\ buckets' = [buckets EXCEPT
            ![LossyArray(c)][c.keys[LossyArray(c)]][MAX_ENTRY - 1] = Entry_Lossy(@)]
    /\ UNCHANGED <<f_max, threshold1>>

\* Nothing stops the packet.
Lossy(c) ==
    /\ \A x \in Arrays, i \in Slots : ~Stops(c, x, i)
    /\ Decay(c)

BubbleSketch_Insert(c) ==
    \/ \E a \in Arrays : HotHit(c, a)
    \/ \E a \in Arrays, i \in Slots : Fill(c, a, i)
    \/ \E a \in Arrays, i \in Slots : ColdHit(c, a, i)
    \/ Lossy(c)

-----------------------------------------------------------------------------
(* What properties say of a bucket.                                        *)

\* What bucket b holds for fingerprint t, all its slots together.
Part(e, t) == IF e.fingerprint = t THEN e.count ELSE 0
Held(b, t) == SumFunctionOnSet([i \in Slots |-> Part(b[i], t)], Slots)
=============================================================================
