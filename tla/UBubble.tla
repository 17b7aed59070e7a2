------------------------------ MODULE UBubble ------------------------------
(***************************************************************************)
(* The user-space Bubble Sketch (u-bubble), which libpcap-bubble's capture *)
(* feeds.  It is the sketch of BubbleSketch but for three things:          *)
(*    - a key is a C string: hash and copy stop at its first zero byte;    *)
(*    - the number of buckets follows from the memory allowed, and need    *)
(*      not divide the range of the hash;                                  *)
(*    - Bucket_Remove moves the later entries up and leaves the last one   *)
(*      as it was, so that it is in the bucket twice.                      *)
(* Its counters wrap instead of saturating; the bounds on the traffic of   *)
(* one behaviour keep them below COUNT_MAX.                                *)
(***************************************************************************)
EXTENDS Integers, Functions

CONSTANTS
    Flows,       \* the 5-tuples that traffic may carry
    CString,     \* the 13-byte key of each, up to its first zero byte
    NoFlow,      \* the empty string
    bucket_num,  \* _bucket_num
    Hash, HASH_SPACE, FP_UNIT, TAG_UNIT, MAX_ENTRY, COUNT_MAX, K,
    THRESHOLD_INIT   \* as in BubbleSketch, with BOBHash64 for the hash

Strings == {CString[f] : f \in Flows}

ASSUME UBubbleAssumption ==
    /\ HASH_SPACE \in Nat \ {0} /\ FP_UNIT \in Nat \ {0} /\ TAG_UNIT \in Nat \ {0}
    /\ Hash \in [Strings -> 0 .. HASH_SPACE - 1]
    /\ bucket_num \in Nat \ {0}
    /\ MAX_ENTRY \in Nat \ {0, 1, 2}
    /\ COUNT_MAX \in Nat \ {0} /\ K \in Nat \ {0} /\ THRESHOLD_INIT \in Nat

VARIABLES
    buckets, f_max, threshold1,  \* as in BubbleSketch
    arrived,   \* history: insertions per string
    copied     \* history: counts that Bucket_Remove doubled, per fingerprint

INSTANCE BubbleSketch WITH Flows <- Strings, MAX_BUCKETS <- bucket_num

ububble == <<buckets, f_max, threshold1, arrived, copied>>

TagOf(s) == Tag(Context(s).fp)
Tags     == {TagOf(s) : s \in Strings} \union {0}

Init_ububble ==
    /\ Init_sketch
    /\ arrived = [s \in Strings |-> 0]
    /\ copied = [t \in Tags |-> 0]

\* Mutant: the entry is cleared and nothing moves up.
Copying_Remove_InPlace(b, i) == [b EXCEPT ![i] = Entry_init]

\* Mutant: nothing moves.
Copying_Remove_Forgotten(b, i) == b

\* The last entry stays, beside its copy.
Copying_Remove(b, i) ==
    [k \in Slots |-> IF k \in i .. MAX_ENTRY - 2 THEN b[k + 1] ELSE b[k]]

\* As CountCold of BubbleSketch, with this Bucket_Remove.
CountColdCopying(c, a, i) ==
    LET b      == Bucket_BucketSort([Probe(c, a) EXCEPT ![i] = Entry_Insert(@)], i)
        target == KickTarget(c, a, b[1])
        next   == buckets[1 - a][target]
        last   == b[MAX_ENTRY - 1]
    IN  /\ IF Kicks(b[1], next)
           THEN /\ buckets' = [buckets EXCEPT
                        ![1 - a][target] = [Bucket_down_stairs(next, 0) EXCEPT ![0] = b[1]],
                        ![a][c.keys[a]]  = Copying_Remove(b, 1)]
                /\ copied' = [copied EXCEPT ![last.fingerprint] = @ + last.count]
           ELSE /\ buckets' = [buckets EXCEPT ![a][c.keys[a]] = b]
                /\ UNCHANGED copied
        /\ UNCHANGED <<f_max, threshold1>>

ColdHitCopying(c, a, i) ==
    /\ i > 0
    /\ FirstStop(c, a, i)
    /\ Bucket_Equal(Probe(c, a), i, c.fp)
    /\ CountColdCopying(c, a, i)

\* BubbleSketch_Insert(s).
InsertString(s) ==
    /\ LET c == Context(s)
       IN  \/ \E a \in Arrays : HotHit(c, a) /\ UNCHANGED copied
           \/ \E a \in Arrays, i \in Slots : Fill(c, a, i) /\ UNCHANGED copied
           \/ \E a \in Arrays, i \in Slots : ColdHitCopying(c, a, i)
           \/ Lossy(c) /\ UNCHANGED copied
    /\ arrived' = [arrived EXCEPT ![s] = @ + 1]

\* BubbleSketch_work: the heads of all buckets.  Sorting them is left out.
Heads == {buckets[a][j][0] : a \in Arrays, j \in Indices}

\* BubbleSketch_Query gives out what counts something.
Rows == {[str |-> e.id, val |-> e.count] : e \in {h \in Heads : h.count > 0}}

-----------------------------------------------------------------------------
(* Properties.                                                             *)

TypeOK_ububble ==
    /\ buckets \in [Arrays -> [Indices -> Bucket]]
    /\ f_max \in 0 .. COUNT_MAX
    /\ threshold1 \in Nat
    /\ arrived \in [Strings -> 0 .. COUNT_MAX]
    /\ copied \in [Tags -> Nat]

\* Buckets stay in descending order although removal leaves the last entry:
\* the copy is as large as its original and comes after it.
Sorted ==
    \A a \in Arrays, j \in Indices, i \in Slots \ {0} :
        buckets[a][j][i].count <= buckets[a][j][i - 1].count

Sent(t) == SumFunctionOnSet(arrived, {s \in Strings : TagOf(s) = t})

Places == Arrays \X Indices

\* The counters of a fingerprint add up to no more than its packets and what
\* Bucket_Remove doubled: nothing else invents a count.
TotalIsBacked ==
    \A t \in Tags :
        SumFunctionOnSet([p \in Places |-> Held(buckets[p[1]][p[2]], t)], Places)
            <= Sent(t) + copied[t]

\* The hashes within a fingerprint of 0 or of HASH_SPACE.
MaxTag == ((HASH_SPACE - 1) \div FP_UNIT) \div TAG_UNIT

AtTheWrap(s) == Hash[s] < MaxTag \/ Hash[s] + MaxTag >= HASH_SPACE

\* Kickout derives the other bucket of an entry from the hash of the packet
\* that hit the bucket.  It is the right one as long as no hash close to the
\* ends of its range has come: there the sum wraps, and bucket_num need not
\* divide HASH_SPACE.
HomeButForTheWrap ==
    (\A s \in Strings : AtTheWrap(s) => arrived[s] = 0) =>
        \A a \in Arrays, j \in Indices, i \in Slots :
            LET e == buckets[a][j][i] IN
            e.id \in Strings \ {NoFlow} =>
                /\ j = Context(e.id).keys[a]
                /\ e.l0fp = Context(e.id).fp
=============================================================================
