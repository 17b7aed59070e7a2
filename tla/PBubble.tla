------------------------------ MODULE PBubble ------------------------------
(***************************************************************************)
(* The p-bubble XDP program on one CPU: the Bubble Sketch with a packet    *)
(* clock.  Each entry remembers the packet that last counted in it; every  *)
(* RECLAIM_PERIOD-th packet wipes the stale, small cold entries of its two *)
(* buckets; later packets are admitted by their hash; decay depends on how *)
(* far a counter is from the threshold; kickout compares in 32 bits.       *)
(*                                                                         *)
(* BubbleSketch gives the shape of keys, buckets and thresholds; what      *)
(* p-bubble does differently is defined anew, with the bucket store as the *)
(* argument sk, because a packet may wipe entries before it probes.        *)
(***************************************************************************)
EXTENDS BubbleSketch, FiniteSets

CONSTANTS
    MaxPackets,             \* bound on the traffic of one behaviour
    CLOCK_SPACE,            \* 2^32: the packet clock is unsigned and wraps here
    STALE_PACKETS,          \* STALE_ENTRY_PACKET_THRESHOLD (50000)
    RECLAIM_COUNT_FACTOR,   \* 10
    RECLAIM_PERIOD,         \* 0x3FFF + 1
    LOSSY_HIGH, LOSSY_LOW,  \* percent of the threshold (70, 30)
    LOW_DIV, MEDIUM_DIV,    \* a decay takes count / 4, count / 8
    KICKOUT_MULTIPLIER,     \* 100, both numerator and denominator
    ADMISSION_START,        \* packets before admission control (500000)
    ADMISSION_FULL,         \* packets before its second stage (5000000)
    ADMISSION_RANGE,        \* ADMISSION_HASH_MASK + 1
    ADMIT_START, ADMIT_FULL \* 99.5% and 98% of ADMISSION_RANGE

ASSUME PBubbleAssumption ==
    /\ {MaxPackets, STALE_PACKETS, LOSSY_HIGH, LOSSY_LOW, ADMISSION_START,
        ADMISSION_FULL, ADMIT_START} \subseteq Nat
    /\ {CLOCK_SPACE, RECLAIM_COUNT_FACTOR, RECLAIM_PERIOD, LOW_DIV, MEDIUM_DIV,
        KICKOUT_MULTIPLIER, ADMISSION_RANGE} \subseteq Nat \ {0}
    /\ ADMIT_FULL \in 0 .. ADMIT_START
\* MAX_BUCKETS is a power of two, so wrapping at 2^64 keeps residues.
ASSUME WrapAssumption == HASH_SPACE % MAX_BUCKETS = 0

VARIABLES
    total_entries,      \* "tracks total active entries"
    global_pkt_count,   \* the packet clock, not admitted packets included
    insert_counter,     \* the per-CPU map counter
    eviction_map,       \* the per-CPU eviction counter
    arrived             \* history: admitted packets, per class

vars == <<buckets, f_max, threshold1, total_entries, global_pkt_count,
          insert_counter, eviction_map, arrived>>

Class(f) == <<Tag(Context(f).fp), Context(f).keys[0]>>
Classes  == {Class(f) : f \in Flows}

-----------------------------------------------------------------------------
(* Entries with a clock.                                                   *)

ClockedEntry == [id : Flows \union {NoFlow}, fingerprint : Nat, l0fp : Nat,
                 count : 0 .. COUNT_MAX, last_update_pkt : Nat]

Clocked_init == [id |-> NoFlow, fingerprint |-> 0, l0fp |-> 0, count |-> 0,
                 last_update_pkt |-> 0]

Clocked_Insert(e, pkt) == [Entry_Insert(e) EXCEPT !.last_update_pkt = pkt]

Clocked_Insert_with(c, pkt) ==
    [id |-> c.key, fingerprint |-> Tag(c.fp), l0fp |-> c.fp, count |-> 1,
     last_update_pkt |-> pkt]

Quotient(n, d) == IF n \div d = 0 THEN 1 ELSE n \div d
Minus(n, d)    == IF n > d THEN n - d ELSE 0

Entry_Adaptive_Lossy(e) ==
    LET high == threshold1 > 0 /\ e.count > (threshold1 * LOSSY_HIGH) \div 100
        low  == threshold1 > 0 /\ e.count < (threshold1 * LOSSY_LOW) \div 100
    IN  [e EXCEPT !.count =
            IF @ = 0 THEN 0
            ELSE IF high THEN @ - 1
            ELSE Minus(@, Quotient(@, IF low THEN LOW_DIV ELSE MEDIUM_DIV))]

\* Mutant: the size of the counter is not looked at.
Entry_IsStale_AnyCount(e, pkt) ==
    /\ e.count > 0
    /\ pkt > (e.last_update_pkt + STALE_PACKETS) % CLOCK_SPACE

Entry_IsStale(e, pkt) ==
    /\ e.count > 0
    /\ pkt > (e.last_update_pkt + STALE_PACKETS) % CLOCK_SPACE
    /\ threshold1 > 0
    /\ e.count < threshold1 \div RECLAIM_COUNT_FACTOR

\* Mutant: the hot entry is wiped as well.
Bucket_ReclaimStale_Hot(b, pkt) ==
    [i \in Slots |-> IF Entry_IsStale(b[i], pkt) THEN Clocked_init ELSE b[i]]

\* Holes stay where the entries were.
Bucket_ReclaimStale(b, pkt) ==
    [i \in Slots |-> IF i > 0 /\ Entry_IsStale(b[i], pkt) THEN Clocked_init ELSE b[i]]

Clocked_Remove(b, i) ==
    [k \in Slots |-> IF k = MAX_ENTRY - 1 THEN Clocked_init
                     ELSE IF k >= i THEN b[k + 1] ELSE b[k]]

-----------------------------------------------------------------------------
(* The insertion.                                                          *)

should_admit_flow(f, pkt) ==
    LET hash_val == Hash[f] % ADMISSION_RANGE
    IN  \/ pkt < ADMISSION_START
        \/ pkt < ADMISSION_FULL /\ hash_val < ADMIT_START
        \/ hash_val < ADMIT_FULL

\* The buckets as packet pkt finds them, after it has reclaimed its own two.
Swept(c, pkt) ==
    [a \in Arrays |-> [j \in Indices |->
        IF pkt % RECLAIM_PERIOD = 0 /\ j = c.keys[a]
        THEN Bucket_ReclaimStale(buckets[a][j], pkt) ELSE buckets[a][j]]]

Home(sk, c, a) == sk[a][c.keys[a]]

Match(sk, c, a, i) == Bucket_Equal(Home(sk, c, a), i, c.fp)

StopsIn(sk, c, a, i) == Match(sk, c, a, i) \/ Bucket_Empty(Home(sk, c, a), i)

FirstStopIn(sk, c, a, i) ==
    /\ StopsIn(sk, c, a, i)
    /\ \A k \in 0 .. i, x \in Arrays : (k < i \/ x < a) => ~StopsIn(sk, c, x, k)

HotHitIn(sk, c, pkt, a) ==
    LET b   == [Home(sk, c, a) EXCEPT ![0] = Clocked_Insert(@, pkt)]
        new == calculate_threshold(b[0].count)
    IN  /\ FirstStopIn(sk, c, a, 0)
        /\ Match(sk, c, a, 0)
        /\ buckets' = [sk EXCEPT ![a][c.keys[a]] = b]
        /\ IF b[0].count > f_max
           THEN /\ f_max' = b[0].count
                /\ threshold1' = IF new > threshold1 THEN new ELSE threshold1
           ELSE UNCHANGED <<f_max, threshold1>>
        /\ UNCHANGED <<total_entries, eviction_map>>

FillIn(sk, c, pkt, a, i) ==
    /\ FirstStopIn(sk, c, a, i)
    /\ ~Match(sk, c, a, i)
    /\ buckets' = [sk EXCEPT ![a][c.keys[a]][i] = Clocked_Insert_with(c, pkt)]
    /\ total_entries' = (total_entries + 1) % (COUNT_MAX + 1)
    /\ UNCHANGED <<f_max, threshold1, eviction_map>>

\* The multiplication is in __u32 and wraps there.
threshold_count(hot_count) ==
    ((hot_count * KICKOUT_MULTIPLIER) % (COUNT_MAX + 1)) \div KICKOUT_MULTIPLIER

Displaces(e, hot) == /\ e.count > threshold1
                     /\ e.count > threshold_count(hot.count)

ColdHitIn(sk, c, pkt, a, i) ==
    LET b      == Bucket_BucketSort([Home(sk, c, a) EXCEPT ![i] = Clocked_Insert(@, pkt)], i)
        target == KickTarget(c, a, b[1])
        next   == sk[1 - a][target]
    IN  /\ i > 0
        /\ FirstStopIn(sk, c, a, i)
        /\ Match(sk, c, a, i)
        /\ IF Displaces(b[1], next[0])
           THEN buckets' = [sk EXCEPT
                    ![1 - a][target] = [Bucket_down_stairs(next, 0) EXCEPT ![0] = b[1]],
                    ![a][c.keys[a]]  = Clocked_Remove(b, 1)]
           ELSE buckets' = [sk EXCEPT ![a][c.keys[a]] = b]
        /\ UNCHANGED <<f_max, threshold1, total_entries, eviction_map>>

LossyIn(sk, c) ==
    LET last == MAX_ENTRY - 1
        a    == IF Home(sk, c, 0)[last].count < Home(sk, c, 1)[last].count THEN 0 ELSE 1
        e    == Entry_Adaptive_Lossy(Home(sk, c, a)[last])
        gone == IF e.count = 0 THEN 1 ELSE 0
    IN  /\ \A x \in Arrays, i \in Slots : ~StopsIn(sk, c, x, i)
        /\ buckets' = [sk EXCEPT ![a][c.keys[a]][last] = e]
        /\ total_entries' = (total_entries - gone) % (COUNT_MAX + 1)
        /\ eviction_map' = eviction_map + gone
        /\ UNCHANGED <<f_max, threshold1>>

Clocked_Insertion(c, pkt) ==
    LET sk == Swept(c, pkt)
    IN  \/ \E a \in Arrays : HotHitIn(sk, c, pkt, a)
        \/ \E a \in Arrays, i \in Slots : FillIn(sk, c, pkt, a, i)
        \/ \E a \in Arrays, i \in Slots : ColdHitIn(sk, c, pkt, a, i)
        \/ LossyIn(sk, c)

-----------------------------------------------------------------------------
(* The program.                                                            *)

Init ==
    /\ buckets = [a \in Arrays |-> [j \in Indices |-> [i \in Slots |-> Clocked_init]]]
    /\ f_max = 0
    /\ threshold1 = THRESHOLD_INIT
    /\ total_entries = 0
    /\ global_pkt_count = 0
    /\ insert_counter = 0
    /\ eviction_map = 0
    /\ arrived = [c \in Classes |-> 0]

current_pkt == (global_pkt_count + 1) % CLOCK_SPACE

Clock == /\ insert_counter < MaxPackets
         /\ global_pkt_count' = current_pkt
         /\ insert_counter' = insert_counter + 1

Admitted(f) ==
    /\ Clock
    /\ should_admit_flow(f, current_pkt)
    /\ Clocked_Insertion(Context(f), current_pkt)
    /\ arrived' = [arrived EXCEPT ![Class(f)] = @ + 1]

Refused(f) ==
    /\ Clock
    /\ ~should_admit_flow(f, current_pkt)
    /\ UNCHANGED <<sketch, total_entries, eviction_map, arrived>>

Next == \E f \in Flows : Admitted(f) \/ Refused(f)

Spec == Init /\ [][Next]_vars

-----------------------------------------------------------------------------
(* Properties.                                                             *)

TypeOK ==
    /\ buckets \in [Arrays -> [Indices -> [Slots -> ClockedEntry]]]
    /\ f_max \in 0 .. COUNT_MAX
    /\ {threshold1, global_pkt_count, insert_counter, eviction_map} \subseteq Nat
    /\ total_entries \in 0 .. COUNT_MAX
    /\ arrived \in [Classes -> Nat]

\* From this count on the product in kickout's comparison does not fit in 32
\* bits: 42949673 in the code.
Wraps(count) == count > COUNT_MAX \div KICKOUT_MULTIPLIER

\* Holes left by reclaim and entries that fill them break the order of the
\* cold entries, but none exceeds the hot entry of its bucket, as long as no
\* class of flows has sent so many packets that a comparison may wrap.
HeadIsLargest ==
    (\A c \in Classes : ~Wraps(arrived[c])) =>
        \A a \in Arrays, j \in Indices, i \in Slots :
            buckets[a][j][i].count <= buckets[a][j][0].count

\* Wiping, decay in strides and promotion never invent a count.
NoOvercount ==
    \A a \in Arrays, j \in Indices, i \in Slots :
        LET e == buckets[a][j][i] IN
        e.count > 0 =>
            \E f \in Flows : /\ e.fingerprint = Tag(Context(f).fp)
                             /\ j = Context(f).keys[a]
                             /\ e.count <= arrived[Class(f)]

\* The hot count of a bucket never falls: reclaim and decay spare slot 0, and
\* a kickout replaces it by a larger counter.  The exception is a hot count
\* whose product with KICKOUT_MULTIPLIER wraps in 32 bits, from 42949673 on.
HotNeverFalls ==
    [][\A a \in Arrays, j \in Indices :
        LET hot == buckets[a][j][0].count IN
        buckets'[a][j][0].count >= hot \/ Wraps(hot)]_vars

\* A cold counter that was hit within STALE_PACKETS packets, or that is not
\* small against the threshold, is lost only from the tail of its bucket: by
\* decay, or because the bucket moves down for an entry that is promoted.  The
\* wrap of the clock endangers no other entry than those hit in the
\* STALE_PACKETS packets before it.
Kept(e) == \E x \in Arrays, y \in Indices, k \in Slots :
                LET d == buckets'[x][y][k] IN
                /\ <<d.id, d.l0fp, d.fingerprint>> = <<e.id, e.l0fp, e.fingerprint>>
                /\ d.count >= e.count
                /\ d.last_update_pkt \in {e.last_update_pkt, global_pkt_count'}

FreshIsKept ==
    [][\A a \in Arrays, j \in Indices, i \in Slots :
        LET e == buckets[a][j][i] IN
        /\ e.count > 0
        /\ \/ e.last_update_pkt + STALE_PACKETS \in global_pkt_count' .. CLOCK_SPACE - 1
           \/ e.count * RECLAIM_COUNT_FACTOR >= threshold1
        => \/ Kept(e)
           \/ /\ i = MAX_ENTRY - 1
              /\ \/ eviction_map' > eviction_map
                 \/ buckets'[a][j][i].count \in 1 .. e.count - 1
                 \/ buckets'[a][j][1] = buckets[a][j][0]]_vars

InUse == {p \in Arrays \X Indices \X Slots : buckets[p[1]][p[2]][p[3]].count > 0}

\* total_entries "tracks total active entries".  No entry in use goes
\* uncounted: whatever brings one into use, a hit on an entry that decay has
\* emptied included, counts it.
NoneUncounted == Cardinality(InUse) <= total_entries
=============================================================================
