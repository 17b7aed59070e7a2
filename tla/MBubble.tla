------------------------------ MODULE MBubble ------------------------------
(***************************************************************************)
(* The m-bubble XDP program: SHARD_COUNT sketches, each in a map of its    *)
(* own.  The top bits of a packet's hash choose the sketch, the same hash  *)
(* then places the packet in it.  The program counts packets and the       *)
(* entries that decay empties.                                             *)
(*                                                                         *)
(* A sketch is a record here and an insertion a function of it, so that    *)
(* one packet changes one shard.  The Entry_ and Bucket_ functions are     *)
(* those of BubbleSketch, instantiated per sketch: m-bubble has the same.  *)
(***************************************************************************)
EXTENDS Integers

CONSTANTS Flows, NoFlow, Hash, HASH_SPACE, FP_UNIT, TAG_UNIT, MAX_BUCKETS,
          MAX_ENTRY, COUNT_MAX, K, THRESHOLD_INIT   \* as in BubbleSketch

CONSTANTS
    SHARD_COUNT,  \* 4
    SHARD_UNIT    \* 2^62: the shard is hash >> 62

ASSUME SketchAssumption ==
    /\ {HASH_SPACE, FP_UNIT, TAG_UNIT, MAX_BUCKETS, COUNT_MAX} \subseteq Nat \ {0}
    /\ Hash \in [Flows -> 0 .. HASH_SPACE - 1]
    /\ MAX_ENTRY \in Nat \ {0, 1}
    /\ {K, THRESHOLD_INIT} \subseteq Nat
ASSUME FlowAssumption == NoFlow \notin Flows
ASSUME WrapAssumption == HASH_SPACE % MAX_BUCKETS = 0
\* The shards divide the hashes among them, and the bits that choose one are
\* among those of the fingerprint.
ASSUME ShardAssumption == /\ SHARD_COUNT \in Nat \ {0}
                          /\ SHARD_UNIT \in Nat \ {0}
                          /\ SHARD_COUNT * SHARD_UNIT = HASH_SPACE
                          /\ SHARD_UNIT % (FP_UNIT * TAG_UNIT) = 0

Shards == 0 .. SHARD_COUNT - 1

Sk(sk) == INSTANCE BubbleSketch WITH
    buckets <- sk.buckets, f_max <- sk.f_max, threshold1 <- sk.threshold1

get_shard_id(f) == (Hash[f] \div SHARD_UNIT) % SHARD_COUNT

-----------------------------------------------------------------------------
(* One insertion into the sketch sk, as a function.                        *)

\* Mutant: the counter does not saturate, and the threshold may fall.
CountedHot_Lowered(sk, c, a) ==
    LET hot == [Sk(sk)!Probe(c, a)[0] EXCEPT !.count = @ + 1]
    IN  [sk EXCEPT !.buckets[a][c.keys[a]][0] = hot,
                   !.threshold1 = Sk(sk)!calculate_threshold(hot.count)]

CountedHot(sk, c, a) ==
    LET hot == Sk(sk)!Entry_Insert(Sk(sk)!Probe(c, a)[0])
        new == Sk(sk)!calculate_threshold(hot.count)
        raised == hot.count > sk.f_max
    IN  [sk EXCEPT !.buckets[a][c.keys[a]][0] = hot,
                   !.f_max = IF raised THEN hot.count ELSE @,
                   !.threshold1 = IF raised /\ new > @ THEN new ELSE @]

Taken(sk, c, a, i) ==
    [sk EXCEPT !.buckets[a][c.keys[a]][i] = Sk(sk)!Entry_Insert_with(c)]

\* Mutant: the entry is removed before it is moved, and its successor goes.
CountedCold_RemovedFirst(sk, c, a, i) ==
    LET b      == Sk(sk)!Bucket_BucketSort(
                    [Sk(sk)!Probe(c, a) EXCEPT ![i] = Sk(sk)!Entry_Insert(@)], i)
        target == Sk(sk)!KickTarget(c, a, b[1])
        next   == sk.buckets[1 - a][target]
        rest   == Sk(sk)!Bucket_Remove(b, 1)
    IN  IF Sk(sk)!Kicks(b[1], next)
        THEN [sk EXCEPT
                !.buckets[1 - a][target] = [Sk(sk)!Bucket_down_stairs(next, 0)
                                              EXCEPT ![0] = rest[1]],
                !.buckets[a][c.keys[a]]  = rest]
        ELSE [sk EXCEPT !.buckets[a][c.keys[a]] = b]

\* The head of the other bucket makes room for the promoted entry.
CountedCold(sk, c, a, i) ==
    LET b      == Sk(sk)!Bucket_BucketSort(
                    [Sk(sk)!Probe(c, a) EXCEPT ![i] = Sk(sk)!Entry_Insert(@)], i)
        target == Sk(sk)!KickTarget(c, a, b[1])
        next   == sk.buckets[1 - a][target]
    IN  IF Sk(sk)!Kicks(b[1], next)
        THEN [sk EXCEPT
                !.buckets[1 - a][target] = [Sk(sk)!Bucket_down_stairs(next, 0)
                                              EXCEPT ![0] = b[1]],
                !.buckets[a][c.keys[a]]  = Sk(sk)!Bucket_Remove(b, 1)]
        ELSE [sk EXCEPT !.buckets[a][c.keys[a]] = b]

Decayed(sk, c) ==
    LET a == Sk(sk)!LossyArray(c)
    IN  [sk EXCEPT !.buckets[a][c.keys[a]][MAX_ENTRY - 1] = Sk(sk)!Entry_Lossy(@)]

\* The first probed entries that match the packet or are empty: at most one.
StoppedAt(sk, c) ==
    {p \in Sk(sk)!Arrays \X Sk(sk)!Slots : Sk(sk)!FirstStop(c, p[1], p[2])}

Inserted(sk, f) ==
    LET c == Sk(sk)!Context(f)
    IN  IF StoppedAt(sk, c) = {} THEN Decayed(sk, c)
        ELSE LET at == CHOOSE p \in StoppedAt(sk, c) : TRUE
                 a  == at[1]
                 i  == at[2]
             IN  IF ~Sk(sk)!Bucket_Equal(Sk(sk)!Probe(c, a), i, c.fp) THEN Taken(sk, c, a, i)
                 ELSE IF i = 0 THEN CountedHot(sk, c, a)
                 ELSE CountedCold(sk, c, a, i)

\* Mutant: only bucket 0 is looked at.
Evicts_Bucket0(sk, f) ==
    LET c == Sk(sk)!Context(f)
    IN  /\ StoppedAt(sk, c) = {}
        /\ Sk(Decayed(sk, c))!Probe(c, 0)[MAX_ENTRY - 1].count = 0

\* The insertion ended in a decay that leaves a last entry at 0.
Evicts(sk, f) ==
    LET c == Sk(sk)!Context(f)
    IN  /\ StoppedAt(sk, c) = {}
        /\ \E a \in Sk(sk)!Arrays :
                Sk(Decayed(sk, c))!Probe(c, a)[MAX_ENTRY - 1].count = 0

-----------------------------------------------------------------------------
(* The maps, and what one packet does to them.                             *)

VARIABLES
    sketch_shard,     \* the sketch in each map
    insert_counter,   \* per-CPU map, one CPU
    eviction_map,     \* per-CPU map, one CPU (s-bubble has none)
    arrived           \* history: packets per shard and class

maps == <<sketch_shard, insert_counter, eviction_map, arrived>>

\* A map as the kernel creates it.
Zeroed == [buckets |-> [a \in 0 .. 1 |-> [j \in 0 .. MAX_BUCKETS - 1 |->
                            [i \in 0 .. MAX_ENTRY - 1 |->
                                [id |-> NoFlow, fingerprint |-> 0, l0fp |-> 0, count |-> 0]]]],
           f_max |-> 0, threshold1 |-> 0]

Class(f) == <<Sk(Zeroed)!Tag(Hash[f] \div FP_UNIT), Hash[f] % MAX_BUCKETS>>
Classes  == {Class(f) : f \in Flows}

Init_maps ==
    /\ sketch_shard = [s \in Shards |-> Zeroed]
    /\ insert_counter = 0
    /\ eviction_map = 0
    /\ arrived = [s \in Shards |-> [c \in Classes |-> 0]]

\* xdp_collect_5tuple stores the packet in its shard, counts an eviction, if
\* any, and then the packet.
Insert(s, f) ==
    /\ sketch_shard' = [sketch_shard EXCEPT ![s] = Inserted(@, f)]
    /\ eviction_map' = eviction_map + (IF Evicts(sketch_shard[s], f) THEN 1 ELSE 0)
    /\ insert_counter' = insert_counter + 1
    /\ arrived' = [arrived EXCEPT ![s][Class(f)] = @ + 1]
=============================================================================
