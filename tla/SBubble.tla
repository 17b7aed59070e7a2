------------------------------ MODULE SBubble ------------------------------
(***************************************************************************)
(* The s-bubble XDP program on one CPU: every IPv4 packet that parses runs *)
(* BubbleSketch_Insert on its key and then counts itself in insert_counter.*)
(* Packets that do not parse change nothing and are stutters here.         *)
(*                                                                         *)
(* arrived is a history variable: how many packets of each class came in.  *)
(* Flows of one class have the same fingerprint and the same two buckets;  *)
(* outside slot 0 the sketch cannot tell them apart.                       *)
(***************************************************************************)
EXTENDS BubbleSketch

CONSTANT MaxPackets   \* bound on the traffic of one behaviour

ASSUME FlowAssumption    == NoFlow \notin Flows
\* MAX_BUCKETS is a power of two, so wrapping at 2^64 keeps residues.
ASSUME WrapAssumption    == HASH_SPACE % MAX_BUCKETS = 0
ASSUME PacketsAssumption == MaxPackets \in Nat

VARIABLES
    insert_counter,   \* the per-CPU map counter
    arrived           \* history: packets seen, per class

vars == <<buckets, f_max, threshold1, insert_counter, arrived>>

Class(f) == <<Tag(Context(f).fp), Context(f).keys[0]>>
Classes  == {Class(f) : f \in Flows}

Init ==
    /\ Init_sketch
    /\ insert_counter = 0
    /\ arrived = [c \in Classes |-> 0]

xdp_collect_5tuple(f) ==
    /\ insert_counter < MaxPackets
    /\ BubbleSketch_Insert(Context(f))
    /\ insert_counter' = insert_counter + 1
    /\ arrived' = [arrived EXCEPT ![Class(f)] = @ + 1]

Next == \E f \in Flows : xdp_collect_5tuple(f)

Spec == Init /\ [][Next]_vars

-----------------------------------------------------------------------------
(* Properties.                                                             *)

TypeOK ==
    /\ buckets \in [Arrays -> [Indices -> Bucket]]
    /\ f_max \in 0 .. COUNT_MAX
    /\ threshold1 \in Nat
    /\ insert_counter \in Nat
    /\ arrived \in [Classes -> Nat]

\* Every bucket stays in descending order of count through hits, sorts,
\* removals, kickouts from the other array and decay: the lossy branch may
\* therefore take the last entry for the smallest, and kickout the head for
\* the largest.
Sorted ==
    \A a \in Arrays, j \in Indices, i \in Slots \ {0} :
        buckets[a][j][i].count <= buckets[a][j][i - 1].count

\* An entry carrying a key still sits in a bucket that key hashes to in that
\* array, with that key's fp and fingerprint, however often kickout has moved
\* it: next_hash_value is computed from the hash of the packet that hit the
\* bucket, not from the hash of the entry that moves.
EntryIsAtHome(a, j, e) ==
    e.id \in Flows => /\ e.l0fp = Context(e.id).fp
                      /\ j = Context(e.id).keys[a]

Identity ==
    \A a \in Arrays, j \in Indices, i \in Slots :
        LET e == buckets[a][j][i] IN
        /\ e.fingerprint = Tag(e.l0fp)
        /\ e.id = NoFlow => e.l0fp = 0
        /\ EntryIsAtHome(a, j, e)

\* No counter, wherever the moves of its entry took it, exceeds the number of
\* packets of its class: the sketch may lose counts, never invent them.
NoOvercount ==
    \A a \in Arrays, j \in Indices, i \in Slots :
        LET e == buckets[a][j][i] IN
        e.count > 0 =>
            \E f \in Flows : /\ e.fingerprint = Tag(Context(f).fp)
                             /\ j = Context(f).keys[a]
                             /\ e.count <= arrived[Class(f)]

\* The count dumped for a key is at most the packets of that key's class.
ReportIsBacked ==
    \A a \in Arrays, j \in Indices :
        LET e == buckets[a][j][0] IN
        e.id \in Flows => e.count <= arrived[Class(e.id)]

\* The promotion bar is never higher than what some counter that is hot now
\* justifies, although threshold1 and f_max are never lowered.
ThresholdIsBacked ==
    threshold1 > THRESHOLD_INIT =>
        \E a \in Arrays, j \in Indices :
            calculate_threshold(buckets[a][j][0].count) >= threshold1

\* The hot count of a bucket never falls: decay spares slot 0, and what
\* replaces a hot entry is larger than it.
HotNeverFalls ==
    [][\A a \in Arrays, j \in Indices :
            buckets'[a][j][0].count >= buckets[a][j][0].count]_vars

\* A counter is lost only from the tail of its bucket: either it decays by
\* one there, or a kickout pushes it off while the head of its bucket becomes
\* a strictly larger counter.  Every other entry is somewhere afterwards,
\* uncut.
Keeps(e, d) == /\ <<d.id, d.l0fp, d.fingerprint>> = <<e.id, e.l0fp, e.fingerprint>>
               /\ d.count >= e.count

Retention ==
    [][\A a \in Arrays, j \in Indices, i \in Slots :
        LET e == buckets[a][j][i] IN
        e.count > 0 =>
            \/ \E x \in Arrays, y \in Indices, k \in Slots : Keeps(e, buckets'[x][y][k])
            \/ /\ i = MAX_ENTRY - 1
               /\ \/ buckets'[a][j] = [buckets[a][j] EXCEPT ![i].count = @ - 1]
                  \/ buckets'[a][j][0].count > buckets[a][j][0].count]_vars
=============================================================================
