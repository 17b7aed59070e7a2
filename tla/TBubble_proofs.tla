--------------------------- MODULE TBubble_proofs ---------------------------
(***************************************************************************)
(* On a machine with one CPU the tail-call chain is one insertion: no      *)
(* program but the last of a packet's chain touches the sketch, and that   *)
(* one does what BubbleSketch_Insert would do at once.  So the programs    *)
(* implement s-bubble's.  Evictions are counted right on any number of     *)
(* CPUs.  All for every set of flows, hash function and table size.        *)
(***************************************************************************)
EXTENDS TBubble, BubbleSketch_proofs

TheCPU == CHOOSE cpu \in CPUs : TRUE
OneCPU == CPUs = {TheCPU}

Stages == {"idle", "hash", "hot0", "hot1", "cold"}

\* What the programs before the next one have left in the context, and found
\* out about the buckets.
Found ==
    LET c  == Context(packet[TheCPU])
        at == pc[TheCPU]
    IN  /\ at = "hash" => context_map.key = packet[TheCPU]
        /\ at \in {"hot0", "hot1", "cold"} => context_map = c
        /\ at \in {"hot1", "cold"} => ~Stops(c, 0, 0)
        /\ at = "cold" => ~Stops(c, 1, 0)

IInv == /\ pc \in [CPUs -> Stages]
        /\ packet \in [CPUs -> Flows \union {NoFlow}]
        /\ context_map = [key |-> context_map.key, fp |-> context_map.fp,
                          hash_value |-> context_map.hash_value, keys |-> context_map.keys]
        /\ Found

\* A chain that ends inserts its packet; any other step leaves the sketch.
ChainInserts ==
    IF pc[TheCPU] # "idle" /\ pc'[TheCPU] = "idle"
    THEN BubbleSketch_Insert(Context(packet[TheCPU]))
    ELSE UNCHANGED sketch

\* At the start no packet is on its way.
LEMMA IInvInit == OneCPU /\ Init => IInv
  BY DEF OneCPU, Init, IInv, Found, Stages

\* The first program.
LEMMA CollectStep ==
    ASSUME OneCPU, IInv, \/ \E f \in Flows : CollectKey(TheCPU, f)
                 \/ CollectHash(TheCPU)
    PROVE  IInv' /\ ChainInserts
  <1>1. ASSUME NEW f \in Flows, CollectKey(TheCPU, f)
        PROVE  IInv' /\ ChainInserts
    <2>1. /\ pc' = [pc EXCEPT ![TheCPU] = "hash"]
          /\ packet' = [packet EXCEPT ![TheCPU] = f]
          /\ context_map' = [context_map EXCEPT !.key = f]
          /\ UNCHANGED sketch
      BY <1>1 DEF CollectKey, Goto, sketch
    <2>2. /\ pc' \in [CPUs -> Stages] /\ pc'[TheCPU] = "hash"
          /\ packet' \in [CPUs -> Flows \union {NoFlow}] /\ packet'[TheCPU] = f
      BY <2>1 DEF OneCPU, IInv, Stages
    <2>3. /\ context_map'.key = f
          /\ context_map' = [key |-> context_map'.key, fp |-> context_map'.fp,
                hash_value |-> context_map'.hash_value, keys |-> context_map'.keys]
      BY <2>1 DEF IInv
    <2> QED
      BY <2>1, <2>2, <2>3 DEF IInv, Found, ChainInserts
  <1>2. ASSUME CollectHash(TheCPU)
        PROVE  IInv' /\ ChainInserts
    <2>1. /\ pc[TheCPU] = "hash" /\ pc' = [pc EXCEPT ![TheCPU] = "hot0"]
          /\ context_map' = Context(context_map.key)
          /\ UNCHANGED <<sketch, packet>>
      BY <1>2 DEF CollectHash, Goto, sketch
    <2>2. pc' \in [CPUs -> Stages] /\ pc'[TheCPU] = "hot0"
      BY <2>1 DEF OneCPU, IInv, Stages
    <2>3. context_map' = Context(packet'[TheCPU])
      BY <2>1 DEF IInv, Found
    <2>4. context_map' = [key |-> context_map'.key, fp |-> context_map'.fp,
                hash_value |-> context_map'.hash_value, keys |-> context_map'.keys]
      BY <2>1 DEF Context
    <2> QED
      BY <2>1, <2>2, <2>3, <2>4 DEF IInv, Found, ChainInserts
  <1> QED
    BY <1>1, <1>2

\* The hot programs: the packet is counted or taken in, or goes on.
LEMMA HotStep ==
    ASSUME OneCPU, IInv, NEW a \in Arrays, xdp_insert_hot_bucket(TheCPU, a)
    PROVE  IInv' /\ ChainInserts
  <1> DEFINE c == Context(packet[TheCPU])
  <1>1. /\ pc[TheCPU] = (IF a = 0 THEN "hot0" ELSE "hot1")
        /\ context_map = c
        /\ a # 0 => ~Stops(c, 0, 0)
        /\ UNCHANGED <<context_map, packet>>
    BY DEF xdp_insert_hot_bucket, Programs, IInv, Found
  <1> HIDE DEF c
  <1>2. \/ /\ Bucket_Equal(Probe(c, a), 0, c.fp) /\ CountHot(c, a)
           /\ pc' = [pc EXCEPT ![TheCPU] = "idle"]
        \/ /\ ~Bucket_Equal(Probe(c, a), 0, c.fp) /\ Bucket_Empty(Probe(c, a), 0)
           /\ Take(c, a, 0)
           /\ pc' = [pc EXCEPT ![TheCPU] = "idle"]
        \/ /\ ~Stops(c, a, 0) /\ UNCHANGED sketch
           /\ pc' = [pc EXCEPT ![TheCPU] = TailCall(a)]
    BY <1>1, Zenon DEF xdp_insert_hot_bucket, Done, Goto
  <1>3. FirstStop(c, a, 0) \/ ~Stops(c, a, 0)
    <2>1. \A k \in 0 .. 0, x \in Arrays : k < 0 \/ x < a => k = 0 /\ x = 0 /\ a # 0
      BY DEF Arrays
    <2> QED
      BY <1>1, <2>1 DEF FirstStop
  <1>4. 0 \in Slots
    BY SizeAssumption DEF Slots
  <1>5. CASE pc' = [pc EXCEPT ![TheCPU] = "idle"] /\ BubbleSketch_Insert(c)
    <2>1. pc' \in [CPUs -> Stages] /\ pc'[TheCPU] = "idle"
      BY <1>5 DEF OneCPU, IInv, Stages
    <2> QED
      BY <1>1, <1>5, <2>1 DEF IInv, Found, ChainInserts, c
  <1>6. CASE /\ ~Stops(c, a, 0) /\ UNCHANGED sketch
             /\ pc' = [pc EXCEPT ![TheCPU] = TailCall(a)]
    <2>1. pc' \in [CPUs -> Stages] /\ pc'[TheCPU] = (IF a = 0 THEN "hot1" ELSE "cold")
      BY <1>6 DEF OneCPU, IInv, Stages, TailCall
    <2>3. a = 0 \/ a = 1
      BY DEF Arrays
    <2>4. c' = c
      BY <1>1 DEF c
    <2>5. \A x, i : Stops(c, x, i)' <=> Stops(c, x, i)
      BY <1>6, <2>4 DEF Stops, Probe, sketch
    <2> QED
      BY <1>1, <1>6, <2>1, <2>3, <2>4, <2>5 DEF IInv, Found, ChainInserts, c
  <1> QED
    BY <1>2, <1>3, <1>4, <1>5, <1>6 DEF BubbleSketch_Insert, HotHit, Fill, Stops

\* The cold program: a cold entry is counted or taken, or one decays.
LEMMA ColdStep ==
    ASSUME OneCPU, IInv, xdp_insert_cold(TheCPU)
    PROVE  IInv' /\ ChainInserts
  <1> DEFINE c == Context(packet[TheCPU])
  <1>1. /\ pc[TheCPU] = "cold" /\ context_map = c
        /\ ~Stops(c, 0, 0) /\ ~Stops(c, 1, 0)
        /\ UNCHANGED <<context_map, packet>>
        /\ pc' = [pc EXCEPT ![TheCPU] = "idle"]
    BY DEF xdp_insert_cold, Done, Goto, IInv, Found
  <1> HIDE DEF c
  <1>2. \/ \E a \in Arrays, i \in Slots \ {0} :
              /\ FirstColdStop(c, a, i)
              /\ IF Bucket_Equal(Probe(c, a), i, c.fp)
                 THEN CountCold(c, a, i) ELSE Take(c, a, i)
        \/ /\ \A a \in Arrays, i \in Slots \ {0} : ~Stops(c, a, i)
           /\ Decay(c)
    BY <1>1, Zenon DEF xdp_insert_cold
  <1>3. \A x \in Arrays : ~Stops(c, x, 0)
    BY <1>1 DEF Arrays
  <1>4. ASSUME NEW a \in Arrays, NEW i \in Slots \ {0}, FirstColdStop(c, a, i)
        PROVE  FirstStop(c, a, i) /\ i > 0
    <2>1. i \in Nat /\ i > 0
      BY SizeAssumption DEF Slots
    <2>2. \A k \in 0 .. i : k = 0 \/ k \in 1 .. i
      BY <2>1
    <2> QED
      BY <1>3, <1>4, <2>1, <2>2 DEF FirstColdStop, FirstStop
  <1>5. BubbleSketch_Insert(c)
    <2>1. ASSUME NEW a \in Arrays, NEW i \in Slots \ {0}, FirstColdStop(c, a, i),
                 IF Bucket_Equal(Probe(c, a), i, c.fp)
                 THEN CountCold(c, a, i) ELSE Take(c, a, i)
          PROVE  BubbleSketch_Insert(c)
      BY <1>4, <2>1 DEF BubbleSketch_Insert, ColdHit, Fill
    <2>2. ASSUME \A a \in Arrays, i \in Slots \ {0} : ~Stops(c, a, i), Decay(c)
          PROVE  BubbleSketch_Insert(c)
      <3>1. \A x \in Arrays, i \in Slots : ~Stops(c, x, i)
        BY <1>3, <2>2
      <3> QED
        BY <2>2, <3>1, Zenon DEF BubbleSketch_Insert, Lossy
    <2> QED
      BY <1>2, <2>1, <2>2
  <1>6. pc' \in [CPUs -> Stages] /\ pc'[TheCPU] = "idle"
    BY <1>1 DEF OneCPU, IInv, Stages
  <1> QED
    BY <1>1, <1>5, <1>6 DEF IInv, Found, ChainInserts, c

\* Every step keeps the invariant, and inserts a packet if it ends a chain.
LEMMA IInvNext == OneCPU /\ IInv /\ [Next]_vars => IInv' /\ [ChainInserts]_vars
  <1> SUFFICES ASSUME OneCPU, IInv, [Next]_vars PROVE IInv' /\ [ChainInserts]_vars
    OBVIOUS
  <1>1. CASE Next
    BY <1>1, CollectStep, HotStep, ColdStep DEF Next, OneCPU
  <1>2. CASE UNCHANGED vars
    BY <1>2 DEF vars, IInv, Found, Stops, Probe
  <1> QED
    BY <1>1, <1>2

\* With one CPU, whatever tail call a packet's chain ends in, the chain as a
\* whole is one BubbleSketch_Insert of that packet, and its other programs
\* leave the sketch alone.
THEOREM ChainIsInsertion == OneCPU => (Spec => [][ChainInserts]_vars)
  <1> SUFFICES ASSUME OneCPU PROVE Spec => [][ChainInserts]_vars
    OBVIOUS
  <1>1. Init => IInv
    BY IInvInit
  <1>2. IInv /\ [Next]_vars => IInv' /\ [ChainInserts]_vars
    BY IInvNext
  <1> QED
    BY <1>1, <1>2, PTL DEF Spec

\* With one CPU the programs of a chain find their own packet's context.
THEOREM OneCPUPassesContext == OneCPU => (Spec => []ContextIsPassed)
  <1> SUFFICES ASSUME OneCPU PROVE Spec => []ContextIsPassed
    OBVIOUS
  <1>1. Init => IInv
    BY IInvInit
  <1>2. IInv /\ [Next]_vars => IInv'
    BY IInvNext
  <1>3. IInv => ContextIsPassed
    BY DEF OneCPU, IInv, Found, ContextIsPassed, InFlight
  <1> QED
    BY <1>1, <1>2, <1>3, PTL DEF Spec

-----------------------------------------------------------------------------
(* On any number of CPUs: types.  The context may be that of another CPU's *)
(* packet, but it is the context of some packet, or half of two.           *)

Store    == [Arrays -> [Indices -> Bucket]]
Contexts == [key : Flows \union {NoFlow}, fp : Nat, hash_value : [Arrays -> Int],
             keys : [Arrays -> Indices]]

Types ==
    /\ buckets \in Store
    /\ context_map \in Contexts
    /\ pc \in [CPUs -> Stages]
    /\ insert_counter \in [CPUs -> Nat]
    /\ eviction_map \in [CPUs -> Nat]
    /\ packet \in [CPUs -> Flows \union {NoFlow}]
    /\ arrived \in [Classes -> Nat]
    /\ \A cpu \in CPUs : pc[cpu] # "idle" =>
            packet[cpu] \in Flows /\ context_map.key \in Flows

\* The context of a flow.
LEMMA ContextIn == \A f \in Flows : Context(f) \in Contexts
  <1> SUFFICES ASSUME NEW f \in Flows PROVE Context(f) \in Contexts
    OBVIOUS
  <1>1. /\ Context(f).key = f /\ Context(f).fp \in Nat
        /\ \A a \in Arrays : Context(f).hash_value[a] \in Int /\ Context(f).keys[a] \in Indices
    BY ContextType
  <1>2. /\ Context(f) = [key |-> Context(f).key, fp |-> Context(f).fp,
                         hash_value |-> Context(f).hash_value, keys |-> Context(f).keys]
        /\ Context(f).hash_value = [a \in Arrays |-> Context(f).hash_value[a]]
        /\ Context(f).keys = [a \in Arrays |-> Context(f).keys[a]]
    BY DEF Context
  <1>3. /\ Context(f).hash_value \in [Arrays -> Int] /\ Context(f).keys \in [Arrays -> Indices]
    BY <1>1, <1>2
  <1> QED
    BY <1>1, <1>2, <1>3, Zenon DEF Contexts

\* The bucket a kickout goes to.
LEMMA TargetIn ==
    ASSUME NEW c \in Contexts, NEW a \in Arrays, NEW e \in Entry
    PROVE  KickTarget(c, a, e) \in Indices
  <1> DEFINE s == c.hash_value[a] + (IF a = 0 THEN e.fingerprint ELSE -e.fingerprint)
             M == MAX_BUCKETS
             H == HASH_SPACE
  <1>1. s \in Int
    BY DEF Contexts, Entry
  <1>2. H \in Nat \ {0} /\ M \in Nat \ {0}
    BY HashAssumption, SizeAssumption
  <1> HIDE DEF s, H, M
  <1>3. s % H \in Int
    <2>1. s % H \in 0 .. H - 1
      BY <1>1, <1>2, DivMod
    <2> QED
      BY <1>2, <2>1
  <1>4. (s % H) % M \in 0 .. M - 1
    BY <1>2, <1>3, DivMod
  <1> QED
    BY <1>4 DEF KickTarget, s, H, M, Indices

\* The packet's bucket.
LEMMA ProbeIn ==
    ASSUME buckets \in Store, NEW c \in Contexts, NEW a \in Arrays
    PROVE  /\ c.keys[a] \in Indices /\ Probe(c, a) = buckets[a][c.keys[a]]
           /\ Probe(c, a) \in Bucket
           /\ \A k \in Slots : /\ Probe(c, a)[k] \in Entry
                               /\ Probe(c, a)[k].count \in Nat
  <1>1. c.keys[a] \in Indices
    BY DEF Contexts
  <1>2. Probe(c, a) \in Bucket
    BY <1>1 DEF Probe, Store
  <1> QED
    BY <1>1, <1>2, BucketCounts DEF Probe, Bucket

\* A store with one bucket replaced.
Put(a, j, b) == buckets' = [buckets EXCEPT ![a][j] = b]

\* One bucket is replaced.
LEMMA PutIn ==
    ASSUME buckets \in Store, NEW a \in Arrays, NEW j \in Indices, NEW b \in Bucket,
           Put(a, j, b)
    PROVE  /\ buckets' \in Store
           /\ buckets'[a][j] = b
           /\ \A x \in Arrays, y \in Indices : x # a \/ y # j => buckets'[x][y] = buckets[x][y]
  BY DEF Put, Store

-----------------------------------------------------------------------------
(* Which effect empties an entry.                                          *)

\* What EvictionsAreCounted asks of a step: fewer entries are in use, and no
\* hot counter is larger.
Emptied ==
    /\ InUse' # InUse
    /\ InUse' \subseteq InUse
    /\ \A a \in Arrays, j \in Indices : buckets'[a][j][0].count <= buckets[a][j][0].count

\* Where every counter in use stays in use nothing is emptied.
LEMMA StillInUse ==
    ASSUME \A a \in Arrays, j \in Indices, k \in Slots :
                buckets[a][j][k].count > 0 => buckets'[a][j][k].count > 0
    PROVE  ~Emptied
  <1>1. InUse \subseteq InUse'
    BY DEF InUse, Slots
  <1> QED
    BY <1>1 DEF Emptied

\* So if one bucket is replaced by one with as many counters in use.
LEMMA PutKeepsInUse ==
    ASSUME buckets \in Store, NEW a \in Arrays, NEW j \in Indices, NEW b \in Bucket,
           Put(a, j, b),
           \A k \in Slots : buckets[a][j][k].count > 0 => b[k].count > 0
    PROVE  ~Emptied
  <1>1. ASSUME NEW x \in Arrays, NEW y \in Indices, NEW k \in Slots, buckets[x][y][k].count > 0
        PROVE  buckets'[x][y][k].count > 0
    <2>1. CASE x = a /\ y = j
      BY <1>1, <2>1, PutIn
    <2>2. CASE x # a \/ y # j
      BY <1>1, <2>2, PutIn
    <2> QED
      BY <2>1, <2>2
  <1> QED
    BY <1>1, StillInUse

\* What a counter becomes.
LEMMA EntryIs ==
    ASSUME NEW e \in Entry
    PROVE  /\ Entry_Insert(e) \in Entry /\ Entry_Lossy(e) \in Entry
           /\ Entry_Insert(e).count > 0
           /\ e.count \in Nat
           /\ e.count > 0 => Entry_Lossy(e).count = e.count - 1
  <1>1. e.count \in Nat
    BY CountAssumption DEF Entry
  <1> QED
    BY <1>1, EntryTypes, CountAssumption DEF Entry_Insert, Entry_Lossy, Entry

\* A hit on a hot entry empties none.
LEMMA CountHotEmptiesNothing ==
    ASSUME buckets \in Store, NEW c \in Contexts, NEW a \in Arrays, CountHot(c, a)
    PROVE  buckets' \in Store /\ ~Emptied
  <1> DEFINE q == Probe(c, a)
             b == [q EXCEPT ![0] = Entry_Insert(@)]
             j == c.keys[a]
  <1>1. /\ j \in Indices /\ q = buckets[a][j] /\ q \in Bucket /\ 0 \in Slots
        /\ q[0] \in Entry
    BY ProbeIn, SizeAssumption DEF Slots
  <1>2. Put(a, j, b)
    BY DEF CountHot, Put
  <1> HIDE DEF q, j
  <1>3. Entry_Insert(q[0]) \in Entry /\ Entry_Insert(q[0]).count > 0
    BY <1>1, EntryIs
  <1>4. b \in Bucket /\ \A k \in Slots : q[k].count > 0 => b[k].count > 0
    BY <1>1, <1>3 DEF Bucket
  <1> QED
    BY <1>1, <1>2, <1>4, PutIn, PutKeepsInUse

\* Nor does taking an entry.
LEMMA TakeEmptiesNothing ==
    ASSUME buckets \in Store, NEW c \in Contexts, NEW a \in Arrays, NEW i \in Slots,
           Take(c, a, i)
    PROVE  buckets' \in Store /\ ~Emptied
  <1> DEFINE q == Probe(c, a)
             b == [q EXCEPT ![i] = Entry_Insert_with(c)]
             j == c.keys[a]
  <1>1. j \in Indices /\ q = buckets[a][j] /\ q \in Bucket
    BY ProbeIn
  <1>2. Put(a, j, b)
    BY DEF Take, Put, Probe
  <1>3. Entry_Insert_with(c) \in Entry /\ Entry_Insert_with(c).count = 1
    <2>1. Tag(c.fp) \in Nat /\ c.key \in Flows \union {NoFlow} /\ c.fp \in Nat
      BY HashAssumption, DivNat DEF Tag, Contexts
    <2> QED
      BY <2>1, CountAssumption DEF Entry_Insert_with, Entry
  <1> HIDE DEF q, j
  <1>4. b \in Bucket /\ \A k \in Slots : q[k].count > 0 => b[k].count > 0
    BY <1>1, <1>3 DEF Bucket
  <1> QED
    BY <1>1, <1>2, <1>4, PutIn, PutKeepsInUse

\* Nor does a hit on a cold entry: the cold entries before it are in use, so
\* they move down into slots in use, and a kickout raises the head it pushes.
LEMMA CountColdEmptiesNothing ==
    ASSUME buckets \in Store, NEW c \in Contexts, NEW a \in Arrays, NEW i \in Slots \ {0},
           FirstColdStop(c, a, i), CountCold(c, a, i)
    PROVE  buckets' \in Store /\ ~Emptied
  <1> DEFINE q == Probe(c, a)
             j == c.keys[a]
             m == [q EXCEPT ![i] = Entry_Insert(@)]
             b == Bucket_BucketSort(m, i)
             t == KickTarget(c, a, b[1])
             n == buckets[1 - a][t]
             h == [Bucket_down_stairs(n, 0) EXCEPT ![0] = b[1]]
             r == Bucket_Remove(b, 1)
  <1>1. \/ Put(a, j, b)
        \/ /\ b[1].count > n[0].count
           /\ buckets' = [buckets EXCEPT ![1 - a][t] = h, ![a][j] = r]
    BY DEF CountCold, Kicks, Put
  <1>2. /\ j \in Indices /\ q = buckets[a][j] /\ q \in Bucket
        /\ \A k \in Slots : q[k] \in Entry /\ q[k].count \in Nat
        /\ i \in Slots /\ 0 \in Slots /\ 1 \in Slots /\ i > 0 /\ i \in Int
    BY ProbeIn, SizeAssumption DEF Slots
  <1>3. \A k \in Slots : k > 0 /\ k < i => q[k].count > 0
    <2> SUFFICES ASSUME NEW k \in Slots, k > 0, k < i PROVE q[k].count > 0
      OBVIOUS
    <2>1. k \in 1 .. i
      BY <1>2, SizeAssumption DEF Slots
    <2>2. ~Stops(c, a, k)
      BY <2>1 DEF FirstColdStop
    <2> HIDE DEF q
    <2>3. q[k].count # 0
      BY <2>2 DEF Stops, Bucket_Empty, q
    <2> QED
      BY <1>2, <2>3
  <1>4. m \in Bucket /\ m[i].count > 0 /\ \A k \in Slots : k # i => m[k] = q[k]
    <2> HIDE DEF q
    <2>1. Entry_Insert(q[i]) \in Entry /\ Entry_Insert(q[i]).count > 0
      BY <1>2, EntryIs
    <2> QED
      BY <1>2, <2>1 DEF Bucket
  <1> HIDE DEF m, q, j
  <1>5. b \in Bucket /\ b[1] \in Entry
    <2>1. b \in Bucket
      BY <1>2, <1>4, SortRearranges
    <2> HIDE DEF b
    <2> QED
      BY <1>2, <2>1 DEF Bucket
  <1>6. PICK p \in Slots : Moved(m, b, p, i)
    BY <1>2, SortMoves
  <1> HIDE DEF b
  <1>7. CASE Put(a, j, b)
    <2>1. /\ p \in 0 .. i /\ b[p] = m[i]
          /\ \A k \in Slots : k < p \/ k > i => b[k] = m[k]
          /\ \A k \in p + 1 .. i : k - 1 \in Slots /\ b[k] = m[k - 1]
      BY <1>6 DEF Moved
    <2>2. CASE p > 0 \/ q[0].count > 0
      <3>1. ASSUME NEW k \in Slots, q[k].count > 0 PROVE b[k].count > 0
        <4>1. k \in Int /\ k >= 0
          BY SizeAssumption DEF Slots
        <4>2. CASE k < p \/ k > i
          BY <1>4, <2>1, <3>1, <4>1, <4>2
        <4>3. CASE k = p
          BY <1>4, <2>1, <4>3
        <4>4. CASE k > p /\ k <= i
          <5>1. k \in p + 1 .. i /\ k - 1 >= p /\ k - 1 < i /\ k - 1 >= 0
            BY <2>1, <4>1, <4>4
          <5>2. k - 1 \in Slots /\ b[k] = m[k - 1] /\ m[k - 1] = q[k - 1]
            BY <1>4, <2>1, <5>1
          <5>3. k - 1 = 0 => q[0].count > 0
            BY <2>1, <2>2, <5>1
          <5> QED
            BY <1>3, <5>1, <5>2, <5>3
        <4> QED
          BY <1>2, <2>1, <4>1, <4>2, <4>3, <4>4
      <3> QED
        BY <1>2, <1>5, <1>7, <3>1, PutIn, PutKeepsInUse
    <2>3. CASE p = 0 /\ q[0].count = 0
      <3>1. buckets' \in Store /\ buckets'[a][j] = b
        BY <1>2, <1>5, <1>7, PutIn
      <3>2. ~(buckets'[a][j][0].count <= buckets[a][j][0].count)
        <4>1. m[i].count \in Nat
          BY <1>2, <1>4, BucketCounts
        <4> QED
          BY <1>2, <1>4, <2>1, <2>3, <3>1, <4>1
      <3> QED
        BY <1>2, <3>1, <3>2 DEF Emptied
    <2> QED
      BY <1>2, <2>1, <2>2, <2>3
  <1>8. CASE /\ b[1].count > n[0].count
             /\ buckets' = [buckets EXCEPT ![1 - a][t] = h, ![a][j] = r]
    <2>1. t \in Indices /\ 1 - a \in Arrays /\ 1 - a # a
      BY <1>5, TargetIn DEF Arrays
    <2> HIDE DEF t
    <2>2. n \in Bucket
      BY <2>1 DEF Store
    <2>3. h \in Bucket /\ h[0] = b[1]
      BY <1>5, <2>2, PushKeeps
    <2>4. r \in Bucket
      BY <1>5, RemoveKeeps
    <2> HIDE DEF h, r
    <2>5. buckets' \in Store /\ buckets'[1 - a][t] = h
      BY <1>2, <1>8, <2>1, <2>3, <2>4 DEF Store
    <2>6. b[1].count \in Nat /\ n[0].count \in Nat
      BY <1>2, <1>5, <2>2, BucketCounts
    <2>7. ~(buckets'[1 - a][t][0].count <= buckets[1 - a][t][0].count)
      BY <1>8, <2>3, <2>5, <2>6
    <2> QED
      BY <2>1, <2>5, <2>7 DEF Emptied
  <1> QED
    BY <1>1, <1>7, <1>8

\* A decay empties an entry if and only if it leaves a last entry of the
\* packet's buckets at 0: the program's own test.
LEMMA DecayEmpties ==
    ASSUME buckets \in Store, NEW c \in Contexts, Decay(c),
           \A a \in Arrays, i \in Slots \ {0} : ~Stops(c, a, i)
    PROVE  buckets' \in Store /\ (Emptied <=> Vacated(c))
  <1> DEFINE last == MAX_ENTRY - 1
             a == LossyArray(c)
             j == c.keys[a]
             q == Probe(c, a)
             b == [q EXCEPT ![last] = Entry_Lossy(@)]
             p == <<a, j, last>>
  <1>1. a \in Arrays
    BY DEF LossyArray, Arrays
  <1>2. Put(a, j, b)
    BY DEF Decay, Put, Probe
  <1>3. last \in Slots /\ last # 0 /\ 0 \in Slots
    BY SizeAssumption DEF Slots
  <1> HIDE DEF a
  <1>4. j \in Indices /\ q = buckets[a][j] /\ q \in Bucket /\ q[last] \in Entry
    BY <1>1, <1>3, ProbeIn
  <1> HIDE DEF last
  <1>5. \A x \in Arrays : /\ c.keys[x] \in Indices
                          /\ buckets[x][c.keys[x]][last].count \in Nat
                          /\ buckets[x][c.keys[x]][last].count > 0
    <2> SUFFICES ASSUME NEW x \in Arrays
                 PROVE  /\ c.keys[x] \in Indices
                        /\ buckets[x][c.keys[x]][last].count \in Nat
                        /\ buckets[x][c.keys[x]][last].count > 0
      OBVIOUS
    <2>1. /\ c.keys[x] \in Indices /\ Probe(c, x) = buckets[x][c.keys[x]]
          /\ Probe(c, x)[last].count \in Nat
      BY <1>3, ProbeIn
    <2>2. Probe(c, x)[last].count # 0
      BY <1>3 DEF Stops, Bucket_Empty
    <2> QED
      BY <2>1, <2>2
  <1> HIDE DEF q, j
  <1>6. /\ b \in Bucket /\ b[last].count = q[last].count - 1
        /\ q[last].count \in Nat /\ q[last].count > 0
        /\ \A k \in Slots \ {last} : b[k] = q[k]
    <2>1. q[last].count > 0
      BY <1>1, <1>4, <1>5 DEF j
    <2>2. Entry_Lossy(q[last]) \in Entry /\ Entry_Lossy(q[last]).count = q[last].count - 1
          /\ q[last].count \in Nat
      BY <1>4, <2>1, EntryIs
    <2> QED
      BY <1>3, <1>4, <2>1, <2>2 DEF Bucket
  <1> HIDE DEF b
  <1>7. /\ buckets' \in Store /\ buckets'[a][j] = b
        /\ \A x \in Arrays, y \in Indices : x # a \/ y # j => buckets'[x][y] = buckets[x][y]
    BY <1>1, <1>2, <1>4, <1>6, PutIn
  <1>8. Vacated(c) <=> b[last].count = 0
    <2>1. \A x \in Arrays : x # a => buckets'[x][c.keys[x]][last].count > 0
      BY <1>5, <1>7
    <2>2. buckets'[a][c.keys[a]] = b
      BY <1>7 DEF j
    <2>3. Vacated(c) <=> \E x \in Arrays : buckets'[x][c.keys[x]][last].count = 0
      BY DEF Vacated, last
    <2> QED
      BY <1>1, <2>1, <2>2, <2>3
  <1>9. ASSUME b[last].count # 0
        PROVE  ~Emptied
    <2>1. \A k \in Slots : q[k].count > 0 => b[k].count > 0
      BY <1>6, <1>9
    <2> QED
      BY <1>1, <1>2, <1>4, <1>6, <2>1, PutKeepsInUse
  <1>10. ASSUME b[last].count = 0
         PROVE  Emptied
    <2>1. p \in InUse /\ p \notin InUse'
      BY <1>1, <1>3, <1>4, <1>6, <1>7, <1>10 DEF InUse
    <2>2. \A x \in Arrays, y \in Indices, k \in Slots :
             buckets'[x][y][k].count > 0 => buckets[x][y][k].count > 0
      BY <1>4, <1>6, <1>7, <1>10
    <2>3. InUse' \subseteq InUse
      BY <2>2 DEF InUse
    <2>4. \A x \in Arrays, y \in Indices : buckets'[x][y][0] = buckets[x][y][0]
      BY <1>3, <1>4, <1>6, <1>7
    <2>5. \A x \in Arrays, y \in Indices : buckets[x][y][0].count \in Nat
      BY <1>3, BucketCounts DEF Store
    <2>6. \A x \in Arrays, y \in Indices : buckets'[x][y][0].count <= buckets[x][y][0].count
      BY <2>4, <2>5
    <2> QED
      BY <2>1, <2>3, <2>6 DEF Emptied
  <1> QED
    BY <1>7, <1>8, <1>9, <1>10

\* What a step does to the eviction counters and to the table.
Accounted == \/ ~Emptied /\ UNCHANGED eviction_map
             \/ \E cpu \in CPUs : /\ Emptied
                                  /\ eviction_map' = [eviction_map EXCEPT ![cpu] = @ + 1]

\* A step that leaves the table alone empties nothing.
LEMMA SameTable == buckets' = buckets => ~Emptied
  BY DEF Emptied, InUse

\* At the start.
LEMMA TypesInit == Init => Types
  <1> SUFFICES ASSUME Init PROVE Types
    OBVIOUS
  <1>1. buckets \in Store
    BY EntryTypes DEF Init, Init_sketch, Store, Bucket
  <1>2. context_map \in Contexts
    <2>1. 0 \in Indices
      BY SizeAssumption DEF Indices
    <2> QED
      BY <2>1 DEF Init, Contexts
  <1> QED
    BY <1>1, <1>2 DEF Init, Types, Stages

\* The end of a packet's chain.
LEMMA DoneTypes ==
    ASSUME Types, NEW cpu \in CPUs, pc[cpu] # "idle", Done(cpu)
    PROVE  /\ pc' \in [CPUs -> Stages]
           /\ \A x \in CPUs : pc'[x] # "idle" => pc[x] # "idle"
           /\ arrived' \in [Classes -> Nat]
  <1>1. packet[cpu] \in Flows /\ Class(packet[cpu]) \in Classes
    BY DEF Types, Classes
  <1>2. pc' = [pc EXCEPT ![cpu] = "idle"] /\ pc \in [CPUs -> Stages]
    BY DEF Done, Goto, Types
  <1>3. /\ arrived' = [arrived EXCEPT ![Class(packet[cpu])] = @ + 1]
        /\ arrived \in [Classes -> Nat]
    BY DEF Done, Types
  <1>4. arrived' \in [Classes -> Nat]
    <2> HIDE DEF Classes
    <2> QED
      BY <1>1, <1>3
  <1> QED
    BY <1>2, <1>4 DEF Stages

\* The entry program.
LEMMA CollectTypes ==
    ASSUME Types, NEW cpu \in CPUs, \/ \E f \in Flows : CollectKey(cpu, f)
                                    \/ CollectHash(cpu)
    PROVE  Types' /\ Accounted
  <1>1. ASSUME NEW f \in Flows, CollectKey(cpu, f)
        PROVE  Types' /\ Accounted
    <2>1. /\ pc' = [pc EXCEPT ![cpu] = "hash"]
          /\ packet' = [packet EXCEPT ![cpu] = f]
          /\ context_map' = [context_map EXCEPT !.key = f]
          /\ UNCHANGED <<buckets, insert_counter, eviction_map, arrived>>
      BY <1>1 DEF CollectKey, Goto
    <2>2. context_map' \in Contexts /\ context_map'.key = f
      BY <2>1 DEF Types, Contexts
    <2>3. /\ pc' \in [CPUs -> Stages] /\ packet' \in [CPUs -> Flows \union {NoFlow}]
          /\ \A x \in CPUs : pc'[x] # "idle" => packet'[x] \in Flows
      BY <2>1 DEF Types, Stages
    <2> QED
      BY <2>1, <2>2, <2>3, SameTable DEF Types, Accounted
  <1>2. ASSUME CollectHash(cpu)
        PROVE  Types' /\ Accounted
    <2>1. /\ pc[cpu] = "hash" /\ pc' = [pc EXCEPT ![cpu] = "hot0"]
          /\ context_map' = Context(context_map.key)
          /\ insert_counter' = [insert_counter EXCEPT ![cpu] = @ + 1]
          /\ UNCHANGED <<buckets, eviction_map, packet, arrived>>
      BY <1>2 DEF CollectHash, Goto
    <2>2. context_map.key \in Flows
      BY <2>1 DEF Types
    <2>3. context_map' \in Contexts /\ context_map'.key = context_map.key
      BY <2>1, <2>2, ContextIn, ContextType
    <2>4. /\ pc' \in [CPUs -> Stages]
          /\ \A x \in CPUs : pc'[x] # "idle" => packet[x] \in Flows
          /\ insert_counter' \in [CPUs -> Nat]
      BY <2>1 DEF Types, Stages
    <2> QED
      BY <2>1, <2>2, <2>3, <2>4, SameTable DEF Types, Accounted
  <1> QED
    BY <1>1, <1>2

\* The hot programs.
LEMMA HotTypes ==
    ASSUME Types, NEW cpu \in CPUs, NEW a \in Arrays, xdp_insert_hot_bucket(cpu, a)
    PROVE  Types' /\ Accounted
  <1>1. /\ pc[cpu] # "idle"
        /\ UNCHANGED <<context_map, insert_counter, eviction_map, packet>>
        /\ \/ CountHot(context_map, a) /\ Done(cpu)
           \/ Take(context_map, a, 0) /\ Done(cpu)
           \/ Goto(cpu, TailCall(a)) /\ UNCHANGED <<sketch, arrived>>
    BY Zenon DEF xdp_insert_hot_bucket, Programs
  <1>2. buckets \in Store /\ context_map \in Contexts /\ 0 \in Slots
    BY SizeAssumption DEF Types, Slots
  <1>3. CASE (CountHot(context_map, a) \/ Take(context_map, a, 0)) /\ Done(cpu)
    <2>1. buckets' \in Store /\ ~Emptied
      BY <1>2, <1>3, CountHotEmptiesNothing, TakeEmptiesNothing
    <2>2. /\ pc' \in [CPUs -> Stages] /\ arrived' \in [Classes -> Nat]
          /\ \A x \in CPUs : pc'[x] # "idle" => pc[x] # "idle"
      BY <1>1, <1>3, DoneTypes
    <2> QED
      BY <1>1, <2>1, <2>2 DEF Types, Accounted
  <1>4. CASE Goto(cpu, TailCall(a)) /\ UNCHANGED <<sketch, arrived>>
    <2>1. buckets' = buckets /\ arrived' = arrived
      BY <1>4 DEF sketch
    <2>2. pc' \in [CPUs -> Stages] /\ \A x \in CPUs : pc'[x] # "idle" => pc[x] # "idle"
      BY <1>1, <1>4 DEF Goto, TailCall, Types, Stages
    <2> QED
      BY <1>1, <2>1, <2>2, SameTable DEF Types, Accounted
  <1> QED
    BY <1>1, <1>3, <1>4

\* The cold program, which alone touches its CPU's eviction counter.
LEMMA ColdTypes ==
    ASSUME Types, NEW cpu \in CPUs, xdp_insert_cold(cpu)
    PROVE  Types' /\ Accounted
  <1> DEFINE c == context_map
  <1>1. /\ pc[cpu] # "idle" /\ Done(cpu)
        /\ UNCHANGED <<context_map, insert_counter, packet>>
        /\ \/ \E a \in Arrays, i \in Slots \ {0} :
                /\ FirstColdStop(c, a, i)
                /\ CountCold(c, a, i) \/ Take(c, a, i)
                /\ UNCHANGED eviction_map
           \/ /\ \A a \in Arrays, i \in Slots \ {0} : ~Stops(c, a, i)
              /\ Decay(c)
              /\ eviction_map' = IF Vacated(c) THEN [eviction_map EXCEPT ![cpu] = @ + 1]
                                 ELSE eviction_map
    BY Zenon DEF xdp_insert_cold
  <1>2. buckets \in Store /\ c \in Contexts /\ eviction_map \in [CPUs -> Nat]
    BY DEF Types
  <1> HIDE DEF c
  <1>3. buckets' \in Store /\ Accounted
    <2>1. ASSUME NEW a \in Arrays, NEW i \in Slots \ {0}, FirstColdStop(c, a, i),
                 CountCold(c, a, i) \/ Take(c, a, i), UNCHANGED eviction_map
          PROVE  buckets' \in Store /\ Accounted
      BY <1>2, <2>1, CountColdEmptiesNothing, TakeEmptiesNothing DEF Accounted
    <2>2. ASSUME \A a \in Arrays, i \in Slots \ {0} : ~Stops(c, a, i), Decay(c),
                 eviction_map' = IF Vacated(c) THEN [eviction_map EXCEPT ![cpu] = @ + 1]
                                 ELSE eviction_map
          PROVE  buckets' \in Store /\ Accounted
      <3>1. buckets' \in Store /\ (Emptied <=> Vacated(c))
        BY <1>2, <2>2, DecayEmpties
      <3> QED
        BY <2>2, <3>1, Zenon DEF Accounted
    <2> QED
      BY <1>1, <2>1, <2>2
  <1>4. eviction_map' \in [CPUs -> Nat]
    BY <1>2, <1>3 DEF Accounted
  <1>5. /\ pc' \in [CPUs -> Stages] /\ arrived' \in [Classes -> Nat]
        /\ \A x \in CPUs : pc'[x] # "idle" => pc[x] # "idle"
    BY <1>1, DoneTypes
  <1> QED
    BY <1>1, <1>3, <1>4, <1>5 DEF Types

\* Every step keeps the types, and its evictions are accounted for.
LEMMA TypesNext == Types /\ [Next]_vars => Types' /\ Accounted
  <1> SUFFICES ASSUME Types, [Next]_vars PROVE Types' /\ Accounted
    OBVIOUS
  <1>1. CASE Next
    BY <1>1, CollectTypes, HotTypes, ColdTypes DEF Next
  <1>2. CASE UNCHANGED vars
    BY <1>2, SameTable DEF vars, Types, Accounted
  <1> QED
    BY <1>1, <1>2

\* On any number of CPUs, whatever packet's context a program may find, the
\* eviction counters together move by one exactly when decay has emptied an
\* entry: the test of both last entries after the decay of one of them.
THEOREM EvictionsCounted == Spec => EvictionsAreCounted
  <1> DEFINE Step == Total(eviction_map') - Total(eviction_map) = IF Emptied THEN 1 ELSE 0
  <1>1. Types /\ [Next]_vars => Types' /\ Accounted
    BY TypesNext
  <1>2. Types /\ Accounted => Step
    <2> SUFFICES ASSUME Types, Accounted PROVE Step
      OBVIOUS
    <2>1. /\ IsFiniteSet(CPUs) /\ eviction_map \in [CPUs -> Int]
          /\ \A cpu \in CPUs : eviction_map[cpu] \in Int
      BY CPUsAssumption DEF Types
    <2>2. Total(eviction_map) \in Int
      BY <2>1, SumType DEF Total
    <2>3. CASE ~Emptied /\ UNCHANGED eviction_map
      BY <2>2, <2>3
    <2>4. CASE \E cpu \in CPUs : /\ Emptied
                                 /\ eviction_map' = [eviction_map EXCEPT ![cpu] = @ + 1]
      <3>1. PICK cpu \in CPUs : eviction_map' = [eviction_map EXCEPT ![cpu] = @ + 1]
        BY <2>4
      <3>2. Total([eviction_map EXCEPT ![cpu] = @ + 1]) = Total(eviction_map) + 1
        BY <2>1, SumIncrement DEF Total
      <3>3. Total(eviction_map') = Total(eviction_map) + 1
        BY <3>1, <3>2, Zenon
      <3>4. Emptied
        BY <2>4
      <3> QED
        BY <2>2, <3>3, <3>4
    <2> QED
      BY <2>3, <2>4 DEF Accounted
  <1>3. Types /\ [Next]_vars => Types' /\ [Step]_vars
    BY <1>1, <1>2
  <1>4. [][Step]_vars => EvictionsAreCounted
    BY DEF EvictionsAreCounted, Emptied
  <1> HIDE DEF Step
  <1> QED
    BY TypesInit, <1>3, <1>4, PTL DEF Spec

-----------------------------------------------------------------------------
(* The refinement: with one CPU the programs implement s-bubble's.         *)

\* The instance's operators that look at no variable are this module's.
LEMMA AtomicOps ==
    /\ Atomic!Arrays = Arrays /\ Atomic!Slots = Slots
    /\ \A f : Atomic!Context(f) = Context(f)
    /\ \A f : Atomic!Class(f) = Class(f)
    /\ Atomic!Classes = Classes
  <1>1. Atomic!Arrays = Arrays /\ Atomic!Slots = Slots
    BY DEF Atomic!Arrays, Arrays, Atomic!Slots, Slots
  <1>2. \A x : Atomic!Tag(x) = Tag(x)
    BY DEF Atomic!Tag, Tag
  <1>3. \A f : Atomic!Context(f) = Context(f)
    BY DEF Atomic!Context, Context, Atomic!Tag, Tag, Atomic!Arrays, Arrays
  <1>4. \A f : Atomic!Class(f) = Class(f)
    BY <1>2, <1>3 DEF Atomic!Class, Class
  <1> QED
    BY <1>1, <1>3, <1>4 DEF Atomic!Classes, Classes

\* So is what it does to the sketch.
LEMMA AtomicInsert ==
    \A c : Atomic!BubbleSketch_Insert(c) <=> BubbleSketch_Insert(c)
  <1> SUFFICES ASSUME NEW c
               PROVE  Atomic!BubbleSketch_Insert(c) <=> BubbleSketch_Insert(c)
    OBVIOUS
  <1>1. Atomic!Arrays = Arrays /\ Atomic!Slots = Slots
    BY AtomicOps
  <1>2. /\ \A x : Atomic!Entry_Insert(x) = Entry_Insert(x)
        /\ \A x : Atomic!Entry_Insert_with(x) = Entry_Insert_with(x)
        /\ \A x : Atomic!Entry_Lossy(x) = Entry_Lossy(x)
        /\ \A x : Atomic!calculate_threshold(x) = calculate_threshold(x)
    BY DEF Atomic!Entry_Insert, Entry_Insert, Atomic!Entry_Insert_with, Entry_Insert_with,
           Atomic!Tag, Tag, Atomic!Entry_Lossy, Entry_Lossy,
           Atomic!calculate_threshold, calculate_threshold
  <1>3. /\ \A b, i : Atomic!Bucket_BucketSort(b, i) = Bucket_BucketSort(b, i)
        /\ \A b, i : Atomic!Bucket_Remove(b, i) = Bucket_Remove(b, i)
        /\ \A b, i : Atomic!Bucket_down_stairs(b, i) = Bucket_down_stairs(b, i)
    BY DEF Atomic!Bucket_BucketSort, Bucket_BucketSort, Atomic!Bucket_Remove, Bucket_Remove,
           Atomic!Bucket_down_stairs, Bucket_down_stairs, Atomic!Slots, Slots,
           Atomic!Entry_init, Entry_init
  <1>4. /\ \A a : Atomic!Probe(c, a) = Probe(c, a)
        /\ \A b, i, fp : Atomic!Bucket_Equal(b, i, fp) <=> Bucket_Equal(b, i, fp)
        /\ \A b, i : Atomic!Bucket_Empty(b, i) <=> Bucket_Empty(b, i)
        /\ \A a, e : Atomic!KickTarget(c, a, e) = KickTarget(c, a, e)
        /\ \A e, n : Atomic!Kicks(e, n) <=> Kicks(e, n)
    BY DEF Atomic!Probe, Probe, Atomic!Bucket_Equal, Bucket_Equal, Atomic!Tag, Tag,
           Atomic!Bucket_Empty, Bucket_Empty, Atomic!KickTarget, KickTarget,
           Atomic!Kicks, Kicks
  <1>5. \A a, i : Atomic!Stops(c, a, i) <=> Stops(c, a, i)
    BY <1>4 DEF Atomic!Stops, Stops
  <1>6. \A a, i : Atomic!FirstStop(c, a, i) <=> FirstStop(c, a, i)
    BY <1>1, <1>5 DEF Atomic!FirstStop, FirstStop
  <1>7. \A a : Atomic!HotHit(c, a) <=> HotHit(c, a)
    <2>1. \A a : Atomic!CountHot(c, a) <=> CountHot(c, a)
      BY <1>2, <1>4 DEF Atomic!CountHot, CountHot
    <2> QED
      BY <1>4, <1>6, <2>1 DEF Atomic!HotHit, HotHit
  <1>8. \A a, i : Atomic!Fill(c, a, i) <=> Fill(c, a, i)
    BY <1>2, <1>4, <1>6 DEF Atomic!Fill, Fill, Atomic!Take, Take
  <1>9. \A a, i : Atomic!ColdHit(c, a, i) <=> ColdHit(c, a, i)
    <2>1. \A a, i : Atomic!CountCold(c, a, i) <=> CountCold(c, a, i)
      BY DEF Atomic!CountCold, CountCold, Atomic!Probe, Probe,
             Atomic!Bucket_BucketSort, Bucket_BucketSort, Atomic!Entry_Insert, Entry_Insert,
             Atomic!KickTarget, KickTarget, Atomic!Kicks, Kicks,
             Atomic!Bucket_down_stairs, Bucket_down_stairs, Atomic!Bucket_Remove, Bucket_Remove,
             Atomic!Slots, Slots, Atomic!Entry_init, Entry_init
    <2> QED
      BY <1>4, <1>6, <2>1 DEF Atomic!ColdHit, ColdHit
  <1>10. Atomic!Lossy(c) <=> Lossy(c)
    <2>1. Atomic!LossyArray(c) = LossyArray(c)
      BY <1>4 DEF Atomic!LossyArray, LossyArray
    <2>2. Atomic!Decay(c) <=> Decay(c)
      BY <1>2, <2>1 DEF Atomic!Decay, Decay
    <2> QED
      BY <1>1, <1>5, <2>2 DEF Atomic!Lossy, Lossy
  <1> QED
    BY <1>1, <1>7, <1>8, <1>9, <1>10 DEF Atomic!BubbleSketch_Insert, BubbleSketch_Insert

\* How many packets are counted and not yet in the sketch.
Ahead == IF pc[TheCPU] \in {"hot0", "hot1", "cold"} THEN 1 ELSE 0

\* The only CPU counts to the bound on the traffic.
Bounds == /\ insert_counter[TheCPU] <= MaxPackets
          /\ pc[TheCPU] = "hash" => insert_counter[TheCPU] < MaxPackets

\* One CPU: its counter is the total.
LEMMA TotalOfOne ==
    ASSUME OneCPU
    PROVE  /\ \A counter \in [CPUs -> Nat] : Total(counter) = counter[TheCPU]
           /\ Cardinality(InFlight) = Ahead
  <1>1. ASSUME NEW counter \in [CPUs -> Nat] PROVE Total(counter) = counter[TheCPU]
    <2>1. /\ IsFiniteSet(CPUs) /\ TheCPU \in CPUs /\ CPUs \ {TheCPU} = {}
          /\ \A x \in CPUs : counter[x] \in Int
      BY CPUsAssumption DEF OneCPU
    <2>2. Total(counter) = counter[TheCPU] + SumFunctionOnSet(counter, CPUs \ {TheCPU})
      BY <2>1, SumRemove DEF Total
    <2> QED
      BY <2>1, <2>2, SumEmpty
  <1>2. Cardinality(InFlight) = Ahead
    <2>1. CASE pc[TheCPU] \in {"hot0", "hot1", "cold"}
      <3>1. InFlight = {TheCPU}
        BY <2>1 DEF OneCPU, InFlight
      <3> QED
        BY <2>1, <3>1, FS_Singleton DEF Ahead
    <2>2. CASE pc[TheCPU] \notin {"hot0", "hot1", "cold"}
      <3>1. InFlight = {}
        BY <2>2 DEF OneCPU, InFlight
      <3> QED
        BY <2>2, <3>1, FS_EmptySet DEF Ahead
    <2> QED
      BY <2>1, <2>2
  <1> QED
    BY <1>1, <1>2

\* A step that does not end a chain counts no packet of the atomic sketch;
\* one that does counts its packet, which was within the bound.
Ends == pc[TheCPU] # "idle" /\ pc'[TheCPU] = "idle"

Counts ==
    IF Ends
    THEN /\ insert_counter' = insert_counter /\ Ahead = 1 /\ Ahead' = 0
         /\ arrived' = [arrived EXCEPT ![Class(packet[TheCPU])] = @ + 1]
    ELSE /\ insert_counter'[TheCPU] - Ahead' = insert_counter[TheCPU] - Ahead
         /\ arrived' = arrived

\* Every step of the only CPU counts so, within the bound.
LEMMA BoundsNext ==
    ASSUME OneCPU, Types, Bounds, Next
    PROVE  Bounds' /\ Counts
  <1>1. /\ insert_counter \in [CPUs -> Nat] /\ pc \in [CPUs -> Stages] /\ TheCPU \in CPUs
        /\ insert_counter[TheCPU] \in Nat /\ MaxPackets \in Nat
        /\ Total(insert_counter) = insert_counter[TheCPU]
    BY PacketsAssumption, TotalOfOne DEF Types, OneCPU
  <1>2. ASSUME NEW f \in Flows, CollectKey(TheCPU, f)
        PROVE  Bounds' /\ Counts
    BY <1>1, <1>2 DEF CollectKey, Goto, Bounds, Counts, Ends, Ahead
  <1>3. ASSUME CollectHash(TheCPU)
        PROVE  Bounds' /\ Counts
    BY <1>1, <1>3 DEF CollectHash, Goto, Bounds, Counts, Ends, Ahead
  <1>4. ASSUME NEW a \in Arrays, xdp_insert_hot_bucket(TheCPU, a)
        PROVE  Bounds' /\ Counts
    <2>1. /\ pc[TheCPU] \in {"hot0", "hot1"} /\ insert_counter' = insert_counter
          /\ \/ Done(TheCPU)
             \/ Goto(TheCPU, TailCall(a)) /\ arrived' = arrived
      BY <1>4 DEF xdp_insert_hot_bucket, Programs
    <2> QED
      BY <1>1, <2>1 DEF Done, Goto, TailCall, Bounds, Counts, Ends, Ahead
  <1>5. ASSUME xdp_insert_cold(TheCPU)
        PROVE  Bounds' /\ Counts
    <2>1. pc[TheCPU] = "cold" /\ insert_counter' = insert_counter /\ Done(TheCPU)
      BY <1>5 DEF xdp_insert_cold
    <2> QED
      BY <1>1, <2>1 DEF Done, Goto, Bounds, Counts, Ends, Ahead
  <1> QED
    BY <1>2, <1>3, <1>4, <1>5 DEF Next, OneCPU

\* With one CPU the four tail-called programs implement s-bubble's single
\* program: every chain is one of its packets, counted when it ends.
THEOREM ChainImplementsInsert == OneCPU => (Spec => ImplementsInsert)
  <1> SUFFICES ASSUME OneCPU PROVE Spec => ImplementsInsert
    OBVIOUS
  <1> DEFINE Inv == IInv /\ Types /\ Bounds
  <1>1. Init => Inv /\ Atomic!Init
    <2> SUFFICES ASSUME Init PROVE Inv /\ Atomic!Init
      OBVIOUS
    <2>1. IInv /\ Types
      BY IInvInit, TypesInit
    <2>2. TheCPU \in CPUs /\ insert_counter[TheCPU] = 0 /\ pc[TheCPU] = "idle"
      BY DEF Init, OneCPU
    <2>3. Bounds
      BY <2>2, PacketsAssumption DEF Bounds
    <2>4. Total(insert_counter) = 0 /\ Cardinality(InFlight) = 0
      BY <2>1, <2>2, TotalOfOne DEF Types, Ahead
    <2>5. Atomic!Init_sketch
      BY DEF Init, Init_sketch, Atomic!Init_sketch, Atomic!Arrays, Arrays, Atomic!Indices,
             Indices, Atomic!Slots, Slots, Atomic!Entry_init, Entry_init
    <2> QED
      BY <2>1, <2>3, <2>4, <2>5, AtomicOps DEF Init, Atomic!Init
  <1>2. Inv /\ [Next]_vars => Inv' /\ [Atomic!Next]_(Atomic!vars)
    <2> SUFFICES ASSUME Inv, [Next]_vars PROVE Inv' /\ [Atomic!Next]_(Atomic!vars)
      OBVIOUS
    <2>1. IInv' /\ [ChainInserts]_vars /\ Types'
      BY IInvNext, TypesNext
    <2>2. CASE UNCHANGED vars
      <3>1. Bounds'
        BY <2>2 DEF vars, Bounds
      <3>2. UNCHANGED Atomic!vars
        BY <2>2 DEF vars, Atomic!vars, Total, InFlight
      <3> QED
        BY <2>1, <3>1, <3>2
    <2>3. CASE Next /\ ChainInserts
      <3>1. Bounds' /\ Counts
        BY <2>3, BoundsNext
      <3>2. /\ Total(insert_counter) = insert_counter[TheCPU]
            /\ Total(insert_counter)' = insert_counter'[TheCPU]
            /\ Cardinality(InFlight) = Ahead
            /\ Cardinality(InFlight)' = Ahead'
        <4>1. /\ Total(insert_counter) = insert_counter[TheCPU]
              /\ Cardinality(InFlight) = Ahead
          BY TotalOfOne DEF Types
        <4>2. OneCPU'
          BY DEF OneCPU
        <4>3. (/\ \A counter \in [CPUs -> Nat] : Total(counter) = counter[TheCPU]
               /\ Cardinality(InFlight) = Ahead)'
          BY <4>2, TotalOfOne, PTL
        <4>4. Total(insert_counter)' = insert_counter'[TheCPU]
          BY <2>1, <4>2, <4>3 DEF Types, Total
        <4> QED
          BY <4>1, <4>2, <4>3, <4>4
      <3>3. /\ insert_counter[TheCPU] \in Nat /\ insert_counter'[TheCPU] \in Nat
            /\ insert_counter[TheCPU] <= MaxPackets /\ MaxPackets \in Nat
            /\ Ahead \in {0, 1}
        BY <2>1, PacketsAssumption DEF Types, OneCPU, Bounds, Ahead
      <3>4. CASE Ends
        <4> DEFINE f == packet[TheCPU]
        <4>1. f \in Flows
          BY <3>4 DEF Ends, Types, OneCPU
        <4>2. BubbleSketch_Insert(Context(f))
          BY <2>3, <3>4 DEF ChainInserts, Ends
        <4>3. /\ arrived' = [arrived EXCEPT ![Class(f)] = @ + 1]
              /\ insert_counter' = insert_counter /\ Ahead = 1 /\ Ahead' = 0
          BY <3>1, <3>4 DEF Counts
        <4>4. /\ Total(insert_counter) - Cardinality(InFlight) < MaxPackets
              /\ Total(insert_counter)' - Cardinality(InFlight)'
                    = Total(insert_counter) - Cardinality(InFlight) + 1
          BY <3>2, <3>3, <4>3
        <4>5. Atomic!BubbleSketch_Insert(Atomic!Context(f)) /\ Atomic!Class(f) = Class(f)
          BY <4>2, AtomicInsert, AtomicOps
        <4>6. Atomic!xdp_collect_5tuple(f)
          BY <4>3, <4>4, <4>5 DEF Atomic!xdp_collect_5tuple
        <4> QED
          BY <2>1, <3>1, <4>1, <4>6 DEF Atomic!Next
      <3>5. CASE ~Ends
        <4>1. UNCHANGED sketch
          BY <2>3, <3>5, Zenon DEF ChainInserts, Ends
        <4>2. Total(insert_counter)' - Cardinality(InFlight)'
                = Total(insert_counter) - Cardinality(InFlight)
          BY <3>1, <3>2, <3>3, <3>5 DEF Counts
        <4>3. arrived' = arrived
          BY <3>1, <3>5 DEF Counts
        <4>4. UNCHANGED Atomic!vars
          BY <4>1, <4>2, <4>3 DEF sketch, Atomic!vars
        <4> QED
          BY <2>1, <3>1, <4>4
      <3> QED
        BY <3>4, <3>5
    <2> QED
      BY <2>1, <2>2, <2>3
  <1> HIDE DEF Inv
  <1> QED
    BY <1>1, <1>2, PTL DEF Spec, ImplementsInsert, Atomic!Spec
=============================================================================
