--------------------------- MODULE Loader_proofs ---------------------------
(***************************************************************************)
(* Proofs about the loader's main, for every number of shards, every table *)
(* size and hash function, and any traffic: whatever call fails and        *)
(* whenever a signal comes, no packet meets a map that is not ready, and   *)
(* main leaves nothing attached.  The dump, which is no snapshot, is right *)
(* about what it lists: its counts, the flows it names, the evictions, and *)
(* it misses no head.                                                      *)
(***************************************************************************)
EXTENDS Loader, IntegerFacts

-----------------------------------------------------------------------------
(* The sketch of a shard keeps its type, and neither its threshold nor any *)
(* of its hot counts falls.                                                *)

Slots  == 0 .. MAX_ENTRY - 1
Entry  == [id : Flows \union {NoFlow}, fingerprint : Nat, l0fp : Nat,
           count : 0 .. COUNT_MAX]
Bucket == [Slots -> Entry]
Store  == [Arrays -> [Indices -> Bucket]]
Sketch == [buckets : Store, f_max : 0 .. COUNT_MAX, threshold1 : Nat]

\* No hot count falls from one store to the other.
Rises(B, C) == \A a \in Arrays, j \in Indices : B[a][j][0].count <= C[a][j][0].count

\* An insertion does this to a sketch.
Grown(sk, new) == /\ new \in Sketch
                  /\ sk.threshold1 <= new.threshold1
                  /\ Rises(sk.buckets, new.buckets)

\* Counts are naturals, and slots are where they should be.
LEMMA Basics ==
    /\ \A e \in Entry : e.count \in Nat /\ e.count <= COUNT_MAX /\ e.fingerprint \in Nat
    /\ 0 \in Slots /\ 1 \in Slots /\ MAX_ENTRY - 1 \in Slots /\ MAX_ENTRY - 1 # 0
    /\ \A k \in Slots : k \in Int /\ 0 <= k /\ k <= MAX_ENTRY - 1
    /\ \A k \in Slots : k # 0 => k - 1 \in Slots
    /\ \A k \in Slots : k # MAX_ENTRY - 1 => k + 1 \in Slots
  <1>1. COUNT_MAX \in Nat \ {0} /\ MAX_ENTRY \in Nat \ {0, 1}
    BY SketchAssumption
  <1> QED
    BY <1>1 DEF Entry, Slots

\* The context of a flow gives it a key in both arrays.
LEMMA ContextType ==
    ASSUME NEW sk, NEW f \in Flows
    PROVE  LET c == Sk(sk)!Context(f) IN
           /\ c.key = f /\ c.fp \in Nat /\ Sk(sk)!Tag(c.fp) \in Nat
           /\ \A a \in Arrays : c.hash_value[a] \in Int /\ c.keys[a] \in Indices
  <1> DEFINE fp == Hash[f] \div FP_UNIT
  <1>1. /\ Hash[f] \in Nat /\ FP_UNIT \in Nat \ {0} /\ TAG_UNIT \in Nat \ {0}
        /\ HASH_SPACE \in Nat \ {0} /\ MAX_BUCKETS \in Nat \ {0}
    BY SketchAssumption
  <1>2. fp \in Nat
    BY <1>1, DivNat
  <1>3. Sk(sk)!Tag(fp) \in Nat
    BY <1>1, <1>2, DivNat DEF Sk!Tag
  <1>4. ASSUME NEW a \in Arrays
        PROVE  LET h == (Hash[f] + a * Sk(sk)!Tag(fp)) % HASH_SPACE
               IN  h \in Int /\ h % MAX_BUCKETS \in Indices
    <2>1. Hash[f] + a * Sk(sk)!Tag(fp) \in Int
      BY <1>1, <1>3 DEF Arrays
    <2>2. (Hash[f] + a * Sk(sk)!Tag(fp)) % HASH_SPACE \in 0 .. HASH_SPACE - 1
      BY <1>1, <2>1, DivMod, Zenon
    <2>3. (Hash[f] + a * Sk(sk)!Tag(fp)) % HASH_SPACE \in Int
      BY <1>1, <2>2
    <2> QED
      BY <1>1, <2>3, DivMod, Zenon DEF Indices
  <1> HIDE DEF fp
  <1>5. Sk(sk)!Context(f) = [key |-> f, fp |-> fp,
            hash_value |-> [a \in Arrays |-> (Hash[f] + a * Sk(sk)!Tag(fp)) % HASH_SPACE],
            keys |-> [a \in Arrays |->
                        ((Hash[f] + a * Sk(sk)!Tag(fp)) % HASH_SPACE) % MAX_BUCKETS]]
    BY Zenon DEF Sk!Context, Sk!Arrays, Arrays, fp
  <1> QED
    BY <1>2, <1>3, <1>4, <1>5

\* Replacing one bucket by a bucket keeps a store.
LEMMA StoreUpdate ==
    ASSUME NEW B \in Store, NEW a \in Arrays, NEW j \in Indices
    PROVE  /\ B[a][j] \in Bucket
           /\ B[a][j][0].count \in Nat
           /\ \A b \in Bucket :
                /\ [B EXCEPT ![a][j] = b] \in Store
                /\ B[a][j][0].count <= b[0].count => Rises(B, [B EXCEPT ![a][j] = b])
  <1>1. \A x \in Arrays, y \in Indices :
            /\ B[x][y] \in Bucket
            /\ B[x][y][0].count \in Nat
            /\ B[x][y][0].count <= B[x][y][0].count
    BY Basics DEF Store, Bucket
  <1>2. ASSUME NEW b \in Bucket, B[a][j][0].count <= b[0].count,
               NEW x \in Arrays, NEW y \in Indices
        PROVE  B[x][y][0].count <= [B EXCEPT ![a][j] = b][x][y][0].count
    <2>1. [B EXCEPT ![a][j] = b][x][y] \in {b, B[x][y]}
      BY DEF Store
    <2>2. x # a \/ y # j => [B EXCEPT ![a][j] = b][x][y] = B[x][y]
      BY DEF Store
    <2> QED
      BY <1>1, <1>2, <2>1, <2>2
  <1>3. \A b \in Bucket : [B EXCEPT ![a][j] = b] \in Store
    BY DEF Store
  <1> QED
    BY <1>1, <1>2, <1>3 DEF Rises

\* A sketch with a store that has risen has grown.
LEMMA StoreOfSketch ==
    ASSUME NEW sk \in Sketch, NEW B \in Store, Rises(sk.buckets, B)
    PROVE  Grown(sk, [sk EXCEPT !.buckets = B])
  BY DEF Grown, Sketch

\* An entry is taken over that counts nothing.
LEMMA TakenType ==
    ASSUME NEW sk \in Sketch, NEW f \in Flows, NEW a \in Arrays, NEW i \in Slots,
           sk.buckets[a][Sk(sk)!Context(f).keys[a]][i].count = 0
    PROVE  Grown(sk, Taken(sk, Sk(sk)!Context(f), a, i))
  <1> DEFINE c == Sk(sk)!Context(f)
             j == c.keys[a]
             e == Sk(sk)!Entry_Insert_with(c)
             b == [sk.buckets[a][j] EXCEPT ![i] = e]
  <1>1. j \in Indices /\ c.key = f /\ c.fp \in Nat /\ Sk(sk)!Tag(c.fp) \in Nat
    BY ContextType
  <1>2. e \in Entry /\ e.count = 1
    BY <1>1, SketchAssumption DEF Sk!Entry_Insert_with, Entry
  <1>3. sk.buckets \in Store
    BY DEF Sketch
  <1> HIDE DEF c, e, j
  <1>4. sk.buckets[a][j] \in Bucket /\ sk.buckets[a][j][0].count \in Nat
    BY <1>1, <1>3, StoreUpdate
  <1>5. b \in Bucket /\ sk.buckets[a][j][0].count <= b[0].count
    <2>1. sk.buckets[a][j][i].count = 0
      BY DEF c, j
    <2>2. i = 0 => b[0] = e
      BY <1>4 DEF Bucket
    <2>3. i # 0 => b[0] = sk.buckets[a][j][0]
      BY <1>4, Basics DEF Bucket
    <2>4. b \in Bucket
      BY <1>2, <1>4 DEF Bucket
    <2> QED
      BY <1>2, <1>4, <2>1, <2>2, <2>3, <2>4
  <1>6. Taken(sk, c, a, i) = [sk EXCEPT !.buckets = [sk.buckets EXCEPT ![a][j] = b]]
    BY Zenon DEF Taken, c, e, j
  <1> HIDE DEF b
  <1>7. /\ [sk.buckets EXCEPT ![a][j] = b] \in Store
        /\ Rises(sk.buckets, [sk.buckets EXCEPT ![a][j] = b])
    BY <1>1, <1>3, <1>5, StoreUpdate
  <1> QED
    BY <1>6, <1>7, StoreOfSketch DEF c

\* Replacing one entry by an entry keeps a bucket.
LEMMA BucketUpdate ==
    ASSUME NEW b \in Bucket, NEW i \in Slots
    PROVE  /\ b[i] \in Entry
           /\ \A e \in Entry : /\ [b EXCEPT ![i] = e] \in Bucket
                               /\ [b EXCEPT ![i] = e][i] = e
                               /\ i # 0 => [b EXCEPT ![i] = e][0] = b[0]
  BY Basics DEF Bucket

\* Counting and decay keep an entry, and counting takes nothing away.
LEMMA EntryUpdate ==
    ASSUME NEW sk, NEW e \in Entry
    PROVE  /\ Sk(sk)!Entry_Insert(e) \in Entry
           /\ e.count <= Sk(sk)!Entry_Insert(e).count
           /\ Sk(sk)!Entry_Lossy(e) \in Entry
  BY SketchAssumption DEF Sk!Entry_Insert, Sk!Entry_Lossy, Entry

\* A hot hit; no threshold is lowered.
LEMMA CountedHotType ==
    ASSUME NEW sk \in Sketch, NEW f \in Flows, NEW a \in Arrays
    PROVE  Grown(sk, CountedHot(sk, Sk(sk)!Context(f), a))
  <1> DEFINE c == Sk(sk)!Context(f)
             j == c.keys[a]
             p == sk.buckets[a][j]
             hot == Sk(sk)!Entry_Insert(p[0])
             b == [p EXCEPT ![0] = hot]
             new == Sk(sk)!calculate_threshold(hot.count)
             B == [sk.buckets EXCEPT ![a][j] = b]
             f1 == IF hot.count > sk.f_max THEN hot.count ELSE sk.f_max
             t1 == IF hot.count > sk.f_max /\ new > sk.threshold1 THEN new ELSE sk.threshold1
  <1>1. j \in Indices /\ sk.buckets \in Store /\ 0 \in Slots
    BY ContextType, Basics DEF Sketch
  <1>2. p \in Bucket
    BY <1>1, StoreUpdate
  <1>3. hot \in Entry /\ p[0].count <= hot.count
    <2> HIDE DEF p
    <2> QED
      BY <1>1, <1>2, BucketUpdate, EntryUpdate
  <1>4. b \in Bucket /\ p[0].count <= b[0].count
    <2> HIDE DEF p, hot
    <2> QED
      BY <1>1, <1>2, <1>3, BucketUpdate
  <1>5. hot.count \in Nat /\ hot.count \in 0 .. COUNT_MAX
    BY <1>3, Basics DEF Entry
  <1>6. new \in Nat
    <2>1. hot.count \in Nat /\ K \in Nat
      BY <1>5, SketchAssumption
    <2> HIDE DEF hot
    <2>2. CASE K = 0
      BY <2>1, <2>2 DEF Sk!calculate_threshold
    <2>3. CASE K # 0
      <3>1. 3 * hot.count \in Nat /\ 2 * K \in Nat \ {0}
        BY <2>1, <2>3
      <3>2. (3 * hot.count) \div (2 * K) \in Nat
        BY <3>1, DivNat, Zenon
      <3> QED
        BY <2>3, <3>2 DEF Sk!calculate_threshold
    <2> QED
      BY <2>2, <2>3
  <1>7. CountedHot(sk, c, a) = [sk EXCEPT !.buckets = B, !.f_max = f1, !.threshold1 = t1]
    BY Zenon DEF CountedHot, Sk!Probe
  <1>8. B \in Store /\ Rises(sk.buckets, B)
    <2> HIDE DEF b
    <2> QED
      BY <1>1, <1>4, StoreUpdate
  <1>9. /\ sk.f_max \in 0 .. COUNT_MAX /\ sk.threshold1 \in Nat
        /\ sk = [buckets |-> sk.buckets, f_max |-> sk.f_max, threshold1 |-> sk.threshold1]
    BY DEF Sketch
  <1>10. f1 \in 0 .. COUNT_MAX /\ t1 \in Nat /\ sk.threshold1 <= t1
    <2> HIDE DEF hot, new
    <2> QED
      BY <1>5, <1>6, <1>9
  <1> HIDE DEF B, f1, t1
  <1>11. CountedHot(sk, c, a) = [buckets |-> B, f_max |-> f1, threshold1 |-> t1]
    BY <1>7, <1>9
  <1> HIDE DEF c
  <1>12. Grown(sk, CountedHot(sk, c, a))
    BY <1>8, <1>10, <1>11 DEF Grown, Sketch
  <1> QED
    BY <1>12 DEF c
\* Sorting keeps a bucket, and its head gives way to larger counts only.
LEMMA SortedBucket ==
    ASSUME NEW sk, NEW b \in Bucket, NEW i \in Slots
    PROVE  /\ Sk(sk)!Bucket_BucketSort(b, i) \in Bucket
           /\ b[0].count <= Sk(sk)!Bucket_BucketSort(b, i)[0].count
  <1>1. ASSUME NEW k \in Slots
        PROVE  Sk(sk)!Bucket_BucketSort(b, i)[k] \in Entry
    <2>1. Sk(sk)!Bucket_BucketSort(b, i)[k] \in {b[k], b[i]} \/
             (k # 0 /\ Sk(sk)!Bucket_BucketSort(b, i)[k] = b[k - 1])
      BY DEF Sk!Bucket_BucketSort, Sk!Slots, Slots
    <2> QED
      BY <2>1, Basics DEF Bucket
  <1>2. Sk(sk)!Bucket_BucketSort(b, i) \in Bucket
    BY <1>1, Zenon DEF Bucket, Sk!Bucket_BucketSort, Sk!Slots, Slots
  <1>3. \/ Sk(sk)!Bucket_BucketSort(b, i)[0] = b[0]
        \/ /\ Sk(sk)!Bucket_BucketSort(b, i)[0] = b[i]
           /\ i = 0 \/ b[0].count < b[i].count
    BY Basics DEF Sk!Bucket_BucketSort, Sk!Slots, Slots
  <1>4. b[0].count \in Nat /\ b[i].count \in Nat
    BY Basics DEF Bucket
  <1> QED
    BY <1>2, <1>3, <1>4

\* Removal and moving down keep a bucket; removal of slot 1 keeps the head.
LEMMA MovedBuckets ==
    ASSUME NEW sk, NEW b \in Bucket
    PROVE  /\ Sk(sk)!Bucket_Remove(b, 1) \in Bucket
           /\ Sk(sk)!Bucket_Remove(b, 1)[0] = b[0]
           /\ Sk(sk)!Bucket_down_stairs(b, 0) \in Bucket
  <1>1. Sk(sk)!Entry_init \in Entry
    BY SketchAssumption DEF Sk!Entry_init, Entry
  <1>2. Sk(sk)!Bucket_Remove(b, 1) \in Bucket
    BY <1>1, Basics DEF Sk!Bucket_Remove, Sk!Slots, Slots, Bucket
  <1>3. Sk(sk)!Bucket_down_stairs(b, 0) \in Bucket
    BY Basics DEF Sk!Bucket_down_stairs, Sk!Slots, Slots, Bucket
  <1>4. Sk(sk)!Bucket_Remove(b, 1)[0] = b[0]
    BY Basics DEF Sk!Bucket_Remove, Sk!Slots, Slots
  <1> QED
    BY <1>2, <1>3, <1>4

\* Rising is transitive.
LEMMA RisesTwice ==
    ASSUME NEW B \in Store, NEW C \in Store, NEW D \in Store, Rises(B, C), Rises(C, D)
    PROVE  Rises(B, D)
  <1>1. ASSUME NEW a \in Arrays, NEW j \in Indices
        PROVE  B[a][j][0].count <= D[a][j][0].count
    <2>1. {B[a][j][0].count, C[a][j][0].count, D[a][j][0].count} \subseteq Nat
      BY StoreUpdate
    <2>2. B[a][j][0].count <= C[a][j][0].count /\ C[a][j][0].count <= D[a][j][0].count
      BY DEF Rises
    <2> QED
      BY <2>1, <2>2
  <1> QED
    BY <1>1 DEF Rises

\* A cold hit, with the kickout it may end in.
LEMMA CountedColdType ==
    ASSUME NEW sk \in Sketch, NEW f \in Flows, NEW a \in Arrays, NEW i \in Slots
    PROVE  Grown(sk, CountedCold(sk, Sk(sk)!Context(f), a, i))
  <1> DEFINE c == Sk(sk)!Context(f)
             j == c.keys[a]
             p == sk.buckets[a][j]
             e == Sk(sk)!Entry_Insert(p[i])
             q == [p EXCEPT ![i] = e]
             b == Sk(sk)!Bucket_BucketSort(q, i)
             target == Sk(sk)!KickTarget(c, a, b[1])
             next == sk.buckets[1 - a][target]
             down == Sk(sk)!Bucket_down_stairs(next, 0)
             up == [down EXCEPT ![0] = b[1]]
             rest == Sk(sk)!Bucket_Remove(b, 1)
             B == [sk.buckets EXCEPT ![1 - a][target] = up]
  <1>1. /\ j \in Indices /\ sk.buckets \in Store /\ c.hash_value[a] \in Int
        /\ 1 \in Slots /\ 1 - a \in Arrays
    BY ContextType, Basics DEF Sketch, Arrays
  <1>2. p \in Bucket
    BY <1>1, StoreUpdate
  <1>3. b \in Bucket /\ p[0].count <= b[0].count
    <2>1. e \in Entry /\ p[i].count <= e.count
      <3> HIDE DEF p
      <3> QED
        BY <1>2, BucketUpdate, EntryUpdate
    <2>2. q \in Bucket /\ p[0].count <= q[0].count /\ {p[0].count, q[0].count} \subseteq Nat
      <3> HIDE DEF p, e
      <3>1. q \in Bucket /\ q[i] = e /\ (i # 0 => q[0] = p[0])
        BY <1>2, <2>1, BucketUpdate
      <3> HIDE DEF q
      <3> QED
        BY <1>2, <2>1, <3>1, BucketUpdate, Basics
    <2> HIDE DEF p, q
    <2>3. b \in Bucket /\ q[0].count <= b[0].count
      BY <2>2, SortedBucket
    <2> HIDE DEF b
    <2>4. b[0].count \in Nat
      BY <2>3, BucketUpdate, Basics
    <2> QED
      BY <2>2, <2>3, <2>4
  <1> HIDE DEF b
  <1>4. b[1] \in Entry /\ b[1].fingerprint \in Nat
    BY <1>1, <1>3, Basics DEF Bucket
  <1>5. target \in Indices
    <2> DEFINE s == c.hash_value[a] + (IF a = 0 THEN b[1].fingerprint ELSE -b[1].fingerprint)
               w == s % HASH_SPACE
    <2>1. s \in Int /\ HASH_SPACE \in Nat \ {0} /\ MAX_BUCKETS \in Nat \ {0}
      BY <1>1, <1>4, SketchAssumption
    <2> HIDE DEF s
    <2>2. w \in Int
      BY <2>1, DivMod
    <2> HIDE DEF w
    <2>3. w % MAX_BUCKETS \in Indices
      BY <2>1, <2>2, DivMod DEF Indices
    <2> QED
      BY <2>3 DEF Sk!KickTarget, w, s
  <1>6. /\ CountedCold(sk, c, a, i) =
              IF Sk(sk)!Kicks(b[1], next)
              THEN [sk EXCEPT !.buckets = [B EXCEPT ![a][j] = rest]]
              ELSE [sk EXCEPT !.buckets = [sk.buckets EXCEPT ![a][j] = b]]
    BY Zenon DEF CountedCold, Sk!Probe, b
  <1> HIDE DEF c, j, target
  <1>7. next \in Bucket /\ next[0].count \in Nat /\ b[1].count \in Nat
    BY <1>1, <1>4, <1>5, StoreUpdate, Basics
  <1> DEFINE kicks == Sk(sk)!Kicks(b[1], next)
  <1>8. kicks => next[0].count <= b[1].count
    BY <1>7 DEF Sk!Kicks
  <1> HIDE DEF next, kicks
  <1>9. up \in Bucket /\ up[0] = b[1] /\ rest \in Bucket /\ rest[0] = b[0]
    <2>1. down \in Bucket /\ rest \in Bucket /\ rest[0] = b[0]
      BY <1>3, <1>7, MovedBuckets
    <2> HIDE DEF down, rest
    <2> QED
      BY <1>1, <1>4, <2>1, BucketUpdate, Basics
  <1>10. /\ [sk.buckets EXCEPT ![a][j] = b] \in Store
         /\ Rises(sk.buckets, [sk.buckets EXCEPT ![a][j] = b])
    BY <1>1, <1>3, StoreUpdate
  <1>11. B \in Store /\ B[a][j] = p
    <2> HIDE DEF up
    <2>1. B \in Store
      BY <1>1, <1>5, <1>9, StoreUpdate
    <2>2. a # 1 - a
      BY DEF Arrays
    <2> QED
      BY <1>1, <2>1, <2>2 DEF Store
  <1>12. kicks => Rises(sk.buckets, B)
    <2>1. next = sk.buckets[1 - a][target]
      BY DEF next
    <2> HIDE DEF up
    <2> QED
      BY <1>1, <1>5, <1>8, <1>9, <2>1, StoreUpdate
  <1> HIDE DEF rest, B
  <1>13. /\ [B EXCEPT ![a][j] = rest] \in Store
         /\ Rises(B, [B EXCEPT ![a][j] = rest])
    BY <1>1, <1>3, <1>9, <1>11, StoreUpdate
  <1>14. kicks => Rises(sk.buckets, [B EXCEPT ![a][j] = rest])
    BY <1>1, <1>11, <1>12, <1>13, RisesTwice
  <1>15. Grown(sk, CountedCold(sk, c, a, i))
    BY <1>6, <1>10, <1>13, <1>14, StoreOfSketch DEF kicks
  <1> QED
    BY <1>15 DEF c

\* The last entry decays, which is not the head.
LEMMA DecayedType ==
    ASSUME NEW sk \in Sketch, NEW f \in Flows
    PROVE  Grown(sk, Decayed(sk, Sk(sk)!Context(f)))
  <1> DEFINE c == Sk(sk)!Context(f)
             a == Sk(sk)!LossyArray(c)
             j == c.keys[a]
             p == sk.buckets[a][j]
             last == MAX_ENTRY - 1
             e == Sk(sk)!Entry_Lossy(p[last])
             b == [p EXCEPT ![last] = e]
  <1>1. a \in Arrays
    BY DEF Sk!LossyArray, Arrays
  <1>2. Decayed(sk, c) = [sk EXCEPT !.buckets = [sk.buckets EXCEPT ![a][j] = b]]
    BY Zenon DEF Decayed
  <1> HIDE DEF a
  <1>3. j \in Indices /\ sk.buckets \in Store /\ last \in Slots /\ last # 0
    BY <1>1, ContextType, Basics DEF Sketch
  <1>4. p \in Bucket /\ p[0].count \in Nat
    BY <1>1, <1>3, StoreUpdate
  <1> HIDE DEF p, last, c
  <1>5. b \in Bucket /\ b[0] = p[0]
    <2>1. e \in Entry
      BY <1>3, <1>4, BucketUpdate, EntryUpdate
    <2> HIDE DEF e
    <2> QED
      BY <1>3, <1>4, <2>1, BucketUpdate
  <1> HIDE DEF b
  <1>6. p = sk.buckets[a][j] /\ p[0].count <= b[0].count
    <2>1. p = sk.buckets[a][j]
      BY DEF p
    <2>2. b[0].count = p[0].count
      BY <1>5
    <2> QED
      BY <1>4, <2>1, <2>2
  <1> HIDE DEF j
  <1>7. /\ [sk.buckets EXCEPT ![a][j] = b] \in Store
        /\ Rises(sk.buckets, [sk.buckets EXCEPT ![a][j] = b])
    BY <1>1, <1>3, <1>5, <1>6, StoreUpdate
  <1>8. Grown(sk, Decayed(sk, c))
    BY <1>2, <1>7, StoreOfSketch
  <1> QED
    BY <1>8 DEF c

\* Whatever branch an insertion takes.
LEMMA InsertedType ==
    ASSUME NEW sk \in Sketch, NEW f \in Flows
    PROVE  Grown(sk, Inserted(sk, f))
  <1> DEFINE c == Sk(sk)!Context(f)
             p == CHOOSE p \in StoppedAt(sk, c) : TRUE
  <1>1. CASE StoppedAt(sk, c) = {}
    BY <1>1, DecayedType DEF Inserted
  <1>2. CASE StoppedAt(sk, c) # {}
    <2>1. p \in StoppedAt(sk, c)
      BY <1>2
    <2>2. p[1] \in Arrays /\ p[2] \in Slots
      BY <2>1 DEF StoppedAt, Sk!Arrays, Sk!Slots, Arrays, Slots
    <2>3. \/ /\ Inserted(sk, f) = Taken(sk, c, p[1], p[2])
             /\ ~Sk(sk)!Bucket_Equal(Sk(sk)!Probe(c, p[1]), p[2], c.fp)
          \/ Inserted(sk, f) \in {CountedHot(sk, c, p[1]), CountedCold(sk, c, p[1], p[2])}
      BY <1>2 DEF Inserted
    <2>4. \/ Sk(sk)!Bucket_Equal(Sk(sk)!Probe(c, p[1]), p[2], c.fp)
          \/ sk.buckets[p[1]][c.keys[p[1]]][p[2]].count = 0
      BY <2>1 DEF StoppedAt, Sk!FirstStop, Sk!Stops, Sk!Bucket_Empty, Sk!Probe
    <2> HIDE DEF p
    <2> QED
      BY <2>2, <2>3, <2>4, TakenType, CountedHotType, CountedColdType
  <1> QED
    BY <1>1, <1>2

-----------------------------------------------------------------------------
(* What main has done when it is where it is.                              *)

Before == {"open", "init", "object"}
During == {"attach", "reset", "loop", "copy id", "copy count", "evictions"}

\* The object file is closed twice only after the attach that failed.
ObjectOK ==
    /\ pc \in Before \union During \union {"tails", "cleanup", "close", "done"}
    /\ pc \in Before => obj = "null"
    /\ pc = "tails" => obj = "open"
    /\ pc \in During => obj \in {"null", "open"}
    /\ pc \in {"cleanup", "close"} =>
            obj \in {"null", "open"} \/ (obj = "closed" /\ err = 1)
    /\ pc = "done" => obj \in {"null", "closed"} \/ (obj = "closed twice" /\ err = 1)

LinkOK == link => pc \in (During \ {"attach"}) \union {"cleanup"}

TailsOK == (pc = "attach" \/ link) /\ loader = "t" => tail_call_map = tail_progs

Ready(s) == sketch_shard[s].threshold1 >= THRESHOLD_INIT

\* The sketches before the loop index are written, then all of them are.
SketchesOK ==
    /\ sketch_shard \in [Shards -> Sketch]
    /\ pc = "open" => shard = 0
    /\ pc = "init" => /\ shard \in 0 .. Sketches - 1
                      /\ \A s \in 0 .. shard - 1 : Ready(s)
    /\ pc \in {"object", "tails", "attach"} \/ link =>
            \A s \in 0 .. Sketches - 1 : Ready(s)

IInv == ObjectOK /\ LinkOK /\ TailsOK /\ SketchesOK

\* There is a first shard, and a loader uses no more sketches than there are.
LEMMA SketchCount ==
    /\ THRESHOLD_INIT \in Nat
    /\ SHARD_COUNT \in Nat \ {0}
    /\ Sketches \in Nat \ {0} /\ Sketches <= SHARD_COUNT
    /\ 0 .. Sketches - 1 \subseteq Shards
    /\ \A f \in Flows : get_shard_id(f) \in Shards
  <1>1. /\ SHARD_COUNT \in Nat \ {0} /\ SHARD_UNIT \in Nat \ {0}
        /\ \A f \in Flows : Hash[f] \in Nat
        /\ THRESHOLD_INIT \in Nat
    BY SketchAssumption, ShardAssumption
  <1>2. ASSUME NEW f \in Flows
        PROVE  get_shard_id(f) \in Shards
    <2> DEFINE q == Hash[f] \div SHARD_UNIT
    <2>1. q \in Int
      BY <1>1, DivNat
    <2> HIDE DEF q
    <2>2. q % SHARD_COUNT \in 0 .. SHARD_COUNT - 1
      BY <1>1, <2>1, DivMod
    <2> QED
      BY <2>2 DEF get_shard_id, Shards, q
  <1> QED
    BY <1>1, <1>2 DEF Sketches, Shards

\* A zeroed map and a map as the loader writes it hold a sketch.
LEMMA WrittenType ==
    /\ Zeroed \in Sketch
    /\ BubbleSketch_init \in Sketch
    /\ BubbleSketch_init.threshold1 = THRESHOLD_INIT
  <1>1. COUNT_MAX \in Nat \ {0} /\ THRESHOLD_INIT \in Nat
    BY SketchAssumption
  <1>2. Zeroed.buckets \in Store
    BY <1>1 DEF Zeroed, Store, Arrays, Indices, Bucket, Slots, Entry
  <1>3. Zeroed = [buckets |-> Zeroed.buckets, f_max |-> 0, threshold1 |-> 0]
    BY DEF Zeroed
  <1>4. Zeroed \in Sketch
    BY <1>1, <1>2, <1>3 DEF Sketch
  <1> QED
    BY <1>1, <1>4 DEF BubbleSketch_init, Sketch

\* At the start main has done nothing.
LEMMA IInvInit == Init => IInv
  <1> SUFFICES ASSUME Init PROVE IInv
    OBVIOUS
  <1>1. sketch_shard \in [Shards -> Sketch]
    BY WrittenType DEF Init, Init_maps
  <1> QED
    BY <1>1 DEF Init, IInv, ObjectOK, LinkOK, TailsOK, SketchesOK, Before, During

\* While the maps stay as they are, a ready sketch stays ready.
LEMMA MapsStay ==
    ASSUME UNCHANGED maps
    PROVE  sketch_shard' = sketch_shard
  BY DEF maps

\* A packet raises thresholds, if anything.
LEMMA PacketStep ==
    ASSUME IInv, NEW f \in Flows, Packet(f)
    PROVE  IInv'
  <1> DEFINE s == IF loader = "m" THEN get_shard_id(f) ELSE 0
             sk == sketch_shard[s]
  <1>1. sketch_shard' = [sketch_shard EXCEPT ![s] = Inserted(sk, f)]
    BY DEF Packet, Insert
  <1>2. UNCHANGED main
    BY DEF Packet
  <1>3. s \in Shards /\ sketch_shard \in [Shards -> Sketch]
    BY SketchCount DEF IInv, SketchesOK
  <1> HIDE DEF s
  <1>4. Grown(sk, Inserted(sk, f)) /\ sk \in Sketch
    BY <1>3, InsertedType
  <1> HIDE DEF sk
  <1>5. sketch_shard' \in [Shards -> Sketch]
    BY <1>1, <1>3, <1>4 DEF Grown
  <1>6. \A x \in Shards : Ready(x) => Ready(x)'
    BY <1>1, <1>3, <1>4, <1>5, SketchCount DEF Grown, Ready, Sketch, sk
  <1>7. Sketches' = Sketches
    BY <1>2 DEF Sketches, main, startup
  <1>8. pc = "init" => shard \in 0 .. Sketches - 1
    BY DEF IInv, SketchesOK
  <1>9. pc = "init" => 0 .. shard - 1 \subseteq Shards
    BY <1>8, SketchCount
  <1> QED
    BY <1>2, <1>5, <1>6, <1>7, <1>9, SketchCount
       DEF IInv, ObjectOK, LinkOK, TailsOK, SketchesOK, main, startup

\* The next sketch is written, or main gives up.
LEMMA InitSketchStep ==
    ASSUME IInv, InitSketch
    PROVE  IInv'
  <1>1. /\ pc = "init" /\ shard \in 0 .. Sketches - 1 /\ shard \in Shards
        /\ \A s \in 0 .. shard - 1 : Ready(s)
        /\ ~link /\ obj = "null" /\ sketch_shard \in [Shards -> Sketch]
    BY SketchCount DEF InitSketch, IInv, SketchesOK, LinkOK, ObjectOK, Before, During
  <1>2. UNCHANGED <<startup, link>> /\ Sketches' = Sketches
    BY DEF InitSketch, Sketches, startup
  <1>3. CASE pc' = "cleanup" /\ UNCHANGED <<sketch_shard, shard>>
    BY <1>1, <1>2, <1>3
       DEF IInv, ObjectOK, LinkOK, TailsOK, SketchesOK, startup, Before, During
  <1>4. CASE sketch_shard' = [sketch_shard EXCEPT ![shard] = BubbleSketch_init]
             /\ IF shard + 1 < Sketches
                THEN shard' = shard + 1 /\ pc' = "init"
                ELSE shard' = 0 /\ pc' = (IF loader = "t" THEN "object" ELSE "attach")
    <2>1. sketch_shard' \in [Shards -> Sketch]
      BY <1>1, <1>4, WrittenType
    <2>2. \A s \in 0 .. shard : Ready(s)'
      <3>1. ASSUME NEW s \in 0 .. shard
            PROVE  Ready(s)'
        <4>1. s \in Shards
          BY <1>1, SketchCount
        <4>2. CASE s = shard
          BY <1>1, <1>4, <4>1, <4>2, WrittenType, SketchCount DEF Ready
        <4>3. CASE s # shard
          <5>1. s \in 0 .. shard - 1
            BY <1>1, <4>3, SketchCount
          <5> QED
            BY <1>1, <1>4, <4>1, <4>3, <5>1 DEF Ready
        <4> QED
          BY <4>2, <4>3
      <3> QED
        BY <3>1
    <2>3. SketchesOK'
      <3>1. CASE shard + 1 < Sketches
        BY <1>1, <1>2, <1>4, <2>1, <2>2, <3>1, SketchCount DEF SketchesOK
      <3>2. CASE ~(shard + 1 < Sketches)
        <4>1. 0 .. Sketches - 1 \subseteq 0 .. shard
          BY <1>1, <3>2, SketchCount
        <4> QED
          BY <1>1, <1>2, <1>4, <2>1, <2>2, <3>2, <4>1 DEF SketchesOK
      <3> QED
        BY <3>1, <3>2
    <2> QED
      BY <1>1, <1>2, <1>4, <2>3
         DEF IInv, ObjectOK, LinkOK, TailsOK, startup, Before, During
  <1> QED
    BY <1>3, <1>4 DEF InitSketch, Goto

\* Every other step leaves the sketches alone.
LEMMA OtherStep ==
    ASSUME IInv, sketch_shard' = sketch_shard, loader' = loader,
           ObjectOK' /\ LinkOK' /\ TailsOK',
           pc' = "init" => pc \in {"open", "init"} /\ shard' = shard,
           pc' = "open" => pc = "open" /\ shard' = shard,
           pc' \in {"object", "tails", "attach"} => pc \in {"object", "tails", "attach"},
           link' => link \/ pc = "attach"
    PROVE  IInv'
  <1>1. Sketches' = Sketches /\ \A s : Ready(s)' <=> Ready(s)
    BY DEF Sketches, Ready
  <1>2. SketchesOK'
    BY <1>1, SketchCount DEF IInv, SketchesOK
  <1> QED
    BY <1>2 DEF IInv
\* Every step of main, every packet and every signal keeps it.
LEMMA IInvNext == IInv /\ [Next]_vars => IInv'
  <1> SUFFICES ASSUME IInv, [Next]_vars PROVE IInv'
    OBVIOUS
  <1>0. ObjectOK /\ LinkOK /\ TailsOK
    BY DEF IInv
  <1>1. CASE open_and_load
    <2>1. /\ sketch_shard' = sketch_shard /\ loader' = loader
          /\ pc' = "init" => pc \in {"open", "init"} /\ shard' = shard
          /\ pc' = "open" => pc = "open" /\ shard' = shard
          /\ pc' \in {"object", "tails", "attach"} => pc \in {"object", "tails", "attach"}
          /\ link' => link \/ pc = "attach"
      BY <1>1 DEF open_and_load, maps, startup, Goto
    <2>2. ObjectOK' /\ LinkOK' /\ TailsOK'
      BY <1>0, <1>1 DEF open_and_load, startup, Goto, ObjectOK, LinkOK, TailsOK, Closed,
             Before, During
    <2> QED
      BY <2>1, <2>2, OtherStep
  <1>2. CASE OpenObject
    <2>1. /\ sketch_shard' = sketch_shard /\ loader' = loader
          /\ pc' = "init" => pc \in {"open", "init"} /\ shard' = shard
          /\ pc' = "open" => pc = "open" /\ shard' = shard
          /\ pc' \in {"object", "tails", "attach"} => pc \in {"object", "tails", "attach"}
          /\ link' => link \/ pc = "attach"
      BY <1>2 DEF OpenObject, maps, startup, Goto
    <2>2. ObjectOK' /\ LinkOK' /\ TailsOK'
      BY <1>0, <1>2 DEF OpenObject, startup, Goto, ObjectOK, LinkOK, TailsOK, Closed,
             Before, During
    <2> QED
      BY <2>1, <2>2, OtherStep
  <1>3. CASE FillTailSlot
    <2>1. /\ sketch_shard' = sketch_shard /\ loader' = loader
          /\ pc' = "init" => pc \in {"open", "init"} /\ shard' = shard
          /\ pc' = "open" => pc = "open" /\ shard' = shard
          /\ pc' \in {"object", "tails", "attach"} => pc \in {"object", "tails", "attach"}
          /\ link' => link \/ pc = "attach"
      BY <1>3 DEF FillTailSlot, maps, startup, Goto
    <2>2. ObjectOK' /\ LinkOK' /\ TailsOK'
      BY <1>0, <1>3 DEF FillTailSlot, startup, Goto, ObjectOK, LinkOK, TailsOK, Closed,
             Before, During
    <2> QED
      BY <2>1, <2>2, OtherStep
  <1>4. CASE Attach
    <2>1. /\ sketch_shard' = sketch_shard /\ loader' = loader
          /\ pc' = "init" => pc \in {"open", "init"} /\ shard' = shard
          /\ pc' = "open" => pc = "open" /\ shard' = shard
          /\ pc' \in {"object", "tails", "attach"} => pc \in {"object", "tails", "attach"}
          /\ link' => link \/ pc = "attach"
      BY <1>4 DEF Attach, maps, startup, Goto
    <2>2. ObjectOK' /\ LinkOK' /\ TailsOK'
      BY <1>0, <1>4 DEF Attach, startup, Goto, ObjectOK, LinkOK, TailsOK, Closed,
             Before, During
    <2> QED
      BY <2>1, <2>2, OtherStep
  <1>5. CASE ResetEvictions
    <2>1. /\ sketch_shard' = sketch_shard /\ loader' = loader
          /\ pc' = "init" => pc \in {"open", "init"} /\ shard' = shard
          /\ pc' = "open" => pc = "open" /\ shard' = shard
          /\ pc' \in {"object", "tails", "attach"} => pc \in {"object", "tails", "attach"}
          /\ link' => link \/ pc = "attach"
      BY <1>5 DEF ResetEvictions, maps, startup, Goto
    <2>2. ObjectOK' /\ LinkOK' /\ TailsOK'
      BY <1>0, <1>5 DEF ResetEvictions, startup, Goto, ObjectOK, LinkOK, TailsOK, Closed,
             Before, During
    <2> QED
      BY <2>1, <2>2, OtherStep
  <1>6. CASE Loop
    <2>1. /\ sketch_shard' = sketch_shard /\ loader' = loader
          /\ pc' = "init" => pc \in {"open", "init"} /\ shard' = shard
          /\ pc' = "open" => pc = "open" /\ shard' = shard
          /\ pc' \in {"object", "tails", "attach"} => pc \in {"object", "tails", "attach"}
          /\ link' => link \/ pc = "attach"
      BY <1>6 DEF Loop, maps, startup, Goto
    <2>2. ObjectOK' /\ LinkOK' /\ TailsOK'
      BY <1>0, <1>6 DEF Loop, startup, Goto, ObjectOK, LinkOK, TailsOK, Closed,
             Before, During
    <2> QED
      BY <2>1, <2>2, OtherStep
  <1>7. CASE LookupFails
    <2>1. /\ sketch_shard' = sketch_shard /\ loader' = loader
          /\ pc' = "init" => pc \in {"open", "init"} /\ shard' = shard
          /\ pc' = "open" => pc = "open" /\ shard' = shard
          /\ pc' \in {"object", "tails", "attach"} => pc \in {"object", "tails", "attach"}
          /\ link' => link \/ pc = "attach"
      BY <1>7 DEF LookupFails, maps, startup, Goto
    <2>2. ObjectOK' /\ LinkOK' /\ TailsOK'
      BY <1>0, <1>7 DEF LookupFails, startup, Goto, ObjectOK, LinkOK, TailsOK, Closed,
             Before, During
    <2> QED
      BY <2>1, <2>2, OtherStep
  <1>8. CASE CopyId
    <2>1. /\ sketch_shard' = sketch_shard /\ loader' = loader
          /\ pc' = "init" => pc \in {"open", "init"} /\ shard' = shard
          /\ pc' = "open" => pc = "open" /\ shard' = shard
          /\ pc' \in {"object", "tails", "attach"} => pc \in {"object", "tails", "attach"}
          /\ link' => link \/ pc = "attach"
      BY <1>8 DEF CopyId, maps, startup, Goto
    <2>2. ObjectOK' /\ LinkOK' /\ TailsOK'
      BY <1>0, <1>8 DEF CopyId, startup, Goto, ObjectOK, LinkOK, TailsOK, Closed,
             Before, During
    <2> QED
      BY <2>1, <2>2, OtherStep
  <1>9. CASE CopyCount
    <2>1. /\ sketch_shard' = sketch_shard /\ loader' = loader
          /\ pc' = "init" => pc \in {"open", "init"} /\ shard' = shard
          /\ pc' = "open" => pc = "open" /\ shard' = shard
          /\ pc' \in {"object", "tails", "attach"} => pc \in {"object", "tails", "attach"}
          /\ link' => link \/ pc = "attach"
      BY <1>9 DEF CopyCount, maps, startup, Goto
    <2>2. ObjectOK' /\ LinkOK' /\ TailsOK'
      BY <1>0, <1>9 DEF CopyCount, startup, Goto, ObjectOK, LinkOK, TailsOK, Closed,
             Before, During
    <2> QED
      BY <2>1, <2>2, OtherStep
  <1>10. CASE ReadEvictions
    <2>1. /\ sketch_shard' = sketch_shard /\ loader' = loader
          /\ pc' = "init" => pc \in {"open", "init"} /\ shard' = shard
          /\ pc' = "open" => pc = "open" /\ shard' = shard
          /\ pc' \in {"object", "tails", "attach"} => pc \in {"object", "tails", "attach"}
          /\ link' => link \/ pc = "attach"
      BY <1>10 DEF ReadEvictions, maps, startup, Goto
    <2>2. ObjectOK' /\ LinkOK' /\ TailsOK'
      BY <1>0, <1>10 DEF ReadEvictions, startup, Goto, ObjectOK, LinkOK, TailsOK, Closed,
             Before, During
    <2> QED
      BY <2>1, <2>2, OtherStep
  <1>11. CASE DestroyLink
    <2>1. /\ sketch_shard' = sketch_shard /\ loader' = loader
          /\ pc' = "init" => pc \in {"open", "init"} /\ shard' = shard
          /\ pc' = "open" => pc = "open" /\ shard' = shard
          /\ pc' \in {"object", "tails", "attach"} => pc \in {"object", "tails", "attach"}
          /\ link' => link \/ pc = "attach"
      BY <1>11 DEF DestroyLink, maps, startup, Goto
    <2>2. ObjectOK' /\ LinkOK' /\ TailsOK'
      BY <1>0, <1>11 DEF DestroyLink, startup, Goto, ObjectOK, LinkOK, TailsOK, Closed,
             Before, During
    <2> QED
      BY <2>1, <2>2, OtherStep
  <1>12. CASE Close
    <2>1. /\ sketch_shard' = sketch_shard /\ loader' = loader
          /\ pc' = "init" => pc \in {"open", "init"} /\ shard' = shard
          /\ pc' = "open" => pc = "open" /\ shard' = shard
          /\ pc' \in {"object", "tails", "attach"} => pc \in {"object", "tails", "attach"}
          /\ link' => link \/ pc = "attach"
      BY <1>12 DEF Close, maps, startup, Goto
    <2>2. ObjectOK' /\ LinkOK' /\ TailsOK'
      BY <1>0, <1>12 DEF Close, startup, Goto, ObjectOK, LinkOK, TailsOK, Closed,
             Before, During
    <2> QED
      BY <2>1, <2>2, OtherStep
  <1>13. CASE handle_signal
    <2>1. /\ sketch_shard' = sketch_shard /\ loader' = loader
          /\ pc' = "init" => pc \in {"open", "init"} /\ shard' = shard
          /\ pc' = "open" => pc = "open" /\ shard' = shard
          /\ pc' \in {"object", "tails", "attach"} => pc \in {"object", "tails", "attach"}
          /\ link' => link \/ pc = "attach"
      BY <1>13 DEF handle_signal, maps, startup, Goto
    <2>2. ObjectOK' /\ LinkOK' /\ TailsOK'
      BY <1>0, <1>13 DEF handle_signal, startup, Goto, ObjectOK, LinkOK, TailsOK, Closed,
             Before, During
    <2> QED
      BY <2>1, <2>2, OtherStep
  <1>14. CASE InitSketch
    BY <1>14, InitSketchStep
  <1>15. ASSUME NEW f \in Flows, Packet(f)
         PROVE  IInv'
    BY <1>15, PacketStep
  <1>16. CASE UNCHANGED vars
    BY <1>16 DEF vars, maps, main, startup, IInv, ObjectOK, LinkOK, TailsOK, SketchesOK,
                 Sketches, Ready
  <1> QED
    BY <1>1, <1>2, <1>3, <1>4, <1>5, <1>6, <1>7, <1>8, <1>9, <1>10, <1>11, <1>12, <1>13,
       <1>14, <1>15, <1>16 DEF Next, Main

\* It holds throughout.
LEMMA Inductive == Spec => []IInv
  BY IInvInit, IInvNext, PTL DEF Spec

\* Whatever call fails on the way: once the program is attached, every sketch
\* a packet may meet has its threshold, and t's tail calls have their programs.
THEOREM PacketsFindMapsReady == Spec => []ReadyBeforeTraffic
  <1>1. IInv => ReadyBeforeTraffic
    BY DEF IInv, SketchesOK, TailsOK, Ready, ReadyBeforeTraffic
  <1> QED
    BY <1>1, Inductive, PTL

\* By whatever way main ends, nothing stays attached or open, and the object
\* file is closed twice only if the attach failed.
THEOREM ExitIsClean == Spec => []ExitLeavesNothing
  <1>1. IInv => ExitLeavesNothing
    BY DEF IInv, ObjectOK, LinkOK, ExitLeavesNothing, Before, During
  <1> QED
    BY <1>1, Inductive, PTL

-----------------------------------------------------------------------------
(* The dump, which packets overtake while it is being made.                *)

NotYet == Before \union {"tails", "attach", "reset", "loop"}

\* Where the dump is.
CursorOK ==
    /\ shard \in Nat /\ cell \in Nat
    /\ pc \in NotYet => sorted = {} /\ cell = 0
    /\ pc \in NotYet \ {"init"} => shard = 0
    /\ pc \in {"copy id", "copy count"} => shard < Sketches /\ cell < 2 * MAX_BUCKETS

SeenCount(s, a, j) == seen.heads[s][a][j].count

\* The hot counts that were seen have not fallen since.
SeenOK ==
    /\ \A s \in Shards, a \in Arrays, j \in Indices :
            SeenCount(s, a, j) \in Nat /\ SeenCount(s, a, j) <= Head(s, a, j).count
    /\ pc \in {"open", "init"} =>
            \A s \in Shards, a \in Arrays, j \in Indices : SeenCount(s, a, j) = 0

RowOK(row) ==
    /\ row.shard \in Shards /\ row.array \in Arrays /\ row.index \in Indices
    /\ row.count \in Nat
    /\ SeenCount(row.shard, row.array, row.index) <= row.count
    /\ row.count <= Head(row.shard, row.array, row.index).count

DumpOK == CursorOK /\ SeenOK /\ \A row \in sorted : RowOK(row)

\* The count of a hot entry is a natural.
LEMMA HeadType ==
    ASSUME sketch_shard \in [Shards -> Sketch],
           NEW s \in Shards, NEW a \in Arrays, NEW j \in Indices
    PROVE  Head(s, a, j).count \in Nat
  <1>1. sketch_shard[s].buckets \in Store
    BY DEF Sketch
  <1> QED
    BY <1>1, StoreUpdate DEF Head

\* At the start all counts are 0.
LEMMA DumpInit == Init => DumpOK
  <1> SUFFICES ASSUME Init PROVE DumpOK
    OBVIOUS
  <1>1. sketch_shard \in [Shards -> Sketch]
    BY IInvInit DEF IInv, SketchesOK
  <1>2. ASSUME NEW s \in Shards, NEW a \in Arrays, NEW j \in Indices
        PROVE  SeenCount(s, a, j) = 0 /\ Head(s, a, j).count = 0
    <2>1. SeenCount(s, a, j) = Head(s, a, j).count
      BY DEF Init, SeenCount, Heads
    <2>2. Head(s, a, j) = Zeroed.buckets[a][j][0]
      BY DEF Init, Init_maps, Head
    <2>3. Zeroed.buckets[a][j][0].count = 0
      BY Basics DEF Zeroed, Arrays, Indices, Slots
    <2> QED
      BY <2>1, <2>2, <2>3
  <1>3. SeenOK
    BY <1>2 DEF SeenOK
  <1> QED
    BY <1>3 DEF Init, DumpOK, CursorOK

\* Rows and what was seen stay right while hot counts do not fall.
LEMMA RisingHeads ==
    ASSUME DumpOK, sketch_shard \in [Shards -> Sketch], sketch_shard' \in [Shards -> Sketch],
           UNCHANGED <<seen, sorted>>,
           \A s \in Shards : Rises(sketch_shard[s].buckets, sketch_shard'[s].buckets),
           pc' \in {"open", "init"} => pc \in {"open", "init"}
    PROVE  SeenOK' /\ \A row \in sorted' : RowOK(row)'
  <1>1. ASSUME NEW s \in Shards, NEW a \in Arrays, NEW j \in Indices
        PROVE  /\ SeenCount(s, a, j)' = SeenCount(s, a, j)
               /\ Head(s, a, j).count \in Nat /\ Head(s, a, j)'.count \in Nat
               /\ Head(s, a, j).count <= Head(s, a, j)'.count
    <2>1. sketch_shard[s].buckets \in Store /\ sketch_shard'[s].buckets \in Store
      BY DEF Sketch
    <2>2. {sketch_shard[s].buckets[a][j][0].count,
           sketch_shard'[s].buckets[a][j][0].count} \subseteq Nat
      BY <2>1, StoreUpdate
    <2> QED
      BY <2>2 DEF SeenCount, Head, Rises
  <1>2. SeenOK'
    BY <1>1 DEF DumpOK, SeenOK
  <1>3. ASSUME NEW row \in sorted
        PROVE  RowOK(row)'
    <2>1. RowOK(row)
      BY DEF DumpOK
    <2> QED
      BY <1>1, <2>1 DEF RowOK
  <1> QED
    BY <1>2, <1>3

\* A step that leaves sketches, rows and what was seen alone.
LEMMA QuietStep ==
    ASSUME DumpOK, sketch_shard \in [Shards -> Sketch],
           UNCHANGED <<sketch_shard, seen, sorted>>, CursorOK',
           pc' \in {"open", "init"} => pc \in {"open", "init"}
    PROVE  DumpOK'
  <1>1. \A s \in Shards : Rises(sketch_shard[s].buckets, sketch_shard[s].buckets)
    <2>1. ASSUME NEW s \in Shards, NEW a \in Arrays, NEW j \in Indices
          PROVE  sketch_shard[s].buckets[a][j][0].count \in Nat
      BY HeadType DEF Head
    <2> QED
      BY <2>1 DEF Rises
  <1>2. SeenOK' /\ \A row \in sorted' : RowOK(row)'
    BY <1>1, RisingHeads
  <1> QED
    BY <1>2 DEF DumpOK

\* A sketch is written while nothing has been seen yet.
LEMMA DumpInitSketch ==
    ASSUME IInv, IInv', DumpOK, InitSketch
    PROVE  DumpOK'
  <1>1. /\ pc = "init" /\ shard \in 0 .. Sketches - 1 /\ shard \in Nat
        /\ UNCHANGED <<seen, sorted, cell, loader>> /\ sorted = {} /\ cell = 0
        /\ sketch_shard' \in [Shards -> Sketch]
    BY SketchCount DEF InitSketch, IInv, SketchesOK, DumpOK, CursorOK, NotYet, Before,
                       dump, history, startup
  <1>2. pc' \in {"init", "cleanup", "object", "attach"} /\ shard' \in Nat
        /\ (pc' \in {"object", "attach"} => shard' = 0)
    BY <1>1 DEF InitSketch, Goto
  <1>3. CursorOK'
    BY <1>1, <1>2 DEF CursorOK, NotYet, Before
  <1>4. ASSUME NEW s \in Shards, NEW a \in Arrays, NEW j \in Indices
        PROVE  SeenCount(s, a, j)' = 0 /\ Head(s, a, j)'.count \in Nat
    <2>1. SeenCount(s, a, j) = 0 /\ SeenCount(s, a, j)' = SeenCount(s, a, j)
      BY <1>1 DEF DumpOK, SeenOK, SeenCount
    <2>2. sketch_shard'[s].buckets \in Store
      BY <1>1 DEF Sketch
    <2> QED
      BY <2>1, <2>2, StoreUpdate DEF Head
  <1>5. SeenOK'
    BY <1>4 DEF SeenOK
  <1> QED
    BY <1>1, <1>3, <1>5 DEF DumpOK

\* A packet raises hot counts, if anything.
LEMMA DumpPacket ==
    ASSUME IInv, IInv', DumpOK, NEW f \in Flows, Packet(f)
    PROVE  DumpOK'
  <1> DEFINE s == IF loader = "m" THEN get_shard_id(f) ELSE 0
             sk == sketch_shard[s]
  <1>1. sketch_shard' = [sketch_shard EXCEPT ![s] = Inserted(sk, f)]
    BY DEF Packet, Insert
  <1>2. UNCHANGED <<main, seen>>
    BY DEF Packet
  <1>3. s \in Shards /\ sketch_shard \in [Shards -> Sketch]
        /\ sketch_shard' \in [Shards -> Sketch]
    BY SketchCount DEF IInv, SketchesOK
  <1> HIDE DEF s
  <1>4. Grown(sk, Inserted(sk, f))
    BY <1>3, InsertedType
  <1>5. ASSUME NEW x \in Shards
        PROVE  Rises(sketch_shard[x].buckets, sketch_shard'[x].buckets)
    <2>1. CASE x = s
      BY <1>1, <1>3, <1>4, <2>1 DEF Grown
    <2>2. CASE x # s
      <3>1. sketch_shard'[x] = sketch_shard[x]
        BY <1>1, <1>3, <2>2
      <3>2. \A a \in Arrays, j \in Indices : sketch_shard[x].buckets[a][j][0].count \in Nat
        BY <1>3, HeadType DEF Head
      <3> QED
        BY <3>1, <3>2 DEF Rises
    <2> QED
      BY <2>1, <2>2
  <1>6. SeenOK' /\ \A row \in sorted' : RowOK(row)'
    BY <1>2, <1>3, <1>5, RisingHeads DEF main, dump
  <1>7. CursorOK'
    BY <1>2 DEF DumpOK, CursorOK, main, dump, startup, Sketches
  <1> QED
    BY <1>6, <1>7 DEF DumpOK

\* The dump begins with what it sees.
LEMMA DumpLoop ==
    ASSUME IInv, DumpOK, Loop
    PROVE  DumpOK'
  <1>1. /\ pc = "loop" /\ pc' = "copy id" /\ sorted = {} /\ cell = 0 /\ shard = 0
        /\ UNCHANGED <<sorted, cell, shard, sketch_shard, loader>>
        /\ seen'.heads = Heads
    BY DEF Loop, Goto, DumpOK, CursorOK, NotYet, Before, dump, maps, startup
  <1>2. CursorOK'
    <2>1. Sketches' = Sketches
      BY <1>1 DEF Sketches
    <2>2. Sketches \in Nat \ {0} /\ MAX_BUCKETS \in Nat \ {0}
      BY SketchCount, SketchAssumption
    <2>3. 0 < Sketches /\ 0 < 2 * MAX_BUCKETS
      BY <2>2
    <2>4. pc' \notin NotYet
      BY <1>1 DEF NotYet, Before
    <2> QED
      BY <1>1, <2>1, <2>3, <2>4 DEF CursorOK
  <1>3. ASSUME NEW s \in Shards, NEW a \in Arrays, NEW j \in Indices
        PROVE  /\ SeenCount(s, a, j)' = Head(s, a, j)'.count
               /\ Head(s, a, j)'.count \in Nat
    <2>1. Head(s, a, j)' = Head(s, a, j) /\ Head(s, a, j).count \in Nat
      BY <1>1, HeadType DEF Head, IInv, SketchesOK
    <2>2. SeenCount(s, a, j)' = Heads[s][a][j].count
      BY <1>1 DEF SeenCount
    <2> QED
      BY <2>1, <2>2 DEF Heads
  <1>4. SeenOK'
    <2>1. pc' \notin {"open", "init"}
      BY <1>1
    <2>2. \A s \in Shards, a \in Arrays, j \in Indices :
            SeenCount(s, a, j)' \in Nat /\ SeenCount(s, a, j)' <= Head(s, a, j)'.count
      BY <1>3
    <2> QED
      BY <2>1, <2>2 DEF SeenOK
  <1> QED
    BY <1>1, <1>2, <1>4 DEF DumpOK

\* A row that is completed is right at that moment.
LEMMA DumpCopyCount ==
    ASSUME IInv, DumpOK, CopyCount
    PROVE  DumpOK'
  <1> DEFINE a == cell \div MAX_BUCKETS
             j == cell % MAX_BUCKETS
             row == [shard |-> shard, array |-> a, index |-> j, id |-> id,
                     count |-> Copied.count]
  <1>0. /\ pc = "copy count"
        /\ UNCHANGED <<sketch_shard, seen, loader>>
        /\ sorted' \in {sorted, sorted \union {row}}
    BY Zenon DEF CopyCount, maps, history, startup
  <1>2. MAX_BUCKETS \in Nat \ {0} /\ SHARD_COUNT \in Nat /\ Sketches \in Nat
    BY SketchAssumption, SketchCount
  <1>1. /\ shard \in Shards /\ shard \in Nat /\ cell \in Nat
        /\ shard < Sketches /\ cell < 2 * MAX_BUCKETS
    <2>1. shard \in Nat /\ cell \in Nat /\ shard < Sketches /\ cell < 2 * MAX_BUCKETS
      BY <1>0 DEF DumpOK, CursorOK
    <2>2. shard \in 0 .. Sketches - 1
      BY <1>2, <2>1
    <2> QED
      BY <2>1, <2>2, SketchCount
  <1>3. a \in Arrays /\ j \in Indices
    <2>1. 2 \in Nat /\ cell \in Nat /\ cell \in Int /\ MAX_BUCKETS \in Nat \ {0}
          /\ cell < 2 * MAX_BUCKETS
      BY <1>1, <1>2
    <2>2. a \in 0 .. 2 - 1
      BY <2>1, DivBelow, Zenon
    <2>3. j \in 0 .. MAX_BUCKETS - 1
      BY <2>1, DivMod, Zenon
    <2> HIDE DEF a, j
    <2> QED
      BY <2>2, <2>3 DEF Arrays, Indices
  <1>4. CursorOK'
    <2>1. Sketches' = Sketches
      BY <1>0 DEF Sketches
    <2>2. /\ IF cell + 1 < 2 * MAX_BUCKETS
             THEN cell' = cell + 1 /\ pc' = "copy id" /\ shard' = shard
             ELSE /\ cell' = 0 /\ shard' = shard + 1
                  /\ pc' = (IF shard' < Sketches THEN "copy id"
                            ELSE IF loader = "m" THEN "evictions" ELSE "cleanup")
      BY Zenon DEF CopyCount, Goto
    <2>3. pc' \in {"copy id", "evictions", "cleanup"}
      BY <2>2
    <2>4. pc' \notin NotYet
      BY <2>3 DEF NotYet, Before
    <2>5. 0 < 2 * MAX_BUCKETS
      BY <1>2
    <2>6. CASE cell + 1 < 2 * MAX_BUCKETS
      <3>1. cell' = cell + 1 /\ shard' = shard
        BY <2>2, <2>6
      <3>2. shard' \in Nat /\ cell' \in Nat /\ shard' < Sketches /\ cell' < 2 * MAX_BUCKETS
        BY <1>1, <1>2, <2>6, <3>1
      <3> QED
        BY <2>1, <2>4, <3>2 DEF CursorOK
    <2>7. CASE ~(cell + 1 < 2 * MAX_BUCKETS)
      <3>1. cell' = 0 /\ shard' = shard + 1 /\ pc' # "copy count"
            /\ (pc' = "copy id" => shard' < Sketches)
        BY <2>2, <2>7
      <3>2. shard' \in Nat
        <4>1. shard' = shard + 1
          BY <3>1
        <4> QED
          BY <1>1, <1>2, <4>1
      <3> QED
        BY <2>1, <2>4, <2>5, <3>1, <3>2 DEF CursorOK
    <2> QED
      BY <2>6, <2>7
  <1>5. row.count = Head(shard, a, j).count
    BY DEF Copied
  <1> HIDE DEF a, j
  <1>6. RowOK(row)
    <2>1. SeenCount(shard, a, j) \in Nat /\ SeenCount(shard, a, j) <= Head(shard, a, j).count
      BY <1>1, <1>3 DEF DumpOK, SeenOK
    <2>2. Head(shard, a, j).count \in Nat
      BY <1>1, <1>3, HeadType DEF IInv, SketchesOK
    <2>3. /\ row.shard = shard /\ row.array = a /\ row.index = j
          /\ row.count = Head(shard, a, j).count
      BY <1>5
    <2>4. Head(shard, a, j).count <= Head(shard, a, j).count
      BY <2>2
    <2> HIDE DEF row
    <2> QED
      BY <1>1, <1>3, <2>1, <2>2, <2>3, <2>4, Zenon DEF RowOK
  <1> HIDE DEF row
  <1>7. \A r \in sorted' : RowOK(r)
    BY <1>0, <1>6 DEF DumpOK
  <1>8. \A r : RowOK(r) => RowOK(r)'
    BY <1>0 DEF RowOK, SeenCount, Head
  <1>9. SeenOK'
    <2>1. pc' \notin {"open", "init"}
      BY DEF CopyCount, Goto
    <2> QED
      BY <1>0, <2>1 DEF DumpOK, SeenOK, SeenCount, Head
  <1> QED
    BY <1>4, <1>7, <1>8, <1>9 DEF DumpOK

\* Every step keeps what the dump has collected right.
LEMMA DumpNext == IInv /\ IInv' /\ DumpOK /\ [Next]_vars => DumpOK'
  <1> SUFFICES ASSUME IInv, IInv', DumpOK, [Next]_vars PROVE DumpOK'
    OBVIOUS
  <1>0. CursorOK /\ DumpOK /\ sketch_shard \in [Shards -> Sketch] /\ SHARD_COUNT \in Nat
    BY SketchCount DEF IInv, SketchesOK, DumpOK
  <1>1. CASE open_and_load
    <2>1. /\ UNCHANGED <<sketch_shard, seen, sorted, loader>>
          /\ pc' \in {"open", "init"} => pc \in {"open", "init"}
      BY <1>1 DEF open_and_load, maps, startup, dump, history, Goto
    <2>2. CursorOK'
      BY <1>0, <1>1 DEF open_and_load, CursorOK, NotYet, Before,
         maps, startup, dump, history, Goto, Sketches
    <2> QED
      BY <1>0, <2>1, <2>2, QuietStep
  <1>2. CASE OpenObject
    <2>1. /\ UNCHANGED <<sketch_shard, seen, sorted, loader>>
          /\ pc' \in {"open", "init"} => pc \in {"open", "init"}
      BY <1>2 DEF OpenObject, maps, startup, dump, history, Goto
    <2>2. CursorOK'
      BY <1>0, <1>2 DEF OpenObject, CursorOK, NotYet, Before,
         maps, startup, dump, history, Goto, Sketches
    <2> QED
      BY <1>0, <2>1, <2>2, QuietStep
  <1>3. CASE FillTailSlot
    <2>1. /\ UNCHANGED <<sketch_shard, seen, sorted, loader>>
          /\ pc' \in {"open", "init"} => pc \in {"open", "init"}
      BY <1>3 DEF FillTailSlot, maps, startup, dump, history, Goto
    <2>2. CursorOK'
      BY <1>0, <1>3 DEF FillTailSlot, CursorOK, NotYet, Before,
         maps, startup, dump, history, Goto, Sketches
    <2> QED
      BY <1>0, <2>1, <2>2, QuietStep
  <1>4. CASE Attach
    <2>1. /\ UNCHANGED <<sketch_shard, seen, sorted, loader>>
          /\ pc' \in {"open", "init"} => pc \in {"open", "init"}
      BY <1>4 DEF Attach, maps, startup, dump, history, Goto
    <2>2. CursorOK'
      BY <1>0, <1>4 DEF Attach, CursorOK, NotYet, Before,
         maps, startup, dump, history, Goto, Sketches
    <2> QED
      BY <1>0, <2>1, <2>2, QuietStep
  <1>5. CASE ResetEvictions
    <2>1. /\ UNCHANGED <<sketch_shard, seen, sorted, loader>>
          /\ pc' \in {"open", "init"} => pc \in {"open", "init"}
      BY <1>5 DEF ResetEvictions, maps, startup, dump, history, Goto
    <2>2. CursorOK'
      BY <1>0, <1>5 DEF ResetEvictions, CursorOK, NotYet, Before,
         maps, startup, dump, history, Goto, Sketches
    <2> QED
      BY <1>0, <2>1, <2>2, QuietStep
  <1>6. CASE LookupFails
    <2>1. /\ UNCHANGED <<sketch_shard, seen, sorted, loader, cell>> /\ cell = 0
          /\ pc = "copy id" /\ shard' = shard + 1
          /\ pc' \in {"copy id", "evictions", "cleanup"}
          /\ pc' = "copy id" => loader = "m" /\ shard' < SHARD_COUNT
      BY <1>6 DEF LookupFails, maps, startup, dump, history, Goto
    <2>2. CursorOK'
      <3>1. pc' \notin NotYet /\ (pc' = "copy id" => shard' < Sketches')
        BY <2>1 DEF NotYet, Before, Sketches
      <3>2. 0 < 2 * MAX_BUCKETS
        BY SketchAssumption
      <3>3. shard' \in Nat /\ cell' \in Nat
        <4>1. shard \in Nat /\ shard' = shard + 1 /\ cell' = 0
          BY <1>0, <2>1 DEF CursorOK
        <4> QED
          BY <4>1
      <3>4. pc' \in {"copy id", "copy count"} =>
                shard' < Sketches' /\ cell' < 2 * MAX_BUCKETS
        BY <2>1, <3>1, <3>2
      <3> QED
        BY <3>1, <3>3, <3>4, Zenon DEF CursorOK
    <2> QED
      BY <1>0, <2>1, <2>2, QuietStep
  <1>7. CASE CopyId
    <2>1. /\ UNCHANGED <<sketch_shard, seen, sorted, loader>>
          /\ pc' \in {"open", "init"} => pc \in {"open", "init"}
      BY <1>7 DEF CopyId, maps, startup, dump, history, Goto
    <2>2. CursorOK'
      BY <1>0, <1>7 DEF CopyId, CursorOK, NotYet, Before,
         maps, startup, dump, history, Goto, Sketches
    <2> QED
      BY <1>0, <2>1, <2>2, QuietStep
  <1>8. CASE ReadEvictions
    <2>1. /\ UNCHANGED <<sketch_shard, seen, sorted, loader>>
          /\ pc' \in {"open", "init"} => pc \in {"open", "init"}
      BY <1>8 DEF ReadEvictions, maps, startup, dump, history, Goto
    <2>2. CursorOK'
      BY <1>0, <1>8 DEF ReadEvictions, CursorOK, NotYet, Before,
         maps, startup, dump, history, Goto, Sketches
    <2> QED
      BY <1>0, <2>1, <2>2, QuietStep
  <1>9. CASE DestroyLink
    <2>1. /\ UNCHANGED <<sketch_shard, seen, sorted, loader>>
          /\ pc' \in {"open", "init"} => pc \in {"open", "init"}
      BY <1>9 DEF DestroyLink, maps, startup, dump, history, Goto
    <2>2. CursorOK'
      BY <1>0, <1>9 DEF DestroyLink, CursorOK, NotYet, Before,
         maps, startup, dump, history, Goto, Sketches
    <2> QED
      BY <1>0, <2>1, <2>2, QuietStep
  <1>10. CASE Close
    <2>1. /\ UNCHANGED <<sketch_shard, seen, sorted, loader>>
          /\ pc' \in {"open", "init"} => pc \in {"open", "init"}
      BY <1>10 DEF Close, maps, startup, dump, history, Goto
    <2>2. CursorOK'
      BY <1>0, <1>10 DEF Close, CursorOK, NotYet, Before,
         maps, startup, dump, history, Goto, Sketches
    <2> QED
      BY <1>0, <2>1, <2>2, QuietStep
  <1>11. CASE handle_signal
    <2>1. /\ UNCHANGED <<sketch_shard, seen, sorted, loader>>
          /\ pc' \in {"open", "init"} => pc \in {"open", "init"}
      BY <1>11 DEF handle_signal, maps, startup, dump, history, Goto
    <2>2. CursorOK'
      BY <1>0, <1>11 DEF handle_signal, CursorOK, NotYet, Before,
         maps, startup, dump, history, Goto, Sketches
    <2> QED
      BY <1>0, <2>1, <2>2, QuietStep
  <1>12. CASE UNCHANGED vars
    BY <1>12 DEF vars, main, maps, startup, dump, history, DumpOK, CursorOK, SeenOK,
                 SeenCount, RowOK, Head, Sketches
  <1>13. ASSUME NEW f \in Flows, Packet(f)
         PROVE  DumpOK'
    BY <1>13, DumpPacket
  <1> QED
    BY <1>1, <1>2, <1>3, <1>4, <1>5, <1>6, <1>7, <1>8, <1>9, <1>10, <1>11, <1>12, <1>13,
       DumpInitSketch, DumpLoop, DumpCopyCount DEF Next, Main

\* Packets overtake the dump, but each of its counts lies between the one its
\* bucket had when the dump began and the one it has now.
THEOREM DumpStaysBetween == Spec => []DumpIsBetween
  <1>1. IInv /\ IInv' /\ DumpOK /\ [Next]_vars => DumpOK'
    BY DumpNext
  <1>2. DumpOK => DumpIsBetween
    BY DEF DumpOK, RowOK, SeenCount, DumpIsBetween
  <1> QED
    BY <1>1, <1>2, DumpInit, Inductive, PTL DEF Spec

-----------------------------------------------------------------------------
(* What an insertion does to a shard's table, branch by branch.            *)

\* The operators of the sketch that look at no variable, and what is proved of
\* them: the same for every shard.
Op == INSTANCE BubbleSketch_proofs WITH
    buckets <- Zeroed.buckets, f_max <- 0, threshold1 <- 0

\* The assumptions those proofs rest on.
LEMMA OpAssumptions == Op!HashAssumption /\ Op!SizeAssumption /\ Op!CountAssumption
  BY SketchAssumption DEF Op!HashAssumption, Op!SizeAssumption, Op!CountAssumption

\* The shapes of its maps are those of the loader.
LEMMA OpSets == Op!Arrays = Arrays /\ Op!Slots = Slots /\ Op!Indices = Indices
                /\ Op!Entry = Entry /\ Op!Bucket = Bucket
  BY DEF Op!Arrays, Op!Slots, Op!Indices, Arrays, Slots, Indices, Op!Entry, Op!Bucket, Entry, Bucket

\* A shard's operators are those.
LEMMA OpSame ==
    ASSUME NEW sk
    PROVE  /\ \A f : Sk(sk)!Context(f) = Op!Context(f)
           /\ \A x : Sk(sk)!Tag(x) = Op!Tag(x)
           /\ \A e : /\ Sk(sk)!Entry_Insert(e) = Op!Entry_Insert(e)
                     /\ Sk(sk)!Entry_Lossy(e) = Op!Entry_Lossy(e)
           /\ \A c : Sk(sk)!Entry_Insert_with(c) = Op!Entry_Insert_with(c)
           /\ \A b, i : /\ Sk(sk)!Bucket_BucketSort(b, i) = Op!Bucket_BucketSort(b, i)
                        /\ Sk(sk)!Bucket_Remove(b, i) = Op!Bucket_Remove(b, i)
                        /\ Sk(sk)!Bucket_down_stairs(b, i) = Op!Bucket_down_stairs(b, i)
                        /\ Sk(sk)!Bucket_Empty(b, i) = Op!Bucket_Empty(b, i)
           /\ \A b, i, x : Sk(sk)!Bucket_Equal(b, i, x) = Op!Bucket_Equal(b, i, x)
           /\ \A c, a, e : Sk(sk)!KickTarget(c, a, e) = Op!KickTarget(c, a, e)
  <1>1. \A f : Sk(sk)!Context(f) = Op!Context(f)
    BY DEF Sk!Context, Op!Context, Sk!Arrays, Op!Arrays, Sk!Tag, Op!Tag
  <1>2. \A b, i : /\ Sk(sk)!Bucket_BucketSort(b, i) = Op!Bucket_BucketSort(b, i)
                        /\ Sk(sk)!Bucket_Remove(b, i) = Op!Bucket_Remove(b, i)
                        /\ Sk(sk)!Bucket_down_stairs(b, i) = Op!Bucket_down_stairs(b, i)
                        /\ Sk(sk)!Bucket_Empty(b, i) = Op!Bucket_Empty(b, i)
    BY DEF Sk!Bucket_BucketSort, Op!Bucket_BucketSort, Sk!Bucket_Remove, Op!Bucket_Remove,
      Sk!Bucket_down_stairs, Op!Bucket_down_stairs, Sk!Slots, Op!Slots, Sk!Entry_init, Op!Entry_init,
      Sk!Bucket_Empty, Op!Bucket_Empty
  <1>3. \A b, i, x : Sk(sk)!Bucket_Equal(b, i, x) = Op!Bucket_Equal(b, i, x)
    BY DEF Sk!Bucket_Equal, Op!Bucket_Equal, Sk!Tag, Op!Tag
  <1>4. \A c, a, e : Sk(sk)!KickTarget(c, a, e) = Op!KickTarget(c, a, e)
    BY DEF Sk!KickTarget, Op!KickTarget
  <1>5. /\ \A x : Sk(sk)!Tag(x) = Op!Tag(x)
           /\ \A e : /\ Sk(sk)!Entry_Insert(e) = Op!Entry_Insert(e)
                     /\ Sk(sk)!Entry_Lossy(e) = Op!Entry_Lossy(e)
           /\ \A c : Sk(sk)!Entry_Insert_with(c) = Op!Entry_Insert_with(c)
    BY DEF Sk!Tag, Op!Tag, Sk!Entry_Insert, Op!Entry_Insert, Sk!Entry_Lossy, Op!Entry_Lossy,
      Sk!Entry_Insert_with, Op!Entry_Insert_with
  <1> QED BY <1>1, <1>2, <1>3, <1>4, <1>5


-----------------------------------------------------------------------------
(* What an insertion does to the table B of a shard.                       *)

Put(B, a, j, b) == [B EXCEPT ![a][j] = b]

\* The packet's bucket in array a.
Mine(B, c, a) == B[a][c.keys[a]]

Matches(B, c, a, i) == Op!Bucket_Equal(Mine(B, c, a), i, c.fp)

\* The packet has found no empty slot before slot i.
Busy(B, c, i) == \A x \in Arrays, k \in Slots : k < i => Mine(B, c, x)[k].count > 0

HotShape(B, C, c) == \E a \in Arrays :
    /\ Matches(B, c, a, 0)
    /\ C = Put(B, a, c.keys[a], [Mine(B, c, a) EXCEPT ![0] = Op!Entry_Insert(@)])

FillShape(B, C, c) == \E a \in Arrays, i \in Slots :
    /\ Mine(B, c, a)[i].count = 0
    /\ C = Put(B, a, c.keys[a], [Mine(B, c, a) EXCEPT ![i] = Op!Entry_Insert_with(c)])

ColdBucket(B, c, a, i) ==
    Op!Bucket_BucketSort([Mine(B, c, a) EXCEPT ![i] = Op!Entry_Insert(@)], i)

Pushed(b, e) == [Op!Bucket_down_stairs(b, 0) EXCEPT ![0] = e]

KickShape(B, C, c, a, b, t, n) ==
    /\ t = Op!KickTarget(c, a, b[1])
    /\ n = B[1 - a][t]
    /\ b[1].count > n[0].count
    /\ C = Put(Put(B, 1 - a, t, Pushed(n, b[1])), a, c.keys[a], Op!Bucket_Remove(b, 1))

ColdShape(B, C, c) == \E a \in Arrays, i \in Slots \ {0} :
    /\ Matches(B, c, a, i)
    /\ Busy(B, c, i)
    /\ \/ C = Put(B, a, c.keys[a], ColdBucket(B, c, a, i))
       \/ \E t, n : KickShape(B, C, c, a, ColdBucket(B, c, a, i), t, n)

LossyShape(B, C, c) == \E a \in Arrays :
    /\ Busy(B, c, MAX_ENTRY)
    /\ C = Put(B, a, c.keys[a],
               [Mine(B, c, a) EXCEPT ![MAX_ENTRY - 1] = Op!Entry_Lossy(@)])

\* The lossy branch is the one that may evict.
Shape(sk, new, f) ==
    LET c == Op!Context(f)
        B == sk.buckets
        C == new.buckets
    IN  \/ /\ HotShape(B, C, c) \/ FillShape(B, C, c) \/ ColdShape(B, C, c)
           /\ ~Evicts(sk, f)
        \/ /\ LossyShape(B, C, c)
           /\ Evicts(sk, f) <=> \E a \in Arrays : Mine(C, c, a)[MAX_ENTRY - 1].count = 0

\* Slots below the one a packet stops at are in use.
LEMMA StopsBusy ==
    ASSUME NEW sk \in Sketch, NEW f \in Flows, NEW a \in Arrays, NEW i \in Slots,
           Sk(sk)!FirstStop(Sk(sk)!Context(f), a, i)
    PROVE  Busy(sk.buckets, Op!Context(f), i)
  <1> DEFINE c == Sk(sk)!Context(f)
  <1>1. c = Op!Context(f) /\ sk.buckets \in Store
    BY OpSame DEF Sketch
  <1>2. \A x \in Arrays : c.keys[x] \in Indices
    BY ContextType
  <1>3. ASSUME NEW x \in Arrays, NEW k \in Slots, k < i
        PROVE  sk.buckets[x][c.keys[x]][k].count > 0
    <2>1. k \in 0 .. i
      BY <1>3, Basics
    <2>2. sk.buckets[x][c.keys[x]][k].count # 0
      BY <1>3, <2>1 DEF Sk!FirstStop, Sk!Stops, Sk!Bucket_Empty, Sk!Probe, Sk!Arrays, Arrays
    <2>3. sk.buckets[x][c.keys[x]] \in Bucket
      BY <1>1, <1>2 DEF Store
    <2> HIDE DEF c
    <2>4. sk.buckets[x][c.keys[x]][k].count \in Nat
      BY <2>3, Basics DEF Bucket
    <2> QED
      BY <2>2, <2>4
  <1> QED
    BY <1>1, <1>3 DEF Busy, Mine

\* A packet that is not stopped finds nothing to stop at.
LEMMA NoStop ==
    ASSUME NEW sk, NEW c, StoppedAt(sk, c) = {}
    PROVE  \A x \in Arrays, k \in Slots : ~Sk(sk)!Stops(c, x, k)
  <1> DEFINE T == {k \in Slots : \E x \in Arrays : Sk(sk)!Stops(c, x, k)}
  <1>1. ASSUME NEW x \in Arrays, NEW k \in Slots, Sk(sk)!FirstStop(c, x, k)
        PROVE  FALSE
    <2> DEFINE q == <<x, k>>
    <2>1. q \in Sk(sk)!Arrays \X Sk(sk)!Slots /\ q[1] = x /\ q[2] = k
      BY DEF Sk!Arrays, Sk!Slots, Arrays, Slots
    <2> HIDE DEF q
    <2>2. Sk(sk)!FirstStop(c, q[1], q[2])
      BY <1>1, <2>1
    <2>3. q \in StoppedAt(sk, c)
      BY <2>1, <2>2 DEF StoppedAt
    <2> QED
      BY <2>3
  <1>2. CASE T # {}
    <2>1. T \subseteq Nat
      BY SketchAssumption DEF Slots
    <2>2. PICK m \in T : \A k \in T : m <= k
      BY <1>2, <2>1, LeastNumber
    <2>3. m \in Slots /\ m \in Nat /\ \A k \in 0 .. m : k \in Slots /\ k \in Nat
      BY <2>1, SketchAssumption DEF Slots
    <2>4. \A k \in 0 .. m, x \in Arrays : k < m => ~Sk(sk)!Stops(c, x, k)
      BY <2>2, <2>3
    <2>5. CASE Sk(sk)!Stops(c, 0, m)
      <3>1. Sk(sk)!FirstStop(c, 0, m)
        BY <2>3, <2>4, <2>5 DEF Sk!FirstStop, Sk!Arrays, Arrays
      <3> QED
        BY <1>1, <2>3, <3>1 DEF Arrays
    <2>6. CASE ~Sk(sk)!Stops(c, 0, m)
      <3>1. Sk(sk)!Stops(c, 1, m)
        BY <2>6 DEF Arrays
      <3>2. Sk(sk)!FirstStop(c, 1, m)
        BY <2>3, <2>4, <2>6, <3>1 DEF Sk!FirstStop, Sk!Arrays, Arrays
      <3> QED
        BY <1>1, <2>3, <3>2 DEF Arrays
    <2> QED
      BY <2>5, <2>6
  <1> QED
    BY <1>2

\* A packet that stops nowhere finds no empty slot.
LEMMA NoStopBusy ==
    ASSUME NEW sk \in Sketch, NEW f \in Flows, StoppedAt(sk, Sk(sk)!Context(f)) = {}
    PROVE  Busy(sk.buckets, Op!Context(f), MAX_ENTRY)
  <1> DEFINE c == Sk(sk)!Context(f)
  <1>1. c = Op!Context(f) /\ sk.buckets \in Store
    BY OpSame DEF Sketch
  <1>2. \A x \in Arrays : c.keys[x] \in Indices
    BY ContextType
  <1> HIDE DEF c
  <1>3. \A x \in Arrays, k \in Slots : ~Sk(sk)!Stops(c, x, k)
    BY NoStop DEF c
  <1>4. ASSUME NEW x \in Arrays, NEW k \in Slots
        PROVE  sk.buckets[x][c.keys[x]][k].count > 0
    <2>1. sk.buckets[x][c.keys[x]][k].count # 0
      BY <1>3 DEF Sk!Stops, Sk!Bucket_Empty, Sk!Probe
    <2>2. sk.buckets[x][c.keys[x]] \in Bucket
      BY <1>1, <1>2 DEF Store
    <2>3. sk.buckets[x][c.keys[x]][k].count \in Nat
      BY <2>2, Basics DEF Bucket
    <2> QED
      BY <2>1, <2>3
  <1> QED
    BY <1>1, <1>4 DEF Busy, Mine

\* Whatever branch Insert takes, it has one of the shapes.
LEMMA InsertedShape ==
    ASSUME NEW sk \in Sketch, NEW f \in Flows
    PROVE  Shape(sk, Inserted(sk, f), f)
  <1> DEFINE c == Sk(sk)!Context(f)
             B == sk.buckets
             new == Inserted(sk, f)
             p == CHOOSE p \in StoppedAt(sk, c) : TRUE
  <1>1. c = Op!Context(f) /\ B \in Store
    BY OpSame DEF Sketch
  <1>2. CASE StoppedAt(sk, c) = {}
    <2> DEFINE a == Sk(sk)!LossyArray(c)
    <2>1. a \in Arrays
      BY DEF Sk!LossyArray, Arrays
    <2>2. new = Decayed(sk, c) /\ Busy(B, c, MAX_ENTRY)
      BY <1>1, <1>2, NoStopBusy DEF Inserted
    <2>3. new.buckets = Put(B, a, c.keys[a],
                            [Mine(B, c, a) EXCEPT ![MAX_ENTRY - 1] = Op!Entry_Lossy(@)])
      <3>1. \A e : Sk(sk)!Entry_Lossy(e) = Op!Entry_Lossy(e)
        BY OpSame
      <3>2. new = [sk EXCEPT !.buckets = [B EXCEPT ![a][c.keys[a]] =
                        [B[a][c.keys[a]] EXCEPT ![MAX_ENTRY - 1] = Sk(sk)!Entry_Lossy(@)]]]
        BY <2>2, Zenon DEF Decayed
      <3> HIDE DEF a, c, new
      <3>3. new = [sk EXCEPT !.buckets = [B EXCEPT ![a][c.keys[a]] =
                        [B[a][c.keys[a]] EXCEPT ![MAX_ENTRY - 1] = Op!Entry_Lossy(@)]]]
        BY <3>1, <3>2
      <3> QED
        BY <3>3 DEF Put, Mine, Sketch
    <2>4. LossyShape(B, new.buckets, c)
      BY <2>1, <2>2, <2>3 DEF LossyShape
    <2>5. Evicts(sk, f) <=> \E x \in Arrays : Mine(new.buckets, c, x)[MAX_ENTRY - 1].count = 0
      BY <1>2, <2>2 DEF Evicts, Mine, Sk!Probe, Sk!Arrays, Arrays
    <2> QED
      BY <1>1, <2>4, <2>5 DEF Shape
  <1>3. CASE StoppedAt(sk, c) # {}
    <2>1. p \in StoppedAt(sk, c)
      BY <1>3
    <2> DEFINE a == p[1]
               i == p[2]
               q == Mine(B, c, a)
    <2>2. a \in Arrays /\ i \in Slots /\ Sk(sk)!FirstStop(c, a, i)
      BY <2>1 DEF StoppedAt, Sk!Arrays, Sk!Slots, Arrays, Slots
    <2>3. Busy(B, c, i)
      BY <1>1, <2>2, StopsBusy
    <2>4. ~Evicts(sk, f)
      BY <1>3 DEF Evicts
    <2>5. /\ Sk(sk)!Probe(c, a) = q
          /\ Matches(B, c, a, i) <=> Sk(sk)!Bucket_Equal(q, i, c.fp)
          /\ Matches(B, c, a, i) \/ q[i].count = 0
      <3>1. Sk(sk)!Probe(c, a) = q
        BY DEF Sk!Probe, Mine
      <3>2. Matches(B, c, a, i) <=> Sk(sk)!Bucket_Equal(q, i, c.fp)
        BY OpSame DEF Matches
      <3>3. Sk(sk)!Bucket_Equal(Sk(sk)!Probe(c, a), i, c.fp)
            \/ Sk(sk)!Probe(c, a)[i].count = 0
        BY <2>2 DEF Sk!FirstStop, Sk!Stops, Sk!Bucket_Empty
      <3> HIDE DEF q
      <3> QED
        BY <3>1, <3>2, <3>3
    <2>6. /\ ~Matches(B, c, a, i) => new = Taken(sk, c, a, i)
          /\ Matches(B, c, a, i) /\ i = 0 => new = CountedHot(sk, c, a)
          /\ Matches(B, c, a, i) /\ i # 0 => new = CountedCold(sk, c, a, i)
      BY <1>3, <2>5 DEF Inserted
    <2> HIDE DEF p, a, i
    <2>7. CASE ~Matches(B, c, a, i)
      <3>1. Taken(sk, c, a, i) = [sk EXCEPT !.buckets[a][c.keys[a]][i] = Op!Entry_Insert_with(c)]
        BY OpSame DEF Taken
      <3>2. new.buckets = Put(B, a, c.keys[a], [q EXCEPT ![i] = Op!Entry_Insert_with(c)])
        BY <2>6, <2>7, <3>1 DEF Put, Mine, Sketch
      <3> QED
        BY <1>1, <2>2, <2>4, <2>5, <2>7, <3>2 DEF Shape, FillShape
    <2>8. CASE Matches(B, c, a, i) /\ i = 0
      <3> DEFINE hot == Op!Entry_Insert(q[0])
      <3>1. new = CountedHot(sk, c, a)
        BY <2>6, <2>8
      <3>2. new.buckets = [B EXCEPT ![a][c.keys[a]][0] = hot]
        BY <2>5, <3>1, OpSame DEF CountedHot, Sketch
      <3>3. new.buckets = Put(B, a, c.keys[a], [q EXCEPT ![0] = hot])
        BY <3>2 DEF Put, Mine
      <3> QED
        BY <1>1, <2>2, <2>4, <2>8, <3>3 DEF Shape, HotShape
    <2>9. CASE Matches(B, c, a, i) /\ i # 0
      <3> DEFINE b == ColdBucket(B, c, a, i)
                 t == Op!KickTarget(c, a, b[1])
                 n == B[1 - a][t]
      <3>1. new = CountedCold(sk, c, a, i)
        BY <2>6, <2>9
      <3>2. b = Sk(sk)!Bucket_BucketSort([q EXCEPT ![i] = Sk(sk)!Entry_Insert(@)], i)
        BY OpSame DEF ColdBucket
      <3>3. t = Sk(sk)!KickTarget(c, a, b[1])
        BY OpSame
      <3>4. new = IF Sk(sk)!Kicks(b[1], n)
                  THEN [sk EXCEPT !.buckets[1 - a][t] = Pushed(n, b[1]),
                                  !.buckets[a][c.keys[a]] = Op!Bucket_Remove(b, 1)]
                  ELSE [sk EXCEPT !.buckets[a][c.keys[a]] = b]
        <4> DEFINE b0 == Sk(sk)!Bucket_BucketSort(
                            [Sk(sk)!Probe(c, a) EXCEPT ![i] = Sk(sk)!Entry_Insert(@)], i)
                   t0 == Sk(sk)!KickTarget(c, a, b0[1])
                   n0 == B[1 - a][t0]
        <4>1. new = IF Sk(sk)!Kicks(b0[1], n0)
                    THEN [sk EXCEPT
                            !.buckets[1 - a][t0] = [Sk(sk)!Bucket_down_stairs(n0, 0)
                                                       EXCEPT ![0] = b0[1]],
                            !.buckets[a][c.keys[a]] = Sk(sk)!Bucket_Remove(b0, 1)]
                    ELSE [sk EXCEPT !.buckets[a][c.keys[a]] = b0]
          BY <3>1, Zenon DEF CountedCold
        <4>2. b0 = b
          BY <2>5, <3>2
        <4> HIDE DEF b0, b
        <4>3. t0 = t
          BY <3>3, <4>2
        <4>4. n0 = n
          BY <4>3
        <4>5. Sk(sk)!Bucket_down_stairs(n, 0) = Op!Bucket_down_stairs(n, 0)
              /\ Sk(sk)!Bucket_Remove(b, 1) = Op!Bucket_Remove(b, 1)
          BY OpSame
        <4> HIDE DEF t0, n0, new, c, t, n
        <4> QED
          BY <4>1, <4>2, <4>3, <4>4, <4>5 DEF Pushed
      <3> HIDE DEF b, t, new
      <3>5. \/ new.buckets = Put(B, a, c.keys[a], b)
            \/ KickShape(B, new.buckets, c, a, b, t, n)
        <4>1. CASE Sk(sk)!Kicks(b[1], n)
          BY <3>4, <4>1 DEF KickShape, Put, Sketch, Sk!Kicks, t
        <4>2. CASE ~Sk(sk)!Kicks(b[1], n)
          BY <3>4, <4>2 DEF Put, Sketch
        <4> QED
          BY <4>1, <4>2
      <3>6. ColdShape(B, new.buckets, c)
        BY <2>2, <2>3, <2>9, <3>5 DEF ColdShape, b
      <3> QED
        BY <1>1, <2>4, <3>6 DEF Shape, new
    <2> QED
      BY <2>7, <2>8, <2>9
  <1> QED
    BY <1>2, <1>3

-----------------------------------------------------------------------------
(* Which branch empties an entry: a decay, and the program notices.        *)

\* Where the counters of a shard's table are in use nothing was emptied.
LEMMA StillInUse ==
    ASSUME NEW sk, NEW new,
           \A a \in Arrays, j \in Indices, k \in Slots :
                sk.buckets[a][j][k].count > 0 => new.buckets[a][j][k].count > 0
    PROVE  ~Emptied(sk, new)
  <1>1. InUse(sk) \subseteq InUse(new)
    BY DEF InUse, Slots
  <1> QED
    BY <1>1 DEF Emptied

\* A store with one bucket replaced.
LEMMA PutIs ==
    ASSUME NEW B \in Store, NEW a \in Arrays, NEW j \in Indices, NEW b
    PROVE  /\ Put(B, a, j, b)[a][j] = b
           /\ \A x \in Arrays, y \in Indices :
                x # a \/ y # j => Put(B, a, j, b)[x][y] = B[x][y]
           /\ b \in Bucket => Put(B, a, j, b) \in Store
  BY DEF Put, Store

\* One bucket is replaced by one with as many counters in use.
LEMMA PutKeepsInUse ==
    ASSUME NEW sk \in Sketch, NEW new, NEW a \in Arrays, NEW j \in Indices, NEW b,
           new.buckets = Put(sk.buckets, a, j, b),
           \A k \in Slots : sk.buckets[a][j][k].count > 0 => b[k].count > 0
    PROVE  ~Emptied(sk, new)
  <1>1. sk.buckets \in Store
    BY DEF Sketch
  <1>2. ASSUME NEW x \in Arrays, NEW y \in Indices, NEW k \in Slots,
               sk.buckets[x][y][k].count > 0
        PROVE  new.buckets[x][y][k].count > 0
    <2>1. CASE x = a /\ y = j
      BY <1>1, <1>2, <2>1, PutIs
    <2>2. CASE x # a \/ y # j
      BY <1>1, <1>2, <2>2, PutIs
    <2> QED
      BY <2>1, <2>2
  <1> QED
    BY <1>2, StillInUse

\* The packet's buckets are buckets.
LEMMA MineType ==
    ASSUME NEW B \in Store, NEW f \in Flows, NEW a \in Arrays
    PROVE  /\ Op!Context(f).keys[a] \in Indices
           /\ Mine(B, Op!Context(f), a) \in Bucket
           /\ \A k \in Slots : Mine(B, Op!Context(f), a)[k] \in Entry
  <1>1. Op!Context(f).keys[a] \in Indices
    BY ContextType, OpSame
  <1>2. Mine(B, Op!Context(f), a) \in Bucket
    BY <1>1 DEF Mine, Store
  <1> QED
    BY <1>1, <1>2 DEF Bucket

\* What an insertion and a decay make of a counter.
LEMMA EntryIs ==
    ASSUME NEW e \in Entry
    PROVE  /\ Op!Entry_Insert(e).count \in Nat
           /\ Op!Entry_Insert(e).count > 0
           /\ e.count \in Nat
           /\ e.count > 0 => Op!Entry_Lossy(e).count = e.count - 1
  BY SketchAssumption DEF Op!Entry_Insert, Op!Entry_Lossy, Entry

\* A hit on a hot entry empties no entry.
LEMMA HotEmptiesNothing ==
    ASSUME NEW sk \in Sketch, NEW new, NEW f \in Flows,
           HotShape(sk.buckets, new.buckets, Op!Context(f))
    PROVE  ~Emptied(sk, new)
  <1> DEFINE c == Op!Context(f)
             B == sk.buckets
  <1>1. PICK a \in Arrays : new.buckets = Put(B, a, c.keys[a],
                    [Mine(B, c, a) EXCEPT ![0] = Op!Entry_Insert(@)])
    BY DEF HotShape
  <1>2. B \in Store
    BY DEF Sketch
  <1> DEFINE q == Mine(B, c, a)
             b == [q EXCEPT ![0] = Op!Entry_Insert(@)]
  <1>3. c.keys[a] \in Indices /\ q \in Bucket /\ q = B[a][c.keys[a]]
        /\ new.buckets = Put(B, a, c.keys[a], b)
    BY <1>1, <1>2, MineType DEF Mine
  <1>4. \A k \in Slots : q[k].count > 0 => b[k].count > 0
    <2> HIDE DEF q
    <2> QED
      BY <1>3, EntryIs, Basics DEF Bucket
  <1> HIDE DEF b, c, q
  <1> QED
    BY <1>3, <1>4, PutKeepsInUse

\* An empty entry that is taken empties no entry.
LEMMA FillEmptiesNothing ==
    ASSUME NEW sk \in Sketch, NEW new, NEW f \in Flows,
           FillShape(sk.buckets, new.buckets, Op!Context(f))
    PROVE  ~Emptied(sk, new)
  <1> DEFINE c == Op!Context(f)
             B == sk.buckets
  <1>1. PICK a \in Arrays, i \in Slots :
                new.buckets = Put(B, a, c.keys[a],
                    [Mine(B, c, a) EXCEPT ![i] = Op!Entry_Insert_with(c)])
    BY DEF FillShape
  <1>2. B \in Store
    BY DEF Sketch
  <1> DEFINE q == Mine(B, c, a)
             b == [q EXCEPT ![i] = Op!Entry_Insert_with(c)]
  <1>3. c.keys[a] \in Indices /\ q \in Bucket /\ q = B[a][c.keys[a]]
        /\ new.buckets = Put(B, a, c.keys[a], b)
    BY <1>1, <1>2, MineType DEF Mine
  <1>4. \A k \in Slots : q[k].count > 0 => b[k].count > 0
    <2>1. Op!Entry_Insert_with(c).count = 1
      BY DEF Op!Entry_Insert_with
    <2> HIDE DEF q, c
    <2> QED
      BY <1>3, <2>1 DEF Bucket
  <1> HIDE DEF b, c, q
  <1> QED
    BY <1>3, <1>4, PutKeepsInUse

\* The bucket of a cold hit, sorted.
LEMMA ColdBucketType ==
    ASSUME NEW B \in Store, NEW f \in Flows, NEW a \in Arrays, NEW i \in Slots \ {0}
    PROVE  LET b == ColdBucket(B, Op!Context(f), a, i)
               q == Mine(B, Op!Context(f), a)
           IN  /\ b \in Bucket
               /\ \A k \in Slots : \/ k > i /\ b[k] = q[k]
                                   \/ k <= i /\ b[k] = Op!Entry_Insert(q[i])
                                   \/ k < i /\ b[k] = q[k]
                                   \/ k # 0 /\ k <= i /\ b[k] = q[k - 1]
  <1> DEFINE c == Op!Context(f)
             q == Mine(B, c, a)
             e == Op!Entry_Insert(q[i])
             w == [q EXCEPT ![i] = e]
             b == Op!Bucket_BucketSort(w, i)
  <1>1. q \in Bucket /\ q[i] \in Entry
    BY MineType
  <1>2. b = ColdBucket(B, c, a, i)
    BY DEF ColdBucket
  <1> HIDE DEF q, c
  <1>3. e \in Entry
    BY <1>1, EntryUpdate, OpSame
  <1> HIDE DEF e
  <1>4. w \in Bucket /\ w[i] = e /\ \A k \in Slots \ {i} : w[k] = q[k]
    BY <1>1, <1>3 DEF Bucket
  <1> HIDE DEF w
  <1>5. b \in Bucket
    BY <1>4, SortedBucket, OpSame
  <1>6. ASSUME NEW k \in Slots
        PROVE  \/ k > i /\ b[k] = w[k]
               \/ k <= i /\ b[k] = w[i]
               \/ k < i /\ b[k] = w[k]
               \/ k # 0 /\ k <= i /\ b[k] = w[k - 1]
    <2> DEFINE Passes(x) == \A r \in x .. i - 1 : w[r].count < w[i].count
    <2>0. b[k] = IF k > i \/ ~Passes(k) THEN w[k]
            ELSE IF k = 0 \/ ~Passes(k - 1) THEN w[i]
            ELSE w[k - 1]
      BY OpSets DEF Op!Bucket_BucketSort
    <2>1. k \in Int /\ i \in Int
      BY Basics
    <2>2. k = i => Passes(k)
      BY <2>1
    <2> HIDE DEF Passes, b
    <2> QED
      BY <2>0, <2>1, <2>2
  <1> HIDE DEF b
  <1>7. \A k \in Slots : k # 0 => k - 1 \in Slots /\ k \in Int
    BY Basics
  <1>8. i \in Int
    BY Basics
  <1>9. ASSUME NEW k \in Slots
        PROVE  \/ k > i /\ b[k] = q[k]
               \/ k <= i /\ b[k] = e
               \/ k < i /\ b[k] = q[k]
               \/ k # 0 /\ k <= i /\ b[k] = q[k - 1]
    <2>1. k > i \/ k < i => w[k] = q[k]
      BY <1>4, <1>8
    <2>2. k # 0 /\ k <= i => w[k - 1] = q[k - 1]
      BY <1>4, <1>7, <1>8
    <2> QED
      BY <1>4, <1>6, <2>1, <2>2
  <1> QED
    BY <1>2, <1>5, <1>9 DEF c, q, e

\* What the kick of a cold hit does to the table.
LEMMA KickIs ==
    ASSUME NEW B \in Store, NEW f \in Flows, NEW a \in Arrays, NEW i \in Slots \ {0},
           NEW C, NEW t, NEW n,
           KickShape(B, C, Op!Context(f), a, ColdBucket(B, Op!Context(f), a, i), t, n)
    PROVE  LET c == Op!Context(f)
               b == ColdBucket(B, c, a, i)
           IN  /\ t \in Indices /\ 1 - a \in Arrays /\ 1 - a # a /\ n = B[1 - a][t] /\ n \in Bucket
               /\ b[1].count > n[0].count
               /\ C[a][c.keys[a]] = Op!Bucket_Remove(b, 1)
               /\ C[1 - a][t] = Pushed(n, b[1])
               /\ \A x \in Arrays, y \in Indices :
                    (x # a \/ y # c.keys[a]) /\ (x # 1 - a \/ y # t) => C[x][y] = B[x][y]
  <1> DEFINE c == Op!Context(f)
             b == ColdBucket(B, c, a, i)
             D == Put(B, 1 - a, t, Pushed(n, b[1]))
  <1>1. /\ t = Op!KickTarget(c, a, b[1])
        /\ n = B[1 - a][t]
        /\ b[1].count > n[0].count
        /\ C = Put(D, a, c.keys[a], Op!Bucket_Remove(b, 1))
    BY DEF KickShape
  <1>2. c.keys[a] \in Indices /\ c.hash_value[a] \in Int
    BY ContextType, OpSame
  <1>3. b \in Bucket /\ b[1] \in Entry
    <2>1. b \in Bucket
      BY ColdBucketType
    <2> QED
      BY <2>1, Basics DEF Bucket
  <1> HIDE DEF c, b
  <1>4. t \in Indices
    <2> DEFINE s == c.hash_value[a] + (IF a = 0 THEN b[1].fingerprint ELSE -b[1].fingerprint)
               w == s % HASH_SPACE
    <2>1. s \in Int /\ HASH_SPACE \in Nat \ {0} /\ MAX_BUCKETS \in Nat \ {0}
      BY <1>2, <1>3, Basics, SketchAssumption
    <2> HIDE DEF s
    <2>2. w \in Int
      BY <2>1, DivMod
    <2> HIDE DEF w
    <2>3. w % MAX_BUCKETS \in Indices
      BY <2>1, <2>2, DivMod DEF Indices
    <2> QED
      BY <1>1, <2>3 DEF Op!KickTarget, w, s
  <1>5. 1 - a \in Arrays /\ 1 - a # a
    BY DEF Arrays
  <1>6. n \in Bucket
    BY <1>1, <1>4, <1>5 DEF Store
  <1>7. Pushed(n, b[1]) \in Bucket
    <2>1. n \in Op!Bucket /\ b[1] \in Op!Entry
      BY <1>3, <1>6, OpSets
    <2>2. [Op!Bucket_down_stairs(n, 0) EXCEPT ![0] = b[1]] \in Op!Bucket
      BY <2>1, OpAssumptions, Op!PushKeeps
    <2> QED
      BY <2>2, OpSets DEF Pushed
  <1> HIDE DEF D
  <1>8. D \in Store /\ D[1 - a][t] = Pushed(n, b[1])
        /\ \A x \in Arrays, y \in Indices : x # 1 - a \/ y # t => D[x][y] = B[x][y]
    BY <1>4, <1>5, <1>7, PutIs DEF D
  <1>9. /\ C[a][c.keys[a]] = Op!Bucket_Remove(b, 1)
        /\ \A x \in Arrays, y \in Indices : x # a \/ y # c.keys[a] => C[x][y] = D[x][y]
    BY <1>1, <1>2, <1>8, PutIs
  <1> QED
    BY <1>1, <1>4, <1>5, <1>6, <1>8, <1>9 DEF b, c

\* A hit on a cold entry empties none, wherever its sort and kickout move it.
LEMMA ColdEmptiesNothing ==
    ASSUME NEW sk \in Sketch, NEW new \in Sketch, NEW f \in Flows,
           ColdShape(sk.buckets, new.buckets, Op!Context(f))
    PROVE  ~Emptied(sk, new)
  <1> DEFINE c == Op!Context(f)
             B == sk.buckets
  <1>1. PICK a \in Arrays, i \in Slots \ {0} :
            /\ Busy(B, c, i)
            /\ \/ new.buckets = Put(B, a, c.keys[a], ColdBucket(B, c, a, i))
               \/ \E t, n : KickShape(B, new.buckets, c, a, ColdBucket(B, c, a, i), t, n)
    BY DEF ColdShape
  <1>2. B \in Store /\ new.buckets \in Store
    BY DEF Sketch
  <1> DEFINE b == ColdBucket(B, c, a, i)
             q == Mine(B, c, a)
  <1>3. q \in Bucket /\ q = B[a][c.keys[a]] /\ c.keys[a] \in Indices /\ q[i] \in Entry
        /\ \A k \in Slots : k < i => q[k].count > 0
    BY <1>1, <1>2, MineType DEF Mine, Busy
  <1>4. /\ b \in Bucket
        /\ \A k \in Slots : \/ k > i /\ b[k] = q[k]
                            \/ k <= i /\ b[k] = Op!Entry_Insert(q[i])
                            \/ k < i /\ b[k] = q[k]
                            \/ k # 0 /\ k <= i /\ b[k] = q[k - 1]
    BY <1>2, ColdBucketType
  <1>5. CASE new.buckets = Put(B, a, c.keys[a], b)
    <2>1. Op!Entry_Insert(q[i]).count > 0
      BY <1>3, EntryIs
    <2> HIDE DEF b, q, c
    <2>2. \A k \in Slots : q[k].count > 0 => b[k].count > 0
      BY <1>3, <1>4, <2>1, Basics, SMTT(30)
    <2> QED
      BY <1>3, <1>5, <2>2, PutKeepsInUse
  <1>6. CASE \E t, n : KickShape(B, new.buckets, c, a, b, t, n)
    <2>1. PICK t, n : KickShape(B, new.buckets, c, a, b, t, n)
      BY <1>6
    <2>2. /\ t \in Indices /\ 1 - a \in Arrays /\ n = B[1 - a][t] /\ n \in Bucket
          /\ b[1].count > n[0].count
          /\ new.buckets[1 - a][t] = Pushed(n, b[1])
      BY <1>2, <2>1, KickIs
    <2> HIDE DEF b, q, c
    <2>3. new.buckets[1 - a][t][0] = b[1]
      BY <2>2, OpSets, Basics DEF Pushed, Op!Bucket_down_stairs
    <2>4. b[1].count \in Nat /\ n[0].count \in Nat
      BY <1>4, <2>2, Basics DEF Bucket
    <2>5. ~(new.buckets[1 - a][t][0].count <= B[1 - a][t][0].count)
      BY <2>2, <2>3, <2>4
    <2> QED
      BY <2>2, <2>5 DEF Emptied
  <1> QED
    BY <1>1, <1>5, <1>6

\* A decay empties an entry if it leaves 0 in the last slot of one of the
\* packet's buckets: the program's own test.
LEMMA LossyEmpties ==
    ASSUME NEW sk \in Sketch, NEW new \in Sketch, NEW f \in Flows,
           LossyShape(sk.buckets, new.buckets, Op!Context(f))
    PROVE  Emptied(sk, new) <=>
             \E a \in Arrays : Mine(new.buckets, Op!Context(f), a)[MAX_ENTRY - 1].count = 0
  <1> DEFINE c == Op!Context(f)
             B == sk.buckets
             C == new.buckets
             last == MAX_ENTRY - 1
  <1>1. PICK a \in Arrays :
            /\ Busy(B, c, MAX_ENTRY)
            /\ C = Put(B, a, c.keys[a], [Mine(B, c, a) EXCEPT ![last] = Op!Entry_Lossy(@)])
    BY DEF LossyShape
  <1>2. B \in Store /\ C \in Store /\ last \in Slots /\ last # 0 /\ last < MAX_ENTRY
        /\ \A k \in Slots : k < MAX_ENTRY
    BY Basics, SketchAssumption DEF Sketch, Slots
  <1> DEFINE q == Mine(B, c, a)
             j == c.keys[a]
             b == [q EXCEPT ![last] = Op!Entry_Lossy(@)]
             p == <<a, j, last>>
  <1>3. /\ q \in Bucket /\ q = B[a][j] /\ j \in Indices /\ q[last] \in Entry
        /\ \A x \in Arrays : c.keys[x] \in Indices
    BY <1>2, MineType DEF Mine
  <1>4. \A x \in Arrays, k \in Slots : Mine(B, c, x)[k].count > 0
    BY <1>1, <1>2 DEF Busy
  <1>5. q[last].count \in Nat /\ q[last].count > 0
    BY <1>2, <1>3, <1>4, EntryIs
  <1> HIDE DEF c, last
  <1>6. b[last].count = q[last].count - 1 /\ \A k \in Slots \ {last} : b[k] = q[k]
    <2> HIDE DEF q
    <2> QED
      BY <1>2, <1>3, <1>5, EntryIs DEF Bucket
  <1> HIDE DEF b, q
  <1>7. C[a][j] = b
        /\ \A x \in Arrays, y \in Indices : x # a \/ y # j => C[x][y] = B[x][y]
    <2>1. C = Put(B, a, j, b)
      BY <1>1 DEF b, q
    <2> QED
      BY <1>2, <1>3, <2>1, PutIs
  <1>8. \A x \in Arrays : x # a => Mine(C, c, x)[last].count > 0
    BY <1>2, <1>3, <1>4, <1>7 DEF Mine
  <1>9. Mine(C, c, a) = b
    BY <1>7 DEF Mine
  <1>10. (\E x \in Arrays : Mine(C, c, x)[last].count = 0) <=> b[last].count = 0
    BY <1>8, <1>9
  <1>11. ASSUME b[last].count # 0
         PROVE  ~Emptied(sk, new)
    <2>1. \A k \in Slots : q[k].count > 0 => b[k].count > 0
      BY <1>5, <1>6, <1>11
    <2> QED
      BY <1>1, <1>3, <2>1, PutKeepsInUse DEF b, q
  <1>12. ASSUME b[last].count = 0
         PROVE  Emptied(sk, new)
    <2>1. p \in InUse(sk) /\ p \notin InUse(new)
      <3>1. p[1] = a /\ p[2] = j /\ p[3] = last
        OBVIOUS
      <3>2. p \in Arrays \X Indices \X (0 .. MAX_ENTRY - 1)
        BY <1>2, <1>3 DEF Slots
      <3>3. B[a][j][last].count > 0 /\ C[a][j][last].count = 0
        BY <1>3, <1>5, <1>7, <1>12
      <3> HIDE DEF p, q, b
      <3> QED
        BY <3>1, <3>2, <3>3 DEF InUse
    <2>2. \A x \in Arrays, y \in Indices, k \in Slots :
             C[x][y][k].count > 0 => B[x][y][k].count > 0
      <3>1. \A k \in Slots : b[k].count > 0 => q[k].count > 0
        BY <1>5, <1>6, <1>12
      <3>2. q = B[a][j]
        BY <1>3
      <3> HIDE DEF q
      <3> QED
        BY <1>7, <3>1, <3>2
    <2>3. InUse(new) \subseteq InUse(sk)
      BY <2>2 DEF InUse, Slots
    <2>4. \A x \in Arrays, y \in Indices : C[x][y][0] = B[x][y][0]
      BY <1>2, <1>3, <1>6, <1>7, Basics
    <2>5. \A x \in Arrays, y \in Indices : B[x][y][0].count \in Nat
      BY <1>2, StoreUpdate
    <2>6. \A x \in Arrays, y \in Indices : C[x][y][0].count <= B[x][y][0].count
      BY <2>4, <2>5
    <2> QED
      BY <2>1, <2>3, <2>6 DEF Emptied
  <1> QED
    BY <1>10, <1>11, <1>12 DEF c, last

\* The program's test for an eviction is right: it counts one exactly when
\* decay has emptied an entry.
LEMMA EvictsIsEmptied ==
    ASSUME NEW sk \in Sketch, NEW f \in Flows
    PROVE  Evicts(sk, f) <=> Emptied(sk, Inserted(sk, f))
  <1>1. Shape(sk, Inserted(sk, f), f) /\ Inserted(sk, f) \in Sketch
    BY InsertedShape, InsertedType DEF Grown
  <1> DEFINE new == Inserted(sk, f)
             c == Op!Context(f)
  <1> HIDE DEF new, c
  <1>2. \/ /\ HotShape(sk.buckets, new.buckets, c)
              \/ FillShape(sk.buckets, new.buckets, c)
              \/ ColdShape(sk.buckets, new.buckets, c)
           /\ ~Evicts(sk, f)
        \/ /\ LossyShape(sk.buckets, new.buckets, c)
           /\ Evicts(sk, f) <=> \E a \in Arrays : Mine(new.buckets, c, a)[MAX_ENTRY - 1].count = 0
    BY <1>1, Zenon DEF Shape, new, c
  <1>3. new \in Sketch
    BY <1>1 DEF new
  <1> QED
    BY <1>2, <1>3, HotEmptiesNothing, FillEmptiesNothing, ColdEmptiesNothing, LossyEmpties
       DEF new, c

-----------------------------------------------------------------------------
(* Accounts: packets, evictions and what the dump reports of them.         *)

\* The counters, and the history they are compared with.
AccountsOK ==
    /\ loader \in Loaders
    /\ insert_counter \in 0 .. Traffic[loader]
    /\ eviction_map \in 0 .. insert_counter
    /\ arrived \in [Shards -> [Classes -> 0 .. insert_counter]]
    /\ {emptied, lost, seen.emptied} \subseteq Nat
    /\ seen.emptied <= emptied
    /\ eviction_map + lost = emptied
    /\ reported # -1 => /\ pc \in {"cleanup", "close", "done"}
                        /\ reported \in 0 .. insert_counter
                        /\ seen.emptied <= reported + lost
                        /\ reported + lost <= emptied

\* The other variables.
PlacesOK ==
    /\ exiting \in BOOLEAN /\ link \in BOOLEAN
    /\ err \in {0, 1}
    /\ tail_call_map \subseteq tail_progs
    /\ pc \in Before => tail_call_map = {}
    /\ pc = "tails" => tail_call_map # tail_progs
    /\ shard \in 0 .. SHARD_COUNT
    /\ cell \in 0 .. 2 * MAX_BUCKETS
    /\ id \in Flows \union {NoFlow}
    /\ sorted \subseteq [shard : Shards, array : Arrays, index : Indices,
                         id : Flows \union {NoFlow}, count : 0 .. COUNT_MAX]

\* Nothing is counted when main starts.
LEMMA AccountsInit == Init => AccountsOK /\ PlacesOK
  <1> SUFFICES ASSUME Init PROVE AccountsOK /\ PlacesOK
    OBVIOUS
  <1>1. Traffic[loader] \in Nat /\ loader \in Loaders
    BY PacketsAssumption DEF Init
  <1>2. AccountsOK
    BY <1>1 DEF Init, Init_maps, AccountsOK
  <1>3. PlacesOK
    <2>1. 0 \in 0 .. SHARD_COUNT /\ 0 \in 0 .. 2 * MAX_BUCKETS
      BY SketchAssumption, ShardAssumption
    <2> QED
      BY <2>1 DEF Init, PlacesOK
  <1> QED
    BY <1>2, <1>3

\* A packet is counted where it arrives, and emptied entries with it.
LEMMA AccountsPacket ==
    ASSUME IInv, AccountsOK, NEW f \in Flows, Packet(f)
    PROVE  AccountsOK'
  <1> DEFINE s == IF loader = "m" THEN get_shard_id(f) ELSE 0
             e == IF Evicts(sketch_shard[s], f) THEN 1 ELSE 0
  <1>1. s \in Shards /\ sketch_shard \in [Shards -> Sketch]
    BY SketchCount DEF IInv, SketchesOK
  <1>2. /\ insert_counter < Traffic[loader]
        /\ sketch_shard' = [sketch_shard EXCEPT ![s] = Inserted(@, f)]
        /\ eviction_map' = eviction_map + e
        /\ insert_counter' = insert_counter + 1
        /\ arrived' = [arrived EXCEPT ![s][Class(f)] = @ + 1]
        /\ emptied' = emptied + (IF Emptied(sketch_shard[s], sketch_shard'[s]) THEN 1 ELSE 0)
        /\ UNCHANGED <<main, lost, seen>>
    BY Zenon DEF Packet, Insert
  <1> HIDE DEF s
  <1>3. Evicts(sketch_shard[s], f) <=> Emptied(sketch_shard[s], sketch_shard'[s])
    <2>1. sketch_shard[s] \in Sketch /\ sketch_shard'[s] = Inserted(sketch_shard[s], f)
      BY <1>1, <1>2
    <2> QED
      BY <2>1, EvictsIsEmptied
  <1>4. emptied' = emptied + e /\ e \in {0, 1}
    BY <1>2, <1>3
  <1> HIDE DEF e
  <1>5. arrived' \in [Shards -> [Classes -> 0 .. insert_counter']]
    <2>1. insert_counter \in Nat /\ arrived \in [Shards -> [Classes -> 0 .. insert_counter]]
      BY DEF AccountsOK
    <2>2. \A n \in 0 .. insert_counter : n \in 0 .. insert_counter' /\ n + 1 \in 0 .. insert_counter'
      BY <1>2, <2>1
    <2>3. Class(f) \in Classes
      BY DEF Classes
    <2> HIDE DEF Classes
    <2> QED
      BY <1>1, <1>2, <2>1, <2>2, <2>3
  <1>6. loader' = loader /\ pc' = pc /\ reported' = reported /\ seen' = seen /\ lost' = lost
    BY <1>2 DEF main, startup, dump
  <1>7. Traffic[loader] \in Nat
    BY PacketsAssumption DEF AccountsOK
  <1> QED
    BY <1>2, <1>4, <1>5, <1>6, <1>7 DEF AccountsOK

\* Every step of main and of the traffic keeps the accounts.
LEMMA AccountsNext ==
    ASSUME IInv, AccountsOK, [Next]_vars
    PROVE  AccountsOK'
  <1>1. CASE open_and_load
    BY <1>1 DEF open_and_load, AccountsOK, Goto, maps, startup, dump, history
  <1>2. CASE InitSketch
    BY <1>2 DEF InitSketch, AccountsOK, Goto, maps, startup, dump, history
  <1>3. CASE OpenObject
    BY <1>3 DEF OpenObject, AccountsOK, Goto, maps, startup, dump, history
  <1>4. CASE FillTailSlot
    BY <1>4 DEF FillTailSlot, AccountsOK, Goto, maps, startup, dump, history
  <1>5. CASE Attach
    BY <1>5 DEF Attach, AccountsOK, Goto, maps, startup, dump, history
  <1>6. CASE ResetEvictions
    BY <1>6 DEF ResetEvictions, AccountsOK, Goto, maps, startup, dump, history
  <1>7. CASE Loop
    <2>1. seen'.emptied = emptied /\ reported = -1 /\ pc = "loop"
          /\ UNCHANGED <<loader, insert_counter, eviction_map, arrived, emptied, lost, reported>>
      BY <1>7 DEF Loop, AccountsOK, maps, startup, dump
    <2> QED
      BY <2>1 DEF AccountsOK
  <1>8. CASE LookupFails
    BY <1>8 DEF LookupFails, AccountsOK, Goto, maps, startup, dump, history
  <1>9. CASE CopyId
    BY <1>9 DEF CopyId, AccountsOK, Goto, maps, startup, dump, history
  <1>10. CASE CopyCount
    BY <1>10 DEF CopyCount, AccountsOK, Goto, maps, startup, dump, history
  <1>11. CASE ReadEvictions
    BY <1>11 DEF ReadEvictions, AccountsOK, Goto, maps, startup, dump, history
  <1>12. CASE DestroyLink
    BY <1>12 DEF DestroyLink, AccountsOK, Goto, maps, startup, dump, history
  <1>13. CASE Close
    BY <1>13 DEF Close, AccountsOK, Goto, maps, startup, dump, history
  <1>14. CASE handle_signal
    BY <1>14 DEF handle_signal, AccountsOK, Goto, maps, startup, dump, history
  <1>20. CASE UNCHANGED vars
    BY <1>20 DEF AccountsOK, vars, maps, main, startup, dump, history
  <1>21. ASSUME NEW f \in Flows, Packet(f)
         PROVE  AccountsOK'
    BY <1>21, AccountsPacket
  <1> QED
    BY <1>1, <1>2, <1>3, <1>4, <1>5, <1>6, <1>7, <1>8, <1>9, <1>10, <1>11, <1>12, <1>13, <1>14,
       <1>20, <1>21 DEF Next, Main

\* Main is in the middle of a sketch.
Copying == {"copy id", "copy count"}

\* What the dump copies is an entry of a shard the loader uses.
LEMMA CopiedType ==
    ASSUME IInv, DumpOK, pc \in Copying
    PROVE  /\ shard \in Shards /\ shard \in Nat /\ shard < Sketches /\ cell \in Nat
           /\ cell \div MAX_BUCKETS \in Arrays /\ cell % MAX_BUCKETS \in Indices
           /\ Copied \in Entry
  <1> DEFINE a == cell \div MAX_BUCKETS
             j == cell % MAX_BUCKETS
  <1>1. MAX_BUCKETS \in Nat \ {0} /\ SHARD_COUNT \in Nat /\ Sketches \in Nat
    BY SketchAssumption, SketchCount
  <1>2. shard \in Nat /\ cell \in Nat /\ shard < Sketches /\ cell < 2 * MAX_BUCKETS
    BY DEF DumpOK, CursorOK, Copying
  <1>3. shard \in Shards
    <2>1. shard \in 0 .. Sketches - 1
      BY <1>1, <1>2
    <2> QED
      BY <2>1, SketchCount
  <1>4. a \in Arrays /\ j \in Indices
    <2>1. 2 \in Nat /\ cell \in Int
      BY <1>2
    <2>2. a \in 0 .. 2 - 1
      BY <1>1, <1>2, <2>1, DivBelow, Zenon
    <2>3. j \in 0 .. MAX_BUCKETS - 1
      BY <1>1, <2>1, DivMod, Zenon
    <2> HIDE DEF a, j
    <2> QED
      BY <2>2, <2>3 DEF Arrays, Indices
  <1>5. Copied = sketch_shard[shard].buckets[a][j][0]
    BY DEF Copied, Head
  <1> HIDE DEF a, j
  <1>6. sketch_shard[shard].buckets \in Store
    BY <1>3 DEF IInv, SketchesOK, Sketch
  <1>7. Copied \in Entry
    BY <1>4, <1>5, <1>6, Basics DEF Store, Bucket
  <1> QED
    BY <1>2, <1>3, <1>4, <1>7 DEF a, j

\* Every step keeps the cursors, flags and rows in their ranges.
LEMMA PlacesNext ==
    ASSUME IInv, DumpOK, PlacesOK, [Next]_vars
    PROVE  PlacesOK'
  <1>1. CASE open_and_load
    BY <1>1 DEF open_and_load, PlacesOK, Before, Goto, maps, startup, dump, history
  <1>2. CASE InitSketch
    <2>1. shard \in 0 .. Sketches - 1 /\ pc = "init"
      BY <1>2 DEF InitSketch, IInv, SketchesOK
    <2>2. shard' \in 0 .. SHARD_COUNT
      BY <1>2, <2>1, SketchCount DEF InitSketch
    <2> QED
      BY <1>2, <2>1, <2>2 DEF InitSketch, PlacesOK, Before, Goto, startup, dump
  <1>3. CASE OpenObject
    <2>1. {} # tail_progs
      BY DEF tail_progs
    <2> QED
      BY <1>3, <2>1 DEF OpenObject, PlacesOK, Before, Goto, maps, startup, dump, history
  <1>4. CASE FillTailSlot
    <2> DEFINE S == tail_progs \ tail_call_map
    <2>1. S \subseteq 1 .. 3 /\ S # {}
      BY <1>4 DEF FillTailSlot, PlacesOK, tail_progs
    <2>2. \E x \in S : \A y \in S : x <= y
      <3>1. S \subseteq Nat
        BY <2>1
      <3> HIDE DEF S
      <3> QED
        BY <2>1, <3>1, LeastNumber
    <2>3. Min(S) \in S
      BY <2>2 DEF Min
    <2> HIDE DEF S
    <2>4. tail_call_map' \in {tail_call_map, tail_call_map \union {Min(S)}} /\ pc = "tails"
          /\ pc' \in {"attach", "tails", "cleanup"}
          /\ (pc' = "tails" => tail_call_map' # tail_progs)
      BY <1>4 DEF FillTailSlot, Goto, S
    <2>5. Min(S) \in tail_progs
      BY <2>3 DEF S
    <2>6. tail_call_map' \subseteq tail_progs
      BY <2>4, <2>5 DEF PlacesOK
    <2>7. UNCHANGED <<exiting, link, err, shard, cell, id, sorted>>
      BY <1>4 DEF FillTailSlot, dump
    <2> QED
      BY <2>4, <2>6, <2>7 DEF PlacesOK, Before
  <1>5. CASE Attach
    BY <1>5 DEF Attach, PlacesOK, Before, Goto, maps, startup, dump, history
  <1>6. CASE ResetEvictions
    BY <1>6 DEF ResetEvictions, PlacesOK, Before, Goto, maps, startup, dump, history
  <1>7. CASE Loop
    BY <1>7 DEF Loop, PlacesOK, Before, Goto, maps, startup, dump, history
  <1>8. CASE LookupFails
    <2>1. shard \in Nat /\ shard < Sketches /\ shard' = shard + 1
      BY <1>8 DEF LookupFails, DumpOK, CursorOK
    <2>2. shard' \in 0 .. SHARD_COUNT
      <3>1. Sketches \in Nat /\ SHARD_COUNT \in Nat /\ Sketches <= SHARD_COUNT
        BY SketchCount
      <3> QED
        BY <2>1, <3>1
    <2>3. pc' \in {"cleanup", "copy id", "evictions"}
      BY <1>8 DEF LookupFails, Goto
    <2>4. UNCHANGED <<exiting, link, err, tail_call_map, cell, id, sorted>>
      BY <1>8 DEF LookupFails, startup, dump
    <2> QED
      BY <2>2, <2>3, <2>4 DEF PlacesOK, Before
  <1>9. CASE CopyId
    <2>1. Copied \in Entry /\ id' = Copied.id /\ pc' = "copy count"
      BY <1>9, CopiedType DEF CopyId, Goto, Copying
    <2>2. id' \in Flows \union {NoFlow}
      BY <2>1 DEF Entry
    <2>3. UNCHANGED <<exiting, link, err, tail_call_map, shard, cell, sorted>>
      BY <1>9 DEF CopyId, startup
    <2> QED
      BY <2>1, <2>2, <2>3 DEF PlacesOK, Before
  <1>10. CASE CopyCount
    <2> DEFINE row == [shard |-> shard, array |-> cell \div MAX_BUCKETS,
                       index |-> cell % MAX_BUCKETS, id |-> id, count |-> Copied.count]
    <2>1. /\ pc' \in {"copy id", "evictions", "cleanup"}
          /\ sorted' \in {sorted, sorted \union {row}}
          /\ id' = NoFlow
          /\ \/ shard' = shard /\ cell' = cell + 1 /\ cell + 1 < 2 * MAX_BUCKETS
             \/ shard' = shard + 1 /\ cell' = 0
          /\ UNCHANGED <<exiting, link, err, tail_call_map>>
      BY <1>10, Zenon DEF CopyCount, startup, Goto
    <2>2. /\ shard \in Shards /\ shard \in Nat /\ shard < Sketches /\ cell \in Nat
          /\ cell \div MAX_BUCKETS \in Arrays /\ cell % MAX_BUCKETS \in Indices
          /\ Copied \in Entry
      BY <1>10, CopiedType DEF CopyCount, Copying
    <2>3. row \in [shard : Shards, array : Arrays, index : Indices,
                   id : Flows \union {NoFlow}, count : 0 .. COUNT_MAX]
      BY <2>2 DEF PlacesOK, Entry
    <2>4. shard' \in 0 .. SHARD_COUNT /\ cell' \in 0 .. 2 * MAX_BUCKETS
      <3>1. Sketches \in Nat /\ SHARD_COUNT \in Nat /\ Sketches <= SHARD_COUNT
            /\ MAX_BUCKETS \in Nat
        BY SketchCount, SketchAssumption
      <3>2. \/ shard' = shard /\ cell' = cell + 1 /\ cell + 1 < 2 * MAX_BUCKETS
            \/ shard' = shard + 1 /\ cell' = 0
        BY <2>1
      <3>3. shard \in Nat /\ shard < Sketches /\ cell \in Nat
        BY <2>2
      <3> QED
        BY <3>1, <3>2, <3>3
    <2> HIDE DEF row
    <2> QED
      BY <2>1, <2>3, <2>4 DEF PlacesOK, Before
  <1>11. CASE ReadEvictions
    BY <1>11 DEF ReadEvictions, PlacesOK, Before, Goto, maps, startup, dump, history
  <1>12. CASE DestroyLink
    BY <1>12 DEF DestroyLink, PlacesOK, Before, Goto, maps, startup, dump, history
  <1>13. CASE Close
    BY <1>13 DEF Close, PlacesOK, Before, Goto, maps, startup, dump, history
  <1>14. CASE handle_signal
    BY <1>14 DEF handle_signal, PlacesOK, Before, Goto, maps, startup, dump, history
  <1>20. CASE UNCHANGED vars
    BY <1>20 DEF PlacesOK, vars, maps, main, startup, dump, history
  <1>21. ASSUME NEW f \in Flows, Packet(f)
         PROVE  PlacesOK'
    BY <1>21 DEF Packet, PlacesOK, main, startup, dump
  <1> QED
    BY <1>1, <1>2, <1>3, <1>4, <1>5, <1>6, <1>7, <1>8, <1>9, <1>10, <1>11, <1>12, <1>13, <1>14,
       <1>20, <1>21 DEF Next, Main

\* No loader's traffic exceeds MaxPackets.
LEMMA TrafficBound ==
    ASSUME NEW l \in Loaders
    PROVE  MaxPackets \in Nat /\ Traffic[l] \in Nat /\ Traffic[l] <= MaxPackets
  <1> DEFINE S == {Traffic[x] : x \in Loaders}
  <1>1. \A x \in Loaders : Traffic[x] \in Nat
    BY PacketsAssumption
  <1>2. \E m \in S : \A y \in S : m >= y
    <2>1. PICK p \in Loaders : \A x \in Loaders : Traffic[x] <= Traffic[p]
      <3> DEFINE Best(p, T) == p \in T /\ \A x \in T : Traffic[x] <= Traffic[p]
      <3>1. ASSUME NEW T \in SUBSET Loaders, NEW y \in Loaders, T # {} => \E p : Best(p, T)
            PROVE  \E p : Best(p, T \union {y})
        <4>1. CASE T = {}
          BY <1>1, <4>1
        <4>2. CASE T # {}
          <5>1. PICK p : Best(p, T)
            BY <3>1, <4>2
          <5>2. Traffic[y] \in Nat /\ Traffic[p] \in Nat /\ \A x \in T : Traffic[x] \in Nat
            BY <1>1, <5>1
          <5>3. Best(p, T \union {y}) \/ Best(y, T \union {y})
            BY <5>1, <5>2
          <5> QED
            BY <5>3
        <4> QED
          BY <4>1, <4>2
      <3> HIDE DEF Best
      <3> DEFINE A == Loaders \cap {"s"}
                 B == Loaders \cap {"s", "t"}
      <3>2. A # {} => \E p : Best(p, A)
        <4>1. A # {} => "s" \in Loaders /\ A = {} \union {"s"}
          OBVIOUS
        <4> QED
          BY <3>1, <4>1
      <3>3. B # {} => \E p : Best(p, B)
        <4>1. B = A \/ ("t" \in Loaders /\ B = A \union {"t"})
          OBVIOUS
        <4>2. A \in SUBSET Loaders
          OBVIOUS
        <4> HIDE DEF A, B
        <4> QED
          BY <3>1, <3>2, <4>1, <4>2
      <3>4. \E p : Best(p, Loaders)
        <4>1. Loaders = B \/ ("m" \in Loaders /\ Loaders = B \union {"m"})
          BY LoadersAssumption
        <4>2. B \in SUBSET Loaders
          OBVIOUS
        <4> HIDE DEF B
        <4> QED
          BY <3>1, <3>3, <4>1, <4>2
      <3> QED
        BY <3>4 DEF Best
    <2> QED
      BY <1>1, <2>1
  <1>3. MaxPackets \in S /\ \A y \in S : MaxPackets >= y
    BY <1>2, Zenon DEF MaxPackets, Max
  <1> QED
    BY <1>1, <1>3

\* Every variable keeps to its values: no counter leaves its range, no row
\* names a bucket that is not there, and the counted evictions are no more
\* than the packets.
THEOREM TypeCorrect == Spec => []TypeOK
  <1>1. IInv /\ AccountsOK /\ PlacesOK => TypeOK
    <2> SUFFICES ASSUME IInv, AccountsOK, PlacesOK PROVE TypeOK
      OBVIOUS
    <2>1. sketch_shard \in [Shards -> [buckets : [Arrays -> [Indices -> Sk(Zeroed)!Bucket]],
                                       f_max : 0 .. COUNT_MAX, threshold1 : Nat]]
      <3>1. Sk(Zeroed)!Bucket = Bucket
        BY DEF Sk!Bucket, Sk!Slots, Sk!Entry, Bucket, Slots, Entry
      <3> QED
        BY <3>1 DEF IInv, SketchesOK, Sketch, Store
    <2>2. insert_counter \in 0 .. MaxPackets
          /\ arrived \in [Shards -> [Classes -> 0 .. MaxPackets]]
      <3>1. MaxPackets \in Nat /\ insert_counter \in 0 .. MaxPackets
        BY TrafficBound DEF AccountsOK
      <3>2. 0 .. insert_counter \subseteq 0 .. MaxPackets
        BY <3>1
      <3> QED
        BY <3>1, <3>2 DEF AccountsOK
    <2>3. obj \in {"null", "open", "closed", "closed twice"}
      BY DEF IInv, ObjectOK, Before, During
    <2>4. eviction_map \in 0 .. insert_counter /\ loader \in Loaders
          /\ reported \in -1 .. insert_counter
      BY DEF AccountsOK
    <2> QED
      BY <2>1, <2>2, <2>3, <2>4 DEF PlacesOK, TypeOK
  <1>2. Init => IInv /\ DumpOK /\ AccountsOK /\ PlacesOK
    BY IInvInit, DumpInit, AccountsInit
  <1>3. IInv /\ DumpOK /\ AccountsOK /\ PlacesOK /\ [Next]_vars
          => (IInv /\ DumpOK /\ AccountsOK /\ PlacesOK)'
    BY IInvNext, DumpNext, AccountsNext, PlacesNext
  <1> QED
    BY <1>1, <1>2, <1>3, PTL DEF Spec

\* What m prints as its eviction count is the number of entries that decay
\* has emptied up to some moment of the dump, but for those emptied before
\* the counter was reset: none is counted twice and none is missed.
THEOREM EvictionsAreReported == Spec => []EvictionsReported
  <1>1. AccountsOK => EvictionsReported
    BY DEF AccountsOK, EvictionsReported
  <1>2. IInv /\ AccountsOK /\ [Next]_vars => AccountsOK'
    BY AccountsNext
  <1> QED
    BY <1>1, <1>2, AccountsInit, Inductive, PTL DEF Spec

-----------------------------------------------------------------------------
(* Whom an entry belongs to.                                               *)

TagOf(f) == Op!Tag(Op!Context(f).fp)

\* Flows of one fingerprint that share a bucket are of one class, in the
\* shards as in the only sketch of s-bubble.
LEMMA ClassOfBucket ==
    ASSUME NEW f \in Flows, NEW g \in Flows, NEW a \in Arrays,
           TagOf(f) = TagOf(g), Op!Context(f).keys[a] = Op!Context(g).keys[a]
    PROVE  Class(f) = Class(g)
  <1>1. ASSUME NEW h \in Flows
        PROVE  Class(h) = <<TagOf(h), Op!Context(h).keys[0]>>
    <2>1. Op!Context(h).keys[0] = Hash[h] % MAX_BUCKETS
      BY OpAssumptions, WrapAssumption, Op!KeysOfHash
    <2>2. Op!Context(h).fp = Hash[h] \div FP_UNIT
      BY DEF Op!Context
    <2>3. Sk(Zeroed)!Tag(Hash[h] \div FP_UNIT) = TagOf(h)
      BY <2>2, OpSame DEF TagOf
    <2> QED
      BY <2>1, <2>3 DEF Class
  <1>2. Op!Context(f).keys[0] = Op!Context(g).keys[0]
    BY OpAssumptions, OpSets, WrapAssumption, Op!SameKeys DEF TagOf
  <1> QED
    BY <1>1, <1>2

\* No flow outside shard 0 has fingerprint 0.
LEMMA TagOfShard ==
    ASSUME NEW f \in Flows, get_shard_id(f) # 0
    PROVE  TagOf(f) # 0
  <1> DEFINE h == Hash[f]
             u == FP_UNIT * TAG_UNIT
  <1>1. /\ h \in Nat /\ SHARD_UNIT \in Nat \ {0} /\ SHARD_COUNT \in Nat \ {0}
        /\ FP_UNIT \in Nat \ {0} /\ TAG_UNIT \in Nat \ {0}
        /\ SHARD_UNIT % u = 0
    BY SketchAssumption, ShardAssumption
  <1>2. u \in Nat \ {0}
    BY <1>1
  <1>3. h >= SHARD_UNIT
    <2>1. CASE h < SHARD_UNIT
      <3>1. h \div SHARD_UNIT = 0
        BY <1>1, <2>1
      <3>2. 0 % SHARD_COUNT = 0
        BY <1>1
      <3> QED
        BY <3>1, <3>2 DEF get_shard_id
    <2> QED
      BY <1>1, <2>1
  <1>4. SHARD_UNIT >= u
    <2> HIDE DEF u
    <2>1. CASE SHARD_UNIT < u
      <3>1. SHARD_UNIT % u = SHARD_UNIT
        BY <1>1, <1>2, <2>1, ModSmall
      <3> QED
        BY <1>1, <3>1
    <2> QED
      BY <1>1, <1>2, <2>1
  <1>5. h >= u
    <2> HIDE DEF u, h
    <2> QED
      BY <1>1, <1>2, <1>3, <1>4
  <1>6. h \div FP_UNIT >= TAG_UNIT
    <2>1. u \div FP_UNIT = TAG_UNIT
      BY <1>1, MulDiv
    <2>2. u \div FP_UNIT <= h \div FP_UNIT
      <3> HIDE DEF u, h
      <3> QED
        BY <1>1, <1>2, <1>5, DivMono
    <2>3. h \div FP_UNIT \in Nat
      BY <1>1, DivNat
    <2> QED
      BY <1>1, <2>1, <2>2, <2>3
  <1>7. TagOf(f) = (h \div FP_UNIT) \div TAG_UNIT
    BY DEF TagOf, Op!Tag, Op!Context
  <1> DEFINE x == h \div FP_UNIT
  <1>8. x \in Nat /\ x >= TAG_UNIT
    BY <1>1, <1>6, DivNat
  <1> HIDE DEF x
  <1>9. x \div TAG_UNIT # 0
    <2>1. TAG_UNIT \div TAG_UNIT = 1
      BY <1>1
    <2>2. TAG_UNIT \div TAG_UNIT <= x \div TAG_UNIT
      BY <1>1, <1>8, DivMono
    <2>3. x \div TAG_UNIT \in Nat
      BY <1>1, <1>8, DivNat
    <2> QED
      BY <2>1, <2>2, <2>3
  <1> QED
    BY <1>7, <1>9 DEF x

\* The flows whose packets go to shard s.
Sent(l, s) == {f \in Flows : IF l = "m" THEN get_shard_id(f) = s ELSE s = 0}

\* An entry with a key is in one of its flow's buckets, in its flow's shard,
\* and counts no more than what has come for its class.  One without counts
\* only in shard 0.
EntryIn(l, s, a, j, e, seenBefore) ==
    /\ e.fingerprint = Op!Tag(e.l0fp)
    /\ e.id = NoFlow => e.l0fp = 0 /\ (s # 0 => e.count = 0)
    /\ e.id # NoFlow => /\ e.id \in Sent(l, s)
                        /\ e.l0fp = Op!Context(e.id).fp
                        /\ j = Op!Context(e.id).keys[a]
                        /\ e.count <= seenBefore[Class(e.id)]

\* d is entry e as it was, or e after it counted the packet.
Counted(c, e, d) ==
    d = e \/ (e.fingerprint = Op!Tag(c.fp) /\ d = Op!Entry_Insert(e))

\* Every way of getting into bucket j of array a.
Came(B, c, a, j, d) ==
    \/ d = Op!Entry_init
    \/ \E k \in Slots : d = B[a][j][k]
    \/ /\ j = c.keys[a]
       /\ \/ d = Op!Entry_Insert_with(c)
          \/ \E k \in Slots : Counted(c, B[a][j][k], d) \/ d = Op!Entry_Lossy(B[a][j][k])
    \/ \E k \in Slots : /\ Counted(c, Mine(B, c, 1 - a)[k], d)
                        /\ j = Op!KickTarget(c, 1 - a, d)

\* Another packet of class x has come.
OneMore(old, new, x) ==
    /\ old \in [Classes -> Nat] /\ new \in [Classes -> Nat]
    /\ new[x] = old[x] + 1
    /\ \A c \in Classes : old[c] <= new[c]

\* The tag of an untouched fp is 0.
LEMMA TagOfFlow == Op!Tag(0) = 0 /\ \A f \in Flows : TagOf(f) = Op!Tag(Op!Context(f).fp)
  BY SketchAssumption DEF Op!Tag, TagOf

\* Counting: the class of the packet is that of the entry.
LEMMA CountedIn ==
    ASSUME NEW s \in Shards, NEW f \in Sent(loader, s), NEW a \in Arrays, NEW e \in Entry, NEW d,
           NEW old, NEW new, OneMore(old, new, Class(f)),
           loader # "m" => s = 0,
           EntryIn(loader, s, a, Op!Context(f).keys[a], e, old), Counted(Op!Context(f), e, d)
    PROVE  EntryIn(loader, s, a, Op!Context(f).keys[a], d, new)
  <1>1. /\ d.fingerprint = e.fingerprint /\ d.l0fp = e.l0fp /\ d.id = e.id
        /\ d.count = e.count \/ (e.fingerprint = TagOf(f) /\ d.count <= e.count + 1)
        /\ e.count \in Nat /\ d.count \in Nat
    BY SketchAssumption DEF Counted, Op!Entry_Insert, Entry, TagOf
  <1>2. f \in Flows /\ (loader = "m" => get_shard_id(f) = s)
    BY DEF Sent
  <1>3. CASE e.id = NoFlow
    <2>1. e.l0fp = 0 /\ e.fingerprint = 0 /\ (s # 0 => e.count = 0)
      BY <1>3, TagOfFlow DEF EntryIn
    <2>2. s # 0 => TagOf(f) # 0
      BY <1>2, TagOfShard
    <2>3. s # 0 => d.count = 0
      BY <1>1, <2>1, <2>2
    <2> QED
      BY <1>1, <1>3, <2>1, <2>3 DEF EntryIn
  <1>4. CASE e.id # NoFlow
    <2> DEFINE g == e.id
    <2>1. /\ g \in Sent(loader, s) /\ g \in Flows /\ e.l0fp = Op!Context(g).fp
          /\ e.fingerprint = Op!Tag(e.l0fp)
          /\ Op!Context(f).keys[a] = Op!Context(g).keys[a]
          /\ e.count <= old[Class(g)]
      BY <1>4 DEF EntryIn, Sent
    <2>2. e.fingerprint = TagOf(g)
      BY <2>1 DEF TagOf
    <2>3. e.fingerprint = TagOf(f) => Class(f) = Class(g)
      BY <1>2, <2>1, <2>2, ClassOfBucket
    <2>4. Class(g) \in Classes /\ Class(f) \in Classes
      BY <1>2, <2>1 DEF Classes
    <2>5. /\ old[Class(g)] \in Nat /\ new[Class(g)] \in Nat
          /\ old[Class(g)] <= new[Class(g)]
          /\ Class(f) = Class(g) => new[Class(g)] = old[Class(g)] + 1
      BY <2>4 DEF OneMore
    <2>6. d.count <= new[Class(g)]
      BY <1>1, <2>1, <2>3, <2>5
    <2> QED
      BY <1>1, <1>4, <2>1, <2>6 DEF EntryIn
  <1> QED
    BY <1>3, <1>4

\* Moving: kickout goes to the other bucket of the entry's flow.
LEMMA MovedIn ==
    ASSUME NEW s \in Shards, NEW f \in Flows, NEW a \in Arrays, NEW d, NEW new,
           EntryIn(loader, s, a, Op!Context(f).keys[a], d, new)
    PROVE  EntryIn(loader, s, 1 - a, Op!KickTarget(Op!Context(f), a, d), d, new)
  <1> DEFINE t == Op!KickTarget(Op!Context(f), a, d)
  <1>1. CASE d.id # NoFlow
    <2>1. /\ d.id \in Flows /\ d.l0fp = Op!Context(d.id).fp
          /\ d.fingerprint = Op!Tag(d.l0fp)
          /\ Op!Context(f).keys[a] = Op!Context(d.id).keys[a]
      BY <1>1 DEF EntryIn, Sent
    <2>2. d.fingerprint = Op!Tag(Op!Context(d.id).fp)
      BY <2>1
    <2>3. \A g \in Flows : /\ d.fingerprint = Op!Tag(Op!Context(g).fp)
                           /\ Op!Context(f).keys[a] = Op!Context(g).keys[a]
                           => t = Op!Context(g).keys[1 - a]
      BY OpAssumptions, OpSets, WrapAssumption, Op!KickLands
    <2>4. t = Op!Context(d.id).keys[1 - a]
      BY <2>1, <2>2, <2>3
    <2> QED
      BY <1>1, <2>4 DEF EntryIn
  <1>2. CASE d.id = NoFlow
    BY <1>2 DEF EntryIn
  <1> QED
    BY <1>1, <1>2

-----------------------------------------------------------------------------
(* Every entry is backed by packets of its shard.                          *)

\* The tags of a shard's entries are those of their fingerprints.
Tagged(B) == \A a \in Arrays, j \in Indices, k \in Slots :
                B[a][j][k].fingerprint = Op!Tag(B[a][j][k].l0fp)

\* A hit on fp is one on the fingerprint.
LEMMA MatchMeansTag ==
    ASSUME NEW B \in Store, Tagged(B), NEW f \in Flows, NEW a \in Arrays, NEW i \in Slots,
           Matches(B, Op!Context(f), a, i)
    PROVE  Mine(B, Op!Context(f), a)[i].fingerprint = Op!Tag(Op!Context(f).fp)
  <1>1. Op!Context(f).keys[a] \in Indices
    BY MineType
  <1>2. Mine(B, Op!Context(f), a)[i].fingerprint = Op!Tag(Mine(B, Op!Context(f), a)[i].l0fp)
    BY <1>1 DEF Tagged, Mine
  <1> QED
    BY <1>2 DEF Matches, Op!Bucket_Equal

\* One bucket is replaced by b, whose entries have an origin.
LEMMA PutCame ==
    ASSUME NEW B \in Store, NEW f \in Flows, NEW x \in Arrays, NEW b,
           \A k \in Slots : Came(B, Op!Context(f), x, Op!Context(f).keys[x], b[k]),
           NEW C, C = Put(B, x, Op!Context(f).keys[x], b)
    PROVE  \A a \in Arrays, j \in Indices, k \in Slots : Came(B, Op!Context(f), a, j, C[a][j][k])
  <1> DEFINE c == Op!Context(f)
  <1>1. c.keys[x] \in Indices
    BY MineType
  <1> HIDE DEF c
  <1>2. C[x][c.keys[x]] = b
        /\ \A a \in Arrays, j \in Indices : a # x \/ j # c.keys[x] => C[a][j] = B[a][j]
    BY <1>1, PutIs DEF c
  <1>3. ASSUME NEW a \in Arrays, NEW j \in Indices, NEW k \in Slots
        PROVE  Came(B, c, a, j, C[a][j][k])
    <2>1. CASE a = x /\ j = c.keys[x]
      BY <1>2, <2>1 DEF c
    <2>2. CASE ~(a = x /\ j = c.keys[x])
      BY <1>2, <2>2 DEF Came
    <2> QED
      BY <2>1, <2>2
  <1> QED
    BY <1>3 DEF c

\* Whose the entries are after a hit on a hot entry.
LEMMA HotCame ==
    ASSUME NEW B \in Store, Tagged(B), NEW f \in Flows, NEW C, HotShape(B, C, Op!Context(f))
    PROVE  \A a \in Arrays, j \in Indices, k \in Slots : Came(B, Op!Context(f), a, j, C[a][j][k])
  <1> DEFINE c == Op!Context(f)
  <1>1. PICK a \in Arrays : /\ Matches(B, c, a, 0)
                            /\ C = Put(B, a, c.keys[a],
                                    [Mine(B, c, a) EXCEPT ![0] = Op!Entry_Insert(@)])
    BY DEF HotShape
  <1> DEFINE q == Mine(B, c, a)
             b == [q EXCEPT ![0] = Op!Entry_Insert(@)]
  <1>2. q \in Bucket /\ q = B[a][c.keys[a]] /\ 0 \in Slots
    BY MineType, Basics DEF Mine
  <1>3. q[0].fingerprint = Op!Tag(c.fp)
    BY <1>1, <1>2, MatchMeansTag
  <1> HIDE DEF q, c
  <1>4. ASSUME NEW k \in Slots PROVE Came(B, c, a, c.keys[a], b[k])
    <2>1. Counted(c, q[k], b[k])
      BY <1>2, <1>3 DEF Bucket, Counted
    <2> QED
      BY <1>2, <2>1 DEF Came
  <1>5. C = Put(B, a, c.keys[a], b)
    BY <1>1 DEF q
  <1> HIDE DEF b
  <1> QED
    BY <1>4, <1>5, PutCame DEF c

\* Whose the entries are after an empty one was taken.
LEMMA FillCame ==
    ASSUME NEW B \in Store, NEW f \in Flows, NEW C, FillShape(B, C, Op!Context(f))
    PROVE  \A a \in Arrays, j \in Indices, k \in Slots : Came(B, Op!Context(f), a, j, C[a][j][k])
  <1> DEFINE c == Op!Context(f)
  <1>1. PICK a \in Arrays, i \in Slots : C = Put(B, a, c.keys[a],
                                    [Mine(B, c, a) EXCEPT ![i] = Op!Entry_Insert_with(c)])
    BY DEF FillShape
  <1> DEFINE q == Mine(B, c, a)
             b == [q EXCEPT ![i] = Op!Entry_Insert_with(c)]
  <1>2. q \in Bucket /\ q = B[a][c.keys[a]]
    BY MineType DEF Mine
  <1> HIDE DEF q, c
  <1>4. ASSUME NEW k \in Slots PROVE Came(B, c, a, c.keys[a], b[k])
    <2>1. b[k] = Op!Entry_Insert_with(c) \/ b[k] = q[k]
      BY <1>2 DEF Bucket
    <2> QED
      BY <1>2, <2>1 DEF Came
  <1>5. C = Put(B, a, c.keys[a], b)
    BY <1>1 DEF q
  <1> HIDE DEF b
  <1> QED
    BY <1>4, <1>5, PutCame DEF c

\* Whose the entries are after a decay.
LEMMA LossyCame ==
    ASSUME NEW B \in Store, NEW f \in Flows, NEW C, LossyShape(B, C, Op!Context(f))
    PROVE  \A a \in Arrays, j \in Indices, k \in Slots : Came(B, Op!Context(f), a, j, C[a][j][k])
  <1> DEFINE c == Op!Context(f)
  <1>1. PICK a \in Arrays : C = Put(B, a, c.keys[a],
                              [Mine(B, c, a) EXCEPT ![MAX_ENTRY - 1] = Op!Entry_Lossy(@)])
    BY DEF LossyShape
  <1> DEFINE q == Mine(B, c, a)
             b == [q EXCEPT ![MAX_ENTRY - 1] = Op!Entry_Lossy(@)]
  <1>2. q \in Bucket /\ q = B[a][c.keys[a]]
    BY MineType DEF Mine
  <1> HIDE DEF q, c
  <1>4. ASSUME NEW k \in Slots PROVE Came(B, c, a, c.keys[a], b[k])
    <2>1. b[k] = Op!Entry_Lossy(q[k]) \/ b[k] = q[k]
      BY <1>2 DEF Bucket
    <2> QED
      BY <1>2, <2>1 DEF Came
  <1>5. C = Put(B, a, c.keys[a], b)
    BY <1>1 DEF q
  <1> HIDE DEF b
  <1> QED
    BY <1>4, <1>5, PutCame DEF c

\* Whose the entries are after a hit on a cold entry, which may kick another
\* flow's entry over to its other bucket.
LEMMA ColdCame ==
    ASSUME NEW B \in Store, Tagged(B), NEW f \in Flows, NEW C, ColdShape(B, C, Op!Context(f))
    PROVE  \A a \in Arrays, j \in Indices, k \in Slots : Came(B, Op!Context(f), a, j, C[a][j][k])
  <1> DEFINE c == Op!Context(f)
  <1>1. PICK a \in Arrays, i \in Slots \ {0} :
            /\ Matches(B, c, a, i)
            /\ \/ C = Put(B, a, c.keys[a], ColdBucket(B, c, a, i))
               \/ \E t, n : KickShape(B, C, c, a, ColdBucket(B, c, a, i), t, n)
    BY DEF ColdShape
  <1> DEFINE q == Mine(B, c, a)
             b == ColdBucket(B, c, a, i)
  <1>2. q \in Bucket /\ q = B[a][c.keys[a]] /\ c.keys[a] \in Indices
    BY MineType DEF Mine
  <1>3. q[i].fingerprint = Op!Tag(c.fp)
    BY <1>1, MatchMeansTag
  <1>4. b \in Bucket
        /\ \A k \in Slots : \/ k > i /\ b[k] = q[k]
                            \/ k <= i /\ b[k] = Op!Entry_Insert(q[i])
                            \/ k < i /\ b[k] = q[k]
                            \/ k # 0 /\ k <= i /\ b[k] = q[k - 1]
    BY ColdBucketType
  <1>5. \A k \in Slots : \E m \in Slots : Counted(c, q[m], b[k])
    <2> HIDE DEF q, b, c
    <2> QED
      BY <1>3, <1>4, Basics DEF Counted
  <1>6. CASE C = Put(B, a, c.keys[a], b)
    <2> HIDE DEF q, b, c
    <2>1. ASSUME NEW k \in Slots PROVE Came(B, c, a, c.keys[a], b[k])
      BY <1>2, <1>5 DEF Came
    <2> QED
      BY <1>6, <2>1, PutCame DEF c
  <1>7. CASE \E t, n : KickShape(B, C, c, a, b, t, n)
    <2>1. PICK t, n : KickShape(B, C, c, a, b, t, n)
      BY <1>7
    <2>2. /\ t \in Indices /\ 1 - a \in Arrays /\ 1 - a # a /\ n = B[1 - a][t] /\ n \in Bucket
          /\ C[a][c.keys[a]] = Op!Bucket_Remove(b, 1)
          /\ C[1 - a][t] = Pushed(n, b[1])
          /\ \A x \in Arrays, y \in Indices :
                (x # a \/ y # c.keys[a]) /\ (x # 1 - a \/ y # t) => C[x][y] = B[x][y]
      BY <2>1, KickIs
    <2>3. t = Op!KickTarget(c, a, b[1])
      BY <2>1 DEF KickShape
    <2>4. 1 \in Slots /\ 1 - (1 - a) = a /\ b[1] \in Entry
      BY <1>4, Basics DEF Arrays, Bucket
    <2> HIDE DEF q, b, c
    <2>5. ASSUME NEW k \in Slots PROVE Came(B, c, a, c.keys[a], Op!Bucket_Remove(b, 1)[k])
      <3>1. \/ Op!Bucket_Remove(b, 1)[k] = Op!Entry_init
            \/ \E m \in Slots : Op!Bucket_Remove(b, 1)[k] = b[m]
        BY <1>4, OpAssumptions, OpSets, Op!RemoveKeeps
      <3>2. \A m \in Slots : Came(B, c, a, c.keys[a], b[m])
        BY <1>2, <1>5 DEF Came
      <3>3. Came(B, c, a, c.keys[a], Op!Entry_init)
        BY DEF Came
      <3> QED
        BY <3>1, <3>2, <3>3
    <2>6. ASSUME NEW k \in Slots PROVE Came(B, c, 1 - a, t, Pushed(n, b[1])[k])
      <3>1. Pushed(n, b[1])[k] = b[1] \/ \E m \in Slots : Pushed(n, b[1])[k] = n[m]
        BY <2>2, <2>4, OpAssumptions, OpSets, Op!PushKeeps DEF Pushed
      <3>2. \A m \in Slots : Came(B, c, 1 - a, t, n[m])
        BY <2>2 DEF Came
      <3>3. Came(B, c, 1 - a, t, b[1])
        BY <1>5, <2>3, <2>4 DEF Came, q
      <3> QED
        BY <3>1, <3>2, <3>3
    <2>7. ASSUME NEW x \in Arrays, NEW y \in Indices, NEW k \in Slots
          PROVE  Came(B, c, x, y, C[x][y][k])
      <3>1. CASE x = a /\ y = c.keys[a]
        BY <2>2, <2>5, <3>1
      <3>2. CASE x = 1 - a /\ y = t
        BY <2>2, <2>6, <3>2
      <3>3. CASE C[x][y] = B[x][y]
        BY <3>3 DEF Came
      <3> QED
        BY <2>2, <3>1, <3>2, <3>3
    <2> QED
      BY <2>7 DEF c
  <1> QED
    BY <1>1, <1>6, <1>7

\* Whatever Insert does, every entry has an origin.
LEMMA InsertedCame ==
    ASSUME NEW sk \in Sketch, Tagged(sk.buckets), NEW f \in Flows
    PROVE  \A a \in Arrays, j \in Indices, k \in Slots :
              Came(sk.buckets, Op!Context(f), a, j, Inserted(sk, f).buckets[a][j][k])
  <1> DEFINE B == sk.buckets
             C == Inserted(sk, f).buckets
             c == Op!Context(f)
  <1>1. B \in Store
    BY DEF Sketch
  <1>2. HotShape(B, C, c) \/ FillShape(B, C, c) \/ ColdShape(B, C, c) \/ LossyShape(B, C, c)
    BY InsertedShape DEF Shape
  <1> HIDE DEF C
  <1>3. \A a \in Arrays, j \in Indices, k \in Slots : Came(B, c, a, j, C[a][j][k])
    BY <1>1, <1>2, HotCame, FillCame, ColdCame, LossyCame
  <1> QED
    BY <1>3 DEF C

\* What has an origin is right after the packet.
LEMMA CameIn ==
    ASSUME NEW s \in Shards, NEW f \in Sent(loader, s), NEW B \in Store,
           loader # "m" => s = 0,
           NEW old, NEW new, OneMore(old, new, Class(f)),
           \A a \in Arrays, j \in Indices, k \in Slots : EntryIn(loader, s, a, j, B[a][j][k], old),
           NEW a \in Arrays, NEW j \in Indices, NEW d, Came(B, Op!Context(f), a, j, d)
    PROVE  EntryIn(loader, s, a, j, d, new)
  <1> DEFINE c == Op!Context(f)
  <1>0. /\ f \in Flows /\ \A x \in Arrays : c.keys[x] \in Indices
        /\ 1 - a \in Arrays /\ 1 - (1 - a) = a
    BY MineType DEF Arrays, Sent
  <1>1. \A g \in Flows : /\ Class(g) \in Classes /\ old[Class(g)] \in Nat /\ new[Class(g)] \in Nat
                         /\ old[Class(g)] <= new[Class(g)]
    BY DEF Classes, OneMore
  <1>2. \A x \in Arrays, y \in Indices, k \in Slots :
            /\ B[x][y][k] \in Entry /\ EntryIn(loader, s, x, y, B[x][y][k], old)
    BY DEF Store, Bucket
  <1>3. CASE d = Op!Entry_init
    BY <1>3, TagOfFlow DEF EntryIn, Op!Entry_init
  <1>4. CASE \E k \in Slots : d = B[a][j][k]
    <2>1. d \in Entry /\ d.count \in Nat /\ EntryIn(loader, s, a, j, d, old)
      BY <1>2, <1>4, Basics
    <2> QED
      BY <1>1, <2>1 DEF EntryIn, Sent
  <1>5. CASE j = c.keys[a] /\ d = Op!Entry_Insert_with(c)
    <2>1. d.id = f /\ d.l0fp = c.fp /\ d.fingerprint = Op!Tag(c.fp) /\ d.count = 1
      BY <1>5, <1>0, ContextType, OpSame DEF Op!Entry_Insert_with
    <2>2. new[Class(f)] = old[Class(f)] + 1 /\ old[Class(f)] \in Nat
      BY <1>0, <1>1 DEF OneMore
    <2>3. d.count <= new[Class(f)]
      BY <2>1, <2>2
    <2>4. f # NoFlow
      BY <1>0, FlowAssumption
    <2> HIDE DEF c
    <2> QED
      BY <1>5, <2>1, <2>3, <2>4 DEF EntryIn, c
  <1>6. CASE j = c.keys[a] /\ \E k \in Slots : Counted(c, B[a][j][k], d)
    BY <1>2, <1>6, CountedIn
  <1>7. CASE j = c.keys[a] /\ \E k \in Slots : d = Op!Entry_Lossy(B[a][j][k])
    <2>1. PICK k \in Slots : d = Op!Entry_Lossy(B[a][j][k])
      BY <1>7
    <2> DEFINE e == B[a][j][k]
    <2>2. /\ d.id = e.id /\ d.l0fp = e.l0fp /\ d.fingerprint = e.fingerprint
          /\ d.count \in Nat /\ d.count <= e.count /\ (e.count = 0 => d.count = 0)
          /\ e.count \in Nat /\ EntryIn(loader, s, a, j, e, old)
      BY <1>2, <2>1, SketchAssumption DEF Op!Entry_Lossy, Entry
    <2> HIDE DEF e
    <2> QED
      BY <1>1, <2>2 DEF EntryIn, Sent
  <1>8. CASE \E k \in Slots : /\ Counted(c, Mine(B, c, 1 - a)[k], d)
                              /\ j = Op!KickTarget(c, 1 - a, d)
    <2>1. PICK k \in Slots : /\ Counted(c, Mine(B, c, 1 - a)[k], d)
                              /\ j = Op!KickTarget(c, 1 - a, d)
      BY <1>8
    <2>2. EntryIn(loader, s, 1 - a, c.keys[1 - a], Mine(B, c, 1 - a)[k], old)
          /\ Mine(B, c, 1 - a)[k] \in Entry
      BY <1>0, <1>2 DEF Mine
    <2>3. EntryIn(loader, s, 1 - a, c.keys[1 - a], d, new)
      <3> HIDE DEF c
      <3> QED
        BY <1>0, <2>1, <2>2, CountedIn DEF c
    <2>4. EntryIn(loader, s, 1 - (1 - a), Op!KickTarget(c, 1 - a, d), d, new)
      BY <1>0, <2>3, MovedIn
    <2> QED
      BY <1>0, <2>1, <2>4
  <1> QED
    BY <1>3, <1>4, <1>5, <1>6, <1>7, <1>8 DEF Came

EntriesOK == \A s \in Shards, a \in Arrays, j \in Indices, k \in Slots :
                EntryIn(loader, s, a, j, sketch_shard[s].buckets[a][j][k], arrived[s])

\* An untouched entry claims nothing.
LEMMA ZeroedIn ==
    ASSUME NEW s \in Shards, NEW a \in Arrays, NEW j \in Indices, NEW k \in Slots, NEW seenBefore
    PROVE  EntryIn(loader, s, a, j, Zeroed.buckets[a][j][k], seenBefore)
  <1>1. Zeroed.buckets[a][j][k] = [id |-> NoFlow, fingerprint |-> 0, l0fp |-> 0, count |-> 0]
    BY DEF Zeroed, Arrays, Indices, Slots
  <1> QED
    BY <1>1, TagOfFlow DEF EntryIn

\* Nothing is claimed when main starts.
LEMMA EntriesInit == Init => EntriesOK
  BY ZeroedIn DEF Init, Init_maps, EntriesOK

\* A packet keeps every entry of its shard backed.
LEMMA EntriesPacket ==
    ASSUME IInv, AccountsOK, AccountsOK', EntriesOK, NEW f \in Flows, Packet(f)
    PROVE  EntriesOK'
  <1> DEFINE s == IF loader = "m" THEN get_shard_id(f) ELSE 0
             B == sketch_shard[s].buckets
  <1>1. s \in Shards /\ sketch_shard \in [Shards -> Sketch] /\ loader' = loader
    BY SketchCount DEF IInv, SketchesOK, Packet, main, startup
  <1>2. sketch_shard' = [sketch_shard EXCEPT ![s] = Inserted(@, f)]
        /\ arrived' = [arrived EXCEPT ![s][Class(f)] = @ + 1]
    BY DEF Packet, Insert
  <1>3. f \in Sent(loader, s) /\ (loader # "m" => s = 0)
    BY DEF Sent
  <1> HIDE DEF s
  <1>4. B \in Store /\ Tagged(B)
    BY <1>1 DEF Sketch, EntriesOK, EntryIn, Tagged
  <1>5. \A a \in Arrays, j \in Indices, k \in Slots :
            Came(B, Op!Context(f), a, j, sketch_shard'[s].buckets[a][j][k])
    BY <1>1, <1>2, <1>4, InsertedCame
  <1>6. OneMore(arrived[s], arrived'[s], Class(f))
    <2>1. Class(f) \in Classes
      BY DEF Classes
    <2> HIDE DEF Classes
    <2>2. arrived[s] \in [Classes -> Nat]
      <3>1. arrived[s] \in [Classes -> 0 .. insert_counter] /\ insert_counter \in Nat
        BY <1>1, PacketsAssumption DEF AccountsOK
      <3> QED
        BY <3>1
    <2>3. arrived \in [Shards -> [Classes -> 0 .. insert_counter]]
      BY DEF AccountsOK
    <2>4. arrived'[s] = [arrived[s] EXCEPT ![Class(f)] = @ + 1]
      BY <1>1, <1>2, <2>3
    <2> QED
      BY <2>1, <2>2, <2>4 DEF OneMore
  <1>7. ASSUME NEW x \in Shards, NEW a \in Arrays, NEW j \in Indices, NEW k \in Slots
        PROVE  EntryIn(loader, x, a, j, sketch_shard'[x].buckets[a][j][k], arrived'[x])
    <2>1. CASE x = s
      <3>1. \A y \in Arrays, z \in Indices, i \in Slots : EntryIn(loader, s, y, z, B[y][z][i], arrived[s])
        BY <1>1 DEF EntriesOK
      <3> HIDE DEF B
      <3> QED
        BY <1>1, <1>3, <1>4, <1>5, <1>6, <2>1, <3>1, CameIn
    <2>2. CASE x # s
      <3>1. sketch_shard'[x] = sketch_shard[x] /\ arrived'[x] = arrived[x]
        BY <1>1, <1>2, <2>2 DEF AccountsOK
      <3> QED
        BY <3>1 DEF EntriesOK
    <2> QED
      BY <2>1, <2>2
  <1> QED
    BY <1>1, <1>7 DEF EntriesOK

\* So does every other step: main changes a shard only before it attaches.
LEMMA EntriesNext ==
    ASSUME IInv, AccountsOK, AccountsOK', EntriesOK, [Next]_vars
    PROVE  EntriesOK'
  <1>1. CASE InitSketch
    <2>1. /\ sketch_shard' \in {sketch_shard, [sketch_shard EXCEPT ![shard] = BubbleSketch_init]}
          /\ UNCHANGED <<arrived, loader>> /\ sketch_shard \in [Shards -> Sketch]
      BY <1>1 DEF InitSketch, startup, IInv, SketchesOK
    <2>2. BubbleSketch_init.buckets = Zeroed.buckets
      BY DEF BubbleSketch_init, Zeroed
    <2>3. ASSUME NEW s \in Shards, NEW a \in Arrays, NEW j \in Indices, NEW k \in Slots
          PROVE  EntryIn(loader, s, a, j, sketch_shard'[s].buckets[a][j][k], arrived[s])
      <3>1. sketch_shard'[s] \in {sketch_shard[s], BubbleSketch_init}
        BY <2>1
      <3> QED
        BY <2>2, <3>1, ZeroedIn DEF EntriesOK
    <2> QED
      BY <2>1, <2>3 DEF EntriesOK
  <1>2. ASSUME UNCHANGED <<sketch_shard, arrived, loader>>
        PROVE  EntriesOK'
    BY <1>2 DEF EntriesOK
  <1>3. ASSUME NEW f \in Flows, Packet(f)
        PROVE  EntriesOK'
    BY <1>3, EntriesPacket
  <1>4. \/ InitSketch \/ \E f \in Flows : Packet(f)
        \/ UNCHANGED <<sketch_shard, arrived, loader>>
    BY DEF Next, Main, open_and_load, OpenObject, FillTailSlot, Attach, ResetEvictions, Loop,
           LookupFails, CopyId, CopyCount, ReadEvictions, DestroyLink, Close, handle_signal,
           vars, main, maps, startup
  <1> QED
    BY <1>1, <1>2, <1>3, <1>4

\* A row whose flow still heads the bucket claims no more packets than have
\* come for the flow's class to the flow's own shard, whatever headed the
\* bucket between the two moments at which the row was copied.
THEOREM RowsAreBacked == Spec => []RowIsBacked
  <1>1. IInv /\ DumpOK /\ AccountsOK /\ EntriesOK => RowIsBacked
    <2> SUFFICES ASSUME IInv, DumpOK, AccountsOK, EntriesOK, NEW row \in sorted,
                        row.id \in Flows, row.id = Head(row.shard, row.array, row.index).id
                 PROVE  /\ row.count <= arrived[row.shard][Class(row.id)]
                        /\ loader = "m" => row.shard = get_shard_id(row.id)
      BY DEF RowIsBacked
    <2> DEFINE s == row.shard
               e == Head(s, row.array, row.index)
    <2>1. /\ s \in Shards /\ row.array \in Arrays /\ row.index \in Indices
          /\ row.count \in Nat /\ row.count <= e.count
      BY DEF DumpOK, RowOK
    <2>2. EntryIn(loader, s, row.array, row.index, e, arrived[s])
      BY <2>1, Basics DEF EntriesOK, Head
    <2>3. e.count \in Nat
      BY <2>1, HeadType DEF IInv, SketchesOK
    <2>4. arrived[s][Class(row.id)] \in Nat
      <3>1. insert_counter \in Nat /\ arrived \in [Shards -> [Classes -> 0 .. insert_counter]]
        BY PacketsAssumption DEF AccountsOK
      <3>2. Class(row.id) \in Classes
        BY DEF Classes
      <3> QED
        BY <2>1, <3>1, <3>2
    <2> HIDE DEF e, s
    <2>5. e.id # NoFlow /\ e.id = row.id
      BY FlowAssumption DEF e, s
    <2>6. e.id \in Sent(loader, s) /\ e.count <= arrived[s][Class(e.id)]
      BY <2>2, <2>5 DEF EntryIn
    <2>7. loader = "m" => s = get_shard_id(row.id)
      BY <2>5, <2>6 DEF Sent
    <2> QED
      BY <2>1, <2>3, <2>4, <2>5, <2>6, <2>7 DEF s
  <1>2. Init => IInv /\ DumpOK /\ AccountsOK /\ EntriesOK
    BY IInvInit, DumpInit, AccountsInit, EntriesInit
  <1>3. IInv /\ DumpOK /\ AccountsOK /\ EntriesOK /\ [Next]_vars
          => (IInv /\ DumpOK /\ AccountsOK /\ EntriesOK)'
    BY IInvNext, DumpNext, AccountsNext, EntriesNext
  <1> QED
    BY <1>1, <1>2, <1>3, PTL DEF Spec

-----------------------------------------------------------------------------
(* What the dump has passed.                                               *)

Listed(rows, s, a, j) == \E row \in rows : row.shard = s /\ row.array = a /\ row.index = j

NoRow(rows, s) == \A row \in rows : row.shard # s

\* The first n heads of shard s that counted something when the dump began
\* are listed.
ListedUpTo(heads, rows, s, n) == \A a \in Arrays, j \in Indices :
    a * MAX_BUCKETS + j < n /\ heads[s][a][j].count > 0 => Listed(rows, s, a, j)

\* Where the dump is in its rows: shards behind it have all their rows or none,
\* the one it is at has those of the heads passed, and shards ahead have none.
RowsUpTo(heads, rows, n, m) == \A s \in Shards \ {0} :
    /\ s < n => ListedUpTo(heads, rows, s, 2 * MAX_BUCKETS) \/ NoRow(rows, s)
    /\ s = n => ListedUpTo(heads, rows, s, m) /\ (m = 0 => NoRow(rows, s))
    /\ s > n => NoRow(rows, s)

ListOK == loader = "m" =>
    /\ pc \in Copying \/ pc = "evictions" => RowsUpTo(seen.heads, sorted, shard, cell)
    /\ pc = "evictions" => shard >= SHARD_COUNT
    /\ pc = "copy count" /\ shard # 0 =>
         (SeenCount(shard, cell \div MAX_BUCKETS, cell % MAX_BUCKETS) > 0 => id # NoFlow)

\* Nothing is passed over when main starts.
LEMMA ListInit == Init => ListOK
  BY DEF Init, ListOK, Copying

\* A head's place in the dump gives its array and its index.
LEMMA PlaceOfHead ==
    ASSUME NEW a \in Arrays, NEW j \in Indices, NEW n \in Nat, n < 2 * MAX_BUCKETS
    PROVE  /\ n \div MAX_BUCKETS \in Arrays /\ n % MAX_BUCKETS \in Indices
           /\ a * MAX_BUCKETS + j \in Nat /\ a * MAX_BUCKETS + j < 2 * MAX_BUCKETS
           /\ a * MAX_BUCKETS + j = n => a = n \div MAX_BUCKETS /\ j = n % MAX_BUCKETS
  <1> DEFINE q == n \div MAX_BUCKETS
             r == n % MAX_BUCKETS
  <1>1. MAX_BUCKETS \in Nat \ {0} /\ n \in Int /\ 2 \in Nat
    BY SketchAssumption
  <1>2. q \in 0 .. 2 - 1
    BY <1>1, DivBelow, Zenon
  <1>3. r \in 0 .. MAX_BUCKETS - 1 /\ n = MAX_BUCKETS * q + r
    BY <1>1, DivMod, Zenon
  <1> HIDE DEF q, r
  <1>4. (q = 0 \/ q = 1) /\ (a = 0 \/ a = 1)
    BY <1>2 DEF Arrays
  <1>5. /\ q = 0 => n = r
        /\ q = 1 => n = MAX_BUCKETS + r
    BY <1>1, <1>3
  <1>6. /\ a = 0 => a * MAX_BUCKETS + j = j
        /\ a = 1 => a * MAX_BUCKETS + j = MAX_BUCKETS + j
    BY <1>1 DEF Indices
  <1>7. j \in 0 .. MAX_BUCKETS - 1
    BY DEF Indices
  <1>8. a * MAX_BUCKETS + j \in Nat /\ a * MAX_BUCKETS + j < 2 * MAX_BUCKETS
    BY <1>1, <1>4, <1>6, <1>7
  <1>9. ASSUME a * MAX_BUCKETS + j = n PROVE a = q /\ j = r
    BY <1>1, <1>3, <1>4, <1>5, <1>6, <1>7, <1>9
  <1> QED
    BY <1>2, <1>3, <1>8, <1>9 DEF Arrays, Indices, q, r

\* The lookup of a shard fails, and the dump goes on with the next.
LEMMA ListSkips ==
    ASSUME NEW heads, NEW rows, NEW n \in Nat, RowsUpTo(heads, rows, n, 0)
    PROVE  RowsUpTo(heads, rows, n + 1, 0)
  <1> SUFFICES ASSUME NEW s \in Shards \ {0}
               PROVE  /\ s < n + 1 => ListedUpTo(heads, rows, s, 2 * MAX_BUCKETS) \/ NoRow(rows, s)
                      /\ s = n + 1 => ListedUpTo(heads, rows, s, 0) /\ NoRow(rows, s)
                      /\ s > n + 1 => NoRow(rows, s)
    BY DEF RowsUpTo
  <1>1. s \in Nat
    BY SketchCount DEF Shards
  <1>2. /\ s < n => ListedUpTo(heads, rows, s, 2 * MAX_BUCKETS) \/ NoRow(rows, s)
        /\ s = n => NoRow(rows, s)
        /\ s > n => NoRow(rows, s)
    BY DEF RowsUpTo
  <1>3. ListedUpTo(heads, rows, s, 0)
    <2>1. \A a \in Arrays, j \in Indices : ~(a * MAX_BUCKETS + j < 0)
      <3>1. 0 \in Nat /\ 0 < 2 * MAX_BUCKETS
        BY SketchAssumption
      <3>2. \A a \in Arrays, j \in Indices : a * MAX_BUCKETS + j \in Nat
        BY <3>1, PlaceOfHead
      <3> QED
        BY <3>2
    <2> QED
      BY <2>1 DEF ListedUpTo
  <1> QED
    BY <1>1, <1>2, <1>3

\* Row row of head m of shard n is added, unless the head counted nothing.
Grew(heads, rows, new, row, n, m) ==
    /\ row.shard = n /\ row.array = m \div MAX_BUCKETS /\ row.index = m % MAX_BUCKETS
    /\ new = rows \/ new = rows \union {row}
    /\ n # 0 /\ heads[n][m \div MAX_BUCKETS][m % MAX_BUCKETS].count > 0 => row \in new

\* The next head is passed, and a row made of it unless it counted nothing.
LEMMA ListGrows ==
    ASSUME NEW heads, NEW rows, NEW n \in Nat, NEW m \in Nat, m < 2 * MAX_BUCKETS, RowsUpTo(heads, rows, n, m),
           NEW row, NEW new, Grew(heads, rows, new, row, n, m)
    PROVE  /\ m + 1 < 2 * MAX_BUCKETS => RowsUpTo(heads, new, n, m + 1)
           /\ m + 1 >= 2 * MAX_BUCKETS => RowsUpTo(heads, new, n + 1, 0)
  <1>0. MAX_BUCKETS \in Nat \ {0}
    BY SketchAssumption
  <1>1. ASSUME NEW s \in Shards \ {0}
        PROVE  /\ s \in Nat
               /\ s < n => ListedUpTo(heads, new, s, 2 * MAX_BUCKETS) \/ NoRow(new, s)
               /\ s = n => ListedUpTo(heads, new, s, m + 1)
               /\ s > n => NoRow(new, s)
    <2>1. s \in Nat
      BY SketchCount DEF Shards
    <2>2. /\ s < n => ListedUpTo(heads, rows, s, 2 * MAX_BUCKETS) \/ NoRow(rows, s)
          /\ s = n => ListedUpTo(heads, rows, s, m)
          /\ s > n => NoRow(rows, s)
      BY DEF RowsUpTo
    <2>3. s # n => (NoRow(rows, s) => NoRow(new, s))
      BY DEF NoRow, Grew
    <2>4. \A x : ListedUpTo(heads, rows, s, x) => ListedUpTo(heads, new, s, x)
      BY DEF ListedUpTo, Listed, Grew
    <2>5. ASSUME s = n
          PROVE  ListedUpTo(heads, new, s, m + 1)
      <3> SUFFICES ASSUME NEW a \in Arrays, NEW j \in Indices,
                          a * MAX_BUCKETS + j < m + 1, heads[s][a][j].count > 0
                   PROVE  Listed(new, s, a, j)
        BY DEF ListedUpTo
      <3> DEFINE p == a * MAX_BUCKETS + j
      <3>1. /\ p \in Nat
            /\ p = m => a = m \div MAX_BUCKETS /\ j = m % MAX_BUCKETS
        BY PlaceOfHead
      <3>2. p < m + 1
        OBVIOUS
      <3> HIDE DEF p
      <3>3. p < m \/ p = m
        BY <3>1, <3>2
      <3>4. CASE p < m
        <4>1. ListedUpTo(heads, new, s, m)
          BY <2>2, <2>4, <2>5
        <4> QED
          BY <3>4, <4>1 DEF ListedUpTo, p
      <3>5. CASE p = m
        <4>1. row \in new /\ row.shard = s /\ row.array = a /\ row.index = j
          BY <2>5, <3>1, <3>5 DEF Grew
        <4> QED
          BY <4>1 DEF Listed
      <3> QED
        BY <3>3, <3>4, <3>5
    <2> QED
      BY <2>1, <2>2, <2>3, <2>4, <2>5
  <1>2. ASSUME m + 1 < 2 * MAX_BUCKETS
        PROVE  RowsUpTo(heads, new, n, m + 1)
    <2>1. m + 1 # 0
      OBVIOUS
    <2> QED
      BY <1>1, <2>1 DEF RowsUpTo
  <1>3. ASSUME m + 1 >= 2 * MAX_BUCKETS
        PROVE  RowsUpTo(heads, new, n + 1, 0)
    <2>1. m + 1 = 2 * MAX_BUCKETS
      BY <1>0, <1>3
    <2>2. \A s : ListedUpTo(heads, new, s, 0)
      <3>1. 0 \in Nat /\ 0 < 2 * MAX_BUCKETS
        BY <1>0
      <3>2. \A a \in Arrays, j \in Indices : a * MAX_BUCKETS + j \in Nat
        BY <3>1, PlaceOfHead
      <3>3. \A a \in Arrays, j \in Indices : ~(a * MAX_BUCKETS + j < 0)
        BY <3>2
      <3> QED
        BY <3>3 DEF ListedUpTo
    <2>3. ASSUME NEW s \in Shards \ {0}
          PROVE  /\ s < n + 1 => ListedUpTo(heads, new, s, 2 * MAX_BUCKETS) \/ NoRow(new, s)
                 /\ s = n + 1 => ListedUpTo(heads, new, s, 0) /\ (0 = 0 => NoRow(new, s))
                 /\ s > n + 1 => NoRow(new, s)
      <3>1. s \in Nat /\ (s < n + 1 => s < n \/ s = n) /\ (s >= n + 1 => s > n)
        BY <1>1
      <3>2. s = n => ListedUpTo(heads, new, s, 2 * MAX_BUCKETS)
        BY <1>1, <2>1
      <3> QED
        BY <1>1, <2>2, <3>1, <3>2
    <2> QED
      BY <2>3 DEF RowsUpTo
  <1> QED
    BY <1>2, <1>3

\* The second word of a head completes its row or skips an empty head.
LEMMA ListCopyCount ==
    ASSUME IInv, DumpOK, ListOK, CopyCount
    PROVE  ListOK'
  <1> DEFINE row == [shard |-> shard, array |-> cell \div MAX_BUCKETS,
                     index |-> cell % MAX_BUCKETS, id |-> id, count |-> Copied.count]
  <1> SUFFICES ASSUME loader = "m" PROVE ListOK'
    BY DEF CopyCount, startup, ListOK
  <1>1. /\ pc = "copy count" /\ pc \in Copying
        /\ sorted' = (IF ~is_valid_entry(row) THEN sorted ELSE sorted \union {row})
        /\ IF cell + 1 < 2 * MAX_BUCKETS
           THEN cell' = cell + 1 /\ pc' = "copy id" /\ shard' = shard
           ELSE /\ cell' = 0 /\ shard' = shard + 1
                /\ pc' = (IF shard' < Sketches THEN "copy id" ELSE "evictions")
        /\ seen' = seen
    BY DEF CopyCount, Goto, Copying, history
  <1>2. /\ shard \in Nat /\ cell \in Nat /\ cell < 2 * MAX_BUCKETS /\ MAX_BUCKETS \in Nat
        /\ shard \in Shards
        /\ cell \div MAX_BUCKETS \in Arrays /\ cell % MAX_BUCKETS \in Indices
    BY <1>1, CopiedType, SketchAssumption DEF DumpOK, CursorOK
  <1>3. RowsUpTo(seen.heads, sorted, shard, cell)
    BY <1>1 DEF ListOK
  <1>4. /\ row.shard = shard /\ row.array = cell \div MAX_BUCKETS
        /\ row.index = cell % MAX_BUCKETS /\ row.id = id
        /\ row.count = Head(shard, cell \div MAX_BUCKETS, cell % MAX_BUCKETS).count
    BY DEF Copied
  <1> HIDE DEF row
  <1>5. sorted' = sorted \/ sorted' = sorted \union {row}
    BY <1>1
  <1>6. ASSUME shard # 0, SeenCount(shard, cell \div MAX_BUCKETS, cell % MAX_BUCKETS) > 0
        PROVE  row \in sorted'
    <2>1. id # NoFlow
      BY <1>1, <1>6 DEF ListOK
    <2>2. row.count > 0
      <3> DEFINE x == SeenCount(shard, cell \div MAX_BUCKETS, cell % MAX_BUCKETS)
                 y == Head(shard, cell \div MAX_BUCKETS, cell % MAX_BUCKETS).count
      <3>1. x \in Nat /\ x <= y /\ x > 0
        BY <1>2, <1>6 DEF DumpOK, SeenOK
      <3>2. y \in Nat
        BY <1>2, HeadType DEF IInv, SketchesOK
      <3>3. row.count = y
        BY <1>4
      <3> HIDE DEF x, y
      <3> QED
        BY <3>1, <3>2, <3>3
    <2> QED
      BY <1>1, <1>4, <2>1, <2>2 DEF is_valid_entry
  <1>7. /\ cell + 1 < 2 * MAX_BUCKETS => RowsUpTo(seen.heads, sorted', shard, cell + 1)
        /\ cell + 1 >= 2 * MAX_BUCKETS => RowsUpTo(seen.heads, sorted', shard + 1, 0)
    <2>1. Grew(seen.heads, sorted, sorted', row, shard, cell)
      BY <1>4, <1>5, <1>6 DEF Grew, SeenCount
    <2> QED
      BY <1>2, <1>3, <2>1, ListGrows
  <1>8. Sketches = SHARD_COUNT /\ SHARD_COUNT \in Nat
    BY SketchCount DEF Sketches
  <1>10. CASE cell + 1 < 2 * MAX_BUCKETS
    <2>1. cell' = cell + 1 /\ pc' = "copy id" /\ shard' = shard
      BY <1>1, <1>10
    <2>2. RowsUpTo(seen.heads, sorted', shard', cell')
      BY <1>7, <1>10, <2>1
    <2> QED
      BY <1>1, <2>1, <2>2 DEF ListOK
  <1>11. CASE ~(cell + 1 < 2 * MAX_BUCKETS)
    <2>1. /\ cell' = 0 /\ shard' = shard + 1
          /\ pc' = (IF shard' < SHARD_COUNT THEN "copy id" ELSE "evictions")
      BY <1>1, <1>8, <1>11
    <2>2. cell + 1 >= 2 * MAX_BUCKETS
      <3>1. cell \in Nat /\ MAX_BUCKETS \in Nat
        BY <1>2
      <3> QED
        BY <1>11, <3>1
    <2>3. RowsUpTo(seen.heads, sorted', shard', cell')
      BY <1>7, <2>1, <2>2
    <2>4. shard' \in Nat
      <3>1. shard \in Nat
        BY <1>2
      <3>2. shard' = shard + 1
        BY <2>1
      <3> QED
        BY <3>1, <3>2
    <2>5. pc' # "copy count" /\ (pc' = "evictions" => ~(shard' < SHARD_COUNT))
      BY <2>1
    <2>6. ~(shard' < SHARD_COUNT) => shard' >= SHARD_COUNT
      BY <1>8, <2>4
    <2> QED
      BY <1>1, <2>3, <2>5, <2>6 DEF ListOK
  <1> QED
    BY <1>10, <1>11

\* Every step keeps the list complete up to the cursor.
LEMMA ListNext ==
    ASSUME IInv, DumpOK, EntriesOK, ListOK, [Next]_vars
    PROVE  ListOK'
  <1>1. CASE Loop
    <2>1. /\ shard' = 0 /\ cell' = 0 /\ sorted' = {} /\ pc' = "copy id"
      BY <1>1 DEF Loop, Goto, dump, DumpOK, CursorOK, NotYet, Before
    <2>2. \A s \in Shards \ {0} : s # 0 /\ ~(s < 0)
      BY SketchCount DEF Shards
    <2>3. \A h, n, m : n = 0 => RowsUpTo(h, {}, n, m)
      BY <2>2 DEF RowsUpTo, NoRow
    <2> QED
      BY <2>1, <2>3 DEF ListOK
  <1>2. CASE LookupFails
    <2>0. SUFFICES ASSUME loader = "m" PROVE ListOK'
      BY <1>2 DEF LookupFails, startup, ListOK
    <2>1. /\ pc = "copy id" /\ cell = 0 /\ shard' = shard + 1 /\ cell' = 0
          /\ sorted' = sorted /\ seen' = seen /\ loader' = loader
          /\ pc' = (IF shard' < SHARD_COUNT THEN "copy id" ELSE "evictions")
      BY <1>2, <2>0 DEF LookupFails, Goto, dump, history, startup
    <2>2. shard \in Nat /\ SHARD_COUNT \in Nat
      BY SketchCount DEF DumpOK, CursorOK
    <2>3. RowsUpTo(seen.heads, sorted, shard, 0)
      BY <2>0, <2>1 DEF ListOK, Copying
    <2>4. RowsUpTo(seen.heads, sorted, shard + 1, 0)
      BY <2>2, <2>3, ListSkips
    <2>5. ~(shard' < SHARD_COUNT) => shard' >= SHARD_COUNT
      <3>1. shard' = shard + 1
        BY <2>1
      <3> QED
        BY <2>2, <3>1
    <2>6. pc' # "copy count" /\ (pc' = "evictions" => ~(shard' < SHARD_COUNT))
      BY <2>1
    <2>7. RowsUpTo(seen'.heads, sorted', shard', cell')
      BY <2>1, <2>4
    <2> QED
      BY <2>5, <2>6, <2>7 DEF ListOK
  <1>3. CASE CopyId
    <2>1. /\ pc = "copy id" /\ pc' = "copy count" /\ id' = Copied.id
          /\ UNCHANGED <<shard, cell, sorted, seen, loader>>
      BY <1>3 DEF CopyId, Goto, history, startup
    <2>2. ASSUME shard # 0, SeenCount(shard, cell \div MAX_BUCKETS, cell % MAX_BUCKETS) > 0
          PROVE  Copied.id # NoFlow
      <3> DEFINE a == cell \div MAX_BUCKETS
                 j == cell % MAX_BUCKETS
      <3>1. shard \in Shards /\ a \in Arrays /\ j \in Indices /\ Copied \in Entry
        BY <2>1, CopiedType DEF Copying
      <3>2. Copied = Head(shard, a, j) /\ SeenCount(shard, a, j) > 0
        BY <2>2 DEF Copied
      <3> HIDE DEF a, j
      <3>3. SeenCount(shard, a, j) \in Nat /\ SeenCount(shard, a, j) <= Head(shard, a, j).count
        BY <3>1 DEF DumpOK, SeenOK
      <3>4. Copied.count \in Nat
        BY <3>1, Basics
      <3>5. Copied.count # 0
        BY <3>2, <3>3, <3>4
      <3>6. EntryIn(loader, shard, a, j, Copied, arrived[shard])
        BY <3>1, <3>2, Basics DEF EntriesOK, Head
      <3> QED
        BY <2>2, <3>5, <3>6 DEF EntryIn
    <2> QED
      BY <2>1, <2>2 DEF ListOK, Copying, SeenCount
  <1>4. CASE CopyCount
    BY <1>4, ListCopyCount
  <1>5. ASSUME UNCHANGED <<shard, cell, sorted, seen, loader, id>>,
               pc' = pc \/ pc' \notin Copying \union {"evictions"}
        PROVE  ListOK'
    BY <1>5 DEF ListOK, Copying, SeenCount
  <1>6. ASSUME pc' \notin Copying \union {"evictions"}
        PROVE  ListOK'
    BY <1>6 DEF ListOK, Copying
  <1>7. \/ Loop \/ LookupFails \/ CopyId \/ CopyCount
        \/ pc' \notin Copying \union {"evictions"}
        \/ pc' = pc /\ UNCHANGED <<shard, cell, sorted, seen, loader, id>>
    BY Zenon DEF Next, Main, open_and_load, InitSketch, OpenObject, FillTailSlot, Attach,
           ResetEvictions, ReadEvictions, DestroyLink, Close, handle_signal, Packet,
           vars, main, startup, dump, history, Goto, Copying
  <1> QED
    BY <1>1, <1>2, <1>3, <1>4, <1>5, <1>6, <1>7

\* m's dump misses no counter of a shard it has looked up, although it leaves
\* out rows without a key: outside shard 0 there is none that counts.
THEOREM NoHeadMissed == Spec => []NoHeadIsMissed
  <1>1. DumpOK /\ ListOK => NoHeadIsMissed
    <2> SUFFICES ASSUME DumpOK, ListOK, loader = "m", pc = "evictions", NEW s \in Shards \ {0},
                        \E row \in sorted : row.shard = s,
                        NEW a \in Arrays, NEW j \in Indices, seen.heads[s][a][j].count > 0
                 PROVE  \E row \in sorted : <<row.shard, row.array, row.index>> = <<s, a, j>>
      BY DEF NoHeadIsMissed
    <2>1. RowsUpTo(seen.heads, sorted, shard, cell) /\ shard >= SHARD_COUNT
      BY DEF ListOK
    <2>2. s < shard
      <3>1. shard \in Nat /\ SHARD_COUNT \in Nat /\ s \in 0 .. SHARD_COUNT - 1
        BY SketchCount DEF DumpOK, CursorOK, Shards
      <3> QED
        BY <2>1, <3>1
    <2>3. ListedUpTo(seen.heads, sorted, s, 2 * MAX_BUCKETS)
      BY <2>1, <2>2 DEF RowsUpTo, NoRow
    <2>4. a * MAX_BUCKETS + j < 2 * MAX_BUCKETS
      <3>1. 0 \in Nat /\ 0 < 2 * MAX_BUCKETS
        BY SketchAssumption
      <3> QED
        BY <3>1, PlaceOfHead
    <2>5. Listed(sorted, s, a, j)
      BY <2>3, <2>4 DEF ListedUpTo
    <2> QED
      BY <2>5 DEF Listed
  <1>2. Init => IInv /\ DumpOK /\ AccountsOK /\ EntriesOK /\ ListOK
    BY IInvInit, DumpInit, AccountsInit, EntriesInit, ListInit
  <1>3. IInv /\ DumpOK /\ AccountsOK /\ EntriesOK /\ ListOK /\ [Next]_vars
          => (IInv /\ DumpOK /\ AccountsOK /\ EntriesOK /\ ListOK)'
    BY IInvNext, DumpNext, AccountsNext, EntriesNext, ListNext
  <1> QED
    BY <1>1, <1>2, <1>3, PTL DEF Spec

-----------------------------------------------------------------------------
(* Every shard is a sketch of its own: the insertion into the record is,   *)
(* branch by branch, the one s-bubble's program makes into its only sketch. *)

\* A shard's operators that look at no variable are those of Op.
LEMMA ShardSame ==
    ASSUME NEW s
    PROVE  /\ \A f : ShardSketch(s)!Context(f) = Op!Context(f)
           /\ \A x : ShardSketch(s)!Tag(x) = Op!Tag(x)
           /\ \A e : /\ ShardSketch(s)!Entry_Insert(e) = Op!Entry_Insert(e)
                     /\ ShardSketch(s)!Entry_Lossy(e) = Op!Entry_Lossy(e)
           /\ \A c : ShardSketch(s)!Entry_Insert_with(c) = Op!Entry_Insert_with(c)
           /\ \A b, i : /\ ShardSketch(s)!Bucket_BucketSort(b, i) = Op!Bucket_BucketSort(b, i)
                        /\ ShardSketch(s)!Bucket_Remove(b, i) = Op!Bucket_Remove(b, i)
                        /\ ShardSketch(s)!Bucket_down_stairs(b, i) = Op!Bucket_down_stairs(b, i)
                        /\ ShardSketch(s)!Bucket_Empty(b, i) = Op!Bucket_Empty(b, i)
           /\ \A b, i, x : ShardSketch(s)!Bucket_Equal(b, i, x) = Op!Bucket_Equal(b, i, x)
           /\ \A c, a, e : ShardSketch(s)!KickTarget(c, a, e) = Op!KickTarget(c, a, e)
           /\ ShardSketch(s)!Arrays = Arrays /\ ShardSketch(s)!Slots = Slots
           /\ ShardSketch(s)!Indices = Indices
  <1>1. \A f : ShardSketch(s)!Context(f) = Op!Context(f)
    BY DEF ShardSketch!Context, Op!Context, ShardSketch!Arrays, Op!Arrays, ShardSketch!Tag, Op!Tag
  <1>2. \A b, i : /\ ShardSketch(s)!Bucket_BucketSort(b, i) = Op!Bucket_BucketSort(b, i)
                  /\ ShardSketch(s)!Bucket_Remove(b, i) = Op!Bucket_Remove(b, i)
                  /\ ShardSketch(s)!Bucket_down_stairs(b, i) = Op!Bucket_down_stairs(b, i)
                  /\ ShardSketch(s)!Bucket_Empty(b, i) = Op!Bucket_Empty(b, i)
    BY DEF ShardSketch!Bucket_BucketSort, Op!Bucket_BucketSort, ShardSketch!Bucket_Remove, Op!Bucket_Remove,
      ShardSketch!Bucket_down_stairs, Op!Bucket_down_stairs, ShardSketch!Slots, Op!Slots,
      ShardSketch!Entry_init, Op!Entry_init, ShardSketch!Bucket_Empty, Op!Bucket_Empty
  <1>3. \A b, i, x : ShardSketch(s)!Bucket_Equal(b, i, x) = Op!Bucket_Equal(b, i, x)
    BY DEF ShardSketch!Bucket_Equal, Op!Bucket_Equal, ShardSketch!Tag, Op!Tag
  <1>4. \A c, a, e : ShardSketch(s)!KickTarget(c, a, e) = Op!KickTarget(c, a, e)
    BY DEF ShardSketch!KickTarget, Op!KickTarget
  <1>5. /\ \A x : ShardSketch(s)!Tag(x) = Op!Tag(x)
        /\ \A e : /\ ShardSketch(s)!Entry_Insert(e) = Op!Entry_Insert(e)
                  /\ ShardSketch(s)!Entry_Lossy(e) = Op!Entry_Lossy(e)
        /\ \A c : ShardSketch(s)!Entry_Insert_with(c) = Op!Entry_Insert_with(c)
    BY DEF ShardSketch!Tag, Op!Tag, ShardSketch!Entry_Insert, Op!Entry_Insert, ShardSketch!Entry_Lossy,
      Op!Entry_Lossy, ShardSketch!Entry_Insert_with, Op!Entry_Insert_with
  <1>6. ShardSketch(s)!Arrays = Arrays /\ ShardSketch(s)!Slots = Slots /\ ShardSketch(s)!Indices = Indices
    BY DEF ShardSketch!Arrays, ShardSketch!Slots, ShardSketch!Indices, Arrays, Slots, Indices
  <1> QED BY <1>1, <1>2, <1>3, <1>4, <1>5, <1>6

\* The threshold a shard's sketch is taken to have.
Bar(s) == IF sketch_shard[s].threshold1 > 0 \/ (link /\ s < Sketches)
          THEN sketch_shard[s].threshold1 ELSE THRESHOLD_INIT

\* What a shard's sketch is before and after a packet, when its bar is its own.
Own(s, sk, new) ==
    /\ s \in Shards /\ sk \in Sketch /\ new \in Sketch
    /\ sk = sketch_shard[s] /\ new = sketch_shard'[s]
    /\ Bar(s) = sk.threshold1 /\ Bar(s)' = new.threshold1

\* Where a packet stops, and what it looks at, is the same.
LEMMA ShardLooks ==
    ASSUME NEW s, NEW sk, NEW new, Own(s, sk, new)
    PROVE  /\ \A c, a : ShardSketch(s)!Probe(c, a) = sk.buckets[a][c.keys[a]]
           /\ \A c, a, i : ShardSketch(s)!Stops(c, a, i) <=> Sk(sk)!Stops(c, a, i)
           /\ \A c, a, i : ShardSketch(s)!FirstStop(c, a, i) <=> Sk(sk)!FirstStop(c, a, i)
           /\ \A c : ShardSketch(s)!LossyArray(c) = Sk(sk)!LossyArray(c)
           /\ \A n : ShardSketch(s)!calculate_threshold(n) = Sk(sk)!calculate_threshold(n)
           /\ \A e, n : ShardSketch(s)!Kicks(e, n) <=> Sk(sk)!Kicks(e, n)
  <1>1. \A c, a : /\ ShardSketch(s)!Probe(c, a) = sk.buckets[a][c.keys[a]]
                  /\ Sk(sk)!Probe(c, a) = sk.buckets[a][c.keys[a]]
    BY DEF ShardSketch!Probe, Sk!Probe, Own
  <1>2. \A c, a, i : ShardSketch(s)!Stops(c, a, i) <=> Sk(sk)!Stops(c, a, i)
    BY <1>1 DEF ShardSketch!Stops, Sk!Stops, ShardSketch!Bucket_Equal, Sk!Bucket_Equal,
         ShardSketch!Bucket_Empty, Sk!Bucket_Empty, ShardSketch!Tag, Sk!Tag
  <1>3. \A c, a, i : ShardSketch(s)!FirstStop(c, a, i) <=> Sk(sk)!FirstStop(c, a, i)
    BY <1>2 DEF ShardSketch!FirstStop, Sk!FirstStop, ShardSketch!Arrays, Sk!Arrays
  <1>4. \A c : ShardSketch(s)!LossyArray(c) = Sk(sk)!LossyArray(c)
    BY <1>1 DEF ShardSketch!LossyArray, Sk!LossyArray
  <1>5. \A n : ShardSketch(s)!calculate_threshold(n) = Sk(sk)!calculate_threshold(n)
    BY DEF ShardSketch!calculate_threshold, Sk!calculate_threshold
  <1>6. \A e, n : ShardSketch(s)!Kicks(e, n) <=> Sk(sk)!Kicks(e, n)
    <2>1. Bar(s) = sk.threshold1
      BY DEF Own
    <2>2. \A e, n : ShardSketch(s)!Kicks(e, n) <=> e.count > Bar(s) /\ e.count > n[0].count
      BY DEF ShardSketch!Kicks, Bar
    <2>3. \A e, n : Sk(sk)!Kicks(e, n) <=> e.count > sk.threshold1 /\ e.count > n[0].count
      BY DEF Sk!Kicks
    <2> QED
      BY <2>1, <2>2, <2>3
  <1> QED
    BY <1>1, <1>2, <1>3, <1>4, <1>5, <1>6

\* A decay of the record is one of the shard's sketch.
LEMMA ShardDecays ==
    ASSUME NEW s, NEW sk, NEW new, Own(s, sk, new), NEW c, new = Decayed(sk, c)
    PROVE  ShardSketch(s)!Decay(c)
  <1> DEFINE a == Sk(sk)!LossyArray(c)
             last == MAX_ENTRY - 1
  <1>1. s \in Shards /\ sk \in Sketch
    BY DEF Own
  <1>2. ShardSketch(s)!Decay(c) <=>
             /\ sketch_shard'[s].buckets = [sketch_shard[s].buckets EXCEPT
                  ![ShardSketch(s)!LossyArray(c)][c.keys[ShardSketch(s)!LossyArray(c)]][MAX_ENTRY - 1]
                        = ShardSketch(s)!Entry_Lossy(@)]
             /\ sketch_shard'[s].f_max = sketch_shard[s].f_max
             /\ Bar(s)' = Bar(s)
    BY <1>1, Zenon DEF ShardSketch!Decay, Bar
  <1>3. ShardSketch(s)!LossyArray(c) = a
    BY ShardLooks
  <1>4. \A e : ShardSketch(s)!Entry_Lossy(e) = Op!Entry_Lossy(e) /\ Sk(sk)!Entry_Lossy(e) = Op!Entry_Lossy(e)
    BY ShardSame, OpSame
  <1>5. new = [sk EXCEPT !.buckets = [sk.buckets EXCEPT ![a][c.keys[a]] =
                    [sk.buckets[a][c.keys[a]] EXCEPT ![last] = Sk(sk)!Entry_Lossy(@)]]]
    BY Zenon DEF Decayed
  <1> HIDE DEF a, last
  <1>6. /\ new.buckets = [sk.buckets EXCEPT ![a][c.keys[a]] =
                             [sk.buckets[a][c.keys[a]] EXCEPT ![last] = Op!Entry_Lossy(@)]]
        /\ new.f_max = sk.f_max /\ new.threshold1 = sk.threshold1
    BY <1>1, <1>4, <1>5 DEF Sketch
  <1>7. sketch_shard'[s].buckets = [sketch_shard[s].buckets EXCEPT
             ![a][c.keys[a]][last] = ShardSketch(s)!Entry_Lossy(@)]
    BY <1>4, <1>6 DEF Own
  <1>8. sketch_shard'[s].f_max = sketch_shard[s].f_max /\ Bar(s)' = Bar(s)
    BY <1>6 DEF Own
  <1>9. MAX_ENTRY - 1 = last
    BY DEF last
  <1> QED
    BY <1>2, <1>3, <1>7, <1>8, <1>9, Zenon

\* An entry taken in the record is taken in the shard's sketch.
LEMMA ShardTakes ==
    ASSUME NEW s, NEW sk, NEW new, Own(s, sk, new), NEW c, NEW a, NEW i, new = Taken(sk, c, a, i)
    PROVE  ShardSketch(s)!Take(c, a, i)
  <1>1. s \in Shards /\ sk \in Sketch
    BY DEF Own
  <1>2. ShardSketch(s)!Take(c, a, i) <=>
             /\ sketch_shard'[s].buckets = [sketch_shard[s].buckets EXCEPT
                  ![a][c.keys[a]][i] = ShardSketch(s)!Entry_Insert_with(c)]
             /\ sketch_shard'[s].f_max = sketch_shard[s].f_max
             /\ Bar(s)' = Bar(s)
    BY <1>1, Zenon DEF ShardSketch!Take, Bar
  <1>3. ShardSketch(s)!Entry_Insert_with(c) = Sk(sk)!Entry_Insert_with(c)
    BY ShardSame, OpSame
  <1>4. /\ new.buckets = [sk.buckets EXCEPT ![a][c.keys[a]][i] = Sk(sk)!Entry_Insert_with(c)]
        /\ new.f_max = sk.f_max /\ new.threshold1 = sk.threshold1
    BY <1>1 DEF Taken, Sketch
  <1>5. sketch_shard'[s].f_max = sketch_shard[s].f_max /\ Bar(s)' = Bar(s)
    BY <1>4 DEF Own
  <1>6. sketch_shard'[s].buckets = [sketch_shard[s].buckets EXCEPT
                  ![a][c.keys[a]][i] = ShardSketch(s)!Entry_Insert_with(c)]
    BY <1>3, <1>4 DEF Own
  <1> QED
    BY <1>2, <1>5, <1>6, Zenon

\* A hot entry counted in the record is counted in the shard's sketch.
LEMMA ShardCountsHot ==
    ASSUME NEW s, NEW sk, NEW new, Own(s, sk, new), NEW c, NEW a \in Arrays,
           c.keys[a] \in Indices, new = CountedHot(sk, c, a)
    PROVE  ShardSketch(s)!CountHot(c, a)
  <1> DEFINE p   == sk.buckets[a][c.keys[a]]
             hot == Op!Entry_Insert(p[0])
             b   == [p EXCEPT ![0] = hot]
             bar == Sk(sk)!calculate_threshold(hot.count)
             raised == hot.count > sk.f_max
  <1>1. s \in Shards /\ sk \in Sketch /\ p \in Bucket /\ sk.buckets \in Store
        /\ sk = sketch_shard[s] /\ new = sketch_shard'[s]
        /\ Bar(s) = sk.threshold1 /\ Bar(s)' = new.threshold1
    BY DEF Own, Sketch, Store
  <1>2. /\ Sk(sk)!Probe(c, a) = p /\ ShardSketch(s)!Probe(c, a) = p
        /\ Sk(sk)!Entry_Insert(p[0]) = hot /\ ShardSketch(s)!Entry_Insert(p[0]) = hot
        /\ \A n : ShardSketch(s)!calculate_threshold(n) = Sk(sk)!calculate_threshold(n)
    BY ShardLooks, ShardSame, OpSame DEF Sk!Probe
  <1>3. new = [sk EXCEPT !.buckets[a][c.keys[a]][0] = hot,
                         !.f_max = IF raised THEN hot.count ELSE @,
                         !.threshold1 = IF raised /\ bar > @ THEN bar ELSE @]
    BY <1>2 DEF CountedHot
  <1> DEFINE b1 == [ShardSketch(s)!Probe(c, a) EXCEPT ![0] = ShardSketch(s)!Entry_Insert(@)]
             bar1 == ShardSketch(s)!calculate_threshold(b1[0].count)
  <1>4. ShardSketch(s)!CountHot(c, a) <=>
            /\ sketch_shard'[s].buckets = [sketch_shard[s].buckets EXCEPT ![a][c.keys[a]] = b1]
            /\ IF b1[0].count > sketch_shard[s].f_max
               THEN /\ sketch_shard'[s].f_max = b1[0].count
                    /\ Bar(s)' = IF bar1 > Bar(s) THEN bar1 ELSE Bar(s)
               ELSE sketch_shard'[s].f_max = sketch_shard[s].f_max /\ Bar(s)' = Bar(s)
    BY <1>1, Zenon DEF ShardSketch!CountHot, Bar
  <1>5. b1 = b
    BY <1>2
  <1> HIDE DEF b1, hot, p
  <1>6. b[0] = hot
    BY <1>1, Basics DEF Bucket
  <1>7. bar1 = bar
    BY <1>2, <1>5, <1>6
  <1> HIDE DEF bar1, bar, b
  <1>8. /\ new.buckets = [sk.buckets EXCEPT ![a][c.keys[a]][0] = hot]
        /\ new.f_max = IF raised THEN hot.count ELSE sk.f_max
        /\ new.threshold1 = IF raised /\ bar > sk.threshold1 THEN bar ELSE sk.threshold1
    BY <1>1, <1>3 DEF Sketch
  <1>9. new.buckets = [sk.buckets EXCEPT ![a][c.keys[a]] = b]
    BY <1>8 DEF b, p
  <1>10. sketch_shard'[s].buckets = [sketch_shard[s].buckets EXCEPT ![a][c.keys[a]] = b1]
    BY <1>1, <1>5, <1>9
  <1>11. IF b1[0].count > sketch_shard[s].f_max
         THEN /\ sketch_shard'[s].f_max = b1[0].count
              /\ Bar(s)' = IF bar1 > Bar(s) THEN bar1 ELSE Bar(s)
         ELSE sketch_shard'[s].f_max = sketch_shard[s].f_max /\ Bar(s)' = Bar(s)
    <2>1. b1[0] = hot
      BY <1>5, <1>6
    <2>2. CASE raised
      BY <1>1, <1>7, <1>8, <2>1, <2>2
    <2>3. CASE ~raised
      BY <1>1, <1>8, <2>1, <2>3
    <2> QED
      BY <2>2, <2>3
  <1> QED
    BY <1>4, <1>10, <1>11, Zenon

\* A cold entry counted in the record is counted in the shard's sketch.
LEMMA ShardCountsCold ==
    ASSUME NEW s, NEW sk, NEW new, Own(s, sk, new), NEW c, NEW a, NEW i,
           new = CountedCold(sk, c, a, i)
    PROVE  ShardSketch(s)!CountCold(c, a, i)
  <1> DEFINE B == sk.buckets
             b == ColdBucket(B, c, a, i)
             t == Op!KickTarget(c, a, b[1])
             n == B[1 - a][t]
             kicked == [B EXCEPT ![1 - a][t] = Pushed(n, b[1]), ![a][c.keys[a]] = Op!Bucket_Remove(b, 1)]
             b0 == Sk(sk)!Bucket_BucketSort([Sk(sk)!Probe(c, a) EXCEPT ![i] = Sk(sk)!Entry_Insert(@)], i)
             t0 == Sk(sk)!KickTarget(c, a, b0[1])
             n0 == sk.buckets[1 - a][t0]
             b1 == ShardSketch(s)!Bucket_BucketSort(
                     [ShardSketch(s)!Probe(c, a) EXCEPT ![i] = ShardSketch(s)!Entry_Insert(@)], i)
             t1 == ShardSketch(s)!KickTarget(c, a, b1[1])
             n1 == sketch_shard[s].buckets[1 - a][t1]
  <1>1. s \in Shards /\ sk \in Sketch /\ sk = sketch_shard[s] /\ new = sketch_shard'[s]
        /\ Bar(s) = sk.threshold1 /\ Bar(s)' = new.threshold1
    BY DEF Own
  <1>2. new = IF Sk(sk)!Kicks(b0[1], n0)
              THEN [sk EXCEPT
                      !.buckets[1 - a][t0] = [Sk(sk)!Bucket_down_stairs(n0, 0) EXCEPT ![0] = b0[1]],
                      !.buckets[a][c.keys[a]] = Sk(sk)!Bucket_Remove(b0, 1)]
              ELSE [sk EXCEPT !.buckets[a][c.keys[a]] = b0]
    BY Zenon DEF CountedCold
  <1>3. ShardSketch(s)!CountCold(c, a, i) <=>
            /\ IF ShardSketch(s)!Kicks(b1[1], n1)
               THEN sketch_shard'[s].buckets = [sketch_shard[s].buckets EXCEPT
                       ![1 - a][t1] = [ShardSketch(s)!Bucket_down_stairs(n1, 0) EXCEPT ![0] = b1[1]],
                       ![a][c.keys[a]] = ShardSketch(s)!Bucket_Remove(b1, 1)]
               ELSE sketch_shard'[s].buckets = [sketch_shard[s].buckets EXCEPT ![a][c.keys[a]] = b1]
            /\ sketch_shard'[s].f_max = sketch_shard[s].f_max
            /\ Bar(s)' = Bar(s)
    BY <1>1, Zenon DEF ShardSketch!CountCold, Bar
  <1>4. b0 = b /\ b1 = b
    <2>1. Sk(sk)!Probe(c, a) = Mine(B, c, a) /\ ShardSketch(s)!Probe(c, a) = Mine(B, c, a)
      BY ShardLooks DEF Sk!Probe, Mine
    <2>2. \A e : Sk(sk)!Entry_Insert(e) = Op!Entry_Insert(e)
                 /\ ShardSketch(s)!Entry_Insert(e) = Op!Entry_Insert(e)
      BY OpSame, ShardSame
    <2>3. \A x : Sk(sk)!Bucket_BucketSort(x, i) = Op!Bucket_BucketSort(x, i)
                 /\ ShardSketch(s)!Bucket_BucketSort(x, i) = Op!Bucket_BucketSort(x, i)
      BY OpSame, ShardSame
    <2> QED
      BY <2>1, <2>2, <2>3 DEF ColdBucket
  <1> HIDE DEF b0, b1, b
  <1>5. t0 = t /\ t1 = t
    BY <1>4, OpSame, ShardSame
  <1> HIDE DEF t0, t1, t
  <1>6. n0 = n /\ n1 = n
    BY <1>1, <1>5
  <1> HIDE DEF n0, n1, n
  <1>7. /\ Sk(sk)!Bucket_down_stairs(n, 0) = Op!Bucket_down_stairs(n, 0)
        /\ ShardSketch(s)!Bucket_down_stairs(n, 0) = Op!Bucket_down_stairs(n, 0)
        /\ Sk(sk)!Bucket_Remove(b, 1) = Op!Bucket_Remove(b, 1)
        /\ ShardSketch(s)!Bucket_Remove(b, 1) = Op!Bucket_Remove(b, 1)
        /\ Pushed(n, b[1]) = [Op!Bucket_down_stairs(n, 0) EXCEPT ![0] = b[1]]
        /\ ShardSketch(s)!Kicks(b[1], n) <=> Sk(sk)!Kicks(b[1], n)
    BY OpSame, ShardSame, ShardLooks, SMTT(60) DEF Pushed
  <1>8. new = IF Sk(sk)!Kicks(b[1], n)
              THEN [sk EXCEPT !.buckets[1 - a][t] = Pushed(n, b[1]),
                              !.buckets[a][c.keys[a]] = Op!Bucket_Remove(b, 1)]
              ELSE [sk EXCEPT !.buckets[a][c.keys[a]] = b]
    BY <1>2, <1>4, <1>5, <1>6, <1>7
  <1>9. /\ new.buckets = IF Sk(sk)!Kicks(b[1], n) THEN kicked ELSE [B EXCEPT ![a][c.keys[a]] = b]
        /\ new.f_max = sk.f_max /\ new.threshold1 = sk.threshold1
    BY <1>1, <1>8 DEF Sketch
  <1>10. sketch_shard'[s].f_max = sketch_shard[s].f_max /\ Bar(s)' = Bar(s)
    BY <1>1, <1>9
  <1>11. CASE Sk(sk)!Kicks(b[1], n)
    <2>1. sketch_shard'[s].buckets = [sketch_shard[s].buckets EXCEPT
                       ![1 - a][t1] = [ShardSketch(s)!Bucket_down_stairs(n1, 0) EXCEPT ![0] = b1[1]],
                       ![a][c.keys[a]] = ShardSketch(s)!Bucket_Remove(b1, 1)]
      BY <1>1, <1>4, <1>5, <1>6, <1>7, <1>9, <1>11
    <2>2. ShardSketch(s)!Kicks(b1[1], n1)
      BY <1>4, <1>6, <1>7, <1>11
    <2> QED
      BY <1>3, <1>10, <2>1, <2>2, Zenon
  <1>12. CASE ~Sk(sk)!Kicks(b[1], n)
    <2>1. sketch_shard'[s].buckets = [sketch_shard[s].buckets EXCEPT ![a][c.keys[a]] = b1]
      BY <1>1, <1>4, <1>9, <1>12
    <2>2. ~ShardSketch(s)!Kicks(b1[1], n1)
      BY <1>4, <1>6, <1>7, <1>12
    <2> QED
      BY <1>3, <1>10, <2>1, <2>2, Zenon
  <1> QED
    BY <1>11, <1>12

\* What a packet does to its shard's record is an insertion into that shard's
\* sketch.
LEMMA ShardInserts ==
    ASSUME NEW s, NEW sk, NEW new, Own(s, sk, new), NEW f \in Flows, new = Inserted(sk, f)
    PROVE  ShardSketch(s)!BubbleSketch_Insert(ShardSketch(s)!Context(f))
  <1> DEFINE c == Sk(sk)!Context(f)
             p == CHOOSE p \in StoppedAt(sk, c) : TRUE
  <1>1. /\ ShardSketch(s)!Context(f) = c
        /\ ShardSketch(s)!Arrays = Arrays /\ ShardSketch(s)!Slots = Slots
        /\ \A a \in Arrays : c.keys[a] \in Indices
    BY ShardSame, OpSame, ContextType
  <1>2. CASE StoppedAt(sk, c) = {}
    <2> HIDE DEF c
    <2>1. new = Decayed(sk, c)
      BY <1>2 DEF Inserted, c
    <2>2. ShardSketch(s)!Decay(c)
      BY <2>1, ShardDecays
    <2>3. \A x \in Arrays, k \in Slots : ~ShardSketch(s)!Stops(c, x, k)
      BY <1>2, NoStop, ShardLooks
    <2>4. ShardSketch(s)!Lossy(c)
      BY <1>1, <2>2, <2>3 DEF ShardSketch!Lossy
    <2> QED
      BY <1>1, <2>4 DEF ShardSketch!BubbleSketch_Insert
  <1>3. CASE StoppedAt(sk, c) # {}
    <2> DEFINE a == p[1]
               i == p[2]
               Equal == Sk(sk)!Bucket_Equal(Sk(sk)!Probe(c, a), i, c.fp)
    <2>1. p \in StoppedAt(sk, c)
      BY <1>3
    <2>2. a \in Arrays /\ i \in Slots /\ Sk(sk)!FirstStop(c, a, i)
      BY <2>1 DEF StoppedAt, Sk!Arrays, Sk!Slots, Arrays, Slots
    <2>3. new = IF ~Equal THEN Taken(sk, c, a, i)
                ELSE IF i = 0 THEN CountedHot(sk, c, a)
                ELSE CountedCold(sk, c, a, i)
      BY <1>3, Zenon DEF Inserted
    <2> HIDE DEF c, p, a, i
    <2>4. ShardSketch(s)!FirstStop(c, a, i)
      BY <2>2, ShardLooks
    <2>5. Equal <=> ShardSketch(s)!Bucket_Equal(ShardSketch(s)!Probe(c, a), i, c.fp)
      <3>1. ShardSketch(s)!Probe(c, a) = Sk(sk)!Probe(c, a)
        BY ShardLooks DEF Sk!Probe
      <3>2. \A b, k, x : ShardSketch(s)!Bucket_Equal(b, k, x) <=> Sk(sk)!Bucket_Equal(b, k, x)
        BY DEF ShardSketch!Bucket_Equal, Sk!Bucket_Equal, ShardSketch!Tag, Sk!Tag
      <3> QED
        BY <3>1, <3>2
    <2> HIDE DEF Equal
    <2>6. CASE ~Equal
      <3>1. ShardSketch(s)!Take(c, a, i)
        BY <2>3, <2>6, ShardTakes
      <3>2. ShardSketch(s)!Fill(c, a, i)
        BY <2>4, <2>5, <2>6, <3>1 DEF ShardSketch!Fill
      <3> QED
        BY <1>1, <2>2, <3>2 DEF ShardSketch!BubbleSketch_Insert
    <2>7. CASE Equal /\ i = 0
      <3>1. new = CountedHot(sk, c, a)
        BY <2>3, <2>7
      <3>2. ShardSketch(s)!CountHot(c, a)
        BY <1>1, <2>2, <3>1, ShardCountsHot
      <3>3. ShardSketch(s)!HotHit(c, a)
        BY <2>4, <2>5, <2>7, <3>2 DEF ShardSketch!HotHit
      <3> QED
        BY <1>1, <2>2, <3>3 DEF ShardSketch!BubbleSketch_Insert
    <2>8. CASE Equal /\ i # 0
      <3>1. new = CountedCold(sk, c, a, i)
        BY <2>3, <2>8
      <3>2. ShardSketch(s)!CountCold(c, a, i)
        BY <3>1, ShardCountsCold
      <3>3. i > 0
        BY <2>2, <2>8, Basics
      <3>4. ShardSketch(s)!ColdHit(c, a, i)
        BY <2>4, <2>5, <2>8, <3>2, <3>3 DEF ShardSketch!ColdHit
      <3> QED
        BY <1>1, <2>2, <3>4 DEF ShardSketch!BubbleSketch_Insert
    <2> QED
      BY <2>6, <2>7, <2>8
  <1> QED
    BY <1>2, <1>3

-----------------------------------------------------------------------------
(* Which shards a step concerns: one at most, and only a packet.           *)

\* There are finitely many classes.
LEMMA ClassesFinite == IsFiniteSet(Classes)
  <1> DEFINE H == 0 .. HASH_SPACE
  <1>1. HASH_SPACE \in Nat \ {0} /\ FP_UNIT \in Nat \ {0} /\ TAG_UNIT \in Nat \ {0}
        /\ MAX_BUCKETS \in Nat \ {0} /\ \A f \in Flows : Hash[f] \in 0 .. HASH_SPACE - 1
    BY SketchAssumption
  <1>2. ASSUME NEW f \in Flows
        PROVE  Class(f) \in H \X Indices
    <2> DEFINE h == Hash[f]
               x == h \div FP_UNIT
    <2>1. h \in Nat /\ h \in 0 .. HASH_SPACE - 1
      BY <1>1
    <2> HIDE DEF h
    <2>2. x \in 0 .. h
      BY <1>1, <2>1, DivSmall
    <2> HIDE DEF x
    <2>3. x \div TAG_UNIT \in 0 .. x
      BY <1>1, <2>1, <2>2, DivSmall
    <2>4. h % MAX_BUCKETS \in Indices
      BY <1>1, <2>1, DivMod DEF Indices
    <2>5. x \div TAG_UNIT \in H
      <3> DEFINE y == x \div TAG_UNIT
      <3> HIDE DEF y
      <3>1. y \in 0 .. x
        BY <2>3 DEF y
      <3>2. y \in H
        BY <1>1, <2>1, <2>2, <3>1
      <3> QED
        BY <3>2 DEF y
    <2>6. Class(f) = <<x \div TAG_UNIT, h % MAX_BUCKETS>>
      BY DEF Class, h, x, Sk!Tag
    <2> QED
      BY <2>4, <2>5, <2>6
  <1>3. IsFiniteSet(H) /\ IsFiniteSet(Indices)
    BY <1>1, FS_Interval DEF Indices
  <1>4. IsFiniteSet(H \X Indices)
    BY <1>3, FS_Product
  <1>5. Classes \subseteq H \X Indices
    BY <1>2 DEF Classes
  <1> QED
    BY <1>4, <1>5, FS_Subset

\* The classes are the same for every shard.
LEMMA ShardClasses ==
    ASSUME NEW s
    PROVE  /\ \A f \in Flows : ShardSketch(s)!Class(f) = Class(f)
           /\ ShardSketch(s)!Classes = Classes
  <1>1. ASSUME NEW f \in Flows
        PROVE  ShardSketch(s)!Class(f) = Class(f)
    <2>1. Op!Context(f).keys[0] = Hash[f] % MAX_BUCKETS
      BY OpAssumptions, WrapAssumption, Op!KeysOfHash
    <2>2. Op!Context(f).fp = Hash[f] \div FP_UNIT
      BY DEF Op!Context
    <2>3. ShardSketch(s)!Class(f) = <<Op!Tag(Op!Context(f).fp), Op!Context(f).keys[0]>>
      BY ShardSame DEF ShardSketch!Class
    <2>4. Class(f) = <<Op!Tag(Hash[f] \div FP_UNIT), Hash[f] % MAX_BUCKETS>>
      BY OpSame DEF Class
    <2> QED
      BY <2>1, <2>2, <2>3, <2>4
  <1>2. ShardSketch(s)!Classes = Classes
    BY <1>1 DEF ShardSketch!Classes, Classes
  <1> QED
    BY <1>1, <1>2

\* Until packets may come, a shard's map is as it was created or as it was
\* written, and no shard is sent more than insert_counter counts.
ShardOK ==
    /\ pc \in {"open", "init"} =>
            \A s \in Shards : sketch_shard[s] \in {Zeroed, BubbleSketch_init}
    /\ \A s \in Shards : SumFunctionOnSet(arrived[s], Classes) \in 0 .. insert_counter

\* At the start nothing has been sent.
LEMMA ShardInit == Init => ShardOK
  <1> SUFFICES ASSUME Init PROVE ShardOK
    OBVIOUS
  <1>1. ASSUME NEW s \in Shards
        PROVE  SumFunctionOnSet(arrived[s], Classes) = 0
    <2>1. \A c \in Classes : arrived[s][c] = 0
      BY DEF Init, Init_maps
    <2> QED
      BY <2>1, ClassesFinite, SumZero
  <1>2. insert_counter = 0 /\ sketch_shard = [s \in Shards |-> Zeroed]
    BY DEF Init, Init_maps
  <1> QED
    BY <1>1, <1>2 DEF ShardOK

\* What a packet adds to one shard's traffic, it adds to that shard's sum.
LEMMA SumOfShards ==
    ASSUME AccountsOK, NEW s \in Shards, NEW f \in Flows,
           arrived' = [arrived EXCEPT ![s][Class(f)] = @ + 1]
    PROVE  /\ arrived'[s] = [arrived[s] EXCEPT ![Class(f)] = @ + 1]
           /\ arrived'[s][Class(f)] = arrived[s][Class(f)] + 1
           /\ arrived[s][Class(f)] \in Nat
           /\ SumFunctionOnSet(arrived'[s], Classes) = SumFunctionOnSet(arrived[s], Classes) + 1
           /\ \A x \in Shards \ {s} : arrived'[x] = arrived[x]
  <1>1. /\ arrived \in [Shards -> [Classes -> 0 .. insert_counter]]
        /\ Class(f) \in Classes
    BY DEF AccountsOK, Classes
  <1>2. insert_counter \in Nat
    <2>1. Traffic[loader] \in Nat
      BY PacketsAssumption DEF AccountsOK
    <2> QED
      BY <2>1 DEF AccountsOK
  <1>3. IsFiniteSet(Classes)
    BY ClassesFinite
  <1> DEFINE g == arrived[s]
             c == Class(f)
  <1>4. arrived'[s] = [g EXCEPT ![c] = @ + 1] /\ \A x \in Shards \ {s} : arrived'[x] = arrived[x]
    BY <1>1
  <1>5. g \in [Classes -> Int] /\ c \in Classes /\ g[c] \in Nat
    BY <1>1, <1>2
  <1> HIDE DEF g, c
  <1>6. SumFunctionOnSet([g EXCEPT ![c] = @ + 1], Classes) = SumFunctionOnSet(g, Classes) + 1
    BY <1>3, <1>5, OneMoreInSum
  <1> QED
    BY <1>4, <1>5, <1>6 DEF g, c

\* Every step of main and of the traffic keeps it.
LEMMA ShardNext ==
    ASSUME IInv, AccountsOK, ShardOK, [Next]_vars
    PROVE  ShardOK'
  <1>0. insert_counter \in Nat
    <2>1. Traffic[loader] \in Nat
      BY PacketsAssumption DEF AccountsOK
    <2> QED
      BY <2>1 DEF AccountsOK
  <1>1. CASE open_and_load
    BY <1>1 DEF open_and_load, ShardOK, Goto, maps
  <1>2. CASE InitSketch
    <2>1. pc = "init" /\ UNCHANGED <<insert_counter, arrived>>
      BY <1>2 DEF InitSketch
    <2>2. pc' = "init" => \A s \in Shards : sketch_shard'[s] \in {Zeroed, BubbleSketch_init}
      <3>1. sketch_shard' = sketch_shard
            \/ sketch_shard' = [sketch_shard EXCEPT ![shard] = BubbleSketch_init]
        BY <1>2 DEF InitSketch
      <3>2. sketch_shard \in [Shards -> Sketch]
        BY DEF IInv, SketchesOK
      <3> QED
        BY <2>1, <3>1, <3>2 DEF ShardOK
    <2>3. pc' # "open"
      BY <1>2 DEF InitSketch, Goto
    <2> QED
      BY <2>1, <2>2, <2>3 DEF ShardOK
  <1>3. CASE OpenObject
    BY <1>3 DEF OpenObject, ShardOK, Goto, maps
  <1>4. CASE FillTailSlot
    BY <1>4 DEF FillTailSlot, ShardOK, Goto, maps
  <1>5. CASE Attach
    BY <1>5 DEF Attach, ShardOK, Goto, maps
  <1>6. CASE ResetEvictions
    BY <1>6 DEF ResetEvictions, ShardOK, Goto
  <1>7. CASE Loop
    BY <1>7 DEF Loop, ShardOK, Goto, maps
  <1>8. CASE LookupFails
    BY <1>8 DEF LookupFails, ShardOK, Goto, maps
  <1>9. CASE CopyId
    BY <1>9 DEF CopyId, ShardOK, Goto, maps
  <1>10. CASE CopyCount
    BY <1>10 DEF CopyCount, ShardOK, Goto, maps
  <1>11. CASE ReadEvictions
    BY <1>11 DEF ReadEvictions, ShardOK, Goto, maps
  <1>12. CASE DestroyLink
    BY <1>12 DEF DestroyLink, ShardOK, Goto, maps
  <1>13. CASE Close
    BY <1>13 DEF Close, ShardOK, Goto, maps
  <1>14. CASE handle_signal
    BY <1>14 DEF handle_signal, ShardOK, maps
  <1>20. CASE UNCHANGED vars
    BY <1>20 DEF ShardOK, vars, maps, main
  <1>21. ASSUME NEW f \in Flows, Packet(f)
         PROVE  ShardOK'
    <2> DEFINE s == IF loader = "m" THEN get_shard_id(f) ELSE 0
    <2>1. s \in Shards
      BY SketchCount
    <2>2. /\ link /\ pc' = pc /\ insert_counter' = insert_counter + 1
          /\ arrived' = [arrived EXCEPT ![s][Class(f)] = @ + 1]
      BY <1>21, Zenon DEF Packet, Insert, main
    <2> HIDE DEF s
    <2>3. pc \notin {"open", "init"}
      BY <2>2 DEF IInv, LinkOK, During
    <2>4. /\ SumFunctionOnSet(arrived'[s], Classes) = SumFunctionOnSet(arrived[s], Classes) + 1
          /\ \A x \in Shards \ {s} : arrived'[x] = arrived[x]
      BY <2>1, <2>2, SumOfShards
    <2>5. \A x \in Shards : SumFunctionOnSet(arrived[x], Classes) \in 0 .. insert_counter
      BY DEF ShardOK
    <2>6. ASSUME NEW x \in Shards
          PROVE  SumFunctionOnSet(arrived'[x], Classes) \in 0 .. insert_counter'
      <3>1. CASE x = s
        BY <1>0, <2>1, <2>2, <2>4, <2>5, <3>1
      <3>2. CASE x # s
        <4>1. arrived'[x] = arrived[x]
          BY <2>4, <3>2
        <4>2. SumFunctionOnSet(arrived'[x], Classes) = SumFunctionOnSet(arrived[x], Classes)
          BY <4>1, Zenon
        <4> QED
          BY <1>0, <2>2, <2>5, <4>2
      <3> QED
        BY <3>1, <3>2
    <2> QED
      BY <2>2, <2>3, <2>6 DEF ShardOK
  <1> QED
    BY <1>1, <1>2, <1>3, <1>4, <1>5, <1>6, <1>7, <1>8, <1>9, <1>10, <1>11, <1>12, <1>13, <1>14,
       <1>20, <1>21 DEF Next, Main

\* A step is, for every shard, one of its sketch or none.
ShardStep(s) ==
    \/ UNCHANGED ShardSketch(s)!vars
    \/ \E f \in Flows : /\ arrived'[s][Class(f)] > arrived[s][Class(f)]
                        /\ ShardSketch(s)!xdp_collect_5tuple(f)

\* A sketch stays as it is when its map, its traffic and its bar do.
LEMMA ShardStays ==
    ASSUME NEW s,
           sketch_shard'[s].buckets = sketch_shard[s].buckets,
           sketch_shard'[s].f_max = sketch_shard[s].f_max,
           arrived'[s] = arrived[s], Bar(s)' = Bar(s)
    PROVE  ShardStep(s)
  <1>1. SumFunctionOnSet(arrived'[s], Classes) = SumFunctionOnSet(arrived[s], Classes)
    BY Zenon
  <1>2. UNCHANGED ShardSketch(s)!vars
    BY <1>1 DEF ShardSketch!vars, Bar
  <1> QED
    BY <1>2 DEF ShardStep

\* The bar of a ready sketch is its threshold, whether the program is attached
\* or not.
LEMMA BarOfReady ==
    ASSUME IInv, NEW s \in Shards, Ready(s)
    PROVE  Bar(s) = sketch_shard[s].threshold1
  <1>1. sketch_shard[s].threshold1 \in Nat
    BY DEF IInv, SketchesOK, Sketch
  <1> QED
    BY <1>1, SketchCount DEF Bar, Ready

\* Steps that touch neither maps nor link.
LEMMA ShardIdle ==
    ASSUME UNCHANGED <<sketch_shard, arrived, link, loader>>, NEW s
    PROVE  ShardStep(s)
  <1>1. Bar(s)' = Bar(s)
    BY DEF Bar, Sketches
  <1> QED
    BY <1>1, ShardStays

\* Attaching and detaching change no bar: the sketches in use are ready.
LEMMA ShardAttached ==
    ASSUME IInv, IInv', UNCHANGED <<sketch_shard, arrived, loader>>,
           pc = "attach" \/ link \/ ~link', NEW s \in Shards
    PROVE  ShardStep(s)
  <1>1. Sketches' = Sketches
    BY DEF Sketches
  <1>2. Bar(s)' = Bar(s)
    <2>1. CASE ~link /\ ~link'
      BY <1>1, <2>1 DEF Bar
    <2>2. CASE ~(s < Sketches)
      BY <1>1, <2>2 DEF Bar
    <2>3. CASE (pc = "attach" \/ link) /\ s < Sketches
      <3>1. s \in 0 .. Sketches - 1
        BY <2>3, SketchCount DEF Shards
      <3>2. Ready(s) /\ Ready(s)'
        BY <2>3, <3>1 DEF IInv, SketchesOK, Ready
      <3>3. Bar(s) = sketch_shard[s].threshold1
        BY <3>2, BarOfReady
      <3>4. Bar(s)' = sketch_shard'[s].threshold1
        <4>1. (IInv /\ s \in Shards /\ Ready(s) => Bar(s) = sketch_shard[s].threshold1)'
          BY BarOfReady, PTL
        <4> QED
          BY <3>2, <4>1 DEF Shards
      <3> QED
        BY <3>3, <3>4
    <2> QED
      BY <2>1, <2>2, <2>3
  <1> QED
    BY <1>2, ShardStays

\* Writing a sketch that is as it was created changes nothing but its bar,
\* which is taken to be the one that is written.
LEMMA ShardWritten ==
    ASSUME IInv, IInv', ShardOK, InitSketch, NEW s \in Shards
    PROVE  ShardStep(s)
  <1>1. /\ pc = "init" /\ ~link /\ link' = link /\ loader' = loader /\ arrived' = arrived
        /\ sketch_shard \in [Shards -> Sketch] /\ Sketches' = Sketches
    BY DEF InitSketch, IInv, SketchesOK, LinkOK, During, startup, Sketches
  <1>2. \/ sketch_shard' = sketch_shard
        \/ sketch_shard' = [sketch_shard EXCEPT ![shard] = BubbleSketch_init]
    BY DEF InitSketch
  <1>3. sketch_shard[s] \in {Zeroed, BubbleSketch_init}
    BY <1>1 DEF ShardOK
  <1>4. sketch_shard'[s] = sketch_shard[s] \/ sketch_shard'[s] = BubbleSketch_init
    BY <1>1, <1>2
  <1>5. /\ BubbleSketch_init.buckets = Zeroed.buckets /\ BubbleSketch_init.f_max = Zeroed.f_max
        /\ BubbleSketch_init.threshold1 = THRESHOLD_INIT /\ Zeroed.threshold1 = 0
        /\ THRESHOLD_INIT \in Nat
    BY SketchCount DEF BubbleSketch_init, Zeroed
  <1> HIDE DEF BubbleSketch_init, Zeroed
  <1>6. Bar(s) = THRESHOLD_INIT /\ Bar(s)' = THRESHOLD_INIT
    BY <1>1, <1>3, <1>4, <1>5 DEF Bar
  <1>7. /\ sketch_shard'[s].buckets = sketch_shard[s].buckets
        /\ sketch_shard'[s].f_max = sketch_shard[s].f_max
    BY <1>3, <1>4, <1>5
  <1> QED
    BY <1>1, <1>6, <1>7, ShardStays

\* A packet is one of its shard's sketch, and none of the others'.
LEMMA ShardPacket ==
    ASSUME IInv, IInv', AccountsOK, ShardOK, NEW f \in Flows, Packet(f), NEW x \in Shards
    PROVE  ShardStep(x)
  <1> DEFINE s == IF loader = "m" THEN get_shard_id(f) ELSE 0
  <1>1. /\ link /\ insert_counter < Traffic[loader]
        /\ sketch_shard' = [sketch_shard EXCEPT ![s] = Inserted(@, f)]
        /\ arrived' = [arrived EXCEPT ![s][Class(f)] = @ + 1]
        /\ UNCHANGED main
    BY Zenon DEF Packet, Insert
  <1>2. link' = link /\ loader' = loader /\ Sketches' = Sketches
    BY <1>1 DEF main, startup, Sketches
  <1>3. s \in Shards /\ s < Sketches
    <2>1. loader = "m" => Sketches = SHARD_COUNT
      BY DEF Sketches
    <2> QED
      BY <2>1, SketchCount DEF Shards
  <1> HIDE DEF s
  <1>4. sketch_shard \in [Shards -> Sketch] /\ sketch_shard' \in [Shards -> Sketch]
    BY DEF IInv, SketchesOK
  <1>5. sketch_shard'[s] = Inserted(sketch_shard[s], f)
    BY <1>1, <1>3, <1>4
  <1>6. /\ arrived'[s] = [arrived[s] EXCEPT ![Class(f)] = @ + 1]
        /\ arrived'[s][Class(f)] = arrived[s][Class(f)] + 1
        /\ arrived[s][Class(f)] \in Nat
        /\ SumFunctionOnSet(arrived'[s], Classes) = SumFunctionOnSet(arrived[s], Classes) + 1
        /\ \A y \in Shards \ {s} : arrived'[y] = arrived[y]
    BY <1>1, <1>3, SumOfShards
  <1>7. CASE x # s
    <2>1. sketch_shard'[x] = sketch_shard[x] /\ arrived'[x] = arrived[x]
      BY <1>1, <1>4, <1>6, <1>7
    <2>2. Bar(x)' = Bar(x)
      BY <1>2, <2>1 DEF Bar
    <2> QED
      BY <2>1, <2>2, ShardStays
  <1>8. CASE x = s
    <2>1. PICK sk, new : sk = sketch_shard[x] /\ new = sketch_shard'[x]
      OBVIOUS
    <2>2. Bar(x) = sketch_shard[x].threshold1 /\ Bar(x)' = sketch_shard'[x].threshold1
      BY <1>1, <1>2, <1>3, <1>8 DEF Bar
    <2>3. Own(x, sk, new) /\ new = Inserted(sk, f)
      BY <1>4, <1>5, <1>8, <2>1, <2>2 DEF Own
    <2>4. ShardSketch(x)!BubbleSketch_Insert(ShardSketch(x)!Context(f))
      BY <2>3, ShardInserts
    <2>5. /\ arrived'[x] = [arrived[x] EXCEPT ![Class(f)] = @ + 1]
          /\ arrived'[x][Class(f)] > arrived[x][Class(f)]
          /\ SumFunctionOnSet(arrived'[x], Classes) = SumFunctionOnSet(arrived[x], Classes) + 1
      BY <1>6, <1>8
    <2>6. SumFunctionOnSet(arrived[x], Classes) < MaxPackets
      <3>1. /\ MaxPackets \in Nat /\ Traffic[loader] \in Nat /\ Traffic[loader] <= MaxPackets
            /\ insert_counter \in 0 .. Traffic[loader]
        BY TrafficBound DEF AccountsOK
      <3>2. SumFunctionOnSet(arrived[x], Classes) \in 0 .. insert_counter
        BY DEF ShardOK
      <3> QED
        BY <1>1, <3>1, <3>2
    <2>7. arrived'[x] = [arrived[x] EXCEPT ![ShardSketch(x)!Class(f)] = @ + 1]
      BY <2>5, ShardClasses
    <2>8. ShardSketch(x)!xdp_collect_5tuple(f)
      BY <2>4, <2>5, <2>6, <2>7, Zenon DEF ShardSketch!xdp_collect_5tuple
    <2> QED
      BY <2>5, <2>8 DEF ShardStep
  <1> QED
    BY <1>7, <1>8

\* Every step is one of that kind.
LEMMA ShardSteps ==
    ASSUME IInv, IInv', AccountsOK, ShardOK, [Next]_vars, NEW s \in Shards
    PROVE  ShardStep(s)
  <1>1. CASE open_and_load
    BY <1>1, ShardIdle DEF open_and_load, maps, startup
  <1>2. CASE InitSketch
    BY <1>2, ShardWritten
  <1>3. CASE OpenObject
    BY <1>3, ShardIdle DEF OpenObject, maps
  <1>4. CASE FillTailSlot
    BY <1>4, ShardIdle DEF FillTailSlot, maps
  <1>5. CASE Attach
    BY <1>5, ShardAttached DEF Attach, maps
  <1>6. CASE ResetEvictions
    BY <1>6, ShardIdle DEF ResetEvictions, startup
  <1>7. CASE Loop
    BY <1>7, ShardIdle DEF Loop, maps, startup
  <1>8. CASE LookupFails
    BY <1>8, ShardIdle DEF LookupFails, maps, startup
  <1>9. CASE CopyId
    BY <1>9, ShardIdle DEF CopyId, maps, startup
  <1>10. CASE CopyCount
    BY <1>10, ShardIdle DEF CopyCount, maps, startup
  <1>11. CASE ReadEvictions
    BY <1>11, ShardIdle DEF ReadEvictions, maps, startup
  <1>12. CASE DestroyLink
    <2>1. UNCHANGED <<sketch_shard, arrived, loader>> /\ link' = FALSE
      BY <1>12 DEF DestroyLink, maps, startup
    <2> QED
      BY <2>1, ShardAttached
  <1>13. CASE Close
    BY <1>13, ShardIdle DEF Close, maps
  <1>14. CASE handle_signal
    BY <1>14, ShardIdle DEF handle_signal, maps, startup
  <1>20. CASE UNCHANGED vars
    BY <1>20, ShardIdle DEF vars, maps, main, startup
  <1>21. ASSUME NEW f \in Flows, Packet(f)
         PROVE  ShardStep(s)
    BY <1>21, ShardPacket
  <1> QED
    BY <1>1, <1>2, <1>3, <1>4, <1>5, <1>6, <1>7, <1>8, <1>9, <1>10, <1>11, <1>12, <1>13, <1>14,
       <1>20, <1>21 DEF Next, Main

\* An untouched map is a sketch before its first packet.
LEMMA ShardStarts ==
    ASSUME Init, NEW s \in Shards
    PROVE  ShardSketch(s)!Init
  <1>1. sketch_shard[s] = Zeroed /\ arrived[s] = [c \in Classes |-> 0] /\ ~link
    BY DEF Init, Init_maps
  <1>2. SumFunctionOnSet(arrived[s], Classes) = 0
    BY <1>1, ClassesFinite, SumZero
  <1>3. Bar(s) = THRESHOLD_INIT
    BY <1>1 DEF Bar, Zeroed
  <1>4. /\ sketch_shard[s].f_max = 0
        /\ sketch_shard[s].buckets = [a \in Arrays |-> [j \in Indices |->
                [i \in Slots |-> ShardSketch(s)!Entry_init]]]
    BY <1>1 DEF Zeroed, Arrays, Indices, Slots, ShardSketch!Entry_init
  <1>5. ShardSketch(s)!Init_sketch
    BY <1>3, <1>4, ShardSame DEF ShardSketch!Init_sketch, Bar
  <1>6. arrived[s] = [c \in ShardSketch(s)!Classes |-> 0]
    BY <1>1, ShardClasses
  <1> QED
    BY <1>2, <1>5, <1>6 DEF ShardSketch!Init

\* What the packets sent to a shard do to it is what they would do to the only
\* sketch of s-bubble, and nothing else changes it once packets may come:
\* whatever is true of that sketch in all its behaviours is true of each shard.
THEOREM ShardsAreSketches == Spec => ShardsImplementSketches
  <1>1. Init => \A s \in Shards : ShardSketch(s)!Init
    BY ShardStarts
  <1>2. IInv /\ AccountsOK /\ ShardOK /\ [Next]_vars => AccountsOK' /\ ShardOK'
    BY AccountsNext, ShardNext
  <1>3. IInv /\ IInv' /\ AccountsOK /\ ShardOK /\ [Next]_vars =>
            [\A s \in Shards :
                \/ UNCHANGED ShardSketch(s)!vars
                \/ \E f \in Flows : /\ arrived'[s][Class(f)] > arrived[s][Class(f)]
                                   /\ ShardSketch(s)!xdp_collect_5tuple(f)]_vars
    BY ShardSteps DEF ShardStep
  <1>4. Spec => [][\A s \in Shards :
                \/ UNCHANGED ShardSketch(s)!vars
                \/ \E f \in Flows : /\ arrived'[s][Class(f)] > arrived[s][Class(f)]
                                   /\ ShardSketch(s)!xdp_collect_5tuple(f)]_vars
    BY <1>2, <1>3, AccountsInit, ShardInit, Inductive, PTL DEF Spec
  <1>5. Spec => \A s \in Shards : ShardSketch(s)!Init
    BY <1>1, PTL DEF Spec
  <1> QED
    BY <1>4, <1>5, PTL DEF ShardsImplementSketches
=============================================================================
