--------------------------- MODULE SBubble_proofs ---------------------------
(***************************************************************************)
(* Proofs about SBubble for every set of flows, hash function, table size, *)
(* counter width and threshold that the assumptions of BubbleSketch allow: *)
(* its invariants, the counters it may lose, and that it implements        *)
(* FlowCounting.                                                           *)
(***************************************************************************)
EXTENDS SBubbleCounts, BubbleSketch_proofs

-----------------------------------------------------------------------------
(* Classes.                                                                *)

\* Two flows of one fingerprint that share a bucket are of one class.
LEMMA SameClass ==
    ASSUME NEW f \in Flows, NEW g \in Flows, NEW a \in Arrays,
           Tag(Context(f).fp) = Tag(Context(g).fp),
           Context(f).keys[a] = Context(g).keys[a]
    PROVE  Class(f) = Class(g)
  BY SameKeys, WrapAssumption DEF Class

-----------------------------------------------------------------------------
(* Where an entry of the next state comes from.                            *)

\* d is entry e as it was, or e after it counted a packet with context c.
Counted(c, e, d) ==
    d = e \/ (e.fingerprint = Tag(c.fp) /\ d = Entry_Insert(e))

\* Every way Insert has of putting d into bucket j of array a.
Origin(c, a, j, d) ==
    \/ d = Entry_init
    \/ \E k \in Slots : d = buckets[a][j][k]
    \/ /\ j = c.keys[a]
       /\ \/ d = Entry_Insert_with(c)
          \/ \E k \in Slots : \/ Counted(c, buckets[a][j][k], d)
                              \/ d = Entry_Lossy(buckets[a][j][k])
    \/ \E k \in Slots : /\ Counted(c, Probe(c, 1 - a)[k], d)
                        /\ j = KickTarget(c, 1 - a, d)

BucketsOK == buckets \in [Arrays -> [Indices -> Bucket]]

\* In a hot slot a match on fp is a match on the fingerprint.
TagsOK == \A a \in Arrays, j \in Indices, i \in Slots :
              buckets[a][j][i].fingerprint = Tag(buckets[a][j][i].l0fp)

\* A matching entry has the packet's fingerprint, whichever its slot.
LEMMA EqualMeansTag ==
    ASSUME BucketsOK, TagsOK, NEW f \in Flows, NEW a \in Arrays, NEW i \in Slots,
           Bucket_Equal(Probe(Context(f), a), i, Context(f).fp)
    PROVE  Probe(Context(f), a)[i].fingerprint = Tag(Context(f).fp)
  <1>1. Context(f).keys[a] \in Indices
    BY ContextType
  <1>2. CASE i = 0
    BY <1>1, <1>2 DEF TagsOK, Bucket_Equal, Probe
  <1>3. CASE i # 0
    BY <1>3 DEF Bucket_Equal
  <1> QED
    BY <1>2, <1>3

\* Replacing the packet's own bucket by b leaves entries with an origin if
\* those of b have one.
LEMMA OwnBucket ==
    ASSUME BucketsOK, NEW f \in Flows, NEW x \in Arrays, NEW b \in Bucket,
           \A k \in Slots : Origin(Context(f), x, Context(f).keys[x], b[k]),
           buckets' = [buckets EXCEPT ![x][Context(f).keys[x]] = b]
    PROVE  /\ BucketsOK'
           /\ \A a \in Arrays, j \in Indices, i \in Slots :
                 Origin(Context(f), a, j, buckets'[a][j][i])
  <1>1. Context(f).keys[x] \in Indices
    BY ContextType
  <1>2. BucketsOK'
    BY <1>1 DEF BucketsOK
  <1>3. ASSUME NEW a \in Arrays, NEW j \in Indices, NEW i \in Slots
        PROVE  Origin(Context(f), a, j, buckets'[a][j][i])
    <2>1. CASE a = x /\ j = Context(f).keys[x]
      BY <1>1, <2>1 DEF BucketsOK
    <2>2. CASE ~(a = x /\ j = Context(f).keys[x])
      <3>1. buckets'[a][j] = buckets[a][j]
        BY <1>1, <2>2 DEF BucketsOK
      <3> QED
        BY <3>1 DEF Origin
    <2> QED
      BY <2>1, <2>2
  <1> QED
    BY <1>2, <1>3
\* The bucket of a cold hit after counting and sorting, and the kick it makes.
ColdBucket(c, a, i) ==
    Bucket_BucketSort([Probe(c, a) EXCEPT ![i] = Entry_Insert(@)], i)

\* Its entries are those the bucket had, one of them counted.
LEMMA ColdBucketHolds ==
    ASSUME BucketsOK, TagsOK, NEW f \in Flows, NEW a \in Arrays, NEW i \in Slots,
           Bucket_Equal(Probe(Context(f), a), i, Context(f).fp)
    PROVE  LET c == Context(f)
               b == ColdBucket(c, a, i)
           IN  /\ b \in Bucket
               /\ \A k \in Slots : \E m \in Slots : Counted(c, Probe(c, a)[m], b[k])
               /\ b[0].count >= Probe(c, a)[0].count
  <1> DEFINE c == Context(f)
             p == Probe(c, a)
             q == [p EXCEPT ![i] = Entry_Insert(@)]
             b == Bucket_BucketSort(q, i)
  <1>1. p \in Bucket
    BY ContextType DEF BucketsOK, Probe
  <1>2. p[i].fingerprint = Tag(c.fp)
    BY EqualMeansTag
  <1>3. p[i] \in Entry /\ Entry_Insert(p[i]) \in Entry
    BY <1>1, EntryTypes DEF Bucket
  <1>4. q \in Bucket
    BY <1>1, <1>3 DEF Bucket
  <1>5. \A k \in Slots : Counted(c, p[k], q[k])
    BY <1>1, <1>2 DEF Counted, Bucket
  <1>6. q[0].count >= p[0].count
    <2>1. Entry_Insert(p[i]).count >= p[i].count
      BY <1>3, CountAssumption DEF Entry_Insert, Entry
    <2>2. 0 \in Slots /\ p[0].count \in Nat
      BY <1>1, SizeAssumption, CountAssumption DEF Slots, Bucket, Entry
    <2> QED
      BY <1>1, <2>1, <2>2 DEF Bucket
  <1> HIDE DEF q
  <1>7. /\ b \in Bucket
        /\ \A k \in Slots : \E m \in Slots : b[k] = q[m]
        /\ b[0].count >= q[0].count
    BY <1>4, SortRearranges
  <1>8. \A k \in Slots : \E m \in Slots : Counted(c, p[m], b[k])
    BY <1>5, <1>7
  <1>9. b[0].count >= p[0].count
    <2>1. /\ b[0].count \in Int /\ q[0].count \in Int /\ p[0].count \in Int
      BY <1>1, <1>4, <1>7, SizeAssumption DEF Slots, Bucket, Entry
    <2> QED
      BY <1>6, <1>7, <2>1
  <1> QED
    BY <1>7, <1>8, <1>9 DEF ColdBucket, q

\* A cold hit, with the two outcomes of kickout apart.
LEMMA ColdHitShape ==
    ASSUME NEW f \in Flows, NEW a \in Arrays, NEW i \in Slots,
           ColdHit(Context(f), a, i)
    PROVE  LET c == Context(f)
               b == ColdBucket(c, a, i)
               t == KickTarget(c, a, b[1])
               n == buckets[1 - a][t]
           IN  /\ i > 0
               /\ Bucket_Equal(Probe(c, a), i, c.fp)
               /\ UNCHANGED <<f_max, threshold1>>
               /\ \/ buckets' = [buckets EXCEPT ![a][c.keys[a]] = b]
                  \/ /\ b[1].count > n[0].count
                     /\ buckets' = [buckets EXCEPT
                            ![1 - a][t] = [Bucket_down_stairs(n, 0) EXCEPT ![0] = b[1]],
                            ![a][c.keys[a]] = Bucket_Remove(b, 1)]
  BY DEF ColdHit, CountCold, ColdBucket, Kicks

\* Where the entries of both buckets come from after a hit further down.
LEMMA ColdHitOrigin ==
    ASSUME BucketsOK, TagsOK, NEW f \in Flows, NEW x \in Arrays, NEW i \in Slots,
           ColdHit(Context(f), x, i)
    PROVE  /\ BucketsOK'
           /\ \A a \in Arrays, j \in Indices, k \in Slots :
                 Origin(Context(f), a, j, buckets'[a][j][k])
  <1> DEFINE c == Context(f)
             b == ColdBucket(c, x, i)
             t == KickTarget(c, x, b[1])
             n == buckets[1 - x][t]
             p == [Bucket_down_stairs(n, 0) EXCEPT ![0] = b[1]]
             r == Bucket_Remove(b, 1)
  <1>1. /\ Bucket_Equal(Probe(c, x), i, c.fp)
        /\ \/ buckets' = [buckets EXCEPT ![x][c.keys[x]] = b]
           \/ buckets' = [buckets EXCEPT ![1 - x][t] = p, ![x][c.keys[x]] = r]
    BY ColdHitShape
  <1>2. /\ b \in Bucket
        /\ \A k \in Slots : \E m \in Slots : Counted(c, Probe(c, x)[m], b[k])
    BY <1>1, ColdBucketHolds
  <1>3. c.keys[x] \in Indices /\ 1 \in Slots /\ 1 - x \in Arrays /\ x # 1 - x /\ 1 - (1 - x) = x
    BY ContextType, SizeAssumption DEF Slots, Arrays
  <1> HIDE DEF b
  <1>4. \A k \in Slots : Origin(c, x, c.keys[x], b[k])
    BY <1>2 DEF Origin, Probe
  <1>5. CASE buckets' = [buckets EXCEPT ![x][c.keys[x]] = b]
    BY <1>2, <1>4, <1>5, OwnBucket
  <1>6. CASE buckets' = [buckets EXCEPT ![1 - x][t] = p, ![x][c.keys[x]] = r]
    <2>1. b[1] \in Entry /\ b[1].fingerprint \in Nat
      BY <1>2, <1>3 DEF Bucket, Entry
    <2>2. t \in Indices
      BY <2>1, KickTargetType
    <2>3. n \in Bucket
      BY <1>3, <2>2 DEF BucketsOK
    <2> HIDE DEF t
    <2>4. /\ p \in Bucket
          /\ \A k \in Slots : p[k] = b[1] \/ \E m \in Slots : p[k] = n[m]
      BY <2>1, <2>3, PushKeeps
    <2>5. /\ r \in Bucket
          /\ \A k \in Slots : r[k] = Entry_init \/ \E m \in Slots : r[k] = b[m]
      BY <1>2, RemoveKeeps
    <2>6. \A k \in Slots : Origin(c, 1 - x, t, p[k])
      BY <1>2, <1>3, <2>4 DEF Origin, t
    <2>7. \A k \in Slots : Origin(c, x, c.keys[x], r[k])
      BY <1>4, <2>5 DEF Origin
    <2> HIDE DEF p, r
    <2>8. BucketsOK'
      BY <1>3, <1>6, <2>2, <2>4, <2>5 DEF BucketsOK
    <2>9. ASSUME NEW a \in Arrays, NEW j \in Indices, NEW k \in Slots
          PROVE  Origin(c, a, j, buckets'[a][j][k])
      <3>1. \/ a = 1 - x /\ j = t /\ buckets'[a][j] = p
            \/ a = x /\ j = c.keys[x] /\ buckets'[a][j] = r
            \/ buckets'[a][j] = buckets[a][j]
        BY <1>3, <1>6, <2>2 DEF BucketsOK
      <3>2. CASE buckets'[a][j] = buckets[a][j]
        BY <3>2 DEF Origin
      <3> QED
        BY <2>6, <2>7, <3>1, <3>2
    <2> QED
      BY <2>8, <2>9
  <1> QED
    BY <1>1, <1>5, <1>6
\* Every step of Insert puts only entries with an origin anywhere, and keeps
\* the shape of the table.
LEMMA Provenance ==
    ASSUME BucketsOK, TagsOK, NEW f \in Flows, BubbleSketch_Insert(Context(f))
    PROVE  /\ BucketsOK'
           /\ \A a \in Arrays, j \in Indices, i \in Slots :
                 Origin(Context(f), a, j, buckets'[a][j][i])
  <1> DEFINE c == Context(f)
  <1>0. \A a \in Arrays : c.keys[a] \in Indices /\ Probe(c, a) \in Bucket
    BY ContextType DEF BucketsOK, Probe
  <1>1. ASSUME NEW a \in Arrays, HotHit(c, a)
        PROVE  /\ BucketsOK'
               /\ \A x \in Arrays, j \in Indices, i \in Slots :
                     Origin(c, x, j, buckets'[x][j][i])
    <2> DEFINE p == Probe(c, a)
               b == [p EXCEPT ![0] = Entry_Insert(@)]
    <2>1. 0 \in Slots /\ p \in Bucket /\ p[0] \in Entry
      BY <1>0, SizeAssumption DEF Slots, Bucket
    <2>2. p[0].fingerprint = Tag(c.fp)
      BY <1>1, <2>1, EqualMeansTag DEF HotHit, CountHot
    <2>3. b \in Bucket
      BY <2>1, EntryTypes DEF Bucket
    <2>4. \A k \in Slots : Counted(c, p[k], b[k])
      BY <2>1, <2>2 DEF Counted, Bucket
    <2>5. buckets' = [buckets EXCEPT ![a][c.keys[a]] = b]
      BY <1>1 DEF HotHit, CountHot
    <2>6. \A k \in Slots : Origin(c, a, c.keys[a], b[k])
      BY <2>4 DEF Origin, Probe
    <2> QED
      BY <2>3, <2>5, <2>6, OwnBucket
  <1>2. ASSUME NEW a \in Arrays, NEW i \in Slots, Fill(c, a, i)
        PROVE  /\ BucketsOK'
               /\ \A x \in Arrays, j \in Indices, k \in Slots :
                     Origin(c, x, j, buckets'[x][j][k])
    <2> DEFINE p == Probe(c, a)
               b == [p EXCEPT ![i] = Entry_Insert_with(c)]
    <2>1. b \in Bucket
      BY <1>0, EntryTypes DEF Bucket
    <2>2. buckets' = [buckets EXCEPT ![a][c.keys[a]] = b]
      BY <1>0, <1>2 DEF Fill, Take, Probe, BucketsOK, Bucket
    <2>3. \A k \in Slots : Origin(c, a, c.keys[a], b[k])
      BY <1>0 DEF Origin, Probe, Bucket
    <2> QED
      BY <2>1, <2>2, <2>3, OwnBucket
  <1>3. ASSUME NEW a \in Arrays, NEW i \in Slots, ColdHit(c, a, i)
        PROVE  /\ BucketsOK'
               /\ \A x \in Arrays, j \in Indices, k \in Slots :
                     Origin(c, x, j, buckets'[x][j][k])
    BY <1>3, ColdHitOrigin
  <1>4. ASSUME Lossy(c)
        PROVE  /\ BucketsOK'
               /\ \A x \in Arrays, j \in Indices, k \in Slots :
                     Origin(c, x, j, buckets'[x][j][k])
    <2> DEFINE last == MAX_ENTRY - 1
               a == IF Probe(c, 0)[last].count < Probe(c, 1)[last].count THEN 0 ELSE 1
    <2>0. a \in Arrays
      BY DEF Arrays
    <2>1. buckets' = [buckets EXCEPT ![a][c.keys[a]][MAX_ENTRY - 1] = Entry_Lossy(@)]
      BY <1>4 DEF Lossy, Decay, LossyArray
    <2> HIDE DEF a
    <2> DEFINE p == Probe(c, a)
               b == [p EXCEPT ![MAX_ENTRY - 1] = Entry_Lossy(@)]
    <2>2. MAX_ENTRY - 1 \in Slots
      BY SizeAssumption DEF Slots
    <2>3. b \in Bucket
      BY <1>0, <2>0, <2>2, EntryTypes DEF Bucket
    <2>4. buckets' = [buckets EXCEPT ![a][c.keys[a]] = b]
      BY <1>0, <2>0, <2>1, <2>2 DEF Probe, BucketsOK, Bucket
    <2>5. \A k \in Slots : Origin(c, a, c.keys[a], b[k])
      BY <1>0, <2>0, <2>2 DEF Origin, Probe, Bucket
    <2> QED
      BY <2>0, <2>3, <2>4, <2>5, OwnBucket
  <1> QED
    BY <1>1, <1>2, <1>3, <1>4 DEF BubbleSketch_Insert

-----------------------------------------------------------------------------
(* Entries: type, identity and backing survive every step.                 *)

\* The part of NoOvercount that speaks of one entry.
Backed(a, j, e, seen) ==
    e.count > 0 => \E f \in Flows : /\ e.fingerprint = Tag(Context(f).fp)
                                    /\ j = Context(f).keys[a]
                                    /\ e.count <= seen[Class(f)]

\* What Identity and NoOvercount say of one entry.
EntryOK(a, j, e, seen) ==
    /\ e.fingerprint = Tag(e.l0fp)
    /\ e.id = NoFlow => e.l0fp = 0
    /\ EntryIsAtHome(a, j, e)
    /\ Backed(a, j, e, seen)

EntriesOK == \A a \in Arrays, j \in Indices, i \in Slots :
                 EntryOK(a, j, buckets[a][j][i], arrived)

\* EntriesOK is Identity and NoOvercount, entry by entry.
LEMMA EntriesOKIsBoth == EntriesOK <=> Identity /\ NoOvercount
  BY DEF EntriesOK, EntryOK, Backed, Identity, NoOvercount

\* Counting preserves EntryOK: the class of the packet that counts is the class
\* of the entry.
LEMMA CountedOK ==
    ASSUME NEW f \in Flows, NEW a \in Arrays, NEW e \in Entry, NEW d,
           arrived \in [Classes -> Nat],
           arrived' = [arrived EXCEPT ![Class(f)] = @ + 1],
           EntryOK(a, Context(f).keys[a], e, arrived),
           Counted(Context(f), e, d)
    PROVE  EntryOK(a, Context(f).keys[a], d, arrived')
  <1> DEFINE c == Context(f)
  <1>1. /\ d.fingerprint = e.fingerprint /\ d.l0fp = e.l0fp /\ d.id = e.id
        /\ d.count = e.count \/ (e.fingerprint = Tag(c.fp) /\ d.count = e.count + 1)
    BY DEF Counted, Entry_Insert, Entry
  <1>2. Class(f) \in Classes /\ e.count \in Nat
    BY CountAssumption DEF Classes, Entry
  <1>3. \A g \in Flows : /\ Class(g) \in Classes
                         /\ arrived'[Class(g)] \in Nat
                         /\ arrived[Class(g)] \in Nat
                         /\ arrived'[Class(g)] >= arrived[Class(g)]
    BY <1>2 DEF Classes
  <1>4. arrived'[Class(f)] = arrived[Class(f)] + 1
    BY <1>2
  <1>5. Backed(a, c.keys[a], d, arrived')
    <2>1. CASE e.count > 0
      <3>1. PICK g \in Flows : /\ e.fingerprint = Tag(Context(g).fp)
                               /\ c.keys[a] = Context(g).keys[a]
                               /\ e.count <= arrived[Class(g)]
        BY <2>1 DEF EntryOK, Backed
      <3>2. CASE d.count = e.count
        BY <1>1, <1>2, <1>3, <3>1, <3>2 DEF Backed
      <3>3. CASE e.fingerprint = Tag(c.fp) /\ d.count = e.count + 1
        <4>1. Class(g) = Class(f)
          BY <3>1, <3>3, SameClass
        <4>2. d.count <= arrived'[Class(g)]
          BY <1>2, <1>3, <1>4, <3>1, <3>3, <4>1
        <4> QED
          BY <1>1, <3>1, <4>2 DEF Backed
      <3> QED
        BY <1>1, <3>2, <3>3
    <2>2. CASE e.count = 0
      <3>1. CASE d.count = e.count
        BY <2>2, <3>1 DEF Backed
      <3>2. CASE e.fingerprint = Tag(c.fp) /\ d.count = e.count + 1
        <4>1. d.count <= arrived'[Class(f)]
          BY <1>2, <1>3, <1>4, <2>2, <3>2
        <4> QED
          BY <1>1, <3>2, <4>1 DEF Backed
      <3> QED
        BY <1>1, <3>1, <3>2
    <2> QED
      BY <1>2, <2>1, <2>2
  <1> QED
    BY <1>1, <1>5 DEF EntryOK, EntryIsAtHome

\* Moving preserves EntryOK: kickout goes to the other bucket of the class.
LEMMA MovedOK ==
    ASSUME NEW f \in Flows, NEW a \in Arrays, NEW d,
           EntryOK(a, Context(f).keys[a], d, arrived')
    PROVE  EntryOK(1 - a, KickTarget(Context(f), a, d), d, arrived')
  <1> DEFINE k == Context(f).keys[a]
             t == KickTarget(Context(f), a, d)
  <1>1. EntryIsAtHome(1 - a, t, d)
    <2> SUFFICES ASSUME d.id \in Flows
                 PROVE  /\ d.l0fp = Context(d.id).fp
                        /\ t = Context(d.id).keys[1 - a]
      BY DEF EntryIsAtHome
    <2>1. d.l0fp = Context(d.id).fp /\ k = Context(d.id).keys[a]
      BY DEF EntryOK, EntryIsAtHome
    <2>2. d.fingerprint = Tag(Context(d.id).fp)
      BY <2>1 DEF EntryOK
    <2> QED
      BY <2>1, <2>2, KickLands, WrapAssumption
  <1>2. Backed(1 - a, t, d, arrived')
    <2> SUFFICES ASSUME d.count > 0
                 PROVE  \E g \in Flows : /\ d.fingerprint = Tag(Context(g).fp)
                                         /\ t = Context(g).keys[1 - a]
                                         /\ d.count <= arrived'[Class(g)]
      BY DEF Backed
    <2>1. PICK g \in Flows : /\ d.fingerprint = Tag(Context(g).fp)
                             /\ k = Context(g).keys[a]
                             /\ d.count <= arrived'[Class(g)]
      BY DEF EntryOK, Backed
    <2> QED
      BY <2>1, KickLands, WrapAssumption
  <1> QED
    BY <1>1, <1>2 DEF EntryOK
\* Whatever has an origin is in order after the step.
LEMMA OriginOK ==
    ASSUME BucketsOK, EntriesOK, arrived \in [Classes -> Nat],
           NEW f \in Flows, arrived' = [arrived EXCEPT ![Class(f)] = @ + 1],
           NEW a \in Arrays, NEW j \in Indices, NEW d, Origin(Context(f), a, j, d)
    PROVE  EntryOK(a, j, d, arrived')
  <1> DEFINE c == Context(f)
  <1>0. /\ \A x \in Arrays : c.keys[x] \in Indices
        /\ 1 - a \in Arrays /\ 1 - (1 - a) = a
    BY ContextType DEF Arrays
  <1>1. /\ \A g \in Flows : /\ Class(g) \in Classes
                            /\ arrived'[Class(g)] \in Nat
                            /\ arrived[Class(g)] \in Nat
                            /\ arrived'[Class(g)] >= arrived[Class(g)]
        /\ arrived'[Class(f)] = arrived[Class(f)] + 1
    BY DEF Classes
  <1>2. \A x \in Arrays, y \in Indices, k \in Slots :
            /\ buckets[x][y][k] \in Entry
            /\ buckets[x][y][k].count \in Nat
            /\ EntryOK(x, y, buckets[x][y][k], arrived)
    BY CountAssumption DEF BucketsOK, EntriesOK, Bucket, Entry
  <1>3. CASE d = Entry_init
    <2>1. Tag(0) = 0
      BY HashAssumption DEF Tag
    <2> QED
      BY <1>3, <2>1, FlowAssumption DEF EntryOK, EntryIsAtHome, Backed, Entry_init
  <1>4. CASE \E k \in Slots : d = buckets[a][j][k]
    <2>1. d.count \in Nat /\ EntryOK(a, j, d, arrived)
      BY <1>2, <1>4
    <2>2. Backed(a, j, d, arrived')
      BY <1>1, <2>1 DEF EntryOK, Backed
    <2> QED
      BY <2>1, <2>2 DEF EntryOK, EntryIsAtHome
  <1>5. CASE j = c.keys[a] /\ d = Entry_Insert_with(c)
    <2>1. /\ d.id = f /\ d.l0fp = c.fp /\ d.fingerprint = Tag(c.fp) /\ d.count = 1
      BY <1>5, ContextType DEF Entry_Insert_with
    <2>2. d.count <= arrived'[Class(f)]
      BY <1>1, <2>1
    <2> QED
      BY <1>5, <2>1, <2>2, FlowAssumption DEF EntryOK, EntryIsAtHome, Backed
  <1>6. CASE j = c.keys[a] /\ \E k \in Slots : Counted(c, buckets[a][j][k], d)
    BY <1>2, <1>6, CountedOK
  <1>7. CASE j = c.keys[a] /\ \E k \in Slots : d = Entry_Lossy(buckets[a][j][k])
    <2>1. PICK k \in Slots : d = Entry_Lossy(buckets[a][j][k])
      BY <1>7
    <2> DEFINE e == buckets[a][j][k]
    <2>2. /\ d.id = e.id /\ d.l0fp = e.l0fp /\ d.fingerprint = e.fingerprint
          /\ d.count \in Nat /\ d.count <= e.count
          /\ e.count \in Nat /\ EntryOK(a, j, e, arrived)
      BY <1>2, <2>1, CountAssumption DEF Entry_Lossy, Entry
    <2> HIDE DEF e
    <2>3. Backed(a, j, d, arrived')
      BY <1>1, <2>2 DEF EntryOK, Backed
    <2> QED
      BY <2>2, <2>3 DEF EntryOK, EntryIsAtHome
  <1>8. CASE \E k \in Slots : /\ Counted(c, Probe(c, 1 - a)[k], d)
                              /\ j = KickTarget(c, 1 - a, d)
    <2>1. EntryOK(1 - a, c.keys[1 - a], d, arrived')
      BY <1>0, <1>2, <1>8, CountedOK DEF Probe
    <2>2. EntryOK(1 - (1 - a), KickTarget(c, 1 - a, d), d, arrived')
      BY <1>0, <2>1, MovedOK
    <2> QED
      BY <1>0, <1>8, <2>2
  <1> QED
    BY <1>3, <1>4, <1>5, <1>6, <1>7, <1>8 DEF Origin
-----------------------------------------------------------------------------
(* Order: buckets stay in descending order of count.                       *)

\* What a step must leave behind in every bucket: order, and a hot count no
\* lower than before.
BucketKept(old, new) == Descending(new) /\ new[0].count >= old[0].count

\* No insertion disorders a bucket, or lowers the count at its head.
LEMMA SortedStep ==
    ASSUME BucketsOK, TagsOK, Sorted, NEW f \in Flows,
           BubbleSketch_Insert(Context(f))
    PROVE  \A a \in Arrays, j \in Indices : BucketKept(buckets[a][j], buckets'[a][j])
  <1> DEFINE c == Context(f)
             Goal == \A a \in Arrays, j \in Indices :
                         BucketKept(buckets[a][j], buckets'[a][j])
  <1>0. /\ 0 \in Slots /\ MAX_ENTRY - 1 \in Slots /\ MAX_ENTRY - 1 # 0 /\ 1 \in Slots
        /\ \A k \in Slots : k \in Int /\ k >= 0 /\ k <= MAX_ENTRY - 1
        /\ \A k \in Slots : k # 0 => k - 1 \in Slots
    BY SizeAssumption DEF Slots
  <1>1. \A a \in Arrays, j \in Indices :
            /\ buckets[a][j] \in Bucket
            /\ Descending(buckets[a][j])
            /\ BucketKept(buckets[a][j], buckets[a][j])
    <2>1. \A a \in Arrays, j \in Indices :
              buckets[a][j] \in Bucket /\ Descending(buckets[a][j])
      BY DEF BucketsOK, Sorted, Descending
    <2> QED
      BY <1>0, <2>1, BucketCounts DEF BucketKept
  <1>2. \A a \in Arrays : c.keys[a] \in Indices
    BY ContextType
  <1>3. ASSUME NEW a \in Arrays, NEW b,
               buckets' = [buckets EXCEPT ![a][c.keys[a]] = b],
               BucketKept(Probe(c, a), b)
        PROVE  Goal
    <2>1. ASSUME NEW x \in Arrays, NEW j \in Indices
          PROVE  \/ x = a /\ j = c.keys[a] /\ buckets'[x][j] = b
                 \/ buckets'[x][j] = buckets[x][j]
      BY <1>2, <1>3 DEF BucketsOK
    <2> QED
      BY <1>1, <1>3, <2>1 DEF Probe
  <1>4. ASSUME NEW a \in Arrays, HotHit(c, a)
        PROVE  Goal
    <2> DEFINE p == Probe(c, a)
               b == [p EXCEPT ![0] = Entry_Insert(@)]
    <2>1. p \in Bucket /\ Descending(p) /\ p[0] \in Entry
      BY <1>0, <1>1, <1>2 DEF Probe, Bucket
    <2>2. Entry_Insert(p[0]).count \in Nat /\ Entry_Insert(p[0]).count >= p[0].count
      BY <2>1, CountAssumption DEF Entry_Insert, Entry
    <2>3. \A k \in Slots : b[k] = IF k = 0 THEN Entry_Insert(p[0]) ELSE p[k]
      BY <2>1 DEF Bucket
    <2>4. \A k \in Slots : p[k].count \in Nat
      BY <2>1, BucketCounts
    <2> HIDE DEF b, p
    <2>5. \A k \in Slots \ {0} : b[k].count <= b[k - 1].count
      BY <1>0, <2>1, <2>2, <2>3, <2>4 DEF Descending
    <2>6. BucketKept(p, b)
      BY <1>0, <2>2, <2>3, <2>5 DEF BucketKept, Descending
    <2>7. buckets' = [buckets EXCEPT ![a][c.keys[a]] = b]
      BY <1>4 DEF HotHit, CountHot, b, p
    <2> QED
      BY <1>3, <2>6, <2>7 DEF p
  <1>5. ASSUME NEW a \in Arrays, NEW i \in Slots, Fill(c, a, i)
        PROVE  Goal
    <2> DEFINE p == Probe(c, a)
               b == [p EXCEPT ![i] = Entry_Insert_with(c)]
    <2>1. p \in Bucket /\ Descending(p)
      BY <1>1, <1>2 DEF Probe
    <2>2. buckets' = [buckets EXCEPT ![a][c.keys[a]] = b]
      BY <1>2, <1>5 DEF Fill, Take, Probe, BucketsOK, Bucket
    <2>3. \A k \in Slots : p[k].count \in Nat
      BY <2>1, BucketCounts
    <2>4. p[i].count = 0
      BY <1>5 DEF Fill, Take, FirstStop, Stops, Bucket_Empty
    <2>5. i # 0 => p[i - 1].count # 0
      <3> SUFFICES ASSUME i # 0 PROVE p[i - 1].count # 0
        OBVIOUS
      <3>1. i - 1 \in 0 .. i /\ i - 1 < i
        BY <1>0
      <3>2. ~Stops(c, a, i - 1)
        BY <1>5, <3>1 DEF Fill, Take, FirstStop
      <3> QED
        BY <3>2 DEF Stops, Bucket_Empty
    <2>6. \A k \in Slots : /\ k # i => b[k] = p[k]
                           /\ k = i => b[k].count = 1
      BY <2>1 DEF Bucket, Entry_Insert_with
    <2> HIDE DEF b, p
    <2>7. ASSUME NEW k \in Slots, k # 0
          PROVE  b[k].count <= b[k - 1].count
      <3>1. k - 1 \in Slots /\ p[k].count <= p[k - 1].count /\ k # k - 1
        BY <1>0, <2>1, <2>7 DEF Descending
      <3>2. CASE k = i
        BY <2>3, <2>5, <2>6, <2>7, <3>1, <3>2
      <3>3. CASE k # i /\ k - 1 = i
        BY <2>3, <2>4, <2>6, <3>1, <3>3
      <3>4. CASE k # i /\ k - 1 # i
        BY <2>6, <3>1, <3>4
      <3> QED
        BY <3>2, <3>3, <3>4
    <2>8. b[0].count >= p[0].count
      BY <1>0, <2>3, <2>4, <2>6
    <2> QED
      BY <1>3, <2>2, <2>7, <2>8 DEF BucketKept, Descending, p
  <1>6. ASSUME NEW a \in Arrays, NEW i \in Slots, ColdHit(c, a, i)
        PROVE  Goal
    <2> DEFINE p == Probe(c, a)
               b == ColdBucket(c, a, i)
               t == KickTarget(c, a, b[1])
               n == buckets[1 - a][t]
               h == [Bucket_down_stairs(n, 0) EXCEPT ![0] = b[1]]
               r == Bucket_Remove(b, 1)
    <2>1. p \in Bucket /\ Descending(p)
      BY <1>1, <1>2 DEF Probe
    <2>2. /\ i > 0
          /\ Bucket_Equal(p, i, c.fp)
          /\ \/ buckets' = [buckets EXCEPT ![a][c.keys[a]] = b]
             \/ /\ b[1].count > n[0].count
                /\ buckets' = [buckets EXCEPT ![1 - a][t] = h, ![a][c.keys[a]] = r]
      BY <1>6, ColdHitShape
    <2>3. b \in Bucket /\ b[0].count >= p[0].count
      BY <2>2, ColdBucketHolds
    <2>4. Descending(b)
      BY <2>1, <2>2, SortSorts DEF ColdBucket
    <2>5. BucketKept(p, b)
      BY <2>3, <2>4 DEF BucketKept
    <2> HIDE DEF b
    <2>6. CASE buckets' = [buckets EXCEPT ![a][c.keys[a]] = b]
      BY <1>3, <2>5, <2>6
    <2>7. CASE /\ b[1].count > n[0].count
               /\ buckets' = [buckets EXCEPT ![1 - a][t] = h, ![a][c.keys[a]] = r]
      <3>1. b[1] \in Entry /\ b[1].fingerprint \in Nat
        BY <1>0, <2>3 DEF Bucket, Entry
      <3>2. t \in Indices /\ 1 - a \in Arrays /\ a # 1 - a
        BY <3>1, KickTargetType DEF Arrays
      <3>3. n \in Bucket /\ Descending(n)
        BY <1>1, <3>2
      <3>4. BucketKept(p, r)
        BY <2>3, <2>4, RemoveKeeps, RemoveSorts DEF BucketKept
      <3>5. BucketKept(n, h)
        <4>1. h[0] = b[1] /\ Descending(h)
          BY <2>7, <3>1, <3>3, PushKeeps, PushSorts
        <4>2. b[1].count \in Nat /\ n[0].count \in Nat
          BY <1>0, <2>3, <3>3, BucketCounts
        <4> QED
          BY <2>7, <4>1, <4>2 DEF BucketKept
      <3> HIDE DEF h, r, t
      <3>6. ASSUME NEW x \in Arrays, NEW j \in Indices
            PROVE  \/ x = 1 - a /\ j = t /\ buckets'[x][j] = h
                   \/ x = a /\ j = c.keys[a] /\ buckets'[x][j] = r
                   \/ buckets'[x][j] = buckets[x][j]
        BY <1>2, <2>7, <3>2 DEF BucketsOK
      <3> QED
        BY <1>1, <3>4, <3>5, <3>6 DEF Probe
    <2> QED
      BY <2>2, <2>6, <2>7
  <1>7. ASSUME Lossy(c)
        PROVE  Goal
    <2> DEFINE last == MAX_ENTRY - 1
               a == IF Probe(c, 0)[last].count < Probe(c, 1)[last].count THEN 0 ELSE 1
               p == Probe(c, a)
               b == [p EXCEPT ![last] = Entry_Lossy(@)]
    <2>1. a \in Arrays
      BY DEF Arrays
    <2>2. buckets' = [buckets EXCEPT ![a][c.keys[a]][last] = Entry_Lossy(@)]
      BY <1>7 DEF Lossy, Decay, LossyArray
    <2> HIDE DEF a
    <2>3. p \in Bucket /\ Descending(p) /\ p[last] \in Entry
      BY <1>0, <1>1, <1>2, <2>1 DEF Probe, Bucket
    <2>4. buckets' = [buckets EXCEPT ![a][c.keys[a]] = b]
      BY <1>0, <1>2, <2>1, <2>2 DEF Probe, BucketsOK, Bucket
    <2>5. Entry_Lossy(p[last]).count \in Nat /\ Entry_Lossy(p[last]).count <= p[last].count
      BY <2>3, CountAssumption DEF Entry_Lossy, Entry
    <2>6. \A k \in Slots : b[k] = IF k = last THEN Entry_Lossy(p[last]) ELSE p[k]
      BY <2>3 DEF Bucket
    <2>7. \A k \in Slots : p[k].count \in Nat
      BY <2>3, BucketCounts
    <2> HIDE DEF b, p
    <2>8. ASSUME NEW k \in Slots, k # 0
          PROVE  b[k].count <= b[k - 1].count
      <3>1. k - 1 \in Slots /\ p[k].count <= p[k - 1].count /\ k - 1 # last
        BY <1>0, <2>3, <2>8 DEF Descending
      <3> QED
        BY <2>5, <2>6, <2>7, <3>1
    <2>9. b[0].count >= p[0].count
      BY <1>0, <2>6, <2>7
    <2> QED
      BY <1>3, <2>1, <2>4, <2>8, <2>9 DEF BucketKept, Descending, p
  <1> QED
    BY <1>4, <1>5, <1>6, <1>7 DEF BubbleSketch_Insert
-----------------------------------------------------------------------------
(* The threshold.                                                          *)

\* f_max and threshold1 change only on a hot hit, which leaves behind a hot
\* count that justifies the new threshold.
LEMMA ThresholdStep ==
    ASSUME BucketsOK, BucketsOK', f_max \in 0 .. COUNT_MAX, threshold1 \in Nat,
           NEW f \in Flows, BubbleSketch_Insert(Context(f))
    PROVE  /\ f_max' \in 0 .. COUNT_MAX
           /\ threshold1' \in Nat
           /\ \/ threshold1' = threshold1
              \/ \E a \in Arrays, j \in Indices :
                    calculate_threshold(buckets'[a][j][0].count) = threshold1'
  <1> DEFINE c == Context(f)
  <1>1. CASE UNCHANGED <<f_max, threshold1>>
    BY <1>1
  <1>2. ASSUME NEW a \in Arrays, HotHit(c, a)
        PROVE  /\ f_max' \in 0 .. COUNT_MAX
               /\ threshold1' \in Nat
               /\ \/ threshold1' = threshold1
                  \/ \E x \in Arrays, j \in Indices :
                        calculate_threshold(buckets'[x][j][0].count) = threshold1'
    <2> DEFINE b == [Probe(c, a) EXCEPT ![0] = Entry_Insert(@)]
               new == calculate_threshold(b[0].count)
    <2>1. /\ buckets' = [buckets EXCEPT ![a][c.keys[a]] = b]
          /\ \/ UNCHANGED <<f_max, threshold1>>
             \/ f_max' = b[0].count /\ threshold1' \in {threshold1, new}
      BY <1>2 DEF HotHit, CountHot
    <2> HIDE DEF b
    <2>2. c.keys[a] \in Indices /\ 0 \in Slots
      BY ContextType, SizeAssumption DEF Slots
    <2>3. buckets'[a][c.keys[a]] = b /\ b \in Bucket
      BY <2>1, <2>2 DEF BucketsOK
    <2>4. b[0].count \in 0 .. COUNT_MAX /\ b[0].count \in Nat
      BY <2>2, <2>3, CountAssumption DEF Bucket, Entry
    <2>5. new \in Nat
      BY <2>4, ThresholdMono
    <2>6. CASE UNCHANGED <<f_max, threshold1>>
      BY <2>6
    <2>7. CASE f_max' = b[0].count /\ threshold1' \in {threshold1, new}
      BY <2>2, <2>3, <2>4, <2>5, <2>7
    <2> QED
      BY <2>1, <2>6, <2>7
  <1> QED
    BY <1>1, <1>2 DEF BubbleSketch_Insert, Fill, Take, ColdHit, CountCold, Lossy, Decay, LossyArray

\* The hot counts that justify the threshold never fall, so it stays backed.
LEMMA ThresholdKept ==
    ASSUME BucketsOK, BucketsOK', f_max \in 0 .. COUNT_MAX, threshold1 \in Nat,
           ThresholdIsBacked, NEW f \in Flows, BubbleSketch_Insert(Context(f)),
           \A a \in Arrays, j \in Indices :
              buckets'[a][j][0].count >= buckets[a][j][0].count
    PROVE  ThresholdIsBacked'
  <1>1. \A a \in Arrays, j \in Indices : /\ buckets[a][j][0].count \in Nat
                                         /\ buckets'[a][j][0].count \in Nat
    BY SizeAssumption, BucketCounts DEF BucketsOK, Slots
  <1>2. CASE threshold1' = threshold1
    <2> SUFFICES ASSUME threshold1 > THRESHOLD_INIT
                 PROVE  \E a \in Arrays, j \in Indices :
                            calculate_threshold(buckets'[a][j][0].count) >= threshold1
      BY <1>2 DEF ThresholdIsBacked
    <2>1. PICK a \in Arrays, j \in Indices :
              calculate_threshold(buckets[a][j][0].count) >= threshold1
      BY DEF ThresholdIsBacked
    <2>2. /\ calculate_threshold(buckets[a][j][0].count) \in Nat
          /\ calculate_threshold(buckets'[a][j][0].count) \in Nat
          /\ calculate_threshold(buckets[a][j][0].count)
                <= calculate_threshold(buckets'[a][j][0].count)
      BY <1>1, ThresholdMono
    <2> QED
      BY <2>1, <2>2
  <1>3. CASE \E a \in Arrays, j \in Indices :
                 calculate_threshold(buckets'[a][j][0].count) = threshold1'
    <2>1. threshold1' \in Nat
      BY ThresholdStep
    <2> QED
      BY <1>3, <2>1 DEF ThresholdIsBacked
  <1> QED
    BY <1>2, <1>3, ThresholdStep
-----------------------------------------------------------------------------
(* The inductive invariant and the theorems.                               *)

IInv == TypeOK /\ Sorted /\ Identity /\ NoOvercount /\ ThresholdIsBacked

\* IInv holds of the empty sketch.
LEMMA IInvInit == Init => IInv
  <1> SUFFICES ASSUME Init PROVE IInv
    OBVIOUS
  <1>1. \A a \in Arrays, j \in Indices, i \in Slots : buckets[a][j][i] = Entry_init
    BY DEF Init, Init_sketch
  <1>2. TypeOK
    BY EntryTypes, CountAssumption
       DEF Init, Init_sketch, TypeOK, Bucket
  <1>3. Sorted
    BY <1>1, SizeAssumption DEF Sorted, Slots, Entry_init
  <1>4. Identity /\ NoOvercount
    <2>1. Tag(0) = 0
      BY HashAssumption DEF Tag
    <2> QED
      BY <1>1, <2>1, FlowAssumption
         DEF Identity, NoOvercount, EntryIsAtHome, Entry_init
  <1>5. ThresholdIsBacked
    BY CountAssumption DEF Init, Init_sketch, ThresholdIsBacked
  <1> QED
    BY <1>2, <1>3, <1>4, <1>5 DEF IInv

\* Every step keeps IInv, and the count at the head of every bucket.
LEMMA IInvNext ==
    ASSUME IInv, [Next]_vars
    PROVE  /\ IInv'
           /\ \A a \in Arrays, j \in Indices :
                 buckets'[a][j][0].count >= buckets[a][j][0].count
  <1>0. BucketsOK /\ TagsOK
    BY DEF IInv, TypeOK, BucketsOK, Identity, TagsOK
  <1>1. CASE UNCHANGED vars
    <2>1. IInv'
      BY <1>1 DEF IInv, TypeOK, Sorted, Identity, NoOvercount,
                  ThresholdIsBacked, EntryIsAtHome, vars
    <2>2. \A a \in Arrays, j \in Indices : buckets[a][j][0].count \in Nat
      BY <1>0, BucketCounts, SizeAssumption DEF BucketsOK, Slots
    <2> QED
      BY <1>1, <2>1, <2>2 DEF vars
  <1>2. CASE Next
    <2>1. PICK f \in Flows : xdp_collect_5tuple(f)
      BY <1>2 DEF Next
    <2>2. /\ BubbleSketch_Insert(Context(f))
          /\ insert_counter' = insert_counter + 1
          /\ arrived' = [arrived EXCEPT ![Class(f)] = @ + 1]
      BY <2>1 DEF xdp_collect_5tuple
    <2>3. /\ BucketsOK'
          /\ \A a \in Arrays, j \in Indices, i \in Slots :
                 Origin(Context(f), a, j, buckets'[a][j][i])
      BY <1>0, <2>2, Provenance
    <2>4. \A a \in Arrays, j \in Indices : BucketKept(buckets[a][j], buckets'[a][j])
      BY <1>0, <2>2, SortedStep DEF IInv
    <2>5. TypeOK'
      <3>1. arrived' \in [Classes -> Nat] /\ insert_counter' \in Nat
        BY <2>2 DEF IInv, TypeOK, Classes
      <3>2. f_max' \in 0 .. COUNT_MAX /\ threshold1' \in Nat
        BY <1>0, <2>2, <2>3, ThresholdStep DEF IInv, TypeOK
      <3> QED
        BY <2>3, <3>1, <3>2 DEF TypeOK, BucketsOK
    <2>6. Sorted'
      BY <2>4 DEF BucketKept, Descending, Sorted
    <2>7. Identity' /\ NoOvercount'
      <3>1. EntriesOK
        BY EntriesOKIsBoth DEF IInv
      <3>2. ASSUME NEW a \in Arrays, NEW j \in Indices, NEW i \in Slots
            PROVE  EntryOK(a, j, buckets'[a][j][i], arrived')
        <4> DEFINE d == buckets'[a][j][i]
        <4>1. arrived \in [Classes -> Nat] /\ Origin(Context(f), a, j, d)
          BY <2>3 DEF IInv, TypeOK
        <4> HIDE DEF d
        <4>2. EntryOK(a, j, d, arrived')
          BY <1>0, <2>2, <3>1, <4>1, OriginOK
        <4> QED
          BY <4>2 DEF d
      <3> QED
        BY <3>2 DEF EntryOK, Backed, Identity, NoOvercount
    <2>8. \A a \in Arrays, j \in Indices :
              buckets'[a][j][0].count >= buckets[a][j][0].count
      BY <2>4 DEF BucketKept
    <2>9. ThresholdIsBacked'
      BY <1>0, <2>2, <2>3, <2>8, ThresholdKept DEF IInv, TypeOK
    <2> QED
      BY <2>5, <2>6, <2>7, <2>8, <2>9 DEF IInv
  <1> QED
    BY <1>1, <1>2

\* IInv is an invariant.
LEMMA IInvInvariant == Spec => []IInv
  <1>1. IInv /\ [Next]_vars => IInv'
    BY IInvNext
  <1> QED
    BY IInvInit, <1>1, PTL DEF Spec

\* The table, the thresholds and the counters keep their types: no counter
\* leaves 0 .. COUNT_MAX and no kickout writes outside the table.
THEOREM TypeCorrect == Spec => []TypeOK
  <1>1. IInv => TypeOK
    BY DEF IInv
  <1> QED
    BY IInvInvariant, <1>1, PTL

\* Buckets stay in descending order through every branch of Insert.
THEOREM BucketsSorted == Spec => []Sorted
  <1>1. IInv => Sorted
    BY DEF IInv
  <1> QED
    BY IInvInvariant, <1>1, PTL

\* An entry with a key is in that key's bucket, with its fp and fingerprint.
THEOREM EntriesAtHome == Spec => []Identity
  <1>1. IInv => Identity
    BY DEF IInv
  <1> QED
    BY IInvInvariant, <1>1, PTL

\* No counter exceeds the packets of the class it counts.
THEOREM CountersUnderestimate == Spec => []NoOvercount
  <1>1. IInv => NoOvercount
    BY DEF IInv
  <1> QED
    BY IInvInvariant, <1>1, PTL

\* The count the dump gives a key is covered by packets of the key's class.
THEOREM ReportsUnderestimate == Spec => []ReportIsBacked
  <1>1. IInv => ReportIsBacked
    <2> SUFFICES ASSUME IInv, NEW a \in Arrays, NEW j \in Indices,
                        buckets[a][j][0].id \in Flows
                 PROVE  buckets[a][j][0].count <= arrived[Class(buckets[a][j][0].id)]
      BY DEF ReportIsBacked
    <2> DEFINE e == buckets[a][j][0]
               g == e.id
    <2>1. 0 \in Slots
      BY SizeAssumption DEF Slots
    <2>2. /\ e.count \in Nat
          /\ e.fingerprint = Tag(Context(g).fp)
          /\ j = Context(g).keys[a]
      BY <2>1, BucketCounts
         DEF IInv, TypeOK, Identity, EntryIsAtHome
    <2>3. CASE e.count = 0
      <3>1. arrived[Class(g)] \in Nat
        BY DEF IInv, TypeOK, Classes
      <3> QED
        BY <2>3, <3>1
    <2>4. CASE e.count > 0
      <3>1. PICK f \in Flows : /\ e.fingerprint = Tag(Context(f).fp)
                               /\ j = Context(f).keys[a]
                               /\ e.count <= arrived[Class(f)]
        BY <2>1, <2>4 DEF IInv, NoOvercount
      <3>2. Class(f) = Class(g)
        BY <2>2, <3>1, SameClass
      <3> QED
        BY <3>1, <3>2
    <2> QED
      BY <2>2, <2>3, <2>4
  <1> QED
    BY IInvInvariant, <1>1, PTL

\* A raised threshold is always justified by a counter that is hot now.
THEOREM ThresholdBacked == Spec => []ThresholdIsBacked
  <1>1. IInv => ThresholdIsBacked
    BY DEF IInv
  <1> QED
    BY IInvInvariant, <1>1, PTL

\* No step lowers the hot count of any bucket.
THEOREM HotCountsMonotone == Spec => HotNeverFalls
  <1> DEFINE Rises == \A a \in Arrays, j \in Indices :
                          buckets'[a][j][0].count >= buckets[a][j][0].count
  <1>1. IInv /\ [Next]_vars => [Rises]_vars
    BY IInvNext
  <1>2. HotNeverFalls <=> [][Rises]_vars
    BY DEF HotNeverFalls
  <1> HIDE DEF Rises
  <1> QED
    BY IInvInvariant, <1>1, <1>2, PTL DEF Spec

-----------------------------------------------------------------------------
(* The estimate of a class.                                                *)

\* What table bk holds for the class of flow g, array a first.
InTable(bk, g, a) ==
    Held(bk[a][Context(g).keys[a]], Tag(Context(g).fp))
        + Held(bk[1 - a][Context(g).keys[1 - a]], Tag(Context(g).fp))

\* A class is its fingerprint and either of its buckets.
LEMMA ClassMeans ==
    ASSUME NEW f \in Flows, NEW g \in Flows, NEW a \in Arrays
    PROVE  /\ Class(f) = Class(g) <=> /\ Tag(Context(f).fp) = Tag(Context(g).fp)
                                      /\ Context(f).keys[a] = Context(g).keys[a]
           /\ Context(g).keys[1] = (Context(g).keys[0] + Tag(Context(g).fp)) % MAX_BUCKETS
  <1>1. ASSUME NEW x \in Flows
        PROVE  Context(x).keys[1] = (Context(x).keys[0] + Tag(Context(x).fp)) % MAX_BUCKETS
    <2> DEFINE t == Tag(Context(x).fp)
               k == Context(x).keys[0]
    <2>1. /\ k = Hash[x] % MAX_BUCKETS
          /\ Context(x).keys[1] = (Hash[x] + t) % MAX_BUCKETS
      BY KeysOfHash, WrapAssumption
    <2>0. t \in Int /\ k \in Indices
      <3>1. t \in Nat
        BY ContextType
      <3>2. 0 \in Arrays
        BY DEF Arrays
      <3> QED
        BY <3>1, <3>2, ContextType
    <2>2. /\ MAX_BUCKETS \in Nat \ {0} /\ Hash[x] \in Int /\ k \in 0 .. MAX_BUCKETS - 1
          /\ k \in Int
      BY <2>0, SizeAssumption, HashAssumption DEF Indices
    <2> HIDE DEF t, k
    <2>3. k % MAX_BUCKETS = Hash[x] % MAX_BUCKETS
      BY <2>1, <2>2, ModSmall
    <2>4. (k + t) % MAX_BUCKETS = (Hash[x] + t) % MAX_BUCKETS
      BY <2>0, <2>2, <2>3, ModAdd
    <2> QED
      BY <2>1, <2>4 DEF t, k
  <1>2. ASSUME Tag(Context(f).fp) = Tag(Context(g).fp),
               Context(f).keys[a] = Context(g).keys[a]
        PROVE  Class(f) = Class(g)
    BY <1>2, SameClass
  <1>3. ASSUME Class(f) = Class(g)
        PROVE  /\ Tag(Context(f).fp) = Tag(Context(g).fp)
               /\ Context(f).keys[a] = Context(g).keys[a]
    BY <1>1, <1>3 DEF Class, Arrays
  <1> QED
    BY <1>1, <1>2, <1>3

\* The estimates from table bk.
EstimateFrom(bk) ==
    [c \in Classes |-> Held(bk[0][c[2]], c[1])
                         + Held(bk[1][(c[2] + c[1]) % MAX_BUCKETS], c[1])]

\* The estimate is what the table holds, whichever array comes first.
LEMMA EstimateIs ==
    ASSUME NEW bk \in [Arrays -> [Indices -> Bucket]], NEW g \in Flows
    PROVE  /\ Class(g) \in Classes
           /\ EstimateFrom(bk)[Class(g)] \in Nat
           /\ \A a \in Arrays : EstimateFrom(bk)[Class(g)] = InTable(bk, g, a)
  <1> DEFINE x == Held(bk[0][Context(g).keys[0]], Tag(Context(g).fp))
             y == Held(bk[1][Context(g).keys[1]], Tag(Context(g).fp))
  <1>1. Class(g) \in Classes
    BY DEF Classes
  <1>2. /\ Class(g)[1] = Tag(Context(g).fp) /\ Class(g)[2] = Context(g).keys[0]
        /\ (Class(g)[2] + Class(g)[1]) % MAX_BUCKETS = Context(g).keys[1]
    BY ClassMeans DEF Class, Arrays
  <1>3. EstimateFrom(bk)[Class(g)] = x + y
    BY <1>1, <1>2 DEF EstimateFrom
  <1>4. x \in Nat /\ y \in Nat
    <2>1. 0 \in Arrays /\ 1 \in Arrays
      BY DEF Arrays
    <2>2. \A a \in Arrays : bk[a][Context(g).keys[a]] \in Bucket
      BY ContextType
    <2> QED
      BY <2>1, <2>2, HeldType
  <1>5. InTable(bk, g, 0) = x + y /\ InTable(bk, g, 1) = y + x
    BY DEF InTable
  <1> HIDE DEF x, y
  <1> QED
    BY <1>1, <1>3, <1>4, <1>5 DEF Arrays

\* Estimate is EstimateFrom of the table, now and in the next state.
LEMMA EstimateFromTable ==
    Estimate = EstimateFrom(buckets) /\ Estimate' = EstimateFrom(buckets')
  BY DEF Estimate, EstimateFrom

Put(bk, a, j, b) == [bk EXCEPT ![a][j] = b]

\* What replacing bucket b of index j in array a by n adds for the class of g.
Gain(g, a, j, b, n) ==
    IF Context(g).keys[a] = j
    THEN Held(n, Tag(Context(g).fp)) - Held(b, Tag(Context(g).fp)) ELSE 0

\* A table holds the same for a class from either array on.
LEMMA InTableEither ==
    ASSUME NEW bk \in [Arrays -> [Indices -> Bucket]], NEW a \in Arrays, NEW g \in Flows
    PROVE  InTable(bk, g, a) \in Nat /\ InTable(bk, g, 1 - a) = InTable(bk, g, a)
  <1>1. 1 - a \in Arrays
    BY DEF Arrays
  <1> QED
    BY <1>1, EstimateIs

\* Replacing a bucket changes the estimates of the classes that have it.
LEMMA PutInTable ==
    ASSUME NEW bk \in [Arrays -> [Indices -> Bucket]], NEW a \in Arrays, NEW j \in Indices,
           NEW n \in Bucket, NEW g \in Flows
    PROVE  /\ Put(bk, a, j, n) \in [Arrays -> [Indices -> Bucket]]
           /\ InTable(bk, g, a) \in Nat
           /\ InTable(Put(bk, a, j, n), g, a)
                  = InTable(bk, g, a) + Gain(g, a, j, bk[a][j], n)
           /\ InTable(Put(bk, a, j, n), g, 1 - a)
                  = InTable(bk, g, 1 - a) + Gain(g, a, j, bk[a][j], n)
           /\ InTable(bk, g, 1 - a) = InTable(bk, g, a)
  <1> DEFINE t == Tag(Context(g).fp)
             k == Context(g).keys[a]
             l == Context(g).keys[1 - a]
             p == Put(bk, a, j, n)
  <1>1. /\ k \in Indices /\ l \in Indices /\ 1 - a \in Arrays /\ 1 - a # a /\ 1 - (1 - a) = a
    BY ContextType DEF Arrays
  <1> HIDE DEF k, l, t
  <1>2. /\ p \in [Arrays -> [Indices -> Bucket]]
        /\ p[1 - a][l] = bk[1 - a][l]
        /\ p[a][k] = IF k = j THEN n ELSE bk[a][k]
    BY <1>1 DEF Put
  <1> HIDE DEF p
  <1>3. /\ Held(bk[a][k], t) \in Nat /\ Held(bk[1 - a][l], t) \in Nat
        /\ Held(n, t) \in Nat
    BY <1>1, HeldType
  <1>4. /\ InTable(bk, g, a) = Held(bk[a][k], t) + Held(bk[1 - a][l], t)
        /\ InTable(p, g, a) = Held(p[a][k], t) + Held(p[1 - a][l], t)
        /\ InTable(bk, g, 1 - a) = Held(bk[1 - a][l], t) + Held(bk[a][k], t)
        /\ InTable(p, g, 1 - a) = Held(p[1 - a][l], t) + Held(p[a][k], t)
    BY <1>1 DEF InTable, k, l, t
  <1>5. CASE k = j
    BY <1>2, <1>3, <1>4, <1>5 DEF p, k, t, Gain
  <1>6. CASE k # j
    BY <1>2, <1>3, <1>4, <1>6 DEF p, k, t, Gain
  <1> QED
    BY <1>5, <1>6

-----------------------------------------------------------------------------
(* Every branch of Insert is a packet of the abstract counter.             *)

\* The class of flow f gains at most one, one class loses.
Counts(f) ==
    \E gain \in 0 .. 1, v \in Flows : \E loss \in Nat :
        /\ loss = 0 \/ loss <= arrived[Class(v)]
        /\ \A g \in Flows : Estimate'[Class(g)] = Estimate[Class(g)]
                                + (IF Class(g) = Class(f) THEN gain ELSE 0)
                                - (IF Class(g) = Class(v) THEN loss ELSE 0)

\* The bucket of flow f in array a is replaced by n, which holds z more for
\* the fingerprint of flow v.
OneBucket(f, a, n, v, z) ==
    /\ n \in Bucket
    /\ buckets' = Put(buckets, a, Context(f).keys[a], n)
    /\ \A t : Held(n, t) = Held(Probe(Context(f), a), t)
                             + (IF t = Tag(Context(v).fp) THEN z ELSE 0)

\* If flow v has that bucket too, its class gains z and no other changes.
LEMMA OneBucketChanges ==
    ASSUME BucketsOK, NEW f \in Flows, NEW a \in Arrays, NEW n, NEW v \in Flows, NEW z \in Int,
           OneBucket(f, a, n, v, z), Context(v).keys[a] = Context(f).keys[a]
    PROVE  \A g \in Flows : Estimate'[Class(g)] = Estimate[Class(g)]
                                + (IF Class(g) = Class(v) THEN z ELSE 0)
  <1> SUFFICES ASSUME NEW g \in Flows
               PROVE  Estimate'[Class(g)] = Estimate[Class(g)]
                                + (IF Class(g) = Class(v) THEN z ELSE 0)
    OBVIOUS
  <1> DEFINE j == Context(f).keys[a]
             t == Tag(Context(g).fp)
  <1>0. n \in Bucket /\ buckets' = Put(buckets, a, j, n)
    BY DEF OneBucket
  <1>1. j \in Indices /\ Probe(Context(f), a) = buckets[a][j] /\ buckets[a][j] \in Bucket
    BY ContextType DEF Probe, BucketsOK
  <1> HIDE DEF j
  <1>2. /\ buckets' \in [Arrays -> [Indices -> Bucket]]
        /\ InTable(buckets', g, a) = InTable(buckets, g, a) + Gain(g, a, j, buckets[a][j], n)
        /\ InTable(buckets, g, a) \in Nat
    BY <1>0, <1>1, PutInTable DEF BucketsOK
  <1>3. Estimate[Class(g)] = InTable(buckets, g, a)
    BY EstimateIs, EstimateFromTable DEF BucketsOK
  <1>4. Estimate'[Class(g)] = InTable(buckets', g, a)
    BY <1>2, EstimateIs, EstimateFromTable
  <1>5. Class(g) = Class(v) <=> t = Tag(Context(v).fp) /\ Context(g).keys[a] = j
    BY ClassMeans DEF j
  <1>6. Held(n, t) = Held(buckets[a][j], t) + (IF t = Tag(Context(v).fp) THEN z ELSE 0)
        /\ Held(buckets[a][j], t) \in Nat
    BY <1>1, HeldType DEF OneBucket
  <1> QED
    BY <1>2, <1>3, <1>4, <1>5, <1>6 DEF Gain

\* Some flow of the class an entry counts for.
LEMMA Owner ==
    ASSUME BucketsOK, EntriesOK, NEW a \in Arrays, NEW j \in Indices, NEW i \in Slots,
           buckets[a][j][i].count > 0
    PROVE  \E v \in Flows : /\ buckets[a][j][i].fingerprint = Tag(Context(v).fp)
                            /\ j = Context(v).keys[a]
                            /\ buckets[a][j][i].count <= arrived[Class(v)]
  BY DEF EntriesOK, EntryOK, Backed

\* Counting an entry adds one to its part, or nothing once it is saturated.
LEMMA CountingAdds ==
    ASSUME NEW e \in Entry
    PROVE  \E z \in 0 .. 1 : \A t : Part(Entry_Insert(e), t)
                                        = Part(e, t) + (IF t = e.fingerprint THEN z ELSE 0)
  <1>1. e.count \in Nat /\ Entry_Insert(e).fingerprint = e.fingerprint
    BY CountAssumption DEF Entry, Entry_Insert
  <1>2. CASE e.count < COUNT_MAX
    <2>1. Entry_Insert(e).count = e.count + 1
      BY <1>2 DEF Entry, Entry_Insert
    <2>2. \A t : Part(Entry_Insert(e), t) = Part(e, t) + (IF t = e.fingerprint THEN 1 ELSE 0)
      BY <1>1, <2>1 DEF Part
    <2> QED
      BY <2>2
  <1>3. CASE ~(e.count < COUNT_MAX)
    <2>1. Entry_Insert(e).count = e.count
      BY <1>3 DEF Entry, Entry_Insert
    <2>2. \A t : Part(Entry_Insert(e), t) = Part(e, t) + (IF t = e.fingerprint THEN 0 ELSE 0)
      BY <1>1, <2>1 DEF Part
    <2> QED
      BY <2>2
  <1> QED
    BY <1>2, <1>3

\* A branch that only replaces one entry of the bucket probed.
LEMMA OneEntryCounts ==
    ASSUME BucketsOK, NEW f \in Flows, NEW a \in Arrays, NEW i \in Slots, NEW e \in Entry,
           buckets' = Put(buckets, a, Context(f).keys[a], [Probe(Context(f), a) EXCEPT ![i] = e]),
           NEW z \in 0 .. 1,
           \A t : Part(e, t) = Part(Probe(Context(f), a)[i], t)
                                  + (IF t = Tag(Context(f).fp) THEN z ELSE 0)
    PROVE  Counts(f)
  <1> DEFINE p == Probe(Context(f), a)
             n == [p EXCEPT ![i] = e]
  <1>1. p \in Bucket
    BY ContextType DEF BucketsOK, Probe
  <1>2. n \in Bucket /\ \A t : Held(n, t) = Held(p, t) + Part(e, t) - Part(p[i], t)
    BY <1>1, HeldPut
  <1>3. \A t : Held(n, t) = Held(p, t) + (IF t = Tag(Context(f).fp) THEN z ELSE 0)
    <2> SUFFICES ASSUME NEW t
                 PROVE  Held(n, t) = Held(p, t) + (IF t = Tag(Context(f).fp) THEN z ELSE 0)
      OBVIOUS
    <2>1. Held(p, t) \in Nat /\ Part(p[i], t) \in Nat
      BY <1>1, HeldType
    <2>2. Part(e, t) = Part(p[i], t) + (IF t = Tag(Context(f).fp) THEN z ELSE 0)
      OBVIOUS
    <2>3. Held(n, t) = Held(p, t) + Part(e, t) - Part(p[i], t)
      BY <1>2
    <2> HIDE DEF p, n
    <2> QED
      BY <2>1, <2>2, <2>3
  <1>4. buckets' = Put(buckets, a, Context(f).keys[a], n)
    OBVIOUS
  <1> HIDE DEF n
  <1>5. \A g \in Flows : Estimate'[Class(g)] = Estimate[Class(g)]
                                + (IF Class(g) = Class(f) THEN z ELSE 0)
    <2>1. z \in Int /\ OneBucket(f, a, n, f, z)
      BY <1>2, <1>3, <1>4 DEF OneBucket
    <2> QED
      BY <2>1, OneBucketChanges
  <1> HIDE DEF p
  <1>6. \A g \in Flows : Estimate[Class(g)] \in Nat
    BY EstimateIs, EstimateFromTable DEF BucketsOK
  <1>7. \A g \in Flows : Estimate'[Class(g)] = Estimate[Class(g)]
                                + (IF Class(g) = Class(f) THEN z ELSE 0)
                                - (IF Class(g) = Class(f) THEN 0 ELSE 0)
    BY <1>5, <1>6
  <1> QED
    BY <1>7 DEF Counts

\* A packet that finds its key at the head counts there.
LEMMA HotHitCounts ==
    ASSUME BucketsOK, TagsOK, NEW f \in Flows, NEW a \in Arrays, HotHit(Context(f), a)
    PROVE  Counts(f)
  <1> DEFINE p == Probe(Context(f), a)
             e == Entry_Insert(p[0])
  <1>1. /\ Bucket_Equal(p, 0, Context(f).fp)
        /\ buckets' = Put(buckets, a, Context(f).keys[a], [p EXCEPT ![0] = e])
    BY DEF HotHit, CountHot, Put
  <1>2. 0 \in Slots /\ p[0] \in Entry /\ e \in Entry
    <2>1. 0 \in Slots
      BY SizeAssumption DEF Slots
    <2>2. p \in Bucket
      BY ContextType DEF BucketsOK, Probe
    <2> QED
      BY <2>1, <2>2, EntryTypes DEF Bucket
  <1>3. p[0].fingerprint = Tag(Context(f).fp)
    BY <1>1, <1>2, EqualMeansTag
  <1>4. PICK z \in 0 .. 1 : \A t : Part(e, t)
                                = Part(p[0], t) + (IF t = p[0].fingerprint THEN z ELSE 0)
    BY <1>2, CountingAdds
  <1> HIDE DEF e
  <1> QED
    BY <1>1, <1>2, <1>3, <1>4, OneEntryCounts

\* A packet that finds an empty entry takes it.
LEMMA FillCounts ==
    ASSUME BucketsOK, TagsOK, NEW f \in Flows, NEW a \in Arrays, NEW i \in Slots,
           Fill(Context(f), a, i)
    PROVE  Counts(f)
  <1> DEFINE p == Probe(Context(f), a)
             e == Entry_Insert_with(Context(f))
  <1>1. /\ p[i].count = 0
        /\ buckets' = Put(buckets, a, Context(f).keys[a], [p EXCEPT ![i] = e])
    BY DEF Fill, Take, FirstStop, Stops, Bucket_Empty, Put, Probe
  <1>2. e \in Entry /\ e.fingerprint = Tag(Context(f).fp) /\ e.count = 1
    <2>1. e \in Entry
      BY EntryTypes
    <2> QED
      BY <2>1 DEF Entry_Insert_with
  <1>3. \A t : Part(e, t) = Part(p[i], t) + (IF t = Tag(Context(f).fp) THEN 1 ELSE 0)
    BY <1>1, <1>2 DEF Part
  <1> HIDE DEF e
  <1> QED
    BY <1>1, <1>2, <1>3, OneEntryCounts

\* A packet that finds neither costs the smaller last entry one.
LEMMA LossyCounts ==
    ASSUME BucketsOK, EntriesOK, arrived \in [Classes -> Nat], NEW f \in Flows, Lossy(Context(f))
    PROVE  Counts(f)
  <1> DEFINE c == Context(f)
             a == LossyArray(c)
             p == Probe(c, a)
             o == p[MAX_ENTRY - 1]
             e == Entry_Lossy(o)
             n == [p EXCEPT ![MAX_ENTRY - 1] = e]
             j == c.keys[a]
  <1>1. a \in Arrays /\ MAX_ENTRY - 1 \in Slots
    BY SizeAssumption DEF LossyArray, Arrays, Slots
  <1>2. buckets' = Put(buckets, a, j, n)
    BY DEF Lossy, Decay, Put, Probe
  <1>3. o.count # 0
    BY <1>1 DEF Lossy, Stops, Bucket_Empty
  <1> HIDE DEF a
  <1>4. j \in Indices /\ p = buckets[a][j] /\ p \in Bucket
    BY <1>1, ContextType DEF BucketsOK, Probe
  <1>5. /\ o \in Entry /\ o.count \in Nat /\ o.count > 0 /\ e \in Entry
        /\ e.fingerprint = o.fingerprint /\ e.count = o.count - 1
    <2>1. o \in Entry /\ o.count \in Nat
      BY <1>1, <1>4, BucketCounts DEF Bucket
    <2>2. e \in Entry
      BY <2>1, EntryTypes
    <2> QED
      BY <1>3, <2>1, <2>2 DEF Entry_Lossy, Entry
  <1>6. PICK v \in Flows : /\ o.fingerprint = Tag(Context(v).fp)
                           /\ j = Context(v).keys[a]
                           /\ o.count <= arrived[Class(v)]
    <2>1. o = buckets[a][j][MAX_ENTRY - 1]
      BY <1>4
    <2> HIDE DEF o, j
    <2> QED
      BY <1>1, <1>4, <1>5, <2>1, Owner
  <1>7. n \in Bucket
    BY <1>1, <1>4, <1>5 DEF Bucket
  <1>8. \A t : Held(n, t) = Held(p, t) + (IF t = Tag(Context(v).fp) THEN -1 ELSE 0)
    <2> SUFFICES ASSUME NEW t
                 PROVE  Held(n, t) = Held(p, t) + (IF t = Tag(Context(v).fp) THEN -1 ELSE 0)
      OBVIOUS
    <2>1. /\ Held(n, t) = Held(p, t) + Part(e, t) - Part(o, t)
          /\ Held(p, t) \in Nat
      <3>1. n = [p EXCEPT ![MAX_ENTRY - 1] = e] /\ o = p[MAX_ENTRY - 1]
        OBVIOUS
      <3> HIDE DEF n, o, p, e
      <3>2. Held([p EXCEPT ![MAX_ENTRY - 1] = e], t)
                = Held(p, t) + Part(e, t) - Part(p[MAX_ENTRY - 1], t)
        BY <1>1, <1>4, <1>5, HeldPut
      <3>3. Held(p, t) \in Nat
        BY <1>4, HeldType
      <3> QED
        BY <3>1, <3>2, <3>3
    <2>2. /\ Part(o, t) = IF t = Tag(Context(v).fp) THEN o.count ELSE 0
          /\ Part(e, t) = IF t = Tag(Context(v).fp) THEN o.count - 1 ELSE 0
      BY <1>5, <1>6 DEF Part
    <2> HIDE DEF p, n, o, e
    <2> QED
      BY <1>5, <2>1, <2>2
  <1> HIDE DEF n
  <1>9. \A g \in Flows : Estimate'[Class(g)] = Estimate[Class(g)]
                                + (IF Class(g) = Class(v) THEN -1 ELSE 0)
    <2>1. OneBucket(f, a, n, v, -1)
      BY <1>2, <1>7, <1>8 DEF OneBucket, p, j, c
    <2>2. Context(v).keys[a] = Context(f).keys[a]
      BY <1>6 DEF j, c
    <2> QED
      BY <1>1, <2>1, <2>2, OneBucketChanges
  <1> HIDE DEF p, o
  <1>10. \A g \in Flows : Estimate[Class(g)] \in Nat
    BY EstimateIs, EstimateFromTable DEF BucketsOK
  <1>11. \A g \in Flows : Estimate'[Class(g)] = Estimate[Class(g)]
                                + (IF Class(g) = Class(f) THEN 0 ELSE 0)
                                - (IF Class(g) = Class(v) THEN 1 ELSE 0)
    BY <1>9, <1>10
  <1>12. 0 \in 0 .. 1 /\ 1 \in Nat /\ 1 <= o.count
    BY <1>5
  <1>13. 1 <= arrived[Class(v)]
    BY <1>5, <1>6 DEF Classes
  <1> QED
    BY <1>11, <1>12, <1>13 DEF Counts

\* So does replacing one bucket in each array.
LEMMA TwoPutsInTable ==
    ASSUME NEW bk \in [Arrays -> [Indices -> Bucket]], NEW a \in Arrays,
           NEW l \in Indices, NEW h \in Bucket, NEW j \in Indices, NEW n \in Bucket,
           NEW g \in Flows
    PROVE  LET b2 == Put(Put(bk, 1 - a, l, h), a, j, n)
           IN  /\ b2 \in [Arrays -> [Indices -> Bucket]]
               /\ InTable(bk, g, a) \in Nat
               /\ InTable(b2, g, a) = InTable(bk, g, a)
                      + Gain(g, 1 - a, l, bk[1 - a][l], h) + Gain(g, a, j, bk[a][j], n)
  <1> DEFINE b1 == Put(bk, 1 - a, l, h)
             b2 == Put(b1, a, j, n)
  <1>1. 1 - a \in Arrays /\ 1 - (1 - a) = a /\ 1 - a # a
    BY DEF Arrays
  <1>2. /\ b1 \in [Arrays -> [Indices -> Bucket]]
        /\ InTable(bk, g, 1 - a) \in Nat
        /\ InTable(b1, g, 1 - a) = InTable(bk, g, 1 - a)
              + Gain(g, 1 - a, l, bk[1 - a][l], h)
    BY <1>1, PutInTable
  <1>3. InTable(bk, g, 1 - a) = InTable(bk, g, a) /\ InTable(bk, g, a) \in Nat
    BY InTableEither
  <1>4. b1[a][j] = bk[a][j]
    BY <1>1 DEF Put
  <1> HIDE DEF b1
  <1>5. /\ b2 \in [Arrays -> [Indices -> Bucket]]
        /\ InTable(b1, g, 1 - a) = InTable(b1, g, a)
        /\ InTable(b2, g, a) = InTable(b1, g, a)
              + Gain(g, a, j, b1[a][j], n)
    <2>1. ASSUME NEW bb \in [Arrays -> [Indices -> Bucket]]
          PROVE  /\ Put(bb, a, j, n) \in [Arrays -> [Indices -> Bucket]]
                 /\ InTable(bb, g, 1 - a) = InTable(bb, g, a)
                 /\ InTable(Put(bb, a, j, n), g, a) = InTable(bb, g, a) + Gain(g, a, j, bb[a][j], n)
      <3>1. Put(bb, a, j, n) \in [Arrays -> [Indices -> Bucket]]
        BY PutInTable, Zenon
      <3>2. InTable(bb, g, 1 - a) = InTable(bb, g, a)
        BY InTableEither
      <3>3. InTable(Put(bb, a, j, n), g, a) = InTable(bb, g, a) + Gain(g, a, j, bb[a][j], n)
        BY PutInTable
      <3> QED
        BY <3>1, <3>2, <3>3
    <2> QED
      BY <1>2, <2>1
  <1>6. Gain(g, 1 - a, l, bk[1 - a][l], h) \in Int /\ Gain(g, a, j, bk[a][j], n) \in Int
    BY <1>1, HeldType DEF Gain
  <1> HIDE DEF b2
  <1> QED
    BY <1>2, <1>3, <1>4, <1>5, <1>6 DEF b2, b1

\* What a bucket holds after a hit in it: at most one more, for the class of
\* the packet.
LEMMA ColdBucketHeld ==
    ASSUME BucketsOK, TagsOK, NEW f \in Flows, NEW a \in Arrays, NEW i \in Slots,
           Bucket_Equal(Probe(Context(f), a), i, Context(f).fp)
    PROVE  \E z \in 0 .. 1 : \A t :
              Held(ColdBucket(Context(f), a, i), t)
                  = Held(Probe(Context(f), a), t) + (IF t = Tag(Context(f).fp) THEN z ELSE 0)
  <1> DEFINE p == Probe(Context(f), a)
             e == Entry_Insert(p[i])
             q == [p EXCEPT ![i] = e]
  <1>1. p \in Bucket
    BY ContextType DEF BucketsOK, Probe
  <1>2. p[i] \in Entry /\ e \in Entry
    BY <1>1, EntryTypes DEF Bucket
  <1>3. p[i].fingerprint = Tag(Context(f).fp)
    BY EqualMeansTag
  <1>4. PICK z \in 0 .. 1 : \A t : Part(e, t)
                                = Part(p[i], t) + (IF t = p[i].fingerprint THEN z ELSE 0)
    BY <1>2, CountingAdds
  <1>5. ColdBucket(Context(f), a, i) = Bucket_BucketSort(q, i)
    BY DEF ColdBucket
  <1>6. ASSUME NEW t
        PROVE  Held(ColdBucket(Context(f), a, i), t)
                  = Held(p, t) + (IF t = Tag(Context(f).fp) THEN z ELSE 0)
    <2> HIDE DEF e, p
    <2>1. q \in Bucket /\ Held(q, t) = Held(p, t) + Part(e, t) - Part(p[i], t)
      BY <1>1, <1>2, HeldPut
    <2> HIDE DEF q
    <2>2. Held(Bucket_BucketSort(q, i), t) = Held(q, t)
      BY <2>1, HeldSort
    <2>3. Held(p, t) \in Nat /\ Part(p[i], t) \in Nat
      BY <1>1, HeldType
    <2> QED
      BY <1>3, <1>4, <1>5, <2>1, <2>2, <2>3
  <1> QED
    BY <1>6

\* A hit that stays in its bucket.
LEMMA StayCounts ==
    ASSUME BucketsOK, TagsOK, NEW f \in Flows, NEW a \in Arrays, NEW i \in Slots,
           Bucket_Equal(Probe(Context(f), a), i, Context(f).fp),
           buckets' = [buckets EXCEPT ![a][Context(f).keys[a]] = ColdBucket(Context(f), a, i)]
    PROVE  Counts(f)
  <1> DEFINE b == ColdBucket(Context(f), a, i)
  <1>1. b \in Bucket
    BY ColdBucketHolds
  <1>2. PICK z \in 0 .. 1 : \A t :
            Held(b, t) = Held(Probe(Context(f), a), t) + (IF t = Tag(Context(f).fp) THEN z ELSE 0)
    BY ColdBucketHeld
  <1>3. buckets' = Put(buckets, a, Context(f).keys[a], b)
    BY DEF Put
  <1> HIDE DEF b
  <1>4. z \in Int /\ OneBucket(f, a, b, f, z)
    <2>1. z \in Int
      OBVIOUS
    <2> QED
      BY <1>1, <1>2, <1>3, <2>1, Zenon DEF OneBucket
  <1>5. \A g \in Flows : Estimate'[Class(g)] = Estimate[Class(g)]
                                + (IF Class(g) = Class(f) THEN z ELSE 0)
    BY <1>4, OneBucketChanges
  <1>6. \A g \in Flows : Estimate[Class(g)] \in Nat
    BY EstimateIs, EstimateFromTable DEF BucketsOK
  <1>7. \A g \in Flows : Estimate'[Class(g)] = Estimate[Class(g)]
                                + (IF Class(g) = Class(f) THEN z ELSE 0)
                                - (IF Class(g) = Class(f) THEN 0 ELSE 0)
    BY <1>5, <1>6
  <1> QED
    BY <1>7 DEF Counts

\* An entry that moves counts for a class whose other bucket is its target.
LEMMA MoverOwner ==
    ASSUME BucketsOK, TagsOK, EntriesOK, NEW f \in Flows, NEW a \in Arrays, NEW i \in Slots,
           Bucket_Equal(Probe(Context(f), a), i, Context(f).fp),
           NEW k \in Slots, ColdBucket(Context(f), a, i)[k].count > 0
    PROVE  LET d == ColdBucket(Context(f), a, i)[k]
           IN  \E w \in Flows :
                  /\ d.fingerprint = Tag(Context(w).fp)
                  /\ Context(w).keys[a] = Context(f).keys[a]
                  /\ Context(w).keys[1 - a] = KickTarget(Context(f), a, d)
  <1> DEFINE p == Probe(Context(f), a)
             d == ColdBucket(Context(f), a, i)[k]
             j == Context(f).keys[a]
  <1>1. PICK m \in Slots : Counted(Context(f), p[m], d)
    BY ColdBucketHolds
  <1>2. j \in Indices /\ p = buckets[a][j] /\ p \in Bucket
    BY ContextType DEF BucketsOK, Probe
  <1> HIDE DEF d, p, j
  <1>3. \E w \in Flows : d.fingerprint = Tag(Context(w).fp) /\ Context(w).keys[a] = j
    <2>1. CASE d = p[m]
      <3>1. buckets[a][j][m].count > 0
        BY <1>2, <2>1 DEF d
      <3> QED
        BY <1>2, <2>1, <3>1, Owner
    <2>2. CASE p[m].fingerprint = Tag(Context(f).fp) /\ d = Entry_Insert(p[m])
      <3>1. p[m] \in Entry
        BY <1>2 DEF Bucket
      <3>2. d.fingerprint = p[m].fingerprint
        BY <2>2, <3>1 DEF Entry_Insert, Entry
      <3> QED
        BY <2>2, <3>2 DEF j
    <2> QED
      BY <1>1, <2>1, <2>2 DEF Counted
  <1>4. PICK w \in Flows : d.fingerprint = Tag(Context(w).fp) /\ Context(w).keys[a] = j
    BY <1>3
  <1>5. KickTarget(Context(f), a, d) = Context(w).keys[1 - a]
    BY <1>4, KickLands, WrapAssumption DEF j
  <1> QED
    BY <1>4, <1>5 DEF d, j

\* What entry x of the bucket of index l in array a counts, it counts for the
\* class of flow v alone.
OwnedBy(x, a, l, v) ==
    /\ x.count = 0 \/ x.count <= arrived[Class(v)]
    /\ \A g \in Flows : (IF Context(g).keys[a] = l THEN Part(x, Tag(Context(g).fp)) ELSE 0)
                            = IF Class(g) = Class(v) THEN x.count ELSE 0

\* The entry a kickout pushes off, and the class that loses it.
LEMMA PushedOff ==
    ASSUME BucketsOK, EntriesOK, NEW f \in Flows, NEW a \in Arrays, NEW l \in Indices, NEW i \in Slots
    PROVE  LET x == buckets[a][l][i]
           IN  /\ x.count \in Nat
               /\ \E v \in Flows : OwnedBy(x, a, l, v)
  <1> DEFINE x == buckets[a][l][i]
  <1>1. x.count \in Nat
    BY BucketCounts DEF BucketsOK
  <1>2. CASE x.count = 0
    <2>1. \A g \in Flows :
            (IF Context(g).keys[a] = l THEN Part(x, Tag(Context(g).fp)) ELSE 0)
                = IF Class(g) = Class(f) THEN x.count ELSE 0
      BY <1>2 DEF Part
    <2>2. OwnedBy(x, a, l, f)
      BY <1>2, <2>1 DEF OwnedBy
    <2> QED
      BY <1>1, <2>2
  <1>3. CASE x.count # 0
    <2>1. PICK v \in Flows : /\ x.fingerprint = Tag(Context(v).fp)
                             /\ l = Context(v).keys[a]
                             /\ x.count <= arrived[Class(v)]
      BY <1>1, <1>3, Owner
    <2>2. ASSUME NEW g \in Flows
          PROVE  (IF Context(g).keys[a] = l THEN Part(x, Tag(Context(g).fp)) ELSE 0)
                     = IF Class(g) = Class(v) THEN x.count ELSE 0
      <3>1. Class(g) = Class(v) <=> /\ Tag(Context(g).fp) = Tag(Context(v).fp)
                                    /\ Context(g).keys[a] = Context(v).keys[a]
        BY ClassMeans
      <3> QED
        BY <2>1, <3>1 DEF Part
    <2>3. OwnedBy(x, a, l, v)
      BY <2>1, <2>2 DEF OwnedBy
    <2> QED
      BY <1>1, <2>3
  <1> QED
    BY <1>2, <1>3

\* A hit that moves its entry to the head of the other bucket.
LEMMA KickCounts ==
    ASSUME BucketsOK, TagsOK, EntriesOK, NEW f \in Flows, NEW a \in Arrays, NEW i \in Slots,
           Bucket_Equal(Probe(Context(f), a), i, Context(f).fp),
           NEW b, NEW t, NEW n,
           b = ColdBucket(Context(f), a, i),
           t = KickTarget(Context(f), a, b[1]),
           n = buckets[1 - a][t],
           b[1].count > n[0].count,
           buckets' = Put(Put(buckets, 1 - a, t, [Bucket_down_stairs(n, 0) EXCEPT ![0] = b[1]]),
                          a, Context(f).keys[a], Bucket_Remove(b, 1))
    PROVE  Counts(f)
  <1> DEFINE d == b[1]
             j == Context(f).keys[a]
             p == Probe(Context(f), a)
             h == [Bucket_down_stairs(n, 0) EXCEPT ![0] = d]
             r == Bucket_Remove(b, 1)
             x == n[MAX_ENTRY - 1]
             T == Tag(Context(f).fp)
  <1>1. /\ 1 \in Slots /\ 0 \in Slots /\ MAX_ENTRY - 1 \in Slots /\ 1 \in 0 .. MAX_ENTRY - 1
        /\ 1 - a \in Arrays /\ 1 - (1 - a) = a
    BY SizeAssumption DEF Slots, Arrays
  <1>2. b \in Bucket /\ d \in Entry /\ d.fingerprint \in Nat
    <2>1. b \in Bucket
      BY ColdBucketHolds
    <2> QED
      BY <1>1, <2>1 DEF Bucket, Entry
  <1>3. j \in Indices /\ p = buckets[a][j] /\ p \in Bucket
    BY ContextType DEF BucketsOK, Probe
  <1>4. t \in Indices
    BY <1>2, KickTargetType
  <1>5. n \in Bucket
    BY <1>1, <1>4 DEF BucketsOK
  <1>6. d.count > 0
    <2>1. n[0].count \in Nat /\ d.count \in Nat
      BY <1>1, <1>2, <1>5, BucketCounts
    <2> QED
      BY <2>1
  <1>7. PICK w \in Flows : /\ d.fingerprint = Tag(Context(w).fp)
                           /\ Context(w).keys[a] = j
                           /\ Context(w).keys[1 - a] = t
    BY <1>1, <1>6, MoverOwner
  <1>8. PICK z \in 0 .. 1 : \A q : Held(b, q) = Held(p, q) + (IF q = T THEN z ELSE 0)
    BY ColdBucketHeld
  <1>9. PICK v \in Flows :
            /\ x.count = 0 \/ x.count <= arrived[Class(v)]
            /\ \A g \in Flows :
                 (IF Context(g).keys[1 - a] = t THEN Part(x, Tag(Context(g).fp)) ELSE 0)
                     = IF Class(g) = Class(v) THEN x.count ELSE 0
    <2>1. x = buckets[1 - a][t][MAX_ENTRY - 1]
      OBVIOUS
    <2> HIDE DEF x
    <2>2. \E v \in Flows : OwnedBy(x, 1 - a, t, v)
      BY <1>1, <1>4, <2>1, PushedOff
    <2> QED
      BY <2>2 DEF OwnedBy
  <1>10. x.count \in Nat
    BY <1>1, <1>5, BucketCounts
  <1>11. h \in Bucket /\ r \in Bucket
    BY <1>2, <1>5, PushKeeps, RemoveKeeps
  <1>12. ASSUME NEW g \in Flows
         PROVE  Estimate'[Class(g)] = Estimate[Class(g)]
                                + (IF Class(g) = Class(f) THEN z ELSE 0)
                                - (IF Class(g) = Class(v) THEN x.count ELSE 0)
    <2> DEFINE s == Tag(Context(g).fp)
    <2> HIDE DEF h, r
    <2>1. /\ buckets' \in [Arrays -> [Indices -> Bucket]]
          /\ InTable(buckets, g, a) \in Nat
          /\ InTable(buckets', g, a)
                = InTable(buckets, g, a) + Gain(g, 1 - a, t, n, h) + Gain(g, a, j, p, r)
      <3>1. buckets' = Put(Put(buckets, 1 - a, t, h), a, j, r)
        BY DEF h, r
      <3>2. buckets \in [Arrays -> [Indices -> Bucket]]
        BY DEF BucketsOK
      <3>3. LET b2 == Put(Put(buckets, 1 - a, t, h), a, j, r)
            IN  /\ b2 \in [Arrays -> [Indices -> Bucket]]
                /\ InTable(buckets, g, a) \in Nat
                /\ InTable(b2, g, a) = InTable(buckets, g, a)
                       + Gain(g, 1 - a, t, buckets[1 - a][t], h) + Gain(g, a, j, buckets[a][j], r)
        <4> HIDE DEF j
        <4> QED
          BY <1>3, <1>4, <1>11, <3>2, TwoPutsInTable, SMTT(60)
      <3> QED
        BY <1>3, <3>1, <3>3, Zenon
    <2>2. /\ Estimate[Class(g)] = InTable(buckets, g, a)
          /\ Estimate'[Class(g)] = InTable(buckets', g, a)
      <3>1. Estimate[Class(g)] = InTable(buckets, g, a)
        BY EstimateIs, EstimateFromTable DEF BucketsOK
      <3>2. Estimate'[Class(g)] = InTable(buckets', g, a)
        BY <2>1, EstimateIs, EstimateFromTable
      <3> QED
        BY <3>1, <3>2
    <2>3. /\ Held(h, s) = Held(n, s) + Part(d, s) - Part(x, s)
          /\ Held(r, s) = Held(b, s) - Part(d, s)
      BY <1>1, <1>2, <1>5, HeldPush, HeldRemove DEF h, r
    <2>4. /\ Held(n, s) \in Nat /\ Held(b, s) \in Nat /\ Held(p, s) \in Nat
          /\ Part(x, s) \in Nat /\ Part(d, s) \in Nat
      BY <1>1, <1>2, <1>3, <1>5, HeldType
    <2>5. Held(b, s) = Held(p, s) + (IF s = T THEN z ELSE 0)
      BY <1>8
    <2>6. Part(d, s) # 0 => (Context(g).keys[1 - a] = t <=> Context(g).keys[a] = j)
      <3>1. Class(g) = Class(w) <=> s = Tag(Context(w).fp) /\ Context(g).keys[a] = j
        BY <1>7, ClassMeans
      <3>2. Class(g) = Class(w) <=> s = Tag(Context(w).fp) /\ Context(g).keys[1 - a] = t
        BY <1>1, <1>7, ClassMeans
      <3> QED
        BY <1>7, <3>1, <3>2 DEF Part
    <2>7. Class(g) = Class(f) <=> s = T /\ Context(g).keys[a] = j
      BY ClassMeans
    <2>8. (IF Context(g).keys[1 - a] = t THEN Part(x, s) ELSE 0)
              = IF Class(g) = Class(v) THEN x.count ELSE 0
      BY <1>9
    <2>9. /\ Gain(g, 1 - a, t, n, h)
                = IF Context(g).keys[1 - a] = t THEN Part(d, s) - Part(x, s) ELSE 0
          /\ Gain(g, a, j, p, r)
                = IF Context(g).keys[a] = j THEN (IF s = T THEN z ELSE 0) - Part(d, s) ELSE 0
      BY <2>3, <2>4, <2>5 DEF Gain
    <2> HIDE DEF s, d, j, p, x, T
    <2>10. Gain(g, 1 - a, t, n, h) + Gain(g, a, j, p, r)
              = (IF Class(g) = Class(f) THEN z ELSE 0) - (IF Class(g) = Class(v) THEN x.count ELSE 0)
      BY <1>10, <2>4, <2>6, <2>7, <2>8, <2>9
    <2>11. Gain(g, 1 - a, t, n, h) \in Int /\ Gain(g, a, j, p, r) \in Int
      BY <2>4, <2>9
    <2> QED
      BY <1>10, <2>1, <2>2, <2>10, <2>11
  <1> HIDE DEF x
  <1> QED
    BY <1>9, <1>10, <1>12 DEF Counts

\* A hit further down, with or without a kickout.
LEMMA ColdHitCounts ==
    ASSUME BucketsOK, TagsOK, EntriesOK, NEW f \in Flows, NEW a \in Arrays, NEW i \in Slots,
           ColdHit(Context(f), a, i)
    PROVE  Counts(f)
  <1> DEFINE c == Context(f)
             b == ColdBucket(c, a, i)
             t == KickTarget(c, a, b[1])
             n == buckets[1 - a][t]
  <1>1. /\ Bucket_Equal(Probe(c, a), i, c.fp)
        /\ \/ buckets' = [buckets EXCEPT ![a][c.keys[a]] = b]
           \/ /\ b[1].count > n[0].count
              /\ buckets' = [buckets EXCEPT
                     ![1 - a][t] = [Bucket_down_stairs(n, 0) EXCEPT ![0] = b[1]],
                     ![a][c.keys[a]] = Bucket_Remove(b, 1)]
    BY ColdHitShape
  <1>2. CASE buckets' = [buckets EXCEPT ![a][c.keys[a]] = b]
    BY <1>1, <1>2, StayCounts
  <1>3. CASE /\ b[1].count > n[0].count
             /\ buckets' = [buckets EXCEPT
                     ![1 - a][t] = [Bucket_down_stairs(n, 0) EXCEPT ![0] = b[1]],
                     ![a][c.keys[a]] = Bucket_Remove(b, 1)]
    <2>1. buckets' = Put(Put(buckets, 1 - a, t, [Bucket_down_stairs(n, 0) EXCEPT ![0] = b[1]]),
                         a, c.keys[a], Bucket_Remove(b, 1))
      BY <1>3 DEF Put
    <2> HIDE DEF b, t, n
    <2> QED
      BY <1>1, <1>3, <2>1, KickCounts DEF b, t, n
  <1> QED
    BY <1>1, <1>2, <1>3

\* Whatever branch a packet takes, one class gains at most one and one loses.
LEMMA InsertCounts ==
    ASSUME BucketsOK, TagsOK, EntriesOK, arrived \in [Classes -> Nat], NEW f \in Flows,
           BubbleSketch_Insert(Context(f))
    PROVE  Counts(f)
  BY HotHitCounts, FillCounts, ColdHitCounts, LossyCounts DEF BubbleSketch_Insert

-----------------------------------------------------------------------------
(* The refinement of FlowCounting.                                         *)

\* No class has more packets than were counted, and counting stops at
\* MaxPackets.
Traffic == /\ insert_counter <= MaxPackets
           /\ \A c \in Classes : arrived[c] <= insert_counter

\* The bound on the traffic bounds every class.
LEMMA TrafficInvariant == Spec => [](IInv /\ Traffic)
  <1>1. Init => Traffic
    BY PacketsAssumption DEF Init, Traffic
  <1>2. IInv /\ Traffic /\ [Next]_vars => Traffic'
    <2> SUFFICES ASSUME IInv, Traffic, [Next]_vars
                 PROVE  Traffic'
      OBVIOUS
    <2>0. insert_counter \in Nat /\ arrived \in [Classes -> Nat]
      BY DEF IInv, TypeOK
    <2>1. CASE UNCHANGED vars
      BY <2>1 DEF vars, Traffic
    <2>2. CASE Next
      <3>1. PICK f \in Flows : /\ insert_counter < MaxPackets
                               /\ insert_counter' = insert_counter + 1
                               /\ arrived' = [arrived EXCEPT ![Class(f)] = @ + 1]
        BY <2>2 DEF Next, xdp_collect_5tuple
      <3> QED
        BY <2>0, <3>1, PacketsAssumption DEF Traffic
    <2> QED
      BY <2>1, <2>2
  <1> QED
    BY IInvInvariant, <1>1, <1>2, PTL DEF Spec

\* A packet of the sketch is a packet of the abstract counter.
LEMMA PacketCounts ==
    ASSUME IInv, Traffic, NEW f \in Flows, xdp_collect_5tuple(f)
    PROVE  Promise!Packet(Class(f))
  <1>1. /\ insert_counter \in Nat /\ arrived \in [Classes -> Nat]
        /\ BucketsOK /\ TagsOK /\ EntriesOK
    BY EntriesOKIsBoth DEF IInv, TypeOK, BucketsOK, TagsOK, Identity
  <1>2. BubbleSketch_Insert(Context(f)) /\ arrived' = [arrived EXCEPT ![Class(f)] = @ + 1]
    BY DEF xdp_collect_5tuple
  <1>3. Counts(f)
    BY <1>1, <1>2, InsertCounts
  <1>4. BucketsOK'
    BY <1>1, <1>2, Provenance
  <1>5. PICK gain \in 0 .. 1, v \in Flows : \E loss \in Nat :
            /\ loss = 0 \/ loss <= arrived[Class(v)]
            /\ \A g \in Flows : Estimate'[Class(g)] = Estimate[Class(g)]
                                    + (IF Class(g) = Class(f) THEN gain ELSE 0)
                                    - (IF Class(g) = Class(v) THEN loss ELSE 0)
    BY <1>3 DEF Counts
  <1>6. PICK loss \in Nat :
            /\ loss = 0 \/ loss <= arrived[Class(v)]
            /\ \A g \in Flows : Estimate'[Class(g)] = Estimate[Class(g)]
                                    + (IF Class(g) = Class(f) THEN gain ELSE 0)
                                    - (IF Class(g) = Class(v) THEN loss ELSE 0)
    BY <1>5
  <1>7. loss \in 0 .. MaxPackets
    <2>1. Class(v) \in Classes
      BY DEF Classes
    <2>2. arrived[Class(v)] \in Nat /\ arrived[Class(v)] <= insert_counter
      BY <1>1, <2>1 DEF Traffic
    <2> QED
      BY <1>1, <1>6, <2>2, PacketsAssumption DEF Traffic
  <1>8. \A d \in Classes : Estimate'[d] = Estimate[d]
                               + (IF d = Class(f) THEN gain ELSE 0)
                               - (IF d = Class(v) THEN loss ELSE 0)
    BY <1>6 DEF Classes
  <1>9. Estimate' = [d \in Classes |-> Estimate[d]
                               + (IF d = Class(f) THEN gain ELSE 0)
                               - (IF d = Class(v) THEN loss ELSE 0)]
    <2>1. Estimate' = [d \in Classes |-> Estimate'[d]]
      BY DEF Estimate
    <2> HIDE DEF Estimate
    <2> QED
      BY <1>8, <2>1, Zenon
  <1>10. \A d \in Classes : Estimate'[d] >= 0
    <2>1. \A g \in Flows : Estimate'[Class(g)] \in Nat
      <3>1. buckets' \in [Arrays -> [Indices -> Bucket]]
        BY <1>4 DEF BucketsOK
      <3> QED
        BY <3>1, EstimateIs, EstimateFromTable
    <2> QED
      BY <2>1 DEF Classes
  <1>11. Class(v) \in Classes
    BY DEF Classes
  <1>12. \E ga \in 0 .. 1, va \in Classes : \E lo \in 0 .. MaxPackets :
             Estimate' = [d \in Classes |-> Estimate[d]
                               + (IF d = Class(f) THEN ga ELSE 0)
                               - (IF d = va THEN lo ELSE 0)]
    BY <1>7, <1>9, <1>11
  <1> QED
    BY <1>2, <1>10, <1>12 DEF Promise!Packet

\* The sketch implements the abstract counter: whichever branch a packet takes,
\* its class gains at most one, and only one class loses.
THEOREM SketchImplementsCounting == Spec => ImplementsCounting
  <1>1. Init => Promise!Init
    <2> SUFFICES ASSUME Init PROVE Promise!Init
      OBVIOUS
    <2>1. IInv
      BY IInvInit
    <2>2. buckets \in [Arrays -> [Indices -> Bucket]]
      BY <2>1 DEF IInv, TypeOK
    <2>3. \A g \in Flows : Estimate[Class(g)] = InTable(buckets, g, 0)
      <3>1. 0 \in Arrays
        BY DEF Arrays
      <3> QED
        BY <2>2, <3>1, EstimateIs, EstimateFromTable
    <2>4. ASSUME NEW g \in Flows PROVE InTable(buckets, g, 0) = 0
      <3>1. 0 \in Arrays /\ 1 \in Arrays
        BY DEF Arrays
      <3>2. /\ buckets[0][Context(g).keys[0]] = [i \in Slots |-> Entry_init]
            /\ buckets[1][Context(g).keys[1]] = [i \in Slots |-> Entry_init]
        BY <3>1, ContextType DEF Init, Init_sketch
      <3>3. [i \in Slots |-> Entry_init] \in Bucket
        BY EntryTypes DEF Bucket
      <3>4. Held([i \in Slots |-> Entry_init], Tag(Context(g).fp)) = 0
        BY HeldEmpty
      <3> QED
        BY <3>2, <3>4 DEF InTable
    <2>5. Estimate = [c \in Classes |-> 0]
      <3>1. \A c \in Classes : Estimate[c] = 0
        BY <2>3, <2>4 DEF Classes
      <3>2. Estimate = [c \in Classes |-> Estimate[c]]
        BY DEF Estimate
      <3> HIDE DEF Estimate
      <3> QED
        BY <3>1, <3>2, Zenon
    <2> QED
      BY <2>5 DEF Init, Promise!Init
  <1>2. IInv /\ Traffic /\ [Next]_vars => [Promise!Next]_(Promise!vars)
    <2> SUFFICES ASSUME IInv, Traffic, [Next]_vars
                 PROVE  [Promise!Next]_(Promise!vars)
      OBVIOUS
    <2>1. CASE UNCHANGED vars
      <3>1. Estimate' = Estimate
        BY <2>1, EstimateFromTable DEF vars
      <3> QED
        BY <2>1, <3>1 DEF vars, Promise!vars
    <2>2. CASE Next
      <3>1. PICK f \in Flows : xdp_collect_5tuple(f)
        BY <2>2 DEF Next
      <3>2. Promise!Packet(Class(f))
        BY <3>1, PacketCounts
      <3> QED
        BY <3>2 DEF Promise!Next, Classes
    <2> QED
      BY <2>1, <2>2
  <1> QED
    BY TrafficInvariant, <1>1, <1>2, PTL DEF Spec, ImplementsCounting, Promise!Spec

Counting == /\ Estimate \in [Classes -> Nat]
            /\ arrived \in [Classes -> Nat]
            /\ Promise!Underestimates

\* The abstract counter never claims more packets than it saw: each packet adds
\* at most one to the estimate of its own class.
THEOREM SumsUnderestimate == Promise!Spec => []Promise!Underestimates
  <1>1. Promise!Init => Counting
    BY DEF Promise!Init, Counting, Promise!Underestimates
  <1>2. Counting /\ [Promise!Next]_(Promise!vars) => Counting'
    <2> SUFFICES ASSUME Counting, [Promise!Next]_(Promise!vars)
                 PROVE  Counting'
      OBVIOUS
    <2>1. CASE Promise!Next
      <3>1. PICK c \in Classes : Promise!Packet(c)
        BY <2>1 DEF Promise!Next
      <3>2. PICK gain \in 0 .. 1, v \in Classes : \E loss \in 0 .. MaxPackets :
                Estimate' = [d \in Classes |-> Estimate[d]
                                + (IF d = c THEN gain ELSE 0)
                                - (IF d = v THEN loss ELSE 0)]
        BY <3>1 DEF Promise!Packet
      <3>3. PICK loss \in 0 .. MaxPackets :
                Estimate' = [d \in Classes |-> Estimate[d]
                                + (IF d = c THEN gain ELSE 0)
                                - (IF d = v THEN loss ELSE 0)]
        BY <3>2
      <3>4. arrived' = [arrived EXCEPT ![c] = @ + 1] /\ arrived' \in [Classes -> Nat]
        BY <3>1 DEF Promise!Packet, Counting
      <3>5. Estimate' \in [Classes -> Nat]
        <4>1. \A d \in Classes : Estimate'[d] \in Int
          BY <3>3 DEF Counting
        <4>2. \A d \in Classes : Estimate'[d] >= 0
          BY <3>1 DEF Promise!Packet
        <4> QED
          BY <3>3, <4>1, <4>2
      <3>6. ASSUME NEW d \in Classes
            PROVE  Estimate'[d] <= arrived'[d]
        <4>1. Estimate[d] \in Nat /\ arrived[d] \in Nat /\ Estimate[d] <= arrived[d]
          BY DEF Counting, Promise!Underestimates
        <4>2. Estimate'[d] <= Estimate[d] + (IF d = c THEN gain ELSE 0)
          BY <3>3, <4>1
        <4>3. arrived'[d] = arrived[d] + (IF d = c THEN 1 ELSE 0)
          BY <3>4, <4>1 DEF Counting
        <4> QED
          BY <3>5, <4>1, <4>2, <4>3
      <3> QED
        BY <3>4, <3>5, <3>6 DEF Counting, Promise!Underestimates
    <2>2. CASE UNCHANGED Promise!vars
      BY <2>2 DEF Counting, Promise!Underestimates, Promise!vars
    <2> QED
      BY <2>1, <2>2
  <1>3. Counting => Promise!Underestimates
    BY DEF Counting
  <1> QED
    BY <1>1, <1>2, <1>3, PTL DEF Promise!Spec

\* All counters of a class together, in both arrays, stay below its packets.
THEOREM TotalsUnderestimate == Spec => []TotalIsBacked
  BY SketchImplementsCounting, SumsUnderestimate, PTL DEF ImplementsCounting, TotalIsBacked

-----------------------------------------------------------------------------
(* Retention: where each counter of the table goes.                        *)

\* Entry e is somewhere in the next table, uncut.
Stays(e) == \E x \in Arrays, y \in Indices, k \in Slots : Keeps(e, buckets'[x][y][k])

\* What a step may do to the counter in slot i of bucket j of array a.
Retained(a, j, i) ==
    \/ Stays(buckets[a][j][i])
    \/ /\ i = MAX_ENTRY - 1
       /\ \/ buckets'[a][j] = [buckets[a][j] EXCEPT ![i].count = @ - 1]
          \/ buckets'[a][j][0].count > buckets[a][j][0].count

\* An entry keeps itself, and so does its counting.
LEMMA KeepsItself ==
    ASSUME NEW e \in Entry
    PROVE  Keeps(e, e) /\ Keeps(e, Entry_Insert(e))
  BY CountAssumption DEF Keeps, Entry, Entry_Insert

\* The place it is at.
LEMMA StaysAt ==
    ASSUME NEW e, NEW x \in Arrays, NEW y \in Indices, NEW k \in Slots, Keeps(e, buckets'[x][y][k])
    PROVE  Stays(e)
  BY DEF Stays

\* Entries of a bucket the step does not touch stay.
LEMMA UntouchedStays ==
    ASSUME BucketsOK, NEW a \in Arrays, NEW j \in Indices, NEW i \in Slots,
           buckets'[a][j][i] = buckets[a][j][i]
    PROVE  Stays(buckets[a][j][i])
  <1>1. buckets[a][j][i] \in Entry
    BY DEF BucketsOK, Bucket
  <1> QED
    BY <1>1, KeepsItself DEF Stays

\* A branch that replaces one entry by one that keeps it, or an empty one.
LEMMA OneEntryRetains ==
    ASSUME BucketsOK, NEW x \in Arrays, NEW y \in Indices, NEW k \in Slots, NEW e,
           buckets[x][y][k].count = 0 \/ Keeps(buckets[x][y][k], e),
           buckets' = [buckets EXCEPT ![x][y][k] = e],
           NEW a \in Arrays, NEW j \in Indices, NEW i \in Slots, buckets[a][j][i].count > 0
    PROVE  Stays(buckets[a][j][i])
  <1>1. CASE a = x /\ j = y /\ i = k
    <2>1. buckets'[x][y][k] = e
      BY DEF BucketsOK, Bucket
    <2> QED
      BY <1>1, <2>1 DEF Stays
  <1>2. CASE ~(a = x /\ j = y /\ i = k)
    <2>1. buckets'[a][j][i] = buckets[a][j][i]
      BY <1>2 DEF BucketsOK, Bucket
    <2> QED
      BY <2>1, UntouchedStays
  <1> QED
    BY <1>1, <1>2

\* A hit at the head keeps every entry.
LEMMA HotHitRetains ==
    ASSUME BucketsOK, NEW f \in Flows, NEW x \in Arrays, HotHit(Context(f), x),
           NEW a \in Arrays, NEW j \in Indices, NEW i \in Slots, buckets[a][j][i].count > 0
    PROVE  Stays(buckets[a][j][i])
  <1> DEFINE y == Context(f).keys[x]
             e == Entry_Insert(buckets[x][y][0])
  <1>1. y \in Indices /\ 0 \in Slots
    BY ContextType, SizeAssumption DEF Slots
  <1>2. buckets' = [buckets EXCEPT ![x][y][0] = e]
    BY <1>1 DEF HotHit, CountHot, Probe, BucketsOK
  <1>3. Keeps(buckets[x][y][0], e)
    BY <1>1, KeepsItself DEF BucketsOK, Bucket
  <1> HIDE DEF e, y
  <1> QED
    BY <1>1, <1>2, <1>3, OneEntryRetains

\* So does filling an empty one.
LEMMA FillRetains ==
    ASSUME BucketsOK, NEW f \in Flows, NEW x \in Arrays, NEW k \in Slots,
           Fill(Context(f), x, k),
           NEW a \in Arrays, NEW j \in Indices, NEW i \in Slots, buckets[a][j][i].count > 0
    PROVE  Stays(buckets[a][j][i])
  <1> DEFINE y == Context(f).keys[x]
             e == Entry_Insert_with(Context(f))
  <1>1. y \in Indices
    BY ContextType
  <1>2. /\ buckets' = [buckets EXCEPT ![x][y][k] = e]
        /\ buckets[x][y][k].count = 0
    BY DEF Fill, Take, FirstStop, Stops, Bucket_Empty, Probe
  <1> HIDE DEF e, y
  <1> QED
    BY <1>1, <1>2, OneEntryRetains

\* Decay cuts the last entry of its bucket by one and no other.
LEMMA LossyRetains ==
    ASSUME BucketsOK, NEW f \in Flows, Lossy(Context(f)),
           NEW a \in Arrays, NEW j \in Indices, NEW i \in Slots, buckets[a][j][i].count > 0
    PROVE  Retained(a, j, i)
  <1> DEFINE x == LossyArray(Context(f))
             y == Context(f).keys[x]
             last == MAX_ENTRY - 1
  <1>1. x \in Arrays /\ last \in Slots
    BY SizeAssumption DEF LossyArray, Arrays, Slots
  <1>2. buckets' = [buckets EXCEPT ![x][y][last] = Entry_Lossy(@)]
    BY DEF Lossy, Decay
  <1> HIDE DEF x
  <1>3. y \in Indices
    BY <1>1, ContextType
  <1> HIDE DEF y
  <1>4. CASE a = x /\ j = y /\ i = last
    <2>1. buckets'[a][j] = [buckets[a][j] EXCEPT ![i] = Entry_Lossy(@)]
      BY <1>2, <1>4 DEF BucketsOK
    <2>2. Entry_Lossy(buckets[a][j][i]) = [buckets[a][j][i] EXCEPT !.count = @ - 1]
      BY DEF Entry_Lossy
    <2>3. buckets'[a][j] = [buckets[a][j] EXCEPT ![i].count = @ - 1]
      BY <2>1, <2>2
    <2> QED
      BY <1>4, <2>3 DEF Retained
  <1>5. CASE ~(a = x /\ j = y /\ i = last)
    <2>1. buckets'[a][j][i] = buckets[a][j][i]
      BY <1>1, <1>2, <1>3, <1>5 DEF BucketsOK, Bucket
    <2> QED
      BY <2>1, UntouchedStays DEF Retained
  <1> QED
    BY <1>4, <1>5

\* A hit and its sort keep every entry of the bucket.
LEMMA ColdBucketKeeps ==
    ASSUME BucketsOK, NEW f \in Flows, NEW x \in Arrays, NEW i \in Slots, NEW m \in Slots
    PROVE  \E k \in Slots : Keeps(Probe(Context(f), x)[m], ColdBucket(Context(f), x, i)[k])
  <1> DEFINE p == Probe(Context(f), x)
             q == [p EXCEPT ![i] = Entry_Insert(@)]
  <1>1. p \in Bucket
    BY ContextType DEF BucketsOK, Probe
  <1>2. Keeps(p[m], q[m])
    <2>1. p[m] \in Entry /\ q[m] \in {p[m], Entry_Insert(p[m])}
      BY <1>1 DEF Bucket
    <2> QED
      BY <2>1, KeepsItself
  <1> HIDE DEF q
  <1>3. \E k \in Slots : Bucket_BucketSort(q, i)[k] = q[m]
    BY SortKeepsAll
  <1> QED
    BY <1>2, <1>3 DEF ColdBucket, q

\* Kickout splits the bucket: slot 1 to the head of the other bucket, the rest
\* closes up; the other bucket gives up its last entry.
LEMMA KickRetains ==
    ASSUME BucketsOK, TagsOK, NEW f \in Flows, NEW x \in Arrays, NEW m \in Slots,
           Bucket_Equal(Probe(Context(f), x), m, Context(f).fp),
           NEW b, NEW t, NEW n,
           b = ColdBucket(Context(f), x, m),
           t = KickTarget(Context(f), x, b[1]),
           n = buckets[1 - x][t],
           b[1].count > n[0].count,
           buckets' = Put(Put(buckets, 1 - x, t, [Bucket_down_stairs(n, 0) EXCEPT ![0] = b[1]]),
                          x, Context(f).keys[x], Bucket_Remove(b, 1)),
           NEW a \in Arrays, NEW j \in Indices, NEW i \in Slots, buckets[a][j][i].count > 0
    PROVE  Retained(a, j, i)
  <1> DEFINE y == Context(f).keys[x]
             h == [Bucket_down_stairs(n, 0) EXCEPT ![0] = b[1]]
             r == Bucket_Remove(b, 1)
  <1>1. /\ 1 \in Slots /\ 0 \in Slots /\ 1 - x \in Arrays /\ 1 - x # x
        /\ MAX_ENTRY \in Nat /\ MAX_ENTRY - 1 # 0
        /\ \A k \in Slots : k \in Nat /\ k <= MAX_ENTRY - 1
        /\ \A k \in Slots : k < MAX_ENTRY - 1 => k + 1 \in Slots
        /\ \A k \in Slots : k > 1 => k - 1 \in Slots
    BY SizeAssumption DEF Slots, Arrays
  <1>2. b \in Bucket /\ y \in Indices /\ Probe(Context(f), x) = buckets[x][y]
    BY ColdBucketHolds, ContextType DEF Probe
  <1>3. t \in Indices
    <2>1. b[1].fingerprint \in Nat
      BY <1>1, <1>2 DEF Bucket, Entry
    <2> QED
      BY <2>1, KickTargetType
  <1>4. n \in Bucket
    BY <1>1, <1>3 DEF BucketsOK
  <1>5. /\ h[0] = b[1] /\ \A k \in Slots : k < MAX_ENTRY - 1 => h[k + 1] = n[k]
    <2>1. h[0] = b[1]
      BY <1>1 DEF Bucket_down_stairs
    <2>2. ASSUME NEW k \in Slots, k < MAX_ENTRY - 1
          PROVE  h[k + 1] = n[k]
      <3>1. k + 1 \in Slots /\ k + 1 # 0 /\ k + 1 > 0 /\ (k + 1) - 1 = k
        BY <1>1, <2>2
      <3> QED
        BY <3>1 DEF Bucket_down_stairs
    <2> QED
      BY <2>1, <2>2
  <1>6. /\ r[0] = b[0] /\ \A k \in Slots : k > 1 => r[k - 1] = b[k]
    <2>1. r[0] = b[0]
      BY <1>1 DEF Bucket_Remove
    <2>2. ASSUME NEW k \in Slots, k > 1
          PROVE  r[k - 1] = b[k]
      <3>1. k - 1 \in Slots /\ k - 1 # MAX_ENTRY - 1 /\ k - 1 >= 1 /\ (k - 1) + 1 = k
        BY <1>1, <2>2
      <3> QED
        BY <3>1 DEF Bucket_Remove
    <2> QED
      BY <2>1, <2>2
  <1>7. /\ buckets'[x][y] = r
        /\ buckets'[1 - x][t] = h
        /\ ~(a = x /\ j = y) /\ ~(a = 1 - x /\ j = t) => buckets'[a][j] = buckets[a][j]
    <2>1. buckets' = Put(Put(buckets, 1 - x, t, h), x, y, r)
      OBVIOUS
    <2> HIDE DEF h, r, y
    <2> QED
      BY <1>1, <1>2, <1>3, <2>1 DEF Put, BucketsOK
  <1> HIDE DEF h, r
  <1>8. CASE a = x /\ j = y
    <2>1. PICK k \in Slots : Keeps(buckets[a][j][i], b[k])
      BY <1>2, <1>8, ColdBucketKeeps
    <2>2. CASE k = 0
      <3>1. Keeps(buckets[a][j][i], buckets'[x][y][0])
        BY <1>6, <1>7, <2>1, <2>2
      <3> QED
        BY <1>1, <1>2, <3>1, StaysAt DEF Retained
    <2>3. CASE k = 1
      <3>1. Keeps(buckets[a][j][i], buckets'[1 - x][t][0])
        BY <1>5, <1>7, <2>1, <2>3
      <3> QED
        BY <1>1, <1>3, <3>1, StaysAt DEF Retained
    <2>4. CASE k > 1
      <3>1. k - 1 \in Slots /\ Keeps(buckets[a][j][i], buckets'[x][y][k - 1])
        BY <1>1, <1>6, <1>7, <2>1, <2>4
      <3> QED
        BY <1>2, <3>1, StaysAt DEF Retained
    <2> QED
      BY <1>1, <2>2, <2>3, <2>4
  <1>9. CASE a = 1 - x /\ j = t
    <2>1. CASE i = MAX_ENTRY - 1
      <3>1. buckets'[a][j][0].count > buckets[a][j][0].count
        BY <1>5, <1>7, <1>9
      <3> QED
        BY <2>1, <3>1 DEF Retained
    <2>2. CASE i # MAX_ENTRY - 1
      <3>1. i + 1 \in Slots /\ buckets'[a][j][i + 1] = buckets[a][j][i]
        BY <1>1, <1>5, <1>7, <1>9, <2>2
      <3>2. buckets[a][j][i] \in Entry
        BY DEF BucketsOK, Bucket
      <3>3. Keeps(buckets[a][j][i], buckets'[a][j][i + 1])
        BY <3>1, <3>2, KeepsItself
      <3> QED
        BY <3>1, <3>3, StaysAt DEF Retained
    <2> QED
      BY <2>1, <2>2
  <1>10. CASE ~(a = x /\ j = y) /\ ~(a = 1 - x /\ j = t)
    BY <1>7, <1>10, UntouchedStays DEF Retained
  <1> QED
    BY <1>8, <1>9, <1>10

\* A hit further down loses at most the tail of the bucket kicked into.
LEMMA ColdHitRetains ==
    ASSUME BucketsOK, TagsOK, NEW f \in Flows, NEW x \in Arrays, NEW m \in Slots,
           ColdHit(Context(f), x, m),
           NEW a \in Arrays, NEW j \in Indices, NEW i \in Slots, buckets[a][j][i].count > 0
    PROVE  Retained(a, j, i)
  <1> DEFINE c == Context(f)
             b == ColdBucket(c, x, m)
             t == KickTarget(c, x, b[1])
             n == buckets[1 - x][t]
             y == c.keys[x]
             Kicked == buckets' = [buckets EXCEPT
                     ![1 - x][t] = [Bucket_down_stairs(n, 0) EXCEPT ![0] = b[1]],
                     ![x][y] = Bucket_Remove(b, 1)]
  <1>1. /\ Bucket_Equal(Probe(c, x), m, c.fp)
        /\ \/ buckets' = [buckets EXCEPT ![x][y] = b]
           \/ b[1].count > n[0].count /\ Kicked
    BY ColdHitShape
  <1>2. CASE buckets' = [buckets EXCEPT ![x][y] = b]
    <2>1. y \in Indices /\ Probe(c, x) = buckets[x][y]
      BY ContextType DEF Probe
    <2>2. CASE a = x /\ j = y
      <3>1. PICK k \in Slots : Keeps(buckets[a][j][i], b[k])
        BY <2>1, <2>2, ColdBucketKeeps
      <3> HIDE DEF b, y
      <3>2. buckets'[x][y] = b
        BY <1>2, <2>1 DEF BucketsOK
      <3> QED
        BY <2>1, <3>1, <3>2, StaysAt DEF Retained
    <2>3. CASE ~(a = x /\ j = y)
      <3> HIDE DEF b, y
      <3>1. buckets'[a][j] = buckets[a][j]
        BY <1>2, <2>1, <2>3 DEF BucketsOK
      <3> QED
        BY <3>1, UntouchedStays DEF Retained
    <2> QED
      BY <2>2, <2>3
  <1>3. CASE b[1].count > n[0].count /\ Kicked
    <2>1. buckets' = Put(Put(buckets, 1 - x, t, [Bucket_down_stairs(n, 0) EXCEPT ![0] = b[1]]),
                         x, y, Bucket_Remove(b, 1))
      BY <1>3 DEF Put
    <2> HIDE DEF b, t, n
    <2> QED
      BY <1>1, <1>3, <2>1, KickRetains DEF b, t, n
  <1> QED
    BY <1>1, <1>2, <1>3

\* A counter is lost only from the tail of its bucket, to decay or to a larger
\* one kicked in at the head; every other is somewhere afterwards, uncut.
THEOREM CountersAreRetained == Spec => Retention
  <1> DEFINE Kept == \A a \in Arrays, j \in Indices, i \in Slots :
                         buckets[a][j][i].count > 0 => Retained(a, j, i)
  <1>1. IInv /\ [Next]_vars => [Kept]_vars
    <2> SUFFICES ASSUME IInv, Next,
                        NEW a \in Arrays, NEW j \in Indices, NEW i \in Slots,
                        buckets[a][j][i].count > 0
                 PROVE  Retained(a, j, i)
      OBVIOUS
    <2>1. BucketsOK /\ TagsOK
      BY DEF IInv, TypeOK, BucketsOK, TagsOK, Identity
    <2>2. PICK f \in Flows : BubbleSketch_Insert(Context(f))
      BY DEF Next, xdp_collect_5tuple
    <2> QED
      BY <2>1, <2>2, HotHitRetains, FillRetains, ColdHitRetains, LossyRetains
         DEF BubbleSketch_Insert, Retained
  <1>2. Retention <=> [][Kept]_vars
    BY DEF Retention, Retained, Stays
  <1> HIDE DEF Kept
  <1> QED
    BY IInvInvariant, <1>1, <1>2, PTL DEF Spec
=============================================================================
