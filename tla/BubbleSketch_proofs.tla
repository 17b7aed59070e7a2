------------------------ MODULE BubbleSketch_proofs ------------------------
(***************************************************************************)
(* Facts about the operators of BubbleSketch that every variant's proofs   *)
(* rest on: hashing, kickout's target, sorting and the threshold.          *)
(***************************************************************************)
EXTENDS BubbleSketch, IntegerFacts

-----------------------------------------------------------------------------
(* Hashing: the two buckets of a flow, and where kickout sends an entry.   *)

\* The context of a flow is well-typed and its keys are bucket indices.
LEMMA ContextType ==
    ASSUME NEW f \in Flows
    PROVE  /\ Context(f).key = f
           /\ Context(f).fp \in Nat
           /\ Tag(Context(f).fp) \in Nat
           /\ \A a \in Arrays : /\ Context(f).hash_value[a] \in Int
                                /\ Context(f).keys[a] \in Indices
  <1> DEFINE fp == Hash[f] \div FP_UNIT
  <1>1. Hash[f] \in Nat /\ FP_UNIT \in Nat \ {0} /\ TAG_UNIT \in Nat \ {0}
    BY HashAssumption
  <1>2. fp \in Nat
    BY <1>1, DivNat
  <1>3. Tag(fp) \in Nat
    BY <1>1, <1>2, DivNat DEF Tag
  <1>4. ASSUME NEW a \in Arrays
        PROVE  LET h == (Hash[f] + a * Tag(fp)) % HASH_SPACE
               IN  h \in Int /\ h % MAX_BUCKETS \in Indices
    <2>1. Hash[f] + a * Tag(fp) \in Int
      BY <1>1, <1>3 DEF Arrays
    <2>2. (Hash[f] + a * Tag(fp)) % HASH_SPACE \in 0 .. HASH_SPACE - 1
      BY <2>1, HashAssumption, DivMod, Zenon
    <2>3. (Hash[f] + a * Tag(fp)) % HASH_SPACE \in Int
      BY <2>2, HashAssumption
    <2> QED
      BY <2>3, SizeAssumption, DivMod, Zenon DEF Indices
  <1> HIDE DEF fp
  <1>5. Context(f) = [key |-> f, fp |-> fp,
            hash_value |-> [a \in Arrays |-> (Hash[f] + a * Tag(fp)) % HASH_SPACE],
            keys |-> [a \in Arrays |-> ((Hash[f] + a * Tag(fp)) % HASH_SPACE) % MAX_BUCKETS]]
    BY Zenon DEF Context, fp
  <1> QED
    BY <1>2, <1>3, <1>4, <1>5

\* The hash values of a flow, and its keys, without wraparound.
LEMMA KeysOfHash ==
    ASSUME HASH_SPACE % MAX_BUCKETS = 0,
           NEW f \in Flows
    PROVE  LET c == Context(f) IN
           /\ c.keys[0] = Hash[f] % MAX_BUCKETS
           /\ c.keys[1] = (Hash[f] + Tag(c.fp)) % MAX_BUCKETS
           /\ \A a \in Arrays : c.keys[a] = c.hash_value[a] % MAX_BUCKETS
  <1> DEFINE t == Tag(Context(f).fp)
  <1>1. Hash[f] \in Int /\ t \in Nat
    BY HashAssumption, ContextType
  <1>2. /\ Context(f).hash_value[0] = (Hash[f] + 0 * t) % HASH_SPACE
        /\ Context(f).hash_value[1] = (Hash[f] + 1 * t) % HASH_SPACE
        /\ \A a \in Arrays :
              Context(f).keys[a] = Context(f).hash_value[a] % MAX_BUCKETS
    BY DEF Context, Arrays
  <1> HIDE DEF t
  <1>3. Hash[f] + 0 * t = Hash[f] /\ Hash[f] + 1 * t = Hash[f] + t /\ Hash[f] + t \in Int
    BY <1>1
  <1>4. /\ (Hash[f] % HASH_SPACE) % MAX_BUCKETS = Hash[f] % MAX_BUCKETS
        /\ ((Hash[f] + t) % HASH_SPACE) % MAX_BUCKETS = (Hash[f] + t) % MAX_BUCKETS
    BY <1>1, <1>3, ModMod, HashAssumption, SizeAssumption, ZenonT(40)
  <1>5. 0 \in Arrays /\ 1 \in Arrays
    BY DEF Arrays
  <1>6. Context(f).keys[0] = Hash[f] % MAX_BUCKETS
    BY <1>2, <1>3, <1>4, <1>5, Zenon
  <1>7. Context(f).keys[1] = (Hash[f] + t) % MAX_BUCKETS
    BY <1>2, <1>3, <1>4, <1>5, Zenon
  <1> QED
    BY <1>2, <1>6, <1>7, Zenon DEF t

\* Kickout lands in the other bucket of whatever flow g the entry belongs to,
\* although it starts from the hash of the packet's flow f.
LEMMA KickLands ==
    ASSUME HASH_SPACE % MAX_BUCKETS = 0,
           NEW f \in Flows, NEW g \in Flows, NEW a \in Arrays, NEW e,
           e.fingerprint = Tag(Context(g).fp),
           Context(f).keys[a] = Context(g).keys[a]
    PROVE  KickTarget(Context(f), a, e) = Context(g).keys[1 - a]
  <1> DEFINE t == Tag(Context(g).fp)
             p == IF a = 0 THEN t ELSE -t
             h == Context(f).hash_value[a]
             k == Context(g).keys[1 - a]
             x == IF a = 0 THEN Hash[g] ELSE Hash[g] + t
  <1>1. /\ t \in Nat /\ p \in Int /\ h \in Int /\ x \in Int /\ h + p \in Int
        /\ Hash[g] \in Int
    BY ContextType, HashAssumption
  <1>2. KickTarget(Context(f), a, e) = ((h + p) % HASH_SPACE) % MAX_BUCKETS
    BY DEF KickTarget
  <1>3. h % MAX_BUCKETS = x % MAX_BUCKETS
    <2>1. h % MAX_BUCKETS = Context(g).keys[a]
      BY KeysOfHash
    <2>2. Context(g).keys[a] = x % MAX_BUCKETS
      BY KeysOfHash DEF Arrays
    <2> QED
      BY <2>1, <2>2
  <1>4. k = (x + p) % MAX_BUCKETS
    <2>1. CASE a = 0
      BY <2>1, KeysOfHash, <1>1
    <2>2. CASE a = 1
      <3>1. x + p = Hash[g] /\ 1 - a = 0
        BY <1>1, <2>2
      <3> QED
        BY <3>1, KeysOfHash
    <2> QED
      BY <2>1, <2>2 DEF Arrays
  <1> HIDE DEF p, h, k, x
  <1>5. (h + p) % MAX_BUCKETS = (x + p) % MAX_BUCKETS
    <2>1. h \in Int /\ x \in Int /\ p \in Int /\ MAX_BUCKETS \in Nat \ {0}
      BY <1>1, SizeAssumption
    <2> QED
      BY <1>3, <2>1, ModAdd, ZenonT(40)
  <1>6. ((h + p) % HASH_SPACE) % MAX_BUCKETS = (h + p) % MAX_BUCKETS
    BY <1>1, ModMod, HashAssumption, SizeAssumption, ZenonT(40)
  <1> QED
    BY <1>2, <1>4, <1>5, <1>6 DEF k

\* Two flows of one fingerprint that share a bucket share both buckets.
LEMMA SameKeys ==
    ASSUME HASH_SPACE % MAX_BUCKETS = 0,
           NEW f \in Flows, NEW g \in Flows, NEW a \in Arrays,
           Tag(Context(f).fp) = Tag(Context(g).fp),
           Context(f).keys[a] = Context(g).keys[a]
    PROVE  Context(f).keys[0] = Context(g).keys[0]
  <1> DEFINE e == [fingerprint |-> Tag(Context(f).fp)]
  <1>1. CASE a = 0
    BY <1>1
  <1>2. CASE a = 1
    <2>1. /\ KickTarget(Context(f), a, e) = Context(g).keys[1 - a]
          /\ KickTarget(Context(f), a, e) = Context(f).keys[1 - a]
      BY KickLands
    <2> QED
      BY <1>2, <2>1
  <1> QED
    BY <1>1, <1>2 DEF Arrays

\* Wherever kickout sends an entry, the bucket exists.
LEMMA KickTargetType ==
    ASSUME NEW f \in Flows, NEW a \in Arrays, NEW e, e.fingerprint \in Nat
    PROVE  KickTarget(Context(f), a, e) \in Indices
  <1> DEFINE s == Context(f).hash_value[a] + (IF a = 0 THEN e.fingerprint ELSE -e.fingerprint)
             w == s % HASH_SPACE
  <1>1. s \in Int
    BY ContextType
  <1> HIDE DEF s
  <1>2. w \in 0 .. HASH_SPACE - 1
    BY <1>1, HashAssumption, DivMod
  <1>3. w \in Int
    BY <1>2, HashAssumption
  <1> HIDE DEF w
  <1>4. w % MAX_BUCKETS \in Indices
    BY <1>3, SizeAssumption, DivMod DEF Indices
  <1> QED
    BY <1>4 DEF KickTarget, w, s

-----------------------------------------------------------------------------
(* Sorting and the threshold.                                              *)

\* Sorting puts in every slot its own entry, the one that moves, or the one
\* before; the entry that moves to slot 0 was above it.
LEMMA SortPicks ==
    ASSUME NEW b, NEW i \in Slots, \A k \in Slots : b[k].count \in Nat
    PROVE  /\ \A k \in Slots : \E m \in Slots : Bucket_BucketSort(b, i)[k] = b[m]
           /\ \/ Bucket_BucketSort(b, i)[0] = b[0]
              \/ /\ Bucket_BucketSort(b, i)[0] = b[i]
                 /\ b[0].count < b[i].count
  <1> DEFINE s == Bucket_BucketSort(b, i)
  <1>1. ASSUME NEW k \in Slots
        PROVE  s[k] \in {b[k], b[i]} \/ (k # 0 /\ s[k] = b[k - 1])
    BY DEF Bucket_BucketSort
  <1>2. 0 \in Slots /\ \A k \in Slots : k # 0 => k - 1 \in Slots
    BY SizeAssumption DEF Slots
  <1>3. s[0] = b[0] \/ (s[0] = b[i] /\ (i = 0 \/ b[0].count < b[i].count))
    BY <1>2 DEF Bucket_BucketSort, Slots
  <1> QED
    BY <1>1, <1>2, <1>3

\* An entry that exceeds slot 0, which no other does, moves to slot 0.
LEMMA SortRaises ==
    ASSUME NEW b, NEW i \in Slots, \A k \in Slots : b[k].count \in Nat,
           \A k \in Slots \ {i} : b[k].count <= b[0].count,
           b[i].count > b[0].count
    PROVE  Bucket_BucketSort(b, i)[0] = b[i]
  <1>1. 0 \in Slots /\ i >= 0 /\ \A r \in 0 .. i - 1 : r \in Slots \ {i}
    BY SizeAssumption DEF Slots
  <1>2. \A r \in 0 .. i - 1 : b[r].count < b[i].count
    BY <1>1
  <1>3. ~(0 > i) /\ i \in Int
    BY <1>1 DEF Slots
  <1>4. Bucket_BucketSort(b, i)[0] =
            IF 0 > i \/ ~(\A r \in 0 .. i - 1 : b[r].count < b[i].count) THEN b[0] ELSE b[i]
    BY <1>1, Zenon DEF Bucket_BucketSort
  <1> QED
    BY <1>2, <1>3, <1>4

\* A larger count never justifies a lower threshold.
LEMMA ThresholdMono ==
    ASSUME NEW x \in Nat, NEW y \in Nat, x <= y
    PROVE  /\ calculate_threshold(x) \in Nat
           /\ calculate_threshold(x) <= calculate_threshold(y)
  <1>1. CASE K = 0
    BY <1>1 DEF calculate_threshold
  <1>2. CASE K # 0
    <2>1. /\ 2 * K \in Nat \ {0}
          /\ 3 * x \in Nat /\ 3 * x \in Int /\ 3 * y \in Int /\ 3 * x <= 3 * y
      BY <1>2, CountAssumption
    <2>2. (3 * x) \div (2 * K) \in Nat
      BY <2>1, DivNat, Zenon
    <2>3. (3 * x) \div (2 * K) <= (3 * y) \div (2 * K)
      BY <2>1, DivMono, Zenon
    <2> QED
      BY <1>2, <2>2, <2>3 DEF calculate_threshold
  <1> QED
    BY <1>1, <1>2

-----------------------------------------------------------------------------
(* Buckets: what the bucket operations return, and that they keep the      *)
(* order of the counts.                                                    *)

\* Counting, taking and decaying an entry yield entries.
LEMMA EntryTypes ==
    /\ Entry_init \in Entry
    /\ \A e \in Entry : Entry_Insert(e) \in Entry /\ Entry_Lossy(e) \in Entry
    /\ \A f \in Flows : Entry_Insert_with(Context(f)) \in Entry
  <1>1. ASSUME NEW f \in Flows
        PROVE  Entry_Insert_with(Context(f)) \in Entry
    <2>1. /\ Context(f).key = f
          /\ Context(f).fp \in Nat
          /\ Tag(Context(f).fp) \in Nat
          /\ 1 \in 0 .. COUNT_MAX
      BY ContextType, CountAssumption
    <2> QED
      BY <2>1 DEF Entry_Insert_with, Entry
  <1> QED
    BY <1>1, CountAssumption DEF Entry_init, Entry, Entry_Insert, Entry_Lossy

\* Sorting rearranges a bucket: every slot holds one of its entries, and slot
\* 0 does not fall.
LEMMA SortRearranges ==
    ASSUME NEW b \in Bucket, NEW i \in Slots
    PROVE  /\ Bucket_BucketSort(b, i) \in Bucket
           /\ \A k \in Slots : \E m \in Slots : Bucket_BucketSort(b, i)[k] = b[m]
           /\ Bucket_BucketSort(b, i)[0].count >= b[0].count
  <1> DEFINE s == Bucket_BucketSort(b, i)
  <1>1. ASSUME NEW k \in Slots
        PROVE  s[k] \in {b[k], b[i]} \/ (k # 0 /\ s[k] = b[k - 1])
    BY DEF Bucket_BucketSort
  <1>2. \A k \in Slots : k # 0 => k - 1 \in Slots
    BY SizeAssumption DEF Slots
  <1>3. \A k \in Slots : \E m \in Slots : s[k] = b[m]
    BY <1>1, <1>2
  <1>4. s = [k \in Slots |-> s[k]]
    BY DEF Bucket_BucketSort
  <1>5. s \in Bucket
    <2> HIDE DEF s
    <2> QED
      BY <1>3, <1>4 DEF Bucket
  <1>6. s[0].count >= b[0].count
    <2>1. 0 \in Slots /\ \A k \in Slots : b[k].count \in Nat
      BY SizeAssumption, CountAssumption DEF Slots, Bucket, Entry
    <2>2. s[0] = b[0] \/ (s[0] = b[i] /\ 0 <= i /\ \A r \in 0 .. i - 1 : b[r].count < b[i].count)
      BY <2>1 DEF Bucket_BucketSort, Slots
    <2>3. CASE i = 0
      BY <2>1, <2>2, <2>3
    <2>4. CASE i > 0
      BY <2>1, <2>2, <2>4 DEF Slots
    <2> QED
      BY <2>3, <2>4 DEF Slots
  <1> QED
    BY <1>3, <1>5, <1>6

\* Removing a cold entry leaves slot 0 alone and brings in no entry but an
\* initial one.
LEMMA RemoveKeeps ==
    ASSUME NEW b \in Bucket
    PROVE  /\ Bucket_Remove(b, 1) \in Bucket
           /\ Bucket_Remove(b, 1)[0] = b[0]
           /\ \A k \in Slots : \/ Bucket_Remove(b, 1)[k] = Entry_init
                               \/ \E m \in Slots : Bucket_Remove(b, 1)[k] = b[m]
  <1>1. Entry_init \in Entry
    BY CountAssumption DEF Entry_init, Entry
  <1>2. \A k \in Slots : k # MAX_ENTRY - 1 => k + 1 \in Slots
    BY SizeAssumption DEF Slots
  <1>3. 0 \in Slots /\ 0 # MAX_ENTRY - 1
    BY SizeAssumption DEF Slots
  <1>4. \A k \in Slots : \/ Bucket_Remove(b, 1)[k] = Entry_init
                         \/ \E m \in Slots : Bucket_Remove(b, 1)[k] = b[m]
    BY <1>2 DEF Bucket_Remove
  <1>5. Bucket_Remove(b, 1) \in Bucket
    BY <1>1, <1>2 DEF Bucket_Remove, Bucket
  <1> QED
    BY <1>3, <1>4, <1>5 DEF Bucket_Remove

\* Making room at the head and filling it with e keeps e and old entries only.
LEMMA PushKeeps ==
    ASSUME NEW b \in Bucket, NEW e \in Entry
    PROVE  LET p == [Bucket_down_stairs(b, 0) EXCEPT ![0] = e]
           IN  /\ p \in Bucket
               /\ p[0] = e
               /\ \A k \in Slots : p[k] = e \/ \E m \in Slots : p[k] = b[m]
  <1>1. 0 \in Slots /\ \A k \in Slots : k > 0 => k - 1 \in Slots
    BY SizeAssumption DEF Slots
  <1> QED
    BY <1>1 DEF Bucket_down_stairs, Bucket

\* Counts are numbers, so order can be reasoned about.
LEMMA BucketCounts ==
    ASSUME NEW b \in Bucket
    PROVE  \A k \in Slots : b[k].count \in Nat /\ b[k].count <= COUNT_MAX
  BY CountAssumption DEF Bucket, Entry

Descending(b) == \A k \in Slots \ {0} : b[k].count <= b[k - 1].count

\* One comparison pass from the slot just counted restores the order.
LEMMA SortSorts ==
    ASSUME NEW b \in Bucket, NEW i \in Slots, i > 0, Descending(b)
    PROVE  Descending(Bucket_BucketSort([b EXCEPT ![i] = Entry_Insert(@)], i))
  <1> DEFINE q == [b EXCEPT ![i] = Entry_Insert(@)]
             s == Bucket_BucketSort(q, i)
             Passes(k) == \A r \in k .. i - 1 : q[r].count < q[i].count
  <1>1. /\ q \in Bucket
        /\ \A k \in Slots : q[k].count \in Nat /\ b[k].count \in Nat
        /\ \A k \in Slots : k # i => q[k] = b[k]
        /\ q[i].count >= b[i].count
    <2>1. b[i] \in Entry /\ Entry_Insert(b[i]) \in Entry
      BY EntryTypes DEF Bucket
    <2>2. q \in Bucket
      BY <2>1 DEF Bucket
    <2>3. Entry_Insert(b[i]).count >= b[i].count
      BY <2>1, CountAssumption DEF Entry_Insert, Entry
    <2> QED
      BY <2>2, <2>3, BucketCounts DEF Bucket
  <1>2. \A k \in Slots : k # 0 => k \in Int /\ k - 1 \in Slots /\ b[k].count <= b[k - 1].count
    BY SizeAssumption DEF Slots, Descending
  <1>3. ASSUME NEW k \in Slots
        PROVE  s[k] = IF k > i \/ ~Passes(k) THEN q[k]
                      ELSE IF k = 0 \/ ~Passes(k - 1) THEN q[i]
                      ELSE q[k - 1]
    BY DEF Bucket_BucketSort
  <1> SUFFICES ASSUME NEW k \in Slots, k # 0
               PROVE  s[k].count <= s[k - 1].count
    BY DEF Descending
  <1>4. k \in Int /\ i \in Int /\ k - 1 \in Slots /\ k > 0
    BY <1>2 DEF Slots
  <1> HIDE DEF q, s
  <1>5. CASE k > i
    <2>1. s[k] = b[k]
      BY <1>1, <1>3, <1>4, <1>5
    <2>2. CASE k - 1 > i
      BY <1>1, <1>2, <1>3, <1>4, <2>1, <2>2
    <2>3. CASE k - 1 = i
      <3>1. s[i] = q[i] \/ (s[i] = q[i - 1] /\ i - 1 \in Slots)
        BY <1>2, <1>3
      <3>2. CASE s[i] = q[i]
        BY <1>1, <1>2, <1>4, <2>1, <2>3, <3>2
      <3>3. CASE s[i] = q[i - 1] /\ i - 1 \in Slots
        <4>1. q[i - 1] = b[i - 1] /\ b[i].count <= b[i - 1].count
          BY <1>1, <1>2, <1>4, <3>3
        <4>2. b[k].count <= b[i].count
          BY <1>2, <2>3
        <4> QED
          BY <1>1, <2>1, <2>3, <3>3, <4>1, <4>2
      <3> QED
        BY <3>1, <3>2, <3>3
    <2> QED
      BY <1>4, <1>5, <2>2, <2>3
  <1>6. CASE k <= i /\ ~Passes(k)
    <2>1. k < i /\ ~Passes(k - 1)
      BY <1>4, <1>6
    <2>2. s[k] = b[k] /\ s[k - 1] = b[k - 1]
      BY <1>1, <1>3, <1>4, <1>6, <2>1
    <2> QED
      BY <1>2, <2>2
  <1>7. CASE k <= i /\ Passes(k) /\ ~Passes(k - 1)
    <2>1. s[k] = q[i] /\ s[k - 1] = q[k - 1]
      BY <1>3, <1>4, <1>7
    <2>2. ~(q[k - 1].count < q[i].count)
      BY <1>4, <1>7
    <2> QED
      BY <1>1, <1>4, <2>1, <2>2
  <1>8. CASE k <= i /\ Passes(k) /\ Passes(k - 1)
    <2>1. s[k] = q[k - 1] /\ q[k - 1].count < q[i].count
      BY <1>3, <1>4, <1>8
    <2>2. s[k - 1] = q[i] \/ (k - 1 # 0 /\ s[k - 1] = q[k - 2])
      BY <1>3, <1>4, <1>8
    <2>3. CASE s[k - 1] = q[i]
      BY <1>1, <1>4, <2>1, <2>3
    <2>4. CASE k - 1 # 0 /\ s[k - 1] = q[k - 2]
      BY <1>1, <1>2, <1>4, <1>8, <2>1, <2>4
    <2> QED
      BY <2>2, <2>3, <2>4
  <1> QED
    BY <1>4, <1>5, <1>6, <1>7, <1>8

\* Closing the gap a promoted entry leaves keeps the order.
LEMMA RemoveSorts ==
    ASSUME NEW b \in Bucket, Descending(b)
    PROVE  Descending(Bucket_Remove(b, 1))
  <1>1. \A k \in Slots : k # 0 => k \in Int /\ k - 1 \in Slots
    BY SizeAssumption DEF Slots
  <1>2. \A k \in Slots : k # MAX_ENTRY - 1 => k + 1 \in Slots
    BY SizeAssumption DEF Slots
  <1>3. \A k \in Slots : b[k].count \in Nat
    BY BucketCounts
  <1> SUFFICES ASSUME NEW k \in Slots, k # 0
               PROVE  Bucket_Remove(b, 1)[k].count <= Bucket_Remove(b, 1)[k - 1].count
    BY DEF Descending
  <1>4. /\ k \in 1 .. MAX_ENTRY - 1 /\ k - 1 \in Slots
        /\ k < MAX_ENTRY - 1 => (k + 1) - 1 = k /\ k + 1 \in Slots /\ k + 1 # 0
    BY <1>1, <1>2, SizeAssumption DEF Slots
  <1>5. CASE k = MAX_ENTRY - 1
    <2>1. Bucket_Remove(b, 1)[k].count = 0
      BY <1>5 DEF Bucket_Remove, Entry_init
    <2>2. Bucket_Remove(b, 1)[k - 1] \in {b[k - 1], b[k]}
      BY <1>4, <1>5, SizeAssumption DEF Bucket_Remove
    <2> QED
      BY <1>3, <1>4, <2>1, <2>2
  <1>6. CASE k < MAX_ENTRY - 1
    <2>1. Bucket_Remove(b, 1)[k] = b[k + 1] /\ b[k + 1].count <= b[k].count
      BY <1>4, <1>6, SizeAssumption DEF Bucket_Remove, Descending
    <2>2. Bucket_Remove(b, 1)[k - 1] = b[k] \/ Bucket_Remove(b, 1)[k - 1] = b[k - 1]
      BY <1>4, <1>6, SizeAssumption DEF Bucket_Remove
    <2>3. b[k].count <= b[k - 1].count
      BY DEF Descending
    <2> QED
      BY <1>3, <1>4, <1>6, <2>1, <2>2, <2>3
  <1> QED
    BY <1>4, <1>5, <1>6, SizeAssumption

\* A larger entry at the head keeps the order of what it pushes down.
LEMMA PushSorts ==
    ASSUME NEW b \in Bucket, Descending(b), NEW e \in Entry, e.count > b[0].count
    PROVE  Descending([Bucket_down_stairs(b, 0) EXCEPT ![0] = e])
  <1>1. \A k \in Slots : k # 0 => k \in Int /\ k > 0 /\ k - 1 \in Slots
    BY SizeAssumption DEF Slots
  <1>2. 0 \in Slots /\ e.count \in Nat /\ \A k \in Slots : b[k].count \in Nat
    BY BucketCounts, SizeAssumption, CountAssumption DEF Slots, Entry
  <1> SUFFICES ASSUME NEW k \in Slots, k # 0
               PROVE  LET p == [Bucket_down_stairs(b, 0) EXCEPT ![0] = e]
                      IN  p[k].count <= p[k - 1].count
    BY DEF Descending
  <1>3. k \in Int /\ k > 0 /\ k - 1 \in Slots
    BY <1>1
  <1> DEFINE p == [Bucket_down_stairs(b, 0) EXCEPT ![0] = e]
  <1>4. p[k] = b[k - 1] /\ p[0] = e
    BY <1>2, <1>3 DEF Bucket_down_stairs
  <1>5. CASE k - 1 = 0
    BY <1>2, <1>3, <1>4, <1>5
  <1>6. CASE k - 1 # 0
    <2>1. p[k - 1] = b[(k - 1) - 1] /\ b[k - 1].count <= b[(k - 1) - 1].count
      BY <1>3, <1>6 DEF Bucket_down_stairs, Descending
    <2> QED
      BY <1>4, <2>1
  <1> QED
    BY <1>5, <1>6

-----------------------------------------------------------------------------
(* Sums: what a bucket holds for a fingerprint before and after each of    *)
(* its operations.                                                         *)

Parts(b, t) == [i \in Slots |-> Part(b[i], t)]

\* What a bucket holds is a number, and no slot holds more.
LEMMA HeldType ==
    ASSUME NEW b \in Bucket, NEW t
    PROVE  /\ Held(b, t) \in Nat
           /\ \A i \in Slots : Part(b[i], t) \in Nat /\ Parts(b, t)[i] = Part(b[i], t)
           /\ IsFiniteSet(Slots)
           /\ Held(b, t) = SumFunctionOnSet(Parts(b, t), Slots)
  <1>1. \A i \in Slots : Part(b[i], t) \in Nat /\ Parts(b, t)[i] = Part(b[i], t)
    BY BucketCounts DEF Part, Parts
  <1>2. IsFiniteSet(Slots)
    BY FS_Interval, SizeAssumption DEF Slots
  <1>3. Held(b, t) = SumFunctionOnSet(Parts(b, t), Slots)
    BY DEF Held, Parts
  <1>4. SumFunctionOnSet(Parts(b, t), Slots) \in Nat
    BY <1>1, <1>2, SumType
  <1> QED
    BY <1>1, <1>2, <1>3, <1>4

\* Replacing one entry changes the sum by the difference of the two.
LEMMA HeldPut ==
    ASSUME NEW b \in Bucket, NEW i \in Slots, NEW e \in Entry, NEW t
    PROVE  LET n == [b EXCEPT ![i] = e]
           IN  n \in Bucket /\ Held(n, t) = Held(b, t) + Part(e, t) - Part(b[i], t)
  <1> DEFINE n == [b EXCEPT ![i] = e]
  <1>1. n \in Bucket /\ n[i] = e /\ \A k \in Slots \ {i} : n[k] = b[k]
    BY DEF Bucket
  <1> HIDE DEF n
  <1>2. \A k \in Slots : Parts(b, t)[k] \in Int /\ Parts(n, t)[k] \in Int
    BY <1>1, HeldType
  <1>3. \A k \in Slots \ {i} : Parts(b, t)[k] = Parts(n, t)[k]
    BY <1>1 DEF Parts
  <1>4. /\ IsFiniteSet(Slots)
        /\ Held(b, t) = SumFunctionOnSet(Parts(b, t), Slots)
        /\ Held(n, t) = SumFunctionOnSet(Parts(n, t), Slots)
        /\ Parts(b, t)[i] = Part(b[i], t) /\ Parts(n, t)[i] = Part(e, t)
    BY <1>1, HeldType
  <1>5. DifferAt(Parts(b, t), Parts(n, t), Slots, i)
    BY <1>2, <1>3, <1>4 DEF DifferAt
  <1>6. SumFunctionOnSet(Parts(n, t), Slots)
            = SumFunctionOnSet(Parts(b, t), Slots) + Parts(n, t)[i] - Parts(b, t)[i]
    BY <1>5, SumChange
  <1> QED
    BY <1>1, <1>4, <1>6 DEF n

\* Sorting moves the entry of slot i up to a slot q, and those between down by
\* one: it loses none.
Moved(b, s, q, i) ==
    /\ q \in 0 .. i /\ q \in Slots
    /\ s[q] = b[i]
    /\ \A k \in Slots : k < q \/ k > i => s[k] = b[k]
    /\ \A k \in q + 1 .. i : k \in Slots /\ k - 1 \in Slots /\ s[k] = b[k - 1]

\* Sorting moves one entry, from slot i.
LEMMA SortMoves ==
    ASSUME NEW b, NEW i \in Slots
    PROVE  \E q \in Slots : Moved(b, Bucket_BucketSort(b, i), q, i)
  <1> DEFINE s == Bucket_BucketSort(b, i)
             Passes(q) == \A r \in q .. i - 1 : b[r].count < b[i].count
             P == {k \in 0 .. i : Passes(k)}
  <1>2. ASSUME NEW k \in Slots
        PROVE  s[k] = IF k > i \/ ~Passes(k) THEN b[k]
                      ELSE IF k = 0 \/ ~Passes(k - 1) THEN b[i]
                      ELSE b[k - 1]
    BY DEF Bucket_BucketSort
  <1>3. \E q \in 0 .. i : /\ Passes(q) /\ (q = 0 \/ ~Passes(q - 1))
                          /\ \A k \in 0 .. i : Passes(k) <=> k >= q
    <2>1. i \in P /\ P \subseteq Nat
      BY DEF Slots
    <2>2. PICK q \in P : \A k \in P : q <= k
      BY <2>1, LeastNumber
    <2>3. \A k \in 0 .. i : k >= q => Passes(k)
      BY <2>2
    <2>4. q = 0 \/ ~Passes(q - 1)
      <3>1. CASE q # 0 /\ Passes(q - 1)
        <4>1. q - 1 \in P /\ q \in Nat
          BY <2>1, <2>2, <3>1
        <4> QED
          BY <2>2, <4>1
      <3> QED
        BY <3>1
    <2> QED
      BY <2>2, <2>3, <2>4
  <1>4. PICK q \in 0 .. i : /\ Passes(q) /\ (q = 0 \/ ~Passes(q - 1))
                           /\ \A k \in 0 .. i : Passes(k) <=> k >= q
    BY <1>3
  <1>5. i \in Nat /\ q \in Nat /\ q \in Slots /\ MAX_ENTRY \in Nat /\ i < MAX_ENTRY
    BY SizeAssumption DEF Slots
  <1>6. s[q] = b[i]
    BY <1>2, <1>4, <1>5
  <1>7. \A k \in Slots : k < q \/ k > i => s[k] = b[k]
    BY <1>2, <1>4, <1>5 DEF Slots
  <1>8. ASSUME NEW k \in q + 1 .. i
        PROVE  k \in Slots /\ k - 1 \in Slots /\ s[k] = b[k - 1]
    <2>1. k \in Slots /\ k - 1 \in Slots /\ k - 1 \in 0 .. i /\ k \in 0 .. i /\ k <= i /\ k # 0
      BY <1>5 DEF Slots
    <2>2. Passes(k) /\ Passes(k - 1)
      BY <1>4, <1>5, <2>1
    <2> QED
      BY <1>2, <2>1, <2>2
  <1> HIDE DEF s, P
  <1> QED
    BY <1>4, <1>5, <1>6, <1>7, <1>8 DEF Moved, s

\* So does a sort after slot i has counted: every entry is somewhere.
LEMMA SortKeepsAll ==
    ASSUME NEW b, NEW i \in Slots
    PROVE  \A m \in Slots : \E k \in Slots : Bucket_BucketSort(b, i)[k] = b[m]
  <1> DEFINE s == Bucket_BucketSort(b, i)
  <1>1. PICK q \in Slots : Moved(b, s, q, i)
    BY SortMoves
  <1> HIDE DEF s
  <1>2. \A k \in Slots : k \in Nat /\ k < MAX_ENTRY /\ MAX_ENTRY \in Nat
    BY SizeAssumption DEF Slots
  <1>3. ASSUME NEW m \in Slots PROVE \E k \in Slots : s[k] = b[m]
    <2>1. CASE m = i
      BY <1>1, <2>1 DEF Moved
    <2>2. CASE m < q \/ m > i
      BY <1>1, <2>2 DEF Moved
    <2>3. CASE m >= q /\ m < i
      <3>1. m + 1 \in q + 1 .. i /\ (m + 1) - 1 = m
        BY <1>2, <2>3
      <3> QED
        BY <1>1, <3>1 DEF Moved
    <2> QED
      BY <1>2, <2>1, <2>2, <2>3
  <1> QED
    BY <1>3 DEF s

\* Nor does it change the sum.
LEMMA HeldSort ==
    ASSUME NEW b \in Bucket, NEW i \in Slots, NEW t
    PROVE  Held(Bucket_BucketSort(b, i), t) = Held(b, t)
  <1> DEFINE s == Bucket_BucketSort(b, i)
  <1>1. s \in Bucket
    BY SortRearranges
  <1>2. PICK q \in Slots : Moved(b, s, q, i)
    BY SortMoves
  <1>3. i \in Nat /\ q \in Nat /\ MAX_ENTRY \in Nat /\ i < MAX_ENTRY
    BY SizeAssumption DEF Slots
  <1> HIDE DEF s
  <1>4. /\ IsFiniteSet(Slots)
        /\ Held(b, t) = SumFunctionOnSet(Parts(b, t), Slots)
        /\ Held(s, t) = SumFunctionOnSet(Parts(s, t), Slots)
        /\ \A k \in Slots : Parts(b, t)[k] \in Int
    BY <1>1, HeldType
  <1>5. /\ Parts(s, t)[q] = Parts(b, t)[i]
        /\ \A k \in Slots : k < q \/ k > i => Parts(s, t)[k] = Parts(b, t)[k]
        /\ \A k \in q + 1 .. i : Parts(s, t)[k] = Parts(b, t)[k - 1]
    BY <1>2 DEF Parts, Moved
  <1>6. Rotates(Parts(b, t), Parts(s, t), MAX_ENTRY - 1, q, i)
    BY <1>2, <1>3, <1>4, <1>5, SizeAssumption DEF Slots, Rotates, Moved
  <1> QED
    BY <1>4, <1>6, SumRotate DEF s, Slots

\* The entry pushed in at the head comes in, the last one falls out.
LEMMA HeldPush ==
    ASSUME NEW b \in Bucket, NEW e \in Entry, NEW t
    PROVE  Held([Bucket_down_stairs(b, 0) EXCEPT ![0] = e], t)
                = Held(b, t) + Part(e, t) - Part(b[MAX_ENTRY - 1], t)
  <1> DEFINE p == [Bucket_down_stairs(b, 0) EXCEPT ![0] = e]
             last == MAX_ENTRY - 1
  <1>1. p \in Bucket /\ p[0] = e
    BY PushKeeps
  <1>2. 0 \in Slots /\ last \in Slots /\ last \in Nat /\ \A k \in 1 .. last : k \in Slots /\ k - 1 \in Slots
    BY SizeAssumption DEF Slots
  <1>3. \A k \in 1 .. last : p[k] = b[k - 1]
    BY <1>2 DEF Bucket_down_stairs
  <1> HIDE DEF p
  <1>4. /\ Held(b, t) = SumFunctionOnSet(Parts(b, t), Slots)
        /\ Held(p, t) = SumFunctionOnSet(Parts(p, t), Slots)
        /\ \A k \in Slots : Parts(b, t)[k] \in Int /\ Parts(p, t)[k] \in Int
        /\ Parts(b, t)[last] = Part(b[last], t) /\ Parts(p, t)[0] = Part(e, t)
    BY <1>1, <1>2, HeldType
  <1>5. \A k \in 1 .. last : Parts(p, t)[k] = Parts(b, t)[k - 1]
    BY <1>2, <1>3 DEF Parts
  <1>6. Shifts(Parts(b, t), Parts(p, t), last)
    BY <1>2, <1>4, <1>5 DEF Slots, Shifts
  <1>7. SumFunctionOnSet(Parts(p, t), Slots)
            = SumFunctionOnSet(Parts(b, t), Slots) + Parts(p, t)[0] - Parts(b, t)[last]
    BY <1>6, SumShift DEF Slots
  <1> QED
    BY <1>4, <1>7 DEF p

\* The entry removed is gone, and the last one is an initial entry.
LEMMA HeldRemove ==
    ASSUME NEW b \in Bucket, NEW i \in 0 .. MAX_ENTRY - 1, NEW t
    PROVE  Held(Bucket_Remove(b, i), t) = Held(b, t) - Part(b[i], t)
  <1> DEFINE r == Bucket_Remove(b, i)
  <1>1. \A k \in Slots : k # MAX_ENTRY - 1 => k + 1 \in Slots
    BY SizeAssumption DEF Slots
  <1>2. r \in Bucket
    BY <1>1, EntryTypes DEF Bucket_Remove, Bucket
  <1>3. /\ MAX_ENTRY \in Nat \ {0} /\ i \in 0 .. MAX_ENTRY - 1 /\ Slots = 0 .. MAX_ENTRY - 1
        /\ MAX_ENTRY - 1 \in Slots /\ r[MAX_ENTRY - 1] = Entry_init
    BY SizeAssumption DEF Slots, Bucket_Remove
  <1>4. \A k \in 0 .. i - 1 : k \in Slots /\ r[k] = b[k]
    BY <1>3 DEF Bucket_Remove
  <1>5. \A k \in i .. MAX_ENTRY - 2 : k \in Slots /\ k + 1 \in Slots /\ r[k] = b[k + 1]
    BY <1>3 DEF Bucket_Remove
  <1> HIDE DEF r
  <1>6. /\ Held(b, t) = SumFunctionOnSet(Parts(b, t), Slots)
        /\ Held(r, t) = SumFunctionOnSet(Parts(r, t), Slots)
        /\ \A k \in Slots : Parts(b, t)[k] \in Int
        /\ Parts(b, t)[i] = Part(b[i], t) /\ Parts(r, t)[MAX_ENTRY - 1] = 0
    BY <1>2, <1>3, HeldType DEF Part, Entry_init
  <1>7. /\ \A k \in 0 .. i - 1 : Parts(r, t)[k] = Parts(b, t)[k]
        /\ \A k \in i .. MAX_ENTRY - 2 : Parts(r, t)[k] = Parts(b, t)[k + 1]
    BY <1>4, <1>5 DEF Parts
  <1>8. Closes(Parts(b, t), Parts(r, t), MAX_ENTRY - 1, i)
    BY <1>3, <1>6, <1>7 DEF Closes
  <1>9. Held(b, t) \in Int /\ Part(b[i], t) \in Int
    BY <1>3, HeldType
  <1> QED
    BY <1>3, <1>6, <1>8, <1>9, SumClose DEF r
\* An empty bucket holds nothing.
LEMMA HeldEmpty ==
    ASSUME NEW t
    PROVE  Held([i \in Slots |-> Entry_init], t) = 0
  <1> DEFINE b == [i \in Slots |-> Entry_init]
  <1>1. b \in Bucket
    BY EntryTypes DEF Bucket
  <1>2. \A i \in Slots : Part(b[i], t) = 0
    BY DEF Part, Entry_init
  <1> HIDE DEF b
  <1>3. /\ \A i \in Slots : Parts(b, t)[i] = 0
        /\ IsFiniteSet(Slots)
        /\ Held(b, t) = SumFunctionOnSet(Parts(b, t), Slots)
    BY <1>1, <1>2, HeldType
  <1> QED
    BY <1>3, SumZero DEF b
=============================================================================
