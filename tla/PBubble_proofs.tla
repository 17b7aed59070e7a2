--------------------------- MODULE PBubble_proofs ---------------------------
(***************************************************************************)
(* Proofs about PBubble for every set of flows, hash function, table size, *)
(* counter and clock width and every setting of reclaim, decay, kickout    *)
(* and admission that the assumptions allow.                               *)
(*                                                                         *)
(* An insertion is a reclaim of the packet's own buckets followed by one   *)
(* branch.  Each lemma below says what one of the two does to a bucket     *)
(* store; the last ones put them together.                                 *)
(***************************************************************************)
EXTENDS PBubble, BubbleSketch_proofs

-----------------------------------------------------------------------------
(* Entries.                                                                *)

ClockedBucket == [Slots -> ClockedEntry]

\* The part of NoOvercount that speaks of one entry.
Backed(a, j, e, seen) ==
    e.count > 0 => \E f \in Flows : /\ e.fingerprint = Tag(Context(f).fp)
                                    /\ j = Context(f).keys[a]
                                    /\ e.count <= seen[Class(f)]

\* What every entry of bucket j of array a satisfies: in the hot slot a match
\* on fp is then a match on the fingerprint.
Fine(a, j, e, seen) ==
    /\ e \in ClockedEntry
    /\ e.fingerprint = Tag(e.l0fp)
    /\ Backed(a, j, e, seen)

\* One more packet of f's class.
Seen(f) == /\ arrived \in [Classes -> Nat]
           /\ arrived' = [arrived EXCEPT ![Class(f)] = @ + 1]

\* A packet adds one to its class and takes from none.
LEMMA SeenGrows ==
    ASSUME NEW f \in Flows, Seen(f)
    PROVE  /\ arrived' \in [Classes -> Nat]
           /\ arrived'[Class(f)] = arrived[Class(f)] + 1
           /\ \A g \in Flows : /\ Class(g) \in Classes
                               /\ arrived[Class(g)] \in Nat
                               /\ arrived'[Class(g)] \in Nat
                               /\ arrived[Class(g)] <= arrived'[Class(g)]
           /\ \A c \in Classes : /\ arrived[c] \in Nat /\ arrived'[c] \in Nat
                                 /\ arrived[c] <= arrived'[c]
  BY DEF Seen, Classes

\* Counters are numbers.
LEMMA EntryCount ==
    ASSUME NEW e \in ClockedEntry
    PROVE  e.count \in Nat /\ e.count <= COUNT_MAX /\ e.fingerprint \in Nat
  BY CountAssumption DEF ClockedEntry

\* The slots of a bucket hold entries, whose counts are naturals.
LEMMA BucketCount ==
    ASSUME NEW b \in ClockedBucket
    PROVE  \A k \in Slots : b[k] \in ClockedEntry /\ b[k].count \in Nat
  BY EntryCount DEF ClockedBucket

\* A fine entry that keeps its identity and does not grow stays fine.
LEMMA SmallerIsFine ==
    ASSUME NEW f \in Flows, Seen(f), NEW a \in Arrays, NEW j \in Indices,
           NEW e, Fine(a, j, e, arrived), NEW d \in ClockedEntry,
           d.fingerprint = e.fingerprint, d.l0fp = e.l0fp, d.count <= e.count
    PROVE  Fine(a, j, d, arrived')
  <1>1. d.count \in Nat /\ e.count \in Nat
    BY EntryCount DEF Fine
  <1> SUFFICES ASSUME d.count > 0
               PROVE  \E g \in Flows : /\ d.fingerprint = Tag(Context(g).fp)
                                       /\ j = Context(g).keys[a]
                                       /\ d.count <= arrived'[Class(g)]
    BY DEF Fine, Backed
  <1>2. PICK g \in Flows : /\ e.fingerprint = Tag(Context(g).fp)
                           /\ j = Context(g).keys[a]
                           /\ e.count <= arrived[Class(g)]
    BY <1>1 DEF Fine, Backed
  <1>3. d.count <= arrived'[Class(g)]
    BY <1>1, <1>2, SeenGrows
  <1> QED
    BY <1>2, <1>3

\* A cleared entry is fine in any bucket.
LEMMA InitIsFine ==
    ASSUME NEW a \in Arrays, NEW j \in Indices, NEW seen
    PROVE  Fine(a, j, Clocked_init, seen)
  <1>1. Tag(0) = 0
    BY HashAssumption DEF Tag
  <1> QED
    BY <1>1, CountAssumption DEF Fine, Backed, Clocked_init, ClockedEntry

\* Counting a packet leaves a fine entry: the packet's class is the entry's.
LEMMA CountedIsFine ==
    ASSUME NEW f \in Flows, Seen(f), NEW a \in Arrays, NEW pkt \in Nat,
           NEW e, Fine(a, Context(f).keys[a], e, arrived),
           e.fingerprint = Tag(Context(f).fp)
    PROVE  /\ Fine(a, Context(f).keys[a], Clocked_Insert(e, pkt), arrived')
           /\ Clocked_Insert(e, pkt).count \in {e.count, e.count + 1}
  <1> DEFINE d == Clocked_Insert(e, pkt)
             c == Context(f)
  <1>1. e \in ClockedEntry /\ e.count \in Nat
    BY EntryCount DEF Fine
  <1>2. /\ d \in ClockedEntry
        /\ d.fingerprint = e.fingerprint /\ d.l0fp = e.l0fp
        /\ d.count \in {e.count, e.count + 1}
    <2> DEFINE x == Entry_Insert(e)
    <2>1. /\ x \in ClockedEntry
          /\ x.fingerprint = e.fingerprint /\ x.l0fp = e.l0fp
          /\ x.count \in {e.count, e.count + 1}
      BY <1>1, CountAssumption DEF Entry_Insert, ClockedEntry
    <2> HIDE DEF x
    <2>2. d = [x EXCEPT !.last_update_pkt = pkt]
      BY DEF Clocked_Insert, x
    <2> HIDE DEF d
    <2> QED
      BY <2>1, <2>2 DEF ClockedEntry
  <1> HIDE DEF d
  <1>3. \E g \in Flows : /\ d.fingerprint = Tag(Context(g).fp)
                         /\ c.keys[a] = Context(g).keys[a]
                         /\ d.count <= arrived'[Class(g)]
    <2>1. CASE e.count = 0
      <3>1. d.count <= arrived'[Class(f)]
        BY <1>2, <2>1, SeenGrows
      <3> QED
        BY <1>2, <3>1
    <2>2. CASE e.count > 0
      <3>1. PICK g \in Flows : /\ e.fingerprint = Tag(Context(g).fp)
                               /\ c.keys[a] = Context(g).keys[a]
                               /\ e.count <= arrived[Class(g)]
        BY <2>2 DEF Fine, Backed
      <3>2. Class(g) = Class(f)
        BY <3>1, SameKeys, WrapAssumption DEF Class
      <3>3. d.count <= arrived'[Class(g)]
        BY <1>1, <1>2, <3>1, <3>2, SeenGrows
      <3> QED
        BY <1>2, <3>1, <3>3
    <2> QED
      BY <1>1, <2>1, <2>2
  <1> QED
    BY <1>2, <1>3 DEF Fine, Backed, d

\* A new entry is fine in its bucket: it is backed by its own packet.
LEMMA NewIsFine ==
    ASSUME NEW f \in Flows, Seen(f), NEW a \in Arrays, NEW pkt \in Nat
    PROVE  /\ Fine(a, Context(f).keys[a], Clocked_Insert_with(Context(f), pkt), arrived')
           /\ Clocked_Insert_with(Context(f), pkt).count = 1
  <1> DEFINE d == Clocked_Insert_with(Context(f), pkt)
             c == Context(f)
  <1>1. c.key = f /\ c.fp \in Nat /\ Tag(c.fp) \in Nat
    BY ContextType
  <1>2. /\ d \in ClockedEntry
        /\ d.fingerprint = Tag(c.fp) /\ d.l0fp = c.fp /\ d.count = 1
    BY <1>1, CountAssumption DEF Clocked_Insert_with, ClockedEntry
  <1> HIDE DEF d
  <1>3. d.count <= arrived'[Class(f)]
    BY <1>2, SeenGrows
  <1> QED
    BY <1>2, <1>3 DEF Fine, Backed, d

\* Kickout moves an entry to the other bucket of its class.
LEMMA MovedIsFine ==
    ASSUME NEW f \in Flows, NEW a \in Arrays, NEW d,
           Fine(a, Context(f).keys[a], d, arrived')
    PROVE  Fine(1 - a, KickTarget(Context(f), a, d), d, arrived')
  <1> SUFFICES ASSUME d.count > 0
               PROVE  \E g \in Flows :
                         /\ d.fingerprint = Tag(Context(g).fp)
                         /\ KickTarget(Context(f), a, d) = Context(g).keys[1 - a]
                         /\ d.count <= arrived'[Class(g)]
    BY DEF Fine, Backed
  <1>1. PICK g \in Flows : /\ d.fingerprint = Tag(Context(g).fp)
                           /\ Context(f).keys[a] = Context(g).keys[a]
                           /\ d.count <= arrived'[Class(g)]
    BY DEF Fine, Backed
  <1> QED
    BY <1>1, KickLands, WrapAssumption

-----------------------------------------------------------------------------
(* Buckets and stores.                                                     *)

BucketFine(a, j, b, seen) ==
    /\ b \in ClockedBucket
    /\ \A i \in Slots : Fine(a, j, b[i], seen)

StoreFine(sk, seen) ==
    /\ sk \in [Arrays -> [Indices -> ClockedBucket]]
    /\ \A a \in Arrays, j \in Indices : BucketFine(a, j, sk[a][j], seen)

\* Slot 0 holds the largest counter.
Top(b) == \A i \in Slots : b[i].count <= b[0].count

\* What a branch does to a bucket b that becomes n.
BucketStep(b, n) ==
    /\ n[0].count >= b[0].count \/ Wraps(b[0].count)
    /\ Top(b) /\ ~Wraps(b[0].count) => Top(n)

StoreStep(sk, new) ==
    \A a \in Arrays, j \in Indices : BucketStep(sk[a][j], new[a][j])

\* Slots are the integers from 0 to the last slot.
LEMMA SlotFacts ==
    /\ 0 \in Slots /\ 1 \in Slots /\ MAX_ENTRY - 1 \in Slots /\ MAX_ENTRY - 1 # 0
    /\ \A k \in Slots : k \in Int /\ 0 <= k /\ k <= MAX_ENTRY - 1
    /\ \A k \in Slots : k # 0 => k - 1 \in Slots
    /\ \A k \in Slots : k # MAX_ENTRY - 1 => k + 1 \in Slots
  BY SizeAssumption DEF Slots

\* More packets leave a fine store fine, and no change is a step.
LEMMA StoreStays ==
    ASSUME NEW f \in Flows, Seen(f), NEW sk, StoreFine(sk, arrived)
    PROVE  /\ StoreFine(sk, arrived')
           /\ StoreStep(sk, sk)
  <1>1. ASSUME NEW a \in Arrays, NEW j \in Indices, NEW i \in Slots
        PROVE  Fine(a, j, sk[a][j][i], arrived') /\ sk[a][j][i].count \in Nat
    <2> DEFINE e == sk[a][j][i]
    <2>1. Fine(a, j, e, arrived)
      BY DEF StoreFine, BucketFine
    <2> HIDE DEF e
    <2>2. e \in ClockedEntry /\ e.count \in Nat /\ e.count <= e.count
      BY <2>1, EntryCount DEF Fine
    <2>3. Fine(a, j, e, arrived')
      BY <2>1, <2>2, SmallerIsFine
    <2> QED
      BY <2>2, <2>3 DEF e
  <1>2. StoreFine(sk, arrived')
    BY <1>1 DEF StoreFine, BucketFine
  <1>3. StoreStep(sk, sk)
    BY <1>1, SlotFacts DEF StoreStep, BucketStep
  <1> QED
    BY <1>2, <1>3

\* Two buckets change, or one.
LEMMA StoreUpdate ==
    ASSUME NEW f \in Flows, Seen(f), NEW sk, StoreFine(sk, arrived),
           NEW x \in Arrays, NEW y \in Indices, NEW b,
           BucketFine(x, y, b, arrived'), BucketStep(sk[x][y], b),
           NEW w \in Arrays, NEW z \in Indices, NEW d, w # x,
           BucketFine(w, z, d, arrived'), BucketStep(sk[w][z], d)
    PROVE  /\ StoreFine([sk EXCEPT ![x][y] = b], arrived')
           /\ StoreStep(sk, [sk EXCEPT ![x][y] = b])
           /\ StoreFine([sk EXCEPT ![w][z] = d, ![x][y] = b], arrived')
           /\ StoreStep(sk, [sk EXCEPT ![w][z] = d, ![x][y] = b])
  <1> DEFINE one == [sk EXCEPT ![x][y] = b]
             two == [sk EXCEPT ![w][z] = d, ![x][y] = b]
  <1>1. /\ sk \in [Arrays -> [Indices -> ClockedBucket]]
        /\ b \in ClockedBucket /\ d \in ClockedBucket
    BY DEF StoreFine, BucketFine
  <1>2. /\ one \in [Arrays -> [Indices -> ClockedBucket]]
        /\ two \in [Arrays -> [Indices -> ClockedBucket]]
    BY <1>1
  <1>3. ASSUME NEW a \in Arrays, NEW j \in Indices
        PROVE  /\ one[a][j] = IF a = x /\ j = y THEN b ELSE sk[a][j]
               /\ two[a][j] = IF a = x /\ j = y THEN b
                              ELSE IF a = w /\ j = z THEN d ELSE sk[a][j]
    BY <1>1
  <1> HIDE DEF one, two
  <1>4. \A a \in Arrays, j \in Indices :
            BucketFine(a, j, sk[a][j], arrived') /\ BucketStep(sk[a][j], sk[a][j])
    BY StoreStays DEF StoreFine, StoreStep
  <1>5. StoreFine(one, arrived') /\ StoreFine(two, arrived')
    BY <1>2, <1>3, <1>4, ZenonT(40) DEF StoreFine
  <1>6. StoreStep(sk, one) /\ StoreStep(sk, two)
    BY <1>3, <1>4 DEF StoreStep
  <1> QED
    BY <1>5, <1>6 DEF one, two

\* Only one bucket changes.
LEMMA StoreUpdateOne ==
    ASSUME NEW f \in Flows, Seen(f), NEW sk, StoreFine(sk, arrived),
           NEW x \in Arrays, NEW y \in Indices, NEW b,
           BucketFine(x, y, b, arrived'), BucketStep(sk[x][y], b)
    PROVE  /\ StoreFine([sk EXCEPT ![x][y] = b], arrived')
           /\ StoreStep(sk, [sk EXCEPT ![x][y] = b])
  <1>1. /\ 1 - x \in Arrays /\ 1 - x # x
        /\ BucketFine(1 - x, y, sk[1 - x][y], arrived')
        /\ BucketStep(sk[1 - x][y], sk[1 - x][y])
    BY StoreStays DEF StoreFine, StoreStep, Arrays
  <1> QED
    BY <1>1, StoreUpdate

\* A bucket whose entries are those of a fine one, counted or not, but for one
\* fine entry that is put in slot i.
LEMMA PutIsFine ==
    ASSUME NEW f \in Flows, Seen(f), NEW sk, StoreFine(sk, arrived),
           NEW a \in Arrays, NEW j \in Indices, NEW i \in Slots,
           NEW e, Fine(a, j, e, arrived')
    PROVE  LET b == [sk[a][j] EXCEPT ![i] = e]
           IN  /\ BucketFine(a, j, b, arrived')
               /\ \A k \in Slots : b[k] = IF k = i THEN e ELSE sk[a][j][k]
  <1>1. BucketFine(a, j, sk[a][j], arrived')
    BY StoreStays DEF StoreFine
  <1> QED
    BY <1>1 DEF BucketFine, ClockedBucket, Fine

-----------------------------------------------------------------------------
(* The branches, on a fine store sk.                                       *)

\* The packet's own buckets are fine, and their counters numbers.
LEMMA HomeIsFine ==
    ASSUME NEW f \in Flows, NEW sk, StoreFine(sk, arrived), NEW a \in Arrays
    PROVE  /\ Context(f).keys[a] \in Indices
           /\ Home(sk, Context(f), a) = sk[a][Context(f).keys[a]]
           /\ BucketFine(a, Context(f).keys[a], Home(sk, Context(f), a), arrived)
           /\ \A k \in Slots : /\ Home(sk, Context(f), a)[k].count \in Nat
                               /\ Home(sk, Context(f), a)[k] \in ClockedEntry
  <1>1. Context(f).keys[a] \in Indices
    BY ContextType
  <1>2. BucketFine(a, Context(f).keys[a], Home(sk, Context(f), a), arrived)
    BY <1>1 DEF StoreFine, Home
  <1> QED
    BY <1>1, <1>2, BucketCount DEF BucketFine, Home

\* A matching entry has the packet's fingerprint, whichever its slot.
LEMMA MatchMeansTag ==
    ASSUME NEW f \in Flows, NEW sk, StoreFine(sk, arrived),
           NEW a \in Arrays, NEW i \in Slots, Match(sk, Context(f), a, i)
    PROVE  Home(sk, Context(f), a)[i].fingerprint = Tag(Context(f).fp)
  <1>1. Fine(a, Context(f).keys[a], Home(sk, Context(f), a)[i], arrived)
    BY HomeIsFine DEF BucketFine
  <1> QED
    BY <1>1 DEF Match, Bucket_Equal, Fine

\* A hit of the hot entry.
LEMMA HotHitStep ==
    ASSUME NEW f \in Flows, Seen(f), NEW sk, StoreFine(sk, arrived), NEW pkt \in Nat,
           NEW a \in Arrays, HotHitIn(sk, Context(f), pkt, a)
    PROVE  StoreFine(buckets', arrived') /\ StoreStep(sk, buckets')
  <1> DEFINE c == Context(f)
             j == c.keys[a]
             p == Home(sk, c, a)
             e == Clocked_Insert(p[0], pkt)
             b == [p EXCEPT ![0] = e]
  <1>1. /\ j \in Indices /\ p = sk[a][j]
        /\ Fine(a, j, p[0], arrived)
        /\ \A k \in Slots : p[k].count \in Nat
    BY HomeIsFine, SlotFacts DEF BucketFine
  <1>2. p[0].fingerprint = Tag(c.fp)
    BY MatchMeansTag, SlotFacts DEF HotHitIn
  <1>3. Fine(a, j, e, arrived') /\ e.count \in {p[0].count, p[0].count + 1}
    BY <1>1, <1>2, CountedIsFine
  <1>4. buckets' = [sk EXCEPT ![a][j] = b]
    BY DEF HotHitIn
  <1> HIDE DEF j, p, e
  <1>5. /\ BucketFine(a, j, b, arrived')
        /\ \A k \in Slots : b[k] = IF k = 0 THEN e ELSE p[k]
    BY <1>1, <1>3, PutIsFine, SlotFacts
  <1> HIDE DEF b
  <1>6. BucketStep(p, b)
    BY <1>1, <1>3, <1>5, SlotFacts DEF BucketStep, Top
  <1> QED
    BY <1>1, <1>4, <1>5, <1>6, StoreUpdateOne

\* An untouched or emptied slot taken by a new entry.
LEMMA FillStep ==
    ASSUME NEW f \in Flows, Seen(f), NEW sk, StoreFine(sk, arrived), NEW pkt \in Nat,
           NEW a \in Arrays, NEW i \in Slots, FillIn(sk, Context(f), pkt, a, i)
    PROVE  StoreFine(buckets', arrived') /\ StoreStep(sk, buckets')
  <1> DEFINE c == Context(f)
             j == c.keys[a]
             p == Home(sk, c, a)
             e == Clocked_Insert_with(c, pkt)
             b == [p EXCEPT ![i] = e]
  <1>1. /\ j \in Indices /\ p = sk[a][j] /\ p \in ClockedBucket
        /\ \A k \in Slots : p[k].count \in Nat
    BY HomeIsFine DEF BucketFine
  <1>2. Fine(a, j, e, arrived') /\ e.count = 1
    BY NewIsFine
  <1>3. p[i].count = 0
    BY DEF FillIn, FirstStopIn, StopsIn, Bucket_Empty
  <1>4. i # 0 => p[0].count # 0
    <2> SUFFICES ASSUME i # 0 PROVE p[0].count # 0
      OBVIOUS
    <2>1. 0 \in 0 .. i /\ 0 < i
      BY SlotFacts
    <2>2. ~StopsIn(sk, c, a, 0)
      BY <2>1 DEF FillIn, FirstStopIn
    <2> QED
      BY <2>2 DEF StopsIn, Bucket_Empty
  <1>5. buckets' = [sk EXCEPT ![a][j] = b]
    BY <1>1 DEF FillIn, StoreFine, ClockedBucket
  <1> HIDE DEF j, p, e
  <1>6. /\ BucketFine(a, j, b, arrived')
        /\ \A k \in Slots : b[k] = IF k = i THEN e ELSE p[k]
    BY <1>1, <1>2, PutIsFine
  <1> HIDE DEF b
  <1>7. BucketStep(p, b)
    BY <1>1, <1>2, <1>3, <1>4, <1>6, SlotFacts DEF BucketStep, Top
  <1> QED
    BY <1>1, <1>5, <1>6, <1>7, StoreUpdateOne

\* Decay takes something from a counter, or leaves an empty one.
LEMMA DecayShrinks ==
    ASSUME NEW e \in ClockedEntry, threshold1 \in Nat
    PROVE  LET d == Entry_Adaptive_Lossy(e)
           IN  /\ d \in ClockedEntry
               /\ d.fingerprint = e.fingerprint /\ d.l0fp = e.l0fp
               /\ d.count <= e.count
  <1>1. e.count \in Nat /\ e.count <= COUNT_MAX
    BY EntryCount
  <1>2. ASSUME NEW n \in Nat, NEW d \in {LOW_DIV, MEDIUM_DIV}
        PROVE  Minus(n, Quotient(n, d)) \in 0 .. n
    <2>1. n \div d \in Nat
      BY <1>2, DivNat, PBubbleAssumption
    <2>2. Quotient(n, d) \in Nat
      BY <2>1 DEF Quotient
    <2> HIDE DEF Quotient
    <2> QED
      BY <2>2 DEF Minus
  <1> DEFINE high == threshold1 > 0 /\ e.count > (threshold1 * LOSSY_HIGH) \div 100
             low  == threshold1 > 0 /\ e.count < (threshold1 * LOSSY_LOW) \div 100
             n    == IF e.count = 0 THEN 0
                     ELSE IF high THEN e.count - 1
                     ELSE Minus(e.count, Quotient(e.count, IF low THEN LOW_DIV ELSE MEDIUM_DIV))
  <1>3. Entry_Adaptive_Lossy(e) = [e EXCEPT !.count = n]
    BY Zenon DEF Entry_Adaptive_Lossy
  <1> HIDE DEF high, low
  <1>4. n \in 0 .. e.count
    <2>1. Minus(e.count, Quotient(e.count, IF low THEN LOW_DIV ELSE MEDIUM_DIV)) \in 0 .. e.count
      BY <1>1, <1>2
    <2> QED
      BY <1>1, <2>1
  <1> HIDE DEF n
  <1> QED
    BY <1>1, <1>3, <1>4, CountAssumption DEF ClockedEntry

\* The decay of a last entry.
LEMMA LossyStep ==
    ASSUME NEW f \in Flows, Seen(f), NEW sk, StoreFine(sk, arrived), threshold1 \in Nat,
           LossyIn(sk, Context(f))
    PROVE  StoreFine(buckets', arrived') /\ StoreStep(sk, buckets')
  <1> DEFINE c == Context(f)
             last == MAX_ENTRY - 1
             a == IF Home(sk, c, 0)[last].count < Home(sk, c, 1)[last].count THEN 0 ELSE 1
             j == c.keys[a]
             p == Home(sk, c, a)
             e == Entry_Adaptive_Lossy(p[last])
             b == [p EXCEPT ![last] = e]
  <1>0. a \in Arrays
    BY DEF Arrays
  <1>1. buckets' = [sk EXCEPT ![a][j][last] = e]
    BY DEF LossyIn
  <1> HIDE DEF a
  <1>2. /\ j \in Indices /\ p = sk[a][j] /\ p \in ClockedBucket
        /\ Fine(a, j, p[last], arrived) /\ p[last] \in ClockedEntry
        /\ \A k \in Slots : p[k].count \in Nat
    BY <1>0, HomeIsFine, SlotFacts DEF BucketFine
  <1>3. /\ e \in ClockedEntry /\ e.fingerprint = p[last].fingerprint
        /\ e.l0fp = p[last].l0fp /\ e.count <= p[last].count
    BY <1>2, DecayShrinks
  <1>4. buckets' = [sk EXCEPT ![a][j] = b]
    BY <1>0, <1>1, <1>2 DEF StoreFine, ClockedBucket
  <1>5. e.count \in Nat
    BY <1>3, EntryCount
  <1> HIDE DEF j, p, e
  <1>6. Fine(a, j, e, arrived')
    BY <1>0, <1>2, <1>3, SmallerIsFine
  <1>7. /\ BucketFine(a, j, b, arrived')
        /\ \A k \in Slots : b[k] = IF k = last THEN e ELSE p[k]
    BY <1>0, <1>2, <1>6, PutIsFine, SlotFacts
  <1> HIDE DEF b
  <1>8. BucketStep(p, b)
    <2>1. b[0] = p[0] /\ \A k \in Slots : b[k].count <= p[k].count /\ b[k].count \in Nat
      BY <1>2, <1>3, <1>5, <1>7, SlotFacts
    <2> QED
      BY <1>2, <2>1, SlotFacts DEF BucketStep, Top
  <1> QED
    BY <1>0, <1>2, <1>4, <1>7, <1>8, StoreUpdateOne

\* The comparison of kickout is exact as long as its product fits.
LEMMA KickoutExact ==
    ASSUME NEW h \in Nat, ~Wraps(h)
    PROVE  threshold_count(h) = h
  <1>1. /\ COUNT_MAX \in Nat /\ COUNT_MAX + 1 \in Nat \ {0}
        /\ KICKOUT_MULTIPLIER \in Nat \ {0}
    BY CountAssumption, PBubbleAssumption
  <1>2. COUNT_MAX \div KICKOUT_MULTIPLIER \in Int /\ h <= COUNT_MAX \div KICKOUT_MULTIPLIER
    BY <1>1, DivNat DEF Wraps
  <1>3. h * KICKOUT_MULTIPLIER \in 0 .. (COUNT_MAX + 1) - 1
    <2>1. h * KICKOUT_MULTIPLIER \in 0 .. COUNT_MAX
      BY <1>1, <1>2, MulFits, Zenon
    <2>2. (COUNT_MAX + 1) - 1 = COUNT_MAX
      BY <1>1
    <2> QED
      BY <2>1, <2>2
  <1>4. (h * KICKOUT_MULTIPLIER) % (COUNT_MAX + 1) = h * KICKOUT_MULTIPLIER
    BY <1>1, <1>3, ModSmall, Zenon
  <1>5. (h * KICKOUT_MULTIPLIER) \div KICKOUT_MULTIPLIER = h
    BY <1>1, MulDiv, Zenon
  <1> QED
    BY <1>4, <1>5, Zenon DEF threshold_count

\* The bucket of a cold hit after counting and sorting.
ColdBucket(sk, c, pkt, a, i) ==
    Bucket_BucketSort([Home(sk, c, a) EXCEPT ![i] = Clocked_Insert(@, pkt)], i)

\* The bucket after a cold hit and its sort: fine, its largest still on top.
LEMMA ColdBucketStep ==
    ASSUME NEW f \in Flows, Seen(f), NEW sk, StoreFine(sk, arrived), NEW pkt \in Nat,
           NEW a \in Arrays, NEW i \in Slots, i > 0, Match(sk, Context(f), a, i)
    PROVE  LET b == ColdBucket(sk, Context(f), pkt, a, i)
           IN  /\ BucketFine(a, Context(f).keys[a], b, arrived')
               /\ BucketStep(Home(sk, Context(f), a), b)
  <1> DEFINE c == Context(f)
             j == c.keys[a]
             p == Home(sk, c, a)
             e == Clocked_Insert(p[i], pkt)
             q == [p EXCEPT ![i] = e]
             b == Bucket_BucketSort(q, i)
  <1>1. /\ j \in Indices /\ p = sk[a][j]
        /\ Fine(a, j, p[i], arrived)
        /\ \A k \in Slots : p[k].count \in Nat
    BY HomeIsFine DEF BucketFine
  <1>2. Fine(a, j, e, arrived') /\ e.count \in {p[i].count, p[i].count + 1}
    <2>1. p[i].fingerprint = Tag(c.fp)
      BY MatchMeansTag
    <2> DEFINE o == p[i]
    <2> HIDE DEF p, o
    <2>2. Fine(a, Context(f).keys[a], o, arrived) /\ o.fingerprint = Tag(Context(f).fp)
      BY <1>1, <2>1 DEF o
    <2>3. /\ Fine(a, Context(f).keys[a], Clocked_Insert(o, pkt), arrived')
          /\ Clocked_Insert(o, pkt).count \in {o.count, o.count + 1}
      BY <2>2, CountedIsFine
    <2> QED
      BY <2>3 DEF o
  <1>3. ColdBucket(sk, c, pkt, a, i) = b
    BY DEF ColdBucket
  <1> HIDE DEF j, p, e
  <1>4. /\ BucketFine(a, j, q, arrived')
        /\ \A k \in Slots : q[k] = IF k = i THEN e ELSE p[k]
    BY <1>1, <1>2, PutIsFine
  <1> HIDE DEF q
  <1>5. \A k \in Slots : q[k].count \in Nat
    BY <1>4, BucketCount DEF BucketFine
  <1>6. /\ \A k \in Slots : \E m \in Slots : b[k] = q[m]
        /\ b[0] = q[0] \/ (b[0] = q[i] /\ q[0].count < q[i].count)
    BY <1>5, SortPicks
  <1>7. q[i].count > q[0].count /\ (\A k \in Slots \ {i} : q[k].count <= q[0].count)
            => b[0] = q[i]
    BY <1>5, SortRaises
  <1>8. b = [k \in Slots |-> b[k]]
    BY DEF Bucket_BucketSort
  <1> HIDE DEF b
  <1>9. BucketFine(a, j, b, arrived')
    <2>1. b \in ClockedBucket
      BY <1>4, <1>6, <1>8 DEF BucketFine, ClockedBucket
    <2> QED
      BY <1>4, <1>6, <2>1 DEF BucketFine
  <1>10. BucketStep(p, b)
    <2>1. q[0] = p[0] /\ b[0].count \in Nat /\ p[0].count \in Nat
      BY <1>1, <1>4, <1>5, <1>6, SlotFacts
    <2>2. b[0].count >= p[0].count
      BY <1>5, <1>6, <2>1
    <2>3. ASSUME Top(p)
          PROVE  Top(b)
      <3>1. \A k \in Slots \ {i} : q[k].count <= q[0].count
        BY <1>1, <1>4, <2>1, <2>3 DEF Top
      <3>2. \A m \in Slots : q[m].count <= b[0].count
        <4>1. CASE q[i].count > q[0].count
          BY <1>5, <1>7, <2>1, <3>1, <4>1, SlotFacts
        <4>2. CASE ~(q[i].count > q[0].count)
          BY <1>5, <1>6, <2>1, <3>1, <4>2, SlotFacts
        <4> QED
          BY <4>1, <4>2
      <3> QED
        BY <1>6, <3>2 DEF Top
    <2> QED
      BY <2>2, <2>3 DEF BucketStep
  <1> QED
    BY <1>3, <1>9, <1>10 DEF j, p

\* The gap that a promoted entry leaves is closed below slot 0.
LEMMA RemoveStep ==
    ASSUME NEW a \in Arrays, NEW j \in Indices, NEW p \in ClockedBucket,
           NEW b, NEW seen, BucketFine(a, j, b, seen), BucketStep(p, b)
    PROVE  /\ BucketFine(a, j, Clocked_Remove(b, 1), seen)
           /\ BucketStep(p, Clocked_Remove(b, 1))
  <1> DEFINE r == Clocked_Remove(b, 1)
  <1>1. /\ r[0] = b[0]
        /\ \A k \in Slots : r[k] = Clocked_init \/ \E m \in Slots : r[k] = b[m]
        /\ r = [k \in Slots |-> r[k]]
    BY SlotFacts DEF Clocked_Remove
  <1> HIDE DEF r
  <1>2. \A k \in Slots : Fine(a, j, r[k], seen)
    BY <1>1, InitIsFine DEF BucketFine
  <1>3. r \in ClockedBucket
    BY <1>1, <1>2 DEF ClockedBucket, Fine
  <1>4. Top(b) => Top(r)
    <2>1. \A k \in Slots : b[k].count \in Nat
      BY BucketCount DEF BucketFine
    <2>2. Clocked_init.count = 0
      BY DEF Clocked_init
    <2> QED
      BY <1>1, <2>1, <2>2, SlotFacts DEF Top
  <1> QED
    BY <1>1, <1>2, <1>3, <1>4 DEF BucketFine, BucketStep, r

\* The promoted entry takes slot 0 and pushes the others down.
LEMMA PushStep ==
    ASSUME NEW a \in Arrays, NEW j \in Indices, NEW n, NEW e, NEW seen,
           BucketFine(a, j, n, seen), Fine(a, j, e, seen),
           e.count > threshold_count(n[0].count)
    PROVE  LET h == [Bucket_down_stairs(n, 0) EXCEPT ![0] = e]
           IN  BucketFine(a, j, h, seen) /\ BucketStep(n, h)
  <1> DEFINE h == [Bucket_down_stairs(n, 0) EXCEPT ![0] = e]
  <1>1. /\ h[0] = e
        /\ \A k \in Slots : h[k] = e \/ \E m \in Slots : h[k] = n[m]
        /\ h = [k \in Slots |-> h[k]]
    BY SlotFacts DEF Bucket_down_stairs
  <1> HIDE DEF h
  <1>2. \A k \in Slots : Fine(a, j, h[k], seen)
    BY <1>1 DEF BucketFine
  <1>3. h \in ClockedBucket
    BY <1>1, <1>2 DEF ClockedBucket, Fine
  <1>4. e.count \in Nat /\ \A k \in Slots : n[k].count \in Nat
    BY EntryCount, BucketCount DEF BucketFine, Fine
  <1>5. Wraps(n[0].count) \/ e.count > n[0].count
    BY <1>4, SlotFacts, KickoutExact
  <1>6. BucketStep(n, h)
    BY <1>1, <1>4, <1>5, SlotFacts DEF BucketStep, Top
  <1> QED
    BY <1>2, <1>3, <1>6 DEF BucketFine, h

\* A cold hit, with the kickout it may end in.
LEMMA ColdHitStep ==
    ASSUME NEW f \in Flows, Seen(f), NEW sk, StoreFine(sk, arrived), NEW pkt \in Nat,
           NEW a \in Arrays, NEW i \in Slots, ColdHitIn(sk, Context(f), pkt, a, i)
    PROVE  StoreFine(buckets', arrived') /\ StoreStep(sk, buckets')
  <1> DEFINE c == Context(f)
             j == c.keys[a]
             p == Home(sk, c, a)
             b == ColdBucket(sk, c, pkt, a, i)
             t == KickTarget(c, a, b[1])
             n == sk[1 - a][t]
             h == [Bucket_down_stairs(n, 0) EXCEPT ![0] = b[1]]
             r == Clocked_Remove(b, 1)
  <1>1. /\ i > 0
        /\ Match(sk, c, a, i)
        /\ \/ buckets' = [sk EXCEPT ![a][j] = b]
           \/ /\ b[1].count > threshold_count(n[0].count)
              /\ buckets' = [sk EXCEPT ![1 - a][t] = h, ![a][j] = r]
    BY DEF ColdHitIn, ColdBucket, Displaces
  <1>2. /\ j \in Indices /\ p = sk[a][j] /\ p \in ClockedBucket
        /\ 1 - a \in Arrays /\ 1 - a # a
    BY HomeIsFine DEF BucketFine, Arrays
  <1>3. BucketFine(a, j, b, arrived') /\ BucketStep(p, b)
    BY <1>1, ColdBucketStep
  <1>4. Fine(a, j, b[1], arrived')
    BY <1>3, SlotFacts DEF BucketFine
  <1> HIDE DEF b, p
  <1>5. CASE buckets' = [sk EXCEPT ![a][j] = b]
    BY <1>2, <1>3, <1>5, StoreUpdateOne
  <1>6. CASE /\ b[1].count > threshold_count(n[0].count)
             /\ buckets' = [sk EXCEPT ![1 - a][t] = h, ![a][j] = r]
    <2>1. t \in Indices
      BY <1>4, EntryCount, KickTargetType DEF Fine
    <2>2. Fine(1 - a, t, b[1], arrived')
      BY <1>4, MovedIsFine
    <2> HIDE DEF t, j
    <2>3. BucketFine(1 - a, t, n, arrived')
      BY <1>2, <2>1, StoreStays DEF StoreFine
    <2>4. BucketFine(1 - a, t, h, arrived') /\ BucketStep(n, h)
      BY <1>2, <1>6, <2>1, <2>2, <2>3, PushStep
    <2>5. BucketFine(a, j, r, arrived') /\ BucketStep(p, r)
      BY <1>2, <1>3, RemoveStep
    <2> HIDE DEF h, r
    <2> QED
      BY <1>2, <1>6, <2>1, <2>4, <2>5, StoreUpdate
  <1> QED
    BY <1>1, <1>5, <1>6

-----------------------------------------------------------------------------
(* The insertion as a whole.                                               *)

\* Reclaim clears some cold entries of a fine store.
LEMMA SweptIsFine ==
    ASSUME StoreFine(buckets, arrived), NEW f \in Flows, NEW pkt \in Nat
    PROVE  LET sk == Swept(Context(f), pkt)
           IN  /\ StoreFine(sk, arrived)
               /\ \A a \in Arrays, j \in Indices :
                     /\ sk[a][j][0] = buckets[a][j][0]
                     /\ Top(buckets[a][j]) => Top(sk[a][j])
  <1> DEFINE sk == Swept(Context(f), pkt)
  <1>1. ASSUME NEW a \in Arrays, NEW j \in Indices
        PROVE  /\ BucketFine(a, j, sk[a][j], arrived)
               /\ sk[a][j][0] = buckets[a][j][0]
               /\ Top(buckets[a][j]) => Top(sk[a][j])
    <2> DEFINE b == buckets[a][j]
               s == sk[a][j]
    <2>1. s \in {b, Bucket_ReclaimStale(b, pkt)}
      BY DEF Swept
    <2>2. BucketFine(a, j, b, arrived)
      BY DEF StoreFine
    <2> HIDE DEF b, s
    <2>3. /\ b = [k \in Slots |-> b[k]]
          /\ \A k \in Slots : b[k].count \in Nat
      BY <2>2, BucketCount DEF BucketFine, ClockedBucket
    <2>4. /\ s[0] = b[0]
          /\ \A k \in Slots : s[k] \in {b[k], Clocked_init}
          /\ s = [k \in Slots |-> s[k]]
      BY <2>1, <2>3, SlotFacts DEF Bucket_ReclaimStale
    <2>5. \A k \in Slots : Fine(a, j, s[k], arrived)
      BY <2>2, <2>4, InitIsFine DEF BucketFine
    <2>6. s \in ClockedBucket
      BY <2>4, <2>5 DEF ClockedBucket, Fine
    <2>7. Top(b) => Top(s)
      <3>1. Clocked_init.count = 0
        BY DEF Clocked_init
      <3> QED
        BY <2>3, <2>4, <3>1, SlotFacts DEF Top
    <2> QED
      BY <2>4, <2>5, <2>6, <2>7 DEF BucketFine, b, s
  <1>2. sk \in [Arrays -> [Indices -> ClockedBucket]]
    <2>1. \A a \in Arrays, j \in Indices : sk[a][j] \in ClockedBucket
      BY <1>1 DEF BucketFine
    <2>2. sk = [a \in Arrays |-> [j \in Indices |-> sk[a][j]]]
      BY DEF Swept
    <2> HIDE DEF sk
    <2> QED
      BY <2>1, <2>2
  <1> HIDE DEF sk
  <1>3. StoreFine(sk, arrived)
    BY <1>1, <1>2 DEF StoreFine
  <1> QED
    BY <1>1, <1>3 DEF sk

\* One insertion, reclaim and branch together.
LEMMA InsertionStep ==
    ASSUME NEW f \in Flows, Seen(f), StoreFine(buckets, arrived), NEW pkt \in Nat,
           threshold1 \in Nat, Clocked_Insertion(Context(f), pkt)
    PROVE  StoreFine(buckets', arrived') /\ StoreStep(buckets, buckets')
  <1> DEFINE c == Context(f)
             sk == Swept(c, pkt)
  <1>1. /\ StoreFine(sk, arrived)
        /\ \A a \in Arrays, j \in Indices :
              /\ sk[a][j][0] = buckets[a][j][0]
              /\ Top(buckets[a][j]) => Top(sk[a][j])
    BY SweptIsFine
  <1>2. \/ \E a \in Arrays : HotHitIn(sk, c, pkt, a)
        \/ \E a \in Arrays, i \in Slots : FillIn(sk, c, pkt, a, i)
        \/ \E a \in Arrays, i \in Slots : ColdHitIn(sk, c, pkt, a, i)
        \/ LossyIn(sk, c)
    BY Zenon DEF Clocked_Insertion
  <1> HIDE DEF sk
  <1>3. StoreFine(buckets', arrived') /\ StoreStep(sk, buckets')
    BY <1>1, <1>2, HotHitStep, FillStep, ColdHitStep, LossyStep
  <1>4. StoreStep(buckets, buckets')
    BY <1>1, <1>3 DEF StoreStep, BucketStep
  <1> QED
    BY <1>3, <1>4

\* The threshold and the bookkeeping keep their types.
LEMMA BookkeepingStep ==
    ASSUME TypeOK, NEW f \in Flows, Seen(f), StoreFine(buckets, arrived), NEW pkt \in Nat,
           Clocked_Insertion(Context(f), pkt), StoreFine(buckets', arrived')
    PROVE  /\ f_max' \in 0 .. COUNT_MAX /\ threshold1' \in Nat
           /\ total_entries' \in 0 .. COUNT_MAX /\ eviction_map' \in Nat
  <1> DEFINE c == Context(f)
             sk == Swept(c, pkt)
  <1>0. /\ f_max \in 0 .. COUNT_MAX /\ threshold1 \in Nat
        /\ total_entries \in 0 .. COUNT_MAX /\ total_entries \in Int /\ eviction_map \in Nat
    BY CountAssumption DEF TypeOK
  <1>1. ASSUME NEW x \in Int
        PROVE  x % (COUNT_MAX + 1) \in 0 .. COUNT_MAX
    <2>1. COUNT_MAX + 1 \in Nat \ {0} /\ (COUNT_MAX + 1) - 1 = COUNT_MAX
      BY CountAssumption
    <2>2. x % (COUNT_MAX + 1) \in 0 .. (COUNT_MAX + 1) - 1
      BY <2>1, DivMod, Zenon
    <2> QED
      BY <2>1, <2>2
  <1>2. ASSUME NEW a \in Arrays, HotHitIn(sk, c, pkt, a)
        PROVE  /\ f_max' \in 0 .. COUNT_MAX /\ threshold1' \in Nat
               /\ UNCHANGED <<total_entries, eviction_map>>
    <2> DEFINE b == [Home(sk, c, a) EXCEPT ![0] = Clocked_Insert(@, pkt)]
               new == calculate_threshold(b[0].count)
    <2>1. /\ buckets' = [sk EXCEPT ![a][c.keys[a]] = b]
          /\ \/ UNCHANGED <<f_max, threshold1>>
             \/ f_max' = b[0].count /\ threshold1' \in {threshold1, new}
          /\ UNCHANGED <<total_entries, eviction_map>>
      BY <1>2 DEF HotHitIn
    <2>2. StoreFine(sk, arrived) /\ c.keys[a] \in Indices
      BY SweptIsFine, ContextType
    <2> HIDE DEF b, sk
    <2>3. buckets'[a][c.keys[a]] = b
      BY <2>1, <2>2 DEF StoreFine
    <2>4. Fine(a, c.keys[a], b[0], arrived')
      BY <2>2, <2>3, SlotFacts DEF StoreFine, BucketFine
    <2>5. b[0].count \in Nat /\ b[0].count \in 0 .. COUNT_MAX
      BY <2>4, EntryCount DEF Fine, ClockedEntry
    <2>6. new \in Nat
      BY <2>5, ThresholdMono
    <2> QED
      BY <1>0, <2>1, <2>5, <2>6
  <1>3. ASSUME NEW a \in Arrays, NEW i \in Slots, FillIn(sk, c, pkt, a, i)
        PROVE  /\ UNCHANGED <<f_max, threshold1, eviction_map>>
               /\ total_entries' \in 0 .. COUNT_MAX
    BY <1>0, <1>1, <1>3 DEF FillIn
  <1>4. ASSUME NEW a \in Arrays, NEW i \in Slots, ColdHitIn(sk, c, pkt, a, i)
        PROVE  UNCHANGED <<f_max, threshold1, total_entries, eviction_map>>
    BY <1>4 DEF ColdHitIn
  <1>5. ASSUME LossyIn(sk, c)
        PROVE  /\ UNCHANGED <<f_max, threshold1>>
               /\ total_entries' \in 0 .. COUNT_MAX
               /\ eviction_map' \in Nat
    <2> DEFINE last == MAX_ENTRY - 1
               a    == IF Home(sk, c, 0)[last].count < Home(sk, c, 1)[last].count THEN 0 ELSE 1
               e    == Entry_Adaptive_Lossy(Home(sk, c, a)[last])
               gone == IF e.count = 0 THEN 1 ELSE 0
    <2>1. /\ total_entries' = (total_entries - gone) % (COUNT_MAX + 1)
          /\ eviction_map' = eviction_map + gone
          /\ UNCHANGED <<f_max, threshold1>>
      BY <1>5, Zenon DEF LossyIn
    <2>2. gone \in {0, 1}
      OBVIOUS
    <2> HIDE DEF gone
    <2> QED
      BY <1>0, <1>1, <2>1, <2>2
  <1>6. \/ \E a \in Arrays : HotHitIn(sk, c, pkt, a)
        \/ \E a \in Arrays, i \in Slots : FillIn(sk, c, pkt, a, i)
        \/ \E a \in Arrays, i \in Slots : ColdHitIn(sk, c, pkt, a, i)
        \/ LossyIn(sk, c)
    BY Zenon DEF Clocked_Insertion
  <1> HIDE DEF sk
  <1> QED
    BY <1>0, <1>2, <1>3, <1>4, <1>5, <1>6

-----------------------------------------------------------------------------
(* The inductive invariant and the theorems.                               *)

IInv == TypeOK /\ StoreFine(buckets, arrived) /\ HeadIsLargest

\* The initial store is fine.
LEMMA IInvInit == Init => IInv
  <1> SUFFICES ASSUME Init PROVE IInv
    OBVIOUS
  <1>1. /\ buckets = [a \in Arrays |-> [j \in Indices |-> [i \in Slots |-> Clocked_init]]]
        /\ f_max = 0 /\ threshold1 = THRESHOLD_INIT /\ total_entries = 0
        /\ global_pkt_count = 0 /\ insert_counter = 0 /\ eviction_map = 0
        /\ arrived = [c \in Classes |-> 0]
    BY DEF Init
  <1>2. \A a \in Arrays, j \in Indices, i \in Slots :
            /\ buckets[a][j][i] = Clocked_init
            /\ Fine(a, j, buckets[a][j][i], arrived)
    BY <1>1, InitIsFine
  <1>3. Clocked_init \in ClockedEntry
    BY CountAssumption DEF Clocked_init, ClockedEntry
  <1>4. TypeOK
    BY <1>1, <1>3, CountAssumption DEF TypeOK
  <1>5. StoreFine(buckets, arrived)
    BY <1>2, <1>4 DEF StoreFine, BucketFine, ClockedBucket, TypeOK
  <1>6. HeadIsLargest
    BY <1>2, SlotFacts DEF HeadIsLargest, Clocked_init
  <1> QED
    BY <1>4, <1>5, <1>6 DEF IInv

\* Every step keeps the invariant, and what HotNeverFalls says of steps.
LEMMA IInvNext ==
    ASSUME IInv, [Next]_vars
    PROVE  /\ IInv'
           /\ \A a \in Arrays, j \in Indices :
                 LET hot == buckets[a][j][0].count IN
                 buckets'[a][j][0].count >= hot \/ Wraps(hot)
  <1> DEFINE Heads == \A a \in Arrays, j \in Indices :
                          LET hot == buckets[a][j][0].count IN
                          buckets'[a][j][0].count >= hot \/ Wraps(hot)
  <1>0. /\ TypeOK /\ StoreFine(buckets, arrived) /\ HeadIsLargest
        /\ \A a \in Arrays, j \in Indices, i \in Slots :
              /\ Fine(a, j, buckets[a][j][i], arrived)
              /\ buckets[a][j][i].count \in Nat
    <2>1. TypeOK /\ StoreFine(buckets, arrived) /\ HeadIsLargest
      BY DEF IInv
    <2> QED
      BY <2>1, EntryCount DEF StoreFine, BucketFine, Fine
  <1>1. CASE UNCHANGED <<sketch, total_entries, eviction_map, arrived>>
             /\ global_pkt_count' \in Nat /\ insert_counter' \in Nat
    <2>1. /\ buckets' = buckets /\ f_max' = f_max /\ threshold1' = threshold1
          /\ total_entries' = total_entries /\ eviction_map' = eviction_map
          /\ arrived' = arrived /\ global_pkt_count' \in Nat /\ insert_counter' \in Nat
      BY <1>1 DEF sketch
    <2>2. TypeOK'
      BY <1>0, <2>1 DEF TypeOK
    <2>3. StoreFine(buckets', arrived') /\ HeadIsLargest'
      BY <1>0, <2>1 DEF HeadIsLargest
    <2>4. Heads
      BY <1>0, <2>1, SlotFacts
    <2> QED
      BY <2>2, <2>3, <2>4 DEF IInv
  <1>2. CASE UNCHANGED vars
    BY <1>0, <1>1, <1>2 DEF vars, sketch, TypeOK
  <1>3. ASSUME Clock
        PROVE  global_pkt_count' \in Nat /\ insert_counter' \in Nat /\ current_pkt \in Nat
    <2>1. global_pkt_count + 1 \in Int /\ insert_counter \in Nat
      BY <1>0 DEF TypeOK
    <2>2. CLOCK_SPACE \in Nat \ {0}
      BY PBubbleAssumption
    <2>3. current_pkt \in 0 .. CLOCK_SPACE - 1
      BY <2>1, <2>2, DivMod, Zenon DEF current_pkt
    <2>4. current_pkt \in Nat
      BY <2>2, <2>3
    <2> QED
      BY <1>3, <2>1, <2>4 DEF Clock
  <1>4. ASSUME NEW f \in Flows, Refused(f)
        PROVE  IInv' /\ Heads
    BY <1>1, <1>3, <1>4 DEF Refused
  <1>5. ASSUME NEW f \in Flows, Admitted(f)
        PROVE  IInv' /\ Heads
    <2>1. /\ Clocked_Insertion(Context(f), current_pkt)
          /\ Seen(f)
          /\ global_pkt_count' \in Nat /\ insert_counter' \in Nat /\ current_pkt \in Nat
      BY <1>0, <1>3, <1>5 DEF Admitted, Seen, TypeOK
    <2>2. threshold1 \in Nat
      BY <1>0 DEF TypeOK
    <2>3. StoreFine(buckets', arrived') /\ StoreStep(buckets, buckets')
      BY <1>0, <2>1, <2>2, InsertionStep
    <2>4. TypeOK'
      <3>1. /\ f_max' \in 0 .. COUNT_MAX /\ threshold1' \in Nat
            /\ total_entries' \in 0 .. COUNT_MAX /\ eviction_map' \in Nat
        BY <1>0, <2>1, <2>3, BookkeepingStep
      <3>2. arrived' \in [Classes -> Nat]
        BY <2>1, SeenGrows
      <3> QED
        BY <2>1, <2>3, <3>1, <3>2 DEF TypeOK, StoreFine, ClockedBucket
    <2>5. Heads
      BY <2>3 DEF StoreStep, BucketStep
    <2>6. HeadIsLargest'
      <3> DEFINE limit == COUNT_MAX \div KICKOUT_MULTIPLIER
      <3>1. limit \in Nat
        BY CountAssumption, PBubbleAssumption, DivNat
      <3> HIDE DEF limit
      <3>2. \A x : Wraps(x) <=> x > limit
        BY DEF Wraps, limit
      <3> SUFFICES ASSUME \A c \in Classes : ~Wraps(arrived'[c]),
                          NEW a \in Arrays, NEW j \in Indices
                   PROVE  Top(buckets'[a][j])
        BY DEF HeadIsLargest, Top
      <3>3. \A c \in Classes : ~Wraps(arrived[c]) /\ arrived[c] \in Nat
        BY <2>1, <3>1, <3>2, SeenGrows
      <3>4. Top(buckets[a][j])
        BY <1>0, <3>3 DEF HeadIsLargest, Top
      <3>5. ~Wraps(buckets[a][j][0].count)
        <4> DEFINE n == buckets[a][j][0].count
        <4>1. n \in Nat
          BY <1>0, SlotFacts
        <4>2. n > 0 => \E g \in Flows : n <= arrived[Class(g)]
          BY <1>0, SlotFacts DEF Fine, Backed
        <4>3. \A g \in Flows : Class(g) \in Classes
          BY DEF Classes
        <4> HIDE DEF n
        <4>4. ~Wraps(n)
          BY <3>1, <3>2, <3>3, <4>1, <4>2, <4>3
        <4> QED
          BY <4>4 DEF n
      <3> QED
        BY <2>3, <3>4, <3>5 DEF StoreStep, BucketStep
    <2> QED
      BY <2>3, <2>4, <2>5, <2>6 DEF IInv
  <1> QED
    BY <1>2, <1>4, <1>5 DEF Next

\* The invariant holds throughout.
LEMMA Inductive == Spec => []IInv
  <1>1. IInv /\ [Next]_vars => IInv'
    BY IInvNext
  <1> QED
    BY IInvInit, <1>1, PTL DEF Spec

\* Counters stay within 32 bits and every slot holds a well-formed entry,
\* whatever reclaim, decay and promotion do.
THEOREM PTypeCorrect == Spec => []TypeOK
  <1>1. IInv => TypeOK
    BY DEF IInv
  <1> QED
    BY <1>1, Inductive, PTL

\* No counter exceeds the packets of a class that has its bucket.
THEOREM PCountersUnderestimate == Spec => []NoOvercount
  <1>1. IInv => NoOvercount
    BY DEF IInv, StoreFine, BucketFine, Fine, Backed, NoOvercount
  <1> QED
    BY <1>1, Inductive, PTL

\* Holes that reclaim leaves never put a larger counter below a smaller hot
\* one, while kickout's comparison does not wrap.
THEOREM HeadsLargest == Spec => []HeadIsLargest
  <1>1. IInv => HeadIsLargest
    BY DEF IInv
  <1> QED
    BY <1>1, Inductive, PTL

\* The hot count of a bucket falls only where kickout's comparison wraps.
THEOREM PHotCountsMonotone == Spec => HotNeverFalls
  <1> DEFINE Step == \A a \in Arrays, j \in Indices :
                         LET hot == buckets[a][j][0].count IN
                         buckets'[a][j][0].count >= hot \/ Wraps(hot)
  <1>1. IInv /\ [Next]_vars => [Step]_vars
    BY IInvNext
  <1> QED
    BY <1>1, Inductive, PTL DEF Spec, HotNeverFalls

-----------------------------------------------------------------------------
(* Retention: where each counter of the table goes.                        *)

ClockedStore == [Arrays -> [Indices -> ClockedBucket]]

\* Entry d is e, or e after a hit by packet pkt.
Same(d, e, pkt) == /\ <<d.id, d.l0fp, d.fingerprint>> = <<e.id, e.l0fp, e.fingerprint>>
                   /\ d.count >= e.count
                   /\ d.last_update_pkt \in {e.last_update_pkt, pkt}

Keeps(new, e, pkt) == \E x \in Arrays, y \in Indices, k \in Slots : Same(new[x][y][k], e, pkt)

\* How the tail of a bucket may lose e, which was at slot i of bucket j: by
\* decay, or because the bucket moved down.
Tail(sk, a, j, i, e) ==
    /\ i = MAX_ENTRY - 1
    /\ \/ eviction_map' > eviction_map
       \/ buckets'[a][j][i].count \in 1 .. e.count - 1
       \/ buckets'[a][j][1] = sk[a][j][0]

\* Every counter in use in sk is kept, or lost at the tail of its bucket.
Retained(sk, pkt) ==
    \A a \in Arrays, j \in Indices, i \in Slots :
        sk[a][j][i].count > 0 => \/ Keeps(buckets', sk[a][j][i], pkt)
                                 \/ Tail(sk, a, j, i, sk[a][j][i])

\* An entry that stays is kept, and so is one that is hit.
LEMMA SameFacts ==
    ASSUME NEW e \in ClockedEntry, NEW pkt \in Nat
    PROVE  Same(e, e, pkt) /\ Same(Clocked_Insert(e, pkt), e, pkt)
  <1>1. e.count \in Nat /\ e.count <= COUNT_MAX
    BY EntryCount
  <1>2. Entry_Insert(e).count >= e.count
    BY <1>1, CountAssumption DEF Entry_Insert, ClockedEntry
  <1>3. /\ Clocked_Insert(e, pkt).id = e.id /\ Clocked_Insert(e, pkt).l0fp = e.l0fp
        /\ Clocked_Insert(e, pkt).fingerprint = e.fingerprint
        /\ Clocked_Insert(e, pkt).count = Entry_Insert(e).count
        /\ Clocked_Insert(e, pkt).last_update_pkt = pkt
    BY DEF Clocked_Insert, Entry_Insert, ClockedEntry
  <1> QED
    BY <1>1, <1>2, <1>3 DEF Same

\* An entry of a store.
LEMMA InStore ==
    ASSUME NEW sk \in ClockedStore, NEW a \in Arrays, NEW j \in Indices
    PROVE  /\ sk[a][j] \in ClockedBucket
           /\ \A i \in Slots : sk[a][j][i] \in ClockedEntry /\ sk[a][j][i].count \in Nat
  <1>1. sk[a][j] \in ClockedBucket
    BY DEF ClockedStore
  <1> QED
    BY <1>1, EntryCount DEF ClockedBucket

\* One bucket changes, and keeps its own entries that are in use.
LEMMA OneBucketRetains ==
    ASSUME NEW sk \in ClockedStore, NEW pkt \in Nat, NEW x \in Arrays, NEW y \in Indices,
           NEW b, buckets' = [sk EXCEPT ![x][y] = b],
           \A i \in Slots : sk[x][y][i].count > 0 =>
                \/ \E k \in Slots : Same(b[k], sk[x][y][i], pkt)
                \/ Tail(sk, x, y, i, sk[x][y][i])
    PROVE  Retained(sk, pkt)
  <1> SUFFICES ASSUME NEW a \in Arrays, NEW j \in Indices, NEW i \in Slots,
                      sk[a][j][i].count > 0
               PROVE  Keeps(buckets', sk[a][j][i], pkt) \/ Tail(sk, a, j, i, sk[a][j][i])
    BY DEF Retained
  <1>1. CASE a = x /\ j = y
    <2>1. buckets'[x][y] = b
      BY DEF ClockedStore
    <2>2. CASE \E k \in Slots : Same(b[k], sk[x][y][i], pkt)
      BY <1>1, <2>1, <2>2 DEF Keeps
    <2>3. CASE Tail(sk, x, y, i, sk[x][y][i])
      BY <1>1, <2>3
    <2> QED
      BY <1>1, <2>2, <2>3
  <1>2. CASE a # x \/ j # y
    <2>1. buckets'[a][j] = sk[a][j]
      BY <1>2 DEF ClockedStore
    <2>2. Same(sk[a][j][i], sk[a][j][i], pkt)
      BY InStore, SameFacts
    <2> QED
      BY <2>1, <2>2 DEF Keeps
  <1> QED
    BY <1>1, <1>2

\* The hit of a hot entry keeps all.
LEMMA HotHitRetains ==
    ASSUME NEW f \in Flows, NEW sk \in ClockedStore, NEW pkt \in Nat,
           NEW a \in Arrays, HotHitIn(sk, Context(f), pkt, a)
    PROVE  Retained(sk, pkt)
  <1> DEFINE c == Context(f)
             j == c.keys[a]
             p == sk[a][j]
             b == [p EXCEPT ![0] = Clocked_Insert(@, pkt)]
  <1>1. j \in Indices /\ p \in ClockedBucket
        /\ \A k \in Slots : p[k] \in ClockedEntry
    BY ContextType, InStore
  <1>2. buckets' = [sk EXCEPT ![a][j] = b]
    BY DEF HotHitIn, Home
  <1> HIDE DEF j, p
  <1>3. \A k \in Slots : b[k] = IF k = 0 THEN Clocked_Insert(p[0], pkt) ELSE p[k]
    BY <1>1 DEF ClockedBucket
  <1> HIDE DEF b
  <1>4. \A k \in Slots : Same(b[k], p[k], pkt)
    BY <1>1, <1>3, SameFacts
  <1> QED
    BY <1>1, <1>2, <1>4, OneBucketRetains DEF p

\* A new entry takes an empty one.
LEMMA FillRetains ==
    ASSUME NEW f \in Flows, NEW sk \in ClockedStore, NEW pkt \in Nat,
           NEW a \in Arrays, NEW i \in Slots, FillIn(sk, Context(f), pkt, a, i)
    PROVE  Retained(sk, pkt)
  <1> DEFINE c == Context(f)
             j == c.keys[a]
             p == sk[a][j]
             b == [p EXCEPT ![i] = Clocked_Insert_with(c, pkt)]
  <1>1. j \in Indices /\ p \in ClockedBucket
        /\ \A k \in Slots : p[k] \in ClockedEntry /\ p[k].count \in Nat
    BY ContextType, InStore
  <1>2. buckets' = [sk EXCEPT ![a][j] = b]
    BY <1>1 DEF FillIn, ClockedStore
  <1>3. p[i].count = 0
    BY DEF FillIn, FirstStopIn, StopsIn, Bucket_Empty, Home
  <1> HIDE DEF j, p
  <1>4. \A k \in Slots : k # i => b[k] = p[k]
    BY <1>1 DEF ClockedBucket
  <1> HIDE DEF b
  <1>5. \A k \in Slots : p[k].count > 0 => Same(b[k], p[k], pkt)
    BY <1>1, <1>3, <1>4, SameFacts
  <1> QED
    BY <1>1, <1>2, <1>5, OneBucketRetains DEF p

\* Decay takes at least one from a counter in use.
LEMMA DecayTakes ==
    ASSUME NEW e \in ClockedEntry, threshold1 \in Nat, e.count > 0
    PROVE  Entry_Adaptive_Lossy(e).count \in 0 .. e.count - 1
  <1>1. e.count \in Nat
    BY EntryCount
  <1>2. ASSUME NEW n \in Nat \ {0}, NEW d \in {LOW_DIV, MEDIUM_DIV}
        PROVE  Minus(n, Quotient(n, d)) \in 0 .. n - 1
    <2>1. n \div d \in Nat
      BY <1>2, DivNat, PBubbleAssumption
    <2>2. Quotient(n, d) \in Nat \ {0}
      BY <2>1 DEF Quotient
    <2> HIDE DEF Quotient
    <2> QED
      BY <2>2 DEF Minus
  <1> DEFINE high == threshold1 > 0 /\ e.count > (threshold1 * LOSSY_HIGH) \div 100
             low  == threshold1 > 0 /\ e.count < (threshold1 * LOSSY_LOW) \div 100
             n    == IF e.count = 0 THEN 0
                     ELSE IF high THEN e.count - 1
                     ELSE Minus(e.count, Quotient(e.count, IF low THEN LOW_DIV ELSE MEDIUM_DIV))
  <1>3. Entry_Adaptive_Lossy(e) = [e EXCEPT !.count = n]
    BY Zenon DEF Entry_Adaptive_Lossy
  <1> HIDE DEF high, low
  <1>4. n \in 0 .. e.count - 1
    <2>1. Minus(e.count, Quotient(e.count, IF low THEN LOW_DIV ELSE MEDIUM_DIV)) \in 0 .. e.count - 1
      BY <1>1, <1>2
    <2> QED
      BY <1>1, <2>1
  <1> HIDE DEF n
  <1> QED
    BY <1>3, <1>4 DEF ClockedEntry

\* Decay takes from the tail of one bucket, and an entry it empties is counted.
LEMMA LossyRetains ==
    ASSUME NEW f \in Flows, NEW sk \in ClockedStore, NEW pkt \in Nat,
           threshold1 \in Nat, eviction_map \in Nat, LossyIn(sk, Context(f))
    PROVE  Retained(sk, pkt)
  <1> DEFINE c == Context(f)
             last == MAX_ENTRY - 1
             a == IF Home(sk, c, 0)[last].count < Home(sk, c, 1)[last].count THEN 0 ELSE 1
             j == c.keys[a]
             p == sk[a][j]
             e == Entry_Adaptive_Lossy(p[last])
             b == [p EXCEPT ![last] = e]
  <1>0. a \in Arrays
    BY DEF Arrays
  <1>1. /\ buckets' = [sk EXCEPT ![a][j][last] = e]
        /\ eviction_map' = eviction_map + (IF e.count = 0 THEN 1 ELSE 0)
    BY Zenon DEF LossyIn, Home
  <1> HIDE DEF a
  <1>2. /\ j \in Indices /\ p \in ClockedBucket /\ last \in Slots
        /\ \A k \in Slots : p[k] \in ClockedEntry /\ p[k].count \in Nat
    BY <1>0, ContextType, InStore, SlotFacts
  <1>3. buckets' = [sk EXCEPT ![a][j] = b]
    BY <1>0, <1>1, <1>2 DEF ClockedStore
  <1>4. p[last].count > 0 => e.count \in 0 .. p[last].count - 1
    BY <1>2, DecayTakes
  <1>5. buckets'[a][j] = b
    BY <1>0, <1>2, <1>3 DEF ClockedStore
  <1>6. p = sk[a][j]
    OBVIOUS
  <1> HIDE DEF j, p, e
  <1>7. b[last] = e /\ \A k \in Slots : k # last => b[k] = p[k]
    BY <1>2 DEF ClockedBucket
  <1> HIDE DEF b
  <1>8. ASSUME NEW i \in Slots, p[i].count > 0
        PROVE  (\E k \in Slots : Same(b[k], p[i], pkt)) \/ Tail(sk, a, j, i, p[i])
    <2>1. CASE i # last
      <3>1. Same(b[i], p[i], pkt)
        BY <1>2, <1>7, <2>1, SameFacts
      <3> QED
        BY <3>1
    <2>2. CASE i = last
      <3>1. buckets'[a][j][i] = e
        BY <1>5, <1>7, <2>2
      <3>2. eviction_map' > eviction_map \/ e.count \in 1 .. p[i].count - 1
        BY <1>1, <1>2, <1>4, <1>8, <2>2
      <3> QED
        BY <2>2, <3>1, <3>2 DEF Tail
    <2> QED
      BY <2>1, <2>2
  <1> QED
    BY <1>0, <1>2, <1>3, <1>6, <1>8, OneBucketRetains

\* The promoted entry and the two buckets it connects: every entry of both is
\* in one of them afterwards, but for the tail of the bucket that moves down.
LEMMA KickoutRetains ==
    ASSUME NEW b \in ClockedBucket, NEW n \in ClockedBucket
    PROVE  LET h == [Bucket_down_stairs(n, 0) EXCEPT ![0] = b[1]]
               r == Clocked_Remove(b, 1)
           IN  /\ h[0] = b[1] /\ h[1] = n[0]
               /\ \A k \in Slots : k = 1 \/ \E s \in Slots : r[s] = b[k]
               /\ \A k \in Slots : k = MAX_ENTRY - 1 \/ \E s \in Slots : h[s] = n[k]
  <1> DEFINE h == [Bucket_down_stairs(n, 0) EXCEPT ![0] = b[1]]
             r == Clocked_Remove(b, 1)
  <1>1. h[0] = b[1] /\ \A s \in Slots : s # 0 => h[s] = n[s - 1]
    BY SlotFacts DEF Bucket_down_stairs
  <1>2. \A s \in Slots : r[s] = IF s = MAX_ENTRY - 1 THEN Clocked_init
                                ELSE IF s >= 1 THEN b[s + 1] ELSE b[s]
    BY DEF Clocked_Remove
  <1> HIDE DEF h, r
  <1>3. h[1] = n[0]
    BY <1>1, SlotFacts
  <1>4. ASSUME NEW k \in Slots, k # 1
        PROVE  \E s \in Slots : r[s] = b[k]
    <2>1. CASE k = 0
      BY <1>2, <2>1, SlotFacts
    <2>2. CASE k # 0
      <3>1. k - 1 \in Slots /\ k - 1 >= 1 /\ k - 1 # MAX_ENTRY - 1 /\ (k - 1) + 1 = k
        BY <1>4, <2>2, SlotFacts, SizeAssumption
      <3> QED
        BY <1>2, <3>1
    <2> QED
      BY <2>1, <2>2
  <1>5. ASSUME NEW k \in Slots, k # MAX_ENTRY - 1
        PROVE  \E s \in Slots : h[s] = n[k]
    <2>1. k + 1 \in Slots /\ k + 1 # 0 /\ (k + 1) - 1 = k
      BY <1>5, SlotFacts
    <2> QED
      BY <1>1, <2>1
  <1> QED
    BY <1>1, <1>3, <1>4, <1>5 DEF h, r

\* A cold hit keeps all, but for the tail of the bucket that moves down.
LEMMA ColdHitRetains ==
    ASSUME NEW f \in Flows, Seen(f), NEW sk, StoreFine(sk, arrived), NEW pkt \in Nat,
           NEW a \in Arrays, NEW i \in Slots, ColdHitIn(sk, Context(f), pkt, a, i)
    PROVE  Retained(sk, pkt)
  <1> DEFINE c == Context(f)
             j == c.keys[a]
             p == Home(sk, c, a)
             q == [p EXCEPT ![i] = Clocked_Insert(@, pkt)]
             b == ColdBucket(sk, c, pkt, a, i)
             t == KickTarget(c, a, b[1])
             n == sk[1 - a][t]
             h == [Bucket_down_stairs(n, 0) EXCEPT ![0] = b[1]]
             r == Clocked_Remove(b, 1)
  <1>1. /\ i > 0
        /\ Match(sk, c, a, i)
        /\ \/ buckets' = [sk EXCEPT ![a][j] = b]
           \/ buckets' = [sk EXCEPT ![1 - a][t] = h, ![a][j] = r]
    BY DEF ColdHitIn, ColdBucket
  <1>2. /\ j \in Indices /\ p = sk[a][j] /\ p \in ClockedBucket
        /\ \A k \in Slots : p[k] \in ClockedEntry /\ p[k].count \in Nat
        /\ 1 - a \in Arrays /\ 1 - a # a
        /\ sk \in ClockedStore
    BY HomeIsFine DEF BucketFine, Arrays, StoreFine, ClockedStore
  <1>3. BucketFine(a, j, b, arrived')
    BY <1>1, ColdBucketStep
  <1>4. t \in Indices
    <2>1. Fine(a, j, b[1], arrived')
      BY <1>3, SlotFacts DEF BucketFine
    <2> QED
      BY <2>1, EntryCount, KickTargetType DEF Fine
  <1>5. b = Bucket_BucketSort(q, i)
    BY DEF ColdBucket
  <1> HIDE DEF b, p, j
  <1>6. \A s \in Slots : q[s] = IF s = i THEN Clocked_Insert(p[i], pkt) ELSE p[s]
    BY <1>2 DEF ClockedBucket
  <1> HIDE DEF q
  <1>7. \A s \in Slots : Same(q[s], p[s], pkt)
    BY <1>2, <1>6, SameFacts
  <1>8. \A s \in Slots : \E k \in Slots : Same(b[k], p[s], pkt)
    BY <1>5, <1>7, SortKeepsAll
  <1>9. CASE buckets' = [sk EXCEPT ![a][j] = b]
    BY <1>2, <1>8, <1>9, OneBucketRetains
  <1>10. CASE buckets' = [sk EXCEPT ![1 - a][t] = h, ![a][j] = r]
    <2> HIDE DEF t
    <2>0. n = sk[1 - a][t]
      OBVIOUS
    <2> HIDE DEF n
    <2>1. b \in ClockedBucket /\ n \in ClockedBucket
      BY <1>2, <1>3, <1>4, <2>0, InStore DEF BucketFine
    <2>2. /\ h[0] = b[1] /\ h[1] = n[0]
          /\ \A k \in Slots : k = 1 \/ \E s \in Slots : r[s] = b[k]
          /\ \A k \in Slots : k = MAX_ENTRY - 1 \/ \E s \in Slots : h[s] = n[k]
      BY <2>1, KickoutRetains
    <2> HIDE DEF h, r
    <2>3. /\ buckets'[1 - a][t] = h /\ buckets'[a][j] = r
          /\ \A x \in Arrays, y \in Indices :
                (x # a \/ y # j) /\ (x # 1 - a \/ y # t) => buckets'[x][y] = sk[x][y]
      BY <1>2, <1>4, <1>10 DEF ClockedStore
    <2> SUFFICES ASSUME NEW x \in Arrays, NEW y \in Indices, NEW s \in Slots,
                        sk[x][y][s].count > 0
                 PROVE  \/ Keeps(buckets', sk[x][y][s], pkt)
                        \/ Tail(sk, x, y, s, sk[x][y][s])
      BY DEF Retained
    <2>4. sk[x][y][s] \in ClockedEntry
      BY <1>2, InStore
    <2>5. CASE x = a /\ y = j
      <3>1. PICK k \in Slots : Same(b[k], p[s], pkt)
        BY <1>8
      <3>2. \/ Same(buckets'[1 - a][t][0], p[s], pkt)
            \/ \E m \in Slots : Same(buckets'[a][j][m], p[s], pkt)
        BY <2>2, <2>3, <3>1
      <3> QED
        BY <1>2, <1>4, <2>5, <3>2, SlotFacts DEF Keeps
    <2>6. CASE x = 1 - a /\ y = t
      <3>1. CASE s = MAX_ENTRY - 1
        <4>1. buckets'[x][y][1] = sk[x][y][0]
          BY <2>0, <2>2, <2>3, <2>6
        <4> QED
          BY <3>1, <4>1 DEF Tail
      <3>2. CASE s # MAX_ENTRY - 1
        <4>1. PICK m \in Slots : buckets'[x][y][m] = sk[x][y][s]
          BY <2>0, <2>2, <2>3, <2>6, <3>2
        <4>2. Same(buckets'[x][y][m], sk[x][y][s], pkt)
          BY <2>4, <4>1, SameFacts
        <4> QED
          BY <4>2 DEF Keeps
      <3> QED
        BY <3>1, <3>2
    <2>7. CASE (x # a \/ y # j) /\ (x # 1 - a \/ y # t)
      <3>1. Same(buckets'[x][y][s], sk[x][y][s], pkt)
        BY <2>3, <2>4, <2>7, SameFacts
      <3> QED
        BY <3>1 DEF Keeps
    <2> QED
      BY <2>5, <2>6, <2>7
  <1> QED
    BY <1>1, <1>9, <1>10

\* Every branch keeps what it finds in the store, but for a tail.
LEMMA InsertionRetains ==
    ASSUME NEW f \in Flows, Seen(f), StoreFine(buckets, arrived), NEW pkt \in Nat,
           threshold1 \in Nat, eviction_map \in Nat, Clocked_Insertion(Context(f), pkt)
    PROVE  Retained(Swept(Context(f), pkt), pkt)
  <1> DEFINE c == Context(f)
             sk == Swept(c, pkt)
  <1>1. StoreFine(sk, arrived)
    BY SweptIsFine
  <1>2. \/ \E a \in Arrays : HotHitIn(sk, c, pkt, a)
        \/ \E a \in Arrays, i \in Slots : FillIn(sk, c, pkt, a, i)
        \/ \E a \in Arrays, i \in Slots : ColdHitIn(sk, c, pkt, a, i)
        \/ LossyIn(sk, c)
    BY Zenon DEF Clocked_Insertion
  <1> HIDE DEF sk
  <1>3. sk \in ClockedStore
    BY <1>1 DEF StoreFine, ClockedStore
  <1>4. Retained(sk, pkt)
    BY <1>1, <1>2, <1>3, HotHitRetains, FillRetains, ColdHitRetains, LossyRetains
  <1> QED
    BY <1>4 DEF sk

\* Reclaim spares an entry that is fresh by the clock or not small.
Fresh(e, pkt) == \/ e.last_update_pkt + STALE_PACKETS \in pkt .. CLOCK_SPACE - 1
                 \/ e.count * RECLAIM_COUNT_FACTOR >= threshold1

\* Such an entry is not stale.
LEMMA FreshIsNotStale ==
    ASSUME NEW e \in ClockedEntry, NEW pkt \in Nat, threshold1 \in Nat, Fresh(e, pkt)
    PROVE  ~Entry_IsStale(e, pkt)
  <1>1. /\ e.count \in Nat /\ e.last_update_pkt \in Nat
        /\ STALE_PACKETS \in Nat /\ CLOCK_SPACE \in Nat \ {0}
        /\ RECLAIM_COUNT_FACTOR \in Nat \ {0}
    BY EntryCount, PBubbleAssumption DEF ClockedEntry
  <1>2. CASE e.last_update_pkt + STALE_PACKETS \in pkt .. CLOCK_SPACE - 1
    <2> DEFINE end == e.last_update_pkt + STALE_PACKETS
    <2>1. end \in 0 .. CLOCK_SPACE - 1 /\ pkt <= end
      BY <1>1, <1>2
    <2> HIDE DEF end
    <2>2. end % CLOCK_SPACE = end
      BY <1>1, <2>1, ModSmall
    <2>3. end \in Int
      BY <1>1, <2>1
    <2>4. ~(pkt > end)
      BY <2>1, <2>3
    <2> QED
      BY <2>2, <2>4 DEF Entry_IsStale, end
  <1>3. CASE e.count * RECLAIM_COUNT_FACTOR >= threshold1
    <2>1. e.count * RECLAIM_COUNT_FACTOR \in Int /\ threshold1 \in Int
      BY <1>1
    <2>2. threshold1 \div RECLAIM_COUNT_FACTOR
              <= (e.count * RECLAIM_COUNT_FACTOR) \div RECLAIM_COUNT_FACTOR
      BY <1>1, <1>3, <2>1, DivMono
    <2>3. threshold1 \div RECLAIM_COUNT_FACTOR <= e.count
      BY <1>1, <2>2, MulDiv
    <2>4. threshold1 \div RECLAIM_COUNT_FACTOR \in Nat
      BY <1>1, DivNat
    <2>5. ~(e.count < threshold1 \div RECLAIM_COUNT_FACTOR)
      BY <1>1, <2>3, <2>4
    <2> QED
      BY <2>5 DEF Entry_IsStale
  <1> QED
    BY <1>2, <1>3 DEF Fresh

\* Reclaim leaves the hot entries and those that are fresh.
LEMMA NotSwept ==
    ASSUME NEW f \in Flows, StoreFine(buckets, arrived), NEW pkt \in Nat, threshold1 \in Nat,
           NEW a \in Arrays, NEW j \in Indices, NEW i \in Slots,
           i = 0 \/ Fresh(buckets[a][j][i], pkt)
    PROVE  Swept(Context(f), pkt)[a][j][i] = buckets[a][j][i]
  <1> DEFINE b == buckets[a][j]
             s == Swept(Context(f), pkt)[a][j]
  <1>1. s \in {b, Bucket_ReclaimStale(b, pkt)}
    BY DEF Swept
  <1>2. b[i] \in ClockedEntry
    BY DEF StoreFine, BucketFine, ClockedBucket
  <1>3. i = 0 \/ Fresh(b[i], pkt)
    OBVIOUS
  <1> HIDE DEF b, s
  <1>4. i = 0 \/ ~Entry_IsStale(b[i], pkt)
    BY <1>2, <1>3, FreshIsNotStale
  <1>5. ~(i > 0 /\ Entry_IsStale(b[i], pkt))
    BY <1>4
  <1>6. Bucket_ReclaimStale(b, pkt)[i] = b[i]
    BY <1>5 DEF Bucket_ReclaimStale
  <1> QED
    BY <1>1, <1>6 DEF b, s

\* What FreshIsKept says of one step.
FreshStays ==
    \A a \in Arrays, j \in Indices, i \in Slots :
        LET e == buckets[a][j][i] IN
        /\ e.count > 0
        /\ \/ e.last_update_pkt + STALE_PACKETS \in global_pkt_count' .. CLOCK_SPACE - 1
           \/ e.count * RECLAIM_COUNT_FACTOR >= threshold1
        => \/ Kept(e)
           \/ /\ i = MAX_ENTRY - 1
              /\ \/ eviction_map' > eviction_map
                 \/ buckets'[a][j][i].count \in 1 .. e.count - 1
                 \/ buckets'[a][j][1] = buckets[a][j][0]

\* An admitted packet loses a fresh counter only at a tail, a refused one none.
LEMMA FreshStaysNext ==
    ASSUME IInv, Next
    PROVE  FreshStays
  <1>0. /\ TypeOK /\ StoreFine(buckets, arrived) /\ threshold1 \in Nat /\ eviction_map \in Nat
        /\ arrived \in [Classes -> Nat]
    BY DEF IInv, TypeOK
  <1>1. ASSUME Clock
        PROVE  global_pkt_count' = current_pkt /\ current_pkt \in Nat
    <2>1. global_pkt_count + 1 \in Int
      BY <1>0 DEF TypeOK
    <2>2. CLOCK_SPACE \in Nat \ {0}
      BY PBubbleAssumption
    <2>3. current_pkt \in 0 .. CLOCK_SPACE - 1
      BY <2>1, <2>2, DivMod, Zenon DEF current_pkt
    <2> QED
      BY <1>1, <2>2, <2>3 DEF Clock
  <1>2. \A e : Kept(e) <=> Keeps(buckets', e, global_pkt_count')
    BY DEF Kept, Keeps, Same
  <1> SUFFICES ASSUME NEW a \in Arrays, NEW j \in Indices, NEW i \in Slots,
                      buckets[a][j][i].count > 0,
                      Fresh(buckets[a][j][i], global_pkt_count')
               PROVE  \/ Kept(buckets[a][j][i])
                      \/ Tail(buckets, a, j, i, buckets[a][j][i])
    BY DEF FreshStays, Fresh, Tail
  <1>3. buckets[a][j][i] \in ClockedEntry
    BY <1>0 DEF StoreFine, BucketFine, ClockedBucket
  <1>4. ASSUME NEW f \in Flows, Refused(f)
        PROVE  Kept(buckets[a][j][i])
    <2>1. buckets' = buckets /\ global_pkt_count' \in Nat
      BY <1>1, <1>4 DEF Refused, sketch
    <2>2. Same(buckets'[a][j][i], buckets[a][j][i], global_pkt_count')
      BY <1>3, <2>1, SameFacts
    <2> QED
      BY <1>2, <2>2 DEF Keeps
  <1>5. ASSUME NEW f \in Flows, Admitted(f)
        PROVE  Kept(buckets[a][j][i]) \/ Tail(buckets, a, j, i, buckets[a][j][i])
    <2> DEFINE pkt == current_pkt
               sk == Swept(Context(f), pkt)
    <2>1. /\ Clocked_Insertion(Context(f), pkt)
          /\ Seen(f)
          /\ global_pkt_count' = pkt /\ pkt \in Nat
      BY <1>0, <1>1, <1>5 DEF Admitted, Seen
    <2>2. Retained(sk, pkt)
      BY <1>0, <2>1, InsertionRetains
    <2>3. sk[a][j][i] = buckets[a][j][i]
      BY <1>0, <2>1, NotSwept
    <2>4. sk[a][j][0] = buckets[a][j][0]
      BY <1>0, <2>1, NotSwept, SlotFacts
    <2> HIDE DEF sk
    <2>5. \/ Keeps(buckets', buckets[a][j][i], pkt)
          \/ Tail(sk, a, j, i, buckets[a][j][i])
      BY <2>2, <2>3 DEF Retained
    <2> QED
      BY <1>2, <2>1, <2>4, <2>5 DEF Tail
  <1> QED
    BY <1>4, <1>5 DEF Next

\* A cold counter that was hit recently, or that is not small against the
\* threshold, is lost only from the tail of its bucket, whatever reclaim,
\* decay, kickout and the wrap of the clock do.
THEOREM FreshCountersAreKept == Spec => FreshIsKept
  <1>1. IInv /\ [Next]_vars => [FreshStays]_vars
    BY FreshStaysNext
  <1> QED
    BY <1>1, Inductive, PTL DEF Spec, FreshIsKept, FreshStays
=============================================================================
