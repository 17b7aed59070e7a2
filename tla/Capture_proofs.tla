--------------------------- MODULE Capture_proofs ---------------------------
(***************************************************************************)
(* What libpcap-bubble keeps and prints, for any traffic, any size of the  *)
(* sketch, any number of signals, and whichever call fails.                *)
(***************************************************************************)
EXTENDS Capture, IntegerFacts

(* The handle.                                                             *)

Capturing == {"dispatch", "insert", "stats", "display", "forget"}

\* Which handle there is, and whether the handler knows it, at each point.
HandleInv ==
    /\ pc \in Capturing \union {"open", "filter", "close", "done"}
    /\ pc = "open" => ~global_handle
    /\ pc \in Capturing \union {"filter"} => handle = "open"
    /\ pc = "close" => ~global_handle
    /\ pc \in {"open", "filter"} => ret = {} /\ total_packets = 0
    /\ pc = "done" /\ global_handle => ret = {} /\ total_packets = 0

\* At the start there is no handle.
LEMMA HandleInvInit == Init => HandleInv
  BY DEF Init, HandleInv, Capturing

\* The capture loop goes on or ends, but does nothing else.
LEMMA LoopTest == while_keep_running(keep_running) \in {"dispatch", "display"}
  BY DEF while_keep_running

\* Every step of main and every signal keeps it.
LEMMA HandleInvNext == HandleInv /\ [Next]_vars => HandleInv'
  <1> SUFFICES ASSUME HandleInv, [Next]_vars PROVE HandleInv'
    OBVIOUS
  <1> USE DEF HandleInv, Capturing, Goto
  <1>1. CASE Open
    BY <1>1 DEF Open, stats
  <1>2. CASE SetFilter
    BY <1>2, LoopTest DEF SetFilter, stats
  <1>3. CASE Dispatched
    BY <1>3 DEF Dispatched, setup
  <1>4. CASE Stats
    <2>1. /\ pc = "stats" /\ pc' \in {"dispatch", "display"} /\ UNCHANGED handle
      BY <1>4, LoopTest DEF Stats, setup
    <2> QED
      BY <2>1
  <1>5. CASE display_results
    BY <1>5 DEF display_results, setup
  <1>6. CASE ForgetHandle
    BY <1>6 DEF ForgetHandle
  <1>7. CASE Close
    BY <1>7 DEF Close
  <1>8. CASE InsertPacket
    BY <1>8 DEF InsertPacket, setup
  <1>9. CASE CountOther
    BY <1>9 DEF CountOther, Count, setup
  <1>10. ASSUME NEW f \in Flows, CountPacket(f)
         PROVE  HandleInv'
    BY <1>10 DEF CountPacket, Count, setup
  <1>11. CASE signal_handler
    BY <1>11 DEF signal_handler, setup, stats
  <1>12. CASE UNCHANGED vars
    BY <1>12 DEF vars, setup, stats
  <1> QED
    BY <1>1, <1>2, <1>3, <1>4, <1>5, <1>6, <1>7, <1>8, <1>9, <1>10, <1>11, <1>12
       DEF Next, Main

\* The handler never breaks the loop of a handle that main has closed, unless
\* the filter failed and main is already leaving.
THEOREM HandlerIsSafe == Spec => []SignalFindsOpenHandle
  <1>1. HandleInv => SignalFindsOpenHandle
    BY DEF HandleInv, Capturing, SignalFindsOpenHandle
  <1> QED
    BY <1>1, HandleInvInit, HandleInvNext, PTL DEF Spec

-----------------------------------------------------------------------------
(* UBubble takes the operators of BubbleSketch, and with them what is      *)
(* proved of them without the powers of two of the kernel programs.        *)

Sketch == INSTANCE BubbleSketch_proofs WITH Flows <- Strings, MAX_BUCKETS <- bucket_num

\* What the facts about BubbleSketch assume holds of UBubble's constants.
LEMMA SketchAssumptions ==
    Sketch!HashAssumption /\ Sketch!SizeAssumption /\ Sketch!CountAssumption
  BY UBubbleAssumption
     DEF Sketch!HashAssumption, Sketch!SizeAssumption, Sketch!CountAssumption

\* Both instances of BubbleSketch have the same operators.
LEMMA SameOperators ==
    /\ Sketch!Slots = Slots /\ Sketch!Arrays = Arrays /\ Sketch!Indices = Indices
    /\ Sketch!Entry = Entry /\ Sketch!Bucket = Bucket
    /\ Sketch!Entry_init = Entry_init
    /\ \A e : Sketch!Entry_Insert(e) = Entry_Insert(e)
    /\ \A e : Sketch!Entry_Lossy(e) = Entry_Lossy(e)
    /\ \A c : Sketch!Entry_Insert_with(c) = Entry_Insert_with(c)
    /\ \A f : Sketch!Context(f) = Context(f)
    /\ \A fp : Sketch!Tag(fp) = Tag(fp)
    /\ \A n : Sketch!calculate_threshold(n) = calculate_threshold(n)
    /\ \A c, a, e : Sketch!KickTarget(c, a, e) = KickTarget(c, a, e)
  BY DEF Sketch!Slots, Slots, Sketch!Arrays, Arrays, Sketch!Indices, Indices,
         Sketch!Entry, Entry, Sketch!Bucket, Bucket, Sketch!Entry_init, Entry_init,
         Sketch!Entry_Insert, Entry_Insert, Sketch!Entry_Lossy, Entry_Lossy,
         Sketch!Entry_Insert_with, Entry_Insert_with,
         Sketch!Context, Context, Sketch!Tag, Tag,
         Sketch!calculate_threshold, calculate_threshold, Sketch!KickTarget, KickTarget

\* Nor do they differ in how they sort a bucket and move its entries down,
LEMMA SameBucketOperators ==
    /\ \A b, i : Sketch!Bucket_BucketSort(b, i) = Bucket_BucketSort(b, i)
    /\ \A b, i : Sketch!Bucket_down_stairs(b, i) = Bucket_down_stairs(b, i)
  BY DEF Sketch!Slots, Slots, Sketch!Bucket_BucketSort, Bucket_BucketSort,
         Sketch!Bucket_down_stairs, Bucket_down_stairs

\* nor in what they say a bucket holds.
LEMMA SameSums ==
    /\ \A g, S : Sketch!SumFunctionOnSet(g, S) = SumFunctionOnSet(g, S)
    /\ \A e, t : Sketch!Part(e, t) = Part(e, t)
    /\ \A b, t : Sketch!Held(b, t) = Held(b, t)
  <1>1. \A g, S : Sketch!SumFunctionOnSet(g, S) = SumFunctionOnSet(g, S)
    BY DEF SumFunctionOnSet, FoldFunctionOnSet, MapThenFoldSet,
           Sketch!SumFunctionOnSet, Sketch!FoldFunctionOnSet, Sketch!MapThenFoldSet
  <1>2. \A e, t : Sketch!Part(e, t) = Part(e, t)
    BY DEF Sketch!Part, Part
  <1>3. ASSUME NEW b, NEW t
        PROVE  Sketch!Held(b, t) = Held(b, t)
    <2>1. [i \in Slots |-> Sketch!Part(b[i], t)] = [i \in Slots |-> Part(b[i], t)]
      BY <1>2
    <2>2. Sketch!Held(b, t)
              = Sketch!SumFunctionOnSet([i \in Slots |-> Sketch!Part(b[i], t)], Slots)
      BY SameOperators DEF Sketch!Held
    <2> QED
      BY <1>1, <2>1, <2>2 DEF Held
  <1> QED
    BY <1>1, <1>2, <1>3

-----------------------------------------------------------------------------
(* Buckets of strings.                                                     *)

Descending(b) == \A k \in Slots \ {0} : b[k].count <= b[k - 1].count

last == MAX_ENTRY - 1

\* The slots and the two arrays, as numbers.
LEMMA SlotFacts ==
    /\ MAX_ENTRY \in Nat /\ MAX_ENTRY > 2
    /\ 0 \in Slots /\ 1 \in Slots /\ last \in Slots
    /\ \A k \in Slots : k \in Nat /\ k <= last /\ (k # 0 => k - 1 \in Slots)
    /\ \A a \in Arrays : 1 - a \in Arrays /\ a # 1 - a
  BY UBubbleAssumption DEF Slots, Arrays, last

\* The context of a string is well-typed.
LEMMA StringContext ==
    ASSUME NEW s \in Strings
    PROVE  /\ Context(s).key = s
           /\ Context(s).fp \in Nat
           /\ Tag(Context(s).fp) \in Nat /\ Tag(Context(s).fp) = TagOf(s)
           /\ \A a \in Arrays : /\ Context(s).keys[a] \in Indices
                                /\ Context(s).hash_value[a] \in Int
  BY SketchAssumptions, SameOperators, Sketch!ContextType DEF TagOf

\* Counting, decaying and setting an entry give an entry.
LEMMA Entries ==
    /\ Entry_init \in Entry
    /\ \A e \in Entry : Entry_Insert(e) \in Entry /\ Entry_Lossy(e) \in Entry
    /\ \A s \in Strings : Entry_Insert_with(Context(s)) \in Entry
    /\ \A b \in Bucket : \A k \in Slots : b[k] \in Entry /\ b[k].count \in 0 .. COUNT_MAX
  <1>1. \A b \in Bucket : \A k \in Slots : b[k] \in Entry /\ b[k].count \in 0 .. COUNT_MAX
    BY DEF Bucket, Entry
  <1> QED
    BY <1>1, SketchAssumptions, SameOperators, Sketch!EntryTypes

\* Sorting a bucket whose slot i has just counted.
LEMMA SortFacts ==
    ASSUME NEW b \in Bucket, NEW i \in Slots
    PROVE  LET n == [b EXCEPT ![i] = Entry_Insert(@)]
               s == Bucket_BucketSort(n, i)
           IN  /\ n \in Bucket /\ s \in Bucket
               /\ \A k \in Slots : \E m \in Slots : s[k] = n[m]
               /\ i > 0 /\ Descending(b) => Descending(s)
               /\ \A t : Held(s, t) = Held(n, t)
  <1> DEFINE n == [b EXCEPT ![i] = Entry_Insert(@)]
             s == Bucket_BucketSort(n, i)
  <1>1. n \in Bucket
    BY Entries DEF Bucket
  <1>2. ASSUME i > 0, Descending(b) PROVE Descending(s)
    <2>1. Sketch!Descending(b)
      BY <1>2, SameOperators DEF Descending, Sketch!Descending
    <2>2. Sketch!Descending(Sketch!Bucket_BucketSort([b EXCEPT ![i] = Sketch!Entry_Insert(@)], i))
      BY <1>2, <2>1, SketchAssumptions, SameOperators, Sketch!SortSorts
    <2>3. [b EXCEPT ![i] = Sketch!Entry_Insert(@)] = n
      BY SameOperators
    <2>4. Sketch!Descending(s)
      BY <2>2, <2>3, SameBucketOperators, Zenon
    <2> QED
      BY <2>4, SameOperators DEF Descending, Sketch!Descending
  <1> HIDE DEF n
  <1>3. s \in Bucket /\ \A k \in Slots : \E m \in Slots : s[k] = n[m]
    <2>1. /\ Sketch!Bucket_BucketSort(n, i) \in Bucket
          /\ \A k \in Slots : \E m \in Slots : Sketch!Bucket_BucketSort(n, i)[k] = n[m]
      BY <1>1, SketchAssumptions, SameOperators, Sketch!SortRearranges
    <2>2. Sketch!Bucket_BucketSort(n, i) = s
      BY SameBucketOperators
    <2> HIDE DEF s
    <2> QED
      BY <2>1, <2>2, Zenon
  <1>4. ASSUME NEW t PROVE Held(s, t) = Held(n, t)
    BY <1>1, SketchAssumptions, SameOperators, SameBucketOperators, SameSums, Sketch!HeldSort
  <1> QED
    BY <1>1, <1>2, <1>3, <1>4 DEF n

\* What a bucket holds, and how it changes when one entry does.
LEMMA HeldFacts ==
    ASSUME NEW b \in Bucket, NEW t
    PROVE  /\ Held(b, t) \in Nat
           /\ \A i \in Slots : Part(b[i], t) \in Nat
           /\ \A i \in Slots, e \in Entry :
                 /\ [b EXCEPT ![i] = e] \in Bucket
                 /\ Held([b EXCEPT ![i] = e], t) = Held(b, t) + Part(e, t) - Part(b[i], t)
  <1>1. Held(b, t) \in Nat /\ \A i \in Slots : Part(b[i], t) \in Nat
    BY SketchAssumptions, SameOperators, SameSums, Sketch!HeldType
  <1>2. \A i \in Slots, e \in Entry :
                 /\ [b EXCEPT ![i] = e] \in Bucket
                 /\ Held([b EXCEPT ![i] = e], t) = Held(b, t) + Part(e, t) - Part(b[i], t)
    BY SketchAssumptions, SameOperators, SameSums, Sketch!HeldPut
  <1> QED
    BY <1>1, <1>2

\* Pushing an entry in at the head of a bucket.
LEMMA PushFacts ==
    ASSUME NEW b \in Bucket, NEW e \in Entry
    PROVE  LET p == [Bucket_down_stairs(b, 0) EXCEPT ![0] = e]
           IN  /\ p \in Bucket
               /\ \A k \in Slots : p[k] = e \/ \E m \in Slots : p[k] = b[m]
               /\ Descending(b) /\ e.count > b[0].count => Descending(p)
               /\ \A t : Held(p, t) = Held(b, t) + Part(e, t) - Part(b[last], t)
  <1> DEFINE p == [Bucket_down_stairs(b, 0) EXCEPT ![0] = e]
             q == [Sketch!Bucket_down_stairs(b, 0) EXCEPT ![0] = e]
  <1>0. p = q
    BY SameBucketOperators
  <1>1. q \in Bucket /\ \A k \in Slots : q[k] = e \/ \E m \in Slots : q[k] = b[m]
    BY SketchAssumptions, SameOperators, Sketch!PushKeeps
  <1>2. ASSUME Descending(b), e.count > b[0].count PROVE Descending(q)
    <2>1. Sketch!Descending(b)
      BY <1>2, SameOperators DEF Descending, Sketch!Descending
    <2>2. Sketch!Descending(q)
      BY <1>2, <2>1, SketchAssumptions, SameOperators, Sketch!PushSorts
    <2> QED
      BY <2>2, SameOperators DEF Descending, Sketch!Descending
  <1>3. ASSUME NEW t
        PROVE  Held(q, t) = Held(b, t) + Part(e, t) - Part(b[last], t)
    BY SketchAssumptions, SameOperators, SameSums, Sketch!HeldPush DEF last
  <1> HIDE DEF p, q
  <1> QED
    BY <1>0, <1>1, <1>2, <1>3 DEF p

\* The removal that leaves the last entry beside its copy.
LEMMA CopyingFacts ==
    ASSUME NEW b \in Bucket
    PROVE  LET r == Copying_Remove(b, 1)
           IN  /\ r \in Bucket
               /\ \A k \in Slots : \E m \in Slots : r[k] = b[m]
               /\ Descending(b) => Descending(r)
               /\ \A t : Held(r, t) = Held(b, t) + Part(b[last], t) - Part(b[1], t)
  <1> DEFINE r == Copying_Remove(b, 1)
  <1>1. /\ \A k \in 0 .. 1 - 1 : k \in Slots /\ r[k] = b[k]
        /\ \A k \in 1 .. MAX_ENTRY - 2 : k \in Slots /\ k + 1 \in Slots /\ r[k] = b[k + 1]
        /\ r[last] = b[last]
    BY SlotFacts DEF Copying_Remove, Slots, last
  <1>2. \A k \in Slots : k = 0 \/ k \in 1 .. MAX_ENTRY - 2 \/ k = last
    BY SlotFacts DEF Slots, last
  <1>3. \A k \in Slots : \E m \in Slots : r[k] = b[m]
    BY <1>1, <1>2, SlotFacts
  <1>4. r \in Bucket
    <2>1. r = [k \in Slots |-> r[k]]
      BY DEF Copying_Remove
    <2> HIDE DEF r
    <2> QED
      BY <1>3, <2>1 DEF Bucket
  <1>5. ASSUME Descending(b), NEW k \in Slots \ {0}
        PROVE  r[k].count <= r[k - 1].count
    <2> DEFINE x == k - 1
    <2>1. /\ x \in Slots /\ k \in Nat /\ x = k - 1 /\ k = x + 1
          /\ \A m \in Slots : b[m].count \in Nat
      BY SlotFacts, Entries
    <2>2. \A m \in Slots : m # 0 => b[m].count <= b[m - 1].count
      BY <1>5 DEF Descending
    <2> HIDE DEF r
    <2>3. CASE k = 1
      <3>1. r[0] = b[0] /\ r[1] = b[2] /\ 2 \in Slots /\ 1 \in Slots /\ 0 \in Slots
        BY <1>1, SlotFacts
      <3>2. b[2].count <= b[1].count /\ b[1].count <= b[0].count
        BY <2>2, <3>1
      <3> QED
        BY <2>1, <2>3, <3>1, <3>2
    <2>4. CASE k # 1 /\ k # last
      <3>1. r[k] = b[k + 1] /\ r[x] = b[k] /\ k + 1 \in Slots
        BY <1>1, <1>2, <2>1, <2>4, SlotFacts DEF last
      <3>2. b[k + 1].count <= b[(k + 1) - 1].count /\ (k + 1) - 1 = k
        BY <2>1, <2>2, <3>1
      <3> QED
        BY <2>1, <3>1, <3>2
    <2>5. CASE k # 1 /\ k = last
      <3>1. r[k] = b[k] /\ r[x] = b[k]
        BY <1>1, <2>1, <2>5, SlotFacts DEF last
      <3> QED
        BY <2>1, <3>1
    <2> QED
      BY <2>3, <2>4, <2>5
  <1>6. ASSUME NEW t
        PROVE  Held(r, t) = Held(b, t) + Part(b[last], t) - Part(b[1], t)
    <2> HIDE DEF r
    <2> DEFINE g == [k \in Slots |-> Part(b[k], t)]
               h == [k \in Slots |-> Part(r[k], t)]
    <2>1. /\ last \in Nat /\ 1 \in 0 .. last /\ Slots = 0 .. last
          /\ \A k \in Slots : g[k] \in Int /\ h[k] \in Int
      BY <1>4, HeldFacts, SlotFacts DEF Slots, last
    <2>2. /\ \A k \in 0 .. last : k < 1 => h[k] = g[k]
          /\ \A k \in 0 .. last : k >= 1 /\ k < last => h[k] = g[k + 1]
      <3>1. ASSUME NEW k \in 0 .. last, k < 1 PROVE h[k] = g[k]
        BY <1>1, <2>1, <3>1
      <3>2. ASSUME NEW k \in 0 .. last, k >= 1, k < last PROVE h[k] = g[k + 1]
        <4>1. k \in 1 .. MAX_ENTRY - 2
          BY <2>1, <3>2, SlotFacts DEF last
        <4> QED
          BY <1>1, <4>1
      <3> QED
        BY <3>1, <3>2
    <2>3. Closes(g, h, last, 1)
      BY <2>1, <2>2 DEF Closes
    <2>4. g[1] = Part(b[1], t) /\ h[last] = Part(b[last], t)
      BY <1>1, <2>1
    <2>5. Held(b, t) = SumFunctionOnSet(g, Slots) /\ Held(r, t) = SumFunctionOnSet(h, Slots)
      BY DEF Held
    <2> HIDE DEF g, h
    <2>6. Held(r, t) = Held(b, t) + h[last] - g[1]
      BY <2>1, <2>3, <2>5, SumClose
    <2> QED
      BY <2>4, <2>6
  <1> QED
    BY <1>3, <1>4, <1>5, <1>6 DEF Descending

-----------------------------------------------------------------------------
(* The table: what a step may put in its place.                            *)

\* An entry is one of its own string's, or nobody's, and counts at most w of
\* its fingerprint.
EntryFine(e, w) ==
    /\ e.fingerprint = Tag(e.l0fp)
    /\ e.fingerprint \in RowTags(e.id)
    /\ e.count <= w[e.fingerprint]

BucketFine(b, w) ==
    /\ b \in Bucket
    /\ Descending(b)
    /\ \A k \in Slots : EntryFine(b[k], w)

TableFine(bk, w) ==
    /\ bk \in [Arrays -> [Indices -> Bucket]]
    /\ \A a \in Arrays, j \in Indices : BucketFine(bk[a][j], w)

Holding(bk, t) == [p \in Places |-> Held(bk[p[1]][p[2]], t)]
Total(bk, t)   == SumFunctionOnSet(Holding(bk, t), Places)

\* One packet more of fingerprint T.
OneMore(w, v, T) ==
    /\ w \in [Tags -> Nat] /\ v \in [Tags -> Nat] /\ T \in Tags
    /\ \A t \in Tags : v[t] = w[t] + (IF t = T THEN 1 ELSE 0)

\* Fingerprints of rows are fingerprints of strings, or 0.
LEMMA RowTagsAreTags == \A str : RowTags(str) \subseteq Tags
  BY DEF RowTags, Tags

\* There are finitely many places.
LEMMA PlacesFinite == IsFiniteSet(Places)
  <1>1. IsFiniteSet(Arrays) /\ IsFiniteSet(Indices)
    <2>1. bucket_num - 1 \in Int
      BY UBubbleAssumption
    <2>2. IsFiniteSet(0 .. 1)
      <3>1. 0 .. 1 = {0} \union {1}
        OBVIOUS
      <3>2. IsFiniteSet({0})
        BY FS_Singleton
      <3>3. IsFiniteSet({0} \union {1})
        BY <3>2, FS_AddElement, Zenon
      <3> QED
        BY <3>1, <3>3
    <2>3. IsFiniteSet(0 .. bucket_num - 1)
      BY <2>1, FS_Interval
    <2> QED
      BY <2>2, <2>3 DEF Arrays, Indices
  <1> QED
    BY <1>1, FS_Product DEF Places

\* What was fine stays fine when more has come.
LEMMA FineGrows ==
    ASSUME NEW w, NEW v, NEW T, OneMore(w, v, T)
    PROVE  /\ \A e \in Entry : EntryFine(e, w) => EntryFine(e, v)
           /\ \A b : BucketFine(b, w) => BucketFine(b, v)
           /\ \A bk : TableFine(bk, w) => TableFine(bk, v)
  <1>1. ASSUME NEW e \in Entry, EntryFine(e, w) PROVE EntryFine(e, v)
    <2>1. e.fingerprint \in Tags /\ e.count \in Nat
      BY <1>1, RowTagsAreTags DEF EntryFine, Entry
    <2>2. v[e.fingerprint] >= w[e.fingerprint] /\ w[e.fingerprint] \in Nat /\ v[e.fingerprint] \in Nat
      BY <2>1 DEF OneMore
    <2> QED
      BY <1>1, <2>1, <2>2 DEF EntryFine
  <1>2. ASSUME NEW b, BucketFine(b, w) PROVE BucketFine(b, v)
    BY <1>1, <1>2, Entries DEF BucketFine
  <1> QED
    BY <1>1, <1>2 DEF TableFine

Put(bk, a, j, b) == [bk EXCEPT ![a][j] = b]

\* Replacing one bucket.
LEMMA ReplaceBucket ==
    ASSUME NEW bk, NEW w, TableFine(bk, w), NEW a \in Arrays, NEW j \in Indices,
           NEW b, BucketFine(b, w)
    PROVE  LET n == Put(bk, a, j, b)
           IN  /\ TableFine(n, w)
               /\ n[a][j] = b
               /\ \A x \in Arrays, y \in Indices : x # a \/ y # j => n[x][y] = bk[x][y]
               /\ \A t : /\ Total(bk, t) \in Nat /\ Total(n, t) \in Nat
                         /\ Held(b, t) \in Nat /\ Held(bk[a][j], t) \in Nat
                         /\ Total(n, t) = Total(bk, t) + Held(b, t) - Held(bk[a][j], t)
  <1> DEFINE n == Put(bk, a, j, b)
             pl == <<a, j>>
  <1>1. n[a][j] = b /\ \A x \in Arrays, y \in Indices : x # a \/ y # j => n[x][y] = bk[x][y]
    BY DEF TableFine, Put
  <1>2. n \in [Arrays -> [Indices -> Bucket]]
    BY DEF TableFine, BucketFine, Put
  <1>3. TableFine(n, w)
    <2>1. ASSUME NEW x \in Arrays, NEW y \in Indices
          PROVE  BucketFine(n[x][y], w)
      <3>1. CASE x = a /\ y = j
        BY <1>1, <3>1
      <3>2. CASE x # a \/ y # j
        BY <1>1, <3>2 DEF TableFine
      <3> QED
        BY <3>1, <3>2
    <2> QED
      BY <1>2, <2>1 DEF TableFine
  <1> HIDE DEF n
  <1>4. ASSUME NEW t
        PROVE  /\ Total(bk, t) \in Nat /\ Total(n, t) \in Nat
               /\ Held(b, t) \in Nat /\ Held(bk[a][j], t) \in Nat
               /\ Total(n, t) = Total(bk, t) + Held(b, t) - Held(bk[a][j], t)
    <2>1. \A x \in Arrays, y \in Indices : Held(bk[x][y], t) \in Nat /\ Held(n[x][y], t) \in Nat
      BY <1>3, HeldFacts DEF TableFine
    <2>2. pl \in Places /\ pl[1] = a /\ pl[2] = j
      BY DEF Places
    <2>3. ASSUME NEW p \in Places
          PROVE  /\ Holding(bk, t)[p] \in Nat /\ Holding(n, t)[p] \in Nat
                 /\ p # pl => Holding(bk, t)[p] = Holding(n, t)[p]
      <3>1. p[1] \in Arrays /\ p[2] \in Indices /\ p = <<p[1], p[2]>>
        BY DEF Places
      <3>2. p # pl => n[p[1]][p[2]] = bk[p[1]][p[2]]
        BY <1>1, <3>1
      <3> QED
        BY <2>1, <3>1, <3>2 DEF Holding
    <2> HIDE DEF pl
    <2>4. DifferAt(Holding(bk, t), Holding(n, t), Places, pl)
      BY <2>2, <2>3, PlacesFinite DEF DifferAt
    <2>5. Holding(bk, t)[pl] = Held(bk[a][j], t) /\ Holding(n, t)[pl] = Held(b, t)
      BY <1>1, <2>2 DEF Holding
    <2>6. Total(bk, t) \in Nat /\ Total(n, t) \in Nat
      BY <2>3, PlacesFinite, SumType DEF Total
    <2>7. Total(n, t) = Total(bk, t) + Holding(n, t)[pl] - Holding(bk, t)[pl]
      BY <2>4, SumChange DEF Total
    <2> QED
      BY <1>1, <2>1, <2>5, <2>6, <2>7
  <1> QED
    BY <1>1, <1>3, <1>4 DEF n

\* Replacing one entry by one that is fine and keeps the order.
LEMMA ReplaceEntry ==
    ASSUME NEW b, NEW w, BucketFine(b, w), NEW i \in Slots, NEW e \in Entry, EntryFine(e, w),
           i # 0 => e.count <= b[i - 1].count,
           i # last => b[i + 1].count <= e.count
    PROVE  BucketFine([b EXCEPT ![i] = e], w)
  <1> DEFINE n == [b EXCEPT ![i] = e]
  <1>1. n \in Bucket /\ \A k \in Slots : n[k] = IF k = i THEN e ELSE b[k]
    BY DEF BucketFine, Bucket
  <1>2. \A k \in Slots : EntryFine(n[k], w)
    BY <1>1 DEF BucketFine
  <1>3. ASSUME NEW k \in Slots \ {0}
        PROVE  n[k].count <= n[k - 1].count
    <2>1. k \in Nat /\ i \in Nat /\ k - 1 \in Slots /\ k <= last /\ b[k].count <= b[k - 1].count
      BY SlotFacts DEF BucketFine, Descending
    <2>2. CASE k = i
      BY <1>1, <2>1, <2>2
    <2>3. CASE k - 1 = i
      <3>1. i # last /\ i + 1 = k /\ k # i
        BY <2>1, <2>3, SlotFacts
      <3> QED
        BY <1>1, <2>1, <2>3, <3>1
    <2>4. CASE k # i /\ k - 1 # i
      BY <1>1, <2>1, <2>4
    <2> QED
      BY <2>2, <2>3, <2>4
  <1> QED
    BY <1>1, <1>2, <1>3 DEF BucketFine, Descending

-----------------------------------------------------------------------------
(* One insertion, branch by branch.                                        *)

\* What an insertion of a string of fingerprint T leaves: a table fine for v,
\* and totals that grew by its own count and by what was copied.
Inserts(v, T) ==
    /\ TableFine(buckets', v)
    /\ copied' \in [Tags -> Nat]
    /\ \A t \in Tags :
          Total(buckets', t) - copied'[t]
              <= Total(buckets, t) - copied[t] + (IF t = T THEN 1 ELSE 0)
    /\ f_max' \in 0 .. COUNT_MAX /\ threshold1' \in Nat

\* What is known before an insertion of s.
Ready(s, w, v) ==
    /\ s \in Strings
    /\ OneMore(w, v, TagOf(s))
    /\ TableFine(buckets, w)
    /\ copied \in [Tags -> Nat]
    /\ f_max \in 0 .. COUNT_MAX /\ threshold1 \in Nat

\* The bucket that s probes, and that an entry that matches has its
\* fingerprint and can count it.
LEMMA ProbeFacts ==
    ASSUME NEW s, NEW w, NEW v, Ready(s, w, v), NEW a \in Arrays
    PROVE  LET c == Context(s) IN
           /\ c.keys[a] \in Indices
           /\ BucketFine(Probe(c, a), w) /\ BucketFine(Probe(c, a), v)
           /\ Probe(c, a) \in Bucket
           /\ \A i \in Slots : Bucket_Equal(Probe(c, a), i, c.fp) =>
                 LET e == Entry_Insert(Probe(c, a)[i])
                 IN  /\ Probe(c, a)[i].fingerprint = TagOf(s)
                     /\ e \in Entry /\ EntryFine(e, v)
                     /\ e.count >= Probe(c, a)[i].count
                     /\ \A t : Part(e, t) <= Part(Probe(c, a)[i], t)
                                                + (IF t = TagOf(s) THEN 1 ELSE 0)
  <1> DEFINE c == Context(s)
             b == Probe(c, a)
  <1>1. c.keys[a] \in Indices /\ Tag(c.fp) = TagOf(s)
    BY StringContext DEF Ready
  <1>2. BucketFine(b, w) /\ BucketFine(b, v) /\ b \in Bucket
    BY <1>1, FineGrows DEF Ready, TableFine, Probe, BucketFine
  <1>3. ASSUME NEW i \in Slots, Bucket_Equal(b, i, c.fp)
        PROVE  LET e == Entry_Insert(b[i])
               IN  /\ b[i].fingerprint = TagOf(s)
                   /\ e \in Entry /\ EntryFine(e, v)
                   /\ e.count >= b[i].count
                   /\ \A t : Part(e, t) <= Part(b[i], t) + (IF t = TagOf(s) THEN 1 ELSE 0)
    <2> DEFINE e == Entry_Insert(b[i])
    <2>1. b[i] \in Entry /\ b[i].count \in Nat /\ EntryFine(b[i], w) /\ e \in Entry
      BY <1>2, Entries DEF BucketFine
    <2>2. b[i].fingerprint = TagOf(s)
      BY <1>1, <1>3, <2>1 DEF Bucket_Equal, EntryFine
    <2>3. /\ e.fingerprint = b[i].fingerprint /\ e.l0fp = b[i].l0fp /\ e.id = b[i].id
          /\ e.count \in {b[i].count, b[i].count + 1}
      BY <2>1 DEF Entry_Insert, Entry
    <2>4. e.count <= v[TagOf(s)]
      BY <2>1, <2>2, <2>3 DEF EntryFine, Ready, OneMore
    <2> HIDE DEF e
    <2>5. EntryFine(e, v)
      BY <2>1, <2>2, <2>3, <2>4 DEF EntryFine
    <2>6. ASSUME NEW t
          PROVE  Part(e, t) <= Part(b[i], t) + (IF t = TagOf(s) THEN 1 ELSE 0)
      BY <2>1, <2>2, <2>3 DEF Part
    <2> QED
      BY <2>1, <2>2, <2>3, <2>5, <2>6 DEF e
  <1> QED
    BY <1>1, <1>2, <1>3

\* A hit at the head: it counts, and the order of the bucket stays.
LEMMA HotHitInserts ==
    ASSUME NEW s, NEW w, NEW v, Ready(s, w, v), NEW a \in Arrays,
           HotHit(Context(s), a), UNCHANGED copied
    PROVE  Inserts(v, TagOf(s))
  <1> DEFINE c == Context(s)
             b == Probe(c, a)
             e == Entry_Insert(b[0])
             n == [b EXCEPT ![0] = e]
             j == c.keys[a]
  <1>1. /\ Bucket_Equal(b, 0, c.fp)
        /\ buckets' = Put(buckets, a, j, n)
    BY DEF HotHit, CountHot, Put
  <1>2. /\ j \in Indices /\ BucketFine(b, v) /\ b \in Bucket
        /\ e \in Entry /\ EntryFine(e, v) /\ e.count >= b[0].count
        /\ \A t : Part(e, t) <= Part(b[0], t) + (IF t = TagOf(s) THEN 1 ELSE 0)
    BY <1>1, ProbeFacts, SlotFacts
  <1>3. n[0] = e
    BY <1>2, SlotFacts DEF Bucket
  <1>4. f_max' \in 0 .. COUNT_MAX /\ threshold1' \in Nat
    <2>1. e.count \in 0 .. COUNT_MAX /\ e.count \in Nat
      BY <1>2 DEF Entry
    <2>2. calculate_threshold(e.count) \in Nat
      <3>1. Sketch!calculate_threshold(e.count) \in Nat
        BY <2>1, SketchAssumptions, Sketch!ThresholdMono
      <3> QED
        BY <3>1, SameOperators
    <2>3. \/ f_max' = n[0].count /\ threshold1' \in {calculate_threshold(n[0].count), threshold1}
          \/ UNCHANGED <<f_max, threshold1>>
      BY DEF HotHit, CountHot
    <2> HIDE DEF n, e
    <2> QED
      BY <1>3, <2>1, <2>2, <2>3 DEF Ready
  <1> HIDE DEF e
  <1>5. BucketFine(n, v)
    <2>1. 0 # last => b[0 + 1].count <= e.count
      <3>1. b[1].count <= b[0].count /\ b[1].count \in Nat /\ b[0].count \in Nat /\ e.count \in Nat
        BY <1>2, Entries, SlotFacts DEF BucketFine, Descending, Entry
      <3> QED
        BY <1>2, <3>1
    <2> QED
      BY <1>2, <2>1, SlotFacts, ReplaceEntry
  <1>6. \A t : Held(n, t) = Held(b, t) + Part(e, t) - Part(b[0], t) /\ Held(b, t) \in Nat
              /\ Part(b[0], t) \in Nat /\ Held(n, t) \in Nat
    BY <1>2, <1>5, HeldFacts, SlotFacts DEF BucketFine
  <1> HIDE DEF n
  <1>7. /\ TableFine(buckets', v)
        /\ \A t : /\ Total(buckets, t) \in Nat
                  /\ Total(buckets', t) = Total(buckets, t) + Held(n, t) - Held(b, t)
    <2>1. TableFine(buckets, v) /\ b = buckets[a][j]
      BY FineGrows DEF Ready, Probe
    <2> HIDE DEF b, j
    <2> QED
      BY <1>1, <1>2, <1>5, <2>1, ReplaceBucket
  <1>8. ASSUME NEW t \in Tags
        PROVE  Total(buckets', t) - copied'[t]
                   <= Total(buckets, t) - copied[t] + (IF t = TagOf(s) THEN 1 ELSE 0)
    <2>1. copied'[t] = copied[t] /\ copied[t] \in Nat
      BY DEF Ready
    <2>2. Held(n, t) <= Held(b, t) + (IF t = TagOf(s) THEN 1 ELSE 0)
      <3>1. Part(e, t) \in Nat
        BY <1>2 DEF Part, Entry
      <3> QED
        BY <1>2, <1>6, <3>1
    <2> QED
      BY <1>6, <1>7, <2>1, <2>2
  <1> QED
    BY <1>4, <1>7, <1>8 DEF Inserts, Ready

\* A branch that replaces the bucket it probes, and copies nothing.
LEMMA OneBucketInserts ==
    ASSUME NEW s, NEW w, NEW v, Ready(s, w, v), NEW a \in Arrays,
           NEW n, BucketFine(n, v),
           buckets' = Put(buckets, a, Context(s).keys[a], n),
           UNCHANGED <<copied, f_max, threshold1>>,
           \A t : Held(n, t) <= Held(Probe(Context(s), a), t)
                                    + (IF t = TagOf(s) THEN 1 ELSE 0)
    PROVE  Inserts(v, TagOf(s))
  <1> DEFINE j == Context(s).keys[a]
             b == Probe(Context(s), a)
  <1>1. j \in Indices /\ TableFine(buckets, v) /\ b = buckets[a][j]
    BY ProbeFacts, FineGrows DEF Ready, Probe
  <1> HIDE DEF b, j
  <1>2. /\ TableFine(buckets', v)
        /\ \A t : /\ Total(buckets, t) \in Nat /\ Total(buckets', t) \in Nat
                  /\ Held(n, t) \in Nat /\ Held(b, t) \in Nat
                  /\ Total(buckets', t) = Total(buckets, t) + Held(n, t) - Held(b, t)
    BY <1>1, ReplaceBucket DEF j
  <1>3. ASSUME NEW t \in Tags
        PROVE  Total(buckets', t) - copied'[t]
                   <= Total(buckets, t) - copied[t] + (IF t = TagOf(s) THEN 1 ELSE 0)
    <2>1. copied'[t] = copied[t] /\ copied[t] \in Nat
      BY DEF Ready
    <2>2. Held(n, t) <= Held(b, t) + (IF t = TagOf(s) THEN 1 ELSE 0)
      BY DEF b
    <2> QED
      BY <1>2, <2>1, <2>2
  <1> QED
    BY <1>2, <1>3 DEF Inserts, Ready

\* A packet stops at a slot only past slots that are taken.
LEMMA StopFacts ==
    ASSUME NEW s, NEW w, NEW v, Ready(s, w, v), NEW a \in Arrays, NEW i \in Slots,
           FirstStop(Context(s), a, i)
    PROVE  LET b == Probe(Context(s), a) IN
           /\ ~Bucket_Equal(b, i, Context(s).fp) => b[i].count = 0
           /\ i # 0 => b[i - 1].count # 0
  <1>1. ~Bucket_Equal(Probe(Context(s), a), i, Context(s).fp)
            => Probe(Context(s), a)[i].count = 0
    BY DEF FirstStop, Stops, Bucket_Empty
  <1>2. ASSUME i # 0 PROVE Probe(Context(s), a)[i - 1].count # 0
    <2>1. i - 1 \in 0 .. i /\ i - 1 < i
      BY <1>2, SlotFacts
    <2>2. ~Stops(Context(s), a, i - 1)
      BY <2>1 DEF FirstStop
    <2> QED
      BY <2>2 DEF Stops, Bucket_Empty
  <1> QED
    BY <1>1, <1>2

\* An empty slot that the packet takes: it counts 1, less than what is above.
LEMMA FillInserts ==
    ASSUME NEW s, NEW w, NEW v, Ready(s, w, v), NEW a \in Arrays, NEW i \in Slots,
           Fill(Context(s), a, i), UNCHANGED copied
    PROVE  Inserts(v, TagOf(s))
  <1> DEFINE c == Context(s)
             b == Probe(c, a)
             e == Entry_Insert_with(c)
             n == [b EXCEPT ![i] = e]
             j == c.keys[a]
  <1>1. /\ FirstStop(c, a, i) /\ ~Bucket_Equal(b, i, c.fp)
        /\ buckets' = Put(buckets, a, j, n)
        /\ UNCHANGED <<f_max, threshold1>>
    <2>1. /\ FirstStop(c, a, i) /\ ~Bucket_Equal(b, i, c.fp)
          /\ UNCHANGED <<f_max, threshold1>>
          /\ buckets' = [buckets EXCEPT ![a][j][i] = e]
      BY DEF Fill, Take
    <2>2. [buckets EXCEPT ![a][j][i] = e] = Put(buckets, a, j, n)
      BY DEF Put, Probe
    <2> QED
      BY <2>1, <2>2
  <1>2. b[i].count = 0 /\ (i # 0 => b[i - 1].count # 0)
    BY <1>1, StopFacts
  <1>3. BucketFine(b, v) /\ b \in Bucket
    BY ProbeFacts
  <1>4. /\ e \in Entry /\ e.count = 1 /\ e.fingerprint = TagOf(s)
        /\ EntryFine(e, v)
    <2>1. s \in Strings /\ c.key = s /\ Tag(c.fp) = TagOf(s)
      BY StringContext DEF Ready
    <2>2. /\ e \in Entry /\ e.count = 1 /\ e.fingerprint = TagOf(s) /\ e.l0fp = c.fp
          /\ e.id = s
      BY <2>1, Entries DEF Entry_Insert_with
    <2>3. 1 <= v[TagOf(s)]
      BY DEF Ready, OneMore
    <2>4. TagOf(s) \in RowTags(s)
      BY <2>1 DEF RowTags
    <2> HIDE DEF e
    <2> QED
      BY <2>1, <2>2, <2>3, <2>4 DEF EntryFine
  <1> HIDE DEF e
  <1>5. BucketFine(n, v)
    <2>1. i # 0 => e.count <= b[i - 1].count
      BY <1>2, <1>3, <1>4, SlotFacts, Entries
    <2>2. ASSUME i # last PROVE b[i + 1].count <= e.count
      <3>1. i + 1 \in Slots \ {0} /\ (i + 1) - 1 = i
        BY <2>2, SlotFacts DEF Slots, last
      <3>2. b[i + 1].count <= b[(i + 1) - 1].count
        BY <1>3, <3>1 DEF BucketFine, Descending
      <3>3. b[i + 1].count \in Nat
        BY <1>3, <3>1, Entries
      <3> QED
        BY <1>2, <1>4, <3>1, <3>2, <3>3
    <2> HIDE DEF b
    <2> QED
      BY <1>3, <1>4, <2>1, <2>2, ReplaceEntry
  <1>6. ASSUME NEW t
        PROVE  Held(n, t) <= Held(b, t) + (IF t = TagOf(s) THEN 1 ELSE 0)
    <2>1. /\ Held(n, t) = Held(b, t) + Part(e, t) - Part(b[i], t)
          /\ Held(b, t) \in Nat
      BY <1>3, <1>4, HeldFacts
    <2>2. Part(b[i], t) = 0 /\ Part(e, t) = IF t = TagOf(s) THEN 1 ELSE 0
      BY <1>2, <1>4 DEF Part
    <2> QED
      BY <2>1, <2>2
  <1> HIDE DEF n
  <1> QED
    BY <1>1, <1>5, <1>6, OneBucketInserts

\* The last entry decays: nothing is above it that it could overtake.
LEMMA LossyInserts ==
    ASSUME NEW s, NEW w, NEW v, Ready(s, w, v), Lossy(Context(s)), UNCHANGED copied
    PROVE  Inserts(v, TagOf(s))
  <1> DEFINE c == Context(s)
             a == LossyArray(c)
             b == Probe(c, a)
             e == Entry_Lossy(b[last])
             n == [b EXCEPT ![last] = e]
             j == c.keys[a]
  <1>1. a \in Arrays
    BY DEF LossyArray, Arrays
  <1>2. /\ buckets' = Put(buckets, a, j, n)
        /\ UNCHANGED <<f_max, threshold1>>
    <2>1. /\ UNCHANGED <<f_max, threshold1>>
          /\ buckets' = [buckets EXCEPT ![a][j][last] = Entry_Lossy(@)]
      BY DEF Lossy, Decay, last
    <2>2. [buckets EXCEPT ![a][j][last] = Entry_Lossy(@)] = Put(buckets, a, j, n)
      BY DEF Put, Probe
    <2> QED
      BY <2>1, <2>2
  <1> HIDE DEF a
  <1>3. BucketFine(b, v) /\ b \in Bucket
    BY <1>1, ProbeFacts
  <1>4. /\ b[last] \in Entry /\ b[last].count \in Nat /\ EntryFine(b[last], v)
        /\ e \in Entry
        /\ e.fingerprint = b[last].fingerprint /\ e.l0fp = b[last].l0fp /\ e.id = b[last].id
        /\ e.count \in Nat /\ e.count <= b[last].count
    <2>1. b[last] \in Entry /\ b[last].count \in Nat /\ EntryFine(b[last], v) /\ e \in Entry
      BY <1>3, SlotFacts, Entries DEF BucketFine
    <2>2. /\ e.fingerprint = b[last].fingerprint /\ e.l0fp = b[last].l0fp /\ e.id = b[last].id
          /\ e.count = IF b[last].count > 0 THEN b[last].count - 1 ELSE b[last].count
      BY <2>1 DEF Entry_Lossy, Entry
    <2> HIDE DEF e
    <2> QED
      BY <2>1, <2>2
  <1> HIDE DEF e
  <1>5. EntryFine(e, v)
    <2>1. v[b[last].fingerprint] \in Nat
      BY <1>4, RowTagsAreTags DEF EntryFine, Ready, OneMore
    <2> QED
      BY <1>4, <2>1 DEF EntryFine
  <1>6. BucketFine(n, v)
    <2>1. last # 0 => e.count <= b[last - 1].count
      <3>1. last \in Slots \ {0}
        BY SlotFacts DEF last
      <3>2. b[last].count <= b[last - 1].count /\ b[last - 1].count \in Nat
        BY <1>3, <3>1, SlotFacts, Entries DEF BucketFine, Descending
      <3> QED
        BY <1>4, <3>2
    <2> HIDE DEF b
    <2> QED
      BY <1>3, <1>4, <1>5, <2>1, SlotFacts, ReplaceEntry
  <1>7. ASSUME NEW t
        PROVE  Held(n, t) <= Held(b, t) + (IF t = TagOf(s) THEN 1 ELSE 0)
    <2>1. /\ Held(n, t) = Held(b, t) + Part(e, t) - Part(b[last], t)
          /\ Held(b, t) \in Nat /\ Part(b[last], t) \in Nat
      BY <1>3, <1>4, SlotFacts, HeldFacts
    <2>2. Part(e, t) <= Part(b[last], t) /\ Part(e, t) \in Nat
      BY <1>4 DEF Part
    <2> QED
      BY <2>1, <2>2
  <1> HIDE DEF n
  <1> QED
    BY <1>1, <1>2, <1>6, <1>7, OneBucketInserts

\* The bucket an entry is kicked to exists.
LEMMA TargetType ==
    ASSUME NEW s \in Strings, NEW a \in Arrays, NEW e, e.fingerprint \in Nat
    PROVE  KickTarget(Context(s), a, e) \in Indices
  <1>1. Sketch!KickTarget(Sketch!Context(s), a, e) \in Sketch!Indices
    BY SketchAssumptions, SameOperators, Sketch!KickTargetType
  <1> QED
    BY <1>1, SameOperators

\* A hit further down counts its entry, sorts the bucket, and may move the
\* entry then in slot 1 to the head of its other bucket.
LEMMA ColdHitInserts ==
    ASSUME NEW s, NEW w, NEW v, Ready(s, w, v), NEW a \in Arrays, NEW i \in Slots,
           ColdHitCopying(Context(s), a, i)
    PROVE  Inserts(v, TagOf(s))
  <1> DEFINE c == Context(s)
             p == Probe(c, a)
             e == Entry_Insert(p[i])
             m == [p EXCEPT ![i] = e]
             b == Bucket_BucketSort(m, i)
             j == c.keys[a]
             target == KickTarget(c, a, b[1])
             next == buckets[1 - a][target]
             n == [Bucket_down_stairs(next, 0) EXCEPT ![0] = b[1]]
             r == Copying_Remove(b, 1)
             top == b[last]
  <1>1. i > 0 /\ Bucket_Equal(p, i, c.fp)
    BY DEF ColdHitCopying
  <1>2. /\ j \in Indices /\ BucketFine(p, v) /\ p \in Bucket
        /\ e \in Entry /\ EntryFine(e, v)
        /\ \A t : Part(e, t) <= Part(p[i], t) + (IF t = TagOf(s) THEN 1 ELSE 0)
    BY <1>1, ProbeFacts
  <1>3. /\ m \in Bucket /\ b \in Bucket /\ Descending(b)
        /\ \A k \in Slots : \E x \in Slots : b[k] = m[x]
        /\ \A t : Held(b, t) = Held(m, t)
    <2>1. Descending(p)
      BY <1>2 DEF BucketFine
    <2>2. p \in Bucket
      BY <1>2
    <2> HIDE DEF p
    <2>3. LET y == [p EXCEPT ![i] = Entry_Insert(@)]
              x == Bucket_BucketSort(y, i)
          IN  /\ y \in Bucket /\ x \in Bucket
              /\ \A k \in Slots : \E z \in Slots : x[k] = y[z]
              /\ i > 0 /\ Descending(p) => Descending(x)
              /\ \A t : Held(x, t) = Held(y, t)
      BY <2>2, SortFacts
    <2> QED
      BY <1>1, <2>1, <2>3
  <1>4. \A k \in Slots : m[k] = IF k = i THEN e ELSE p[k]
    BY <1>2 DEF Bucket
  <1>5. BucketFine(b, v)
    <2>1. \A k \in Slots : EntryFine(m[k], v)
      BY <1>2, <1>4 DEF BucketFine
    <2> HIDE DEF m, b
    <2> QED
      BY <1>3, <2>1 DEF BucketFine
  <1>6. \A t : /\ Held(b, t) \in Nat /\ Held(p, t) \in Nat
               /\ Held(b, t) <= Held(p, t) + (IF t = TagOf(s) THEN 1 ELSE 0)
    <2> SUFFICES ASSUME NEW t
                 PROVE  /\ Held(b, t) \in Nat /\ Held(p, t) \in Nat
                        /\ Held(b, t) <= Held(p, t) + (IF t = TagOf(s) THEN 1 ELSE 0)
      OBVIOUS
    <2>1. /\ Held(m, t) = Held(p, t) + Part(e, t) - Part(p[i], t)
          /\ Held(p, t) \in Nat /\ Part(p[i], t) \in Nat
          /\ Held(b, t) \in Nat /\ Held(b, t) = Held(m, t)
      BY <1>2, <1>3, HeldFacts
    <2>2. Part(e, t) \in Nat
      BY <1>2 DEF Part, Entry
    <2> QED
      BY <1>2, <2>1, <2>2
  <1> HIDE DEF m, e
  <1>7. /\ UNCHANGED <<f_max, threshold1>>
        /\ IF Kicks(b[1], next)
           THEN /\ buckets' = Put(Put(buckets, 1 - a, target, n), a, j, r)
                /\ copied' = [copied EXCEPT ![top.fingerprint] = @ + top.count]
           ELSE /\ buckets' = Put(buckets, a, j, b)
                /\ UNCHANGED copied
    <2> DEFINE b0 == Bucket_BucketSort([p EXCEPT ![i] = Entry_Insert(@)], i)
               target0 == KickTarget(c, a, b0[1])
               next0 == buckets[1 - a][target0]
               top0 == b0[MAX_ENTRY - 1]
    <2>1. b0 = b /\ target0 = target /\ next0 = next /\ top0 = top
      BY DEF m, e, last
    <2>2. /\ UNCHANGED <<f_max, threshold1>>
          /\ IF Kicks(b0[1], next0)
             THEN /\ buckets' = [buckets EXCEPT
                          ![1 - a][target0] = [Bucket_down_stairs(next0, 0) EXCEPT ![0] = b0[1]],
                          ![a][j]  = Copying_Remove(b0, 1)]
                  /\ copied' = [copied EXCEPT ![top0.fingerprint] = @ + top0.count]
             ELSE /\ buckets' = [buckets EXCEPT ![a][j] = b0]
                  /\ UNCHANGED copied
      BY DEF ColdHitCopying, CountColdCopying
    <2> HIDE DEF b0, target0, next0, top0, b, target, next, top, j
    <2>3. \A x, y : [buckets EXCEPT ![1 - a][target] = x, ![a][j] = y]
                        = Put(Put(buckets, 1 - a, target, x), a, j, y)
      BY DEF Put
    <2>4. \A y : [buckets EXCEPT ![a][j] = y] = Put(buckets, a, j, y)
      BY DEF Put
    <2> QED
      BY <2>1, <2>2, <2>3, <2>4
  <1>8. /\ b[1] \in Entry /\ EntryFine(b[1], v)
        /\ top \in Entry /\ EntryFine(top, v)
        /\ target \in Indices
    <2>1. b[1] \in Entry /\ EntryFine(b[1], v) /\ top \in Entry /\ EntryFine(top, v)
      BY <1>5, SlotFacts, Entries DEF BucketFine
    <2>2. b[1].fingerprint \in Nat /\ s \in Strings
      BY <2>1 DEF Entry, Ready
    <2> QED
      BY <2>1, <2>2, TargetType
  <1>9. CASE ~Kicks(b[1], next)
    <2> HIDE DEF b, p, next, r, n
    <2>1. buckets' = Put(buckets, a, j, b) /\ UNCHANGED <<copied, f_max, threshold1>>
      BY <1>7, <1>9
    <2> QED
      BY <1>5, <1>6, <2>1, OneBucketInserts DEF p
  <1>10. CASE Kicks(b[1], next)
    <2>1. /\ TableFine(buckets, v) /\ p = buckets[a][j]
          /\ 1 - a \in Arrays /\ 1 - a # a
      BY FineGrows, SlotFacts DEF Ready, Probe
    <2>2. BucketFine(next, v) /\ next \in Bucket
      BY <1>8, <2>1 DEF TableFine, BucketFine
    <2> HIDE DEF b, p, target, next, j
    <2>3. b[1].count > next[0].count
      BY <1>10 DEF Kicks
    <2>4. /\ n \in Bucket /\ Descending(n)
          /\ \A k \in Slots : n[k] = b[1] \/ \E x \in Slots : n[k] = next[x]
          /\ \A t : Held(n, t) = Held(next, t) + Part(b[1], t) - Part(next[last], t)
      BY <1>8, <2>2, <2>3, PushFacts DEF BucketFine
    <2>5. /\ r \in Bucket /\ Descending(r)
          /\ \A k \in Slots : \E x \in Slots : r[k] = b[x]
          /\ \A t : Held(r, t) = Held(b, t) + Part(top, t) - Part(b[1], t)
      BY <1>3, CopyingFacts
    <2> HIDE DEF n, r, top
    <2>6. BucketFine(n, v) /\ BucketFine(r, v)
      BY <1>5, <1>8, <2>2, <2>4, <2>5 DEF BucketFine
    <2> DEFINE mid == Put(buckets, 1 - a, target, n)
    <2>7. buckets' = Put(mid, a, j, r)
      BY <1>7, <1>10
    <2>8. copied' = [copied EXCEPT ![top.fingerprint] = @ + top.count]
      BY <1>7, <1>10
    <2>9. /\ TableFine(mid, v) /\ mid[a][j] = p
          /\ \A t : /\ Total(buckets, t) \in Nat
                    /\ Total(mid, t) = Total(buckets, t) + Held(n, t) - Held(next, t)
      BY <1>2, <1>8, <2>1, <2>6, ReplaceBucket, SMTT(30) DEF next
    <2> HIDE DEF mid
    <2>10. /\ TableFine(buckets', v)
           /\ \A t : /\ Total(mid, t) \in Nat
                     /\ Total(buckets', t) = Total(mid, t) + Held(r, t) - Held(p, t)
      BY <1>2, <2>6, <2>7, <2>9, ReplaceBucket
    <2>11. /\ top.count \in Nat /\ top.fingerprint \in Tags
           /\ copied \in [Tags -> Nat]
      BY <1>8, RowTagsAreTags DEF EntryFine, Entry, Ready
    <2>12. copied' \in [Tags -> Nat]
      BY <2>8, <2>11
    <2>13. ASSUME NEW t \in Tags
           PROVE  Total(buckets', t) - copied'[t]
                    <= Total(buckets, t) - copied[t] + (IF t = TagOf(s) THEN 1 ELSE 0)
      <3>1. copied'[t] = copied[t] + Part(top, t) /\ copied[t] \in Nat /\ Part(top, t) \in Nat
        BY <2>8, <2>11 DEF Part
      <3>2. /\ Part(b[1], t) \in Nat /\ Part(next[last], t) \in Nat
            /\ Held(next, t) \in Nat
        BY <1>8, <2>2, SlotFacts, HeldFacts DEF Part, Entry
      <3> QED
        BY <1>6, <2>4, <2>5, <2>9, <2>10, <3>1, <3>2
    <2> QED
      BY <1>7, <2>10, <2>12, <2>13 DEF Inserts, Ready
  <1> QED
    BY <1>9, <1>10

-----------------------------------------------------------------------------
(* The table as a whole.                                                   *)

Counts == [t \in Tags |-> Sent(t)]

TableInv ==
    /\ TableFine(buckets, Counts)
    /\ arrived \in [Strings -> Nat]
    /\ copied \in [Tags -> Nat]
    /\ f_max \in 0 .. COUNT_MAX /\ threshold1 \in Nat
    /\ TotalIsBacked

\* There are finitely many strings, and a packet more of one of them is one
\* more of its fingerprint.
LEMMA StringsFinite == IsFiniteSet(Strings)
  <1> DEFINE f == [x \in Flows |-> CString[x]]
  <1>1. f \in Surjection(Flows, Strings)
    BY DEF Surjection, Strings
  <1> QED
    BY <1>1, CaptureAssumption, FS_Surjection

\* An insertion is one packet more of the string's fingerprint.
LEMMA SentGrows ==
    ASSUME arrived \in [Strings -> Nat], NEW s \in Strings,
           arrived' = [arrived EXCEPT ![s] = @ + 1]
    PROVE  /\ \A t : /\ Sent(t) \in Nat
                     /\ Sent(t)' = Sent(t) + (IF t = TagOf(s) THEN 1 ELSE 0)
           /\ OneMore(Counts, Counts', TagOf(s))
  <1>1. ASSUME NEW t
        PROVE  /\ Sent(t) \in Nat
               /\ Sent(t)' = Sent(t) + (IF t = TagOf(s) THEN 1 ELSE 0)
    <2> DEFINE S == {x \in Strings : TagOf(x) = t}
    <2>1. IsFiniteSet(S) /\ S \subseteq Strings
      BY StringsFinite, FS_Subset
    <2>2. Sent(t) = SumFunctionOnSet(arrived, S) /\ Sent(t)' = SumFunctionOnSet(arrived', S)
      BY DEF Sent
    <2>3. s \in S <=> t = TagOf(s)
      OBVIOUS
    <2> HIDE DEF S
    <2>4. SumFunctionOnSet(arrived, S) \in Nat
      BY <2>1, SumType
    <2>5. arrived \in [Strings -> Int]
      OBVIOUS
    <2>6. SumFunctionOnSet([arrived EXCEPT ![s] = @ + 1], S)
              = SumFunctionOnSet(arrived, S) + (IF s \in S THEN 1 ELSE 0)
      BY <2>1, <2>5, SumIncrement, ZenonT(60)
    <2> QED
      BY <2>2, <2>3, <2>4, <2>6
  <1>2. TagOf(s) \in Tags
    BY DEF Tags
  <1>3. Counts' = [t \in Tags |-> Sent(t)']
    BY DEF Counts
  <1> QED
    BY <1>1, <1>2, <1>3 DEF OneMore, Counts

\* Whatever its branch, an insertion keeps the table fine.
LEMMA InsertInserts ==
    ASSUME NEW s, NEW w, NEW v, Ready(s, w, v), InsertString(s)
    PROVE  Inserts(v, TagOf(s))
  <1> DEFINE c == Context(s)
  <1>1. ASSUME NEW a \in Arrays, HotHit(c, a), UNCHANGED copied PROVE Inserts(v, TagOf(s))
    BY <1>1, HotHitInserts
  <1>2. ASSUME NEW a \in Arrays, NEW i \in Slots, Fill(c, a, i), UNCHANGED copied
        PROVE  Inserts(v, TagOf(s))
    BY <1>2, FillInserts
  <1>3. ASSUME NEW a \in Arrays, NEW i \in Slots, ColdHitCopying(c, a, i)
        PROVE  Inserts(v, TagOf(s))
    BY <1>3, ColdHitInserts
  <1>4. ASSUME Lossy(c), UNCHANGED copied PROVE Inserts(v, TagOf(s))
    BY <1>4, LossyInserts
  <1> QED
    BY <1>1, <1>2, <1>3, <1>4 DEF InsertString

\* The total of a fingerprint is a natural number.
LEMMA TotalType ==
    ASSUME NEW bk, NEW w, TableFine(bk, w), NEW t
    PROVE  Total(bk, t) \in Nat
  <1>1. ASSUME NEW p \in Places PROVE Holding(bk, t)[p] \in Nat
    <2>1. p[1] \in Arrays /\ p[2] \in Indices
      BY DEF Places
    <2>2. bk[p[1]][p[2]] \in Bucket
      BY <2>1 DEF TableFine
    <2> QED
      BY <2>2, HeldFacts DEF Holding
  <1> QED
    BY <1>1, PlacesFinite, SumType DEF Total

\* An insertion keeps the table fine, and its totals backed.
LEMMA TableInvInsert ==
    ASSUME TableInv, NEW s \in Strings, InsertString(s)
    PROVE  TableInv'
  <1>1. arrived' = [arrived EXCEPT ![s] = @ + 1]
    BY DEF InsertString
  <1>2. arrived' \in [Strings -> Nat]
    BY <1>1 DEF TableInv
  <1>3. /\ \A t : /\ Sent(t) \in Nat
                  /\ Sent(t)' = Sent(t) + (IF t = TagOf(s) THEN 1 ELSE 0)
        /\ OneMore(Counts, Counts', TagOf(s))
    BY <1>1, SentGrows DEF TableInv
  <1>4. Ready(s, Counts, Counts')
    BY <1>3 DEF Ready, TableInv
  <1>5. Inserts(Counts', TagOf(s))
    BY <1>4, InsertInserts
  <1>6. TotalIsBacked'
    <2>1. ASSUME NEW t \in Tags PROVE Total(buckets', t) <= Sent(t)' + copied'[t]
      <3>1. Total(buckets, t) <= Sent(t) + copied[t]
        BY DEF TableInv, TotalIsBacked, Total, Holding
      <3>2. Total(buckets', t) - copied'[t]
                <= Total(buckets, t) - copied[t] + (IF t = TagOf(s) THEN 1 ELSE 0)
        BY <1>5 DEF Inserts
      <3>3. Total(buckets, t) \in Nat /\ Total(buckets', t) \in Nat
            /\ copied[t] \in Nat /\ copied'[t] \in Nat
        BY <1>5, TotalType DEF TableInv, Inserts
      <3> QED
        BY <1>3, <3>1, <3>2, <3>3
    <2> QED
      BY <2>1 DEF TotalIsBacked, Total, Holding
  <1> QED
    BY <1>2, <1>5, <1>6 DEF TableInv, Inserts

\* The empty table is fine.
LEMMA TableInvInit == Init_ububble => TableInv
  <1> SUFFICES ASSUME Init_ububble PROVE TableInv
    OBVIOUS
  <1>1. /\ arrived = [x \in Strings |-> 0] /\ copied = [x \in Tags |-> 0]
        /\ buckets = [a \in Arrays |-> [j \in Indices |-> [i \in Slots |-> Entry_init]]]
        /\ f_max = 0 /\ threshold1 = THRESHOLD_INIT
    BY DEF Init_ububble, Init_sketch
  <1>2. \A t : Sent(t) \in Nat
    <2> SUFFICES ASSUME NEW t PROVE Sent(t) \in Nat
      OBVIOUS
    <2> DEFINE S == {x \in Strings : TagOf(x) = t}
    <2>1. IsFiniteSet(S) /\ \A x \in S : arrived[x] = 0
      BY <1>1, StringsFinite, FS_Subset
    <2>2. Sent(t) = SumFunctionOnSet(arrived, S)
      BY DEF Sent
    <2> HIDE DEF S
    <2> QED
      BY <2>1, <2>2, SumType
  <1>3. [i \in Slots |-> Entry_init] \in Bucket
    BY Entries DEF Bucket
  <1>4. EntryFine(Entry_init, Counts)
    <2>1. Entry_init.fingerprint = 0 /\ Entry_init.l0fp = 0 /\ Entry_init.count = 0
          /\ Entry_init.id = NoFlow
      BY DEF Entry_init
    <2>2. Tag(0) = 0
      BY UBubbleAssumption DEF Tag
    <2>3. 0 \in RowTags(NoFlow) /\ 0 \in Tags
      BY DEF RowTags, Tags
    <2>4. 0 <= Counts[0]
      BY <1>2, <2>3 DEF Counts
    <2> QED
      BY <2>1, <2>2, <2>3, <2>4 DEF EntryFine
  <1>5. TableFine(buckets, Counts)
    <2>1. BucketFine([i \in Slots |-> Entry_init], Counts)
      <3>1. Descending([i \in Slots |-> Entry_init])
        BY SlotFacts DEF Descending, Entry_init
      <3> QED
        BY <1>3, <1>4, <3>1 DEF BucketFine
    <2> HIDE DEF Counts
    <2> QED
      BY <1>1, <1>3, <2>1 DEF TableFine
  <1>6. ASSUME NEW t \in Tags
        PROVE  Total(buckets, t) <= Sent(t) + copied[t]
    <2>1. \A b : b = [i \in Slots |-> Entry_init] => Held(b, t) = 0
      <3> DEFINE g == [i \in Slots |-> Part([k \in Slots |-> Entry_init][i], t)]
      <3>1. \A i \in Slots : g[i] = 0
        BY DEF Part, Entry_init
      <3>2. IsFiniteSet(Slots)
        <4>1. MAX_ENTRY - 1 \in Int
          BY UBubbleAssumption
        <4> QED
          BY <4>1, FS_Interval DEF Slots
      <3> HIDE DEF g
      <3>3. SumFunctionOnSet(g, Slots) = 0
        BY <3>1, <3>2, SumZero
      <3> QED
        BY <3>3 DEF Held, g
    <2>2. \A p \in Places : Holding(buckets, t)[p] = 0
      <3> SUFFICES ASSUME NEW p \in Places PROVE Holding(buckets, t)[p] = 0
        OBVIOUS
      <3>1. p[1] \in Arrays /\ p[2] \in Indices
        BY DEF Places
      <3> QED
        BY <1>1, <2>1, <3>1 DEF Holding
    <2>3. Total(buckets, t) = 0
      BY <2>2, PlacesFinite, SumZero DEF Total
    <2> QED
      BY <1>1, <1>2, <2>3
  <1>7. TotalIsBacked
    BY <1>6 DEF TotalIsBacked, Total, Holding
  <1>8. f_max \in 0 .. COUNT_MAX /\ threshold1 \in Nat
    BY <1>1, UBubbleAssumption
  <1>9. arrived \in [Strings -> Nat] /\ copied \in [Tags -> Nat]
    BY <1>1
  <1> QED
    BY <1>5, <1>7, <1>8, <1>9 DEF TableInv

-----------------------------------------------------------------------------
(* Every entry is in a bucket of its own string, as long as no hash near   *)
(* the ends of its range has come.                                         *)

NoWrapYet == \A s \in Strings : AtTheWrap(s) => arrived[s] = 0

\* Entry e may be in bucket j of array a.
AtHome(e, a, j) ==
    e.id \in Strings \ {NoFlow} =>
        /\ ~AtTheWrap(e.id)
        /\ j = Context(e.id).keys[a]
        /\ e.l0fp = Context(e.id).fp

BucketAtHome(b, a, j) == \A k \in Slots : AtHome(b[k], a, j)

HomeInv ==
    NoWrapYet => \A a \in Arrays, j \in Indices : BucketAtHome(buckets[a][j], a, j)

\* Fingerprints are at most MaxTag.
LEMMA TagRange == MaxTag \in Nat /\ \A s \in Strings : TagOf(s) \in 0 .. MaxTag
  <1>1. /\ HASH_SPACE - 1 \in Nat /\ FP_UNIT \in Nat \ {0} /\ TAG_UNIT \in Nat \ {0}
        /\ \A s \in Strings : Hash[s] \in Nat /\ Hash[s] <= HASH_SPACE - 1
    BY UBubbleAssumption
  <1> DEFINE top == (HASH_SPACE - 1) \div FP_UNIT
  <1>2. top \in Nat /\ MaxTag \in Nat /\ MaxTag = top \div TAG_UNIT
    BY <1>1, DivNat DEF MaxTag
  <1> HIDE DEF top
  <1>3. ASSUME NEW s \in Strings PROVE TagOf(s) \in 0 .. MaxTag
    <2> DEFINE fp == Hash[s] \div FP_UNIT
    <2>1. Hash[s] \in Int /\ HASH_SPACE - 1 \in Int /\ Hash[s] <= HASH_SPACE - 1
      BY <1>1
    <2>2. fp \in Nat /\ fp <= (HASH_SPACE - 1) \div FP_UNIT
      BY <1>1, <2>1, DivNat, DivMono
    <2>3. Context(s).fp = fp
      BY DEF Context
    <2> HIDE DEF fp
    <2>4. fp <= top /\ fp \in Int /\ top \in Int
      BY <1>2, <2>2 DEF top
    <2>5. fp \div TAG_UNIT <= top \div TAG_UNIT /\ fp \div TAG_UNIT \in Nat
      BY <1>1, <2>2, <2>4, DivNat, DivMono
    <2> QED
      BY <1>2, <2>3, <2>5 DEF TagOf, Tag
  <1> QED
    BY <1>2, <1>3

\* Away from the wrap the two buckets of a string are where its hash, and the
\* hash raised by its fingerprint, say.
LEMMA PlainContext ==
    ASSUME NEW s \in Strings, ~AtTheWrap(s)
    PROVE  LET c == Context(s) IN
           /\ Hash[s] \in Nat /\ TagOf(s) \in Nat
           /\ Hash[s] >= MaxTag /\ Hash[s] + MaxTag < HASH_SPACE
           /\ c.hash_value[0] = Hash[s] /\ c.hash_value[1] = Hash[s] + TagOf(s)
           /\ c.keys[0] = Hash[s] % bucket_num
           /\ c.keys[1] = (Hash[s] + TagOf(s)) % bucket_num
  <1>1. /\ HASH_SPACE \in Nat \ {0} /\ Hash[s] \in 0 .. HASH_SPACE - 1
        /\ MaxTag \in Nat /\ TagOf(s) \in 0 .. MaxTag
    BY UBubbleAssumption, TagRange
  <1>2. Hash[s] >= MaxTag /\ Hash[s] + MaxTag < HASH_SPACE
    BY <1>1 DEF AtTheWrap
  <1>3. Hash[s] + 0 * TagOf(s) = Hash[s] /\ Hash[s] + 1 * TagOf(s) = Hash[s] + TagOf(s)
    BY <1>1
  <1>4. Hash[s] + TagOf(s) \in 0 .. HASH_SPACE - 1
    BY <1>1, <1>2
  <1>5. Hash[s] % HASH_SPACE = Hash[s]
        /\ (Hash[s] + TagOf(s)) % HASH_SPACE = Hash[s] + TagOf(s)
    BY <1>1, <1>4, ModSmall
  <1>6. /\ Context(s).hash_value = [a \in Arrays |-> (Hash[s] + a * TagOf(s)) % HASH_SPACE]
        /\ Context(s).keys = [a \in Arrays |-> Context(s).hash_value[a] % bucket_num]
    BY DEF Context, TagOf
  <1>7. 0 \in Arrays /\ 1 \in Arrays
    BY DEF Arrays
  <1>8. /\ Context(s).hash_value[0] = (Hash[s] + 0 * TagOf(s)) % HASH_SPACE
        /\ Context(s).hash_value[1] = (Hash[s] + 1 * TagOf(s)) % HASH_SPACE
        /\ Context(s).keys[0] = Context(s).hash_value[0] % bucket_num
        /\ Context(s).keys[1] = Context(s).hash_value[1] % bucket_num
    BY <1>6, <1>7
  <1> QED
    BY <1>1, <1>2, <1>3, <1>5, <1>8

\* Away from the wrap an entry is kicked to the other bucket of its own
\* string, although the hash of another one derives it.
LEMMA KickComesHome ==
    ASSUME NEW s \in Strings, NEW f \in Strings, ~AtTheWrap(s), ~AtTheWrap(f),
           NEW a \in Arrays, Context(s).keys[a] = Context(f).keys[a],
           NEW e, e.fingerprint = TagOf(f)
    PROVE  KickTarget(Context(s), a, e) = Context(f).keys[1 - a]
  <1> DEFINE x == Hash[s]
             y == Hash[f]
             p == TagOf(s)
             q == TagOf(f)
  <1>1. /\ x \in Nat /\ y \in Nat /\ p \in 0 .. MaxTag /\ q \in 0 .. MaxTag
        /\ MaxTag \in Nat /\ HASH_SPACE \in Nat \ {0} /\ bucket_num \in Nat \ {0}
        /\ x >= MaxTag /\ x + MaxTag < HASH_SPACE
    BY PlainContext, TagRange, UBubbleAssumption
  <1>2. /\ Context(s).hash_value[0] = x /\ Context(s).hash_value[1] = x + p
        /\ Context(s).keys[0] = x % bucket_num /\ Context(s).keys[1] = (x + p) % bucket_num
        /\ Context(f).keys[0] = y % bucket_num /\ Context(f).keys[1] = (y + q) % bucket_num
    BY PlainContext
  <1> HIDE DEF x, y, p, q
  <1>3. CASE a = 0
    <2>1. x % bucket_num = y % bucket_num
      BY <1>2, <1>3
    <2>2. x \in Int /\ y \in Int /\ q \in Int
      BY <1>1
    <2>3. (x + q) % bucket_num = (y + q) % bucket_num
      BY <1>1, <2>1, <2>2, ModAdd
    <2>4. x + q \in 0 .. HASH_SPACE - 1
      BY <1>1
    <2>5. (x + q) % HASH_SPACE = x + q
      BY <1>1, <2>4, ModSmall
    <2>6. KickTarget(Context(s), a, e) = ((x + q) % HASH_SPACE) % bucket_num
      BY <1>2, <1>3 DEF KickTarget, q
    <2> QED
      BY <1>2, <1>3, <2>3, <2>5, <2>6
  <1>4. CASE a = 1
    <2>1. (x + p) % bucket_num = (y + q) % bucket_num
      BY <1>2, <1>4
    <2>2. x + p \in Int /\ y + q \in Int /\ -q \in Int
      BY <1>1
    <2>3. ((x + p) + (-q)) % bucket_num = ((y + q) + (-q)) % bucket_num
      BY <1>1, <2>1, <2>2, ModAdd
    <2>4. (x + p) + (-q) \in 0 .. HASH_SPACE - 1 /\ (y + q) + (-q) = y
      BY <1>1
    <2>5. ((x + p) + (-q)) % HASH_SPACE = (x + p) + (-q)
      BY <1>1, <2>4, ModSmall
    <2>6. KickTarget(Context(s), a, e) = (((x + p) + (-q)) % HASH_SPACE) % bucket_num
      BY <1>2, <1>4 DEF KickTarget, q
    <2> QED
      BY <1>2, <1>4, <2>3, <2>4, <2>5, <2>6
  <1> QED
    BY <1>3, <1>4 DEF Arrays

TableAtHome(bk) == \A a \in Arrays, j \in Indices : BucketAtHome(bk[a][j], a, j)

\* Replacing a bucket by one whose entries belong there.
LEMMA PutAtHome ==
    ASSUME NEW bk \in [Arrays -> [Indices -> Bucket]], TableAtHome(bk),
           NEW a \in Arrays, NEW j \in Indices, NEW b \in Bucket, BucketAtHome(b, a, j)
    PROVE  /\ Put(bk, a, j, b) \in [Arrays -> [Indices -> Bucket]]
           /\ TableAtHome(Put(bk, a, j, b))
  <1> DEFINE n == Put(bk, a, j, b)
  <1>1. n \in [Arrays -> [Indices -> Bucket]]
    BY DEF Put
  <1>2. n[a][j] = b /\ \A x \in Arrays, y \in Indices : x # a \/ y # j => n[x][y] = bk[x][y]
    BY DEF Put
  <1> HIDE DEF n
  <1>3. ASSUME NEW x \in Arrays, NEW y \in Indices PROVE BucketAtHome(n[x][y], x, y)
    <2>1. CASE x = a /\ y = j
      BY <1>2, <2>1
    <2>2. CASE x # a \/ y # j
      BY <1>2, <2>2 DEF TableAtHome
    <2> QED
      BY <2>1, <2>2
  <1> QED
    BY <1>1, <1>3 DEF TableAtHome, n

\* Counting does not change where an entry belongs.
LEMMA CountingStays ==
    ASSUME NEW e \in Entry, NEW a, NEW j, AtHome(e, a, j)
    PROVE  AtHome(Entry_Insert(e), a, j) /\ AtHome(Entry_Lossy(e), a, j)
  <1>1. /\ Entry_Insert(e).id = e.id /\ Entry_Insert(e).l0fp = e.l0fp
        /\ Entry_Lossy(e).id = e.id /\ Entry_Lossy(e).l0fp = e.l0fp
    BY DEF Entry_Insert, Entry_Lossy, Entry
  <1> QED
    BY <1>1 DEF AtHome

\* Nor does an insertion of a string away from the wrap, whatever its branch.
LEMMA InsertAtHome ==
    ASSUME NEW s, NEW w, NEW v, Ready(s, w, v), InsertString(s), ~AtTheWrap(s),
           TableAtHome(buckets)
    PROVE  TableAtHome(buckets')
  <1> DEFINE c == Context(s)
  <1>1. /\ s \in Strings /\ c.key = s
        /\ \A a \in Arrays : c.keys[a] \in Indices
        /\ buckets \in [Arrays -> [Indices -> Bucket]]
    BY StringContext DEF Ready, TableFine
  <1>2. \A a \in Arrays : /\ Probe(c, a) \in Bucket
                          /\ BucketAtHome(Probe(c, a), a, c.keys[a])
    BY <1>1 DEF Probe, TableAtHome
  <1> HIDE DEF c
  \* One entry of the bucket probed is replaced.
  <1>3. ASSUME NEW a \in Arrays, NEW i \in Slots, NEW e \in Entry, AtHome(e, a, c.keys[a]),
               buckets' = Put(buckets, a, c.keys[a], [Probe(c, a) EXCEPT ![i] = e])
        PROVE  TableAtHome(buckets')
    <2> DEFINE n == [Probe(c, a) EXCEPT ![i] = e]
    <2>1. n \in Bucket
      BY <1>2 DEF Bucket
    <2>2. \A k \in Slots : n[k] = IF k = i THEN e ELSE Probe(c, a)[k]
      BY <1>2 DEF Bucket
    <2>3. BucketAtHome(n, a, c.keys[a])
      BY <1>2, <1>3, <2>2 DEF BucketAtHome
    <2> HIDE DEF n
    <2> QED
      BY <1>1, <1>3, <2>1, <2>3, PutAtHome DEF n
  <1>4. ASSUME NEW a \in Arrays, HotHit(c, a) PROVE TableAtHome(buckets')
    <2> DEFINE e == Entry_Insert(Probe(c, a)[0])
    <2>1. buckets' = Put(buckets, a, c.keys[a], [Probe(c, a) EXCEPT ![0] = e])
      BY <1>4 DEF HotHit, CountHot, Put
    <2>2. e \in Entry /\ AtHome(e, a, c.keys[a])
      BY <1>2, SlotFacts, Entries, CountingStays DEF BucketAtHome
    <2> HIDE DEF e
    <2> QED
      BY <1>3, <2>1, <2>2, SlotFacts
  <1>5. ASSUME NEW a \in Arrays, NEW i \in Slots, Fill(c, a, i) PROVE TableAtHome(buckets')
    <2> DEFINE e == Entry_Insert_with(c)
    <2>1. buckets' = Put(buckets, a, c.keys[a], [Probe(c, a) EXCEPT ![i] = e])
      BY <1>5 DEF Fill, Take, Put, Probe
    <2>2. e \in Entry /\ AtHome(e, a, c.keys[a])
      <3>1. e \in Entry
        BY <1>1, Entries DEF c
      <3>2. e.id = s /\ e.l0fp = c.fp
        BY <1>1 DEF Entry_Insert_with
      <3> QED
        BY <3>1, <3>2 DEF AtHome, c
    <2> HIDE DEF e
    <2> QED
      BY <1>3, <2>1, <2>2
  <1>6. ASSUME Lossy(c) PROVE TableAtHome(buckets')
    <2> DEFINE a == LossyArray(c)
               e == Entry_Lossy(Probe(c, a)[last])
    <2>1. a \in Arrays
      BY DEF LossyArray, Arrays
    <2>2. buckets' = Put(buckets, a, c.keys[a], [Probe(c, a) EXCEPT ![last] = e])
      <3>1. buckets' = [buckets EXCEPT ![a][c.keys[a]][last] = Entry_Lossy(@)]
        BY <1>6 DEF Lossy, Decay, last
      <3> QED
        BY <3>1 DEF Put, Probe
    <2> HIDE DEF a
    <2>3. e \in Entry /\ AtHome(e, a, c.keys[a])
      BY <1>2, <2>1, SlotFacts, Entries, CountingStays DEF BucketAtHome
    <2> HIDE DEF e
    <2> QED
      BY <1>3, <2>1, <2>2, <2>3, SlotFacts
  <1>7. ASSUME NEW a \in Arrays, NEW i \in Slots, ColdHitCopying(c, a, i)
        PROVE  TableAtHome(buckets')
    <2> DEFINE p == Probe(c, a)
               j == c.keys[a]
               m == [p EXCEPT ![i] = Entry_Insert(@)]
               b == Bucket_BucketSort(m, i)
               target == KickTarget(c, a, b[1])
               next == buckets[1 - a][target]
               n == [Bucket_down_stairs(next, 0) EXCEPT ![0] = b[1]]
               r == Copying_Remove(b, 1)
    <2>1. \/ buckets' = Put(buckets, a, j, b)
          \/ buckets' = Put(Put(buckets, 1 - a, target, n), a, j, r)
      <3>1. \/ buckets' = [buckets EXCEPT ![a][j] = b]
            \/ buckets' = [buckets EXCEPT ![1 - a][target] = n, ![a][j] = r]
        BY <1>7 DEF ColdHitCopying, CountColdCopying
      <3> HIDE DEF b, n, r, target, next, j
      <3>2. /\ [buckets EXCEPT ![a][j] = b] = Put(buckets, a, j, b)
            /\ [buckets EXCEPT ![1 - a][target] = n, ![a][j] = r]
                    = Put(Put(buckets, 1 - a, target, n), a, j, r)
        BY DEF Put
      <3> QED
        BY <3>1, <3>2
    <2>2. p \in Bucket /\ BucketAtHome(p, a, j) /\ j \in Indices
      BY <1>1, <1>2
    <2> HIDE DEF p, j
    <2>3. /\ m \in Bucket /\ b \in Bucket
          /\ \A k \in Slots : \E x \in Slots : b[k] = m[x]
      BY <2>2, SortFacts
    <2>4. BucketAtHome(b, a, j)
      <3>1. \A k \in Slots : m[k] = IF k = i THEN Entry_Insert(p[k]) ELSE p[k]
        BY <2>2 DEF Bucket
      <3>2. \A k \in Slots : AtHome(m[k], a, j)
        BY <2>2, <3>1, Entries, CountingStays DEF BucketAtHome
      <3> HIDE DEF m, b
      <3> QED
        BY <2>3, <3>2 DEF BucketAtHome
    <2> HIDE DEF m, b
    <2>5. b[1] \in Entry /\ AtHome(b[1], a, j)
          /\ b[1].fingerprint = Tag(b[1].l0fp)
      <3>1. b[1] \in Entry /\ AtHome(b[1], a, j)
        BY <2>3, <2>4, SlotFacts, Entries DEF BucketAtHome
      <3>2. b[1].fingerprint = Tag(b[1].l0fp)
        <4>1. \A k \in Slots : p[k].fingerprint = Tag(p[k].l0fp)
          BY ProbeFacts DEF p, c, BucketFine, EntryFine
        <4>2. \A k \in Slots : m[k].fingerprint = Tag(m[k].l0fp)
          <5>1. \A k \in Slots : m[k] = IF k = i THEN Entry_Insert(p[k]) ELSE p[k]
            BY <2>2 DEF Bucket, m
          <5>2. \A e \in Entry : /\ Entry_Insert(e).fingerprint = e.fingerprint
                                 /\ Entry_Insert(e).l0fp = e.l0fp
            BY DEF Entry_Insert, Entry
          <5> QED
            BY <2>2, <4>1, <5>1, <5>2, Entries
        <4> QED
          BY <2>3, <4>2, SlotFacts
      <3> QED
        BY <3>1, <3>2
    <2>6. target \in Indices /\ 1 - a \in Arrays
      <3>1. b[1].fingerprint \in Nat
        BY <2>5 DEF Entry
      <3> QED
        BY <1>1, <3>1, TargetType, SlotFacts DEF c
    <2>7. AtHome(b[1], 1 - a, target)
      <3> SUFFICES ASSUME b[1].id \in Strings \ {NoFlow}
                   PROVE  target = Context(b[1].id).keys[1 - a]
        BY <2>5 DEF AtHome
      <3> DEFINE f == b[1].id
      <3>1. ~AtTheWrap(f) /\ Context(s).keys[a] = Context(f).keys[a] /\ f \in Strings
        BY <2>5 DEF AtHome, j, c
      <3>2. b[1].fingerprint = TagOf(f)
        BY <2>5 DEF AtHome, TagOf
      <3> HIDE DEF f
      <3>3. KickTarget(Context(s), a, b[1]) = Context(f).keys[1 - a]
        BY <1>1, <3>1, <3>2, KickComesHome
      <3> QED
        BY <3>3 DEF f, c
    <2> HIDE DEF target
    <2>8. next \in Bucket /\ BucketAtHome(next, 1 - a, target)
      BY <1>1, <2>6 DEF TableAtHome
    <2> HIDE DEF next
    <2>9. n \in Bucket /\ \A k \in Slots : n[k] = b[1] \/ \E x \in Slots : n[k] = next[x]
      BY <2>5, <2>8, PushFacts
    <2>10. r \in Bucket /\ \A k \in Slots : \E x \in Slots : r[k] = b[x]
      BY <2>3, CopyingFacts
    <2> HIDE DEF n, r
    <2>11. BucketAtHome(n, 1 - a, target) /\ BucketAtHome(r, a, j)
      BY <2>4, <2>7, <2>8, <2>9, <2>10 DEF BucketAtHome
    <2>12. TableAtHome(Put(buckets, a, j, b))
      BY <1>1, <2>2, <2>3, <2>4, PutAtHome
    <2> DEFINE mid == Put(buckets, 1 - a, target, n)
    <2>13. mid \in [Arrays -> [Indices -> Bucket]] /\ TableAtHome(mid)
      BY <1>1, <2>6, <2>9, <2>11, PutAtHome
    <2> HIDE DEF mid
    <2>14. TableAtHome(Put(mid, a, j, r))
      BY <2>2, <2>10, <2>11, <2>13, PutAtHome
    <2> QED
      BY <2>1, <2>12, <2>14 DEF mid
  <1> QED
    BY <1>4, <1>5, <1>6, <1>7 DEF InsertString, c

\* An insertion keeps every entry in a bucket of its own.
LEMMA HomeInvInsert ==
    ASSUME TableInv, HomeInv, NEW s \in Strings, InsertString(s)
    PROVE  HomeInv'
  <1>1. arrived' = [arrived EXCEPT ![s] = @ + 1]
    BY DEF InsertString
  <1> SUFFICES ASSUME NoWrapYet' PROVE TableAtHome(buckets')
    BY DEF HomeInv, TableAtHome
  <1>2. /\ \A x \in Strings : AtTheWrap(x)' <=> AtTheWrap(x)
        /\ arrived \in [Strings -> Nat]
    BY DEF AtTheWrap, TableInv
  <1>3. NoWrapYet /\ ~AtTheWrap(s)
    BY <1>1, <1>2 DEF NoWrapYet
  <1>4. TableAtHome(buckets)
    BY <1>3 DEF HomeInv, TableAtHome
  <1>5. Ready(s, Counts, Counts')
    BY <1>1, SentGrows DEF Ready, TableInv
  <1> QED
    BY <1>3, <1>4, <1>5, InsertAtHome

\* An empty table has no entry out of place.
LEMMA HomeInvInit == Init_ububble => HomeInv
  <1> SUFFICES ASSUME Init_ububble PROVE HomeInv
    OBVIOUS
  <1>1. buckets = [a \in Arrays |-> [j \in Indices |-> [i \in Slots |-> Entry_init]]]
    BY DEF Init_ububble, Init_sketch
  <1>2. Entry_init.id = NoFlow
    BY DEF Entry_init
  <1> QED
    BY <1>1, <1>2 DEF HomeInv, BucketAtHome, AtHome

-----------------------------------------------------------------------------
(* What has been counted, and where.                                       *)

Labels    == {"open", "filter", "dispatch", "insert", "stats", "display",
              "forget", "close", "done"}
Displayed == {"forget", "close", "done"}

\* Whether the packet being handled is of a flow of S.
PendingOf(S) == IF packet \in S THEN 1 ELSE 0

OfString(s) == {f \in Flows : CString[f] = s}
OfTag(t)    == {f \in Flows : TagOf(CString[f]) = t}

Types ==
    /\ pc \in Labels
    /\ packet \in Flows \union {NoPacket}
    /\ pc = "insert" <=> packet # NoPacket
    /\ handle \in {"null", "open", "closed"}
    /\ global_handle \in BOOLEAN /\ keep_running \in BOOLEAN
    /\ total_packets \in 0 .. MaxTotal
    /\ processed_packets \in Nat /\ total_inserts \in Nat
    /\ current_second_packets \in Nat /\ unparsed \in Nat /\ printed \in Nat
    /\ now \in 0 .. MaxSeconds /\ last_second_time \in 0 .. now
    /\ sent \in [Flows -> Nat]

Accounts ==
    /\ processed_packets = total_inserts
    /\ total_packets = total_inserts + PendingOf(Flows) + unparsed
    /\ SumFunctionOnSet(sent, Flows) = total_inserts + PendingOf(Flows)
    /\ \A s \in Strings :
          /\ SumFunctionOnSet(sent, OfString(s)) = arrived[s] + PendingOf(OfString(s))
          /\ arrived[s] <= total_inserts
    /\ \A t \in Tags :
          SumFunctionOnSet(sent, OfTag(t)) = Sent(t) + PendingOf(OfTag(t))

Printing ==
    /\ pc \notin Displayed => total_packets = printed + current_second_packets
    /\ pc = "forget" => printed = total_packets

Displaying ==
    /\ pc \notin Displayed => ret = {}
    /\ DisplayIsBacked

IInv == TableInv /\ HomeInv /\ Types /\ Accounts /\ Printing /\ Displaying

\* What a step does that leaves the sketch alone.
LEMMA SketchStays ==
    ASSUME UNCHANGED ububble, TableInv, HomeInv
    PROVE  TableInv' /\ HomeInv'
  <1>1. UNCHANGED <<buckets, f_max, threshold1, arrived, copied>>
    BY DEF ububble
  <1>2. TableInv'
    BY <1>1 DEF TableInv, TotalIsBacked, Counts, Sent
  <1>3. HomeInv'
    BY <1>1 DEF HomeInv, NoWrapYet
  <1> QED
    BY <1>2, <1>3

\* A step that counts nothing keeps the accounts.
LEMMA AccountsStay ==
    ASSUME UNCHANGED <<ububble, packet, stats, traffic>>, Accounts
    PROVE  Accounts'
  <1>1. UNCHANGED <<arrived, packet, total_packets, processed_packets, total_inserts,
                    sent, unparsed>>
    BY DEF ububble, stats, traffic
  <1> QED
    BY <1>1 DEF Accounts, PendingOf, Sent

\* What was displayed stays backed.
LEMMA RowsStay ==
    ASSUME UNCHANGED <<ret, traffic>>, DisplayIsBacked
    PROVE  DisplayIsBacked'
  BY DEF DisplayIsBacked, traffic

\* What came of a fingerprint is a natural number.
LEMMA SentType == TableInv => \A t : Sent(t) \in Nat
  <1> SUFFICES ASSUME TableInv, NEW t PROVE Sent(t) \in Nat
    OBVIOUS
  <1> DEFINE S == {x \in Strings : TagOf(x) = t}
  <1>1. IsFiniteSet(S) /\ \A x \in S : arrived[x] \in Nat
    BY StringsFinite, FS_Subset DEF TableInv
  <1>2. Sent(t) = SumFunctionOnSet(arrived, S)
    BY DEF Sent
  <1> HIDE DEF S
  <1> QED
    BY <1>1, <1>2, SumType

\* Sums of what was sent.
LEMMA FlowsFinite ==
    /\ IsFiniteSet(Flows)
    /\ \A s : IsFiniteSet(OfString(s)) /\ OfString(s) \subseteq Flows
    /\ \A t : IsFiniteSet(OfTag(t)) /\ OfTag(t) \subseteq Flows
  <1>1. \A s : OfString(s) \subseteq Flows
    BY DEF OfString
  <1>2. \A t : OfTag(t) \subseteq Flows
    BY DEF OfTag
  <1>3. IsFiniteSet(Flows)
    BY CaptureAssumption
  <1> QED
    BY <1>1, <1>2, <1>3, FS_Subset

\* A packet more of a flow is one more in the sums it is part of.
LEMMA SentSums ==
    ASSUME sent \in [Flows -> Nat], NEW S \in SUBSET Flows
    PROVE  /\ SumFunctionOnSet(sent, S) \in Nat
           /\ \A f \in Flows : SumFunctionOnSet([sent EXCEPT ![f] = @ + 1], S)
                    = SumFunctionOnSet(sent, S) + (IF f \in S THEN 1 ELSE 0)
  <1>1. IsFiniteSet(S)
    BY FlowsFinite, FS_Subset
  <1>2. SumFunctionOnSet(sent, S) \in Nat
    BY <1>1, SumType
  <1>3. sent \in [Flows -> Int]
    OBVIOUS
  <1> QED
    BY <1>1, <1>2, <1>3, SumIncrement

\* The bounds, and that NoPacket is no flow.
LEMMA BoundTypes ==
    /\ MaxTotal \in Nat /\ MaxTotal < COUNT_MAX /\ COUNT_MAX \in Nat /\ MaxSeconds \in Nat
    /\ NoPacket \notin Flows
  BY CaptureAssumption, UBubbleAssumption

\* Nothing has come at the start.
LEMMA IInvInit == Init => IInv
  <1> SUFFICES ASSUME Init PROVE IInv
    OBVIOUS
  <1>1. TableInv /\ HomeInv
    BY TableInvInit, HomeInvInit DEF Init
  <1>2. Types
    <2>1. sent = [f \in Flows |-> 0] /\ total_packets = 0 /\ now = 0 /\ last_second_time = 0
      BY DEF Init
    <2>2. sent \in [Flows -> Nat] /\ total_packets \in 0 .. MaxTotal
          /\ now \in 0 .. MaxSeconds /\ last_second_time \in 0 .. now
      BY <2>1, BoundTypes
    <2> QED
      BY <2>2 DEF Init, Types, Labels
  <1>3. Accounts
    <2>1. /\ packet = NoPacket /\ \A f \in Flows : sent[f] = 0
          /\ \A s \in Strings : arrived[s] = 0
          /\ total_packets = 0 /\ processed_packets = 0 /\ total_inserts = 0 /\ unparsed = 0
      BY DEF Init, Init_ububble
    <2>2. \A S \in SUBSET Flows : SumFunctionOnSet(sent, S) = 0 /\ PendingOf(S) = 0
      <3> SUFFICES ASSUME NEW S \in SUBSET Flows
                   PROVE  SumFunctionOnSet(sent, S) = 0 /\ PendingOf(S) = 0
        OBVIOUS
      <3>1. IsFiniteSet(S)
        BY FlowsFinite, FS_Subset
      <3> QED
        BY <2>1, <3>1, CaptureAssumption, SumZero DEF PendingOf
    <2>3. \A t : Sent(t) = 0
      <3> SUFFICES ASSUME NEW t PROVE Sent(t) = 0
        OBVIOUS
      <3>1. IsFiniteSet({s \in Strings : TagOf(s) = t})
        BY StringsFinite, FS_Subset
      <3> QED
        BY <2>1, <3>1, SumZero DEF Sent
    <2> QED
      BY <2>1, <2>2, <2>3, FlowsFinite DEF Accounts
  <1>4. Printing /\ Displaying
    BY DEF Init, Printing, Displaying, Displayed, DisplayIsBacked
  <1> QED
    BY <1>1, <1>2, <1>3, <1>4 DEF IInv

\* A packet counted is pending until it is inserted.
LEMMA CountPacketKeeps ==
    ASSUME IInv, NEW f \in Flows, CountPacket(f)
    PROVE  IInv'
  <1>1. /\ pc = "dispatch" /\ pc' = "insert" /\ packet' = f
        /\ total_packets' = total_packets + 1 /\ total_packets < MaxTotal
        /\ current_second_packets' = current_second_packets + 1
        /\ sent' = [sent EXCEPT ![f] = @ + 1]
        /\ UNCHANGED <<ububble, keep_running, handle, global_handle, processed_packets,
                       total_inserts, now, last_second_time, ret, unparsed, printed>>
    BY DEF CountPacket, Count, Goto, setup, clock
  <1>2. TableInv' /\ HomeInv'
    BY <1>1, SketchStays DEF IInv
  <1>3. packet = NoPacket /\ f # NoPacket /\ NoPacket \notin Flows
    BY <1>1, CaptureAssumption DEF IInv, Types
  <1>4. Types'
    BY <1>1, <1>3, CaptureAssumption DEF IInv, Types, Labels
  <1>5. Accounts'
    <2>1. UNCHANGED arrived
      BY <1>1 DEF ububble
    <2>2. \A S \in SUBSET Flows :
              /\ SumFunctionOnSet(sent, S) \in Nat
              /\ SumFunctionOnSet(sent', S) = SumFunctionOnSet(sent, S) + PendingOf(S)'
              /\ PendingOf(S) = 0 /\ PendingOf(S)' \in {0, 1}
      BY <1>1, <1>3, SentSums DEF IInv, Types, PendingOf
    <2>0. /\ SumFunctionOnSet(sent, Flows) \in Nat
          /\ SumFunctionOnSet(sent', Flows)
                  = SumFunctionOnSet(sent, Flows) + PendingOf(Flows)'
          /\ PendingOf(Flows) = 0
      <3>1. Flows \in SUBSET Flows
        OBVIOUS
      <3> QED
        BY <2>2, <3>1
    <2>3. PendingOf(Flows)' = 1
      BY <1>1 DEF PendingOf
    <2>4. \A t : Sent(t)' = Sent(t)
      BY <2>1 DEF Sent
    <2>5. /\ processed_packets' = total_inserts'
          /\ total_packets' = total_inserts' + PendingOf(Flows)' + unparsed'
          /\ SumFunctionOnSet(sent', Flows) = total_inserts' + PendingOf(Flows)'
      <3>1. /\ processed_packets = total_inserts /\ total_inserts \in Nat /\ unparsed \in Nat
            /\ total_packets = total_inserts + PendingOf(Flows) + unparsed
            /\ SumFunctionOnSet(sent, Flows) = total_inserts + PendingOf(Flows)
        BY DEF IInv, Types, Accounts
      <3> QED
        BY <1>1, <2>0, <2>3, <3>1
    <2>6. ASSUME NEW s \in Strings
          PROVE  /\ SumFunctionOnSet(sent', OfString(s))
                        = arrived'[s] + PendingOf(OfString(s))'
                 /\ arrived'[s] <= total_inserts'
      <3>1. SumFunctionOnSet(sent, OfString(s)) = arrived[s] + PendingOf(OfString(s))
        BY DEF IInv, Accounts
      <3>2. arrived[s] <= total_inserts /\ arrived[s] \in Nat
        BY DEF IInv, Accounts, TableInv
      <3>3. /\ SumFunctionOnSet(sent, OfString(s)) \in Nat
            /\ SumFunctionOnSet(sent', OfString(s))
                    = SumFunctionOnSet(sent, OfString(s)) + PendingOf(OfString(s))'
            /\ PendingOf(OfString(s)) = 0
        BY <2>2, FlowsFinite
      <3>4. arrived' = arrived /\ total_inserts' = total_inserts
        BY <1>1, <2>1
      <3> QED
        BY <3>1, <3>2, <3>3, <3>4
    <2>7. ASSUME NEW t \in Tags
          PROVE  SumFunctionOnSet(sent', OfTag(t)) = Sent(t)' + PendingOf(OfTag(t))'
      <3>1. SumFunctionOnSet(sent, OfTag(t)) = Sent(t) + PendingOf(OfTag(t))
        BY DEF IInv, Accounts
      <3>2. /\ SumFunctionOnSet(sent, OfTag(t)) \in Nat
            /\ SumFunctionOnSet(sent', OfTag(t))
                    = SumFunctionOnSet(sent, OfTag(t)) + PendingOf(OfTag(t))'
            /\ PendingOf(OfTag(t)) = 0
        BY <2>2, FlowsFinite
      <3>3. Sent(t) = SumFunctionOnSet(sent, OfTag(t))
        BY <1>2, <3>1, <3>2, SentType DEF IInv
      <3> QED
        BY <2>4, <3>2, <3>3
    <2> QED
      BY <2>5, <2>6, <2>7 DEF Accounts, OfString, OfTag
  <1>6. Printing' /\ Displaying'
    BY <1>1 DEF IInv, Types, Printing, Displaying, Displayed, DisplayIsBacked
  <1> QED
    BY <1>2, <1>4, <1>5, <1>6 DEF IInv

\* Inserting the pending packet settles its accounts.
LEMMA InsertPacketKeeps ==
    ASSUME IInv, InsertPacket
    PROVE  IInv'
  <1> DEFINE s == CString[packet]
  <1>1. /\ pc = "insert" /\ pc' = "dispatch" /\ packet' = NoPacket
        /\ InsertString(s)
        /\ processed_packets' = processed_packets + 1
        /\ total_inserts' = total_inserts + 1
        /\ UNCHANGED <<keep_running, handle, global_handle, total_packets,
                       current_second_packets, now, last_second_time, ret, sent, unparsed,
                       printed>>
    BY DEF InsertPacket, Goto, setup, clock, traffic
  <1>2. packet \in Flows /\ NoPacket \notin Flows /\ s \in Strings
    BY <1>1, CaptureAssumption DEF IInv, Types, Strings
  <1>3. TableInv' /\ HomeInv'
    <2> HIDE DEF s
    <2> QED
      BY <1>1, <1>2, TableInvInsert, HomeInvInsert DEF IInv
  <1>4. Types'
    BY <1>1, CaptureAssumption DEF IInv, Types, Labels
  <1>5. Accounts'
    <2>1. arrived' = [arrived EXCEPT ![s] = @ + 1] /\ arrived \in [Strings -> Nat]
      BY <1>1 DEF InsertString, IInv, TableInv
    <2>2. \A S \in SUBSET Flows : PendingOf(S)' = 0
      BY <1>1, <1>2 DEF PendingOf
    <2>3. PendingOf(Flows) = 1
      BY <1>2 DEF PendingOf
    <2>4. /\ processed_packets' = total_inserts'
          /\ total_packets' = total_inserts' + PendingOf(Flows)' + unparsed'
          /\ SumFunctionOnSet(sent', Flows) = total_inserts' + PendingOf(Flows)'
      BY <1>1, <2>2, <2>3 DEF IInv, Types, Accounts
    <2>5. ASSUME NEW x \in Strings
          PROVE  /\ SumFunctionOnSet(sent', OfString(x))
                        = arrived'[x] + PendingOf(OfString(x))'
                 /\ arrived'[x] <= total_inserts'
      <3>1. /\ SumFunctionOnSet(sent, OfString(x)) = arrived[x] + PendingOf(OfString(x))
            /\ arrived[x] <= total_inserts /\ arrived[x] \in Nat /\ total_inserts \in Nat
        BY <2>1 DEF IInv, Accounts, Types
      <3>2. PendingOf(OfString(x)) = IF x = s THEN 1 ELSE 0
        BY <1>2 DEF PendingOf, OfString
      <3>3. PendingOf(OfString(x))' = 0 /\ sent' = sent
        BY <1>1, <2>2, FlowsFinite
      <3>4. arrived'[x] = IF x = s THEN arrived[x] + 1 ELSE arrived[x]
        BY <2>1
      <3> QED
        BY <1>1, <3>1, <3>2, <3>3, <3>4
    <2>6. ASSUME NEW t \in Tags
          PROVE  SumFunctionOnSet(sent', OfTag(t)) = Sent(t)' + PendingOf(OfTag(t))'
      <3>1. SumFunctionOnSet(sent, OfTag(t)) = Sent(t) + PendingOf(OfTag(t))
        BY DEF IInv, Accounts
      <3>2. PendingOf(OfTag(t)) = IF t = TagOf(s) THEN 1 ELSE 0
        BY <1>2 DEF PendingOf, OfTag
      <3>3. PendingOf(OfTag(t))' = 0 /\ sent' = sent
        BY <1>1, <2>2, FlowsFinite
      <3>4. Sent(t) \in Nat /\ Sent(t)' = Sent(t) + (IF t = TagOf(s) THEN 1 ELSE 0)
        BY <1>2, <2>1, SentGrows
      <3> QED
        BY <3>1, <3>2, <3>3, <3>4
    <2> QED
      BY <2>4, <2>5, <2>6 DEF Accounts, OfString, OfTag
  <1>6. Printing' /\ Displaying'
    BY <1>1 DEF IInv, Types, Printing, Displaying, Displayed, DisplayIsBacked
  <1> QED
    BY <1>3, <1>4, <1>5, <1>6 DEF IInv

\* The rows displayed are heads of the table, and what they count has come.
LEMMA DisplayKeeps ==
    ASSUME IInv, display_results
    PROVE  IInv'
  <1>1. /\ pc = "display" /\ pc' = "forget" /\ printed' = printed + current_second_packets
        /\ ret' = Rows
        /\ UNCHANGED <<ububble, packet, keep_running, handle, global_handle, stats,
                       current_second_packets, now, last_second_time, traffic>>
    BY DEF display_results, Goto, setup, clock
  <1>2. TableInv' /\ HomeInv' /\ Accounts'
    BY <1>1, SketchStays, AccountsStay DEF IInv
  <1>3. Types' /\ Printing'
    BY <1>1 DEF IInv, Types, Labels, Printing, Displayed, stats, traffic
  <1>4. DisplayIsBacked'
    <2>1. ASSUME NEW row \in Rows
          PROVE  \E t \in RowTags(row.str) :
                    row.val <= SumFunctionOnSet(sent, {f \in Flows : TagOf(CString[f]) = t})
      <3>1. PICK a \in Arrays, j \in Indices :
                row = [str |-> buckets[a][j][0].id, val |-> buckets[a][j][0].count]
        BY DEF Rows, Heads
      <3> DEFINE e == buckets[a][j][0]
                 t == e.fingerprint
      <3>2. EntryFine(e, Counts) /\ e.count \in Nat
        BY SlotFacts, Entries DEF IInv, TableInv, TableFine, BucketFine
      <3> HIDE DEF e
      <3>3. row.str = e.id /\ row.val = e.count
        BY <3>1 DEF e
      <3>4. t \in RowTags(row.str) /\ t \in Tags /\ e.count <= Sent(t)
        BY <3>2, <3>3, RowTagsAreTags DEF EntryFine, Counts
      <3>5. SumFunctionOnSet(sent, OfTag(t)) = Sent(t) + PendingOf(OfTag(t))
            /\ PendingOf(OfTag(t)) \in {0, 1} /\ Sent(t) \in Nat
        BY <3>4, SentType DEF IInv, Accounts, PendingOf
      <3>6. row.val <= SumFunctionOnSet(sent, OfTag(t))
        BY <3>2, <3>3, <3>4, <3>5
      <3> QED
        BY <3>4, <3>6 DEF OfTag
    <2> QED
      BY <1>1, <2>1 DEF DisplayIsBacked, traffic
  <1> QED
    BY <1>1, <1>2, <1>3, <1>4 DEF IInv, Displaying, Displayed

\* Every step of main and every signal keeps IInv.
LEMMA IInvNext == IInv /\ [Next]_vars => IInv'
  <1> SUFFICES ASSUME IInv, [Next]_vars PROVE IInv'
    OBVIOUS
  <1>1. ASSUME UNCHANGED <<ububble, packet, stats, traffic, ret>>,
               Types', Printing', pc' \notin Displayed => pc \notin Displayed
        PROVE  IInv'
    BY <1>1, SketchStays, AccountsStay, RowsStay DEF IInv, Displaying
  <1> USE DEF Goto, Types, Labels, Printing, Displayed, setup, clock, stats, traffic
  <1>2. CASE Open
    BY <1>1, <1>2 DEF Open, IInv
  <1>3. CASE SetFilter
    BY <1>1, <1>3 DEF SetFilter, IInv, while_keep_running
  <1>4. CASE Dispatched
    BY <1>1, <1>4 DEF Dispatched, IInv
  <1>5. CASE Stats
    <2>1. Types'
      <3>1. /\ pc = "stats" /\ pc' \in {"dispatch", "display"} /\ keep_running' \in BOOLEAN
            /\ UNCHANGED <<packet, handle, global_handle, total_packets, processed_packets,
                           total_inserts, sent, unparsed>>
        BY <1>5 DEF Stats, IInv, while_keep_running
      <3>2. /\ now' \in 0 .. MaxSeconds /\ last_second_time' \in 0 .. now'
            /\ printed' \in Nat /\ current_second_packets' \in Nat
        <4>1. /\ now' \in now .. MaxSeconds
              /\ \/ /\ printed' = printed + current_second_packets
                    /\ current_second_packets' = 0
                    /\ last_second_time' = now'
                 \/ UNCHANGED <<printed, current_second_packets, last_second_time>>
          BY <1>5 DEF Stats
        <4>2. /\ now \in Nat /\ last_second_time \in Nat /\ last_second_time <= now
              /\ printed \in Nat /\ current_second_packets \in Nat
          BY DEF IInv
        <4> QED
          BY <4>1, <4>2, BoundTypes
      <3> QED
        BY <3>1, <3>2 DEF IInv
    <2>2. Printing'
      BY <1>5 DEF Stats, IInv, while_keep_running
    <2> QED
      BY <1>1, <1>5, <2>1, <2>2 DEF Stats
  <1>6. CASE display_results
    BY <1>6, DisplayKeeps
  <1>7. CASE ForgetHandle
    BY <1>1, <1>7 DEF ForgetHandle, IInv
  <1>8. CASE Close
    BY <1>1, <1>8 DEF Close, IInv
  <1>9. CASE InsertPacket
    BY <1>9, InsertPacketKeeps
  <1>10. CASE CountOther
    <2>1. /\ pc = "dispatch" /\ total_packets < MaxTotal
          /\ total_packets' = total_packets + 1 /\ unparsed' = unparsed + 1
          /\ current_second_packets' = current_second_packets + 1
          /\ UNCHANGED <<ububble, pc, packet, keep_running, setup, processed_packets,
                         total_inserts, clock, ret, sent, printed>>
      BY <1>10 DEF CountOther, Count
    <2>2. TableInv' /\ HomeInv' /\ UNCHANGED arrived
      BY <2>1, SketchStays DEF IInv, ububble
    <2>3. Types' /\ Printing'
      BY <2>1, CaptureAssumption DEF IInv
    <2>4. Accounts'
      BY <2>1, <2>2 DEF IInv, Accounts, PendingOf, Sent
    <2>5. Displaying'
      BY <2>1 DEF IInv, Displaying, DisplayIsBacked
    <2> QED
      BY <2>2, <2>3, <2>4, <2>5 DEF IInv
  <1>11. ASSUME NEW f \in Flows, CountPacket(f) PROVE IInv'
    BY <1>11, CountPacketKeeps
  <1>12. CASE signal_handler
    BY <1>1, <1>12 DEF signal_handler, IInv
  <1>13. CASE UNCHANGED vars
    BY <1>1, <1>13 DEF vars, IInv
  <1> QED
    BY <1>2, <1>3, <1>4, <1>5, <1>6, <1>7, <1>8, <1>9, <1>10, <1>11, <1>12, <1>13
       DEF Next, Main

-----------------------------------------------------------------------------
(* The theorems.                                                           *)

\* IInv is an invariant.
LEMMA Invariant == Spec => []IInv
  BY IInvInit, IInvNext, PTL DEF Spec

\* The variables keep their types: main's, and the sketch's, whose counters do
\* not wrap as long as MaxTotal bounds the traffic.
THEOREM TypeCorrect == Spec => []TypeOK
  <1>1. IInv => TypeOK
    <2> SUFFICES ASSUME IInv PROVE TypeOK
      OBVIOUS
    <2>1. arrived \in [Strings -> 0 .. COUNT_MAX]
      <3>1. ASSUME NEW s \in Strings PROVE arrived[s] \in 0 .. COUNT_MAX
        <4>1. /\ arrived[s] \in Nat /\ arrived[s] <= total_inserts
              /\ total_packets = total_inserts + PendingOf(Flows) + unparsed
              /\ total_inserts \in Nat /\ unparsed \in Nat /\ PendingOf(Flows) \in {0, 1}
              /\ total_packets \in 0 .. MaxTotal
          BY DEF IInv, TableInv, Accounts, Types, PendingOf
        <4> QED
          BY <4>1, BoundTypes
      <3> QED
        BY <3>1 DEF IInv, TableInv
    <2>2. TypeOK_ububble
      BY <2>1 DEF IInv, TableInv, TableFine, TypeOK_ububble
    <2>3. total_packets \in Nat
      BY BoundTypes DEF IInv, Types
    <2> QED
      BY <2>2, <2>3 DEF IInv, Types, TypeOK
  <1> QED
    BY <1>1, Invariant, PTL

\* A bucket is never out of order, although Bucket_Remove leaves the last
\* entry in place.
THEOREM StaysSorted == Spec => []Sorted
  <1>1. IInv => Sorted
    BY DEF IInv, TableInv, TableFine, BucketFine, Descending, Sorted
  <1> QED
    BY <1>1, Invariant, PTL

\* The counters of a fingerprint, over the whole table, never exceed its
\* packets and what Bucket_Remove doubled.
THEOREM TotalsAreBacked == Spec => []TotalIsBacked
  <1>1. IInv => TotalIsBacked
    BY DEF IInv, TableInv
  <1> QED
    BY <1>1, Invariant, PTL

\* As long as no hash near the ends of its range has come, no entry is ever
\* kicked to a bucket that is not its own, whatever the number of buckets.
THEOREM EntriesAreHome == Spec => []HomeButForTheWrap
  <1>1. IInv => HomeButForTheWrap
    BY DEF IInv, HomeInv, NoWrapYet, BucketAtHome, AtHome, HomeButForTheWrap
  <1> QED
    BY <1>1, Invariant, PTL

\* At the end every packet is in the printed seconds, and every one that
\* parsed is in the sketch, however the capture was stopped.
THEOREM PacketsAreAccounted == Spec => []EveryPacketIsAccounted
  <1>1. IInv => EveryPacketIsAccounted
    <2> SUFFICES ASSUME IInv, pc = "forget"
                 PROVE  /\ printed = total_packets
                        /\ total_packets = processed_packets + unparsed
                        /\ total_inserts = SumFunctionOnSet(sent, Flows)
                        /\ \A s \in Strings : arrived[s] = SumFunctionOnSet(sent, OfString(s))
      BY DEF EveryPacketIsAccounted, OfString
    <2>1. packet = NoPacket
      BY DEF IInv, Types
    <2>2. \A S \in SUBSET Flows : PendingOf(S) = 0
      BY <2>1, BoundTypes DEF PendingOf
    <2>3. Flows \in SUBSET Flows /\ \A s : OfString(s) \in SUBSET Flows
      BY FlowsFinite
    <2>4. PendingOf(Flows) = 0 /\ \A s : PendingOf(OfString(s)) = 0
      BY <2>2, <2>3
    <2>5. printed = total_packets
      BY DEF IInv, Printing
    <2>6. /\ total_packets = processed_packets + unparsed
          /\ total_inserts = SumFunctionOnSet(sent, Flows)
      BY <2>4 DEF IInv, Types, Accounts
    <2>7. ASSUME NEW s \in Strings PROVE arrived[s] = SumFunctionOnSet(sent, OfString(s))
      <3>1. arrived[s] \in Nat
        BY DEF IInv, TableInv
      <3> QED
        BY <2>4, <3>1 DEF IInv, Accounts
    <2> QED
      BY <2>5, <2>6, <2>7
  <1> QED
    BY <1>1, Invariant, PTL

\* No row displayed exceeds the packets captured of its fingerprint.
THEOREM RowsAreBacked == Spec => []DisplayIsBacked
  <1>1. IInv => DisplayIsBacked
    BY DEF IInv, Displaying
  <1> QED
    BY <1>1, Invariant, PTL
=============================================================================
