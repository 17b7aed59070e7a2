# Bubble Sketch in TLA+

Models, model-checking configurations and proofs for the eBPF Bubble Sketch
variants of this repository (`s-bubble`, `t-bubble`, `p-bubble`, `m-bubble`,
`libpcap-bubble`). A Bubble Sketch counts packets per flow in a fixed number of
buckets and keeps one "hot" entry per bucket, which the loader prints as the
list of heavy hitters.

## 1. Inventory

| Component | State | Operations | Interacts through |
|---|---|---|---|
| Sketch (`s-bubble/bubble_sketch_ebpf.c`) | `buckets[2][MAX_BUCKETS]` of `MAX_ENTRY` entries (id, fingerprint, l0fp, count), `threshold1`, `f_max`, per-CPU `insert_counter` | `BubbleSketch_Insert`: hot hit, fill, cold hit with sort and kickout, lossy decay | BPF maps, read by the loader |
| Tail-call chain (`t-bubble`) | the sketch, `context_map` (one element for all CPUs), `tail_call_map`, per-CPU `insert_counter` and `eviction_map` | `xdp_collect_5tuple`, `xdp_insert_hot_bucket0`, `xdp_insert_hot_bucket1`, `xdp_insert_cold` | each program hands the packet on through `context_map` |
| Optimised sketch (`p-bubble`) | the sketch, `last_update_pkt` per entry, `total_entries`, `global_pkt_count`, eviction counter | admission, reclaim, insertion with adaptive decay and 32-bit kickout comparison | as `s-bubble` |
| Sharded sketch (`m-bubble`) | four sketches, eviction counter | shard by the top two hash bits, insertion | loader merges the shards |
| Loaders | file descriptors, `exiting`, local copy of the sketch | write the initial sketch, attach, poll the counter, dump and sort, detach | `bpf_map_update_elem`, `bpf_map_lookup_elem`, SIGINT/SIGTERM |
| Sorting in the loaders | array of hot entries, `f_max` | `qsort` with `cmp_entries`, `radix_sort`, `slpr_sort` | called by the dump |
| User-space sketch (`libpcap-bubble/BubbleSketch.c`, `_main.c`) | the sketch with a computed bucket count, `_ret` | `Insert`, `work`, `Query` | function calls |
| Live capture (`BubbleSketch_pcap.c`) | the user-space sketch, statistics, `keep_running` | packet callback, per-second report, signal handler | pcap callback, signals |
| Parsing, fasthash, scripts, set-up | none | pure | - |

**What is hard.** The sketch is a long-lived structure that every packet of
every flow rewrites: an operation is only right if all the others left buckets
sorted, entries in buckets of their key, and stale identities harmless. Flows
with one fingerprint share counters. Threshold and `f_max` never fall, although
the entries they came from do. A kickout computes the other bucket from the
packet's hash, not the entry's. The tail-call variant cuts an insertion into
programs with a shared context. `p-bubble` wipes entries from the middle of
buckets. Arithmetic is in 8, 32 and 64 bits.

**What makes each part correct.**

- Sketch: sorted buckets; entries at home; no counter, and no sum of a class's
  counters, above the packets of its class; losses only at bucket tails; a hot
  count never falls; the threshold is backed by a hot counter; a flow that
  keeps sending is finally listed.
- Tail calls: the chain does what one insertion does; a packet's programs read
  the packet's own context; evictions are counted when they happen.
- `p-bubble`: the hot entry stays the largest of its bucket and its count does
  not fall, fresh or large counters survive reclaim, bookkeeping follows the
  entries.
- Sorting: no entry lost, descending order, no division by a wrapped divisor.
- Sharding: each shard is a Bubble Sketch of its own, and a flow is only ever in
  one of them.
- Loaders: no packet meets a half-written sketch or an empty tail-call slot,
  whatever call fails; nothing stays attached; a signal ends the loader; the
  dump, copied from a sketch that packets go on changing, says nothing that was
  not so between its beginning and its end.
- User-space sketch and capture: counts are backed by packets; statistics, sketch
  and traffic agree when a signal stops the capture at any point; the signal
  handler never touches a closed handle.

`PROJECT.json` lists the hazards behind these properties, each at its line.

## 2. Modules

| Module | Models | Builds on |
|---|---|---|
| `BubbleSketch` | the `Entry_`/`Bucket_` functions and the branches of `BubbleSketch_Insert`, one atomic step | - |
| `SBubble` | the s-bubble program on one CPU; safety and action properties | `BubbleSketch` |
| `FlowCounting` | abstract: one number per class of flows | - |
| `SBubbleCounts` | refinement of `FlowCounting` by `SBubble` | `SBubble`, `INSTANCE FlowCounting` |
| `Elephant` | one flow that never stops sending among a bounded rest; liveness | `BubbleSketch` |
| `TBubble` | the t-bubble programs on several CPUs; refinement of `SBubble` on one | `BubbleSketch`, `INSTANCE SBubble` |
| `PBubble` | the p-bubble program on one CPU | `BubbleSketch` |
| `MBubble` | the m-bubble program: any number of sketches in maps | `INSTANCE BubbleSketch` per sketch |
| `Loader` | main of the s, t and m loaders, composed with the traffic while attached; each shard refines `SBubble` | `MBubble`, `INSTANCE SBubble` |
| `UBubble` | the user-space sketch of `libpcap-bubble` | `INSTANCE BubbleSketch` |
| `Capture` | main, packet callback and signal handler of `libpcap-bubble` | `UBubble` |
| `Sorting` | `radix_sort` and `slpr_sort` of the loaders, one pass per step | - |
| `IntegerFacts` | lemmas about `\div` and `%`, induction over numbers and finite sets, finite sums | - |
| `BubbleSketch_proofs` | lemmas about keys, slots, branches and what a bucket holds after them, for all kernel programs | `BubbleSketch`, `IntegerFacts` |
| `SBubble_proofs`, `PBubble_proofs`, `TBubble_proofs` | theorems | the module they are named for (`SBubbleCounts` for the first), `BubbleSketch_proofs` |
| `Loader_proofs`, `Capture_proofs`, `Sorting_proofs` | theorems | the module they are named for, `IntegerFacts` (`Loader_proofs`: `INSTANCE BubbleSketch_proofs` per sketch) |
| `MC*` | constants for TLC | |

How code becomes model:

- `buckets[a][j][i]` is entry `i` of bucket `j` of array `a`: a record with the
  code's fields. `id` is a flow or `NoFlow` (all zero bytes).
- A flow is a model value. `Hash` is a constant function in place of
  `fasthash64` (`BOBHash64` in user space); `Context(f)` computes what the code
  derives from it: `fp` (upper half), the fingerprint `Tag(fp)` (upper byte of
  `fp`), both hash values with their wrap at 2^64, and both bucket indices.
- `Probe`, `Stops`, `FirstStop` state the order of the tests in
  `BubbleSketch_Insert`; `HotHit`, `Fill`, `ColdHit`, `Lossy` are its branches
  with everything they call: increments, `Bucket_BucketSort`,
  `BubbleSketch_kickout` (`KickTarget`, `Kicks`), `Bucket_down_stairs`,
  `Bucket_Remove`, `f_max` and `threshold1`. `CountHot`, `Take`, `CountCold` and
  `Decay` are their effects alone, which the t-bubble programs share.
- In `TBubble` a program is an action; `pc` says which one a CPU's tail call
  starts next. `xdp_collect_5tuple` is two actions, because it hashes the key it
  reads back from the shared context.
- In `PBubble` `Swept` is the bucket store after the packet's own reclaim; the
  branches take it as an argument, so that reclaim and insertion are one step.
  The packet clock `global_pkt_count` and the sum in `Entry_IsStale` wrap at
  `CLOCK_SPACE`, kickout's products at `COUNT_MAX + 1`.
- In `MBubble` a sketch is a record and an insertion a function of it
  (`Inserted`): `sketch_shard[s]` is the value of shard `s`'s map. The helper
  functions are those of `BubbleSketch`, instantiated on the record.
- In `Loader` `pc` is the place in `main`: every call that may fail is a step
  with both outcomes, and a failure goes where the code's `goto` goes. The
  polling loop changes nothing but its output; it is one step, enabled by the
  signal. Between any two steps of main, and while it is attached only, `Packet`
  runs the whole XDP program. A map lookup is *not* one step: the kernel copies
  the value word by word while the program may run, so `CopyId` and `CopyCount`
  copy the two words of each hot entry separately, in the order of the bytes.
  `sorted` collects the rows. `p-bubble`'s main is m's with one map.
- In `UBubble` a 5-tuple's key is `CString[f]`, the bytes before its first zero
  byte: hash and copy stop there, so two 5-tuples may have one key.
  `bucket_num` need not divide `HASH_SPACE`. `Copying_Remove` is this variant's
  `Bucket_Remove`, which leaves the last entry twice in the bucket: `copied`, a
  history variable, adds up the counts it doubles.
- In `Capture` `packet_handler` is two steps, `CountPacket` and `InsertPacket`,
  so that a signal may come between counting and inserting; `pcap_dispatch`
  returns after any number of packets.
- Packets that do not parse change nothing and are stutters, except in
  `Capture`, whose statistics count them.
- `arrived`, `packet`, `copied`, `sent`, `printed`, `seen`, `emptied`, `lost`,
  `late` and the pair `elephant`, `background` are history or environment
  variables, not state of the code. Kernel packets are counted per *class*
  (fingerprint and array-0 bucket), the finest grain at which a cold counter
  can tell flows apart.
- Operators marked `Mutant` are plausible bugs. No specification uses them;
  `PROJECT.json` names, for each property, the operator to replace and the
  mutant that must then violate the property.

## 3. Runs

| Run | Result | Shows |
|---|---|---|
| `s_promotion` | pass | three entries per bucket, saturating counters: `TypeOK`, `Sorted`, `Identity`, `NoOvercount`, `HotNeverFalls` |
| `s_crowded` | pass | two entries per bucket: `ImplementsCounting`, `TotalIsBacked`, `ReportIsBacked`, `ThresholdIsBacked`, `Retention` |
| `elephant` | pass | `ElephantIsListed`: a flow with a non-zero fingerprint that keeps sending is listed for good |
| `ghost_elephant` | violation | a flow with fingerprint 0 need not be |
| `t_one_cpu` | pass | `ImplementsInsert`: the tail-call chain implements `SBubble`; `EvictionsAreCounted`; `CounterIsCaughtUp`: the packet counter, incremented before the chain, does not stay ahead of the sketch |
| `t_two_cpus` | violation | the context of one CPU's packet is overwritten by another CPU |
| `p_bubble` | pass | `TypeOK`, `HeadIsLargest`, `NoOvercount`, `HotNeverFalls`, `FreshIsKept` with reclaim, admission, adaptive decay, and both 32-bit wraps |
| `p_undercount` | violation | `NoneUncounted`: an entry that decay emptied is in use again and not in `total_entries` |
| `loader` | pass | the s, t and m loaders: `ReadyBeforeTraffic`, `ExitLeavesNothing`, `SignalEndsIt` (set-up, failures, signal); `ShardsImplementSketches` (each shard implements `SBubble`); `DumpIsBetween`, `RowIsBacked`, `NoHeadIsMissed`, `EvictionsReported` (what the torn dump can be relied on for); `TypeOK` |
| `capture` | pass | the user-space sketch: `Sorted`, `TotalIsBacked`, `HomeButForTheWrap`, `TypeOK`; the capture around it: `EveryPacketIsAccounted`, `DisplayIsBacked`, `SignalFindsOpenHandle`, `StopEndsIt` |
| `sorting` | pass | `IsRearranged` and `PassesSort` for every `f_max`; `SortsDescending` when `f_max` bounds the counts (`slpr_sort`: and it needs at most two rounds); `Ends` while the divisor does not wrap |
| `sorting_slpr` | violation | `FinishedInPlace`: what `slpr_sort` takes for finished is not in its place |

The violations, in words:

- *Ghost flows.* An untouched entry has fingerprint 0 and `Bucket_Equal` does
  not ask whether it is empty. A flow whose fingerprint is 0 and whose `fp` is
  not is counted in such entries under the all-zero id; promoted, they have
  `l0fp` 0, which the flow's `fp` does not match, and the counting starts over
  in the next untouched entry. `accuracy_calc.py` drops these lines of the dump
  as uninitialised.
- *Shared context.* `context_map` is an array map with one element, unlike the
  per-CPU counters beside it.
- *`total_entries`.* Decay decrements it, and a later hit on the emptied entry,
  which still carries its fingerprint, does not increment it: it falls below the
  number of entries in use. (Reclaim and a kickout that pushes an entry off its
  bucket do not decrement it, which no run is about.)
- *`slpr_sort`.* With three or more rounds the small entries, which need no more
  digits, are partitioned to the front of a descending order. `SortsDescending`
  therefore speaks of two rounds, and `Ends` of an `f_max` below the wrap.

Some properties hold with an exception that says where the code stops keeping
them. The exceptions are behaviours of the code that the runs reach, and are
stated no wider than needed:

- *Kickout width* (`HotNeverFalls`, `HeadIsLargest` of `PBubble`).
  `hot_count * 100` is a `__u32` product and wraps from 42 949 673 on; then a
  smaller entry may displace a hot one. (The comment there speaks of a factor of
  1.25; both macros are 100, so the factor is 1.)
- *Clock wrap* (`FreshIsKept`). `last_update_pkt + 50000` wraps, so entries last
  hit in the 50000 packets before the clock wraps look stale at once.
- *Wrap in user space* (`HomeButForTheWrap`). `_bucket_num` need not divide 2^64,
  so a kickout near the ends of the hash range may miss the entry's other bucket.
- *Doubled entries* (`TotalIsBacked` of `UBubble`). The user-space
  `Bucket_Remove` does not clear the last entry after moving it up. The copy is
  probed like any other entry; the sums are backed up to what was doubled. The
  bucket stays sorted all the same, and no single row exceeds its packets.
- *Closing twice* (`ExitLeavesNothing`). When t's attach fails, `obj` is closed
  there and again in `cleanup`.
- *A failed filter* (`SignalFindsOpenHandle`). It closes the handle and returns
  with `global_handle` still set; a signal in that instant finds it closed.
- *Torn rows* (`RowIsBacked` of `Loader`). A row may join the id of one flow with
  the count of the one that displaced it meanwhile. It holds for a flow that
  still heads its bucket.

## 4. Bounds

Hashes are scaled down: `HASH_SPACE` 48, `FP_UNIT` 3, `TAG_UNIT` 2 give `fp` in
0 .. 15 and fingerprints in 0 .. 7; `MAX_BUCKETS` 3 divides `HASH_SPACE`, as a
power of two divides 2^64 (`WrapAssumption`). The flows are chosen for the cases:
`a1`/`a2` and `b1`/`b2` share class but not `fp`; `wrap` has a second hash value
beyond `HASH_SPACE`; `ghost` has fingerprint 0; all have one bucket in array 0,
and all but `ghost` share one in array 1, so a few packets fill, displace, decay
and promote. `K` and `THRESHOLD_INIT` are small enough for promotion and a
rising threshold within the packets of a run.

- `MaxPackets` (8, 7, 6, 10) bounds a behaviour in `SBubble`, `SBubbleCounts`,
  `TBubble`, `PBubble`. The system stops there, hence no deadlock check. Seven
  packets fill two buckets of two entries, promote, decay an entry to 0 and
  revive it. The proofs have no such bound.
- `COUNT_MAX` 4 in `s_promotion` lets counters saturate, 7 in `p_bubble` lets
  them wrap a product; elsewhere it is out of reach, as 2^32 - 1 is for the
  traces the program is run on.
- `Background` (5, 4) bounds the packets of the other flows in `Elephant`; the
  elephant's own packets are unbounded and end in saturation at `COUNT_MAX` 8.
- In `PBubble` (four flows, one per class but `ghost`) the clock has
  `CLOCK_SPACE` 10 ticks, so the tenth packet meets its wrap, and
  `STALE_PACKETS` 4 makes the staleness bound of the entries before it wrap too;
  `RECLAIM_PERIOD` is 2; the percentages and divisors of decay are scaled so that
  each of its three strides occurs; admission (modulo 8) refuses flows after
  packet 6 and more of them after packet 7. `KICKOUT_MULTIPLIER` 2 with
  `COUNT_MAX` 7 makes the products wrap from count 4 on, which ten packets reach.
- `p_undercount` leaves the wraps, admission and reclaim out of reach and has five
  flows without `ghost`, whose hits on untouched entries go uncounted too: four
  packets fill two buckets, the fifth decays an entry to 0, the sixth revives it.
- `Loader`: all three loaders; two shards of one bucket per array and two
  entries, `SHARD_UNIT` half the hash range; five flows in one shard and one in
  the other. `Traffic` bounds the packets at five for m, since decay can empty
  an entry with the fifth packet only, and at four for s and t, whose dump does
  not look at evictions. `MaxLate` 2 of them may come after the dump has begun:
  one replaces the head between the two words of a row, another counts on it.
- `Capture`: three buckets of three entries, which do not divide `HASH_SPACE`
  128; six 5-tuples on five strings (two agree up to their first zero byte, one
  is at the wrap), each sent once (`MCMaxPackets`), and one packet that does not
  parse (`MaxUnparsed`): six packets in all (`MaxTotal`) within two seconds
  (`MaxSeconds`), which is also the duration limit. All strings have bucket 0 in
  both arrays, so five insertions promote and remove.
- `Sorting`: three entries; bytes of one bit (`BASE` 2) and four-bit divisors
  (`WIDTH` 16), so that `radix_sort` has up to four passes and wraps after the
  last as the code does from `f_max` = 2^24 on; counts up to 13 give `slpr_sort`
  (base 3) three rounds, of which the second partitions. `f_max` is any of the
  counts, above or below those dumped.

## 5. Fairness

`Elephant` assumes `WF(ElephantPacket)`: the heavy flow keeps sending, which is
what makes it one. Nothing is assumed of the other flows. XDP runs each packet's
program to its end, so the packet is one step and needs no fairness of its own.
`TBubble` assumes weak fairness of a CPU's started chain, which the kernel runs
to its end; `CounterIsCaughtUp` needs it. Nothing makes packets arrive.
`Sorting` assumes `WF(Next)`: the loader's sort is straight-line code.
`Loader` and `Capture` assume `WF(Main)`: main is an ordinary process that the
kernel schedules, and `sleep(1)` returns. Neither packets nor the signal are
fair; `SignalEndsIt` and `StopEndsIt` begin with the signal, or with the duration
that is over. In `Capture` packet handling is part of main, and
`pcap_dispatch` returns: in the code because it handles at most 1000 packets or
its timeout ends it, here because the traffic is bounded. `SBubble` and
`PBubble` assume none.

## 6. Proofs

Every invariant, action property and refinement that a passing run checks is
also a theorem; liveness is not (section 7). The theorems hold for all constants
that satisfy the modules' named assumptions: any number of flows, buckets,
entries, shards and packets, and any hash function. TLC evaluates the
assumptions in every run. The assumptions are those of the code: positive units,
hashes in `0 .. HASH_SPACE - 1`, at least two entries per bucket (three in user
space), and, for the kernel programs, a number of buckets that divides the range
of the hash (`WrapAssumption`). `ShardAssumption` says that the shards divide
the hash range among them and that the bits that choose a shard are among those
of the fingerprint, as the top two bits of 64 are. `CaptureAssumption` keeps the
traffic below `COUNT_MAX`. `WidthAssumption` (`WIDTH` is a power of `BASE`) is
stated without exponents.

The prover has no induction over data, since its library states induction for
predicates given as parameters. `IntegerFacts` states it for *sets* instead and
proves it from the least element of a set of numbers: `NatInduction0`,
`SubsetInduction` for the subsets of a finite set, and from that what a sum over
a finite set does when one term changes, two change, or the terms are permuted
(`SumChange`, `SumIncrement`, `SumReorder`, `SumRotate`, `SumShift`).

**`SBubble_proofs`.** `TypeCorrect`, `BucketsSorted`, `EntriesAtHome`,
`CountersUnderestimate`, `ReportsUnderestimate`, `ThresholdBacked`,
`HotCountsMonotone`. The inductive invariant is

    IInv == TypeOK /\ Sorted /\ Identity /\ NoOvercount /\ ThresholdIsBacked

None of the last four is inductive alone. `Identity` is what makes a kickout
land in a bucket of the moved entry: the packet and the entry at slot 1 agree in
the fingerprint and in one bucket, and adding (subtracting) the fingerprint
gives the other (`KickLands`, by modular arithmetic from `IntegerFacts`). Without
it a moved counter could not be charged to a class, so `NoOvercount` needs it.
`Sorted` carries `HotNeverFalls`, which carries `ThresholdIsBacked`: the hot
counter that backs the threshold is never replaced by a smaller one. Every entry
after a step has an *origin* - unchanged, counted, inserted, decayed, moved,
shifted, or cleared (`Origin`, `Provenance`) - and the lemmas `CountedOK`,
`MovedOK`, `OriginOK` discharge the invariant origin by origin instead of action
by action.

`SketchImplementsCounting` is the refinement of `FlowCounting`. The estimate of
a class is a sum over the whole table, so the proof follows each branch as a
permutation of slots (a sort rotates a segment of a bucket, a kickout shifts two
buckets) in which one term grows by one and one class loses what falls off a
tail. `SumsUnderestimate` proves the abstract counter sound, and
`TotalsUnderestimate` (`TotalIsBacked`) follows from the two: all counters of a
class, duplicates included, add up to at most its packets. `CountersAreRetained`
(`Retention`) says where an entry may be lost, again branch by branch.

**`PBubble_proofs`.** `PTypeCorrect`, `PCountersUnderestimate`, `HeadsLargest`
and `PHotCountsMonotone`. The invariant is

    IInv == TypeOK /\ StoreFine(buckets, arrived) /\ HeadIsLargest

where `StoreFine` says of every entry that its fingerprint is the tag of its
`l0fp`, so that a hit on `fp` is one on the fingerprint, and that its count is
backed by a class with that fingerprint and bucket. A step is taken apart as the
code is: the reclaim first (`Swept` keeps the invariant: it only clears cold
entries), then a branch on the store so left. Buckets with holes are not sorted,
so `HeadIsLargest` cannot come from an order of neighbours; it is carried by the
sort, which moves a counter up until it meets a larger one, and by kickout, whose
comparison is exact below the wrap (`MulFits`, `MulDiv`). `NoOvercount` bounds
every count by the packets of its class, and these only grow, so the condition
under which no product wraps is stable backwards: if it holds after a step, it
held before. `FreshCountersAreKept` (`FreshIsKept`) needs both halves of a step:
the reclaim spares entries that are fresh or not small, and whatever branch
follows keeps them or takes them at the tail of a bucket.

**`TBubble_proofs`.** `ChainIsInsertion`, `OneCPUPassesContext` and
`ChainImplementsInsert` (`ImplementsInsert`) have the hypothesis `OneCPU`, which
`t_two_cpus` shows to be needed. The invariant `Found` says what the programs
before have left in `context_map` and found out: a packet that got to
`xdp_insert_cold` matched neither hot entry. So the last program changes the
sketch as `BubbleSketch_Insert` would, and the counter, incremented before the
chain, is one ahead while a packet is under way (`Ahead`).
`EvictionsCounted` holds on any finite number of CPUs: `Types` says that a
context is some packet's, or half of one and half of another's, and with any of
these a program counts an eviction exactly when decay empties an entry.

**`Loader_proofs`.** `PacketsFindMapsReady`, `ExitIsClean` and
`DumpStaysBetween` rest on the control invariant

    IInv == ObjectOK /\ LinkOK /\ TailsOK /\ SketchesOK

which says of each place in main what is open, attached and written there.
Traffic runs between the steps, so `SketchesOK` needs that an insertion keeps a
sketch's type and never lowers its threshold, and `DumpIsBetween` that it never
lowers a hot count (`Grown`, proved branch by branch). `DumpOK` then follows the
dump through the shards: what was seen when it began bounds each row from below,
the present hot count from above. Each further theorem adds its own conjunct:

- `TypeCorrect`: `PlacesOK` (cursors, flags, what each place implies) and
  `AccountsOK` (counters against each other).
- `EvictionsAreReported`: `AccountsOK` again, and `EvictsIsEmptied`: the program's
  test of a last entry at 0 notices exactly the decays that empty one.
- `RowsAreBacked`: `EntriesOK`, every entry with a key is in one of the key's
  buckets, in its shard, and claims no more than its class has sent there. An
  entry without a key has counts only in shard 0: by `ShardAssumption`, no flow
  of another shard has fingerprint 0.
- `NoHeadMissed`: `ListOK`, the rows so far cover every bucket before the cursor
  that counted when the dump began, since m leaves out rows without a key only.
  Shard 0, where such rows may count, is excepted in the property.
- `ShardsAreSketches` (`ShardsImplementSketches`): `ShardOK`, a shard is zero or
  freshly initialised until main is past its set-up, and no more packets have come to it than were
  counted. `Bar(s)` is the threshold of the shard as the refinement
  maps it; from the attachment on it is the program's own. A packet is one
  insertion into its shard in each branch (`ShardPacket`), and no other step of
  the system is one.

**`Capture_proofs`.** `HandlerIsSafe` follows from `HandleInv`, which ties
`handle` and `global_handle` to the place in main. `TypeCorrect`, `StaysSorted`,
`TotalsAreBacked`, `EntriesAreHome`, `PacketsAreAccounted` and `RowsAreBacked`
follow from

    IInv == TableInv /\ HomeInv /\ Types /\ Accounts /\ Printing /\ Displaying

`TableInv` is about the table: sorted, typed, every count backed by the packets
of its fingerprint, sums backed up to what `Bucket_Remove` doubled; `HomeInv` says where entries are while no hash is near
the wrap. `Accounts` relates packets counted, inserted, sent and not parsed, with
the one between its two steps (`PendingOf`), which a signal may catch. Buckets
stay sorted because the doubled entry equals its neighbour, and a row stays
backed because each entry, a copy included, counts no more than the packets of
its fingerprint.

**`Sorting_proofs`.** `NoEntryIsLost`, `PassesAreStable` and `DumpIsDescending`
follow from

    IInv == Types /\ Rearranged(arr) /\ RadixInv /\ SlprInv /\ SortsDescending

A pass places each entry by the number of entries that go before it. That such a
ranking by a strict total order is a bijection needs induction over subsets of
the positions. `DigitsExtend` says that ordering by one more byte, stably,
extends the order by the bytes so far; `WidthAssumption` is used for the last
pass, after which the weight wraps to 0. `SlprInv` says how far two rounds of
`slpr_sort` get, and why the region it sorts is then the whole array.

## 7. Only model-checked

Liveness: `ElephantIsListed`, `CounterIsCaughtUp`, `Ends`, `SignalEndsIt` and
`StopEndsIt`. The prover has no rules for fairness. So `Elephant` is a module
without theorems, although its safety is that of `BubbleSketch`.

The properties of the four violated runs are refuted by TLC's counterexamples on
their instances; one instance is enough for that.

## 8. Not modelled

- *Two CPUs inside one insertion.* The XDP programs update the maps without a
  lock, with plain loads and stores of 32 and 64 bits. That is a data race on
  every field of a bucket: which outcomes a build can produce depends on the
  compiler and the machine, and a model with all of them would keep no property
  but the shape of the records. `t_two_cpus` shows the coarsest interleaving,
  between programs. Likewise `Loader` has one CPU, and a map lookup copies each
  count whole and each id whole. An id has 14 bytes, so the kernel copies it in
  more than one word; an id torn inside is not modelled.
- *Failing tail calls.* `Loader` shows the slots are filled before traffic comes;
  the limit on nested calls is not reached by three.
- *`qsort` with `cmp_entries`* (loaders and `work`): the library's algorithm. That
  `cmp_entries` subtracts counts as `int`, and so misorders counts 2^31 apart, is
  listed among the hazards.
- *The dump's arrays.* m's dump sorts `TOTAL` entries of which it filled
  `entry_count`, and compares `sk.f_max` before it has read `sk`. `Sorting` takes
  any entries and any `f_max`; what an uninitialised stack holds is not modelled.
  The rows of `sorted` are all those collected; the printed list stops after
  `MAX_RET` of them. On several CPUs m's per-CPU eviction map is read into one struct, which
  overflows; `Loader` has one CPU.
- *Exit status.* Every failure but that of attach leaves `err` at 0. The code
  says nowhere what the status should be, so there is nothing to check it
  against; `Loader` keeps `err` because `ExitLeavesNothing` refers to it.
- *Throughput, options and formatting* in the loaders and the capture: the
  per-second lines change no state. What of `libpcap-bubble`'s printed 5-tuple
  lies beyond the C string is whatever the buffer held. The clock of `Capture`
  never goes back, as `gettimeofday` may when the system's time is set; that
  moves packets between the seconds printed, not their sum.
- *The offline benchmark* in `BubbleSketch_main.c`: a driver that reads a trace
  from a file and passes keys that are not terminated, so hash and copy run past
  them.
- *libpcap's own state.* `pcap_breakloop` sets a flag that makes `pcap_dispatch`
  return, which the model allows at any time.
- *A small `-m`* leaves `_bucket_num` at 0 and the first packet divides by it;
  `bucket_num` is positive here.
- *Header parsing and key packing* are stateless: a packet gives a key or none.
  `fasthash64` and `BOBHash64` are arbitrary functions. Scripts, interface
  set-up, generated headers and build files have no state of the system. One of
  them, `m-bubble/vmlinux.h`, is 150 298 of the repository's 156 340 lines: type
  declarations of the kernel, none of which is an operation. Measured against
  whole files the models therefore stand for a small share of the lines; of the
  programs and loaders themselves they cover every operation that changes the
  sketch.
