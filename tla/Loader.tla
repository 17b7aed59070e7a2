------------------------------ MODULE Loader ------------------------------
(***************************************************************************)
(* The loader's main from start to exit, composed with the traffic its XDP *)
(* program sees while it is attached.  One machine has one of the loaders: *)
(*    "s"  one sketch;                                                     *)
(*    "t"  one sketch, an object file and three tail-call slots;           *)
(*    "m"  SHARD_COUNT sketches, and an eviction counter that is reset     *)
(*         once the program is attached.                                   *)
(* p-bubble's main is that of m with a single map.                         *)
(*                                                                         *)
(* The kernel handles a packet between any two steps of the loader, but    *)
(* not inside one: with one CPU a packet interrupts the loader and is run  *)
(* to its end.  The copy a map lookup makes is not such a step: it is made *)
(* word by word, and an entry's id and its count are in different words.   *)
(***************************************************************************)
EXTENDS MBubble, FiniteSetsExt, Functions

CONSTANTS
    Loaders,      \* the loaders to consider, among "s", "t" and "m"
    Traffic,      \* bound on the packets of one behaviour, per loader
    MaxLate       \* bound on its part that comes after the dump has begun

ASSUME LoadersAssumption == Loaders \subseteq {"s", "t", "m"}
ASSUME PacketsAssumption == Traffic \in [Loaders -> Nat] /\ MaxLate \in Nat

MaxPackets == Max({Traffic[l] : l \in Loaders})

VARIABLES
    loader,         \* which loader runs
    pc,             \* what main does next
    exiting,        \* set by handle_signal
    err,            \* main returns -err
    link,           \* the program is attached
    obj,            \* t: the object file's bpf_object
    tail_call_map,  \* t: the slots that hold a program
    shard,          \* the loop index of initialisation and dump
    cell,           \* dump: how many heads of this shard are copied
    id,             \* dump: the id copied for the head that is being copied
    sorted,         \* dump: the rows collected
    reported,       \* dump: the eviction count read, -1 before
    emptied,        \* history: entries decay has emptied
    lost,           \* history: those of them counted before the reset
    late,           \* history: packets since the dump began
    seen            \* history: heads and emptied when the dump began

startup == <<loader, err, obj, tail_call_map>>
dump    == <<cell, id, sorted, reported>>
history == <<emptied, lost, late, seen>>
main    == <<startup, pc, exiting, link, shard, dump>>
vars    == <<maps, main, history>>

Sketches == IF loader = "m" THEN SHARD_COUNT ELSE 1

Arrays  == 0 .. 1
Indices == 0 .. MAX_BUCKETS - 1
Head(s, a, j) == sketch_shard[s].buckets[a][j][0]
Heads == [s \in Shards |-> [a \in Arrays |-> [j \in Indices |->
            [id |-> Head(s, a, j).id, count |-> Head(s, a, j).count]]]]

Init ==
    /\ Init_maps
    /\ loader \in Loaders
    /\ pc = "open"
    /\ exiting = FALSE
    /\ err = 0
    /\ link = FALSE
    /\ obj = "null"
    /\ tail_call_map = {}
    /\ shard = 0
    /\ cell = 0
    /\ id = NoFlow
    /\ sorted = {}
    /\ reported = -1
    /\ emptied = 0
    /\ lost = 0
    /\ late = 0
    /\ seen = [heads |-> Heads, emptied |-> 0]

Goto(label) == pc' = label

-----------------------------------------------------------------------------
(* From start to attach.  Every call may fail; a failure goes to cleanup,  *)
(* and only that of attach sets err.                                       *)

\* A skeleton that does not load ends main at once.
open_and_load ==
    /\ pc = "open"
    /\ \E next \in {"init", "done"} : Goto(next)
    /\ UNCHANGED <<maps, startup, exiting, link, shard, dump, history>>

BubbleSketch_init == [Zeroed EXCEPT !.threshold1 = THRESHOLD_INIT]

\* The next sketch is written.
InitSketch ==
    /\ pc = "init"
    /\ \/ /\ sketch_shard' = [sketch_shard EXCEPT ![shard] = BubbleSketch_init]
          /\ IF shard + 1 < Sketches
             THEN /\ shard' = shard + 1
                  /\ Goto("init")
             ELSE /\ shard' = 0
                  /\ Goto(IF loader = "t" THEN "object" ELSE "attach")
       \/ /\ Goto("cleanup")
          /\ UNCHANGED <<sketch_shard, shard>>
    /\ UNCHANGED <<insert_counter, eviction_map, arrived, startup, exiting, link, dump, history>>

\* t opens and loads the object file.
OpenObject ==
    /\ pc = "object"
    /\ \/ /\ obj' = "open"
          /\ \E next \in {"tails", "cleanup"} : Goto(next)
       \/ /\ Goto("cleanup")
          /\ UNCHANGED obj
    /\ UNCHANGED <<maps, loader, exiting, err, link, tail_call_map, shard, dump, history>>

tail_progs == 1 .. 3

\* Mutant: the loop stops one program early.
FillTailSlot_OneShort ==
    /\ pc = "tails"
    /\ tail_call_map' = {1, 2}
    /\ Goto("attach")
    /\ UNCHANGED <<maps, loader, exiting, err, link, obj, shard, dump, history>>

\* t puts the next program in its slot.
FillTailSlot ==
    /\ pc = "tails"
    /\ \/ /\ tail_call_map' = tail_call_map \union {Min(tail_progs \ tail_call_map)}
          /\ Goto(IF tail_call_map' = tail_progs THEN "attach" ELSE "tails")
       \/ /\ Goto("cleanup")
          /\ UNCHANGED tail_call_map
    /\ UNCHANGED <<maps, loader, exiting, err, link, obj, shard, dump, history>>

\* bpf_object__close: closing a second time is an error of its own.
Closed(o) == CASE o = "null"   -> "null"
               [] o = "open"   -> "closed"
               [] o = "closed" -> "closed twice"

\* t closes obj here when the attach fails, and leaves the pointer set.
Attach ==
    /\ pc = "attach"
    /\ \/ /\ link' = TRUE
          /\ Goto(IF loader = "m" THEN "reset" ELSE "loop")
          /\ UNCHANGED <<err, obj>>
       \/ /\ err' = 1
          /\ obj' = Closed(obj)
          /\ Goto("cleanup")
          /\ UNCHANGED link
    /\ UNCHANGED <<maps, loader, exiting, tail_call_map, shard, dump, history>>

-----------------------------------------------------------------------------
(* While the program is attached.                                          *)

\* m writes 0 to the eviction counter, which packets have used since attach.
ResetEvictions ==
    /\ pc = "reset"
    /\ \/ /\ eviction_map' = 0
          /\ lost' = emptied
          /\ Goto("loop")
       \/ /\ Goto("cleanup")
          /\ UNCHANGED <<eviction_map, lost>>
    /\ UNCHANGED <<sketch_shard, insert_counter, arrived, startup, exiting, link, shard,
                   dump, emptied, late, seen>>

\* Mutant: the signal is looked at only once packets have come.
Loop_AfterTraffic ==
    /\ pc = "loop"
    /\ exiting
    /\ insert_counter > 0
    /\ Goto("copy id")
    /\ seen' = [heads |-> Heads, emptied |-> emptied]
    /\ UNCHANGED <<maps, startup, exiting, link, shard, dump, emptied, lost, late>>

\* Until a signal comes, main sleeps and prints what insert_counter grew by,
\* which changes nothing; then dump_results begins.
Loop ==
    /\ pc = "loop"
    /\ exiting
    /\ Goto("copy id")
    /\ seen' = [heads |-> Heads, emptied |-> emptied]
    /\ UNCHANGED <<maps, startup, exiting, link, shard, dump, emptied, lost, late>>

\* The positions of a sketch whose counter is in use.
InUse(sk) == {p \in Arrays \X Indices \X (0 .. MAX_ENTRY - 1) :
                sk.buckets[p[1]][p[2]][p[3]].count > 0}

\* Decay emptied an entry: fewer are in use, and no hot counter is larger.
Emptied(sk, new) ==
    /\ InUse(new) # InUse(sk)
    /\ InUse(new) \subseteq InUse(sk)
    /\ \A a \in Arrays, j \in Indices :
            new.buckets[a][j][0].count <= sk.buckets[a][j][0].count

Dumping == {"copy id", "copy count", "evictions", "cleanup"}

\* The kernel hands a packet to the program; s and t have the one sketch.
Packet(f) ==
    /\ link
    /\ insert_counter < Traffic[loader]
    /\ IF pc \in Dumping THEN late < MaxLate /\ late' = late + 1 ELSE UNCHANGED late
    /\ LET s == IF loader = "m" THEN get_shard_id(f) ELSE 0
       IN  /\ Insert(s, f)
           /\ emptied' = emptied +
                (IF Emptied(sketch_shard[s], sketch_shard'[s]) THEN 1 ELSE 0)
    /\ UNCHANGED <<main, lost, seen>>

-----------------------------------------------------------------------------
(* dump_results, and the way out.                                          *)

\* s and t give up when the lookup fails, m goes on with the next shard.
LookupFails ==
    /\ pc = "copy id"
    /\ cell = 0
    /\ shard' = shard + 1
    /\ Goto(IF loader # "m" THEN "cleanup"
            ELSE IF shard' < SHARD_COUNT THEN "copy id" ELSE "evictions")
    /\ UNCHANGED <<maps, startup, exiting, link, dump, history>>

Copied == Head(shard, cell \div MAX_BUCKETS, cell % MAX_BUCKETS)

\* Otherwise the lookup copies the sketch, of which the dump uses the heads.  An
\* id is copied whole here, although its 14 bytes are more than one word.
CopyId ==
    /\ pc = "copy id"
    /\ id' = Copied.id
    /\ Goto("copy count")
    /\ UNCHANGED <<maps, startup, exiting, link, shard, cell, sorted, reported, history>>

\* Mutant: an entry counted once is taken for noise.
is_valid_entry_AboveOne(row) == row.count > 1 /\ row.id # NoFlow

\* m lists an entry that counts something and carries a key.
is_valid_entry(row) == row.count > 0 /\ row.id # NoFlow

\* The row is complete; after the last one comes the next shard.
CopyCount ==
    /\ pc = "copy count"
    /\ LET row == [shard |-> shard, array |-> cell \div MAX_BUCKETS,
                   index |-> cell % MAX_BUCKETS, id |-> id, count |-> Copied.count]
       IN  sorted' = IF loader = "m" /\ ~is_valid_entry(row) THEN sorted
                     ELSE sorted \union {row}
    /\ id' = NoFlow
    /\ IF cell + 1 < 2 * MAX_BUCKETS
       THEN /\ cell' = cell + 1
            /\ Goto("copy id")
            /\ UNCHANGED shard
       ELSE /\ cell' = 0
            /\ shard' = shard + 1
            /\ Goto(IF shard' < Sketches THEN "copy id"
                    ELSE IF loader = "m" THEN "evictions" ELSE "cleanup")
    /\ UNCHANGED <<maps, startup, exiting, link, reported, history>>

\* The last line of m's dump.
ReadEvictions ==
    /\ pc = "evictions"
    /\ reported' \in {eviction_map, -1}
    /\ Goto("cleanup")
    /\ UNCHANGED <<maps, startup, exiting, link, shard, cell, id, sorted, history>>

\* Mutant: a program whose loader fails stays attached.
DestroyLink_OnSuccess ==
    /\ pc = "cleanup"
    /\ link' = (link /\ ~exiting)
    /\ Goto("close")
    /\ UNCHANGED <<maps, startup, exiting, shard, dump, history>>

DestroyLink ==
    /\ pc = "cleanup"
    /\ link' = FALSE
    /\ Goto("close")
    /\ UNCHANGED <<maps, startup, exiting, shard, dump, history>>

\* t closes obj if it was ever opened; the skeleton goes, and main returns.
Close ==
    /\ pc = "close"
    /\ obj' = Closed(obj)
    /\ Goto("done")
    /\ UNCHANGED <<maps, loader, exiting, err, link, tail_call_map, shard, dump, history>>

\* SIGINT or SIGTERM, at any time.
handle_signal ==
    /\ pc # "done"
    /\ exiting' = TRUE
    /\ UNCHANGED <<maps, startup, pc, link, shard, dump, history>>

Main == \/ open_and_load \/ InitSketch \/ OpenObject \/ FillTailSlot \/ Attach
        \/ ResetEvictions \/ Loop
        \/ LookupFails \/ CopyId \/ CopyCount \/ ReadEvictions
        \/ DestroyLink \/ Close

Next == Main \/ handle_signal \/ \E f \in Flows : Packet(f)

\* main is an ordinary process: it goes on, and sleep(1) ends.  Packets and
\* signals come or do not.
Spec == Init /\ [][Next]_vars /\ WF_vars(Main)

-----------------------------------------------------------------------------
(* Properties.                                                             *)

TypeOK ==
    /\ sketch_shard \in [Shards -> [buckets : [Arrays -> [Indices -> Sk(Zeroed)!Bucket]],
                                    f_max : 0 .. COUNT_MAX, threshold1 : Nat]]
    /\ insert_counter \in 0 .. MaxPackets
    /\ eviction_map \in 0 .. insert_counter
    /\ arrived \in [Shards -> [Classes -> 0 .. MaxPackets]]
    /\ loader \in Loaders
    /\ exiting \in BOOLEAN /\ link \in BOOLEAN
    /\ err \in {0, 1}
    /\ obj \in {"null", "open", "closed", "closed twice"}
    /\ tail_call_map \subseteq tail_progs
    /\ shard \in 0 .. SHARD_COUNT
    /\ cell \in 0 .. 2 * MAX_BUCKETS
    /\ id \in Flows \union {NoFlow}
    /\ sorted \subseteq [shard : Shards, array : Arrays, index : Indices,
                         id : Flows \union {NoFlow}, count : 0 .. COUNT_MAX]
    /\ reported \in -1 .. insert_counter

\* No packet meets a map without its sketch or an empty tail-call slot: in
\* either the packet would be counted and stored wrongly, and nothing would
\* say so.
ReadyBeforeTraffic ==
    link => /\ \A s \in 0 .. Sketches - 1 :
                    sketch_shard[s].threshold1 >= THRESHOLD_INIT
            /\ loader = "t" => tail_call_map = tail_progs

\* Every shard is a sketch of its own: what the packets sent to it do is what
\* they would do to s-bubble's only sketch, from the moment traffic may come.
ShardSketch(s) == INSTANCE SBubble WITH
    buckets <- sketch_shard[s].buckets,
    f_max <- sketch_shard[s].f_max,
    threshold1 <- IF sketch_shard[s].threshold1 > 0 \/ (link /\ s < Sketches)
                  THEN sketch_shard[s].threshold1 ELSE THRESHOLD_INIT,
    insert_counter <- SumFunctionOnSet(arrived[s], Classes),
    arrived <- arrived[s]

ShardsImplementSketches ==
    /\ \A s \in Shards : ShardSketch(s)!Init
    /\ [][\A s \in Shards :
            \/ UNCHANGED ShardSketch(s)!vars
            \/ \E f \in Flows : /\ arrived'[s][Class(f)] > arrived[s][Class(f)]
                               /\ ShardSketch(s)!xdp_collect_5tuple(f)]_vars

\* The dump is no snapshot, yet each of its counts is one its bucket had, or
\* passed, while the dump was being made.
DumpIsBetween ==
    \A row \in sorted :
        /\ seen.heads[row.shard][row.array][row.index].count <= row.count
        /\ row.count <= Head(row.shard, row.array, row.index).count

\* A row joins an id and a count read at different moments.  While its flow
\* still heads the bucket, the count is one the flow's class has sent to the
\* flow's own shard, even if another flow headed the bucket in between; only
\* a flow that has since been replaced may be listed with a foreign count.
RowIsBacked ==
    \A row \in sorted :
        row.id \in Flows /\ row.id = Head(row.shard, row.array, row.index).id =>
            /\ row.count <= arrived[row.shard][Class(row.id)]
            /\ loader = "m" => row.shard = get_shard_id(row.id)

\* A bucket whose head counted something when the dump began is listed, unless
\* the lookup of its shard failed, although m leaves out rows without a key: an
\* entry without a key counts only for fingerprint 0, which no flow outside
\* shard 0 has.
NoHeadIsMissed ==
    loader = "m" /\ pc = "evictions" =>
        \A s \in Shards \ {0} : (\E row \in sorted : row.shard = s) =>
            \A a \in Arrays, j \in Indices : seen.heads[s][a][j].count > 0 =>
                \E row \in sorted : <<row.shard, row.array, row.index>> = <<s, a, j>>

\* The eviction count m prints is the number of entries emptied up to some
\* moment of the dump, less those of the packets that came before the reset.
EvictionsReported ==
    reported >= 0 => /\ seen.emptied <= reported + lost
                     /\ reported + lost <= emptied

\* However main ends, the program is detached and the object file closed.
\* Only the failed attach closes it a second time.
ExitLeavesNothing ==
    pc = "done" => /\ ~link
                   /\ obj # "open"
                   /\ obj = "closed twice" => err = 1

\* Once a signal has come, main ends, whatever traffic and failures do.
SignalEndsIt == exiting ~> pc = "done"
=============================================================================
