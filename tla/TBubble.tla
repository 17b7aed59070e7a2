------------------------------ MODULE TBubble ------------------------------
(***************************************************************************)
(* The t-bubble XDP programs: the same sketch, updated by a chain of four  *)
(* tail-called programs.  What one program hands to the next is in         *)
(* context_map, a map with a single element for all CPUs.                  *)
(*                                                                         *)
(* A CPU runs one packet's chain to its end before it takes the next       *)
(* packet; between the programs of one CPU, programs of others may run.    *)
(* Each program is one step, but for the entry program, which reads the    *)
(* key back from context_map after it wrote it.  Finer interleavings,      *)
(* inside one program's update of a bucket, are left out.                  *)
(***************************************************************************)
EXTENDS BubbleSketch, FiniteSets

CONSTANTS
    CPUs,
    MaxPackets    \* bound on the traffic of one behaviour

ASSUME PacketsAssumption == MaxPackets \in Nat
ASSUME CPUsAssumption    == IsFiniteSet(CPUs)

VARIABLES
    pc,              \* the program each CPU runs next; "idle" between packets
    context_map,     \* struct insert_context
    insert_counter,  \* per CPU
    eviction_map,    \* per CPU
    packet,          \* history: the flow of the packet each CPU works on
    arrived          \* history: packets whose chain has ended, per class

vars == <<buckets, f_max, threshold1, pc, context_map, insert_counter,
          eviction_map, packet, arrived>>

Class(f) == <<Tag(Context(f).fp), Context(f).keys[0]>>
Classes  == {Class(f) : f \in Flows}

Total(counter) == SumFunctionOnSet(counter, CPUs)

Init ==
    /\ Init_sketch
    /\ pc = [cpu \in CPUs |-> "idle"]
    /\ context_map = [key |-> NoFlow, fp |-> 0, hash_value |-> [a \in Arrays |-> 0],
                      keys |-> [a \in Arrays |-> 0]]
    /\ insert_counter = [cpu \in CPUs |-> 0]
    /\ eviction_map = [cpu \in CPUs |-> 0]
    /\ packet = [cpu \in CPUs |-> NoFlow]
    /\ arrived = [c \in Classes |-> 0]

Goto(cpu, program) == pc' = [pc EXCEPT ![cpu] = program]

\* The chain of this CPU's packet ends.
Done(cpu) == /\ Goto(cpu, "idle")
             /\ arrived' = [arrived EXCEPT ![Class(packet[cpu])] = @ + 1]

-----------------------------------------------------------------------------
(* The programs.                                                           *)

\* xdp_collect_5tuple parses a packet and writes its key to the context.
CollectKey(cpu, f) ==
    /\ pc[cpu] = "idle"
    /\ Total(insert_counter) < MaxPackets
    /\ context_map' = [context_map EXCEPT !.key = f]
    /\ packet' = [packet EXCEPT ![cpu] = f]
    /\ Goto(cpu, "hash")
    /\ UNCHANGED <<buckets, f_max, threshold1, insert_counter, eviction_map, arrived>>

\* It then hashes the key the context holds, and counts the packet before
\* anything of it is in the sketch.
CollectHash(cpu) ==
    /\ pc[cpu] = "hash"
    /\ context_map' = Context(context_map.key)
    /\ insert_counter' = [insert_counter EXCEPT ![cpu] = @ + 1]
    /\ Goto(cpu, "hot0")
    /\ UNCHANGED <<buckets, f_max, threshold1, eviction_map, packet, arrived>>

Programs == [a \in Arrays |-> IF a = 0 THEN "hot0" ELSE "hot1"]

\* Mutant: the second hot program is never called.
TailCall_SkipsHot1(a) == "cold"

\* Mutant: the slot of the cold program is empty.
TailCall_EmptySlot(a) == IF a = 0 THEN "hot1" ELSE "lost"

TailCall(a) == IF a = 0 THEN "hot1" ELSE "cold"

xdp_insert_hot_bucket(cpu, a) ==
    LET c == context_map
        b == Probe(c, a)
    IN  /\ pc[cpu] = Programs[a]
        /\ \/ /\ Bucket_Equal(b, 0, c.fp)
              /\ CountHot(c, a)
              /\ Done(cpu)
           \/ /\ ~Bucket_Equal(b, 0, c.fp)
              /\ Bucket_Empty(b, 0)
              /\ Take(c, a, 0)
              /\ Done(cpu)
           \/ /\ ~Stops(c, a, 0)
              /\ Goto(cpu, TailCall(a))
              /\ UNCHANGED <<sketch, arrived>>
        /\ UNCHANGED <<context_map, insert_counter, eviction_map, packet>>

\* The first cold entry, in the order of the probes, that stops the packet.
FirstColdStop(c, a, i) ==
    /\ Stops(c, a, i)
    /\ \A k \in 1 .. i, x \in Arrays : (k < i \/ x < a) => ~Stops(c, x, k)

\* Mutant: only the last entry of bucket 0 is looked at.
Vacated_Bucket0(c) == buckets'[0][c.keys[0]][MAX_ENTRY - 1].count = 0

\* After the decay, a last entry is 0.
Vacated(c) == \E a \in Arrays : buckets'[a][c.keys[a]][MAX_ENTRY - 1].count = 0

xdp_insert_cold(cpu) ==
    LET c == context_map
    IN  /\ pc[cpu] = "cold"
        /\ \/ \E a \in Arrays, i \in Slots \ {0} :
                /\ FirstColdStop(c, a, i)
                /\ IF Bucket_Equal(Probe(c, a), i, c.fp)
                   THEN CountCold(c, a, i) ELSE Take(c, a, i)
                /\ UNCHANGED eviction_map
           \/ /\ \A a \in Arrays, i \in Slots \ {0} : ~Stops(c, a, i)
              /\ Decay(c)
              /\ eviction_map' = IF Vacated(c) THEN [eviction_map EXCEPT ![cpu] = @ + 1]
                                 ELSE eviction_map
        /\ Done(cpu)
        /\ UNCHANGED <<context_map, insert_counter, packet>>

Next == \E cpu \in CPUs :
    \/ \E f \in Flows : CollectKey(cpu, f)
    \/ CollectHash(cpu)
    \/ \E a \in Arrays : xdp_insert_hot_bucket(cpu, a)
    \/ xdp_insert_cold(cpu)

\* A CPU that has started a chain runs it to its end: nothing preempts it for
\* good.
Chain(cpu) == \/ CollectHash(cpu)
              \/ \E a \in Arrays : xdp_insert_hot_bucket(cpu, a)
              \/ xdp_insert_cold(cpu)

Spec == Init /\ [][Next]_vars /\ \A cpu \in CPUs : WF_vars(Chain(cpu))

-----------------------------------------------------------------------------
(* Properties.                                                             *)

InFlight == {cpu \in CPUs : pc[cpu] \in {"hot0", "hot1", "cold"}}

\* On one CPU the chain is BubbleSketch_Insert of s-bubble, cut into steps:
\* whichever program ends it does to the sketch what the single program would
\* have done, although each stage reads the buckets again.
Atomic == INSTANCE SBubble WITH
    insert_counter <- Total(insert_counter) - Cardinality(InFlight)

ImplementsInsert == Atomic!Spec

\* The eviction counter moves exactly when a packet leaves fewer entries in
\* use and no hot counter larger: decay has emptied a last entry.  What a
\* kickout pushes off its bucket is not counted.
InUse == {p \in Arrays \X Indices \X Slots : buckets[p[1]][p[2]][p[3]].count > 0}

EvictionsAreCounted ==
    [][Total(eviction_map') - Total(eviction_map) =
        IF /\ InUse' # InUse
           /\ InUse' \subseteq InUse
           /\ \A a \in Arrays, j \in Indices :
                buckets'[a][j][0].count <= buckets[a][j][0].count
        THEN 1 ELSE 0]_vars

\* insert_counter runs ahead of the sketch, which the chain updates later; but
\* again and again every packet that was counted has been through its chain.
CounterIsCaughtUp ==
    []<>(Total(insert_counter) = SumFunctionOnSet(arrived, Classes))

\* What a program finds in the context is what the entry program of its own
\* packet put there.
ContextIsPassed == \A cpu \in InFlight : context_map = Context(packet[cpu])
=============================================================================
