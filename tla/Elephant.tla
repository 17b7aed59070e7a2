------------------------------ MODULE Elephant ------------------------------
(***************************************************************************)
(* What the sketch is for: a flow that keeps sending while the others have *)
(* only a bounded number of packets left gets a hot entry of its own and   *)
(* keeps it.  The elephant may send first, last or in between; the other   *)
(* flows may have set any entries, threshold and stale fingerprints before.*)
(***************************************************************************)
EXTENDS BubbleSketch

CONSTANTS
    Elephants,    \* the flows that may be the heavy one
    Background    \* bound on the packets of all other flows together

VARIABLES
    elephant,     \* the heavy flow of this behaviour
    background    \* packets the other flows still send

vars == <<buckets, f_max, threshold1, elephant, background>>

Init ==
    /\ Init_sketch
    /\ elephant \in Elephants
    /\ background = Background

ElephantPacket ==
    /\ BubbleSketch_Insert(Context(elephant))
    /\ UNCHANGED <<elephant, background>>

BackgroundPacket(f) ==
    /\ f # elephant
    /\ background > 0
    /\ background' = background - 1
    /\ BubbleSketch_Insert(Context(f))
    /\ UNCHANGED elephant

Next == ElephantPacket \/ \E f \in Flows : BackgroundPacket(f)

\* The elephant never stops sending; nothing is assumed of the others.
Spec == Init /\ [][Next]_vars /\ WF_vars(ElephantPacket)

\* The dump of the hot entries lists flow f.
Listed(f) ==
    \E a \in Arrays :
        LET e == buckets[a][Context(f).keys[a]][0]
        IN  e.id = f /\ e.l0fp = Context(f).fp /\ e.count > 0

\* From some point on the dump always lists the elephant: promotion works
\* through same-class counters, stale fingerprints and a raised threshold.
ElephantIsListed == <>[]Listed(elephant)

=============================================================================
