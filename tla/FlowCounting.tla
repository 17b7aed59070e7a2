---------------------------- MODULE FlowCounting ----------------------------
(***************************************************************************)
(* What a Bubble Sketch promises as a counter, without buckets, slots or   *)
(* hashes: each class of flows has one estimate.  A packet may raise the   *)
(* estimate of its own class, by one; it may lower the estimate of one     *)
(* class, the one whose counter decays or is pushed off its bucket; every  *)
(* other estimate stands still.                                            *)
(***************************************************************************)
EXTENDS Integers

CONSTANTS Classes, MaxPackets

VARIABLES
    estimate,   \* what the sketch holds for each class
    seen        \* packets of each class

vars == <<estimate, seen>>

Init == /\ estimate = [c \in Classes |-> 0]
        /\ seen = [c \in Classes |-> 0]

Packet(c) ==
    /\ seen' = [seen EXCEPT ![c] = @ + 1]
    /\ \E gain \in 0 .. 1, v \in Classes : \E loss \in 0 .. MaxPackets :
            estimate' = [d \in Classes |-> estimate[d]
                            + (IF d = c THEN gain ELSE 0)
                            - (IF d = v THEN loss ELSE 0)]
    /\ \A d \in Classes : estimate'[d] >= 0

Next == \E c \in Classes : Packet(c)

Spec == Init /\ [][Next]_vars

\* An estimate never exceeds the packets of its class.
Underestimates == \A c \in Classes : estimate[c] <= seen[c]
=============================================================================
