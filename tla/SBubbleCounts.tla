--------------------------- MODULE SBubbleCounts ---------------------------
(***************************************************************************)
(* SBubble implements FlowCounting when the estimate of a class is the sum *)
(* of all counters of its fingerprint in its two buckets, wherever         *)
(* kickouts, sorts and refills have spread them.                           *)
(***************************************************************************)
EXTENDS SBubble

\* The counters of class c: those of fingerprint c[1] in bucket c[2] of array
\* 0 and in the bucket of array 1 that goes with it.
Estimate ==
    [c \in Classes |-> Held(buckets[0][c[2]], c[1])
                         + Held(buckets[1][(c[2] + c[1]) % MAX_BUCKETS], c[1])]

Promise == INSTANCE FlowCounting WITH estimate <- Estimate, seen <- arrived

\* Every step of the sketch, whichever branch it takes, is a packet of the
\* abstract counter: one class gains at most one, one class loses.
ImplementsCounting == Promise!Spec

\* The counters a class has in both arrays, duplicates included, add up to no
\* more than the packets of that class.
TotalIsBacked == Promise!Underestimates
=============================================================================
