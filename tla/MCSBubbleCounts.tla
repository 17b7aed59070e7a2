-------------------------- MODULE MCSBubbleCounts --------------------------
(***************************************************************************)
(* SBubbleCounts on buckets of two entries, so that six flows crowd one    *)
(* another out: buckets fill, last entries decay to 0 and are taken over.  *)
(***************************************************************************)
EXTENDS SBubbleCounts, TLC

CONSTANTS a1, a2, b1, b2, wrap, ghost

\* The flows of MCSBubble.
MCHash == (a1 :> 6) @@ (a2 :> 9) @@ (b1 :> 24) @@ (b2 :> 27)
              @@ (wrap :> 42) @@ (ghost :> 3)
=============================================================================
