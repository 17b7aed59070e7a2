----------------------------- MODULE MCTBubble -----------------------------
(***************************************************************************)
(* TBubble with the flows and bucket sizes of MCSBubbleCounts.             *)
(***************************************************************************)
EXTENDS TBubble, TLC

CONSTANTS a1, a2, b1, wrap, ghost, cpu1, cpu2

MCHash == [f \in Flows |->
              ((a1 :> 6) @@ (a2 :> 9) @@ (b1 :> 24) @@ (wrap :> 42) @@ (ghost :> 3))[f]]
=============================================================================
