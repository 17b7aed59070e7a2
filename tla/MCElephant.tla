----------------------------- MODULE MCElephant -----------------------------
(***************************************************************************)
(* Elephant on three buckets per array.  COUNT_MAX exceeds what the other  *)
(* flows can count, as 0xFFFFFFFF does any trace the program is run on.    *)
(***************************************************************************)
EXTENDS Elephant, TLC

CONSTANTS a1, a2, b1, b2, wrap, ghost, c

\* The flows of MCSBubble, and c, which shares both buckets of ghost.
MCHash == [f \in Flows |->
              ((a1 :> 6) @@ (a2 :> 9) @@ (b1 :> 24) @@ (b2 :> 27)
                  @@ (wrap :> 42) @@ (ghost :> 3) @@ (c :> 18))[f]]
=============================================================================
