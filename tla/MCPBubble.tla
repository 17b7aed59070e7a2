----------------------------- MODULE MCPBubble -----------------------------
(***************************************************************************)
(* PBubble on three buckets of two entries per array, with a packet clock  *)
(* of a few ticks.  Admission is by the hash modulo 8.                     *)
(***************************************************************************)
EXTENDS PBubble, TLC

CONSTANTS a1, a2, b1, b2, wrap, ghost

\* As in MCSBubble: a1 and a2 are of one class, b1 and b2 of another, wrap's
\* second hash exceeds HASH_SPACE, ghost has fingerprint 0.
MCHash == [f \in Flows |->
              ((a1 :> 6) @@ (a2 :> 9) @@ (b1 :> 24) @@ (b2 :> 27)
               @@ (wrap :> 42) @@ (ghost :> 3))[f]]
=============================================================================
