----------------------------- MODULE MCLoader -----------------------------
(***************************************************************************)
(* Loader with two shards.  With HASH_SPACE 64, FP_UNIT 2 and TAG_UNIT 2,  *)
(* fp is in 0 .. 31 and the tag in 0 .. 15.                                *)
(***************************************************************************)
EXTENDS Loader, TLC

CONSTANTS p, q, r, t, u, v

\* v goes to shard 0, where it has fp 0: entries without a key count it.  The
\* others go to shard 1.
MCHash == (p :> 32) @@ (q :> 40) @@ (r :> 48) @@ (t :> 56) @@ (u :> 60) @@ (v :> 0)

\* A fifth packet is the first that decay can empty an entry for; only m's dump
\* looks at evictions.
MCTraffic == [l \in Loaders |-> IF l = "m" THEN 5 ELSE 4]
=============================================================================
