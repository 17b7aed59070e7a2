----------------------------- MODULE MCSBubble -----------------------------
(***************************************************************************)
(* SBubble on three buckets of three entries per array.  With HASH_SPACE   *)
(* 48, FP_UNIT 3 and TAG_UNIT 2, fp is in 0 .. 15 and the tag in 0 .. 7.   *)
(***************************************************************************)
EXTENDS SBubble, TLC

CONSTANTS a1, a2, b1, b2, wrap, ghost

\* a1 and a2 (tag 1) are of one class and differ in fp, so are b1 and b2 (tag
\* 4); wrap has tag 7 and its second hash exceeds HASH_SPACE; ghost has tag 0,
\* which an untouched entry matches.  All have bucket 0 in array 0; all but
\* ghost have bucket 1 in array 1.
MCHash == (a1 :> 6) @@ (a2 :> 9) @@ (b1 :> 24) @@ (b2 :> 27)
              @@ (wrap :> 42) @@ (ghost :> 3)
=============================================================================
