----------------------------- MODULE MCCapture -----------------------------
(***************************************************************************)
(* Capture on three buckets of three entries per array.  With HASH_SPACE   *)
(* 128, FP_UNIT 2 and TAG_UNIT 4 the fingerprints are 0 .. 15, and three   *)
(* buckets do not divide the hashes.                                       *)
(***************************************************************************)
EXTENDS Capture, TLC

CONSTANTS fa, fb, fc1, fc2, fd, fw,   \* 5-tuples
          sa, sb, sc, sd, sw    \* strings

\* The keys of fc1 and fc2 differ only after a zero byte.
MCString == (fa :> sa) @@ (fb :> sb) @@ (fc1 :> sc) @@ (fc2 :> sc) @@ (fd :> sd) @@ (fw :> sw)

\* All strings have bucket 0 in both arrays; the second hash of sw wraps.
MCHash == (sa :> 27) @@ (sb :> 51) @@ (sc :> 75) @@ (sd :> 99) @@ (sw :> 117)

MCMaxPackets == [f \in Flows |-> 1]
=============================================================================
