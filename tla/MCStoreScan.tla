---------------------------- MODULE MCStoreScan ----------------------------
(* Three session keys over two SCAN slots: k1 alone in slot 0, k2 and k3   *)
(* sharing slot 1, so a page may be empty, hold one key or hold two.       *)
EXTENDS StoreScan, TLC

CONSTANTS k1, k2, k3

MCKeys == {k1, k2, k3}

MCBucket == (k1 :> 0) @@ (k2 :> 1) @@ (k3 :> 1)
=============================================================================
