---------------------------- MODULE MCFifoIndex ----------------------------
(* Four values: v1 and v2 have the same hash, v3 another one of the same   *)
(* bucket, v4 one of another bucket.                                       *)
EXTENDS FifoIndex, TLC

CONSTANTS v1, v2, v3, v4

MCHashOf == (v1 :> 0) @@ (v2 :> 0) @@ (v3 :> 4) @@ (v4 :> 1)
=============================================================================
