---------------------------- MODULE MCSealQuorum ----------------------------
(* Three known nodes, two of which share a key, and an unknown one.        *)
EXTENDS SealQuorum, TLC

CONSTANTS n1, n2, n3, x, k1, k2

MCKeyOf == (n1 :> k1) @@ (n2 :> k2) @@ (n3 :> k2)
=============================================================================
