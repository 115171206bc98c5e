--------------------------- MODULE MCSubmitAndWait ---------------------------
(* Three calls for one state id: c1 and c2 send the same request d1 (a     *)
(* retry by another process), c3 a conflicting spend d2.                   *)
EXTENDS SubmitAndWait, TLC

CONSTANTS c1, c2, c3, d1, d2

MCOwn  == (c1 :> d1) @@ (c2 :> d1) @@ (c3 :> d2)
MCKind == (c1 :> "verified") @@ (c2 :> "flow") @@ (c3 :> "wait")
=============================================================================
