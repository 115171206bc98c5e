----------------------------- MODULE BoundedFifo -----------------------------
(***************************************************************************)
(* What a bounded FIFO set promises to the verification memos: membership  *)
(* of exactly the last Capacity insertions.                                *)
(***************************************************************************)
EXTENDS Naturals, Sequences

CONSTANTS Values, Capacity

VARIABLES items,   \* what is held, oldest first
          answer   \* the last answer of Contains: the value and whether it is held

Holds(v) == \E i \in DOMAIN items : items[i] = v

Init == items = <<>> /\ answer = <<>>

Insert(v) ==
  /\ Capacity > 0
  /\ items' = Append(IF Len(items) = Capacity THEN Tail(items) ELSE items, v)
  /\ UNCHANGED answer

Contains(v) == answer' = <<v, Holds(v)>> /\ UNCHANGED items

Next == \E v \in Values : Insert(v) \/ Contains(v)

Spec == Init /\ [][Next]_<<items, answer>>
=============================================================================
