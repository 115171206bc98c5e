------------------------------- MODULE Results -------------------------------
(***************************************************************************)
(* Option and Result as values, checks as lists of rules, and memos.  A    *)
(* rule has a condition and the error reported when the condition is the   *)
(* first of its list that does not hold.                                   *)
(***************************************************************************)
EXTENDS Integers, Sequences

CONSTANT None   \* Option::None, also the CBOR null

Ok(value)  == [ok |-> TRUE, value |-> value]
Err(error) == [ok |-> FALSE, error |-> error]

Rule(holds, error) == [holds |-> holds, error |-> error]

Passes(rules)     == \A i \in DOMAIN rules : rules[i].holds
FirstError(rules) ==
  rules[CHOOSE i \in DOMAIN rules :
          ~rules[i].holds /\ \A j \in DOMAIN rules : j < i => rules[j].holds].error

(* A success that also keeps some rules.                                   *)
Require(result, rules) ==
  IF ~result.ok \/ Passes(rules) THEN result ELSE Err(FirstError(rules))

(* A bounded FIFO memo; FifoIndex::insert as BoundedFifo describes it.     *)
Holds(memo, x) == \E i \in DOMAIN memo : memo[i] = x

Remember(capacity, memo, x) ==
  IF capacity = 0 THEN memo
  ELSE Append(IF Len(memo) = capacity THEN Tail(memo) ELSE memo, x)
=============================================================================
