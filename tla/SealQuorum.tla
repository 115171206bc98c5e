----------------------------- MODULE SealQuorum -----------------------------
(***************************************************************************)
(* `quorum_met_counted` (verify/seal.rs), the one quorum count of the      *)
(* crate: a loop over the signature entries of a seal that counts distinct *)
(* root nodes with a valid signature and stops at the threshold.           *)
(*                                                                         *)
(* A signature is the key that made it, or something else: it is valid     *)
(* under a key iff that key made it over this seal.  Node ids may repeat   *)
(* in the list (a decoded map is a list of pairs), ids may be unknown, and *)
(* nothing is assumed of the trust base: two of its ids may share a key    *)
(* and its threshold may be 0, as in a trust base nobody validated.        *)
(***************************************************************************)
EXTENDS Integers, Sequences, FiniteSets

CONSTANTS
  NodeIds,     \* node ids that may occur in a seal
  Known,       \* the ids of the trust base
  KeyOf,       \* KeyOf[n]: the signing key of a known node
  Keys,        \* signing keys
  Undecodable, \* a signature encoding that does not parse
  Invalid,     \* a signature that parses and that no key made
  Threshold,   \* quorum_threshold
  MaxEntries   \* bound: signature entries of a seal

ASSUME QuorumAssumption ==
  /\ Known \subseteq NodeIds /\ KeyOf \in [Known -> Keys] /\ IsFiniteSet(Keys)
  /\ Undecodable \notin Keys /\ Invalid \notin Keys
  /\ Threshold \in Nat /\ MaxEntries \in Nat

VARIABLES
  signatures,    \* the entries of the seal
  next,          \* the entry the loop looks at
  counted,       \* node ids counted
  counted_keys,  \* their keys
  work,          \* QuorumWork
  verdict        \* "none" while the loop runs

vars == <<signatures, next, counted, counted_keys, work, verdict>>

Entries == [node : NodeIds, signature : Keys \cup {Undecodable, Invalid}]
Works   == [decodes : Nat, verifications : Nat]

Init ==
  /\ signatures \in UNION {[1..n -> Entries] : n \in 0..MaxEntries}
  /\ next = 1 /\ counted = {} /\ counted_keys = {}
  /\ work = [decodes |-> 0, verifications |-> 0]
  /\ verdict = IF Threshold = 0 THEN "Ok" ELSE "none"

Running == verdict = "none" /\ next <= Len(signatures)
Entry   == signatures[next]

(* A key that was counted under another id is counted again.               *)
EligibleMutant == Entry.node \in Known \ counted

(* Only these entries are decoded; the others are skipped.                 *)
Eligible == Entry.node \in Known \ counted /\ KeyOf[Entry.node] \notin counted_keys

Skip ==
  /\ Running /\ ~Eligible
  /\ next' = next + 1
  /\ UNCHANGED <<signatures, counted, counted_keys, work, verdict>>

DecodeFails ==
  /\ Running /\ Eligible /\ Entry.signature = Undecodable
  /\ next' = next + 1 /\ work' = [work EXCEPT !.decodes = @ + 1]
  /\ UNCHANGED <<signatures, counted, counted_keys, verdict>>

VerifyFails ==
  /\ Running /\ Eligible
  /\ Entry.signature \notin {Undecodable, KeyOf[Entry.node]}
  /\ next' = next + 1
  /\ work' = [decodes |-> work.decodes + 1, verifications |-> work.verifications + 1]
  /\ UNCHANGED <<signatures, counted, counted_keys, verdict>>

(* The threshold must be exceeded.                                         *)
ReachedMutant(ids) == Cardinality(ids) > Threshold

Reached(ids) == Cardinality(ids) >= Threshold

Count ==
  /\ Running /\ Eligible /\ Entry.signature = KeyOf[Entry.node]
  /\ next' = next + 1
  /\ work' = [decodes |-> work.decodes + 1, verifications |-> work.verifications + 1]
  /\ counted' = counted \cup {Entry.node}
  /\ counted_keys' = counted_keys \cup {KeyOf[Entry.node]}
  /\ verdict' = IF Reached(counted') THEN "Ok" ELSE "none"
  /\ UNCHANGED signatures

(* The entries are used up.                                                *)
GiveUp ==
  /\ verdict = "none" /\ next > Len(signatures)
  /\ verdict' = "QuorumNotMet"
  /\ UNCHANGED <<signatures, next, counted, counted_keys, work>>

Done == verdict # "none" /\ UNCHANGED vars

Next == Skip \/ DecodeFails \/ VerifyFails \/ Count \/ GiveUp \/ Done

Spec == Init /\ [][Next]_vars

-----------------------------------------------------------------------------
(* Every variable keeps its type.                                          *)
TypeOK ==
  /\ signatures \in Seq(Entries) /\ next \in 1..Len(signatures) + 1
  /\ counted \subseteq Known /\ counted_keys \subseteq Keys
  /\ work \in Works
  /\ verdict \in {"none", "Ok", "QuorumNotMet"}

(* The keys that validly signed among the first n entries.                 *)
SignersUpTo(n) ==
  {k \in Keys : \E j \in 1..n : /\ signatures[j].node \in Known
                                /\ KeyOf[signatures[j].node] = k
                                /\ signatures[j].signature = k}
Signers == SignersUpTo(Len(signatures))

(* The verdict is that of the set of distinct keys that signed, whatever   *)
(* the order of the entries, repeated ids, shared keys and junk: stopping  *)
(* early "cannot change the verdict".  Two seals whose entries are         *)
(* permutations of each other encode alike and share one entry of the      *)
(* session's memo, so the count must not depend on the order.              *)
VerdictIsQuorum ==
  /\ verdict = "Ok" => Cardinality(Signers) >= Threshold
  /\ verdict = "QuorumNotMet" => Cardinality(Signers) < Threshold

(* "It stops as soon as the threshold is reached": once the entries looked *)
(* at hold a quorum, the loop is over and no later entry is decoded.       *)
StopsAtThreshold ==
  /\ Cardinality(SignersUpTo(next - 1)) >= Threshold => verdict = "Ok"
  /\ work.decodes < next
=============================================================================
