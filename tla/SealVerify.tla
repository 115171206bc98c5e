----------------------------- MODULE SealVerify -----------------------------
(***************************************************************************)
(* What a `SealSession` (verify/seal.rs) remembers and the certificate and *)
(* proof verifiers that share one (verify/mod.rs), as operators.           *)
(*                                                                         *)
(* Signatures and hashes are symbolic: a seal has the set of keys that     *)
(* validly signed it (SealQuorum justifies the set), a certificate says    *)
(* whether it folds to its seal's hash (Partition computes the flags from  *)
(* trees), and the policy digest of a non-inclusion context is the         *)
(* context.                                                                *)
(*                                                                         *)
(* The operators are written as the Rust methods are: each takes the       *)
(* result so far, with its verdict and session, and like `?` leaves a      *)
(* failed one alone.                                                       *)
(***************************************************************************)
EXTENDS Results, FiniteSets

CONSTANT MaxRootNodes   \* MAX_ROOT_NODES

(* A session of the given memo capacity, 0 for no reuse.  Of its stats     *)
(* only the signature work is kept.                                        *)
NewSession(capacity) ==
  [capacity |-> capacity, validated |-> FALSE, memo |-> <<>>, bodies |-> <<>>,
   quorum_checks |-> 0]

-----------------------------------------------------------------------------
(* Results and rules.                                                      *)

Started(s)  == [verdict |-> "Ok", session |-> s]
Failed(r)   == r.verdict # "Ok"
Fail(r, e)  == [r EXCEPT !.verdict = e]

Check(r, rules) ==
  IF Failed(r) \/ Passes(rules) THEN r ELSE Fail(r, FirstError(rules))

-----------------------------------------------------------------------------
(* The trust base.                                                         *)

(* RootTrustBase::validate                                                 *)
validate(tb) ==
  LET nodes == tb.root_nodes IN
  /\ tb.version \in {0, 1}
  /\ Len(nodes) \in 1..MaxRootNodes
  /\ tb.quorum_threshold \in 1..Len(nodes)
  /\ \A i \in DOMAIN nodes :
       /\ nodes[i].node_id # "" /\ nodes[i].stake > 0
       /\ \A j \in DOMAIN nodes \ {i} : /\ nodes[i].node_id # nodes[j].node_id
                                        /\ nodes[i].signing_key # nodes[j].signing_key

(* quorum_met, by the set of distinct keys that signed.                    *)
quorum_met(tb, seal) ==
  LET keys == {tb.root_nodes[i].signing_key : i \in DOMAIN tb.root_nodes} IN
  Cardinality(keys \cap seal.signers) >= tb.quorum_threshold

ensure_trust_base(tb, r) ==
  IF Failed(r) \/ r.session.validated THEN r
  ELSE IF validate(tb) THEN [r EXCEPT !.session.validated = TRUE]
  ELSE Fail(r, "InvalidTrustBase")

-----------------------------------------------------------------------------
(* Seals.                                                                  *)

(* The signature work of a seal that is not in the memo; only a success is *)
(* remembered.                                                             *)
check_quorum(tb, r, seal) ==
  LET s == [r.session EXCEPT !.quorum_checks = @ + 1]
  IN IF quorum_met(tb, seal)
     THEN [r EXCEPT !.session = [s EXCEPT !.memo = Remember(r.session.capacity, @, seal)]]
     ELSE [r EXCEPT !.verdict = "QuorumNotMet", !.session = s]

(* The memo is not consulted.                                              *)
RememberedMutant(s, seal) == FALSE

Remembered(s, seal) == Holds(s.memo, seal)

verify_quorum_under(tb, r0, seal) ==
  LET r == ensure_trust_base(tb, r0) IN
  IF Failed(r) THEN r
  ELSE IF Remembered(r.session, seal) THEN r
  ELSE check_quorum(tb, r, seal)

(* The strict rules of a master seal, evaluated on every call.             *)
SealRules(tb, seal) ==
  << Rule(\A i \in DOMAIN tb.root_nodes : tb.root_nodes[i].stake = 1, "UnsupportedAuthority"),
     Rule(seal.well_shaped, "SealMalformed"),
     Rule(seal.network_id = tb.network_id, "SealNetworkMismatch"),
     Rule(seal.epoch = tb.epoch, "SealEpochMismatch"),
     Rule(seal.root_chain_round_number >= tb.epoch_start_round, "SealBeforeEpochStart") >>

authenticate_seal_under(tb, r, seal) ==
  verify_quorum_under(tb, Check(ensure_trust_base(tb, r), SealRules(tb, seal)), seal)

-----------------------------------------------------------------------------
(* Certificates.                                                           *)

(* A certificate that passed under any policy passes under this one.       *)
body_verifiedMutant(s, policy, uc) ==
  \E i \in DOMAIN s.bodies : s.bodies[i].uc = uc

body_verified(s, policy, uc) == Holds(s.bodies, [policy |-> policy, uc |-> uc])

remember_body(r, policy, uc) ==
  IF Failed(r) THEN r
  ELSE [r EXCEPT !.session.bodies = Remember(r.session.capacity, @, [policy |-> policy, uc |-> uc])]

PartitionRules(uc) == << Rule(uc.aggregation_partition, "PartitionMismatch") >>

BodyRules(tb, uc) ==
  << Rule(uc.body_valid, "CertificateBodyInvalid"),
     Rule(uc.unicity_seal.well_shaped, "SealMalformed"),
     Rule(uc.unicity_seal.network_id = tb.network_id, "SealNetworkMismatch"),
     Rule(uc.folds_to_seal_hash, "SealRootMismatch") >>

verify_unicity_certificate(tb, r0, uc, policy) ==
  LET r == Check(r0, PartitionRules(uc)) IN
  IF Failed(r) THEN r
  ELSE IF body_verified(r.session, policy, uc) THEN r
  ELSE remember_body(
         verify_quorum_under(tb, Check(r, BodyRules(tb, uc)), uc.unicity_seal),
         policy, uc)

Pinned(pin, value) == pin = None \/ pin = value

StrictRules(uc, context) ==
  << Rule(uc.body_valid, "CertificateBodyInvalid"),
     Rule(uc.one_sibling_per_bit, "ShardPathInvalid"),
     Rule(Pinned(context.shard, uc.shard), "ShardPathInvalid"),
     Rule(Pinned(context.shard_conf_hash, uc.shard_conf_hash), "ConfigurationMismatch"),
     Rule(uc.folds_to_seal_hash, "SealRootMismatch") >>

(* The end of the authority is judged after the seal is authentic.         *)
EndRules(uc, context) ==
  << Rule(\/ context.authority_end_round = None
          \/ uc.unicity_seal.root_chain_round_number < context.authority_end_round,
          "SealAfterAuthorityEnd") >>

verify_unicity_certificate_strict(tb, r0, uc, context) ==
  LET r == Check(r0, PartitionRules(uc)) IN
  IF Failed(r) THEN r
  ELSE IF body_verified(r.session, context, uc) THEN r
  ELSE LET strict == Check(r, StrictRules(uc, context))
           sealed == authenticate_seal_under(tb, strict, uc.unicity_seal)
       IN remember_body(Check(sealed, EndRules(uc, context)), context, uc)

-----------------------------------------------------------------------------
(* Proofs.  What each proof must satisfy by itself is checked on every     *)
(* call, before or after its certificate.                                  *)

MembershipRules(c) ==
  << Rule(c.certified_state_id = c.state_id, "CertificationDataMismatch"),
     Rule(c.expires_at = None \/ c.reference_time < c.expires_at, "RequestExpired"),
     Rule(c.uc.state_root # None, "PathInvalid"),
     Rule(c.proof_reference_time = c.reference_time, "ReferenceTimeMismatch"),
     Rule(c.reference_time <= c.uc.timestamp, "ReferenceTimeAfterRound"),
     Rule(c.path_valid, "PathInvalid"),
     Rule(c.state_id \in c.uc.shard, "ShardMismatch") >>

(* verify_inclusion_proof_in also runs the predicate.                      *)
WitnessRules(c) == << Rule(c.witness \in {"unchecked", "good"}, "NotAuthenticated") >>

verify_membership_under(tb, r, c) ==
  Check(verify_unicity_certificate(
          tb, Check(ensure_trust_base(tb, r), MembershipRules(c)), c.uc, c.policy),
        WitnessRules(c))

TargetRules(c) ==
  << Rule(Pinned(c.requested, c.target), "NonInclusionTargetMismatch") >>

AbsenceRules(c) ==
  << Rule(c.path_valid, "NonInclusionCertificateInvalid"),
     Rule(c.target \in c.uc.shard /\ (c.terminal = None \/ c.terminal \in c.uc.shard),
          "ShardMismatch") >>

verify_non_inclusion_in(tb, r, c) ==
  Check(verify_unicity_certificate_strict(
          tb, Check(ensure_trust_base(tb, r), TargetRules(c)), c.uc, c.policy),
        AbsenceRules(c))
=============================================================================
