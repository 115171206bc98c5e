----------------------------- MODULE TokenVerify -----------------------------
(***************************************************************************)
(* Token verification (verify/mod.rs, verify/context.rs,                   *)
(* verify/mint_justification.rs): the genesis, every transfer, and through *)
(* the verifiers of mint justifications the source tokens embedded in      *)
(* them, in one context with one seal session, one certificate interner    *)
(* and cumulative limits; and the consolidation of a token in an unsharded *)
(* partition (client/consolidate), which verifies, replaces the proofs and *)
(* verifies again.                                                         *)
(*                                                                         *)
(* The context is the result of SealVerify with the fields of a            *)
(* VerificationContext.  The payment data, manifest and allocation proofs  *)
(* of a split, which Split models, are the flag `allocated`.  The wrapping *)
(* of an inner error (Genesis, Transfer, BurnTokenVerificationFailed) is   *)
(* left out.                                                               *)
(***************************************************************************)
EXTENDS SealVerify, Transactions

CONSTANTS
  RootShard,         \* the state ids of the empty shard id
  Trees,             \* the leaves of the tree behind a root hash
  NoPolicy,          \* the policy of verify_membership_in, 32 zero bytes
  ViewPolicy,        \* view_policy of the configured topology
  InternerCapacity,  \* DEFAULT_UC_INTERNER_CAPACITY
  MemoCapacity       \* DEFAULT_SEAL_MEMO_CAPACITY

-----------------------------------------------------------------------------
(* The registry: verifiers of justifications by tag, of data by type.      *)

NewRegistry == [verifiers |-> {}, data_verifiers |-> {}]

(* A tag and a type are registered once; the second attempt is an error    *)
(* and changes nothing.                                                    *)
register(registry, verifier) ==
  IF \E v \in registry.verifiers : v.tag = verifier.tag THEN registry
  ELSE [registry EXCEPT !.verifiers = @ \cup {verifier}]

register_token_data(registry, verifier) ==
  IF \E v \in registry.data_verifiers : v.token_type = verifier.token_type THEN registry
  ELSE [registry EXCEPT !.data_verifiers = @ \cup {verifier}]

-----------------------------------------------------------------------------
(* One certified transaction.                                              *)

(* verify_inclusion_proof_in is called with the transaction's own state.   *)
MembershipOf(certified, policy) ==
  LET data == certified.proof.certification_data
      time == certified.proof.reference_time
      uc   == certified.proof.uc
      id   == state_id_of(certified.transaction)
  IN [uc |-> uc, policy |-> policy, state_id |-> id,
      certified_state_id |-> StateId(data.lock_script, data.source_state_hash),
      expires_at |-> data.expires_at, reference_time |-> time, proof_reference_time |-> time,
      path_valid |-> uc.state_root # None
                       /\ Leaf(id, data.transaction_hash, time) \in Trees[uc.state_root],
      witness |-> IF verify_predicate(data.lock_script, data.source_state_hash,
                                      data.transaction_hash, data.unlock_script)
                  THEN "good" ELSE "bad"]

(* The certified transaction is not compared with the token's.             *)
BindingRulesMutant(tx, data) ==
  << Rule(/\ data.lock_script = tx.lock_script
          /\ data.source_state_hash = tx.source_state_hash
          /\ data.expires_at = tx.wire.expires_at, "CertificationDataMismatch") >>

BindingRules(tx, data) ==
  << Rule(/\ data.lock_script = tx.lock_script
          /\ data.source_state_hash = tx.source_state_hash
          /\ data.expires_at = tx.wire.expires_at, "CertificationDataMismatch"),
     Rule(data.transaction_hash = calculate_transaction_hash(tx), "TransactionHashMismatch") >>

verify_inclusion_proof(tb, c, certified) ==
  verify_membership_under(
    tb, Check(c, BindingRules(certified.transaction, certified.proof.certification_data)),
    MembershipOf(certified, NoPolicy))

-----------------------------------------------------------------------------
(* Application data and mint justifications.                               *)

verify_token_data(c, mint) ==
  LET vs == {v \in c.registry.data_verifiers : v.token_type = mint.wire.token_type} IN
  IF mint.wire.data = None THEN c
  ELSE Check(c, << Rule(mint.wire.data.len <= c.policy.max_input_bytes, "VerificationLimitExceeded"),
                   Rule(vs # {} \/ ~c.policy.require_token_data_verifier, "UnsupportedTokenData"),
                   Rule(\A v \in vs : mint.wire.data \in v.accepts, "TokenDataRejected") >>)

(* Before and after the source of a split is verified.                     *)
SplitRules(mint, source) ==
  << Rule(source.ok, "MalformedMintJustification"),
     Rule(mint.wire.data # None, "PaymentDataMissing"),
     Rule(source.ok => Genesis(source.token).wire.network_id = mint.wire.network_id,
          "SplitNetworkMismatch") >>

BurnRules(mint, source, max_input_bytes) ==
  LET burn == Last(source).transaction.wire IN
  << Rule(Transfers(source) # <<>>, "SplitBurnTransferMissing"),
     Rule(burn.data # None, "SplitManifestMissing"),
     Rule(burn.data # None => burn.data.len <= max_input_bytes, "VerificationLimitExceeded"),
     Rule(burn.recipient = BurnPredicate(burn.data), "SplitBurnPredicateMismatch"),
     Rule(mint.wire.token_type = Genesis(source).wire.token_type, "SplitTokenTypeMismatch"),
     Rule(mint.wire.justification.allocated, "SplitAllocationProofInvalid") >>

EmbeddingRules(c, total) ==
  << Rule(c.embedded_token_depth # c.policy.max_embedded_token_depth,
          "VerificationLimitExceeded"),
     Rule(total <= c.policy.max_total_embedded_token_bytes, "VerificationLimitExceeded") >>

RECURSIVE verify_token_in_context(_, _, _)

(* The depth is not taken back.                                            *)
verify_embedded_tokenMutant(tb, c, token, encoded_len) ==
  LET total == c.total_embedded_token_bytes + encoded_len
      Inside(allowed) ==
        IF Failed(allowed) THEN allowed
        ELSE verify_token_in_context(
               tb, [allowed EXCEPT !.embedded_token_depth = @ + 1,
                                   !.total_embedded_token_bytes = total], token)
  IN Inside(Check(c, EmbeddingRules(c, total)))

(* VerificationContext::verify_embedded_token.  An overflow of the sum is  *)
(* the same error as a sum above the limit.                                *)
verify_embedded_token(tb, c, token, encoded_len) ==
  LET total == c.total_embedded_token_bytes + encoded_len
      Left(inner) == [inner EXCEPT !.embedded_token_depth = @ - 1]
      Inside(allowed) ==
        IF Failed(allowed) THEN allowed
        ELSE Left(verify_token_in_context(
                    tb, [allowed EXCEPT !.embedded_token_depth = @ + 1,
                                        !.total_embedded_token_bytes = total], token))
  IN Inside(Check(c, EmbeddingRules(c, total)))

(* SplitMintJustification::from_cbor_interned: the token that was split.   *)
SourceOf(justification, interner) ==
  from_cbor_interned(Head(justification.sources).bytes, interner)

(* SplitMintJustificationVerifier::verify                                  *)
verify_split(tb, c, mint) ==
  LET embedded == Head(mint.wire.justification.sources)
      Judged(source) ==
        Check(verify_embedded_token(
                tb, Check([c EXCEPT !.interner = source.interner], SplitRules(mint, source)),
                source.token, embedded.encoded_len),
              BurnRules(mint, source.token, c.policy.max_input_bytes))
  IN Judged(SourceOf(mint.wire.justification, c.interner))

(* An application's verifier that decodes every source it embeds through   *)
(* the context's interner and verifies it (external).                      *)
verify_wrapped(tb, c, mint) ==
  LET Judged(r, source, encoded_len) ==
        verify_embedded_token(tb, Check([r EXCEPT !.interner = source.interner],
                                        << Rule(source.ok, "MalformedMintJustification") >>),
                              source.token, encoded_len)
      One(r, embedded) ==
        IF Failed(r) THEN r
        ELSE Judged(r, from_cbor_interned(embedded.bytes, r.interner), embedded.encoded_len)
  IN FoldLeft(One, c, mint.wire.justification.sources)

(* MintJustificationRegistry::verify_genesis                               *)
verify_justification(tb, c, mint) ==
  LET j == mint.wire.justification IN
  IF Failed(c) \/ j = None THEN c
  ELSE IF \A v \in c.registry.verifiers : v.tag # j.tag
       THEN Fail(c, "UnsupportedMintJustification")
  ELSE IF j.tag = "split" THEN verify_split(tb, c, mint)
  ELSE verify_wrapped(tb, c, mint)

-----------------------------------------------------------------------------
(* Tokens.                                                                 *)

GenesisRules(tb, genesis) ==
  << Rule(genesis.transaction.wire.network_id = tb.network_id, "NetworkMismatch"),
     Rule(genesis.proof.certification_data.lock_script
            = SignaturePredicate(MinterKey(genesis.transaction.token_id)),
          "InvalidMintLockScript") >>

verify_genesis(tb, c, token) ==
  LET mint  == Genesis(token)
      bound == verify_inclusion_proof(tb, Check(c, GenesisRules(tb, Head(token))), Head(token))
  IN verify_justification(tb, verify_token_data(bound, mint), mint)

verify_token_in_context(tb, c, token) ==
  LET VerifyNext(r, certified) == IF Failed(r) THEN r ELSE verify_inclusion_proof(tb, r, certified)
      Verified(allowed) ==
        IF Failed(allowed) THEN allowed
        ELSE FoldLeft(VerifyNext, verify_genesis(tb, allowed, token), Transfers(token))
  IN Verified(Check(c, << Rule(Len(Transfers(token)) <= c.policy.max_token_transfers,
                               "VerificationLimitExceeded") >>))

(* VerificationContext::with_session                                       *)
Context(s, registry, policy) ==
  [verdict |-> "Ok", session |-> s, interner |-> NewInterner(InternerCapacity),
   registry |-> registry, policy |-> policy,
   embedded_token_depth |-> 0, total_embedded_token_bytes |-> 0]

verify_token_in_session(tb, s, token, registry, policy) ==
  LET c == Context(s, registry, policy) IN
  IF validate(tb) THEN verify_token_in_context(tb, c, token)
  ELSE Fail(c, "InvalidTrustBase")

-----------------------------------------------------------------------------
(* Consolidating a token in an unsharded partition: call has the token,    *)
(* the registry and policy, the served batch, and the configuration pin.   *)

(* ProofClient::run before anything is fetched.                            *)
EvidenceRules(token, pin) ==
  LET uc(i) == token[i].proof.uc IN
  << Rule(\A i \in DOMAIN token : uc(i).aggregation_partition, "Context"),
     Rule(\A i \in DOMAIN token : uc(i).shard = RootShard, "Context"),
     Rule(\A i \in DOMAIN token : Pinned(pin, uc(i).shard_conf_hash), "Context") >>

(* check_batch, item by item.                                              *)
BatchRules(token, batch) ==
  << Rule(Len(batch) = Len(token), "InvalidResponse") >>
    \o FlattenSeq([i \in 1..Len(batch) |->
         << Rule(i \in DOMAIN token
                   => replacement_proof(token[i].proof, batch[i], batch[i].uc) # None, "Binding"),
            Rule(batch[i].uc = batch[1].uc, "InvalidResponse") >>])

(* DirectTarget::authenticate                                              *)
TargetUcRules(uc, pin) ==
  << Rule(uc.shard = RootShard /\ uc.one_sibling_per_bit, "Context"),
     Rule(uc.aggregation_partition, "Context"),
     Rule(Pinned(pin, uc.shard_conf_hash), "Context"),
     Rule(uc.folds_to_seal_hash, "Target") >>

Rounds(token) == {token[i].proof.uc.unicity_seal.root_chain_round_number : i \in DOMAIN token}

(* run_direct: the bound of the original proofs, then every replacement is *)
(* verified in the session of the attempt.                                 *)
run_direct(tb, r0, token, batch, pin) ==
  LET uc == batch[1].uc
      rebuilt == rebuild_token(token, [i \in DOMAIN token |->
                                         replacement_proof(token[i].proof, batch[i], uc)])
      One(r, certified) ==
        IF Failed(r) THEN r
        ELSE verify_membership_under(
               tb, r, [MembershipOf(certified, ViewPolicy) EXCEPT !.witness = "unchecked"])
      Replaced(recent) ==
        IF Failed(recent) THEN [verdict |-> recent.verdict, token |-> token]
        ELSE [verdict |-> FoldLeft(One, recent, rebuilt).verdict, token |-> rebuilt]
  IN Replaced(
       Check(authenticate_seal_under(tb, Check(r0, TargetUcRules(uc, pin)), uc.unicity_seal),
             << Rule(\A n \in Rounds(token) : n <= uc.unicity_seal.root_chain_round_number,
                     "TargetNotYetAvailable") >>))

(* ProofClient::consolidate: a token under one acceptable seal is returned *)
(* as it is; a rebuilt one is verified from nothing.                       *)
consolidate(tb, token, call) ==
  LET one == Cardinality(distinct_seals(token)) = 1
      Verified(t) == verify_token_in_session(tb, NewSession(MemoCapacity), t,
                                             call.registry, call.policy)
      Published(direct) ==
        IF direct.verdict # "Ok" THEN direct
        ELSE [verdict |-> Verified(direct.token).verdict, token |-> direct.token]
      Fetched(r) ==
        Published(run_direct(tb, Check(r, BatchRules(token, call.batch)), token, call.batch,
                             call.pin))
      Reused(fits, shared) ==
        IF Failed(fits) THEN [verdict |-> fits.verdict, token |-> token]
        ELSE IF ~one THEN Fetched(fits)
        ELSE IF Failed(shared) THEN Fetched([fits EXCEPT !.session = shared.session])
        ELSE [verdict |-> "Ok", token |-> token]
      Admitted(fits) ==
        Reused(fits, authenticate_seal_under(tb, fits, Head(token).proof.uc.unicity_seal))
  IN Admitted(Check(Verified(token), EvidenceRules(token, call.pin)))
=============================================================================
