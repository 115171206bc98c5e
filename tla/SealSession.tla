----------------------------- MODULE SealSession -----------------------------
(***************************************************************************)
(* The session of SealCalls shared by token verification as well           *)
(* (TokenVerify), and a consolidation, which opens its own.                *)
(***************************************************************************)
EXTENDS TokenVerify, SealCalls

CONSTANTS
  TokenCalls,        \* arguments of verify_token_in_session, by name
  ConsolidateCalls   \* arguments of consolidate, by name

VARIABLES
  accepted,    \* history: token calls that succeeded
  outcome      \* what a consolidation returned

vars == <<trust_base, session, rejected, accepted, calls, outcome>>

Init == OpenSession /\ accepted = {} /\ outcome = None

-----------------------------------------------------------------------------
(* Token::from_cbor and then a verifier.                                   *)
DecodedToken(call) == from_cbor_interned(call.bytes, NewInterner(InternerCapacity))

TokenCalled(s, call) ==
  LET d == DecodedToken(call) IN
  IF d.ok THEN verify_token_in_session(trust_base, s, d.token, call.registry, call.policy)
  ELSE Fail(Started(s), "Malformed")

(* What a call returns in session s.                                       *)
Called(s, call) ==
  IF call.op = "token" THEN TokenCalled(s, TokenCalls[call.arg]) ELSE DirectlyCalled(s, call)

Call(call) ==
  LET r == Called(session, call) IN
  /\ Returns(r)
  /\ accepted' = IF call.op = "token" /\ r.verdict = "Ok"
                 THEN accepted \cup {call.arg} ELSE accepted
  /\ UNCHANGED outcome

(* ProofClient::consolidate of a decoded token.  It has nothing to do with *)
(* the session of the others, and is explored by itself.                   *)
Consolidate(name) ==
  LET call == ConsolidateCalls[name]
      d    == DecodedToken(call)
      End(r) == outcome' = [call |-> name, verdict |-> r.verdict, token |-> r.token]
  IN /\ calls = 0 /\ d.ok
     /\ calls' = MaxCalls
     /\ End(consolidate(trust_base, d.token, call))
     /\ UNCHANGED <<trust_base, session, rejected, accepted>>

Calls == DirectCalls \cup [op : {"token"}, arg : DOMAIN TokenCalls]

Next ==
  \/ \E call \in Calls : Call(call)
  \/ \E name \in DOMAIN ConsolidateCalls : Consolidate(name)

Spec == Init /\ [][Next]_vars

-----------------------------------------------------------------------------
(* What makes a token legitimate, said of its encoding and of those of the *)
(* sources embedded in it, without an order of checks, a session or an     *)
(* interner.                                                               *)

Sources(bytes) ==
  LET j == bytes[1].transaction.justification IN IF j = None THEN <<>> ELSE j.sources

RECURSIVE AllTokens(_)
AllTokens(bytes) ==
  {bytes} \cup UNION {AllTokens(Sources(bytes)[i].bytes) : i \in DOMAIN Sources(bytes)}

RECURSIVE Nesting(_)
Nesting(bytes) ==
  LET below == {1 + Nesting(Sources(bytes)[i].bytes) : i \in DOMAIN Sources(bytes)}
  IN CHOOSE n \in below \cup {0} : \A k \in below \cup {0} : k <= n

RECURSIVE EmbeddedBytes(_)
EmbeddedBytes(bytes) ==
  FoldLeft(LAMBDA n, e : n + e.encoded_len + EmbeddedBytes(e.bytes), 0, Sources(bytes))

IdOf(bytes) == TokenId(bytes[1].transaction.network_id, bytes[1].transaction.salt)

RECURSIVE StateBefore(_, _)
StateBefore(bytes, i) ==
  IF i = 1 THEN MintTransactionState(IdOf(bytes))
  ELSE [source |-> StateBefore(bytes, i - 1),
        mask   |-> IF i = 2 THEN IdOf(bytes) ELSE bytes[i - 1].transaction.state_mask]

LockBefore(bytes, i) ==
  IF i = 1 THEN SignaturePredicate(MinterKey(IdOf(bytes))) ELSE bytes[i - 1].transaction.recipient

Authentic(uc) ==
  /\ uc.aggregation_partition /\ uc.body_valid /\ uc.folds_to_seal_hash
  /\ uc.unicity_seal.well_shaped /\ uc.unicity_seal.network_id = trust_base.network_id
  /\ quorum_met(trust_base, uc.unicity_seal)

(* The i-th transaction is a signed spend of the state the one before it   *)
(* left, in an authentic tree, in time.                                    *)
Certified(bytes, i) ==
  LET tx == bytes[i].transaction
      p  == bytes[i].proof
      uc == p.uc.uc
      state == StateBefore(bytes, i)
      lock  == LockBefore(bytes, i)
  IN /\ p.certification_data =
          [lock_script |-> lock, source_state_hash |-> state, transaction_hash |-> tx,
           expires_at |-> tx.expires_at,
           unlock_script |-> sign_signature_unlock(lock.parameters, state, tx)]
     /\ lock.code = "Signature"
     /\ Authentic(uc) /\ uc.state_root # None /\ StateId(lock, state) \in uc.shard
     /\ Leaf(StateId(lock, state), tx, p.reference_time) \in Trees[uc.state_root]
     /\ p.reference_time <= uc.timestamp
     /\ tx.expires_at # None => p.reference_time < tx.expires_at

(* Its data and its justification are ones the registry vouches for.       *)
Vouched(bytes, registry, policy) ==
  LET tx == bytes[1].transaction
      of_type == {v \in registry.data_verifiers : v.token_type = tx.token_type}
  IN /\ tx.data # None =>
          /\ tx.data.len <= policy.max_input_bytes
          /\ \A v \in of_type : tx.data \in v.accepts
          /\ of_type = {} => ~policy.require_token_data_verifier
     /\ tx.justification # None =>
          /\ \E v \in registry.verifiers : v.tag = tx.justification.tag
          /\ tx.justification.tag = "split" =>
               LET source == Head(Sources(bytes)).bytes
                   burn   == Last(source).transaction
               IN /\ tx.data # None /\ tx.justification.allocated
                  /\ source[1].transaction.token_type = tx.token_type
                  /\ Len(source) > 1 /\ burn.data # None /\ burn.data.len <= policy.max_input_bytes
                  /\ burn.recipient = BurnPredicate(burn.data)

Legitimate(bytes, registry, policy) ==
  /\ validate(trust_base)
  /\ Nesting(bytes) <= policy.max_embedded_token_depth
  /\ EmbeddedBytes(bytes) <= policy.max_total_embedded_token_bytes
  /\ \A t \in AllTokens(bytes) :
       /\ Len(t) <= 1 + policy.max_token_transfers
       /\ t[1].transaction.network_id = trust_base.network_id
       /\ \A i \in DOMAIN t :
            /\ t[i].transaction.well_formed /\ t[i].proof.well_formed /\ t[i].proof.uc.well_formed
            /\ Certified(t, i)
       /\ Vouched(t, registry, policy)

-----------------------------------------------------------------------------
(* A token is accepted exactly when it and every source embedded in it are *)
(* legitimate and together within the limits: whatever the order of the    *)
(* checks, the nesting, the certificates shared by interning or by the     *)
(* memos, and the siblings that were verified before.  And like those of   *)
(* WarmIsCold, its errors are those of a session that reuses nothing.      *)
TokenVerdictExact ==
  \A n \in DOMAIN TokenCalls :
    LET c == TokenCalls[n]
        verdict == TokenCalled(session, c).verdict
    IN /\ (verdict = "Ok") = Legitimate(c.bytes, c.registry, c.policy)
       /\ verdict = TokenCalled(NewSession(0), c).verdict

(* No double spend: of two tokens accepted, whether by themselves or as a  *)
(* source embedded in another, that have the same id, the history of one   *)
(* is the beginning of the history of the other.                           *)
SingleHistory ==
  LET tokens == UNION {AllTokens(TokenCalls[n].bytes) : n \in accepted}
      history(t) == [i \in DOMAIN t |-> t[i].transaction]
  IN \A t, u \in tokens :
       IdOf(t) = IdOf(u) => IsPrefix(history(t), history(u)) \/ IsPrefix(history(u), history(t))

(* Consolidation changes no transaction of a token and returns a           *)
(* legitimate one under one seal of the current epoch; and it succeeds     *)
(* whenever the token is legitimate and what was served proves its states  *)
(* under an acceptable certificate that is no older than its own.          *)
ConsolidationKeepsToken ==
  outcome # None =>
    LET c == ConsolidateCalls[outcome.call]
        target == c.batch[1].uc
        acceptable(seal) == quorum_met(trust_base, seal) /\ Passes(SealRules(trust_base, seal))
        suits(uc) == Authentic(uc) /\ uc.shard = RootShard /\ uc.one_sibling_per_bit
                       /\ Pinned(c.pin, uc.shard_conf_hash)
    IN /\ outcome.verdict = "Ok" =>
            /\ History(outcome.token) = [i \in DOMAIN c.bytes |-> c.bytes[i].transaction]
            /\ \E seal \in Seals : distinct_seals(outcome.token) = {seal} /\ acceptable(seal)
            /\ Legitimate(to_cbor(outcome.token), c.registry, c.policy)
       /\ (/\ Legitimate(c.bytes, c.registry, c.policy)
           /\ suits(target) /\ acceptable(target.unicity_seal)
           /\ DOMAIN c.batch = DOMAIN c.bytes
           /\ \A i \in DOMAIN c.bytes :
                LET p == c.bytes[i].proof IN
                /\ suits(p.uc.uc) /\ c.batch[i] = [p EXCEPT !.uc = target]
                /\ p.uc.uc.unicity_seal.root_chain_round_number
                     <= target.unicity_seal.root_chain_round_number
                /\ p.uc.uc.timestamp <= target.timestamp
                /\ Trees[p.uc.uc.state_root] \subseteq Trees[target.state_root])
            => outcome.verdict = "Ok"
=============================================================================
