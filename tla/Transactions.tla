---------------------------- MODULE Transactions ----------------------------
(***************************************************************************)
(* Predicates, transactions, inclusion proofs and tokens (predicate/,      *)
(* transaction/, api/), what decoding derives for them and what            *)
(* consolidation rebuilds of them.                                         *)
(*                                                                         *)
(* A hash is the record of what is hashed, a signature the record of its   *)
(* key and its message.  A wire form is the record of the fields that are  *)
(* on the wire; `well_formed` says that its tags, versions, lengths and    *)
(* ranges are right.  A token is the sequence of its certified             *)
(* transactions, the genesis first, on the wire and decoded.               *)
(***************************************************************************)
EXTENDS Results, SequencesExt

-----------------------------------------------------------------------------
(* Predicates and unlock scripts.                                          *)

EncodedPredicate(type, parameters) == [code |-> type, parameters |-> parameters]

SignaturePredicate(key) == EncodedPredicate("Signature", key)
BurnPredicate(reason)   == EncodedPredicate("Burn", reason)

(* The 65-byte signature: a low or a high s, and the recovery id that      *)
(* selects the signer's key or another one.                                *)
Signature(key, message) ==
  [key |-> key, message |-> message, low_s |-> TRUE, recovers |-> TRUE]

signature_unlock_message(source_state_hash, transaction_hash) ==
  [source_state |-> source_state_hash, transaction |-> transaction_hash]

sign_signature_unlock(key, source_state_hash, transaction_hash) ==
  Signature(key, signature_unlock_message(source_state_hash, transaction_hash))

(* Signature::recover_point: a high s is refused, and another recovery id  *)
(* or message does not select the signer's key.                            *)
recover_point(signature, message) ==
  IF signature.low_s /\ signature.recovers /\ signature.message = message
  THEN signature.key ELSE None

verify_signature_unlock(public_key, source_state_hash, transaction_hash, unlock_script) ==
  recover_point(unlock_script, signature_unlock_message(source_state_hash, transaction_hash))
    = public_key

(* SignaturePredicate::from_encoded, the key or None for an error.         *)
from_encoded(predicate) == IF predicate.code = "Signature" THEN predicate.parameters ELSE None

(* A spendable state is locked to a key.                                   *)
verify_predicate(lock_script, source_state_hash, transaction_hash, unlock_script) ==
  LET key == from_encoded(lock_script) IN
  key # None /\ verify_signature_unlock(key, source_state_hash, transaction_hash, unlock_script)

-----------------------------------------------------------------------------
(* Transactions.  `wire` is what is encoded, and so the transaction hash.  *)

TokenId(network_id, salt)      == [network |-> network_id, salt |-> salt]
MinterKey(token_id)            == [minter_of |-> token_id]
MintTransactionState(token_id) == [minted |-> token_id]
StateId(lock_script, source_state_hash) ==
  [lock |-> lock_script, source |-> source_state_hash]

MintTransaction(wire) ==
  LET id == TokenId(wire.network_id, wire.salt) IN
  [wire |-> wire, token_id |-> id, state_mask |-> id,
   lock_script |-> SignaturePredicate(MinterKey(id)),
   source_state_hash |-> MintTransactionState(id)]

calculate_state_hash(tx) == [source |-> tx.source_state_hash, mask |-> tx.state_mask]

calculate_transaction_hash(tx) == tx.wire

(* The source state and the lock script of a transfer come from its        *)
(* predecessor.                                                            *)
TransferTransaction(wire, previous) ==
  [wire |-> wire, token_id |-> previous.token_id, state_mask |-> wire.state_mask,
   lock_script |-> previous.wire.recipient,
   source_state_hash |-> calculate_state_hash(previous)]

state_id_of(tx) == StateId(tx.lock_script, tx.source_state_hash)

(* CertificationData::from_transaction                                     *)
CertificationData(tx, unlock_script) ==
  [lock_script |-> tx.lock_script, source_state_hash |-> tx.source_state_hash,
   transaction_hash |-> calculate_transaction_hash(tx), expires_at |-> tx.wire.expires_at,
   unlock_script |-> unlock_script]

(* The leaf that records a request, and the tree path to it: a tree is the *)
(* set of its leaves, and a path verifies when the leaf is there.          *)
Leaf(state_id, transaction_hash, reference_time) ==
  [key |-> state_id, value |-> [transaction |-> transaction_hash, time |-> reference_time]]

-----------------------------------------------------------------------------
(* Decoding.                                                               *)

NewInterner(capacity) == [capacity |-> capacity, index |-> <<>>, uc_decodes |-> 0, uc_hits |-> 0]

(* UcInterner::decode: the certificate, or None for an error.              *)
UcDecode(interner, bytes) ==
  LET found == {i \in DOMAIN interner.index : interner.index[i] = bytes}
      tried == [interner EXCEPT !.uc_decodes = @ + 1]
  IN IF found # {}
     THEN [uc |-> interner.index[CHOOSE i \in found : TRUE].uc,
           interner |-> [interner EXCEPT !.uc_hits = @ + 1]]
     ELSE IF bytes.well_formed
     THEN [uc |-> bytes.uc,
           interner |-> [tried EXCEPT !.index = Remember(interner.capacity, @, bytes)]]
     ELSE [uc |-> None, interner |-> tried]

(* InclusionProof::from_cbor_interned: the certificate is decoded last.    *)
ProofDecode(interner, proof) ==
  LET d == UcDecode(interner, proof.uc) IN
  IF proof.well_formed
  THEN [ok |-> d.uc # None, proof |-> [proof EXCEPT !.uc = d.uc], interner |-> d.interner]
  ELSE [ok |-> FALSE, proof |-> None, interner |-> interner]

(* Token::from_cbor_interned, one certified transaction; the first error   *)
(* ends it.                                                                *)
DecodeNext(d, certified) ==
  LET wire == certified.transaction
      tx == IF d.token = <<>> THEN MintTransaction(wire)
            ELSE TransferTransaction(wire, Last(d.token).transaction)
      p  == ProofDecode(d.interner, certified.proof)
  IN IF ~d.ok \/ ~wire.well_formed THEN [d EXCEPT !.ok = FALSE]
     ELSE [ok |-> p.ok, interner |-> p.interner,
           token |-> Append(d.token, [transaction |-> tx, proof |-> p.proof])]

from_cbor_interned(bytes, interner) ==
  FoldLeft(DecodeNext, [ok |-> TRUE, interner |-> interner, token |-> <<>>], bytes)

-----------------------------------------------------------------------------
(* Tokens.                                                                 *)

Genesis(token)   == Head(token).transaction
Transfers(token) == Tail(token)
History(token)   == [i \in DOMAIN token |-> token[i].transaction.wire]

(* Token::to_cbor                                                          *)
to_cbor(token) ==
  [i \in DOMAIN token |->
     [transaction |-> token[i].transaction.wire,
      proof |-> [token[i].proof EXCEPT !.uc = [well_formed |-> TRUE, uc |-> token[i].proof.uc]]]]

(* outer_proofs and distinct_seals                                         *)
outer_proofs(token) ==
  [i \in DOMAIN token |->
     [state_id |-> state_id_of(token[i].transaction), proof |-> token[i].proof]]

distinct_seals(token) == {token[i].proof.uc.unicity_seal : i \in DOMAIN token}

(* replacement_proof, None for an error: the original certification data   *)
(* and reference time under a new certificate.                             *)
replacement_proof(original, served, uc) ==
  IF \/ served.certification_data # original.certification_data
     \/ served.reference_time # original.reference_time
  THEN None ELSE [original EXCEPT !.uc = uc]

(* The proofs of the transfers are taken from the front.                   *)
rebuild_tokenMutant(token, proofs) ==
  [i \in DOMAIN token |-> [token[i] EXCEPT !.proof = proofs[IF i = 1 THEN 1 ELSE i - 1]]]

rebuild_token(token, proofs) ==
  [i \in DOMAIN token |-> [token[i] EXCEPT !.proof = proofs[i]]]
=============================================================================
