---------------------------- MODULE MCSealSession ----------------------------
(***************************************************************************)
(* Seals and certificates that differ in one respect each, so that every   *)
(* rule is the first to fail for some call, calls that share them under    *)
(* different policies, and tokens that differ from a good one in one       *)
(* respect each.                                                           *)
(***************************************************************************)
EXTENDS SealSession

CONSTANTS k1, k2, k3, a, b, alice, bob, carol, m1, m2, m3

Node(id, key, stake) == [node_id |-> id, signing_key |-> key, stake |-> stake]

Good ==
  [version |-> 1, network_id |-> 7, epoch |-> 2, epoch_start_round |-> 10,
   quorum_threshold |-> 2,
   root_nodes |-> <<Node("n1", k1, 1), Node("n2", k2, 1), Node("n3", k3, 1)>>]
Staked   == [Good EXCEPT !.root_nodes[3].stake = 5]
Open     == [Good EXCEPT !.quorum_threshold = 0]
OneKey   == [Good EXCEPT !.root_nodes[2].signing_key = k1]
Authorities == {Good, Staked, Open, OneKey}

Sealed == [well_shaped |-> TRUE, network_id |-> 7, epoch |-> 2,
           root_chain_round_number |-> 12, signers |-> {k1, k2}]
Weak     == [Sealed EXCEPT !.signers = {k1}]
OldEpoch == [Sealed EXCEPT !.epoch = 1, !.root_chain_round_number = 8]
Early    == [Sealed EXCEPT !.root_chain_round_number = 9]
Foreign  == [Sealed EXCEPT !.network_id = 8]
Shapeless == [Sealed EXCEPT !.well_shaped = FALSE]
Later    == [Sealed EXCEPT !.root_chain_round_number = 13]
AllSeals == {Sealed, Weak, OldEpoch, Early, Foreign, Shapeless, Later}

-----------------------------------------------------------------------------
(* Tokens.                                                                 *)

Datum(name, len) == [value |-> name, len |-> len]

Mint(salt) ==
  [well_formed |-> TRUE, network_id |-> 7, salt |-> salt, recipient |-> SignaturePredicate(alice),
   token_type |-> "coin", justification |-> None, data |-> None, expires_at |-> None]
To(key, mask) ==
  [well_formed |-> TRUE, recipient |-> SignaturePredicate(key), state_mask |-> mask,
   data |-> None, expires_at |-> 4]
Burn(mask) ==
  LET manifest == Datum("manifest", 1) IN
  [To(alice, mask) EXCEPT !.recipient = BurnPredicate(manifest), !.data = manifest]

(* The transactions of a list of wire forms.                               *)
Chain(wires) ==
  FoldLeft(LAMBDA txs, w : Append(txs, IF txs = <<>> THEN MintTransaction(w)
                                       ELSE TransferTransaction(w, Last(txs))), <<>>, wires)

SignedBy(tx, key) ==
  CertificationData(tx, sign_signature_unlock(key, tx.source_state_hash,
                                              calculate_transaction_hash(tx)))

Proof(tx, uc) ==
  [well_formed |-> TRUE, certification_data |-> SignedBy(tx, tx.lock_script.parameters),
   reference_time |-> 3, uc |-> [well_formed |-> TRUE, uc |-> uc]]

(* A token with its proofs under the certificates given.                   *)
Minted(wires, ucs) ==
  LET txs == Chain(wires) IN
  [i \in DOMAIN wires |-> [transaction |-> wires[i], proof |-> Proof(txs[i], ucs[i])]]

Plain  == <<Mint("s1")>>
Moved  == <<Mint("s1"), To(bob, m1)>>
Twice  == Moved \o <<To(carol, m2)>>
Forked == <<Mint("s1"), To(carol, m1)>>
Other  == <<Mint("s2"), To(bob, m1)>>
Burned == <<Mint("s3"), Burn(m3)>>
Kept   == <<Mint("s3"), To(bob, m3)>>

(* Every state of these tokens, and two more.  The salts of the tokens     *)
(* that embed others come after s3.                                        *)
AllStates ==
  LET chains == {Twice, Forked, Other, Burned, Kept}
                  \cup {<<Mint(s)>> : s \in {"s4", "s5", "s6", "s7", "s8", "s9", "s10", "s11"}}
  IN {a, b} \cup UNION {{state_id_of(Chain(c)[i]) : i \in DOMAIN c} : c \in chains}

Leaves(wires) ==
  LET txs == Chain(wires) IN
  {Leaf(state_id_of(txs[i]), calculate_transaction_hash(txs[i]), 3) : i \in DOMAIN txs}

Tree(root, time, seal) ==
  [aggregation_partition |-> TRUE, body_valid |-> TRUE, folds_to_seal_hash |-> TRUE,
   one_sibling_per_bit |-> TRUE, shard |-> RootShard, shard_conf_hash |-> "c1",
   state_root |-> root, timestamp |-> time, unicity_seal |-> seal]
U1 == Tree("r1", 5, Sealed)
U2 == Tree("r2", 6, Later)
U0 == Tree("r0", 4, OldEpoch)
UW == Tree("rw", 5, Weak)
W1 == [U1 EXCEPT !.unicity_seal.signers = {k1}]

Embed(token, len) == [bytes |-> token, encoded_len |-> len]
Justified(salt, tag, sources) ==
  [Mint(salt) EXCEPT !.data = Datum("assets", 1),
                     !.justification = [tag |-> tag, sources |-> sources, allocated |-> TRUE]]

SplitOut  == <<Justified("s4", "split", <<Embed(Minted(Burned, <<U1, U1>>), 2)>>)>>
SplitKept == <<Justified("s5", "split", <<Embed(Minted(Moved, <<U1, U1>>), 2)>>)>>
Pair      == <<Justified("s6", "wrap", <<Embed(Minted(Moved, <<U1, U1>>), 2),
                                         Embed(Minted(Other, <<U1, U1>>), 2)>>)>>
Deep      == <<Justified("s7", "wrap", <<Embed(Minted(SplitOut, <<U2>>), 3),
                                         Embed(Minted(Plain, <<U1>>), 1)>>)>>
Unsealed  == <<Justified("s8", "wrap", <<Embed(Minted(Moved, <<U1, W1>>), 2)>>)>>
Misfit    == <<[SplitOut[1] EXCEPT !.salt = "s11", !.justification.allocated = FALSE]>>
Noted     == <<[Mint("s9") EXCEPT !.data = Datum("note", 1)]>>
LongNote  == <<[Mint("s10") EXCEPT !.data = Datum("note", 9), !.token_type = "memo"]>>

(* The trees of the aggregator, r0, r1 and r2 in the order of their        *)
(* rounds: a state is in them once.  rw is the tree of one dishonest node. *)
AllTrees ==
  LET early == Leaves(Twice) \cup Leaves(Other) \cup Leaves(Burned)
  IN "r0" :> Leaves(Plain) @@ "r1" :> early
     @@ "r2" :> early \cup UNION {Leaves(t) : t \in {SplitOut, SplitKept, Pair, Deep, Unsealed,
                                                     Misfit, Noted, LongNote}}
     @@ "rw" :> Leaves(Forked) \cup Leaves(Kept)


Verifier(tag) == [tag |-> tag]
Strict1 == [token_type |-> "coin", accepts |-> {Datum("assets", 1)}]
Registered ==
  register_token_data(
    register_token_data(register(register(NewRegistry, Verifier("split")), Verifier("wrap")),
                        Strict1),
    [Strict1 EXCEPT !.accepts = {Datum("assets", 1), Datum("note", 1)}])

Policy == [max_embedded_token_depth |-> 1, max_total_embedded_token_bytes |-> 4,
           max_token_transfers |-> 2, max_input_bytes |-> 8,
           require_token_data_verifier |-> TRUE]
Wide   == [Policy EXCEPT !.max_embedded_token_depth = 2,
                         !.max_total_embedded_token_bytes = 6]

Ask(token) == [bytes |-> token, registry |-> Registered, policy |-> Policy]
Signed(token, i, key) ==
  [token EXCEPT ![i].proof.certification_data =
     SignedBy(Chain([j \in DOMAIN token |-> token[j].transaction])[i], key)]

GoodMoved == Minted(Moved, <<U1, U2>>)

AllTokenCalls ==
  [plain    |-> Ask(Minted(Plain, <<U0>>)),
   moved    |-> Ask(GoodMoved),
   twice    |-> Ask(Minted(Twice, <<U1, U2, U1>>)),
   long     |-> [Ask(Minted(Twice, <<U1, U2, U1>>)) EXCEPT !.policy.max_token_transfers = 1],
   stolen   |-> Ask(Signed(GoodMoved, 2, carol)),
   high_s   |-> Ask([GoodMoved EXCEPT ![2].proof.certification_data.unlock_script.low_s = FALSE]),
   recovery |-> Ask([GoodMoved EXCEPT ![2].proof.certification_data.unlock_script.recovers = FALSE]),
   minter   |-> Ask(Signed(GoodMoved, 1, alice)),
   forked   |-> Ask(Minted(Forked, <<U1, UW>>)),
   renamed  |-> Ask([GoodMoved EXCEPT ![2].transaction = To(carol, m1)]),
   spliced  |-> Ask([GoodMoved EXCEPT ![2] = Minted(Other, <<U1, U1>>)[2]]),
   expired  |-> Ask([GoodMoved EXCEPT ![2].proof.reference_time = 4]),
   foreign  |-> Ask(Minted(<<[Mint("s1") EXCEPT !.network_id = 8]>>, <<U1>>)),
   interned |-> Ask(Minted(Moved, <<U1, W1>>)),
   garbled  |-> Ask([GoodMoved EXCEPT ![2].proof.uc.well_formed = FALSE]),
   split    |-> Ask(Minted(SplitOut, <<U2>>)),
   unknown  |-> [Ask(Minted(SplitOut, <<U2>>)) EXCEPT !.registry = NewRegistry,
                                                      !.policy.require_token_data_verifier = FALSE],
   unburned |-> Ask(Minted(SplitKept, <<U2>>)),
   kept     |-> Ask(Minted(Kept, <<U1, UW>>)),
   pair     |-> Ask(Minted(Pair, <<U2>>)),
   tight    |-> [Ask(Minted(Pair, <<U2>>)) EXCEPT !.policy.max_total_embedded_token_bytes = 3],
   deep     |-> [Ask(Minted(Deep, <<U2>>)) EXCEPT !.policy = Wide],
   deeper   |-> Ask(Minted(Deep, <<U2>>)),
   nested   |-> Ask(Minted(Unsealed, <<U2>>)),
   misfit   |-> Ask(Minted(Misfit, <<U2>>)),
   noted    |-> Ask(Minted(Noted, <<U2>>)),
   memo     |-> Ask(Minted(LongNote, <<U2>>))]

Serve(token, uc) == [i \in DOMAIN token |-> [token[i].proof EXCEPT !.uc = uc]]
Move(token, uc)  ==
  [bytes |-> token, registry |-> Registered, policy |-> Wide, batch |-> Serve(token, uc),
   pin |-> "c1"]

AllConsolidateCalls ==
  [moved   |-> Move(GoodMoved, U2),
   older   |-> Move(GoodMoved, U1),
   shared  |-> Move(Minted(Moved, <<U2, U2>>), U1),
   epoch   |-> Move(Minted(Plain, <<U0>>), U1),
   into0   |-> Move(Minted(Plain, <<U0>>), U0),
   three   |-> Move(Minted(Twice, <<U1, U2, U1>>), U2),
   wrapped |-> Move(Minted(Deep, <<U2>>), U2),
   other   |-> [Move(GoodMoved, U2) EXCEPT !.batch[2].reference_time = 2],
   short   |-> [Move(GoodMoved, U2) EXCEPT !.batch = SubSeq(@, 1, 1)],
   mixed   |-> [Move(GoodMoved, U2) EXCEPT !.batch[2].uc = U1],
   pinned  |-> [Move(GoodMoved, U2) EXCEPT !.pin = "c2"],
   weak    |-> Move(Minted(Plain, <<U0>>), W1),
   unfold  |-> Move(Minted(Plain, <<U0>>), [U2 EXCEPT !.folds_to_seal_hash = FALSE]),
   missing |-> Move(GoodMoved, [U2 EXCEPT !.state_root = "r0"]),
   stolen  |-> Move(Signed(GoodMoved, 2, carol), U2)]

-----------------------------------------------------------------------------
(* Proofs.                                                                 *)

Cert == [Tree("root", 5, Sealed) EXCEPT !.shard = {a, b}]
AllCerts ==
  {[Cert EXCEPT !.unicity_seal = s] : s \in AllSeals}
    \cup {[Cert EXCEPT !.aggregation_partition = FALSE], [Cert EXCEPT !.body_valid = FALSE],
          [Cert EXCEPT !.folds_to_seal_hash = FALSE], [Cert EXCEPT !.shard_conf_hash = "c2"],
          [Cert EXCEPT !.one_sibling_per_bit = FALSE, !.folds_to_seal_hash = FALSE],
          [Cert EXCEPT !.shard = {b}], [Cert EXCEPT !.state_root = None]}

Claim == [uc |-> Cert, policy |-> NoPolicy, certified_state_id |-> a, state_id |-> a,
          expires_at |-> 4, reference_time |-> 3, proof_reference_time |-> 3,
          path_valid |-> TRUE, witness |-> "unchecked"]
AllMemberships ==
  {[Claim EXCEPT !.uc = uc] : uc \in AllCerts}
    \cup {[Claim EXCEPT !.uc.unicity_seal = s, !.policy = ViewPolicy] : s \in {Sealed, OldEpoch, Weak}}
    \cup {[Claim EXCEPT !.state_id = b], [Claim EXCEPT !.expires_at = 3],
          [Claim EXCEPT !.proof_reference_time = 2], [Claim EXCEPT !.path_valid = FALSE],
          [Claim EXCEPT !.expires_at = None, !.reference_time = 6, !.proof_reference_time = 6],
          [Claim EXCEPT !.witness = "bad"], [Claim EXCEPT !.witness = "good"]}

Free   == [shard |-> {a, b}, shard_conf_hash |-> None, authority_end_round |-> None]
Strict == [shard |-> {a, b}, shard_conf_hash |-> "c1", authority_end_round |-> 12]
Absent == [uc |-> Cert, policy |-> Free, requested |-> None, target |-> a,
           terminal |-> None, path_valid |-> TRUE]
AllAbsences ==
  {[Absent EXCEPT !.uc = uc] : uc \in AllCerts}
    \cup {[Absent EXCEPT !.policy = p, !.uc = uc] :
            p \in {Strict, [Strict EXCEPT !.authority_end_round = 13]},
            uc \in {Cert, [Cert EXCEPT !.shard_conf_hash = "c2"], [Cert EXCEPT !.shard = {b}]}}
    \cup {[Absent EXCEPT !.requested = b], [Absent EXCEPT !.path_valid = FALSE],
          [Absent EXCEPT !.terminal = b]}
=============================================================================
