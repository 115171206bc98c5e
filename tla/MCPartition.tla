----------------------------- MODULE MCPartition -----------------------------
(***************************************************************************)
(* Bytes of three bits, keys of one byte, partitions of one to four        *)
(* shards.  Schemes are all short sequences of identifiers, so that most   *)
(* of them do not tile; what is served in a world differs from the truth   *)
(* in one respect each, or is another world's.                             *)
(***************************************************************************)
EXTENDS Partition

CONSTANTS k1, k2, k3

Paths(n) == [1..n -> {0, 1}]
Id(n)    == {IdOf(p) : p \in Paths(n)}
S0  == IdOf(<<0>>)     S1  == IdOf(<<1>>)
S10 == IdOf(<<1, 0>>)  S11 == IdOf(<<1, 1>>)
S00 == IdOf(<<0, 0>>)  S01 == IdOf(<<0, 1>>)
S100 == IdOf(<<1, 0, 0>>)  S101 == IdOf(<<1, 0, 1>>)

AllEncodings == {<<>>} \cup Paths(3) \cup Paths(6)

-----------------------------------------------------------------------------
(* Schemes and bundles.                                                    *)

Ids == Id(0) \cup Id(1) \cup Id(2) \cup {S100, S101}
Four == {<<S11, S0, S101, S100>>, <<S10, S01, S00, S11>>, <<S0, S100, S101, S101>>,
         <<S00, S01, S10, S100>>, <<S0, S10, S11, S1>>}
Unservable == [scheme : UNION {[1..n -> Ids] : n \in 0..3} \cup Four
                          \cup {<<S00, S01, S100, S101, S11>>, <<S0, S1, S100, IdOf(<<1, 0, 1, 0>>)>>,
                                <<S0, S11, S100, IdOf(<<1, 0, 1, 0>>), IdOf(<<1, 0, 1, 1>>)>>},
               endpoints : {<<>>}]
AllConfigurations ==
  Unservable
    \cup [scheme : {<<>>}, endpoints : {<<root>>, <<S0>>}]
    \cup [scheme : {<<S1, S0>>}, endpoints : {<<S1>>, <<S1, S0>>, <<S0, S0>>}]
    \cup [scheme : {<<S11, S0, S101, S100>>}, endpoints : {<<S0, S100, S11>>, <<S101, S11, S0, S100>>}]

Item(k, c, r) == [state_id |-> k, certified |-> c, round |-> r]
Items == {Item(<<0, 0, 1>>, 1, 5), Item(<<0, 0, 1>>, 1, 6), Item(<<0, 0, 1>>, 2, 5),
          Item(<<0, 1, 1>>, 1, 5), Item(<<0, 1, 0>>, 1, 7),
          Item(<<1, 0, 0>>, 1, 7), Item(<<1, 0, 1>>, 1, 6), Item(<<1, 1, 0>>, 1, 4)}
AllBundles == UNION {[1..n -> Items] : n \in 0..3}

-----------------------------------------------------------------------------
(* Worlds.                                                                 *)

Authority ==
  [version |-> 1, network_id |-> 7, epoch |-> 2, epoch_start_round |-> 10, quorum_threshold |-> 2,
   root_nodes |-> <<[node_id |-> "n1", signing_key |-> k1, stake |-> 1],
                    [node_id |-> "n2", signing_key |-> k2, stake |-> 1],
                    [node_id |-> "n3", signing_key |-> k3, stake |-> 1]>>]

Token(n) == <<"bytes", n>>

Changed(hash)   == [round_number |-> 5, previous_hash |-> Token(0), hash |-> hash,
                    summary_value |-> Empty, timestamp |-> 9, block_hash |-> Token(1)]
Unchanged(hash) == [Changed(hash) EXCEPT !.previous_hash = hash, !.block_hash = None]
Initial         == [round_number |-> 0, previous_hash |-> None, hash |-> None,
                    summary_value |-> None, timestamp |-> 0, block_hash |-> None]

Leaf(id, ir) == [shard_id |-> id, input_record |-> ir, tr_hash |-> Token(2),
                 shard_conf_hash |-> <<"conf", encode(id)>>]

Utc == [partition_identifier |-> AggregationPartition,
        steps |-> <<[key |-> 1, hash |-> Token(3)], [key |-> 9, hash |-> Token(4)]>>]

SealOf(leaves) ==
  [hash |-> compute_root_hash(Utc, Subtree(leaves, root)), well_shaped |-> TRUE, network_id |-> 7,
   epoch |-> 2, root_chain_round_number |-> 12, signers |-> {k1, k3}]

World(leaves, states) ==
  [leaves |-> leaves, states |-> states, unicity_tree_certificate |-> Utc, seal |-> SealOf(leaves)]

Holding(id, states) == Leaf(id, Changed(TreeOf(states)))
At(keys) == [k \in keys |-> "v"]

Low  == At({<<0, 0, 0>>, <<0, 1, 0>>, <<0, 1, 1>>})
High == At({<<1, 0, 0>>, <<1, 1, 0>>})

Unsharded == World(<<Holding(root, At({<<0, 0, 1>>, <<1, 0, 0>>, <<1, 0, 1>>}))>>,
                   <<At({<<0, 0, 1>>, <<1, 0, 0>>, <<1, 0, 1>>})>>)
Halves    == World(<<Holding(S0, Low), Holding(S1, High)>>, <<Low, High>>)
Fresh     == World(<<Leaf(S0, Initial), Leaf(S1, Unchanged(TreeOf(High)))>>, <<At({}), High>>)

(* A tree with a state of another shard and one with its sides exchanged.  *)
Broken    == World(<<Holding(S0, At({<<0, 0, 0>>, <<1, 0, 0>>})),
                     Leaf(S1, Changed(node_hash(1, prefix_region(<<1, 0, 0>>, 1),
                                                leaf_hash(<<1, 1, 0>>, "v"),
                                                leaf_hash(<<1, 0, 0>>, "v"))))>>,
                   <<None, None>>)
Deep      == World(<<Holding(S0, Low), Leaf(S100, Changed(Empty)), Leaf(S101, Initial),
                     Holding(S11, At({<<1, 1, 0>>}))>>, <<Low, None, At({}), At({<<1, 1, 0>>})>>)

ViewWorlds  == {Unsharded, Fresh, Deep}
ProofWorlds == {Halves, Broken}
AllWorlds   == ViewWorlds \cup ProofWorlds

-----------------------------------------------------------------------------
(* What is served in a world.                                              *)

Own(w)   == CommittedCertificates(w)
Other(w) == IF w = Halves THEN Fresh ELSE Halves

(* One change of a leaf each.                                              *)
AlteredLeaves(l) ==
  {[l EXCEPT !.shard_conf_hash = Token(5)], [l EXCEPT !.shard_conf_hash = Short],
   [l EXCEPT !.tr_hash = Empty], [l EXCEPT !.shard_id = split(@)[1]],
   [l EXCEPT !.input_record = Initial], [l EXCEPT !.input_record.summary_value = Long],
   [l EXCEPT !.input_record.summary_value = None], [l EXCEPT !.input_record.timestamp = 0],
   [l EXCEPT !.input_record.previous_hash = l.input_record.hash],
   [l EXCEPT !.input_record.block_hash = Empty], [l EXCEPT !.input_record.hash = Short],
   [l EXCEPT !.input_record.previous_hash = Token(6)]}

Viewed(leaves) == to_cbor([partition_id |-> AggregationPartition, leaves |-> leaves])

AllWires(w) ==
  LET true == CommittedWire(w)
      n == Len(w.leaves)
  IN IF w \in ProofWorlds THEN {true} ELSE
     {true, CommittedWire(Other(w)), Viewed(Tail(w.leaves)), Viewed(Reverse(w.leaves)),
      Viewed(w.leaves \o w.leaves), [true EXCEPT !.well_formed = FALSE],
      [true EXCEPT !.canonical = FALSE], [true EXCEPT !.version = 2],
      [true EXCEPT !.partition_id = 0], [true EXCEPT !.partition_id = 5],
      [true EXCEPT !.leaves[1].shard_id = <<0, 0, 0>>],
      Viewed(Front(w.leaves) \o <<[w.leaves[n] EXCEPT !.shard_id = split(@)[1]],
                                  [w.leaves[n] EXCEPT !.shard_id = split(@)[2]]>>)}
       \cup {Viewed([w.leaves EXCEPT ![n] = l]) : l \in AlteredLeaves(w.leaves[n])}

AlteredCertificates(uc) ==
  {[uc EXCEPT !.unicity_seal.signers = {k1}], [uc EXCEPT !.unicity_seal.epoch = 3],
   [uc EXCEPT !.unicity_seal.well_shaped = FALSE], [uc EXCEPT !.technical_record_hash = None],
   [uc EXCEPT !.unicity_tree_certificate.steps = Tail(@)],
   [uc EXCEPT !.unicity_tree_certificate.partition_identifier = 5],
   [uc EXCEPT !.shard_configuration_hash = Token(5)], [uc EXCEPT !.input_record.timestamp = 8],
   [uc EXCEPT !.shard_tree_certificate.shard = split(@)[1]],
   [uc EXCEPT !.shard_tree_certificate.sibling_hash_list = Append(@, Token(7))],
   [uc EXCEPT !.shard_tree_certificate.shard = IF @.length = 0 THEN S0 ELSE sibling(@)]}

(* Another view under a seal that nobody signed.                           *)
Unsigned(w) == {[uc EXCEPT !.unicity_seal.signers = {}] : uc \in Own(Other(w))}

AllEnclosings(w) ==
  IF w \in ProofWorlds THEN {CommittedCertificate(w, w.leaves[1])}
  ELSE Own(w) \cup UNION {AlteredCertificates(uc) : uc \in Own(w)} \cup Unsigned(w)

(* Certificates that name another shard or another tree than they had.     *)
AllForged(w) ==
  IF w \in ViewWorlds THEN {}
  ELSE Unsigned(w)
         \cup {[uc EXCEPT !.shard_tree_certificate.shard = sibling(@)] : uc \in Own(w)}
         \cup {[uc EXCEPT !.shard_tree_certificate.shard = root,
                         !.shard_tree_certificate.sibling_hash_list = <<>>] : uc \in Own(w)}

AllPins(w) ==
  LET ids == IF Len(w.leaves) = 1 THEN <<>> ELSE [i \in DOMAIN w.leaves |-> w.leaves[i].shard_id]
      hashes == {[shard |-> encode(w.leaves[i].shard_id), hash |-> w.leaves[i].shard_conf_hash] :
                   i \in DOMAIN w.leaves}
      pins(scheme, conf) == [scheme |-> scheme, conf_hashes |-> conf]
  IN IF w \in ProofWorlds THEN {None} ELSE
     {None, pins(Reverse(ids), {}), pins(ids, hashes), pins(<<S0, S10, S11>>, {}),
      pins(<<S0, S0>>, hashes),
      pins(ids, {[shard |-> encode(w.leaves[1].shard_id), hash |-> Token(5)]})}

(* The paths served for some key, shown for any of these.                  *)
Asked == {<<0, 0, 0>>, <<0, 0, 1>>, <<0, 1, 1>>, <<1, 0, 0>>, <<1, 1, 0>>}
AllProofs(w) ==
  LET trees == {w.leaves[i].input_record.hash : i \in DOMAIN w.leaves}
      paths == {Served(t, k) : t \in {t \in trees : IsHash(t)}, k \in Keys}
      moved == {[c EXCEPT !.terminal_key = k] : c \in paths, k \in {<<0, 0, 0>>, <<0, 1, 1>>, <<1, 0, 0>>}}
  IN IF w = Deep THEN {}
     ELSE IF w \in ViewWorlds
     THEN [cert : paths \cup {None}, key : {<<0, 0, 1>>, <<1, 0, 0>>}, value : {"v"}]
     ELSE [cert : paths \cup moved \cup {None}, key : Asked, value : {"v"}]
            \cup [cert : paths \cup {[c EXCEPT !.siblings = Reverse(@)] : c \in paths},
                  key : Asked, value : {"w"}]
=============================================================================
