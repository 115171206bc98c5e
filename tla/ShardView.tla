------------------------------ MODULE ShardView ------------------------------
(***************************************************************************)
(* The view of a partition under one seal: consolidation/partition_view.rs,*)
(* shard_tree.rs and assemble.rs, with the certificates derived from it    *)
(* (api/bft: input_record.rs, unicity_certificate.rs, unicity_tree.rs).    *)
(*                                                                         *)
(* A hash is the tuple of its preimage.  An optional byte field is None,   *)
(* or one of the byte strings Empty, Short and Long, which are no hashes,  *)
(* or a hash.  An input record is what its CBOR holds, null and empty told *)
(* apart; PartitionViewInputRecord and InputRecord have the same fields.   *)
(***************************************************************************)
EXTENDS ShardRouting, SealVerify

CONSTANTS
  AggregationPartition,  \* AGGREGATION_PARTITION_ID
  Empty,                 \* the byte string of no bytes
  Short,                 \* one that is neither empty nor 32 bytes
  Long                   \* one of more than MAX_PARTITION_VIEW_SUMMARY_VALUE_BYTES

IsHash(bytes)  == bytes \notin {None, Empty, Short, Long}
Content(bytes) == IF bytes = None THEN Empty ELSE bytes

shard_leaf_hash(ir, tr_hash, conf_hash) == <<"shard leaf", ir, tr_hash, conf_hash>>
shard_node_hash(left, right)            == <<"shard node", left, right>>

-----------------------------------------------------------------------------
(* Input records and unicity certificates.                                 *)

(* Outside round 0 a summary and a time are present, and there is a block  *)
(* exactly when the state changed.                                         *)
RecordRules(ir) ==
  LET same_state == Content(ir.previous_hash) = Content(ir.hash) IN
  << Rule(ir.round_number # 0 => ir.summary_value # None, "no summary value"),
     Rule(ir.round_number # 0 => ir.timestamp # 0, "no timestamp"),
     Rule(same_state => Content(ir.block_hash) = Empty, "block without a change"),
     Rule(~same_state => Content(ir.block_hash) # Empty, "change without a block") >>

check_body(uc) ==
  Passes(RecordRules(uc.input_record)
           \o <<Rule(IsHash(uc.technical_record_hash), "technical record hash")>>)

(* The certified root of the state tree; None is the empty tree.           *)
root_hash(ir) ==
  IF ir.hash = None \/ IsHash(ir.hash) THEN Ok(ir.hash) ELSE Err("state hash")

one_sibling_per_bit(uc) ==
  Len(uc.shard_tree_certificate.sibling_hash_list) = uc.shard_tree_certificate.shard.length

(* The siblings are folded from the last bit of the shard to the first.    *)
ShardStep(shard, list, hash, i) ==
  IF get_bit(shard, shard.length - i) = 1 THEN shard_node_hash(list[i], hash)
                                          ELSE shard_node_hash(hash, list[i])

ShardPath(uc) ==
  LET path == uc.shard_tree_certificate
      at[i \in 0..path.shard.length] ==
        IF i = 0 THEN shard_leaf_hash(uc.input_record, uc.technical_record_hash,
                                      uc.shard_configuration_hash)
        ELSE ShardStep(path.shard, path.sibling_hash_list, at[i - 1], i)
  IN at

shard_tree_root_hash(uc) ==
  IF ~one_sibling_per_bit(uc) THEN Err("sibling count")
  ELSE Ok(ShardPath(uc)[uc.shard_tree_certificate.shard.length])

(* UnicityTreeCertificate: the partition's leaf, then one node for a step. *)
TreeStep(key, step, hash) ==
  IF key > step.key THEN <<"tree node", step.key, step.hash, hash>>
                    ELSE <<"tree node", step.key, hash, step.hash>>

TreePath(utc, shard_tree_root) ==
  LET at[i \in 0..Len(utc.steps)] ==
        IF i = 0 THEN <<"tree leaf", utc.partition_identifier, shard_tree_root>>
        ELSE TreeStep(utc.partition_identifier, utc.steps[i], at[i - 1])
  IN at

compute_root_hash(utc, shard_tree_root) == TreePath(utc, shard_tree_root)[Len(utc.steps)]

computed_seal_hash(uc) ==
  LET r == shard_tree_root_hash(uc)
  IN IF r.ok THEN Ok(compute_root_hash(uc.unicity_tree_certificate, r.value)) ELSE r

-----------------------------------------------------------------------------
(* The view and its strict codec.  On the wire a leaf has the encoding of  *)
(* its shard id; `well_formed` stands for the CBOR of the right shape and  *)
(* size, `canonical` for the one the encoder writes.                       *)

LeafRules(leaf) ==
  LET ir == leaf.input_record IN
  << Rule(leaf.shard_id.length <= MaxIdBits, "shard id is too long") >>
    \o RecordRules(ir)
    \o << Rule(ir.summary_value # Long, "summary value is too long"),
          Rule(\A h \in {ir.hash, ir.previous_hash, ir.block_hash} :
                 Content(h) = Empty \/ IsHash(h), "hash of an input record"),
          Rule(IsHash(leaf.tr_hash), "TRHash"),
          Rule(IsHash(leaf.shard_conf_hash), "ShardConfHash") >>

check_bounds(view) ==
  /\ view.partition_id # 0
  /\ Len(view.leaves) \in 1..MaxShards
  /\ \A i \in DOMAIN view.leaves : Passes(LeafRules(view.leaves[i]))

to_cbor(view) ==
  [well_formed |-> TRUE, canonical |-> TRUE, version |-> 1, partition_id |-> view.partition_id,
   leaves |-> [i \in DOMAIN view.leaves |->
                 [view.leaves[i] EXCEPT !.shard_id = encode(@)]]]

from_cbor(wire) ==
  LET view == [partition_id |-> wire.partition_id,
               leaves |-> [i \in DOMAIN wire.leaves |->
                             [wire.leaves[i] EXCEPT !.shard_id = decode(@)]]]
  IN IF ~wire.well_formed THEN Err("CBOR")
     ELSE IF wire.version # 1 THEN Err("unsupported version")
     ELSE IF \E i \in DOMAIN view.leaves : view.leaves[i].shard_id = None THEN Err("shard id")
     ELSE IF ~check_bounds(view) THEN Err("bounds")
     ELSE IF to_cbor(view) # wire THEN Err("not canonical") ELSE Ok(view)

-----------------------------------------------------------------------------
(* ShardTree: an arena of nodes, filled by one pass over the leaves with a *)
(* stack of finished subtrees.  A parent of 0 is NONE.                     *)

AreSiblings(left, right) ==
  sibling(right) = left /\ get_bit(left, left.length - 1) = 0

(* The two subtrees on top are merged if they have one parent.             *)
Merge(t) ==
  LET n      == Len(t.stack)
      left   == t.stack[n - 1]
      right  == t.stack[n]
      parent == Len(t.nodes) + 1
      hash   == shard_node_hash(t.nodes[left.node].hash, t.nodes[right.node].hash)
      linked == [t.nodes EXCEPT ![left.node].parent = parent, ![right.node].parent = parent]
  IN IF n < 2 \/ ~AreSiblings(left.id, right.id) THEN t
     ELSE [t EXCEPT
             !.nodes = Append(linked, [hash |-> hash, parent |-> 0,
                                       children |-> <<left.node, right.node>>]),
             !.stack = Append(SubSeq(@, 1, n - 2),
                              [id |-> prefix(left.id, left.id.length - 1), node |-> parent])]

(* Merging goes on while there is something to merge.                      *)
Collapse(t) ==
  LET merged[i \in 0..Len(t.stack)] == IF i = 0 THEN t ELSE Merge(merged[i - 1])
  IN merged[Len(t.stack)]

PushLeaf(t, leaf) ==
  LET entry == [id |-> leaf.shard_id, node |-> Len(t.nodes) + 1] IN
  IF ~t.ok \/ (t.leaves # <<>> /\ canonical_cmp(Last(t.leaves).id, leaf.shard_id) >= 0)
  THEN [t EXCEPT !.ok = FALSE]
  ELSE Collapse([t EXCEPT !.nodes = Append(@, [hash |-> leaf.hash, parent |-> 0, children |-> <<>>]),
                          !.leaves = Append(@, entry), !.stack = Append(@, entry)])

build(leaves) ==
  LET Finished(t) ==
        IF t.ok /\ Len(t.stack) = 1 /\ t.stack[1].id.length = 0
        THEN Ok([nodes |-> t.nodes, leaves |-> t.leaves, root |-> t.stack[1].node])
        ELSE Err("shards do not make a tree")
      pushed[i \in 0..Len(leaves)] ==
        IF i = 0 THEN [ok |-> TRUE, nodes |-> <<>>, leaves |-> <<>>, stack |-> <<>>]
        ELSE PushLeaf(pushed[i - 1], leaves[i])
  IN Finished(pushed[Len(leaves)])

tree_root(tree) == tree.nodes[tree.root].hash

(* The siblings met on the way from a node to the root.                    *)
Climb(nodes, start) ==
  LET climbed[node \in DOMAIN nodes] ==
        IF nodes[node].parent = 0 THEN <<>>
        ELSE LET c == nodes[nodes[node].parent].children
             IN <<nodes[IF c[1] = node THEN c[2] ELSE c[1]].hash>> \o climbed[nodes[node].parent]
  IN climbed[start]

certificate(tree, shard) ==
  LET at == BinarySearch([i \in DOMAIN tree.leaves |-> canonical_cmp(tree.leaves[i].id, shard)])
  IN IF at = 0 THEN Err("shard is not in the tree")
     ELSE Ok([shard |-> shard, sibling_hash_list |-> Climb(tree.nodes, tree.leaves[at].node)])

-----------------------------------------------------------------------------
(* Authentication of a view.                                               *)

(* A pinned configuration hash is not compared.                            *)
LeafMatchesMutant(topology, leaf, id) == leaf.shard_id = id

LeafMatches(topology, leaf, id) ==
  leaf.shard_id = id /\ shard_conf_hash(topology, id) \in {None, leaf.shard_conf_hash}

validate_structure(view, topology) ==
  LET InOrder(order) ==
        /\ order.ok
        /\ Len(view.leaves) = Len(order.value)
        /\ \A i \in DOMAIN view.leaves : LeafMatches(topology, view.leaves[i], order.value[i])
  IN /\ check_bounds(view)
     /\ view.partition_id = AggregationPartition
     /\ InOrder(canonical_order(topology.scheme))

build_shard_tree(view, topology) ==
  IF ~validate_structure(view, topology) THEN Err("structure")
  ELSE build([i \in DOMAIN view.leaves |->
                LET l == view.leaves[i]
                IN [shard_id |-> l.shard_id,
                    hash |-> shard_leaf_hash(l.input_record, l.tr_hash, l.shard_conf_hash)]])

(* The enclosing certificate's own leaf is in the view, field by field.    *)
OwnLeafRules(view, enclosing, tree) ==
  LET own   == enclosing.shard_tree_certificate.shard
      found == SelectSeq(view.leaves, LAMBDA l : l.shard_id = own)
  IN IF found = <<>> THEN <<Rule(FALSE, "certificate shard is not in the view")>>
     ELSE LET leaf == found[1] IN
          << Rule(enclosing.shard_configuration_hash = leaf.shard_conf_hash, "configuration"),
             Rule(enclosing.technical_record_hash = leaf.tr_hash, "technical record"),
             Rule(enclosing.input_record = leaf.input_record, "input record"),
             Rule(certificate(tree, own) = Ok(enclosing.shard_tree_certificate), "shard path") >>

verify_tree(view, enclosing, topology) ==
  LET utc == enclosing.unicity_tree_certificate
      Rules(tree) ==
        << Rule(utc.partition_identifier = AggregationPartition, "another partition"),
           Rule(compute_root_hash(utc, tree_root(tree)) = enclosing.unicity_seal.hash,
                "tree root") >>
          \o OwnLeafRules(view, enclosing, tree)
          \o << Rule(enclosing.unicity_seal.well_shaped, "SealMalformed") >>
      Verified(tree) == Require(tree, Rules(tree.value))
  IN Verified(build_shard_tree(view, topology))

(* Without pins the topology is the candidate's own.                       *)
TopologyOf(view, pins) ==
  LET ids == [i \in DOMAIN view.leaves |-> view.leaves[i].shard_id] IN
  IF pins # None THEN pins
  ELSE [scheme |-> IF ids = <<root>> THEN <<>> ELSE ids, conf_hashes |-> {}]

(* The seal comes last; the policy and the identity of an authenticated    *)
(* view are what their digests cover.                                      *)
view_policy(pins) == [pinned |-> pins # None, digest |-> IF pins = None THEN None ELSE digest(pins)]

authenticate_with(tb, session, view, enclosing, pins) ==
  LET Authenticated(tree) ==
        [partition_id |-> view.partition_id, leaves |-> view.leaves, tree |-> tree,
         policy |-> view_policy(pins), seal |-> enclosing.unicity_seal,
         unicity_tree_certificate |-> enclosing.unicity_tree_certificate,
         identity |-> [authority |-> tb, policy |-> view_policy(pins),
                       seal |-> enclosing.unicity_seal]]
      Returned(tree, r) ==
        [verdict |-> r.verdict, session |-> r.session,
         view |-> IF Failed(r) THEN None ELSE Authenticated(tree.value)]
      Sealed(tree) ==
        Returned(tree, IF tree.ok
                       THEN authenticate_seal_under(tb, Started(session), enclosing.unicity_seal)
                       ELSE Fail(Started(session), tree.error))
  IN Sealed(IF pins = None /\ ~check_bounds(view) THEN Err("bounds")
            ELSE verify_tree(view, enclosing, TopologyOf(view, pins)))

-----------------------------------------------------------------------------
(* Certificates derived from an authenticated view.                        *)

derive(view, i) ==
  LET leaf == view.leaves[i]
      path == certificate(view.tree, leaf.shard_id)
  IN IF ~path.ok THEN path
     ELSE Ok([input_record |-> leaf.input_record, technical_record_hash |-> leaf.tr_hash,
              shard_configuration_hash |-> leaf.shard_conf_hash,
              shard_tree_certificate |-> path.value,
              unicity_tree_certificate |-> view.unicity_tree_certificate,
              unicity_seal |-> view.seal])

(* A shard that is not found gets the certificate of the first leaf.       *)
certificate_ofMutant(view, shard) ==
  LET at == BinarySearch([i \in DOMAIN view.leaves |-> canonical_cmp(view.leaves[i].shard_id, shard)])
  IN derive(view, IF at = 0 THEN 1 ELSE at)

certificate_of(view, shard) ==
  LET at == BinarySearch([i \in DOMAIN view.leaves |-> canonical_cmp(view.leaves[i].shard_id, shard)])
  IN IF at = 0 THEN Err("shard is not in the view") ELSE derive(view, at)

(* All failures are the same one.                                          *)
certificates(view) ==
  LET derived == [i \in DOMAIN view.leaves |-> derive(view, i)]
      failed  == {i \in DOMAIN derived : ~derived[i].ok}
  IN IF failed # {} THEN derived[CHOOSE i \in failed : TRUE]
     ELSE Ok([i \in DOMAIN derived |-> derived[i].value])

(* The compatibility entry point wants a configuration hash of every shard.*)
assemble_certificates(tb, session, view, enclosing, topology) ==
  LET Derived(s, ucs) ==
        IF ucs.ok THEN [verdict |-> "Ok", session |-> s, certificates |-> ucs.value]
        ELSE Fail(Started(s), ucs.error)
      Taken(r) == IF Failed(r) THEN r ELSE Derived(r.session, certificates(r.view))
      Assembled(order) ==
        IF ~order.ok THEN Fail(Started(session), order.error)
        ELSE IF \E i \in DOMAIN order.value : shard_conf_hash(topology, order.value[i]) = None
        THEN Fail(Started(session), "ConfigHashRequired")
        ELSE Taken(authenticate_with(tb, session, view, enclosing, topology))
  IN Assembled(canonical_order(topology.scheme))
=============================================================================
