------------------------------ MODULE Partition ------------------------------
(***************************************************************************)
(* What a client does with a sharded partition, and what it concludes:     *)
(* identifiers are decoded, a scheme is configured and a bundle of states  *)
(* is routed to its shards (ShardRouting); the view of the partition that  *)
(* some aggregator served is authenticated and taken apart into the        *)
(* certificates of the shards (ShardView); and state proofs are judged     *)
(* under those certificates (RadixPath, SealVerify).                       *)
(*                                                                         *)
(* The root chain is external: it commits to one view of the partition     *)
(* under a seal that a quorum signs.  Everything else that reaches the     *)
(* client - the encoded view, the enclosing certificate, the proofs - is   *)
(* served by anybody.                                                      *)
(***************************************************************************)
EXTENDS ShardView, RadixPath

CONSTANTS
  TrustBase,        \* the client's authority
  Capacity,         \* capacity of its session
  Worlds,           \* what the root chain may have committed to
  Encodings,        \* encodings of shard ids
  Configurations,   \* [scheme, endpoints] given to ProofClient::new
  Bundles,          \* sequences of items to be admitted
  Wires(_),         \* encoded views served in a world
  Enclosings(_),    \* certificates served with them
  Pins(_),          \* topologies a caller pins, or None
  Forged(_),        \* certificates served with state proofs
  Proofs(_),        \* [cert, key, value]: the path of a key
  Attempts          \* bound: state proofs judged in a behaviour

(* The identifier of a path: the descendant of the root along its bits.    *)
IdOf(bits) ==
  LET id[i \in 0..Len(bits)] == IF i = 0 THEN root ELSE split(id[i - 1])[bits[i] + 1]
  IN id[Len(bits)]

(* Records as the decoders make them: an identifier has no other bits set, *)
(* a leaf and a tree path have their fields and no more.                   *)
IsShardId(id) ==
  /\ id.bits \in Seq({0, 1}) /\ id.length \in 0..Len(id.bits)
  /\ id = IdOf(SubSeq(id.bits, 1, id.length))

IsLeafRecord(l) ==
  l = [shard_id |-> l.shard_id, input_record |-> l.input_record, tr_hash |-> l.tr_hash,
       shard_conf_hash |-> l.shard_conf_hash]

IsTreePath(utc) ==
  /\ Len(utc.steps) \in Nat
  /\ utc = [partition_identifier |-> utc.partition_identifier,
            steps |-> [i \in 1..Len(utc.steps) |->
                         [key |-> utc.steps[i].key, hash |-> utc.steps[i].hash]]]

(* Encodings are strings of bytes.  What is served has been decoded; a     *)
(* topology has at most one configuration hash for a shard.  The root      *)
(* chain is not forked: a seal that a quorum signed carries the hash it    *)
(* committed to.                                                           *)
ASSUME ServedAssumption ==
  /\ Capacity \in Nat
  /\ \A data \in Encodings : data \in Seq({0, 1}) /\ Len(data) % ByteBits = 0
  /\ \A c \in Configurations :
       /\ c.scheme \in Seq({c.scheme[i] : i \in DOMAIN c.scheme})
       /\ \A i \in DOMAIN c.scheme : IsShardId(c.scheme[i])
       /\ Len(c.endpoints) \in Nat /\ DOMAIN c.endpoints = 1..Len(c.endpoints)
  /\ \A items \in Bundles :
       /\ items \in Seq({items[i] : i \in DOMAIN items})
       /\ \A i \in DOMAIN items : items[i].state_id \in Keys /\ items[i].round \in Nat
  /\ \A w \in Worlds :
       /\ \A uc \in Enclosings(w) \cup Forged(w) :
            /\ uc.shard_tree_certificate.shard.length \in Nat
            /\ IsTreePath(uc.unicity_tree_certificate)
            /\ quorum_met(TrustBase, uc.unicity_seal) => uc.unicity_seal.hash = w.seal.hash
       /\ \A wire \in Wires(w) :
            /\ wire.leaves \in Seq({wire.leaves[i] : i \in DOMAIN wire.leaves})
            /\ \A i \in DOMAIN wire.leaves :
                 LET l == wire.leaves[i] IN
                 l.shard_id \in Seq({0, 1}) /\ Len(l.shard_id) % ByteBits = 0 /\ IsLeafRecord(l)
       /\ \A pins \in Pins(w) : pins # None =>
            /\ pins.scheme \in Seq({pins.scheme[i] : i \in DOMAIN pins.scheme})
            /\ \A i \in DOMAIN pins.scheme : IsShardId(pins.scheme[i])
            /\ \A c \in pins.conf_hashes : c.hash # None
            /\ \A c, d \in pins.conf_hashes : c.shard = d.shard => c.hash = d.hash

VARIABLES
  committed,  \* the view under the seal, None before there is one
  session,    \* the client's seal session
  client,     \* the configured ProofClient, or None
  view,       \* the AuthenticatedView, or None
  proved,     \* what the accepted state proofs said: [key, state, value]
  answer      \* the last call, its arguments and its result

vars == <<committed, session, client, view, proved, answer>>

Init ==
  /\ committed = None /\ client = None /\ view = None
  /\ session = NewSession(Capacity)
  /\ proved = <<>>
  /\ answer = [op |-> "none"]

-----------------------------------------------------------------------------
(* Identifiers, schemes and bundles.  These calls do not touch a session.  *)

DecodeId(data) ==
  /\ answer.op = "none"
  /\ answer' = [op |-> "decode", data |-> data, result |-> decode(data)]
  /\ UNCHANGED <<committed, session, client, view, proved>>

Configure(scheme, endpoints) ==
  LET Returns(r) ==
        /\ client' = IF r.ok THEN r.value ELSE None
        /\ answer' = [op |-> "configure", scheme |-> scheme, endpoints |-> endpoints, result |-> r]
  IN /\ answer.op = "none"
     /\ Returns(new_client(scheme, endpoints))
     /\ UNCHANGED <<committed, session, view, proved>>

(* Admission, and the round the consolidated seal must reach.              *)
Admit(items) ==
  LET Returns(g) ==
        answer' = [op |-> "admit", items |-> items, result |-> g,
                   bound |-> IF g.ok THEN from_routed(client.shards, items, g.value.shard_of)
                             ELSE None]
  IN /\ client # None /\ answer.op = "configure"
     /\ Returns(group(client, items))
     /\ UNCHANGED <<committed, session, client, view, proved>>

-----------------------------------------------------------------------------
(* The partition view.                                                     *)

(* The root chain seals a view of the partition.                           *)
Seal(world) ==
  /\ answer.op = "none"
  /\ committed' = world
  /\ answer' = [op |-> "sealed"]
  /\ UNCHANGED <<session, client, view, proved>>

Authenticate(wire, enclosing, pins) ==
  LET d == from_cbor(wire)
      Returns(r) ==
        /\ session' = r.session
        /\ view'    = r.view
        /\ answer'  = [op |-> "authenticate", wire |-> wire, enclosing |-> enclosing,
                       pins |-> pins, verdict |-> r.verdict]
  IN /\ answer.op = "sealed"
     /\ Returns(IF d.ok THEN authenticate_with(TrustBase, session, d.value, enclosing, pins)
                ELSE [verdict |-> d.error, session |-> session, view |-> None])
     /\ UNCHANGED <<committed, client, proved>>

Assemble(wire, enclosing, pins) ==
  LET d == from_cbor(wire)
      Returns(r) ==
        /\ session' = r.session
        /\ answer'  = [op |-> "assemble", wire |-> wire, pins |-> pins, verdict |-> r.verdict,
                       certificates |-> IF Failed(r) THEN <<>> ELSE r.certificates]
  IN /\ answer.op = "sealed" /\ d.ok /\ pins # None
     /\ Returns(assemble_certificates(TrustBase, session, d.value, enclosing, pins))
     /\ UNCHANGED <<committed, client, view, proved>>

(* A caller that goes on after a refusal is where it was before it.        *)
Proceeds ==
  /\ view # None
  /\ answer.op \in {"authenticate", "membership", "absence"} /\ answer.verdict = "Ok"

CertificateOf(shard) ==
  /\ Proceeds /\ answer.op = "authenticate"
  /\ answer' = [op |-> "certificate", shard |-> shard, result |-> certificate_of(view, shard)]
  /\ UNCHANGED <<committed, session, client, view, proved>>

-----------------------------------------------------------------------------
(* State proofs.                                                           *)

(* The certificate as the verifiers of SealVerify see it; a shard is the   *)
(* set of its keys.                                                        *)
KeysOf(shard) == {k \in Keys : is_prefix_of(shard, k)}

Judged(uc) ==
  LET root_of == root_hash(uc.input_record)
      folded  == computed_seal_hash(uc)
  IN [aggregation_partition |->
        uc.unicity_tree_certificate.partition_identifier = AggregationPartition,
      body_valid |-> check_body(uc),
      one_sibling_per_bit |-> one_sibling_per_bit(uc),
      folds_to_seal_hash |-> folded.ok /\ folded.value = uc.unicity_seal.hash,
      shard |-> KeysOf(uc.shard_tree_certificate.shard),
      shard_conf_hash |-> uc.shard_configuration_hash,
      state_root |-> IF root_of.ok THEN root_of.value ELSE None,
      timestamp |-> uc.input_record.timestamp, unicity_seal |-> uc.unicity_seal]

MembershipClaim(uc, p) ==
  [uc |-> Judged(uc), policy |-> view.policy, certified_state_id |-> p.key, state_id |-> p.key,
   expires_at |-> None, reference_time |-> 1, proof_reference_time |-> 1,
   path_valid |-> p.cert # None /\ verify_inclusion(p.cert, p.key, p.value, Judged(uc).state_root),
   witness |-> "unchecked"]

(* A caller pins the shard that the certificate names.                     *)
AbsenceClaim(uc, p) ==
  LET root_of == root_hash(uc.input_record) IN
  [uc |-> Judged(uc), requested |-> None, target |-> p.key,
   policy |-> [shard |-> Judged(uc).shard, shard_conf_hash |-> None, authority_end_round |-> None],
   terminal |-> IF p.cert = None THEN None ELSE p.cert.terminal_key,
   path_valid |-> root_of.ok /\ authenticates(p.cert, p.key, root_of.value)]

CheckMembership(uc, p) ==
  LET r == verify_membership_under(TrustBase, Started(session), MembershipClaim(uc, p)) IN
  /\ Proceeds /\ Len(proved) < Attempts
  /\ session' = r.session
  /\ proved'  = IF Failed(r) THEN proved
                ELSE Append(proved, [key |-> p.key, state |-> "Present", value |-> p.value])
  /\ answer'  = [op |-> "membership", uc |-> uc, proof |-> p, verdict |-> r.verdict]
  /\ UNCHANGED <<committed, client, view>>

CheckAbsence(uc, p) ==
  LET r == verify_non_inclusion_in(TrustBase, Started(session), AbsenceClaim(uc, p))
      present == terminal_matches(p.cert, p.key)
  IN /\ Proceeds /\ Len(proved) < Attempts
     /\ session' = r.session
     /\ proved'  = IF Failed(r) THEN proved
                   ELSE Append(proved, [key   |-> p.key,
                                        state |-> IF present THEN "Present" ELSE "Absent",
                                        value |-> IF present THEN p.cert.terminal_value ELSE None])
     /\ answer'  = [op |-> "absence", uc |-> uc, proof |-> p, verdict |-> r.verdict]
     /\ UNCHANGED <<committed, client, view>>

ConfiguredIds == {root} \cup UNION {ToSet(c.scheme) : c \in Configurations}

(* The certificates of the view, and those anybody serves.                 *)
Presented ==
  LET derived == certificates(view)
  IN (IF derived.ok THEN ToSet(derived.value) ELSE {}) \cup Forged(committed)

Next ==
  \/ \E data \in Encodings : DecodeId(data)
  \/ \E c \in Configurations : Configure(c.scheme, c.endpoints)
  \/ \E items \in Bundles : Admit(items)
  \/ \E world \in Worlds : Seal(world)
  \/ /\ committed # None
     /\ \E w \in Wires(committed), uc \in Enclosings(committed), pins \in Pins(committed) :
          Authenticate(w, uc, pins) \/ Assemble(w, uc, pins)
  \/ /\ view # None
     /\ \/ \E shard \in ConfiguredIds : CertificateOf(shard)
        \/ \E uc \in Presented, p \in Proofs(committed) :
             CheckMembership(uc, p) \/ CheckAbsence(uc, p)

Spec == Init /\ [][Next]_vars

-----------------------------------------------------------------------------
(* Reference definitions.                                                  *)

(* A shard contains the keys that start with its bits.                     *)
InShard(shard, key) == \A i \in 1..shard.length : i <= Len(key) /\ shard.bits[i] = key[i]

(* Every key is in exactly one shard.                                      *)
Tiles(shards) == \A k \in Keys : Cardinality({i \in DOMAIN shards : InShard(shards[i], k)}) = 1

(* The subtree of a shard id in the tree over some leaves.                 *)
Subtree(leaves, top) ==
  LET Ancestors(id) == {prefix(id, n) : n \in 0..id.length}
      subtree[id \in UNION {Ancestors(leaves[i].shard_id) : i \in DOMAIN leaves}] ==
        LET at == {i \in DOMAIN leaves : leaves[i].shard_id = id} IN
        IF at # {} THEN LET l == leaves[CHOOSE i \in at : TRUE]
                        IN shard_leaf_hash(l.input_record, l.tr_hash, l.shard_conf_hash)
        ELSE shard_node_hash(subtree[split(id)[1]], subtree[split(id)[2]])
  IN subtree[top]

(* The certificate that the root chain's commitment implies for a leaf.    *)
CommittedCertificate(world, leaf) ==
  [input_record |-> leaf.input_record, technical_record_hash |-> leaf.tr_hash,
   shard_configuration_hash |-> leaf.shard_conf_hash,
   shard_tree_certificate |->
     [shard |-> leaf.shard_id,
      sibling_hash_list |->
        [i \in 1..leaf.shard_id.length |->
           Subtree(world.leaves, sibling(prefix(leaf.shard_id, leaf.shard_id.length + 1 - i)))]],
   unicity_tree_certificate |-> world.unicity_tree_certificate, unicity_seal |-> world.seal]

CommittedCertificates(world) ==
  {CommittedCertificate(world, world.leaves[i]) : i \in DOMAIN world.leaves}

(* What a root chain commits to: the shards of a partition in canonical    *)
(* order, which leave no key out, under a seal to which the certificates   *)
(* of all of them fold.                                                    *)
ASSUME CommitmentAssumption ==
  /\ MaxIdBits <= KeyBits
  /\ \A w \in Worlds :
       /\ w.leaves \in Seq({w.leaves[i] : i \in DOMAIN w.leaves})
       /\ \A i \in DOMAIN w.leaves :
            /\ IsLeafRecord(w.leaves[i]) /\ IsShardId(w.leaves[i].shard_id)
            /\ w.leaves[i].shard_id.length <= MaxIdBits
       /\ \A i, j \in DOMAIN w.leaves :
            i < j => canonical_cmp(w.leaves[i].shard_id, w.leaves[j].shard_id) = -1
       /\ \A k \in Keys : \E i \in DOMAIN w.leaves : InShard(w.leaves[i].shard_id, k)
       /\ IsTreePath(w.unicity_tree_certificate)
       /\ w.unicity_tree_certificate.partition_identifier = AggregationPartition
       /\ \A uc \in CommittedCertificates(w) : computed_seal_hash(uc) = Ok(w.seal.hash)

CommittedWire(world) ==
  to_cbor([partition_id |-> AggregationPartition, leaves |-> world.leaves])

Admits(pins, world) ==
  pins = None
    \/ /\ {encode(pins.scheme[i]) : i \in DOMAIN pins.scheme}
            = {encode(world.leaves[i].shard_id) : i \in DOMAIN world.leaves} \ {encode(root)}
       /\ Cardinality(ToSet(pins.scheme)) = Len(pins.scheme)
       /\ \A c \in pins.conf_hashes, i \in DOMAIN world.leaves :
            c.shard = encode(world.leaves[i].shard_id) => c.hash = world.leaves[i].shard_conf_hash

(* The answer is to what an honest aggregator serves.                      *)
HonestView ==
  /\ answer.wire = CommittedWire(committed)
  /\ answer.enclosing \in CommittedCertificates(committed)
  /\ Admits(answer.pins, committed)

HonestProof(i) ==
  LET leaf   == committed.leaves[i]
      states == committed.states[i]
      p      == answer.proof
  IN /\ states # None
     /\ answer.uc = CommittedCertificate(committed, leaf)
     /\ InShard(leaf.shard_id, p.key)
     /\ p.cert = Served(leaf.input_record.hash, p.key)
     /\ answer.op = "membership" => p.key \in DOMAIN states /\ p.value = states[p.key]

-----------------------------------------------------------------------------
(* ShardId::decode accepts every encoding with an end marker, encode gives *)
(* the same bytes back, and the identifier is the one that splitting the   *)
(* root along its bits gives, byte array included: two identifiers of one  *)
(* shard are always equal.                                                 *)
IdCodecExact ==
  answer.op = "decode" =>
    LET id == answer.result
        data == answer.data
    IN IF id = None
       THEN data = <<>> \/ \A i \in (Len(data) - ByteBits + 1)..Len(data) : data[i] = 0
       ELSE encode(id) = data /\ id = IdOf(SubSeq(data, 1, id.length))

(* canonical_order accepts exactly the schemes that tile the key space, so *)
(* the binary search finds the one shard of every key and the stack pass   *)
(* over the shards ends with one tree.                                     *)
SchemesTile ==
  answer.op = "configure" =>
    LET scheme == answer.scheme
        order == canonical_order(scheme)
    IN /\ order.ok <=> \/ scheme = <<>>
                       \/ /\ Len(scheme) \in 2..MaxShards /\ Tiles(scheme)
                          /\ \A i \in DOMAIN scheme : scheme[i].length <= MaxIdBits
       /\ order.ok =>
            /\ ToSet(order.value) = IF scheme = <<>> THEN {root} ELSE ToSet(scheme)
            /\ \A k \in Keys : InShard(order.value[route_index(order.value, k)], k)
            /\ build([i \in DOMAIN order.value |->
                        [shard_id |-> order.value[i], hash |-> <<"shard", i>>]]).ok

(* A bundle is admitted exactly when no state has two proofs, every state  *)
(* is served by an endpoint and no shard gets more than a batch; then each *)
(* distinct state is in the group of its shard once, in order of arrival,  *)
(* the groups are in canonical order, and the round to reach is the newest *)
(* of the bundle, in a shard that takes part.                              *)
GroupsExact ==
  answer.op = "admit" =>
    LET items == answer.items
        shards == client.shards
        New(i) == \A j \in 1..(i - 1) : items[j].state_id # items[i].state_id
        Of(s) == {i \in DOMAIN items : New(i) /\ InShard(s, items[i].state_id)}
    IN /\ answer.result.ok <=>
            /\ items # <<>>
            /\ \A i, j \in DOMAIN items :
                 items[i].state_id = items[j].state_id => items[i].certified = items[j].certified
            /\ \A i \in DOMAIN shards :
                 Of(shards[i]) # {} => /\ client.endpoint_by_shard[i] # None
                                       /\ Cardinality(Of(shards[i])) <= MaxBatch
       /\ answer.result.ok =>
            LET groups == answer.result.value.groups IN
            /\ {groups[g].shard : g \in DOMAIN groups} = {s \in ToSet(shards) : Of(s) # {}}
            /\ \A g, h \in DOMAIN groups :
                 g < h => canonical_cmp(groups[g].shard, groups[h].shard) = -1
            /\ \A g \in DOMAIN groups :
                 /\ ToSet(groups[g].items) = Of(groups[g].shard)
                 /\ \A a, b \in DOMAIN groups[g].items :
                      a < b => groups[g].items[a] < groups[g].items[b]
            /\ \A i \in DOMAIN items : items[i].round <= answer.bound.round
            /\ \E g \in DOMAIN groups, i \in DOMAIN items :
                 /\ groups[g].shard = answer.bound.shard
                 /\ InShard(groups[g].shard, items[i].state_id)
                 /\ items[i].round = answer.bound.round

(* An authenticated view has exactly the leaves that the root chain        *)
(* committed to, under a seal with a quorum, whatever was served and with  *)
(* whichever certificate; and a caller's pins are respected: its scheme is *)
(* the one that was committed to, with the configurations it names.        *)
ViewIsCommitted ==
  /\ view # None => /\ view.leaves = committed.leaves
                    /\ quorum_met(TrustBase, view.seal) /\ view.seal.hash = committed.seal.hash
                    /\ view.unicity_tree_certificate = committed.unicity_tree_certificate
  /\ answer.op = "authenticate" /\ answer.verdict = "Ok" => Admits(answer.pins, committed)

(* What was committed to is accepted: the view, served with a certificate  *)
(* of one of its shards, by every caller whose pins agree with it; then    *)
(* every shard of it, and no other, has a certificate, the one that the    *)
(* commitment implies, which passes the strict verification without        *)
(* another look at a signature, and under which the path that the          *)
(* aggregator serves for a key is accepted.                                *)
CertificatesVerify ==
  /\ answer.op = "authenticate" /\ HonestView => answer.verdict = "Ok"
  /\ answer.op = "certificate" =>
       LET uc == answer.result.value
           r  == verify_unicity_certificate_strict(TrustBase, Started(session), Judged(uc),
                   [shard |-> KeysOf(answer.shard), shard_conf_hash |-> uc.shard_configuration_hash,
                    authority_end_round |-> None])
       IN /\ answer.result.ok <=>
               \E i \in DOMAIN committed.leaves : committed.leaves[i].shard_id = answer.shard
          /\ answer.result.ok =>
               /\ uc \in CommittedCertificates([committed EXCEPT !.seal = view.seal])
               /\ r.verdict = "Ok" /\ r.session.quorum_checks = session.quorum_checks
  /\ answer.op = "assemble" /\ answer.verdict = "Ok" =>
       /\ Admits(answer.pins, committed)
       /\ Len(answer.certificates) = Len(committed.leaves)
       /\ \A i \in DOMAIN answer.certificates :
            answer.certificates[i] = CommittedCertificate(committed, committed.leaves[i])
  /\ answer.op \in {"membership", "absence"} =>
       \A i \in DOMAIN committed.leaves : HonestProof(i) => answer.verdict = "Ok"

(* No key is proved present and absent, or with two values, by any paths   *)
(* under any certificates of one seal, even where the committed trees are  *)
(* not the trees of a set of states.                                       *)
KeyHasOneAnswer ==
  \A i, j \in DOMAIN proved : proved[i].key = proved[j].key => proved[i] = proved[j]
=============================================================================
