---------------------------- MODULE ShardRouting ----------------------------
(***************************************************************************)
(* The trusted sharding scheme of a partition (consolidation/topology.rs), *)
(* the router built from it (consolidation/plan.rs), and the admission of  *)
(* a bundle of proofs into one group per shard (client/consolidate).       *)
(*                                                                         *)
(* An error is the string that names its class; results that may fail are  *)
(* values of Results.  State identifiers are keys of KeyBits bits.         *)
(***************************************************************************)
EXTENDS ShardId, FiniteSets, SequencesExt

CONSTANTS
  MaxShards,   \* MAX_PARTITION_VIEW_LEAVES
  MaxIdBits,   \* MAX_PARTITION_VIEW_SHARD_ID_BITS
  MaxBatch     \* MAX_BATCH_STATE_IDS

ASSUME RoutingAssumption ==
  MaxShards \in Nat /\ MaxIdBits \in Nat \ {0} /\ MaxBatch \in Nat \ {0}

(* Option::None is no error of admission.                                  *)
ASSUME AdmissionAssumption == None \notin {"conflicting inputs", "too many states", "no endpoint"}

-----------------------------------------------------------------------------
(* The binary search of the standard library: halve the part that can      *)
(* still hold the element, then look at the one that is left.  order[i]    *)
(* says how element i compares with what is sought; 0 means not found.     *)
Part(base, size) == [base |-> base, size |-> size]

Parts(n) == {p \in [base : 1..n, size : 1..n] : p.base + p.size <= n + 1}

Halve(order) ==
  LET halved[p \in Parts(Len(order))] ==
        LET half == p.size \div 2
            next == IF order[p.base + half] = 1 THEN p.base ELSE p.base + half
        IN IF p.size = 1 THEN p.base ELSE halved[Part(next, p.size - half)]
  IN halved[Part(1, Len(order))]

BinarySearch(order) ==
  IF order = <<>> THEN 0
  ELSE LET found == Halve(order) IN IF order[found] = 0 THEN found ELSE 0

(* How many elements of s come before the first that fails the test.       *)
PartitionPoint(test(_), s) ==
  CHOOSE n \in 0..Len(s) : /\ \A i \in 1..n : test(s[i])
                           /\ n < Len(s) => ~test(s[n + 1])

-----------------------------------------------------------------------------
(* The scheme.                                                             *)

(* A lone shard covers whatever is below its sibling.                      *)
CoversAloneMutant(shard, depth) == shard.length >= depth

CoversAlone(shard, depth) == shard.length = depth

(* The shards from lo to hi, which agree on their first depth bits, cover  *)
(* the keys that start with them.                                          *)
Slice(lo, hi, depth) == [lo |-> lo, hi |-> hi, depth |-> depth]

covers(shards) ==
  LET covered[r \in [lo : DOMAIN shards, hi : DOMAIN shards, depth : 0..MaxIdBits]] ==
        LET zeros == PartitionPoint(LAMBDA s : get_bit(s, r.depth) = 0, SubSeq(shards, r.lo, r.hi))
            at    == r.lo - 1 + zeros
        IN IF r.lo = r.hi THEN CoversAlone(shards[r.lo], r.depth)
           ELSE /\ zeros # 0 /\ at # r.hi
                /\ covered[Slice(r.lo, at, r.depth + 1)] /\ covered[Slice(at + 1, r.hi, r.depth + 1)]
  IN covered[Slice(1, Len(shards), 0)]

(* In sorted order an overlap shows between neighbours.                    *)
Overlaps(ids) == \E i \in 1..(Len(ids) - 1) : is_prefix_of_shard(ids[i], ids[i + 1])

(* The stable sort of the standard library: an element comes after those   *)
(* that are less, and after the equal ones that were before it.            *)
Precedes(ids, j, i) ==
  canonical_cmp(ids[j], ids[i]) = -1 \/ (canonical_cmp(ids[j], ids[i]) = 0 /\ j < i)

sort_by(ids) ==
  LET Rank(i) == 1 + Cardinality({j \in DOMAIN ids : Precedes(ids, j, i)})
  IN [k \in DOMAIN ids |-> ids[CHOOSE i \in DOMAIN ids : Rank(i) = k]]

canonical_order(scheme) ==
  LET ids == sort_by(scheme) IN
  CASE Len(scheme) > MaxShards -> Err("too many shards")
    [] scheme = <<>>           -> Ok(<<root>>)
    [] Len(scheme) = 1         -> Err("a single shard")
    [] OTHER ->
         IF \E i \in DOMAIN scheme : scheme[i].length \notin 1..MaxIdBits
         THEN Err("shard id length")
         ELSE IF Overlaps(ids) THEN Err("not prefix-free")
         ELSE IF covers(ids) THEN Ok(ids) ELSE Err("not complete")

(* PartitionTopology: the scheme and the admitted configuration hashes,    *)
(* keyed by the encoding of the shard.                                     *)
shard_conf_hash(topology, shard) ==
  LET admitted == {p \in topology.conf_hashes : p.shard = encode(shard)}
  IN IF admitted = {} THEN None ELSE (CHOOSE p \in admitted : TRUE).hash

(* What the digest of a topology covers: the encodings are sorted, so the  *)
(* order of the scheme is not part of it.                                  *)
digest(topology) ==
  LET codes == [i \in DOMAIN topology.scheme |-> encode(topology.scheme[i])] IN
  [scheme |-> [c \in ToSet(codes) |-> Cardinality({i \in DOMAIN codes : codes[i] = c})],
   conf_hashes |-> topology.conf_hashes]

-----------------------------------------------------------------------------
(* The router.  An unsuccessful search answers with the first shard.       *)
route_index(shards, key) ==
  LET found == BinarySearch([i \in DOMAIN shards |-> cmp_prefix_of_key(shards[i], key)])
  IN IF found = 0 THEN 1 ELSE found

-----------------------------------------------------------------------------
(* Admission.  An item is a state identifier with what its original proof  *)
(* certifies and the root round of its seal.                               *)

(* ProofClient::new: the endpoint of every shard, None for those without.  *)
new_client(scheme, endpoints) ==
  LET EndpointOf(shard) ==
        LET at == {i \in DOMAIN endpoints : endpoints[i] = shard}
        IN IF at = {} THEN None ELSE CHOOSE i \in at : TRUE
      Serving(router) ==
        IF ~router.ok THEN router
        ELSE Require(Ok([shards |-> router.value, endpoints |-> Len(endpoints),
                         endpoint_by_shard |-> [j \in DOMAIN router.value |->
                                                  EndpointOf(router.value[j])]]),
               << Rule(ToSet(endpoints) \subseteq ToSet(router.value), "foreign endpoint"),
                  Rule(IsInjective(endpoints), "duplicate endpoint") >>)
  IN Serving(canonical_order(scheme))

(* A repeated state is not compared with its first proof.                  *)
ConflictingMutant(a, b) == FALSE

(* Certification data and reference time of two proofs of one state.       *)
Conflicting(a, b) == a.certified # b.certified

(* What the loop of `group` keeps: `seen` holds the first item of every    *)
(* distinct state, slots the items of every shard's group.                 *)
Bundled(seen, first_of, shard_of, slots) ==
  [error |-> None, seen |-> seen, first_of |-> first_of, shard_of |-> shard_of, slots |-> slots]

(* One step of the loop.                                                   *)
AdmitItem(client, items, r, i) ==
  LET first == {j \in r.seen : items[j].state_id = items[i].state_id}
      Refuse(error) == [r EXCEPT !.error = error]
      Repeat(si, j) ==
        IF Conflicting(items[j], items[i]) THEN Refuse("conflicting inputs")
        ELSE Bundled(r.seen, Append(r.first_of, j), Append(r.shard_of, si), r.slots)
      Place(si) ==
        IF first # {} THEN Repeat(si, CHOOSE j \in first : TRUE)
        ELSE IF Cardinality(r.seen) + 1 > client.endpoints * MaxBatch THEN Refuse("too many states")
        ELSE IF r.slots[si] = <<>> /\ client.endpoint_by_shard[si] = None THEN Refuse("no endpoint")
        ELSE IF Len(r.slots[si]) + 1 > MaxBatch THEN Refuse("too many states")
        ELSE Bundled(r.seen \cup {i}, Append(r.first_of, i), Append(r.shard_of, si),
                     [r.slots EXCEPT ![si] = Append(@, i)])
  IN IF r.error # None THEN r ELSE Place(route_index(client.shards, items[i].state_id))

AdmitItems(client, items) ==
  LET admitted[i \in 0..Len(items)] ==
        IF i = 0 THEN Bundled({}, <<>>, <<>>, [j \in DOMAIN client.shards |-> <<>>])
        ELSE AdmitItem(client, items, admitted[i - 1], i)
  IN admitted[Len(items)]

Group(client, slots, j) ==
  [endpoint |-> client.endpoint_by_shard[j], shard |-> client.shards[j], items |-> slots[j]]

(* The slots that were used, in canonical order.                           *)
Flatten(client, slots) ==
  LET flat[j \in 0..Len(client.shards)] ==
        IF j = 0 THEN <<>>
        ELSE IF slots[j] = <<>> THEN flat[j - 1]
        ELSE Append(flat[j - 1], Group(client, slots, j))
  IN flat[Len(client.shards)]

(* The groups, for every item the first item of its state, and for every   *)
(* item its shard.                                                         *)
group(client, items) ==
  LET r == AdmitItems(client, items) IN
  IF items = <<>> THEN Err("nothing to consolidate")
  ELSE IF r.error # None THEN Err(r.error)
  ELSE Ok([groups |-> Flatten(client, r.slots), first_of |-> r.first_of, shard_of |-> r.shard_of])

(* RootRoundBound::from_routed: the newest round, and the shard of the     *)
(* first item that has it.                                                 *)
from_routed(shards, items, shard_of) ==
  LET best[i \in 1..Len(items)] ==
        IF i = 1 \/ items[i].round > best[i - 1].round
        THEN [round |-> items[i].round, shard |-> shards[shard_of[i]]] ELSE best[i - 1]
  IN IF items = <<>> THEN None ELSE best[Len(items)]
=============================================================================
