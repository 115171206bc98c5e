------------------------------ MODULE RadixPath ------------------------------
(***************************************************************************)
(* Paths of the state tree of a shard (radix.rs) and the two certificates  *)
(* made of them: api/inclusion_certificate.rs and                          *)
(* api/non_inclusion_certificate.rs.                                       *)
(*                                                                         *)
(* A hash is the tuple of its preimage, so a root is the whole tree below  *)
(* it.  A bitmap is the set of its depths.  The tree itself is kept by the *)
(* aggregator; nothing here says that it is well formed.                   *)
(***************************************************************************)
EXTENDS Results, FiniteSets, SequencesExt

CONSTANT KeyBits   \* bits of a key (256)

ASSUME RadixAssumption == KeyBits \in Nat \ {0}

MaxDepth == KeyBits - 1
Depths   == 0..MaxDepth
Keys     == [1..KeyBits -> {0, 1}]

bit_at(key, index) == key[index + 1]

(* The bits above the junction; the junction's own bit is not among them.  *)
prefix_region(key, depth) == [i \in 1..KeyBits |-> IF i <= depth THEN key[i] ELSE 0]

leaf_hash(key, value) == <<"leaf", key, value>>
node_hash(depth, region, left, right) == <<"node", depth, region, left, right>>

-----------------------------------------------------------------------------
(* One junction of the fold.  siblings[position] is the next one up.       *)

(* The target may leave the path at a junction.                            *)
FoldStepMutant(bitmap, siblings, target, terminal, acc, depth) ==
  IF acc.hash = None \/ depth \notin bitmap THEN acc
  ELSE IF acc.position = 0 THEN [acc EXCEPT !.hash = None]
  ELSE LET s == siblings[acc.position]
           l == IF bit_at(terminal, depth) = 1 THEN s ELSE acc.hash
           r == IF bit_at(terminal, depth) = 1 THEN acc.hash ELSE s
       IN [position |-> acc.position - 1,
           hash |-> node_hash(depth, prefix_region(terminal, depth), l, r)]

FoldStep(bitmap, siblings, target, terminal, acc, depth) ==
  IF acc.hash = None \/ depth \notin bitmap THEN acc
  ELSE IF acc.position = 0 \/ bit_at(target, depth) # bit_at(terminal, depth)
  THEN [acc EXCEPT !.hash = None]
  ELSE LET s == siblings[acc.position]
           l == IF bit_at(terminal, depth) = 1 THEN s ELSE acc.hash
           r == IF bit_at(terminal, depth) = 1 THEN acc.hash ELSE s
       IN [position |-> acc.position - 1,
           hash |-> node_hash(depth, prefix_region(terminal, depth), l, r)]

(* From the terminal leaf up, one depth after the other.                   *)
Folded(bitmap, siblings, target, terminal, value) ==
  LET at[i \in 0..KeyBits] ==
        IF i = 0 THEN [position |-> Len(siblings), hash |-> leaf_hash(terminal, value)]
        ELSE FoldStep(bitmap, siblings, target, terminal, at[i - 1], KeyBits - i)
  IN at

(* Every sibling must be used.                                             *)
fold_certificate_path(bitmap, siblings, target, terminal, value) ==
  LET folded == Folded(bitmap, siblings, target, terminal, value)[KeyBits]
  IN IF folded.position = 0 THEN folded.hash ELSE None

-----------------------------------------------------------------------------
(* Both decoders refuse a bitmap that does not count the siblings.         *)
Aligned(bitmap, siblings) == Cardinality(bitmap) = Len(siblings)

(* InclusionCertificate::decode and verify.                                *)
verify_inclusion(cert, key, value, root) ==
  /\ Aligned(cert.bitmap, cert.siblings)
  /\ root # None
  /\ fold_certificate_path(cert.bitmap, cert.siblings, key, key, value) = root

(* An empty-tree certificate is None.                                   *)
terminal_matches(cert, target) == cert # None /\ cert.terminal_key = target

(* NonInclusionCertificate::decode and authenticates; a root of None is *)
(* the certified empty tree.                                               *)
authenticates(cert, target, root) ==
  \/ cert = None /\ root = None
  \/ /\ cert # None /\ root # None
     /\ Aligned(cert.bitmap, cert.siblings)
     /\ fold_certificate_path(cert.bitmap, cert.siblings, target,
                              cert.terminal_key, cert.terminal_value) = root

-----------------------------------------------------------------------------
(* The aggregator's side: the tree of a function from keys to values, and  *)
(* the certificate it serves for a key.                                    *)

IsLeaf(tree) == tree[1] = "leaf"

TreeOf(leaves) ==
  LET tree[keys \in SUBSET DOMAIN leaves] ==
        LET some   == CHOOSE k \in keys : TRUE
            differ == {d \in Depths : \E k \in keys : bit_at(k, d) # bit_at(some, d)}
        IN IF differ = {} THEN leaf_hash(some, leaves[some])
           ELSE LET depth == CHOOSE d \in differ : \A e \in differ : d <= e
                    side(b) == {k \in keys : bit_at(k, depth) = b}
                IN node_hash(depth, prefix_region(some, depth), tree[side(0)], tree[side(1)])
  IN IF DOMAIN leaves = {} THEN None ELSE tree[DOMAIN leaves]

(* The key-directed descent from the root to a leaf.                       *)
Descend(tree, key) ==
  LET Right(node) == bit_at(key, node[2]) = 1
      at[i \in 0..KeyBits] ==
        IF i = 0 THEN tree
        ELSE LET node == at[i - 1] IN
             IF IsLeaf(node) THEN node ELSE IF Right(node) THEN node[5] ELSE node[4]
  IN at

(* The siblings from the root down, and the leaf.                          *)
Served(tree, key) ==
  LET at      == Descend(tree, key)
      steps   == CHOOSE n \in 0..KeyBits : IsLeaf(at[n]) /\ \A i \in 0..(n - 1) : ~IsLeaf(at[i])
      sibling(node) == IF bit_at(key, node[2]) = 1 THEN node[4] ELSE node[5]
  IN IF tree = None THEN None
     ELSE [bitmap |-> {at[i][2] : i \in 0..(steps - 1)},
           siblings |-> [i \in 1..steps |-> sibling(at[i - 1])],
           terminal_key |-> at[steps][2], terminal_value |-> at[steps][3]]
=============================================================================
