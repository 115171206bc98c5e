-------------------------------- MODULE Rsmst --------------------------------
(***************************************************************************)
(* The radix sparse Merkle sum tree of token splitting (rsmst/): building  *)
(* the canonical tree of a set of leaves, extracting the proof of a leaf,  *)
(* and verifying a proof against a root.                                   *)
(*                                                                         *)
(* SHA-256 is free of collisions, so a hash is the record of what was      *)
(* hashed, with its domain prefix: the hash of a root is its whole tree.   *)
(* A key is the sequence of its bits, most significant first; amounts are  *)
(* 1..MaxAmount, for 1 <= v < 2^256.                                       *)
(***************************************************************************)
EXTENDS Integers, Sequences, FiniteSets, FiniteSetsExt

CONSTANTS
  KeyBits,    \* bits of a key, 256
  MaxAmount,  \* the largest amount, 2^256 - 1
  None        \* Option::None and every Err

ASSUME RsmstAssumption ==
  KeyBits \in Nat \ {0} /\ MaxAmount \in Nat \ {0} /\ None \notin Nat

Keys == [1..KeyBits -> {0, 1}]

key_bit(key, depth) == key[depth + 1]

is_valid_amount(v) == v \in 1..MaxAmount

leaf_hash(key, data, value) ==
  [prefix |-> "RSMST_LEAF", key |-> key, data |-> data, value |-> value]

(* The hash of a node over its children, each a hash with the sum claimed  *)
(* for it.                                                                 *)
NodeOf(depth, left, right) ==
  [prefix |-> "RSMST_NODE", depth |-> depth,
   left |-> left.hash, left_sum |-> left.sum, right |-> right.hash, right_sum |-> right.sum]

(* The sum wraps around.                                                   *)
node_hashMutant(depth, left, right) ==
  [hash |-> NodeOf(depth, left, right), sum |-> (left.sum + right.sum) % (MaxAmount + 1)]

(* The checked sum: None when it leaves the domain.                        *)
node_hash(depth, left, right) ==
  IF left.sum + right.sum > MaxAmount THEN None
  ELSE [hash |-> NodeOf(depth, left, right), sum |-> left.sum + right.sum]

-----------------------------------------------------------------------------
(* Rsmst::insert: the leaves so far with one more, or None.                *)
insert(leaves, key, data, value) ==
  IF leaves = None \/ ~is_valid_amount(value) \/ (\E i \in DOMAIN leaves : leaves[i].key = key)
  THEN None
  ELSE Append(leaves, leaf_hash(key, data, value))

(* The bits from start on at which the keys of the leaves in S disagree.   *)
Disagreeing(leaves, S, start) ==
  {d \in start..(KeyBits - 1) :
     \E i, j \in S : key_bit(leaves[i].key, d) # key_bit(leaves[j].key, d)}

RightOf(leaves, S, d) == {i \in S : key_bit(leaves[i].key, d) = 1}

(* The subtree of the leaves in S, given those that start deeper.          *)
SubtreeOf(leaves, below, start, S) ==
  IF Cardinality(S) = 1
  THEN LET leaf == leaves[CHOOSE i \in S : TRUE] IN [hash |-> leaf, sum |-> leaf.value]
  ELSE IF Disagreeing(leaves, S, start) = {} THEN None
  ELSE LET d     == Min(Disagreeing(leaves, S, start))
           right == RightOf(leaves, S, d)
           l     == below[d + 1][S \ right]
           r     == below[d + 1][right]
       IN IF l = None \/ r = None THEN None ELSE node_hash(d, l, r)

(* By the bit they start at and the indices of the leaves, which agree on  *)
(* every bit before it.                                                    *)
build_subtree(leaves) ==
  LET subtree[start \in 0..KeyBits] ==
        [S \in SUBSET DOMAIN leaves |-> SubtreeOf(leaves, subtree, start, S)]
  IN subtree

(* Rsmst::build: the root's hash and sum, or None.                         *)
build(leaves) ==
  IF leaves = None \/ leaves = <<>> THEN None ELSE build_subtree(leaves)[0][DOMAIN leaves]

Step(depth, hash, sum) == [depth |-> depth, hash |-> hash, sum |-> sum]

(* The entries of the two children of a node, as a proof carries them.     *)
LeftEntry(n)  == Step(n.depth, n.left, n.left_sum)
RightEntry(n) == Step(n.depth, n.right, n.right_sum)

IsLeaf(hash) == hash.prefix = "RSMST_LEAF"

(* The way down to a leaf, one node after the other.                       *)
Child(n, key) ==
  IF IsLeaf(n) THEN n ELSE IF key_bit(key, n.depth) = 1 THEN n.right ELSE n.left

Sibling(n, key) == IF key_bit(key, n.depth) = 1 THEN LeftEntry(n) ELSE RightEntry(n)

Descent(root, key) ==
  LET node[i \in 0..KeyBits] == IF i = 0 THEN root ELSE Child(node[i - 1], key) IN node

(* BuiltRsmst::proof: on the way down the siblings are noted, and then     *)
(* reversed; None if it is the leaf of another key.                        *)
proof(root, key) ==
  LET node  == Descent(root, key)
      steps == Min({i \in 0..KeyBits : IsLeaf(node[i])})
  IN IF node[steps].key # key THEN None ELSE [i \in 1..steps |-> Sibling(node[steps - i], key)]

-----------------------------------------------------------------------------
(* RsmstInclusionProof::verify: the reconstructed root sum, if the steps   *)
(* lead from the leaf to the root.  After an error the sum is None.        *)
Climb(key, at, step) ==
  LET parent == IF key_bit(key, step.depth) = 1 THEN node_hash(step.depth, step, at)
                                                ELSE node_hash(step.depth, at, step)
  IN IF \/ at.sum = None \/ step.depth >= at.prev_depth \/ ~is_valid_amount(step.sum)
        \/ parent = None
     THEN [hash |-> None, sum |-> None, prev_depth |-> 0]
     ELSE [hash |-> parent.hash, sum |-> parent.sum, prev_depth |-> step.depth]

(* Hash, sum and depth at the leaf and after each step.                    *)
Climbed(steps, key, data, value) ==
  LET at[i \in 0..Len(steps)] ==
        IF i = 0
        THEN [hash |-> leaf_hash(key, data, value), sum |-> value, prev_depth |-> KeyBits]
        ELSE Climb(key, at[i - 1], steps[i])
  IN at

verify(steps, key, data, value, root) ==
  LET top == Climbed(steps, key, data, value)[Len(steps)]
  IN IF ~is_valid_amount(value) \/ Len(steps) \notin 0..KeyBits \/ top.hash # root THEN None
     ELSE top.sum
=============================================================================
