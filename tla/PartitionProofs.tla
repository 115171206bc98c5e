--------------------------- MODULE PartitionProofs ---------------------------
(***************************************************************************)
(* That a key of a partition has one answer, that the codec of shard ids   *)
(* is exact, that an authenticated view is the committed one, that the     *)
(* schemes which tile the key space are the ones accepted, and that the    *)
(* bundles which fit the endpoints are the ones admitted: for keys and     *)
(* shard ids of any length, any committed trees, any certificates, views,  *)
(* paths, schemes, bundles and sessions.                                   *)
(*                                                                         *)
(* A verifier that accepts has a certificate that folds to the hash of a   *)
(* seal with a quorum, of which there is one.  From that hash the path to  *)
(* the partition's leaf is the same for all certificates, the path to the  *)
(* shard's leaf the same for all that are about the key, and the path to   *)
(* the terminal leaf of a state tree the same for all that do not leave    *)
(* the bits of the key: a hash determines what was hashed, and a leaf is   *)
(* never a node.  So two answers about a key come from one terminal leaf.  *)
(*                                                                         *)
(* A view is accepted under that hash too.  Its tree is filled by a pass   *)
(* with a stack of subtrees, each of which has the leaves below it on      *)
(* paths to its hash and leaves no key below it out.  A key of one of its  *)
(* shards is in a committed shard as well, whose path from the same root   *)
(* takes the same sides and ends in the same leaf, and conversely: the two *)
(* lists have the same leaves, and both are in the canonical order, so     *)
(* they are one list.                                                      *)
(*                                                                         *)
(* A scheme that is accepted is in order, and no key is in two of its      *)
(* shards or in none.  The order is what the search needs; that no key is  *)
(* left out is what leaves one subtree on the stack.                       *)
(*                                                                         *)
(* Admission goes over a bundle once and stops at the first item that has  *)
(* to be refused.  Until then the slot of a shard holds the first items of *)
(* its states, in order; an item is refused exactly when the ones so far   *)
(* have two proofs of one state or overfill a shard.  An endpoint serves   *)
(* one shard, so states that fit their shards fit the endpoints together.  *)
(***************************************************************************)
EXTENDS Partition, SequenceTheorems, FiniteSetTheorems, WellFoundedInduction, TLAPS

(* Induction up to n, in terms of sets.                                    *)
LEMMA UpTo ==
  ASSUME NEW n \in Nat, NEW S, 0 \in S, \A i \in 1..n : i - 1 \in S => i \in S
  PROVE  0..n \subseteq S
<1> SUFFICES ASSUME (0..n) \ S # {} PROVE FALSE
  OBVIOUS
<1> DEFINE T == (0..n) \ S
<1>1. T \subseteq Nat
  OBVIOUS
<1>2. PICK m \in T : \A k \in T : ~(<<k, m>> \in OpToRel(<, Nat))
  BY <1>1, NatLessThanWellFounded, WFMin
<1>3. \A k \in T : ~(k < m)
  BY <1>1, <1>2 DEF OpToRel
<1>4. m \in 1..n /\ m - 1 \in 0..n
  OBVIOUS
<1>5. m - 1 \notin T
  BY <1>3, <1>4
<1> QED BY <1>4, <1>5

(* A set of numbers up to n has a greatest one.                            *)
LEMMA Greatest ==
  ASSUME NEW n \in Nat, NEW T, T \subseteq 1..n, T # {}
  PROVE  \E i \in T : \A j \in T : j <= i
<1> SUFFICES ASSUME ~\E i \in T : \A j \in T : j <= i PROVE FALSE
  OBVIOUS
<1> DEFINE S == {k \in 0..n : \A j \in T : j <= n - k}
<1>1. 0 \in S
  OBVIOUS
<1>2. ASSUME NEW k \in 1..n, k - 1 \in S
      PROVE  k \in S
  <2>1. \A j \in T : j <= n - (k - 1)
    BY <1>2
  <2>2. n - (k - 1) \notin T
    BY <2>1
  <2> QED BY <2>1, <2>2
<1>3. 0..n \subseteq S
  <2> HIDE DEF S
  <2> QED BY <1>1, <1>2, UpTo
<1>4. n \in S /\ n - n = 0
  BY <1>3
<1>5. \A j \in T : j <= 0
  BY <1>4
<1>6. PICK j \in T : j \in 1..n
  OBVIOUS
<1> QED BY <1>5, <1>6

(* Two paths that end in one hash, the shorter having no more steps: if    *)
(* wherever they meet at the same height they met one step below, and the  *)
(* start of the first is nothing the second passes, they are one path.     *)
LEMMA PathsMeet ==
  ASSUME NEW f, NEW n \in Nat, NEW g, NEW m \in Nat, n <= m, f[n] = g[m],
         \A k \in 1..n : f[n - (k - 1)] = g[m - (k - 1)] => f[n - k] = g[m - k],
         \A j \in 1..m : f[0] # g[j]
  PROVE  n = m /\ f[0] = g[0]
<1> DEFINE S == {k \in 0..n : f[n - k] = g[m - k]}
<1>1. 0 \in S
  OBVIOUS
<1>2. ASSUME NEW k \in 1..n, k - 1 \in S
      PROVE  k \in S
  BY <1>2
<1>3. 0..n \subseteq S
  <2> HIDE DEF S
  <2> QED BY <1>1, <1>2, UpTo
<1>4. f[0] = g[m - n]
  <2>1. n \in S /\ n - n = 0
    BY <1>3
  <2> QED BY <2>1
<1>5. m - n \notin 1..m
  BY <1>4
<1> QED BY <1>4, <1>5

-----------------------------------------------------------------------------
(* The three paths, step by step.                                          *)

PartitionLeaf(utc, root_of) == <<"tree leaf", utc.partition_identifier, root_of>>

ShardLeaf(uc) ==
  shard_leaf_hash(uc.input_record, uc.technical_record_hash, uc.shard_configuration_hash)

(* The path of a partition in the unicity tree.                           *)
LEMMA TreePathSteps ==
  ASSUME NEW utc, NEW root_of, Len(utc.steps) \in Nat
  PROVE  LET at == TreePath(utc, root_of) IN
         /\ at[0] = PartitionLeaf(utc, root_of)
         /\ \A i \in 1..Len(utc.steps) : at[i] = TreeStep(utc.partition_identifier, utc.steps[i], at[i - 1])
<1> DEFINE IsPath(f, n) ==
             f = [i \in 0..n |-> IF i = 0 THEN PartitionLeaf(utc, root_of)
                                 ELSE TreeStep(utc.partition_identifier, utc.steps[i], f[i - 1])]
           S == {n \in Nat : \E f : IsPath(f, n)}
<1>1. 0 \in S
  <2>1. IsPath([i \in 0..0 |-> PartitionLeaf(utc, root_of)], 0)
    OBVIOUS
  <2> QED BY <2>1
<1>2. ASSUME NEW n \in 1..Len(utc.steps), n - 1 \in S
      PROVE  n \in S
  <2>1. PICK f : IsPath(f, n - 1)
    BY <1>2
  <2> DEFINE g == [i \in 0..n |-> IF i = n THEN TreeStep(utc.partition_identifier, utc.steps[n], f[n - 1]) ELSE f[i]]
  <2>2. ASSUME NEW i \in 0..n
        PROVE  g[i] = IF i = 0 THEN PartitionLeaf(utc, root_of)
                      ELSE TreeStep(utc.partition_identifier, utc.steps[i], g[i - 1])
    <3>1. CASE i = n
      BY <3>1
    <3>2. CASE i # n
      <4>1. i \in 0..(n - 1) /\ g[i] = f[i] /\ (i # 0 => g[i - 1] = f[i - 1])
        BY <3>2
      <4>2. f[i] = IF i = 0 THEN PartitionLeaf(utc, root_of)
                   ELSE TreeStep(utc.partition_identifier, utc.steps[i], f[i - 1])
        BY <2>1, <4>1
      <4> QED BY <4>1, <4>2
    <3> QED BY <3>1, <3>2
  <2>3. g = [i \in 0..n |-> IF i = 0 THEN PartitionLeaf(utc, root_of)
                            ELSE TreeStep(utc.partition_identifier, utc.steps[i], g[i - 1])]
    BY <2>2
  <2> HIDE DEF g
  <2>4. IsPath(g, n)
    BY <2>3
  <2> QED BY <2>4
<1>3. Len(utc.steps) \in S
  <2>1. 0..Len(utc.steps) \subseteq S
    <3> HIDE DEF S
    <3> QED BY <1>1, <1>2, UpTo
  <2> QED BY <2>1
<1> DEFINE at == TreePath(utc, root_of)
<1>4. IsPath(at, Len(utc.steps))
  <2>1. \E f : IsPath(f, Len(utc.steps))
    BY <1>3
  <2>2. at = CHOOSE f : IsPath(f, Len(utc.steps))
    BY Zenon DEF TreePath, PartitionLeaf
  <2> HIDE DEF IsPath, at
  <2> QED BY <2>1, <2>2
<1> HIDE DEF at
<1>5. /\ at[0] = PartitionLeaf(utc, root_of)
      /\ \A i \in 1..Len(utc.steps) : at[i] = TreeStep(utc.partition_identifier, utc.steps[i], at[i - 1])
  BY <1>4
<1> QED BY <1>5 DEF at

(* The path of a shard in the shard tree.                                 *)
LEMMA ShardPathSteps ==
  ASSUME NEW uc, uc.shard_tree_certificate.shard.length \in Nat
  PROVE  LET at == ShardPath(uc) IN
         /\ at[0] = ShardLeaf(uc)
         /\ \A i \in 1..uc.shard_tree_certificate.shard.length : at[i] = ShardStep(uc.shard_tree_certificate.shard,
                            uc.shard_tree_certificate.sibling_hash_list, at[i - 1], i)
<1> DEFINE IsPath(f, n) ==
             f = [i \in 0..n |-> IF i = 0 THEN ShardLeaf(uc)
                                 ELSE ShardStep(uc.shard_tree_certificate.shard,
                            uc.shard_tree_certificate.sibling_hash_list, f[i - 1], i)]
           S == {n \in Nat : \E f : IsPath(f, n)}
<1>1. 0 \in S
  <2>1. IsPath([i \in 0..0 |-> ShardLeaf(uc)], 0)
    OBVIOUS
  <2> QED BY <2>1
<1>2. ASSUME NEW n \in 1..uc.shard_tree_certificate.shard.length, n - 1 \in S
      PROVE  n \in S
  <2>1. PICK f : IsPath(f, n - 1)
    BY <1>2
  <2> DEFINE g == [i \in 0..n |-> IF i = n THEN ShardStep(uc.shard_tree_certificate.shard,
                            uc.shard_tree_certificate.sibling_hash_list, f[n - 1], n) ELSE f[i]]
  <2>2. ASSUME NEW i \in 0..n
        PROVE  g[i] = IF i = 0 THEN ShardLeaf(uc)
                      ELSE ShardStep(uc.shard_tree_certificate.shard,
                            uc.shard_tree_certificate.sibling_hash_list, g[i - 1], i)
    <3>1. CASE i = n
      BY <3>1
    <3>2. CASE i # n
      <4>1. i \in 0..(n - 1) /\ g[i] = f[i] /\ (i # 0 => g[i - 1] = f[i - 1])
        BY <3>2
      <4>2. f[i] = IF i = 0 THEN ShardLeaf(uc)
                   ELSE ShardStep(uc.shard_tree_certificate.shard,
                            uc.shard_tree_certificate.sibling_hash_list, f[i - 1], i)
        BY <2>1, <4>1
      <4> QED BY <4>1, <4>2
    <3> QED BY <3>1, <3>2
  <2>3. g = [i \in 0..n |-> IF i = 0 THEN ShardLeaf(uc)
                            ELSE ShardStep(uc.shard_tree_certificate.shard,
                            uc.shard_tree_certificate.sibling_hash_list, g[i - 1], i)]
    BY <2>2
  <2> HIDE DEF g
  <2>4. IsPath(g, n)
    BY <2>3
  <2> QED BY <2>4
<1>3. uc.shard_tree_certificate.shard.length \in S
  <2>1. 0..uc.shard_tree_certificate.shard.length \subseteq S
    <3> HIDE DEF S
    <3> QED BY <1>1, <1>2, UpTo
  <2> QED BY <2>1
<1> DEFINE at == ShardPath(uc)
<1>4. IsPath(at, uc.shard_tree_certificate.shard.length)
  <2>1. \E f : IsPath(f, uc.shard_tree_certificate.shard.length)
    BY <1>3
  <2>2. at = CHOOSE f : IsPath(f, uc.shard_tree_certificate.shard.length)
    BY Zenon DEF ShardPath, ShardLeaf
  <2> HIDE DEF IsPath, at
  <2> QED BY <2>1, <2>2
<1> HIDE DEF at
<1>5. /\ at[0] = ShardLeaf(uc)
      /\ \A i \in 1..uc.shard_tree_certificate.shard.length : at[i] = ShardStep(uc.shard_tree_certificate.shard,
                            uc.shard_tree_certificate.sibling_hash_list, at[i - 1], i)
  BY <1>4
<1> QED BY <1>5 DEF at

Terminal(siblings, terminal, value) ==
  [position |-> Len(siblings), hash |-> leaf_hash(terminal, value)]

(* The path of a terminal leaf in a state tree.                           *)
LEMMA FoldedSteps ==
  ASSUME NEW bitmap, NEW siblings, NEW target, NEW terminal, NEW value
  PROVE  LET at == Folded(bitmap, siblings, target, terminal, value) IN
         /\ at[0] = Terminal(siblings, terminal, value)
         /\ \A i \in 1..KeyBits : at[i] = FoldStep(bitmap, siblings, target, terminal, at[i - 1], KeyBits - i)
<1> DEFINE IsPath(f, n) ==
             f = [i \in 0..n |-> IF i = 0 THEN Terminal(siblings, terminal, value)
                                 ELSE FoldStep(bitmap, siblings, target, terminal, f[i - 1], KeyBits - i)]
           S == {n \in Nat : \E f : IsPath(f, n)}
<1>1. 0 \in S
  <2>1. IsPath([i \in 0..0 |-> Terminal(siblings, terminal, value)], 0)
    OBVIOUS
  <2> QED BY <2>1
<1>2. ASSUME NEW n \in 1..KeyBits, n - 1 \in S
      PROVE  n \in S
  <2>1. PICK f : IsPath(f, n - 1)
    BY <1>2
  <2> DEFINE g == [i \in 0..n |-> IF i = n THEN FoldStep(bitmap, siblings, target, terminal, f[n - 1], KeyBits - n) ELSE f[i]]
  <2>2. ASSUME NEW i \in 0..n
        PROVE  g[i] = IF i = 0 THEN Terminal(siblings, terminal, value)
                      ELSE FoldStep(bitmap, siblings, target, terminal, g[i - 1], KeyBits - i)
    <3>1. CASE i = n
      BY <3>1
    <3>2. CASE i # n
      <4>1. i \in 0..(n - 1) /\ g[i] = f[i] /\ (i # 0 => g[i - 1] = f[i - 1])
        BY <3>2
      <4>2. f[i] = IF i = 0 THEN Terminal(siblings, terminal, value)
                   ELSE FoldStep(bitmap, siblings, target, terminal, f[i - 1], KeyBits - i)
        BY <2>1, <4>1
      <4> QED BY <4>1, <4>2
    <3> QED BY <3>1, <3>2
  <2>3. g = [i \in 0..n |-> IF i = 0 THEN Terminal(siblings, terminal, value)
                            ELSE FoldStep(bitmap, siblings, target, terminal, g[i - 1], KeyBits - i)]
    BY <2>2
  <2> HIDE DEF g
  <2>4. IsPath(g, n)
    BY <2>3
  <2> QED BY <2>4
<1>3. KeyBits \in S
  <2>1. KeyBits \in Nat
    BY RadixAssumption
  <2>2. 0..KeyBits \subseteq S
    <3> HIDE DEF S
    <3> QED BY <1>1, <1>2, <2>1, UpTo
  <2> QED BY <2>1, <2>2
<1> DEFINE at == Folded(bitmap, siblings, target, terminal, value)
<1>4. IsPath(at, KeyBits)
  <2>1. \E f : IsPath(f, KeyBits)
    BY <1>3
  <2>2. at = CHOOSE f : IsPath(f, KeyBits)
    BY Zenon DEF Folded, Terminal
  <2> HIDE DEF IsPath, at
  <2> QED BY <2>1, <2>2
<1> HIDE DEF at
<1>5. /\ at[0] = Terminal(siblings, terminal, value)
      /\ \A i \in 1..KeyBits : at[i] = FoldStep(bitmap, siblings, target, terminal, at[i - 1], KeyBits - i)
  BY <1>4, RadixAssumption
<1> QED BY <1>5 DEF at

-----------------------------------------------------------------------------
(* One seal hash, one shard tree root.                                     *)

LEMMA TreeNodesEqual ==
  ASSUME NEW key, NEW s, NEW x, NEW t, NEW y, TreeStep(key, s, x) = TreeStep(key, t, y)
  PROVE  x = y
<1>1. /\ TreeStep(key, s, x)[2] = s.key /\ TreeStep(key, t, y)[2] = t.key
  BY DEF TreeStep
<1>2. s.key = t.key
  BY <1>1
<1>3. CASE key > s.key
  <2>1. TreeStep(key, s, x)[4] = x /\ TreeStep(key, t, y)[4] = y
    BY <1>2, <1>3 DEF TreeStep
  <2> QED BY <2>1
<1>4. CASE ~(key > s.key)
  <2>1. TreeStep(key, s, x)[3] = x /\ TreeStep(key, t, y)[3] = y
    BY <1>2, <1>4 DEF TreeStep
  <2> QED BY <2>1
<1> QED BY <1>3, <1>4

LEMMA TreeNodeIsNoLeaf ==
  ASSUME NEW utc, NEW root_of, NEW key, NEW s, NEW x
  PROVE  PartitionLeaf(utc, root_of) # TreeStep(key, s, x)
<1>1. PartitionLeaf(utc, root_of)[1] = "tree leaf"
  BY DEF PartitionLeaf
<1>2. TreeStep(key, s, x)[1] = "tree node"
  BY DEF TreeStep
<1> QED BY <1>1, <1>2

(* Two paths of one partition to one root, one of them not longer.         *)
LEMMA ShorterTreePath ==
  ASSUME NEW utc, NEW a, NEW utc2, NEW b,
         Len(utc.steps) \in Nat, Len(utc2.steps) \in Nat, Len(utc.steps) <= Len(utc2.steps),
         utc.partition_identifier = utc2.partition_identifier,
         compute_root_hash(utc, a) = compute_root_hash(utc2, b)
  PROVE  a = b
<1> DEFINE n == Len(utc.steps)
           m == Len(utc2.steps)
           f == TreePath(utc, a)
           g == TreePath(utc2, b)
           key == utc.partition_identifier
<1>1. f[0] = PartitionLeaf(utc, a) /\ \A i \in 1..n : f[i] = TreeStep(key, utc.steps[i], f[i - 1])
  BY TreePathSteps
<1>2. g[0] = PartitionLeaf(utc2, b) /\ \A i \in 1..m : g[i] = TreeStep(key, utc2.steps[i], g[i - 1])
  BY TreePathSteps
<1>3. f[n] = g[m]
  BY DEF compute_root_hash
<1> HIDE DEF f, g, n, m, key
<1>4. n \in Nat /\ m \in Nat /\ n <= m
  BY DEF n, m
<1>5. ASSUME NEW k \in 1..n, f[n - (k - 1)] = g[m - (k - 1)]
      PROVE  f[n - k] = g[m - k]
  <2>1. /\ n - (k - 1) \in 1..n /\ (n - (k - 1)) - 1 = n - k
        /\ m - (k - 1) \in 1..m /\ (m - (k - 1)) - 1 = m - k
    BY <1>4
  <2>2. TreeStep(key, utc.steps[n - (k - 1)], f[n - k]) = TreeStep(key, utc2.steps[m - (k - 1)], g[m - k])
    BY <1>1, <1>2, <1>5, <2>1
  <2> QED BY <2>2, TreeNodesEqual
<1>6. ASSUME NEW j \in 1..m
      PROVE  f[0] # g[j]
  BY <1>1, <1>2, TreeNodeIsNoLeaf
<1>7. f[0] = g[0]
  BY ONLY <1>3, <1>4, <1>5, <1>6, PathsMeet
<1>8. PartitionLeaf(utc, a)[3] = a /\ PartitionLeaf(utc2, b)[3] = b
  BY DEF PartitionLeaf
<1> QED BY <1>1, <1>2, <1>7, <1>8

(* What compute_root_hash commits to: for one partition, one shard tree.   *)
LEMMA OneShardTree ==
  ASSUME NEW utc, NEW a, NEW utc2, NEW b,
         Len(utc.steps) \in Nat, Len(utc2.steps) \in Nat,
         utc.partition_identifier = utc2.partition_identifier,
         compute_root_hash(utc, a) = compute_root_hash(utc2, b)
  PROVE  a = b
<1>1. CASE Len(utc.steps) <= Len(utc2.steps)
  BY <1>1, ShorterTreePath
<1>2. CASE Len(utc2.steps) <= Len(utc.steps)
  BY <1>2, ShorterTreePath
<1> QED BY <1>1, <1>2

-----------------------------------------------------------------------------
(* One shard tree and one key, one shard leaf.                             *)

(* A shard node over a hash that is on the side of the bit.                *)
Joined(bit, sibling_hash, hash) ==
  IF bit = 1 THEN shard_node_hash(sibling_hash, hash) ELSE shard_node_hash(hash, sibling_hash)

LEMMA ShardNodesEqual ==
  ASSUME NEW bit, NEW s, NEW x, NEW t, NEW y, Joined(bit, s, x) = Joined(bit, t, y)
  PROVE  x = y
<1>1. CASE bit = 1
  <2>1. Joined(bit, s, x)[3] = x /\ Joined(bit, t, y)[3] = y
    BY <1>1 DEF Joined, shard_node_hash
  <2> QED BY <2>1
<1>2. CASE bit # 1
  <2>1. Joined(bit, s, x)[2] = x /\ Joined(bit, t, y)[2] = y
    BY <1>2 DEF Joined, shard_node_hash
  <2> QED BY <2>1
<1> QED BY <1>1, <1>2

LEMMA ShardNodeIsNoLeaf ==
  ASSUME NEW uc, NEW bit, NEW s, NEW x
  PROVE  ShardLeaf(uc) # Joined(bit, s, x)
<1>1. ShardLeaf(uc)[1] = "shard leaf"
  BY DEF ShardLeaf, shard_leaf_hash
<1>2. Joined(bit, s, x)[1] = "shard node"
  BY DEF Joined, shard_node_hash
<1> QED BY <1>1, <1>2

(* On the path of a shard the sides are the bits of its keys.              *)
LEMMA ShardStepFollowsKey ==
  ASSUME NEW shard, shard.length \in Nat, NEW key \in KeysOf(shard), NEW list, NEW hash,
         NEW k \in 1..shard.length
  PROVE  ShardStep(shard, list, hash, shard.length - (k - 1))
           = Joined(key[k], list[shard.length - (k - 1)], hash)
<1> DEFINE i == shard.length - (k - 1)
<1>1. shard.length - i = k - 1 /\ k - 1 < shard.length /\ (k - 1) + 1 = k
  OBVIOUS
<1>2. get_bit(shard, shard.length - i) = shard.bits[k]
  BY <1>1 DEF get_bit
<1>3. shard.bits[k] = key[k]
  BY DEF KeysOf, is_prefix_of
<1> QED BY <1>2, <1>3 DEF ShardStep, Joined

(* The path of a shard from the root down, along the bits of a key.        *)
LEMMA ShardPathFollowsKey ==
  ASSUME NEW uc, NEW key, uc.shard_tree_certificate.shard.length \in Nat,
         key \in KeysOf(uc.shard_tree_certificate.shard)
  PROVE  LET f == ShardPath(uc)
             n == uc.shard_tree_certificate.shard.length
             list == uc.shard_tree_certificate.sibling_hash_list
         IN /\ f[0] = ShardLeaf(uc)
            /\ \A k \in 1..n : f[n - (k - 1)] = Joined(key[k], list[n - (k - 1)], f[n - k])
<1> DEFINE shard == uc.shard_tree_certificate.shard
           list == uc.shard_tree_certificate.sibling_hash_list
           n == shard.length
           f == ShardPath(uc)
<1>1. f[0] = ShardLeaf(uc) /\ \A i \in 1..n : f[i] = ShardStep(shard, list, f[i - 1], i)
  BY ShardPathSteps
<1> HIDE DEF f, list, shard
<1>2. ASSUME NEW k \in 1..n
      PROVE  f[n - (k - 1)] = Joined(key[k], list[n - (k - 1)], f[n - k])
  <2>1. n - (k - 1) \in 1..n /\ (n - (k - 1)) - 1 = n - k
    BY DEF shard
  <2>2. f[n - (k - 1)] = ShardStep(shard, list, f[n - k], n - (k - 1))
    <3> HIDE DEF n
    <3> QED BY <1>1, <2>1
  <2>3. shard.length \in Nat /\ key \in KeysOf(shard)
    BY DEF shard
  <2>4. ASSUME NEW hash
        PROVE  ShardStep(shard, list, hash, n - (k - 1)) = Joined(key[k], list[n - (k - 1)], hash)
    BY <2>3, ShardStepFollowsKey
  <2> QED BY <2>2, <2>4
<1> QED BY <1>1, <1>2 DEF f, list, shard

LEMMA ShorterShardPath ==
  ASSUME NEW uc, NEW uc2, NEW key,
         uc.shard_tree_certificate.shard.length \in Nat,
         uc2.shard_tree_certificate.shard.length \in Nat,
         uc.shard_tree_certificate.shard.length <= uc2.shard_tree_certificate.shard.length,
         key \in KeysOf(uc.shard_tree_certificate.shard),
         key \in KeysOf(uc2.shard_tree_certificate.shard),
         ShardPath(uc)[uc.shard_tree_certificate.shard.length]
           = ShardPath(uc2)[uc2.shard_tree_certificate.shard.length]
  PROVE  uc.input_record = uc2.input_record
<1> DEFINE list == uc.shard_tree_certificate.sibling_hash_list
           list2 == uc2.shard_tree_certificate.sibling_hash_list
           n == uc.shard_tree_certificate.shard.length
           m == uc2.shard_tree_certificate.shard.length
           f == ShardPath(uc)
           g == ShardPath(uc2)
<1>1. /\ f[0] = ShardLeaf(uc)
      /\ \A k \in 1..n : f[n - (k - 1)] = Joined(key[k], list[n - (k - 1)], f[n - k])
  BY ShardPathFollowsKey
<1>2. /\ g[0] = ShardLeaf(uc2)
      /\ \A k \in 1..m : g[m - (k - 1)] = Joined(key[k], list2[m - (k - 1)], g[m - k])
  BY ShardPathFollowsKey
<1>3. f[n] = g[m] /\ n \in Nat /\ m \in Nat /\ n <= m
  OBVIOUS
<1> HIDE DEF f, g, n, m, list, list2
<1>6. ASSUME NEW k \in 1..n, f[n - (k - 1)] = g[m - (k - 1)]
      PROVE  f[n - k] = g[m - k]
  <2>1. k \in 1..m
    BY <1>3
  <2>2. Joined(key[k], list[n - (k - 1)], f[n - k]) = Joined(key[k], list2[m - (k - 1)], g[m - k])
    BY <1>1, <1>2, <1>6, <2>1
  <2> QED BY <2>2, ShardNodesEqual
<1>7. ASSUME NEW j \in 1..m
      PROVE  f[0] # g[j]
  <2>1. m - (j - 1) \in 1..m /\ m - ((m - (j - 1)) - 1) = j
    BY <1>3
  <2> DEFINE k == m - (j - 1)
  <2>2. g[j] = Joined(key[k], list2[m - (k - 1)], g[m - k])
    BY <1>2, <2>1
  <2> QED BY <1>1, <2>2, ShardNodeIsNoLeaf
<1>8. f[0] = g[0]
  BY ONLY <1>3, <1>6, <1>7, PathsMeet
<1>9. ShardLeaf(uc)[2] = uc.input_record /\ ShardLeaf(uc2)[2] = uc2.input_record
  BY DEF ShardLeaf, shard_leaf_hash
<1> QED BY <1>1, <1>2, <1>8, <1>9

(* Certificates that fold to one seal hash and are about one key have the  *)
(* same input record.                                                      *)
AboutKey(uc, key) ==
  /\ uc.shard_tree_certificate.shard.length \in Nat
  /\ Len(uc.unicity_tree_certificate.steps) \in Nat
  /\ uc.unicity_tree_certificate.partition_identifier = AggregationPartition
  /\ key \in KeysOf(uc.shard_tree_certificate.shard)

FoldsTo(uc, hash) == computed_seal_hash(uc).ok /\ computed_seal_hash(uc).value = hash

LEMMA OneInputRecord ==
  ASSUME NEW uc, NEW uc2, NEW key, NEW hash,
         AboutKey(uc, key), AboutKey(uc2, key), FoldsTo(uc, hash), FoldsTo(uc2, hash)
  PROVE  uc.input_record = uc2.input_record
<1> DEFINE top(c) == ShardPath(c)[c.shard_tree_certificate.shard.length]
<1>1. ASSUME NEW c, FoldsTo(c, hash)
      PROVE  compute_root_hash(c.unicity_tree_certificate, top(c)) = hash
  <2>1. shard_tree_root_hash(c).ok
    BY <1>1 DEF FoldsTo, computed_seal_hash
  <2>2. shard_tree_root_hash(c) = Ok(top(c))
    BY <2>1 DEF shard_tree_root_hash, Err
  <2>3. shard_tree_root_hash(c).value = top(c)
    BY <2>2 DEF Ok
  <2>4. computed_seal_hash(c) = Ok(compute_root_hash(c.unicity_tree_certificate, top(c)))
    BY <2>1, <2>3 DEF computed_seal_hash
  <2> QED BY <1>1, <2>4 DEF FoldsTo, Ok
<1>2. top(uc) = top(uc2)
  <2>1. compute_root_hash(uc.unicity_tree_certificate, top(uc))
          = compute_root_hash(uc2.unicity_tree_certificate, top(uc2))
    BY <1>1
  <2> HIDE DEF top
  <2> QED BY <2>1, OneShardTree DEF AboutKey
<1> DEFINE n(c) == c.shard_tree_certificate.shard.length
<1>3. n(uc) \in Nat /\ n(uc2) \in Nat
  BY DEF AboutKey
<1>4. CASE n(uc) <= n(uc2)
  BY <1>2, <1>4, ShorterShardPath DEF AboutKey
<1>5. CASE n(uc2) <= n(uc)
  BY <1>2, <1>5, ShorterShardPath DEF AboutKey
<1> QED BY <1>3, <1>4, <1>5

-----------------------------------------------------------------------------
(* One state tree and one key, one terminal leaf.                          *)

(* A node over a hash that is on the side of the bit.                      *)
Branch(bit, depth, region, sibling_hash, hash) ==
  IF bit = 1 THEN node_hash(depth, region, sibling_hash, hash)
             ELSE node_hash(depth, region, hash, sibling_hash)

(* A depth of the path: nothing there, or a junction on the key's side.    *)
Junction(target, depth, below, above) ==
  \/ above = below
  \/ \E region, s : above = Branch(bit_at(target, depth), depth, region, s, below)

(* A leaf, or a node of some depth or deeper.                              *)
NotAbove(hash, depth) == hash[1] = "leaf" \/ (hash[1] = "node" /\ hash[2] \in Nat /\ hash[2] >= depth)

(* The hashes of a path from a terminal leaf to the root.                  *)
StatePath(h, target, terminal, value, root_of) ==
  /\ h[0] = leaf_hash(terminal, value) /\ h[KeyBits] = root_of
  /\ \A i \in 1..KeyBits : Junction(target, KeyBits - i, h[i - 1], h[i])
  /\ \A i \in 0..KeyBits : NotAbove(h[i], KeyBits - i)

IsFoldState(acc) == \E p, h : acc = [position |-> p, hash |-> h]

LEMMA FoldStates ==
  ASSUME NEW p, NEW h, NEW acc, acc = [position |-> p, hash |-> h]
  PROVE  IsFoldState(acc) /\ acc.hash = h
BY DEF IsFoldState

LEMMA FoldStepTaken ==
  ASSUME NEW bitmap, NEW siblings, NEW target, NEW terminal, NEW acc, IsFoldState(acc), NEW depth
  PROVE  LET new == FoldStep(bitmap, siblings, target, terminal, acc, depth)
         IN /\ IsFoldState(new)
            /\ new.hash # None => acc.hash # None /\ Junction(target, depth, acc.hash, new.hash)
<1> DEFINE new == FoldStep(bitmap, siblings, target, terminal, acc, depth)
<1>1. PICK p, h : acc = [position |-> p, hash |-> h]
  BY DEF IsFoldState
<1>2. CASE h = None \/ depth \notin bitmap
  <2>1. new = acc
    BY <1>1, <1>2 DEF FoldStep
  <2> HIDE DEF new
  <2> QED BY <1>1, <2>1 DEF Junction, new
<1>3. CASE /\ h # None /\ depth \in bitmap
           /\ p = 0 \/ bit_at(target, depth) # bit_at(terminal, depth)
  <2>1. new = [position |-> p, hash |-> None]
    BY <1>1, <1>3 DEF FoldStep
  <2> HIDE DEF new
  <2> QED BY <2>1 DEF IsFoldState, new
<1>4. CASE /\ h # None /\ depth \in bitmap
           /\ p # 0 /\ bit_at(target, depth) = bit_at(terminal, depth)
  <2> DEFINE s == siblings[p]
             region == prefix_region(terminal, depth)
             above == Branch(bit_at(target, depth), depth, region, s, h)
  <2>1. new = [position |-> p - 1, hash |-> above]
    BY <1>1, <1>4 DEF FoldStep, Branch
  <2> HIDE DEF new, s, region
  <2>2. Junction(target, depth, h, above)
    BY DEF Junction
  <2> HIDE DEF above
  <2>3. IsFoldState(new) /\ new.hash = above /\ acc.hash = h
    BY <1>1, <2>1, FoldStates
  <2> QED BY <1>4, <2>2, <2>3 DEF new
<1> QED BY <1>1, <1>2, <1>3, <1>4

(* A junction leaves the path below its depth.                             *)
LEMMA JunctionDepth ==
  ASSUME NEW target, NEW depth \in Nat, NEW below, NEW above,
         Junction(target, depth, below, above), NotAbove(below, depth + 1)
  PROVE  NotAbove(above, depth)
<1>1. CASE above = below
  BY <1>1 DEF NotAbove
<1>2. CASE \E region, s : above = Branch(bit_at(target, depth), depth, region, s, below)
  <2>1. above[1] = "node" /\ above[2] = depth
    BY <1>2 DEF Branch, node_hash
  <2> QED BY <2>1 DEF NotAbove
<1> QED BY <1>1, <1>2 DEF Junction

(* A fold that reaches a root is a path to it.                             *)
LEMMA FoldIsPath ==
  ASSUME NEW bitmap, NEW siblings, NEW target, NEW terminal, NEW value, NEW root_of,
         fold_certificate_path(bitmap, siblings, target, terminal, value) = root_of,
         root_of # None
  PROVE  \E h : StatePath(h, target, terminal, value, root_of)
<1> DEFINE at == Folded(bitmap, siblings, target, terminal, value)
           h == [i \in 0..KeyBits |-> at[i].hash]
           Step(acc, depth) == FoldStep(bitmap, siblings, target, terminal, acc, depth)
<1>1. at[0] = Terminal(siblings, terminal, value) /\ \A i \in 1..KeyBits : at[i] = Step(at[i - 1], KeyBits - i)
  BY FoldedSteps
<1>2. at[KeyBits].hash = root_of
  BY DEF fold_certificate_path
<1> HIDE DEF at
<1>3. KeyBits \in Nat
  BY RadixAssumption
<1>4. \A i \in 0..KeyBits : IsFoldState(at[i])
  <2> DEFINE S == {i \in 0..KeyBits : IsFoldState(at[i])}
  <2>1. 0 \in S
    <3>1. IsFoldState(Terminal(siblings, terminal, value))
      BY FoldStates DEF Terminal
    <3> QED BY <1>1, <1>3, <3>1
  <2>2. ASSUME NEW i \in 1..KeyBits, i - 1 \in S
        PROVE  i \in S
    <3>1. at[i] = Step(at[i - 1], KeyBits - i) /\ i \in 0..KeyBits
      BY <1>1, <1>3
    <3>2. IsFoldState(Step(at[i - 1], KeyBits - i))
      BY <2>2, FoldStepTaken
    <3> QED BY <3>1, <3>2
  <2>3. 0..KeyBits \subseteq S
    <3> HIDE DEF S
    <3> QED BY <1>3, <2>1, <2>2, UpTo
  <2> QED BY <2>3
<1>5. ASSUME NEW i \in 1..KeyBits, at[i].hash # None
      PROVE  at[i - 1].hash # None /\ Junction(target, KeyBits - i, at[i - 1].hash, at[i].hash)
  <2>1. at[i] = Step(at[i - 1], KeyBits - i) /\ i - 1 \in 0..KeyBits
    BY <1>1, <1>3
  <2>2. IsFoldState(at[i - 1])
    BY <1>4, <2>1
  <2> QED BY <1>5, <2>1, <2>2, FoldStepTaken
<1>6. \A i \in 0..KeyBits : at[i].hash # None
  <2> DEFINE S == {k \in 0..KeyBits : at[KeyBits - k].hash # None}
  <2>1. 0 \in S
    BY <1>2, <1>3
  <2>2. ASSUME NEW k \in 1..KeyBits, k - 1 \in S
        PROVE  k \in S
    <3>1. KeyBits - (k - 1) \in 1..KeyBits /\ (KeyBits - (k - 1)) - 1 = KeyBits - k /\ k \in 0..KeyBits
      BY <1>3
    <3>2. at[KeyBits - (k - 1)].hash # None
      BY <2>2
    <3>3. at[KeyBits - k].hash # None
      BY <1>5, <3>1, <3>2
    <3> QED BY <3>1, <3>3
  <2>3. 0..KeyBits \subseteq S
    <3> HIDE DEF S
    <3> QED BY <1>3, <2>1, <2>2, UpTo
  <2> TAKE i \in 0..KeyBits
  <2>4. KeyBits - i \in 0..KeyBits /\ KeyBits - (KeyBits - i) = i
    BY <1>3
  <2>5. KeyBits - i \in S
    BY <2>3, <2>4
  <2> QED BY <2>4, <2>5
<1>7. h[0] = leaf_hash(terminal, value) /\ h[KeyBits] = root_of
  BY <1>1, <1>2, <1>3 DEF Terminal
<1>8. ASSUME NEW i \in 1..KeyBits
      PROVE  Junction(target, KeyBits - i, h[i - 1], h[i])
  <2>1. i \in 0..KeyBits /\ i - 1 \in 0..KeyBits
    BY <1>3
  <2>2. at[i].hash # None
    BY <1>6, <2>1
  <2>3. Junction(target, KeyBits - i, at[i - 1].hash, at[i].hash)
    BY <1>5, <2>2
  <2> QED BY <2>1, <2>3
<1> HIDE DEF h
<1>9. \A i \in 0..KeyBits : NotAbove(h[i], KeyBits - i)
  <2> DEFINE S == {i \in 0..KeyBits : NotAbove(h[i], KeyBits - i)}
  <2>1. 0 \in S
    BY <1>3, <1>7 DEF NotAbove, leaf_hash
  <2>2. ASSUME NEW i \in 1..KeyBits, i - 1 \in S
        PROVE  i \in S
    <3>1. KeyBits - i \in Nat /\ KeyBits - (i - 1) = (KeyBits - i) + 1 /\ i \in 0..KeyBits
      BY <1>3
    <3>2. NotAbove(h[i - 1], (KeyBits - i) + 1)
      BY <2>2, <3>1
    <3>3. NotAbove(h[i], KeyBits - i)
      BY <1>8, <3>1, <3>2, JunctionDepth
    <3> QED BY <3>1, <3>3
  <2>3. 0..KeyBits \subseteq S
    <3> HIDE DEF S
    <3> QED BY <1>3, <2>1, <2>2, UpTo
  <2> QED BY <2>3
<1> QED BY <1>7, <1>8, <1>9 DEF StatePath

(* Two paths along one key that meet have met one depth below.             *)
LEMMA JunctionsMeet ==
  ASSUME NEW target, NEW depth \in Nat, NEW below, NEW below2, NEW above,
         Junction(target, depth, below, above), Junction(target, depth, below2, above),
         NotAbove(below, depth + 1), NotAbove(below2, depth + 1)
  PROVE  below = below2
<1> DEFINE bit == bit_at(target, depth)
           Joins(b) == \E region, s : above = Branch(bit, depth, region, s, b)
<1>1. ASSUME NEW b, Joins(b)
      PROVE  /\ above[1] = "node" /\ above[2] = depth
             /\ b = IF bit = 1 THEN above[5] ELSE above[4]
  BY <1>1 DEF Branch, node_hash
<1>2. ASSUME NEW b, above = b, NotAbove(b, depth + 1)
      PROVE  ~(above[1] = "node" /\ above[2] = depth)
  BY <1>2 DEF NotAbove
<1>3. (above = below \/ Joins(below)) /\ (above = below2 \/ Joins(below2))
  BY DEF Junction
<1> HIDE DEF Joins
<1> QED BY <1>1, <1>2, <1>3

(* What a root commits to: for one key, one terminal leaf.                 *)
LEMMA OneTerminal ==
  ASSUME NEW target, NEW root_of,
         NEW h, NEW terminal, NEW value, StatePath(h, target, terminal, value, root_of),
         NEW g, NEW terminal2, NEW value2, StatePath(g, target, terminal2, value2, root_of)
  PROVE  terminal = terminal2 /\ value = value2
<1> DEFINE S == {k \in 0..KeyBits : h[KeyBits - k] = g[KeyBits - k]}
<1>1. KeyBits \in Nat
  BY RadixAssumption
<1>2. 0 \in S
  BY <1>1 DEF StatePath
<1>3. ASSUME NEW k \in 1..KeyBits, k - 1 \in S
      PROVE  k \in S
  <2> DEFINE i == KeyBits - (k - 1)
  <2>1. /\ i \in 1..KeyBits /\ i - 1 = KeyBits - k /\ i - 1 \in 0..KeyBits /\ k \in 0..KeyBits
        /\ KeyBits - i \in Nat /\ KeyBits - (i - 1) = (KeyBits - i) + 1
    BY <1>1
  <2>2. h[i] = g[i]
    BY <1>3
  <2> HIDE DEF i
  <2>3. /\ Junction(target, KeyBits - i, h[i - 1], h[i]) /\ NotAbove(h[i - 1], (KeyBits - i) + 1)
        /\ Junction(target, KeyBits - i, g[i - 1], g[i]) /\ NotAbove(g[i - 1], (KeyBits - i) + 1)
    BY <2>1 DEF StatePath
  <2>4. h[i - 1] = g[i - 1]
    BY <2>1, <2>2, <2>3, JunctionsMeet
  <2> QED BY <2>1, <2>4
<1>4. 0..KeyBits \subseteq S
  <2> HIDE DEF S
  <2> QED BY <1>1, <1>2, <1>3, UpTo
<1>5. h[0] = g[0]
  <2>1. KeyBits \in S /\ KeyBits - KeyBits = 0
    BY <1>1, <1>4
  <2> QED BY <2>1
<1>6. leaf_hash(terminal, value) = leaf_hash(terminal2, value2)
  BY <1>5 DEF StatePath
<1> QED BY <1>6 DEF leaf_hash

-----------------------------------------------------------------------------
(* Answers.                                                                *)

(* What a terminal leaf says about a key.                                  *)
Told(key, terminal, value) ==
  [key   |-> key,
   state |-> IF terminal = key THEN "Present" ELSE "Absent",
   value |-> IF terminal = key THEN value ELSE None]

(* What a state tree says about a key.                                     *)
Shown(root_of, key, a) ==
  \/ root_of = None /\ a = [key |-> key, state |-> "Absent", value |-> None]
  \/ /\ root_of # None
     /\ \E h, terminal, value : /\ StatePath(h, key, terminal, value, root_of)
                                /\ a = Told(key, terminal, value)

(* What some certificate under a seal hash says about a key.               *)
Supported(hash, key, a) ==
  \E uc : /\ AboutKey(uc, key) /\ FoldsTo(uc, hash)
          /\ Shown(root_hash(uc.input_record).value, key, a)

(* Under one seal hash there is one answer about a key.                    *)
LEMMA OneAnswer ==
  ASSUME NEW hash, NEW key, NEW a, NEW b, Supported(hash, key, a), Supported(hash, key, b)
  PROVE  a = b
<1>1. PICK uc : /\ AboutKey(uc, key) /\ FoldsTo(uc, hash)
                /\ Shown(root_hash(uc.input_record).value, key, a)
  BY DEF Supported
<1>2. PICK uc2 : /\ AboutKey(uc2, key) /\ FoldsTo(uc2, hash)
                 /\ Shown(root_hash(uc2.input_record).value, key, b)
  BY DEF Supported
<1>3. uc.input_record = uc2.input_record
  BY <1>1, <1>2, OneInputRecord
<1> DEFINE root_of == root_hash(uc.input_record).value
<1>4. Shown(root_of, key, a) /\ Shown(root_of, key, b)
  BY <1>1, <1>2, <1>3
<1> HIDE DEF root_of
<1>5. CASE root_of = None
  BY <1>4, <1>5 DEF Shown
<1>6. CASE root_of # None
  <2>1. PICK h, terminal, value : /\ StatePath(h, key, terminal, value, root_of)
                                  /\ a = Told(key, terminal, value)
    BY <1>4, <1>6 DEF Shown
  <2>2. PICK g, terminal2, value2 : /\ StatePath(g, key, terminal2, value2, root_of)
                                    /\ b = Told(key, terminal2, value2)
    BY <1>4, <1>6 DEF Shown
  <2>3. terminal = terminal2 /\ value = value2
    BY <2>1, <2>2, OneTerminal
  <2> QED BY <2>1, <2>2, <2>3
<1> QED BY <1>5, <1>6

-----------------------------------------------------------------------------
(* Sessions whose memos are earned: the seals carry a quorum, and the      *)
(* certificates fold to the hash of a seal that does.                      *)

Sessions(S, B) ==
  [capacity : Nat, validated : BOOLEAN, memo : Seq(S), bodies : Seq(B), quorum_checks : Nat]

Sound(uc) == uc.folds_to_seal_hash /\ quorum_met(TrustBase, uc.unicity_seal)

Earned(s) ==
  \E S, B : /\ s \in Sessions(S, B)
            /\ \A seal \in S : quorum_met(TrustBase, seal)
            /\ \A b \in B : Sound(b.uc)

(* A result of a verifier.                                                 *)
IsResult(r) == \E v, s : r = [verdict |-> v, session |-> s] /\ Earned(s)

LEMMA ResultOf ==
  ASSUME NEW v, NEW s, Earned(s), NEW r, r = [verdict |-> v, session |-> s]
  PROVE  IsResult(r) /\ r.verdict = v /\ r.session = s
BY DEF IsResult

LEMMA ResultParts ==
  ASSUME NEW r, IsResult(r)
  PROVE  r = [verdict |-> r.verdict, session |-> r.session] /\ Earned(r.session)
BY DEF IsResult

LEMMA NewIsEarned == Earned(NewSession(Capacity))
<1>1. NewSession(Capacity) \in Sessions({}, {})
  BY ServedAssumption DEF NewSession, Sessions
<1> QED BY <1>1 DEF Earned

(* A bounded memo of elements of S stays one of S and the new element.     *)
LEMMA RememberKeeps ==
  ASSUME NEW S, NEW memo \in Seq(S), NEW x, NEW capacity \in Nat
  PROVE  Remember(capacity, memo, x) \in Seq(S \cup {x})
<1>1. memo \in Seq(S \cup {x})
  OBVIOUS
<1>2. CASE capacity # 0 /\ Len(memo) = capacity
  <2>1. memo # <<>>
    BY <1>2
  <2>2. Tail(memo) \in Seq(S \cup {x})
    BY <1>1, <2>1, HeadTailProperties
  <2> QED BY <1>2, <2>2, AppendProperties DEF Remember
<1>3. CASE capacity = 0 \/ Len(memo) # capacity
  BY <1>1, <1>3, AppendProperties DEF Remember
<1> QED BY <1>2, <1>3

(* Rules with names of errors.                                             *)
Named(rules) == \E n \in 0..7 : DOMAIN rules = 1..n /\ \A i \in 1..n : rules[i].error # "Ok"

LEMMA FirstErrorIsNamed ==
  ASSUME NEW rules, Named(rules), ~Passes(rules)
  PROVE  FirstError(rules) # "Ok"
<1> DEFINE First(i) == ~rules[i].holds /\ \A j \in DOMAIN rules : j < i => rules[j].holds
           f == CHOOSE i \in DOMAIN rules : First(i)
<1>1. PICK n \in 0..7 : DOMAIN rules = 1..n /\ \A i \in 1..n : rules[i].error # "Ok"
  BY DEF Named
<1>2. \E i \in DOMAIN rules : First(i)
  BY <1>1 DEF Passes
<1>3. f \in DOMAIN rules
  BY <1>2
<1>4. FirstError(rules) = rules[f].error
  BY DEF FirstError
<1> QED BY <1>1, <1>3, <1>4

LEMMA RulesAreNamed ==
  ASSUME NEW tb, NEW seal, NEW uc, NEW context, NEW c
  PROVE  /\ Named(SealRules(tb, seal)) /\ Named(PartitionRules(uc)) /\ Named(BodyRules(tb, uc))
         /\ Named(StrictRules(uc, context)) /\ Named(EndRules(uc, context))
         /\ Named(MembershipRules(c)) /\ Named(WitnessRules(c))
         /\ Named(TargetRules(c)) /\ Named(AbsenceRules(c))
<1> DEFINE Fails(rules, n) == DOMAIN rules = 1..n /\ \A i \in 1..n : rules[i].error # "Ok"
<1>1. \A rules : \A n \in 0..7 : Fails(rules, n) => Named(rules)
  BY DEF Named
<1>2. Fails(SealRules(tb, seal), 5) /\ Fails(PartitionRules(uc), 1)
  BY DEF SealRules, PartitionRules, Rule
<1>3. Fails(BodyRules(tb, uc), 4) /\ Fails(EndRules(uc, context), 1)
  BY DEF BodyRules, EndRules, Rule
<1>4. Fails(StrictRules(uc, context), 5)
  BY DEF StrictRules, Rule
<1>5. Fails(MembershipRules(c), 7)
  BY DEF MembershipRules, Rule
<1>6. Fails(WitnessRules(c), 1) /\ Fails(TargetRules(c), 1) /\ Fails(AbsenceRules(c), 2)
  BY DEF WitnessRules, TargetRules, AbsenceRules, Rule
<1> HIDE DEF Fails
<1> QED BY <1>1, <1>2, <1>3, <1>4, <1>5, <1>6

(* A check that succeeds is one of a success, and its rules hold.          *)
LEMMA CheckSucceeds ==
  ASSUME NEW r, IsResult(r), NEW rules, Named(rules)
  PROVE  /\ IsResult(Check(r, rules))
         /\ Check(r, rules).verdict = "Ok" => r.verdict = "Ok" /\ Passes(rules)
         /\ Check(r, rules).session = r.session
<1>1. r = [verdict |-> r.verdict, session |-> r.session] /\ Earned(r.session)
  BY ResultParts
<1>2. CASE Failed(r) \/ Passes(rules)
  <2>1. Check(r, rules) = r
    BY <1>2 DEF Check
  <2> QED BY <1>2, <2>1 DEF Failed
<1>3. CASE ~(Failed(r) \/ Passes(rules))
  <2>1. Check(r, rules) = [verdict |-> FirstError(rules), session |-> r.session]
    BY <1>1, <1>3 DEF Check, Fail
  <2>2. FirstError(rules) # "Ok"
    BY <1>3, FirstErrorIsNamed
  <2>3. /\ IsResult(Check(r, rules)) /\ Check(r, rules).verdict = FirstError(rules)
        /\ Check(r, rules).session = r.session
    BY <1>1, <2>1, ResultOf
  <2> QED BY <2>2, <2>3
<1> QED BY <1>2, <1>3

(* ensure_trust_base.                                                      *)
LEMMA TrustSucceeds ==
  ASSUME NEW r, IsResult(r)
  PROVE  LET new == ensure_trust_base(TrustBase, r)
         IN IsResult(new) /\ (new.verdict = "Ok" => r.verdict = "Ok")
<1> DEFINE new == ensure_trust_base(TrustBase, r)
<1>1. PICK v, s : r = [verdict |-> v, session |-> s] /\ Earned(s)
  BY DEF IsResult
<1>2. CASE Failed(r) \/ s.validated
  BY <1>1, <1>2 DEF ensure_trust_base
<1>3. CASE ~Failed(r) /\ ~s.validated /\ validate(TrustBase)
  <2> DEFINE t == [s EXCEPT !.validated = TRUE]
  <2>1. new = [verdict |-> v, session |-> t]
    BY <1>1, <1>3 DEF ensure_trust_base
  <2>2. Earned(t)
    <3>1. PICK S, B : /\ s \in Sessions(S, B)
                      /\ \A seal \in S : quorum_met(TrustBase, seal)
                      /\ \A b \in B : Sound(b.uc)
      BY <1>1 DEF Earned
    <3>2. t \in Sessions(S, B)
      BY <3>1 DEF Sessions
    <3> HIDE DEF t
    <3> QED BY <3>1, <3>2 DEF Earned
  <2> HIDE DEF t, new
  <2>3. IsResult(new) /\ new.verdict = v
    BY <2>1, <2>2, ResultOf
  <2> QED BY <1>1, <1>3, <2>3 DEF Failed, new
<1>4. CASE ~Failed(r) /\ ~s.validated /\ ~validate(TrustBase)
  <2>1. new = [verdict |-> "InvalidTrustBase", session |-> s]
    BY <1>1, <1>4 DEF ensure_trust_base, Fail
  <2> HIDE DEF new
  <2>2. IsResult(new) /\ new.verdict = "InvalidTrustBase"
    BY <1>1, <2>1, ResultOf
  <2> QED BY <2>2 DEF new
<1> QED BY <1>1, <1>2, <1>3, <1>4

(* check_quorum.                                                           *)
LEMMA QuorumChecked ==
  ASSUME NEW r, IsResult(r), NEW seal
  PROVE  LET new == check_quorum(TrustBase, r, seal)
         IN IsResult(new) /\ (new.verdict = "Ok" => r.verdict = "Ok" /\ quorum_met(TrustBase, seal))
<1> DEFINE new == check_quorum(TrustBase, r, seal)
<1>1. PICK v, s : r = [verdict |-> v, session |-> s] /\ Earned(s)
  BY DEF IsResult
<1>2. PICK S, B : /\ s \in Sessions(S, B)
                  /\ \A x \in S : quorum_met(TrustBase, x)
                  /\ \A b \in B : Sound(b.uc)
  BY <1>1 DEF Earned
<1> DEFINE c == [s EXCEPT !.quorum_checks = s.quorum_checks + 1]
           m == Remember(s.capacity, s.memo, seal)
           d == [c EXCEPT !.memo = m]
<1>3. c \in Sessions(S, B) /\ c.memo = s.memo
  BY <1>2 DEF Sessions
<1>4. CASE quorum_met(TrustBase, seal)
  <2>1. new = [verdict |-> v, session |-> d]
    BY <1>1, <1>3, <1>4 DEF check_quorum
  <2>2. m \in Seq(S \cup {seal})
    <3>1. s.memo \in Seq(S) /\ s.capacity \in Nat
      BY <1>2 DEF Sessions
    <3> QED BY <3>1, RememberKeeps
  <2>3. d \in Sessions(S \cup {seal}, B)
    <3> HIDE DEF c, m
    <3> QED BY <1>3, <2>2 DEF Sessions
  <2> HIDE DEF d, new
  <2>4. Earned(d)
    <3>1. \A x \in S \cup {seal} : quorum_met(TrustBase, x)
      BY <1>2, <1>4
    <3> QED BY <1>2, <2>3, <3>1 DEF Earned
  <2>5. IsResult(new) /\ new.verdict = v
    BY <2>1, <2>4, ResultOf
  <2> QED BY <1>1, <1>4, <2>5 DEF new
<1>5. CASE ~quorum_met(TrustBase, seal)
  <2>1. new = [verdict |-> "QuorumNotMet", session |-> c]
    BY <1>1, <1>5 DEF check_quorum
  <2> HIDE DEF c, new
  <2>2. Earned(c)
    BY <1>2, <1>3 DEF Earned
  <2>3. IsResult(new) /\ new.verdict = "QuorumNotMet"
    BY <2>1, <2>2, ResultOf
  <2> QED BY <2>3 DEF new
<1> QED BY <1>4, <1>5

(* A remembered seal carries a quorum, a remembered certificate is sound.  *)
LEMMA MemosAreEarned ==
  ASSUME NEW s, Earned(s), NEW seal, NEW policy, NEW uc
  PROVE  /\ Remembered(s, seal) => quorum_met(TrustBase, seal)
         /\ body_verified(s, policy, uc) => Sound(uc)
<1>1. PICK S, B : /\ s \in Sessions(S, B)
                  /\ \A x \in S : quorum_met(TrustBase, x)
                  /\ \A b \in B : Sound(b.uc)
  BY DEF Earned
<1>2. s.memo \in Seq(S) /\ s.bodies \in Seq(B)
  BY <1>1 DEF Sessions
<1>3. Remembered(s, seal) => seal \in S
  BY <1>2 DEF Remembered, Holds
<1>4. body_verified(s, policy, uc) => [policy |-> policy, uc |-> uc] \in B
  BY <1>2 DEF body_verified, Holds
<1>5. [policy |-> policy, uc |-> uc].uc = uc
  OBVIOUS
<1> QED BY <1>1, <1>3, <1>4, <1>5

(* verify_quorum_under.                                                    *)
LEMMA QuorumSucceeds ==
  ASSUME NEW r0, IsResult(r0), NEW seal
  PROVE  LET new == verify_quorum_under(TrustBase, r0, seal)
         IN IsResult(new) /\ (new.verdict = "Ok" => r0.verdict = "Ok" /\ quorum_met(TrustBase, seal))
<1> DEFINE new == verify_quorum_under(TrustBase, r0, seal)
           r == ensure_trust_base(TrustBase, r0)
<1>1. IsResult(r) /\ (r.verdict = "Ok" => r0.verdict = "Ok")
  BY TrustSucceeds
<1>2. new = IF Failed(r) THEN r ELSE IF Remembered(r.session, seal) THEN r
            ELSE check_quorum(TrustBase, r, seal)
  BY DEF verify_quorum_under
<1> HIDE DEF r, new
<1>3. CASE Failed(r)
  BY <1>1, <1>2, <1>3 DEF Failed, new
<1>4. CASE ~Failed(r) /\ Remembered(r.session, seal)
  <2>1. quorum_met(TrustBase, seal)
    BY <1>1, <1>4, ResultParts, MemosAreEarned
  <2> QED BY <1>1, <1>2, <1>4, <2>1 DEF new
<1>5. CASE ~Failed(r) /\ ~Remembered(r.session, seal)
  BY <1>1, <1>2, <1>5, QuorumChecked DEF new
<1> QED BY <1>3, <1>4, <1>5

(* authenticate_seal_under.                                                *)
LEMMA SealSucceeds ==
  ASSUME NEW r, IsResult(r), NEW seal
  PROVE  LET new == authenticate_seal_under(TrustBase, r, seal)
         IN IsResult(new) /\ (new.verdict = "Ok" => r.verdict = "Ok" /\ quorum_met(TrustBase, seal))
<1> DEFINE a == ensure_trust_base(TrustBase, r)
           b == Check(a, SealRules(TrustBase, seal))
<1>1. IsResult(a) /\ (a.verdict = "Ok" => r.verdict = "Ok")
  BY TrustSucceeds
<1> HIDE DEF a
<1>2. IsResult(b) /\ (b.verdict = "Ok" => a.verdict = "Ok")
  BY <1>1, CheckSucceeds, RulesAreNamed
<1>3. authenticate_seal_under(TrustBase, r, seal) = verify_quorum_under(TrustBase, b, seal)
  BY DEF authenticate_seal_under, a
<1> HIDE DEF b
<1> QED BY <1>1, <1>2, <1>3, QuorumSucceeds

(* remember_body.                                                          *)
LEMMA BodyRemembered ==
  ASSUME NEW r, IsResult(r), NEW policy, NEW uc, r.verdict = "Ok" => Sound(uc)
  PROVE  LET new == remember_body(r, policy, uc)
         IN IsResult(new) /\ new.verdict = r.verdict
<1> DEFINE new == remember_body(r, policy, uc)
<1>1. CASE Failed(r)
  BY <1>1 DEF remember_body
<1>2. CASE ~Failed(r)
  <2>1. PICK v, s : r = [verdict |-> v, session |-> s] /\ Earned(s)
    BY DEF IsResult
  <2>2. PICK S, B : /\ s \in Sessions(S, B)
                    /\ \A x \in S : quorum_met(TrustBase, x)
                    /\ \A b \in B : Sound(b.uc)
    BY <2>1 DEF Earned
  <2> DEFINE body == [policy |-> policy, uc |-> uc]
             m == Remember(s.capacity, s.bodies, body)
             t == [s EXCEPT !.bodies = m]
  <2>3. new = [verdict |-> v, session |-> t]
    BY <1>2, <2>1 DEF remember_body
  <2>4. Sound(body.uc)
    BY <1>2, <2>1 DEF Failed
  <2> HIDE DEF body
  <2>5. m \in Seq(B \cup {body})
    <3>1. s.bodies \in Seq(B) /\ s.capacity \in Nat
      BY <2>2 DEF Sessions
    <3> QED BY <3>1, RememberKeeps
  <2>6. t \in Sessions(S, B \cup {body})
    <3> HIDE DEF m
    <3> QED BY <2>2, <2>5 DEF Sessions
  <2> HIDE DEF t, new
  <2>7. Earned(t)
    <3>1. \A b \in B \cup {body} : Sound(b.uc)
      BY <2>2, <2>4
    <3> QED BY <2>2, <2>6, <3>1 DEF Earned
  <2>8. IsResult(new) /\ new.verdict = v
    BY <2>3, <2>7, ResultOf
  <2> QED BY <2>1, <2>8 DEF new
<1> QED BY <1>1, <1>2

(* What the certificate verifiers establish, whether they looked at the    *)
(* certificate or remembered it.                                           *)
Certified(uc) == uc.aggregation_partition /\ Sound(uc)

LEMMA CertificateSucceeds ==
  ASSUME NEW r0, IsResult(r0), NEW uc, NEW policy
  PROVE  LET new == verify_unicity_certificate(TrustBase, r0, uc, policy)
         IN IsResult(new) /\ (new.verdict = "Ok" => r0.verdict = "Ok" /\ Certified(uc))
<1> DEFINE new == verify_unicity_certificate(TrustBase, r0, uc, policy)
           r == Check(r0, PartitionRules(uc))
           b == Check(r, BodyRules(TrustBase, uc))
           q == verify_quorum_under(TrustBase, b, uc.unicity_seal)
           m == remember_body(q, policy, uc)
<1>1. /\ IsResult(r)
      /\ r.verdict = "Ok" => r0.verdict = "Ok" /\ Passes(PartitionRules(uc))
  BY CheckSucceeds, RulesAreNamed
<1>2. Passes(PartitionRules(uc)) => uc.aggregation_partition
  BY DEF Passes, PartitionRules, Rule
<1>3. new = IF Failed(r) THEN r ELSE IF body_verified(r.session, policy, uc) THEN r ELSE m
  BY DEF verify_unicity_certificate
<1> HIDE DEF new, r
<1>4. CASE Failed(r)
  BY <1>1, <1>3, <1>4 DEF Failed, new
<1>5. CASE ~Failed(r) /\ body_verified(r.session, policy, uc)
  <2>1. Sound(uc)
    BY <1>1, <1>5, ResultParts, MemosAreEarned
  <2> QED BY <1>1, <1>2, <1>3, <1>5, <2>1 DEF Certified, new
<1>6. CASE ~Failed(r) /\ ~body_verified(r.session, policy, uc)
  <2>1. IsResult(b) /\ (b.verdict = "Ok" => r.verdict = "Ok" /\ Passes(BodyRules(TrustBase, uc)))
    BY <1>1, CheckSucceeds, RulesAreNamed
  <2>2. Passes(BodyRules(TrustBase, uc)) => uc.folds_to_seal_hash
    BY DEF Passes, BodyRules, Rule
  <2> HIDE DEF b
  <2>3. /\ IsResult(q)
        /\ q.verdict = "Ok" => b.verdict = "Ok" /\ quorum_met(TrustBase, uc.unicity_seal)
    BY <2>1, QuorumSucceeds
  <2> HIDE DEF q
  <2>4. q.verdict = "Ok" => Sound(uc)
    BY <2>1, <2>2, <2>3 DEF Sound
  <2>5. IsResult(m) /\ m.verdict = q.verdict
    BY <2>3, <2>4, BodyRemembered
  <2> HIDE DEF m
  <2> QED BY <1>1, <1>2, <1>3, <1>6, <2>1, <2>3, <2>4, <2>5 DEF Certified, new
<1> QED BY <1>4, <1>5, <1>6

LEMMA StrictSucceeds ==
  ASSUME NEW r0, IsResult(r0), NEW uc, NEW context
  PROVE  LET new == verify_unicity_certificate_strict(TrustBase, r0, uc, context)
         IN IsResult(new) /\ (new.verdict = "Ok" => r0.verdict = "Ok" /\ Certified(uc))
<1> DEFINE new == verify_unicity_certificate_strict(TrustBase, r0, uc, context)
           r == Check(r0, PartitionRules(uc))
           b == Check(r, StrictRules(uc, context))
           q == authenticate_seal_under(TrustBase, b, uc.unicity_seal)
           e == Check(q, EndRules(uc, context))
           m == remember_body(e, context, uc)
<1>1. /\ IsResult(r)
      /\ r.verdict = "Ok" => r0.verdict = "Ok" /\ Passes(PartitionRules(uc))
  BY CheckSucceeds, RulesAreNamed
<1>2. Passes(PartitionRules(uc)) => uc.aggregation_partition
  BY DEF Passes, PartitionRules, Rule
<1>3. new = IF Failed(r) THEN r ELSE IF body_verified(r.session, context, uc) THEN r ELSE m
  BY DEF verify_unicity_certificate_strict
<1> HIDE DEF new, r
<1>4. CASE Failed(r)
  BY <1>1, <1>3, <1>4 DEF Failed, new
<1>5. CASE ~Failed(r) /\ body_verified(r.session, context, uc)
  <2>1. Sound(uc)
    BY <1>1, <1>5, ResultParts, MemosAreEarned
  <2> QED BY <1>1, <1>2, <1>3, <1>5, <2>1 DEF Certified, new
<1>6. CASE ~Failed(r) /\ ~body_verified(r.session, context, uc)
  <2>1. IsResult(b) /\ (b.verdict = "Ok" => r.verdict = "Ok" /\ Passes(StrictRules(uc, context)))
    BY <1>1, CheckSucceeds, RulesAreNamed
  <2>2. Passes(StrictRules(uc, context)) => uc.folds_to_seal_hash
    BY DEF Passes, StrictRules, Rule
  <2> HIDE DEF b
  <2>3. /\ IsResult(q)
        /\ q.verdict = "Ok" => b.verdict = "Ok" /\ quorum_met(TrustBase, uc.unicity_seal)
    BY <2>1, SealSucceeds
  <2> HIDE DEF q
  <2>4. IsResult(e) /\ (e.verdict = "Ok" => q.verdict = "Ok")
    BY <2>3, CheckSucceeds, RulesAreNamed
  <2> HIDE DEF e
  <2>5. e.verdict = "Ok" => Sound(uc)
    BY <2>1, <2>2, <2>3, <2>4 DEF Sound
  <2>6. IsResult(m) /\ m.verdict = e.verdict
    BY <2>4, <2>5, BodyRemembered
  <2> HIDE DEF m
  <2> QED BY <1>1, <1>2, <1>3, <1>6, <2>1, <2>3, <2>4, <2>5, <2>6 DEF Certified, new
<1> QED BY <1>4, <1>5, <1>6

(* A rule that holds is its condition.                                     *)
LEMMA RuleHolds ==
  ASSUME NEW condition, NEW error, Rule(condition, error).holds
  PROVE  condition
BY DEF Rule

(* What the proof verifiers establish.                                     *)
LEMMA MembershipSucceeds ==
  ASSUME NEW r, IsResult(r), NEW c
  PROVE  LET new == verify_membership_under(TrustBase, r, c)
         IN /\ IsResult(new)
            /\ new.verdict = "Ok" => Certified(c.uc) /\ c.path_valid /\ c.state_id \in c.uc.shard
<1> DEFINE new == verify_membership_under(TrustBase, r, c)
           t == ensure_trust_base(TrustBase, r)
           a == Check(t, MembershipRules(c))
           u == verify_unicity_certificate(TrustBase, a, c.uc, c.policy)
<1>1. IsResult(t)
  BY TrustSucceeds
<1> HIDE DEF t
<1>2. IsResult(a) /\ (a.verdict = "Ok" => Passes(MembershipRules(c)))
  BY <1>1, CheckSucceeds, RulesAreNamed
<1>3. Passes(MembershipRules(c)) => c.path_valid /\ c.state_id \in c.uc.shard
  <2> DEFINE rules == MembershipRules(c)
             within == c.state_id \in c.uc.shard
  <2>1. DOMAIN rules = 1..7
    BY DEF MembershipRules
  <2>2. rules[6] = Rule(c.path_valid, "PathInvalid")
    BY DEF MembershipRules
  <2>3. rules[7] = Rule(within, "ShardMismatch")
    BY DEF MembershipRules
  <2> HIDE DEF rules, within
  <2>4. Passes(rules) => rules[6].holds /\ rules[7].holds
    BY <2>1 DEF Passes
  <2>5. Passes(rules) => c.path_valid /\ within
    BY <2>2, <2>3, <2>4, RuleHolds
  <2> QED BY <2>5 DEF rules, within
<1> HIDE DEF a
<1>4. IsResult(u) /\ (u.verdict = "Ok" => a.verdict = "Ok" /\ Certified(c.uc))
  BY <1>2, CertificateSucceeds
<1>5. new = Check(u, WitnessRules(c))
  BY DEF verify_membership_under, a, t
<1> HIDE DEF u, new
<1>6. IsResult(new) /\ (new.verdict = "Ok" => u.verdict = "Ok")
  BY <1>4, <1>5, CheckSucceeds, RulesAreNamed
<1> QED BY <1>2, <1>3, <1>4, <1>6 DEF new

LEMMA AbsenceSucceeds ==
  ASSUME NEW r, IsResult(r), NEW c
  PROVE  LET new == verify_non_inclusion_in(TrustBase, r, c)
         IN /\ IsResult(new)
            /\ new.verdict = "Ok" => Certified(c.uc) /\ c.path_valid /\ c.target \in c.uc.shard
<1> DEFINE new == verify_non_inclusion_in(TrustBase, r, c)
           t == ensure_trust_base(TrustBase, r)
           a == Check(t, TargetRules(c))
           u == verify_unicity_certificate_strict(TrustBase, a, c.uc, c.policy)
<1>1. IsResult(t)
  BY TrustSucceeds
<1> HIDE DEF t
<1>2. IsResult(a)
  BY <1>1, CheckSucceeds, RulesAreNamed
<1> HIDE DEF a
<1>3. IsResult(u) /\ (u.verdict = "Ok" => Certified(c.uc))
  BY <1>2, StrictSucceeds
<1>4. new = Check(u, AbsenceRules(c))
  BY DEF verify_non_inclusion_in, a, t
<1> HIDE DEF u, new
<1>5. IsResult(new) /\ (new.verdict = "Ok" => u.verdict = "Ok" /\ Passes(AbsenceRules(c)))
  BY <1>3, <1>4, CheckSucceeds, RulesAreNamed
<1>6. Passes(AbsenceRules(c)) => c.path_valid /\ c.target \in c.uc.shard
  <2> DEFINE rules == AbsenceRules(c)
             within == c.target \in c.uc.shard /\ (c.terminal = None \/ c.terminal \in c.uc.shard)
  <2>1. DOMAIN rules = 1..2
    BY DEF AbsenceRules
  <2>2. rules[1] = Rule(c.path_valid, "NonInclusionCertificateInvalid")
    BY DEF AbsenceRules
  <2>3. rules[2] = Rule(within, "ShardMismatch")
    BY DEF AbsenceRules
  <2> HIDE DEF rules, within
  <2>4. Passes(rules) => rules[1].holds /\ rules[2].holds
    BY <2>1 DEF Passes
  <2>5. Passes(rules) => c.path_valid /\ within
    BY <2>2, <2>3, <2>4, RuleHolds
  <2> QED BY <2>5 DEF rules, within
<1> QED BY <1>3, <1>5, <1>6 DEF new

-----------------------------------------------------------------------------
(* Accepted proofs.                                                        *)

(* A certificate whose paths are lists and that has the hash of the world, *)
(* if its seal has a quorum.                                               *)
Decoded(uc, hash) ==
  /\ uc.shard_tree_certificate.shard.length \in Nat
  /\ Len(uc.unicity_tree_certificate.steps) \in Nat
  /\ quorum_met(TrustBase, uc.unicity_seal) => uc.unicity_seal.hash = hash

LEMMA JudgedParts ==
  ASSUME NEW uc
  PROVE  /\ Judged(uc).aggregation_partition =>
              uc.unicity_tree_certificate.partition_identifier = AggregationPartition
         /\ Judged(uc).folds_to_seal_hash => FoldsTo(uc, uc.unicity_seal.hash)
         /\ Judged(uc).shard = KeysOf(uc.shard_tree_certificate.shard)
         /\ Judged(uc).unicity_seal = uc.unicity_seal
         /\ Judged(uc).state_root = IF root_hash(uc.input_record).ok
                                    THEN root_hash(uc.input_record).value ELSE None
<1> DEFINE partition == uc.unicity_tree_certificate.partition_identifier = AggregationPartition
           folds == computed_seal_hash(uc).ok /\ computed_seal_hash(uc).value = uc.unicity_seal.hash
<1>1. Judged(uc).aggregation_partition = partition
  BY DEF Judged
<1>2. Judged(uc).folds_to_seal_hash = folds
  BY DEF Judged
<1>3. /\ Judged(uc).shard = KeysOf(uc.shard_tree_certificate.shard)
      /\ Judged(uc).unicity_seal = uc.unicity_seal
      /\ Judged(uc).state_root = IF root_hash(uc.input_record).ok
                                 THEN root_hash(uc.input_record).value ELSE None
  BY DEF Judged
<1>4. folds => FoldsTo(uc, uc.unicity_seal.hash)
  BY DEF FoldsTo
<1> QED BY ONLY <1>1, <1>2, <1>3, <1>4, Zenon

LEMMA CertifiedAboutKey ==
  ASSUME NEW uc, NEW key, NEW hash, Decoded(uc, hash), Certified(Judged(uc)), key \in Judged(uc).shard
  PROVE  AboutKey(uc, key) /\ FoldsTo(uc, hash)
BY JudgedParts DEF Decoded, Certified, Sound, AboutKey

(* What a path that leads to a root shows.                                 *)
LEMMA InclusionShows ==
  ASSUME NEW cert, NEW key, NEW value, NEW root_of, verify_inclusion(cert, key, value, root_of)
  PROVE  root_of # None /\ Shown(root_of, key, [key |-> key, state |-> "Present", value |-> value])
<1>1. root_of # None /\ fold_certificate_path(cert.bitmap, cert.siblings, key, key, value) = root_of
  BY DEF verify_inclusion
<1>2. PICK h : StatePath(h, key, key, value, root_of)
  BY <1>1, FoldIsPath
<1>3. Told(key, key, value) = [key |-> key, state |-> "Present", value |-> value]
  BY DEF Told
<1> QED BY <1>1, <1>2, <1>3 DEF Shown

LEMMA TerminalShows ==
  ASSUME NEW cert, NEW key, NEW root_of, authenticates(cert, key, root_of)
  PROVE  LET present == terminal_matches(cert, key)
         IN Shown(root_of, key, [key   |-> key,
                                 state |-> IF present THEN "Present" ELSE "Absent",
                                 value |-> IF present THEN cert.terminal_value ELSE None])
<1>1. CASE cert = None /\ root_of = None
  BY <1>1 DEF terminal_matches, Shown
<1>2. CASE ~(cert = None /\ root_of = None)
  <2>1. /\ cert # None /\ root_of # None
        /\ fold_certificate_path(cert.bitmap, cert.siblings, key,
                                 cert.terminal_key, cert.terminal_value) = root_of
    BY <1>2 DEF authenticates
  <2>2. PICK h : StatePath(h, key, cert.terminal_key, cert.terminal_value, root_of)
    BY <2>1, FoldIsPath
  <2> DEFINE present == terminal_matches(cert, key)
             a == [key   |-> key,
                   state |-> IF present THEN "Present" ELSE "Absent",
                   value |-> IF present THEN cert.terminal_value ELSE None]
  <2>3. present <=> cert.terminal_key = key
    BY <2>1 DEF terminal_matches
  <2> HIDE DEF present
  <2>4. a = Told(key, cert.terminal_key, cert.terminal_value)
    BY <2>3 DEF Told
  <2> HIDE DEF a
  <2>5. Shown(root_of, key, a)
    BY <2>1, <2>2, <2>4 DEF Shown
  <2> QED BY <2>5 DEF a, present
<1> QED BY <1>1, <1>2

(* Accepted claims are about the world's hash.                             *)
LEMMA MembershipIsSupported ==
  ASSUME NEW uc, NEW p, NEW hash, Decoded(uc, hash), Certified(MembershipClaim(uc, p).uc),
         MembershipClaim(uc, p).path_valid,
         MembershipClaim(uc, p).state_id \in MembershipClaim(uc, p).uc.shard
  PROVE  Supported(hash, p.key, [key |-> p.key, state |-> "Present", value |-> p.value])
<1> DEFINE valid == p.cert # None /\ verify_inclusion(p.cert, p.key, p.value, Judged(uc).state_root)
           a == [key |-> p.key, state |-> "Present", value |-> p.value]
           root_of == root_hash(uc.input_record)
<1>1. MembershipClaim(uc, p).uc = Judged(uc) /\ MembershipClaim(uc, p).state_id = p.key
  BY DEF MembershipClaim
<1>2. MembershipClaim(uc, p).path_valid = valid
  BY DEF MembershipClaim
<1>3. valid
  BY ONLY <1>2, MembershipClaim(uc, p).path_valid, Zenon
<1>4. AboutKey(uc, p.key) /\ FoldsTo(uc, hash)
  BY <1>1, CertifiedAboutKey
<1>5. Judged(uc).state_root # None /\ Shown(Judged(uc).state_root, p.key, a)
  BY <1>3, InclusionShows
<1>6. Judged(uc).state_root = root_of.value
  BY <1>5, JudgedParts
<1> HIDE DEF a, root_of
<1> QED BY <1>4, <1>5, <1>6 DEF Supported, a, root_of

LEMMA AbsenceIsSupported ==
  ASSUME NEW uc, NEW p, NEW hash, Decoded(uc, hash), Certified(AbsenceClaim(uc, p).uc),
         AbsenceClaim(uc, p).path_valid,
         AbsenceClaim(uc, p).target \in AbsenceClaim(uc, p).uc.shard
  PROVE  LET present == terminal_matches(p.cert, p.key)
         IN Supported(hash, p.key, [key   |-> p.key,
                                    state |-> IF present THEN "Present" ELSE "Absent",
                                    value |-> IF present THEN p.cert.terminal_value ELSE None])
<1> DEFINE root_of == root_hash(uc.input_record)
           valid == root_of.ok /\ authenticates(p.cert, p.key, root_of.value)
           present == terminal_matches(p.cert, p.key)
           a == [key   |-> p.key,
                 state |-> IF present THEN "Present" ELSE "Absent",
                 value |-> IF present THEN p.cert.terminal_value ELSE None]
<1>1. AbsenceClaim(uc, p).uc = Judged(uc) /\ AbsenceClaim(uc, p).target = p.key
  BY DEF AbsenceClaim
<1>2. AbsenceClaim(uc, p).path_valid = valid
  BY DEF AbsenceClaim
<1>3. valid
  BY ONLY <1>2, AbsenceClaim(uc, p).path_valid, Zenon
<1>4. AboutKey(uc, p.key) /\ FoldsTo(uc, hash)
  BY <1>1, CertifiedAboutKey
<1>5. Shown(root_of.value, p.key, a)
  BY <1>3, TerminalShows
<1> HIDE DEF a
<1>6. Supported(hash, p.key, a)
  BY <1>4, <1>5 DEF Supported
<1> QED BY <1>6 DEF a

-----------------------------------------------------------------------------
(* Views and their certificates.                                           *)

LEMMA StartedIsResult ==
  ASSUME NEW s, Earned(s)
  PROVE  IsResult(Started(s))
BY ResultOf DEF Started

LEMMA SealedSession ==
  ASSUME NEW s, Earned(s), NEW seal
  PROVE  Earned(authenticate_seal_under(TrustBase, Started(s), seal).session)
<1>1. IsResult(authenticate_seal_under(TrustBase, Started(s), seal))
  BY StartedIsResult, SealSucceeds
<1> QED BY <1>1, ResultParts

(* Authentication keeps the session earned, and a view has the leaves that *)
(* were served and the seal and partition path of the certificate.         *)
LEMMA AuthenticationReturns ==
  ASSUME NEW s, Earned(s), NEW v, NEW enclosing, NEW pins
  PROVE  LET r == authenticate_with(TrustBase, s, v, enclosing, pins)
         IN /\ Earned(r.session)
            /\ r.view # None =>
                 /\ r.view.leaves = v.leaves
                 /\ r.view.seal = enclosing.unicity_seal
                 /\ r.view.unicity_tree_certificate = enclosing.unicity_tree_certificate
<1> DEFINE tree == IF pins = None /\ ~check_bounds(v) THEN Err("bounds")
                   ELSE verify_tree(v, enclosing, TopologyOf(v, pins))
           sealed == authenticate_seal_under(TrustBase, Started(s), enclosing.unicity_seal)
           refused == Fail(Started(s), tree.error)
           r == IF tree.ok THEN sealed ELSE refused
           auth == [partition_id |-> v.partition_id, leaves |-> v.leaves, tree |-> tree.value,
                    policy |-> view_policy(pins), seal |-> enclosing.unicity_seal,
                    unicity_tree_certificate |-> enclosing.unicity_tree_certificate,
                    identity |-> [authority |-> TrustBase, policy |-> view_policy(pins),
                                  seal |-> enclosing.unicity_seal]]
           ret == [verdict |-> r.verdict, session |-> r.session,
                   view |-> IF Failed(r) THEN None ELSE auth]
<1>1. authenticate_with(TrustBase, s, v, enclosing, pins) = ret
  BY DEF authenticate_with
<1>2. Earned(sealed.session)
  BY SealedSession
<1>3. refused.session = s
  BY DEF Fail, Started
<1>4. /\ auth.leaves = v.leaves /\ auth.seal = enclosing.unicity_seal
      /\ auth.unicity_tree_certificate = enclosing.unicity_tree_certificate
  OBVIOUS
<1> HIDE DEF tree, sealed, refused, auth
<1>5. Earned(r.session)
  BY <1>2, <1>3
<1> HIDE DEF r
<1>6. ret.session = r.session /\ (ret.view = None \/ ret.view = auth)
  OBVIOUS
<1> HIDE DEF ret
<1> QED BY <1>1, <1>4, <1>5, <1>6

LEMMA AssemblyReturns ==
  ASSUME NEW s, Earned(s), NEW v, NEW enclosing, NEW topology
  PROVE  Earned(assemble_certificates(TrustBase, s, v, enclosing, topology).session)
<1> DEFINE order == canonical_order(topology.scheme)
           r == authenticate_with(TrustBase, s, v, enclosing, topology)
           ucs == certificates(r.view)
           derived == IF ucs.ok
                      THEN [verdict |-> "Ok", session |-> r.session, certificates |-> ucs.value]
                      ELSE Fail(Started(r.session), ucs.error)
           taken == IF Failed(r) THEN r ELSE derived
           missing == \E i \in DOMAIN order.value : shard_conf_hash(topology, order.value[i]) = None
           new == IF ~order.ok THEN Fail(Started(s), order.error)
                  ELSE IF missing THEN Fail(Started(s), "ConfigHashRequired") ELSE taken
<1>1. assemble_certificates(TrustBase, s, v, enclosing, topology) = new
  BY DEF assemble_certificates
<1>2. Earned(r.session)
  BY AuthenticationReturns
<1>3. \A t, e : Fail(Started(t), e).session = t
  BY DEF Fail, Started
<1> HIDE DEF r, ucs, order, missing
<1>4. derived.session = r.session
  BY <1>3
<1> HIDE DEF derived
<1> QED BY <1>1, <1>2, <1>3, <1>4

(* Shard ids that were decoded have a length.                              *)
LEMMA DecodedLength ==
  ASSUME NEW data, data \in Seq({0, 1}), decode(data) # None
  PROVE  decode(data).length \in Nat
<1> DEFINE marked == {i \in DOMAIN data : i > Len(data) - ByteBits /\ data[i] = 1}
           end == CHOOSE i \in marked : \A j \in marked : j <= i
<1>1. Len(data) \in Nat /\ DOMAIN data = 1..Len(data)
  OBVIOUS
<1>2. marked # {}
  BY DEF decode
<1>3. marked \subseteq 1..Len(data)
  BY <1>1
<1>4. decode(data).length = end - 1
  BY <1>2 DEF decode
<1> HIDE DEF marked
<1>5. \E i \in marked : \A j \in marked : j <= i
  BY <1>1, <1>2, <1>3, Greatest
<1>6. end \in 1..Len(data)
  BY <1>3, <1>5
<1> HIDE DEF end
<1> QED BY <1>1, <1>4, <1>6

LEMMA ServedLeaves ==
  ASSUME NEW w \in Worlds, NEW wire \in Wires(w), from_cbor(wire).ok
  PROVE  LET leaves == from_cbor(wire).value.leaves
         IN \A i \in DOMAIN leaves : leaves[i].shard_id.length \in Nat
<1> DEFINE leaves == [i \in DOMAIN wire.leaves |-> [wire.leaves[i] EXCEPT !.shard_id = decode(@)]]
           v == [partition_id |-> wire.partition_id, leaves |-> leaves]
<1>1. /\ ~\E i \in DOMAIN v.leaves : v.leaves[i].shard_id = None
      /\ from_cbor(wire) = Ok(v)
  <2> DEFINE missing == \E i \in DOMAIN v.leaves : v.leaves[i].shard_id = None
  <2>1. from_cbor(wire) =
          IF ~wire.well_formed THEN Err("CBOR")
          ELSE IF wire.version # 1 THEN Err("unsupported version")
          ELSE IF missing THEN Err("shard id")
          ELSE IF ~check_bounds(v) THEN Err("bounds")
          ELSE IF to_cbor(v) # wire THEN Err("not canonical") ELSE Ok(v)
    BY DEF from_cbor
  <2>2. \A e : ~Err(e).ok
    BY DEF Err
  <2> HIDE DEF v, missing
  <2>3. ~missing /\ from_cbor(wire) = Ok(v)
    BY <2>1, <2>2
  <2> QED BY <2>3 DEF missing
<1>2. from_cbor(wire).value.leaves = leaves
  <2>1. Ok(v).value = v
    BY DEF Ok
  <2>2. v.leaves = leaves
    OBVIOUS
  <2> HIDE DEF v, leaves
  <2> QED BY <1>1, <2>1, <2>2
<1>3. ASSUME NEW i \in DOMAIN leaves
      PROVE  leaves[i].shard_id.length \in Nat
  <2>1. i \in DOMAIN wire.leaves
    OBVIOUS
  <2>2. wire.leaves[i].shard_id \in Seq({0, 1}) /\ "shard_id" \in DOMAIN wire.leaves[i]
    <3> DEFINE l == wire.leaves[i]
    <3>1. l.shard_id \in Seq({0, 1}) /\ IsLeafRecord(l)
      BY <2>1, ServedAssumption
    <3> HIDE DEF l
    <3>2. "shard_id" \in DOMAIN l
      BY <3>1 DEF IsLeafRecord
    <3> QED BY <3>1, <3>2 DEF l
  <2>3. leaves[i].shard_id = decode(wire.leaves[i].shard_id)
    BY <2>1, <2>2
  <2>4. leaves[i].shard_id # None
    BY <1>1
  <2> HIDE DEF leaves
  <2> QED BY <2>2, <2>3, <2>4, DecodedLength
<1> HIDE DEF leaves
<1> QED BY <1>2, <1>3

(* The certificates of a view that was served in a world, and those that   *)
(* anybody serves in it, are decoded.                                      *)
ViewServed ==
  view # None =>
    /\ committed \in Worlds
    /\ Len(view.unicity_tree_certificate.steps) \in Nat
    /\ quorum_met(TrustBase, view.seal) => view.seal.hash = committed.seal.hash
    /\ \A i \in DOMAIN view.leaves : view.leaves[i].shard_id.length \in Nat

LEMMA DerivedParts ==
  ASSUME NEW i, derive(view, i).ok
  PROVE  LET uc == derive(view, i).value
         IN /\ uc.shard_tree_certificate.shard = view.leaves[i].shard_id
            /\ uc.unicity_tree_certificate = view.unicity_tree_certificate
            /\ uc.unicity_seal = view.seal
<1> DEFINE leaf == view.leaves[i]
           path == certificate(view.tree, leaf.shard_id)
           uc == [input_record |-> leaf.input_record, technical_record_hash |-> leaf.tr_hash,
                  shard_configuration_hash |-> leaf.shard_conf_hash,
                  shard_tree_certificate |-> path.value,
                  unicity_tree_certificate |-> view.unicity_tree_certificate,
                  unicity_seal |-> view.seal]
<1>1. derive(view, i) = IF ~path.ok THEN path ELSE Ok(uc)
  BY DEF derive
<1>2. path.ok => path.value.shard = leaf.shard_id
  BY DEF certificate, Ok, Err
<1>3. /\ uc.shard_tree_certificate = path.value
      /\ uc.unicity_tree_certificate = view.unicity_tree_certificate
      /\ uc.unicity_seal = view.seal
  OBVIOUS
<1>4. Ok(uc).value = uc
  BY DEF Ok
<1> HIDE DEF path, uc
<1>5. path.ok /\ derive(view, i).value = uc
  BY <1>1, <1>4
<1> QED BY <1>2, <1>3, <1>5

LEMMA PresentedAreDecoded ==
  ASSUME ViewServed, view # None, NEW uc \in Presented
  PROVE  Decoded(uc, committed.seal.hash)
<1> DEFINE derived == [i \in DOMAIN view.leaves |-> derive(view, i)]
           failed == {i \in DOMAIN derived : ~derived[i].ok}
           values == [i \in DOMAIN derived |-> derived[i].value]
           result == certificates(view)
<1>1. CASE uc \in Forged(committed)
  BY <1>1, ServedAssumption DEF ViewServed, Decoded
<1>2. CASE uc \notin Forged(committed)
  <2>1. result.ok /\ uc \in ToSet(result.value)
    BY <1>2 DEF Presented
  <2> DEFINE first == CHOOSE i \in failed : TRUE
  <2>2. result = IF failed # {} THEN derived[first] ELSE Ok(values)
    BY DEF certificates
  <2>3. failed # {} => ~derived[first].ok
    <3>1. failed # {} => first \in failed
      OBVIOUS
    <3> HIDE DEF first
    <3> QED BY <3>1
  <2>4. failed = {} /\ result = Ok(values)
    <3> HIDE DEF derived, values, first, failed
    <3> QED BY <2>1, <2>2, <2>3
  <2>5. result.value = values
    BY <2>4 DEF Ok
  <2>6. PICK i \in DOMAIN values : uc = values[i]
    BY <2>1, <2>5 DEF ToSet
  <2>7. i \in DOMAIN view.leaves /\ derive(view, i).ok /\ uc = derive(view, i).value
    BY <2>4, <2>6
  <2>8. /\ uc.shard_tree_certificate.shard = view.leaves[i].shard_id
        /\ uc.unicity_tree_certificate = view.unicity_tree_certificate
        /\ uc.unicity_seal = view.seal
    BY <2>7, DerivedParts
  <2> HIDE DEF derived, failed, values, result
  <2> QED BY <2>7, <2>8 DEF ViewServed, Decoded
<1> QED BY <1>1, <1>2

-----------------------------------------------------------------------------
(* The inductive invariant: what was proved is supported under the hash of *)
(* the seal that was committed to.                                         *)

Proven(list, hash) ==
  \E S : list \in Seq(S) /\ \A a \in S : Supported(hash, a.key, a)

Untouched == answer.op = "none" => view = None /\ proved = <<>>

IInv ==
  /\ committed \in Worlds \cup {None}
  /\ Earned(session)
  /\ ViewServed
  /\ Untouched
  /\ Proven(proved, committed.seal.hash)

LEMMA NothingProven == ASSUME NEW hash PROVE Proven(<<>>, hash)
<1> DEFINE none == {}
<1>1. <<>> \in Seq(none) /\ \A a \in none : Supported(hash, a.key, a)
  OBVIOUS
<1> HIDE DEF none
<1> QED BY <1>1 DEF Proven

LEMMA OneMoreProven ==
  ASSUME NEW hash, NEW list, Proven(list, hash), NEW a, Supported(hash, a.key, a)
  PROVE  Proven(Append(list, a), hash)
<1>1. PICK S : list \in Seq(S) /\ \A b \in S : Supported(hash, b.key, b)
  BY DEF Proven
<1>2. list \in Seq(S \cup {a})
  BY <1>1
<1>3. Append(list, a) \in Seq(S \cup {a})
  BY <1>2, AppendProperties
<1>4. \A b \in S \cup {a} : Supported(hash, b.key, b)
  BY <1>1
<1> QED BY <1>3, <1>4 DEF Proven

LEMMA InitEstablishes == Init => IInv
<1> SUFFICES ASSUME Init PROVE IInv
  OBVIOUS
<1>1. Proven(proved, committed.seal.hash)
  BY NothingProven DEF Init
<1>2. Earned(session)
  BY NewIsEarned DEF Init
<1> QED BY <1>1, <1>2 DEF Init, IInv, ViewServed, Untouched

(* Calls that change none of it.                                           *)
LEMMA SameKeeps ==
  ASSUME IInv, UNCHANGED <<committed, session, view, proved>>, answer'.op # "none"
  PROVE  IInv'
BY DEF IInv, ViewServed, Untouched, Proven, Supported

LEMMA SealKeeps ==
  ASSUME IInv, NEW world \in Worlds, Seal(world)
  PROVE  IInv'
<1>1. /\ committed' = world /\ view' = None /\ proved' = <<>> /\ session' = session
      /\ answer'.op = "sealed"
  BY DEF Seal, IInv, Untouched
<1>2. Proven(proved', committed'.seal.hash)
  BY <1>1, NothingProven
<1>3. ViewServed' /\ Untouched'
  BY <1>1 DEF ViewServed, Untouched
<1> QED BY <1>1, <1>2, <1>3 DEF IInv

LEMMA AuthenticateKeeps ==
  ASSUME IInv, committed # None, NEW wire \in Wires(committed), NEW uc \in Enclosings(committed),
         NEW pins, Authenticate(wire, uc, pins)
  PROVE  IInv'
<1> DEFINE d == from_cbor(wire)
           r == IF d.ok THEN authenticate_with(TrustBase, session, d.value, uc, pins)
                ELSE [verdict |-> d.error, session |-> session, view |-> None]
<1>1. /\ session' = r.session /\ view' = r.view /\ committed' = committed /\ proved' = proved
      /\ answer'.op = "authenticate"
  BY DEF Authenticate
<1>2. committed \in Worlds /\ Earned(session) /\ Proven(proved, committed.seal.hash)
  BY DEF IInv
<1>3. /\ Earned(r.session)
      /\ r.view # None => /\ d.ok /\ r.view.leaves = d.value.leaves /\ r.view.seal = uc.unicity_seal
                          /\ r.view.unicity_tree_certificate = uc.unicity_tree_certificate
  <2>1. CASE d.ok
    BY <1>2, <2>1, AuthenticationReturns
  <2>2. CASE ~d.ok
    BY <1>2, <2>2
  <2> QED BY <2>1, <2>2
<1>4. d.ok => \A i \in DOMAIN d.value.leaves : d.value.leaves[i].shard_id.length \in Nat
  BY <1>2, ServedLeaves
<1>5. /\ Len(uc.unicity_tree_certificate.steps) \in Nat
      /\ quorum_met(TrustBase, uc.unicity_seal) => uc.unicity_seal.hash = committed.seal.hash
  BY <1>2, ServedAssumption
<1> HIDE DEF r, d
<1>6. ViewServed'
  BY <1>1, <1>2, <1>3, <1>4, <1>5 DEF ViewServed
<1>7. Untouched' /\ Earned(session')
  BY <1>1, <1>3 DEF Untouched
<1>8. Proven(proved', committed'.seal.hash)
  BY <1>1, <1>2
<1> QED BY <1>1, <1>2, <1>6, <1>7, <1>8 DEF IInv

LEMMA AssembleKeeps ==
  ASSUME IInv, NEW wire, NEW uc, NEW pins, Assemble(wire, uc, pins)
  PROVE  IInv'
<1> DEFINE d == from_cbor(wire)
           r == assemble_certificates(TrustBase, session, d.value, uc, pins)
<1>1. /\ session' = r.session /\ view' = view /\ committed' = committed /\ proved' = proved
      /\ answer'.op = "assemble"
  BY DEF Assemble
<1>2. Earned(r.session)
  BY AssemblyReturns DEF IInv
<1> HIDE DEF r
<1>3. Proven(proved', committed'.seal.hash)
  BY <1>1 DEF IInv
<1> QED BY <1>1, <1>2, <1>3 DEF IInv, ViewServed, Untouched

LEMMA MembershipKeeps ==
  ASSUME IInv, view # None, NEW uc \in Presented, NEW p, CheckMembership(uc, p)
  PROVE  IInv'
<1> DEFINE c == MembershipClaim(uc, p)
           r == verify_membership_under(TrustBase, Started(session), c)
           a == [key |-> p.key, state |-> "Present", value |-> p.value]
           hash == committed.seal.hash
<1>1. /\ session' = r.session /\ view' = view /\ committed' = committed /\ answer'.op = "membership"
      /\ proved' = IF Failed(r) THEN proved ELSE Append(proved, a)
  BY DEF CheckMembership
<1>2. IsResult(r) /\ (r.verdict = "Ok" => Certified(c.uc) /\ c.path_valid /\ c.state_id \in c.uc.shard)
  <2>1. IsResult(Started(session))
    BY StartedIsResult DEF IInv
  <2> HIDE DEF c
  <2> QED BY <2>1, MembershipSucceeds
<1>3. Decoded(uc, hash)
  BY PresentedAreDecoded DEF IInv
<1>4. r.verdict = "Ok" => Supported(hash, p.key, a)
  <2> HIDE DEF r, hash
  <2> QED BY <1>2, <1>3, MembershipIsSupported
<1>5. a.key = p.key
  OBVIOUS
<1> HIDE DEF r, a, c
<1>6. Proven(proved', committed'.seal.hash)
  BY <1>1, <1>4, <1>5, OneMoreProven DEF IInv, Failed
<1>7. Earned(session')
  BY <1>1, <1>2, ResultParts
<1> QED BY <1>1, <1>6, <1>7 DEF IInv, ViewServed, Untouched

LEMMA AbsenceKeeps ==
  ASSUME IInv, view # None, NEW uc \in Presented, NEW p, CheckAbsence(uc, p)
  PROVE  IInv'
<1> DEFINE c == AbsenceClaim(uc, p)
           r == verify_non_inclusion_in(TrustBase, Started(session), c)
           present == terminal_matches(p.cert, p.key)
           a == [key   |-> p.key,
                 state |-> IF present THEN "Present" ELSE "Absent",
                 value |-> IF present THEN p.cert.terminal_value ELSE None]
           hash == committed.seal.hash
<1>1. /\ session' = r.session /\ view' = view /\ committed' = committed /\ answer'.op = "absence"
      /\ proved' = IF Failed(r) THEN proved ELSE Append(proved, a)
  BY DEF CheckAbsence
<1>2. IsResult(r) /\ (r.verdict = "Ok" => Certified(c.uc) /\ c.path_valid /\ c.target \in c.uc.shard)
  <2>1. IsResult(Started(session))
    BY StartedIsResult DEF IInv
  <2> HIDE DEF c
  <2> QED BY <2>1, AbsenceSucceeds
<1>3. Decoded(uc, hash)
  BY PresentedAreDecoded DEF IInv
<1>4. r.verdict = "Ok" => Supported(hash, p.key, a)
  <2> HIDE DEF r, hash
  <2> QED BY <1>2, <1>3, AbsenceIsSupported
<1>5. a.key = p.key
  OBVIOUS
<1> HIDE DEF r, a, c
<1>6. Proven(proved', committed'.seal.hash)
  BY <1>1, <1>4, <1>5, OneMoreProven DEF IInv, Failed
<1>7. Earned(session')
  BY <1>1, <1>2, ResultParts
<1> QED BY <1>1, <1>6, <1>7 DEF IInv, ViewServed, Untouched

(* Every step keeps it, one case for a disjunct of Next.                   *)
LEMMA StepKeeps == IInv /\ [Next]_vars => IInv'
<1> SUFFICES ASSUME IInv, [Next]_vars PROVE IInv'
  OBVIOUS
<1>1. ASSUME NEW data \in Encodings, DecodeId(data) PROVE IInv'
  BY <1>1, SameKeeps DEF DecodeId
<1>2. ASSUME NEW k \in Configurations, Configure(k.scheme, k.endpoints) PROVE IInv'
  BY <1>2, SameKeeps DEF Configure
<1>3. ASSUME NEW items \in Bundles, Admit(items) PROVE IInv'
  BY <1>3, SameKeeps DEF Admit
<1>4. ASSUME NEW world \in Worlds, Seal(world) PROVE IInv'
  BY <1>4, SealKeeps
<1>5. ASSUME committed # None, NEW w \in Wires(committed), NEW uc \in Enclosings(committed),
             NEW pins \in Pins(committed), Authenticate(w, uc, pins) \/ Assemble(w, uc, pins)
      PROVE  IInv'
  BY <1>5, AuthenticateKeeps, AssembleKeeps
<1>6. ASSUME view # None, NEW shard \in ConfiguredIds, CertificateOf(shard) PROVE IInv'
  BY <1>6, SameKeeps DEF CertificateOf
<1>7. ASSUME view # None, NEW uc \in Presented, NEW p \in Proofs(committed),
             CheckMembership(uc, p) \/ CheckAbsence(uc, p)
      PROVE  IInv'
  BY <1>7, MembershipKeeps, AbsenceKeeps
<1>8. CASE UNCHANGED vars
  BY <1>8 DEF vars, IInv, ViewServed, Untouched, Proven, Supported
<1> QED BY <1>1, <1>2, <1>3, <1>4, <1>5, <1>6, <1>7, <1>8 DEF Next

(* Everything the client accepted is what some certificate under the hash  *)
(* that the root chain committed to says about the key, and its session    *)
(* remembers only seals and certificates that were checked.                *)
THEOREM Invariance == Spec => []IInv
BY InitEstablishes, StepKeeps, PTL DEF Spec

(* No key is proved present and absent, or with two values, by the proof   *)
(* verifiers, whatever was served.                                         *)
THEOREM OneAnswerPerKey == Spec => []KeyHasOneAnswer
<1>1. IInv => KeyHasOneAnswer
  <2> SUFFICES ASSUME IInv, NEW i \in DOMAIN proved, NEW j \in DOMAIN proved,
                      proved[i].key = proved[j].key
               PROVE  proved[i] = proved[j]
    BY DEF KeyHasOneAnswer
  <2>1. PICK S : proved \in Seq(S) /\ \A a \in S : Supported(committed.seal.hash, a.key, a)
    BY DEF IInv, Proven
  <2>2. proved[i] \in S /\ proved[j] \in S
    BY <2>1
  <2> QED BY <2>1, <2>2, OneAnswer
<1> QED BY <1>1, Invariance, PTL

-----------------------------------------------------------------------------
(* The codec of shard identifiers.                                         *)

LEMMA MultiplesApart ==
  ASSUME NEW p \in Nat, NEW q \in Nat, p < q
  PROVE  p * ByteBits + ByteBits <= q * ByteBits
<1>1. (q - p - 1) * ByteBits >= 0
  BY ByteAssumption
<1>2. (q - p - 1) * ByteBits = q * ByteBits - p * ByteBits - ByteBits
  BY ByteAssumption
<1> QED BY <1>1, <1>2, ByteAssumption

LEMMA Division ==
  ASSUME NEW n \in Nat
  PROVE  /\ n \div ByteBits \in Nat /\ n % ByteBits \in 0..(ByteBits - 1)
         /\ n = (n \div ByteBits) * ByteBits + (n % ByteBits)
<1>1. n \div ByteBits \in Nat /\ n % ByteBits \in 0..(ByteBits - 1)
  BY ByteAssumption
<1>2. n = ByteBits * (n \div ByteBits) + (n % ByteBits)
  BY ByteAssumption
<1>3. ByteBits * (n \div ByteBits) = (n \div ByteBits) * ByteBits
  BY <1>1, ByteAssumption
<1> QED BY <1>1, <1>2, <1>3

(* The whole bytes of n bits are the next multiple.                        *)
LEMMA WholeBytesIs ==
  ASSUME NEW n \in Nat, NEW q \in Nat, n <= q * ByteBits, q * ByteBits < n + ByteBits
  PROVE  WholeBytes(n) = q * ByteBits
<1> DEFINE m == n + ByteBits - 1
           p == m \div ByteBits
           r == m % ByteBits
<1>1. m \in Nat /\ ByteBits \in Nat /\ ByteBits > 0
  BY ByteAssumption
<1>2. p \in Nat /\ r \in 0..(ByteBits - 1) /\ m = p * ByteBits + r
  <2> HIDE DEF m
  <2> QED BY <1>1, Division
<1> HIDE DEF p, r
<1>3. p * ByteBits \in Nat /\ q * ByteBits \in Nat
  BY <1>1, <1>2
<1>4. n <= p * ByteBits /\ p * ByteBits < n + ByteBits
  BY <1>1, <1>2, <1>3
<1>5. ~(p < q)
  <2> SUFFICES ASSUME p < q PROVE FALSE
    OBVIOUS
  <2>1. p * ByteBits + ByteBits <= q * ByteBits
    BY <1>2, MultiplesApart
  <2> QED BY <1>1, <1>3, <1>4, <2>1
<1>6. ~(q < p)
  <2> SUFFICES ASSUME q < p PROVE FALSE
    OBVIOUS
  <2>1. q * ByteBits + ByteBits <= p * ByteBits
    BY <1>2, MultiplesApart
  <2> QED BY <1>1, <1>3, <1>4, <2>1
<1>7. p = q
  BY <1>2, <1>5, <1>6
<1> QED BY <1>7 DEF WholeBytes, p

LEMMA WholeBytesAre ==
  ASSUME NEW n \in Nat
  PROVE  /\ WholeBytes(n) \in Nat /\ n <= WholeBytes(n)
         /\ WholeBytes(n) = IF n % ByteBits = 0 THEN n ELSE n - (n % ByteBits) + ByteBits
         /\ WholeBytes(n + 1) = n - (n % ByteBits) + ByteBits
<1> DEFINE q == n \div ByteBits
           r == n % ByteBits
<1>1. q \in Nat /\ r \in 0..(ByteBits - 1) /\ n = q * ByteBits + r
  BY Division
<1>2. ByteBits \in Nat /\ ByteBits > 0
  BY ByteAssumption
<1> HIDE DEF q, r
<1>3. q * ByteBits \in Nat /\ (q + 1) * ByteBits = q * ByteBits + ByteBits
  BY <1>1, <1>2
<1>4. WholeBytes(n + 1) = (q + 1) * ByteBits
  <2>1. n + 1 <= (q + 1) * ByteBits /\ (q + 1) * ByteBits < n + 1 + ByteBits
    BY <1>1, <1>2, <1>3
  <2> QED BY <1>1, <2>1, WholeBytesIs
<1>5. CASE r = 0
  <2>1. n <= q * ByteBits /\ q * ByteBits < n + ByteBits
    BY <1>1, <1>2, <1>3, <1>5
  <2>2. WholeBytes(n) = q * ByteBits
    BY <1>1, <2>1, WholeBytesIs
  <2> QED BY <1>1, <1>2, <1>3, <1>4, <1>5, <2>2 DEF r
<1>6. CASE r # 0
  <2>1. n <= (q + 1) * ByteBits /\ (q + 1) * ByteBits < n + ByteBits
    BY <1>1, <1>2, <1>3, <1>6
  <2>2. WholeBytes(n) = (q + 1) * ByteBits
    BY <1>1, <2>1, WholeBytesIs
  <2> QED BY <1>1, <1>2, <1>3, <1>4, <1>6, <2>2 DEF r
<1> QED BY <1>5, <1>6

(* The identifier of the first n bits of s.                                *)
Padded(s, n) ==
  [bits |-> [k \in 1..WholeBytes(n) |-> IF k <= n THEN s[k] ELSE 0], length |-> n]

LEMMA SplitPadded ==
  ASSUME NEW s \in Seq({0, 1}), NEW i \in Nat, i < Len(s)
  PROVE  split(Padded(s, i))[s[i + 1] + 1] = Padded(s, i + 1)
<1> DEFINE W == WholeBytes(i)
           V == WholeBytes(i + 1)
           r == i % ByteBits
           bits == [k \in 1..W |-> IF k <= i THEN s[k] ELSE 0]
           zero == IF r = 0 THEN bits \o Zeros(ByteBits) ELSE bits
           last == Len(zero) - ByteBits + r + 1
           Z == [k \in 1..V |-> IF k <= i THEN s[k] ELSE 0]
<1>1. /\ W \in Nat /\ i <= W /\ V = i - r + ByteBits /\ W = IF r = 0 THEN i ELSE i - r + ByteBits
      /\ r \in 0..(ByteBits - 1)
  BY WholeBytesAre, Division
<1>2. ByteBits \in Nat /\ ByteBits > 0
  BY ByteAssumption
<1>3. \A k \in 1..Len(s) : s[k] \in {0, 1}
  BY ElementOfSeq
<1> HIDE DEF W, V, r
<1>4. V \in Nat /\ i + 1 <= V
  BY <1>1, <1>2
<1>5. bits \in Seq({0, 1}) /\ Len(bits) = W
  BY <1>1, <1>3
<1>6. zero = Z
  <2>1. CASE r # 0
    <3>1. W = V
      BY <1>1, <2>1
    <3> QED BY <2>1, <3>1
  <2>2. CASE r = 0
    <3> DEFINE zs == Zeros(ByteBits)
    <3>1. zs \in Seq({0, 1}) /\ Len(zs) = ByteBits /\ \A k \in 1..ByteBits : zs[k] = 0
      BY <1>2 DEF Zeros
    <3>2. \A k \in 1..W : bits[k] = IF k <= i THEN s[k] ELSE 0
      OBVIOUS
    <3> HIDE DEF zs, bits
    <3>3. /\ bits \o zs \in Seq({0, 1}) /\ Len(bits \o zs) = W + ByteBits
          /\ \A k \in 1..(W + ByteBits) : (bits \o zs)[k] = IF k <= W THEN bits[k] ELSE zs[k - W]
      <4>1. Len(bits) = W /\ bits \in Seq({0, 1})
        BY <1>5
      <4> QED BY <3>1, <4>1, ConcatProperties
    <3>4. W = i /\ V = W + ByteBits
      BY <1>1, <2>2
    <3> DEFINE c == bits \o zs
    <3> HIDE DEF c
    <3>5. c \in Seq({0, 1}) /\ Len(c) = V
      BY <3>3, <3>4 DEF c
    <3>6. ASSUME NEW k \in 1..V PROVE c[k] = Z[k]
      <4>1. CASE k <= i
        <5>1. k \in 1..W /\ k \in 1..(W + ByteBits) /\ k <= W
          BY <1>1, <3>4, <4>1
        <5>2. c[k] = bits[k]
          BY <3>3, <5>1 DEF c
        <5>3. bits[k] = s[k]
          BY <3>2, <4>1, <5>1
        <5> QED BY <4>1, <5>2, <5>3
      <4>2. CASE ~(k <= i)
        <5>1. k - W \in 1..ByteBits
          BY <1>1, <1>2, <3>4, <4>2
        <5> QED BY <1>1, <3>1, <3>3, <3>4, <4>2, <5>1 DEF c
      <4> QED BY <4>1, <4>2
    <3>7. c = Z
      BY <3>5, <3>6
    <3> QED BY <2>2, <3>7 DEF c, zs
  <2> QED BY <2>1, <2>2
<1>7. Len(Z) = V
  BY <1>4
<1>8. last = i + 1
  BY <1>1, <1>2, <1>6, <1>7
<1>9. split(Padded(s, i)) = << [bits |-> zero, length |-> i + 1],
                               [bits |-> [zero EXCEPT ![last] = 1], length |-> i + 1] >>
  BY Zenon DEF split, Padded, W, r
<1> HIDE DEF zero, last
<1>10. s[i + 1] \in {0, 1}
  BY <1>3
<1> DEFINE P == [k \in 1..V |-> IF k <= i + 1 THEN s[k] ELSE 0]
<1>11. Padded(s, i + 1) = [bits |-> P, length |-> i + 1]
  BY DEF Padded, V
<1>12. ASSUME NEW k \in 1..V PROVE k <= i + 1 <=> (k <= i \/ k = i + 1)
  OBVIOUS
<1>13. CASE s[i + 1] = 0
  <2>1. Z = P
    BY <1>12, <1>13
  <2> HIDE DEF Z, P
  <2>2. s[i + 1] + 1 = 1
    BY <1>13
  <2>3. split(Padded(s, i))[1] = [bits |-> P, length |-> i + 1]
    BY <1>6, <1>9, <2>1
  <2> QED BY <1>11, <2>2, <2>3
<1>14. CASE s[i + 1] = 1
  <2>1. [Z EXCEPT ![i + 1] = 1] = P
    BY <1>4, <1>12, <1>14
  <2> HIDE DEF Z, P
  <2>2. s[i + 1] + 1 = 2
    BY <1>14
  <2>3. split(Padded(s, i))[2] = [bits |-> P, length |-> i + 1]
    BY <1>6, <1>8, <1>9, <2>1
  <2> QED BY <1>11, <2>2, <2>3
<1> QED BY <1>10, <1>13, <1>14

LEMMA IdSteps ==
  ASSUME NEW s \in Seq({0, 1})
  PROVE  IdOf(s) = Padded(s, Len(s))
<1> DEFINE Grown(f, i) == IF i = 0 THEN root ELSE split(f[i - 1])[s[i] + 1]
           IsId(f, n) == f = [i \in 0..n |-> Grown(f, i)]
           g == [i \in 0..Len(s) |-> Padded(s, i)]
<1>1. Len(s) \in Nat
  BY LenProperties
<1>2. Padded(s, 0) = root
  <2>1. 0 % ByteBits = 0
    BY ByteAssumption
  <2>2. WholeBytes(0) = 0
    BY <2>1, WholeBytesAre
  <2>3. [k \in 1..0 |-> IF k <= 0 THEN s[k] ELSE 0] = <<>>
    OBVIOUS
  <2> QED BY <2>2, <2>3 DEF Padded, root
<1>3. ASSUME NEW i \in 1..Len(s) PROVE split(Padded(s, i - 1))[s[i] + 1] = Padded(s, i)
  <2>1. i - 1 \in Nat /\ i - 1 < Len(s) /\ (i - 1) + 1 = i
    BY <1>1
  <2> QED BY <2>1, SplitPadded
<1>4. IsId(g, Len(s))
  <2>1. ASSUME NEW i \in 0..Len(s) PROVE g[i] = Grown(g, i)
    <3>1. CASE i = 0
      BY <1>2, <3>1
    <3>2. CASE i # 0
      <4>1. i \in 1..Len(s) /\ i - 1 \in 0..Len(s)
        BY <1>1, <3>2
      <4> QED BY <1>3, <3>2, <4>1
    <3> QED BY <3>1, <3>2
  <2>2. g = [i \in 0..Len(s) |-> g[i]]
    OBVIOUS
  <2> HIDE DEF g, Grown
  <2> QED BY <2>1, <2>2
<1> DEFINE h == CHOOSE f : IsId(f, Len(s))
<1>5. IsId(h, Len(s))
  <2> HIDE DEF IsId, g
  <2> QED BY <1>4
<1>6. IdOf(s) = h[Len(s)]
  BY Zenon DEF IdOf
<1> HIDE DEF h
<1> DEFINE N == {i \in 0..Len(s) : h[i] = Padded(s, i)}
<1>7. /\ h[0] = root
      /\ \A i \in 1..Len(s) : h[i] = split(h[i - 1])[s[i] + 1]
  <2>1. h = [i \in 0..Len(s) |-> Grown(h, i)]
    BY <1>5
  <2> HIDE DEF Grown
  <2>2. \A i \in 0..Len(s) : h[i] = Grown(h, i)
    BY <2>1
  <2>3. 0 \in 0..Len(s) /\ \A i \in 1..Len(s) : i \in 0..Len(s) /\ i # 0
    BY <1>1
  <2> QED BY <2>2, <2>3 DEF Grown
<1>8. 0 \in N
  BY <1>1, <1>2, <1>7
<1>9. ASSUME NEW i \in 1..Len(s), i - 1 \in N PROVE i \in N
  <2>1. h[i - 1] = Padded(s, i - 1) /\ i \in 0..Len(s)
    BY <1>9
  <2> QED BY <1>3, <1>7, <2>1
<1>10. 0..Len(s) \subseteq N
  <2> HIDE DEF N
  <2> QED BY <1>1, <1>8, <1>9, UpTo
<1> QED BY <1>1, <1>6, <1>10

LEMMA PaddedIsId ==
  ASSUME NEW s \in Seq({0, 1}), NEW n \in 0..Len(s)
  PROVE  Padded(s, n) \in [bits : Seq({0, 1}), length : Nat] /\ Padded(s, n) # None
<1>1. n \in Nat /\ WholeBytes(n) \in Nat
  BY LenProperties, WholeBytesAre
<1>2. \A k \in 1..Len(s) : s[k] \in {0, 1}
  BY ElementOfSeq
<1>3. \A k \in 1..WholeBytes(n) : k <= n => k \in 1..Len(s)
  BY <1>1, LenProperties
<1>4. [k \in 1..WholeBytes(n) |-> IF k <= n THEN s[k] ELSE 0] \in Seq({0, 1})
  BY <1>1, <1>2, <1>3
<1>5. Padded(s, n) \in [bits : Seq({0, 1}), length : Nat]
  BY <1>1, <1>4 DEF Padded
<1> QED BY <1>5, ByteAssumption

(* What is decoded: nothing, or the bits before the last one that is set   *)
(* in the last byte.                                                       *)
Marked(data) == {i \in DOMAIN data : i > Len(data) - ByteBits /\ data[i] = 1}

LEMMA DecodeIs ==
  ASSUME NEW data \in Seq({0, 1}), Marked(data) # {}
  PROVE  \E end \in Marked(data) : /\ \A j \in Marked(data) : j <= end
                                   /\ decode(data) = Padded(data, end - 1)
<1> DEFINE M == Marked(data)
           end == CHOOSE i \in M : \A j \in M : j <= i
<1>1. Len(data) \in Nat /\ DOMAIN data = 1..Len(data)
  BY LenProperties
<1>2. M \subseteq 1..Len(data)
  BY <1>1 DEF Marked
<1>3. \E i \in M : \A j \in M : j <= i
  <2> HIDE DEF M
  <2> QED BY <1>1, <1>2, Greatest DEF M
<1>4. end \in M /\ \A j \in M : j <= end
  <2> HIDE DEF M
  <2> QED BY <1>3
<1>5. decode(data) = [bits   |-> [i \in 1..WholeBytes(end - 1) |-> IF i < end THEN data[i] ELSE 0],
                      length |-> end - 1]
  <2>1. decode(data) = IF M = {} THEN None
                       ELSE [bits   |-> [i \in 1..WholeBytes(end - 1) |-> IF i < end THEN data[i] ELSE 0],
                             length |-> end - 1]
    BY Zenon DEF decode, Marked
  <2> QED BY <2>1
<1> HIDE DEF end, M
<1>6. end \in 1..Len(data)
  BY <1>2, <1>4
<1>7. \A i \in 1..WholeBytes(end - 1) : i < end <=> i <= end - 1
  BY <1>1, <1>6
<1>8. decode(data) = Padded(data, end - 1)
  BY <1>5, <1>7 DEF Padded
<1> QED BY <1>4, <1>8 DEF M

(* Encoding gives the bytes back.                                          *)
LEMMA EncodePadded ==
  ASSUME NEW data \in Seq({0, 1}), Len(data) % ByteBits = 0, NEW end \in Marked(data),
         \A j \in Marked(data) : j <= end
  PROVE  encode(Padded(data, end - 1)) = data
<1> DEFINE n == Len(data)
           q == n \div ByteBits
           e == end - 1
           p == e \div ByteBits
           r == e % ByteBits
           id == Padded(data, e)
           bytes == (p + 1) * ByteBits
<1>1. n \in Nat /\ DOMAIN data = 1..n /\ \A k \in 1..n : data[k] \in {0, 1}
  BY LenProperties, ElementOfSeq
<1>2. end \in 1..n /\ end > n - ByteBits /\ data[end] = 1
  BY <1>1 DEF Marked
<1>3. ByteBits \in Nat /\ ByteBits > 0
  BY ByteAssumption
<1>4. q \in Nat /\ n = q * ByteBits
  <2>1. n % ByteBits = 0
    OBVIOUS
  <2> HIDE DEF n
  <2>2. q \in Nat /\ n = q * ByteBits + (n % ByteBits)
    BY <1>1, Division
  <2>3. q * ByteBits \in Nat
    BY <1>3, <2>2
  <2> HIDE DEF q
  <2> QED BY <2>1, <2>2, <2>3
<1>5. e \in Nat /\ p \in Nat /\ r \in 0..(ByteBits - 1) /\ e = p * ByteBits + r
  <2>1. e \in Nat
    BY <1>1, <1>2
  <2> HIDE DEF e
  <2> QED BY <2>1, Division
<1> HIDE DEF n, q, e, p, r
<1>6. p * ByteBits \in Nat /\ bytes = p * ByteBits + ByteBits
  BY <1>3, <1>5
<1>7. end = e + 1
  BY <1>2, <1>1 DEF e
<1>8. bytes = n
  <2>1. bytes <= n
    <3>1. p < q
      <4> SUFFICES ASSUME ~(p < q) PROVE FALSE
        OBVIOUS
      <4>1. p = q \/ q < p
        BY <1>4, <1>5
      <4>2. q * ByteBits <= p * ByteBits
        <5>1. CASE p = q
          BY <1>4, <1>1, <5>1
        <5>2. CASE q < p
          <6>1. q * ByteBits + ByteBits <= p * ByteBits
            BY <1>4, <1>5, <5>2, MultiplesApart
          <6> QED BY <1>1, <1>3, <1>4, <1>6, <6>1
        <5> QED BY <4>1, <5>1, <5>2
      <4> QED BY <1>1, <1>2, <1>3, <1>4, <1>5, <1>6, <1>7, <4>2
    <3>2. p * ByteBits + ByteBits <= q * ByteBits
      BY <1>4, <1>5, <3>1, MultiplesApart
    <3> QED BY <1>4, <1>6, <3>2
  <2>2. ~(bytes < n)
    <3> SUFFICES ASSUME bytes < n PROVE FALSE
      OBVIOUS
    <3>1. p + 1 < q
      <4> SUFFICES ASSUME ~(p + 1 < q) PROVE FALSE
        OBVIOUS
      <4>1. p + 1 = q \/ q < p + 1
        BY <1>4, <1>5
      <4>2. CASE p + 1 = q
        BY <1>1, <1>4, <4>2
      <4>3. CASE q < p + 1
        <5>1. p + 1 \in Nat
          BY <1>5
        <5>2. q * ByteBits + ByteBits <= (p + 1) * ByteBits
          BY <1>4, <4>3, <5>1, MultiplesApart
        <5> QED BY <1>1, <1>3, <1>4, <1>6, <5>2
      <4> QED BY <4>1, <4>2, <4>3
    <3>2. (p + 1) * ByteBits + ByteBits <= q * ByteBits
      <4>1. p + 1 \in Nat
        BY <1>5
      <4> QED BY <1>4, <3>1, <4>1, MultiplesApart
    <3>3. e < bytes
      BY <1>3, <1>5, <1>6
    <3> QED BY <1>1, <1>2, <1>3, <1>4, <1>5, <1>6, <1>7, <3>2, <3>3
  <2> QED BY <1>1, <1>3, <1>6, <2>1, <2>2
<1>9. id.length = e /\ \A i \in 1..e : id.bits[i] = data[i]
  <2>1. e <= WholeBytes(e) /\ WholeBytes(e) \in Nat
    BY <1>5, WholeBytesAre
  <2>2. \A i \in 1..e : i \in 1..WholeBytes(e) /\ i <= e
    BY <1>5, <2>1
  <2> QED BY <2>2 DEF Padded
<1> HIDE DEF id
<1>10. encode(id) = [i \in 1..bytes |-> IF i <= e THEN id.bits[i] ELSE IF i = e + 1 THEN 1 ELSE 0]
  BY <1>9 DEF encode, p
<1> HIDE DEF bytes
<1>11. ASSUME NEW i \in 1..n
       PROVE  data[i] = IF i <= e THEN id.bits[i] ELSE IF i = e + 1 THEN 1 ELSE 0
  <2>1. CASE i <= e
    <3>1. i \in 1..e
      BY <1>1, <1>5, <2>1
    <3> QED BY <1>9, <2>1, <3>1
  <2>2. CASE i = e + 1
    BY <1>2, <1>5, <1>7, <2>2
  <2>3. CASE ~(i <= e) /\ i # e + 1
    <3>1. i > end /\ i > n - ByteBits /\ ~(i <= end)
      BY <1>1, <1>2, <1>3, <1>5, <1>7, <2>3
    <3>2. i \notin Marked(data)
      BY <3>1
    <3>3. data[i] # 1
      BY <1>1, <3>1, <3>2 DEF Marked, n
    <3>4. data[i] = 0
      BY <1>1, <3>3
    <3> QED BY <2>3, <3>4
  <2> QED BY <2>1, <2>2, <2>3
<1>12. data = [i \in 1..n |-> data[i]]
  BY <1>1
<1> QED BY <1>8, <1>10, <1>11, <1>12 DEF id, e

LEMMA Codec ==
  ASSUME NEW data \in Encodings
  PROVE  LET id == decode(data)
         IN IF id = None
            THEN data = <<>> \/ \A i \in (Len(data) - ByteBits + 1)..Len(data) : data[i] = 0
            ELSE encode(id) = data /\ id = IdOf(SubSeq(data, 1, id.length))
<1> DEFINE n == Len(data)
<1>1. data \in Seq({0, 1}) /\ n % ByteBits = 0
  BY ServedAssumption
<1>2. n \in Nat /\ DOMAIN data = 1..n /\ \A k \in 1..n : data[k] \in {0, 1}
  BY <1>1, LenProperties, ElementOfSeq
<1>3. ByteBits \in Nat /\ ByteBits > 0
  BY ByteAssumption
<1>4. CASE Marked(data) = {}
  <2>1. decode(data) = None
    BY <1>4 DEF decode, Marked
  <2>2. n >= ByteBits \/ n = 0
    <3> HIDE DEF n
    <3>1. n \div ByteBits \in Nat /\ n = (n \div ByteBits) * ByteBits + (n % ByteBits)
      BY <1>2, Division
    <3> DEFINE q == n \div ByteBits
    <3> HIDE DEF q
    <3>2. q \in Nat /\ n = q * ByteBits + 0
      BY <1>1, <3>1 DEF q
    <3>3. CASE q = 0
      BY <1>3, <3>2, <3>3
    <3>4. CASE 0 < q
      <4>1. 0 * ByteBits + ByteBits <= q * ByteBits
        BY <3>2, <3>4, MultiplesApart
      <4>2. 0 * ByteBits = 0 /\ q * ByteBits \in Nat
        BY <1>3, <3>2
      <4> QED BY <1>3, <3>2, <4>1, <4>2
    <3> QED BY <3>2, <3>3, <3>4
  <2>3. n = 0 => data = <<>>
    BY <1>1
  <2>4. ASSUME n >= ByteBits, NEW i \in (n - ByteBits + 1)..n PROVE data[i] = 0
    <3>1. i \in 1..n /\ i > n - ByteBits
      BY <1>2, <1>3, <2>4
    <3>2. data[i] # 1
      BY <1>2, <1>4, <3>1 DEF Marked
    <3> QED BY <1>2, <3>1, <3>2
  <2> QED BY <2>1, <2>2, <2>3, <2>4
<1>5. CASE Marked(data) # {}
  <2>1. PICK end \in Marked(data) : /\ \A j \in Marked(data) : j <= end
                                    /\ decode(data) = Padded(data, end - 1)
    BY <1>1, <1>5, DecodeIs
  <2>2. end \in 1..n
    BY <1>2 DEF Marked
  <2> DEFINE e == end - 1
             id == Padded(data, e)
             s == SubSeq(data, 1, e)
  <2>3. e \in 0..n /\ e \in Nat
    BY <1>2, <2>2
  <2>4. encode(id) = data
    BY <1>1, <2>1, EncodePadded
  <2> HIDE DEF e
  <2>5. id # None
    BY <1>1, <2>3, PaddedIsId
  <2>6. id.length = e
    BY DEF Padded
  <2>7. s \in Seq({0, 1}) /\ Len(s) = e /\ \A k \in 1..e : s[k] = data[k]
    <3>1. \A k \in 1..e : k \in 1..n
      BY <1>2, <2>3
    <3>2. s = [k \in 1..e |-> data[k]]
      BY <1>1, <1>2, <2>3
    <3> HIDE DEF s
    <3> QED BY <1>2, <2>3, <3>1, <3>2
  <2>8. IdOf(s) = Padded(s, e)
    <3> HIDE DEF s
    <3> QED BY <2>7, IdSteps
  <2>9. Padded(s, e) = id
    <3> HIDE DEF s
    <3>1. \A k \in 1..WholeBytes(e) : k <= e => k \in 1..e
      BY <2>3, WholeBytesAre
    <3>2. [k \in 1..WholeBytes(e) |-> IF k <= e THEN s[k] ELSE 0]
            = [k \in 1..WholeBytes(e) |-> IF k <= e THEN data[k] ELSE 0]
      BY <2>7, <3>1
    <3> QED BY <3>2 DEF Padded
  <2>10. decode(data) = id
    BY <2>1 DEF e
  <2> HIDE DEF id
  <2> QED BY <2>4, <2>5, <2>6, <2>8, <2>9, <2>10
<1> QED BY <1>4, <1>5

(* What the last decoding returned.                                        *)
DecodedInv == answer.op = "decode" => answer.data \in Encodings /\ answer.result = decode(answer.data)

LEMMA DecodedStep == DecodedInv /\ [Next]_vars => DecodedInv'
<1> SUFFICES ASSUME DecodedInv, [Next]_vars PROVE DecodedInv'
  OBVIOUS
<1>1. ASSUME NEW data \in Encodings, DecodeId(data) PROVE DecodedInv'
  BY <1>1 DEF DecodeId, DecodedInv
<1>2. ASSUME NEW k \in Configurations, Configure(k.scheme, k.endpoints) PROVE DecodedInv'
  BY <1>2 DEF Configure, DecodedInv
<1>3. ASSUME NEW items \in Bundles, Admit(items) PROVE DecodedInv'
  BY <1>3 DEF Admit, DecodedInv
<1>4. ASSUME NEW world \in Worlds, Seal(world) PROVE DecodedInv'
  BY <1>4 DEF Seal, DecodedInv
<1>5. ASSUME NEW w, NEW uc, NEW pins, Authenticate(w, uc, pins) \/ Assemble(w, uc, pins)
      PROVE  DecodedInv'
  BY <1>5 DEF Authenticate, Assemble, DecodedInv
<1>6. ASSUME NEW shard \in ConfiguredIds, CertificateOf(shard) PROVE DecodedInv'
  BY <1>6 DEF CertificateOf, DecodedInv
<1>7. ASSUME NEW uc, NEW p, CheckMembership(uc, p) \/ CheckAbsence(uc, p)
      PROVE  DecodedInv'
  BY <1>7 DEF CheckMembership, CheckAbsence, DecodedInv
<1>8. CASE UNCHANGED vars
  BY <1>8 DEF vars, DecodedInv
<1> QED BY <1>1, <1>2, <1>3, <1>4, <1>5, <1>6, <1>7, <1>8 DEF Next

(* ShardId::decode accepts every encoding with an end marker, its result   *)
(* encodes to the same bytes, and is the identifier that splitting the     *)
(* root along its bits gives: for bytes and identifiers of any length.     *)
THEOREM CodecExact == Spec => []IdCodecExact
<1>1. Init => DecodedInv
  BY DEF Init, DecodedInv
<1>2. DecodedInv => IdCodecExact
  <2> SUFFICES ASSUME DecodedInv, answer.op = "decode"
               PROVE  LET id == answer.result
                          data == answer.data
                      IN IF id = None
                         THEN data = <<>> \/ \A i \in (Len(data) - ByteBits + 1)..Len(data) : data[i] = 0
                         ELSE encode(id) = data /\ id = IdOf(SubSeq(data, 1, id.length))
    BY DEF IdCodecExact
  <2> DEFINE data == answer.data
  <2>1. data \in Encodings /\ answer.result = decode(data)
    BY DEF DecodedInv
  <2> HIDE DEF data
  <2>2. LET id == decode(data)
        IN IF id = None
           THEN data = <<>> \/ \A i \in (Len(data) - ByteBits + 1)..Len(data) : data[i] = 0
           ELSE encode(id) = data /\ id = IdOf(SubSeq(data, 1, id.length))
    BY <2>1, Codec
  <2> QED BY <2>1, <2>2 DEF data
<1> QED BY <1>1, <1>2, DecodedStep, PTL DEF Spec

-----------------------------------------------------------------------------
(* The canonical order of identifiers.                                     *)

LEMMA Least ==
  ASSUME NEW T, T \subseteq Nat, T # {}
  PROVE  \E i \in T : \A j \in T : i <= j
<1>1. PICK m \in T : \A k \in T : ~(<<k, m>> \in OpToRel(<, Nat))
  BY NatLessThanWellFounded, WFMin
<1>2. \A k \in T : ~(k < m)
  BY <1>1 DEF OpToRel
<1> QED BY <1>2

(* Identifiers as bit strings: the bits after the length do not count.     *)
IsString(a) == a.length \in Nat /\ \A i \in 1..a.length : a.bits[i] \in {0, 1}

Agree(a, b, n) == \A j \in 1..n : a.bits[j] = b.bits[j]

Same(a, b) == a.length = b.length /\ Agree(a, b, a.length)

(* The first n bits agree, then a ends or has a 0 where b has a 1.         *)
LessAt(a, b, n) ==
  /\ n \in 0..a.length /\ n < b.length /\ Agree(a, b, n)
  /\ n = a.length \/ a.bits[n + 1] < b.bits[n + 1]

Less(a, b) == \E n \in Nat : LessAt(a, b, n)

LEMMA DifferenceIs ==
  ASSUME NEW a, NEW b, NEW n \in Nat
  PROVE  LET i == Difference(a, b, n)
         IN i \in 1..(n + 1) /\ (i <= n => a[i] # b[i]) /\ \A j \in 1..(i - 1) : a[j] = b[j]
<1> DEFINE P(i) == (i <= n => a[i] # b[i]) /\ \A j \in 1..(i - 1) : a[j] = b[j]
           T == {i \in 1..(n + 1) : i <= n => a[i] # b[i]}
<1>1. n + 1 \in T /\ T \subseteq Nat
  OBVIOUS
<1>2. PICK m \in T : \A j \in T : m <= j
  BY <1>1, Least
<1>3. m \in 1..(n + 1) /\ P(m)
  BY <1>2
<1>4. Difference(a, b, n) = CHOOSE i \in 1..(n + 1) : P(i)
  BY DEF Difference
<1> HIDE DEF P
<1>5. Difference(a, b, n) \in 1..(n + 1) /\ P(Difference(a, b, n))
  BY <1>3, <1>4
<1> QED BY <1>5 DEF P

LEMMA CompareIs ==
  ASSUME NEW x \in Nat, NEW y \in Nat
  PROVE  /\ Compare(x, y) = -1 <=> x < y
         /\ Compare(x, y) = 0 <=> x = y
         /\ Compare(x, y) = 1 <=> y < x
         /\ Compare(x, y) \in {-1, 0, 1}
BY DEF Compare

LEMMA ComparedIs ==
  ASSUME NEW a, NEW b, IsString(a), IsString(b)
  PROVE  /\ canonical_cmp(a, b) = -1 => Less(a, b)
         /\ canonical_cmp(a, b) = 0 => Same(a, b)
         /\ canonical_cmp(a, b) = 1 => Less(b, a)
         /\ canonical_cmp(a, b) \in {-1, 0, 1}
<1> DEFINE n == IF a.length < b.length THEN a.length ELSE b.length
           i == Difference(a.bits, b.bits, n)
<1>1. n \in Nat /\ n <= a.length /\ n <= b.length /\ a.length \in Nat /\ b.length \in Nat
  BY DEF IsString
<1>2. canonical_cmp(a, b) = IF i <= n THEN Compare(a.bits[i], b.bits[i]) ELSE Compare(a.length, b.length)
  BY DEF canonical_cmp
<1>3. /\ i \in 1..(n + 1) /\ (i <= n => a.bits[i] # b.bits[i])
      /\ \A j \in 1..(i - 1) : a.bits[j] = b.bits[j]
  <2> HIDE DEF n
  <2> QED BY <1>1, DifferenceIs
<1>4. CASE i <= n
  <2> HIDE DEF i, n
  <2>1. i - 1 \in Nat /\ i - 1 \in 0..a.length /\ i - 1 < b.length /\ (i - 1) + 1 = i
        /\ i - 1 \in 0..b.length /\ i - 1 < a.length
    BY <1>1, <1>3, <1>4
  <2>2. Agree(a, b, i - 1) /\ Agree(b, a, i - 1)
    BY <1>3 DEF Agree
  <2>3. a.bits[i] \in {0, 1} /\ b.bits[i] \in {0, 1}
    BY <1>1, <1>3, <1>4 DEF IsString
  <2>4. a.bits[i] < b.bits[i] => Less(a, b)
    BY <2>1, <2>2 DEF Less, LessAt
  <2>5. b.bits[i] < a.bits[i] => Less(b, a)
    BY <2>1, <2>2 DEF Less, LessAt
  <2> DEFINE x == a.bits[i]
             y == b.bits[i]
  <2>6. x \in Nat /\ y \in Nat /\ x # y
    BY <1>3, <1>4, <2>3
  <2>7. canonical_cmp(a, b) = Compare(x, y)
    BY <1>2, <1>4
  <2> HIDE DEF x, y
  <2>8. (x < y => Less(a, b)) /\ (y < x => Less(b, a))
    BY <2>4, <2>5 DEF x, y
  <2> QED BY <2>6, <2>7, <2>8, CompareIs
<1>5. CASE ~(i <= n)
  <2> HIDE DEF i
  <2>1. Agree(a, b, n) /\ Agree(b, a, n)
    BY <1>1, <1>3, <1>5 DEF Agree
  <2>2. a.length < b.length => Less(a, b)
    BY <1>1, <2>1 DEF Less, LessAt
  <2>3. b.length < a.length => Less(b, a)
    BY <1>1, <2>1 DEF Less, LessAt
  <2>4. a.length = b.length => Same(a, b)
    BY <1>1, <2>1 DEF Same
  <2>5. a.length \in Nat /\ b.length \in Nat
    BY DEF IsString
  <2>6. canonical_cmp(a, b) = Compare(a.length, b.length)
    BY <1>2, <1>5
  <2> QED BY <2>2, <2>3, <2>4, <2>5, <2>6, CompareIs
<1> QED BY <1>4, <1>5

LEMMA LessTransitive ==
  ASSUME NEW a, NEW b, NEW c, IsString(a), IsString(b), IsString(c), Less(a, b), Less(b, c)
  PROVE  Less(a, c)
<1>1. PICK n \in Nat : LessAt(a, b, n)
  BY DEF Less
<1>2. PICK m \in Nat : LessAt(b, c, m)
  BY DEF Less
<1>3. CASE n < m
  <2>1. Agree(a, c, n)
    BY <1>1, <1>2, <1>3 DEF LessAt, Agree
  <2>2. n + 1 \in 1..m
    BY <1>3
  <2>3. b.bits[n + 1] = c.bits[n + 1]
    BY <1>2, <2>2 DEF LessAt, Agree
  <2>4. LessAt(a, c, n)
    BY <1>1, <1>2, <1>3, <2>1, <2>3 DEF LessAt, IsString
  <2> QED BY <2>4 DEF Less
<1>4. CASE n = m
  <2>1. Agree(a, c, n)
    BY <1>1, <1>2, <1>4 DEF LessAt, Agree
  <2>2. LessAt(a, c, n)
    <3>1. CASE n = a.length
      BY <1>1, <1>2, <1>4, <2>1, <3>1 DEF LessAt, IsString
    <3>2. CASE n # a.length
      <4>1. n + 1 \in 1..a.length /\ n + 1 \in 1..b.length /\ n + 1 \in 1..c.length /\ n # b.length
        BY <1>1, <1>2, <1>4, <3>2 DEF LessAt, IsString
      <4>2. a.bits[n + 1] \in {0, 1} /\ b.bits[n + 1] \in {0, 1} /\ c.bits[n + 1] \in {0, 1}
        BY <4>1 DEF IsString
      <4> QED BY <1>1, <1>2, <1>4, <2>1, <3>2, <4>1, <4>2 DEF LessAt
    <3> QED BY <3>1, <3>2
  <2> QED BY <2>2 DEF Less
<1>5. CASE m < n
  <2>1. Agree(a, c, m)
    BY <1>1, <1>2, <1>5 DEF LessAt, Agree
  <2>2. m + 1 \in 1..n
    BY <1>5
  <2>3. a.bits[m + 1] = b.bits[m + 1]
    BY <1>1, <2>2 DEF LessAt, Agree
  <2>4. m # b.length /\ m \in 0..a.length
    BY <1>1, <1>5 DEF LessAt, IsString
  <2>5. LessAt(a, c, m)
    BY <1>1, <1>2, <1>5, <2>1, <2>3, <2>4 DEF LessAt, IsString
  <2> QED BY <2>5 DEF Less
<1> QED BY <1>3, <1>4, <1>5

LEMMA LessIrreflexive ==
  ASSUME NEW a, NEW b, IsString(a), IsString(b), Less(a, b)
  PROVE  ~Same(a, b) /\ ~Same(b, a)
<1>1. PICK n \in Nat : LessAt(a, b, n)
  BY DEF Less
<1> SUFFICES ASSUME a.length = b.length, \A j \in 1..a.length : a.bits[j] = b.bits[j] PROVE FALSE
  BY DEF Same, Agree
<1>2. n + 1 \in 1..a.length /\ n # a.length
  BY <1>1 DEF LessAt, IsString
<1>3. a.bits[n + 1] \in {0, 1} /\ a.bits[n + 1] = b.bits[n + 1]
  BY <1>2 DEF IsString
<1> QED BY <1>1, <1>2, <1>3 DEF LessAt

(* The order in which the sort places the elements is strict and total.    *)
LEMMA PrecedesOrders ==
  ASSUME NEW ids, NEW n \in Nat, \A i \in 1..n : IsString(ids[i])
  PROVE  /\ \A i \in 1..n : ~Precedes(ids, i, i)
         /\ \A i, j \in 1..n : i # j => Precedes(ids, i, j) \/ Precedes(ids, j, i)
         /\ \A i, j, k \in 1..n : Precedes(ids, i, j) /\ Precedes(ids, j, k) => Precedes(ids, i, k)
<1> DEFINE Cmp(i, j) == canonical_cmp(ids[i], ids[j])
           L(i, j) == Less(ids[i], ids[j])
           E(i, j) == Same(ids[i], ids[j])
<1>1. \A i, j \in 1..n : /\ Cmp(i, j) = -1 => L(i, j)
                         /\ Cmp(i, j) = 0 => E(i, j)
                         /\ Cmp(i, j) = 1 => L(j, i)
                         /\ Cmp(i, j) \in {-1, 0, 1}
  BY ComparedIs
<1>2. \A i, j, k \in 1..n : L(i, j) /\ L(j, k) => L(i, k)
  BY LessTransitive
<1>3. \A i, j \in 1..n : L(i, j) => ~E(i, j) /\ ~E(j, i)
  BY LessIrreflexive
<1>4. \A i, j, k \in 1..n : /\ E(i, i) /\ (E(i, j) => E(j, i))
                            /\ E(i, j) /\ E(j, k) => E(i, k)
  BY DEF Same, Agree
<1>5. \A i, j, k \in 1..n : /\ L(i, j) /\ E(j, k) => L(i, k)
                            /\ E(i, j) /\ L(j, k) => L(i, k)
  <2> SUFFICES ASSUME NEW i \in 1..n, NEW j \in 1..n, NEW k \in 1..n
               PROVE  /\ L(i, j) /\ E(j, k) => L(i, k)
                      /\ E(i, j) /\ L(j, k) => L(i, k)
    OBVIOUS
  <2> DEFINE a == ids[i]
             b == ids[j]
             c == ids[k]
  <2>1. IsString(a) /\ IsString(b) /\ IsString(c)
    OBVIOUS
  <2> HIDE DEF a, b, c
  <2>2. ASSUME Less(a, b), Same(b, c) PROVE Less(a, c)
    <3>1. PICK m \in Nat : LessAt(a, b, m)
      BY <2>2 DEF Less
    <3>2. m + 1 \in 1..b.length /\ b.length = c.length
      BY <2>1, <2>2, <3>1 DEF LessAt, IsString, Same
    <3>3. b.bits[m + 1] = c.bits[m + 1]
      BY <2>2, <3>2 DEF Same, Agree
    <3>4. Agree(a, c, m)
      BY <2>1, <2>2, <3>1 DEF LessAt, IsString, Same, Agree
    <3>5. LessAt(a, c, m)
      BY <3>1, <3>2, <3>3, <3>4 DEF LessAt
    <3> QED BY <3>5 DEF Less
  <2>3. ASSUME Same(a, b), Less(b, c) PROVE Less(a, c)
    <3>1. PICK m \in Nat : LessAt(b, c, m)
      BY <2>3 DEF Less
    <3>2. a.length = b.length /\ m \in 0..a.length
      BY <2>1, <2>3, <3>1 DEF LessAt, IsString, Same
    <3>3. m # a.length => a.bits[m + 1] = b.bits[m + 1]
      BY <2>1, <2>3, <3>2 DEF Same, Agree, IsString
    <3>4. Agree(a, c, m)
      BY <2>1, <2>3, <3>1 DEF LessAt, IsString, Same, Agree
    <3>5. LessAt(a, c, m)
      BY <3>1, <3>2, <3>3, <3>4 DEF LessAt
    <3> QED BY <3>5 DEF Less
  <2> QED BY <2>2, <2>3 DEF a, b, c
<1> HIDE DEF L, E, Cmp
<1>6. \A i, j \in 1..n : /\ Cmp(i, j) = -1 <=> L(i, j)
                         /\ Cmp(i, j) = 0 <=> E(i, j)
  BY <1>1, <1>2, <1>3, <1>4
<1>7. \A i, j \in 1..n : Precedes(ids, i, j) <=> L(i, j) \/ (E(i, j) /\ i < j)
  BY <1>6 DEF Precedes, Cmp
<1>8. \A i, j \in 1..n : L(i, j) \/ E(i, j) \/ L(j, i)
  BY <1>1
<1>9. \A i \in 1..n : ~Precedes(ids, i, i)
  BY <1>3, <1>4, <1>7
<1>10. \A i, j \in 1..n : i # j => Precedes(ids, i, j) \/ Precedes(ids, j, i)
  BY <1>4, <1>7, <1>8
<1>11. \A i, j, k \in 1..n : Precedes(ids, i, j) /\ Precedes(ids, j, k) => Precedes(ids, i, k)
  BY <1>2, <1>4, <1>5, <1>7
<1> QED BY <1>9, <1>10, <1>11

(* The sort rearranges: every element has its place.                       *)
Rearranged(ids, n) ==
  \E p \in [1..n -> 1..n] :
    /\ \A k, l \in 1..n : p[k] = p[l] => k = l
    /\ \A i \in 1..n : \E k \in 1..n : p[k] = i
    /\ \A k, l \in 1..n : k < l => Precedes(ids, p[k], p[l])
    /\ sort_by(ids) = [k \in 1..n |-> ids[p[k]]]

LEMMA SortRearranges ==
  ASSUME NEW ids, NEW n \in Nat, DOMAIN ids = 1..n, \A i \in 1..n : IsString(ids[i])
  PROVE  Rearranged(ids, n)
<1> DEFINE B(i) == {j \in 1..n : Precedes(ids, j, i)}
           Rank(i) == 1 + Cardinality(B(i))
           r == [i \in 1..n |-> Rank(i)]
           p == [k \in 1..n |-> CHOOSE i \in 1..n : Rank(i) = k]
<1>1. sort_by(ids) = [k \in 1..n |-> ids[p[k]]]
  <2>1. sort_by(ids) = [k \in 1..n |-> ids[CHOOSE i \in 1..n : Rank(i) = k]]
    BY DEF sort_by
  <2> HIDE DEF Rank
  <2> QED BY <2>1
<1>2. IsFiniteSet(1..n) /\ Cardinality(1..n) = n
  BY FS_Interval
<1>3. \A i \in 1..n : IsFiniteSet(B(i)) /\ Cardinality(B(i)) \in Nat
  BY <1>2, FS_Subset, FS_CardinalityType
<1>4. /\ \A i \in 1..n : ~Precedes(ids, i, i)
      /\ \A i, j \in 1..n : i # j => Precedes(ids, i, j) \/ Precedes(ids, j, i)
      /\ \A i, j, k \in 1..n : Precedes(ids, i, j) /\ Precedes(ids, j, k) => Precedes(ids, i, k)
  BY PrecedesOrders
<1>5. ASSUME NEW i \in 1..n, NEW j \in 1..n, Precedes(ids, i, j)
      PROVE  Cardinality(B(i)) < Cardinality(B(j))
  <2>1. i \notin B(i) /\ B(i) \cup {i} \subseteq B(j)
    BY <1>4, <1>5
  <2> HIDE DEF B
  <2>2. Cardinality(B(i) \cup {i}) = Cardinality(B(i)) + 1
    BY <1>3, <2>1, FS_AddElement
  <2>3. Cardinality(B(i) \cup {i}) <= Cardinality(B(j))
    BY <1>3, <2>1, FS_Subset
  <2> QED BY <1>3, <2>2, <2>3
<1>6. ASSUME NEW i \in 1..n
      PROVE  Rank(i) \in 1..n
  <2>1. B(i) \subseteq (1..n) \ {i}
    BY <1>4
  <2>2. IsFiniteSet((1..n) \ {i}) /\ Cardinality((1..n) \ {i}) = n - 1
    BY <1>2, FS_RemoveElement
  <2>3. Cardinality(B(i)) <= n - 1
    <3> HIDE DEF B
    <3> QED BY <2>1, <2>2, FS_Subset
  <2> HIDE DEF B
  <2> QED BY <1>3, <2>3
<1> HIDE DEF B
<1>7. \A i, j \in 1..n : Rank(i) = Rank(j) => i = j
  BY <1>3, <1>4, <1>5
<1> HIDE DEF Rank
<1>8. r \in Injection(1..n, 1..n)
  BY <1>6, <1>7 DEF Injection, IsInjective
<1>9. r \in Surjection(1..n, 1..n)
  <2> HIDE DEF r
  <2> QED BY <1>2, <1>8, FS_Injection
<1>10. \A k \in 1..n : \E i \in 1..n : Rank(i) = k
  BY <1>9 DEF Surjection
<1>11. \A k \in 1..n : p[k] \in 1..n /\ Rank(p[k]) = k
  BY <1>10
<1>12. p \in [1..n -> 1..n]
  BY <1>11
<1> HIDE DEF p
<1>13. \A k, l \in 1..n : p[k] = p[l] => k = l
  BY <1>11
<1>14. \A i \in 1..n : \E k \in 1..n : p[k] = i
  <2> TAKE i \in 1..n
  <2>1. Rank(i) \in 1..n /\ p[Rank(i)] = i
    BY <1>6, <1>7, <1>11
  <2> QED BY <2>1
<1>15. ASSUME NEW k \in 1..n, NEW l \in 1..n, k < l PROVE Precedes(ids, p[k], p[l])
  <2>1. p[k] \in 1..n /\ p[l] \in 1..n /\ p[k] # p[l]
    BY <1>11, <1>13, <1>15
  <2>2. ASSUME Precedes(ids, p[l], p[k]) PROVE FALSE
    <3>1. Cardinality(B(p[l])) < Cardinality(B(p[k]))
      BY <1>5, <2>1, <2>2
    <3>2. 1 + Cardinality(B(p[l])) = l /\ 1 + Cardinality(B(p[k])) = k
      BY <1>11 DEF Rank
    <3>3. Cardinality(B(p[l])) \in Nat /\ Cardinality(B(p[k])) \in Nat
      BY <1>3, <2>1
    <3> QED BY <1>15, <3>1, <3>2, <3>3
  <2> QED BY <1>4, <2>1, <2>2
<1> QED BY <1>1, <1>12, <1>13, <1>14, <1>15 DEF Rearranged

(* Leaves in strict canonical order.                                       *)
Ordered(s, n) ==
  /\ \A i \in 1..n : IsString(s[i].shard_id)
  /\ \A i, j \in 1..n : i < j => Less(s[i].shard_id, s[j].shard_id)

LEMMA NeighboursOrder ==
  ASSUME NEW s, NEW n \in Nat, \A i \in 1..n : IsString(s[i].shard_id),
         \A i \in 1..n : i < n => Less(s[i].shard_id, s[i + 1].shard_id)
  PROVE  Ordered(s, n)
<1> DEFINE L(i, j) == Less(s[i].shard_id, s[j].shard_id)
           S == {j \in 0..n : \A i \in 1..n : i < j => L(i, j)}
<1>1. 0 \in S
  OBVIOUS
<1>2. ASSUME NEW j \in 1..n, j - 1 \in S PROVE j \in S
  <2>1. ASSUME NEW i \in 1..n, i < j PROVE L(i, j)
    <3>1. CASE i = j - 1
      <4>1. i < n /\ i + 1 = j
        BY <3>1
      <4> QED BY <4>1
    <3>2. CASE i < j - 1
      <4>1. j - 1 \in 1..n /\ j - 1 < n /\ (j - 1) + 1 = j
        BY <3>2
      <4>2. L(i, j - 1)
        BY <1>2, <3>2
      <4>3. L(j - 1, j)
        BY <4>1
      <4> QED BY <4>1, <4>2, <4>3, LessTransitive
    <3> QED BY <2>1, <3>1, <3>2
  <2> HIDE DEF L
  <2> QED BY <2>1
<1>3. 0..n \subseteq S
  <2> HIDE DEF S
  <2> QED BY <1>1, <1>2, UpTo
<1> QED BY <1>3 DEF Ordered

LEMMA OrderedBegin ==
  ASSUME NEW s, NEW n \in Nat, NEW t, NEW m \in Nat, Ordered(s, n), Ordered(t, m),
         \A i \in 1..n : \E j \in 1..m : s[i] = t[j],
         \A j \in 1..m : \E i \in 1..n : t[j] = s[i]
  PROVE  n <= m /\ \A i \in 1..n : s[i] = t[i]
<1> DEFINE S == {i \in 0..n : \A k \in 1..i : k <= m /\ s[k] = t[k]}
           L(a, b) == Less(a.shard_id, b.shard_id)
<1>1. 0 \in S
  OBVIOUS
<1>2. ASSUME NEW i \in 1..n, i - 1 \in S PROVE i \in S
  <2>1. \A k \in 1..n : k < i => k <= m /\ s[k] = t[k]
    BY <1>2
  <2>2. PICK j \in 1..m : s[i] = t[j]
    OBVIOUS
  <2>3. \A k, l \in 1..n : k < l => L(s[k], s[l])
    BY DEF Ordered
  <2>4. \A k, l \in 1..m : k < l => L(t[k], t[l])
    BY DEF Ordered
  <2>5. \A k \in 1..n : ~L(s[k], s[k])
    BY LessIrreflexive DEF Ordered, Same, Agree
  <2>6. \A k, l, o \in 1..n : L(s[k], s[l]) /\ L(s[l], s[o]) => L(s[k], s[o])
    BY LessTransitive DEF Ordered
  <2> HIDE DEF L
  <2>7. j >= i
    <3>1. SUFFICES ASSUME j < i PROVE FALSE
      OBVIOUS
    <3>2. j \in 1..n /\ s[j] = s[i]
      BY <2>1, <2>2, <3>1
    <3> QED BY <2>3, <2>5, <3>1, <3>2
  <2>8. PICK l \in 1..n : t[i] = s[l]
    BY <2>7
  <2>9. l >= i
    <3>1. SUFFICES ASSUME l < i PROVE FALSE
      OBVIOUS
    <3>2. l \in 1..m /\ i \in 1..m /\ t[l] = t[i]
      BY <2>1, <2>7, <2>8, <3>1
    <3>3. L(t[l], t[i])
      BY <2>4, <3>1, <3>2
    <3> QED BY <2>5, <2>8, <3>2, <3>3
  <2>10. j = i
    <3>1. SUFFICES ASSUME j > i PROVE FALSE
      BY <2>7
    <3>2. L(s[l], s[i])
      BY <2>2, <2>4, <2>7, <2>8, <3>1
    <3>3. CASE l = i
      BY <2>5, <3>2, <3>3
    <3>4. CASE l > i
      <4>1. L(s[i], s[l])
        BY <2>3, <3>4
      <4> QED BY <2>5, <2>6, <3>2, <4>1
    <3> QED BY <2>9, <3>3, <3>4
  <2>11. i <= m /\ s[i] = t[i]
    BY <2>2, <2>10
  <2>12. \A k \in 1..i : k = i \/ (k \in 1..n /\ k < i)
    OBVIOUS
  <2>13. ASSUME NEW k \in 1..i PROVE k <= m /\ s[k] = t[k]
    BY <2>1, <2>11, <2>12
  <2>14. i \in 0..n
    OBVIOUS
  <2> QED BY <2>13, <2>14
<1>3. 0..n \subseteq S
  <2> HIDE DEF S
  <2> QED BY <1>1, <1>2, UpTo
<1>4. n \in S
  <2> HIDE DEF S
  <2> QED BY <1>3
<1>5. \A k \in 1..n : k <= m /\ s[k] = t[k]
  BY <1>4
<1>6. n \in 1..n \/ n = 0
  OBVIOUS
<1> QED BY <1>5, <1>6

(* What is in order is determined by its elements.                         *)
LEMMA OrderedEqual ==
  ASSUME NEW s, NEW n \in Nat, NEW t, NEW m \in Nat, Ordered(s, n), Ordered(t, m),
         \A i \in 1..n : \E j \in 1..m : s[i] = t[j],
         \A j \in 1..m : \E i \in 1..n : t[j] = s[i]
  PROVE  n = m /\ \A i \in 1..n : s[i] = t[i]
<1>1. n <= m /\ \A i \in 1..n : s[i] = t[i]
  BY OrderedBegin
<1>2. m <= n
  BY OrderedBegin
<1> QED BY <1>1, <1>2

-----------------------------------------------------------------------------
(* The seal hash determines the path from the partition.                   *)

LEMMA TreeStepParts ==
  ASSUME NEW key, NEW s, NEW x, NEW t, NEW y, TreeStep(key, s, x) = TreeStep(key, t, y)
  PROVE  s.key = t.key /\ s.hash = t.hash
<1>1. TreeStep(key, s, x)[2] = s.key /\ TreeStep(key, t, y)[2] = t.key
  BY DEF TreeStep
<1>2. CASE key > s.key
  <2>1. TreeStep(key, s, x)[3] = s.hash /\ TreeStep(key, t, y)[3] = t.hash
    BY <1>1, <1>2 DEF TreeStep
  <2> QED BY <1>1, <2>1
<1>3. CASE ~(key > s.key)
  <2>1. TreeStep(key, s, x)[4] = s.hash /\ TreeStep(key, t, y)[4] = t.hash
    BY <1>1, <1>3 DEF TreeStep
  <2> QED BY <1>1, <2>1
<1> QED BY <1>2, <1>3

LEMMA ShorterTreeSteps ==
  ASSUME NEW utc, NEW a, NEW utc2, NEW b,
         Len(utc.steps) \in Nat, Len(utc2.steps) \in Nat, Len(utc.steps) <= Len(utc2.steps),
         utc.partition_identifier = utc2.partition_identifier,
         compute_root_hash(utc, a) = compute_root_hash(utc2, b)
  PROVE  /\ Len(utc.steps) = Len(utc2.steps)
         /\ \A i \in 1..Len(utc.steps) : /\ utc.steps[i].key = utc2.steps[i].key
                                         /\ utc.steps[i].hash = utc2.steps[i].hash
<1> DEFINE key == utc.partition_identifier
           f == TreePath(utc, a)
           g == TreePath(utc2, b)
           n == Len(utc.steps)
           m == Len(utc2.steps)
<1>1. f[0] = PartitionLeaf(utc, a) /\ \A i \in 1..n : f[i] = TreeStep(key, utc.steps[i], f[i - 1])
  BY TreePathSteps
<1>2. g[0] = PartitionLeaf(utc2, b) /\ \A i \in 1..m : g[i] = TreeStep(key, utc2.steps[i], g[i - 1])
  BY TreePathSteps
<1>3. f[n] = g[m] /\ n \in Nat /\ m \in Nat /\ n <= m
  BY DEF compute_root_hash
<1> HIDE DEF f, g, n, m, key
<1> DEFINE S == {k \in 0..n : f[n - k] = g[m - k]}
<1>4. 0 \in S
  BY <1>3
<1>5. ASSUME NEW k \in 1..n, k - 1 \in S PROVE k \in S
  <2> DEFINE i == n - (k - 1)
             j == m - (k - 1)
  <2>1. i \in 1..n /\ j \in 1..m /\ i - 1 = n - k /\ j - 1 = m - k /\ k \in 0..n
    BY <1>3
  <2>2. f[i] = g[j]
    BY <1>5
  <2> HIDE DEF i, j
  <2>3. TreeStep(key, utc.steps[i], f[i - 1]) = TreeStep(key, utc2.steps[j], g[j - 1])
    BY <1>1, <1>2, <2>1, <2>2
  <2>4. f[i - 1] = g[j - 1]
    BY <2>3, TreeNodesEqual
  <2>5. f[n - k] = g[m - k]
    BY <2>1, <2>4
  <2> QED BY <2>1, <2>5
<1>6. 0..n \subseteq S
  <2> HIDE DEF S
  <2> QED BY <1>3, <1>4, <1>5, UpTo
<1>7. n = m
  <2>1. SUFFICES ASSUME n # m PROVE FALSE
    OBVIOUS
  <2>2. n \in S /\ n - n = 0 /\ m - n \in 1..m
    BY <1>3, <1>6, <2>1
  <2>3. f[0] = g[m - n]
    BY <2>2
  <2>4. g[m - n] = TreeStep(key, utc2.steps[m - n], g[(m - n) - 1])
    BY <1>2, <2>2
  <2>5. PartitionLeaf(utc, a) # TreeStep(key, utc2.steps[m - n], g[(m - n) - 1])
    BY TreeNodeIsNoLeaf
  <2>6. f[0] = PartitionLeaf(utc, a)
    BY <1>1
  <2> QED BY <2>3, <2>4, <2>5, <2>6
<1>8. ASSUME NEW i \in 1..n
      PROVE  utc.steps[i].key = utc2.steps[i].key /\ utc.steps[i].hash = utc2.steps[i].hash
  <2>1. n - i \in S /\ n - (n - i) = i
    BY <1>3, <1>6
  <2>2. f[i] = g[i]
    BY <1>7, <2>1
  <2>3. TreeStep(key, utc.steps[i], f[i - 1]) = TreeStep(key, utc2.steps[i], g[i - 1])
    BY <1>1, <1>2, <1>7, <2>2
  <2> QED BY <2>3, TreeStepParts
<1> QED BY <1>7, <1>8 DEF n, m

LEMMA OneTreePath ==
  ASSUME NEW utc, NEW a, NEW utc2, NEW b, IsTreePath(utc), IsTreePath(utc2),
         utc.partition_identifier = utc2.partition_identifier,
         compute_root_hash(utc, a) = compute_root_hash(utc2, b)
  PROVE  utc = utc2
<1> DEFINE n == Len(utc.steps)
           m == Len(utc2.steps)
           Steps(u, k) == [i \in 1..k |-> [key |-> u.steps[i].key, hash |-> u.steps[i].hash]]
<1>1. n \in Nat /\ m \in Nat
  BY DEF IsTreePath
<1>2. /\ n = m
      /\ \A i \in 1..n : utc.steps[i].key = utc2.steps[i].key /\ utc.steps[i].hash = utc2.steps[i].hash
  <2>1. CASE n <= m
    BY <1>1, <2>1, ShorterTreeSteps
  <2>2. CASE m <= n
    BY <1>1, <2>2, ShorterTreeSteps
  <2> QED BY <1>1, <2>1, <2>2
<1>3. Steps(utc, n) = Steps(utc2, m)
  BY <1>2
<1>4. /\ utc = [partition_identifier |-> utc.partition_identifier, steps |-> Steps(utc, n)]
      /\ utc2 = [partition_identifier |-> utc2.partition_identifier, steps |-> Steps(utc2, m)]
  BY DEF IsTreePath
<1> HIDE DEF Steps
<1> QED BY <1>3, <1>4

-----------------------------------------------------------------------------
(* The stack pass: what its subtrees commit to.                            *)

(* Hashes along the first n of some bits, from depth n up to depth d.      *)
Leads(bits, n, leaf, d, hash) ==
  \E f : /\ f[n] = leaf /\ f[d] = hash
         /\ \A k \in (d + 1)..n : \E s : f[k - 1] = Joined(bits[k], s, f[k])

LEMMA LeadsUp ==
  ASSUME NEW bits, NEW n \in Nat, NEW leaf, NEW d \in 1..n, NEW hash, NEW s,
         Leads(bits, n, leaf, d, hash)
  PROVE  Leads(bits, n, leaf, d - 1, Joined(bits[d], s, hash))
<1>1. PICK f : /\ f[n] = leaf /\ f[d] = hash
               /\ \A k \in (d + 1)..n : \E x : f[k - 1] = Joined(bits[k], x, f[k])
  BY DEF Leads
<1> DEFINE g == [k \in 0..n |-> IF k = d - 1 THEN Joined(bits[d], s, hash) ELSE f[k]]
<1>2. g[n] = leaf /\ g[d - 1] = Joined(bits[d], s, hash) /\ g[d] = hash
  BY <1>1
<1>3. ASSUME NEW k \in ((d - 1) + 1)..n
      PROVE  \E x : g[k - 1] = Joined(bits[k], x, g[k])
  <2>1. CASE k = d
    BY <1>2, <2>1
  <2>2. CASE k # d
    <3>1. k \in (d + 1)..n /\ g[k - 1] = f[k - 1] /\ g[k] = f[k]
      BY <2>2
    <3> HIDE DEF g
    <3> QED BY <1>1, <3>1
  <2> QED BY <2>1, <2>2
<1> HIDE DEF g
<1> QED BY <1>2, <1>3 DEF Leads

(* Along one key, from one root, there is one leaf.                        *)
LEMMA LeadsToOne ==
  ASSUME NEW bits, NEW n \in Nat, NEW a, NEW bits2, NEW m \in Nat, NEW b, NEW hash, n <= m,
         \A k \in 1..n : bits[k] = bits2[k],
         \A bit, s, x : a # Joined(bit, s, x), Leads(bits, n, a, 0, hash), Leads(bits2, m, b, 0, hash)
  PROVE  n = m /\ a = b
<1>1. PICK f : /\ f[n] = a /\ f[0] = hash
               /\ \A k \in 1..n : \E s : f[k - 1] = Joined(bits[k], s, f[k])
  BY DEF Leads
<1>2. PICK g : /\ g[m] = b /\ g[0] = hash
               /\ \A k \in 1..m : \E s : g[k - 1] = Joined(bits2[k], s, g[k])
  BY DEF Leads
<1> DEFINE S == {k \in 0..n : f[k] = g[k]}
<1>3. 0 \in S
  BY <1>1, <1>2
<1>4. ASSUME NEW k \in 1..n, k - 1 \in S PROVE k \in S
  <2>1. k \in 1..m /\ f[k - 1] = g[k - 1] /\ k \in 0..n
    BY <1>4
  <2>2. PICK s : f[k - 1] = Joined(bits[k], s, f[k])
    BY <1>1
  <2>3. PICK t : g[k - 1] = Joined(bits2[k], t, g[k])
    BY <1>2, <2>1
  <2>4. Joined(bits[k], s, f[k]) = Joined(bits[k], t, g[k])
    BY <2>1, <2>2, <2>3
  <2>5. f[k] = g[k]
    BY <2>4, ShardNodesEqual
  <2> QED BY <2>1, <2>5
<1>5. 0..n \subseteq S
  <2> HIDE DEF S
  <2> QED BY <1>3, <1>4, UpTo
<1>6. g[n] = a
  <2>1. n \in S
    <3> HIDE DEF S
    <3> QED BY <1>5
  <2> QED BY <1>1, <2>1
<1>8. n = m
  <2> SUFFICES ASSUME n < m PROVE FALSE
    OBVIOUS
  <2>1. n + 1 \in 1..m /\ (n + 1) - 1 = n
    OBVIOUS
  <2>2. \E s : g[n] = Joined(bits2[n + 1], s, g[n + 1])
    BY <1>2, <2>1
  <2> QED BY <1>6, <2>2
<1>9. a = b
  BY <1>2, <1>6, <1>8
<1> QED BY <1>8, <1>9

-----------------------------------------------------------------------------
(* The state of the pass after the first m leaves of L.                    *)

IsNode(x) == \E h, p, c : x = [hash |-> h, parent |-> p, children |-> c]

Arena(N) == \E X : N \in Seq(X) /\ \A x \in X : IsNode(x)

IsWord(id) ==
  /\ id \in [bits : Seq({0, 1}), length : Nat]
  /\ id.length <= Len(id.bits) /\ id.length <= KeyBits

(* A finished subtree: its id and the hash it has.                         *)
IsEntry(e, N) == IsWord(e.id) /\ e.node \in 1..Len(N)

(* Leaf l is below the entry, and its path leads to the entry's hash.      *)
Below(l, e, N) ==
  /\ e.id.length <= l.shard_id.length /\ Agree(l.shard_id, e.id, e.id.length)
  /\ Leads(l.shard_id.bits, l.shard_id.length, l.hash, e.id.length, N[e.node].hash)

(* The keys below the entry are in one of the first m leaves.              *)
Filled(e, L, m) ==
  \A key \in Keys : InShard(e.id, key) => \E i \in 1..m : InShard(L[i].shard_id, key)

Stacked(S, N, L, m) ==
  /\ \E X : S \in Seq(X)
  /\ \A q \in 1..Len(S) : IsEntry(S[q], N) /\ Filled(S[q], L, m)
  /\ \A i \in 1..m : \E q \in 1..Len(S) : Below(L[i], S[q], N)

LEMMA ArenaParts ==
  ASSUME NEW N, Arena(N)
  PROVE  /\ Len(N) \in Nat /\ DOMAIN N = 1..Len(N) /\ \A i \in 1..Len(N) : IsNode(N[i])
  BY DEF Arena

LEMMA ArenaGrows ==
  ASSUME NEW N, Arena(N), NEW x, IsNode(x)
  PROVE  /\ Arena(Append(N, x)) /\ Len(Append(N, x)) = Len(N) + 1
         /\ Append(N, x)[Len(N) + 1] = x /\ \A i \in 1..Len(N) : Append(N, x)[i] = N[i]
<1>1. PICK X : N \in Seq(X) /\ \A y \in X : IsNode(y)
  BY DEF Arena
<1>2. N \in Seq(X \cup {x}) /\ \A y \in X \cup {x} : IsNode(y)
  BY <1>1
<1>3. /\ Append(N, x) \in Seq(X \cup {x}) /\ Len(Append(N, x)) = Len(N) + 1
      /\ \A i \in 1..Len(N) : Append(N, x)[i] = N[i] /\ Append(N, x)[Len(N) + 1] = x
  BY <1>2, AppendProperties
<1>4. Arena(Append(N, x))
  BY <1>2, <1>3 DEF Arena
<1>5. Append(N, x)[Len(N) + 1] = x
  BY <1>2, AppendProperties
<1> QED BY <1>3, <1>4, <1>5

(* Two nodes get a parent.                                                 *)
Linked(N, i, j, p) == [N EXCEPT ![i].parent = p, ![j].parent = p]

LEMMA ArenaLinks ==
  ASSUME NEW N, Arena(N), NEW i \in 1..Len(N), NEW j \in 1..Len(N), NEW p
  PROVE  LET M == Linked(N, i, j, p)
         IN Arena(M) /\ Len(M) = Len(N) /\ \A k \in 1..Len(N) : M[k].hash = N[k].hash
<1> DEFINE A == [N EXCEPT ![i].parent = p]
           M == [A EXCEPT ![j].parent = p]
<1>1. ASSUME NEW B, Arena(B), NEW k \in 1..Len(B)
      PROVE  LET C == [B EXCEPT ![k].parent = p]
             IN Arena(C) /\ Len(C) = Len(B) /\ \A l \in 1..Len(B) : C[l].hash = B[l].hash
  <2> DEFINE x == [B[k] EXCEPT !.parent = p]
             C == [B EXCEPT ![k] = x]
  <2>1. PICK X : B \in Seq(X) /\ \A y \in X : IsNode(y)
    BY <1>1 DEF Arena
  <2>2. IsNode(B[k])
    BY <2>1
  <2>3. PICK h, q, c : B[k] = [hash |-> h, parent |-> q, children |-> c]
    BY <2>2 DEF IsNode
  <2>4. x = [hash |-> h, parent |-> p, children |-> c]
    BY <2>3
  <2>5. IsNode(x) /\ x.hash = B[k].hash
    BY <2>3, <2>4 DEF IsNode
  <2> HIDE DEF x
  <2>6. B \in Seq(X \cup {x}) /\ \A y \in X \cup {x} : IsNode(y)
    BY <2>1, <2>5
  <2>7. C \in Seq(X \cup {x}) /\ Len(C) = Len(B) /\ \A l \in 1..Len(B) : C[l] = IF l = k THEN x ELSE B[l]
    BY <2>6
  <2> HIDE DEF C
  <2>8. Arena(C)
    BY <2>6, <2>7 DEF Arena
  <2>9. \A l \in 1..Len(B) : C[l].hash = B[l].hash
    BY <2>5, <2>7
  <2> QED BY <2>7, <2>8, <2>9 DEF C, x
<1>2. Arena(A) /\ Len(A) = Len(N) /\ \A k \in 1..Len(N) : A[k].hash = N[k].hash
  BY <1>1
<1> HIDE DEF A
<1>3. Arena(M) /\ Len(M) = Len(A) /\ \A k \in 1..Len(A) : M[k].hash = A[k].hash
  BY <1>1, <1>2
<1>4. Linked(N, i, j, p) = M
  BY DEF A, Linked
<1> QED BY <1>2, <1>3, <1>4

LEMMA WordParts ==
  ASSUME NEW id, IsWord(id)
  PROVE  /\ id.length \in Nat /\ id.bits \in Seq({0, 1}) /\ id.length <= KeyBits
         /\ \A i \in 1..id.length : id.bits[i] \in {0, 1}
         /\ id # None /\ IsString(id)
<1>1. id.length \in Nat /\ id.bits \in Seq({0, 1}) /\ id.length <= KeyBits /\ id.length <= Len(id.bits)
  BY DEF IsWord
<1>2. \A i \in 1..id.length : id.bits[i] \in {0, 1}
  BY <1>1
<1>3. id # None
  BY ByteAssumption DEF IsWord
<1> QED BY <1>1, <1>2, <1>3 DEF IsString

LEMMA SiblingWords ==
  ASSUME NEW l, NEW r, IsWord(l), IsWord(r), AreSiblings(l, r)
  PROVE  /\ l.length = r.length /\ l.length >= 1
         /\ l.bits[l.length] = 0 /\ r.bits[l.length] = 1 /\ Agree(l, r, l.length - 1)
<1> DEFINE d == r.length
<1>1. sibling(r) = l /\ get_bit(l, l.length - 1) = 0
  BY DEF AreSiblings
<1>2. r.length # 0
  BY <1>1, WordParts DEF sibling
<1>3. d \in 1..Len(r.bits) /\ r.bits \in Seq({0, 1}) /\ r \in [bits : Seq({0, 1}), length : Nat]
  BY <1>2 DEF IsWord
<1>4. l = [r EXCEPT !.bits[d] = 1 - @]
  BY <1>1, <1>2 DEF sibling
<1>5. l.length = d /\ l.bits = [r.bits EXCEPT ![d] = 1 - r.bits[d]]
  BY <1>3, <1>4
<1>6. l.bits[d] = 1 - r.bits[d] /\ \A j \in 1..(d - 1) : l.bits[j] = r.bits[j]
  BY <1>3, <1>5
<1>7. l.length - 1 < l.length /\ (l.length - 1) + 1 = l.length
  BY <1>3, <1>5
<1>8. l.bits[l.length] = 0
  <2>1. l.length \in Nat
    BY <1>3, <1>5
  <2>2. ~(l.length - 1 >= l.length)
    BY <2>1
  <2>3. get_bit(l, l.length - 1) = l.bits[(l.length - 1) + 1]
    BY <2>2 DEF get_bit
  <2> QED BY <1>1, <1>7, <2>3
<1>9. r.bits[d] \in {0, 1}
  BY <1>3
<1> QED BY <1>3, <1>5, <1>6, <1>8, <1>9 DEF Agree

LEMMA PrefixWord ==
  ASSUME NEW l, IsWord(l), NEW n \in Nat, n <= l.length
  PROVE  IsWord(prefix(l, n)) /\ prefix(l, n).length = n /\ Agree(prefix(l, n), l, n)
<1> DEFINE W == WholeBytes(n)
           b == [i \in 1..W |-> IF i <= n THEN l.bits[i] ELSE 0]
<1>1. prefix(l, n) = [bits |-> b, length |-> n]
  BY WordParts DEF prefix
<1>2. W \in Nat /\ n <= W
  BY WholeBytesAre
<1>3. \A i \in 1..W : i <= n => l.bits[i] \in {0, 1}
  BY <1>2, WordParts
<1> HIDE DEF W
<1>4. b \in Seq({0, 1}) /\ Len(b) = W /\ \A j \in 1..n : b[j] = l.bits[j]
  BY <1>2, <1>3
<1> HIDE DEF b
<1>5. n <= KeyBits
  BY WordParts, RadixAssumption
<1> QED BY <1>1, <1>2, <1>4, <1>5 DEF IsWord, Agree

(* A key below a parent is below one of its children.                      *)
LEMMA KeyBelow ==
  ASSUME NEW l, NEW r, NEW p, IsWord(l), IsWord(r), AreSiblings(l, r),
         p = prefix(l, l.length - 1), NEW key \in Keys, InShard(p, key)
  PROVE  InShard(l, key) \/ InShard(r, key)
<1> DEFINE d == l.length
<1>1. /\ d = r.length /\ d >= 1 /\ l.bits[d] = 0 /\ r.bits[d] = 1 /\ Agree(l, r, d - 1)
      /\ d \in Nat /\ d <= KeyBits
  BY SiblingWords, WordParts
<1>2. p.length = d - 1 /\ Agree(p, l, d - 1)
  BY <1>1, PrefixWord
<1>3. Len(key) = KeyBits /\ key[d] \in {0, 1}
  BY <1>1, RadixAssumption DEF Keys
<1>4. \A i \in 1..(d - 1) : l.bits[i] = key[i] /\ r.bits[i] = key[i]
  BY <1>1, <1>2 DEF InShard, Agree
<1>5. \A i \in 1..d : i <= Len(key) /\ (i = d \/ i \in 1..(d - 1))
  BY <1>1, <1>3, RadixAssumption
<1>6. CASE key[d] = 0
  BY <1>1, <1>4, <1>5, <1>6 DEF InShard
<1>7. CASE key[d] = 1
  BY <1>1, <1>4, <1>5, <1>7 DEF InShard
<1> QED BY <1>3, <1>6, <1>7

Listed(K, L, m) ==
  /\ \E X : K \in Seq(X)
  /\ Len(K) = m /\ \A i \in 1..m : K[i].id = L[i].shard_id
  /\ \A i \in 1..m : i < m => Less(L[i].shard_id, L[i + 1].shard_id)

Passing(t, L, m) ==
  \E N, K, S : /\ t = [ok |-> TRUE, nodes |-> N, leaves |-> K, stack |-> S]
               /\ Arena(N) /\ Stacked(S, N, L, m) /\ Listed(K, L, m)

(* What is below an entry stays there when nodes are linked and added.     *)
LEMMA EntryStays ==
  ASSUME NEW e, NEW N, NEW M, Len(N) \in Nat, Len(M) \in Nat, Len(N) <= Len(M), IsEntry(e, N),
         \A k \in 1..Len(N) : M[k].hash = N[k].hash
  PROVE  IsEntry(e, M) /\ \A l : Below(l, e, N) => Below(l, e, M)
  BY DEF IsEntry, Below

LEMMA MergeKeeps ==
  ASSUME NEW t, NEW L, NEW m \in Nat, \A i \in 1..m : IsWord(L[i].shard_id), Passing(t, L, m)
  PROVE  Passing(Merge(t), L, m)
<1>1. PICK N, K, S : /\ t = [ok |-> TRUE, nodes |-> N, leaves |-> K, stack |-> S]
                     /\ Arena(N) /\ Stacked(S, N, L, m) /\ Listed(K, L, m)
  BY DEF Passing
<1> DEFINE n == Len(S)
           left == S[n - 1]
           right == S[n]
           parent == Len(N) + 1
           hash == shard_node_hash(N[left.node].hash, N[right.node].hash)
           linked == Linked(N, left.node, right.node, parent)
           node == [hash |-> hash, parent |-> 0, children |-> <<left.node, right.node>>]
           id == prefix(left.id, left.id.length - 1)
           e == [id |-> id, node |-> parent]
           M == Append(linked, node)
           R == Append(SubSeq(S, 1, n - 2), e)
<1>2. t.nodes = N /\ t.stack = S
  BY <1>1
<1>3. CASE n < 2 \/ ~AreSiblings(left.id, right.id)
  <2>1. Merge(t) = t
    BY <1>2, <1>3 DEF Merge
  <2> QED BY <2>1
<1>4. CASE ~(n < 2 \/ ~AreSiblings(left.id, right.id))
  <2>1. Merge(t) = [t EXCEPT !.nodes = M, !.stack = R]
    BY <1>2, <1>4 DEF Merge, Linked
  <2>2. Merge(t) = [ok |-> TRUE, nodes |-> M, leaves |-> K, stack |-> R]
    <3> HIDE DEF M, R
    <3> QED BY <1>1, <2>1
  <2>3. PICK X : S \in Seq(X)
    BY <1>1 DEF Stacked
  <2>4. n \in Nat /\ n >= 2 /\ n - 1 \in 1..n /\ n \in 1..n /\ AreSiblings(left.id, right.id)
    BY <1>4, <2>3
  <2>5. IsEntry(left, N) /\ IsEntry(right, N) /\ Filled(left, L, m) /\ Filled(right, L, m)
    BY <1>1, <2>4 DEF Stacked
  <2>6. left.node \in 1..Len(N) /\ right.node \in 1..Len(N) /\ IsWord(left.id) /\ IsWord(right.id)
    BY <2>5 DEF IsEntry
  <2> HIDE DEF left, right
  <2>7. Arena(linked) /\ Len(linked) = Len(N) /\ \A k \in 1..Len(N) : linked[k].hash = N[k].hash
    BY <1>1, <2>6, ArenaLinks
  <2>8. IsNode(node) /\ node.hash = hash
    BY DEF IsNode
  <2> HIDE DEF linked, node, hash
  <2>9. /\ Arena(M) /\ Len(M) = Len(linked) + 1 /\ M[Len(linked) + 1] = node
        /\ \A k \in 1..Len(linked) : M[k] = linked[k]
    BY <2>7, <2>8, ArenaGrows
  <2> HIDE DEF M
  <2>10. Len(N) \in Nat
    BY <1>1, ArenaParts
  <2>11. /\ Len(M) = Len(N) + 1 /\ M[parent].hash = hash
         /\ \A k \in 1..Len(N) : M[k].hash = N[k].hash
    BY <2>7, <2>8, <2>9
  <2>12. /\ R \in Seq(X \cup {e}) /\ Len(R) = n - 1 /\ R[n - 1] = e
         /\ \A q \in 1..(n - 2) : R[q] = S[q]
    <3> HIDE DEF e
    <3>1. S \in Seq(X \cup {e}) /\ n - 2 \in 0..n /\ 1 \in 1..(Len(S) + 1)
      BY <2>3, <2>4
    <3> DEFINE T == SubSeq(S, 1, n - 2)
    <3>2. T \in Seq(X \cup {e}) /\ Len(T) = n - 2 /\ \A q \in 1..(n - 2) : T[q] = S[q]
      <4>1. \A q \in 1..(n - 2) : S[q] \in X \cup {e}
        BY <2>4, <3>1
      <4> DEFINE Y == X \cup {e}
      <4> HIDE DEF Y
      <4>2. \A q \in 1..(n - 2) : S[q] \in Y
        BY <4>1 DEF Y
      <4>3. /\ T \in Seq(Y) /\ Len(T) = IF 1 <= n - 2 THEN (n - 2) - 1 + 1 ELSE 0
            /\ \A q \in 1..((n - 2) - 1 + 1) : T[q] = S[1 + q - 1]
        BY <2>4, <4>2, SubSeqProperties
      <4> HIDE DEF T
      <4>4. Len(T) = n - 2
        <5>1. n \in Nat /\ n - 2 \in Nat
          BY <2>4
        <5> HIDE DEF n
        <5>2. CASE 1 <= n - 2
          BY <4>3, <5>1, <5>2
        <5>3. CASE ~(1 <= n - 2)
          BY <4>3, <5>1, <5>3
        <5> QED BY <5>2, <5>3
      <4>5. ASSUME NEW q \in 1..(n - 2) PROVE T[q] = S[q]
        <5>1. q \in 1..((n - 2) - 1 + 1) /\ 1 + q - 1 = q
          BY <2>4
        <5> QED BY <4>3, <5>1
      <4> QED BY <4>3, <4>4, <4>5 DEF Y
    <3> HIDE DEF T
    <3>3. /\ Append(T, e) \in Seq(X \cup {e}) /\ Len(Append(T, e)) = Len(T) + 1
          /\ Append(T, e)[Len(T) + 1] = e /\ \A q \in 1..Len(T) : Append(T, e)[q] = T[q]
      BY <3>2, AppendProperties
    <3> QED BY <2>4, <3>2, <3>3 DEF T
  <2> HIDE DEF R
  <2>13. e.id = id /\ e.node = parent
    OBVIOUS
  <2> HIDE DEF e
  <2> DEFINE d == left.id.length
  <2>14. /\ d = right.id.length /\ d >= 1 /\ left.id.bits[d] = 0 /\ right.id.bits[d] = 1
         /\ Agree(left.id, right.id, d - 1)
    BY <2>4, <2>6, SiblingWords
  <2>15. d \in Nat /\ d - 1 \in Nat /\ d - 1 <= d
    BY <2>6, <2>14, WordParts
  <2>16. IsWord(id) /\ id.length = d - 1 /\ Agree(id, left.id, d - 1)
    BY <2>6, <2>15, PrefixWord
  <2>17. IsEntry(e, M)
    BY <2>10, <2>11, <2>13, <2>16 DEF IsEntry
  <2>18. Filled(e, L, m)
    BY <2>4, <2>5, <2>6, <2>13, KeyBelow DEF Filled
  <2>19. ASSUME NEW q \in 1..Len(R) PROVE IsEntry(R[q], M) /\ Filled(R[q], L, m)
    <3>1. CASE q = n - 1
      BY <2>12, <2>17, <2>18, <3>1
    <3>2. CASE q # n - 1
      <4>1. q \in 1..(n - 2) /\ q \in 1..n
        BY <2>4, <2>12, <3>2
      <4>2. R[q] = S[q] /\ IsEntry(S[q], N) /\ Filled(S[q], L, m)
        BY <1>1, <2>12, <4>1 DEF Stacked
      <4> QED BY <2>10, <2>11, <4>2, EntryStays
    <3> QED BY <3>1, <3>2
  <2>20. ASSUME NEW i \in 1..m PROVE \E q \in 1..Len(R) : Below(L[i], R[q], M)
    <3>1. PICK q \in 1..n : Below(L[i], S[q], N)
      BY <1>1 DEF Stacked
    <3>2. CASE q \in 1..(n - 2)
      <4>1. q \in 1..Len(R) /\ R[q] = S[q] /\ IsEntry(S[q], N)
        BY <1>1, <2>4, <2>12, <3>2 DEF Stacked
      <4>2. Below(L[i], S[q], N) => Below(L[i], S[q], M)
        <5> DEFINE f == S[q]
        <5>1. IsEntry(f, N)
          BY <4>1
        <5> HIDE DEF f
        <5>2. Len(M) \in Nat /\ Len(N) <= Len(M) /\ \A k \in 1..Len(N) : M[k].hash = N[k].hash
          BY <2>10, <2>11
        <5>3. \A l : Below(l, f, N) => Below(l, f, M)
          BY <2>10, <5>1, <5>2, EntryStays
        <5> QED BY <5>3 DEF f
      <4> QED BY <3>1, <4>1, <4>2
    <3> DEFINE w == L[i].shard_id
    <3>3. IsWord(w) /\ w.length \in Nat
      BY WordParts
    <3>4. n - 1 \in 1..Len(R) /\ R[n - 1] = e
      BY <2>4, <2>12
    <3>5. CASE q = n - 1
      <4>1. d <= w.length /\ Agree(w, left.id, d)
            /\ Leads(w.bits, w.length, L[i].hash, d, N[left.node].hash)
        BY <3>1, <3>5 DEF Below, left
      <4>2. d \in 1..w.length /\ w.bits[d] = 0
        <5>1. d \in 1..d /\ d \in 1..w.length
          BY <2>14, <2>15, <3>3, <4>1
        <5>2. w.bits[d] = left.id.bits[d]
          BY <4>1, <5>1 DEF Agree
        <5> QED BY <2>14, <5>1, <5>2
      <4>3. Leads(w.bits, w.length, L[i].hash, d - 1, Joined(w.bits[d], N[right.node].hash, N[left.node].hash))
        BY <3>3, <4>1, <4>2, LeadsUp
      <4>4. Joined(w.bits[d], N[right.node].hash, N[left.node].hash) = hash
        BY <4>2 DEF Joined, hash
      <4>5. Agree(w, id, d - 1)
        BY <2>15, <2>16, <4>1 DEF Agree
      <4>6. Below(L[i], e, M)
        BY <2>11, <2>13, <2>15, <2>16, <3>3, <4>1, <4>3, <4>4, <4>5 DEF Below
      <4> QED BY <3>4, <4>6
    <3>6. CASE q = n
      <4>1. d <= w.length /\ Agree(w, right.id, d)
            /\ Leads(w.bits, w.length, L[i].hash, d, N[right.node].hash)
        BY <2>14, <3>1, <3>6 DEF Below, right
      <4>2. d \in 1..w.length /\ w.bits[d] = 1
        <5>1. d \in 1..d /\ d \in 1..w.length
          BY <2>14, <2>15, <3>3, <4>1
        <5>2. w.bits[d] = right.id.bits[d]
          BY <4>1, <5>1 DEF Agree
        <5> QED BY <2>14, <5>1, <5>2
      <4>3. Leads(w.bits, w.length, L[i].hash, d - 1, Joined(w.bits[d], N[left.node].hash, N[right.node].hash))
        BY <3>3, <4>1, <4>2, LeadsUp
      <4>4. Joined(w.bits[d], N[left.node].hash, N[right.node].hash) = hash
        BY <4>2 DEF Joined, hash
      <4>5. Agree(w, id, d - 1)
        BY <2>14, <2>15, <2>16, <4>1 DEF Agree
      <4>6. Below(L[i], e, M)
        BY <2>11, <2>13, <2>15, <2>16, <3>3, <4>1, <4>3, <4>4, <4>5 DEF Below
      <4> QED BY <3>4, <4>6
    <3> QED BY <2>4, <3>2, <3>5, <3>6
  <2>21. Stacked(R, M, L, m)
    BY <2>12, <2>19, <2>20 DEF Stacked
  <2> QED BY <1>1, <2>2, <2>9, <2>21 DEF Passing
<1> QED BY <1>3, <1>4

LEMMA CollapseSteps ==
  ASSUME NEW t, NEW n \in Nat, n = Len(t.stack)
  PROVE  \E f : /\ f[0] = t /\ Collapse(t) = f[n]
                /\ \A i \in 1..n : f[i] = Merge(f[i - 1])
<1> DEFINE IsRun(f, k) == f = [i \in 0..k |-> IF i = 0 THEN t ELSE Merge(f[i - 1])]
           S == {k \in Nat : \E f : IsRun(f, k)}
<1>1. 0 \in S
  <2>1. IsRun([i \in 0..0 |-> t], 0)
    OBVIOUS
  <2> QED BY <2>1
<1>2. ASSUME NEW k \in 1..n, k - 1 \in S
      PROVE  k \in S
  <2>1. PICK f : IsRun(f, k - 1)
    BY <1>2
  <2> DEFINE g == [i \in 0..k |-> IF i = k THEN Merge(f[k - 1]) ELSE f[i]]
  <2>2. ASSUME NEW i \in 0..k
        PROVE  g[i] = IF i = 0 THEN t ELSE Merge(g[i - 1])
    <3>1. CASE i = k
      BY <3>1
    <3>2. CASE i # k
      <4>1. i \in 0..(k - 1) /\ g[i] = f[i] /\ (i # 0 => g[i - 1] = f[i - 1])
        BY <3>2
      <4>2. f[i] = IF i = 0 THEN t ELSE Merge(f[i - 1])
        BY <2>1, <4>1
      <4> QED BY <4>1, <4>2
    <3> QED BY <3>1, <3>2
  <2>3. g = [i \in 0..k |-> IF i = 0 THEN t ELSE Merge(g[i - 1])]
    BY <2>2
  <2> HIDE DEF g
  <2>4. IsRun(g, k)
    BY <2>3
  <2> QED BY <2>4
<1>3. n \in S
  <2>1. 0..n \subseteq S
    <3> HIDE DEF S
    <3> QED BY <1>1, <1>2, UpTo
  <2> QED BY <2>1
<1> DEFINE at == CHOOSE f : IsRun(f, Len(t.stack))
<1>4. IsRun(at, n)
  <2>1. \E f : IsRun(f, Len(t.stack))
    BY <1>3
  <2>2. IsRun(at, Len(t.stack))
    <3> HIDE DEF IsRun
    <3> QED BY <2>1
  <2> HIDE DEF at
  <2> QED BY <2>2
<1>5. Collapse(t) = at[Len(t.stack)]
  BY Zenon DEF Collapse
<1> HIDE DEF at
<1>6. /\ at[0] = t
      /\ \A i \in 1..n : at[i] = Merge(at[i - 1])
  BY <1>4
<1> QED BY <1>5, <1>6

LEMMA CollapseKeeps ==
  ASSUME NEW t, NEW L, NEW m \in Nat, \A i \in 1..m : IsWord(L[i].shard_id), Passing(t, L, m)
  PROVE  Passing(Collapse(t), L, m)
<1> DEFINE n == Len(t.stack)
<1>1. n \in Nat
  BY DEF Passing, Stacked
<1>2. PICK f : /\ f[0] = t /\ Collapse(t) = f[n]
               /\ \A i \in 1..n : f[i] = Merge(f[i - 1])
  BY <1>1, CollapseSteps
<1> HIDE DEF n
<1> DEFINE S == {i \in 0..n : Passing(f[i], L, m)}
<1>3. 0 \in S
  BY <1>1, <1>2
<1>4. ASSUME NEW i \in 1..n, i - 1 \in S PROVE i \in S
  <2>1. Passing(f[i - 1], L, m) /\ i \in 0..n
    BY <1>4
  <2>2. Passing(f[i], L, m)
    BY <1>2, <2>1, MergeKeeps
  <2> QED BY <2>1, <2>2
<1>5. 0..n \subseteq S
  <2> HIDE DEF S
  <2> QED BY <1>1, <1>3, <1>4, UpTo
<1>6. n \in 0..n
  BY <1>1
<1> QED BY <1>2, <1>5, <1>6

Refused(t) == \E N, K, S : t = [ok |-> FALSE, nodes |-> N, leaves |-> K, stack |-> S]

LEMMA LeadsItself ==
  ASSUME NEW bits, NEW n \in Nat, NEW hash
  PROVE  Leads(bits, n, hash, n, hash)
<1> DEFINE f == [k \in {n} |-> hash]
<1>1. f[n] = hash /\ (n + 1)..n = {}
  OBVIOUS
<1> HIDE DEF f
<1> QED BY <1>1 DEF Leads

(* One more leaf, before the subtrees are merged.                          *)
LEMMA EntryPushed ==
  ASSUME NEW N, NEW K, NEW S, NEW L, NEW m \in Nat, \A i \in 1..(m + 1) : IsWord(L[i].shard_id),
         Arena(N), Stacked(S, N, L, m), Listed(K, L, m),
         m # 0 => Less(L[m].shard_id, L[m + 1].shard_id)
  PROVE  LET leaf == L[m + 1]
             entry == [id |-> leaf.shard_id, node |-> Len(N) + 1]
             node == [hash |-> leaf.hash, parent |-> 0, children |-> <<>>]
         IN /\ Arena(Append(N, node)) /\ Stacked(Append(S, entry), Append(N, node), L, m + 1)
            /\ Listed(Append(K, entry), L, m + 1)
<1> DEFINE leaf == L[m + 1]
           id == leaf.shard_id
           entry == [id |-> id, node |-> Len(N) + 1]
           node == [hash |-> leaf.hash, parent |-> 0, children |-> <<>>]
           M == Append(N, node)
           R == Append(S, entry)
           J == Append(K, entry)
           n == Len(S)
<1>1. IsNode(node) /\ node.hash = leaf.hash /\ entry.id = id /\ entry.node = Len(N) + 1
  BY DEF IsNode
<1> HIDE DEF node, entry
<1>2. /\ Arena(M) /\ Len(M) = Len(N) + 1 /\ M[Len(N) + 1] = node
      /\ \A k \in 1..Len(N) : M[k] = N[k]
  BY <1>1, ArenaGrows
<1> HIDE DEF M
<1>3. Len(N) \in Nat /\ Len(M) \in Nat /\ Len(N) <= Len(M) /\ \A k \in 1..Len(N) : M[k].hash = N[k].hash
  BY <1>2, ArenaParts
<1>4. ASSUME NEW q, \E X : q \in Seq(X)
      PROVE  /\ Len(q) \in Nat /\ \E X : Append(q, entry) \in Seq(X)
             /\ Len(Append(q, entry)) = Len(q) + 1 /\ Append(q, entry)[Len(q) + 1] = entry
             /\ \A i \in 1..Len(q) : Append(q, entry)[i] = q[i]
  <2>1. PICK X : q \in Seq(X)
    BY <1>4
  <2> DEFINE Y == X \cup {entry}
  <2>2. q \in Seq(Y) /\ entry \in Y
    BY <2>1
  <2> HIDE DEF Y
  <2> QED BY <2>2, AppendProperties, LenProperties
<1>5. /\ n \in Nat /\ (\E X : R \in Seq(X)) /\ Len(R) = n + 1 /\ R[n + 1] = entry
      /\ \A i \in 1..n : R[i] = S[i]
  BY <1>4 DEF Stacked
<1>6. /\ (\E X : J \in Seq(X)) /\ Len(J) = m + 1 /\ J[m + 1] = entry /\ \A i \in 1..m : J[i] = K[i]
  BY <1>4 DEF Listed
<1> HIDE DEF R, J, n
<1>7. IsWord(id) /\ id.length \in Nat
  BY WordParts
<1>8. IsEntry(entry, M)
  BY <1>1, <1>2, <1>3, <1>7 DEF IsEntry
<1>9. m + 1 \in 1..(m + 1) /\ \A i \in 1..m : i \in 1..(m + 1)
  OBVIOUS
<1>10. Filled(entry, L, m + 1)
  BY <1>1, <1>9 DEF Filled
<1>11. ASSUME NEW q \in 1..Len(R) PROVE IsEntry(R[q], M) /\ Filled(R[q], L, m + 1)
  <2>1. CASE q = n + 1
    BY <1>5, <1>8, <1>10, <2>1
  <2>2. CASE q # n + 1
    <3>1. q \in 1..n /\ R[q] = S[q]
      BY <1>5, <2>2
    <3>2. IsEntry(S[q], N) /\ Filled(S[q], L, m)
      BY <3>1 DEF Stacked, n
    <3>3. Filled(S[q], L, m + 1)
      BY <1>9, <3>2 DEF Filled
    <3> QED BY <1>3, <3>1, <3>2, <3>3, EntryStays
  <2> QED BY <2>1, <2>2
<1>12. ASSUME NEW i \in 1..(m + 1) PROVE \E q \in 1..Len(R) : Below(L[i], R[q], M)
  <2>1. CASE i = m + 1
    <3>1. Leads(id.bits, id.length, leaf.hash, id.length, leaf.hash)
      BY <1>7, LeadsItself
    <3>2. Below(L[i], entry, M)
      BY <1>1, <1>2, <1>7, <2>1, <3>1 DEF Below, Agree
    <3> QED BY <1>5, <3>2
  <2>2. CASE i # m + 1
    <3>1. i \in 1..m
      BY <2>2
    <3>2. PICK q \in 1..n : Below(L[i], S[q], N)
      BY <3>1 DEF Stacked, n
    <3>3. q \in 1..Len(R) /\ R[q] = S[q] /\ IsEntry(S[q], N)
      BY <1>5 DEF Stacked, n
    <3> DEFINE f == S[q]
    <3>4. IsEntry(f, N) /\ Below(L[i], f, N) /\ R[q] = f
      BY <3>2, <3>3
    <3> HIDE DEF f
    <3>5. Below(L[i], f, M)
      BY <1>3, <3>4, EntryStays
    <3> QED BY <3>3, <3>4, <3>5
  <2> QED BY <2>1, <2>2
<1>13. Stacked(R, M, L, m + 1)
  BY <1>5, <1>11, <1>12 DEF Stacked
<1>14. ASSUME NEW i \in 1..(m + 1) PROVE J[i].id = L[i].shard_id
  <2>1. CASE i = m + 1
    BY <1>1, <1>6, <2>1
  <2>2. CASE i # m + 1
    <3>1. i \in 1..m
      BY <2>2
    <3> QED BY <1>6, <3>1 DEF Listed
  <2> QED BY <2>1, <2>2
<1>15. ASSUME NEW i \in 1..(m + 1), i < m + 1 PROVE Less(L[i].shard_id, L[i + 1].shard_id)
  <2>1. CASE i = m
    BY <1>15, <2>1
  <2>2. CASE i < m
    BY <2>2 DEF Listed
  <2> QED BY <1>15, <2>1, <2>2
<1>16. Listed(J, L, m + 1)
  BY <1>6, <1>14, <1>15 DEF Listed
<1> QED BY <1>2, <1>13, <1>16 DEF M, R, J, node, entry

(* What a leaf that comes after the last one adds.                         *)
Pushed(N, K, S, leaf) ==
  LET entry == [id |-> leaf.shard_id, node |-> Len(N) + 1]
      node == [hash |-> leaf.hash, parent |-> 0, children |-> <<>>]
  IN [ok |-> TRUE, nodes |-> Append(N, node), leaves |-> Append(K, entry), stack |-> Append(S, entry)]

PassIs(t, N, K, S) == t = [ok |-> TRUE, nodes |-> N, leaves |-> K, stack |-> S]

LEMMA PushIs ==
  ASSUME NEW N, NEW K, NEW S, NEW leaf, NEW t, PassIs(t, N, K, S),
         ~(K # <<>> /\ canonical_cmp(Last(K).id, leaf.shard_id) >= 0)
  PROVE  PushLeaf(t, leaf) = Collapse(Pushed(N, K, S, leaf))
<1> DEFINE entry == [id |-> leaf.shard_id, node |-> Len(N) + 1]
           node == [hash |-> leaf.hash, parent |-> 0, children |-> <<>>]
           v == [t EXCEPT !.nodes = Append(@, node), !.leaves = Append(@, entry),
                          !.stack = Append(@, entry)]
<1>1. t.ok /\ t.nodes = N /\ t.leaves = K /\ t.stack = S
  BY DEF PassIs
<1>2. PushLeaf(t, leaf) = Collapse(v)
  BY <1>1 DEF PushLeaf
<1>3. v = Pushed(N, K, S, leaf)
  <2> DEFINE b == TRUE
             A == Append(t.nodes, node)
             B == Append(t.leaves, entry)
             C == Append(t.stack, entry)
  <2>1. A = Append(N, node) /\ B = Append(K, entry) /\ C = Append(S, entry)
    BY <1>1
  <2> HIDE DEF A, B, C
  <2>2. t = [ok |-> b, nodes |-> N, leaves |-> K, stack |-> S]
    BY DEF PassIs
  <2> HIDE DEF b
  <2>3. [t EXCEPT !.nodes = A, !.leaves = B, !.stack = C]
          = [ok |-> b, nodes |-> A, leaves |-> B, stack |-> C]
    <3> DEFINE t1 == [t EXCEPT !.nodes = A]
               t2 == [t1 EXCEPT !.leaves = B]
               t3 == [t2 EXCEPT !.stack = C]
    <3>1. t1 = [ok |-> b, nodes |-> A, leaves |-> K, stack |-> S]
      BY <2>2
    <3>2. [t EXCEPT !.nodes = A, !.leaves = B, !.stack = C] = t3
      OBVIOUS
    <3> HIDE DEF t1
    <3>3. t2 = [ok |-> b, nodes |-> A, leaves |-> B, stack |-> S]
      BY <3>1
    <3> HIDE DEF t2
    <3>4. t3 = [ok |-> b, nodes |-> A, leaves |-> B, stack |-> C]
      BY <3>3
    <3> QED BY <3>2, <3>4
  <2>4. v = [t EXCEPT !.nodes = A, !.leaves = B, !.stack = C]
    BY DEF A, B, C
  <2>5. Pushed(N, K, S, leaf) = [ok |-> b, nodes |-> A, leaves |-> B, stack |-> C]
    BY <2>1 DEF Pushed, b
  <2> HIDE DEF v
  <2> QED BY <2>3, <2>4, <2>5
<1> HIDE DEF v
<1> QED BY <1>2, <1>3

LEMMA PushKeeps ==
  ASSUME NEW t, NEW L, NEW m \in Nat, \A i \in 1..(m + 1) : IsWord(L[i].shard_id),
         Passing(t, L, m) \/ Refused(t)
  PROVE  Passing(PushLeaf(t, L[m + 1]), L, m + 1) \/ Refused(PushLeaf(t, L[m + 1]))
<1> DEFINE leaf == L[m + 1]
           after == t.leaves # <<>> /\ canonical_cmp(Last(t.leaves).id, leaf.shard_id) >= 0
<1>1. CASE Refused(t)
  <2>1. PICK N, K, S : t = [ok |-> FALSE, nodes |-> N, leaves |-> K, stack |-> S]
    BY <1>1 DEF Refused
  <2>2. PushLeaf(t, leaf) = [t EXCEPT !.ok = FALSE]
    BY <2>1 DEF PushLeaf
  <2>3. PushLeaf(t, leaf) = [ok |-> FALSE, nodes |-> N, leaves |-> K, stack |-> S]
    BY <2>1, <2>2
  <2> QED BY <2>3 DEF Refused
<1>2. CASE Passing(t, L, m)
  <2>1. PICK N, K, S : /\ t = [ok |-> TRUE, nodes |-> N, leaves |-> K, stack |-> S]
                       /\ Arena(N) /\ Stacked(S, N, L, m) /\ Listed(K, L, m)
    BY <1>2 DEF Passing
  <2>2. t.ok /\ t.nodes = N /\ t.leaves = K /\ t.stack = S
    BY <2>1
  <2>3. CASE after
    <3>1. PushLeaf(t, leaf) = [t EXCEPT !.ok = FALSE]
      BY <2>3 DEF PushLeaf
    <3>2. PushLeaf(t, leaf) = [ok |-> FALSE, nodes |-> N, leaves |-> K, stack |-> S]
      BY <2>1, <3>1
    <3> QED BY <3>2 DEF Refused
  <2>4. CASE ~after
    <3> DEFINE entry == [id |-> leaf.shard_id, node |-> Len(N) + 1]
               node == [hash |-> leaf.hash, parent |-> 0, children |-> <<>>]
               u == Pushed(N, K, S, leaf)
    <3>1. PassIs(t, N, K, S)
      BY <2>1 DEF PassIs
    <3>2. PushLeaf(t, leaf) = Collapse(u)
      BY <2>2, <2>4, <3>1, PushIs
    <3>3. m # 0 => Less(L[m].shard_id, leaf.shard_id)
      <4> SUFFICES ASSUME m # 0 PROVE Less(L[m].shard_id, leaf.shard_id)
        OBVIOUS
      <4>1. PICK X : K \in Seq(X)
        BY <2>1 DEF Listed
      <4>2. Len(K) = m /\ K # <<>> /\ m \in 1..m /\ K[m].id = L[m].shard_id
        BY <2>1, <4>1 DEF Listed
      <4>3. Last(K) = K[m]
        BY <4>2 DEF Last
      <4>4. ~(canonical_cmp(L[m].shard_id, leaf.shard_id) >= 0)
        BY <2>2, <2>4, <4>2, <4>3
      <4>5. IsString(L[m].shard_id) /\ IsString(leaf.shard_id)
        BY WordParts
      <4>6. canonical_cmp(L[m].shard_id, leaf.shard_id) \in {-1, 0, 1}
        BY <4>5, ComparedIs
      <4>7. canonical_cmp(L[m].shard_id, leaf.shard_id) = -1
        BY <4>4, <4>6
      <4> QED BY <4>5, <4>7, ComparedIs
    <3>4. /\ Arena(Append(N, node)) /\ Stacked(Append(S, entry), Append(N, node), L, m + 1)
          /\ Listed(Append(K, entry), L, m + 1)
      BY <2>1, <3>3, EntryPushed
    <3>5. Passing(u, L, m + 1)
      BY <3>4 DEF Passing, Pushed
    <3> HIDE DEF u
    <3>6. Passing(Collapse(u), L, m + 1)
      BY <3>5, CollapseKeeps
    <3> QED BY <3>2, <3>6
  <2> QED BY <2>3, <2>4
<1> QED BY <1>1, <1>2

LEMMA BuildSteps ==
  ASSUME NEW L, NEW n \in Nat, n = Len(L)
  PROVE  \E f : /\ f[0] = [ok |-> TRUE, nodes |-> <<>>, leaves |-> <<>>, stack |-> <<>>]
                /\ \A i \in 1..n : f[i] = PushLeaf(f[i - 1], L[i])
                /\ build(L) = IF f[n].ok /\ Len(f[n].stack) = 1 /\ f[n].stack[1].id.length = 0
                              THEN Ok([nodes |-> f[n].nodes, leaves |-> f[n].leaves,
                                       root |-> f[n].stack[1].node])
                              ELSE Err("shards do not make a tree")
<1> DEFINE t == [ok |-> TRUE, nodes |-> <<>>, leaves |-> <<>>, stack |-> <<>>]
           IsRun(f, k) == f = [i \in 0..k |-> IF i = 0 THEN t ELSE PushLeaf(f[i - 1], L[i])]
           S == {k \in Nat : \E f : IsRun(f, k)}
           Finished(x) == IF x.ok /\ Len(x.stack) = 1 /\ x.stack[1].id.length = 0
                          THEN Ok([nodes |-> x.nodes, leaves |-> x.leaves,
                                   root |-> x.stack[1].node])
                          ELSE Err("shards do not make a tree")
           at == CHOOSE f : IsRun(f, Len(L))
<1>0. build(L) = Finished(at[Len(L)])
  BY Zenon DEF build
<1> HIDE DEF t, Finished
<1>1. 0 \in S
  <2>1. IsRun([i \in 0..0 |-> t], 0)
    OBVIOUS
  <2> QED BY <2>1
<1>2. ASSUME NEW k \in 1..n, k - 1 \in S
      PROVE  k \in S
  <2>1. PICK f : IsRun(f, k - 1)
    BY <1>2
  <2> DEFINE g == [i \in 0..k |-> IF i = k THEN PushLeaf(f[k - 1], L[k]) ELSE f[i]]
  <2>2. ASSUME NEW i \in 0..k
        PROVE  g[i] = IF i = 0 THEN t ELSE PushLeaf(g[i - 1], L[i])
    <3>1. CASE i = k
      BY <3>1
    <3>2. CASE i # k
      <4>1. i \in 0..(k - 1) /\ g[i] = f[i] /\ (i # 0 => g[i - 1] = f[i - 1])
        BY <3>2
      <4>2. f[i] = IF i = 0 THEN t ELSE PushLeaf(f[i - 1], L[i])
        BY <2>1, <4>1
      <4> QED BY <4>1, <4>2
    <3> QED BY <3>1, <3>2
  <2>3. g = [i \in 0..k |-> IF i = 0 THEN t ELSE PushLeaf(g[i - 1], L[i])]
    BY <2>2
  <2> HIDE DEF g
  <2>4. IsRun(g, k)
    BY <2>3
  <2> QED BY <2>4
<1>3. n \in S
  <2>1. 0..n \subseteq S
    <3> HIDE DEF S
    <3> QED BY <1>1, <1>2, UpTo
  <2> QED BY <2>1
<1>4. IsRun(at, n)
  <2>1. \E f : IsRun(f, Len(L))
    BY <1>3
  <2>2. IsRun(at, Len(L))
    <3> HIDE DEF IsRun
    <3> QED BY <2>1
  <2> HIDE DEF at
  <2> QED BY <2>2
<1> HIDE DEF at
<1>6. /\ at[0] = t
      /\ \A i \in 1..n : at[i] = PushLeaf(at[i - 1], L[i])
  BY <1>4
<1>7. build(L) = Finished(at[n])
  BY <1>0
<1> QED BY <1>6, <1>7 DEF t, Finished

LEMMA NothingPassed ==
  ASSUME NEW L
  PROVE  Passing([ok |-> TRUE, nodes |-> <<>>, leaves |-> <<>>, stack |-> <<>>], L, 0)
<1>1. Arena(<<>>)
  <2> DEFINE X == {}
  <2>1. <<>> \in Seq(X) /\ \A x \in X : IsNode(x)
    OBVIOUS
  <2> HIDE DEF X
  <2> QED BY <2>1 DEF Arena
<1>2. \E X : <<>> \in Seq(X)
  <2>1. <<>> \in Seq({})
    OBVIOUS
  <2> QED BY <2>1
<1>3. Len(<<>>) = 0
  OBVIOUS
<1>4. Stacked(<<>>, <<>>, L, 0) /\ Listed(<<>>, L, 0)
  BY <1>2, <1>3 DEF Stacked, Listed
<1> QED BY <1>1, <1>4 DEF Passing

(* A tree that build makes commits to its leaves: every leaf's path leads  *)
(* to the root, they are in order, and they leave no key out.              *)
LEMMA BuildCommits ==
  ASSUME NEW L, NEW n \in Nat, n = Len(L), \A i \in 1..n : IsWord(L[i].shard_id), build(L).ok
  PROVE  /\ \A i \in 1..n : Leads(L[i].shard_id.bits, L[i].shard_id.length, L[i].hash, 0,
                                  tree_root(build(L).value))
         /\ \A key \in Keys : \E i \in 1..n : InShard(L[i].shard_id, key)
         /\ \A i \in 1..n : i < n => Less(L[i].shard_id, L[i + 1].shard_id)
<1>1. PICK f : /\ f[0] = [ok |-> TRUE, nodes |-> <<>>, leaves |-> <<>>, stack |-> <<>>]
               /\ \A i \in 1..n : f[i] = PushLeaf(f[i - 1], L[i])
               /\ build(L) = IF f[n].ok /\ Len(f[n].stack) = 1 /\ f[n].stack[1].id.length = 0
                             THEN Ok([nodes |-> f[n].nodes, leaves |-> f[n].leaves,
                                      root |-> f[n].stack[1].node])
                             ELSE Err("shards do not make a tree")
  BY BuildSteps
<1> DEFINE S == {i \in 0..n : Passing(f[i], L, i) \/ Refused(f[i])}
<1>2. 0 \in S
  <2>1. Passing(f[0], L, 0)
    BY <1>1, NothingPassed
  <2> QED BY <2>1
<1>3. ASSUME NEW i \in 1..n, i - 1 \in S PROVE i \in S
  <2>1. /\ Passing(f[i - 1], L, i - 1) \/ Refused(f[i - 1])
        /\ i \in 0..n /\ i - 1 \in Nat /\ (i - 1) + 1 = i
    BY <1>3
  <2> DEFINE m == i - 1
  <2>2. /\ Passing(f[m], L, m) \/ Refused(f[m])
        /\ m \in Nat /\ \A k \in 1..(m + 1) : IsWord(L[k].shard_id)
    BY <2>1
  <2>3. f[i] = PushLeaf(f[m], L[m + 1])
    BY <1>1, <2>1
  <2> HIDE DEF m
  <2>4. \/ Passing(PushLeaf(f[m], L[m + 1]), L, m + 1)
        \/ Refused(PushLeaf(f[m], L[m + 1]))
    BY <2>2, PushKeeps
  <2>5. m + 1 = i
    BY <2>1 DEF m
  <2>6. Passing(f[i], L, i) \/ Refused(f[i])
    BY <2>3, <2>4, <2>5
  <2> QED BY <2>1, <2>6
<1>4. 0..n \subseteq S
  <2> HIDE DEF S
  <2> QED BY <1>2, <1>3, UpTo
<1>5. Passing(f[n], L, n) \/ Refused(f[n])
  <2>1. n \in 0..n
    OBVIOUS
  <2> QED BY <1>4, <2>1
<1> DEFINE t == f[n]
<1>6. /\ t.ok /\ Len(t.stack) = 1 /\ t.stack[1].id.length = 0
      /\ build(L) = Ok([nodes |-> t.nodes, leaves |-> t.leaves, root |-> t.stack[1].node])
  <2>1. ~Err("shards do not make a tree").ok
    BY DEF Err
  <2> QED BY <1>1, <2>1
<1> HIDE DEF t
<1>7. Passing(t, L, n)
  <2>1. ~Refused(t)
    BY <1>6 DEF Refused
  <2> QED BY <1>5, <2>1 DEF t
<1>8. PICK N, K, R : /\ t = [ok |-> TRUE, nodes |-> N, leaves |-> K, stack |-> R]
                     /\ Arena(N) /\ Stacked(R, N, L, n) /\ Listed(K, L, n)
  BY <1>7 DEF Passing
<1>9. t.nodes = N /\ t.stack = R /\ Len(R) = 1 /\ R[1].id.length = 0
  BY <1>6, <1>8
<1>10. tree_root(build(L).value) = N[R[1].node].hash
  <2> DEFINE tree == [nodes |-> t.nodes, leaves |-> t.leaves, root |-> t.stack[1].node]
  <2>1. build(L).value = tree
    BY <1>6 DEF Ok
  <2>2. tree.nodes = N /\ tree.root = R[1].node
    BY <1>9
  <2> HIDE DEF tree
  <2> QED BY <2>1, <2>2 DEF tree_root
<1>11. ASSUME NEW i \in 1..n
       PROVE  Leads(L[i].shard_id.bits, L[i].shard_id.length, L[i].hash, 0, N[R[1].node].hash)
  <2>1. PICK q \in 1..Len(R) : Below(L[i], R[q], N)
    BY <1>8 DEF Stacked
  <2>2. q = 1
    BY <1>9, <2>1
  <2> QED BY <1>9, <2>1, <2>2 DEF Below
<1>12. ASSUME NEW key \in Keys PROVE \E i \in 1..n : InShard(L[i].shard_id, key)
  <2>1. Filled(R[1], L, n)
    BY <1>8, <1>9 DEF Stacked
  <2>2. InShard(R[1].id, key)
    BY <1>9 DEF InShard
  <2> QED BY <2>1, <2>2 DEF Filled
<1>13. \A i \in 1..n : i < n => Less(L[i].shard_id, L[i + 1].shard_id)
  BY <1>8 DEF Listed
<1> QED BY <1>10, <1>11, <1>12, <1>13

(* The path of a certificate leads from its leaf to the shard tree's root. *)
LEMMA CertificateLeads ==
  ASSUME NEW uc, NEW hash, uc.shard_tree_certificate.shard.length \in Nat, FoldsTo(uc, hash)
  PROVE  \E top : /\ compute_root_hash(uc.unicity_tree_certificate, top) = hash
                  /\ Leads(uc.shard_tree_certificate.shard.bits,
                           uc.shard_tree_certificate.shard.length, ShardLeaf(uc), 0, top)
<1> DEFINE shard == uc.shard_tree_certificate.shard
           list == uc.shard_tree_certificate.sibling_hash_list
           n == shard.length
           f == ShardPath(uc)
           top == f[n]
<1>1. compute_root_hash(uc.unicity_tree_certificate, top) = hash
  <2>1. shard_tree_root_hash(uc).ok
    BY DEF FoldsTo, computed_seal_hash
  <2>2. shard_tree_root_hash(uc) = Ok(top)
    BY <2>1 DEF shard_tree_root_hash, Err
  <2>3. shard_tree_root_hash(uc).value = top
    BY <2>2 DEF Ok
  <2>4. computed_seal_hash(uc) = Ok(compute_root_hash(uc.unicity_tree_certificate, top))
    BY <2>1, <2>3 DEF computed_seal_hash
  <2> QED BY <2>4 DEF FoldsTo, Ok
<1>2. f[0] = ShardLeaf(uc) /\ \A i \in 1..n : f[i] = ShardStep(shard, list, f[i - 1], i)
  BY ShardPathSteps
<1>3. n \in Nat
  OBVIOUS
<1> HIDE DEF f, list, shard
<1> DEFINE g == [k \in 0..n |-> f[n - k]]
<1>4. g[n] = ShardLeaf(uc) /\ g[0] = top
  BY <1>2, <1>3
<1>5. ASSUME NEW k \in 1..n PROVE \E s : g[k - 1] = Joined(shard.bits[k], s, g[k])
  <2> DEFINE i == n - (k - 1)
  <2>1. i \in 1..n /\ i - 1 = n - k /\ n - i = k - 1 /\ k - 1 < n /\ (k - 1) + 1 = k
    BY <1>3
  <2>2. g[k - 1] = f[i] /\ g[k] = f[i - 1]
    BY <1>3, <2>1
  <2> HIDE DEF g, i
  <2>3. g[k - 1] = ShardStep(shard, list, g[k], i)
    BY <1>2, <2>1, <2>2
  <2>4. get_bit(shard, n - i) = shard.bits[k]
    BY <1>3, <2>1 DEF get_bit
  <2>5. ShardStep(shard, list, g[k], i) = Joined(shard.bits[k], list[i], g[k])
    BY <2>4 DEF ShardStep, Joined
  <2> QED BY <2>3, <2>5
<1> HIDE DEF g, top
<1>6. Leads(shard.bits, n, ShardLeaf(uc), 0, top)
  BY <1>4, <1>5 DEF Leads
<1> QED BY <1>1, <1>6 DEF shard

LeafHash(l) == shard_leaf_hash(l.input_record, l.tr_hash, l.shard_conf_hash)

(* Whatever leads to the hash of the seal is the path that was committed   *)
(* to, over the tree of the leaves that were.                              *)
LEMMA WorldCommits ==
  ASSUME NEW w \in Worlds, NEW i \in DOMAIN w.leaves, NEW utc, NEW top, IsTreePath(utc),
         utc.partition_identifier = AggregationPartition,
         compute_root_hash(utc, top) = w.seal.hash
  PROVE  /\ utc = w.unicity_tree_certificate
         /\ Leads(w.leaves[i].shard_id.bits, w.leaves[i].shard_id.length, LeafHash(w.leaves[i]), 0, top)
<1> DEFINE l == w.leaves[i]
           uc == CommittedCertificate(w, l)
           list == [k \in 1..l.shard_id.length |->
                      Subtree(w.leaves, sibling(prefix(l.shard_id, l.shard_id.length + 1 - k)))]
<1>1. uc \in CommittedCertificates(w)
  BY DEF CommittedCertificates
<1>2. computed_seal_hash(uc) = Ok(w.seal.hash)
  BY <1>1, CommitmentAssumption
<1>3. /\ IsTreePath(w.unicity_tree_certificate) /\ IsShardId(l.shard_id)
      /\ w.unicity_tree_certificate.partition_identifier = AggregationPartition
  BY CommitmentAssumption
<1>4. uc = [input_record |-> l.input_record, technical_record_hash |-> l.tr_hash,
            shard_configuration_hash |-> l.shard_conf_hash,
            shard_tree_certificate |-> [shard |-> l.shard_id, sibling_hash_list |-> list],
            unicity_tree_certificate |-> w.unicity_tree_certificate, unicity_seal |-> w.seal]
  BY DEF CommittedCertificate
<1> HIDE DEF list, uc, l
<1>5. /\ uc.shard_tree_certificate.shard = l.shard_id
      /\ uc.unicity_tree_certificate = w.unicity_tree_certificate
      /\ ShardLeaf(uc) = LeafHash(l)
  BY <1>4 DEF ShardLeaf, LeafHash
<1>6. FoldsTo(uc, w.seal.hash)
  BY <1>2 DEF FoldsTo, Ok
<1>7. l.shard_id.length \in Nat
  <2>1. l.shard_id.bits \in Seq({0, 1}) /\ l.shard_id.length \in 0..Len(l.shard_id.bits)
    BY <1>3 DEF IsShardId
  <2> QED BY <2>1
<1>8. PICK a : /\ compute_root_hash(w.unicity_tree_certificate, a) = w.seal.hash
               /\ Leads(l.shard_id.bits, l.shard_id.length, LeafHash(l), 0, a)
  BY <1>5, <1>6, <1>7, CertificateLeads
<1>9. utc = w.unicity_tree_certificate
  BY <1>3, <1>8, OneTreePath
<1>10. a = top
  <2>1. Len(utc.steps) \in Nat /\ Len(w.unicity_tree_certificate.steps) \in Nat
    BY <1>3 DEF IsTreePath
  <2> QED BY <1>3, <1>8, <2>1, OneShardTree
<1> QED BY <1>8, <1>9, <1>10 DEF l

-----------------------------------------------------------------------------
(* Identifiers without other bits set.                                     *)

Canonical(id) == \E s \in Seq({0, 1}), n \in Nat : n <= Len(s) /\ id = Padded(s, n)

LEMMA CanonicalParts ==
  ASSUME NEW s \in Seq({0, 1}), NEW n \in Nat, n <= Len(s)
  PROVE  /\ Padded(s, n).length = n /\ \A k \in 1..n : Padded(s, n).bits[k] = s[k]
         /\ n <= Len(Padded(s, n).bits)
         /\ Padded(s, n) \in [bits : Seq({0, 1}), length : Nat]
<1>1. WholeBytes(n) \in Nat /\ n <= WholeBytes(n)
  BY WholeBytesAre
<1>2. Padded(s, n) \in [bits : Seq({0, 1}), length : Nat]
  BY LenProperties, PaddedIsId
<1> DEFINE b == [k \in 1..WholeBytes(n) |-> IF k <= n THEN s[k] ELSE 0]
<1>3. Padded(s, n).length = n /\ Padded(s, n).bits = b
  BY DEF Padded
<1>4. b \in Seq({0, 1})
  BY <1>2, <1>3
<1>5. Len(b) = WholeBytes(n)
  BY <1>1, <1>4
<1>6. \A k \in 1..n : b[k] = s[k]
  BY <1>1
<1> HIDE DEF b
<1> QED BY <1>1, <1>2, <1>3, <1>5, <1>6

LEMMA CanonicalEqual ==
  ASSUME NEW a, NEW b, Canonical(a), Canonical(b), a.length = b.length, Agree(a, b, a.length)
  PROVE  a = b
<1>1. PICK s \in Seq({0, 1}), n \in Nat : n <= Len(s) /\ a = Padded(s, n)
  BY DEF Canonical
<1>2. PICK t \in Seq({0, 1}), m \in Nat : m <= Len(t) /\ b = Padded(t, m)
  BY DEF Canonical
<1>3. a.length = n /\ \A k \in 1..n : a.bits[k] = s[k]
  BY <1>1, CanonicalParts
<1>4. b.length = m /\ \A k \in 1..m : b.bits[k] = t[k]
  BY <1>2, CanonicalParts
<1>5. n = m /\ \A k \in 1..n : s[k] = t[k]
  BY <1>3, <1>4 DEF Agree
<1>6. WholeBytes(n) \in Nat
  BY WholeBytesAre
<1>7. Padded(s, n) = Padded(t, n)
  <2>1. [k \in 1..WholeBytes(n) |-> IF k <= n THEN s[k] ELSE 0]
          = [k \in 1..WholeBytes(n) |-> IF k <= n THEN t[k] ELSE 0]
    BY <1>5, <1>6
  <2> QED BY <2>1 DEF Padded
<1> QED BY <1>1, <1>2, <1>5, <1>7

LEMMA ShardIdIsCanonical ==
  ASSUME NEW id, IsShardId(id)
  PROVE  Canonical(id)
<1> DEFINE n == id.length
           s == SubSeq(id.bits, 1, n)
<1>1. id.bits \in Seq({0, 1}) /\ n \in 0..Len(id.bits) /\ id = IdOf(s)
  BY DEF IsShardId
<1>2. s \in Seq({0, 1}) /\ Len(s) \in Nat
  BY <1>1
<1>3. IdOf(s) = Padded(s, Len(s))
  BY <1>2, IdSteps
<1> HIDE DEF s, n
<1> QED BY <1>1, <1>2, <1>3 DEF Canonical

LEMMA DecodedIsCanonical ==
  ASSUME NEW data \in Seq({0, 1}), decode(data) # None
  PROVE  Canonical(decode(data))
<1>1. Marked(data) # {}
  BY DEF decode, Marked
<1>2. PICK end \in Marked(data) : decode(data) = Padded(data, end - 1)
  BY <1>1, DecodeIs
<1>3. end \in 1..Len(data) /\ Len(data) \in Nat
  BY LenProperties DEF Marked
<1>4. end - 1 \in Nat /\ end - 1 <= Len(data)
  BY <1>3
<1> QED BY <1>2, <1>4 DEF Canonical

LEMMA CanonicalIsWord ==
  ASSUME NEW id, Canonical(id), id.length <= KeyBits
  PROVE  IsWord(id)
BY CanonicalParts DEF Canonical, IsWord

(* A leaf that a decoder made, for a shard of keys.                        *)
IsShardLeaf(l) == IsLeafRecord(l) /\ Canonical(l.shard_id) /\ IsWord(l.shard_id)

Committing(l, top) == Leads(l.shard_id.bits, l.shard_id.length, LeafHash(l), 0, top)

LEMMA ShorterLeaf ==
  ASSUME NEW l, IsShardLeaf(l), NEW k, IsShardLeaf(k), NEW top, Committing(l, top), Committing(k, top),
         NEW key, InShard(l.shard_id, key), InShard(k.shard_id, key),
         l.shard_id.length <= k.shard_id.length
  PROVE  l = k
<1>1. l.shard_id.length \in Nat /\ k.shard_id.length \in Nat
  BY WordParts DEF IsShardLeaf
<1>2. \A i \in 1..l.shard_id.length : l.shard_id.bits[i] = k.shard_id.bits[i]
  BY <1>1 DEF InShard
<1>3. /\ l.shard_id.length = k.shard_id.length /\ l.input_record = k.input_record
      /\ l.tr_hash = k.tr_hash /\ l.shard_conf_hash = k.shard_conf_hash
  <2> DEFINE b == l.shard_id.bits
             n == l.shard_id.length
             c == k.shard_id.bits
             m == k.shard_id.length
  <2>1. n \in Nat /\ m \in Nat /\ n <= m /\ \A i \in 1..n : b[i] = c[i]
    BY <1>1, <1>2
  <2>2. Leads(b, n, LeafHash(l), 0, top) /\ Leads(c, m, LeafHash(k), 0, top)
    BY DEF Committing
  <2>3. \A x : LeafHash(x) = <<"shard leaf", x.input_record, x.tr_hash, x.shard_conf_hash>>
    BY DEF LeafHash, shard_leaf_hash
  <2>4. \A bit, s, x : LeafHash(l) # Joined(bit, s, x)
    <3>1. LeafHash(l)[1] = "shard leaf"
      BY <2>3
    <3>2. \A bit, s, x : Joined(bit, s, x)[1] = "shard node"
      BY DEF Joined, shard_node_hash
    <3> QED BY <3>1, <3>2
  <2> HIDE DEF b, n, c, m
  <2>5. n = m /\ LeafHash(l) = LeafHash(k)
    BY ONLY <2>1, <2>2, <2>4, LeadsToOne
  <2>6. /\ LeafHash(l)[2] = l.input_record /\ LeafHash(l)[3] = l.tr_hash
        /\ LeafHash(l)[4] = l.shard_conf_hash
        /\ LeafHash(k)[2] = k.input_record /\ LeafHash(k)[3] = k.tr_hash
        /\ LeafHash(k)[4] = k.shard_conf_hash
    BY <2>3
  <2> QED BY <2>5, <2>6 DEF n, m
<1>4. l.shard_id = k.shard_id
  BY <1>2, <1>3, CanonicalEqual DEF IsShardLeaf, Agree
<1>5. IsLeafRecord(l) /\ IsLeafRecord(k)
  BY DEF IsShardLeaf
<1> QED BY <1>3, <1>4, <1>5 DEF IsLeafRecord

LEMMA SameLeaf ==
  ASSUME NEW l, IsShardLeaf(l), NEW k, IsShardLeaf(k), NEW top, Committing(l, top), Committing(k, top),
         NEW key, InShard(l.shard_id, key), InShard(k.shard_id, key)
  PROVE  l = k
<1>1. l.shard_id.length \in Nat /\ k.shard_id.length \in Nat
  BY WordParts DEF IsShardLeaf
<1>2. CASE l.shard_id.length <= k.shard_id.length
  BY <1>2, ShorterLeaf
<1>3. CASE k.shard_id.length <= l.shard_id.length
  BY <1>3, ShorterLeaf
<1> QED BY <1>1, <1>2, <1>3

LEMMA KeyIn ==
  ASSUME NEW id, IsWord(id)
  PROVE  \E key \in Keys : InShard(id, key)
<1> DEFINE key == [k \in 1..KeyBits |-> IF k <= id.length THEN id.bits[k] ELSE 0]
<1>1. /\ id.length \in Nat /\ id.length <= KeyBits
      /\ \A i \in 1..id.length : id.bits[i] \in {0, 1}
  BY WordParts
<1>2. KeyBits \in Nat
  BY RadixAssumption
<1>3. key \in [1..KeyBits -> {0, 1}]
  BY <1>1, <1>2
<1>4. Len(key) = KeyBits
  BY <1>2
<1>5. \A i \in 1..id.length : i <= KeyBits /\ key[i] = id.bits[i]
  BY <1>1, <1>2
<1> HIDE DEF key
<1> QED BY <1>3, <1>4, <1>5 DEF Keys, InShard

(* Leaves of one tree, and leaves that leave no key out.                   *)
Leaves(s, n, top) == \A i \in 1..n : IsShardLeaf(s[i]) /\ Committing(s[i], top)

Full(s, n) == \A key \in Keys : \E i \in 1..n : InShard(s[i].shard_id, key)

LEMMA Everywhere ==
  ASSUME NEW s, NEW n \in Nat, NEW t, NEW m \in Nat, NEW top,
         Leaves(s, n, top), Leaves(t, m, top), Full(t, m)
  PROVE  \A i \in 1..n : \E j \in 1..m : s[i] = t[j]
<1> SUFFICES ASSUME NEW i \in 1..n PROVE \E j \in 1..m : s[i] = t[j]
  OBVIOUS
<1> DEFINE l == s[i]
<1>1. IsShardLeaf(l) /\ Committing(l, top)
  BY DEF Leaves
<1> HIDE DEF l
<1>2. PICK key \in Keys : InShard(l.shard_id, key)
  BY <1>1, KeyIn DEF IsShardLeaf
<1>3. PICK j \in 1..m : InShard(t[j].shard_id, key)
  BY DEF Full
<1> DEFINE k == t[j]
<1>4. IsShardLeaf(k) /\ Committing(k, top) /\ InShard(k.shard_id, key)
  BY <1>3 DEF Leaves
<1> HIDE DEF k
<1>5. l = k
  BY <1>1, <1>2, <1>4, SameLeaf
<1> QED BY <1>5 DEF l, k

(* A list of leaves as it is given to build.                               *)
AllLeaves(s, n) == \A i \in 1..n : IsShardLeaf(s[i])

Hashed(s, n) == [i \in 1..n |-> [shard_id |-> s[i].shard_id, hash |-> LeafHash(s[i])]]

(* A list of leaves that build accepts, and whose tree is under the hash   *)
(* of the seal, is the list that was committed to.                         *)
LEMMA LeavesAreCommitted ==
  ASSUME NEW w \in Worlds, NEW s, NEW n \in Nat,
         AllLeaves(s, n), build(Hashed(s, n)).ok, NEW utc, IsTreePath(utc), utc.partition_identifier = AggregationPartition,
         compute_root_hash(utc, tree_root(build(Hashed(s, n)).value)) = w.seal.hash
  PROVE  /\ n = Len(w.leaves) /\ \A i \in 1..n : s[i] = w.leaves[i]
         /\ utc = w.unicity_tree_certificate
<1> DEFINE L == Hashed(s, n)
           top == tree_root(build(L).value)
           t == w.leaves
           m == Len(t)
<1>0. DOMAIN t = 1..m /\ m \in Nat
  <2> DEFINE X == {t[i] : i \in DOMAIN t}
  <2>1. t \in Seq(X)
    BY CommitmentAssumption
  <2> HIDE DEF X, t
  <2> QED BY <2>1
<1>1. /\ \A i \in 1..m : IsLeafRecord(t[i]) /\ IsShardId(t[i].shard_id)
                         /\ t[i].shard_id.length <= MaxIdBits
      /\ \A i, j \in 1..m : i < j => canonical_cmp(t[i].shard_id, t[j].shard_id) = -1
      /\ \A key \in Keys : \E i \in 1..m : InShard(t[i].shard_id, key)
      /\ MaxIdBits <= KeyBits
  BY <1>0, CommitmentAssumption
<1>2. Len(L) = n /\ \A i \in 1..n : L[i].shard_id = s[i].shard_id /\ L[i].hash = LeafHash(s[i])
  BY DEF Hashed
<1>3. /\ \A i \in 1..n : Leads(L[i].shard_id.bits, L[i].shard_id.length, L[i].hash, 0, top)
      /\ \A key \in Keys : \E i \in 1..n : InShard(L[i].shard_id, key)
      /\ \A i \in 1..n : i < n => Less(L[i].shard_id, L[i + 1].shard_id)
  <2>1. \A i \in 1..n : IsWord(L[i].shard_id)
    BY <1>2 DEF AllLeaves, IsShardLeaf
  <2> QED BY <1>2, <2>1, BuildCommits
<1> HIDE DEF top, L
<1>4. \A i \in 1..n : Committing(s[i], top)
  BY <1>2, <1>3 DEF Committing
<1>5. \A key \in Keys : \E i \in 1..n : InShard(s[i].shard_id, key)
  BY <1>2, <1>3
<1>6. Ordered(s, n)
  <2>1. \A i \in 1..n : IsString(s[i].shard_id)
    BY WordParts DEF AllLeaves, IsShardLeaf
  <2>2. \A i \in 1..n : i < n => Less(s[i].shard_id, s[i + 1].shard_id)
    BY <1>2, <1>3
  <2> QED BY <2>1, <2>2, NeighboursOrder
<1>7. \A i \in 1..m : utc = w.unicity_tree_certificate /\ Committing(t[i], top)
  BY <1>0, WorldCommits DEF Committing, top, L
<1>8. ASSUME NEW i \in 1..m PROVE IsShardLeaf(t[i])
  <2> DEFINE l == t[i]
  <2>1. IsLeafRecord(l) /\ IsShardId(l.shard_id) /\ l.shard_id.length <= MaxIdBits
    BY <1>1
  <2> HIDE DEF l
  <2>2. Canonical(l.shard_id)
    BY <2>1, ShardIdIsCanonical
  <2>3. l.shard_id.length <= KeyBits
    <3>1. l.shard_id.length \in Nat
      BY <2>2, CanonicalParts DEF Canonical
    <3> QED BY <1>1, <2>1, <3>1, RadixAssumption, RoutingAssumption
  <2>4. IsShardLeaf(l)
    BY <2>1, <2>2, <2>3, CanonicalIsWord DEF IsShardLeaf
  <2> QED BY <2>4 DEF l
<1>9. n \in Nat /\ m \in Nat
  BY <1>0
<1> HIDE DEF t, m
<1>10. Ordered(t, m)
  <2>1. \A i \in 1..m : IsString(t[i].shard_id)
    BY <1>8, WordParts DEF IsShardLeaf
  <2>2. \A i, j \in 1..m : i < j => Less(t[i].shard_id, t[j].shard_id)
    BY <1>1, <2>1, ComparedIs
  <2> QED BY <2>1, <2>2 DEF Ordered
<1>11. Leaves(s, n, top) /\ Leaves(t, m, top) /\ Full(s, n) /\ Full(t, m)
  BY <1>1, <1>4, <1>5, <1>7, <1>8 DEF Leaves, Full, AllLeaves
<1>12. \A i \in 1..n : \E j \in 1..m : s[i] = t[j]
  BY ONLY <1>9, <1>11, Everywhere
<1>13. \A j \in 1..m : \E i \in 1..n : t[j] = s[i]
  BY ONLY <1>9, <1>11, Everywhere
<1>14. n = m /\ \A i \in 1..n : s[i] = t[i]
  BY ONLY <1>6, <1>9, <1>10, <1>12, <1>13, OrderedEqual
<1>15. \E i \in 1..m : TRUE
  <2>1. \E key : key \in Keys
    <3> DEFINE key == [k \in 1..KeyBits |-> 0]
    <3>1. key \in Keys
      BY DEF Keys
    <3> QED BY <3>1
  <2> QED BY <1>1, <2>1
<1> QED BY <1>7, <1>14, <1>15 DEF t, m

-----------------------------------------------------------------------------
(* What authentication checks.                                             *)

(* Lists of rules put together.                                            *)
LEMMA RulesJoined ==
  ASSUME NEW A, NEW a \in Seq(A), NEW B, NEW b \in Seq(B), NEW C, NEW c \in Seq(C)
  PROVE  LET s == a \o b \o c
         IN /\ s \in Seq(A \cup B \cup C) /\ Len(s) = Len(a) + Len(b) + Len(c)
            /\ \A i \in 1..Len(a) : s[i] = a[i]
<1> DEFINE U == A \cup B \cup C
           t == a \o b
           s == t \o c
<1>1. a \in Seq(U) /\ b \in Seq(U) /\ c \in Seq(U)
  OBVIOUS
<1> HIDE DEF U
<1>2. /\ t \in Seq(U) /\ Len(t) = Len(a) + Len(b)
      /\ \A i \in 1..(Len(a) + Len(b)) : t[i] = IF i <= Len(a) THEN a[i] ELSE b[i - Len(a)]
  BY <1>1, ConcatProperties
<1>3. Len(a) \in Nat /\ Len(b) \in Nat /\ Len(c) \in Nat
  BY <1>1, LenProperties
<1>4. \A i \in 1..Len(a) : t[i] = a[i]
  BY <1>2, <1>3
<1> HIDE DEF t
<1>5. /\ s \in Seq(U) /\ Len(s) = Len(t) + Len(c)
      /\ \A i \in 1..(Len(t) + Len(c)) : s[i] = IF i <= Len(t) THEN t[i] ELSE c[i - Len(t)]
  BY <1>1, <1>2, ConcatProperties
<1> HIDE DEF s
<1>6. \A i \in 1..Len(a) : s[i] = a[i]
  BY <1>2, <1>3, <1>4, <1>5
<1> QED BY <1>2, <1>5, <1>6 DEF U, s, t

Failures(U) == \A x \in U : x.error # "Ok"

LEMMA NamedList ==
  ASSUME NEW U, NEW s \in Seq(U), Len(s) <= 7, Failures(U)
  PROVE  Named(s)
<1>1. Len(s) \in Nat /\ DOMAIN s = 1..Len(s)
  BY LenProperties
<1>2. \A i \in 1..Len(s) : s[i] \in U
  BY ElementOfSeq
<1>3. Len(s) \in 0..7
  <2>1. \A k \in Nat : k <= 7 => k \in 0..7
    OBVIOUS
  <2> QED BY ONLY <1>1, <2>1, Len(s) <= 7
<1>4. \A i \in 1..Len(s) : s[i].error # "Ok"
  BY <1>2 DEF Failures
<1> QED BY <1>1, <1>3, <1>4 DEF Named

LEMMA FirstPasses ==
  ASSUME NEW A, NEW a \in Seq(A), NEW B, NEW b \in Seq(B), NEW C, NEW c \in Seq(C),
         Passes(a \o b \o c)
  PROVE  \A i \in 1..Len(a) : a[i].holds
<1> DEFINE s == a \o b \o c
           U == A \cup B \cup C
<1>1. s \in Seq(U) /\ Len(s) = Len(a) + Len(b) + Len(c) /\ \A i \in 1..Len(a) : s[i] = a[i]
  BY RulesJoined
<1>2. Passes(s)
  OBVIOUS
<1>3. Len(a) \in Nat /\ Len(b) \in Nat /\ Len(c) \in Nat
  BY LenProperties
<1> HIDE DEF s, U
<1>4. DOMAIN s = 1..Len(s)
  BY <1>1, LenProperties
<1>5. \A i \in 1..Len(a) : i \in DOMAIN s
  BY <1>1, <1>3, <1>4
<1> QED BY <1>1, <1>2, <1>5 DEF Passes

LEMMA TuplesAre ==
  ASSUME NEW x, NEW y, NEW u, NEW v
  PROVE  /\ <<x>> \in Seq({x}) /\ Len(<<x>>) = 1 /\ <<x>>[1] = x
         /\ <<x, y>> \in Seq({x, y}) /\ Len(<<x, y>>) = 2 /\ <<x, y>>[1] = x /\ <<x, y>>[2] = y
         /\ <<x, y, u, v>> \in Seq({x, y, u, v}) /\ Len(<<x, y, u, v>>) = 4
OBVIOUS

(* The first rule of a leaf bounds its identifier.                         *)
LEMMA LeafIsBounded ==
  ASSUME NEW l, Passes(LeafRules(l))
  PROVE  l.shard_id.length <= MaxIdBits
<1> DEFINE ir == l.input_record
           fits == l.shard_id.length <= MaxIdBits
           bounded == Rule(fits, "shard id is too long")
           same == Content(ir.previous_hash) = Content(ir.hash)
           a1 == Rule(ir.round_number # 0 => ir.summary_value # None, "no summary value")
           a2 == Rule(ir.round_number # 0 => ir.timestamp # 0, "no timestamp")
           a3 == Rule(same => Content(ir.block_hash) = Empty, "block without a change")
           a4 == Rule(~same => Content(ir.block_hash) # Empty, "change without a block")
           b1 == Rule(ir.summary_value # Long, "summary value is too long")
           b2 == Rule(\A h \in {ir.hash, ir.previous_hash, ir.block_hash} :
                        Content(h) = Empty \/ IsHash(h), "hash of an input record")
           b3 == Rule(IsHash(l.tr_hash), "TRHash")
           b4 == Rule(IsHash(l.shard_conf_hash), "ShardConfHash")
<1>1. LeafRules(l) = <<bounded>> \o <<a1, a2, a3, a4>> \o <<b1, b2, b3, b4>>
  BY Zenon DEF LeafRules, RecordRules
<1> HIDE DEF bounded, a1, a2, a3, a4, b1, b2, b3, b4
<1> DEFINE a == <<bounded>>
           b == <<a1, a2, a3, a4>>
           c == <<b1, b2, b3, b4>>
<1>2. a \in Seq({bounded}) /\ Len(a) = 1 /\ a[1] = bounded
  BY TuplesAre
<1>3. b \in Seq({a1, a2, a3, a4}) /\ c \in Seq({b1, b2, b3, b4})
  BY TuplesAre
<1>4. Passes(a \o b \o c)
  BY <1>1
<1> HIDE DEF a, b, c
<1>5. \A i \in 1..Len(a) : a[i].holds
  BY <1>2, <1>3, <1>4, FirstPasses
<1>6. bounded.holds
  BY <1>2, <1>5
<1>7. fits
  <2>1. bounded.holds = fits
    BY DEF bounded, Rule
  <2> HIDE DEF fits
  <2> QED BY ONLY <1>6, <2>1, Zenon
<1> QED BY <1>7

(* A view that was decoded consists of leaves.                             *)
LEMMA DecodedView ==
  ASSUME NEW w \in Worlds, NEW wire \in Wires(w), from_cbor(wire).ok
  PROVE  LET s == from_cbor(wire).value.leaves
         IN /\ Len(s) \in Nat /\ DOMAIN s = 1..Len(s) /\ s = [i \in 1..Len(s) |-> s[i]]
            /\ \A i \in 1..Len(s) : IsShardLeaf(s[i])
<1> DEFINE leaves == [i \in DOMAIN wire.leaves |-> [wire.leaves[i] EXCEPT !.shard_id = decode(@)]]
           v == [partition_id |-> wire.partition_id, leaves |-> leaves]
           n == Len(wire.leaves)
<1>1. /\ ~\E i \in DOMAIN v.leaves : v.leaves[i].shard_id = None
      /\ check_bounds(v) /\ from_cbor(wire) = Ok(v)
  <2> DEFINE missing == \E i \in DOMAIN v.leaves : v.leaves[i].shard_id = None
  <2>1. from_cbor(wire) =
          IF ~wire.well_formed THEN Err("CBOR")
          ELSE IF wire.version # 1 THEN Err("unsupported version")
          ELSE IF missing THEN Err("shard id")
          ELSE IF ~check_bounds(v) THEN Err("bounds")
          ELSE IF to_cbor(v) # wire THEN Err("not canonical") ELSE Ok(v)
    BY DEF from_cbor
  <2>2. \A e : ~Err(e).ok
    BY DEF Err
  <2> HIDE DEF v, missing
  <2>3. ~missing /\ check_bounds(v) /\ from_cbor(wire) = Ok(v)
    BY <2>1, <2>2
  <2> QED BY <2>3 DEF missing
<1>2. from_cbor(wire).value.leaves = leaves /\ v.leaves = leaves
  <2>1. Ok(v).value = v
    BY DEF Ok
  <2>2. v.leaves = leaves
    OBVIOUS
  <2> HIDE DEF v, leaves
  <2> QED BY <1>1, <2>1, <2>2
<1>3. n \in Nat /\ DOMAIN wire.leaves = 1..n
  <2> DEFINE t == wire.leaves
             X == {t[i] : i \in DOMAIN t}
  <2>1. t \in Seq(X)
    BY ServedAssumption
  <2> HIDE DEF X, t
  <2>2. Len(t) \in Nat /\ DOMAIN t = 1..Len(t)
    BY <2>1
  <2> QED BY <2>2 DEF t
<1>4. ASSUME NEW i \in 1..n
      PROVE  IsShardLeaf(leaves[i])
  <2> DEFINE l == wire.leaves[i]
             id == decode(l.shard_id)
             k == [l EXCEPT !.shard_id = decode(@)]
  <2>1. i \in DOMAIN wire.leaves
    BY <1>3
  <2>2. l.shard_id \in Seq({0, 1}) /\ IsLeafRecord(l)
    BY <2>1, ServedAssumption
  <2>3. leaves[i] = k
    BY <2>1
  <2> HIDE DEF l
  <2>4. k = [shard_id |-> id, input_record |-> l.input_record, tr_hash |-> l.tr_hash,
             shard_conf_hash |-> l.shard_conf_hash]
    <3> HIDE DEF id
    <3>1. k = [l EXCEPT !.shard_id = id]
      BY DEF id
    <3>2. l = [shard_id |-> l.shard_id, input_record |-> l.input_record, tr_hash |-> l.tr_hash,
               shard_conf_hash |-> l.shard_conf_hash]
      BY <2>2 DEF IsLeafRecord
    <3> HIDE DEF k
    <3> QED BY <3>1, <3>2
  <2>5. leaves[i].shard_id = id /\ i \in DOMAIN leaves
    BY <2>1, <2>3, <2>4
  <2> HIDE DEF leaves, id, k
  <2>6. id # None
    BY <1>1, <1>2, <2>5
  <2>7. Canonical(id)
    BY <2>2, <2>6, DecodedIsCanonical DEF id
  <2>8. id.length <= MaxIdBits
    <3>1. Passes(LeafRules(v.leaves[i]))
      BY <1>1, <1>2, <2>5 DEF check_bounds
    <3>2. leaves[i].shard_id.length <= MaxIdBits
      BY <1>2, <3>1, LeafIsBounded
    <3> QED BY <2>5, <3>2
  <2>9. id.length <= KeyBits
    <3>1. id.length \in Nat
      BY <2>7, CanonicalParts DEF Canonical
    <3>2. MaxIdBits <= KeyBits
      BY CommitmentAssumption
    <3> QED BY <2>8, <3>1, <3>2, RadixAssumption, RoutingAssumption
  <2>10. IsWord(id)
    BY <2>7, <2>9, CanonicalIsWord
  <2>11. IsLeafRecord(k) /\ k.shard_id = id
    BY <2>4 DEF IsLeafRecord
  <2> QED BY <2>3, <2>7, <2>10, <2>11 DEF IsShardLeaf
<1>5. DOMAIN leaves = 1..n /\ leaves = [i \in 1..n |-> leaves[i]]
  BY <1>3
<1>6. Len(leaves) = n
  BY <1>3, <1>5
<1> HIDE DEF leaves, n
<1> QED BY <1>2, <1>3, <1>4, <1>5, <1>6

(* The tree of a view that verify_tree accepts.                            *)
LeavesOf(s) == [i \in DOMAIN s |-> [shard_id |-> s[i].shard_id, hash |-> LeafHash(s[i])]]

LEMMA TreeVerified ==
  ASSUME NEW v, NEW enclosing, NEW topology
  PROVE  LET r == verify_tree(v, enclosing, topology)
             tree == build(LeavesOf(v.leaves))
             utc == enclosing.unicity_tree_certificate
         IN IF r.ok THEN /\ validate_structure(v, topology) /\ tree.ok
                         /\ utc.partition_identifier = AggregationPartition
                         /\ compute_root_hash(utc, tree_root(tree.value)) = enclosing.unicity_seal.hash
            ELSE r.error # "Ok"
<1> DEFINE r == verify_tree(v, enclosing, topology)
           tree == build(LeavesOf(v.leaves))
           utc == enclosing.unicity_tree_certificate
           built == build_shard_tree(v, topology)
           own == OwnLeafRules(v, enclosing, built.value)
           inside == utc.partition_identifier = AggregationPartition
           under == compute_root_hash(utc, tree_root(built.value)) = enclosing.unicity_seal.hash
           a1 == Rule(inside, "another partition")
           a2 == Rule(under, "tree root")
           c1 == Rule(enclosing.unicity_seal.well_shaped, "SealMalformed")
           a == <<a1, a2>>
           c == <<c1>>
           rules == a \o own \o c
<1>1. r = Require(built, rules)
  BY Zenon DEF verify_tree
<1>2. built = IF ~validate_structure(v, topology) THEN Err("structure") ELSE tree
  BY DEF build_shard_tree, LeavesOf, LeafHash
<1>3. tree.ok \/ tree = Err("shards do not make a tree")
  <2>1. ASSUME NEW x PROVE build(x).ok \/ build(x) = Err("shards do not make a tree")
    BY DEF build, Ok
  <2> QED BY <2>1
<1>4. \E B : own \in Seq(B) /\ Len(own) <= 4 /\ Failures(B)
  <2> DEFINE shard == enclosing.shard_tree_certificate.shard
             found == SelectSeq(v.leaves, LAMBDA l : l.shard_id = shard)
             leaf == found[1]
             b0 == Rule(FALSE, "certificate shard is not in the view")
             b1 == Rule(enclosing.shard_configuration_hash = leaf.shard_conf_hash, "configuration")
             b2 == Rule(enclosing.technical_record_hash = leaf.tr_hash, "technical record")
             b3 == Rule(enclosing.input_record = leaf.input_record, "input record")
             b4 == Rule(certificate(built.value, shard) = Ok(enclosing.shard_tree_certificate),
                        "shard path")
  <2>1. own = IF found = <<>> THEN <<b0>> ELSE <<b1, b2, b3, b4>>
    BY Zenon DEF OwnLeafRules
  <2>2. Failures({b0}) /\ Failures({b1, b2, b3, b4})
    BY DEF Failures, Rule
  <2> HIDE DEF b0, b1, b2, b3, b4, found
  <2>3. <<b0>> \in Seq({b0}) /\ Len(<<b0>>) <= 4
    BY TuplesAre
  <2>4. <<b1, b2, b3, b4>> \in Seq({b1, b2, b3, b4}) /\ Len(<<b1, b2, b3, b4>>) <= 4
    BY TuplesAre
  <2> QED BY <2>1, <2>2, <2>3, <2>4
<1>5. Failures({a1, a2}) /\ Failures({c1})
  BY DEF Failures, Rule
<1>6. a1.holds = inside /\ a2.holds = under
  BY DEF Rule
<1> HIDE DEF own, a1, a2, c1
<1>7. /\ a \in Seq({a1, a2}) /\ Len(a) = 2 /\ a[1] = a1 /\ a[2] = a2
      /\ c \in Seq({c1}) /\ Len(c) = 1
  BY TuplesAre
<1> HIDE DEF a, c
<1>8. PICK B : own \in Seq(B) /\ Len(own) <= 4 /\ Failures(B)
  BY <1>4
<1>9. Named(rules)
  <2> DEFINE X == {a1, a2}
             Z == {c1}
             U == X \cup B \cup Z
  <2>0. a \in Seq(X) /\ c \in Seq(Z) /\ Failures(X) /\ Failures(Z)
    BY <1>5, <1>7
  <2> HIDE DEF X, Z
  <2>1. rules \in Seq(U) /\ Len(rules) = Len(a) + Len(own) + Len(c)
    BY <2>0, <1>8, RulesJoined
  <2>2. Len(own) \in Nat
    BY <1>8, LenProperties
  <2>3. Len(rules) <= 7
    BY <1>7, <1>8, <2>1, <2>2
  <2>4. Failures(U)
    BY <2>0, <1>8 DEF Failures
  <2> HIDE DEF rules, U
  <2> QED BY <2>1, <2>3, <2>4, NamedList
<1>10. Passes(rules) => a1.holds /\ a2.holds
  <2> SUFFICES ASSUME Passes(rules) PROVE a1.holds /\ a2.holds
    OBVIOUS
  <2>1. \A i \in 1..Len(a) : a[i].holds
    BY <1>7, <1>8, FirstPasses
  <2>2. 1 \in 1..Len(a) /\ 2 \in 1..Len(a)
    BY <1>7
  <2> QED BY <1>7, <2>1, <2>2
<1> HIDE DEF rules, built, r, tree
<1>11. r = IF ~built.ok \/ Passes(rules) THEN built ELSE Err(FirstError(rules))
  BY <1>1 DEF Require
<1>12. \A e : ~Err(e).ok /\ Err(e).error = e
  BY DEF Err
<1>13. CASE ~r.ok
  <2>1. CASE ~built.ok
    <3>1. r = built
      BY <1>11, <2>1
    <3>2. built = Err("structure") \/ built = Err("shards do not make a tree")
      BY <1>2, <1>3, <2>1
    <3>3. built.error # "Ok"
      BY <1>12, <3>2
    <3> QED BY <1>13, <3>1, <3>3 DEF r
  <2>2. CASE built.ok
    <3>1. ~Passes(rules) /\ r = Err(FirstError(rules))
      BY <1>11, <1>13, <2>2
    <3>2. FirstError(rules) # "Ok"
      BY <1>9, <3>1, FirstErrorIsNamed
    <3> QED BY <1>12, <1>13, <3>1, <3>2 DEF r
  <2> QED BY <2>1, <2>2
<1>14. CASE r.ok
  <2>1. built.ok /\ Passes(rules)
    BY <1>11, <1>12, <1>14
  <2>2. validate_structure(v, topology) /\ built = tree
    BY <1>2, <1>12, <2>1
  <2>3. inside /\ under
    <3>1. a1.holds /\ a2.holds
      BY <1>10, <2>1
    <3> HIDE DEF inside, under
    <3> QED BY ONLY <1>6, <3>1, Zenon
  <2>4. compute_root_hash(utc, tree_root(tree.value)) = enclosing.unicity_seal.hash
    BY <2>2, <2>3
  <2> QED BY <1>14, <2>1, <2>2, <2>3, <2>4 DEF r, tree
<1> QED BY <1>13, <1>14

-----------------------------------------------------------------------------
(* What a caller pinned.                                                   *)

LEMMA EncodedIsNotRoot ==
  ASSUME NEW id, id.length \in Nat, id.length >= 1
  PROVE  encode(id) # encode(root)
<1> DEFINE n == id.length
           p == n \div ByteBits
           q == root.length \div ByteBits
           x == (p + 1) * ByteBits
           y == (q + 1) * ByteBits
<1>1. ByteBits \in Nat /\ ByteBits > 0
  BY ByteAssumption
<1>2. p \in Nat /\ n % ByteBits \in 0..(ByteBits - 1) /\ n = p * ByteBits + (n % ByteBits)
  BY Division
<1>3. encode(id) = [i \in 1..x |-> IF i <= n THEN id.bits[i] ELSE IF i = n + 1 THEN 1 ELSE 0]
  BY DEF encode
<1>4. encode(root) = [i \in 1..y |-> IF i <= 0 THEN root.bits[i] ELSE IF i = 0 + 1 THEN 1 ELSE 0]
  BY DEF encode, root
<1> HIDE DEF p
<1>5. p * ByteBits \in Nat /\ x = p * ByteBits + ByteBits /\ n \in Nat
  BY <1>1, <1>2
<1>6. n + 1 \in 1..x
  BY <1>1, <1>2, <1>5
<1> HIDE DEF x, y
<1>7. encode(id)[n + 1] = 1 /\ DOMAIN encode(id) = 1..x
  BY <1>3, <1>5, <1>6
<1>8. DOMAIN encode(root) = 1..y /\ \A i \in 1..y : i > 1 => encode(root)[i] = 0
  BY <1>4
<1> SUFFICES ASSUME encode(id) = encode(root) PROVE FALSE
  OBVIOUS
<1>9. n + 1 \in 1..y /\ n + 1 > 1
  <2>1. 1..x = 1..y
    BY <1>7, <1>8
  <2>2. n + 1 \in 1..y
    BY <1>6, <2>1
  <2> QED BY <1>5, <2>2
<1> QED BY <1>7, <1>8, <1>9

LEMMA OrderIs ==
  ASSUME NEW scheme, NEW n \in Nat, n = Len(scheme), DOMAIN scheme = 1..n,
         canonical_order(scheme).ok
  PROVE  \/ scheme = <<>> /\ canonical_order(scheme).value = <<root>>
         \/ /\ \A i \in 1..n : scheme[i].length \in 1..MaxIdBits
            /\ canonical_order(scheme).value = sort_by(scheme)
<1> DEFINE ids == sort_by(scheme)
           wrong == \E i \in DOMAIN scheme : scheme[i].length \notin 1..MaxIdBits
           rest == IF wrong THEN Err("shard id length")
                   ELSE IF Overlaps(ids) THEN Err("not prefix-free")
                   ELSE IF covers(ids) THEN Ok(ids) ELSE Err("not complete")
<1>1. canonical_order(scheme) =
        CASE Len(scheme) > MaxShards -> Err("too many shards")
          [] scheme = <<>>           -> Ok(<<root>>)
          [] Len(scheme) = 1         -> Err("a single shard")
          [] OTHER -> rest
  BY DEF canonical_order
<1>2. \A e : ~Err(e).ok
  BY DEF Err
<1>3. \A x : Ok(x).value = x
  BY DEF Ok
<1> HIDE DEF rest
<1>4. \/ scheme = <<>> /\ canonical_order(scheme) = Ok(<<root>>)
      \/ canonical_order(scheme) = rest
  BY <1>1, <1>2
<1>5. CASE canonical_order(scheme) = rest
  <2>1. rest.ok
    BY <1>5
  <2>2. ~wrong /\ rest = Ok(ids)
    <3> HIDE DEF wrong, ids
    <3> QED BY <1>2, <2>1 DEF rest
  <2>3. canonical_order(scheme).value = ids
    BY <1>3, <1>5, <2>2
  <2> QED BY <2>2, <2>3
<1> QED BY <1>3, <1>4, <1>5

(* A shard's configuration hash that was pinned is the leaf's.             *)
LEMMA PinnedHash ==
  ASSUME NEW pins, \A c \in pins.conf_hashes : c.hash # None,
         \A c, d \in pins.conf_hashes : c.shard = d.shard => c.hash = d.hash,
         NEW l, NEW id, LeafMatches(pins, l, id), NEW c \in pins.conf_hashes,
         c.shard = encode(l.shard_id)
  PROVE  c.hash = l.shard_conf_hash
<1> DEFINE admitted == {p \in pins.conf_hashes : p.shard = encode(id)}
           first == CHOOSE p \in admitted : TRUE
<1>1. l.shard_id = id /\ shard_conf_hash(pins, id) \in {None, l.shard_conf_hash}
  BY DEF LeafMatches
<1>2. c \in admitted
  BY <1>1
<1>3. first \in admitted
  BY <1>2
<1>4. shard_conf_hash(pins, id) = first.hash
  BY <1>2 DEF shard_conf_hash
<1> HIDE DEF first
<1>5. first.hash = c.hash /\ first.hash # None
  BY <1>2, <1>3
<1> QED BY <1>1, <1>4, <1>5

LEMMA DistinctElements ==
  ASSUME NEW s, NEW n \in Nat, DOMAIN s = 1..n, \A i, j \in 1..n : s[i] = s[j] => i = j
  PROVE  Cardinality(ToSet(s)) = n
<1> DEFINE f == [i \in 1..n |-> s[i]]
           T == ToSet(s)
<1>1. IsFiniteSet(1..n) /\ Cardinality(1..n) = n
  BY FS_Interval
<1>2. T = {s[i] : i \in 1..n}
  BY DEF ToSet
<1>3. f \in Bijection(1..n, T)
  BY <1>2 DEF Bijection, Injection, Surjection, IsInjective
<1>4. ExistsBijection(1..n, T)
  BY <1>3 DEF ExistsBijection
<1> HIDE DEF T
<1>5. Cardinality(T) = Cardinality(1..n)
  BY <1>1, <1>4, FS_Bijection
<1> QED BY <1>1, <1>5 DEF T

(* A view that validate_structure accepts is the one that the pins admit.  *)
LEMMA PinsAdmit ==
  ASSUME NEW w \in Worlds, NEW pins \in Pins(w), pins # None,
         NEW v, v.leaves = w.leaves, validate_structure(v, pins)
  PROVE  Admits(pins, w)
<1> DEFINE s == w.leaves
           n == Len(s)
           scheme == pins.scheme
           m == Len(scheme)
           order == canonical_order(scheme)
           codes == {encode(scheme[i]) : i \in DOMAIN scheme}
           leaf_codes == {encode(s[i].shard_id) : i \in DOMAIN s}
<1>1. n \in Nat /\ DOMAIN s = 1..n
  <2> DEFINE X == {s[i] : i \in DOMAIN s}
  <2>1. s \in Seq(X)
    BY CommitmentAssumption
  <2> HIDE DEF X, s
  <2> QED BY <2>1
<1>2. m \in Nat /\ DOMAIN scheme = 1..m
  <2> DEFINE X == {scheme[i] : i \in DOMAIN scheme}
  <2>1. scheme \in Seq(X)
    BY ServedAssumption
  <2> HIDE DEF X, scheme
  <2> QED BY <2>1
<1>3. ASSUME NEW i \in 1..m PROVE IsString(scheme[i])
  <2> DEFINE id == scheme[i]
  <2>1. IsShardId(id)
    BY <1>2, ServedAssumption
  <2> HIDE DEF id
  <2>2. Canonical(id)
    BY <2>1, ShardIdIsCanonical
  <2>3. id \in [bits : Seq({0, 1}), length : Nat] /\ id.length <= Len(id.bits)
    BY <2>2, CanonicalParts DEF Canonical
  <2>4. IsString(id)
    BY <2>3 DEF IsString
  <2> QED BY <2>4 DEF id
<1>4. /\ order.ok /\ n = Len(order.value)
      /\ \A i \in 1..n : LeafMatches(pins, s[i], order.value[i])
  BY <1>1 DEF validate_structure
<1>5. \A i, j \in 1..n : i < j => canonical_cmp(s[i].shard_id, s[j].shard_id) = -1
  BY <1>1, CommitmentAssumption
<1>6. \A c \in pins.conf_hashes, i \in DOMAIN s :
        c.shard = encode(s[i].shard_id) => c.hash = s[i].shard_conf_hash
  <2> SUFFICES ASSUME NEW c \in pins.conf_hashes, NEW i \in DOMAIN s, c.shard = encode(s[i].shard_id)
               PROVE  c.hash = s[i].shard_conf_hash
    OBVIOUS
  <2>1. LeafMatches(pins, s[i], order.value[i])
    BY <1>1, <1>4
  <2>2. /\ \A d \in pins.conf_hashes : d.hash # None
        /\ \A d, e \in pins.conf_hashes : d.shard = e.shard => d.hash = e.hash
    BY ServedAssumption
  <2> DEFINE l == s[i]
             id == order.value[i]
  <2>3. LeafMatches(pins, l, id) /\ c.shard = encode(l.shard_id)
    BY <2>1
  <2> HIDE DEF l, id
  <2>4. c.hash = l.shard_conf_hash
    BY <2>2, <2>3, PinnedHash
  <2> QED BY <2>4 DEF l
<1>7. \/ scheme = <<>> /\ order.value = <<root>>
      \/ /\ \A i \in 1..m : scheme[i].length \in 1..MaxIdBits
         /\ order.value = sort_by(scheme)
  BY <1>2, <1>4, OrderIs
<1> HIDE DEF s, n, scheme, m, order
<1>8. codes = leaf_codes \ {encode(root)} /\ Cardinality(ToSet(scheme)) = m
  <2>1. CASE scheme = <<>> /\ order.value = <<root>>
    <3>1. n = 1 /\ order.value[1] = root
      BY <1>4, <2>1
    <3>2. s[1].shard_id = root
      BY <1>4, <3>1 DEF LeafMatches
    <3>3. DOMAIN scheme = {} /\ m = 0
      BY <2>1 DEF m
    <3>4. leaf_codes = {encode(root)}
      <4> DEFINE e == encode(root)
      <4>1. DOMAIN s = {1} /\ encode(s[1].shard_id) = e
        BY <1>1, <3>1, <3>2
      <4> HIDE DEF e
      <4> QED BY <4>1 DEF e
    <3>5. codes = {}
      BY <3>3
    <3>6. ToSet(scheme) = {}
      BY <3>3 DEF ToSet
    <3>7. Cardinality(ToSet(scheme)) = 0
      BY <3>6, FS_EmptySet
    <3> QED BY <3>3, <3>4, <3>5, <3>7
  <2>2. CASE /\ \A i \in 1..m : scheme[i].length \in 1..MaxIdBits
             /\ order.value = sort_by(scheme)
    <3>0. Rearranged(scheme, m)
      BY <1>2, <1>3, SortRearranges
    <3>1. PICK p \in [1..m -> 1..m] :
            /\ \A k, l \in 1..m : p[k] = p[l] => k = l
            /\ \A i \in 1..m : \E k \in 1..m : p[k] = i
            /\ sort_by(scheme) = [k \in 1..m |-> scheme[p[k]]]
      BY <3>0 DEF Rearranged
    <3>2. n = m
      <4>1. Len([k \in 1..m |-> scheme[p[k]]]) = m
        BY <1>2
      <4> QED BY <1>4, <2>2, <3>1, <4>1
    <3>3. \A k \in 1..m : p[k] \in 1..m /\ s[k].shard_id = scheme[p[k]]
      <4> SUFFICES ASSUME NEW k \in 1..m PROVE p[k] \in 1..m /\ s[k].shard_id = scheme[p[k]]
        OBVIOUS
      <4>1. p[k] \in 1..m /\ order.value[k] = scheme[p[k]]
        BY <2>2, <3>1
      <4>2. LeafMatches(pins, s[k], order.value[k])
        BY <1>4, <3>2
      <4> QED BY <4>1, <4>2 DEF LeafMatches
    <3>4. ASSUME NEW i \in 1..m, NEW j \in 1..m, scheme[i] = scheme[j] PROVE i = j
      <4>1. PICK k \in 1..m : p[k] = i
        BY <3>1
      <4>2. PICK l \in 1..m : p[l] = j
        BY <3>1
      <4>3. s[k].shard_id = scheme[i] /\ s[l].shard_id = scheme[i]
        BY <3>3, <3>4, <4>1, <4>2
      <4> DEFINE a == scheme[i]
      <4>4. IsString(a)
        BY <1>3
      <4> HIDE DEF a
      <4>5. canonical_cmp(a, a) # -1
        BY <4>4, ComparedIs, LessIrreflexive DEF Same, Agree
      <4>6. ~(k < l) /\ ~(l < k)
        BY <1>5, <3>2, <4>3, <4>5 DEF a
      <4> QED BY <1>2, <4>1, <4>2, <4>6
    <3>5. Cardinality(ToSet(scheme)) = m
      BY <1>2, <3>4, DistinctElements
    <3>6. codes = {encode(scheme[i]) : i \in 1..m} /\ leaf_codes = {encode(s[i].shard_id) : i \in 1..m}
      BY <1>1, <1>2, <3>2
    <3>7. codes = leaf_codes
      <4>1. ASSUME NEW i \in 1..m PROVE \E k \in 1..m : encode(scheme[i]) = encode(s[k].shard_id)
        <5>1. PICK k \in 1..m : p[k] = i
          BY <3>1
        <5> QED BY <3>3, <5>1
      <4>2. ASSUME NEW k \in 1..m PROVE \E i \in 1..m : encode(s[k].shard_id) = encode(scheme[i])
        BY <3>3
      <4> DEFINE C(i) == encode(scheme[i])
                 D(k) == encode(s[k].shard_id)
      <4>3. codes = {C(i) : i \in 1..m} /\ leaf_codes = {D(k) : k \in 1..m}
        BY <3>6
      <4>4. /\ \A i \in 1..m : \E k \in 1..m : C(i) = D(k)
            /\ \A k \in 1..m : \E i \in 1..m : D(k) = C(i)
        BY <4>1, <4>2
      <4> HIDE DEF codes, leaf_codes, C, D, m
      <4>5. codes \subseteq leaf_codes
        BY <4>3, <4>4
      <4>6. leaf_codes \subseteq codes
        BY <4>3, <4>4
      <4> QED BY <4>5, <4>6
    <3>8. encode(root) \notin codes
      <4>1. ASSUME NEW i \in 1..m PROVE encode(scheme[i]) # encode(root)
        <5> DEFINE id == scheme[i]
        <5>1. id.length \in Nat /\ id.length >= 1
          BY <2>2, RoutingAssumption
        <5> HIDE DEF id
        <5>2. encode(id) # encode(root)
          BY <5>1, EncodedIsNotRoot
        <5> QED BY <5>2 DEF id
      <4> QED BY <3>6, <4>1
    <3> HIDE DEF codes, leaf_codes
    <3> QED BY <3>5, <3>7, <3>8
  <2> QED BY <1>7, <2>1, <2>2
<1> QED BY <1>6, <1>8 DEF Admits, s, scheme, m

-----------------------------------------------------------------------------
(* Authentication succeeds only for what was committed to.                 *)

LEMMA AuthenticationSucceeds ==
  ASSUME NEW s, Earned(s), NEW v, NEW enclosing, NEW pins
  PROVE  LET r == authenticate_with(TrustBase, s, v, enclosing, pins)
         IN r.verdict = "Ok" \/ r.view # None =>
              /\ verify_tree(v, enclosing, TopologyOf(v, pins)).ok
              /\ quorum_met(TrustBase, enclosing.unicity_seal)
<1> DEFINE verified == verify_tree(v, enclosing, TopologyOf(v, pins))
           tree == IF pins = None /\ ~check_bounds(v) THEN Err("bounds") ELSE verified
           sealed == authenticate_seal_under(TrustBase, Started(s), enclosing.unicity_seal)
           refused == Fail(Started(s), tree.error)
           r == IF tree.ok THEN sealed ELSE refused
           auth == [partition_id |-> v.partition_id, leaves |-> v.leaves, tree |-> tree.value,
                    policy |-> view_policy(pins), seal |-> enclosing.unicity_seal,
                    unicity_tree_certificate |-> enclosing.unicity_tree_certificate,
                    identity |-> [authority |-> TrustBase, policy |-> view_policy(pins),
                                  seal |-> enclosing.unicity_seal]]
           ret == [verdict |-> r.verdict, session |-> r.session,
                   view |-> IF Failed(r) THEN None ELSE auth]
<1>1. authenticate_with(TrustBase, s, v, enclosing, pins) = ret
  BY DEF authenticate_with
<1>2. sealed.verdict = "Ok" => quorum_met(TrustBase, enclosing.unicity_seal)
  BY StartedIsResult, SealSucceeds
<1>3. refused.verdict = tree.error
  BY DEF Fail, Started
<1>4. ~verified.ok => verified.error # "Ok"
  BY TreeVerified
<1> HIDE DEF verified, sealed, refused, auth
<1>5. (tree.ok => verified.ok) /\ (~tree.ok => tree.error # "Ok")
  <2>1. ~Err("bounds").ok /\ Err("bounds").error = "bounds"
    BY DEF Err
  <2> QED BY <1>4, <2>1
<1> HIDE DEF tree
<1>6. r.verdict = "Ok" => verified.ok /\ quorum_met(TrustBase, enclosing.unicity_seal)
  <2>1. CASE tree.ok
    BY <1>2, <1>5, <2>1
  <2>2. CASE ~tree.ok
    BY <1>3, <1>5, <2>2
  <2> QED BY <2>1, <2>2
<1> HIDE DEF r
<1>7. ret.verdict = "Ok" \/ ret.view # None => r.verdict = "Ok"
  BY DEF Failed
<1> HIDE DEF ret
<1> QED BY <1>1, <1>6, <1>7 DEF verified

LEMMA AcceptedIsCommitted ==
  ASSUME NEW w \in Worlds, NEW wire \in Wires(w), NEW uc \in Enclosings(w), NEW pins \in Pins(w),
         NEW s, Earned(s), from_cbor(wire).ok, NEW v, v = from_cbor(wire).value,
         LET r == authenticate_with(TrustBase, s, v, uc, pins)
         IN r.verdict = "Ok" \/ r.view # None
  PROVE  /\ v.leaves = w.leaves /\ uc.unicity_tree_certificate = w.unicity_tree_certificate
         /\ quorum_met(TrustBase, uc.unicity_seal) /\ uc.unicity_seal.hash = w.seal.hash
         /\ Admits(pins, w)
<1> DEFINE utc == uc.unicity_tree_certificate
           t == v.leaves
           n == Len(t)
           L == LeavesOf(t)
           topology == TopologyOf(v, pins)
<1>1. verify_tree(v, uc, topology).ok /\ quorum_met(TrustBase, uc.unicity_seal)
  BY AuthenticationSucceeds
<1>2. /\ validate_structure(v, topology) /\ build(L).ok
      /\ utc.partition_identifier = AggregationPartition
      /\ compute_root_hash(utc, tree_root(build(L).value)) = uc.unicity_seal.hash
  BY <1>1, TreeVerified
<1>3. IsTreePath(utc) /\ uc.unicity_seal.hash = w.seal.hash
  BY <1>1, ServedAssumption
<1>4. /\ n \in Nat /\ DOMAIN t = 1..n /\ t = [i \in 1..n |-> t[i]]
      /\ \A i \in 1..n : IsShardLeaf(t[i])
  BY DecodedView
<1>5. L = Hashed(t, n) /\ AllLeaves(t, n)
  BY <1>4 DEF LeavesOf, Hashed, AllLeaves
<1> HIDE DEF t, n, L, utc
<1>6. /\ n = Len(w.leaves) /\ \A i \in 1..n : t[i] = w.leaves[i]
      /\ utc = w.unicity_tree_certificate
  <2>1. compute_root_hash(utc, tree_root(build(L).value)) = w.seal.hash
    BY <1>2, <1>3
  <2> QED BY <1>2, <1>3, <1>4, <1>5, <2>1, LeavesAreCommitted
<1>7. t = w.leaves
  <2> DEFINE k == w.leaves
             X == {k[i] : i \in DOMAIN k}
  <2>1. k \in Seq(X)
    BY CommitmentAssumption
  <2> HIDE DEF X, k
  <2>2. k = [i \in 1..Len(k) |-> k[i]]
    BY <2>1
  <2>3. n = Len(k) /\ \A i \in 1..n : t[i] = k[i]
    BY <1>6 DEF k
  <2>4. t = k
    BY <1>4, <2>2, <2>3
  <2> QED BY <2>4 DEF k
<1>8. Admits(pins, w)
  <2>1. CASE pins = None
    BY <2>1 DEF Admits
  <2>2. CASE pins # None
    <3>1. topology = pins
      BY <2>2 DEF TopologyOf
    <3>2. validate_structure(v, pins) /\ v.leaves = w.leaves
      BY <1>2, <1>7, <3>1 DEF t
    <3> QED BY <2>2, <3>2, PinsAdmit
  <2> QED BY <2>1, <2>2
<1> QED BY <1>1, <1>3, <1>6, <1>7, <1>8 DEF t, utc

LEMMA AuthenticateCommits ==
  ASSUME IInv, committed # None, NEW wire \in Wires(committed), NEW uc \in Enclosings(committed),
         NEW pins \in Pins(committed), Authenticate(wire, uc, pins)
  PROVE  ViewIsCommitted'
<1> DEFINE d == from_cbor(wire)
           a == authenticate_with(TrustBase, session, d.value, uc, pins)
           r == IF d.ok THEN a ELSE [verdict |-> d.error, session |-> session, view |-> None]
<1>1. /\ view' = r.view /\ committed' = committed
      /\ answer' = [op |-> "authenticate", wire |-> wire, enclosing |-> uc,
                    pins |-> pins, verdict |-> r.verdict]
  BY DEF Authenticate
<1>2. committed \in Worlds /\ Earned(session)
  BY DEF IInv
<1>3. ~d.ok => d.error # "Ok"
  BY DEF from_cbor, Err, Ok
<1>4. d.ok /\ (a.verdict = "Ok" \/ a.view # None) =>
        /\ d.value.leaves = committed.leaves
        /\ uc.unicity_tree_certificate = committed.unicity_tree_certificate
        /\ quorum_met(TrustBase, uc.unicity_seal) /\ uc.unicity_seal.hash = committed.seal.hash
        /\ Admits(pins, committed)
  BY <1>2, AcceptedIsCommitted
<1>5. d.ok /\ a.view # None => /\ a.view.leaves = d.value.leaves /\ a.view.seal = uc.unicity_seal
                               /\ a.view.unicity_tree_certificate = uc.unicity_tree_certificate
  BY <1>2, AuthenticationReturns
<1>6. ~d.ok => r.view = None /\ r.verdict = d.error
  OBVIOUS
<1>7. d.ok => r = a
  OBVIOUS
<1> HIDE DEF r, a, d
<1>8. answer'.pins = pins /\ answer'.verdict = r.verdict
  BY <1>1
<1>9. view' # None => /\ view'.leaves = committed'.leaves
                      /\ quorum_met(TrustBase, view'.seal) /\ view'.seal.hash = committed'.seal.hash
                      /\ view'.unicity_tree_certificate = committed'.unicity_tree_certificate
  BY <1>1, <1>4, <1>5, <1>6, <1>7
<1>10. answer'.verdict = "Ok" => Admits(answer'.pins, committed')
  <2>1. answer'.verdict = "Ok" => d.ok /\ a.verdict = "Ok"
    BY <1>3, <1>6, <1>7, <1>8
  <2> QED BY <1>1, <1>4, <1>8, <2>1
<1> QED BY <1>9, <1>10 DEF ViewIsCommitted

(* The other calls leave the view and what was committed to alone.         *)
LEMMA SameView ==
  ASSUME ViewIsCommitted, UNCHANGED <<committed, view>>, answer'.op # "authenticate"
  PROVE  ViewIsCommitted'
BY DEF ViewIsCommitted

LEMMA ViewStep == IInv /\ ViewIsCommitted /\ [Next]_vars => ViewIsCommitted'
<1> SUFFICES ASSUME IInv, ViewIsCommitted, [Next]_vars PROVE ViewIsCommitted'
  OBVIOUS
<1>1. ASSUME NEW data \in Encodings, DecodeId(data) PROVE ViewIsCommitted'
  BY <1>1, SameView DEF DecodeId
<1>2. ASSUME NEW k \in Configurations, Configure(k.scheme, k.endpoints) PROVE ViewIsCommitted'
  BY <1>2, SameView DEF Configure
<1>3. ASSUME NEW items \in Bundles, Admit(items) PROVE ViewIsCommitted'
  BY <1>3, SameView DEF Admit
<1>4. ASSUME NEW world \in Worlds, Seal(world) PROVE ViewIsCommitted'
  <2>1. view' = None /\ answer'.op = "sealed"
    BY <1>4 DEF Seal, IInv, Untouched
  <2> QED BY <2>1 DEF ViewIsCommitted
<1>5. ASSUME committed # None, NEW w \in Wires(committed), NEW uc \in Enclosings(committed),
             NEW pins \in Pins(committed), Authenticate(w, uc, pins)
      PROVE  ViewIsCommitted'
  BY <1>5, AuthenticateCommits
<1>6. ASSUME NEW w, NEW uc, NEW pins, Assemble(w, uc, pins) PROVE ViewIsCommitted'
  BY <1>6, SameView DEF Assemble
<1>7. ASSUME NEW shard \in ConfiguredIds, CertificateOf(shard) PROVE ViewIsCommitted'
  BY <1>7, SameView DEF CertificateOf
<1>8. ASSUME NEW uc, NEW p, CheckMembership(uc, p) \/ CheckAbsence(uc, p) PROVE ViewIsCommitted'
  BY <1>8, SameView DEF CheckMembership, CheckAbsence
<1>9. CASE UNCHANGED vars
  BY <1>9 DEF vars, ViewIsCommitted
<1> QED BY <1>1, <1>2, <1>3, <1>4, <1>5, <1>6, <1>7, <1>8, <1>9 DEF Next

(* Whatever view and enclosing certificate are served, what                *)
(* authenticate_with accepts has the leaves, the seal's hash and the       *)
(* partition path that the root chain committed to, and the caller's pins  *)
(* agree with them: for trees of any number of shards at any depths.       *)
THEOREM ViewCommitted == Spec => []ViewIsCommitted
<1>1. Init => ViewIsCommitted
  BY DEF Init, ViewIsCommitted
<1> QED BY <1>1, Invariance, ViewStep, PTL DEF Spec

-----------------------------------------------------------------------------
(* Lists of identifiers.                                                   *)

Words(s, n) == \A i \in 1..n : Canonical(s[i]) /\ IsWord(s[i])

Increasing(s, n) == \A i, j \in 1..n : i < j => Less(s[i], s[j])

(* No key is in two of them; every key is in one of them.                  *)
Apart(s, n) ==
  \A i, j \in 1..n, key \in Keys : InShard(s[i], key) /\ InShard(s[j], key) => i = j

Complete(s, n) == \A key \in Keys : \E i \in 1..n : InShard(s[i], key)

LEMMA InShardIs ==
  ASSUME NEW id, IsWord(id), NEW key \in Keys
  PROVE  /\ InShard(id, key) <=> \A i \in 1..id.length : id.bits[i] = key[i]
         /\ \A i \in 1..KeyBits : key[i] \in {0, 1}
<1>1. KeyBits \in Nat /\ id.length \in Nat /\ id.length <= KeyBits
  BY WordParts, RadixAssumption
<1>2. Len(key) = KeyBits /\ \A i \in 1..KeyBits : key[i] \in {0, 1}
  BY <1>1 DEF Keys
<1>3. \A i \in 1..id.length : i <= Len(key)
  BY <1>1, <1>2
<1> QED BY <1>2, <1>3 DEF InShard

(* Of two identifiers with a common key the lesser is a prefix.            *)
LEMMA CommonKey ==
  ASSUME NEW a, NEW b, IsWord(a), IsWord(b), Less(a, b), NEW key \in Keys,
         InShard(a, key), InShard(b, key)
  PROVE  a.length < b.length /\ Agree(a, b, a.length)
<1>1. a.length \in Nat /\ b.length \in Nat /\ \A i \in 1..a.length : a.bits[i] \in {0, 1}
  BY WordParts
<1>2. /\ \A i \in 1..a.length : a.bits[i] = key[i]
      /\ \A i \in 1..b.length : b.bits[i] = key[i]
  BY InShardIs
<1>3. PICK n \in Nat : LessAt(a, b, n)
  BY DEF Less
<1>4. /\ n \in 0..a.length /\ n < b.length /\ Agree(a, b, n)
      /\ n = a.length \/ a.bits[n + 1] < b.bits[n + 1]
  BY <1>3 DEF LessAt
<1>5. n = a.length
  <2> SUFFICES ASSUME n # a.length PROVE FALSE
    OBVIOUS
  <2>1. n + 1 \in 1..a.length /\ n + 1 \in 1..b.length
    BY <1>1, <1>4
  <2>2. a.bits[n + 1] = b.bits[n + 1] /\ a.bits[n + 1] \in {0, 1}
    BY <1>1, <1>2, <2>1
  <2> QED BY <1>4, <2>2
<1> QED BY <1>4, <1>5

(* What is between an identifier and one that it is a prefix of starts     *)
(* with it as well.                                                        *)
LEMMA Squeezed ==
  ASSUME NEW a, NEW b, NEW c, IsString(a), IsString(b), IsString(c), Less(a, b), Less(b, c),
         a.length <= c.length, Agree(a, c, a.length)
  PROVE  a.length < b.length /\ Agree(a, b, a.length)
<1>1. PICK n \in Nat : LessAt(a, b, n)
  BY DEF Less
<1>2. PICK m \in Nat : LessAt(b, c, m)
  BY DEF Less
<1>3. a.length \in Nat /\ b.length \in Nat /\ c.length \in Nat
  BY DEF IsString
<1>4. /\ n \in 0..a.length /\ n < b.length /\ \A j \in 1..n : a.bits[j] = b.bits[j]
      /\ n = a.length \/ a.bits[n + 1] < b.bits[n + 1]
  BY <1>1 DEF LessAt, Agree
<1>5. /\ m \in 0..b.length /\ m < c.length /\ \A j \in 1..m : b.bits[j] = c.bits[j]
      /\ m = b.length \/ b.bits[m + 1] < c.bits[m + 1]
  BY <1>2 DEF LessAt, Agree
<1>6. \A j \in 1..a.length : a.bits[j] = c.bits[j]
  BY DEF Agree
<1>7. n = a.length
  <2> SUFFICES ASSUME n # a.length PROVE FALSE
    OBVIOUS
  <2>1. n + 1 \in 1..a.length /\ n + 1 \in 1..b.length
    BY <1>3, <1>4
  <2>2. a.bits[n + 1] < b.bits[n + 1] /\ a.bits[n + 1] = c.bits[n + 1]
    BY <1>4, <1>6, <2>1
  <2>3. a.bits[n + 1] \in {0, 1} /\ b.bits[n + 1] \in {0, 1}
    BY <2>1 DEF IsString
  <2>4. ~(n + 1 \in 1..m)
    BY <1>5, <2>2, <2>3
  <2>5. m <= n /\ m # b.length
    BY <1>3, <1>4, <2>4
  <2>6. b.bits[m + 1] < c.bits[m + 1]
    BY <1>5, <2>5
  <2>7. CASE m = n
    BY <2>2, <2>3, <2>6, <2>7
  <2>8. CASE m < n
    <3>1. m + 1 \in 1..n /\ m + 1 \in 1..a.length
      BY <1>3, <1>4, <2>8
    <3>2. a.bits[m + 1] = b.bits[m + 1] /\ a.bits[m + 1] = c.bits[m + 1]
      BY <1>4, <1>6, <3>1
    <3>3. a.bits[m + 1] \in {0, 1}
      BY <3>1 DEF IsString
    <3> QED BY <2>6, <3>2, <3>3
  <2> QED BY <2>5, <2>7, <2>8
<1> QED BY <1>4, <1>7 DEF Agree

LEMMA PrefixFits ==
  ASSUME NEW a, NEW b, IsWord(a), Canonical(b), a.length <= b.length, Agree(a, b, a.length)
  PROVE  is_prefix_of_shard(a, b)
<1>1. PICK s \in Seq({0, 1}), n \in Nat : n <= Len(s) /\ b = Padded(s, n)
  BY DEF Canonical
<1>2. b.length = n /\ b.bits = [k \in 1..WholeBytes(n) |-> IF k <= n THEN s[k] ELSE 0]
  BY <1>1 DEF Padded
<1>3. WholeBytes(n) \in Nat
  BY WholeBytesAre
<1>4. Len(b.bits) = WholeBytes(n)
  BY <1>2, <1>3
<1>5. a.length \in Nat /\ a.length <= n
  BY <1>2, WordParts
<1>6. WholeBytes(a.length) <= WholeBytes(n)
  <2> DEFINE m == a.length
             p == m \div ByteBits
             q == n \div ByteBits
  <2>1. /\ p \in Nat /\ m % ByteBits \in 0..(ByteBits - 1) /\ m = p * ByteBits + (m % ByteBits)
        /\ q \in Nat /\ n % ByteBits \in 0..(ByteBits - 1) /\ n = q * ByteBits + (n % ByteBits)
    BY <1>5, Division
  <2>2. /\ WholeBytes(m) = IF m % ByteBits = 0 THEN m ELSE m - (m % ByteBits) + ByteBits
        /\ WholeBytes(n) = IF n % ByteBits = 0 THEN n ELSE n - (n % ByteBits) + ByteBits
    <3>1. WholeBytes(n) = IF n % ByteBits = 0 THEN n ELSE n - (n % ByteBits) + ByteBits
      BY WholeBytesAre
    <3>2. m \in Nat
      BY <1>5
    <3> HIDE DEF m
    <3>3. WholeBytes(m) = IF m % ByteBits = 0 THEN m ELSE m - (m % ByteBits) + ByteBits
      BY <3>2, WholeBytesAre
    <3> QED BY <3>1, <3>3
  <2>3. ByteBits \in Nat /\ m \in Nat /\ m <= n
    BY <1>5, ByteAssumption
  <2> DEFINE x == p * ByteBits
             y == q * ByteBits
             u == m % ByteBits
             v == n % ByteBits
  <2>4. x \in Nat /\ y \in Nat
    <3>1. \A z \in Nat : z * ByteBits \in Nat
      BY <2>3
    <3>2. p \in Nat /\ q \in Nat
      BY <2>1
    <3> HIDE DEF p, q
    <3> QED BY <3>1, <3>2
  <2>5. p < q => x + ByteBits <= y
    BY <2>1, MultiplesApart
  <2>6. q < p => y + ByteBits <= x
    BY <2>1, MultiplesApart
  <2>7. p = q => x = y
    OBVIOUS
  <2>8. p \in Nat /\ q \in Nat /\ u \in 0..(ByteBits - 1) /\ v \in 0..(ByteBits - 1)
        /\ m = x + u /\ n = y + v
    BY <2>1
  <2>9. /\ WholeBytes(m) = IF u = 0 THEN m ELSE m - u + ByteBits
        /\ WholeBytes(n) = IF v = 0 THEN n ELSE n - v + ByteBits
    BY <2>2
  <2> HIDE DEF x, y, u, v, p, q, m
  <2>10. ~(q < p)
    BY <2>3, <2>4, <2>6, <2>8
  <2>11. CASE p < q
    <3>1. x + ByteBits <= y
      BY <2>5, <2>11
    <3>2. WholeBytes(m) <= x + ByteBits
      BY <2>3, <2>4, <2>8, <2>9
    <3>3. y <= WholeBytes(n)
      BY <2>3, <2>4, <2>8, <2>9
    <3>4. WholeBytes(m) \in Nat /\ WholeBytes(n) \in Nat
      BY <1>3, <1>5, WholeBytesAre DEF m
    <3> QED BY <2>3, <2>4, <3>1, <3>2, <3>3, <3>4 DEF m
  <2>12. CASE p = q
    <3>1. x = y /\ u <= v
      BY <2>3, <2>4, <2>7, <2>8, <2>12
    <3> QED BY <2>3, <2>4, <2>8, <2>9, <3>1 DEF m
  <2> QED BY <2>8, <2>10, <2>11, <2>12
<1>7. \A i \in 1..a.length : a.bits[i] = b.bits[i]
  BY DEF Agree
<1> QED BY <1>4, <1>6, <1>7 DEF is_prefix_of_shard, is_prefix_of

(* In increasing order an overlap shows between neighbours.                *)
LEMMA OverlapsIs ==
  ASSUME NEW s, NEW n \in Nat, Len(s) = n, Words(s, n), Increasing(s, n)
  PROVE  ~Overlaps(s) <=> Apart(s, n)
<1>1. \A i \in 1..n : IsWord(s[i]) /\ Canonical(s[i]) /\ IsString(s[i]) /\ s[i].length \in Nat
  BY WordParts DEF Words
<1>2. ASSUME NEW i \in 1..n, NEW j \in 1..n, NEW key \in Keys, i < j,
             InShard(s[i], key), InShard(s[j], key), ~Overlaps(s)
      PROVE  FALSE
  <2>1. Less(s[i], s[j])
    BY <1>2 DEF Increasing
  <2>2. s[i].length < s[j].length /\ Agree(s[i], s[j], s[i].length)
    BY <1>1, <1>2, <2>1, CommonKey
  <2>3. i + 1 \in 1..n /\ i \in 1..(Len(s) - 1)
    BY <1>2
  <2>4. s[i].length <= s[i + 1].length /\ Agree(s[i], s[i + 1], s[i].length)
    <3>1. CASE j = i + 1
      BY <1>1, <2>2, <3>1
    <3>2. CASE j # i + 1
      <4>1. Less(s[i], s[i + 1]) /\ Less(s[i + 1], s[j])
        BY <1>2, <2>3, <3>2 DEF Increasing
      <4>2. s[i].length <= s[j].length
        BY <1>1, <2>2
      <4>3. s[i].length < s[i + 1].length /\ Agree(s[i], s[i + 1], s[i].length)
        BY <1>1, <2>2, <2>3, <4>1, <4>2, Squeezed
      <4> QED BY <1>1, <2>3, <4>3
    <3> QED BY <3>1, <3>2
  <2>5. is_prefix_of_shard(s[i], s[i + 1])
    BY <1>1, <2>3, <2>4, PrefixFits
  <2> QED BY <1>2, <2>3, <2>5 DEF Overlaps
<1>3. ASSUME ~Overlaps(s) PROVE Apart(s, n)
  <2> SUFFICES ASSUME NEW i \in 1..n, NEW j \in 1..n, NEW key \in Keys,
                      InShard(s[i], key), InShard(s[j], key), i # j
               PROVE  FALSE
    BY DEF Apart
  <2>1. i < j \/ j < i
    OBVIOUS
  <2> QED BY <1>2, <1>3, <2>1
<1>4. ASSUME Apart(s, n), Overlaps(s) PROVE FALSE
  <2>1. PICK i \in 1..(Len(s) - 1) : is_prefix_of_shard(s[i], s[i + 1])
    BY <1>4 DEF Overlaps
  <2>2. i \in 1..n /\ i + 1 \in 1..n /\ i # i + 1
    OBVIOUS
  <2>3. PICK key \in Keys : InShard(s[i + 1], key)
    BY <1>1, <2>2, KeyIn
  <2>4. \A k \in 1..s[i + 1].length : s[i + 1].bits[k] = key[k]
    BY <1>1, <2>2, <2>3, InShardIs
  <2>5. s[i].length <= s[i + 1].length /\ \A k \in 1..s[i].length : s[i].bits[k] = s[i + 1].bits[k]
    BY <2>1 DEF is_prefix_of_shard, is_prefix_of
  <2>6. \A k \in 1..s[i].length : s[i].bits[k] = key[k]
    BY <1>1, <2>2, <2>4, <2>5
  <2>7. InShard(s[i], key)
    BY <1>1, <2>2, <2>6, InShardIs
  <2> QED BY <1>4, <2>2, <2>3, <2>7 DEF Apart
<1> QED BY <1>3, <1>4

-----------------------------------------------------------------------------
(* The cover test.                                                         *)

Slices(s) == [lo : DOMAIN s, hi : DOMAIN s, depth : 0..MaxIdBits]

ZerosOf(s, r) == PartitionPoint(LAMBDA x : get_bit(x, r.depth) = 0, SubSeq(s, r.lo, r.hi))

CoverStep(s, f, r) ==
  LET at == r.lo - 1 + ZerosOf(s, r)
  IN IF r.lo = r.hi THEN CoversAlone(s[r.lo], r.depth)
     ELSE /\ ZerosOf(s, r) # 0 /\ at # r.hi
          /\ f[Slice(r.lo, at, r.depth + 1)] /\ f[Slice(at + 1, r.hi, r.depth + 1)]

LEMMA SliceParts ==
  ASSUME NEW lo, NEW hi, NEW depth
  PROVE  /\ Slice(lo, hi, depth).lo = lo /\ Slice(lo, hi, depth).hi = hi
         /\ Slice(lo, hi, depth).depth = depth
BY DEF Slice

LEMMA PointIs ==
  ASSUME NEW t, NEW m \in Nat, Len(t) = m, NEW d
  PROVE  LET z == PartitionPoint(LAMBDA x : get_bit(x, d) = 0, t)
         IN /\ z \in 0..m /\ \A i \in 1..z : get_bit(t[i], d) = 0
            /\ z < m => get_bit(t[z + 1], d) # 0
<1> DEFINE Good(k) == (\A i \in 1..k : get_bit(t[i], d) = 0) /\ (k < m => get_bit(t[k + 1], d) # 0)
<1>1. PartitionPoint(LAMBDA x : get_bit(x, d) = 0, t) = CHOOSE k \in 0..m : Good(k)
  BY DEF PartitionPoint
<1>2. \E k \in 0..m : Good(k)
  <2> DEFINE T == {k \in Nat : k < m /\ get_bit(t[k + 1], d) # 0}
  <2>1. CASE T = {}
    <3>1. ASSUME NEW i \in 1..m PROVE get_bit(t[i], d) = 0
      <4>1. i - 1 \in Nat /\ i - 1 < m /\ (i - 1) + 1 = i
        OBVIOUS
      <4> QED BY <2>1, <4>1
    <3>2. Good(m)
      BY <3>1
    <3> QED BY <3>2
  <2>2. CASE T # {}
    <3>1. PICK k \in T : \A j \in T : k <= j
      BY <2>2, Least
    <3> k \in Nat
      BY <3>1
    <3>2. ASSUME NEW i \in 1..k PROVE get_bit(t[i], d) = 0
      <4>1. i - 1 \in Nat /\ i - 1 < m /\ (i - 1) + 1 = i /\ i - 1 < k
        BY <3>1
      <4>2. i - 1 \notin T
        <5> HIDE DEF T
        <5> QED BY <3>1, <4>1
      <4> QED BY <4>1, <4>2
    <3>3. Good(k) /\ k \in 0..m
      BY <3>1, <3>2
    <3> QED BY <3>3
  <2> QED BY <2>1, <2>2
<1> DEFINE z == CHOOSE k \in 0..m : Good(k)
<1>3. z \in 0..m /\ Good(z)
  <2> HIDE DEF Good
  <2> QED BY <1>2
<1> HIDE DEF z
<1> QED BY <1>1, <1>3 DEF z

LEMMA ZerosAre ==
  ASSUME NEW X, NEW s \in Seq(X), NEW lo \in 1..Len(s), NEW hi \in 1..Len(s), NEW depth,
         NEW r, r = Slice(lo, hi, depth)
  PROVE  /\ lo > hi => ZerosOf(s, r) = 0
         /\ lo <= hi => /\ ZerosOf(s, r) \in 0..(hi - lo + 1)
                        /\ \A i \in lo..(lo - 1 + ZerosOf(s, r)) : get_bit(s[i], depth) = 0
                        /\ lo + ZerosOf(s, r) <= hi => get_bit(s[lo + ZerosOf(s, r)], depth) # 0
<1> DEFINE t == SubSeq(s, lo, hi)
           m == Len(t)
           z == PartitionPoint(LAMBDA x : get_bit(x, depth) = 0, t)
<1>1. ZerosOf(s, r) = z
  <2>1. r.lo = lo /\ r.hi = hi /\ r.depth = depth
    BY SliceParts
  <2> QED BY <2>1 DEF ZerosOf
<1>2. Len(s) \in Nat /\ lo \in Nat /\ hi \in Nat
  BY LenProperties
<1>3. \A i \in lo..hi : s[i] \in X
  BY <1>2, ElementOfSeq
<1>4. /\ t \in Seq(X) /\ m = IF lo <= hi THEN hi - lo + 1 ELSE 0
      /\ \A i \in 1..(hi - lo + 1) : t[i] = s[lo + i - 1]
  BY <1>2, <1>3, SubSeqProperties
<1>5. m \in Nat
  BY <1>4, LenProperties
<1> HIDE DEF t, m
<1>6. /\ z \in 0..m /\ \A i \in 1..z : get_bit(t[i], depth) = 0
      /\ z < m => get_bit(t[z + 1], depth) # 0
  BY <1>5, PointIs DEF m
<1> HIDE DEF z
<1>7. CASE lo > hi
  BY <1>1, <1>2, <1>4, <1>6, <1>7
<1>8. CASE lo <= hi
  <2>1. m = hi - lo + 1 /\ z \in 0..(hi - lo + 1)
    BY <1>4, <1>6, <1>8
  <2>2. ASSUME NEW i \in lo..(lo - 1 + z) PROVE get_bit(s[i], depth) = 0
    <3>1. i - lo + 1 \in 1..z /\ i - lo + 1 \in 1..(hi - lo + 1) /\ lo + (i - lo + 1) - 1 = i
      BY <1>2, <2>1
    <3>2. t[i - lo + 1] = s[lo + (i - lo + 1) - 1]
      BY <1>4, <3>1
    <3>3. get_bit(t[i - lo + 1], depth) = 0
      BY <1>6, <3>1
    <3> QED BY <3>1, <3>2, <3>3
  <2>3. ASSUME lo + z <= hi PROVE get_bit(s[lo + z], depth) # 0
    <3>1. z < m /\ z + 1 \in 1..(hi - lo + 1) /\ lo + (z + 1) - 1 = lo + z
      BY <1>2, <2>1, <2>3
    <3>2. t[z + 1] = s[lo + (z + 1) - 1]
      BY <1>4, <3>1
    <3>3. get_bit(t[z + 1], depth) # 0
      BY <1>6, <3>1
    <3> QED BY <3>1, <3>2, <3>3
  <2> QED BY <1>1, <1>2, <1>8, <2>1, <2>2, <2>3
<1> QED BY <1>2, <1>7, <1>8

(* The two parts of a slice are slices, and smaller.                       *)
LEMMA SmallerSlices ==
  ASSUME NEW X, NEW s \in Seq(X), \A i \in DOMAIN s : s[i].length \in 0..MaxIdBits,
         NEW r \in Slices(s), r.lo # r.hi, ZerosOf(s, r) # 0, r.lo - 1 + ZerosOf(s, r) # r.hi
  PROVE  LET at == r.lo - 1 + ZerosOf(s, r)
             left == Slice(r.lo, at, r.depth + 1)
             right == Slice(at + 1, r.hi, r.depth + 1)
         IN /\ at \in r.lo..(r.hi - 1) /\ r.depth + 1 \in 0..MaxIdBits
            /\ left \in Slices(s) /\ right \in Slices(s)
            /\ left.hi - left.lo < r.hi - r.lo /\ right.hi - right.lo < r.hi - r.lo
<1> DEFINE n == Len(s)
           lo == r.lo
           hi == r.hi
           d == r.depth
           z == ZerosOf(s, r)
           at == lo - 1 + z
<1>1. n \in Nat /\ DOMAIN s = 1..n /\ MaxIdBits \in Nat
  BY LenProperties, RoutingAssumption
<1>2. lo \in 1..n /\ hi \in 1..n /\ d \in 0..MaxIdBits /\ r = Slice(lo, hi, d)
  BY <1>1 DEF Slices, Slice
<1>3. /\ lo > hi => z = 0
      /\ lo <= hi => z \in 0..(hi - lo + 1) /\ \A i \in lo..(lo - 1 + z) : get_bit(s[i], d) = 0
  BY <1>2, ZerosAre
<1>4. z # 0 /\ at # hi /\ lo # hi
  OBVIOUS
<1> HIDE DEF n, lo, hi, d, z
<1>5. lo < hi /\ z \in 1..(hi - lo) /\ at \in lo..(hi - 1)
  BY <1>1, <1>2, <1>3, <1>4
<1>6. get_bit(s[lo], d) = 0
  BY <1>1, <1>2, <1>3, <1>5
<1>7. s[lo].length \in 0..MaxIdBits
  BY <1>1, <1>2
<1>8. d < s[lo].length
  BY <1>1, <1>2, <1>6, <1>7, ByteAssumption DEF get_bit
<1>9. d + 1 \in 0..MaxIdBits
  BY <1>1, <1>2, <1>7, <1>8
<1>10. at \in 1..n /\ at + 1 \in 1..n /\ at - lo < hi - lo /\ hi - (at + 1) < hi - lo
  BY <1>1, <1>2, <1>5
<1> HIDE DEF at
<1>11. Slice(lo, at, d + 1) \in Slices(s) /\ Slice(at + 1, hi, d + 1) \in Slices(s)
  BY <1>1, <1>2, <1>9, <1>10 DEF Slice, Slices
<1>12. /\ Slice(lo, at, d + 1).hi - Slice(lo, at, d + 1).lo = at - lo
       /\ Slice(at + 1, hi, d + 1).hi - Slice(at + 1, hi, d + 1).lo = hi - (at + 1)
  BY SliceParts
<1> QED BY <1>5, <1>9, <1>10, <1>11, <1>12 DEF at, lo, hi, d, z

LEMMA CoverStepReads ==
  ASSUME NEW X, NEW s \in Seq(X), \A i \in DOMAIN s : s[i].length \in 0..MaxIdBits,
         NEW r \in Slices(s), NEW f, NEW g,
         \A q \in Slices(s) : q.hi - q.lo < r.hi - r.lo => f[q] = g[q]
  PROVE  CoverStep(s, f, r) = CoverStep(s, g, r)
<1> DEFINE z == ZerosOf(s, r)
           at == r.lo - 1 + z
           left == Slice(r.lo, at, r.depth + 1)
           right == Slice(at + 1, r.hi, r.depth + 1)
<1>1. r.lo # r.hi /\ z # 0 /\ at # r.hi => f[left] = g[left] /\ f[right] = g[right]
  BY SmallerSlices
<1>2. CoverStep(s, f, r) = IF r.lo = r.hi THEN CoversAlone(s[r.lo], r.depth)
                           ELSE z # 0 /\ at # r.hi /\ f[left] /\ f[right]
  BY DEF CoverStep
<1>3. CoverStep(s, g, r) = IF r.lo = r.hi THEN CoversAlone(s[r.lo], r.depth)
                           ELSE z # 0 /\ at # r.hi /\ g[left] /\ g[right]
  BY DEF CoverStep
<1> HIDE DEF z, at, left, right
<1> QED BY <1>1, <1>2, <1>3

LEMMA CoversSteps ==
  ASSUME NEW X, NEW s \in Seq(X), \A i \in DOMAIN s : s[i].length \in 0..MaxIdBits
  PROVE  \E f : /\ covers(s) = f[Slice(1, Len(s), 0)]
                /\ \A r \in Slices(s) : f[r] = CoverStep(s, f, r)
<1> DEFINE IsRun(f) == f = [r \in Slices(s) |-> CoverStep(s, f, r)]
           n == Len(s)
           T == {k \in Nat : \E g : \A r \in Slices(s) :
                                      r.hi - r.lo + n < k => g[r] = CoverStep(s, g, r)}
<1>1. covers(s) = (CHOOSE f : IsRun(f))[Slice(1, Len(s), 0)]
  BY Zenon DEF covers, CoverStep, ZerosOf, Slices
<1>2. n \in Nat /\ DOMAIN s = 1..n
  BY LenProperties
<1> HIDE DEF n
<1>3. \A r \in Slices(s) : r.lo \in 1..n /\ r.hi \in 1..n
  BY <1>2 DEF Slices
<1>4. 0 \in T
  <2>1. \A r \in Slices(s) : ~(r.hi - r.lo + n < 0)
    BY <1>2, <1>3
  <2> QED BY <2>1
<1>5. ASSUME NEW k \in 1..(2 * n + 1), k - 1 \in T PROVE k \in T
  <2>1. PICK g : \A r \in Slices(s) : r.hi - r.lo + n < k - 1 => g[r] = CoverStep(s, g, r)
    BY <1>5
  <2> DEFINE h == [r \in Slices(s) |-> CoverStep(s, g, r)]
  <2>2. ASSUME NEW r \in Slices(s), r.hi - r.lo + n < k PROVE h[r] = CoverStep(s, h, r)
    <3>1. ASSUME NEW q \in Slices(s), q.hi - q.lo < r.hi - r.lo PROVE h[q] = g[q]
      <4>1. q.hi - q.lo + n < k - 1
        BY <1>2, <1>3, <2>2, <3>1
      <4> QED BY <2>1, <4>1
    <3>2. h[r] = CoverStep(s, g, r)
      OBVIOUS
    <3> HIDE DEF h
    <3>3. CoverStep(s, h, r) = CoverStep(s, g, r)
      BY <3>1, CoverStepReads
    <3> QED BY <3>2, <3>3
  <2> HIDE DEF h
  <2> QED BY <2>2
<1>6. 2 * n + 1 \in T
  <2>1. 2 * n + 1 \in Nat
    BY <1>2
  <2>2. 0..(2 * n + 1) \subseteq T
    <3> HIDE DEF T
    <3> QED BY <1>4, <1>5, <2>1, UpTo
  <2> QED BY <2>1, <2>2
<1>7. PICK g : \A r \in Slices(s) : g[r] = CoverStep(s, g, r)
  <2>1. PICK g : \A r \in Slices(s) : r.hi - r.lo + n < 2 * n + 1 => g[r] = CoverStep(s, g, r)
    BY <1>6
  <2>2. \A r \in Slices(s) : r.hi - r.lo + n < 2 * n + 1
    BY <1>2, <1>3
  <2> QED BY <2>1, <2>2
<1> DEFINE F == [r \in Slices(s) |-> g[r]]
<1>8. IsRun(F)
  <2>1. ASSUME NEW r \in Slices(s) PROVE F[r] = CoverStep(s, F, r)
    <3>1. F[r] = g[r] /\ \A q \in Slices(s) : F[q] = g[q]
      OBVIOUS
    <3> HIDE DEF F
    <3>2. CoverStep(s, F, r) = CoverStep(s, g, r)
      BY <3>1, CoverStepReads
    <3> QED BY <1>7, <3>1, <3>2
  <2> QED BY <2>1
<1> DEFINE f == CHOOSE f : IsRun(f)
<1>9. IsRun(f)
  <2> HIDE DEF IsRun, F
  <2> QED BY <1>8
<1> HIDE DEF f
<1>10. \A r \in Slices(s) : f[r] = CoverStep(s, f, r)
  BY <1>9
<1> QED BY <1>1, <1>10 DEF f

StartsWith(key, id, d) == \A j \in 1..d : key[j] = id.bits[j]

(* The identifiers from lo to hi agree on d bits; the keys that start with *)
(* them are in one of the shards.                                          *)
Start(s, lo, hi, d) == \A i \in lo..hi : d <= s[i].length /\ Agree(s[i], s[lo], d)

Held(s, lo, hi, d) ==
  \A key \in Keys : StartsWith(key, s[lo], d) => \E i \in lo..hi : InShard(s[i], key)

LEMMA NextBit ==
  ASSUME NEW id, IsWord(id), NEW d \in Nat, d < id.length, NEW b \in {0, 1}
  PROVE  \E key \in Keys : StartsWith(key, id, d) /\ key[d + 1] = b
<1>1. /\ id.length \in Nat /\ id.length <= KeyBits /\ KeyBits \in Nat
      /\ \A i \in 1..id.length : id.bits[i] \in {0, 1}
  BY WordParts, RadixAssumption
<1> DEFINE key == [k \in 1..KeyBits |-> IF k <= d THEN id.bits[k] ELSE b]
<1>2. \A k \in 1..KeyBits : k <= d => id.bits[k] \in {0, 1}
  BY <1>1
<1>3. key \in Keys
  BY <1>2 DEF Keys
<1>4. d + 1 \in 1..KeyBits /\ ~(d + 1 <= d)
  BY <1>1
<1>5. key[d + 1] = b
  BY <1>4
<1>6. \A j \in 1..d : j \in 1..KeyBits /\ key[j] = id.bits[j]
  BY <1>1
<1> HIDE DEF key
<1> QED BY <1>3, <1>5, <1>6 DEF StartsWith

LEMMA HeldAlone ==
  ASSUME NEW s, NEW lo \in Nat, IsWord(s[lo]), NEW d \in Nat, Start(s, lo, lo, d)
  PROVE  CoversAlone(s[lo], d) <=> Held(s, lo, lo, d)
<1> DEFINE id == s[lo]
<1>1. id.length \in Nat /\ d <= id.length /\ lo..lo = {lo} /\ lo \in lo..lo
  BY WordParts DEF Start
<1>2. ASSUME id.length = d PROVE Held(s, lo, lo, d)
  <2> SUFFICES ASSUME NEW key \in Keys, StartsWith(key, id, d) PROVE InShard(id, key)
    BY <1>1 DEF Held
  <2>1. \A i \in 1..id.length : id.bits[i] = key[i]
    BY <1>2 DEF StartsWith
  <2> HIDE DEF id
  <2> QED BY <2>1, InShardIs DEF id
<1>3. ASSUME Held(s, lo, lo, d), id.length # d PROVE FALSE
  <2>1. d < id.length /\ d + 1 \in 1..id.length
    BY <1>1, <1>3
  <2>2. id.bits[d + 1] \in {0, 1}
    BY <2>1, WordParts
  <2> DEFINE b == 1 - id.bits[d + 1]
  <2>3. b \in {0, 1} /\ b # id.bits[d + 1]
    BY <2>2
  <2> HIDE DEF b
  <2>4. PICK key \in Keys : StartsWith(key, id, d) /\ key[d + 1] = b
    BY <2>1, <2>3, NextBit
  <2>5. InShard(id, key)
    BY <1>1, <1>3, <2>4 DEF Held
  <2>6. id.bits[d + 1] = key[d + 1]
    BY <2>1, <2>5, InShardIs
  <2> QED BY <2>3, <2>4, <2>6
<1> QED BY <1>2, <1>3 DEF CoversAlone

(* Identifiers that agree on d bits and have no key in common are longer.  *)
LEMMA Longer ==
  ASSUME NEW s, NEW n \in Nat, Words(s, n), Apart(s, n), NEW lo \in 1..n, NEW hi \in 1..n, lo < hi,
         NEW d \in Nat, Start(s, lo, hi, d), NEW i \in lo..hi
  PROVE  d < s[i].length
<1>1. \A k \in lo..hi : k \in 1..n /\ IsWord(s[k]) /\ s[k].length \in Nat
  BY WordParts DEF Words
<1> SUFFICES ASSUME s[i].length = d PROVE FALSE
  BY <1>1 DEF Start
<1>2. PICK j \in lo..hi : j # i
  <2>1. lo \in lo..hi /\ hi \in lo..hi /\ lo # hi
    OBVIOUS
  <2> QED BY <2>1
<1>3. PICK key \in Keys : InShard(s[j], key)
  BY <1>1, KeyIn
<1>4. \A k \in 1..s[j].length : s[j].bits[k] = key[k]
  BY <1>1, <1>3, InShardIs
<1>5. \A k \in 1..d : s[i].bits[k] = s[j].bits[k] /\ k \in 1..s[j].length
  <2>1. lo \in lo..hi /\ s[j].length \in Nat /\ d <= s[j].length
    BY <1>1 DEF Start
  <2>2. \A k \in 1..d : s[i].bits[k] = s[lo].bits[k] /\ s[j].bits[k] = s[lo].bits[k]
    BY DEF Start, Agree
  <2> QED BY <2>1, <2>2
<1>6. \A k \in 1..s[i].length : s[i].bits[k] = key[k]
  BY <1>4, <1>5
<1>7. InShard(s[i], key)
  BY <1>1, <1>6, InShardIs
<1> QED BY <1>1, <1>2, <1>3, <1>7 DEF Apart

LEMMA BitsRise ==
  ASSUME NEW a, NEW b, IsString(a), IsString(b), Less(a, b), NEW d \in Nat,
         d < a.length, d < b.length, Agree(a, b, d)
  PROVE  a.bits[d + 1] \in {0, 1} /\ b.bits[d + 1] \in {0, 1} /\ a.bits[d + 1] <= b.bits[d + 1]
<1>1. PICK n \in Nat : LessAt(a, b, n)
  BY DEF Less
<1>2. /\ n \in 0..a.length /\ n < b.length /\ \A j \in 1..n : a.bits[j] = b.bits[j]
      /\ n = a.length \/ a.bits[n + 1] < b.bits[n + 1]
  BY <1>1 DEF LessAt, Agree
<1>3. a.length \in Nat /\ b.length \in Nat /\ d + 1 \in 1..a.length /\ d + 1 \in 1..b.length
  BY DEF IsString
<1>4. a.bits[d + 1] \in {0, 1} /\ b.bits[d + 1] \in {0, 1}
  BY <1>3 DEF IsString
<1>5. CASE n < d
  <2>1. n + 1 \in 1..d /\ n # a.length /\ n + 1 \in 1..a.length
    BY <1>2, <1>3, <1>5
  <2>2. a.bits[n + 1] = b.bits[n + 1] /\ a.bits[n + 1] < b.bits[n + 1]
    BY <1>2, <2>1 DEF Agree
  <2>3. a.bits[n + 1] \in {0, 1}
    BY <2>1 DEF IsString
  <2> QED BY <2>2, <2>3
<1>6. CASE n = d
  <2>1. a.bits[d + 1] < b.bits[d + 1]
    BY <1>2, <1>3, <1>6
  <2> QED BY <1>4, <2>1
<1>7. CASE d < n
  <2>1. d + 1 \in 1..n
    BY <1>7
  <2>2. a.bits[d + 1] = b.bits[d + 1]
    BY <1>2, <2>1
  <2> QED BY <1>4, <2>2
<1> QED BY <1>5, <1>6, <1>7

(* The next bit divides a slice: 0 up to a place, then 1.                  *)
LEMMA SliceDivides ==
  ASSUME NEW X, NEW s \in Seq(X), NEW n \in Nat, n = Len(s), Words(s, n), Increasing(s, n), Apart(s, n),
         NEW lo \in 1..n, NEW hi \in 1..n, lo < hi, NEW d \in Nat, Start(s, lo, hi, d)
  PROVE  LET at == lo - 1 + ZerosOf(s, Slice(lo, hi, d))
         IN /\ at \in (lo - 1)..hi
            /\ \A i \in lo..at : s[i].bits[d + 1] = 0
            /\ \A i \in (at + 1)..hi : s[i].bits[d + 1] = 1
<1> DEFINE z == ZerosOf(s, Slice(lo, hi, d))
           at == lo - 1 + z
<1>1. \A i \in lo..hi : /\ i \in 1..n /\ IsString(s[i]) /\ s[i].length \in Nat /\ d < s[i].length
                        /\ s[i].bits[d + 1] \in {0, 1} /\ get_bit(s[i], d) = s[i].bits[d + 1]
  <2> SUFFICES ASSUME NEW i \in lo..hi
               PROVE  /\ i \in 1..n /\ IsString(s[i]) /\ s[i].length \in Nat /\ d < s[i].length
                      /\ s[i].bits[d + 1] \in {0, 1} /\ get_bit(s[i], d) = s[i].bits[d + 1]
    OBVIOUS
  <2>1. i \in 1..n
    OBVIOUS
  <2>2. IsWord(s[i])
    BY <2>1 DEF Words
  <2>3. IsString(s[i]) /\ s[i].length \in Nat
    BY <2>2, WordParts
  <2>4. d < s[i].length
    BY Longer
  <2>5. d + 1 \in 1..s[i].length /\ ~(d >= s[i].length)
    BY <2>3, <2>4
  <2>6. s[i].bits[d + 1] \in {0, 1}
    BY <2>3, <2>5 DEF IsString
  <2>7. get_bit(s[i], d) = s[i].bits[d + 1]
    BY <2>5 DEF get_bit
  <2> QED BY <2>1, <2>3, <2>4, <2>6, <2>7
<1>2. /\ z \in 0..(hi - lo + 1)
      /\ \A i \in lo..(lo - 1 + z) : get_bit(s[i], d) = 0
      /\ lo + z <= hi => get_bit(s[lo + z], d) # 0
  <2> DEFINE r == Slice(lo, hi, d)
  <2>1. lo \in 1..Len(s) /\ hi \in 1..Len(s) /\ lo <= hi /\ r = Slice(lo, hi, d)
    OBVIOUS
  <2> HIDE DEF r
  <2>2. /\ ZerosOf(s, r) \in 0..(hi - lo + 1)
        /\ \A i \in lo..(lo - 1 + ZerosOf(s, r)) : get_bit(s[i], d) = 0
        /\ lo + ZerosOf(s, r) <= hi => get_bit(s[lo + ZerosOf(s, r)], d) # 0
    BY <2>1, ZerosAre
  <2> QED BY <2>2 DEF r
<1> HIDE DEF z
<1>3. at \in (lo - 1)..hi
  BY <1>2
<1>4. ASSUME NEW i \in lo..at PROVE s[i].bits[d + 1] = 0
  <2>1. i \in lo..hi
    BY <1>3
  <2> QED BY <1>1, <1>2, <2>1
<1>5. ASSUME NEW i \in (at + 1)..hi PROVE s[i].bits[d + 1] = 1
  <2>1. i \in lo..hi /\ at + 1 \in lo..hi /\ at + 1 = lo + z
    BY <1>2, <1>3
  <2>2. s[at + 1].bits[d + 1] = 1
    BY <1>1, <1>2, <2>1
  <2>3. CASE i = at + 1
    BY <2>2, <2>3
  <2>4. CASE i # at + 1
    <3>1. at + 1 < i
      BY <1>3, <2>4
    <3>2. Less(s[at + 1], s[i])
      BY <1>1, <2>1, <3>1 DEF Increasing
    <3>3. Agree(s[at + 1], s[i], d)
      BY <2>1 DEF Start, Agree
    <3>4. s[at + 1].bits[d + 1] <= s[i].bits[d + 1]
      BY <1>1, <2>1, <3>2, <3>3, BitsRise
    <3> QED BY <1>1, <2>1, <2>2, <3>4
  <2> QED BY <2>3, <2>4
<1> QED BY <1>3, <1>4, <1>5 DEF z

LEMMA NextBitIn ==
  ASSUME NEW id, IsWord(id), NEW d \in Nat, d < id.length, NEW key \in Keys
  PROVE  key[d + 1] \in {0, 1}
<1>1. id.length \in Nat /\ id.length <= KeyBits /\ KeyBits \in Nat
  BY WordParts, RadixAssumption
<1>2. d + 1 \in 1..KeyBits
  BY <1>1
<1> QED BY <1>2, InShardIs

(* A slice holds its keys if both of its parts do, and there are two.      *)
LEMMA HeldParts ==
  ASSUME NEW s, NEW n \in Nat, Words(s, n), Apart(s, n), NEW lo \in 1..n, NEW hi \in 1..n, lo < hi,
         NEW d \in Nat, Start(s, lo, hi, d), NEW at \in (lo - 1)..hi,
         \A i \in lo..at : s[i].bits[d + 1] = 0, \A i \in (at + 1)..hi : s[i].bits[d + 1] = 1
  PROVE  /\ at = lo - 1 \/ at = hi => ~Held(s, lo, hi, d)
         /\ at # lo - 1 /\ at # hi =>
              /\ Start(s, lo, at, d + 1) /\ Start(s, at + 1, hi, d + 1)
              /\ Held(s, lo, hi, d) <=> Held(s, lo, at, d + 1) /\ Held(s, at + 1, hi, d + 1)
<1>1. \A i \in lo..hi : i \in 1..n /\ IsWord(s[i]) /\ s[i].length \in Nat /\ d < s[i].length /\ d + 1 \in 1..s[i].length
  <2> SUFFICES ASSUME NEW i \in lo..hi
               PROVE  i \in 1..n /\ IsWord(s[i]) /\ s[i].length \in Nat /\ d < s[i].length /\ d + 1 \in 1..s[i].length
    OBVIOUS
  <2>1. i \in 1..n
    OBVIOUS
  <2>2. IsWord(s[i]) /\ s[i].length \in Nat
    BY <2>1, WordParts DEF Words
  <2>3. d < s[i].length
    BY Longer
  <2> QED BY <2>1, <2>2, <2>3
<1>2. lo \in lo..hi /\ IsWord(s[lo]) /\ d < s[lo].length
  BY <1>1
<1>3. \A i \in lo..hi, key \in Keys : InShard(s[i], key) => s[i].bits[d + 1] = key[d + 1]
  BY <1>1, InShardIs
<1>4. ASSUME NEW b \in {0, 1}, \A i \in lo..hi : s[i].bits[d + 1] # b PROVE ~Held(s, lo, hi, d)
  <2>1. PICK key \in Keys : StartsWith(key, s[lo], d) /\ key[d + 1] = b
    BY <1>2, NextBit
  <2> QED BY <1>3, <1>4, <2>1 DEF Held
<1>5. CASE at = lo - 1
  <2>1. \A i \in lo..hi : s[i].bits[d + 1] # 0
    BY <1>5
  <2> QED BY <1>4, <1>5, <2>1
<1>6. CASE at = hi
  <2>1. \A i \in lo..hi : s[i].bits[d + 1] # 1
    BY <1>6
  <2> QED BY <1>4, <1>6, <2>1
<1>7. CASE at # lo - 1 /\ at # hi
  <2>1. at \in lo..(hi - 1) /\ lo \in lo..at /\ at + 1 \in (at + 1)..hi /\ at + 1 \in lo..hi
        /\ (\A i \in lo..at : i \in lo..hi) /\ (\A i \in (at + 1)..hi : i \in lo..hi)
    BY <1>7
  <2>2. \A i \in lo..hi : \A j \in 1..d : s[i].bits[j] = s[lo].bits[j]
    BY DEF Start, Agree
  <2>3. \A j \in 1..(d + 1) : j \in 1..d \/ j = d + 1
    OBVIOUS
  <2>4. Start(s, lo, at, d + 1)
    <3> SUFFICES ASSUME NEW i \in lo..at PROVE d + 1 <= s[i].length /\ Agree(s[i], s[lo], d + 1)
      BY DEF Start
    <3>1. d + 1 <= s[i].length
      BY <1>1, <2>1
    <3>2. s[i].bits[d + 1] = s[lo].bits[d + 1]
      BY <2>1
    <3> QED BY <2>1, <2>2, <2>3, <3>1, <3>2 DEF Agree
  <2>5. Start(s, at + 1, hi, d + 1)
    <3> SUFFICES ASSUME NEW i \in (at + 1)..hi PROVE d + 1 <= s[i].length /\ Agree(s[i], s[at + 1], d + 1)
      BY DEF Start
    <3>1. d + 1 <= s[i].length
      BY <1>1, <2>1
    <3>2. s[i].bits[d + 1] = s[at + 1].bits[d + 1]
      BY <2>1
    <3> QED BY <2>1, <2>2, <2>3, <3>1, <3>2 DEF Agree
  <2>6. \A key \in Keys : key[d + 1] \in {0, 1}
    BY <1>2, NextBitIn
  <2>7. \A key \in Keys : /\ StartsWith(key, s[lo], d + 1) <=> StartsWith(key, s[lo], d) /\ key[d + 1] = 0
                          /\ StartsWith(key, s[at + 1], d + 1) <=> StartsWith(key, s[lo], d) /\ key[d + 1] = 1
    <3>1. s[lo].bits[d + 1] = 0 /\ s[at + 1].bits[d + 1] = 1
      BY <2>1
    <3>2. d + 1 \in 1..(d + 1) /\ \A j \in 1..d : j \in 1..(d + 1) /\ s[at + 1].bits[j] = s[lo].bits[j]
      BY <2>1, <2>2
    <3> QED BY <2>3, <3>1, <3>2 DEF StartsWith
  <2>8. \A i \in lo..hi : (s[i].bits[d + 1] = 0 => i \in lo..at) /\ (s[i].bits[d + 1] = 1 => i \in (at + 1)..hi)
    <3>1. \A i \in lo..hi : i \in lo..at \/ i \in (at + 1)..hi
      BY <2>1
    <3> QED BY <3>1
  <2>9. Held(s, lo, hi, d) => Held(s, lo, at, d + 1) /\ Held(s, at + 1, hi, d + 1)
    BY <1>3, <2>7, <2>8 DEF Held
  <2>10. Held(s, lo, at, d + 1) /\ Held(s, at + 1, hi, d + 1) => Held(s, lo, hi, d)
    BY <2>1, <2>6, <2>7 DEF Held
  <2> QED BY <1>7, <2>4, <2>5, <2>9, <2>10
<1> QED BY <1>5, <1>6, <1>7

(* covers decides whether the shards leave a key out.                      *)
LEMMA CoversIs ==
  ASSUME NEW X, NEW s \in Seq(X), NEW n \in Nat \ {0}, n = Len(s), Words(s, n), Increasing(s, n),
         Apart(s, n), \A i \in 1..n : s[i].length <= MaxIdBits
  PROVE  covers(s) <=> Complete(s, n)
<1>1. DOMAIN s = 1..n /\ MaxIdBits \in Nat /\ \A i \in 1..n : IsWord(s[i]) /\ s[i].length \in 0..MaxIdBits
  BY RoutingAssumption, WordParts DEF Words
<1>2. PICK f : /\ covers(s) = f[Slice(1, Len(s), 0)]
               /\ \A r \in Slices(s) : f[r] = CoverStep(s, f, r)
  BY <1>1, CoversSteps
<1> DEFINE Is(r) == f[r] <=> Held(s, r.lo, r.hi, r.depth)
           Good(r) == r.lo <= r.hi /\ Start(s, r.lo, r.hi, r.depth)
           T == {k \in Nat : \A r \in Slices(s) : Good(r) /\ r.hi - r.lo < k => Is(r)}
<1>3. 0 \in T
  <2>1. \A r \in Slices(s) : r.lo \in 1..n /\ r.hi \in 1..n
    BY <1>1 DEF Slices
  <2>2. \A r \in Slices(s) : r.lo <= r.hi => ~(r.hi - r.lo < 0)
    BY <2>1
  <2> QED BY <2>2
<1>4. ASSUME NEW k \in 1..n, k - 1 \in T PROVE k \in T
  <2> SUFFICES ASSUME NEW r \in Slices(s), Good(r), r.hi - r.lo < k PROVE Is(r)
    OBVIOUS
  <2> DEFINE lo == r.lo
             hi == r.hi
             d == r.depth
             z == ZerosOf(s, r)
             at == lo - 1 + z
             left == Slice(lo, at, d + 1)
             right == Slice(at + 1, hi, d + 1)
  <2>1. lo \in 1..n /\ hi \in 1..n /\ d \in 0..MaxIdBits /\ r = Slice(lo, hi, d) /\ lo <= hi /\ Start(s, lo, hi, d)
    BY <1>1 DEF Slices, Slice
  <2>2. f[r] = IF lo = hi THEN CoversAlone(s[lo], d)
               ELSE z # 0 /\ at # hi /\ f[left] /\ f[right]
    BY <1>2 DEF CoverStep
  <2>3. CASE lo = hi
    <3>1. CoversAlone(s[lo], d) <=> Held(s, lo, lo, d)
      BY <1>1, <2>1, <2>3, HeldAlone
    <3> QED BY <2>2, <2>3, <3>1
  <2>4. CASE lo # hi
    <3>1. lo < hi /\ d \in Nat
      BY <1>1, <2>1, <2>4
    <3>2. /\ at \in (lo - 1)..hi
          /\ \A i \in lo..at : s[i].bits[d + 1] = 0
          /\ \A i \in (at + 1)..hi : s[i].bits[d + 1] = 1
      <4> HIDE DEF lo, hi, d
      <4>1. LET a == lo - 1 + ZerosOf(s, Slice(lo, hi, d))
            IN /\ a \in (lo - 1)..hi
               /\ \A i \in lo..a : s[i].bits[d + 1] = 0
               /\ \A i \in (a + 1)..hi : s[i].bits[d + 1] = 1
        BY <2>1, <3>1, SliceDivides
      <4> QED BY <2>1, <4>1
    <3>3. /\ at = lo - 1 \/ at = hi => ~Held(s, lo, hi, d)
          /\ at # lo - 1 /\ at # hi =>
              /\ Start(s, lo, at, d + 1) /\ Start(s, at + 1, hi, d + 1)
              /\ Held(s, lo, hi, d) <=> Held(s, lo, at, d + 1) /\ Held(s, at + 1, hi, d + 1)
      <4> HIDE DEF lo, hi, d, at
      <4> QED BY <2>1, <3>1, <3>2, HeldParts
    <3>4. CASE z = 0 \/ at = hi
      <4>1. ~Held(s, lo, hi, d)
        <5>1. z = 0 => at = lo - 1
          BY <2>1
        <5> HIDE DEF at, z, lo, hi, d
        <5> QED BY <3>3, <3>4, <5>1
      <4> QED BY <2>2, <2>4, <3>4, <4>1
    <3>5. CASE z # 0 /\ at # hi
      <4>1. r.lo # r.hi /\ ZerosOf(s, r) # 0 /\ r.lo - 1 + ZerosOf(s, r) # r.hi
        BY <2>4, <3>5
      <4>2. /\ at \in lo..(hi - 1) /\ left \in Slices(s) /\ right \in Slices(s)
            /\ left.hi - left.lo < r.hi - r.lo /\ right.hi - right.lo < r.hi - r.lo
        BY <1>1, <4>1, SmallerSlices
      <4>3. at # lo - 1
        BY <2>1, <4>2
      <4>4. /\ left.lo = lo /\ left.hi = at /\ left.depth = d + 1
            /\ right.lo = at + 1 /\ right.hi = hi /\ right.depth = d + 1
        BY SliceParts
      <4>5. left.hi - left.lo < k - 1 /\ right.hi - right.lo < k - 1 /\ lo <= at /\ at + 1 <= hi
        <5> HIDE DEF at, left, right
        <5> QED BY <2>1, <4>2, <4>4
      <4> HIDE DEF at, left, right, lo, hi, d, z
      <4>6. Good(left) /\ Good(right)
        BY <3>3, <3>5, <4>3, <4>4, <4>5
      <4>7. \A q \in Slices(s) : Good(q) /\ q.hi - q.lo < k - 1 => Is(q)
        <5> HIDE DEF Good, Is
        <5> QED BY <1>4
      <4>8. Is(left) /\ Is(right)
        <5> HIDE DEF Good, Is
        <5> QED BY <4>2, <4>5, <4>6, <4>7
      <4>9. /\ f[left] <=> Held(s, lo, at, d + 1)
            /\ f[right] <=> Held(s, at + 1, hi, d + 1)
        BY <4>4, <4>8
      <4>10. f[r] = (f[left] /\ f[right])
        BY <2>2, <2>4, <3>5
      <4>11. Held(s, lo, hi, d) <=> Held(s, lo, at, d + 1) /\ Held(s, at + 1, hi, d + 1)
        BY <3>3, <3>5, <4>3
      <4>12. f[r] <=> Held(s, lo, hi, d)
        BY <4>9, <4>10, <4>11
      <4> QED BY <4>12 DEF lo, hi, d
    <3> QED BY <3>4, <3>5
  <2> QED BY <2>3, <2>4
<1>5. 0..n \subseteq T
  <2> HIDE DEF T
  <2> QED BY <1>3, <1>4, UpTo
<1> DEFINE all == Slice(1, n, 0)
<1>6. all \in Slices(s) /\ all.lo = 1 /\ all.hi = n /\ all.depth = 0
  BY <1>1 DEF Slice, Slices
<1> HIDE DEF all
<1>7. Start(s, 1, n, 0)
  <2>1. \A i \in 1..n : 0 <= s[i].length
    BY <1>1
  <2> QED BY <2>1 DEF Start, Agree
<1>8. Is(all)
  <2>1. n \in T /\ all.hi - all.lo < n /\ all.lo <= all.hi
    BY <1>5, <1>6
  <2> QED BY <1>6, <1>7, <2>1
<1>9. Held(s, 1, n, 0) <=> Complete(s, n)
  <2>1. \A key \in Keys : StartsWith(key, s[1], 0)
    BY DEF StartsWith
  <2> QED BY <2>1 DEF Held, Complete
<1> QED BY <1>2, <1>6, <1>8, <1>9 DEF all

-----------------------------------------------------------------------------
(* The scheme and its order.                                               *)

LEMMA TilesIs ==
  ASSUME NEW s, NEW n \in Nat, DOMAIN s = 1..n
  PROVE  Tiles(s) <=> Apart(s, n) /\ Complete(s, n)
<1> DEFINE In(key) == {i \in 1..n : InShard(s[i], key)}
<1>1. \A key \in Keys : IsFiniteSet(In(key))
  <2>1. IsFiniteSet(1..n)
    BY FS_Interval
  <2>2. \A key \in Keys : In(key) \subseteq 1..n
    OBVIOUS
  <2> HIDE DEF In
  <2> QED BY <2>1, <2>2, FS_Subset
<1>2. \A key \in Keys : Cardinality(In(key)) = 1 <=> \E i : In(key) = {i}
  <2> HIDE DEF In
  <2> QED BY <1>1, FS_Singleton
<1>3. Tiles(s) <=> \A key \in Keys : Cardinality(In(key)) = 1
  BY DEF Tiles
<1>4. ASSUME \A key \in Keys : \E i : In(key) = {i} PROVE Apart(s, n) /\ Complete(s, n)
  <2>1. Apart(s, n)
    <3> SUFFICES ASSUME NEW i \in 1..n, NEW j \in 1..n, NEW key \in Keys, InShard(s[i], key), InShard(s[j], key)
                 PROVE  i = j
      BY DEF Apart
    <3>1. PICK k : In(key) = {k}
      BY <1>4
    <3> QED BY <3>1
  <2>2. Complete(s, n)
    <3> SUFFICES ASSUME NEW key \in Keys PROVE \E i \in 1..n : InShard(s[i], key)
      BY DEF Complete
    <3>1. PICK k : In(key) = {k}
      BY <1>4
    <3> QED BY <3>1
  <2> QED BY <2>1, <2>2
<1>5. ASSUME Apart(s, n), Complete(s, n), NEW key \in Keys PROVE \E i : In(key) = {i}
  <2>1. PICK i \in 1..n : InShard(s[i], key)
    BY <1>5 DEF Complete
  <2>2. \A j \in 1..n : InShard(s[j], key) => j = i
    BY <1>5, <2>1 DEF Apart
  <2>3. In(key) = {i}
    BY <2>1, <2>2
  <2> QED BY <2>3
<1> HIDE DEF In
<1> QED BY <1>2, <1>3, <1>4, <1>5

(* Identifiers with a key in common that are the same are equal.           *)
LEMMA ApartDiffer ==
  ASSUME NEW s, NEW n \in Nat, Words(s, n), Apart(s, n), NEW i \in 1..n, NEW j \in 1..n, i # j
  PROVE  ~Same(s[i], s[j])
<1> SUFFICES ASSUME Same(s[i], s[j]) PROVE FALSE
  OBVIOUS
<1>1. s[i] = s[j]
  BY CanonicalEqual DEF Words, Same
<1>2. PICK key \in Keys : InShard(s[i], key)
  BY KeyIn DEF Words
<1> QED BY <1>1, <1>2 DEF Apart

LEMMA NeighboursRise ==
  ASSUME NEW s, NEW n \in Nat, Words(s, n), \A i \in 1..n : i < n => Less(s[i], s[i + 1])
  PROVE  Increasing(s, n)
<1> DEFINE t == [i \in 1..n |-> [shard_id |-> s[i]]]
<1>1. \A i \in 1..n : t[i].shard_id = s[i]
  OBVIOUS
<1> HIDE DEF t
<1>2. \A i \in 1..n : IsString(t[i].shard_id)
  BY <1>1, WordParts DEF Words
<1>3. \A i \in 1..n : i < n => Less(t[i].shard_id, t[i + 1].shard_id)
  BY <1>1
<1>4. Ordered(t, n)
  BY <1>2, <1>3, NeighboursOrder
<1> QED BY <1>1, <1>4 DEF Ordered, Increasing

(* Sorted, the shards that do not overlap are apart and in order.          *)
LEMMA SortedScheme ==
  ASSUME NEW scheme, NEW n \in Nat, n = Len(scheme), DOMAIN scheme = 1..n, Words(scheme, n)
  PROVE  LET s == sort_by(scheme) IN
         /\ s \in Seq({scheme[i] : i \in 1..n}) /\ Len(s) = n /\ Words(s, n)
         /\ ToSet(s) = ToSet(scheme)
         /\ Apart(s, n) <=> Apart(scheme, n)
         /\ Complete(s, n) <=> Complete(scheme, n)
         /\ ~Overlaps(s) <=> Apart(s, n)
         /\ Apart(s, n) => Increasing(s, n)
<1> DEFINE s == sort_by(scheme)
           X == {scheme[i] : i \in 1..n}
<1>1. \A i \in 1..n : IsString(scheme[i])
  BY WordParts DEF Words
<1>2. PICK p \in [1..n -> 1..n] :
        /\ \A k, l \in 1..n : p[k] = p[l] => k = l
        /\ \A i \in 1..n : \E k \in 1..n : p[k] = i
        /\ \A k, l \in 1..n : k < l => Precedes(scheme, p[k], p[l])
        /\ s = [k \in 1..n |-> scheme[p[k]]]
  <2>1. Rearranged(scheme, n)
    BY <1>1, SortRearranges
  <2> QED BY <2>1 DEF Rearranged
<1>3. DOMAIN s = 1..n /\ \A k \in 1..n : s[k] = scheme[p[k]] /\ p[k] \in 1..n
  BY <1>2
<1>4. s \in Seq(X) /\ Len(s) = n
  <2>1. \A k \in 1..n : scheme[p[k]] \in X
    BY <1>3
  <2> HIDE DEF X, s
  <2>2. s \in [1..n -> X]
    BY <1>2, <2>1
  <2> QED BY <2>2
<1> HIDE DEF s, X
<1>5. Words(s, n)
  BY <1>3 DEF Words
<1>6. ToSet(s) = ToSet(scheme)
  <2>1. ToSet(s) = {s[k] : k \in 1..n} /\ ToSet(scheme) = {scheme[i] : i \in 1..n}
    BY <1>3 DEF ToSet
  <2>2. \A k \in 1..n : s[k] \in {scheme[i] : i \in 1..n}
    BY <1>3
  <2>3. \A i \in 1..n : scheme[i] \in {s[k] : k \in 1..n}
    BY <1>2, <1>3
  <2> QED BY <2>1, <2>2, <2>3
<1>7. Apart(s, n) <=> Apart(scheme, n)
  <2>1. ASSUME Apart(s, n) PROVE Apart(scheme, n)
    <3> SUFFICES ASSUME NEW i \in 1..n, NEW j \in 1..n, NEW key \in Keys,
                        InShard(scheme[i], key), InShard(scheme[j], key)
                 PROVE  i = j
      BY DEF Apart
    <3>1. PICK k \in 1..n : p[k] = i
      BY <1>2
    <3>2. PICK l \in 1..n : p[l] = j
      BY <1>2
    <3>3. k = l
      BY <1>3, <2>1, <3>1, <3>2 DEF Apart
    <3> QED BY <3>1, <3>2, <3>3
  <2>2. ASSUME Apart(scheme, n) PROVE Apart(s, n)
    <3> SUFFICES ASSUME NEW k \in 1..n, NEW l \in 1..n, NEW key \in Keys,
                        InShard(s[k], key), InShard(s[l], key)
                 PROVE  k = l
      BY DEF Apart
    <3>1. p[k] = p[l]
      BY <1>3, <2>2 DEF Apart
    <3> QED BY <1>2, <3>1
  <2> QED BY <2>1, <2>2
<1>8. Complete(s, n) <=> Complete(scheme, n)
  BY <1>2, <1>3 DEF Complete
<1>9. \A k, l \in 1..n : k < l => Less(s[k], s[l]) \/ Same(s[k], s[l])
  <2> SUFFICES ASSUME NEW k \in 1..n, NEW l \in 1..n, k < l PROVE Less(s[k], s[l]) \/ Same(s[k], s[l])
    OBVIOUS
  <2>1. Precedes(scheme, p[k], p[l])
    BY <1>2
  <2>2. canonical_cmp(s[k], s[l]) = -1 \/ canonical_cmp(s[k], s[l]) = 0
    BY <1>3, <2>1 DEF Precedes
  <2> QED BY <1>1, <1>3, <2>2, ComparedIs
<1>10. ASSUME Apart(s, n) PROVE Increasing(s, n)
  BY <1>5, <1>9, <1>10, ApartDiffer DEF Increasing
<1>11. ASSUME ~Overlaps(s) PROVE Increasing(s, n)
  <2>1. ASSUME NEW i \in 1..n, i < n PROVE Less(s[i], s[i + 1])
    <3>1. i + 1 \in 1..n /\ i < i + 1 /\ i \in 1..(Len(s) - 1)
      BY <1>4, <2>1
    <3>2. ~is_prefix_of_shard(s[i], s[i + 1])
      BY <1>11, <3>1 DEF Overlaps
    <3>3. ~Same(s[i], s[i + 1])
      <4> SUFFICES ASSUME Same(s[i], s[i + 1]) PROVE FALSE
        OBVIOUS
      <4>1. s[i].length <= s[i + 1].length
        <5>1. s[i].length \in Nat
          BY <1>5, WordParts DEF Words
        <5> QED BY <5>1 DEF Same
      <4> QED BY <1>5, <3>1, <3>2, <4>1, PrefixFits DEF Words, Same
    <3> QED BY <1>9, <3>1, <3>3
  <2> QED BY <1>5, <2>1, NeighboursRise
<1>12. ~Overlaps(s) <=> Apart(s, n)
  BY <1>4, <1>5, <1>10, <1>11, OverlapsIs
<1> QED BY <1>4, <1>5, <1>6, <1>7, <1>8, <1>10, <1>12 DEF s, X

(* The schemes that are accepted, and the shards of one in their order.    *)
Admissible(scheme, n) ==
  n \in 2..MaxShards /\ Tiles(scheme) /\ \A i \in 1..n : scheme[i].length <= MaxIdBits

Arranged(s, scheme, n) ==
  /\ s \in Seq({scheme[i] : i \in 1..n}) /\ Len(s) = n /\ ToSet(s) = ToSet(scheme)
  /\ Words(s, n) /\ Increasing(s, n) /\ Apart(s, n) /\ Complete(s, n)

LEMMA OrderExact ==
  ASSUME NEW X, NEW scheme \in Seq(X), NEW n \in Nat, n = Len(scheme), \A i \in 1..n : Canonical(scheme[i])
  PROVE  LET order == canonical_order(scheme)
         IN /\ order.ok <=> scheme = <<>> \/ Admissible(scheme, n)
            /\ order.ok /\ scheme # <<>> => Arranged(order.value, scheme, n)
<1> DEFINE order == canonical_order(scheme)
           ids == sort_by(scheme)
           wrong == \E i \in DOMAIN scheme : scheme[i].length \notin 1..MaxIdBits
           rest == IF wrong THEN Err("shard id length")
                   ELSE IF Overlaps(ids) THEN Err("not prefix-free")
                   ELSE IF covers(ids) THEN Ok(ids) ELSE Err("not complete")
           short == \A i \in 1..n : scheme[i].length <= MaxIdBits
<1>1. order =
        CASE Len(scheme) > MaxShards -> Err("too many shards")
          [] scheme = <<>>           -> Ok(<<root>>)
          [] Len(scheme) = 1         -> Err("a single shard")
          [] OTHER -> rest
  BY DEF canonical_order
<1>2. (\A e : ~Err(e).ok) /\ \A x : Ok(x).value = x /\ Ok(x).ok
  BY DEF Err, Ok
<1>3. DOMAIN scheme = 1..n /\ MaxShards \in Nat /\ MaxIdBits \in Nat /\ KeyBits \in Nat /\ MaxIdBits <= KeyBits
      /\ (n = 0 <=> scheme = <<>>)
  BY RoutingAssumption, RadixAssumption, CommitmentAssumption
<1>4. \A i \in 1..n : scheme[i].length \in Nat
  BY CanonicalParts DEF Canonical
<1> HIDE DEF order, rest
<1>5. CASE scheme = <<>>
  <2>1. order = Ok(<<root>>)
    <3>1. ~(Len(scheme) > MaxShards)
      BY <1>3, <1>5
    <3> QED BY <1>1, <1>5, <3>1
  <2> QED BY <1>2, <1>5, <2>1 DEF order
<1>6. CASE scheme # <<>> /\ ~(n \in 2..MaxShards)
  <2>1. Len(scheme) > MaxShards \/ Len(scheme) = 1
    BY <1>3, <1>6
  <2>2. ~order.ok
    BY <1>1, <1>2, <1>6, <2>1
  <2> QED BY <1>6, <2>2 DEF order, Admissible
<1>7. CASE scheme # <<>> /\ n \in 2..MaxShards
  <2>1. order = rest
    <3>1. ~(Len(scheme) > MaxShards) /\ Len(scheme) # 1
      BY <1>3, <1>7
    <3> QED BY <1>1, <1>7, <3>1
  <2>2. CASE ~short
    <3>1. wrong
      BY <1>3, <2>2
    <3>2. ~order.ok
      BY <1>2, <2>1, <3>1 DEF rest
    <3> QED BY <1>7, <2>2, <3>2 DEF order, Admissible
  <2>3. CASE short
    <3>1. \A i \in 1..n : scheme[i].length <= KeyBits
      BY <1>3, <1>4, <2>3
    <3>2. Words(scheme, n)
      BY <3>1, CanonicalIsWord DEF Words
    <3>3. /\ ids \in Seq({scheme[i] : i \in 1..n}) /\ Len(ids) = n /\ Words(ids, n)
          /\ ToSet(ids) = ToSet(scheme)
          /\ Apart(ids, n) <=> Apart(scheme, n)
          /\ Complete(ids, n) <=> Complete(scheme, n)
          /\ ~Overlaps(ids) <=> Apart(ids, n)
          /\ Apart(ids, n) => Increasing(ids, n)
      BY <1>3, <3>2, SortedScheme
    <3>4. Tiles(scheme) <=> Apart(scheme, n) /\ Complete(scheme, n)
      BY <1>3, TilesIs
    <3>5. Apart(scheme, n) => ~wrong
      <4> SUFFICES ASSUME Apart(scheme, n), NEW i \in 1..n, scheme[i].length \notin 1..MaxIdBits PROVE FALSE
        BY <1>3
      <4>1. scheme[i].length = 0
        BY <1>3, <1>4, <2>3
      <4>2. PICK j \in 1..n : j # i
        <5>1. 1 \in 1..n /\ 2 \in 1..n
          BY <1>7
        <5> QED BY <5>1
      <4>3. PICK key \in Keys : InShard(scheme[j], key)
        BY <3>2, KeyIn DEF Words
      <4>4. InShard(scheme[i], key)
        BY <4>1 DEF InShard
      <4> QED BY <4>2, <4>3, <4>4 DEF Apart
    <3> HIDE DEF ids
    <3>6. \A k \in 1..n : ids[k].length <= MaxIdBits
      <4> SUFFICES ASSUME NEW k \in 1..n PROVE ids[k].length <= MaxIdBits
        OBVIOUS
      <4>1. ids[k] \in {scheme[i] : i \in 1..n}
        BY <3>3
      <4> QED BY <2>3, <4>1
    <3>7. Apart(ids, n) => (covers(ids) <=> Complete(ids, n))
      <4>1. n \in Nat \ {0}
        BY <1>7
      <4> QED BY <3>3, <3>6, <4>1, CoversIs
    <3>8. order.ok <=> ~wrong /\ ~Overlaps(ids) /\ covers(ids)
      <4> HIDE DEF wrong
      <4> QED BY <1>2, <2>1 DEF rest
    <3>9. order.ok => order.value = ids
      <4> HIDE DEF wrong
      <4> QED BY <1>2, <2>1 DEF rest
    <3>10. order.ok <=> Tiles(scheme)
      <4> HIDE DEF wrong
      <4> QED BY <3>3, <3>4, <3>5, <3>7, <3>8
    <3>11. order.ok => Apart(ids, n) /\ Complete(ids, n) /\ Increasing(ids, n)
      BY <3>3, <3>4, <3>10
    <3> HIDE DEF wrong
    <3>12. order.ok <=> scheme = <<>> \/ Admissible(scheme, n)
      BY <1>7, <2>3, <3>10 DEF Admissible
    <3>13. order.ok => Arranged(order.value, scheme, n)
      BY <3>3, <3>9, <3>11 DEF Arranged
    <3> QED BY <3>12, <3>13 DEF order
  <2> QED BY <2>2, <2>3
<1> QED BY <1>5, <1>6, <1>7

-----------------------------------------------------------------------------
(* The binary search.                                                      *)

HalveStep(order, f, p) ==
  LET half == p.size \div 2
      next == IF order[p.base + half] = 1 THEN p.base ELSE p.base + half
  IN IF p.size = 1 THEN p.base ELSE f[Part(next, p.size - half)]

Half(p) == p.size \div 2

NextBase(order, p) == IF order[p.base + Half(p)] = 1 THEN p.base ELSE p.base + Half(p)

NextPart(order, p) == Part(NextBase(order, p), p.size - Half(p))

LEMMA HalveStepIs ==
  ASSUME NEW order, NEW f, NEW p
  PROVE  HalveStep(order, f, p) = IF p.size = 1 THEN p.base ELSE f[NextPart(order, p)]
BY DEF HalveStep, NextPart, NextBase, Half

LEMMA SmallerParts ==
  ASSUME NEW order, NEW n \in Nat, NEW p \in Parts(n), p.size # 1
  PROVE  /\ p.base \in 1..n /\ p.size \in 2..n /\ p.base + p.size <= n + 1
         /\ Half(p) \in 1..(p.size - 1) /\ Half(p) <= p.size - Half(p)
         /\ NextPart(order, p) \in Parts(n)
         /\ NextPart(order, p).base = NextBase(order, p)
         /\ NextPart(order, p).size = p.size - Half(p)
<1> DEFINE half == Half(p)
           x == NextBase(order, p)
<1>1. p.base \in 1..n /\ p.size \in 2..n /\ p.base + p.size <= n + 1
  BY DEF Parts
<1>2. half \in 1..(p.size - 1) /\ half <= p.size - half
  BY <1>1 DEF Half
<1>3. x = p.base \/ x = p.base + half
  BY DEF NextBase
<1> HIDE DEF half, x
<1>4. x \in 1..n /\ p.size - half \in 1..n /\ x + (p.size - half) <= n + 1
  BY <1>1, <1>2, <1>3
<1>5. /\ Part(x, p.size - half) \in Parts(n)
      /\ Part(x, p.size - half).base = x /\ Part(x, p.size - half).size = p.size - half
  BY <1>4 DEF Part, Parts
<1>6. NextPart(order, p) = Part(x, p.size - half)
  BY DEF NextPart, half, x
<1> QED BY <1>1, <1>2, <1>5, <1>6 DEF half, x

LEMMA HalveStepReads ==
  ASSUME NEW order, NEW n \in Nat, NEW p \in Parts(n), NEW f, NEW g,
         \A q \in Parts(n) : q.size < p.size => f[q] = g[q]
  PROVE  HalveStep(order, f, p) = HalveStep(order, g, p)
<1> DEFINE q == NextPart(order, p)
<1>1. CASE p.size # 1
  <2>1. q \in Parts(n) /\ q.size = p.size - Half(p) /\ Half(p) \in 1..(p.size - 1) /\ p.size \in 2..n
    BY <1>1, SmallerParts
  <2> HIDE DEF q
  <2>2. q.size < p.size
    BY <2>1
  <2>3. f[q] = g[q]
    BY <2>1, <2>2
  <2> QED BY <2>3, HalveStepIs DEF q
<1>2. CASE p.size = 1
  BY <1>2, HalveStepIs
<1> QED BY <1>1, <1>2

LEMMA HalveSteps ==
  ASSUME NEW order, NEW n \in Nat, n = Len(order)
  PROVE  \E f : /\ Halve(order) = f[Part(1, n)]
                /\ \A p \in Parts(n) : f[p] = HalveStep(order, f, p)
<1> DEFINE D == Parts(n)
           IsRun(f) == f = [p \in Parts(Len(order)) |-> HalveStep(order, f, p)]
           T == {k \in Nat : \E g : \A p \in D : p.size <= k => g[p] = HalveStep(order, g, p)}
<1>1. Halve(order) = (CHOOSE f : IsRun(f))[Part(1, Len(order))]
  BY Zenon DEF Halve, HalveStep
<1>2. \A p \in D : p.size \in 1..n
  BY DEF Parts
<1> HIDE DEF D
<1>3. 0 \in T
  <2>1. \A p \in D : ~(p.size <= 0)
    BY <1>2
  <2> QED BY <2>1
<1>4. ASSUME NEW k \in 1..n, k - 1 \in T PROVE k \in T
  <2>1. PICK g : \A p \in D : p.size <= k - 1 => g[p] = HalveStep(order, g, p)
    BY <1>4
  <2> DEFINE h == [p \in D |-> HalveStep(order, g, p)]
  <2>2. ASSUME NEW p \in D, p.size <= k PROVE h[p] = HalveStep(order, h, p)
    <3>1. ASSUME NEW q \in D, q.size < p.size PROVE h[q] = g[q]
      <4>1. q.size <= k - 1
        BY <1>2, <2>2, <3>1
      <4> QED BY <2>1, <4>1
    <3>2. h[p] = HalveStep(order, g, p)
      OBVIOUS
    <3> HIDE DEF h
    <3>3. HalveStep(order, h, p) = HalveStep(order, g, p)
      BY <3>1, HalveStepReads DEF D
    <3> QED BY <3>2, <3>3
  <2> HIDE DEF h
  <2> QED BY <2>2
<1>5. 0..n \subseteq T
  <2> HIDE DEF T
  <2> QED BY <1>3, <1>4, UpTo
<1>6. PICK g : \A p \in D : g[p] = HalveStep(order, g, p)
  <2>1. n \in T
    BY <1>5
  <2>2. PICK g : \A p \in D : p.size <= n => g[p] = HalveStep(order, g, p)
    BY <2>1
  <2>3. \A p \in D : p.size <= n
    BY <1>2
  <2> QED BY <2>2, <2>3
<1> DEFINE F == [p \in D |-> g[p]]
<1>7. IsRun(F)
  <2>1. ASSUME NEW p \in D PROVE F[p] = HalveStep(order, F, p)
    <3>1. F[p] = g[p] /\ \A q \in D : F[q] = g[q]
      OBVIOUS
    <3> HIDE DEF F
    <3>2. HalveStep(order, F, p) = HalveStep(order, g, p)
      BY <3>1, HalveStepReads DEF D
    <3> QED BY <1>6, <3>1, <3>2
  <2> QED BY <2>1 DEF D
<1> DEFINE f == CHOOSE f : IsRun(f)
<1>8. IsRun(f)
  <2> HIDE DEF IsRun, F
  <2> QED BY <1>7
<1> HIDE DEF f
<1>9. \A p \in D : f[p] = HalveStep(order, f, p)
  BY <1>8 DEF D
<1> QED BY <1>1, <1>9 DEF f, D

(* Where the sought place is after a part was divided.                     *)
LEMMA HalfHas ==
  ASSUME NEW n \in Nat, NEW base \in 1..n, NEW size \in 2..n, base + size <= n + 1,
         NEW half \in 1..(size - 1), half <= size - half, NEW t \in 1..n, base <= t, t < base + size
  PROVE  /\ base + half \in 1..n /\ size - half <= size - 1
         /\ t < base + half => t < base + (size - half)
         /\ ~(t < base + half) => base + half <= t /\ t < (base + half) + (size - half)
OBVIOUS

(* The search finds the element that is neither before nor after.          *)
LEMMA SearchFinds ==
  ASSUME NEW order, NEW n \in Nat, n = Len(order), NEW t \in 1..n, order[t] = 0,
         \A i \in 1..n : i < t => order[i] = -1, \A i \in 1..n : t < i => order[i] = 1
  PROVE  BinarySearch(order) = t
<1>1. PICK f : /\ Halve(order) = f[Part(1, n)]
               /\ \A p \in Parts(n) : f[p] = HalveStep(order, f, p)
  BY HalveSteps
<1> DEFINE Has(p) == p.base <= t /\ t < p.base + p.size
           T == {k \in Nat : \A p \in Parts(n) : p.size <= k /\ Has(p) => f[p] = t}
<1>2. \A p \in Parts(n) : p.base \in 1..n /\ p.size \in 1..n /\ p.base + p.size <= n + 1
  BY DEF Parts
<1>3. 0 \in T
  <2>1. \A p \in Parts(n) : ~(p.size <= 0)
    BY <1>2
  <2> QED BY <2>1
<1>4. ASSUME NEW k \in 1..n, k - 1 \in T PROVE k \in T
  <2> SUFFICES ASSUME NEW p \in Parts(n), p.size <= k, Has(p) PROVE f[p] = t
    OBVIOUS
  <2> DEFINE half == Half(p)
             next == NextBase(order, p)
             q == NextPart(order, p)
  <2>1. f[p] = IF p.size = 1 THEN p.base ELSE f[q]
    BY <1>1, HalveStepIs
  <2>2. CASE p.size = 1
    BY <1>2, <2>1, <2>2
  <2>3. CASE p.size # 1
    <3>1. next = IF order[p.base + half] = 1 THEN p.base ELSE p.base + half
      BY DEF NextBase
    <3>2. /\ q \in Parts(n) /\ q.base = next /\ q.size = p.size - half
          /\ half \in 1..(p.size - 1) /\ half <= p.size - half /\ p.size \in 2..n
      BY <2>3, SmallerParts
    <3> HIDE DEF half, next, q
    <3>3. p.base \in 1..n /\ p.size \in 1..n /\ p.base + p.size <= n + 1 /\ p.base <= t /\ t < p.base + p.size
      BY <1>2
    <3>4. /\ p.base + half \in 1..n /\ p.size - half <= p.size - 1
          /\ t < p.base + half => t < p.base + (p.size - half)
          /\ ~(t < p.base + half) => /\ p.base + half <= t
                                     /\ t < (p.base + half) + (p.size - half)
      <4> DEFINE base == p.base
                 size == p.size
      <4>1. base \in 1..n /\ size \in 2..n /\ base + size <= n + 1 /\ base <= t /\ t < base + size
            /\ half \in 1..(size - 1) /\ half <= size - half
        BY <3>2, <3>3
      <4> HIDE DEF base, size
      <4>2. /\ base + half \in 1..n /\ size - half <= size - 1
            /\ t < base + half => t < base + (size - half)
            /\ ~(t < base + half) => base + half <= t /\ t < (base + half) + (size - half)
        BY <4>1, HalfHas
      <4> QED BY <4>2 DEF base, size
    <3>5. next <= t /\ t < next + (p.size - half)
      <4>1. CASE t < p.base + half
        <5>1. order[p.base + half] = 1
          BY <3>4, <4>1
        <5>2. next = p.base
          BY <3>1, <5>1
        <5> QED BY <3>3, <3>4, <4>1, <5>2
      <4>2. CASE ~(t < p.base + half)
        <5>1. order[p.base + half] # 1
          BY <3>4, <4>2
        <5>2. next = p.base + half
          BY <3>1, <5>1
        <5> QED BY <3>4, <4>2, <5>2
      <4> QED BY <4>1, <4>2
    <3>6. Has(q) /\ q.size <= k - 1
      <4>1. q.size <= p.size - 1 /\ q.size \in Int /\ p.size \in Int
        BY <3>2, <3>3, <3>4
      <4>2. q.size <= k - 1
        BY <4>1
      <4> QED BY <3>2, <3>5, <4>2
    <3>7. f[q] = t
      <4> HIDE DEF Has
      <4> QED BY <1>4, <3>2, <3>6
    <3> QED BY <2>1, <2>3, <3>7
  <2> QED BY <2>2, <2>3
<1>5. 0..n \subseteq T
  <2> HIDE DEF T
  <2> QED BY <1>3, <1>4, UpTo
<1> DEFINE all == Part(1, n)
<1>6. all \in Parts(n) /\ all.base = 1 /\ all.size = n
  BY DEF Part, Parts
<1> HIDE DEF all
<1>7. f[all] = t
  <2>1. n \in T /\ Has(all) /\ all.size <= n
    BY <1>5, <1>6
  <2> HIDE DEF Has
  <2> QED BY <1>6, <2>1
<1>8. Halve(order) = t
  BY <1>1, <1>7 DEF all
<1>9. order # <<>>
  OBVIOUS
<1> QED BY <1>8, <1>9 DEF BinarySearch

(* How an identifier compares with a key: where they first differ.         *)
LEMMA ComparedWithKey ==
  ASSUME NEW id, IsWord(id), NEW key \in Keys
  PROVE  /\ InShard(id, key) => cmp_prefix_of_key(id, key) = 0
         /\ \A m \in Nat : /\ m < id.length /\ \A j \in 1..m : id.bits[j] = key[j]
                           => /\ id.bits[m + 1] < key[m + 1] => cmp_prefix_of_key(id, key) = -1
                              /\ key[m + 1] < id.bits[m + 1] => cmp_prefix_of_key(id, key) = 1
<1> DEFINE n == id.length
           padded == key \o Zeros(n)
           i == Difference(id.bits, padded, n)
<1>1. n \in Nat /\ n <= KeyBits /\ KeyBits \in Nat /\ \A j \in 1..n : id.bits[j] \in {0, 1}
  BY WordParts, RadixAssumption
<1>2. \A j \in 1..KeyBits : key[j] \in {0, 1} /\ padded[j] = key[j]
  <2>1. key \in [1..KeyBits -> {0, 1}]
    BY DEF Keys
  <2>2. key \in Seq({0, 1}) /\ Len(key) = KeyBits
    BY <1>1, <2>1
  <2> DEFINE z == Zeros(n)
  <2>3. z \in Seq({0, 1})
    BY <1>1 DEF Zeros
  <2> HIDE DEF z
  <2>4. \A j \in 1..Len(key) : (key \o z)[j] = key[j]
    BY <2>2, <2>3, ConcatProperties
  <2> QED BY <2>1, <2>2, <2>4 DEF z
<1>3. cmp_prefix_of_key(id, key) = IF i <= n THEN Compare(id.bits[i], padded[i]) ELSE 0
  BY DEF cmp_prefix_of_key
<1> HIDE DEF padded
<1>4. i \in 1..(n + 1) /\ (i <= n => id.bits[i] # padded[i]) /\ \A j \in 1..(i - 1) : id.bits[j] = padded[j]
  <2> HIDE DEF n
  <2> QED BY <1>1, DifferenceIs
<1> HIDE DEF i
<1>5. ASSUME InShard(id, key) PROVE cmp_prefix_of_key(id, key) = 0
  <2>1. \A j \in 1..n : id.bits[j] = key[j]
    BY <1>5, InShardIs
  <2>2. ~(i <= n)
    <3> SUFFICES ASSUME i <= n PROVE FALSE
      OBVIOUS
    <3>1. i \in 1..n /\ i \in 1..KeyBits
      BY <1>1, <1>4
    <3> QED BY <1>2, <1>4, <2>1, <3>1
  <2> QED BY <1>3, <2>2
<1>6. ASSUME NEW m \in Nat, m < n, \A j \in 1..m : id.bits[j] = key[j], id.bits[m + 1] # key[m + 1]
      PROVE  cmp_prefix_of_key(id, key) = Compare(id.bits[m + 1], key[m + 1])
  <2>1. m + 1 \in 1..n /\ m + 1 \in 1..KeyBits
    BY <1>1, <1>6
  <2>2. ~(m + 1 < i)
    <3> SUFFICES ASSUME m + 1 < i PROVE FALSE
      OBVIOUS
    <3>1. m + 1 \in 1..(i - 1)
      BY <1>4
    <3> QED BY <1>2, <1>4, <1>6, <2>1, <3>1
  <2>3. ~(i < m + 1)
    <3> SUFFICES ASSUME i < m + 1 PROVE FALSE
      OBVIOUS
    <3>1. i \in 1..m /\ i <= n /\ i \in 1..KeyBits
      BY <1>1, <1>4, <1>6
    <3> QED BY <1>2, <1>4, <1>6, <3>1
  <2>4. i = m + 1
    BY <1>4, <2>2, <2>3
  <2>5. i <= n
    BY <1>1, <2>1, <2>4
  <2> QED BY <1>2, <1>3, <2>1, <2>4, <2>5
<1>7. ASSUME NEW m \in Nat, m < n, \A j \in 1..m : id.bits[j] = key[j]
      PROVE  /\ id.bits[m + 1] < key[m + 1] => cmp_prefix_of_key(id, key) = -1
             /\ key[m + 1] < id.bits[m + 1] => cmp_prefix_of_key(id, key) = 1
  <2> DEFINE x == id.bits[m + 1]
             y == key[m + 1]
  <2>1. x \in {0, 1} /\ y \in {0, 1}
    BY <1>1, <1>2, <1>7
  <2>2. x # y => cmp_prefix_of_key(id, key) = Compare(x, y)
    BY <1>6, <1>7
  <2> HIDE DEF x, y
  <2>3. (x < y => Compare(x, y) = -1) /\ (y < x => Compare(x, y) = 1)
    BY <2>1, CompareIs
  <2>4. (x < y => x # y) /\ (y < x => x # y)
    BY <2>1
  <2>5. (x < y => cmp_prefix_of_key(id, key) = -1) /\ (y < x => cmp_prefix_of_key(id, key) = 1)
    BY <2>2, <2>3, <2>4
  <2> QED BY <2>5 DEF x, y
<1> QED BY <1>5, <1>7

(* Shards on the two sides of the one of the key are less and greater.     *)
LEMMA ShardsAround ==
  ASSUME NEW a, NEW b, IsWord(a), IsWord(b), Less(a, b),
         \A key \in Keys : ~(InShard(a, key) /\ InShard(b, key)), NEW key \in Keys
  PROVE  /\ InShard(b, key) => cmp_prefix_of_key(a, key) = -1
         /\ InShard(a, key) => cmp_prefix_of_key(b, key) = 1
<1>1. PICK n \in Nat : LessAt(a, b, n)
  BY DEF Less
<1>2. a.length \in Nat /\ b.length \in Nat
  BY WordParts
<1>3. /\ n \in 0..a.length /\ n < b.length /\ \A j \in 1..n : a.bits[j] = b.bits[j]
      /\ n = a.length \/ a.bits[n + 1] < b.bits[n + 1]
  BY <1>1 DEF LessAt, Agree
<1>4. n # a.length
  <2> SUFFICES ASSUME n = a.length PROVE FALSE
    OBVIOUS
  <2>1. PICK k \in Keys : InShard(b, k)
    BY KeyIn
  <2>2. \A j \in 1..b.length : b.bits[j] = k[j]
    BY <2>1, InShardIs
  <2>3. \A j \in 1..a.length : a.bits[j] = k[j]
    BY <1>2, <1>3, <2>2
  <2>4. InShard(a, k)
    BY <2>3, InShardIs
  <2> QED BY <2>1, <2>4
<1>5. n < a.length /\ n + 1 \in 1..a.length /\ n + 1 \in 1..b.length /\ a.bits[n + 1] < b.bits[n + 1]
      /\ \A j \in 1..n : j \in 1..a.length /\ j \in 1..b.length
  BY <1>2, <1>3, <1>4
<1>6. ASSUME InShard(b, key) PROVE cmp_prefix_of_key(a, key) = -1
  <2>1. \A j \in 1..b.length : b.bits[j] = key[j]
    BY <1>6, InShardIs
  <2>2. (\A j \in 1..n : a.bits[j] = key[j]) /\ a.bits[n + 1] < key[n + 1]
    BY <1>3, <1>5, <2>1
  <2> QED BY <1>5, <2>2, ComparedWithKey
<1>7. ASSUME InShard(a, key) PROVE cmp_prefix_of_key(b, key) = 1
  <2>1. \A j \in 1..a.length : a.bits[j] = key[j]
    BY <1>7, InShardIs
  <2>2. (\A j \in 1..n : b.bits[j] = key[j]) /\ key[n + 1] < b.bits[n + 1]
    BY <1>3, <1>5, <2>1
  <2> QED BY <1>3, <2>2, ComparedWithKey
<1> QED BY <1>6, <1>7

(* Of shards that tile, in order, the router finds the one of a key.       *)
LEMMA RouteFinds ==
  ASSUME NEW s, NEW n \in Nat, DOMAIN s = 1..n, Words(s, n), Increasing(s, n), Apart(s, n),
         Complete(s, n), NEW key \in Keys
  PROVE  route_index(s, key) \in 1..n /\ InShard(s[route_index(s, key)], key)
<1>1. PICK t \in 1..n : InShard(s[t], key)
  BY DEF Complete
<1> DEFINE order == [i \in 1..n |-> cmp_prefix_of_key(s[i], key)]
<1>2. \A i \in 1..n : IsWord(s[i])
  BY DEF Words
<1>3. \A i, j \in 1..n : i < j => Less(s[i], s[j]) /\ \A k \in Keys : ~(InShard(s[i], k) /\ InShard(s[j], k))
  BY DEF Increasing, Apart
<1>4. Len(order) = n /\ order[t] = 0
  BY <1>1, <1>2, ComparedWithKey
<1>5. \A i \in 1..n : i < t => order[i] = -1
  BY <1>1, <1>2, <1>3, ShardsAround
<1>6. \A i \in 1..n : t < i => order[i] = 1
  BY <1>1, <1>2, <1>3, ShardsAround
<1>7. route_index(s, key) = IF BinarySearch(order) = 0 THEN 1 ELSE BinarySearch(order)
  BY DEF route_index
<1> HIDE DEF order
<1>8. BinarySearch(order) = t
  BY <1>4, <1>5, <1>6, SearchFinds
<1>9. route_index(s, key) = t
  BY <1>7, <1>8
<1> QED BY <1>1, <1>9

-----------------------------------------------------------------------------
(* The stack pass over shards that tile.                                   *)

Disjoint(a, b) == \A key \in Keys : ~(InShard(a, key) /\ InShard(b, key))

LEMMA PrefixHas ==
  ASSUME NEW p, NEW b, IsWord(p), IsWord(b), p.length <= b.length, Agree(p, b, p.length),
         NEW key \in Keys, InShard(b, key)
  PROVE  InShard(p, key)
<1>1. p.length \in Nat /\ b.length \in Nat
  BY WordParts
<1>2. \A i \in 1..b.length : b.bits[i] = key[i]
  BY InShardIs
<1>3. \A i \in 1..p.length : p.bits[i] = key[i]
  BY <1>1, <1>2 DEF Agree
<1> QED BY <1>3, InShardIs

LEMMA DisjointPrefix ==
  ASSUME NEW a, NEW p, IsWord(a), IsWord(p), Disjoint(a, p), a.length <= p.length
  PROVE  ~Agree(a, p, a.length) /\ ~Agree(p, a, a.length)
<1>1. PICK key \in Keys : InShard(p, key)
  BY KeyIn
<1>2. ~Agree(a, p, a.length)
  BY <1>1, PrefixHas DEF Disjoint
<1> QED BY <1>2 DEF Agree

(* An order between identifiers extends to a prefix that has no key of     *)
(* the other.                                                              *)
LEMMA PrefixOrder ==
  ASSUME NEW a, NEW b, NEW p, IsWord(a), IsWord(b), IsWord(p), p.length <= b.length,
         Agree(p, b, p.length), Disjoint(a, p)
  PROVE  (Less(a, b) => Less(a, p)) /\ (Less(b, a) => Less(p, a))
<1>1. a.length \in Nat /\ b.length \in Nat /\ p.length \in Nat
  BY WordParts
<1>2. \A j \in 1..p.length : p.bits[j] = b.bits[j]
  BY DEF Agree
<1>3. a.length <= p.length => \E j \in 1..a.length : a.bits[j] # p.bits[j]
  BY DisjointPrefix DEF Agree
<1>4. p.length <= a.length => \E j \in 1..p.length : a.bits[j] # p.bits[j]
  <2>1. Disjoint(p, a)
    BY DEF Disjoint
  <2> QED BY <2>1, DisjointPrefix DEF Agree
<1>5. ASSUME Less(a, b) PROVE Less(a, p)
  <2>1. PICK n \in Nat : LessAt(a, b, n)
    BY <1>5 DEF Less
  <2>2. /\ n \in 0..a.length /\ n < b.length /\ \A j \in 1..n : a.bits[j] = b.bits[j]
        /\ n = a.length \/ a.bits[n + 1] < b.bits[n + 1]
    BY <2>1 DEF LessAt, Agree
  <2>3. n < p.length
    <3> SUFFICES ASSUME p.length <= n PROVE FALSE
      BY <1>1
    <3>1. p.length <= a.length
      BY <1>1, <2>2
    <3>2. \A j \in 1..p.length : j \in 1..n
      BY <1>1
    <3> QED BY <1>2, <1>4, <2>2, <3>1, <3>2
  <2>4. n # a.length
    <3> SUFFICES ASSUME n = a.length PROVE FALSE
      OBVIOUS
    <3>1. a.length <= p.length /\ \A j \in 1..a.length : j \in 1..p.length
      BY <1>1, <2>3
    <3> QED BY <1>2, <1>3, <2>2, <3>1
  <2>5. n + 1 \in 1..p.length /\ \A j \in 1..n : j \in 1..p.length
    BY <1>1, <2>3
  <2>6. LessAt(a, p, n)
    BY <1>2, <2>2, <2>3, <2>4, <2>5 DEF LessAt, Agree
  <2> QED BY <2>6 DEF Less
<1>6. ASSUME Less(b, a) PROVE Less(p, a)
  <2>1. PICK n \in Nat : LessAt(b, a, n)
    BY <1>6 DEF Less
  <2>2. /\ n \in 0..b.length /\ n < a.length /\ \A j \in 1..n : a.bits[j] = b.bits[j]
        /\ n = b.length \/ b.bits[n + 1] < a.bits[n + 1]
    BY <2>1 DEF LessAt, Agree
  <2>3. n < p.length
    <3> SUFFICES ASSUME p.length <= n PROVE FALSE
      BY <1>1
    <3>1. p.length <= a.length
      BY <1>1, <2>2
    <3>2. \A j \in 1..p.length : j \in 1..n
      BY <1>1
    <3> QED BY <1>2, <1>4, <2>2, <3>1, <3>2
  <2>4. n # b.length
    BY <1>1, <2>3
  <2>5. n + 1 \in 1..p.length /\ \A j \in 1..n : j \in 1..p.length
    BY <1>1, <2>3
  <2>6. LessAt(p, a, n)
    BY <1>1, <1>2, <2>2, <2>3, <2>4, <2>5 DEF LessAt, Agree
  <2> QED BY <2>6 DEF Less
<1> QED BY <1>5, <1>6

LEMMA PrefixCanonical ==
  ASSUME NEW l, IsWord(l), NEW n \in Nat, n <= l.length
  PROVE  Canonical(prefix(l, n))
<1>1. l.bits \in Seq({0, 1}) /\ l.length <= Len(l.bits) /\ l.length \in Nat /\ Len(l.bits) \in Nat
  BY LenProperties DEF IsWord
<1>2. n <= Len(l.bits) /\ ~(n > l.length)
  BY <1>1
<1>3. prefix(l, n) = Padded(l.bits, n)
  BY <1>2 DEF prefix, Padded
<1> QED BY <1>1, <1>2, <1>3 DEF Canonical

(* Identifiers that differ in their last bit only are siblings.            *)
LEMMA CanonicalSiblings ==
  ASSUME NEW l, NEW r, Canonical(l), Canonical(r), l.length = r.length, l.length >= 1,
         l.bits[l.length] = 0, r.bits[l.length] = 1, Agree(l, r, l.length - 1)
  PROVE  AreSiblings(l, r)
<1>1. PICK s \in Seq({0, 1}), n \in Nat : n <= Len(s) /\ l = Padded(s, n)
  BY DEF Canonical
<1>2. PICK u \in Seq({0, 1}), m \in Nat : m <= Len(u) /\ r = Padded(u, m)
  BY DEF Canonical
<1> DEFINE W == WholeBytes(n)
           lb == [k \in 1..W |-> IF k <= n THEN s[k] ELSE 0]
           rb == [k \in 1..W |-> IF k <= n THEN u[k] ELSE 0]
<1>3. l = [bits |-> lb, length |-> n] /\ r = [bits |-> rb, length |-> n] /\ n = m
  BY <1>1, <1>2 DEF Padded
<1>4. W \in Nat /\ n <= W /\ n \in 1..W
  BY <1>3, WholeBytesAre
<1>5. lb[n] = 0 /\ rb[n] = 1 /\ \A k \in 1..(n - 1) : lb[k] = rb[k]
  <2> HIDE DEF lb, rb
  <2>1. l.bits = lb /\ r.bits = rb /\ l.length = n
    BY <1>3
  <2> QED BY <2>1 DEF Agree
<1>6. \A k \in 1..W : k # n => lb[k] = rb[k]
  <2> SUFFICES ASSUME NEW k \in 1..W, k # n PROVE lb[k] = rb[k]
    OBVIOUS
  <2>1. CASE k <= n
    <3>1. k \in 1..(n - 1)
      BY <1>4, <2>1
    <3> QED BY <1>5, <3>1
  <2>2. CASE ~(k <= n)
    BY <2>2
  <2> QED BY <2>1, <2>2
<1>7. lb = [rb EXCEPT ![n] = 1 - @]
  <2>1. DOMAIN lb = 1..W /\ DOMAIN rb = 1..W
    OBVIOUS
  <2>2. lb = [k \in 1..W |-> lb[k]]
    OBVIOUS
  <2> DEFINE x == [rb EXCEPT ![n] = 1 - @]
  <2> HIDE DEF lb, rb, W
  <2>3. DOMAIN x = 1..W /\ x = [k \in 1..W |-> x[k]]
    BY <2>1
  <2>4. x[n] = 0
    BY <1>4, <1>5, <2>1
  <2>5. \A k \in 1..W : k # n => x[k] = rb[k]
    BY <1>4, <2>1
  <2> HIDE DEF x
  <2>6. \A k \in 1..W : lb[k] = x[k]
    BY <1>5, <1>6, <2>4, <2>5
  <2>7. lb = x
    BY <2>2, <2>3, <2>6
  <2> QED BY <2>7 DEF x
<1> HIDE DEF lb, rb
<1>8. sibling(r) = l
  <2>1. r.length = n /\ n # 0
    BY <1>3
  <2>2. sibling(r) = [r EXCEPT !.bits[n] = 1 - @]
    BY <2>1 DEF sibling
  <2>3. [r EXCEPT !.bits[n] = 1 - @] = [bits |-> [rb EXCEPT ![n] = 1 - rb[n]], length |-> n]
    <3>1. [r EXCEPT !.bits[n] = 1 - @] = [r EXCEPT !.bits = [r.bits EXCEPT ![n] = 1 - r.bits[n]]]
      OBVIOUS
    <3>2. r.bits = rb
      BY <1>3
    <3> DEFINE x == [rb EXCEPT ![n] = 1 - rb[n]]
    <3>3. [r EXCEPT !.bits[n] = 1 - @] = [r EXCEPT !.bits = x]
      BY <3>1, <3>2
    <3> HIDE DEF x
    <3>4. [r EXCEPT !.bits = x] = [bits |-> x, length |-> n]
      BY <1>3
    <3> QED BY <3>3, <3>4 DEF x
  <2> QED BY <1>3, <1>7, <2>2, <2>3
<1>9. get_bit(l, l.length - 1) = 0
  <2>1. l.length \in Nat /\ ~(l.length - 1 >= l.length) /\ (l.length - 1) + 1 = l.length
    BY <1>3
  <2> QED BY <2>1 DEF get_bit
<1> QED BY <1>8, <1>9 DEF AreSiblings

(* The finished subtrees are in order and have no key in common.           *)
Neat(S) ==
  /\ \A q \in 1..Len(S) : Canonical(S[q].id) /\ IsWord(S[q].id)
  /\ \A q, r \in 1..Len(S) : q < r => Less(S[q].id, S[r].id) /\ Disjoint(S[q].id, S[r].id)

(* No two of the first k are waiting to be merged.                         *)
Calm(S, k) == \A q \in 1..Len(S) : q < k => ~AreSiblings(S[q].id, S[q + 1].id)

Together(S) == Len(S) >= 2 /\ AreSiblings(S[Len(S) - 1].id, S[Len(S)].id)

Replaces(R, S) ==
  /\ Len(R) = Len(S) - 1 /\ \A q \in 1..(Len(S) - 2) : R[q] = S[q]
  /\ R[Len(S) - 1].id = prefix(S[Len(S) - 1].id, S[Len(S) - 1].id.length - 1)

LEMMA MergedStack ==
  ASSUME NEW N, NEW K, NEW X, NEW S \in Seq(X), NEW t,
         t = [ok |-> TRUE, nodes |-> N, leaves |-> K, stack |-> S]
  PROVE  /\ ~Together(S) => Merge(t) = t
         /\ Together(S) => Replaces(Merge(t).stack, S)
<1> DEFINE n == Len(S)
           left == S[n - 1]
           right == S[n]
           parent == Len(N) + 1
           hash == shard_node_hash(N[left.node].hash, N[right.node].hash)
           linked == [N EXCEPT ![left.node].parent = parent, ![right.node].parent = parent]
           node == [hash |-> hash, parent |-> 0, children |-> <<left.node, right.node>>]
           id == prefix(left.id, left.id.length - 1)
           e == [id |-> id, node |-> parent]
           M == Append(linked, node)
           R == Append(SubSeq(S, 1, n - 2), e)
<1>1. t.nodes = N /\ t.stack = S
  OBVIOUS
<1>2. n \in Nat
  BY LenProperties
<1>3. Together(S) <=> ~(n < 2 \/ ~AreSiblings(left.id, right.id))
  BY <1>2 DEF Together
<1>4. ASSUME ~Together(S) PROVE Merge(t) = t
  BY <1>1, <1>3, <1>4 DEF Merge
<1>5. ASSUME Together(S) PROVE Replaces(Merge(t).stack, S)
  <2>1. Merge(t) = [t EXCEPT !.nodes = M, !.stack = R]
    BY <1>1, <1>3, <1>5 DEF Merge
  <2>2. Merge(t).stack = R
    <3> HIDE DEF M, R
    <3> QED BY <2>1
  <2>3. e.id = id /\ n >= 2
    BY <1>5 DEF Together
  <2> HIDE DEF e
  <2>4. S \in Seq(X \cup {e}) /\ n - 2 \in 0..n /\ 1 \in 1..(Len(S) + 1)
    BY <1>2, <2>3
  <2> DEFINE T == SubSeq(S, 1, n - 2)
  <2>5. T \in Seq(X \cup {e}) /\ Len(T) = n - 2 /\ \A q \in 1..(n - 2) : T[q] = S[q]
    <3>1. \A i \in 1..(n - 2) : S[i] \in X \cup {e}
      BY <1>2, <2>4, ElementOfSeq
    <3>2. n - 2 \in Int /\ 1 \in Int /\ \A q \in 1..(n - 2) : 1 + q - 1 = q
      BY <1>2
    <3> HIDE DEF n
    <3>3. /\ T \in Seq(X \cup {e}) /\ Len(T) = IF 1 <= n - 2 THEN n - 2 - 1 + 1 ELSE 0
          /\ \A q \in 1..(n - 2 - 1 + 1) : T[q] = S[1 + q - 1]
      BY <2>4, <3>1, <3>2, SubSeqProperties
    <3> QED BY <1>2, <2>3, <3>2, <3>3
  <2> HIDE DEF T
  <2>6. Len(R) = n - 1 /\ R[n - 1] = e /\ \A q \in 1..(n - 2) : R[q] = S[q]
    <3>1. e \in X \cup {e}
      OBVIOUS
    <3>2. Len(Append(T, e)) = n - 1 /\ Append(T, e)[n - 1] = e /\ \A q \in 1..(n - 2) : Append(T, e)[q] = T[q]
      BY <1>2, <2>5, <3>1, AppendProperties
    <3> QED BY <2>5, <3>2 DEF T
  <2> HIDE DEF R
  <2> QED BY <2>2, <2>3, <2>6 DEF Replaces
<1> QED BY <1>4, <1>5

LEMMA MergedIsNeat ==
  ASSUME NEW S, NEW R, Len(S) \in Nat, Together(S), Neat(S), Replaces(R, S)
  PROVE  Neat(R) /\ Len(R) \in Nat \ {0} /\ (Calm(S, Len(S) - 1) => Calm(R, Len(R) - 1))
<1> DEFINE n == Len(S)
           l == S[n - 1].id
           r == S[n].id
           p == R[n - 1].id
           d == l.length
<1>1. n \in Nat /\ n >= 2 /\ n - 1 \in 1..n /\ n \in 1..n /\ AreSiblings(l, r)
  BY DEF Together
<1>2. Len(R) = n - 1 /\ (\A q \in 1..(n - 2) : R[q] = S[q] /\ q \in 1..n) /\ p = prefix(l, d - 1)
  BY <1>1 DEF Replaces
<1>3. Canonical(l) /\ IsWord(l) /\ IsWord(r)
  BY <1>1 DEF Neat
<1>4. d \in Nat /\ d >= 1 /\ d - 1 \in Nat /\ d - 1 <= d
  BY <1>1, <1>3, SiblingWords, WordParts
<1>5. IsWord(p) /\ p.length = d - 1 /\ Agree(p, l, d - 1) /\ Canonical(p)
  <2> HIDE DEF l, p
  <2> QED BY <1>2, <1>3, <1>4, PrefixWord, PrefixCanonical
<1>6. \A key \in Keys : InShard(p, key) => InShard(l, key) \/ InShard(r, key)
  BY <1>1, <1>2, <1>3, KeyBelow
<1>7. ASSUME NEW q \in 1..(n - 2) PROVE Less(S[q].id, p) /\ Disjoint(S[q].id, p)
  <2> DEFINE a == S[q].id
  <2>1. q \in 1..n /\ q < n - 1 /\ q < n
    BY <1>1
  <2>2. Less(a, l) /\ Disjoint(a, l) /\ Disjoint(a, r) /\ IsWord(a)
    BY <1>1, <2>1 DEF Neat
  <2>3. Disjoint(a, p)
    BY <1>6, <2>2 DEF Disjoint
  <2> HIDE DEF a, l, p
  <2>4. p.length <= l.length /\ Agree(p, l, p.length)
    BY <1>4, <1>5
  <2>5. Less(a, p)
    BY <1>3, <1>5, <2>2, <2>3, <2>4, PrefixOrder
  <2> QED BY <2>3, <2>5 DEF a
<1> HIDE DEF p
<1>8. \A q \in 1..(n - 1) : q = n - 1 \/ q \in 1..(n - 2)
  BY <1>1
<1>9. ASSUME NEW q \in 1..(n - 1) PROVE Canonical(R[q].id) /\ IsWord(R[q].id)
  <2>1. CASE q = n - 1
    BY <1>5, <2>1 DEF p
  <2>2. CASE q \in 1..(n - 2)
    BY <1>2, <2>2 DEF Neat
  <2> QED BY <1>8, <2>1, <2>2
<1>10. ASSUME NEW q \in 1..(n - 1), NEW x \in 1..(n - 1), q < x
       PROVE  Less(R[q].id, R[x].id) /\ Disjoint(R[q].id, R[x].id)
  <2>1. q \in 1..(n - 2)
    BY <1>1, <1>10
  <2>2. CASE x = n - 1
    BY <1>2, <1>7, <2>1, <2>2 DEF p
  <2>3. CASE x \in 1..(n - 2)
    BY <1>2, <1>10, <2>1, <2>3 DEF Neat
  <2> QED BY <1>8, <2>2, <2>3
<1>11. ASSUME Calm(S, n - 1) PROVE Calm(R, Len(R) - 1)
  <2> SUFFICES ASSUME NEW q \in 1..Len(R), q < Len(R) - 1 PROVE ~AreSiblings(R[q].id, R[q + 1].id)
    BY DEF Calm
  <2>1. q \in 1..(n - 2) /\ q + 1 \in 1..(n - 2) /\ q < n - 1
    BY <1>1, <1>2
  <2>2. R[q] = S[q] /\ R[q + 1] = S[q + 1] /\ q \in 1..n
    BY <1>2, <2>1
  <2> QED BY <1>11, <2>1, <2>2 DEF Calm
<1> QED BY <1>1, <1>2, <1>9, <1>10, <1>11 DEF Neat

(* Merging ends when there is nothing to merge.                            *)
LEMMA CollapseSettles ==
  ASSUME NEW t, NEW L, NEW m \in Nat, \A i \in 1..m : IsWord(L[i].shard_id), Passing(t, L, m),
         Neat(t.stack), Len(t.stack) # 0, Calm(t.stack, Len(t.stack) - 1)
  PROVE  LET S == Collapse(t).stack IN Neat(S) /\ Len(S) \in Nat \ {0} /\ Calm(S, Len(S))
<1> DEFINE n == Len(t.stack)
<1>1. n \in Nat
  BY DEF Passing, Stacked
<1>2. PICK f : /\ f[0] = t /\ Collapse(t) = f[n]
               /\ \A i \in 1..n : f[i] = Merge(f[i - 1])
  <2>1. n = Len(t.stack)
    OBVIOUS
  <2> HIDE DEF n
  <2> QED BY ONLY <1>1, <2>1, CollapseSteps
<1> DEFINE St(i) == f[i].stack
           Done(i) == Calm(St(i), Len(St(i)))
           T == {i \in 0..n : /\ Passing(f[i], L, m) /\ Neat(St(i)) /\ Len(St(i)) \in Nat \ {0}
                              /\ Calm(St(i), Len(St(i)) - 1)
                              /\ Done(i) \/ Len(St(i)) <= n - i}
<1>3. 0 \in T
  <2>1. St(0) = t.stack
    BY <1>2
  <2>2. Len(St(0)) <= n - 0
    BY <1>1, <2>1
  <2> QED BY <1>1, <1>2, <2>1, <2>2
<1> HIDE DEF n
<1>4. ASSUME NEW i \in 1..n, i - 1 \in T PROVE i \in T
  <2> DEFINE g == f[i - 1]
             S == g.stack
             R == f[i].stack
  <2>1. /\ Passing(g, L, m) /\ Neat(S) /\ Len(S) \in Nat \ {0} /\ Calm(S, Len(S) - 1)
        /\ Calm(S, Len(S)) \/ Len(S) <= n - (i - 1)
    BY <1>4
  <2>2. f[i] = Merge(g)
    BY <1>2
  <2>3. PICK N, K, Q : /\ g = [ok |-> TRUE, nodes |-> N, leaves |-> K, stack |-> Q] /\ Stacked(Q, N, L, m)
    BY <2>1 DEF Passing
  <2>4. Q = S /\ \E X : S \in Seq(X)
    BY <2>3 DEF Stacked
  <2>5. PICK X : S \in Seq(X)
    BY <2>4
  <2>6. /\ ~Together(S) => Merge(g) = g
        /\ Together(S) => Replaces(Merge(g).stack, S)
    <3> HIDE DEF S, g
    <3> QED BY <2>3, <2>4, <2>5, MergedStack
  <2>7. Passing(f[i], L, m)
    BY <2>1, <2>2, MergeKeeps
  <2>8. CASE ~Together(S)
    <3>1. f[i] = g
      BY <2>2, <2>6, <2>8
    <3>2. R = S
      BY <3>1
    <3> HIDE DEF S
    <3>3. Calm(S, Len(S))
      <4> SUFFICES ASSUME NEW q \in 1..Len(S), q < Len(S), AreSiblings(S[q].id, S[q + 1].id) PROVE FALSE
        BY DEF Calm
      <4>1. q < Len(S) - 1 \/ (q = Len(S) - 1 /\ q + 1 = Len(S) /\ Len(S) >= 2)
        BY <2>1
      <4> QED BY <2>1, <2>8, <4>1 DEF Calm, Together
    <3> HIDE DEF R
    <3>4. Neat(R) /\ Len(R) \in Nat \ {0} /\ Calm(R, Len(R) - 1) /\ Calm(R, Len(R))
      BY <2>1, <3>2, <3>3
    <3> QED BY <2>7, <3>4 DEF R
  <2>9. CASE Together(S)
    <3>1. Replaces(R, S)
      BY <2>2, <2>6, <2>9
    <3> HIDE DEF R, S
    <3>2. Neat(R) /\ Len(R) \in Nat \ {0} /\ Calm(R, Len(R) - 1)
      BY <2>1, <2>9, <3>1, MergedIsNeat
    <3>3. Len(S) <= n - (i - 1)
      <4>1. ~Calm(S, Len(S))
        <5> DEFINE q == Len(S) - 1
        <5>1. q \in 1..Len(S) /\ q < Len(S) /\ q + 1 = Len(S)
          BY <2>1, <2>9 DEF Together
        <5>2. AreSiblings(S[q].id, S[q + 1].id)
          BY <2>9, <5>1 DEF Together
        <5> HIDE DEF q
        <5> QED BY <5>1, <5>2 DEF Calm
      <4> QED BY <2>1, <4>1
    <3>4. Len(R) <= n - i
      BY <1>1, <2>1, <3>1, <3>3 DEF Replaces
    <3> QED BY <2>7, <3>2, <3>4 DEF R
  <2> QED BY <2>8, <2>9
<1>5. 0..n \subseteq T
  <2> HIDE DEF T
  <2> QED BY <1>1, <1>3, <1>4, UpTo
<1>6. n \in T
  BY <1>1, <1>5
<1>7. ~(Len(St(n)) <= n - n)
  <2>1. Len(St(n)) \in Nat \ {0}
    BY <1>6
  <2> HIDE DEF St
  <2> QED BY <1>1, <2>1
<1> QED BY <1>2, <1>6, <1>7

LEMMA LessIsCompared ==
  ASSUME NEW a, NEW b, IsString(a), IsString(b), Less(a, b)
  PROVE  canonical_cmp(a, b) = -1
<1>1. ~Same(a, b)
  BY LessIrreflexive
<1>2. ~Less(b, a)
  <2> SUFFICES ASSUME Less(b, a) PROVE FALSE
    OBVIOUS
  <2>1. Less(a, a)
    BY LessTransitive
  <2>2. ~Same(a, a)
    BY <2>1, LessIrreflexive
  <2> QED BY <2>2 DEF Same, Agree
<1> QED BY <1>1, <1>2, ComparedIs

(* Shards in order without a common key.                                   *)
Sorted(L, m) ==
  /\ \A i \in 1..m : Canonical(L[i].shard_id) /\ IsWord(L[i].shard_id)
  /\ \A i, j \in 1..m : i < j => Less(L[i].shard_id, L[j].shard_id) /\ Disjoint(L[i].shard_id, L[j].shard_id)

LEMMA PushedIsNeat ==
  ASSUME NEW N, NEW K, NEW S, NEW L, NEW m \in Nat, Sorted(L, m + 1), Stacked(S, N, L, m), Neat(S),
         Calm(S, Len(S)), NEW e, e.id = L[m + 1].shard_id
  PROVE  LET R == Append(S, e) IN Neat(R) /\ Len(R) \in Nat \ {0} /\ Calm(R, Len(R) - 1)
<1> DEFINE R == Append(S, e)
           n == Len(S)
           id == L[m + 1].shard_id
<1>1. /\ n \in Nat /\ Len(R) = n + 1 /\ R[n + 1] = e /\ \A i \in 1..n : R[i] = S[i]
  <2>1. PICK X : S \in Seq(X)
    BY DEF Stacked
  <2> DEFINE Y == X \cup {e}
  <2>2. S \in Seq(Y) /\ e \in Y
    BY <2>1
  <2> HIDE DEF Y
  <2> QED BY <2>2, AppendProperties, LenProperties
<1> HIDE DEF R
<1>2. Canonical(id) /\ IsWord(id) /\ m + 1 \in 1..(m + 1)
  BY DEF Sorted
<1>3. \A i \in 1..m : /\ i \in 1..(m + 1) /\ IsWord(L[i].shard_id) /\ Less(L[i].shard_id, id)
                      /\ Disjoint(L[i].shard_id, id)
  BY <1>2 DEF Sorted
<1>4. ASSUME NEW q \in 1..n PROVE Less(S[q].id, id) /\ Disjoint(S[q].id, id)
  <2> DEFINE p == S[q].id
  <2>1. IsWord(p) /\ Filled(S[q], L, m)
    BY DEF Neat, Stacked
  <2>2. \A key \in Keys : InShard(p, key) => \E i \in 1..m : InShard(L[i].shard_id, key)
    BY <2>1 DEF Filled
  <2>3. Disjoint(p, id)
    BY <1>3, <2>2 DEF Disjoint
  <2>4. PICK key \in Keys : InShard(p, key)
    BY <2>1, KeyIn
  <2>5. PICK i \in 1..m : InShard(L[i].shard_id, key)
    BY <2>2, <2>4
  <2>6. PICK g \in 1..n : Below(L[i], S[g], N)
    BY DEF Stacked
  <2> DEFINE b == L[i].shard_id
             c == S[g].id
  <2>7. IsWord(b) /\ IsWord(c) /\ c.length <= b.length /\ Agree(c, b, c.length) /\ InShard(b, key)
    BY <1>3, <2>5, <2>6 DEF Below, Neat, Agree
  <2>8. InShard(c, key)
    <3> HIDE DEF b, c
    <3> QED BY <2>7, PrefixHas
  <2>9. g = q
    <3>1. ~(g < q) /\ ~(q < g)
      BY <2>4, <2>8 DEF Neat, Disjoint
    <3> QED BY <1>1, <3>1
  <2>10. c = p /\ Less(b, id) /\ Disjoint(id, p)
    BY <1>3, <2>3, <2>9 DEF Disjoint
  <2> HIDE DEF b, c, p, id
  <2>11. Less(p, id)
    BY <1>2, <2>7, <2>10, PrefixOrder
  <2> QED BY <2>3, <2>11 DEF p
<1>5. \A q \in 1..(n + 1) : q = n + 1 \/ q \in 1..n
  BY <1>1
<1>6. ASSUME NEW q \in 1..(n + 1) PROVE Canonical(R[q].id) /\ IsWord(R[q].id)
  <2>1. CASE q = n + 1
    BY <1>1, <1>2, <2>1
  <2>2. CASE q \in 1..n
    BY <1>1, <2>2 DEF Neat
  <2> QED BY <1>5, <2>1, <2>2
<1>7. ASSUME NEW q \in 1..(n + 1), NEW x \in 1..(n + 1), q < x
      PROVE  Less(R[q].id, R[x].id) /\ Disjoint(R[q].id, R[x].id)
  <2>1. q \in 1..n
    BY <1>1, <1>7
  <2>2. CASE x = n + 1
    BY <1>1, <1>4, <2>1, <2>2
  <2>3. CASE x \in 1..n
    BY <1>1, <1>7, <2>1, <2>3 DEF Neat
  <2> QED BY <1>5, <2>2, <2>3
<1>8. Neat(R)
  BY <1>1, <1>6, <1>7 DEF Neat
<1>9. Calm(R, Len(R) - 1)
  <2> SUFFICES ASSUME NEW q \in 1..Len(R), q < Len(R) - 1 PROVE ~AreSiblings(R[q].id, R[q + 1].id)
    BY DEF Calm
  <2>1. q \in 1..n /\ q + 1 \in 1..n /\ q < n
    BY <1>1
  <2> QED BY <1>1, <2>1 DEF Calm
<1> QED BY <1>1, <1>8, <1>9 DEF R

Settled(t, L, m) ==
  Passing(t, L, m) /\ Neat(t.stack) /\ Calm(t.stack, Len(t.stack))

LEMMA PushSettles ==
  ASSUME NEW t, NEW L, NEW m \in Nat, Sorted(L, m + 1), Settled(t, L, m)
  PROVE  LET u == PushLeaf(t, L[m + 1]) IN Settled(u, L, m + 1) /\ Len(u.stack) \in Nat \ {0}
<1>1. PICK N, K, S : /\ t = [ok |-> TRUE, nodes |-> N, leaves |-> K, stack |-> S]
                     /\ Arena(N) /\ Stacked(S, N, L, m) /\ Listed(K, L, m)
  BY DEF Settled, Passing
<1>2. t.stack = S /\ Neat(S) /\ Calm(S, Len(S))
  BY <1>1 DEF Settled
<1> DEFINE leaf == L[m + 1]
           e == [id |-> leaf.shard_id, node |-> Len(N) + 1]
           u == Pushed(N, K, S, leaf)
<1>3. \A i \in 1..(m + 1) : IsWord(L[i].shard_id) /\ IsString(L[i].shard_id)
  BY WordParts DEF Sorted
<1>4. m # 0 => Less(L[m].shard_id, leaf.shard_id) /\ canonical_cmp(L[m].shard_id, leaf.shard_id) = -1
  <2> SUFFICES ASSUME m # 0 PROVE Less(L[m].shard_id, leaf.shard_id) /\ canonical_cmp(L[m].shard_id, leaf.shard_id) = -1
    OBVIOUS
  <2>1. m \in 1..(m + 1) /\ m + 1 \in 1..(m + 1) /\ m < m + 1
    OBVIOUS
  <2>2. Less(L[m].shard_id, leaf.shard_id)
    BY <2>1 DEF Sorted
  <2> QED BY <1>3, <2>1, <2>2, LessIsCompared
<1>5. ~(K # <<>> /\ canonical_cmp(Last(K).id, leaf.shard_id) >= 0)
  <2>1. PICK X : K \in Seq(X)
    BY <1>1 DEF Listed
  <2>2. Len(K) = m /\ (m # 0 => K[m].id = L[m].shard_id)
    BY <1>1 DEF Listed
  <2>3. m = 0 => K = <<>>
    BY <2>1, <2>2
  <2>4. Last(K) = K[m]
    BY <2>2 DEF Last
  <2> QED BY <1>4, <2>2, <2>3, <2>4
<1>6. PushLeaf(t, leaf) = Collapse(u)
  BY <1>1, <1>5, PushIs DEF PassIs
<1>7. Passing(u, L, m + 1)
  <2> DEFINE node == [hash |-> leaf.hash, parent |-> 0, children |-> <<>>]
  <2>1. /\ Arena(Append(N, node)) /\ Stacked(Append(S, e), Append(N, node), L, m + 1)
        /\ Listed(Append(K, e), L, m + 1)
    BY <1>1, <1>3, <1>4, EntryPushed
  <2> QED BY <2>1 DEF Passing, Pushed
<1>8. u.stack = Append(S, e) /\ e.id = L[m + 1].shard_id
  BY DEF Pushed
<1> HIDE DEF e, u
<1>9. Neat(u.stack) /\ Len(u.stack) \in Nat \ {0} /\ Calm(u.stack, Len(u.stack) - 1)
  BY <1>1, <1>2, <1>8, PushedIsNeat
<1>10. LET R == Collapse(u).stack IN Neat(R) /\ Len(R) \in Nat \ {0} /\ Calm(R, Len(R))
  BY <1>3, <1>7, <1>9, CollapseSettles
<1>11. Passing(Collapse(u), L, m + 1)
  BY <1>3, <1>7, CollapseKeeps
<1> QED BY <1>6, <1>10, <1>11 DEF Settled

(* The two halves of a region.                                             *)
Halves(l, r, d) ==
  l.length = d /\ r.length = d /\ Agree(l, r, d - 1) /\ l.bits[d] = 0 /\ r.bits[d] = 1

(* In order, siblings are neighbours.                                      *)
LEMMA SiblingsMeet ==
  ASSUME NEW R, NEW n \in Nat, n = Len(R), Neat(R), NEW x \in 1..n, NEW y \in 1..n,
         NEW d \in Nat \ {0}, Halves(R[x].id, R[y].id, d)
  PROVE  y = x + 1
<1> DEFINE l == R[x].id
           r == R[y].id
<1>1. IsWord(l) /\ IsWord(r) /\ IsString(l) /\ IsString(r)
  BY WordParts DEF Neat
<1>2. (\A j \in 1..(d - 1) : l.bits[j] = r.bits[j]) /\ l.length = d /\ r.length = d /\ l.bits[d] = 0 /\ r.bits[d] = 1
  BY DEF Agree, Halves
<1>3. \A q, z \in 1..n : q < z => Less(R[q].id, R[z].id) /\ Disjoint(R[q].id, R[z].id)
  BY DEF Neat
<1>4. \A q \in 1..n : IsWord(R[q].id) /\ IsString(R[q].id) /\ R[q].id.length \in Nat
  BY WordParts DEF Neat
<1>5. x < y
  <2>1. x # y
    BY <1>2
  <2>2. ~(y < x)
    <3> SUFFICES ASSUME y < x PROVE FALSE
      OBVIOUS
    <3>1. Less(r, l)
      BY <1>3
    <3>2. PICK k \in Nat : LessAt(r, l, k)
      BY <3>1 DEF Less
    <3>3. /\ k \in 0..d /\ k < d /\ (\A j \in 1..k : r.bits[j] = l.bits[j])
          /\ k = d \/ r.bits[k + 1] < l.bits[k + 1]
      BY <1>2, <3>2 DEF LessAt, Agree
    <3>4. CASE k + 1 = d
      BY <1>2, <3>3, <3>4
    <3>5. CASE k + 1 # d
      <4>1. k + 1 \in 1..(d - 1) /\ k + 1 \in 1..l.length
        BY <1>2, <3>3, <3>5
      <4>2. l.bits[k + 1] = r.bits[k + 1] /\ l.bits[k + 1] \in {0, 1}
        BY <1>1, <1>2, <4>1 DEF IsString
      <4> QED BY <3>3, <4>2
    <3> QED BY <3>4, <3>5
  <2> QED BY <2>1, <2>2
<1>6. ASSUME x + 1 < y PROVE FALSE
  <2> DEFINE c == R[x + 1].id
  <2>1. x + 1 \in 1..n /\ x < x + 1
    BY <1>6
  <2>2. Less(l, c) /\ Disjoint(l, c) /\ Less(c, r) /\ Disjoint(c, r) /\ IsWord(c) /\ IsString(c) /\ c.length \in Nat
    BY <1>3, <1>4, <1>6, <2>1
  <2>3. Disjoint(r, c)
    BY <2>2 DEF Disjoint
  <2>4. PICK k \in Nat : LessAt(l, c, k)
    BY <2>2 DEF Less
  <2> HIDE DEF l, r, c
  <2>5. /\ k \in 0..d /\ k < c.length /\ (\A j \in 1..k : l.bits[j] = c.bits[j])
        /\ k = d \/ l.bits[k + 1] < c.bits[k + 1]
    BY <1>2, <2>4 DEF LessAt, Agree
  <2>6. k # d
    <3> SUFFICES ASSUME k = d PROVE FALSE
      OBVIOUS
    <3>1. l.length <= c.length /\ Agree(l, c, l.length)
      BY <1>2, <2>2, <2>5 DEF Agree
    <3> QED BY <1>1, <2>2, <3>1, DisjointPrefix
  <2>7. k + 1 \in 1..d /\ k + 1 \in 1..c.length
    BY <2>2, <2>5, <2>6
  <2>8. l.bits[k + 1] = 0 /\ c.bits[k + 1] = 1
    <3>1. l.bits[k + 1] \in {0, 1} /\ c.bits[k + 1] \in {0, 1}
      BY <1>1, <1>2, <2>2, <2>7 DEF IsString
    <3> QED BY <2>5, <2>6, <3>1
  <2>9. \A j \in 1..k : j \in 1..(d - 1) /\ r.bits[j] = c.bits[j]
    BY <1>2, <2>5, <2>7
  <2>10. CASE k + 1 = d
    <3>1. r.length <= c.length
      BY <1>2, <2>7, <2>10
    <3>2. \A j \in 1..d : j \in 1..k \/ j = d
      BY <2>10
    <3>3. Agree(r, c, r.length)
      BY <1>2, <2>8, <2>9, <2>10, <3>2 DEF Agree
    <3> QED BY <1>1, <2>2, <2>3, <3>1, <3>3, DisjointPrefix
  <2>11. CASE k + 1 # d
    <3>1. k + 1 \in 1..(d - 1) /\ r.bits[k + 1] = 0
      BY <1>2, <2>7, <2>8, <2>11
    <3>2. LessAt(r, c, k)
      BY <1>2, <2>5, <2>8, <2>9, <3>1 DEF LessAt, Agree
    <3>3. Less(r, c)
      BY <3>2 DEF Less
    <3>4. Less(r, r)
      BY <1>1, <2>2, <3>3, LessTransitive
    <3>5. ~Same(r, r)
      BY <1>1, <3>4, LessIrreflexive
    <3> QED BY <3>5 DEF Same, Agree
  <2> QED BY <2>10, <2>11
<1> QED BY <1>5, <1>6

(* Subtrees that leave no key out and cannot be merged are one tree.       *)
LEMMA OnlyTheRoot ==
  ASSUME NEW R, NEW n \in Nat \ {0}, n = Len(R), Neat(R), Calm(R, n),
         \A key \in Keys : \E q \in 1..n : InShard(R[q].id, key)
  PROVE  n = 1 /\ R[1].id.length = 0
<1> DEFINE T == {k \in 1..KeyBits : \E q \in 1..n : R[q].id.length = k}
<1>1. n \in Nat /\ KeyBits \in Nat
  BY RadixAssumption
<1>2. \A q \in 1..n : /\ Canonical(R[q].id) /\ IsWord(R[q].id) /\ R[q].id.length \in Nat /\ R[q].id.length <= KeyBits
                      /\ \A i \in 1..R[q].id.length : R[q].id.bits[i] \in {0, 1}
  BY WordParts DEF Neat
<1>3. \A q, z \in 1..n : q # z => Disjoint(R[q].id, R[z].id)
  <2>1. \A q, z \in 1..n : q # z => q < z \/ z < q
    OBVIOUS
  <2>2. \A a, b : Disjoint(a, b) => Disjoint(b, a)
    BY DEF Disjoint
  <2> QED BY <2>1, <2>2 DEF Neat
<1>4. CASE T = {}
  <2>1. \A q \in 1..n : R[q].id.length = 0
    <3> SUFFICES ASSUME NEW q \in 1..n, R[q].id.length # 0 PROVE FALSE
      OBVIOUS
    <3>1. R[q].id.length \in 1..KeyBits
      BY <1>1, <1>2
    <3> QED BY <1>4, <3>1
  <2>2. ASSUME n # 1 PROVE FALSE
    <3>1. 1 \in 1..n /\ 2 \in 1..n
      <4> HIDE DEF T
      <4> QED BY <2>2
    <3>2. PICK key \in Keys : InShard(R[1].id, key)
      BY <1>2, <3>1, KeyIn
    <3>3. InShard(R[2].id, key)
      BY <2>1, <3>1 DEF InShard
    <3>4. Disjoint(R[1].id, R[2].id)
      BY <1>3, <3>1
    <3> QED BY <3>2, <3>3, <3>4 DEF Disjoint
  <2>3. 1 \in 1..n
    BY <1>1
  <2> QED BY <2>1, <2>2, <2>3
<1>5. CASE T # {}
  <2>1. PICK d \in T : \A k \in T : k <= d
    <3>1. T \subseteq 1..KeyBits
      OBVIOUS
    <3> HIDE DEF T
    <3> QED BY <1>1, <1>5, <3>1, Greatest
  <2>2. d \in 1..KeyBits /\ d \in Nat \ {0} /\ \E q \in 1..n : R[q].id.length = d
    BY <1>1
  <2>3. PICK q \in 1..n : R[q].id.length = d
    BY <2>2
  <2>4. \A z \in 1..n : R[z].id.length <= d
    <3> SUFFICES ASSUME NEW z \in 1..n PROVE R[z].id.length <= d
      OBVIOUS
    <3>1. R[z].id.length = 0 \/ R[z].id.length \in 1..KeyBits
      BY <1>1, <1>2
    <3>2. R[z].id.length \in 1..KeyBits => R[z].id.length \in T
      OBVIOUS
    <3> HIDE DEF T
    <3>3. CASE R[z].id.length = 0
      BY <2>2, <3>3
    <3>4. CASE R[z].id.length \in 1..KeyBits
      BY <2>1, <3>2, <3>4
    <3> QED BY <3>1, <3>3, <3>4
  <2> HIDE DEF T
  <2> DEFINE a == R[q].id
             b == 1 - a.bits[d]
  <2>5. a.bits[d] \in {0, 1} /\ b \in {0, 1} /\ b # a.bits[d] /\ IsWord(a) /\ a.length = d /\ Canonical(a)
    BY <1>2, <2>2, <2>3
  <2>6. PICK key \in Keys : StartsWith(key, a, d - 1) /\ key[(d - 1) + 1] = b
    <3>1. d - 1 \in Nat /\ d - 1 < a.length
      BY <2>2, <2>5
    <3> HIDE DEF a, b
    <3> QED BY <2>5, <3>1, NextBit
  <2>7. key[d] = b /\ \A j \in 1..(d - 1) : key[j] = a.bits[j]
    BY <2>2, <2>6 DEF StartsWith
  <2>8. PICK g \in 1..n : InShard(R[g].id, key)
    BY <1>1
  <2> DEFINE c == R[g].id
  <2>9. IsWord(c) /\ Canonical(c) /\ c.length \in Nat /\ c.length <= d
    BY <1>2, <2>4
  <2>10. \A j \in 1..c.length : c.bits[j] = key[j]
    BY <2>8, <2>9, InShardIs
  <2>11. c.length = d
    <3> SUFFICES ASSUME c.length < d PROVE FALSE
      BY <2>2, <2>9
    <3>1. g # q
      BY <2>2, <2>3, <2>9
    <3>2. Disjoint(c, a)
      BY <1>3, <3>1
    <3>3. \A j \in 1..c.length : j \in 1..(d - 1)
      BY <2>2, <2>9
    <3>4. Agree(c, a, c.length) /\ c.length <= a.length
      BY <2>5, <2>7, <2>9, <2>10, <3>3 DEF Agree
    <3> HIDE DEF a, c
    <3> QED BY <2>5, <2>9, <3>2, <3>4, DisjointPrefix
  <2>12. c.bits[d] = b /\ \A j \in 1..(d - 1) : c.bits[j] = a.bits[j]
    BY <2>2, <2>7, <2>10, <2>11
  <2>13. Agree(a, c, d - 1) /\ Agree(c, a, d - 1)
    BY <2>12 DEF Agree
  <2>14. ASSUME NEW x \in 1..n, NEW y \in 1..n, Halves(R[x].id, R[y].id, d) PROVE FALSE
    <3>1. y = x + 1
      <4> HIDE DEF a, b, c
      <4> QED BY <2>2, <2>14, SiblingsMeet
    <3>2. AreSiblings(R[x].id, R[y].id)
      <4> DEFINE l == R[x].id
                 r == R[y].id
      <4>1. Canonical(l) /\ Canonical(r) /\ l.length = r.length /\ l.length >= 1 /\ l.length = d
        BY <1>2, <2>2, <2>14 DEF Halves
      <4>2. l.bits[l.length] = 0 /\ r.bits[l.length] = 1 /\ Agree(l, r, l.length - 1)
        BY <2>14 DEF Halves
      <4> HIDE DEF l, r
      <4>3. AreSiblings(l, r)
        BY <4>1, <4>2, CanonicalSiblings
      <4> QED BY <4>3 DEF l, r
    <3>3. x < n
      BY <1>1, <3>1
    <3> QED BY <3>1, <3>2, <3>3 DEF Calm
  <2>15. CASE a.bits[d] = 0
    <3>1. Halves(R[q].id, R[g].id, d)
      BY <2>5, <2>11, <2>12, <2>13, <2>15 DEF Halves
    <3> QED BY <2>14, <3>1
  <2>16. CASE a.bits[d] = 1
    <3>1. Halves(R[g].id, R[q].id, d)
      BY <2>5, <2>11, <2>12, <2>13, <2>16 DEF Halves
    <3> QED BY <2>14, <3>1
  <2> QED BY <2>5, <2>15, <2>16
<1> QED BY <1>4, <1>5

(* The pass over shards that tile ends with one tree.                      *)
LEMMA BuildSucceeds ==
  ASSUME NEW L, NEW n \in Nat \ {0}, n = Len(L), Sorted(L, n),
         \A key \in Keys : \E i \in 1..n : InShard(L[i].shard_id, key)
  PROVE  build(L).ok
<1>1. PICK f : /\ f[0] = [ok |-> TRUE, nodes |-> <<>>, leaves |-> <<>>, stack |-> <<>>]
               /\ \A i \in 1..n : f[i] = PushLeaf(f[i - 1], L[i])
               /\ build(L) = IF f[n].ok /\ Len(f[n].stack) = 1 /\ f[n].stack[1].id.length = 0
                             THEN Ok([nodes |-> f[n].nodes, leaves |-> f[n].leaves,
                                      root |-> f[n].stack[1].node])
                             ELSE Err("shards do not make a tree")
  BY BuildSteps
<1> DEFINE T == {i \in 0..n : Settled(f[i], L, i) /\ (i # 0 => Len(f[i].stack) \in Nat \ {0})}
<1>2. 0 \in T
  <2>1. Passing(f[0], L, 0)
    BY <1>1, NothingPassed
  <2>2. f[0].stack = <<>> /\ Len(<<>>) = 0
    <3> DEFINE e == <<>>
               b == TRUE
    <3>1. f[0] = [ok |-> b, nodes |-> e, leaves |-> e, stack |-> e] /\ Len(e) = 0
      BY <1>1
    <3> HIDE DEF e, b
    <3> QED BY <3>1 DEF e
  <2>3. Neat(<<>>) /\ Calm(<<>>, Len(<<>>))
    BY <2>2 DEF Neat, Calm
  <2> QED BY <2>1, <2>2, <2>3 DEF Settled
<1>3. ASSUME NEW i \in 1..n, i - 1 \in T PROVE i \in T
  <2> DEFINE m == i - 1
  <2>1. Settled(f[m], L, m) /\ m \in Nat /\ m + 1 = i /\ i \in 0..n
    BY <1>3
  <2>2. f[i] = PushLeaf(f[m], L[m + 1])
    BY <1>1, <2>1
  <2> HIDE DEF m
  <2>3. Sorted(L, m + 1)
    <3>1. \A k \in 1..(m + 1) : k \in 1..n
      BY <2>1
    <3> QED BY <3>1 DEF Sorted
  <2>4. LET u == PushLeaf(f[m], L[m + 1]) IN Settled(u, L, m + 1) /\ Len(u.stack) \in Nat \ {0}
    BY <2>1, <2>3, PushSettles
  <2> QED BY <2>1, <2>2, <2>4
<1>4. 0..n \subseteq T
  <2> HIDE DEF T
  <2> QED BY <1>2, <1>3, UpTo
<1>5. Settled(f[n], L, n) /\ Len(f[n].stack) \in Nat \ {0}
  <2>1. n \in T
    BY <1>4
  <2> QED BY <2>1
<1>6. PICK N, K, R : /\ f[n] = [ok |-> TRUE, nodes |-> N, leaves |-> K, stack |-> R]
                     /\ Stacked(R, N, L, n)
  BY <1>5 DEF Settled, Passing
<1>7. f[n].ok /\ f[n].stack = R /\ Neat(R) /\ Calm(R, Len(R)) /\ Len(R) \in Nat \ {0}
  BY <1>5, <1>6 DEF Settled
<1>8. ASSUME NEW key \in Keys PROVE \E q \in 1..Len(R) : InShard(R[q].id, key)
  <2>1. PICK i \in 1..n : InShard(L[i].shard_id, key)
    OBVIOUS
  <2>2. PICK q \in 1..Len(R) : Below(L[i], R[q], N)
    BY <1>6 DEF Stacked
  <2> DEFINE b == L[i].shard_id
             c == R[q].id
  <2>3. IsWord(b) /\ IsWord(c) /\ c.length <= b.length /\ Agree(c, b, c.length) /\ InShard(b, key)
    BY <1>7, <2>1, <2>2 DEF Below, Neat, Sorted, Agree
  <2> HIDE DEF b, c
  <2>4. InShard(c, key)
    BY <2>3, PrefixHas
  <2> QED BY <2>4 DEF c
<1>9. Len(R) = 1 /\ R[1].id.length = 0
  BY <1>7, <1>8, OnlyTheRoot
<1>10. \A x : Ok(x).ok
  BY DEF Ok
<1> QED BY <1>1, <1>7, <1>9, <1>10

LEMMA RootCovers ==
  Canonical(root) /\ IsWord(root) /\ \A key : InShard(root, key)
<1>1. root.length = 0 /\ root.bits = <<>>
  BY DEF root
<1>2. Canonical(root)
  <2>1. WholeBytes(0) = 0
    BY ByteAssumption DEF WholeBytes
  <2> DEFINE s == <<>>
             b == Padded(s, 0).bits
  <2>2. s \in Seq({0, 1}) /\ 0 <= Len(s)
    OBVIOUS
  <2>3. b = <<>>
    <3>1. b \in Seq({0, 1})
      BY <2>2, CanonicalParts
    <3>2. DOMAIN b = 1..0
      BY <2>1 DEF Padded
    <3> HIDE DEF b
    <3> QED BY <3>1, <3>2
  <2>4. root = Padded(s, 0)
    BY <2>3, <2>1 DEF root, Padded
  <2> HIDE DEF s
  <2> QED BY <2>2, <2>4 DEF Canonical
<1>3. root.length <= KeyBits
  BY <1>1, RadixAssumption
<1>4. IsWord(root)
  BY <1>2, <1>3, CanonicalIsWord
<1>5. \A key : InShard(root, key)
  BY <1>1 DEF InShard
<1> QED BY <1>2, <1>4, <1>5

(* Every key is routed to its shard, and the shards make one tree.         *)
Serves(s) ==
  /\ \A k \in Keys : InShard(s[route_index(s, k)], k)
  /\ build([i \in DOMAIN s |-> [shard_id |-> s[i], hash |-> <<"shard", i>>]]).ok

IsOrder(s, n) ==
  /\ n \in Nat \ {0} /\ n = Len(s) /\ DOMAIN s = 1..n
  /\ Words(s, n) /\ Increasing(s, n) /\ Apart(s, n) /\ Complete(s, n)

LEMMA OrderServes ==
  ASSUME NEW X, NEW s \in Seq(X), NEW n \in Nat \ {0}, n = Len(s), Words(s, n), Increasing(s, n),
         Apart(s, n), Complete(s, n)
  PROVE  Serves(s)
<1>1. DOMAIN s = 1..n
  OBVIOUS
<1>2. \A k \in Keys : InShard(s[route_index(s, k)], k)
  BY <1>1, RouteFinds
<1> DEFINE h(i) == <<"shard", i>>
           L == [i \in 1..n |-> [shard_id |-> s[i], hash |-> h(i)]]
<1> HIDE DEF h
<1>3. \A i \in 1..n : L[i].shard_id = s[i]
  OBVIOUS
<1>4. Len(L) = n
  <2>1. L \in Seq({L[i] : i \in 1..n}) /\ DOMAIN L = 1..n
    OBVIOUS
  <2> QED BY <2>1
<1>5. L = [i \in DOMAIN s |-> [shard_id |-> s[i], hash |-> <<"shard", i>>]]
  BY <1>1 DEF h
<1> HIDE DEF L
<1>6. Sorted(L, n)
  <2>1. \A i \in 1..n : Canonical(L[i].shard_id) /\ IsWord(L[i].shard_id)
    BY <1>3 DEF Words
  <2>2. ASSUME NEW i \in 1..n, NEW j \in 1..n, i < j
        PROVE  Less(L[i].shard_id, L[j].shard_id) /\ Disjoint(L[i].shard_id, L[j].shard_id)
    <3>1. Less(s[i], s[j])
      BY <2>2 DEF Increasing
    <3>2. Disjoint(s[i], s[j])
      BY <2>2 DEF Apart, Disjoint
    <3> QED BY <1>3, <3>1, <3>2
  <2> QED BY <2>1, <2>2 DEF Sorted
<1>7. \A key \in Keys : \E i \in 1..n : InShard(L[i].shard_id, key)
  BY <1>3 DEF Complete
<1>8. build(L).ok
  BY <1>4, <1>6, <1>7, BuildSucceeds
<1> QED BY <1>2, <1>5, <1>8 DEF Serves

LEMMA NoScheme ==
  LET order == canonical_order(<<>>)
  IN /\ order.ok /\ ToSet(order.value) = {root} /\ Serves(order.value)
     /\ \E n : IsOrder(order.value, n)
<1> DEFINE r == root
           one == <<r>>
           n == 1
           order == canonical_order(<<>>)
<1> HIDE DEF r, n
<1>1. ~(Len(<<>>) > MaxShards)
  BY RoutingAssumption
<1>2. order = Ok(one)
  BY <1>1 DEF canonical_order, r
<1>3. order.ok /\ order.value = one
  BY <1>2 DEF Ok
<1>4. one \in Seq({r}) /\ Len(one) = n /\ n \in Nat \ {0} /\ DOMAIN one = 1..n /\ one[1] = r
  BY DEF n
<1>5. ToSet(one) = {root}
  BY <1>4 DEF ToSet, r, n
<1>6. \A i \in 1..n : i = 1
  BY DEF n
<1>7. 1 \in 1..n
  BY DEF n
<1> HIDE DEF one
<1>8. Words(one, n) /\ Complete(one, n)
  BY <1>4, <1>6, <1>7, RootCovers DEF Words, Complete, r
<1>9. Increasing(one, n) /\ Apart(one, n)
  BY <1>6 DEF Increasing, Apart
<1>10. Serves(one)
  BY <1>4, <1>8, <1>9, OrderServes
<1>11. IsOrder(one, n)
  BY <1>4, <1>8, <1>9 DEF IsOrder
<1> HIDE DEF order
<1> QED BY <1>3, <1>5, <1>10, <1>11 DEF order

LEMMA SchemeServes ==
  ASSUME NEW X, NEW scheme \in Seq(X), \A i \in DOMAIN scheme : Canonical(scheme[i])
  PROVE  LET order == canonical_order(scheme)
         IN /\ order.ok <=> scheme = <<>> \/ Admissible(scheme, Len(scheme))
            /\ order.ok => /\ ToSet(order.value) = IF scheme = <<>> THEN {root} ELSE ToSet(scheme)
                           /\ Serves(order.value) /\ \E k : IsOrder(order.value, k)
<1> DEFINE order == canonical_order(scheme)
           n == Len(scheme)
<1>1. n \in Nat /\ DOMAIN scheme = 1..n /\ n = Len(scheme) /\ (scheme # <<>> => n # 0)
  OBVIOUS
<1> HIDE DEF n
<1>2. \A i \in 1..n : Canonical(scheme[i])
  BY <1>1
<1>3. order.ok <=> scheme = <<>> \/ Admissible(scheme, n)
  BY <1>1, <1>2, OrderExact
<1>4. ASSUME order.ok, scheme # <<>>
      PROVE  /\ ToSet(order.value) = ToSet(scheme) /\ Serves(order.value)
             /\ \E k : IsOrder(order.value, k)
  <2>1. Arranged(order.value, scheme, n)
    BY <1>1, <1>2, <1>4, OrderExact
  <2> DEFINE s == order.value
  <2> HIDE DEF s, order
  <2>2. Serves(s)
    BY <1>1, <1>4, <2>1, OrderServes DEF Arranged, s
  <2>3. s \in Seq({scheme[i] : i \in 1..n}) /\ Len(s) = n
    BY <2>1 DEF Arranged, s
  <2>4. IsOrder(s, n)
    <3>1. DOMAIN s = 1..n
      BY <2>3
    <3> QED BY <1>1, <1>4, <2>1, <2>3, <3>1 DEF IsOrder, Arranged, s
  <2> QED BY <2>1, <2>2, <2>4 DEF Arranged, s
<1>5. ASSUME scheme = <<>>
      PROVE  /\ order.ok /\ ToSet(order.value) = {root} /\ Serves(order.value)
             /\ \E k : IsOrder(order.value, k)
  BY <1>5, NoScheme
<1> HIDE DEF order
<1> QED BY <1>3, <1>4, <1>5 DEF order, n

(* What the last configuration was given.                                  *)
ConfiguredInv == answer.op = "configure" => \E c \in Configurations : answer.scheme = c.scheme

LEMMA ConfiguredStep == ConfiguredInv /\ [Next]_vars => ConfiguredInv'
<1> SUFFICES ASSUME ConfiguredInv, [Next]_vars PROVE ConfiguredInv'
  OBVIOUS
<1>1. ASSUME NEW data \in Encodings, DecodeId(data) PROVE ConfiguredInv'
  BY <1>1 DEF DecodeId, ConfiguredInv
<1>2. ASSUME NEW k \in Configurations, Configure(k.scheme, k.endpoints) PROVE ConfiguredInv'
  BY <1>2 DEF Configure, ConfiguredInv
<1>3. ASSUME NEW items \in Bundles, Admit(items) PROVE ConfiguredInv'
  BY <1>3 DEF Admit, ConfiguredInv
<1>4. ASSUME NEW world \in Worlds, Seal(world) PROVE ConfiguredInv'
  BY <1>4 DEF Seal, ConfiguredInv
<1>5. ASSUME NEW w, NEW uc, NEW pins, Authenticate(w, uc, pins) \/ Assemble(w, uc, pins)
      PROVE  ConfiguredInv'
  BY <1>5 DEF Authenticate, Assemble, ConfiguredInv
<1>6. ASSUME NEW shard \in ConfiguredIds, CertificateOf(shard) PROVE ConfiguredInv'
  BY <1>6 DEF CertificateOf, ConfiguredInv
<1>7. ASSUME NEW uc, NEW p, CheckMembership(uc, p) \/ CheckAbsence(uc, p)
      PROVE  ConfiguredInv'
  BY <1>7 DEF CheckMembership, CheckAbsence, ConfiguredInv
<1>8. CASE UNCHANGED vars
  BY <1>8 DEF vars, ConfiguredInv
<1> QED BY <1>1, <1>2, <1>3, <1>4, <1>5, <1>6, <1>7, <1>8 DEF Next

(* canonical_order accepts a scheme exactly when it is empty or has the    *)
(* admitted number of shards, of the admitted lengths, with every key in   *)
(* exactly one of them; then the binary search of the router finds the     *)
(* shard of every key, and the stack pass over the shards ends with one    *)
(* tree: for schemes and keys of any size.                                 *)
THEOREM SchemesExact == Spec => []SchemesTile
<1>1. Init => ConfiguredInv
  BY DEF Init, ConfiguredInv
<1>2. ConfiguredInv => SchemesTile
  <2> SUFFICES ASSUME ConfiguredInv, answer.op = "configure" PROVE SchemesTile
    BY DEF SchemesTile
  <2>1. PICK c \in Configurations : answer.scheme = c.scheme
    BY DEF ConfiguredInv
  <2> DEFINE scheme == answer.scheme
             X == {scheme[i] : i \in DOMAIN scheme}
  <2>2. \A x \in Configurations : /\ x.scheme \in Seq({x.scheme[i] : i \in DOMAIN x.scheme})
                                   /\ \A i \in DOMAIN x.scheme : IsShardId(x.scheme[i])
    BY ServedAssumption
  <2>3. scheme \in Seq(X) /\ \A i \in DOMAIN scheme : IsShardId(scheme[i])
    BY <2>1, <2>2
  <2>4. \A i \in DOMAIN scheme : Canonical(scheme[i])
    BY <2>3, ShardIdIsCanonical
  <2> HIDE DEF scheme, X
  <2>5. DOMAIN scheme = 1..Len(scheme)
    BY <2>3
  <2> DEFINE order == canonical_order(scheme)
  <2>6. /\ order.ok <=> scheme = <<>> \/ Admissible(scheme, Len(scheme))
        /\ order.ok => /\ ToSet(order.value) = IF scheme = <<>> THEN {root} ELSE ToSet(scheme)
                       /\ Serves(order.value)
    BY <2>3, <2>4, SchemeServes
  <2>7. Admissible(scheme, Len(scheme))
          <=> /\ Len(scheme) \in 2..MaxShards /\ Tiles(scheme)
              /\ \A i \in DOMAIN scheme : scheme[i].length <= MaxIdBits
    BY <2>5 DEF Admissible
  <2> QED BY <2>6, <2>7 DEF SchemesTile, Serves, scheme
<1> QED BY <1>1, <1>2, ConfiguredStep, PTL DEF Spec

-----------------------------------------------------------------------------
(* The loops of the admission of a bundle.                                 *)

NoItems(c) == Bundled({}, <<>>, <<>>, [j \in DOMAIN c.shards |-> <<>>])

AdmitRun(c, items, n, f) ==
  /\ f[0] = NoItems(c) /\ AdmitItems(c, items) = f[n]
  /\ \A i \in 1..n : f[i] = AdmitItem(c, items, f[i - 1], i)

LEMMA AdmitSteps ==
  ASSUME NEW c, NEW items, NEW n \in Nat, n = Len(items)
  PROVE  \E f : AdmitRun(c, items, n, f)
<1> DEFINE t == NoItems(c)
           IsRun(f, k) == f = [i \in 0..k |-> IF i = 0 THEN t ELSE AdmitItem(c, items, f[i - 1], i)]
           S == {k \in Nat : \E f : IsRun(f, k)}
<1>0. AdmitItems(c, items) = (CHOOSE f : IsRun(f, Len(items)))[Len(items)]
  BY Zenon DEF AdmitItems, NoItems
<1> HIDE DEF t
<1>1. 0 \in S
  <2>1. IsRun([i \in 0..0 |-> t], 0)
    OBVIOUS
  <2> QED BY <2>1
<1>2. ASSUME NEW k \in 1..n, k - 1 \in S
      PROVE  k \in S
  <2>1. PICK f : IsRun(f, k - 1)
    BY <1>2
  <2> DEFINE g == [i \in 0..k |-> IF i = k THEN AdmitItem(c, items, f[k - 1], k) ELSE f[i]]
  <2>2. ASSUME NEW i \in 0..k
        PROVE  g[i] = IF i = 0 THEN t ELSE AdmitItem(c, items, g[i - 1], i)
    <3>1. CASE i = k
      BY <3>1
    <3>2. CASE i # k
      <4>1. i \in 0..(k - 1) /\ g[i] = f[i] /\ (i # 0 => g[i - 1] = f[i - 1])
        BY <3>2
      <4>2. f[i] = IF i = 0 THEN t ELSE AdmitItem(c, items, f[i - 1], i)
        BY <2>1, <4>1
      <4> QED BY <4>1, <4>2
    <3> QED BY <3>1, <3>2
  <2>3. g = [i \in 0..k |-> IF i = 0 THEN t ELSE AdmitItem(c, items, g[i - 1], i)]
    BY <2>2
  <2> HIDE DEF g
  <2>4. IsRun(g, k)
    BY <2>3
  <2> QED BY <2>4
<1>3. n \in S
  <2>1. 0..n \subseteq S
    <3> HIDE DEF S
    <3> QED BY <1>1, <1>2, UpTo
  <2> HIDE DEF S
  <2> QED BY <2>1
<1> DEFINE at == CHOOSE f : IsRun(f, Len(items))
<1>4. IsRun(at, n)
  <2>1. \E f : IsRun(f, Len(items))
    BY <1>3
  <2>2. IsRun(at, Len(items))
    <3> HIDE DEF IsRun
    <3> QED BY <2>1
  <2> HIDE DEF at
  <2> QED BY <2>2
<1>5. AdmitItems(c, items) = at[Len(items)]
  BY <1>0
<1> HIDE DEF at
<1>6. /\ at[0] = t
      /\ \A i \in 1..n : at[i] = AdmitItem(c, items, at[i - 1], i)
  BY <1>4
<1> QED BY <1>5, <1>6 DEF t, AdmitRun

FlatStep(c, slots, before, j) ==
  IF slots[j] = <<>> THEN before ELSE Append(before, Group(c, slots, j))

FlatRun(c, slots, n, f) ==
  /\ f[0] = <<>> /\ Flatten(c, slots) = f[n]
  /\ \A j \in 1..n : f[j] = FlatStep(c, slots, f[j - 1], j)

LEMMA FlatSteps ==
  ASSUME NEW c, NEW slots, NEW n \in Nat, n = Len(c.shards)
  PROVE  \E f : FlatRun(c, slots, n, f)
<1> DEFINE t == <<>>
           IsRun(f, k) == f = [j \in 0..k |-> IF j = 0 THEN t
                                              ELSE IF slots[j] = <<>> THEN f[j - 1]
                                              ELSE Append(f[j - 1], Group(c, slots, j))]
           S == {k \in Nat : \E f : IsRun(f, k)}
<1>0. Flatten(c, slots) = (CHOOSE f : IsRun(f, Len(c.shards)))[Len(c.shards)]
  BY Zenon DEF Flatten
<1> HIDE DEF t
<1>1. 0 \in S
  <2>1. IsRun([j \in 0..0 |-> t], 0)
    OBVIOUS
  <2> QED BY <2>1
<1>2. ASSUME NEW k \in 1..n, k - 1 \in S
      PROVE  k \in S
  <2>1. PICK f : IsRun(f, k - 1)
    BY <1>2
  <2> DEFINE Next1(x, j) == IF slots[j] = <<>> THEN x ELSE Append(x, Group(c, slots, j))
             g == [j \in 0..k |-> IF j = k THEN Next1(f[k - 1], k) ELSE f[j]]
  <2>0. f = [j \in 0..(k - 1) |-> IF j = 0 THEN t ELSE Next1(f[j - 1], j)]
    BY <2>1
  <2> HIDE DEF Next1
  <2>2. ASSUME NEW j \in 0..k
        PROVE  g[j] = IF j = 0 THEN t ELSE Next1(g[j - 1], j)
    <3>1. CASE j = k
      BY <3>1
    <3>2. CASE j # k
      <4>1. j \in 0..(k - 1) /\ g[j] = f[j] /\ (j # 0 => g[j - 1] = f[j - 1])
        BY <3>2
      <4>2. f[j] = IF j = 0 THEN t ELSE Next1(f[j - 1], j)
        BY <2>0, <4>1
      <4> QED BY <4>1, <4>2
    <3> QED BY <3>1, <3>2
  <2>3. g = [j \in 0..k |-> IF j = 0 THEN t ELSE Next1(g[j - 1], j)]
    BY <2>2
  <2> HIDE DEF g
  <2>4. IsRun(g, k)
    BY <2>3 DEF Next1
  <2> QED BY <2>4
<1>3. n \in S
  <2>1. 0..n \subseteq S
    <3> HIDE DEF S
    <3> QED BY <1>1, <1>2, UpTo
  <2> HIDE DEF S
  <2> QED BY <2>1
<1> DEFINE at == CHOOSE f : IsRun(f, Len(c.shards))
<1>4. IsRun(at, n)
  <2>1. \E f : IsRun(f, Len(c.shards))
    BY <1>3
  <2>2. IsRun(at, Len(c.shards))
    <3> HIDE DEF IsRun
    <3> QED BY <2>1
  <2> HIDE DEF at
  <2> QED BY <2>2
<1>5. Flatten(c, slots) = at[Len(c.shards)]
  BY <1>0
<1> HIDE DEF at
<1>6. /\ at[0] = t
      /\ \A j \in 1..n : at[j] = FlatStep(c, slots, at[j - 1], j)
  <2>1. at = [j \in 0..n |-> IF j = 0 THEN t ELSE FlatStep(c, slots, at[j - 1], j)]
    BY <1>4 DEF FlatStep
  <2> QED BY <2>1
<1> QED BY <1>5, <1>6 DEF t, FlatRun

BestStep(shards, items, shard_of, before, i) ==
  IF i = 1 \/ items[i].round > before.round
  THEN [round |-> items[i].round, shard |-> shards[shard_of[i]]] ELSE before

BestRun(shards, items, shard_of, n, f) ==
  /\ from_routed(shards, items, shard_of) = f[n]
  /\ \A i \in 1..n : f[i] = BestStep(shards, items, shard_of, f[i - 1], i)

LEMMA BestSteps ==
  ASSUME NEW shards, NEW items, NEW shard_of, NEW n \in Nat \ {0}, n = Len(items), items # <<>>
  PROVE  \E f : BestRun(shards, items, shard_of, n, f)
<1> DEFINE IsRun(f, k) == f = [i \in 1..k |-> IF i = 1 \/ items[i].round > f[i - 1].round
                                              THEN [round |-> items[i].round, shard |-> shards[shard_of[i]]]
                                              ELSE f[i - 1]]
           S == {k \in Nat : \E f : IsRun(f, k)}
<1>0. from_routed(shards, items, shard_of) = (CHOOSE f : IsRun(f, Len(items)))[Len(items)]
  BY Zenon DEF from_routed
<1>1. 0 \in S
  <2>1. IsRun([i \in 1..0 |-> 0], 0)
    OBVIOUS
  <2> QED BY <2>1
<1>2. ASSUME NEW k \in 1..n, k - 1 \in S
      PROVE  k \in S
  <2>1. PICK f : IsRun(f, k - 1)
    BY <1>2
  <2> DEFINE Next1(x, i) == IF i = 1 \/ items[i].round > x.round
                            THEN [round |-> items[i].round, shard |-> shards[shard_of[i]]] ELSE x
             g == [i \in 1..k |-> IF i = k THEN Next1(f[k - 1], k) ELSE f[i]]
  <2>0. f = [i \in 1..(k - 1) |-> Next1(f[i - 1], i)]
    BY <2>1
  <2>5. \A x, y : Next1(x, 1) = Next1(y, 1)
    OBVIOUS
  <2> HIDE DEF Next1
  <2>2. ASSUME NEW i \in 1..k
        PROVE  g[i] = Next1(g[i - 1], i)
    <3>1. CASE i = 1
      <4>1. g[1] = Next1(f[0], 1)
        <5>1. CASE k = 1
          BY <5>1
        <5>2. CASE k # 1
          <6>1. 1 \in 1..(k - 1) /\ g[1] = f[1]
            BY <5>2
          <6> QED BY <2>0, <6>1
        <5> QED BY <5>1, <5>2
      <4> QED BY <2>5, <3>1, <4>1
    <3>2. CASE i # 1 /\ i = k
      <4>1. g[i - 1] = f[i - 1]
        BY <3>2
      <4> QED BY <3>2, <4>1
    <3>3. CASE i # 1 /\ i # k
      <4>1. i \in 1..(k - 1) /\ g[i] = f[i] /\ g[i - 1] = f[i - 1]
        BY <3>3
      <4>2. f[i] = Next1(f[i - 1], i)
        BY <2>0, <4>1
      <4> QED BY <4>1, <4>2
    <3> QED BY <3>1, <3>2, <3>3
  <2>3. g = [i \in 1..k |-> Next1(g[i - 1], i)]
    BY <2>2
  <2> HIDE DEF g
  <2>4. IsRun(g, k)
    BY <2>3 DEF Next1
  <2> QED BY <2>4
<1>3. n \in S
  <2>1. 0..n \subseteq S
    <3> HIDE DEF S
    <3> QED BY <1>1, <1>2, UpTo
  <2> HIDE DEF S
  <2> QED BY <2>1
<1> DEFINE at == CHOOSE f : IsRun(f, Len(items))
<1>4. IsRun(at, n)
  <2>1. \E f : IsRun(f, Len(items))
    BY <1>3
  <2>2. IsRun(at, Len(items))
    <3> HIDE DEF IsRun
    <3> QED BY <2>1
  <2> HIDE DEF at
  <2> QED BY <2>2
<1>5. from_routed(shards, items, shard_of) = at[Len(items)]
  BY <1>0
<1> HIDE DEF at
<1>6. \A i \in 1..n : at[i] = BestStep(shards, items, shard_of, at[i - 1], i)
  BY <1>4 DEF BestStep
<1> QED BY <1>5, <1>6 DEF BestRun

(* A set that is divided into E parts of at most B.                        *)
LEMMA Divided ==
  ASSUME NEW A, IsFiniteSet(A), NEW E \in Nat, NEW B \in Nat, NEW g \in [A -> 1..E],
         \A e \in 1..E : Cardinality({i \in A : g[i] = e}) <= B
  PROVE  Cardinality(A) <= E * B
<1> DEFINE P(e) == {i \in A : g[i] <= e}
           Q(e) == {i \in A : g[i] = e}
           S == {e \in 0..E : Cardinality(P(e)) <= e * B}
<1>1. ASSUME NEW e \in 0..E
      PROVE  /\ IsFiniteSet(P(e)) /\ IsFiniteSet(Q(e))
             /\ Cardinality(P(e)) \in Nat /\ Cardinality(Q(e)) \in Nat
  <2>1. P(e) \subseteq A /\ Q(e) \subseteq A
    OBVIOUS
  <2> HIDE DEF P, Q
  <2>2. IsFiniteSet(P(e)) /\ IsFiniteSet(Q(e))
    BY <2>1, FS_Subset
  <2> QED BY <2>2, FS_CardinalityType
<1>2. 0 \in S
  <2>1. P(0) = {}
    OBVIOUS
  <2>2. Cardinality(P(0)) = 0
    BY <2>1, FS_EmptySet
  <2> HIDE DEF P
  <2> QED BY <2>2
<1>3. ASSUME NEW e \in 1..E, e - 1 \in S PROVE e \in S
  <2> DEFINE p == P(e - 1)
             q == Q(e)
  <2>1. P(e) = p \cup q
    OBVIOUS
  <2>2. e - 1 \in 0..E /\ e \in 0..E
    OBVIOUS
  <2>3. IsFiniteSet(p) /\ IsFiniteSet(q) /\ Cardinality(p) \in Nat /\ Cardinality(q) \in Nat
    BY <1>1, <2>2
  <2>4. Cardinality(p) <= (e - 1) * B
    BY <1>3
  <2>5. Cardinality(q) <= B
    OBVIOUS
  <2> HIDE DEF p, q, P, Q
  <2>6. IsFiniteSet(p \cap q) /\ Cardinality(p \cap q) \in Nat
    <3>1. p \cap q \subseteq p
      OBVIOUS
    <3>2. IsFiniteSet(p \cap q)
      BY <2>3, <3>1, FS_Subset
    <3> QED BY <3>2, FS_CardinalityType
  <2>7. Cardinality(p \cup q) = Cardinality(p) + Cardinality(q) - Cardinality(p \cap q)
    BY <2>3, FS_Union
  <2>8. (e - 1) * B + B = e * B
    OBVIOUS
  <2>9. Cardinality(P(e)) <= (e - 1) * B + B
    <3>1. (e - 1) * B \in Int
      OBVIOUS
    <3> DEFINE x == (e - 1) * B
    <3> HIDE DEF x
    <3>2. x \in Int /\ Cardinality(p) <= x
      BY <2>4, <3>1 DEF x
    <3>3. Cardinality(P(e)) <= x + B
      BY <2>1, <2>3, <2>5, <2>6, <2>7, <3>2
    <3> QED BY <3>3 DEF x
  <2> QED BY <2>2, <2>8, <2>9
<1>4. E \in S
  <2>1. 0..E \subseteq S
    <3> HIDE DEF S
    <3> QED BY <1>2, <1>3, UpTo
  <2> HIDE DEF S
  <2> QED BY <2>1
<1>5. P(E) = A
  OBVIOUS
<1> HIDE DEF P
<1> QED BY <1>4, <1>5

-----------------------------------------------------------------------------
(* What has been admitted of a bundle.                                     *)

(* The first item of a state, and the items that are the first of theirs.  *)
FirstAt(items, i) == \A j \in 1..(i - 1) : items[j].state_id # items[i].state_id

Firsts(items, m) == {i \in 1..m : FirstAt(items, i)}

Lane(c, items, i) == route_index(c.shards, items[i].state_id)

Placed(c, items, m, j) == {i \in Firsts(items, m) : Lane(c, items, i) = j}

Agreed(items, m) ==
  \A i, k \in 1..m : items[i].state_id = items[k].state_id => items[i].certified = items[k].certified

LEMMA FirstOf ==
  ASSUME NEW items, NEW m \in Nat, NEW k \in 1..m
  PROVE  \E j \in Firsts(items, m) : j <= k /\ items[j].state_id = items[k].state_id
<1> DEFINE Has(x) == \E j \in Firsts(items, m) : j <= x /\ items[j].state_id = items[x].state_id
           S == {x \in 0..m : \A y \in 1..x : Has(y)}
<1>1. 0 \in S
  OBVIOUS
<1>2. ASSUME NEW x \in 1..m, x - 1 \in S PROVE x \in S
  <2>1. Has(x)
    <3>1. CASE FirstAt(items, x)
      BY <3>1 DEF Firsts
    <3>2. CASE ~FirstAt(items, x)
      <4>1. PICK y \in 1..(x - 1) : items[y].state_id = items[x].state_id
        BY <3>2 DEF FirstAt
      <4>2. PICK j \in Firsts(items, m) : j <= y /\ items[j].state_id = items[y].state_id
        BY <1>2, <4>1
      <4>3. j \in Int
        BY DEF Firsts
      <4>4. j <= x
        BY <4>1, <4>2, <4>3
      <4> QED BY <4>1, <4>2, <4>4
    <3> QED BY <3>1, <3>2
  <2>2. \A y \in 1..x : y \in 1..(x - 1) \/ y = x
    OBVIOUS
  <2> HIDE DEF Has
  <2> QED BY <1>2, <2>1, <2>2
<1>3. 0..m \subseteq S
  <2> HIDE DEF S
  <2> QED BY <1>1, <1>2, UpTo
<1>4. m \in S
  <2> HIDE DEF S
  <2> QED BY <1>3
<1> QED BY <1>4

LEMMA FirstsGrow ==
  ASSUME NEW c, NEW items, NEW m \in Nat
  PROVE  /\ FirstAt(items, m + 1) =>
              /\ Firsts(items, m + 1) = Firsts(items, m) \cup {m + 1} /\ m + 1 \notin Firsts(items, m)
              /\ \A j : Placed(c, items, m + 1, j)
                          = IF Lane(c, items, m + 1) = j THEN Placed(c, items, m, j) \cup {m + 1}
                            ELSE Placed(c, items, m, j)
         /\ ~FirstAt(items, m + 1) =>
              /\ Firsts(items, m + 1) = Firsts(items, m)
              /\ \A j : Placed(c, items, m + 1, j) = Placed(c, items, m, j)
<1>1. 1..(m + 1) = 1..m \cup {m + 1} /\ m + 1 \notin 1..m
  OBVIOUS
<1>2. /\ FirstAt(items, m + 1) => Firsts(items, m + 1) = Firsts(items, m) \cup {m + 1}
      /\ m + 1 \notin Firsts(items, m)
      /\ ~FirstAt(items, m + 1) => Firsts(items, m + 1) = Firsts(items, m)
  BY <1>1 DEF Firsts
<1>3. CASE FirstAt(items, m + 1)
  <2> DEFINE x == m + 1
             F == Firsts(items, m)
  <2>1. Firsts(items, x) = F \cup {x} /\ x \notin F
    BY <1>2, <1>3
  <2> HIDE DEF x, F
  <2>2. \A j : Placed(c, items, x, j) = IF Lane(c, items, x) = j THEN Placed(c, items, m, j) \cup {x}
                                        ELSE Placed(c, items, m, j)
    BY <2>1 DEF Placed, F
  <2> QED BY <1>2, <1>3, <2>2 DEF x
<1>4. CASE ~FirstAt(items, m + 1)
  BY <1>2, <1>4 DEF Placed
<1> QED BY <1>3, <1>4

LEMMA FirstsFinite ==
  ASSUME NEW c, NEW items, NEW m \in Nat
  PROVE  /\ IsFiniteSet(Firsts(items, m)) /\ Cardinality(Firsts(items, m)) \in Nat
         /\ \A j : IsFiniteSet(Placed(c, items, m, j)) /\ Cardinality(Placed(c, items, m, j)) \in Nat
<1>1. IsFiniteSet(1..m)
  BY FS_Interval
<1>2. Firsts(items, m) \subseteq 1..m /\ \A j : Placed(c, items, m, j) \subseteq 1..m
  BY DEF Firsts, Placed
<1>3. IsFiniteSet(Firsts(items, m)) /\ \A j : IsFiniteSet(Placed(c, items, m, j))
  BY <1>1, <1>2, FS_Subset
<1> QED BY <1>3, FS_CardinalityType

(* A client: its shards tile in order, and an endpoint serves one shard.   *)
IsClient(c, n) ==
  /\ IsOrder(c.shards, n)
  /\ c.endpoints \in Nat
  /\ \A j \in 1..n : c.endpoint_by_shard[j] # None => c.endpoint_by_shard[j] \in 1..c.endpoints
  /\ \A i, j \in 1..n : /\ c.endpoint_by_shard[i] # None
                        /\ c.endpoint_by_shard[i] = c.endpoint_by_shard[j]
                        => i = j

IsBundle(items, n) ==
  /\ n \in Nat /\ n = Len(items) /\ DOMAIN items = 1..n /\ items \in Seq({items[i] : i \in 1..n})
  /\ \A i \in 1..n : items[i].state_id \in Keys /\ items[i].round \in Nat

(* Among the first m items something is to be refused.                     *)
Crowded(c, items, m, j) ==
  /\ Placed(c, items, m, j) # {}
  /\ c.endpoint_by_shard[j] = None \/ Cardinality(Placed(c, items, m, j)) > MaxBatch

Wrong(c, n, items, m) == ~Agreed(items, m) \/ \E j \in 1..n : Crowded(c, items, m, j)

LEMMA LaneIs ==
  ASSUME NEW c, NEW n, IsClient(c, n), NEW items, NEW m, IsBundle(items, m), NEW i \in 1..m
  PROVE  /\ Lane(c, items, i) \in 1..n
         /\ \A j \in 1..n : InShard(c.shards[j], items[i].state_id) <=> j = Lane(c, items, i)
<1> DEFINE key == items[i].state_id
           s == c.shards
<1>1. key \in Keys /\ n \in Nat /\ DOMAIN s = 1..n /\ Words(s, n) /\ Increasing(s, n) /\ Apart(s, n)
      /\ Complete(s, n)
  BY DEF IsBundle, IsClient, IsOrder
<1>2. Lane(c, items, i) = route_index(s, key)
  BY DEF Lane
<1> HIDE DEF key, s
<1>3. route_index(s, key) \in 1..n /\ InShard(s[route_index(s, key)], key)
  BY <1>1, RouteFinds
<1>4. \A j \in 1..n : InShard(s[j], key) <=> j = route_index(s, key)
  BY <1>1, <1>3 DEF Apart
<1> QED BY <1>2, <1>3, <1>4 DEF key, s

LEMMA WrongStays ==
  ASSUME NEW c, NEW n, NEW items, NEW m \in Nat, Wrong(c, n, items, m)
  PROVE  Wrong(c, n, items, m + 1)
<1>1. CASE ~Agreed(items, m)
  <2>1. \A i \in 1..m : i \in 1..(m + 1)
    OBVIOUS
  <2> QED BY <1>1, <2>1 DEF Wrong, Agreed
<1>2. CASE \E j \in 1..n : Crowded(c, items, m, j)
  <2>1. PICK j \in 1..n : Crowded(c, items, m, j)
    BY <1>2
  <2> DEFINE P == Placed(c, items, m, j)
             Q == Placed(c, items, m + 1, j)
  <2>2. P \subseteq Q
    <3>1. \A i \in 1..m : i \in 1..(m + 1)
      OBVIOUS
    <3> QED BY <3>1 DEF Placed, Firsts
  <2>3. m + 1 \in Nat
    OBVIOUS
  <2>4. IsFiniteSet(Q) /\ Cardinality(P) \in Nat /\ Cardinality(Q) \in Nat
    BY <2>3, FirstsFinite
  <2>5. P # {} /\ (c.endpoint_by_shard[j] = None \/ Cardinality(P) > MaxBatch)
    BY <2>1 DEF Crowded
  <2> HIDE DEF P, Q
  <2>6. Cardinality(P) <= Cardinality(Q)
    BY <2>2, <2>4, FS_Subset
  <2>7. Q # {} /\ (c.endpoint_by_shard[j] = None \/ Cardinality(Q) > MaxBatch)
    <3>1. Cardinality(P) > MaxBatch => Cardinality(Q) > MaxBatch
      <4>1. MaxBatch \in Nat
        BY RoutingAssumption
      <4> QED BY <2>4, <2>6, <4>1
    <3> QED BY <2>2, <2>5, <3>1
  <2> QED BY <2>7 DEF Q, Crowded, Wrong
<1> QED BY <1>1, <1>2 DEF Wrong

(* What the endpoints can carry bounds the states, if it does in a shard.  *)
LEMMA AllFit ==
  ASSUME NEW c, NEW n, IsClient(c, n), NEW items, NEW l, IsBundle(items, l), NEW m \in 0..l,
         ~Wrong(c, n, items, m)
  PROVE  Cardinality(Firsts(items, m)) <= c.endpoints * MaxBatch
<1> DEFINE A == Firsts(items, m)
           E == c.endpoints
           g == [i \in A |-> c.endpoint_by_shard[Lane(c, items, i)]]
<1>1. m \in Nat /\ l \in Nat /\ E \in Nat /\ MaxBatch \in Nat
  <2>1. l \in Nat /\ E \in Nat
    BY DEF IsBundle, IsClient, IsOrder
  <2>2. MaxBatch \in Nat
    BY RoutingAssumption
  <2> QED BY <2>1, <2>2
<1>2. \A i \in A : i \in 1..l
  BY <1>1 DEF Firsts
<1>3. ASSUME NEW i \in A
      PROVE  /\ Lane(c, items, i) \in 1..n /\ i \in Placed(c, items, m, Lane(c, items, i))
             /\ g[i] # None /\ g[i] \in 1..E
  <2>1. Lane(c, items, i) \in 1..n
    BY <1>2, LaneIs
  <2>2. i \in Placed(c, items, m, Lane(c, items, i))
    BY DEF Placed
  <2>3. g[i] # None
    BY <2>1, <2>2 DEF Wrong, Crowded
  <2>4. g[i] \in 1..E
    BY <2>1, <2>3 DEF IsClient, IsOrder
  <2> QED BY <2>1, <2>2, <2>3, <2>4
<1>4. g \in [A -> 1..E]
  BY <1>3
<1>5. ASSUME NEW e \in 1..E PROVE Cardinality({i \in A : g[i] = e}) <= MaxBatch
  <2> DEFINE T == {i \in A : g[i] = e}
  <2>1. CASE T = {}
    <3>1. Cardinality(T) = 0
      BY <2>1, FS_EmptySet
    <3> HIDE DEF T
    <3> QED BY <1>1, <3>1 DEF T
  <2>2. CASE T # {}
    <3>1. PICK x \in A : g[x] = e
      BY <2>2
    <3> DEFINE j == Lane(c, items, x)
    <3>2. j \in 1..n /\ c.endpoint_by_shard[j] # None /\ Placed(c, items, m, j) # {}
      BY <1>3
    <3>3. \A i \in A : g[i] = e => Lane(c, items, i) = j
      BY <1>3, <3>1 DEF IsClient, IsOrder
    <3>4. \A i \in A : Lane(c, items, i) = j => g[i] = e
      BY <3>1
    <3>5. T = Placed(c, items, m, j)
      BY <3>3, <3>4 DEF Placed
    <3>6. Cardinality(Placed(c, items, m, j)) \in Nat
      BY <1>1, FirstsFinite
    <3>7. ~(Cardinality(Placed(c, items, m, j)) > MaxBatch)
      BY <3>2 DEF Wrong, Crowded
    <3> HIDE DEF T, j
    <3>8. Cardinality(T) <= MaxBatch
      BY <1>1, <3>5, <3>6, <3>7
    <3> QED BY <3>8 DEF T
  <2> QED BY <2>1, <2>2
<1>6. IsFiniteSet(A)
  BY <1>1, FirstsFinite
<1> HIDE DEF A, E, g
<1>7. Cardinality(A) <= E * MaxBatch
  BY <1>1, <1>4, <1>5, <1>6, Divided
<1> QED BY <1>7 DEF A, E

Rising(q) == \A a, b \in DOMAIN q : a < b => q[a] < q[b]

(* The slot of shard j after m items.                                      *)
SlotIs(c, items, m, j, q) ==
  /\ q \in Seq(Nat) /\ ToSet(q) = Placed(c, items, m, j) /\ Rising(q)
  /\ Len(q) <= MaxBatch /\ (q # <<>> => c.endpoint_by_shard[j] # None)

SlotsAre(c, n, items, m, K) == DOMAIN K = 1..n /\ \A j \in 1..n : SlotIs(c, items, m, j, K[j])

LanesAre(c, items, m, H) == H \in Seq(Nat) /\ Len(H) = m /\ \A i \in 1..m : H[i] = Lane(c, items, i)

Running(r, c, n, items, m) ==
  /\ Agreed(items, m)
  /\ \E F, H, K : /\ r = Bundled(Firsts(items, m), F, H, K)
                  /\ LanesAre(c, items, m, H) /\ SlotsAre(c, n, items, m, K)

Stopped(r, c, n, items, m) == r.error # None /\ Wrong(c, n, items, m)

LEMMA SlotLength ==
  ASSUME NEW q \in Seq(Nat), Rising(q)
  PROVE  Cardinality(ToSet(q)) = Len(q)
<1> DEFINE n == Len(q)
<1>1. n \in Nat /\ DOMAIN q = 1..n /\ \A i \in 1..n : q[i] \in Nat
  OBVIOUS
<1> HIDE DEF n
<1>2. \A i, j \in 1..n : q[i] = q[j] => i = j
  <2> SUFFICES ASSUME NEW i \in 1..n, NEW j \in 1..n, q[i] = q[j] PROVE i = j
    OBVIOUS
  <2>1. ~(i < j) /\ ~(j < i)
    BY <1>1 DEF Rising
  <2> QED BY <1>1, <2>1
<1>3. Cardinality(ToSet(q)) = n
  BY <1>1, <1>2, DistinctElements
<1> QED BY <1>3 DEF n

LEMMA RisingPushed ==
  ASSUME NEW q \in Seq(Nat), Rising(q), NEW x \in Nat, \A y \in ToSet(q) : y < x
  PROVE  LET s == Append(q, x)
         IN /\ s \in Seq(Nat) /\ Len(s) = Len(q) + 1 /\ Rising(s) /\ ToSet(s) = ToSet(q) \cup {x}
            /\ s[Len(q) + 1] = x /\ \A a \in 1..Len(q) : s[a] = q[a]
<1> DEFINE n == Len(q)
           s == Append(q, x)
<1>1. n \in Nat /\ DOMAIN q = 1..n /\ \A a \in 1..n : q[a] \in Nat
  OBVIOUS
<1>2. s \in Seq(Nat) /\ Len(s) = n + 1 /\ DOMAIN s = 1..(n + 1) /\ s[n + 1] = x
      /\ \A a \in 1..n : s[a] = q[a]
  BY <1>1
<1>3. \A a \in 1..n : q[a] < x
  BY <1>1 DEF ToSet
<1>4. \A a \in 1..(n + 1) : a \in 1..n \/ a = n + 1
  BY <1>1
<1>5. n + 1 \in 1..(n + 1) /\ \A a \in 1..n : a \in 1..(n + 1)
  BY <1>1
<1> HIDE DEF s, n
<1>6. ToSet(s) = ToSet(q) \cup {x}
  <2>1. ToSet(s) = {s[a] : a \in 1..(n + 1)} /\ ToSet(q) = {q[a] : a \in 1..n}
    BY <1>1, <1>2 DEF ToSet
  <2>2. \A a \in 1..(n + 1) : s[a] \in ToSet(q) \cup {x}
    BY <1>2, <1>4, <2>1
  <2>3. x \in ToSet(s) /\ \A a \in 1..n : q[a] \in ToSet(s)
    BY <1>2, <1>5, <2>1
  <2> QED BY <2>1, <2>2, <2>3
<1>7. Rising(s)
  <2> SUFFICES ASSUME NEW a \in 1..(n + 1), NEW b \in 1..(n + 1), a < b PROVE s[a] < s[b]
    BY <1>2 DEF Rising
  <2>1. a \in 1..n
    BY <1>1
  <2>2. CASE b = n + 1
    BY <1>2, <1>3, <2>1, <2>2
  <2>3. CASE b \in 1..n
    BY <1>1, <1>2, <2>1, <2>3 DEF Rising
  <2> QED BY <1>4, <2>2, <2>3
<1> QED BY <1>2, <1>6, <1>7 DEF s, n

LEMMA SlotPushed ==
  ASSUME NEW c, NEW items, NEW m \in Nat, NEW j, NEW q, SlotIs(c, items, m, j, q),
         FirstAt(items, m + 1), Lane(c, items, m + 1) = j, Len(q) + 1 <= MaxBatch,
         c.endpoint_by_shard[j] # None
  PROVE  SlotIs(c, items, m + 1, j, Append(q, m + 1))
<1> DEFINE x == m + 1
           s == Append(q, x)
<1>1. q \in Seq(Nat) /\ Rising(q) /\ ToSet(q) = Placed(c, items, m, j) /\ x \in Nat
  BY DEF SlotIs
<1>2. \A y \in ToSet(q) : y < x
  BY <1>1 DEF Placed, Firsts
<1>3. Placed(c, items, x, j) = Placed(c, items, m, j) \cup {x}
  <2>1. 1..(m + 1) = 1..m \cup {m + 1}
    OBVIOUS
  <2>2. Firsts(items, m + 1) = Firsts(items, m) \cup {m + 1}
    BY <2>1 DEF Firsts
  <2> HIDE DEF x
  <2>3. Firsts(items, x) = Firsts(items, m) \cup {x} /\ Lane(c, items, x) = j
    BY <2>2 DEF x
  <2> QED BY <2>3 DEF Placed
<1> HIDE DEF x
<1>4. s \in Seq(Nat) /\ Len(s) = Len(q) + 1 /\ Rising(s) /\ ToSet(s) = ToSet(q) \cup {x}
  BY <1>1, <1>2, RisingPushed
<1> QED BY <1>1, <1>3, <1>4 DEF SlotIs, x

(* What AdmitItem does with the next item.                                 *)
AdmitCases(c, items, i, S, F, H, K, u) ==
  LET si == Lane(c, items, i)
      first == {j \in S : items[j].state_id = items[i].state_id}
  IN /\ first # {} =>
          \E j \in first : IF Conflicting(items[j], items[i]) THEN u.error = "conflicting inputs"
                          ELSE u = Bundled(S, Append(F, j), Append(H, si), K)
     /\ first = {} =>
          IF Cardinality(S) + 1 > c.endpoints * MaxBatch THEN u.error = "too many states"
          ELSE IF K[si] = <<>> /\ c.endpoint_by_shard[si] = None THEN u.error = "no endpoint"
          ELSE IF Len(K[si]) + 1 > MaxBatch THEN u.error = "too many states"
          ELSE u = Bundled(S \cup {i}, Append(F, i), Append(H, si), [K EXCEPT ![si] = Append(@, i)])

LEMMA AdmitIs ==
  ASSUME NEW c, NEW items, NEW i, NEW S, NEW F, NEW H, NEW K
  PROVE  AdmitCases(c, items, i, S, F, H, K, AdmitItem(c, items, Bundled(S, F, H, K), i))
<1> DEFINE r == Bundled(S, F, H, K)
           si == Lane(c, items, i)
           first == {j \in S : items[j].state_id = items[i].state_id}
           u == AdmitItem(c, items, r, i)
           Refuse(e) == [r EXCEPT !.error = e]
<1>1. r.error = None /\ r.seen = S /\ r.first_of = F /\ r.shard_of = H /\ r.slots = K
      /\ \A e : Refuse(e).error = e
  BY DEF Bundled
<1> HIDE DEF r
<1>2. CASE first # {}
  <2> DEFINE j == CHOOSE x \in first : TRUE
  <2>1. j \in first
    BY <1>2
  <2>2. u = IF Conflicting(items[j], items[i]) THEN Refuse("conflicting inputs")
            ELSE Bundled(S, Append(F, j), Append(H, si), K)
    BY <1>1, <1>2 DEF AdmitItem, Lane
  <2> HIDE DEF j, u, Refuse
  <2>3. IF Conflicting(items[j], items[i]) THEN u.error = "conflicting inputs"
        ELSE u = Bundled(S, Append(F, j), Append(H, si), K)
    BY <1>1, <2>2
  <2> QED BY <1>2, <2>1, <2>3 DEF AdmitCases, u, r
<1>3. CASE first = {}
  <2> DEFINE many == Cardinality(S) + 1 > c.endpoints * MaxBatch
             none == K[si] = <<>> /\ c.endpoint_by_shard[si] = None
             full == Len(K[si]) + 1 > MaxBatch
             next == Bundled(S \cup {i}, Append(F, i), Append(H, si), [K EXCEPT ![si] = Append(@, i)])
  <2>1. u = IF many THEN Refuse("too many states") ELSE IF none THEN Refuse("no endpoint")
            ELSE IF full THEN Refuse("too many states") ELSE next
    BY <1>1, <1>3 DEF AdmitItem, Lane
  <2> HIDE DEF u, Refuse, many, none, full, next
  <2>2. IF many THEN u.error = "too many states" ELSE IF none THEN u.error = "no endpoint"
        ELSE IF full THEN u.error = "too many states" ELSE u = next
    <3>1. Refuse("too many states").error = "too many states" /\ Refuse("no endpoint").error = "no endpoint"
      BY <1>1
    <3>2. many => u = Refuse("too many states")
      BY <2>1
    <3>3. ~many /\ none => u = Refuse("no endpoint")
      BY <2>1
    <3>4. ~many /\ ~none /\ full => u = Refuse("too many states")
      BY <2>1
    <3>5. ~many /\ ~none /\ ~full => u = next
      BY <2>1
    <3> QED BY <3>1, <3>2, <3>3, <3>4, <3>5
  <2> QED BY <1>3, <2>2 DEF AdmitCases, u, r, many, none, full, next
<1> QED BY <1>2, <1>3

LEMMA LanesGrow ==
  ASSUME NEW c, NEW items, NEW m \in Nat, NEW H, LanesAre(c, items, m, H), Lane(c, items, m + 1) \in Nat
  PROVE  LanesAre(c, items, m + 1, Append(H, Lane(c, items, m + 1)))
<1> DEFINE x == Lane(c, items, m + 1)
<1>1. H \in Seq(Nat) /\ Len(H) = m /\ \A i \in 1..m : H[i] = Lane(c, items, i)
  BY DEF LanesAre
<1> HIDE DEF x
<1>2. x \in Nat
  BY DEF x
<1>3. Append(H, x) \in Seq(Nat) /\ Len(Append(H, x)) = m + 1 /\ Append(H, x)[m + 1] = x
      /\ \A i \in 1..m : Append(H, x)[i] = H[i]
  BY <1>1, <1>2
<1>4. \A i \in 1..(m + 1) : i \in 1..m \/ i = m + 1
  OBVIOUS
<1>5. ASSUME NEW i \in 1..(m + 1) PROVE Append(H, x)[i] = Lane(c, items, i)
  <2>1. CASE i = m + 1
    BY <1>3, <2>1 DEF x
  <2>2. CASE i \in 1..m
    BY <1>1, <1>3, <2>2
  <2> QED BY <1>4, <2>1, <2>2
<1> QED BY <1>3, <1>5 DEF LanesAre, x

(* An item whose state was seen before.                                    *)
LEMMA AdmitRepeated ==
  ASSUME NEW c, NEW n, NEW items, NEW m \in Nat, NEW F, NEW H, NEW K, Agreed(items, m),
         LanesAre(c, items, m, H), SlotsAre(c, n, items, m, K), Lane(c, items, m + 1) \in Nat,
         NEW j \in Firsts(items, m), items[j].state_id = items[m + 1].state_id
  PROVE  /\ Conflicting(items[j], items[m + 1]) => ~Agreed(items, m + 1)
         /\ ~Conflicting(items[j], items[m + 1]) =>
              Running(Bundled(Firsts(items, m), F, Append(H, Lane(c, items, m + 1)), K), c, n, items, m + 1)
<1> DEFINE x == m + 1
<1>1. j \in 1..m /\ j \in 1..x /\ x \in 1..x /\ j \in 1..(x - 1)
  BY DEF Firsts
<1>2. \A i \in 1..x : i \in 1..m \/ i = x
  OBVIOUS
<1>3. ~FirstAt(items, x)
  BY <1>1 DEF FirstAt
<1>4. Firsts(items, x) = Firsts(items, m) /\ \A k : Placed(c, items, x, k) = Placed(c, items, m, k)
  BY <1>3, FirstsGrow
<1>5. LanesAre(c, items, x, Append(H, Lane(c, items, x)))
  BY LanesGrow
<1> HIDE DEF x
<1>6. items[j].state_id = items[x].state_id
  BY DEF x
<1>7. Conflicting(items[j], items[x]) => ~Agreed(items, x)
  BY <1>1, <1>6 DEF Conflicting, Agreed
<1>8. ASSUME ~Conflicting(items[j], items[x]) PROVE Agreed(items, x)
  <2>1. items[j].certified = items[x].certified
    BY <1>8 DEF Conflicting
  <2> SUFFICES ASSUME NEW a \in 1..x, NEW b \in 1..x, items[a].state_id = items[b].state_id
               PROVE  items[a].certified = items[b].certified
    BY DEF Agreed
  <2>2. \A k \in 1..m : items[k].state_id = items[x].state_id => items[k].certified = items[x].certified
    BY <1>1, <1>6, <2>1 DEF Agreed
  <2> QED BY <1>2, <2>2 DEF Agreed
<1>9. SlotsAre(c, n, items, x, K)
  BY <1>4 DEF SlotsAre, SlotIs
<1>10. ASSUME ~Conflicting(items[j], items[x])
       PROVE  Running(Bundled(Firsts(items, m), F, Append(H, Lane(c, items, x)), K), c, n, items, x)
  BY <1>4, <1>5, <1>8, <1>9, <1>10 DEF Running
<1> QED BY <1>7, <1>10 DEF x

(* An item with a new state.                                               *)
LEMMA AdmitNew ==
  ASSUME NEW c, NEW n, IsClient(c, n), NEW items, NEW m \in Nat, NEW F, NEW H, NEW K, Agreed(items, m),
         LanesAre(c, items, m, H), SlotsAre(c, n, items, m, K), FirstAt(items, m + 1),
         NEW si \in 1..n, si = Lane(c, items, m + 1)
  PROVE  /\ K[si] = <<>> /\ c.endpoint_by_shard[si] = None => Wrong(c, n, items, m + 1)
         /\ Len(K[si]) + 1 > MaxBatch => Wrong(c, n, items, m + 1)
         /\ /\ ~(K[si] = <<>> /\ c.endpoint_by_shard[si] = None)
            /\ ~(Len(K[si]) + 1 > MaxBatch)
            => Running(Bundled(Firsts(items, m) \cup {m + 1}, F, Append(H, si),
                               [K EXCEPT ![si] = Append(@, m + 1)]), c, n, items, m + 1)
<1> DEFINE x == m + 1
           q == K[si]
           M == [K EXCEPT ![si] = Append(@, x)]
<1>1. Firsts(items, x) = Firsts(items, m) \cup {x} /\ x \notin Firsts(items, m)
  BY FirstsGrow
<1>2. \A j : Placed(c, items, x, j) = IF si = j THEN Placed(c, items, m, j) \cup {x}
                                      ELSE Placed(c, items, m, j)
  BY FirstsGrow
<1>3. SlotIs(c, items, m, si, q) /\ DOMAIN K = 1..n
  BY DEF SlotsAre
<1>4. q \in Seq(Nat) /\ Rising(q) /\ Len(q) \in Nat /\ MaxBatch \in Nat
  <2>1. q \in Seq(Nat) /\ Rising(q)
    BY <1>3 DEF SlotIs
  <2>2. MaxBatch \in Nat
    BY RoutingAssumption
  <2> HIDE DEF q
  <2>3. Len(q) \in Nat
    BY <2>1
  <2> QED BY <2>1, <2>2, <2>3
<1>5. x \in Placed(c, items, x, si)
  BY <1>2
<1>6. Cardinality(Placed(c, items, x, si)) = Len(q) + 1
  <2> DEFINE P == Placed(c, items, m, si)
  <2>1. P = ToSet(q)
    BY <1>3 DEF SlotIs
  <2>2. Cardinality(P) = Len(q)
    BY <1>4, <2>1, SlotLength
  <2>3. IsFiniteSet(P)
    BY FirstsFinite
  <2>4. x \notin P
    BY <1>1 DEF Placed
  <2>5. Placed(c, items, x, si) = P \cup {x}
    BY <1>2
  <2> HIDE DEF P, x
  <2>6. Cardinality(P \cup {x}) = Cardinality(P) + 1
    BY <2>3, <2>4, FS_AddElement
  <2> QED BY <2>2, <2>5, <2>6
<1>7. K[si] = <<>> /\ c.endpoint_by_shard[si] = None => Wrong(c, n, items, x)
  BY <1>5 DEF Wrong, Crowded
<1>8. Len(K[si]) + 1 > MaxBatch => Wrong(c, n, items, x)
  BY <1>5, <1>6 DEF Wrong, Crowded
<1>9. Agreed(items, x)
  <2>1. \A i \in 1..x : i \in 1..m \/ i = x
    OBVIOUS
  <2>2. \A i \in 1..m : items[i].state_id # items[x].state_id
    BY DEF FirstAt
  <2> HIDE DEF x
  <2> QED BY <2>1, <2>2 DEF Agreed
<1>10. LanesAre(c, items, x, Append(H, si))
  BY LanesGrow DEF IsClient, IsOrder
<1>11. ASSUME ~(K[si] = <<>> /\ c.endpoint_by_shard[si] = None), ~(Len(K[si]) + 1 > MaxBatch)
       PROVE  SlotsAre(c, n, items, x, M)
  <2>1. c.endpoint_by_shard[si] # None
    BY <1>3, <1>11 DEF SlotIs
  <2>2. Len(q) + 1 <= MaxBatch
    BY <1>4, <1>11
  <2>3. SlotIs(c, items, x, si, Append(q, x))
    BY <1>3, <2>1, <2>2, SlotPushed
  <2>4. DOMAIN M = 1..n /\ M[si] = Append(q, x) /\ \A j \in 1..n : j # si => M[j] = K[j]
    BY <1>3
  <2> HIDE DEF M, q, x
  <2>5. ASSUME NEW j \in 1..n, j # si PROVE SlotIs(c, items, x, j, M[j])
    <3>1. SlotIs(c, items, m, j, K[j]) /\ M[j] = K[j] /\ Placed(c, items, x, j) = Placed(c, items, m, j)
      BY <1>2, <2>4, <2>5 DEF SlotsAre
    <3> QED BY <3>1 DEF SlotIs
  <2> QED BY <2>3, <2>4, <2>5 DEF SlotsAre
<1>12. ASSUME ~(K[si] = <<>> /\ c.endpoint_by_shard[si] = None), ~(Len(K[si]) + 1 > MaxBatch)
       PROVE  Running(Bundled(Firsts(items, m) \cup {x}, F, Append(H, si), M), c, n, items, x)
  <2>1. SlotsAre(c, n, items, x, M)
    BY <1>11, <1>12
  <2> HIDE DEF x, M
  <2> QED BY <1>1, <1>9, <1>10, <2>1 DEF Running
<1> QED BY <1>7, <1>8, <1>12

(* The loop goes on while nothing is to be refused, and stops when there   *)
(* is something.                                                           *)
LEMMA AdmitKeeps ==
  ASSUME NEW c, NEW n, IsClient(c, n), NEW items, NEW l, IsBundle(items, l), NEW m \in Nat, m + 1 \in 1..l,
         NEW r, Running(r, c, n, items, m)
  PROVE  LET u == AdmitItem(c, items, r, m + 1)
         IN Running(u, c, n, items, m + 1) \/ Stopped(u, c, n, items, m + 1)
<1> DEFINE x == m + 1
           u == AdmitItem(c, items, r, x)
           si == Lane(c, items, x)
           S == Firsts(items, m)
           first == {j \in S : items[j].state_id = items[x].state_id}
<1>1. si \in 1..n /\ n \in Nat /\ c.endpoints \in Nat /\ l \in Nat
  <2>1. si \in 1..n
    BY LaneIs
  <2>2. n \in Nat /\ c.endpoints \in Nat /\ l \in Nat
    BY DEF IsClient, IsOrder, IsBundle
  <2> QED BY <2>1, <2>2
<1>2. si \in Nat /\ x \in 0..l
  BY <1>1
<1>3. Agreed(items, m)
  BY DEF Running
<1>4. PICK F, H, K : /\ r = Bundled(S, F, H, K)
                     /\ LanesAre(c, items, m, H) /\ SlotsAre(c, n, items, m, K)
  BY DEF Running
<1>5. /\ first # {} =>
           \E j \in first : IF Conflicting(items[j], items[x]) THEN u.error = "conflicting inputs"
                           ELSE u = Bundled(S, Append(F, j), Append(H, si), K)
      /\ first = {} =>
           IF Cardinality(S) + 1 > c.endpoints * MaxBatch THEN u.error = "too many states"
           ELSE IF K[si] = <<>> /\ c.endpoint_by_shard[si] = None THEN u.error = "no endpoint"
           ELSE IF Len(K[si]) + 1 > MaxBatch THEN u.error = "too many states"
           ELSE u = Bundled(S \cup {x}, Append(F, x), Append(H, si), [K EXCEPT ![si] = Append(@, x)])
  <2> HIDE DEF x, S, u
  <2>1. AdmitCases(c, items, x, S, F, H, K, u)
    BY <1>4, AdmitIs DEF u
  <2> QED BY <2>1 DEF AdmitCases
<1>6. None # "conflicting inputs" /\ None # "too many states" /\ None # "no endpoint"
  BY AdmissionAssumption
<1>7. CASE first # {}
  <2>1. PICK j \in first : IF Conflicting(items[j], items[x]) THEN u.error = "conflicting inputs"
                           ELSE u = Bundled(S, Append(F, j), Append(H, si), K)
    BY <1>5, <1>7
  <2>2. j \in Firsts(items, m) /\ items[j].state_id = items[m + 1].state_id
    OBVIOUS
  <2>3. /\ Conflicting(items[j], items[x]) => ~Agreed(items, x)
        /\ ~Conflicting(items[j], items[x]) =>
             Running(Bundled(S, Append(F, j), Append(H, si), K), c, n, items, x)
    BY <1>2, <1>3, <1>4, <2>2, AdmitRepeated
  <2> HIDE DEF u, x, S, si, first
  <2>4. CASE Conflicting(items[j], items[x])
    <3>1. u.error = "conflicting inputs"
      BY <2>1, <2>4
    <3> QED BY <1>6, <2>3, <2>4, <3>1 DEF Stopped, Wrong, u, x
  <2>5. CASE ~Conflicting(items[j], items[x])
    <3>1. Running(u, c, n, items, x)
      BY <2>1, <2>3, <2>5
    <3> QED BY <3>1 DEF u, x
  <2> QED BY <2>4, <2>5
<1>8. CASE first = {}
  <2>1. FirstAt(items, x)
    <3> SUFFICES ASSUME NEW k \in 1..(x - 1), items[k].state_id = items[x].state_id PROVE FALSE
      BY DEF FirstAt
    <3>1. k \in 1..m
      OBVIOUS
    <3>2. PICK j \in Firsts(items, m) : items[j].state_id = items[k].state_id
      BY <3>1, FirstOf
    <3> QED BY <1>8, <3>2
  <2>2. /\ K[si] = <<>> /\ c.endpoint_by_shard[si] = None => Wrong(c, n, items, x)
        /\ Len(K[si]) + 1 > MaxBatch => Wrong(c, n, items, x)
        /\ /\ ~(K[si] = <<>> /\ c.endpoint_by_shard[si] = None)
           /\ ~(Len(K[si]) + 1 > MaxBatch)
           => Running(Bundled(S \cup {x}, Append(F, x), Append(H, si),
                              [K EXCEPT ![si] = Append(@, x)]), c, n, items, x)
    BY <1>1, <1>3, <1>4, <2>1, AdmitNew
  <2>3. Cardinality(S) + 1 > c.endpoints * MaxBatch => Wrong(c, n, items, x)
    <3> SUFFICES ASSUME ~Wrong(c, n, items, x) PROVE ~(Cardinality(S) + 1 > c.endpoints * MaxBatch)
      OBVIOUS
    <3>1. Cardinality(Firsts(items, x)) <= c.endpoints * MaxBatch
      BY <1>2, AllFit
    <3>2. Firsts(items, x) = S \cup {x} /\ x \notin S
      BY <2>1, FirstsGrow
    <3>3. IsFiniteSet(S) /\ Cardinality(S) \in Nat
      BY FirstsFinite
    <3>4. MaxBatch \in Nat
      BY RoutingAssumption
    <3>5. c.endpoints * MaxBatch \in Nat
      BY <1>1, <3>4
    <3> HIDE DEF S, x
    <3>6. Cardinality(S \cup {x}) = Cardinality(S) + 1
      BY <3>2, <3>3, FS_AddElement
    <3> DEFINE y == c.endpoints * MaxBatch
    <3> HIDE DEF y
    <3>7. Cardinality(S) + 1 <= y /\ y \in Nat
      BY <3>1, <3>2, <3>5, <3>6 DEF y
    <3>8. ~(Cardinality(S) + 1 > y)
      BY <3>3, <3>7
    <3> QED BY <3>8 DEF y
  <2> DEFINE many == Cardinality(S) + 1 > c.endpoints * MaxBatch
             none == K[si] = <<>> /\ c.endpoint_by_shard[si] = None
             full == Len(K[si]) + 1 > MaxBatch
             next == Bundled(S \cup {x}, Append(F, x), Append(H, si), [K EXCEPT ![si] = Append(@, x)])
  <2>4. IF many THEN u.error = "too many states"
        ELSE IF none THEN u.error = "no endpoint"
        ELSE IF full THEN u.error = "too many states"
        ELSE u = next
    BY <1>5, <1>8
  <2>5. /\ many \/ none \/ full => Wrong(c, n, items, x)
        /\ ~none /\ ~full => Running(next, c, n, items, x)
    BY <2>2, <2>3
  <2> HIDE DEF u, x, S, si, first, many, none, full, next
  <2>6. CASE many \/ none \/ full
    <3>1. u.error # None
      BY <1>6, <2>4, <2>6
    <3> QED BY <2>5, <2>6, <3>1 DEF Stopped, u, x
  <2>7. CASE ~(many \/ none \/ full)
    <3>1. Running(u, c, n, items, x)
      BY <2>4, <2>5, <2>7
    <3> QED BY <3>1 DEF u, x
  <2> QED BY <2>6, <2>7
<1> QED BY <1>7, <1>8

LEMMA AdmitStays ==
  ASSUME NEW c, NEW n, NEW items, NEW m \in Nat, NEW r, Stopped(r, c, n, items, m)
  PROVE  Stopped(AdmitItem(c, items, r, m + 1), c, n, items, m + 1)
<1>1. AdmitItem(c, items, r, m + 1) = r
  BY DEF AdmitItem, Stopped
<1>2. Wrong(c, n, items, m + 1)
  BY WrongStays DEF Stopped
<1> QED BY <1>1, <1>2 DEF Stopped

LEMMA AdmitStarts ==
  ASSUME NEW c, NEW n, IsClient(c, n), NEW items
  PROVE  Running(NoItems(c), c, n, items, 0)
<1> DEFINE K == [j \in 1..n |-> <<>>]
<1>1. Agreed(items, 0)
  BY DEF Agreed
<1>2. Firsts(items, 0) = {} /\ \A j : Placed(c, items, 0, j) = {}
  BY DEF Firsts, Placed
<1>3. LanesAre(c, items, 0, <<>>)
  BY DEF LanesAre
<1>4. MaxBatch \in Nat
  BY RoutingAssumption
<1>5. ASSUME NEW j \in 1..n PROVE SlotIs(c, items, 0, j, <<>>)
  <2>1. ToSet(<<>>) = {} /\ Rising(<<>>) /\ <<>> \in Seq(Nat) /\ Len(<<>>) = 0
    BY DEF ToSet, Rising
  <2>2. Len(<<>>) <= MaxBatch
    BY <1>4, <2>1
  <2> QED BY <1>2, <2>1, <2>2 DEF SlotIs
<1>6. SlotsAre(c, n, items, 0, K)
  BY <1>5 DEF SlotsAre
<1>7. NoItems(c) = Bundled(Firsts(items, 0), <<>>, <<>>, K)
  BY <1>2 DEF NoItems, IsClient, IsOrder
<1> HIDE DEF K
<1> QED BY <1>1, <1>3, <1>6, <1>7 DEF Running

(* A loop that is not stopped has met nothing to refuse.                   *)
LEMMA RunningFits ==
  ASSUME NEW c, NEW n, NEW items, NEW m \in Nat, NEW r, Running(r, c, n, items, m)
  PROVE  r.error = None /\ ~Wrong(c, n, items, m)
<1>1. PICK F, H, K : /\ r = Bundled(Firsts(items, m), F, H, K) /\ SlotsAre(c, n, items, m, K)
  BY DEF Running
<1>2. r.error = None
  BY <1>1 DEF Bundled
<1>3. ASSUME NEW j \in 1..n PROVE ~Crowded(c, items, m, j)
  <2> DEFINE q == K[j]
  <2>1. SlotIs(c, items, m, j, q)
    BY <1>1 DEF SlotsAre
  <2> HIDE DEF q
  <2>2. q \in Seq(Nat) /\ ToSet(q) = Placed(c, items, m, j) /\ Rising(q) /\ Len(q) <= MaxBatch
        /\ (q # <<>> => c.endpoint_by_shard[j] # None)
    BY <2>1 DEF SlotIs
  <2>3. Cardinality(Placed(c, items, m, j)) = Len(q)
    BY <2>2, SlotLength
  <2>4. q = <<>> => Placed(c, items, m, j) = {}
    <3>1. ToSet(<<>>) = {}
      BY DEF ToSet
    <3> QED BY <2>2, <3>1
  <2>5. MaxBatch \in Nat
    BY RoutingAssumption
  <2>6. ~(Cardinality(Placed(c, items, m, j)) > MaxBatch)
    BY <2>2, <2>3, <2>5
  <2> QED BY <2>2, <2>4, <2>6 DEF Crowded
<1> QED BY <1>2, <1>3 DEF Running, Wrong

LEMMA AdmitExact ==
  ASSUME NEW c, NEW n, IsClient(c, n), NEW items, NEW l, IsBundle(items, l)
  PROVE  \/ Running(AdmitItems(c, items), c, n, items, l)
         \/ Stopped(AdmitItems(c, items), c, n, items, l)
<1>1. l \in Nat /\ l = Len(items)
  BY DEF IsBundle
<1>2. PICK f : AdmitRun(c, items, l, f)
  BY <1>1, AdmitSteps
<1> DEFINE S == {m \in 0..l : Running(f[m], c, n, items, m) \/ Stopped(f[m], c, n, items, m)}
<1>3. 0 \in S
  BY <1>1, <1>2, AdmitStarts DEF AdmitRun
<1>4. ASSUME NEW k \in 1..l, k - 1 \in S PROVE k \in S
  <2> DEFINE m == k - 1
  <2>1. m \in Nat /\ m + 1 = k /\ m + 1 \in 1..l /\ k \in 0..l
    BY <1>1
  <2>2. f[k] = AdmitItem(c, items, f[m], m + 1)
    BY <1>2, <2>1 DEF AdmitRun
  <2>3. Running(f[m], c, n, items, m) \/ Stopped(f[m], c, n, items, m)
    BY <1>4
  <2> HIDE DEF m
  <2>4. Running(f[k], c, n, items, m + 1) \/ Stopped(f[k], c, n, items, m + 1)
    BY <2>1, <2>2, <2>3, AdmitKeeps, AdmitStays
  <2> QED BY <2>1, <2>4
<1>5. 0..l \subseteq S
  <2> HIDE DEF S
  <2> QED BY <1>1, <1>3, <1>4, UpTo
<1>6. l \in S
  <2> HIDE DEF S
  <2> QED BY <1>1, <1>5
<1> QED BY <1>2, <1>6 DEF AdmitRun

(* The groups of the slots up to j.                                        *)
AreGroups(c, K, j, G, p) ==
  /\ p \in Seq(Nat) /\ Rising(p) /\ ToSet(p) = {i \in 1..j : K[i] # <<>>}
  /\ G \in Seq({Group(c, K, i) : i \in Nat}) /\ Len(G) = Len(p)
  /\ \A g \in 1..Len(p) : G[g] = Group(c, K, p[g])

LEMMA FlatKeeps ==
  ASSUME NEW c, NEW K, NEW j \in Nat, NEW G, NEW p, AreGroups(c, K, j, G, p)
  PROVE  \E q : AreGroups(c, K, j + 1, FlatStep(c, K, G, j + 1), q)
<1> DEFINE x == j + 1
           U(i) == {k \in 1..i : K[k] # <<>>}
           X == {Group(c, K, i) : i \in Nat}
<1>1. 1..x = 1..j \cup {x} /\ x \in Nat /\ \A k \in 1..j : k < x
  OBVIOUS
<1> HIDE DEF x
<1>2. CASE K[x] = <<>>
  <2>1. U(x) = U(j)
    BY <1>1, <1>2
  <2>2. FlatStep(c, K, G, x) = G
    BY <1>2 DEF FlatStep
  <2>3. AreGroups(c, K, x, G, p)
    BY <2>1 DEF AreGroups
  <2> QED BY <2>2, <2>3 DEF x
<1>3. CASE K[x] # <<>>
  <2> DEFINE e == Group(c, K, x)
             n == Len(p)
             q == Append(p, x)
             s == Append(G, e)
  <2>1. U(x) = U(j) \cup {x}
    BY <1>1, <1>3
  <2>2. FlatStep(c, K, G, x) = s
    BY <1>3 DEF FlatStep
  <2>3. p \in Seq(Nat) /\ Rising(p) /\ ToSet(p) = U(j) /\ G \in Seq(X) /\ Len(G) = n
        /\ \A g \in 1..n : G[g] = Group(c, K, p[g])
    BY DEF AreGroups
  <2>4. \A y \in ToSet(p) : y < x
    BY <1>1, <2>3
  <2>5. /\ q \in Seq(Nat) /\ Len(q) = n + 1 /\ Rising(q) /\ ToSet(q) = ToSet(p) \cup {x}
        /\ q[n + 1] = x /\ \A a \in 1..n : q[a] = p[a]
    BY <1>1, <2>3, <2>4, RisingPushed
  <2>6. e \in X /\ n \in Nat
    BY <1>1, <2>3
  <2>7. s \in Seq(X) /\ Len(s) = n + 1 /\ s[n + 1] = e /\ \A a \in 1..n : s[a] = G[a]
    <3> HIDE DEF e, X, n
    <3> QED BY <2>3, <2>6
  <2> HIDE DEF q, s, n, X
  <2>8. \A g \in 1..(n + 1) : g \in 1..n \/ g = n + 1
    BY <2>6
  <2>9. ASSUME NEW g \in 1..(n + 1) PROVE s[g] = Group(c, K, q[g])
    <3>1. CASE g = n + 1
      BY <2>5, <2>7, <3>1
    <3>2. CASE g \in 1..n
      BY <2>3, <2>5, <2>7, <3>2
    <3> QED BY <2>8, <3>1, <3>2
  <2>10. AreGroups(c, K, x, s, q)
    BY <2>1, <2>3, <2>5, <2>7, <2>9 DEF AreGroups, X
  <2> QED BY <2>2, <2>10 DEF x
<1> QED BY <1>2, <1>3

LEMMA FlatExact ==
  ASSUME NEW c, NEW K, NEW n \in Nat, n = Len(c.shards)
  PROVE  \E p : AreGroups(c, K, n, Flatten(c, K), p)
<1>1. PICK f : FlatRun(c, K, n, f)
  BY FlatSteps
<1> DEFINE S == {j \in 0..n : \E p : AreGroups(c, K, j, f[j], p)}
<1>2. 0 \in S
  <2>1. Rising(<<>>) /\ ToSet(<<>>) = {} /\ {i \in 1..0 : K[i] # <<>>} = {}
    BY DEF Rising, ToSet
  <2>2. f[0] = <<>>
    BY <1>1 DEF FlatRun
  <2>3. AreGroups(c, K, 0, <<>>, <<>>)
    BY <2>1 DEF AreGroups
  <2> QED BY <2>2, <2>3
<1>3. ASSUME NEW k \in 1..n, k - 1 \in S PROVE k \in S
  <2> DEFINE j == k - 1
  <2>1. j \in Nat /\ j + 1 = k /\ k \in 0..n
    OBVIOUS
  <2>2. f[k] = FlatStep(c, K, f[j], k)
    BY <1>1 DEF FlatRun
  <2>3. PICK p : AreGroups(c, K, j, f[j], p)
    BY <1>3
  <2> HIDE DEF j
  <2>4. \E q : AreGroups(c, K, j + 1, FlatStep(c, K, f[j], j + 1), q)
    BY <2>1, <2>3, FlatKeeps
  <2> QED BY <2>1, <2>2, <2>4
<1>4. 0..n \subseteq S
  <2> HIDE DEF S
  <2> QED BY <1>2, <1>3, UpTo
<1>5. n \in S
  <2> HIDE DEF S
  <2> QED BY <1>4
<1>6. Flatten(c, K) = f[n]
  BY <1>1 DEF FlatRun
<1> QED BY <1>5, <1>6

(* The newest round among the first m items, and the shard of one with it. *)
IsNewest(shards, items, H, m, b) ==
  \E k \in 1..m : /\ b.round = items[k].round /\ b.shard = shards[H[k]]
                  /\ \A i \in 1..m : items[i].round <= b.round

LEMMA NewestIs ==
  ASSUME NEW shards, NEW items, NEW H, NEW l, IsBundle(items, l), items # <<>>
  PROVE  IsNewest(shards, items, H, l, from_routed(shards, items, H))
<1>1. l \in Nat /\ l = Len(items) /\ DOMAIN items = 1..l /\ \A i \in 1..l : items[i].round \in Nat
  BY DEF IsBundle
<1>2. l # 0
  <2> DEFINE X == {items[i] : i \in 1..l}
  <2>1. items \in Seq(X)
    BY DEF IsBundle
  <2> HIDE DEF X
  <2> QED BY <1>1, <2>1, EmptySeq
<1>3. PICK f : BestRun(shards, items, H, l, f)
  BY <1>1, <1>2, BestSteps
<1> DEFINE S == {m \in 0..l : m = 0 \/ IsNewest(shards, items, H, m, f[m])}
<1>4. 0 \in S
  BY <1>1
<1>5. ASSUME NEW k \in 1..l, k - 1 \in S PROVE k \in S
  <2> DEFINE e == [round |-> items[k].round, shard |-> shards[H[k]]]
             b == f[k - 1]
  <2>1. f[k] = IF k = 1 \/ items[k].round > b.round THEN e ELSE b
    BY <1>3 DEF BestRun, BestStep
  <2>2. e.round = items[k].round /\ e.shard = shards[H[k]]
    OBVIOUS
  <2>3. \A i \in 1..k : i \in 1..(k - 1) \/ i = k
    BY <1>1
  <2>4. items[k].round \in Nat /\ k \in 0..l /\ \A i \in 1..(k - 1) : items[i].round \in Nat /\ i \in 1..k
    BY <1>1
  <2>5. k \in 1..k
    BY <1>1
  <2> HIDE DEF e
  <2>6. CASE k = 1
    <3>1. \A i \in 1..k : i = k
      BY <2>6
    <3> QED BY <2>1, <2>2, <2>4, <2>5, <2>6, <3>1 DEF IsNewest
  <2>7. CASE k # 1
    <3>1. PICK j \in 1..(k - 1) : /\ b.round = items[j].round /\ b.shard = shards[H[j]]
                                  /\ \A i \in 1..(k - 1) : items[i].round <= b.round
      BY <1>5, <2>7 DEF IsNewest
    <3> HIDE DEF b
    <3>2. CASE items[k].round > b.round
      <4>1. \A i \in 1..k : items[i].round <= e.round
        BY <2>2, <2>3, <2>4, <3>1, <3>2
      <4> QED BY <2>1, <2>2, <2>4, <2>5, <3>2, <4>1 DEF IsNewest
    <3>3. CASE ~(items[k].round > b.round)
      <4>1. \A i \in 1..k : items[i].round <= b.round
        BY <2>3, <2>4, <3>1, <3>3
      <4>2. j \in 1..k
        BY <2>4
      <4> QED BY <2>1, <2>4, <2>7, <3>1, <3>3, <4>1, <4>2 DEF IsNewest
    <3> QED BY <3>2, <3>3
  <2> QED BY <2>6, <2>7
<1>6. 0..l \subseteq S
  <2> HIDE DEF S
  <2> QED BY <1>1, <1>4, <1>5, UpTo
<1>7. l \in S
  <2> HIDE DEF S
  <2> QED BY <1>1, <1>6
<1>8. from_routed(shards, items, H) = f[l]
  BY <1>3 DEF BestRun
<1> QED BY <1>2, <1>7, <1>8

(* GroupsExact in two parts, for any client and bundle.                    *)
OfShard(items, s) ==
  {i \in DOMAIN items : /\ \A j \in 1..(i - 1) : items[j].state_id # items[i].state_id
                        /\ InShard(s, items[i].state_id)}

Admitted(c, items) ==
  /\ items # <<>>
  /\ \A i, j \in DOMAIN items :
       items[i].state_id = items[j].state_id => items[i].certified = items[j].certified
  /\ \A i \in DOMAIN c.shards :
       OfShard(items, c.shards[i]) # {} => /\ c.endpoint_by_shard[i] # None
                                           /\ Cardinality(OfShard(items, c.shards[i])) <= MaxBatch

GroupsOf(c, items, groups) ==
  /\ {groups[g].shard : g \in DOMAIN groups} = {s \in ToSet(c.shards) : OfShard(items, s) # {}}
  /\ \A g, h \in DOMAIN groups :
       g < h => canonical_cmp(groups[g].shard, groups[h].shard) = -1
  /\ \A g \in DOMAIN groups :
       /\ ToSet(groups[g].items) = OfShard(items, groups[g].shard)
       /\ \A a, b \in DOMAIN groups[g].items :
            a < b => groups[g].items[a] < groups[g].items[b]

BoundOf(items, groups, bound) ==
  /\ \A i \in DOMAIN items : items[i].round <= bound.round
  /\ \E g \in DOMAIN groups, i \in DOMAIN items :
       /\ groups[g].shard = bound.shard
       /\ InShard(groups[g].shard, items[i].state_id)
       /\ items[i].round = bound.round

LEMMA OfShardIs ==
  ASSUME NEW c, NEW n, IsClient(c, n), NEW items, NEW l, IsBundle(items, l), NEW j \in 1..n
  PROVE  OfShard(items, c.shards[j]) = Placed(c, items, l, j)
<1>1. DOMAIN items = 1..l
  BY DEF IsBundle
<1>2. \A i \in 1..l : InShard(c.shards[j], items[i].state_id) <=> j = Lane(c, items, i)
  BY LaneIs
<1>3. OfShard(items, c.shards[j]) = {i \in 1..l : FirstAt(items, i) /\ Lane(c, items, i) = j}
  BY <1>1, <1>2 DEF OfShard, FirstAt
<1>4. Placed(c, items, l, j) = {i \in 1..l : FirstAt(items, i) /\ Lane(c, items, i) = j}
  BY DEF Placed, Firsts
<1> QED BY <1>3, <1>4

LEMMA AdmittedIs ==
  ASSUME NEW c, NEW n, IsClient(c, n), NEW items, NEW l, IsBundle(items, l)
  PROVE  Admitted(c, items) <=> items # <<>> /\ ~Wrong(c, n, items, l)
<1>1. DOMAIN items = 1..l /\ DOMAIN c.shards = 1..n /\ l \in Nat
  BY DEF IsBundle, IsClient, IsOrder
<1>2. MaxBatch \in Nat
  BY RoutingAssumption
<1>3. ASSUME NEW j \in 1..n
      PROVE  ~Crowded(c, items, l, j) <=>
               (OfShard(items, c.shards[j]) # {} =>
                  /\ c.endpoint_by_shard[j] # None
                  /\ Cardinality(OfShard(items, c.shards[j])) <= MaxBatch)
  <2> DEFINE P == Placed(c, items, l, j)
  <2>1. OfShard(items, c.shards[j]) = P
    BY OfShardIs
  <2>2. Cardinality(P) \in Nat
    BY <1>1, FirstsFinite
  <2>3. Crowded(c, items, l, j) <=> P # {} /\ (c.endpoint_by_shard[j] = None \/ Cardinality(P) > MaxBatch)
    BY DEF Crowded
  <2> HIDE DEF P
  <2>4. Cardinality(P) > MaxBatch <=> ~(Cardinality(P) <= MaxBatch)
    BY <1>2, <2>2
  <2> QED BY <2>1, <2>3, <2>4
<1> QED BY <1>1, <1>3 DEF Admitted, Wrong, Agreed

LEMMA GroupsAre ==
  ASSUME NEW c, NEW n, IsClient(c, n), NEW items, NEW l, IsBundle(items, l), NEW K,
         SlotsAre(c, n, items, l, K)
  PROVE  /\ GroupsOf(c, items, Flatten(c, K))
         /\ \A j \in 1..n : Placed(c, items, l, j) # {} =>
              \E g \in DOMAIN Flatten(c, K) : Flatten(c, K)[g].shard = c.shards[j]
<1> DEFINE G == Flatten(c, K)
<1>1. n \in Nat /\ n = Len(c.shards) /\ DOMAIN c.shards = 1..n /\ Words(c.shards, n)
      /\ Increasing(c.shards, n)
  BY DEF IsClient, IsOrder
<1>2. PICK p : AreGroups(c, K, n, G, p)
  BY <1>1, FlatExact
<1> HIDE DEF G
<1> DEFINE d == Len(p)
           X == {Group(c, K, i) : i \in Nat}
<1>3. p \in Seq(Nat) /\ Rising(p) /\ ToSet(p) = {i \in 1..n : K[i] # <<>>} /\ G \in Seq(X)
      /\ Len(G) = d /\ \A g \in 1..d : G[g] = Group(c, K, p[g])
  BY <1>2 DEF AreGroups
<1>4. d \in Nat /\ DOMAIN p = 1..d /\ DOMAIN G = 1..d
  <2> HIDE DEF X
  <2> QED BY <1>3
<1> HIDE DEF d, X
<1>5. ASSUME NEW g \in 1..d
      PROVE  /\ p[g] \in 1..n /\ K[p[g]] # <<>> /\ p[g] \in Nat
             /\ G[g].shard = c.shards[p[g]] /\ G[g].items = K[p[g]]
  <2>1. p[g] \in 1..n /\ K[p[g]] # <<>>
    BY <1>3, <1>4 DEF ToSet
  <2>2. G[g] = Group(c, K, p[g])
    BY <1>3
  <2>3. G[g].shard = c.shards[p[g]] /\ G[g].items = K[p[g]]
    BY <2>2 DEF Group
  <2> QED BY <1>1, <2>1, <2>3
<1>6. \A i \in 1..n : K[i] # <<>> => \E g \in 1..d : p[g] = i
  BY <1>3, <1>4 DEF ToSet
<1>7. ASSUME NEW j \in 1..n
      PROVE  /\ ToSet(K[j]) = Placed(c, items, l, j) /\ Rising(K[j])
             /\ OfShard(items, c.shards[j]) = Placed(c, items, l, j)
             /\ K[j] # <<>> <=> Placed(c, items, l, j) # {}
  <2> DEFINE q == K[j]
  <2>1. q \in Seq(Nat) /\ ToSet(q) = Placed(c, items, l, j) /\ Rising(q)
    BY DEF SlotsAre, SlotIs
  <2> HIDE DEF q
  <2>2. q # <<>> <=> ToSet(q) # {}
    <3>1. Len(q) \in Nat /\ DOMAIN q = 1..Len(q) /\ (q = <<>> <=> Len(q) = 0)
      BY <2>1, LenProperties, EmptySeq
    <3>2. Len(q) # 0 => 1 \in DOMAIN q
      BY <3>1
    <3>3. Len(q) = 0 => DOMAIN q = {}
      BY <3>1
    <3> QED BY <3>1, <3>2, <3>3 DEF ToSet
  <2>3. OfShard(items, c.shards[j]) = Placed(c, items, l, j)
    BY OfShardIs
  <2> QED BY <2>1, <2>2, <2>3 DEF q
<1>8. {G[g].shard : g \in 1..d} = {s \in ToSet(c.shards) : OfShard(items, s) # {}}
  <2>1. ToSet(c.shards) = {c.shards[j] : j \in 1..n}
    BY <1>1 DEF ToSet
  <2>2. ASSUME NEW g \in 1..d PROVE G[g].shard \in ToSet(c.shards) /\ OfShard(items, G[g].shard) # {}
    BY <1>5, <1>7, <2>1
  <2>3. ASSUME NEW j \in 1..n, OfShard(items, c.shards[j]) # {} PROVE \E g \in 1..d : G[g].shard = c.shards[j]
    <3>1. PICK g \in 1..d : p[g] = j
      BY <1>6, <1>7, <2>3
    <3>2. G[g].shard = c.shards[j]
      BY <1>5, <3>1
    <3> QED BY <3>2
  <2> QED BY <2>1, <2>2, <2>3
<1>9. ASSUME NEW g \in 1..d, NEW h \in 1..d, g < h PROVE canonical_cmp(G[g].shard, G[h].shard) = -1
  <2> DEFINE a == c.shards[p[g]]
             b == c.shards[p[h]]
  <2>1. p[g] \in 1..n /\ p[h] \in 1..n /\ G[g].shard = a /\ G[h].shard = b
    BY <1>5
  <2>2. p[g] < p[h]
    BY <1>3, <1>4, <1>9 DEF Rising
  <2>3. Less(a, b)
    BY <1>1, <2>1, <2>2 DEF Increasing
  <2>4. IsString(a) /\ IsString(b)
    BY <1>1, <2>1, WordParts DEF Words
  <2> HIDE DEF a, b
  <2>5. canonical_cmp(a, b) = -1
    BY <2>3, <2>4, LessIsCompared
  <2> QED BY <2>1, <2>5
<1>10. ASSUME NEW g \in 1..d
       PROVE  /\ ToSet(G[g].items) = OfShard(items, G[g].shard)
              /\ \A a, b \in DOMAIN G[g].items : a < b => G[g].items[a] < G[g].items[b]
  <2> DEFINE j == p[g]
  <2>1. j \in 1..n /\ G[g].shard = c.shards[j] /\ G[g].items = K[j]
    BY <1>5
  <2> HIDE DEF j
  <2>2. ToSet(K[j]) = OfShard(items, c.shards[j]) /\ Rising(K[j])
    BY <1>7, <2>1
  <2> QED BY <2>1, <2>2 DEF Rising
<1>11. GroupsOf(c, items, G)
  BY <1>4, <1>8, <1>9, <1>10 DEF GroupsOf
<1>12. ASSUME NEW j \in 1..n, Placed(c, items, l, j) # {}
       PROVE  \E g \in DOMAIN G : G[g].shard = c.shards[j]
  <2>1. PICK g \in 1..d : p[g] = j
    BY <1>6, <1>7, <1>12
  <2>2. G[g].shard = c.shards[j]
    BY <1>5, <2>1
  <2> QED BY <1>4, <2>2
<1> QED BY <1>11, <1>12 DEF G

LEMMA BundleExact ==
  ASSUME NEW c, NEW n, IsClient(c, n), NEW items, NEW l, IsBundle(items, l)
  PROVE  LET r == group(c, items)
         IN /\ r.ok <=> Admitted(c, items)
            /\ r.ok => /\ GroupsOf(c, items, r.value.groups)
                       /\ BoundOf(items, r.value.groups, from_routed(c.shards, items, r.value.shard_of))
<1> DEFINE r == group(c, items)
           a == AdmitItems(c, items)
<1>1. l \in Nat /\ DOMAIN items = 1..l
  BY DEF IsBundle
<1>2. Admitted(c, items) <=> items # <<>> /\ ~Wrong(c, n, items, l)
  BY AdmittedIs
<1>3. r = IF items = <<>> THEN Err("nothing to consolidate")
          ELSE IF a.error # None THEN Err(a.error)
          ELSE Ok([groups |-> Flatten(c, a.slots), first_of |-> a.first_of, shard_of |-> a.shard_of])
  BY DEF group
<1>4. Running(a, c, n, items, l) \/ Stopped(a, c, n, items, l)
  BY AdmitExact
<1> HIDE DEF r, a
<1>5. Running(a, c, n, items, l) => a.error = None /\ ~Wrong(c, n, items, l)
  BY <1>1, RunningFits
<1>6. Stopped(a, c, n, items, l) => a.error # None /\ Wrong(c, n, items, l)
  BY DEF Stopped
<1>7. r.ok <=> items # <<>> /\ a.error = None
  BY <1>3 DEF Ok, Err
<1>8. r.ok <=> Admitted(c, items)
  BY <1>2, <1>4, <1>5, <1>6, <1>7
<1>9. ASSUME r.ok
      PROVE  /\ GroupsOf(c, items, r.value.groups)
             /\ BoundOf(items, r.value.groups, from_routed(c.shards, items, r.value.shard_of))
  <2>1. items # <<>> /\ Running(a, c, n, items, l)
    BY <1>4, <1>6, <1>7, <1>9
  <2>2. PICK F, H, K : /\ a = Bundled(Firsts(items, l), F, H, K)
                       /\ LanesAre(c, items, l, H) /\ SlotsAre(c, n, items, l, K)
    BY <2>1 DEF Running
  <2>3. a.slots = K /\ a.shard_of = H
    BY <2>2 DEF Bundled
  <2> DEFINE G == Flatten(c, K)
             b == from_routed(c.shards, items, H)
  <2>4. r.value.groups = G /\ r.value.shard_of = H
    BY <1>3, <1>7, <1>9, <2>3 DEF Ok
  <2>5. /\ GroupsOf(c, items, G)
        /\ \A j \in 1..n : Placed(c, items, l, j) # {} => \E g \in DOMAIN G : G[g].shard = c.shards[j]
    BY <2>2, GroupsAre
  <2>6. IsNewest(c.shards, items, H, l, b)
    BY <2>1, NewestIs
  <2> HIDE DEF G, b
  <2>7. PICK k \in 1..l : /\ b.round = items[k].round /\ b.shard = c.shards[H[k]]
                          /\ \A i \in 1..l : items[i].round <= b.round
    BY <2>6 DEF IsNewest
  <2> DEFINE j == Lane(c, items, k)
  <2>8. H[k] = j
    BY <2>2 DEF LanesAre
  <2>9. j \in 1..n /\ InShard(c.shards[j], items[k].state_id)
    BY LaneIs
  <2>10. Placed(c, items, l, j) # {}
    <3>1. PICK i \in Firsts(items, l) : items[i].state_id = items[k].state_id
      BY <1>1, FirstOf
    <3>2. Lane(c, items, i) = j
      BY <3>1 DEF Lane
    <3> QED BY <3>1, <3>2 DEF Placed
  <2> HIDE DEF j
  <2>11. PICK g \in DOMAIN G : G[g].shard = c.shards[j]
    BY <2>5, <2>9, <2>10
  <2>12. BoundOf(items, G, b)
    BY <1>1, <2>7, <2>8, <2>9, <2>11 DEF BoundOf
  <2> QED BY <2>4, <2>5, <2>12 DEF b
<1> QED BY <1>8, <1>9 DEF r

(* ProofClient::new yields a client.                                       *)
LEMMA ClientIs ==
  ASSUME NEW X, NEW scheme \in Seq(X), \A i \in DOMAIN scheme : Canonical(scheme[i]),
         NEW endpoints, Len(endpoints) \in Nat, DOMAIN endpoints = 1..Len(endpoints),
         new_client(scheme, endpoints).ok
  PROVE  \E n : IsClient(new_client(scheme, endpoints).value, n)
<1> DEFINE order == canonical_order(scheme)
           s == order.value
           E == Len(endpoints)
           At(shard) == {i \in DOMAIN endpoints : endpoints[i] = shard}
           e(shard) == IF At(shard) = {} THEN None ELSE CHOOSE i \in At(shard) : TRUE
           c == [shards |-> s, endpoints |-> E, endpoint_by_shard |-> [j \in DOMAIN s |-> e(s[j])]]
           rules == << Rule(ToSet(endpoints) \subseteq ToSet(s), "foreign endpoint"),
                       Rule(IsInjective(endpoints), "duplicate endpoint") >>
           r == new_client(scheme, endpoints)
<1>1. r = IF ~order.ok THEN order ELSE Require(Ok(c), rules)
  BY DEF new_client
<1>2. order.ok
  BY <1>1
<1>3. r.value = c
  <2> HIDE DEF c, rules, order, r
  <2>1. r = IF Passes(rules) THEN Ok(c) ELSE Err(FirstError(rules))
    BY <1>1, <1>2 DEF Require, Ok
  <2>2. r.ok
    BY DEF r
  <2> QED BY <2>1, <2>2 DEF Ok, Err
<1>4. PICK n : IsOrder(s, n)
  BY <1>2, SchemeServes
<1>5. DOMAIN s = 1..n /\ n \in Nat /\ Words(s, n) /\ Apart(s, n)
  BY <1>4 DEF IsOrder
<1> HIDE DEF order, s, rules, r
<1>6. \A shard : e(shard) # None => e(shard) \in 1..E /\ endpoints[e(shard)] = shard
  OBVIOUS
<1>7. c.shards = s /\ c.endpoints = E /\ \A j \in 1..n : c.endpoint_by_shard[j] = e(s[j])
  BY <1>5
<1> HIDE DEF e, c, E
<1>8. ASSUME NEW i \in 1..n, NEW j \in 1..n, e(s[i]) # None, e(s[i]) = e(s[j]) PROVE i = j
  <2>1. s[i] = s[j]
    BY <1>6, <1>8
  <2>2. Same(s[i], s[j])
    BY <2>1 DEF Same, Agree
  <2> QED BY <1>5, <2>2, ApartDiffer
<1>9. IsClient(c, n)
  BY <1>4, <1>6, <1>7, <1>8 DEF IsClient, E
<1> QED BY <1>3, <1>9 DEF r

(* What the client and the last admission are made of.                     *)
ClientInv == client # None => \E n : IsClient(client, n)

AdmitInv ==
  answer.op = "admit" =>
    /\ client # None /\ answer.items \in Bundles /\ answer.result = group(client, answer.items)
    /\ answer.result.ok =>
         answer.bound = from_routed(client.shards, answer.items, answer.result.value.shard_of)

BundleInv == ClientInv /\ AdmitInv

LEMMA BundleStep == BundleInv /\ [Next]_vars => BundleInv'
<1> SUFFICES ASSUME BundleInv, [Next]_vars PROVE BundleInv'
  OBVIOUS
<1>1. ASSUME NEW data \in Encodings, DecodeId(data) PROVE BundleInv'
  BY <1>1 DEF DecodeId, BundleInv, ClientInv, AdmitInv
<1>2. ASSUME NEW k \in Configurations, Configure(k.scheme, k.endpoints) PROVE BundleInv'
  <2> DEFINE scheme == k.scheme
             X == {scheme[i] : i \in DOMAIN scheme}
             r == new_client(scheme, k.endpoints)
  <2>1. \A x \in Configurations : /\ x.scheme \in Seq({x.scheme[i] : i \in DOMAIN x.scheme})
                                   /\ \A i \in DOMAIN x.scheme : IsShardId(x.scheme[i])
                                   /\ Len(x.endpoints) \in Nat /\ DOMAIN x.endpoints = 1..Len(x.endpoints)
    BY ServedAssumption
  <2>2. /\ scheme \in Seq(X) /\ \A i \in DOMAIN scheme : IsShardId(scheme[i])
        /\ Len(k.endpoints) \in Nat /\ DOMAIN k.endpoints = 1..Len(k.endpoints)
    <3>1. scheme \in Seq(X)
      BY <2>1
    <3>2. \A i \in DOMAIN scheme : IsShardId(scheme[i])
      BY <2>1
    <3>3. Len(k.endpoints) \in Nat /\ DOMAIN k.endpoints = 1..Len(k.endpoints)
      BY <2>1
    <3> QED BY <3>1, <3>2, <3>3
  <2>3. \A i \in DOMAIN scheme : Canonical(scheme[i])
    BY <2>2, ShardIdIsCanonical
  <2>4. client' = (IF r.ok THEN r.value ELSE None) /\ answer'.op = "configure"
    BY <1>2 DEF Configure
  <2> HIDE DEF scheme, X
  <2>5. r.ok => \E n : IsClient(r.value, n)
    BY <2>2, <2>3, ClientIs
  <2> HIDE DEF r
  <2>6. ClientInv'
    BY <2>4, <2>5 DEF ClientInv
  <2>7. AdmitInv'
    BY <2>4 DEF AdmitInv
  <2> QED BY <2>6, <2>7 DEF BundleInv
<1>3. ASSUME NEW items \in Bundles, Admit(items) PROVE BundleInv'
  <2>1. ClientInv'
    BY <1>3 DEF Admit, BundleInv, ClientInv
  <2>2. AdmitInv'
    <3> DEFINE g == group(client, items)
    <3>1. /\ client' = client /\ client # None /\ answer'.items = items /\ answer'.result = g
          /\ answer'.bound = IF g.ok THEN from_routed(client.shards, items, g.value.shard_of) ELSE None
      BY <1>3 DEF Admit
    <3> HIDE DEF g
    <3> QED BY <3>1 DEF AdmitInv, g
  <2> QED BY <2>1, <2>2 DEF BundleInv
<1>4. ASSUME NEW world \in Worlds, Seal(world) PROVE BundleInv'
  BY <1>4 DEF Seal, BundleInv, ClientInv, AdmitInv
<1>5. ASSUME NEW w, NEW uc, NEW pins, Authenticate(w, uc, pins) \/ Assemble(w, uc, pins)
      PROVE  BundleInv'
  BY <1>5 DEF Authenticate, Assemble, BundleInv, ClientInv, AdmitInv
<1>6. ASSUME NEW shard \in ConfiguredIds, CertificateOf(shard) PROVE BundleInv'
  BY <1>6 DEF CertificateOf, BundleInv, ClientInv, AdmitInv
<1>7. ASSUME NEW uc, NEW p, CheckMembership(uc, p) \/ CheckAbsence(uc, p)
      PROVE  BundleInv'
  BY <1>7 DEF CheckMembership, CheckAbsence, BundleInv, ClientInv, AdmitInv
<1>8. CASE UNCHANGED vars
  BY <1>8 DEF vars, BundleInv, ClientInv, AdmitInv
<1> QED BY <1>1, <1>2, <1>3, <1>4, <1>5, <1>6, <1>7, <1>8 DEF Next

(* ProofClient::group accepts a bundle exactly when no state has two       *)
(* proofs that differ, every state is served by an endpoint and no shard   *)
(* gets more than a batch: its other cap, a batch for every endpoint,      *)
(* never refuses more.  Then every distinct state is in the group of its   *)
(* shard once, in order of arrival, the groups are in canonical order, and *)
(* from_routed names the newest round and a shard that takes part: for     *)
(* schemes, endpoints and bundles of any size.                             *)
THEOREM GroupsAdmitted == Spec => []GroupsExact
<1>1. Init => BundleInv
  BY DEF Init, BundleInv, ClientInv, AdmitInv
<1>2. BundleInv => GroupsExact
  <2> SUFFICES ASSUME BundleInv, answer.op = "admit" PROVE GroupsExact
    BY DEF GroupsExact
  <2> DEFINE items == answer.items
             l == Len(items)
             r == answer.result
  <2>1. PICK n : IsClient(client, n)
    BY DEF BundleInv, ClientInv, AdmitInv
  <2>2. /\ items \in Bundles /\ r = group(client, items)
        /\ r.ok => answer.bound = from_routed(client.shards, items, r.value.shard_of)
    BY DEF BundleInv, AdmitInv
  <2>3. \A x \in Bundles : /\ x \in Seq({x[i] : i \in DOMAIN x})
                           /\ \A i \in DOMAIN x : x[i].state_id \in Keys /\ x[i].round \in Nat
    BY ServedAssumption
  <2>4. IsBundle(items, l)
    <3> HIDE DEF items
    <3>1. items \in Seq({items[i] : i \in DOMAIN items})
      BY <2>2, <2>3
    <3>2. l \in Nat /\ DOMAIN items = 1..l
      BY <3>1
    <3> QED BY <2>2, <2>3, <3>1, <3>2 DEF IsBundle
  <2> HIDE DEF l
  <2>5. /\ r.ok <=> Admitted(client, items)
        /\ r.ok => /\ GroupsOf(client, items, r.value.groups)
                   /\ BoundOf(items, r.value.groups, from_routed(client.shards, items, r.value.shard_of))
    BY <2>1, <2>2, <2>4, BundleExact
  <2>6. r.ok => BoundOf(items, r.value.groups, answer.bound)
    BY <2>2, <2>5
  <2> QED BY <2>5, <2>6 DEF GroupsExact, Admitted, GroupsOf, BoundOf, OfShard
<1> QED BY <1>1, <1>2, BundleStep, PTL DEF Spec
=============================================================================
