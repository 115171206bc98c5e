----------------------------- MODULE SplitProofs -----------------------------
(***************************************************************************)
(* The conservation of value by splits, for keys of any length, amounts of *)
(* any size and any trees, proofs, payments and crashes.                   *)
(*                                                                         *)
(* A proof that verifies gives its output a place in the source: the       *)
(* amounts to the left of its leaf come before it.  Under one root the     *)
(* places of different keys do not overlap, whatever tree was committed    *)
(* to, because two climbs that meet in a node came from its two sides, and *)
(* the node commits to the sums of both.  So the units of all accepted     *)
(* outputs have different places among those of the source.                *)
(*                                                                         *)
(* The second half is about a split that the SDK builds: the proofs of the *)
(* trees it commits to verify, by induction over the depth of the tree,    *)
(* and its outputs hold all of the source.                                 *)
(***************************************************************************)
EXTENDS Split, FiniteSetTheorems, SequenceTheorems, WellFoundedInduction, TLAPS

(* A function into the naturals has a largest value on a finite set.       *)
LEMMA LargestExists ==
  ASSUME NEW S, IsFiniteSet(S), S # {}, NEW f \in [S -> Nat]
  PROVE  \E m \in S : \A s \in S : f[s] <= f[m]
<1> DEFINE Above(m) == {s \in S : f[s] > f[m]}
           T == {Above(m) : m \in S}
<1>1. T \subseteq FiniteSubsetsOf(S) /\ T # {}
  <2>1. FiniteSubsetsOf(S) = SUBSET S
    BY FS_FiniteSubsetsOfFinite
  <2>2. T \subseteq SUBSET S
    OBVIOUS
  <2>3. T # {}
    <3>1. PICK m \in S : TRUE
      OBVIOUS
    <3>2. Above(m) \in T
      BY <3>1
    <3> QED BY <3>2
  <2> QED BY <2>1, <2>2, <2>3
<1>2. PICK a \in T : \A b \in T : ~(<<b, a>> \in StrictSubsetOrdering(S))
  BY <1>1, FS_StrictSubsetOrderingWellFounded, WFMin
<1>3. PICK m \in S : a = Above(m)
  BY <1>2
<1>4. Above(m) = {}
  <2> SUFFICES ASSUME NEW s \in S, f[s] > f[m] PROVE FALSE
    OBVIOUS
  <2>1. Above(s) \subseteq Above(m) /\ Above(s) # Above(m)
    OBVIOUS
  <2>2. <<Above(s), Above(m)>> \in StrictSubsetOrdering(S)
    BY <2>1 DEF StrictSubsetOrdering
  <2> QED BY <1>2, <1>3, <2>2
<1> QED BY <1>4

(* Induction up to n, and down from it, in terms of sets.                  *)
LEMMA UpTo ==
  ASSUME NEW n \in Nat, NEW S, 0 \in S, \A i \in 1..n : i - 1 \in S => i \in S
  PROVE  0..n \subseteq S
<1> SUFFICES ASSUME (0..n) \ S # {} PROVE FALSE
  OBVIOUS
<1> DEFINE bad == (0..n) \ S
           f == [i \in bad |-> n - i]
<1>1. IsFiniteSet(bad)
  <2>1. IsFiniteSet(0..n)
    BY FS_Interval
  <2> QED BY <2>1, FS_Subset
<1>2. f \in [bad -> Nat]
  OBVIOUS
<1>3. PICK m \in bad : \A i \in bad : f[i] <= f[m]
  <2> HIDE DEF f
  <2> QED BY <1>1, <1>2, LargestExists
<1>4. m \in 1..n /\ m - 1 \in 0..n
  OBVIOUS
<1>5. m - 1 \notin bad
  BY <1>3, <1>4
<1> QED BY <1>4, <1>5

LEMMA DownFrom ==
  ASSUME NEW n \in Nat, NEW S, n \in S, \A i \in 1..n : i \in S => i - 1 \in S
  PROVE  0..n \subseteq S
<1> DEFINE R == {i \in 0..n : n - i \in S}
<1>1. 0 \in R
  OBVIOUS
<1>2. ASSUME NEW i \in 1..n, i - 1 \in R
      PROVE  i \in R
  <2>1. n - (i - 1) \in 1..n /\ n - (i - 1) \in S /\ (n - (i - 1)) - 1 = n - i
    BY <1>2
  <2>2. n - i \in S
    BY <2>1
  <2> QED BY <2>2
<1>3. 0..n \subseteq R
  <2> HIDE DEF R
  <2> QED BY <1>1, <1>2, UpTo
<1>4. ASSUME NEW j \in 0..n PROVE j \in S
  <2>1. n - j \in 0..n /\ n - (n - j) = j
    OBVIOUS
  <2>2. n - j \in R
    BY <1>3, <2>1
  <2> QED BY <2>1, <2>2
<1> QED BY <1>4

-----------------------------------------------------------------------------
(* Climbing.                                                               *)

LeafAt(key, data, value) ==
  [hash |-> leaf_hash(key, data, value), sum |-> value, prev_depth |-> KeyBits]

(* The recursive function of verify is the sequence of Climb's results.    *)
LEMMA ClimbedSteps ==
  ASSUME NEW steps, NEW key, NEW data, NEW value, Len(steps) \in Nat
  PROVE  LET at == Climbed(steps, key, data, value) IN
         /\ at[0] = LeafAt(key, data, value)
         /\ \A i \in 1..Len(steps) : at[i] = Climb(key, at[i - 1], steps[i])
<1> DEFINE leaf == LeafAt(key, data, value)
           IsClimb(f, n) ==
             f = [i \in 0..n |-> IF i = 0 THEN leaf ELSE Climb(key, f[i - 1], steps[i])]
           S == {n \in Nat : \E f : IsClimb(f, n)}
<1> HIDE DEF leaf
<1>1. 0 \in S
  <2>1. IsClimb([i \in 0..0 |-> leaf], 0)
    OBVIOUS
  <2> QED BY <2>1
<1>2. ASSUME NEW n \in 1..Len(steps), n - 1 \in S
      PROVE  n \in S
  <2>1. PICK f : IsClimb(f, n - 1)
    BY <1>2
  <2> DEFINE g == [i \in 0..n |-> IF i = n THEN Climb(key, f[n - 1], steps[n]) ELSE f[i]]
  <2>2. ASSUME NEW i \in 0..n
        PROVE  g[i] = IF i = 0 THEN leaf ELSE Climb(key, g[i - 1], steps[i])
    <3>1. CASE i = n
      BY <3>1
    <3>2. CASE i # n
      <4>1. i \in 0..(n - 1) /\ g[i] = f[i]
        BY <3>2
      <4>2. f[i] = IF i = 0 THEN leaf ELSE Climb(key, f[i - 1], steps[i])
        BY <2>1, <4>1
      <4>3. i # 0 => g[i - 1] = f[i - 1]
        BY <3>2
      <4> QED BY <4>1, <4>2, <4>3
    <3> QED BY <3>1, <3>2
  <2>3. g = [i \in 0..n |-> IF i = 0 THEN leaf ELSE Climb(key, g[i - 1], steps[i])]
    BY <2>2
  <2> HIDE DEF g
  <2>4. IsClimb(g, n)
    BY <2>3
  <2> QED BY <2>4
<1>3. Len(steps) \in S
  <2>1. 0..Len(steps) \subseteq S
    <3> HIDE DEF S
    <3> QED BY <1>1, <1>2, UpTo
  <2> QED BY <2>1
<1>4. IsClimb(Climbed(steps, key, data, value), Len(steps))
  <2>1. \E f : IsClimb(f, Len(steps))
    BY <1>3
  <2>2. Climbed(steps, key, data, value) = CHOOSE f : IsClimb(f, Len(steps))
    BY Zenon DEF Climbed, leaf, LeafAt
  <2> HIDE DEF IsClimb
  <2> QED BY <2>1, <2>2
<1> DEFINE at == Climbed(steps, key, data, value)
<1> HIDE DEF at
<1>5. at = [i \in 0..Len(steps) |-> IF i = 0 THEN leaf ELSE Climb(key, at[i - 1], steps[i])]
  BY <1>4 DEF at
<1>6. at[0] = leaf /\ \A i \in 1..Len(steps) : at[i] = Climb(key, at[i - 1], steps[i])
  BY <1>5
<1> QED BY <1>6 DEF at, leaf

(* A step that succeeds.                                                   *)
Side(key, depth) == key_bit(key, depth) = 1

Stepped(key, below, step, above) ==
  /\ step.sum \in Nat
  /\ above.sum = below.sum + step.sum
  /\ above.hash = IF Side(key, step.depth) THEN NodeOf(step.depth, step, below)
                                           ELSE NodeOf(step.depth, below, step)

LEMMA ClimbStep ==
  ASSUME NEW key, NEW at, at.sum \in Nat, NEW step, Climb(key, at, step).sum # None
  PROVE  Stepped(key, at, step, Climb(key, at, step)) /\ Climb(key, at, step).sum \in Nat
<1> DEFINE parent == IF Side(key, step.depth) THEN node_hash(step.depth, step, at)
                                              ELSE node_hash(step.depth, at, step)
<1>1. /\ is_valid_amount(step.sum) /\ parent # None
      /\ Climb(key, at, step)
           = [hash |-> parent.hash, sum |-> parent.sum, prev_depth |-> step.depth]
  <2>1. Climb(key, at, step)
          = IF \/ at.sum = None \/ step.depth >= at.prev_depth \/ ~is_valid_amount(step.sum)
               \/ parent = None
            THEN [hash |-> None, sum |-> None, prev_depth |-> 0]
            ELSE [hash |-> parent.hash, sum |-> parent.sum, prev_depth |-> step.depth]
    BY DEF Climb, Side
  <2> HIDE DEF parent
  <2> QED BY <2>1
<1>2. step.sum \in Nat
  BY <1>1, RsmstAssumption DEF is_valid_amount
<1>3. CASE Side(key, step.depth)
  <2>1. parent = [hash |-> NodeOf(step.depth, step, at), sum |-> step.sum + at.sum]
    BY <1>1, <1>3 DEF node_hash
  <2> QED BY <1>1, <1>2, <1>3, <2>1 DEF Stepped
<1>4. CASE ~Side(key, step.depth)
  <2>1. parent = [hash |-> NodeOf(step.depth, at, step), sum |-> at.sum + step.sum]
    BY <1>1, <1>4 DEF node_hash
  <2> QED BY <1>1, <1>2, <1>4, <2>1 DEF Stepped
<1> QED BY <1>3, <1>4

(* The offset of a leaf below the n-th node above it grows by the sums     *)
(* that join from the left.                                                *)
Offset(key, step) == IF Side(key, step.depth) THEN step.sum ELSE 0

Offsets(low, key, steps, n) ==
  low[0] = 0 /\ \A i \in 1..n : low[i] = low[i - 1] + Offset(key, steps[i])

(* A climb of n steps: what was reached after each, and the offset of the  *)
(* leaf in it; the leaf lies within the sum.                               *)
Climbs(at, low, steps, n, key, data, value) ==
  /\ n \in Nat /\ value \in Nat
  /\ at[0] = LeafAt(key, data, value)
  /\ \A i \in 1..n : Stepped(key, at[i - 1], steps[i], at[i])
  /\ Offsets(low, key, steps, n)
  /\ \A i \in 0..n : at[i].sum \in Nat /\ low[i] \in Nat /\ low[i] + value <= at[i].sum

LEMMA OffsetsExist ==
  ASSUME NEW n \in Nat, NEW key, NEW steps
  PROVE  \E low : Offsets(low, key, steps, n)
<1> DEFINE IsLow(f, k) == Offsets(f, key, steps, k)
           S == {k \in Nat : \E f : IsLow(f, k)}
<1>1. 0 \in S
  <2>1. IsLow([i \in {0} |-> 0], 0)
    BY DEF Offsets
  <2> QED BY <2>1
<1>2. ASSUME NEW k \in 1..n, k - 1 \in S
      PROVE  k \in S
  <2>1. PICK f : IsLow(f, k - 1)
    BY <1>2
  <2> DEFINE g == [i \in 0..k |-> IF i = k THEN f[k - 1] + Offset(key, steps[k]) ELSE f[i]]
  <2>2. g[0] = 0
    BY <2>1 DEF Offsets
  <2>3. ASSUME NEW i \in 1..k
        PROVE  g[i] = g[i - 1] + Offset(key, steps[i])
    <3>1. g[i - 1] = f[i - 1]
      OBVIOUS
    <3>2. CASE i = k
      BY <3>1, <3>2
    <3>3. CASE i # k
      <4>1. i \in 1..(k - 1) /\ g[i] = f[i]
        BY <3>3
      <4> QED BY <2>1, <3>1, <4>1 DEF Offsets
    <3> QED BY <3>2, <3>3
  <2> HIDE DEF g
  <2>4. IsLow(g, k)
    BY <2>2, <2>3 DEF Offsets
  <2> QED BY <2>4
<1>3. 0..n \subseteq S
  <2> HIDE DEF S
  <2> QED BY <1>1, <1>2, UpTo
<1> QED BY <1>3

(* A proof that verifies is a climb to the root.                           *)
LEMMA VerifyClimbs ==
  ASSUME NEW steps, NEW key, NEW data, NEW value, NEW root, NEW total \in Nat,
         verify(steps, key, data, value, root) = total
  PROVE  \E at, low : /\ Climbs(at, low, steps, Len(steps), key, data, value)
                      /\ at[Len(steps)].hash = root /\ at[Len(steps)].sum = total
<1> DEFINE n == Len(steps)
           at == Climbed(steps, key, data, value)
<1>1. /\ is_valid_amount(value) /\ n \in 0..KeyBits
      /\ at[n].hash = root /\ at[n].sum = total
  <2> HIDE DEF n, at
  <2>1. verify(steps, key, data, value, root)
          = IF ~is_valid_amount(value) \/ n \notin 0..KeyBits \/ at[n].hash # root THEN None
            ELSE at[n].sum
    BY Zenon DEF verify, n, at
  <2>2. total # None
    BY RsmstAssumption
  <2> QED BY <2>1, <2>2
<1>2. n \in Nat /\ value \in Nat
  BY <1>1, RsmstAssumption DEF is_valid_amount
<1>3. /\ at[0] = LeafAt(key, data, value)
      /\ \A i \in 1..n : at[i] = Climb(key, at[i - 1], steps[i])
  BY <1>2, ClimbedSteps
<1> HIDE DEF at, n
<1>4. \A i \in 0..n : at[i].sum # None
  <2> DEFINE S == {i \in 0..n : at[i].sum # None}
  <2>1. n \in S
    BY <1>1, <1>2, RsmstAssumption
  <2>2. ASSUME NEW i \in 1..n, i \in S
        PROVE  i - 1 \in S
    <3>1. Climb(key, at[i - 1], steps[i]).sum # None
      BY <1>3, <2>2
    <3>2. at[i - 1].sum # None
      BY <3>1 DEF Climb
    <3>3. i - 1 \in 0..n
      BY <1>2
    <3> QED BY <3>2, <3>3
  <2>3. 0..n \subseteq S
    <3> HIDE DEF S
    <3> QED BY <1>2, <2>1, <2>2, DownFrom
  <2> QED BY <2>3
<1>5. PICK low : Offsets(low, key, steps, n)
  BY <1>2, OffsetsExist
<1> DEFINE Fits(i) == at[i].sum \in Nat /\ low[i] \in Nat /\ low[i] + value <= at[i].sum
<1>6. ASSUME NEW i \in 1..n, at[i - 1].sum \in Nat
      PROVE  Stepped(key, at[i - 1], steps[i], at[i]) /\ at[i].sum \in Nat
  <2>1. at[i] = Climb(key, at[i - 1], steps[i]) /\ at[i].sum # None
    BY <1>2, <1>3, <1>4
  <2>2. Climb(key, at[i - 1], steps[i]).sum # None
    BY <2>1
  <2>3. /\ Stepped(key, at[i - 1], steps[i], Climb(key, at[i - 1], steps[i]))
        /\ Climb(key, at[i - 1], steps[i]).sum \in Nat
    BY <1>6, <2>2, ClimbStep
  <2> QED BY <2>1, <2>3
<1>7. \A i \in 0..n : Fits(i)
  <2> DEFINE S == {i \in 0..n : Fits(i)}
  <2>1. 0 \in S
    BY <1>2, <1>3, <1>5 DEF LeafAt, Offsets
  <2>2. ASSUME NEW i \in 1..n, i - 1 \in S
        PROVE  i \in S
    <3>1. Fits(i - 1) /\ i \in 0..n
      BY <1>2, <2>2
    <3>2. Stepped(key, at[i - 1], steps[i], at[i]) /\ at[i].sum \in Nat
      BY <1>6, <3>1
    <3>3. steps[i].sum \in Nat /\ at[i].sum = at[i - 1].sum + steps[i].sum
      BY <3>2 DEF Stepped
    <3>4. Offset(key, steps[i]) \in Nat /\ Offset(key, steps[i]) <= steps[i].sum
      BY <3>3 DEF Offset
    <3>5. low[i] = low[i - 1] + Offset(key, steps[i])
      BY <1>5 DEF Offsets
    <3>6. Fits(i)
      BY <1>2, <3>1, <3>3, <3>4, <3>5
    <3> QED BY <3>1, <3>6
  <2>3. 0..n \subseteq S
    <3> HIDE DEF S
    <3> QED BY <1>2, <2>1, <2>2, UpTo
  <2> QED BY <2>3
<1>8. \A i \in 1..n : Stepped(key, at[i - 1], steps[i], at[i])
  <2> TAKE i \in 1..n
  <2>1. i - 1 \in 0..n
    BY <1>2
  <2> QED BY <1>6, <1>7, <2>1
<1>9. Climbs(at, low, steps, n, key, data, value)
  BY <1>2, <1>3, <1>5, <1>7, <1>8 DEF Climbs
<1> QED BY <1>1, <1>9 DEF n

(* The leaf of one climb, below its i-th node, and that of another, below  *)
(* its j-th, do not overlap.                                               *)
Apart(low, i, value, low2, j, value2) ==
  low[i] + value <= low2[j] \/ low2[j] + value2 <= low[i]

Meet(at, i, at2, j) == at[i].hash = at2[j].hash /\ at[i].sum = at2[j].sum

(* The hash of a node gives away its children, and that of a leaf its key. *)
LEMMA NodesEqual ==
  ASSUME NEW d, NEW l, NEW r, NEW e, NEW x, NEW y, NodeOf(d, l, r) = NodeOf(e, x, y)
  PROVE  /\ d = e /\ l.hash = x.hash /\ l.sum = x.sum
         /\ r.hash = y.hash /\ r.sum = y.sum
BY DEF NodeOf

LEMMA LeavesEqual ==
  ASSUME NEW key, NEW data, NEW value, NEW key2, NEW data2, NEW value2,
         leaf_hash(key, data, value) = leaf_hash(key2, data2, value2)
  PROVE  key = key2
BY DEF leaf_hash

LEMMA LeafIsNoNode ==
  ASSUME NEW key, NEW data, NEW value, NEW d, NEW l, NEW r
  PROVE  leaf_hash(key, data, value) # NodeOf(d, l, r)
<1>1. leaf_hash(key, data, value).prefix = "RSMST_LEAF"
  BY DEF leaf_hash
<1>2. NodeOf(d, l, r).prefix = "RSMST_NODE"
  BY DEF NodeOf
<1> QED BY <1>1, <1>2

(* One step down from where two climbs meet: they came from its two sides, *)
(* or meet there again.                                                    *)
LEMMA MeetBelow ==
  ASSUME NEW at, NEW low, NEW steps, NEW n, NEW key, NEW data, NEW value,
         Climbs(at, low, steps, n, key, data, value),
         NEW at2, NEW low2, NEW steps2, NEW m, NEW key2, NEW data2, NEW value2,
         Climbs(at2, low2, steps2, m, key2, data2, value2),
         NEW i \in 1..n, NEW j \in 1..m, Meet(at, i, at2, j)
  PROVE  \/ Apart(low, i, value, low2, j, value2)
         \/ /\ Meet(at, i - 1, at2, j - 1)
            /\ Apart(low, i - 1, value, low2, j - 1, value2) => Apart(low, i, value, low2, j, value2)
<1> DEFINE s == steps[i]
           t == steps2[j]
           right == Side(key, s.depth)
           right2 == Side(key2, t.depth)
<1>1. /\ Stepped(key, at[i - 1], s, at[i]) /\ low[i] = low[i - 1] + Offset(key, s)
      /\ Stepped(key2, at2[j - 1], t, at2[j]) /\ low2[j] = low2[j - 1] + Offset(key2, t)
  BY DEF Climbs, Offsets
<1>2. /\ n \in Nat /\ m \in Nat /\ value \in Nat /\ value2 \in Nat
      /\ i - 1 \in 0..n /\ j - 1 \in 0..m /\ i \in 0..n /\ j \in 0..m
  BY DEF Climbs
<1>3. /\ at[i - 1].sum \in Nat /\ low[i - 1] \in Nat /\ low[i - 1] + value <= at[i - 1].sum
      /\ at2[j - 1].sum \in Nat /\ low2[j - 1] \in Nat /\ low2[j - 1] + value2 <= at2[j - 1].sum
  BY <1>2 DEF Climbs
<1>4. /\ s.sum \in Nat /\ t.sum \in Nat
      /\ at[i].hash = IF right THEN NodeOf(s.depth, s, at[i - 1])
                               ELSE NodeOf(s.depth, at[i - 1], s)
      /\ at2[j].hash = IF right2 THEN NodeOf(t.depth, t, at2[j - 1])
                                 ELSE NodeOf(t.depth, at2[j - 1], t)
  BY <1>1 DEF Stepped
<1>5. /\ low[i] = low[i - 1] + (IF right THEN s.sum ELSE 0)
      /\ low2[j] = low2[j - 1] + (IF right2 THEN t.sum ELSE 0)
  BY <1>1 DEF Offset
<1>6. at[i].hash = at2[j].hash
  BY DEF Meet
<1> DEFINE a == at[i - 1]
           b == at2[j - 1]
           x == low[i - 1]
           y == low2[j - 1]
<1> HIDE DEF s, t, right, right2, a, b, x, y
<1>7. CASE right /\ ~right2
  <2>1. NodeOf(s.depth, s, a) = NodeOf(t.depth, b, t)
    BY <1>4, <1>6, <1>7 DEF a, b
  <2>2. s.sum = b.sum
    BY <2>1, NodesEqual
  <2>3. low2[j] + value2 <= low[i]
    BY <1>2, <1>3, <1>4, <1>5, <1>7, <2>2 DEF b
  <2> QED BY <2>3 DEF Apart
<1>8. CASE ~right /\ right2
  <2>1. NodeOf(s.depth, a, s) = NodeOf(t.depth, t, b)
    BY <1>4, <1>6, <1>8 DEF a, b
  <2>2. t.sum = a.sum
    BY <2>1, NodesEqual
  <2>3. low[i] + value <= low2[j]
    BY <1>2, <1>3, <1>4, <1>5, <1>8, <2>2 DEF a
  <2> QED BY <2>3 DEF Apart
<1>9. CASE right /\ right2
  <2>1. NodeOf(s.depth, s, a) = NodeOf(t.depth, t, b)
    BY <1>4, <1>6, <1>9 DEF a, b
  <2>2. s.sum = t.sum /\ a.hash = b.hash /\ a.sum = b.sum
    BY <2>1, NodesEqual
  <2>3. Meet(at, i - 1, at2, j - 1)
    BY <2>2 DEF Meet, a, b
  <2>4. ASSUME low[i - 1] + value <= low2[j - 1] \/ low2[j - 1] + value2 <= low[i - 1]
        PROVE  low[i] + value <= low2[j] \/ low2[j] + value2 <= low[i]
    BY <1>2, <1>3, <1>4, <1>5, <1>9, <2>2, <2>4
  <2> QED BY <2>3, <2>4 DEF Apart
<1>10. CASE ~right /\ ~right2
  <2>1. NodeOf(s.depth, a, s) = NodeOf(t.depth, b, t)
    BY <1>4, <1>6, <1>10 DEF a, b
  <2>2. a.hash = b.hash /\ a.sum = b.sum
    BY <2>1, NodesEqual
  <2>3. Meet(at, i - 1, at2, j - 1)
    BY <2>2 DEF Meet, a, b
  <2>4. low[i] = low[i - 1] /\ low2[j] = low2[j - 1]
    BY <1>3, <1>5, <1>10
  <2> QED BY <2>3, <2>4 DEF Apart
<1> QED BY <1>7, <1>8, <1>9, <1>10

(* Under one root with one sum, the leaves of different keys are apart.    *)
LEMMA Disjoint ==
  ASSUME NEW at, NEW low, NEW steps, NEW n, NEW key, NEW data, NEW value,
         Climbs(at, low, steps, n, key, data, value),
         NEW at2, NEW low2, NEW steps2, NEW m, NEW key2, NEW data2, NEW value2,
         Climbs(at2, low2, steps2, m, key2, data2, value2),
         Meet(at, n, at2, m), key # key2
  PROVE  Apart(low, n, value, low2, m, value2)
<1>1. n \in Nat /\ m \in Nat
  BY DEF Climbs
<1> DEFINE Good(i, j) == Meet(at, i, at2, j) => Apart(low, i, value, low2, j, value2)
           S == {i \in 0..n : \A j \in 0..m : Good(i, j)}
<1>2. 0 \in S
  <2> SUFFICES ASSUME NEW j \in 0..m, Meet(at, 0, at2, j)
               PROVE  FALSE
    BY <1>1
  <2>1. at[0].hash = leaf_hash(key, data, value) /\ at2[0].hash = leaf_hash(key2, data2, value2)
    BY DEF Climbs, LeafAt
  <2>2. CASE j = 0
    <3>1. leaf_hash(key, data, value) = leaf_hash(key2, data2, value2)
      BY <2>1, <2>2 DEF Meet
    <3> QED BY <3>1, LeavesEqual
  <2>3. CASE j # 0
    <3>1. Stepped(key2, at2[j - 1], steps2[j], at2[j])
      BY <1>1, <2>3 DEF Climbs
    <3>2. \E d, l, r : at2[j].hash = NodeOf(d, l, r)
      BY <3>1 DEF Stepped
    <3> QED BY <2>1, <3>2, LeafIsNoNode DEF Meet
  <2> QED BY <2>2, <2>3
<1>3. ASSUME NEW i \in 1..n, i - 1 \in S
      PROVE  i \in S
  <2> SUFFICES ASSUME NEW j \in 0..m, Meet(at, i, at2, j)
               PROVE  Apart(low, i, value, low2, j, value2)
    BY <1>1
  <2>1. CASE j = 0
    <3>1. Stepped(key, at[i - 1], steps[i], at[i])
      BY DEF Climbs
    <3>2. \E d, l, r : at[i].hash = NodeOf(d, l, r)
      BY <3>1 DEF Stepped
    <3>3. at2[0].hash = leaf_hash(key2, data2, value2)
      BY DEF Climbs, LeafAt
    <3> QED BY <2>1, <3>2, <3>3, LeafIsNoNode DEF Meet
  <2>2. CASE j # 0
    <3>1. j \in 1..m /\ j - 1 \in 0..m
      BY <1>1, <2>2
    <3>2. Good(i - 1, j - 1)
      BY <1>3, <3>1
    <3>3. \/ Apart(low, i, value, low2, j, value2)
          \/ /\ Meet(at, i - 1, at2, j - 1)
             /\ Apart(low, i - 1, value, low2, j - 1, value2) => Apart(low, i, value, low2, j, value2)
      BY <3>1, MeetBelow
    <3> QED BY <3>2, <3>3
  <2> QED BY <2>1, <2>2
<1>4. 0..n \subseteq S
  <2> HIDE DEF S
  <2> QED BY <1>1, <1>2, <1>3, UpTo
<1> QED BY <1>1, <1>4

-----------------------------------------------------------------------------
(* Places in the source.                                                   *)

(* An amount under a key has its place below a root.                       *)
Placed(root, total, key, value, place) ==
  \E at, low, steps, n, data :
    /\ Climbs(at, low, steps, n, key, data, value)
    /\ at[n].hash = root /\ at[n].sum = total /\ place = low[n]

LEMMA PlaceFits ==
  ASSUME NEW root, NEW total, NEW key, NEW value, NEW place, Placed(root, total, key, value, place)
  PROVE  total \in Nat /\ value \in Nat /\ place \in Nat /\ place + value <= total
<1>1. PICK at, low, steps, n, data :
        /\ Climbs(at, low, steps, n, key, data, value)
        /\ at[n].hash = root /\ at[n].sum = total /\ place = low[n]
  BY DEF Placed
<1>2. n \in 0..n /\ value \in Nat
  BY <1>1 DEF Climbs
<1> QED BY <1>1, <1>2 DEF Climbs

LEMMA PlacesApart ==
  ASSUME NEW root, NEW total,
         NEW key, NEW value, NEW place, Placed(root, total, key, value, place),
         NEW key2, NEW value2, NEW place2, Placed(root, total, key2, value2, place2),
         key # key2
  PROVE  place + value <= place2 \/ place2 + value2 <= place
<1>1. PICK at, low, steps, n, data :
        /\ Climbs(at, low, steps, n, key, data, value)
        /\ at[n].hash = root /\ at[n].sum = total /\ place = low[n]
  BY DEF Placed
<1>2. PICK at2, low2, steps2, m, data2 :
        /\ Climbs(at2, low2, steps2, m, key2, data2, value2)
        /\ at2[m].hash = root /\ at2[m].sum = total /\ place2 = low2[m]
  BY DEF Placed
<1>3. Meet(at, n, at2, m)
  BY <1>1, <1>2 DEF Meet
<1>4. Apart(low, n, value, low2, m, value2)
  BY <1>1, <1>2, <1>3, Disjoint
<1> QED BY <1>1, <1>2, <1>4 DEF Apart

LEMMA IncreasingIsInjective ==
  ASSUME NEW n \in Nat, NEW f \in [1..n -> Int], \A k \in 2..n : f[k - 1] < f[k],
         NEW i \in 1..n, NEW j \in 1..n, f[i] = f[j]
  PROVE  i = j
<1> DEFINE S == {d \in Nat : \A k \in 1..n : k + d + 1 \in 1..n => f[k] < f[k + d + 1]}
<1>1. 0 \in S
  <2> SUFFICES ASSUME NEW k \in 1..n, k + 1 \in 1..n
               PROVE  f[k] < f[k + 1]
    OBVIOUS
  <2>1. k + 1 \in 2..n /\ (k + 1) - 1 = k
    OBVIOUS
  <2> QED BY <2>1
<1>2. ASSUME NEW d \in 1..n, d - 1 \in S
      PROVE  d \in S
  <2> SUFFICES ASSUME NEW k \in 1..n, k + d + 1 \in 1..n
               PROVE  f[k] < f[k + d + 1]
    OBVIOUS
  <2>1. k + d \in 1..n /\ k + (d - 1) + 1 = k + d /\ k + d + 1 \in 2..n /\ (k + d + 1) - 1 = k + d
    OBVIOUS
  <2>2. f[k] < f[k + d]
    BY <1>2, <2>1
  <2>3. f[k + d] < f[k + d + 1]
    BY <2>1
  <2> QED BY <2>1, <2>2, <2>3
<1>3. 0..n \subseteq S
  <2> HIDE DEF S
  <2> QED BY <1>1, <1>2, UpTo
<1>4. ASSUME NEW a \in 1..n, NEW b \in 1..n, a < b
      PROVE  f[a] # f[b]
  <2>1. b - a - 1 \in 0..n /\ a + (b - a - 1) + 1 = b
    BY <1>4
  <2>2. f[a] < f[b]
    BY <1>3, <2>1
  <2> QED BY <2>2
<1>5. ~(i < j) /\ ~(j < i)
  BY <1>4
<1> QED BY <1>5

(* An id has at most one place in canonical payment data.                  *)
LEMMA OnePosition ==
  ASSUME NEW assets \in Seq([id : Int, value : Int]), decode(assets) # None,
         NEW i \in DOMAIN assets, NEW j \in DOMAIN assets, assets[i].id = assets[j].id
  PROVE  i = j
<1> DEFINE n == Len(assets)
           f == [k \in 1..n |-> assets[k].id]
<1>1. n \in Nat /\ DOMAIN assets = 1..n
  OBVIOUS
<1>2. f \in [1..n -> Int]
  <2>1. \A k \in 1..n : assets[k] \in [id : Int, value : Int]
    BY ElementOfSeq, Zenon
  <2>2. ASSUME NEW k \in 1..n PROVE assets[k].id \in Int
    <3>1. \A r \in [id : Int, value : Int] : r.id \in Int
      OBVIOUS
    <3> QED BY <2>1, <2>2, <3>1, Zenon
  <2> QED BY <2>2, Zenon
<1> DEFINE D == DOMAIN assets \ {1}
<1>3. \A k \in D : assets[k - 1].id < assets[k].id
  BY DEF decode
<1> HIDE DEF n, D
<1>4. ASSUME NEW k \in 2..n PROVE f[k - 1] < f[k]
  <2>1. k \in 1..n /\ k - 1 \in 1..n /\ k # 1
    BY <1>1
  <2>2. k \in D
    BY <1>1, <2>1, Zenon DEF D
  <2>3. assets[k - 1].id < assets[k].id
    BY <1>3, <2>2, Zenon
  <2> QED BY <2>1, <2>3, Zenon
<1>5. i \in 1..n /\ j \in 1..n
  BY <1>1, Zenon
<1>6. f[i] = f[j]
  BY <1>5, Zenon
<1> HIDE DEF f
<1> QED BY <1>1, <1>2, <1>4, <1>5, <1>6, IncreasingIsInjective

-----------------------------------------------------------------------------
(* The invariant.                                                          *)

(* Every accepted output passed the verifier against the burn that is      *)
(* certified now: what was accepted stays justified, because the source is *)
(* spent only once.                                                        *)
IInv ==
  /\ source \in Sources
  /\ \A key \in DOMAIN minted :
       \E mint : mint.token_id = key /\ mint.data = minted[key] /\ verify_split(mint, burn, burn)

LEMMA BurnNeeded ==
  ASSUME IInv, burn = NoBurn
  PROVE  DOMAIN minted = {}
BY DEF IInv, verify_split, ManifestBound

LEMMA MintKeeps ==
  ASSUME IInv, NEW mint, NEW b, Mint(mint, b)
  PROVE  IInv'
<1>1. /\ verify_split(mint, b, burn)
      /\ minted' = [key \in DOMAIN minted \cup {mint.token_id} |->
                       IF key = mint.token_id THEN mint.data ELSE minted[key]]
      /\ source' = source /\ burn' = burn
  BY DEF Mint, inputs
<1>2. b = burn
  BY <1>1 DEF verify_split, verify_embedded_token, ManifestBound
<1>3. \A m : verify_split(m, burn, burn)' <=> verify_split(m, burn, burn)
  BY <1>1 DEF verify_split, verify_embedded_token, verify_token_in_context, Allocated
<1>4. source' \in Sources
  BY <1>1 DEF IInv
<1>5. ASSUME NEW key \in DOMAIN minted'
      PROVE  \E m : m.token_id = key /\ m.data = minted'[key] /\ verify_split(m, burn, burn)'
  <2>1. CASE key = mint.token_id
    <3>1. minted'[key] = mint.data
      BY <1>1, <2>1
    <3>2. verify_split(mint, burn, burn)'
      BY <1>1, <1>2, <1>3
    <3> QED BY <2>1, <3>1, <3>2
  <2>2. CASE key # mint.token_id
    <3>1. key \in DOMAIN minted /\ minted'[key] = minted[key]
      BY <1>1, <2>2
    <3>2. PICK m : m.token_id = key /\ m.data = minted[key] /\ verify_split(m, burn, burn)
      BY <3>1 DEF IInv
    <3> QED BY <1>3, <3>1, <3>2
  <2> QED BY <2>1, <2>2
<1> QED BY <1>4, <1>5 DEF IInv

LEMMA UnchangedKeeps ==
  ASSUME IInv, source' = source, burn' = burn, minted' = minted
  PROVE  IInv'
<1>1. \A m : verify_split(m, burn, burn)' <=> verify_split(m, burn, burn)
  BY DEF verify_split, verify_embedded_token, verify_token_in_context, Allocated
<1> QED BY <1>1 DEF IInv

LEMMA FirstBurnKeeps ==
  ASSUME IInv, burn = NoBurn, source' = source, minted' = minted
  PROVE  IInv'
BY BurnNeeded DEF IInv

LEMMA InitInv ==
  ASSUME Init
  PROVE  IInv
BY DEF Init, IInv

LEMMA NextInv ==
  ASSUME IInv, [Next]_vars
  PROVE  IInv'
<1>1. CASE Build
  BY <1>1, UnchangedKeeps DEF Build, inputs
<1>2. CASE CertifyBurn
  <2>1. CASE burn = NoBurn
    BY <1>2, <2>1, FirstBurnKeeps DEF CertifyBurn, inputs
  <2>2. CASE burn # NoBurn
    BY <1>2, <2>2, UnchangedKeeps DEF CertifyBurn, inputs
  <2> QED BY <2>1, <2>2
<1>3. CASE MintOutput
  BY <1>3, MintKeeps DEF MintOutput
<1>4. CASE Crash
  BY <1>4, UnchangedKeeps DEF Crash, inputs
<1>5. CASE BurnAnyhow
  BY <1>5, FirstBurnKeeps DEF BurnAnyhow, inputs
<1>6. CASE MintAnything
  <2>1. \E mint, b : Mint(mint, b)
    BY <1>6, Zenon DEF MintAnything
  <2> QED BY <2>1, MintKeeps
<1>7. CASE UNCHANGED vars
  BY <1>7, UnchangedKeeps DEF vars
<1> QED BY <1>1, <1>2, <1>3, <1>4, <1>5, <1>6, <1>7 DEF Next

-----------------------------------------------------------------------------
(* The invariant gives conservation.                                       *)

(* The place of an asset in the source.                                    *)
SourceAt(id) == CHOOSE i \in Position(source.data, id) : TRUE

(* What an accepted output holds of an asset has a place below the root    *)
(* that the burn commits to for this asset.                                *)
LEMMA AcceptedPlaced ==
  ASSUME IInv, NEW key \in DOMAIN minted, NEW id, Position(minted[key], id) # {}
  PROVE  /\ Position(source.data, id) # {}
         /\ \E place : Placed(burn.data[SourceAt(id)], Amount(source.data, id),
                              key, Amount(minted[key], id), place)
<1>1. PICK mint : mint.token_id = key /\ mint.data = minted[key] /\ verify_split(mint, burn, burn)
  BY DEF IInv
<1>2. source.data \in Seq([id : Int, value : Int]) /\ decode(source.data) # None
  <2>1. source.data # None /\ decode(source.data) # None
    BY <1>1 DEF verify_split
  <2>2. source \in Sources
    BY DEF IInv
  <2> QED BY <2>1, <2>2, SplitAssumption
<1> DEFINE k == CHOOSE k \in Position(minted[key], id) : TRUE
           data == commitment(mint.network_id, mint.token_type, mint.token_id, mint.data)
<1>3. k \in Position(minted[key], id) /\ Amount(minted[key], id) = minted[key][k].value
  BY DEF Amount
<1>4. k \in DOMAIN minted[key] /\ minted[key][k].id = id
  BY <1>3 DEF Position
<1>5. Allocated(mint, mint.data[k], mint.proofs[k], burn.data)
  BY <1>1, <1>4 DEF verify_split
<1> HIDE DEF k
<1>6. PICK i \in Position(source.data, id) :
        verify(mint.proofs[k], key, data, Amount(minted[key], id), burn.data[i])
          = source.data[i].value
  BY <1>1, <1>3, <1>4, <1>5 DEF Allocated
<1> HIDE DEF data
<1>7. SourceAt(id) \in Position(source.data, id)
  BY <1>6 DEF SourceAt
<1>8. i = SourceAt(id)
  <2>1. /\ i \in DOMAIN source.data /\ SourceAt(id) \in DOMAIN source.data
        /\ source.data[i].id = source.data[SourceAt(id)].id
    BY <1>6, <1>7, Zenon DEF Position
  <2> QED BY <1>2, <2>1, OnePosition
<1>9. Amount(source.data, id) = source.data[i].value
  BY <1>6, <1>8 DEF Amount, SourceAt
<1>10. source.data[i].value \in Nat
  <2>1. i \in DOMAIN source.data
    BY <1>6, Zenon DEF Position
  <2>2. \A j \in DOMAIN source.data : is_valid_amount(source.data[j].value)
    BY <1>2, Zenon DEF decode
  <2>3. source.data[i].value \in 1..MaxAmount
    BY <2>1, <2>2, Zenon DEF is_valid_amount
  <2>4. \A v \in 1..MaxAmount : v \in Nat
    BY RsmstAssumption
  <2> QED BY <2>3, <2>4, Zenon
<1> DEFINE steps == mint.proofs[k]
           value == Amount(minted[key], id)
           total == source.data[i].value
           root == burn.data[i]
<1> HIDE DEF steps, value, total, root
<1>11. total \in Nat /\ verify(steps, key, data, value, root) = total
  BY <1>6, <1>10, Zenon DEF steps, value, total, root
<1>12. \E place : Placed(root, total, key, value, place)
  <2>1. PICK at, low : /\ Climbs(at, low, steps, Len(steps), key, data, value)
                       /\ at[Len(steps)].hash = root /\ at[Len(steps)].sum = total
    BY <1>11, VerifyClimbs
  <2>2. Placed(root, total, key, value, low[Len(steps)])
    BY <2>1 DEF Placed
  <2> QED BY <2>2
<1> QED BY <1>6, <1>8, <1>9, <1>12, Zenon DEF value, total, root

(* Disjoint places of the accepted amounts number their units within the   *)
(* source.                                                                 *)
LEMMA UnitsFit ==
  ASSUME IInv, NEW key0 \in DOMAIN minted, NEW id, Position(minted[key0], id) # {}
  PROVE  Cardinality(MintedUnits(id)) <= Amount(source.data, id)
<1> DEFINE total == Amount(source.data, id)
           root == burn.data[SourceAt(id)]
           A(key) == Amount(minted[key], id)
           off(key) == CHOOSE place : Placed(root, total, key, A(key), place)
           Units == MintedUnits(id)
<1> HIDE DEF total, root
<1>1. ASSUME NEW key \in DOMAIN minted, Position(minted[key], id) # {}
      PROVE  Placed(root, total, key, A(key), off(key))
  <2>1. \E place : Placed(root, total, key, A(key), place)
    BY <1>1, AcceptedPlaced DEF root, total
  <2> HIDE DEF A
  <2> QED BY <2>1
<1>2. ASSUME NEW u \in Units
      PROVE  /\ u[1] \in DOMAIN minted /\ u[2] \in 1..A(u[1]) /\ u = <<u[1], u[2]>>
             /\ Placed(root, total, u[1], A(u[1]), off(u[1]))
  <2>1. PICK key \in DOMAIN minted : u \in {key} \X (1..A(key))
    BY <1>2 DEF MintedUnits
  <2>2. u[1] = key /\ u[2] \in 1..A(key) /\ u = <<u[1], u[2]>>
    BY <2>1
  <2>3. Position(minted[key], id) # {}
    <3> SUFFICES ASSUME Position(minted[key], id) = {} PROVE FALSE
      OBVIOUS
    <3>1. A(key) = 0
      BY DEF Amount
    <3> QED BY <2>2, <3>1
  <2>4. Placed(root, total, key, A(key), off(key))
    BY <1>1, <2>3
  <2> HIDE DEF off, A
  <2> QED BY <2>2, <2>4
<1> HIDE DEF off, A, Units
<1>3. ASSUME NEW u \in Units
      PROVE  /\ total \in Nat /\ A(u[1]) \in Nat /\ off(u[1]) \in Nat /\ u[2] \in Nat
             /\ 1 <= u[2] /\ u[2] <= A(u[1]) /\ off(u[1]) + A(u[1]) <= total
  <2>1. /\ total \in Nat /\ A(u[1]) \in Nat /\ off(u[1]) \in Nat
        /\ off(u[1]) + A(u[1]) <= total
    BY <1>2, PlaceFits
  <2>2. u[2] \in 1..A(u[1])
    BY <1>2
  <2> QED BY <2>1, <2>2
<1> DEFINE f == [u \in Units |-> off(u[1]) + u[2]]
<1>4. f \in [Units -> 1..total]
  BY <1>3
<1>5. ASSUME NEW u \in Units, NEW w \in Units, f[u] = f[w]
      PROVE  u = w
  <2>1. off(u[1]) + u[2] = off(w[1]) + w[2]
    BY <1>5
  <2>2. u[1] = w[1]
    <3> SUFFICES ASSUME u[1] # w[1] PROVE FALSE
      OBVIOUS
    <3>1. off(u[1]) + A(u[1]) <= off(w[1]) \/ off(w[1]) + A(w[1]) <= off(u[1])
      BY <1>2, PlacesApart
    <3> QED BY <1>3, <2>1, <3>1
  <2>3. u[2] = w[2]
    BY <1>3, <2>1, <2>2
  <2>4. u = <<u[1], u[2]>> /\ w = <<w[1], w[2]>>
    BY <1>2
  <2> QED BY <2>2, <2>3, <2>4
<1>6. total \in Nat
  <2>1. Placed(root, total, key0, A(key0), off(key0))
    BY <1>1
  <2> QED BY <2>1, PlaceFits
<1>7. f \in Injection(Units, 1..total)
  <2> HIDE DEF f
  <2> QED BY <1>4, <1>5 DEF Injection, IsInjective
<1>8. IsFiniteSet(1..total) /\ Cardinality(1..total) = total
  BY <1>6, FS_Interval
<1>9. Cardinality(Units) <= Cardinality(1..total)
  <2> HIDE DEF f
  <2> QED BY <1>7, <1>8, FS_Injection
<1> QED BY <1>8, <1>9 DEF total, Units

LEMMA InvImplies ==
  ASSUME IInv
  PROVE  NoOverIssue
<1> SUFFICES ASSUME NEW key \in DOMAIN minted, NEW id \in AssetIds(minted[key])
             PROVE  id \in AssetIds(source.data)
                    /\ Cardinality(MintedUnits(id)) <= Amount(source.data, id)
  BY DEF NoOverIssue
<1>1. Position(minted[key], id) # {}
  BY DEF AssetIds, Position
<1>2. Position(source.data, id) # {}
  BY <1>1, AcceptedPlaced
<1>3. id \in AssetIds(source.data)
  BY <1>2, Zenon DEF AssetIds, Position
<1> QED BY <1>1, <1>3, UnitsFit

(* Every accepted output stays justified by the certified burn.            *)
THEOREM Invariance == Spec => []IInv
BY InitInv, NextInv, PTL DEF Spec

(* A split never creates value: whatever trees the owner committed to in   *)
(* the burn, whatever proofs and payments are presented, in any order and  *)
(* across crashes, the outputs that SplitMintJustificationVerifier accepts *)
(* hold together at most what the source token held of every asset.        *)
THEOREM Conservation == Spec => []NoOverIssue
BY Invariance, InvImplies, PTL
-----------------------------------------------------------------------------
(* The allocation trees.                                                   *)

(* A set of numbers in an interval has its minimum.                        *)
LEMMA MinIsLeast ==
  ASSUME NEW a \in Nat, NEW b \in Nat, NEW T, T \subseteq a..b, T # {}
  PROVE  Min(T) \in T /\ \A y \in T : Min(T) <= y
<1> DEFINE f == [i \in T |-> b - i]
<1>1. IsFiniteSet(T)
  <2>1. IsFiniteSet(a..b)
    BY FS_Interval
  <2> QED BY <2>1, FS_Subset
<1>2. f \in [T -> Nat]
  OBVIOUS
<1>3. PICK m \in T : \A i \in T : f[i] <= f[m]
  <2> HIDE DEF f
  <2> QED BY <1>1, <1>2, LargestExists
<1>4. \A y \in T : m <= y
  BY <1>3
<1>5. \E x \in T : \A y \in T : x =< y
  BY <1>4
<1> QED BY <1>5 DEF Min

LEMMA DisagreeingBounds ==
  ASSUME NEW leaves, NEW S, NEW start \in 0..KeyBits, Disagreeing(leaves, S, start) # {}
  PROVE  /\ Min(Disagreeing(leaves, S, start)) \in Disagreeing(leaves, S, start)
         /\ Min(Disagreeing(leaves, S, start)) \in start..(KeyBits - 1)
<1>1. Disagreeing(leaves, S, start) \subseteq start..(KeyBits - 1)
  BY DEF Disagreeing
<1>2. start \in Nat /\ KeyBits - 1 \in Nat
  BY RsmstAssumption
<1> QED BY <1>1, <1>2, MinIsLeast

(* A subtree depends on the deeper ones only.                              *)
LEMMA SubtreeOfDeeper ==
  ASSUME NEW leaves, NEW f, NEW g, NEW start \in 0..KeyBits, NEW S,
         \A d \in start..(KeyBits - 1) : f[d + 1] = g[d + 1]
  PROVE  SubtreeOf(leaves, f, start, S) = SubtreeOf(leaves, g, start, S)
<1> DEFINE D == Disagreeing(leaves, S, start)
           d == Min(D)
<1>1. CASE D = {}
  BY <1>1 DEF SubtreeOf
<1>2. CASE D # {}
  <2>1. d \in start..(KeyBits - 1)
    BY <1>2, DisagreeingBounds
  <2>2. f[d + 1] = g[d + 1]
    BY <2>1
  <2> QED BY <2>2 DEF SubtreeOf
<1> QED BY <1>1, <1>2

(* build_subtree is what SubtreeOf says at every bit.                      *)
LEMMA SubtreeSteps ==
  ASSUME NEW leaves
  PROVE  LET sub == build_subtree(leaves) IN
         \A start \in 0..KeyBits : \A S \in SUBSET DOMAIN leaves :
           sub[start][S] = SubtreeOf(leaves, sub, start, S)
<1> DEFINE P == SUBSET DOMAIN leaves
           IsSub(f, n) ==
             f = [start \in (KeyBits - n)..KeyBits |-> [S \in P |-> SubtreeOf(leaves, f, start, S)]]
           N == {n \in Nat : \E f : IsSub(f, n)}
<1> HIDE DEF P
<1>1. KeyBits \in Nat
  BY RsmstAssumption
<1>2. 0 \in N
  <2> DEFINE g == [start \in (KeyBits - 0)..KeyBits |-> [S \in P |-> SubtreeOf(leaves, 0, start, S)]]
  <2>1. ASSUME NEW start \in (KeyBits - 0)..KeyBits
        PROVE  g[start] = [S \in P |-> SubtreeOf(leaves, g, start, S)]
    <3>1. start = KeyBits /\ start \in 0..KeyBits
      BY <1>1
    <3> HIDE DEF g
    <3>2. \A S : SubtreeOf(leaves, 0, start, S) = SubtreeOf(leaves, g, start, S)
      BY <1>1, <3>1, SubtreeOfDeeper
    <3> QED BY <3>2 DEF g
  <2>2. g = [start \in (KeyBits - 0)..KeyBits |-> [S \in P |-> SubtreeOf(leaves, g, start, S)]]
    BY <2>1
  <2> HIDE DEF g
  <2>3. IsSub(g, 0)
    BY <2>2
  <2> QED BY <2>3
<1>3. ASSUME NEW n \in 1..KeyBits, n - 1 \in N
      PROVE  n \in N
  <2>1. PICK f : IsSub(f, n - 1)
    BY <1>3
  <2> DEFINE low == KeyBits - n
             g == [start \in low..KeyBits |-> IF start = low THEN [S \in P |-> SubtreeOf(leaves, f, low, S)]
                                              ELSE f[start]]
  <2>2. low \in 0..KeyBits /\ KeyBits - (n - 1) = low + 1 /\ n \in Nat
    BY <1>1
  <2>3. \A start \in (low + 1)..KeyBits : f[start] = [S \in P |-> SubtreeOf(leaves, f, start, S)]
    BY <2>1, <2>2
  <2>4. \A start \in (low + 1)..KeyBits : g[start] = f[start]
    BY <2>2
  <2>5. \A start \in low..KeyBits : \A S : SubtreeOf(leaves, f, start, S) = SubtreeOf(leaves, g, start, S)
    <3> TAKE start \in low..KeyBits
    <3> TAKE S
    <3>1. start \in 0..KeyBits
      BY <2>2
    <3>2. \A d \in start..(KeyBits - 1) : d + 1 \in (low + 1)..KeyBits
      BY <1>1, <2>2
    <3>3. \A d \in start..(KeyBits - 1) : f[d + 1] = g[d + 1]
      BY <2>4, <3>2
    <3> HIDE DEF g
    <3> QED BY <3>1, <3>3, SubtreeOfDeeper
  <2>6. ASSUME NEW start \in low..KeyBits
        PROVE  g[start] = [S \in P |-> SubtreeOf(leaves, g, start, S)]
    <3>1. g[start] = [S \in P |-> SubtreeOf(leaves, f, start, S)]
      <4>1. CASE start = low
        BY <4>1
      <4>2. CASE start # low
        <5>1. start \in (low + 1)..KeyBits
          BY <2>2, <4>2
        <5> QED BY <2>3, <2>4, <5>1
      <4> QED BY <4>1, <4>2
    <3> HIDE DEF g
    <3> QED BY <2>5, <3>1
  <2>7. g = [start \in low..KeyBits |-> [S \in P |-> SubtreeOf(leaves, g, start, S)]]
    BY <2>6
  <2> HIDE DEF g
  <2>8. IsSub(g, n)
    BY <2>7
  <2> QED BY <2>2, <2>8
<1>4. KeyBits \in N
  <2>1. 0..KeyBits \subseteq N
    <3> HIDE DEF N
    <3> QED BY <1>1, <1>2, <1>3, UpTo
  <2> QED BY <1>1, <2>1
<1> DEFINE IsAll(f) == f = [start \in 0..KeyBits |-> [S \in P |-> SubtreeOf(leaves, f, start, S)]]
<1>5. IsAll(build_subtree(leaves))
  <2>1. PICK f : IsSub(f, KeyBits)
    BY <1>4
  <2>2. IsAll(f)
    BY <1>1, <2>1
  <2>3. build_subtree(leaves) = CHOOSE h : IsAll(h)
    BY Zenon DEF build_subtree, P
  <2> HIDE DEF IsAll
  <2> QED BY <2>2, <2>3
<1> DEFINE sub == build_subtree(leaves)
<1> HIDE DEF sub
<1>6. sub = [start \in 0..KeyBits |-> [S \in P |-> SubtreeOf(leaves, sub, start, S)]]
  BY <1>5 DEF sub
<1>7. ASSUME NEW start \in 0..KeyBits, NEW S \in P
      PROVE  sub[start][S] = SubtreeOf(leaves, sub, start, S)
  <2> DEFINE row(i) == [T \in P |-> SubtreeOf(leaves, sub, i, T)]
  <2>1. row(start)[S] = SubtreeOf(leaves, sub, start, S)
    OBVIOUS
  <2>2. sub = [i \in 0..KeyBits |-> row(i)]
    BY <1>6
  <2> HIDE DEF row
  <2>3. sub[start] = row(start)
    BY <2>2
  <2> QED BY <2>1, <2>3
<1> QED BY <1>7 DEF sub, P
(* A list of leaves with valid amounts.                                    *)
Forest(leaves) ==
  /\ Len(leaves) \in Nat /\ DOMAIN leaves = 1..Len(leaves)
  /\ \A i \in DOMAIN leaves :
       /\ is_valid_amount(leaves[i].value)
       /\ leaves[i] = leaf_hash(leaves[i].key, leaves[i].data, leaves[i].value)

(* The units of the leaves in S.                                           *)
KeyUnits(leaves, S) == UNION {{leaves[i].key} \X (1..leaves[i].value) : i \in S}

(* A subtree that was built is a leaf, or a node over two that were built. *)
Single(leaves, S, t) ==
  \E i \in S : S = {i} /\ t = [hash |-> leaves[i], sum |-> leaves[i].value]

Over(d, l, r, t) ==
  /\ l # None /\ r # None /\ ~(l.sum + r.sum > MaxAmount)
  /\ t = [hash |-> NodeOf(d, l, r), sum |-> l.sum + r.sum]

Joined(leaves, sub, start, S, t) ==
  \E d \in start..(KeyBits - 1) :
    Over(d, sub[d + 1][S \ RightOf(leaves, S, d)], sub[d + 1][RightOf(leaves, S, d)], t)

LEMMA SubtreeIs ==
  ASSUME NEW leaves, Forest(leaves), NEW start \in 0..KeyBits, NEW S \in SUBSET DOMAIN leaves,
         build_subtree(leaves)[start][S] # None
  PROVE  LET sub == build_subtree(leaves)
         IN Single(leaves, S, sub[start][S]) \/ Joined(leaves, sub, start, S, sub[start][S])
<1> DEFINE sub == build_subtree(leaves)
           t == sub[start][S]
           D == Disagreeing(leaves, S, start)
           d == Min(D)
           right == RightOf(leaves, S, d)
           l == sub[d + 1][S \ right]
           r == sub[d + 1][right]
<1>1. t = SubtreeOf(leaves, sub, start, S)
  BY SubtreeSteps
<1> HIDE DEF sub, t
<1>2. CASE Cardinality(S) = 1
  <2>1. IsFiniteSet(S)
    <3>1. IsFiniteSet(1..Len(leaves))
      BY FS_Interval DEF Forest
    <3> QED BY <3>1, FS_Subset DEF Forest
  <2>2. PICK i : S = {i}
    BY <1>2, <2>1, FS_Singleton
  <2>3. (CHOOSE k \in S : TRUE) = i
    BY <2>2
  <2>4. t = [hash |-> leaves[i], sum |-> leaves[i].value]
    BY <1>1, <1>2, <2>3 DEF SubtreeOf
  <2>5. Single(leaves, S, t)
    BY <2>2, <2>4 DEF Single
  <2> QED BY <2>5 DEF sub, t
<1>3. CASE Cardinality(S) # 1
  <2>1. t # None
    BY DEF t, sub
  <2>2. D # {} /\ l # None /\ r # None /\ t = node_hash(d, l, r)
    BY <1>1, <1>3, <2>1 DEF SubtreeOf
  <2>3. d \in start..(KeyBits - 1)
    BY <2>2, DisagreeingBounds
  <2> HIDE DEF l, r
  <2>4. Over(d, l, r, t)
    BY <2>1, <2>2 DEF Over, node_hash
  <2> HIDE DEF d
  <2>5. Joined(leaves, sub, start, S, t)
    BY <2>3, <2>4 DEF Joined, l, r
  <2> QED BY <2>5 DEF sub, t
<1> QED BY <1>2, <1>3

(* What a subtree sums to.                                                 *)
Weighs(leaves, S, t) ==
  /\ t.sum \in 1..MaxAmount
  /\ IsFiniteSet(KeyUnits(leaves, S)) /\ Cardinality(KeyUnits(leaves, S)) = t.sum

LEMMA SingleWeighs ==
  ASSUME NEW leaves, Forest(leaves), NEW S \in SUBSET DOMAIN leaves, NEW t, Single(leaves, S, t)
  PROVE  Weighs(leaves, S, t)
<1>1. PICK i \in S : S = {i} /\ t = [hash |-> leaves[i], sum |-> leaves[i].value]
  BY DEF Single
<1> DEFINE v == leaves[i].value
           k == leaves[i].key
<1>2. v \in 1..MaxAmount /\ v \in Nat
  BY RsmstAssumption DEF Forest, is_valid_amount
<1>3. t.sum = v
  BY <1>1
<1>4. KeyUnits(leaves, S) = {k} \X (1..v)
  BY <1>1 DEF KeyUnits
<1> HIDE DEF v, k
<1>5. IsFiniteSet({k}) /\ Cardinality({k}) = 1
  BY FS_Singleton
<1>6. IsFiniteSet(1..v) /\ Cardinality(1..v) = v
  BY <1>2, FS_Interval
<1>7. IsFiniteSet({k} \X (1..v)) /\ Cardinality({k} \X (1..v)) = Cardinality({k}) * Cardinality(1..v)
  BY <1>5, <1>6, FS_Product
<1>8. Cardinality({k} \X (1..v)) = v
  BY <1>2, <1>5, <1>6, <1>7
<1> QED BY <1>2, <1>3, <1>4, <1>7, <1>8 DEF Weighs

LEMMA OverWeighs ==
  ASSUME NEW leaves, NEW S, NEW d, NEW l, NEW r, NEW t, Over(d, l, r, t),
         Weighs(leaves, S \ RightOf(leaves, S, d), l), Weighs(leaves, RightOf(leaves, S, d), r)
  PROVE  Weighs(leaves, S, t)
<1> DEFINE R == RightOf(leaves, S, d)
           A == KeyUnits(leaves, S \ R)
           B == KeyUnits(leaves, R)
<1>1. R \subseteq S
  BY DEF RightOf
<1>2. KeyUnits(leaves, S) = A \cup B
  <2> HIDE DEF R
  <2> QED BY <1>1 DEF KeyUnits
<1>3. A \cap B = {}
  <2> SUFFICES ASSUME NEW u \in A, u \in B PROVE FALSE
    OBVIOUS
  <2>1. PICK i \in S \ R : u \in {leaves[i].key} \X (1..leaves[i].value)
    BY DEF KeyUnits
  <2>2. PICK j \in R : u \in {leaves[j].key} \X (1..leaves[j].value)
    BY DEF KeyUnits
  <2>3. leaves[i].key = leaves[j].key
    BY <2>1, <2>2
  <2>4. key_bit(leaves[j].key, d) = 1 /\ key_bit(leaves[i].key, d) # 1
    BY <2>1, <2>2 DEF RightOf
  <2> QED BY <2>3, <2>4
<1> HIDE DEF A, B
<1>4. /\ l.sum \in 1..MaxAmount /\ IsFiniteSet(A) /\ Cardinality(A) = l.sum
      /\ r.sum \in 1..MaxAmount /\ IsFiniteSet(B) /\ Cardinality(B) = r.sum
  BY DEF Weighs, A, B
<1>5. IsFiniteSet(A \cup B) /\ Cardinality(A \cup B) = Cardinality(A) + Cardinality(B) - Cardinality(A \cap B)
  BY <1>4, FS_Union
<1>6. Cardinality(A \cap B) = 0
  BY <1>3, FS_EmptySet
<1>7. t.sum = l.sum + r.sum /\ ~(l.sum + r.sum > MaxAmount)
  BY DEF Over
<1>8. t.sum \in 1..MaxAmount
  BY <1>4, <1>7, RsmstAssumption
<1>9. Cardinality(A \cup B) = t.sum
  BY <1>4, <1>5, <1>6, <1>7, RsmstAssumption
<1> QED BY <1>2, <1>5, <1>8, <1>9 DEF Weighs

LEMMA SubtreeWeighs ==
  ASSUME NEW leaves, Forest(leaves)
  PROVE  LET sub == build_subtree(leaves) IN
         \A start \in 0..KeyBits : \A S \in SUBSET DOMAIN leaves :
           sub[start][S] # None => Weighs(leaves, S, sub[start][S])
<1> DEFINE sub == build_subtree(leaves)
           P == SUBSET DOMAIN leaves
           Q(start) == \A S \in P : sub[start][S] # None => Weighs(leaves, S, sub[start][S])
           N == {n \in 0..KeyBits : \A start \in (KeyBits - n)..KeyBits : Q(start)}
<1>1. KeyBits \in Nat
  BY RsmstAssumption
<1>2. ASSUME NEW start \in 0..KeyBits, \A e \in (start + 1)..KeyBits : Q(e)
      PROVE  Q(start)
  <2> SUFFICES ASSUME NEW S \in P, sub[start][S] # None PROVE Weighs(leaves, S, sub[start][S])
    OBVIOUS
  <2> DEFINE t == sub[start][S]
  <2>1. Single(leaves, S, t) \/ Joined(leaves, sub, start, S, t)
    BY SubtreeIs
  <2>2. CASE Single(leaves, S, t)
    <3> HIDE DEF t
    <3> QED BY <2>2, SingleWeighs DEF t
  <2>3. CASE Joined(leaves, sub, start, S, t)
    <3> DEFINE R(d) == RightOf(leaves, S, d)
    <3> HIDE DEF t, sub
    <3>1. PICK d \in start..(KeyBits - 1) : Over(d, sub[d + 1][S \ R(d)], sub[d + 1][R(d)], t)
      BY <2>3 DEF Joined
    <3>2. d + 1 \in (start + 1)..KeyBits
      BY <1>1
    <3>3. R(d) \in P /\ S \ R(d) \in P
      BY DEF RightOf
    <3>4. sub[d + 1][S \ R(d)] # None /\ sub[d + 1][R(d)] # None
      BY <3>1 DEF Over
    <3>5. Weighs(leaves, S \ R(d), sub[d + 1][S \ R(d)]) /\ Weighs(leaves, R(d), sub[d + 1][R(d)])
      BY <1>2, <3>2, <3>3, <3>4
    <3> QED BY <3>1, <3>5, OverWeighs DEF t
  <2> QED BY <2>1, <2>2, <2>3
<1> HIDE DEF Q
<1>3. 0 \in N
  <2>1. \A e \in (KeyBits + 1)..KeyBits : FALSE
    BY <1>1
  <2>2. Q(KeyBits)
    BY <1>1, <1>2, <2>1
  <2>3. \A start \in (KeyBits - 0)..KeyBits : start = KeyBits
    BY <1>1
  <2> QED BY <1>1, <2>2, <2>3
<1>4. ASSUME NEW n \in 1..KeyBits, n - 1 \in N
      PROVE  n \in N
  <2>1. \A start \in (KeyBits - (n - 1))..KeyBits : Q(start)
    BY <1>4
  <2>2. KeyBits - n \in 0..KeyBits /\ KeyBits - (n - 1) = (KeyBits - n) + 1 /\ n \in 0..KeyBits
    BY <1>1
  <2>3. Q(KeyBits - n)
    BY <1>2, <2>1, <2>2
  <2>4. \A start \in (KeyBits - n)..KeyBits :
          start = KeyBits - n \/ start \in (KeyBits - (n - 1))..KeyBits
    BY <1>1, <2>2
  <2> QED BY <2>1, <2>2, <2>3, <2>4
<1>5. 0..KeyBits \subseteq N
  <2> HIDE DEF N
  <2> QED BY <1>1, <1>3, <1>4, UpTo
<1>6. \A start \in 0..KeyBits : Q(start)
  <2>1. KeyBits \in N /\ KeyBits - KeyBits = 0
    BY <1>1, <1>5
  <2> QED BY <2>1
<1> QED BY <1>6 DEF Q
-----------------------------------------------------------------------------
(* The proof of a leaf of a built tree verifies.                           *)

LEMMA DescentSteps ==
  ASSUME NEW root, NEW key
  PROVE  LET node == Descent(root, key) IN
         node[0] = root /\ \A i \in 1..KeyBits : node[i] = Child(node[i - 1], key)
<1> DEFINE IsDescent(f, n) == f = [i \in 0..n |-> IF i = 0 THEN root ELSE Child(f[i - 1], key)]
           N == {n \in Nat : \E f : IsDescent(f, n)}
<1>1. KeyBits \in Nat
  BY RsmstAssumption
<1>2. 0 \in N
  <2>1. IsDescent([i \in 0..0 |-> root], 0)
    OBVIOUS
  <2> QED BY <2>1
<1>3. ASSUME NEW n \in 1..KeyBits, n - 1 \in N
      PROVE  n \in N
  <2>1. PICK f : IsDescent(f, n - 1)
    BY <1>3
  <2> DEFINE g == [i \in 0..n |-> IF i = n THEN Child(f[n - 1], key) ELSE f[i]]
  <2>2. ASSUME NEW i \in 0..n
        PROVE  g[i] = IF i = 0 THEN root ELSE Child(g[i - 1], key)
    <3>1. CASE i = n
      BY <3>1
    <3>2. CASE i # n
      <4>1. i \in 0..(n - 1) /\ g[i] = f[i]
        BY <3>2
      <4>2. f[i] = IF i = 0 THEN root ELSE Child(f[i - 1], key)
        BY <2>1, <4>1
      <4>3. i # 0 => g[i - 1] = f[i - 1]
        BY <3>2
      <4> QED BY <4>1, <4>2, <4>3
    <3> QED BY <3>1, <3>2
  <2>3. g = [i \in 0..n |-> IF i = 0 THEN root ELSE Child(g[i - 1], key)]
    BY <2>2
  <2> HIDE DEF g
  <2>4. IsDescent(g, n)
    BY <2>3
  <2> QED BY <2>4
<1>4. KeyBits \in N
  <2>1. 0..KeyBits \subseteq N
    <3> HIDE DEF N
    <3> QED BY <1>1, <1>2, <1>3, UpTo
  <2> QED BY <1>1, <2>1
<1>5. IsDescent(Descent(root, key), KeyBits)
  <2>1. \E f : IsDescent(f, KeyBits)
    BY <1>4
  <2>2. Descent(root, key) = CHOOSE f : IsDescent(f, KeyBits)
    BY Zenon DEF Descent
  <2> HIDE DEF IsDescent
  <2> QED BY <2>1, <2>2
<1> DEFINE node == Descent(root, key)
<1> HIDE DEF node
<1>6. node = [i \in 0..KeyBits |-> IF i = 0 THEN root ELSE Child(node[i - 1], key)]
  BY <1>5 DEF node
<1>7. node[0] = root /\ \A i \in 1..KeyBits : node[i] = Child(node[i - 1], key)
  BY <1>1, <1>6
<1> QED BY <1>7 DEF node

SumOf(h) == IF IsLeaf(h) THEN h.value ELSE h.left_sum + h.right_sum

(* A node that commits to the sums of what is below it.                    *)
Inner(h, start) ==
  /\ ~IsLeaf(h) /\ h.depth \in start..(KeyBits - 1)
  /\ h.left_sum \in 1..MaxAmount /\ h.right_sum \in 1..MaxAmount
  /\ h.left_sum + h.right_sum <= MaxAmount
  /\ h.left_sum = SumOf(h.left) /\ h.right_sum = SumOf(h.right)
  /\ h = NodeOf(h.depth, LeftEntry(h), RightEntry(h))
  /\ [hash |-> h, sum |-> h.left_sum + h.right_sum] # None

(* A built subtree with the leaf x in it.                                  *)
SubtreeWith(leaves, h, x, start) ==
  \E S \in SUBSET DOMAIN leaves :
    /\ x \in S /\ build_subtree(leaves)[start][S] # None
    /\ h = build_subtree(leaves)[start][S].hash

LEMMA SubtreeSum ==
  ASSUME NEW leaves, Forest(leaves), NEW start \in 0..KeyBits, NEW S \in SUBSET DOMAIN leaves,
         build_subtree(leaves)[start][S] # None
  PROVE  LET t == build_subtree(leaves)[start][S]
         IN t.sum = SumOf(t.hash) /\ t.sum \in 1..MaxAmount
<1> DEFINE sub == build_subtree(leaves)
           t == sub[start][S]
<1>1. Weighs(leaves, S, t)
  BY SubtreeWeighs
<1>2. Single(leaves, S, t) \/ Joined(leaves, sub, start, S, t)
  BY SubtreeIs
<1> HIDE DEF t, sub
<1>3. CASE Single(leaves, S, t)
  <2>1. PICK i \in S : t = [hash |-> leaves[i], sum |-> leaves[i].value]
    BY <1>3 DEF Single
  <2>2. leaves[i] = leaf_hash(leaves[i].key, leaves[i].data, leaves[i].value)
    BY DEF Forest
  <2>3. IsLeaf(leaves[i])
    BY <2>2 DEF leaf_hash, IsLeaf
  <2>4. t.sum = SumOf(t.hash)
    BY <2>1, <2>3 DEF SumOf
  <2> QED BY <1>1, <2>4 DEF Weighs, t, sub
<1>4. CASE Joined(leaves, sub, start, S, t)
  <2>1. PICK d, l, r : t = [hash |-> NodeOf(d, l, r), sum |-> l.sum + r.sum]
    BY <1>4 DEF Joined, Over
  <2>2. /\ ~IsLeaf(NodeOf(d, l, r)) /\ NodeOf(d, l, r).left_sum = l.sum
        /\ NodeOf(d, l, r).right_sum = r.sum
    BY DEF NodeOf, IsLeaf
  <2>3. t.sum = SumOf(t.hash)
    BY <2>1, <2>2 DEF SumOf
  <2> QED BY <1>1, <2>3 DEF Weighs, t, sub
<1> QED BY <1>2, <1>3, <1>4

LEMMA NodeParts ==
  ASSUME NEW d, NEW l, NEW r
  PROVE  LET h == NodeOf(d, l, r) IN
         /\ ~IsLeaf(h) /\ h.depth = d /\ h.left = l.hash /\ h.left_sum = l.sum
         /\ h.right = r.hash /\ h.right_sum = r.sum
         /\ h = NodeOf(d, LeftEntry(h), RightEntry(h))
BY DEF NodeOf, IsLeaf, LeftEntry, RightEntry, Step

(* One step of the descent.                                                *)
LEMMA DescendStep ==
  ASSUME NEW leaves, Forest(leaves), NEW x \in DOMAIN leaves, NEW start \in 0..KeyBits, NEW h,
         SubtreeWith(leaves, h, x, start)
  PROVE  \/ h = leaves[x]
         \/ Inner(h, start) /\ SubtreeWith(leaves, Child(h, leaves[x].key), x, h.depth + 1)
<1> DEFINE sub == build_subtree(leaves)
<1>1. PICK S \in SUBSET DOMAIN leaves : x \in S /\ sub[start][S] # None /\ h = sub[start][S].hash
  BY DEF SubtreeWith
<1> DEFINE t == sub[start][S]
<1>2. Single(leaves, S, t) \/ Joined(leaves, sub, start, S, t)
  BY <1>1, SubtreeIs
<1>3. CASE Single(leaves, S, t)
  BY <1>1, <1>3 DEF Single
<1>4. CASE Joined(leaves, sub, start, S, t)
  <2> DEFINE R(d) == RightOf(leaves, S, d)
             L(d) == S \ R(d)
  <2>1. PICK d \in start..(KeyBits - 1) : Over(d, sub[d + 1][L(d)], sub[d + 1][R(d)], t)
    BY <1>4 DEF Joined
  <2> DEFINE l == sub[d + 1][L(d)]
             r == sub[d + 1][R(d)]
  <2>2. d + 1 \in 0..KeyBits /\ R(d) \in SUBSET DOMAIN leaves /\ L(d) \in SUBSET DOMAIN leaves
    BY RsmstAssumption DEF RightOf
  <2>3. /\ l # None /\ r # None /\ ~(l.sum + r.sum > MaxAmount)
        /\ t = [hash |-> NodeOf(d, l, r), sum |-> l.sum + r.sum]
    BY <2>1 DEF Over
  <2>4. /\ l.sum = SumOf(l.hash) /\ l.sum \in 1..MaxAmount
        /\ r.sum = SumOf(r.hash) /\ r.sum \in 1..MaxAmount
    BY <2>2, <2>3, SubtreeSum
  <2>5. x \in R(d) <=> key_bit(leaves[x].key, d) = 1
    BY <1>1 DEF RightOf
  <2>6. IF x \in R(d) THEN SubtreeWith(leaves, r.hash, x, d + 1) ELSE SubtreeWith(leaves, l.hash, x, d + 1)
    <3> HIDE DEF R
    <3> QED BY <1>1, <2>2, <2>3 DEF SubtreeWith
  <2> HIDE DEF l, r, R
  <2>7. h = NodeOf(d, l, r)
    BY <1>1, <2>3
  <2>8. /\ ~IsLeaf(h) /\ h.depth = d /\ h.left = l.hash /\ h.left_sum = l.sum
        /\ h.right = r.hash /\ h.right_sum = r.sum
        /\ h = NodeOf(d, LeftEntry(h), RightEntry(h))
    BY <2>7, NodeParts
  <2>9. Child(h, leaves[x].key) = IF x \in R(d) THEN r.hash ELSE l.hash
    BY <2>5, <2>8 DEF Child
  <2>10. l.sum + r.sum <= MaxAmount
    BY <2>3, <2>4, RsmstAssumption
  <2>11. [hash |-> h, sum |-> h.left_sum + h.right_sum] # None
    BY <1>1, <2>3, <2>7, <2>8
  <2>12. Inner(h, start)
    BY <2>4, <2>8, <2>10, <2>11 DEF Inner
  <2> QED BY <2>6, <2>8, <2>9, <2>12
<1> QED BY <1>2, <1>3, <1>4

(* One step of the climb.                                                  *)
LEMMA ClimbBack ==
  ASSUME NEW h, Inner(h, 0), NEW key, NEW p \in Nat, h.depth < p
  PROVE  LET c == Child(h, key)
         IN Climb(key, [hash |-> c, sum |-> SumOf(c), prev_depth |-> p], Sibling(h, key))
              = [hash |-> h, sum |-> SumOf(h), prev_depth |-> h.depth]
<1> DEFINE c == Child(h, key)
           at == [hash |-> c, sum |-> SumOf(c), prev_depth |-> p]
           step == Sibling(h, key)
           right == key_bit(key, h.depth) = 1
           top == [hash |-> h, sum |-> h.left_sum + h.right_sum]
<1>1. /\ step.depth = h.depth
      /\ step.sum = IF right THEN h.left_sum ELSE h.right_sum
      /\ step.hash = IF right THEN h.left ELSE h.right
  BY DEF Sibling, LeftEntry, RightEntry, Step
<1>2. /\ at.hash = IF right THEN h.right ELSE h.left
      /\ at.sum = IF right THEN h.right_sum ELSE h.left_sum
      /\ at.prev_depth = p
  BY DEF Child, Inner
<1>3. h = NodeOf(h.depth, LeftEntry(h), RightEntry(h))
  BY DEF Inner
<1>4. /\ h.left_sum \in 1..MaxAmount /\ h.right_sum \in 1..MaxAmount
      /\ h.left_sum + h.right_sum <= MaxAmount /\ h.depth \in Nat
  BY RsmstAssumption DEF Inner
<1>5. SumOf(h) = h.left_sum + h.right_sum
  BY DEF SumOf, Inner
<1>6. top # None
  BY DEF Inner
<1> DEFINE parent == IF right THEN node_hash(h.depth, step, at) ELSE node_hash(h.depth, at, step)
<1> HIDE DEF at, step, right, c
<1>7. parent = top
  <2>1. CASE right
    <3>1. NodeOf(h.depth, step, at) = h
      BY <1>1, <1>2, <1>3, <2>1 DEF NodeOf, LeftEntry, RightEntry, Step
    <3>2. step.sum + at.sum = h.left_sum + h.right_sum /\ ~(step.sum + at.sum > MaxAmount)
      BY <1>1, <1>2, <1>4, <2>1, RsmstAssumption
    <3> QED BY <2>1, <3>1, <3>2 DEF node_hash
  <2>2. CASE ~right
    <3>1. NodeOf(h.depth, at, step) = h
      BY <1>1, <1>2, <1>3, <2>2 DEF NodeOf, LeftEntry, RightEntry, Step
    <3>2. at.sum + step.sum = h.left_sum + h.right_sum /\ ~(at.sum + step.sum > MaxAmount)
      BY <1>1, <1>2, <1>4, <2>2, RsmstAssumption
    <3> QED BY <2>2, <3>1, <3>2 DEF node_hash
  <2> QED BY <2>1, <2>2
<1>8. parent # None /\ parent.hash = h /\ parent.sum = h.left_sum + h.right_sum
  BY <1>6, <1>7
<1>9. at.sum # None /\ is_valid_amount(step.sum)
  BY <1>1, <1>2, <1>4, RsmstAssumption DEF is_valid_amount
<1>10. ~(step.depth >= at.prev_depth)
  <2>1. ~(h.depth >= p)
    BY <1>4
  <2> QED BY <1>1, <1>2, <2>1
<1> HIDE DEF parent
<1>11. Climb(key, at, step) = [hash |-> parent.hash, sum |-> parent.sum, prev_depth |-> step.depth]
  BY <1>1, <1>8, <1>9, <1>10 DEF Climb, parent, right
<1> QED BY <1>1, <1>5, <1>8, <1>11 DEF at, step, c

(* The descent stays in subtrees with the leaf, until it is there.         *)
LEMMA DescentStays ==
  ASSUME NEW leaves, Forest(leaves), NEW x \in DOMAIN leaves, NEW root,
         SubtreeWith(leaves, root, x, 0), NEW i \in 0..KeyBits
  PROVE  LET node == Descent(root, leaves[x].key)
         IN node[i] = leaves[x] \/ \E start \in i..KeyBits : SubtreeWith(leaves, node[i], x, start)
<1> DEFINE key == leaves[x].key
           node == Descent(root, key)
           Stays(k) == node[k] = leaves[x] \/ \E start \in k..KeyBits : SubtreeWith(leaves, node[k], x, start)
           N == {k \in 0..KeyBits : Stays(k)}
<1>1. node[0] = root /\ \A k \in 1..KeyBits : node[k] = Child(node[k - 1], key)
  BY DescentSteps
<1>2. KeyBits \in Nat
  BY RsmstAssumption
<1>3. IsLeaf(leaves[x])
  BY DEF Forest, leaf_hash, IsLeaf
<1> HIDE DEF node, key
<1>4. 0 \in N
  BY <1>1, <1>2
<1>5. ASSUME NEW k \in 1..KeyBits, k - 1 \in N
      PROVE  k \in N
  <2>1. k \in 0..KeyBits /\ k - 1 \in 0..KeyBits /\ node[k] = Child(node[k - 1], key)
    BY <1>1, <1>2
  <2>2. CASE node[k - 1] = leaves[x]
    BY <1>3, <2>1, <2>2 DEF Child
  <2>3. CASE \E start \in (k - 1)..KeyBits : SubtreeWith(leaves, node[k - 1], x, start)
    <3>1. PICK start \in (k - 1)..KeyBits : SubtreeWith(leaves, node[k - 1], x, start)
      BY <2>3
    <3>2. start \in 0..KeyBits
      BY <2>1
    <3> DEFINE h == node[k - 1]
    <3> HIDE DEF h
    <3>3. h = leaves[x] \/ (Inner(h, start) /\ SubtreeWith(leaves, Child(h, key), x, h.depth + 1))
      <4>1. SubtreeWith(leaves, h, x, start)
        BY <3>1 DEF h
      <4> QED BY <3>2, <4>1, DescendStep DEF key
    <3>4. CASE Inner(h, start) /\ SubtreeWith(leaves, Child(h, key), x, h.depth + 1)
      <4>1. h.depth + 1 \in k..KeyBits
        BY <1>2, <2>1, <3>2, <3>4 DEF Inner
      <4>2. SubtreeWith(leaves, node[k], x, h.depth + 1)
        BY <2>1, <3>4 DEF h
      <4> QED BY <2>1, <4>1, <4>2
    <3> QED BY <2>2, <3>3, <3>4 DEF h
  <2> QED BY <1>5, <2>2, <2>3
<1>6. 0..KeyBits \subseteq N
  <2> HIDE DEF N
  <2> QED BY <1>2, <1>4, <1>5, UpTo
<1> QED BY <1>6 DEF node, key

(* Above the leaf are nodes of increasing depth.                           *)
LEMMA DescentDeeper ==
  ASSUME NEW leaves, Forest(leaves), NEW x \in DOMAIN leaves, NEW root,
         SubtreeWith(leaves, root, x, 0)
  PROVE  LET node == Descent(root, leaves[x].key)
         IN /\ node[KeyBits] = leaves[x]
            /\ \A i \in 0..KeyBits : IsLeaf(node[i]) => node[i] = leaves[x]
            /\ \A i \in 0..(KeyBits - 1) : ~IsLeaf(node[i]) =>
                 /\ Inner(node[i], 0)
                 /\ ~IsLeaf(node[i + 1]) => node[i].depth < node[i + 1].depth
<1> DEFINE key == leaves[x].key
           node == Descent(root, key)
<1>1. \A k \in 1..KeyBits : node[k] = Child(node[k - 1], key)
  BY DescentSteps
<1>2. KeyBits \in Nat
  BY RsmstAssumption
<1>3. IsLeaf(leaves[x])
  BY DEF Forest, leaf_hash, IsLeaf
<1>4. \A i \in 0..KeyBits :
        node[i] = leaves[x] \/ \E start \in i..KeyBits : SubtreeWith(leaves, node[i], x, start)
  BY DescentStays
<1> HIDE DEF node
<1>5. ASSUME NEW i \in 0..KeyBits
      PROVE  \/ node[i] = leaves[x]
             \/ \E start \in i..KeyBits :
                  Inner(node[i], start) /\ SubtreeWith(leaves, Child(node[i], key), x, node[i].depth + 1)
  <2>1. CASE node[i] = leaves[x]
    BY <2>1
  <2>2. CASE node[i] # leaves[x]
    <3>1. PICK start \in i..KeyBits : SubtreeWith(leaves, node[i], x, start)
      BY <1>4, <2>2
    <3>2. start \in 0..KeyBits
      BY <1>2
    <3>3. Inner(node[i], start) /\ SubtreeWith(leaves, Child(node[i], key), x, node[i].depth + 1)
      BY <2>2, <3>1, <3>2, DescendStep
    <3> QED BY <3>3
  <2> QED BY <2>1, <2>2
<1>6. node[KeyBits] = leaves[x]
  <2>1. KeyBits \in 0..KeyBits
    BY <1>2
  <2>2. \A start \in KeyBits..KeyBits : ~Inner(node[KeyBits], start)
    BY <1>2 DEF Inner
  <2> QED BY <1>5, <2>1, <2>2
<1>7. ASSUME NEW i \in 0..KeyBits, IsLeaf(node[i])
      PROVE  node[i] = leaves[x]
  <2>1. \A start : ~Inner(node[i], start)
    BY <1>7 DEF Inner
  <2> QED BY <1>5, <2>1
<1>8. ASSUME NEW i \in 0..(KeyBits - 1), ~IsLeaf(node[i])
      PROVE  /\ Inner(node[i], 0)
             /\ ~IsLeaf(node[i + 1]) => node[i].depth < node[i + 1].depth
  <2>1. i \in 0..KeyBits /\ i + 1 \in 1..KeyBits /\ (i + 1) - 1 = i
    BY <1>2
  <2>2. PICK start \in i..KeyBits :
          Inner(node[i], start) /\ SubtreeWith(leaves, Child(node[i], key), x, node[i].depth + 1)
    BY <1>3, <1>5, <1>8, <2>1
  <2>3. node[i].depth \in 0..(KeyBits - 1) /\ Inner(node[i], 0)
    <3>1. \A d \in start..(KeyBits - 1) : d \in 0..(KeyBits - 1)
      BY <1>2, <2>1
    <3> QED BY <2>2, <3>1 DEF Inner
  <2>4. node[i + 1] = Child(node[i], key)
    BY <1>1, <2>1
  <2> DEFINE d == node[i].depth
             h == node[i + 1]
  <2>5. d + 1 \in 0..KeyBits
    BY <1>2, <2>3
  <2>6. SubtreeWith(leaves, h, x, d + 1)
    BY <2>2, <2>4
  <2> HIDE DEF d, h
  <2>7. h = leaves[x] \/ Inner(h, d + 1)
    BY <2>5, <2>6, DescendStep
  <2>8. d \in 0..(KeyBits - 1)
    BY <2>3 DEF d
  <2>9. Inner(h, d + 1) => d < h.depth
    BY <1>2, <2>8 DEF Inner
  <2> QED BY <1>3, <2>3, <2>7, <2>9 DEF d, h
<1> QED BY <1>6, <1>7, <1>8 DEF node

LEMMA ProofClimbs ==
  ASSUME NEW leaves, Forest(leaves), NEW x \in DOMAIN leaves, NEW root,
         SubtreeWith(leaves, root, x, 0)
  PROVE  LET leaf == leaves[x]
         IN verify(proof(root, leaf.key), leaf.key, leaf.data, leaf.value, root) = SumOf(root)
<1> DEFINE leaf == leaves[x]
           key == leaf.key
           node == Descent(root, key)
           T == {i \in 0..KeyBits : IsLeaf(node[i])}
           n == Min(T)
           steps == [i \in 1..n |-> Sibling(node[n - i], key)]
           at == Climbed(steps, key, leaf.data, leaf.value)
<1>1. KeyBits \in Nat
  BY RsmstAssumption
<1>2. /\ node[0] = root
      /\ \A k \in 1..KeyBits : node[k] = Child(node[k - 1], key)
  BY DescentSteps
<1>3. /\ node[KeyBits] = leaf
      /\ \A i \in 0..KeyBits : IsLeaf(node[i]) => node[i] = leaf
      /\ \A i \in 0..(KeyBits - 1) : ~IsLeaf(node[i]) =>
           /\ Inner(node[i], 0)
           /\ ~IsLeaf(node[i + 1]) => node[i].depth < node[i + 1].depth
  BY DescentDeeper
<1>4. /\ leaf = leaf_hash(key, leaf.data, leaf.value) /\ IsLeaf(leaf)
      /\ is_valid_amount(leaf.value)
  BY DEF Forest, leaf_hash, IsLeaf
<1> HIDE DEF node, leaf, key
<1>5. n \in T /\ \A i \in T : n <= i
  <2>1. KeyBits \in T
    BY <1>1, <1>3, <1>4
  <2>2. T \subseteq 0..KeyBits /\ T # {}
    BY <2>1
  <2> HIDE DEF T
  <2> QED BY <1>1, <2>2, MinIsLeast
<1>6. proof(root, key) = steps
  <2>1. node[n].key = key
    BY <1>3, <1>5 DEF key
  <2> QED BY <2>1 DEF proof, node
<1>7. n \in 0..KeyBits /\ IsLeaf(node[n]) /\ \A i \in 0..KeyBits : i < n => ~IsLeaf(node[i])
  <2>1. \A i \in 0..KeyBits : IsLeaf(node[i]) => n <= i
    BY <1>5
  <2>2. n \in 0..KeyBits
    BY <1>5
  <2> HIDE DEF n
  <2>3. \A i \in 0..KeyBits : i < n => ~(n <= i)
    BY <2>2
  <2> QED BY <1>5, <2>1, <2>2, <2>3 DEF n
<1> HIDE DEF n, T
<1>8. Len(steps) = n
  BY <1>1, <1>7
<1>9. /\ at[0] = LeafAt(key, leaf.data, leaf.value)
      /\ \A i \in 1..n : at[i] = Climb(key, at[i - 1], steps[i])
  <2> HIDE DEF steps
  <2> QED BY <1>7, <1>8, ClimbedSteps
<1>10. \A i \in 1..n : steps[i] = Sibling(node[n - i], key)
  OBVIOUS
<1> HIDE DEF at, steps
<1> DEFINE Prev(j) == IF j = 0 THEN KeyBits ELSE node[n - j].depth
           There(j) == [hash |-> node[n - j], sum |-> SumOf(node[n - j]), prev_depth |-> Prev(j)]
           N == {j \in 0..n : at[j] = There(j)}
<1>11. 0 \in N
  <2>1. node[n - 0] = leaf
    BY <1>1, <1>3, <1>7
  <2>2. SumOf(leaf) = leaf.value
    BY <1>4 DEF SumOf
  <2>3. at[0] = There(0)
    BY <1>4, <1>9, <2>1, <2>2 DEF LeafAt
  <2> QED BY <1>7, <2>3
<1>12. ASSUME NEW j \in 1..n, j - 1 \in N
       PROVE  j \in N
  <2> DEFINE i == n - j
             h == node[i]
             p == Prev(j - 1)
  <2>1. i \in 0..(KeyBits - 1) /\ i \in 0..KeyBits /\ i < n /\ n - (j - 1) = i + 1
        /\ i + 1 \in 1..KeyBits /\ (i + 1) - 1 = i /\ j - 1 \in 0..n /\ j # 0
    BY <1>1, <1>7
  <2>2. ~IsLeaf(h) /\ Inner(h, 0) /\ (~IsLeaf(node[i + 1]) => h.depth < node[i + 1].depth)
    BY <1>3, <1>7, <2>1
  <2>3. node[i + 1] = Child(h, key)
    BY <1>2, <2>1
  <2>4. p \in Nat /\ h.depth < p
    <3>1. CASE j = 1
      BY <1>1, <2>2, <3>1 DEF Inner
    <3>2. CASE j # 1
      <4>1. p = node[i + 1].depth
        BY <2>1, <3>2
      <4>2. i + 1 < n /\ i + 1 \in 0..(KeyBits - 1) /\ i + 1 \in 0..KeyBits
        BY <1>1, <1>7, <2>1, <3>2
      <4>3. ~IsLeaf(node[i + 1]) /\ Inner(node[i + 1], 0)
        BY <1>3, <1>7, <4>2
      <4>4. node[i + 1].depth \in Nat
        BY <4>3 DEF Inner
      <4> QED BY <2>2, <4>1, <4>3, <4>4
    <3> QED BY <3>1, <3>2
  <2>5. There(j - 1) = [hash |-> Child(h, key), sum |-> SumOf(Child(h, key)), prev_depth |-> p]
    BY <2>1, <2>3
  <2>6. There(j) = [hash |-> h, sum |-> SumOf(h), prev_depth |-> h.depth]
    BY <2>1
  <2> HIDE DEF p, h, There
  <2>7. Climb(key, There(j - 1), Sibling(h, key)) = There(j)
    BY <2>2, <2>4, <2>5, <2>6, ClimbBack
  <2>8. at[j] = Climb(key, at[j - 1], Sibling(h, key))
    BY <1>9, <1>10 DEF h
  <2>9. at[j - 1] = There(j - 1)
    BY <1>12
  <2>10. at[j] = There(j)
    BY <2>7, <2>8, <2>9
  <2> QED BY <2>10
<1>13. at[n] = There(n)
  <2>1. 0..n \subseteq N
    <3> HIDE DEF N
    <3> QED BY <1>7, <1>11, <1>12, UpTo
  <2>2. n \in 0..n
    BY <1>7
  <2>3. n \in N
    BY <2>1, <2>2
  <2> HIDE DEF There
  <2> QED BY <2>3
<1>14. n - n = 0
  BY <1>1, <1>7
<1>15. at[n].hash = root /\ at[n].sum = SumOf(root)
  BY <1>2, <1>13, <1>14
<1>16. verify(steps, key, leaf.data, leaf.value, root)
         = IF ~is_valid_amount(leaf.value) \/ n \notin 0..KeyBits \/ at[n].hash # root THEN None
           ELSE at[n].sum
  BY <1>8 DEF verify, at
<1>17. verify(steps, key, leaf.data, leaf.value, root) = SumOf(root)
  BY <1>4, <1>7, <1>15, <1>16
<1> QED BY <1>6, <1>17 DEF leaf, key

(* Every leaf of a built tree has a proof that verifies, and gives the sum *)
(* of the tree.                                                            *)
LEMMA ProofVerifies ==
  ASSUME NEW leaves, Forest(leaves), build(leaves) # None, NEW x \in DOMAIN leaves
  PROVE  LET leaf == leaves[x]
             tree == build(leaves)
         IN verify(proof(tree.hash, leaf.key), leaf.key, leaf.data, leaf.value, tree.hash) = tree.sum
<1> DEFINE S == DOMAIN leaves
           t == build_subtree(leaves)[0][S]
<1>1. build(leaves) = t /\ t # None
  BY DEF build
<1>2. S \in SUBSET DOMAIN leaves /\ 0 \in 0..KeyBits
  BY RsmstAssumption
<1>3. SubtreeWith(leaves, t.hash, x, 0)
  <2>1. x \in S /\ t # None /\ t.hash = t.hash
    BY <1>1
  <2> QED BY <1>2, <2>1 DEF SubtreeWith
<1>4. t.sum = SumOf(t.hash)
  BY <1>1, <1>2, SubtreeSum
<1> DEFINE h == t.hash
<1> HIDE DEF h
<1>5. verify(proof(h, leaves[x].key), leaves[x].key, leaves[x].data, leaves[x].value, h) = SumOf(h)
  BY <1>3, ProofClimbs DEF h
<1> QED BY <1>1, <1>4, <1>5 DEF h

(* A built tree sums its leaves.                                           *)
LEMMA TreeWeighs ==
  ASSUME NEW leaves, Forest(leaves), build(leaves) # None
  PROVE  build(leaves).sum = Cardinality(KeyUnits(leaves, DOMAIN leaves))
<1> DEFINE S == DOMAIN leaves
           t == build_subtree(leaves)[0][S]
<1>1. build(leaves) = t /\ t # None
  BY DEF build
<1>2. S \in SUBSET DOMAIN leaves /\ 0 \in 0..KeyBits
  BY RsmstAssumption
<1>3. Weighs(leaves, S, t)
  BY <1>1, <1>2, SubtreeWeighs
<1> QED BY <1>1, <1>3 DEF Weighs
-----------------------------------------------------------------------------
(* The leaves of an allocation tree.                                       *)

LEMMA LeavesSteps ==
  ASSUME NEW rs, Len(rs) \in Nat, NEW id
  PROVE  LET leaves == LeavesOf(rs, id) IN
         leaves[0] = <<>> /\ \A i \in 1..Len(rs) : leaves[i] = AddLeaf(leaves[i - 1], rs[i], id)
<1> DEFINE IsLeaves(f, n) == f = [i \in 0..n |-> IF i = 0 THEN <<>> ELSE AddLeaf(f[i - 1], rs[i], id)]
           N == {n \in Nat : \E f : IsLeaves(f, n)}
<1>1. 0 \in N
  <2>1. IsLeaves([i \in 0..0 |-> <<>>], 0)
    OBVIOUS
  <2> QED BY <2>1
<1>2. ASSUME NEW n \in 1..Len(rs), n - 1 \in N
      PROVE  n \in N
  <2>1. PICK f : IsLeaves(f, n - 1)
    BY <1>2
  <2> DEFINE g == [i \in 0..n |-> IF i = n THEN AddLeaf(f[n - 1], rs[n], id) ELSE f[i]]
  <2>2. ASSUME NEW i \in 0..n
        PROVE  g[i] = IF i = 0 THEN <<>> ELSE AddLeaf(g[i - 1], rs[i], id)
    <3>1. CASE i = n
      BY <3>1
    <3>2. CASE i # n
      <4>1. i \in 0..(n - 1) /\ g[i] = f[i]
        BY <3>2
      <4>2. f[i] = IF i = 0 THEN <<>> ELSE AddLeaf(f[i - 1], rs[i], id)
        BY <2>1, <4>1
      <4>3. i # 0 => g[i - 1] = f[i - 1]
        BY <3>2
      <4> QED BY <4>1, <4>2, <4>3
    <3> QED BY <3>1, <3>2
  <2>3. g = [i \in 0..n |-> IF i = 0 THEN <<>> ELSE AddLeaf(g[i - 1], rs[i], id)]
    BY <2>2
  <2> HIDE DEF g
  <2>4. IsLeaves(g, n)
    BY <2>3
  <2> HIDE DEF IsLeaves
  <2> QED BY <2>4
<1>3. Len(rs) \in N
  <2>1. 0..Len(rs) \subseteq N
    <3> HIDE DEF N
    <3> QED BY <1>1, <1>2, UpTo
  <2> QED BY <2>1
<1>4. IsLeaves(LeavesOf(rs, id), Len(rs))
  <2>1. \E f : IsLeaves(f, Len(rs))
    BY <1>3
  <2>2. LeavesOf(rs, id) = CHOOSE f : IsLeaves(f, Len(rs))
    BY Zenon DEF LeavesOf
  <2> HIDE DEF IsLeaves
  <2> QED BY <2>1, <2>2
<1> DEFINE leaves == LeavesOf(rs, id)
<1> HIDE DEF leaves
<1>5. leaves = [i \in 0..Len(rs) |-> IF i = 0 THEN <<>> ELSE AddLeaf(leaves[i - 1], rs[i], id)]
  BY <1>4 DEF leaves
<1>6. leaves[0] = <<>> /\ \A i \in 1..Len(rs) : leaves[i] = AddLeaf(leaves[i - 1], rs[i], id)
  BY <1>5
<1> QED BY <1>6 DEF leaves

(* The leaf of a request, and the requests that have one.                  *)
LeafOf(r, id) ==
  leaf_hash(r.token_id, commitment(source.network_id, r.token_type, r.token_id, r.data),
            Amount(r.assets, id))

Holders(rs, id) == {k \in 1..Len(rs) : Position(rs[k].assets, id) # {}}

(* Leaves are those of requests that hold the asset, and all of the first  *)
(* i requests that do have theirs.                                         *)
Listed(leaves, rs, id, i) ==
  /\ leaves \in Seq({LeafOf(rs[k], id) : k \in Holders(rs, id)})
  /\ \A j \in 1..Len(leaves) : is_valid_amount(leaves[j].value)
  /\ \A k \in 1..i : k \in Holders(rs, id) => \E j \in 1..Len(leaves) : leaves[j] = LeafOf(rs[k], id)

LEMMA AppendListed ==
  ASSUME NEW rs, NEW id, NEW i \in 1..Len(rs), Len(rs) \in Nat, NEW leaves, Listed(leaves, rs, id, i - 1),
         i \in Holders(rs, id), is_valid_amount(LeafOf(rs[i], id).value)
  PROVE  Listed(Append(leaves, LeafOf(rs[i], id)), rs, id, i)
<1> DEFINE L == {LeafOf(rs[k], id) : k \in Holders(rs, id)}
           e == LeafOf(rs[i], id)
           new == Append(leaves, e)
           H == Holders(rs, id)
<1>1. leaves \in Seq(L) /\ e \in L
  BY DEF Listed
<1>2. is_valid_amount(e.value)
  OBVIOUS
<1>3. \A k \in 1..(i - 1) : k \in H => \E j \in 1..Len(leaves) : leaves[j] = LeafOf(rs[k], id)
  BY DEF Listed
<1>4. \A j \in 1..Len(leaves) : is_valid_amount(leaves[j].value)
  BY DEF Listed
<1> HIDE DEF L, e, H
<1>5. /\ new \in Seq(L) /\ Len(new) = Len(leaves) + 1 /\ Len(leaves) \in Nat
      /\ \A j \in 1..Len(leaves) : new[j] = leaves[j]
      /\ new[Len(leaves) + 1] = e
  BY <1>1, AppendProperties, LenProperties
<1> HIDE DEF new
<1>6. \A j \in 1..Len(new) : j \in 1..Len(leaves) \/ j = Len(leaves) + 1
  BY <1>5
<1>7. \A j \in 1..Len(new) : is_valid_amount(new[j].value)
  BY <1>2, <1>4, <1>5, <1>6
<1>8. \A j \in 1..Len(leaves) : j \in 1..Len(new)
  BY <1>5
<1>9. ASSUME NEW k \in 1..i, k \in H
      PROVE  \E j \in 1..Len(new) : new[j] = LeafOf(rs[k], id)
  <2>1. CASE k = i
    <3>1. Len(leaves) + 1 \in 1..Len(new)
      BY <1>5
    <3> QED BY <1>5, <2>1, <3>1 DEF e
  <2>2. CASE k # i
    <3>1. k \in 1..(i - 1)
      BY <2>2
    <3>2. PICK j \in 1..Len(leaves) : leaves[j] = LeafOf(rs[k], id)
      BY <1>3, <1>9, <3>1
    <3> QED BY <1>5, <1>8, <3>2
  <2> QED BY <2>1, <2>2
<1> QED BY <1>5, <1>7, <1>9 DEF Listed, new, e, L, H

LEMMA LeavesListed ==
  ASSUME NEW rs, Len(rs) \in Nat, NEW id, LeavesOf(rs, id)[Len(rs)] # None
  PROVE  Listed(LeavesOf(rs, id)[Len(rs)], rs, id, Len(rs))
<1> DEFINE leaves == LeavesOf(rs, id)
           N == {i \in 0..Len(rs) : leaves[i] # None => Listed(leaves[i], rs, id, i)}
<1>1. leaves[0] = <<>> /\ \A i \in 1..Len(rs) : leaves[i] = AddLeaf(leaves[i - 1], rs[i], id)
  BY LeavesSteps
<1> HIDE DEF leaves
<1>2. 0 \in N
  <2>1. Listed(<<>>, rs, id, 0)
    <3> DEFINE L == {LeafOf(rs[k], id) : k \in Holders(rs, id)}
    <3> HIDE DEF L
    <3>1. <<>> \in Seq(L) /\ Len(<<>>) = 0
      OBVIOUS
    <3> QED BY <3>1 DEF Listed, L
  <2> QED BY <1>1, <2>1
<1>3. ASSUME NEW i \in 1..Len(rs), i - 1 \in N
      PROVE  i \in N
  <2> SUFFICES ASSUME leaves[i] # None PROVE Listed(leaves[i], rs, id, i)
    OBVIOUS
  <2> DEFINE old == leaves[i - 1]
             r == rs[i]
  <2>1. leaves[i] = AddLeaf(old, r, id)
    BY <1>1
  <2>2. old # None => Listed(old, rs, id, i - 1)
    BY <1>3
  <2> HIDE DEF old
  <2>3. CASE Position(r.assets, id) = {}
    <3>1. leaves[i] = old /\ i \notin Holders(rs, id)
      BY <2>1, <2>3 DEF AddLeaf, Holders
    <3>2. Listed(old, rs, id, i - 1)
      BY <2>2, <3>1
    <3>3. \A k \in 1..i : k \in Holders(rs, id) => k \in 1..(i - 1)
      BY <3>1
    <3> QED BY <3>1, <3>2, <3>3 DEF Listed
  <2>4. CASE Position(r.assets, id) # {}
    <3> DEFINE c == commitment(source.network_id, r.token_type, r.token_id, r.data)
               v == Amount(r.assets, id)
    <3>1. i \in Holders(rs, id)
      BY <2>4 DEF Holders
    <3> HIDE DEF c, v
    <3>2. leaves[i] = insert(old, r.token_id, c, v)
      BY <2>1, <2>4 DEF AddLeaf, c, v
    <3>3. old # None /\ is_valid_amount(v) /\ leaves[i] = Append(old, leaf_hash(r.token_id, c, v))
      BY <3>2 DEF insert
    <3>4. leaf_hash(r.token_id, c, v) = LeafOf(r, id) /\ leaf_hash(r.token_id, c, v).value = v
      BY DEF LeafOf, leaf_hash, c, v
    <3>5. Listed(old, rs, id, i - 1) /\ is_valid_amount(LeafOf(r, id).value)
      BY <2>2, <3>3, <3>4
    <3>6. Listed(Append(old, LeafOf(r, id)), rs, id, i)
      BY <3>1, <3>5, AppendListed
    <3> QED BY <3>3, <3>4, <3>6
  <2> QED BY <2>3, <2>4
<1>4. 0..Len(rs) \subseteq N
  <2> HIDE DEF N
  <2> QED BY <1>2, <1>3, UpTo
<1> QED BY <1>4 DEF leaves

LEMMA ListedForest ==
  ASSUME NEW leaves, NEW rs, NEW id, NEW i, Listed(leaves, rs, id, i)
  PROVE  Forest(leaves)
<1> DEFINE L == {LeafOf(rs[k], id) : k \in Holders(rs, id)}
<1>1. leaves \in Seq(L)
  BY DEF Listed
<1>2. \A e \in L : e = leaf_hash(e.key, e.data, e.value)
  BY DEF LeafOf, leaf_hash
<1> HIDE DEF L
<1>3. Len(leaves) \in Nat /\ DOMAIN leaves = 1..Len(leaves) /\ \A j \in 1..Len(leaves) : leaves[j] \in L
  BY <1>1, ElementOfSeq
<1> QED BY <1>2, <1>3 DEF Listed, Forest
-----------------------------------------------------------------------------
(* What build_split returns.                                               *)

(* A list of requests, in whatever order.                                  *)
Requests(rs) ==
  /\ Len(rs) \in Nat /\ DOMAIN rs = 1..Len(rs)
  /\ \A i \in DOMAIN rs : rs[i].assets \in Seq([id : Int, value : Int]) /\ rs[i].assets # None

TreesOf(rs) == [i \in DOMAIN source.data |-> TreeOf(rs, source.data[i].id)]

BurnOf(trees, m) ==
  LET roots == [i \in DOMAIN trees |-> trees[i].hash]
  IN [mask |-> m, data |-> roots, recipient |-> Burned(roots)]

(* Every request fits, and every source asset is allocated completely.     *)
Allocation(rs, trees) ==
  /\ \A i \in DOMAIN rs : RequestFits(rs, i)
  /\ \A i \in DOMAIN trees : trees[i] # None /\ trees[i].sum = source.data[i].value

LEMMA SplitIs ==
  ASSUME NEW rs, NEW m, build_split(rs, m) # None
  PROVE  /\ Allocation(rs, TreesOf(rs))
         /\ build_split(rs, m) = [burn   |-> BurnOf(TreesOf(rs), m),
                                  tokens |-> [i \in DOMAIN rs |-> OutputOf(TreesOf(rs), rs[i])]]
<1> DEFINE trees == TreesOf(rs)
           split == [burn   |-> BurnOf(trees, m),
                     tokens |-> [i \in DOMAIN rs |-> OutputOf(trees, rs[i])]]
           fails == \/ \E i \in DOMAIN rs : ~RequestFits(rs, i)
                    \/ \E i \in DOMAIN trees : trees[i] = None
                    \/ \E i \in DOMAIN trees : trees[i].sum # source.data[i].value
<1>1. build_split(rs, m) = IF fails THEN None ELSE split
  BY Zenon DEF build_split, TreesOf, BurnOf
<1> HIDE DEF split
<1>2. ~fails /\ build_split(rs, m) = split
  <2> HIDE DEF fails
  <2> QED BY <1>1
<1> HIDE DEF trees
<1>3. Allocation(rs, trees)
  BY <1>2, Zenon DEF Allocation
<1> QED BY <1>2, <1>3, Zenon DEF split, trees

(* The payment data of a request that fits is its assets, canonical.       *)
LEMMA FitData ==
  ASSUME NEW rs, Requests(rs), NEW i \in DOMAIN rs, RequestFits(rs, i)
  PROVE  /\ rs[i].data = rs[i].assets /\ decode(rs[i].assets) # None
         /\ Len(rs[i].assets) \in 1..MaxAssets
         /\ DOMAIN rs[i].assets = 1..Len(rs[i].assets)
<1> DEFINE a == rs[i].assets
           d == rs[i].data
<1>1. a \in Seq([id : Int, value : Int]) /\ a # None /\ decode(d) = a
  BY DEF Requests, RequestFits
<1> HIDE DEF a, d
<1>2. d = a /\ Len(d) \in 1..MaxAssets
  BY <1>1 DEF decode
<1>3. DOMAIN a = 1..Len(a)
  BY <1>1, LenProperties
<1> QED BY <1>1, <1>2, <1>3 DEF a, d

LEMMA AmountAt ==
  ASSUME NEW assets \in Seq([id : Int, value : Int]), decode(assets) # None, NEW i \in DOMAIN assets
  PROVE  Amount(assets, assets[i].id) = assets[i].value
<1> DEFINE P == Position(assets, assets[i].id)
           j == CHOOSE j \in P : TRUE
<1>1. i \in P
  BY DEF Position
<1>2. j \in P
  BY <1>1
<1>3. j \in DOMAIN assets /\ assets[j].id = assets[i].id
  BY <1>2 DEF Position
<1> HIDE DEF j
<1>4. j = i
  BY <1>3, OnePosition
<1>5. Amount(assets, assets[i].id) = assets[j].value
  BY <1>1 DEF Amount, j
<1> QED BY <1>4, <1>5

(* The facts about the source the owner starts from.                       *)
GoodSource ==
  /\ source.data \in Seq([id : Int, value : Int]) /\ source.data # None
  /\ decode(source.data) # None

LEMMA SourceParts ==
  ASSUME GoodSource
  PROVE  /\ Len(source.data) \in 1..MaxAssets /\ Len(source.data) \in Nat
         /\ DOMAIN source.data = 1..Len(source.data)
<1>1. DOMAIN source.data = 1..Len(source.data)
  BY LenProperties DEF GoodSource
<1>2. Len(source.data) \in 1..MaxAssets
  BY DEF GoodSource, decode
<1>3. \A n \in 1..MaxAssets : n \in Nat
  BY SplitAssumption
<1> QED BY <1>1, <1>2, <1>3

(* The tree of a source asset and its leaves.                              *)
LEMMA AssetTree ==
  ASSUME NEW rs, Requests(rs), Allocation(rs, TreesOf(rs)), NEW i \in DOMAIN source.data
  PROVE  LET id == source.data[i].id
             leaves == LeavesOf(rs, id)[Len(rs)]
         IN /\ TreesOf(rs)[i] = build(leaves) /\ build(leaves) # None
            /\ build(leaves).sum = source.data[i].value
            /\ Forest(leaves) /\ Listed(leaves, rs, id, Len(rs))
<1> DEFINE id == source.data[i].id
           leaves == LeavesOf(rs, id)[Len(rs)]
           tree == TreesOf(rs)[i]
<1>1. tree = build(leaves) /\ DOMAIN TreesOf(rs) = DOMAIN source.data
  BY DEF TreesOf, TreeOf
<1>2. tree # None /\ tree.sum = source.data[i].value
  BY <1>1 DEF Allocation
<1>3. leaves # None
  BY <1>1, <1>2 DEF build
<1>4. Listed(leaves, rs, id, Len(rs))
  <2> HIDE DEF id
  <2> QED BY <1>3, LeavesListed DEF Requests
<1>5. Forest(leaves)
  <2> HIDE DEF leaves, id
  <2> QED BY <1>4, ListedForest
<1> QED BY <1>1, <1>2, <1>4, <1>5

(* A planned output is allocated what its payment data says.               *)
LEMMA OutputAllocated ==
  ASSUME GoodSource, NEW rs, Requests(rs), Allocation(rs, TreesOf(rs)), NEW m, NEW i \in DOMAIN rs,
         NEW k \in DOMAIN rs[i].assets
  PROVE  LET out == OutputOf(TreesOf(rs), rs[i])
         IN Allocated(out, out.data[k], out.proofs[k], BurnOf(TreesOf(rs), m).data)
<1> DEFINE r == rs[i]
           trees == TreesOf(rs)
           asset == r.assets[k]
           id == asset.id
           P == Position(source.data, id)
           p == Min(P)
           out == OutputOf(trees, r)
           c == commitment(source.network_id, r.token_type, r.token_id, r.data)
           manifest == BurnOf(trees, m).data
<1>1. RequestFits(rs, i)
  BY DEF Allocation
<1>2. /\ r.data = r.assets /\ decode(r.assets) # None /\ DOMAIN r.assets = 1..Len(r.assets)
      /\ r.assets \in Seq([id : Int, value : Int])
  BY <1>1, FitData DEF Requests
<1>3. p \in P
  <2>1. P # {}
    BY <1>1 DEF RequestFits
  <2>2. P \subseteq 1..Len(source.data) /\ Len(source.data) \in Nat
    BY SourceParts DEF Position
  <2> HIDE DEF P
  <2> QED BY <2>1, <2>2, MinIsLeast
<1>4. p \in DOMAIN source.data /\ source.data[p].id = id
  BY <1>3 DEF Position
<1> DEFINE leaves == LeavesOf(rs, id)[Len(rs)]
<1>5. /\ trees[p] = build(leaves) /\ build(leaves) # None
      /\ build(leaves).sum = source.data[p].value
      /\ Forest(leaves) /\ Listed(leaves, rs, id, Len(rs))
  <2> HIDE DEF p, leaves, trees, id
  <2> QED BY <1>4, AssetTree DEF leaves, trees
<1>6. i \in Holders(rs, id) /\ i \in 1..Len(rs)
  <2>1. k \in Position(r.assets, id)
    BY DEF Position
  <2> QED BY <2>1 DEF Holders, Requests
<1> HIDE DEF leaves
<1>7. PICK x \in 1..Len(leaves) : leaves[x] = LeafOf(r, id)
  BY <1>5, <1>6 DEF Listed
<1>8. x \in DOMAIN leaves
  BY <1>5, <1>7 DEF Forest
<1>9. Amount(r.assets, id) = asset.value
  BY <1>2, AmountAt
<1>10. leaves[x].key = r.token_id /\ leaves[x].data = c /\ leaves[x].value = asset.value
  BY <1>7, <1>9 DEF LeafOf, leaf_hash
<1> DEFINE root == build(leaves).hash
<1>11. verify(proof(root, r.token_id), r.token_id, c, asset.value, root) = source.data[p].value
  <2>1. verify(proof(root, leaves[x].key), leaves[x].key, leaves[x].data, leaves[x].value, root)
          = build(leaves).sum
    BY <1>5, <1>8, ProofVerifies
  <2> HIDE DEF root, c, asset
  <2> QED BY <1>5, <1>10, <2>1
<1>12. manifest[p] = root
  BY <1>4, <1>5 DEF BurnOf, TreesOf
<1> HIDE DEF root
<1>13. /\ out.proofs[k] = proof(root, r.token_id) /\ out.token_id = r.token_id
       /\ out.network_id = source.network_id /\ out.token_type = r.token_type
       /\ out.data = r.data /\ out.data[k] = asset
  BY <1>2, <1>5 DEF OutputOf, root
<1> HIDE DEF out, manifest, p, P, r, asset, id
<1>14. verify(out.proofs[k], out.token_id,
              commitment(out.network_id, out.token_type, out.token_id, out.data),
              out.data[k].value, manifest[p]) = source.data[p].value
  BY <1>11, <1>12, <1>13 DEF c
<1>15. p \in Position(source.data, out.data[k].id)
  BY <1>3, <1>13 DEF P, id
<1>16. Allocated(out, out.data[k], out.proofs[k], manifest)
  BY <1>14, <1>15 DEF Allocated
<1> QED BY <1>16 DEF out, manifest, r

LEMMA BurnParts ==
  ASSUME GoodSource, NEW rs, NEW m \in Masks
  PROVE  LET b == BurnOf(TreesOf(rs), m) IN ManifestBound(b) /\ Len(b.data) = Len(source.data)
<1> DEFINE trees == TreesOf(rs)
           b == BurnOf(trees, m)
           n == Len(source.data)
<1>1. DOMAIN trees = 1..n /\ n \in Nat /\ n \in 1..MaxAssets
  BY SourceParts DEF TreesOf
<1> HIDE DEF trees, n
<1>2. b.data = [i \in 1..n |-> trees[i].hash] /\ b.recipient = Burned(b.data) /\ b.mask = m
  BY <1>1 DEF BurnOf
<1> HIDE DEF b
<1>3. Len(b.data) = n
  BY <1>1, <1>2
<1>4. b # NoBurn
  BY <1>2, SplitAssumption DEF NoBurn
<1>5. ManifestBound(b)
  BY <1>1, <1>2, <1>3, <1>4 DEF ManifestBound
<1> QED BY <1>3, <1>5 DEF b, trees, n

(* The source verifies one level down and with its burn exactly when it is *)
(* authentic and has room.                                                 *)
LEMMA EmbeddedSource ==
  ASSUME source \in Sources, GoodSource, NEW b, b # NoBurn, Len(b.data) = Len(source.data)
  PROVE  verify_embedded_token(b, b) <=> source.authentic /\ HasRoom
<1> DEFINE added == BurnBytes(Len(source.data))
           depth == source.embedded_depth
           bytes == source.embedded_bytes
           len == source.encoded_len
           transfers == source.transfers
<1>1. source.data # None /\ Len(source.data) \in 1..MaxAssets
  BY SourceParts DEF GoodSource
<1>2. /\ added \in Nat /\ depth \in Nat /\ bytes \in Nat /\ len \in Nat /\ transfers \in Nat
      /\ MaxDepth \in Nat /\ MaxBytes \in Nat /\ MaxTransfers \in Nat
  BY <1>1, SplitAssumption
<1>3. verify_embedded_token(b, b) <=> verify_token_in_context(1, len + added, transfers + 1)
  BY Zenon DEF verify_embedded_token
<1>4. verify_token_in_context(1, len + added, transfers + 1) <=>
        /\ transfers + 1 <= MaxTransfers /\ source.authentic
        /\ 1 + depth <= MaxDepth /\ len + added + bytes <= MaxBytes
  BY Zenon DEF verify_token_in_context
<1>5. HasRoom <=>
        transfers < MaxTransfers /\ depth < MaxDepth /\ bytes + len + added <= MaxBytes
  BY <1>1, Zenon DEF HasRoom
<1> HIDE DEF added, depth, bytes, len, transfers
<1>6. /\ transfers + 1 <= MaxTransfers <=> transfers < MaxTransfers
      /\ 1 + depth <= MaxDepth <=> depth < MaxDepth
      /\ len + added + bytes <= MaxBytes <=> bytes + len + added <= MaxBytes
  BY <1>2
<1> QED BY <1>3, <1>4, <1>5, <1>6, Zenon

LEMMA OutputVerifies ==
  ASSUME source \in Sources, GoodSource, NEW rs, Requests(rs), Allocation(rs, TreesOf(rs)),
         NEW m \in Masks, NEW i \in DOMAIN rs
  PROVE  LET b == BurnOf(TreesOf(rs), m)
         IN verify_split(OutputOf(TreesOf(rs), rs[i]), b, b) <=> source.authentic /\ HasRoom
<1> DEFINE r == rs[i]
           trees == TreesOf(rs)
           out == OutputOf(trees, r)
           b == BurnOf(trees, m)
<1>1. RequestFits(rs, i)
  BY DEF Allocation
<1>2. /\ r.data = r.assets /\ decode(r.assets) # None /\ Len(r.assets) \in 1..MaxAssets
      /\ DOMAIN r.assets = 1..Len(r.assets) /\ r.assets # None
  BY <1>1, FitData DEF Requests
<1>3. r.token_type = source.token_type
  BY <1>1 DEF RequestFits
<1>4. ManifestBound(b) /\ Len(b.data) = Len(source.data)
  BY BurnParts
<1>5. \A k \in DOMAIN r.assets : Allocated(out, out.data[k], out.proofs[k], b.data)
  BY OutputAllocated
<1>6. /\ out.data = r.data /\ out.network_id = source.network_id /\ out.token_type = r.token_type
      /\ \E f : out.proofs = [k \in DOMAIN r.assets |-> f[k]]
  <2> DEFINE f == [k \in DOMAIN r.assets |->
                     proof(trees[Min(Position(source.data, r.assets[k].id))].hash, r.token_id)]
  <2>1. out.proofs = f
    BY DEF OutputOf
  <2>2. f = [k \in DOMAIN r.assets |-> f[k]]
    OBVIOUS
  <2> HIDE DEF f
  <2>3. out.proofs = [k \in DOMAIN r.assets |-> f[k]]
    BY <2>1, <2>2
  <2>4. out.data = r.data /\ out.network_id = source.network_id /\ out.token_type = r.token_type
    BY DEF OutputOf
  <2> QED BY <2>3, <2>4
<1> HIDE DEF out, r, b
<1>7. Len(out.proofs) = Len(r.assets)
  <2>1. Len(r.assets) \in Nat
    BY <1>2, SplitAssumption
  <2>2. PICK f : out.proofs = [k \in 1..Len(r.assets) |-> f[k]]
    BY <1>2, <1>6
  <2> QED BY <2>1, <2>2
<1>8. verify_embedded_token(b, b) <=> source.authentic /\ HasRoom
  <2>1. b # NoBurn
    BY <1>4 DEF ManifestBound
  <2> QED BY <1>4, <2>1, EmbeddedSource
<1>9. source.data # None /\ decode(source.data) # None
  BY DEF GoodSource
<1>10. /\ Len(out.proofs) \in 1..MaxAssets /\ Len(out.proofs) = Len(out.data)
       /\ out.data # None /\ decode(out.data) # None
       /\ \A k \in DOMAIN out.data : Allocated(out, out.data[k], out.proofs[k], b.data)
  BY <1>2, <1>5, <1>6, <1>7
<1>11. verify_split(out, b, b) <=> verify_embedded_token(b, b)
  BY <1>3, <1>4, <1>6, <1>9, <1>10, Zenon DEF verify_split
<1> QED BY <1>8, <1>11, Zenon DEF out, b, r

(* The units of an asset that a list of outputs holds.                     *)
UnitsOf(tokens, id) == UNION {{t.token_id} \X (1..Amount(t.data, id)) : t \in ToSet(tokens)}

(* The planned outputs hold what the source holds.                         *)
LEMMA OutputsWeigh ==
  ASSUME GoodSource, NEW rs, Requests(rs), Allocation(rs, TreesOf(rs)),
         NEW id \in AssetIds(source.data)
  PROVE  Cardinality(UnitsOf([i \in DOMAIN rs |-> OutputOf(TreesOf(rs), rs[i])], id))
           = Amount(source.data, id)
<1> DEFINE trees == TreesOf(rs)
           tokens == [i \in DOMAIN rs |-> OutputOf(trees, rs[i])]
           leaves == LeavesOf(rs, id)[Len(rs)]
           S == DOMAIN leaves
<1>1. PICK p \in DOMAIN source.data : source.data[p].id = id
  BY DEF AssetIds
<1>2. /\ build(leaves) # None /\ build(leaves).sum = source.data[p].value
      /\ Forest(leaves) /\ Listed(leaves, rs, id, Len(rs))
  BY <1>1, AssetTree
<1>3. Amount(source.data, id) = source.data[p].value
  BY <1>1, AmountAt DEF GoodSource
<1>4. build(leaves).sum = Cardinality(KeyUnits(leaves, S))
  <2> HIDE DEF leaves
  <2> QED BY <1>2, TreeWeighs
<1>5. ASSUME NEW i \in DOMAIN rs
      PROVE  /\ rs[i].data = rs[i].assets
             /\ tokens[i].token_id = rs[i].token_id /\ tokens[i].data = rs[i].data
  <2>1. RequestFits(rs, i)
    BY DEF Allocation
  <2>2. rs[i].data = rs[i].assets
    BY <2>1, FitData
  <2>3. tokens[i].token_id = rs[i].token_id /\ tokens[i].data = rs[i].data
    BY DEF OutputOf
  <2> QED BY <2>2, <2>3
<1>6. DOMAIN tokens = DOMAIN rs /\ DOMAIN rs = 1..Len(rs)
  BY DEF Requests
<1> HIDE DEF tokens, leaves
<1> DEFINE L == {LeafOf(rs[k], id) : k \in Holders(rs, id)}
           A(i) == Amount(rs[i].assets, id)
<1>7. S = 1..Len(leaves) /\ \A j \in S : leaves[j] \in L
  <2>1. leaves \in Seq(L)
    BY <1>2 DEF Listed
  <2> HIDE DEF L
  <2> QED BY <2>1, ElementOfSeq, LenProperties
<1>8. \A k : LeafOf(rs[k], id).key = rs[k].token_id /\ LeafOf(rs[k], id).value = A(k)
  BY DEF LeafOf, leaf_hash
<1>9. UnitsOf(tokens, id) \subseteq KeyUnits(leaves, S)
  <2> SUFFICES ASSUME NEW u \in UnitsOf(tokens, id) PROVE u \in KeyUnits(leaves, S)
    OBVIOUS
  <2>1. PICK i \in DOMAIN rs : u \in {tokens[i].token_id} \X (1..Amount(tokens[i].data, id))
    BY <1>6 DEF UnitsOf, ToSet
  <2>2. u \in {rs[i].token_id} \X (1..A(i))
    BY <1>5, <2>1
  <2>3. Position(rs[i].assets, id) # {}
    <3> SUFFICES ASSUME Position(rs[i].assets, id) = {} PROVE FALSE
      OBVIOUS
    <3>1. A(i) = 0
      BY DEF Amount
    <3>2. 1..0 = {}
      OBVIOUS
    <3> HIDE DEF A
    <3> QED BY <2>2, <3>1, <3>2
  <2>4. i \in Holders(rs, id) /\ i \in 1..Len(rs)
    BY <1>6, <2>3 DEF Holders
  <2>5. PICK j \in 1..Len(leaves) : leaves[j] = LeafOf(rs[i], id)
    BY <1>2, <2>4 DEF Listed
  <2>6. j \in S /\ u \in {leaves[j].key} \X (1..leaves[j].value)
    <3> HIDE DEF A
    <3> QED BY <1>7, <1>8, <2>2, <2>5
  <2> QED BY <2>6 DEF KeyUnits
<1>10. KeyUnits(leaves, S) \subseteq UnitsOf(tokens, id)
  <2> SUFFICES ASSUME NEW u \in KeyUnits(leaves, S) PROVE u \in UnitsOf(tokens, id)
    OBVIOUS
  <2>1. PICK j \in S : u \in {leaves[j].key} \X (1..leaves[j].value)
    BY DEF KeyUnits
  <2>2. PICK i \in Holders(rs, id) : leaves[j] = LeafOf(rs[i], id)
    BY <1>7
  <2>3. i \in DOMAIN rs
    BY <1>6, <2>2 DEF Holders
  <2>4. u \in {tokens[i].token_id} \X (1..Amount(tokens[i].data, id))
    BY <1>5, <1>8, <2>1, <2>2, <2>3
  <2>5. tokens[i] \in ToSet(tokens)
    BY <1>6, <2>3 DEF ToSet
  <2> QED BY <2>4, <2>5 DEF UnitsOf
<1>11. UnitsOf(tokens, id) = KeyUnits(leaves, S)
  BY <1>9, <1>10
<1> QED BY <1>2, <1>3, <1>4, <1>11 DEF tokens

-----------------------------------------------------------------------------
(* Nothing is lost.                                                        *)

(* What BuiltSplitVerifies says of a plan.                                 *)
Fulfilled(p) ==
  /\ checked => source.authentic
  /\ \A i \in DOMAIN p.tokens :
       verify_split(p.tokens[i], p.burn, p.burn) <=> source.authentic /\ HasRoom
  /\ \A id \in AssetIds(source.data) : Cardinality(UnitsOf(p.tokens, id)) = Amount(source.data, id)

(* BuiltSplitVerifies is inductive with what the owner starts from.        *)
PlanInv ==
  /\ source \in Sources
  /\ owner = "sdk" => requests \in RequestLists /\ mask \in Masks \cup {None}
  /\ BuiltSplitVerifies

LEMMA OrdersAreRequests ==
  ASSUME NEW rs \in RequestLists, NEW os \in Orders(rs)
  PROVE  Requests(os)
<1> DEFINE D == DOMAIN rs
<1>1. /\ Len(rs) \in Nat /\ D = 1..Len(rs)
      /\ \A i \in D : rs[i].assets \in Seq([id : Int, value : Int]) /\ rs[i].assets # None
  BY SplitAssumption
<1>2. PICK p \in SetToSeqs(D) : os = [i \in D |-> rs[p[i]]]
  BY DEF Orders
<1>3. p \in [1..Cardinality(D) -> D]
  BY <1>2 DEF SetToSeqs
<1>4. Cardinality(D) = Len(rs)
  BY <1>1, FS_Interval
<1> HIDE DEF D
<1>5. \A i \in D : p[i] \in D /\ os[i] = rs[p[i]]
  BY <1>1, <1>2, <1>3, <1>4
<1>6. DOMAIN os = D /\ Len(os) = Len(rs)
  BY <1>1, <1>2
<1> QED BY <1>1, <1>5, <1>6 DEF Requests

LEMMA SplitFulfils ==
  ASSUME source \in Sources, Splittable, NEW rs, Requests(rs), NEW m \in Masks,
         build_split(rs, m) # None
  PROVE  Fulfilled(build_split(rs, m))
<1> DEFINE trees == TreesOf(rs)
           b == BurnOf(trees, m)
           tokens == [i \in DOMAIN rs |-> OutputOf(trees, rs[i])]
           split == build_split(rs, m)
<1>1. Allocation(rs, trees) /\ split = [burn |-> b, tokens |-> tokens]
  BY SplitIs
<1>2. GoodSource
  BY SplitAssumption DEF Splittable, GoodSource
<1>3. checked => source.authentic
  BY Zenon DEF Splittable, verify_token_in_context
<1>4. ASSUME NEW i \in DOMAIN rs
      PROVE  verify_split(OutputOf(trees, rs[i]), b, b) <=> source.authentic /\ HasRoom
  BY <1>1, <1>2, OutputVerifies
<1>5. \A id \in AssetIds(source.data) : Cardinality(UnitsOf(tokens, id)) = Amount(source.data, id)
  BY <1>1, <1>2, OutputsWeigh
<1>6. DOMAIN tokens = DOMAIN rs /\ \A i \in DOMAIN rs : tokens[i] = OutputOf(trees, rs[i])
  OBVIOUS
<1> HIDE DEF tokens, b, split, trees
<1>7. split.burn = b /\ split.tokens = tokens
  BY <1>1
<1>8. \A i \in DOMAIN split.tokens :
        verify_split(split.tokens[i], split.burn, split.burn) <=> source.authentic /\ HasRoom
  BY <1>4, <1>6, <1>7, Zenon
<1> QED BY <1>3, <1>5, <1>7, <1>8, Zenon DEF Fulfilled, split

LEMMA PlanKept ==
  ASSUME PlanInv, UNCHANGED inputs, UNCHANGED <<pc, plan>>
  PROVE  PlanInv'
<1>1. \A t, b : verify_split(t, b, b)' <=> verify_split(t, b, b)
  BY DEF verify_split, verify_embedded_token, verify_token_in_context, Allocated, inputs
<1>2. (source.authentic /\ HasRoom)' <=> source.authentic /\ HasRoom
  BY DEF HasRoom, inputs
<1> QED BY <1>1, <1>2 DEF PlanInv, BuiltSplitVerifies, PlannedUnits, inputs

LEMMA NotBuilt ==
  ASSUME PlanInv, UNCHANGED inputs, pc' # "built"
  PROVE  PlanInv'
BY DEF PlanInv, BuiltSplitVerifies, inputs

LEMMA BuildKeeps ==
  ASSUME PlanInv, Build
  PROVE  PlanInv'
<1>1. UNCHANGED inputs /\ owner = "sdk"
  BY DEF Build
<1>2. CASE pc' # "built"
  BY <1>1, <1>2, NotBuilt
<1>3. CASE pc' = "built"
  <2>1. /\ Splittable
        /\ \E split \in {build_split(rs, m) : rs \in Orders(requests), m \in MaskChoice} :
             plan' = split /\ pc' = IF split = None THEN "refused" ELSE "built"
    BY <1>3 DEF Build
  <2>2. PICK rs \in Orders(requests), m \in MaskChoice :
          plan' = build_split(rs, m) /\ build_split(rs, m) # None
    BY <1>3, <2>1
  <2>3. m \in Masks /\ requests \in RequestLists /\ source \in Sources
    BY <1>1 DEF PlanInv, MaskChoice
  <2>4. Requests(rs)
    BY <2>3, OrdersAreRequests
  <2> DEFINE split == build_split(rs, m)
  <2>5. Fulfilled(split)
    BY <2>1, <2>2, <2>3, <2>4, SplitFulfils
  <2>6. plan' = split
    BY <2>2
  <2> HIDE DEF split
  <2>7. \A t, b : verify_split(t, b, b)' <=> verify_split(t, b, b)
    BY <1>1 DEF verify_split, verify_embedded_token, verify_token_in_context, Allocated, inputs
  <2>8. source' = source /\ checked' = checked
    BY <1>1 DEF inputs
  <2>9. HasRoom' <=> HasRoom
    BY <2>8 DEF HasRoom
  <2>10. BuiltSplitVerifies'
    BY <2>5, <2>6, <2>7, <2>8, <2>9 DEF BuiltSplitVerifies, Fulfilled, PlannedUnits, UnitsOf
  <2> QED BY <1>1, <2>10 DEF PlanInv, inputs
<1> QED BY <1>2, <1>3

LEMMA NextPlanInv ==
  ASSUME PlanInv, [Next]_vars
  PROVE  PlanInv'
<1>1. CASE Build
  BY <1>1, BuildKeeps
<1>2. CASE CertifyBurn
  <2>1. UNCHANGED inputs /\ pc' # "built"
    BY <1>2 DEF CertifyBurn
  <2> QED BY <2>1, NotBuilt
<1>3. CASE MintOutput
  <2>1. UNCHANGED inputs /\ UNCHANGED <<pc, plan>>
    BY <1>3 DEF MintOutput, Mint
  <2> QED BY <2>1, PlanKept
<1>4. CASE Crash
  <2>1. UNCHANGED inputs /\ pc' # "built"
    BY <1>4 DEF Crash
  <2> QED BY <2>1, NotBuilt
<1>5. CASE BurnAnyhow
  <2>1. UNCHANGED inputs /\ UNCHANGED <<pc, plan>>
    BY <1>5 DEF BurnAnyhow
  <2> QED BY <2>1, PlanKept
<1>6. CASE MintAnything
  <2>1. \E mint, b : Mint(mint, b)
    BY <1>6, Zenon DEF MintAnything
  <2>2. UNCHANGED inputs /\ UNCHANGED <<pc, plan>>
    BY <2>1 DEF Mint
  <2> QED BY <2>2, PlanKept
<1>7. CASE UNCHANGED vars
  <2>1. UNCHANGED inputs /\ UNCHANGED <<pc, plan>>
    BY <1>7 DEF vars, inputs
  <2> QED BY <2>1, PlanKept
<1> QED BY <1>1, <1>2, <1>3, <1>4, <1>5, <1>6, <1>7 DEF Next

(* What the owner of an SDK split starts from, and what its plan is worth  *)
(* while it is not burned for.                                             *)
THEOREM PlanInvariance == Spec => []PlanInv
<1>1. Init => PlanInv
  BY DEF Init, PlanInv, BuiltSplitVerifies
<1> QED BY <1>1, NextPlanInv, PTL DEF Spec

(* A split that build_split returns allots exactly what the source holds,  *)
(* and every output of it would be accepted if and only if the source is   *)
(* authentic and can be embedded with its burn within the limits on depth, *)
(* bytes and transfers: for every source, every limit, every list of       *)
(* requests in every order and keys and amounts of any size.  A source     *)
(* that meets a limit exactly has no room, and its outputs are all         *)
(* refused, although split verified it.                                    *)
THEOREM PlanWorth == Spec => []BuiltSplitVerifies
<1>1. PlanInv => BuiltSplitVerifies
  BY DEF PlanInv
<1> QED BY <1>1, PlanInvariance, PTL
=============================================================================
