--------------------------- MODULE FifoIndexProofs ---------------------------
(***************************************************************************)
(* Proofs about FifoIndex, for every capacity, bucket count and hash       *)
(* function: the queue and the chained table stay consistent through       *)
(* insertion and swap_remove eviction, and no operation examines more      *)
(* slots than the capacity.                                                *)
(*                                                                         *)
(* An insertion is an eviction (if full) followed by a push, so the        *)
(* invariant is stated of an arbitrary table, queue and counter            *)
(* (Consistent) and shown to survive each half on its own.                 *)
(***************************************************************************)
EXTENDS FifoIndex, SequenceTheorems, FiniteSetTheorems, TLAPS

(* TypeOK and IndexConsistent of a given table, queue and counter.         *)
Typed(bs, ord, n) ==
  /\ bs \in [BucketIds -> Seq(Slots)]
  /\ ord \in Seq(Entries)
  /\ n \in Nat

Recent(ord, n) ==
  /\ Len(ord) <= Capacity /\ Len(ord) <= n
  /\ \A k \in DOMAIN ord : ord[k].seq = n - Len(ord) + k - 1

EntrySlots(bs, ord) ==
  \A k \in DOMAIN ord :
    \E i \in DOMAIN bs[ord[k].bucket] : bs[ord[k].bucket][i].seq = ord[k].seq

SlotEntries(bs, ord) ==
  \A b \in BucketIds : \A i \in DOMAIN bs[b] :
    /\ bucket(bs[b][i].hash) = b
    /\ bs[b][i].hash = HashOf[bs[b][i].value]
    /\ \E k \in DOMAIN ord : ord[k] = [seq |-> bs[b][i].seq, bucket |-> b]

Differ(bs) ==
  \A b \in BucketIds : \A i, j \in DOMAIN bs[b] :
    bs[b][i].seq = bs[b][j].seq => i = j

Consistent(bs, ord, n) ==
  Recent(ord, n) /\ EntrySlots(bs, ord) /\ SlotEntries(bs, ord) /\ Differ(bs)

-----------------------------------------------------------------------------
(* Every hash has a bucket, once there are any.                            *)
LEMMA BucketExists ==
  ASSUME Capacity > 0, NEW h \in Nat
  PROVE  bucket(h) \in BucketIds
  BY IndexAssumption DEF bucket, BucketIds

(* What Vec::swap_remove leaves: one element less, the last one in place   *)
(* of the removed one.                                                     *)
LEMMA SwapRemoveProperties ==
  ASSUME NEW S, NEW s \in Seq(S), NEW i \in 1..Len(s)
  PROVE  /\ swap_remove(s, i) \in Seq(S)
         /\ Len(swap_remove(s, i)) = Len(s) - 1
         /\ DOMAIN swap_remove(s, i) = 1..(Len(s) - 1)
         /\ \A j \in 1..(Len(s) - 1) :
              swap_remove(s, i)[j] = IF j = i THEN s[Len(s)] ELSE s[j]
<1> DEFINE t == [s EXCEPT ![i] = s[Len(s)]]
<1>1. Len(s) \in Nat /\ s[Len(s)] \in S
  BY LenProperties, ElementOfSeq
<1>2. /\ t \in Seq(S) /\ Len(t) = Len(s)
      /\ \A j \in 1..Len(s) : t[j] = IF j = i THEN s[Len(s)] ELSE s[j]
  BY <1>1, ExceptSeq
<1>3. \A j \in 1..(Len(s) - 1) : t[j] \in S
  BY <1>1, <1>2, ElementOfSeq
<1> HIDE DEF t
<1> DEFINE n == Len(s) - 1
<1>4. n \in Nat
  BY <1>1
<1>5. /\ SubSeq(t, 1, n) \in Seq(S)
      /\ Len(SubSeq(t, 1, n)) = IF 1 <= n THEN n - 1 + 1 ELSE 0
      /\ \A j \in 1..(n - 1 + 1) : SubSeq(t, 1, n)[j] = t[1 + j - 1]
  <2> HIDE DEF n
  <2>1. \A j \in 1..n : t[j] \in S
    BY <1>3 DEF n
  <2>2. 1 \in Int /\ n \in Int
    BY <1>4
  <2> QED
    BY <2>1, <2>2, SubSeqProperties
<1>6. swap_remove(s, i) = SubSeq(t, 1, n)
  BY DEF swap_remove, t
<1> QED
  BY <1>1, <1>2, <1>4, <1>5, <1>6, LenProperties

(* A table without the slot of its oldest entry is consistent with the     *)
(* queue without that entry.                                               *)
LEMMA EvictionKeepsConsistency ==
  ASSUME NEW bs, NEW ord, NEW n,
         Typed(bs, ord, n), Consistent(bs, ord, n), ord # <<>>
  PROVE  /\ Typed(Evicted(bs, Head(ord)), Tail(ord), n)
         /\ Consistent(Evicted(bs, Head(ord)), Tail(ord), n)
         /\ Len(Tail(ord)) = Len(ord) - 1
         /\ \A b \in BucketIds : \A i \in DOMAIN Evicted(bs, Head(ord))[b] :
              \E j \in DOMAIN bs[b] : Evicted(bs, Head(ord))[b][i] = bs[b][j]
<1> DEFINE e == Head(ord)
           c == e.bucket
           rest == Tail(ord)
<1>1. /\ e = ord[1] /\ e \in Entries /\ c \in BucketIds
      /\ Len(ord) \in Nat /\ DOMAIN ord = 1..Len(ord) /\ 1 \in DOMAIN ord
      /\ rest \in Seq(Entries) /\ Len(rest) = Len(ord) - 1
      /\ DOMAIN rest = 1..(Len(ord) - 1)
      /\ \A k \in DOMAIN rest : rest[k] = ord[k + 1]
  <2>1. ord \in Seq(Entries)
    BY DEF Typed
  <2>2. Len(ord) \in Nat \ {0} /\ DOMAIN ord = 1..Len(ord)
    BY <2>1, LenProperties, EmptySeq
  <2>3. ord[1] \in Entries
    BY <2>1, <2>2, ElementOfSeq
  <2>4. /\ rest \in Seq(Entries) /\ Len(rest) = Len(ord) - 1
        /\ \A k \in 1..Len(rest) : rest[k] = ord[k + 1]
    BY <2>1, HeadTailProperties
  <2>5. DOMAIN rest = 1..Len(rest)
    BY <2>4, LenProperties
  <2>6. e = ord[1]
    BY <2>1, <2>2
  <2> QED
    BY <2>2, <2>3, <2>4, <2>5, <2>6 DEF Entries
<1>2. PICK i0 \in DOMAIN bs[c] : bs[c][i0].seq = e.seq
  BY <1>1 DEF Consistent, EntrySlots
<1>3. SlotsOf(bs, e) = {i0}
  BY <1>1, <1>2 DEF Consistent, Differ, SlotsOf
<1>4. /\ bs[c] \in Seq(Slots) /\ DOMAIN bs[c] = 1..Len(bs[c]) /\ Len(bs[c]) \in Nat
      /\ i0 \in 1..Len(bs[c])
  BY <1>1, <1>2, LenProperties DEF Typed
<1>5. (CHOOSE i \in SlotsOf(bs, e) : \A j \in SlotsOf(bs, e) : i <= j) = i0
  BY <1>3, <1>4
<1> DEFINE R == swap_remove(bs[c], i0)
           new == Evicted(bs, e)
<1>6. new = [bs EXCEPT ![c] = R]
  BY <1>3, <1>5 DEF Evicted
<1>7. /\ R \in Seq(Slots) /\ DOMAIN R = 1..(Len(bs[c]) - 1)
      /\ \A j \in DOMAIN R : R[j] = IF j = i0 THEN bs[c][Len(bs[c])] ELSE bs[c][j]
  <2> DEFINE B == bs[c]
  <2> SUFFICES /\ swap_remove(B, i0) \in Seq(Slots)
               /\ DOMAIN swap_remove(B, i0) = 1..(Len(B) - 1)
               /\ \A j \in 1..(Len(B) - 1) :
                    swap_remove(B, i0)[j] = IF j = i0 THEN B[Len(B)] ELSE B[j]
    OBVIOUS
  <2>1. B \in Seq(Slots) /\ i0 \in 1..Len(B)
    BY <1>4
  <2> HIDE DEF B
  <2> QED
    BY <2>1, SwapRemoveProperties
<1>8. /\ new \in [BucketIds -> Seq(Slots)]
      /\ new[c] = R
      /\ \A b \in BucketIds : b # c => new[b] = bs[b]
  BY <1>1, <1>6, <1>7 DEF Typed
<1> HIDE DEF R, new, e, c, rest
(* Every slot but the evicted one is still there, and nothing else.        *)
<1>9. \A j \in DOMAIN R : \E k \in DOMAIN bs[c] : k # i0 /\ R[j] = bs[c][k]
  <2> TAKE j \in DOMAIN R
  <2>1. CASE j = i0
    BY <2>1, <1>4, <1>7
  <2>2. CASE j # i0
    BY <2>2, <1>4, <1>7
  <2> QED BY <2>1, <2>2
<1>10. \A k \in DOMAIN bs[c] : k # i0 => \E j \in DOMAIN R : R[j] = bs[c][k]
  <2> SUFFICES ASSUME NEW k \in DOMAIN bs[c], k # i0
               PROVE  \E j \in DOMAIN R : R[j] = bs[c][k]
    OBVIOUS
  <2>1. CASE k = Len(bs[c])
    BY <2>1, <1>4, <1>7
  <2>2. CASE k # Len(bs[c])
    BY <2>2, <1>4, <1>7
  <2> QED BY <2>1, <2>2
<1>11. Recent(rest, n)
  <2>1. /\ Len(ord) <= Capacity /\ Len(ord) <= n
        /\ \A k \in DOMAIN ord : ord[k].seq = n - Len(ord) + k - 1
    BY DEF Consistent, Recent
  <2>2. n \in Nat /\ Capacity \in Nat
    BY IndexAssumption DEF Typed
  <2>3. ASSUME NEW k \in DOMAIN rest
        PROVE  rest[k].seq = n - Len(rest) + k - 1
    <3>1. k + 1 \in DOMAIN ord /\ rest[k] = ord[k + 1] /\ k \in Int
      BY <1>1
    <3>2. ord[k + 1].seq = n - Len(ord) + (k + 1) - 1
      BY <3>1, <2>1
    <3> QED
      BY <3>1, <3>2, <2>2, <1>1
  <2> QED
    BY <2>1, <2>2, <2>3, <1>1 DEF Recent
<1>12. EntrySlots(new, rest)
  <2> SUFFICES ASSUME NEW k \in DOMAIN rest
               PROVE  \E i \in DOMAIN new[rest[k].bucket] :
                        new[rest[k].bucket][i].seq = rest[k].seq
    BY DEF EntrySlots
  <2> DEFINE x == rest[k]
  <2>1. /\ k + 1 \in DOMAIN ord /\ x = ord[k + 1] /\ x \in Entries
        /\ x.bucket \in BucketIds
    <3>1. k + 1 \in DOMAIN ord /\ x = ord[k + 1]
      BY <1>1
    <3>2. x \in Entries
      BY <1>1, ElementOfSeq
    <3> QED
      BY <3>1, <3>2 DEF Entries
  <2>2. PICK i \in DOMAIN bs[x.bucket] : bs[x.bucket][i].seq = x.seq
    BY <2>1 DEF Consistent, EntrySlots
  <2>3. x.seq # e.seq
    <3>1. x.seq = n - Len(ord) + (k + 1) - 1 /\ e.seq = n - Len(ord) + 1 - 1
      BY <2>1, <1>1 DEF Consistent, Recent
    <3> QED BY <3>1, <1>1 DEF Typed
  <2>4. CASE x.bucket # c
    BY <2>1, <2>2, <2>4, <1>8
  <2>5. CASE x.bucket = c
    <3>1. i # i0
      BY <2>2, <2>3, <2>5, <1>2
    <3> QED BY <2>2, <2>5, <3>1, <1>8, <1>10
  <2> QED BY <2>4, <2>5
<1>13. SlotEntries(new, rest)
  <2> SUFFICES ASSUME NEW b \in BucketIds, NEW j \in DOMAIN new[b]
               PROVE  /\ bucket(new[b][j].hash) = b
                      /\ new[b][j].hash = HashOf[new[b][j].value]
                      /\ \E k \in DOMAIN rest :
                           rest[k] = [seq |-> new[b][j].seq, bucket |-> b]
    BY DEF SlotEntries
  <2>1. PICK i \in DOMAIN bs[b] : new[b][j] = bs[b][i] /\ (b = c => i # i0)
    BY <1>8, <1>9
  <2>2. PICK k \in DOMAIN ord : ord[k] = [seq |-> bs[b][i].seq, bucket |-> b]
    BY DEF Consistent, SlotEntries
  <2>3. k # 1
    <3>1. CASE b = c
      <4>1. bs[c][i].seq # bs[c][i0].seq
        BY <2>1, <3>1, <1>2 DEF Consistent, Differ
      <4> QED BY <4>1, <2>2, <3>1, <1>1, <1>2
    <3>2. CASE b # c
      BY <3>2, <2>2, <1>1 DEF c
    <3> QED BY <3>1, <3>2
  <2>4. k - 1 \in DOMAIN rest /\ rest[k - 1] = ord[k]
    BY <2>3, <1>1
  <2> QED BY <2>1, <2>2, <2>4 DEF Consistent, SlotEntries
<1>14. Differ(new)
  <2> SUFFICES ASSUME NEW b \in BucketIds, NEW i \in DOMAIN new[b], NEW j \in DOMAIN new[b],
                      new[b][i].seq = new[b][j].seq
               PROVE  i = j
    BY DEF Differ
  <2>1. CASE b # c
    BY <2>1, <1>8 DEF Consistent, Differ
  <2>2. CASE b = c
    <3> DEFINE f(m) == IF m = i0 THEN Len(bs[c]) ELSE m
    <3>1. /\ R[i] = bs[c][f(i)] /\ f(i) \in DOMAIN bs[c] /\ i \in 1..(Len(bs[c]) - 1)
          /\ R[j] = bs[c][f(j)] /\ f(j) \in DOMAIN bs[c] /\ j \in 1..(Len(bs[c]) - 1)
      BY <2>2, <1>4, <1>7, <1>8
    <3>2. f(i) = f(j)
      <4> HIDE DEF f
      <4> QED BY <3>1, <2>2, <1>8 DEF Consistent, Differ
    <3> QED BY <3>1, <3>2, <1>4
  <2> QED BY <2>1, <2>2
<1>15. \A b \in BucketIds : \A i \in DOMAIN new[b] :
         \E j \in DOMAIN bs[b] : new[b][i] = bs[b][j]
  BY <1>8, <1>9
<1>16. Typed(new, rest, n) /\ Consistent(new, rest, n)
  BY <1>1, <1>8, <1>11, <1>12, <1>13, <1>14 DEF Typed, Consistent
<1> QED
  BY <1>1, <1>15, <1>16 DEF new, e, rest

(* The numbers in use are below the counter: a new slot is told apart.     *)
LEMMA SlotsAreOld ==
  ASSUME NEW bs, NEW ord, NEW n, Typed(bs, ord, n), Consistent(bs, ord, n),
         NEW b \in BucketIds, NEW i \in DOMAIN bs[b]
  PROVE  bs[b][i].seq < n
<1>1. PICK k \in DOMAIN ord : ord[k] = [seq |-> bs[b][i].seq, bucket |-> b]
  BY DEF Consistent, SlotEntries
<1>2. bs[b][i].seq = n - Len(ord) + k - 1
  BY <1>1 DEF Consistent, Recent
<1>3. n \in Nat /\ Len(ord) \in Nat /\ k \in 1..Len(ord)
  BY <1>1, LenProperties DEF Typed
<1> QED
  BY <1>2, <1>3

(* A push keeps the table and the queue consistent.                        *)
LEMMA PushKeepsConsistency ==
  ASSUME NEW bs, NEW ord, NEW n, NEW v \in Values,
         Typed(bs, ord, n), Consistent(bs, ord, n), Len(ord) < Capacity
  PROVE  LET b    == bucket(HashOf[v])
             slot == [seq |-> n, hash |-> HashOf[v], value |-> v]
             new  == [bs EXCEPT ![b] = Append(@, slot)]
             ord2 == Append(ord, [seq |-> n, bucket |-> b])
         IN  Typed(new, ord2, n + 1) /\ Consistent(new, ord2, n + 1)
<1> DEFINE b    == bucket(HashOf[v])
           slot == [seq |-> n, hash |-> HashOf[v], value |-> v]
           new  == [bs EXCEPT ![b] = Append(bs[b], slot)]
           x    == [seq |-> n, bucket |-> b]
           ord2 == Append(ord, x)
<1>1. /\ n \in Nat /\ bs \in [BucketIds -> Seq(Slots)] /\ ord \in Seq(Entries)
      /\ Len(ord) \in Nat /\ Capacity \in Nat /\ HashOf[v] \in Nat
  BY IndexAssumption, LenProperties DEF Typed
<1>2. b \in BucketIds /\ bs[b] \in Seq(Slots) /\ slot \in Slots /\ x \in Entries
  <2>1. b \in BucketIds
    BY <1>1, BucketExists
  <2> HIDE DEF b
  <2> QED
    BY <1>1, <2>1 DEF Slots, Entries
<1>3. /\ ord2 \in Seq(Entries) /\ Len(ord2) = Len(ord) + 1
      /\ DOMAIN ord = 1..Len(ord) /\ DOMAIN ord2 = 1..(Len(ord) + 1)
      /\ \A k \in DOMAIN ord : ord2[k] = ord[k]
      /\ ord2[Len(ord) + 1] = x
  BY <1>1, <1>2, AppendProperties, LenProperties
<1> DEFINE B == bs[b]
           B2 == Append(B, slot)
<1>4. /\ B2 \in Seq(Slots) /\ Len(B) \in Nat
      /\ DOMAIN B = 1..Len(B) /\ DOMAIN B2 = 1..(Len(B) + 1)
      /\ \A i \in DOMAIN B : B2[i] = B[i]
      /\ B2[Len(B) + 1] = slot
  <2> HIDE DEF B, slot
  <2>1. B \in Seq(Slots) /\ slot \in Slots
    BY <1>2 DEF B
  <2> QED
    BY <2>1, AppendProperties, LenProperties
<1>5. /\ new \in [BucketIds -> Seq(Slots)] /\ new[b] = B2
      /\ \A a \in BucketIds : a # b => new[a] = bs[a]
  BY <1>1, <1>2, <1>4
<1>6. /\ slot.seq = n /\ slot.hash = HashOf[v] /\ slot.value = v
      /\ x.seq = n /\ x.bucket = b /\ b = bucket(HashOf[v])
  OBVIOUS
<1>7. \A a \in BucketIds : \A i \in DOMAIN bs[a] : bs[a][i].seq < n
  BY SlotsAreOld
<1> HIDE DEF b, slot, new, x, ord2, B2
<1>8. Recent(ord2, n + 1)
  <2>1. ASSUME NEW k \in DOMAIN ord2
        PROVE  ord2[k].seq = (n + 1) - Len(ord2) + k - 1
    <3>1. CASE k = Len(ord) + 1
      BY <3>1, <1>1, <1>3, <1>6
    <3>2. CASE k # Len(ord) + 1
      <4>1. k \in DOMAIN ord /\ ord2[k] = ord[k] /\ k \in Int
        BY <3>2, <1>1, <1>3
      <4>2. ord[k].seq = n - Len(ord) + k - 1
        BY <4>1 DEF Consistent, Recent
      <4> QED
        BY <4>1, <4>2, <1>1, <1>3
    <3> QED BY <3>1, <3>2
  <2>2. Len(ord) <= n
    BY DEF Consistent, Recent
  <2> QED
    BY <2>1, <2>2, <1>1, <1>3 DEF Recent
<1>9. EntrySlots(new, ord2)
  <2> SUFFICES ASSUME NEW k \in DOMAIN ord2
               PROVE  \E i \in DOMAIN new[ord2[k].bucket] :
                        new[ord2[k].bucket][i].seq = ord2[k].seq
    BY DEF EntrySlots
  <2>1. CASE k = Len(ord) + 1
    BY <2>1, <1>3, <1>4, <1>5, <1>6
  <2>2. CASE k # Len(ord) + 1
    <3>1. k \in DOMAIN ord /\ ord2[k] = ord[k] /\ ord[k].bucket \in BucketIds
      <4>1. k \in 1..Len(ord)
        BY <2>2, <1>1, <1>3
      <4>2. ord[k] \in Entries
        BY <4>1, <1>1, ElementOfSeq
      <4> QED BY <4>1, <4>2, <1>3 DEF Entries
    <3>2. PICK i \in DOMAIN bs[ord[k].bucket] : bs[ord[k].bucket][i].seq = ord[k].seq
      BY <3>1 DEF Consistent, EntrySlots
    <3>3. CASE ord[k].bucket = b
      BY <3>1, <3>2, <3>3, <1>4, <1>5
    <3>4. CASE ord[k].bucket # b
      BY <3>1, <3>2, <3>4, <1>5
    <3> QED BY <3>3, <3>4
  <2> QED BY <2>1, <2>2
<1>10. SlotEntries(new, ord2)
  <2> SUFFICES ASSUME NEW a \in BucketIds, NEW i \in DOMAIN new[a]
               PROVE  /\ bucket(new[a][i].hash) = a
                      /\ new[a][i].hash = HashOf[new[a][i].value]
                      /\ \E k \in DOMAIN ord2 :
                           ord2[k] = [seq |-> new[a][i].seq, bucket |-> a]
    BY DEF SlotEntries
  <2>1. CASE a = b /\ i = Len(B) + 1
    <3>1. new[a][i] = slot
      BY <2>1, <1>4, <1>5
    <3>2. ord2[Len(ord) + 1] = [seq |-> slot.seq, bucket |-> a]
      BY <2>1, <1>3, <1>6 DEF x
    <3> QED BY <2>1, <3>1, <3>2, <1>1, <1>3, <1>6
  <2>2. CASE ~(a = b /\ i = Len(B) + 1)
    <3>1. i \in DOMAIN bs[a] /\ new[a][i] = bs[a][i]
      BY <2>2, <1>4, <1>5
    <3>2. PICK k \in DOMAIN ord : ord[k] = [seq |-> bs[a][i].seq, bucket |-> a]
      BY <3>1 DEF Consistent, SlotEntries
    <3>3. k \in DOMAIN ord2 /\ ord2[k] = ord[k]
      BY <1>1, <1>3
    <3> QED
      BY <3>1, <3>2, <3>3 DEF Consistent, SlotEntries
  <2> QED BY <2>1, <2>2
<1>11. Differ(new)
  <2> SUFFICES ASSUME NEW a \in BucketIds, NEW i \in DOMAIN new[a], NEW j \in DOMAIN new[a],
                      new[a][i].seq = new[a][j].seq
               PROVE  i = j
    BY DEF Differ
  <2>1. CASE a # b
    BY <2>1, <1>5 DEF Consistent, Differ
  <2>2. CASE a = b
    <3>1. \A k \in DOMAIN B2 : k \in DOMAIN B => B2[k] = bs[b][k] /\ B2[k].seq < n
      BY <1>2, <1>4, <1>7 DEF B
    <3>2. CASE i \in DOMAIN B /\ j \in DOMAIN B
      BY <2>2, <3>1, <3>2, <1>2, <1>5 DEF Consistent, Differ, B
    <3>3. CASE i \in DOMAIN B /\ j \notin DOMAIN B
      BY <2>2, <3>1, <3>3, <1>1, <1>4, <1>5, <1>6
    <3>4. CASE i \notin DOMAIN B /\ j \in DOMAIN B
      BY <2>2, <3>1, <3>4, <1>1, <1>4, <1>5, <1>6
    <3>5. CASE i \notin DOMAIN B /\ j \notin DOMAIN B
      BY <2>2, <3>5, <1>4, <1>5
    <3> QED BY <3>2, <3>3, <3>4, <3>5
  <2> QED BY <2>1, <2>2
<1>12. Typed(new, ord2, n + 1) /\ Consistent(new, ord2, n + 1)
  BY <1>1, <1>3, <1>5, <1>8, <1>9, <1>10, <1>11 DEF Typed, Consistent
<1> QED
  BY <1>12 DEF new, ord2, x, slot, b

(* No bucket is longer than the capacity, so no scan examines more.        *)
LEMMA ScansAreBounded ==
  ASSUME NEW bs, NEW ord, NEW n, Typed(bs, ord, n), Consistent(bs, ord, n),
         NEW b \in BucketIds, NEW hits
  PROVE  Examined(bs[b], hits) \in 0..Capacity
<1>1. /\ DOMAIN bs[b] = 1..Len(bs[b]) /\ Len(bs[b]) \in Nat
      /\ DOMAIN ord = 1..Len(ord) /\ Len(ord) \in Nat /\ Capacity \in Nat
  BY IndexAssumption, LenProperties DEF Typed
<1> DEFINE S == 1..Len(bs[b])
           T == 1..Len(ord)
           entry == [i \in S |-> CHOOSE k \in T : ord[k] = [seq |-> bs[b][i].seq, bucket |-> b]]
<1>2. \A i \in S : entry[i] \in T /\ ord[entry[i]].seq = bs[b][i].seq
  <2> TAKE i \in S
  <2>1. \E k \in T : ord[k] = [seq |-> bs[b][i].seq, bucket |-> b]
    BY <1>1 DEF Consistent, SlotEntries
  <2> QED BY <2>1
<1>3. entry \in Injection(S, T)
  <2>1. entry \in [S -> T]
    BY <1>2
  <2>2. ASSUME NEW i \in S, NEW j \in S, entry[i] = entry[j]
        PROVE  i = j
    <3>1. bs[b][i].seq = bs[b][j].seq
      <4> HIDE DEF entry
      <4> QED BY <2>2, <1>2
    <3> QED BY <3>1, <1>1 DEF Consistent, Differ
  <2> HIDE DEF entry, S, T
  <2> QED BY <2>1, <2>2, Zenon DEF Injection, IsInjective
<1> HIDE DEF entry, S, T
<1>4. /\ IsFiniteSet(S) /\ Cardinality(S) = Len(bs[b])
      /\ IsFiniteSet(T) /\ Cardinality(T) = Len(ord)
  <2>1. \A m \in Nat : IsFiniteSet(1..m) /\ Cardinality(1..m) = m
    BY FS_Interval
  <2> QED BY <1>1, <2>1 DEF S, T
<1>5. Len(bs[b]) <= Len(ord)
  BY <1>3, <1>4, FS_Injection
<1> DEFINE seen == {j \in DOMAIN bs[b] : \A i \in hits : j <= i}
<1>6. seen \in SUBSET S
  BY <1>1 DEF S
<1>7. Cardinality(seen) \in Nat /\ Cardinality(seen) <= Len(bs[b])
  <2> HIDE DEF seen
  <2> QED BY <1>4, <1>6, FS_Subset, FS_CardinalityType
<1>8. Len(ord) <= Capacity
  BY DEF Consistent, Recent
<1> QED
  BY <1>1, <1>5, <1>7, <1>8 DEF Examined

-----------------------------------------------------------------------------
(* The invariant of the specification is that of the variables.            *)
IInv == TypeOK /\ IndexConsistent

(* The invariant, stated of the variables as of any table and queue.       *)
LEMMA IInvIsConsistent ==
  IInv <=> /\ Typed(buckets, order, next_seq) /\ Consistent(buckets, order, next_seq)
           /\ probes \in Nat /\ answer \in Answers
  BY DEF IInv, TypeOK, IndexConsistent, OrderIsRecent, EveryEntryHasASlot,
         EverySlotHasAnEntry, SlotsDiffer, Typed, Consistent, Recent,
         EntrySlots, SlotEntries, Differ

(* The same for the next state.                                            *)
LEMMA IInvIsConsistentNext ==
  IInv' <=> /\ Typed(buckets', order', next_seq') /\ Consistent(buckets', order', next_seq')
            /\ probes' \in Nat /\ answer' \in Answers
  BY DEF IInv, TypeOK, IndexConsistent, OrderIsRecent, EveryEntryHasASlot,
         EverySlotHasAnEntry, SlotsDiffer, Typed, Consistent, Recent,
         EntrySlots, SlotEntries, Differ

(* A new index is consistent.                                              *)
LEMMA InitEstablishesIInv == Init => IInv
<1> SUFFICES ASSUME Init PROVE IInv
  OBVIOUS
<1>1. TypeOK
  BY EmptySeq DEF Init, TypeOK, Answers
<1>2. /\ DOMAIN order = {} /\ Len(order) = 0
      /\ \A b \in BucketIds : DOMAIN buckets[b] = {}
  BY DEF Init
<1> QED
  BY <1>1, <1>2, IndexAssumption
  DEF IInv, TypeOK, IndexConsistent, OrderIsRecent, EveryEntryHasASlot,
      EverySlotHasAnEntry, SlotsDiffer

(* A lookup changes nothing but the metric and the answer, and is bounded. *)
LEMMA ContainsStep ==
  ASSUME IInv, NEW v \in Values, contains(v)
  PROVE  IInv' /\ probes' - probes <= Capacity
<1>1. /\ Typed(buckets, order, next_seq) /\ Consistent(buckets, order, next_seq)
      /\ probes \in Nat
  BY IInvIsConsistent
<1>2. UNCHANGED <<buckets, order, next_seq>> /\ answer' \in Answers
  <2>1. PICK hits : answer' = <<v, hits # {}>>
    BY Zenon DEF contains
  <2>2. answer' \in Values \X BOOLEAN
    <3>1. (hits # {}) \in BOOLEAN
      OBVIOUS
    <3> QED BY <2>1, <3>1
  <2> QED BY <2>2, Zenon DEF contains, Answers
<1>3. probes' - probes \in 0..Capacity /\ probes' \in Nat
  <2>1. CASE Capacity = 0
    <3>1. probes' = probes + Cardinality({})
      <4>1. PICK hits : probes' = probes + Examined(<<>>, hits)
        BY <2>1 DEF contains
      <4>2. {j \in DOMAIN <<>> : \A i \in hits : j <= i} = {}
        OBVIOUS
      <4> QED BY <4>1, <4>2 DEF Examined
    <3> QED BY <2>1, <3>1, <1>1, FS_EmptySet
  <2>2. CASE Capacity # 0
    <3>1. bucket(HashOf[v]) \in BucketIds
      BY <2>2, IndexAssumption, BucketExists
    <3>2. PICK hits : probes' = probes + Examined(buckets[bucket(HashOf[v])], hits)
      BY <2>2 DEF contains
    <3>3. Examined(buckets[bucket(HashOf[v])], hits) \in 0..Capacity
      BY <3>1, <1>1, ScansAreBounded
    <3> QED BY <3>2, <3>3, <1>1, IndexAssumption
  <2> QED BY <2>1, <2>2
<1>4. probes' - probes <= Capacity
  BY <1>3, IndexAssumption
<1>5. Typed(buckets', order', next_seq') /\ Consistent(buckets', order', next_seq')
  BY <1>1, <1>2
<1> QED
  BY <1>2, <1>3, <1>4, <1>5, IInvIsConsistentNext

(* An insertion keeps the invariant, and its eviction is bounded.          *)
LEMMA InsertStep ==
  ASSUME IInv, NEW v \in Values, insert(v)
  PROVE  IInv' /\ probes' - probes <= Capacity
<1> DEFINE old  == Head(order)
           kept == IF Full THEN Evicted(buckets, old) ELSE buckets
           rest == IF Full THEN Tail(order) ELSE order
           b    == bucket(HashOf[v])
           slot == [seq |-> next_seq, hash |-> HashOf[v], value |-> v]
<1>1. /\ Typed(buckets, order, next_seq) /\ Consistent(buckets, order, next_seq)
      /\ probes \in Nat /\ answer \in Answers /\ Capacity \in Nat /\ Capacity > 0
  BY IInvIsConsistent, IndexAssumption DEF insert
<1>2. Len(order) \in Nat /\ order \in Seq(Entries) /\ (Full => order # <<>>)
  BY <1>1, LenProperties, EmptySeq DEF Typed, Full
<1>3. Typed(kept, rest, next_seq) /\ Consistent(kept, rest, next_seq) /\ Len(rest) < Capacity
  <2>1. CASE Full
    BY <2>1, <1>1, <1>2, EvictionKeepsConsistency DEF Full
  <2>2. CASE ~Full
    BY <2>2, <1>1, <1>2 DEF Full, Consistent, Recent
  <2> QED BY <2>1, <2>2
<1>4. /\ buckets' = [kept EXCEPT ![b] = Append(@, slot)]
      /\ order' = Append(rest, [seq |-> next_seq, bucket |-> b])
      /\ next_seq' = next_seq + 1 /\ answer' = answer
  BY DEF insert, NewEntry
<1>5. Typed(buckets', order', next_seq') /\ Consistent(buckets', order', next_seq')
  <2> HIDE DEF kept, rest
  <2> QED BY <1>3, <1>4, PushKeepsConsistency
<1>6. probes' - probes \in 0..Capacity /\ probes' \in Nat
  <2>1. CASE Full
    <3>1. old \in Entries /\ old.bucket \in BucketIds
      <4>1. order # <<>>
        BY <2>1, <1>2
      <4>2. old \in Entries
        BY <4>1, <1>2, HeadTailProperties
      <4> QED BY <4>2 DEF Entries
    <3>2. Examined(buckets[old.bucket], SlotsOf(buckets, old)) \in 0..Capacity
      BY <3>1, <1>1, ScansAreBounded
    <3>3. probes' = probes + Examined(buckets[old.bucket], SlotsOf(buckets, old))
      BY <2>1 DEF insert
    <3> QED BY <3>2, <3>3, <1>1
  <2>2. CASE ~Full
    BY <2>2, <1>1 DEF insert
  <2> QED BY <2>1, <2>2
<1>7. probes' - probes <= Capacity
  BY <1>6, IndexAssumption
<1>8. answer' \in Answers
  BY <1>1, <1>4, Zenon
<1> QED
  BY <1>5, <1>6, <1>7, <1>8, IInvIsConsistentNext

(* A stuttering step keeps the invariant.                                  *)
LEMMA StutterKeepsIInv == IInv /\ UNCHANGED vars => IInv'
  BY IInvIsConsistent, IInvIsConsistentNext DEF vars

(* Types and consistency together are the inductive invariant of the index.*)
THEOREM Invariance == Spec => []IInv
<1>1. IInv /\ [Next]_vars => IInv'
  BY ContainsStep, InsertStep, StutterKeepsIInv DEF Next
<1> QED
  BY InitEstablishesIInv, <1>1, PTL DEF Spec

(* Every variable of the index keeps its type, whatever is inserted.       *)
THEOREM TypeCorrect == Spec => []TypeOK
<1>1. IInv => TypeOK
  BY DEF IInv
<1> QED
  BY Invariance, <1>1, PTL

(* The queue and the chained table agree after any sequence of operations, *)
(* for every capacity and every hash function.                             *)
THEOREM QueueAndTableAgree == Spec => []IndexConsistent
<1>1. IInv => IndexConsistent
  BY DEF IInv
<1> QED
  BY Invariance, <1>1, PTL

(* No lookup and no eviction examines more slots than the capacity, even   *)
(* when every hash collides.                                               *)
THEOREM ScansBounded == Spec => ProbesBounded
<1>1. IInv /\ [Next]_vars => [probes' - probes <= Capacity]_vars
  BY ContainsStep, InsertStep DEF Next
<1> QED
  BY Invariance, <1>1, PTL DEF Spec, ProbesBounded

-----------------------------------------------------------------------------
(* The refinement: what an arbitrary table and queue hold.                 *)
ValueOf(bs, e) ==
  bs[e.bucket][CHOOSE i \in DOMAIN bs[e.bucket] : bs[e.bucket][i].seq = e.seq].value

HeldOf(bs, ord) == [k \in DOMAIN ord |-> ValueOf(bs, ord[k])]

(* The value of an entry is that of any slot with its number.              *)
LEMMA ValueOfSlot ==
  ASSUME NEW bs, Differ(bs), NEW e, e.bucket \in BucketIds,
         NEW i \in DOMAIN bs[e.bucket], bs[e.bucket][i].seq = e.seq
  PROVE  ValueOf(bs, e) = bs[e.bucket][i].value
<1> DEFINE c == CHOOSE j \in DOMAIN bs[e.bucket] : bs[e.bucket][j].seq = e.seq
<1>1. c \in DOMAIN bs[e.bucket] /\ bs[e.bucket][c].seq = e.seq
  OBVIOUS
<1>2. c = i
  <2> HIDE DEF c
  <2> QED BY <1>1 DEF Differ
<1> QED
  BY <1>2 DEF ValueOf

(* What the index holds is a sequence of values as long as the queue.      *)
LEMMA HeldIsASequence ==
  ASSUME NEW bs, NEW ord, NEW n, Typed(bs, ord, n), Consistent(bs, ord, n)
  PROVE  /\ HeldOf(bs, ord) \in Seq(Values)
         /\ Len(HeldOf(bs, ord)) = Len(ord) /\ DOMAIN HeldOf(bs, ord) = 1..Len(ord)
         /\ \A k \in 1..Len(ord) : HeldOf(bs, ord)[k] = ValueOf(bs, ord[k])
<1>1. /\ ord \in Seq(Entries) /\ DOMAIN ord = 1..Len(ord) /\ Len(ord) \in Nat
      /\ bs \in [BucketIds -> Seq(Slots)]
  BY LenProperties DEF Typed
<1>2. ASSUME NEW k \in 1..Len(ord)
      PROVE  ValueOf(bs, ord[k]) \in Values
  <2>1. ord[k] \in Entries
    BY <1>1, ElementOfSeq
  <2>2. ord[k].bucket \in BucketIds
    BY <2>1 DEF Entries
  <2>3. PICK i \in DOMAIN bs[ord[k].bucket] : bs[ord[k].bucket][i].seq = ord[k].seq
    BY <1>1 DEF Consistent, EntrySlots
  <2>4. ValueOf(bs, ord[k]) = bs[ord[k].bucket][i].value
    BY <2>2, <2>3, ValueOfSlot DEF Consistent
  <2>5. bs[ord[k].bucket] \in Seq(Slots)
    BY <1>1, <2>2
  <2>6. bs[ord[k].bucket][i] \in Slots
    BY <2>3, <2>5, LenProperties, ElementOfSeq
  <2> QED BY <2>4, <2>6 DEF Slots
<1>3. HeldOf(bs, ord) = [k \in 1..Len(ord) |-> ValueOf(bs, ord[k])]
  BY <1>1 DEF HeldOf
<1> QED
  BY <1>1, <1>2, <1>3

(* An eviction drops the oldest value held and no other.                   *)
LEMMA EvictionDropsOldest ==
  ASSUME NEW bs, NEW ord, NEW n, Typed(bs, ord, n), Consistent(bs, ord, n), ord # <<>>
  PROVE  HeldOf(Evicted(bs, Head(ord)), Tail(ord)) = Tail(HeldOf(bs, ord))
<1> DEFINE new == Evicted(bs, Head(ord))
           rest == Tail(ord)
           H == HeldOf(bs, ord)
           N == HeldOf(new, rest)
<1>1. /\ Typed(new, rest, n) /\ Consistent(new, rest, n) /\ Len(rest) = Len(ord) - 1
      /\ \A b \in BucketIds : \A i \in DOMAIN new[b] :
           \E j \in DOMAIN bs[b] : new[b][i] = bs[b][j]
  BY EvictionKeepsConsistency
<1>2. /\ ord \in Seq(Entries) /\ Len(ord) \in Nat \ {0}
      /\ rest \in Seq(Entries) /\ DOMAIN rest = 1..Len(rest)
      /\ \A k \in 1..Len(rest) : rest[k] = ord[k + 1]
  <2>1. ord \in Seq(Entries)
    BY DEF Typed
  <2> QED BY <2>1, LenProperties, EmptySeq, HeadTailProperties
<1>3. /\ H \in Seq(Values) /\ Len(H) = Len(ord)
      /\ \A k \in 1..Len(ord) : H[k] = ValueOf(bs, ord[k])
  BY HeldIsASequence
<1> HIDE DEF new, rest
<1>4. /\ N \in Seq(Values) /\ Len(N) = Len(rest)
      /\ \A k \in 1..Len(rest) : N[k] = ValueOf(new, rest[k])
  BY <1>1, HeldIsASequence
<1> HIDE DEF H, N
<1>5. /\ Tail(H) \in Seq(Values) /\ Len(Tail(H)) = Len(ord) - 1
      /\ \A k \in 1..Len(Tail(H)) : Tail(H)[k] = H[k + 1]
  <2>1. H # <<>>
    BY <1>2, <1>3, EmptySeq
  <2> QED BY <1>3, <2>1, HeadTailProperties
<1>6. ASSUME NEW k \in 1..Len(rest)
      PROVE  N[k] = Tail(H)[k]
  <2>1. rest[k] \in Entries /\ rest[k] = ord[k + 1] /\ k + 1 \in 1..Len(ord)
    BY <1>1, <1>2, ElementOfSeq
  <2>2. rest[k].bucket \in BucketIds
    BY <2>1 DEF Entries
  <2>3. PICK i \in DOMAIN new[rest[k].bucket] : new[rest[k].bucket][i].seq = rest[k].seq
    BY <1>1, <1>2 DEF Consistent, EntrySlots
  <2>4. PICK j \in DOMAIN bs[rest[k].bucket] : new[rest[k].bucket][i] = bs[rest[k].bucket][j]
    BY <1>1, <2>2, <2>3
  <2>5. ValueOf(new, rest[k]) = new[rest[k].bucket][i].value
    BY <1>1, <2>2, <2>3, ValueOfSlot DEF Consistent
  <2>6. ValueOf(bs, rest[k]) = bs[rest[k].bucket][j].value
    BY <2>2, <2>3, <2>4, ValueOfSlot DEF Consistent
  <2>7. N[k] = H[k + 1]
    BY <1>3, <1>4, <2>1, <2>4, <2>5, <2>6
  <2> QED BY <1>1, <1>5, <2>7
<1>7. N = Tail(H)
  BY <1>1, <1>4, <1>5, <1>6, SeqEqual
<1> QED
  BY <1>7 DEF N, H, new, rest

(* A push adds its value as the newest.                                    *)
LEMMA PushAppends ==
  ASSUME NEW bs, NEW ord, NEW n, NEW v \in Values,
         Typed(bs, ord, n), Consistent(bs, ord, n), Len(ord) < Capacity
  PROVE  LET b    == bucket(HashOf[v])
             slot == [seq |-> n, hash |-> HashOf[v], value |-> v]
             new  == [bs EXCEPT ![b] = Append(@, slot)]
             ord2 == Append(ord, [seq |-> n, bucket |-> b])
         IN  HeldOf(new, ord2) = Append(HeldOf(bs, ord), v)
<1> DEFINE b    == bucket(HashOf[v])
           slot == [seq |-> n, hash |-> HashOf[v], value |-> v]
           B    == bs[b]
           new  == [bs EXCEPT ![b] = Append(B, slot)]
           x    == [seq |-> n, bucket |-> b]
           ord2 == Append(ord, x)
           H    == HeldOf(bs, ord)
           N    == HeldOf(new, ord2)
<1>1. Typed(new, ord2, n + 1) /\ Consistent(new, ord2, n + 1)
  BY PushKeepsConsistency
<1>2. /\ ord \in Seq(Entries) /\ Len(ord) \in Nat /\ DOMAIN ord = 1..Len(ord)
      /\ n \in Nat /\ HashOf[v] \in Nat /\ bs \in [BucketIds -> Seq(Slots)] /\ Capacity \in Nat
  BY IndexAssumption, LenProperties DEF Typed
<1>3. b \in BucketIds
  BY <1>2, BucketExists
<1>4. x \in Entries /\ slot \in Slots /\ B \in Seq(Slots)
  <2> HIDE DEF b
  <2> QED BY <1>2, <1>3 DEF Entries, Slots
<1>5. /\ Len(ord2) = Len(ord) + 1 /\ ord2[Len(ord) + 1] = x
      /\ \A k \in 1..Len(ord) : ord2[k] = ord[k]
  <2> HIDE DEF x
  <2> QED BY <1>2, <1>4, AppendProperties
<1>6. /\ \A i \in DOMAIN B : i \in DOMAIN Append(B, slot) /\ Append(B, slot)[i] = B[i]
      /\ Len(B) + 1 \in DOMAIN Append(B, slot) /\ Append(B, slot)[Len(B) + 1] = slot
  <2> HIDE DEF B, slot
  <2> QED BY <1>4, AppendProperties, LenProperties
<1>7. /\ new[b] = Append(B, slot)
      /\ \A a \in BucketIds : a # b => new[a] = bs[a]
  BY <1>2, <1>3
<1>8. slot.seq = n /\ slot.value = v /\ x.seq = n /\ x.bucket = b
  OBVIOUS
<1>9. /\ H \in Seq(Values) /\ Len(H) = Len(ord)
      /\ \A k \in 1..Len(ord) : H[k] = ValueOf(bs, ord[k])
  BY HeldIsASequence
<1> HIDE DEF b, slot, new, x, ord2
<1>10. /\ N \in Seq(Values) /\ Len(N) = Len(ord2)
       /\ \A k \in 1..Len(ord2) : N[k] = ValueOf(new, ord2[k])
  BY <1>1, HeldIsASequence
<1> HIDE DEF H, N
<1>11. /\ Append(H, v) \in Seq(Values) /\ Len(Append(H, v)) = Len(ord) + 1
       /\ \A k \in 1..Len(ord) : Append(H, v)[k] = H[k]
       /\ Append(H, v)[Len(ord) + 1] = v
  BY <1>9, AppendProperties
<1>12. ASSUME NEW k \in 1..Len(ord2)
       PROVE  N[k] = Append(H, v)[k]
  <2>1. CASE k = Len(ord) + 1
    <3>1. ValueOf(new, x) = v
      <4>1. Len(B) + 1 \in DOMAIN new[x.bucket] /\ new[x.bucket][Len(B) + 1] = slot
        BY <1>6, <1>7, <1>8
      <4>2. ValueOf(new, x) = new[x.bucket][Len(B) + 1].value
        BY <4>1, <1>1, <1>3, <1>8, ValueOfSlot DEF Consistent
      <4> QED BY <4>1, <4>2, <1>8
    <3> QED BY <2>1, <3>1, <1>5, <1>10, <1>11
  <2>2. CASE k # Len(ord) + 1
    <3>1. k \in 1..Len(ord) /\ ord2[k] = ord[k]
      BY <2>2, <1>2, <1>5
    <3>2. ord[k] \in Entries
      BY <3>1, <1>2, ElementOfSeq
    <3>3. ord[k].bucket \in BucketIds
      BY <3>2 DEF Entries
    <3>4. PICK i \in DOMAIN bs[ord[k].bucket] : bs[ord[k].bucket][i].seq = ord[k].seq
      BY <3>1, <1>2 DEF Consistent, EntrySlots
    <3>5. i \in DOMAIN new[ord[k].bucket] /\ new[ord[k].bucket][i] = bs[ord[k].bucket][i]
      BY <3>3, <3>4, <1>6, <1>7
    <3>6. ValueOf(bs, ord[k]) = bs[ord[k].bucket][i].value
      BY <3>3, <3>4, ValueOfSlot DEF Consistent
    <3>7. ValueOf(new, ord[k]) = new[ord[k].bucket][i].value
      BY <3>3, <3>4, <3>5, <1>1, ValueOfSlot DEF Consistent
    <3> QED BY <3>1, <3>5, <3>6, <3>7, <1>5, <1>9, <1>10, <1>11
  <2> QED BY <2>1, <2>2
<1>13. N = Append(H, v)
  BY <1>5, <1>10, <1>11, <1>12, SeqEqual
<1> QED
  BY <1>13 DEF N, H, new, ord2, x, slot, b

(* A value is held exactly when a slot of its bucket matches it.           *)
LEMMA MatchIffHeld ==
  ASSUME NEW bs, NEW ord, NEW n, NEW v \in Values, Capacity > 0,
         Typed(bs, ord, n), Consistent(bs, ord, n)
  PROVE  (\E i \in DOMAIN bs[bucket(HashOf[v])] : Matches(bs[bucket(HashOf[v])][i], v))
           <=> (\E k \in DOMAIN HeldOf(bs, ord) : HeldOf(bs, ord)[k] = v)
<1> DEFINE b == bucket(HashOf[v])
           H == HeldOf(bs, ord)
<1>1. /\ DOMAIN H = 1..Len(ord) /\ DOMAIN ord = 1..Len(ord)
      /\ \A k \in 1..Len(ord) : H[k] = ValueOf(bs, ord[k])
      /\ ord \in Seq(Entries)
  BY HeldIsASequence, LenProperties DEF Typed
<1>2. b \in BucketIds
  BY IndexAssumption, BucketExists
<1>3. ASSUME NEW i \in DOMAIN bs[b], Matches(bs[b][i], v)
      PROVE  \E k \in DOMAIN H : H[k] = v
  <2>1. PICK k \in DOMAIN ord : ord[k] = [seq |-> bs[b][i].seq, bucket |-> b]
    BY <1>2 DEF Consistent, SlotEntries
  <2>2. ord[k].bucket = b /\ ord[k].seq = bs[b][i].seq
    BY <2>1
  <2>3. ValueOf(bs, ord[k]) = bs[b][i].value
    <3> HIDE DEF b
    <3> QED BY <1>2, <2>2, ValueOfSlot DEF Consistent
  <2> QED BY <1>1, <1>3, <2>3 DEF Matches
<1>4. ASSUME NEW k \in DOMAIN H, H[k] = v
      PROVE  \E i \in DOMAIN bs[b] : Matches(bs[b][i], v)
  <2>1. k \in DOMAIN ord /\ ord[k] \in Entries /\ ValueOf(bs, ord[k]) = v
    BY <1>1, <1>4, ElementOfSeq
  <2> DEFINE a == ord[k].bucket
  <2>2. a \in BucketIds
    BY <2>1 DEF Entries
  <2>3. PICK i \in DOMAIN bs[a] : bs[a][i].seq = ord[k].seq
    BY <2>1 DEF Consistent, EntrySlots
  <2>4. bs[a][i].value = v
    BY <2>1, <2>2, <2>3, ValueOfSlot DEF Consistent
  <2>5. bs[a][i].hash = HashOf[v] /\ bucket(bs[a][i].hash) = a
    BY <2>2, <2>3, <2>4 DEF Consistent, SlotEntries
  <2> QED BY <2>3, <2>4, <2>5 DEF Matches
<1> QED
  BY <1>3, <1>4

(* The refinement mapping, stated of the variables.                        *)
LEMMA HeldIsHeldOf == Held = HeldOf(buckets, order)
  BY DEF Held, HeldOf, SlotOf, ValueOf

(* The same for the next state.                                            *)
LEMMA HeldIsHeldOfNext == Held' = HeldOf(buckets', order')
  BY DEF Held, HeldOf, SlotOf, ValueOf

(* A lookup answers as the abstract set does.                              *)
LEMMA ContainsRefines ==
  ASSUME IInv, NEW v \in Values, contains(v)
  PROVE  Abstract!Contains(v)
<1>1. Typed(buckets, order, next_seq) /\ Consistent(buckets, order, next_seq)
  BY IInvIsConsistent
<1>2. Held' = Held
  BY HeldIsHeldOf, HeldIsHeldOfNext DEF contains
<1> DEFINE slots == IF Capacity = 0 THEN <<>> ELSE buckets[bucket(HashOf[v])]
           hits  == {i \in DOMAIN slots : Matches(slots[i], v)}
<1>3. answer' = <<v, hits # {}>>
  BY DEF contains
<1>4. hits # {} <=> Abstract!Holds(v)
  <2>1. CASE Capacity = 0
    <3>1. Len(order) = 0 /\ DOMAIN order = {}
      <4>1. order \in Seq(Entries) /\ Len(order) <= 0
        BY <1>1, <2>1 DEF Typed, Consistent, Recent
      <4> QED BY <4>1, LenProperties
    <3>2. DOMAIN Held = {}
      BY <3>1 DEF Held
    <3> QED BY <2>1, <3>2 DEF Abstract!Holds
  <2>2. CASE Capacity # 0
    <3>1. Capacity > 0
      BY <2>2, IndexAssumption
    <3>2. hits # {} <=> \E i \in DOMAIN buckets[bucket(HashOf[v])] :
                           Matches(buckets[bucket(HashOf[v])][i], v)
      BY <2>2
    <3> QED
      BY <3>1, <3>2, <1>1, MatchIffHeld, HeldIsHeldOf DEF Abstract!Holds
  <2> QED BY <2>1, <2>2
<1> HIDE DEF hits
<1>5. answer' = <<v, Abstract!Holds(v)>>
  <2>1. (hits # {}) = Abstract!Holds(v)
    BY <1>4, Zenon DEF Abstract!Holds
  <2> QED BY <1>3, <2>1, Zenon
<1> QED
  BY <1>2, <1>5, Zenon DEF Abstract!Contains

(* An insertion is the abstract insertion.                                 *)
LEMMA InsertRefines ==
  ASSUME IInv, NEW v \in Values, insert(v)
  PROVE  Abstract!Insert(v)
<1> DEFINE kept == IF Full THEN Evicted(buckets, Head(order)) ELSE buckets
           rest == IF Full THEN Tail(order) ELSE order
           b    == bucket(HashOf[v])
           slot == [seq |-> next_seq, hash |-> HashOf[v], value |-> v]
<1>1. /\ Typed(buckets, order, next_seq) /\ Consistent(buckets, order, next_seq)
      /\ Capacity \in Nat /\ Capacity > 0
  BY IInvIsConsistent, IndexAssumption DEF insert
<1>2. Len(order) \in Nat /\ order \in Seq(Entries) /\ (Full => order # <<>>)
  BY <1>1, LenProperties, EmptySeq DEF Typed, Full
<1>3. Len(Held) = Len(order)
  BY <1>1, HeldIsHeldOf, HeldIsASequence
<1>4. /\ Typed(kept, rest, next_seq) /\ Consistent(kept, rest, next_seq) /\ Len(rest) < Capacity
      /\ HeldOf(kept, rest) = IF Len(Held) = Capacity THEN Tail(Held) ELSE Held
  <2>1. CASE Full
    BY <2>1, <1>1, <1>2, <1>3, HeldIsHeldOf, EvictionKeepsConsistency, EvictionDropsOldest DEF Full
  <2>2. CASE ~Full
    BY <2>2, <1>1, <1>2, <1>3, HeldIsHeldOf DEF Full, Consistent, Recent
  <2> QED BY <2>1, <2>2
<1>5. /\ buckets' = [kept EXCEPT ![b] = Append(@, slot)]
      /\ order' = Append(rest, [seq |-> next_seq, bucket |-> b])
      /\ answer' = answer
  BY DEF insert, NewEntry
<1>6. Held' = Append(HeldOf(kept, rest), v)
  <2> HIDE DEF kept, rest
  <2> QED BY <1>4, <1>5, PushAppends, HeldIsHeldOfNext
<1> QED
  BY <1>1, <1>4, <1>5, <1>6 DEF Abstract!Insert

(* The chained hash table with its queue implements the bounded FIFO set:  *)
(* collisions, chains and swap_remove never change an answer.              *)
THEOREM Refinement == Spec => ImplementsBoundedFifo
<1>1. Init => Abstract!Init
  <2> SUFFICES ASSUME Init PROVE Held = <<>> /\ answer = <<>>
    BY DEF Abstract!Init
  <2>1. order = <<>> /\ answer = <<>>
    BY DEF Init
  <2> QED BY <2>1 DEF Held
<1>2. IInv /\ [Next]_vars => [Abstract!Next]_<<Held, answer>>
  <2>1. ASSUME UNCHANGED vars PROVE UNCHANGED <<Held, answer>>
    BY <2>1, HeldIsHeldOf, HeldIsHeldOfNext DEF vars
  <2> QED BY <2>1, ContainsRefines, InsertRefines DEF Next, Abstract!Next
<1> QED
  BY <1>1, <1>2, Invariance, PTL DEF Spec, ImplementsBoundedFifo, Abstract!Spec
=============================================================================
