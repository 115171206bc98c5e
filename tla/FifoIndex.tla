------------------------------ MODULE FifoIndex ------------------------------
(***************************************************************************)
(* `FifoIndex<T>` (fifo_index.rs): the bounded FIFO set behind the seal    *)
(* memo, the body memo and the certificate interner.  A chained hash table *)
(* holds the slots, and a queue of (sequence, bucket) pairs remembers      *)
(* their age; eviction takes the front of the queue and removes the slot   *)
(* with that sequence number from its bucket by swap_remove.               *)
(*                                                                         *)
(* The hash comes from the caller and may collide.  A slot is a record     *)
(* [seq, hash, value]; buckets are numbered from 0.                        *)
(***************************************************************************)
EXTENDS Integers, Sequences, FiniteSets

CONSTANTS
  Values,      \* the values stored
  HashOf,      \* HashOf[v]: the hash the caller supplies for v
  Capacity,    \* the most entries held; 0 stores nothing
  NumBuckets,  \* length of the bucket array
  MaxInserts,  \* bound: insertions in a behaviour
  MaxProbes    \* bound: lookups stop once this many slots were examined

(* `new`: no bucket for capacity 0, else capacity.next_power_of_two().     *)
ASSUME IndexAssumption ==
  /\ Capacity \in Nat /\ NumBuckets \in Nat /\ MaxInserts \in Nat
  /\ MaxProbes \in Nat
  /\ HashOf \in [Values -> Nat]
  /\ Capacity = 0 => NumBuckets = 0
  /\ Capacity > 0 => NumBuckets > 0

ASSUME NextPowerOfTwo ==
  Capacity > 0 => /\ Capacity <= NumBuckets /\ NumBuckets < 2 * Capacity
                  /\ \E k \in 0..Capacity : NumBuckets = 2^k

VARIABLES
  buckets,   \* buckets[b]: the slots chained in bucket b
  order,     \* the entries, oldest first, as [seq, bucket]
  next_seq,  \* the next sequence number
  probes,    \* slots examined so far
  answer     \* the last answer of `contains`: the value asked for, and whether it is held

vars == <<buckets, order, next_seq, probes, answer>>

Slots      == [seq : Nat, hash : Nat, value : Values]
BucketIds  == 0..(NumBuckets - 1)
Entries    == [seq : Nat, bucket : BucketIds]
Answers    == {<<>>} \cup (Values \X BOOLEAN)

(* `bucket`: the low bits of the hash.                                     *)
bucket(hash) == hash % NumBuckets

Init ==
  /\ buckets = [b \in BucketIds |-> <<>>]
  /\ order = <<>> /\ next_seq = 0 /\ probes = 0 /\ answer = <<>>

-----------------------------------------------------------------------------
(* The slots are compared by hash alone.                                   *)
MatchesMutant(slot, v) == slot.hash = HashOf[v]

Matches(slot, v) == slot.hash = HashOf[v] /\ slot.value = v

(* A scan of the slots stops at the first of the hits; how many it         *)
(* examines.                                                               *)
Examined(slots, hits) == Cardinality({j \in DOMAIN slots : \A i \in hits : j <= i})

contains(v) ==
  LET slots == IF Capacity = 0 THEN <<>> ELSE buckets[bucket(HashOf[v])]
      hits  == {i \in DOMAIN slots : Matches(slots[i], v)}
  IN /\ probes < MaxProbes
     /\ answer' = <<v, hits # {}>>
     /\ probes' = probes + Examined(slots, hits)
     /\ UNCHANGED <<buckets, order, next_seq>>

(* The removed slot's place is not filled: the last slot goes instead.     *)
swap_removeMutant(s, i) == SubSeq(s, 1, Len(s) - 1)

(* Vec::swap_remove: the last element takes the place of the removed one.  *)
swap_remove(s, i) == SubSeq([s EXCEPT ![i] = s[Len(s)]], 1, Len(s) - 1)

(* Where the slot of the entry e is.                                       *)
SlotsOf(bs, e) == {i \in DOMAIN bs[e.bucket] : bs[e.bucket][i].seq = e.seq}

(* Evict the entry at the front of the queue from its bucket.              *)
Evicted(bs, e) ==
  IF SlotsOf(bs, e) = {} THEN bs
  ELSE [bs EXCEPT ![e.bucket] =
          swap_remove(@, CHOOSE i \in SlotsOf(bs, e) : \A j \in SlotsOf(bs, e) : i <= j)]

(* One entry too many before anything is evicted.                          *)
FullMutant == Len(order) > Capacity

Full == Len(order) = Capacity

(* What the queue remembers of a new slot.                                 *)
NewEntry(v) == [seq |-> next_seq, bucket |-> bucket(HashOf[v])]

insert(v) ==
  LET old  == Head(order)
      kept == IF Full THEN Evicted(buckets, old) ELSE buckets
      b    == bucket(HashOf[v])
      slot == [seq |-> next_seq, hash |-> HashOf[v], value |-> v]
  IN /\ Capacity > 0 /\ next_seq < MaxInserts
     /\ buckets' = [kept EXCEPT ![b] = Append(@, slot)]
     /\ order' = Append(IF Full THEN Tail(order) ELSE order, NewEntry(v))
     /\ next_seq' = next_seq + 1
     /\ probes' = probes + (IF Full THEN Examined(buckets[old.bucket], SlotsOf(buckets, old)) ELSE 0)
     /\ UNCHANGED answer

Next == \E v \in Values : contains(v) \/ insert(v)

Spec == Init /\ [][Next]_vars

-----------------------------------------------------------------------------
(* Every variable keeps its type: in particular a queue entry names a      *)
(* bucket that exists.                                                     *)
TypeOK ==
  /\ buckets \in [BucketIds -> Seq(Slots)]
  /\ order \in Seq(Entries)
  /\ next_seq \in Nat /\ probes \in Nat /\ answer \in Answers

(* The queue and the table agree: the queue holds the last insertions in   *)
(* order, never more than Capacity; each has exactly one slot, in the      *)
(* bucket of its hash; and no slot outlives its queue entry.               *)
OrderIsRecent ==
  /\ Len(order) <= Capacity /\ Len(order) <= next_seq
  /\ \A k \in DOMAIN order : order[k].seq = next_seq - Len(order) + k - 1

EveryEntryHasASlot ==
  \A k \in DOMAIN order :
    \E i \in DOMAIN buckets[order[k].bucket] :
      buckets[order[k].bucket][i].seq = order[k].seq

EverySlotHasAnEntry ==
  \A b \in BucketIds : \A i \in DOMAIN buckets[b] :
    /\ bucket(buckets[b][i].hash) = b
    /\ buckets[b][i].hash = HashOf[buckets[b][i].value]
    /\ \E k \in DOMAIN order : order[k] = [seq |-> buckets[b][i].seq, bucket |-> b]

SlotsDiffer ==
  \A b \in BucketIds : \A i, j \in DOMAIN buckets[b] :
    buckets[b][i].seq = buckets[b][j].seq => i = j

IndexConsistent ==
  OrderIsRecent /\ EveryEntryHasASlot /\ EverySlotHasAnEntry /\ SlotsDiffer

(* "at most `capacity` for adversarial" hashes: no operation examines more *)
(* slots than the index may hold, whatever the hashes.                     *)
ProbesBounded == [][probes' - probes <= Capacity]_vars

(* The index answers as a bounded FIFO set of the last Capacity values     *)
(* does: no entry is lost early, none is answered after its eviction, and  *)
(* a hash collision never changes an answer.                               *)
SlotOf(e) ==
  LET slots == buckets[e.bucket]
  IN slots[CHOOSE i \in DOMAIN slots : slots[i].seq = e.seq]
Held == [k \in DOMAIN order |-> SlotOf(order[k]).value]
Abstract == INSTANCE BoundedFifo WITH items <- Held
ImplementsBoundedFifo == Abstract!Spec
=============================================================================
