------------------------------- MODULE ShardId -------------------------------
(***************************************************************************)
(* Shard identifiers (api/bft/shard_id.rs): bit strings kept in whole      *)
(* bytes.  `bits` is the byte array, most significant bit first, so its    *)
(* length is a multiple of ByteBits, and equality of identifiers (derived  *)
(* PartialEq) is equality of the arrays, unused bits included.  Keys and   *)
(* encodings are byte arrays of the same kind.  Positions of the code are  *)
(* 0-based; sequences start at 1.                                          *)
(***************************************************************************)
EXTENDS Results

CONSTANT ByteBits  \* bits of a byte (8)

(* Option::None is no identifier, no bit and no index.                     *)
ASSUME ByteAssumption ==
  /\ ByteBits \in Nat \ {0}
  /\ None \notin [bits : Seq({0, 1}), length : Nat] /\ None \notin Nat

Zeros(n) == [i \in 1..n |-> 0]

(* length.div_ceil(8) bytes, in bits.                                      *)
WholeBytes(n) == ((n + ByteBits - 1) \div ByteBits) * ByteBits

(* -1, 0 and 1 are Less, Equal and Greater.                                *)
Compare(a, b) == IF a < b THEN -1 ELSE IF a = b THEN 0 ELSE 1

root == [bits |-> <<>>, length |-> 0]

get_bit(id, index) == IF index >= id.length THEN None ELSE id.bits[index + 1]

prefix(id, length) ==
  IF length > id.length THEN None
  ELSE [bits   |-> [i \in 1..WholeBytes(length) |-> IF i <= length THEN id.bits[i] ELSE 0],
        length |-> length]

(* The two children, zero first; a new byte is added when the last is full.*)
split(id) ==
  LET zero == IF id.length % ByteBits = 0 THEN id.bits \o Zeros(ByteBits) ELSE id.bits
      last == Len(zero) - ByteBits + (id.length % ByteBits) + 1
  IN << [bits |-> zero, length |-> id.length + 1],
        [bits |-> [zero EXCEPT ![last] = 1], length |-> id.length + 1] >>

sibling(id) ==
  IF id.length = 0 THEN None ELSE [id EXCEPT !.bits[id.length] = 1 - @]

(* The first place where two bit strings of n bits differ, or n + 1.       *)
Difference(a, b, n) ==
  CHOOSE i \in 1..(n + 1) : /\ i <= n => a[i] # b[i]
                            /\ \A j \in 1..(i - 1) : a[j] = b[j]

canonical_cmp(a, b) ==
  LET n == IF a.length < b.length THEN a.length ELSE b.length
      i == Difference(a.bits, b.bits, n)
  IN IF i <= n THEN Compare(a.bits[i], b.bits[i]) ELSE Compare(a.length, b.length)

(* A key that ends before the identifier continues with zeros.             *)
cmp_prefix_of_key(id, key) ==
  LET padded == key \o Zeros(id.length)
      i == Difference(id.bits, padded, id.length)
  IN IF i <= id.length THEN Compare(id.bits[i], padded[i]) ELSE 0

is_prefix_of(id, data) ==
  /\ Len(data) >= WholeBytes(id.length)
  /\ \A i \in 1..id.length : id.bits[i] = data[i]

is_prefix_of_shard(id, other) ==
  id.length <= other.length /\ is_prefix_of(id, other.bits)

(* The end marker is kept as a bit of the identifier.                      *)
decodeMutant(data) ==
  LET marked == {i \in DOMAIN data : i > Len(data) - ByteBits /\ data[i] = 1} IN
  IF marked = {} THEN None
  ELSE LET end == CHOOSE i \in marked : \A j \in marked : j <= i
       IN [bits |-> SubSeq(data, 1, WholeBytes(end - 1)), length |-> end - 1]

(* The last set bit of the last byte is the end marker; it and what        *)
(* follows it are no bits of the identifier.                               *)
decode(data) ==
  LET marked == {i \in DOMAIN data : i > Len(data) - ByteBits /\ data[i] = 1} IN
  IF marked = {} THEN None
  ELSE LET end == CHOOSE i \in marked : \A j \in marked : j <= i
       IN [bits   |-> [i \in 1..WholeBytes(end - 1) |-> IF i < end THEN data[i] ELSE 0],
           length |-> end - 1]

encode(id) ==
  LET bytes == (id.length \div ByteBits + 1) * ByteBits
  IN [i \in 1..bytes |-> IF i <= id.length THEN id.bits[i]
                         ELSE IF i = id.length + 1 THEN 1 ELSE 0]
=============================================================================
