------------------------------- MODULE MCSplit -------------------------------
(***************************************************************************)
(* Three output ids of two bits.  The trees of an owner without the SDK:   *)
(* every leaf, every node over two leaves at any depth and any claimed     *)
(* sums, and nodes of depth 0 over such a node (of depth 1 with any sums,  *)
(* of depth 0 again with sums of 1) and a leaf to its right, with a total  *)
(* of 3 or one that would wrap around to 1, which are amounts of a source. *)
(* Leaves need not be where their keys belong, nor sums add up.  For two   *)
(* assets there is every pair of leaves or nodes over two, for two ids.    *)
(* A source that has room just fits the limits on depth and transfers once *)
(* it is embedded with its burn, with two assets the one on bytes too; a   *)
(* limited one exceeds one of them with its burn, or even before.          *)
(***************************************************************************)
EXTENDS Split

CONSTANTS m1, m2

K00 == <<0, 0>>
K01 == <<0, 1>>
K10 == <<1, 0>>

Asset(id, value) == [id |-> id, value |-> value]
Coins(v)      == <<Asset(1, v)>>
Mixed(v, w)   == <<Asset(1, v), Asset(2, w)>>
Token(data)   ==
  [network_id |-> "n1", token_type |-> "t1", data |-> data, authentic |-> TRUE,
   embedded_depth |-> 1, embedded_bytes |-> 1, encoded_len |-> 2, transfers |-> 1]
MCBurnBytes(n) == n + 1
Limited ==
  LET t == Token(Coins(3)) IN
    {[t EXCEPT !.transfers = n] : n \in 2..3} \cup {[t EXCEPT !.embedded_depth = n] : n \in 2..3}
      \cup {[t EXCEPT !.embedded_bytes = n] : n \in {3, 7}}
MCSources ==
  {Token(Coins(1)), Token(Coins(3)), Token(Mixed(3, 2)), Token(None), Token(<<Asset(2, 1), Asset(1, 1)>>),
   [Token(Coins(3)) EXCEPT !.authentic = FALSE]} \cup Limited

Request(key, data) == [token_id |-> key, token_type |-> "t1", assets |-> data, data |-> data]
Plain ==
  <<Request(K00, Coins(1)), Request(K01, Coins(1)), Request(K10, Coins(1)),
    Request(K00, Mixed(1, 1)), Request(K01, Mixed(1, 1)), Request(K10, Mixed(1, 1))>>
Special ==
  <<Request(K01, Coins(2)), Request(K10, Mixed(2, 1)), Request(K00, <<Asset(2, 1)>>),
    [Request(K00, Coins(1)) EXCEPT !.token_type = "t2"],
    [Request(K00, Coins(1)) EXCEPT !.data = Coins(2)]>>

(* The lists of n of the requests, up to their order, which Build varies.  *)
ListsOf(n, rs) ==
  {[i \in 1..n |-> rs[f[i]]] :
     f \in {g \in [1..n -> DOMAIN rs] : \A i \in 1..(n - 1) : g[i] <= g[i + 1]}}
MCRequestLists == ListsOf(3, Plain) \cup UNION {ListsOf(n, Plain \o Special) : n \in 1..2}

LeafTerms ==
  {leaf_hash(key, commitment("n1", "t1", key, Coins(v)), v) : key \in {K00, K01, K10}, v \in 1..2}
Entries(hashes, sums) == [hash : hashes, sum : sums]
PairsAt(depth, sums) ==
  {NodeOf(depth, l, r) : l \in Entries(LeafTerms, sums), r \in Entries(LeafTerms, sums)}
Pairs == PairsAt(0, 1..2) \cup PairsAt(1, 1..2)
Triples ==
  {NodeOf(0, l, r) : <<l, r>> \in
     {<<l, r>> \in Entries(PairsAt(0, {1}) \cup PairsAt(1, 1..2), 1..3) \X Entries(LeafTerms, 1..2) :
        l.sum + r.sum \in {3, 5}}}

MixedLeaves ==
  {leaf_hash(key, commitment("n1", "t1", key, Mixed(1, 1)), 1) : key \in {K00, K01}}
MixedTerms ==
  MixedLeaves
    \cup {NodeOf(1, l, r) : l \in Entries(MixedLeaves, 1..2), r \in Entries(MixedLeaves, 1..2)}

BurnFor(data, reason) == [mask |-> m1, data |-> data, recipient |-> Burned(reason)]
MCBurns ==
  {BurnFor(<<t>>, <<t>>) : t \in LeafTerms \cup Pairs \cup Triples}
    \cup {BurnFor(<<t>>, <<>>) : t \in LeafTerms} \cup {BurnFor(<<t, t>>, <<t, t>>) : t \in LeafTerms}
    \cup {BurnFor(ts, ts) : ts \in MixedTerms \X MixedTerms}
MCPayments  == {Coins(1), Coins(2), Mixed(1, 1), <<Asset(2, 1)>>, <<>>}
=============================================================================
