-------------------------------- MODULE Split --------------------------------
(***************************************************************************)
(* Splitting a payment token (payment/): the owner builds the allocation   *)
(* trees and the burn (TokenSplit::split, split_unchecked), has the burn   *)
(* certified and mints the outputs; everybody who is offered an output     *)
(* checks it with SplitMintJustificationVerifier.                          *)
(*                                                                         *)
(* One source token is split.  Its owner either uses the SDK, and may      *)
(* crash and start over between any two steps, or commits to any trees at  *)
(* all, which only the verifier stands against.  The aggregator (external) *)
(* certifies one spend of the source and one mint of a token id.           *)
(*                                                                         *)
(* Asset ids are numbers, their canonical order is <.  Payment data is the *)
(* sequence of its assets; the digest that is the reason of a burn         *)
(* predicate is the manifest, and an output commitment is the record of    *)
(* what it commits to: the recipient is left out, the salt is the token    *)
(* id, and the source is the only one.  Payment data is decoded by the     *)
(* default decoder.  The owner and everybody else verify with the same     *)
(* trust base, registry and limits.                                        *)
(*                                                                         *)
(* Left out: the expiry of the burn, the limits of the CBOR decoder, and   *)
(* what an application's own payload verifier says of an output.           *)
(***************************************************************************)
EXTENDS Rsmst, SequencesExt

CONSTANTS
  Sources,      \* source tokens
  RequestLists, \* lists of SplitTokenRequests the owner may ask for
  Burns,        \* burns an owner without the SDK may commit to
  Payments,     \* payment data of mints in that case
  Networks, Types,
  Masks,        \* state masks of the burn transfer
  MaxAssets,    \* MAX_PAYMENT_ASSETS
  MaxDepth,     \* max_embedded_token_depth
  MaxBytes,     \* max_total_embedded_token_bytes
  MaxTransfers, \* max_token_transfers
  BurnBytes(_), \* what a certified burn with n manifest roots adds to a token's encoding
  MaxCrashes    \* bound: crashes of the owner's process

ASSUME SplitAssumption ==
  /\ MaxAssets \in Nat \ {0} /\ MaxCrashes \in Nat /\ None \notin Masks
  /\ {MaxDepth, MaxBytes, MaxTransfers} \subseteq Nat
  /\ \A n \in 1..MaxAssets : BurnBytes(n) \in Nat
  /\ \A s \in Sources :
       /\ s.data = None \/ s.data \in Seq([id : Int, value : Int])
       /\ {s.embedded_depth, s.embedded_bytes, s.encoded_len, s.transfers} \subseteq Nat
  /\ \A rs \in RequestLists :
       /\ Len(rs) \in Nat /\ DOMAIN rs = 1..Len(rs)
       /\ \A i \in DOMAIN rs :
            /\ rs[i].assets \in Seq([id : Int, value : Int]) /\ rs[i].assets # None
            /\ rs[i].token_id \in Keys

(* A source token has network_id, token_type and payment data; authentic   *)
(* if its history, proofs and payloads check out; embedded_depth levels of *)
(* sources under it, of embedded_bytes together; and its own encoded_len   *)
(* and number of transfers.                                                *)
VARIABLES
  source,    \* the source token
  owner,     \* "sdk" or "any"
  checked,   \* whether the owner calls split or split_unchecked
  requests,  \* the outputs the owner wants
  mask,      \* the burn_state_mask argument
  pc,        \* where the owner's process is
  plan,      \* the Split it holds
  burn,      \* the certified burn of the source
  minted,    \* the certified and accepted outputs: payment data by token id
  crashes

vars == <<source, owner, checked, requests, mask, pc, plan, burn, minted, crashes>>
inputs == <<source, owner, checked, requests, mask>>

(* What a source without transfers ends in; data that is absent is empty.  *)
(* The verifier refuses both.                                              *)
NoBurn == [mask |-> None, data |-> <<>>, recipient |-> None]

Init ==
  /\ source \in Sources
  /\ \/ /\ owner = "sdk" /\ checked \in BOOLEAN
        /\ requests \in RequestLists /\ mask \in Masks \cup {None}
     \/ owner = "any" /\ checked = FALSE /\ requests = <<>> /\ mask = None
  /\ pc = "start" /\ plan = None /\ burn = NoBurn
  /\ minted = <<>> /\ crashes = 0

-----------------------------------------------------------------------------
(* Payment data.                                                           *)

(* PaymentAssetCollection::from_cbor: anything but the canonical form is   *)
(* refused.                                                                *)
decode(data) ==
  IF /\ Len(data) \in 1..MaxAssets
     /\ \A i \in DOMAIN data : is_valid_amount(data[i].value)
     /\ \A i \in DOMAIN data \ {1} : data[i - 1].id < data[i].id
  THEN data ELSE None

Position(assets, id) == {i \in DOMAIN assets : assets[i].id = id}

(* The amount of an asset in a collection, 0 if it is not there: an id has *)
(* at most one place in the canonical form.                                *)
Amount(assets, id) ==
  IF Position(assets, id) = {} THEN 0 ELSE assets[CHOOSE i \in Position(assets, id) : TRUE].value

commitment(network_id, token_type, token_id, data) ==
  [domain |-> "SPLIT_OUTPUT", network_id |-> network_id, token_type |-> token_type,
   token_id |-> token_id, data |-> data]

Burned(manifest) == [predicate |-> "burn", reason |-> manifest]

-----------------------------------------------------------------------------
(* The owner's side.                                                       *)

(* A request is refused for its type, for bytes that are not its assets,   *)
(* for an asset the source has not got, and for an id that is taken.       *)
RequestFits(rs, i) ==
  /\ rs[i].token_type = source.token_type
  /\ decode(rs[i].data) = rs[i].assets
  /\ \A k \in DOMAIN rs[i].assets : Position(source.data, rs[i].assets[k].id) # {}
  /\ \A j \in 1..(i - 1) : rs[j].token_id # rs[i].token_id

(* The tree of one source asset.                                           *)
AddLeaf(leaves, r, id) ==
  IF Position(r.assets, id) = {} THEN leaves
  ELSE insert(leaves, r.token_id,
              commitment(source.network_id, r.token_type, r.token_id, r.data),
              Amount(r.assets, id))

LeavesOf(rs, id) ==
  LET leaves[i \in 0..Len(rs)] == IF i = 0 THEN <<>> ELSE AddLeaf(leaves[i - 1], rs[i], id)
  IN leaves

TreeOf(rs, id) == build(LeavesOf(rs, id)[Len(rs)])

OutputOf(trees, r) ==
  [token_id |-> r.token_id, token_type |-> r.token_type, network_id |-> source.network_id,
   data |-> r.data,
   proofs |-> [k \in DOMAIN r.assets |->
                 proof(trees[Min(Position(source.data, r.assets[k].id))].hash, r.token_id)]]

(* The per-asset totals are not compared with the source.                  *)
build_splitMutant(rs, m) ==
  LET trees == [i \in DOMAIN source.data |-> TreeOf(rs, source.data[i].id)]
      roots == [i \in DOMAIN trees |-> trees[i].hash]
  IN IF \/ \E i \in DOMAIN rs : ~RequestFits(rs, i)
        \/ \E i \in DOMAIN trees : trees[i] = None
     THEN None
     ELSE [burn   |-> [mask |-> m, data |-> roots, recipient |-> Burned(roots)],
           tokens |-> [i \in DOMAIN rs |-> OutputOf(trees, rs[i])]]

(* build_split: the burn and the outputs, or None for an error.  Every     *)
(* source asset must be allocated, and completely.                         *)
build_split(rs, m) ==
  LET trees == [i \in DOMAIN source.data |-> TreeOf(rs, source.data[i].id)]
      roots == [i \in DOMAIN trees |-> trees[i].hash]
  IN IF \/ \E i \in DOMAIN rs : ~RequestFits(rs, i)
        \/ \E i \in DOMAIN trees : trees[i] = None
        \/ \E i \in DOMAIN trees : trees[i].sum # source.data[i].value
     THEN None
     ELSE [burn   |-> [mask |-> m, data |-> roots, recipient |-> Burned(roots)],
           tokens |-> [i \in DOMAIN rs |-> OutputOf(trees, rs[i])]]

(* A supplied mask is not used.                                            *)
MaskChoiceMutant == Masks

(* The mask of this attempt: the one supplied, or a random one.            *)
MaskChoice == IF mask = None THEN Masks ELSE {mask}

(* The same requests in any order: the process that starts over may hold   *)
(* them differently.                                                       *)
Orders(rs) == {[i \in DOMAIN rs |-> rs[p[i]]] : p \in SetToSeqs(DOMAIN rs)}

(* verify_token_in_context for the source with its transfers, at a depth   *)
(* and after so many bytes of embedded tokens.                             *)
verify_token_in_context(depth, bytes, transfers) ==
  /\ transfers <= MaxTransfers
  /\ source.authentic
  /\ depth + source.embedded_depth <= MaxDepth
  /\ bytes + source.embedded_bytes <= MaxBytes

(* split verifies the source by itself and before there is a burn;         *)
(* split_unchecked only decodes its payment data.                          *)
Splittable ==
  /\ checked => verify_token_in_context(0, 0, source.transfers)
  /\ source.data # None /\ decode(source.data) # None

Build ==
  /\ owner = "sdk" /\ pc = "start"
  /\ IF ~Splittable THEN pc' = "refused" /\ UNCHANGED plan
     ELSE \E split \in {build_split(rs, m) : rs \in Orders(requests), m \in MaskChoice} :
            /\ plan' = split
            /\ pc' = IF split = None THEN "refused" ELSE "built"
  /\ UNCHANGED <<inputs, burn, minted, crashes>>

(* The aggregator certifies the first spend of the source; the same one    *)
(* may be sent again, another one has lost.                                *)
CertifyBurn ==
  /\ pc = "built"
  /\ burn' = IF burn = NoBurn THEN plan.burn ELSE burn
  /\ pc' = IF burn' = plan.burn THEN "burned" ELSE "lost"
  /\ UNCHANGED <<inputs, plan, minted, crashes>>

(* The process dies; nothing of the split was saved.                       *)
Crash ==
  /\ pc \in {"built", "burned"} /\ crashes < MaxCrashes
  /\ crashes' = crashes + 1
  /\ pc' = "start" /\ plan' = None
  /\ UNCHANGED <<inputs, burn, minted>>

-----------------------------------------------------------------------------
(* The verifier's side.                                                    *)

(* verify_embedded_token: what the source ends in is certified, and it     *)
(* verifies one level down, with a burn as one more transfer.              *)
verify_embedded_token(b, certified) ==
  /\ b \in {NoBurn, certified}
  /\ IF b = NoBurn
     THEN verify_token_in_context(1, source.encoded_len, source.transfers)
     ELSE verify_token_in_context(1, source.encoded_len + BurnBytes(Len(b.data)),
                                  source.transfers + 1)

(* SplitManifest::from_cbor_bytes and the burn predicate.                  *)
ManifestBound(b) ==
  /\ b # NoBurn
  /\ Len(b.data) \in 1..MaxAssets
  /\ b.recipient = Burned(b.data)

(* One output asset against the manifest root of the same source asset.    *)
Allocated(mint, asset, steps, manifest) ==
  \E i \in Position(source.data, asset.id) :
    verify(steps, mint.token_id,
           commitment(mint.network_id, mint.token_type, mint.token_id, mint.data),
           asset.value, manifest[i]) = source.data[i].value

(* SplitMintJustificationVerifier::verify for a mint that presents the     *)
(* source with burn b: TRUE for Ok.  The conditions are in code order.     *)
verify_split(mint, b, certified) ==
  /\ Len(mint.proofs) \in 1..MaxAssets
  /\ mint.data # None
  /\ decode(mint.data) # None
  /\ mint.network_id = source.network_id
  /\ verify_embedded_token(b, certified)
  /\ ManifestBound(b)
  /\ mint.token_type = source.token_type
  /\ source.data # None /\ decode(source.data) # None
  /\ Len(source.data) = Len(b.data)
  /\ Len(mint.proofs) = Len(mint.data)
  /\ \A k \in DOMAIN mint.data : Allocated(mint, mint.data[k], mint.proofs[k], b.data)

(* A mint of an id that is free is certified, and accepted if it verifies. *)
Mint(mint, b) ==
  /\ mint.token_id \notin DOMAIN minted
  /\ verify_split(mint, b, burn)
  /\ minted' = [key \in DOMAIN minted \cup {mint.token_id} |->
                   IF key = mint.token_id THEN mint.data ELSE minted[key]]
  /\ UNCHANGED <<inputs, pc, plan, burn, crashes>>

MintOutput ==
  /\ pc = "burned"
  /\ \E i \in DOMAIN plan.tokens : Mint(plan.tokens[i], plan.burn)

-----------------------------------------------------------------------------
(* An owner who does not use the SDK.                                      *)

BurnAnyhow ==
  /\ owner = "any" /\ burn = NoBurn
  /\ burn' \in Burns
  /\ UNCHANGED <<inputs, pc, plan, minted, crashes>>

(* Every proof that climbs to the given hash, whatever key it is for; any  *)
(* other steps end in another hash.                                        *)
Paths(root) ==
  LET Down(p) ==
        IF IsLeaf(p.node) THEN {}
        ELSE {[node |-> p.node.left, steps |-> <<RightEntry(p.node)>> \o p.steps],
              [node |-> p.node.right, steps |-> <<LeftEntry(p.node)>> \o p.steps]}
      level[i \in 0..KeyBits] ==
        IF i = 0 THEN {[node |-> root, steps |-> <<>>]} ELSE UNION {Down(p) : p \in level[i - 1]}
  IN {p.steps : p \in {p \in UNION {level[i] : i \in 0..KeyBits} : IsLeaf(p.node)}}

MintAnything ==
  LET paths == UNION {Paths(root) : root \in ToSet(burn.data)} IN
  /\ owner = "any" /\ burn # NoBurn
  /\ \E data \in Payments, b \in {NoBurn, burn} :
     \E proofs \in [DOMAIN data -> paths], key \in Keys \ DOMAIN minted, n \in Networks, t \in Types :
       Mint([token_id |-> key, token_type |-> t, network_id |-> n, data |-> data,
             proofs |-> proofs], b)

-----------------------------------------------------------------------------
Next == Build \/ CertifyBurn \/ MintOutput \/ Crash \/ BurnAnyhow \/ MintAnything

Spec == Init /\ [][Next]_vars

(* The owner's process goes on with the split.  The first condition is     *)
(* WF_vars(Build): Build can be taken whenever it is due, and is the only  *)
(* way on from there.                                                      *)
FairSpec ==
  /\ Spec /\ []<>~(owner = "sdk" /\ pc = "start")
  /\ WF_vars(CertifyBurn) /\ WF_vars(MintOutput)

-----------------------------------------------------------------------------
AssetIds(assets) == {assets[i].id : i \in DOMAIN assets}

(* The units of an asset that the accepted outputs hold.                   *)
MintedUnits(id) == UNION {{key} \X (1..Amount(minted[key], id)) : key \in DOMAIN minted}

(* "A forged or over-issued split cannot pass": whatever trees the source  *)
(* was burned for and whatever proofs are presented, the accepted outputs  *)
(* together never hold more of an asset than the source did.               *)
NoOverIssue ==
  \A key \in DOMAIN minted : \A id \in AssetIds(minted[key]) :
    /\ id \in AssetIds(source.data)
    /\ Cardinality(MintedUnits(id)) <= Amount(source.data, id)

(* The units of an asset that the planned outputs hold.                    *)
PlannedUnits(id) ==
  UNION {{t.token_id} \X (1..Amount(t.data, id)) : t \in ToSet(plan.tokens)}

(* The source can be embedded with its burn: a token that meets a limit    *)
(* exactly verifies by itself but has no room.                             *)
HasRoom ==
  /\ source.transfers < MaxTransfers
  /\ source.embedded_depth < MaxDepth
  /\ source.data # None =>
       source.embedded_bytes + source.encoded_len + BurnBytes(Len(source.data)) <= MaxBytes

(* What a split the SDK built is worth, before its burn is irreversible:   *)
(* the planned outputs hold exactly what the source holds, and each would  *)
(* be accepted if and only if the source is authentic and has room.  The   *)
(* second half is not looked at by build_split: split, which verifies the  *)
(* source at depth 0 and without the burn, also burns one without room.    *)
BuiltSplitVerifies ==
  pc = "built" =>
    /\ checked => source.authentic
    /\ \A i \in DOMAIN plan.tokens :
         verify_split(plan.tokens[i], plan.burn, plan.burn) <=> source.authentic /\ HasRoom
    /\ \A id \in AssetIds(source.data) :
         Cardinality(PlannedUnits(id)) = Amount(source.data, id)

(* A split of an authentic source that has room, with a supplied mask, is  *)
(* refused before the burn or carried through to the last output, although *)
(* the process may crash between any two steps and hold the requests in    *)
(* another order when it starts over: "a reproducible, crash-resumable     *)
(* burn".                                                                  *)
SplitCompletes ==
  owner = "sdk" /\ mask # None /\ source.authentic /\ HasRoom ~>
    \/ pc = "refused" /\ burn = NoBurn
    \/ \A i \in DOMAIN requests : requests[i].token_id \in DOMAIN minted
=============================================================================
