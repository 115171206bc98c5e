------------------------------ MODULE SealCalls ------------------------------
(***************************************************************************)
(* One `SealSession` (verify/seal.rs) and the callers that share it: the   *)
(* direct verifiers of seals, inclusion proofs and non-inclusion proofs of *)
(* verify/mod.rs, called in any order with any mixture of arguments and    *)
(* policies.  A session belongs to one trust base and remembers two kinds  *)
(* of success in bounded FIFO sets (FifoIndex): complete seals that carry  *)
(* a quorum, and (policy, certificate) pairs whose body and seal passed.   *)
(* SealSession adds the verification of whole tokens.                      *)
(***************************************************************************)
EXTENDS SealVerify

CONSTANTS
  TrustBases,        \* trust bases a session may be opened with
  Seals,             \* unicity seals
  Certificates,      \* unicity certificates
  MembershipCalls,   \* arguments of verify_membership_under and its callers
  AbsenceCalls,      \* arguments of verify_non_inclusion_in
  Capacities,        \* capacities a session may be opened with, 0 for no reuse
  MaxCalls           \* bound: calls in a behaviour

ASSUME SessionAssumption ==
  /\ Capacities \subseteq Nat /\ MaxCalls \in Nat /\ MaxRootNodes \in Nat
  /\ IsFiniteSet(Seals)
  /\ \A uc \in Certificates : uc.unicity_seal \in Seals
  /\ \A c \in MembershipCalls \cup AbsenceCalls : c.uc \in Certificates

(* The digests have domain tags of their own: that of a non-inclusion      *)
(* context is neither zero nor the policy of a view.                       *)
ASSUME PolicyAssumption ==
  \A c \in MembershipCalls, d \in AbsenceCalls : c.policy # d.policy

VARIABLES
  trust_base,  \* the authority of the session
  session,     \* capacity, validated, memo, bodies and stats
  rejected,    \* history: calls that ended at a seal without a quorum
  calls        \* calls made so far

callVars == <<trust_base, session, rejected, calls>>

OpenSession ==
  /\ trust_base \in TrustBases
  /\ \E capacity \in Capacities : session = NewSession(capacity)
  /\ rejected = 0 /\ calls = 0

-----------------------------------------------------------------------------
(* What a direct call returns in session s.                                *)
DirectlyCalled(s, call) ==
  CASE call.op = "membership" -> verify_membership_under(trust_base, Started(s), call.arg)
    [] call.op = "absence"    -> verify_non_inclusion_in(trust_base, Started(s), call.arg)
    [] call.op = "seal"       -> authenticate_seal_under(trust_base, Started(s), call.arg)
    [] call.op = "quorum"     -> verify_quorum_under(trust_base, Started(s), call.arg)

DirectCalls ==
  [op : {"membership"}, arg : MembershipCalls]
    \cup [op : {"absence"}, arg : AbsenceCalls]
    \cup [op : {"seal", "quorum"}, arg : Seals]

(* A call leaves the session of its result.                                *)
Returns(r) ==
  /\ calls < MaxCalls
  /\ calls' = calls + 1
  /\ session' = r.session
  /\ rejected' = rejected + (IF r.verdict = "QuorumNotMet" THEN 1 ELSE 0)
  /\ UNCHANGED trust_base

CallNext == \E call \in DirectCalls : Returns(DirectlyCalled(session, call))

CallSpec == OpenSession /\ [][CallNext]_callVars

-----------------------------------------------------------------------------
(* A direct call is judged as in a session that reuses nothing: no success *)
(* under one policy, certificate or proof serves for another, no failure   *)
(* is remembered, and an eviction changes no verdict.                      *)
WarmIsCold ==
  \A call \in DirectCalls :
    DirectlyCalled(session, call).verdict = DirectlyCalled(NewSession(0), call).verdict

(* In a session with room for every seal, the signatures of an authentic   *)
(* seal are verified once, whatever it is authenticated for: every other   *)
(* check is that of a seal that ended its call.                            *)
OneCheckPerSeal ==
  Cardinality(Seals) <= session.capacity =>
    /\ session.quorum_checks = Len(session.memo) + rejected
    /\ \A i, j \in DOMAIN session.memo : session.memo[i] = session.memo[j] => i = j
=============================================================================
