------------------------------ MODULE SealProofs ------------------------------
(***************************************************************************)
(* Proofs about the authentication of seals (verify/seal.rs): the quorum   *)
(* count of SealQuorum, for every trust base and every list of signature   *)
(* entries, and the memos of a SealSession (SealCalls), for every trust    *)
(* base, every capacity and every set of seals, certificates and calls.    *)
(*                                                                         *)
(* The invariant of the count: the counted keys are exactly the signers    *)
(* among the entries looked at, and there are as many counted ids as keys. *)
(*                                                                         *)
(* The invariant of a session is that its memos are earned: every seal in  *)
(* it carries a quorum, and every remembered certificate passes all the    *)
(* rules of the policy it is remembered under.  Each verifier keeps the    *)
(* memos earned, and in a session whose memos are earned its verdict is    *)
(* that of its rules alone: so a session warmed by any sequence of calls   *)
(* judges as one that remembers nothing.                                   *)
(***************************************************************************)
EXTENDS SealQuorum, SealCalls, SequenceTheorems, FiniteSetTheorems, TLAPS

-----------------------------------------------------------------------------
(* The quorum count.                                                       *)

(* The counted keys are the signers so far, one per counted id.            *)
CountIsExact ==
  /\ counted_keys = SignersUpTo(next - 1)
  /\ \A n \in counted : KeyOf[n] \in counted_keys
  /\ IsFiniteSet(counted) /\ IsFiniteSet(counted_keys)
  /\ Cardinality(counted) = Cardinality(counted_keys)

(* The verdict follows the count.                                          *)
VerdictFollows ==
  /\ verdict = "none" => Cardinality(counted) < Threshold
  /\ verdict = "Ok" => Cardinality(counted) >= Threshold
  /\ verdict = "QuorumNotMet" => Cardinality(counted) < Threshold /\ next > Len(signatures)

CountInv == TypeOK /\ CountIsExact /\ VerdictFollows /\ work.decodes < next

(* The loop starts in the invariant.                                       *)
LEMMA InitEstablishesCountInv == Init => CountInv
<1> SUFFICES ASSUME Init PROVE CountInv
  OBVIOUS
<1>1. PICK n \in 0..MaxEntries : signatures \in [1..n -> Entries]
  BY DEF Init
<1>2. signatures \in Seq(Entries) /\ Len(signatures) = n /\ n \in Nat
  BY <1>1, QuorumAssumption
<1>3. TypeOK
  BY <1>2 DEF Init, TypeOK, Works
<1>4. SignersUpTo(next - 1) = {}
  BY DEF Init, SignersUpTo
<1>5. IsFiniteSet({}) /\ Cardinality({}) = 0
  BY FS_EmptySet
<1> QED
  BY <1>3, <1>4, <1>5, QuorumAssumption DEF Init, CountInv, CountIsExact, VerdictFollows

(* An entry that does not sign leaves the signers as they are.             *)
LEMMA EntryWithoutSigner ==
  ASSUME TypeOK, next <= Len(signatures),
         ~(Entry.node \in Known /\ Entry.signature = KeyOf[Entry.node]
             /\ KeyOf[Entry.node] \notin SignersUpTo(next - 1))
  PROVE  SignersUpTo(next) = SignersUpTo(next - 1)
<1>1. next \in Nat /\ next >= 1
  BY DEF TypeOK
<1>2. 1..next = 1..(next - 1) \cup {next}
  BY <1>1
<1> QED
  BY <1>1, <1>2, QuorumAssumption DEF SignersUpTo, Entry

(* An entry that signs adds its key.                                       *)
LEMMA EntryWithSigner ==
  ASSUME TypeOK, next <= Len(signatures),
         Entry.node \in Known, Entry.signature = KeyOf[Entry.node]
  PROVE  SignersUpTo(next) = SignersUpTo(next - 1) \cup {KeyOf[Entry.node]}
<1>1. next \in Nat /\ next >= 1
  BY DEF TypeOK
<1>2. 1..next = 1..(next - 1) \cup {next}
  BY <1>1
<1> QED
  BY <1>1, <1>2, QuorumAssumption DEF SignersUpTo, Entry

(* An entry that is passed over keeps the invariant.                       *)
LEMMA PassKeepsCountInv ==
  ASSUME CountInv, Running, next' = next + 1,
         UNCHANGED <<signatures, counted, counted_keys, verdict>>,
         work' \in Works, work'.decodes <= work.decodes + 1,
         ~(Eligible /\ Entry.signature = KeyOf[Entry.node])
  PROVE  CountInv'
<1>1. TypeOK /\ CountIsExact /\ VerdictFollows /\ work.decodes < next
  BY DEF CountInv
<1>2. next <= Len(signatures) /\ next \in Nat /\ Len(signatures) \in Nat
  BY <1>1, LenProperties DEF Running, TypeOK
<1>3. SignersUpTo(next) = SignersUpTo(next - 1)
  BY <1>1, <1>2, EntryWithoutSigner DEF Eligible, CountIsExact
<1>4. SignersUpTo(next - 1)' = SignersUpTo(next)
  BY <1>2 DEF SignersUpTo
<1>5. TypeOK'
  BY <1>1, <1>2 DEF TypeOK
<1>6. CountIsExact'
  BY <1>1, <1>3, <1>4 DEF CountIsExact
<1>7. VerdictFollows'
  BY <1>1 DEF VerdictFollows, Running
<1>8. (work.decodes < next)'
  BY <1>1, <1>2 DEF TypeOK, Works
<1> QED BY <1>5, <1>6, <1>7, <1>8 DEF CountInv

(* A counted entry keeps the invariant.                                    *)
LEMMA CountKeepsCountInv == CountInv /\ Count => CountInv'
<1> SUFFICES ASSUME CountInv, Count PROVE CountInv'
  OBVIOUS
<1> DEFINE n == Entry.node
<1>1. TypeOK /\ CountIsExact /\ VerdictFollows /\ work.decodes < next
  BY DEF CountInv
<1>2. next <= Len(signatures) /\ next \in Nat /\ Len(signatures) \in Nat /\ next' = next + 1
  BY <1>1, LenProperties DEF Count, Running, TypeOK
<1>3. /\ n \in Known /\ n \notin counted /\ KeyOf[n] \notin counted_keys
      /\ Entry.signature = KeyOf[n] /\ KeyOf[n] \in Keys
      /\ counted' = counted \cup {n} /\ counted_keys' = counted_keys \cup {KeyOf[n]}
      /\ signatures' = signatures
  BY QuorumAssumption DEF Count, Eligible
<1>4. SignersUpTo(next - 1)' = SignersUpTo(next)
  BY <1>2, <1>3 DEF SignersUpTo
<1>5. SignersUpTo(next) = SignersUpTo(next - 1) \cup {KeyOf[n]}
  BY <1>1, <1>2, <1>3, EntryWithSigner
<1>6. work' \in Works /\ (work.decodes < next)'
  BY <1>1, <1>2 DEF TypeOK, Works, Count
<1>7. TypeOK'
  BY <1>1, <1>2, <1>3, <1>6 DEF TypeOK, Count
<1>8. /\ IsFiniteSet(counted') /\ Cardinality(counted') = Cardinality(counted) + 1
      /\ IsFiniteSet(counted_keys') /\ Cardinality(counted_keys') = Cardinality(counted_keys) + 1
  BY <1>1, <1>3, FS_AddElement DEF CountIsExact
<1>9. CountIsExact'
  BY <1>1, <1>3, <1>4, <1>5, <1>8 DEF CountIsExact
<1>10. VerdictFollows'
  <2>1. Cardinality(counted') \in Nat
    BY <1>8, FS_CardinalityType
  <2> QED BY <2>1, QuorumAssumption DEF VerdictFollows, Count, Reached
<1> QED BY <1>6, <1>7, <1>9, <1>10 DEF CountInv

(* Running out of entries keeps the invariant.                             *)
LEMMA GiveUpKeepsCountInv == CountInv /\ GiveUp => CountInv'
  BY DEF CountInv, GiveUp, TypeOK, CountIsExact, VerdictFollows, SignersUpTo

(* Every step keeps the invariant.                                         *)
LEMMA NextKeepsCountInv == CountInv /\ [Next]_vars => CountInv'
<1> SUFFICES ASSUME CountInv, [Next]_vars PROVE CountInv'
  OBVIOUS
<1>1. work \in Works /\ work.decodes \in Nat
  BY DEF CountInv, TypeOK, Works
<1>2. CASE Skip
  BY <1>1, <1>2, PassKeepsCountInv DEF Skip
<1>3. CASE DecodeFails
  <2>1. work' \in Works /\ work'.decodes <= work.decodes + 1
    BY <1>1, <1>3 DEF DecodeFails, Works
  <2>2. Eligible => KeyOf[Entry.node] \in Keys
    BY QuorumAssumption DEF Eligible
  <2> QED BY <1>3, <2>1, <2>2, PassKeepsCountInv, QuorumAssumption DEF DecodeFails
<1>4. CASE VerifyFails
  <2>1. work' \in Works /\ work'.decodes <= work.decodes + 1
    BY <1>1, <1>4 DEF VerifyFails, Works
  <2> QED BY <1>4, <2>1, PassKeepsCountInv DEF VerifyFails
<1>5. CASE Count
  BY <1>5, CountKeepsCountInv
<1>6. CASE GiveUp
  BY <1>6, GiveUpKeepsCountInv
<1>7. CASE UNCHANGED vars
  BY <1>7 DEF vars, CountInv, TypeOK, CountIsExact, VerdictFollows, SignersUpTo
<1> QED
  BY <1>2, <1>3, <1>4, <1>5, <1>6, <1>7 DEF Next, Done

(* The inductive invariant of the count holds in every state.              *)
THEOREM CountInvariance == Spec => []CountInv
  BY InitEstablishesCountInv, NextKeepsCountInv, PTL DEF Spec

(* Every variable of the count keeps its type.                             *)
THEOREM TypeCorrect == Spec => []TypeOK
<1>1. CountInv => TypeOK
  BY DEF CountInv
<1> QED BY CountInvariance, <1>1, PTL

(* For every trust base and every list of entries, quorum_met_counted      *)
(* accepts iff the number of distinct keys that validly signed reaches the *)
(* threshold: order, repetitions and the early exit do not matter.         *)
THEOREM QuorumDecided == Spec => []VerdictIsQuorum
<1>1. CountInv => VerdictIsQuorum
  <2> SUFFICES ASSUME CountInv PROVE VerdictIsQuorum
    OBVIOUS
  <2>1. next \in Nat /\ next - 1 \in Nat /\ Len(signatures) \in Nat /\ next - 1 <= Len(signatures)
    BY LenProperties DEF CountInv, TypeOK
  <2>2. counted_keys \subseteq Signers /\ Signers \subseteq Keys
    BY <2>1 DEF CountInv, CountIsExact, SignersUpTo, Signers
  <2>3. IsFiniteSet(Signers) /\ Cardinality(counted_keys) <= Cardinality(Signers)
    BY <2>2, QuorumAssumption, FS_Subset
  <2>4. /\ Cardinality(counted_keys) \in Nat /\ Cardinality(Signers) \in Nat
        /\ Cardinality(counted) = Cardinality(counted_keys)
    <3>1. IsFiniteSet(counted_keys) /\ Cardinality(counted) = Cardinality(counted_keys)
      BY DEF CountInv, CountIsExact
    <3> QED BY <2>3, <3>1, FS_CardinalityType
  <2>5. verdict = "QuorumNotMet" => Signers = counted_keys
    <3>1. verdict = "QuorumNotMet" => next - 1 = Len(signatures)
      BY <2>1 DEF CountInv, VerdictFollows
    <3> QED BY <3>1 DEF CountInv, CountIsExact, Signers
  <2>6. VerdictFollows
    BY DEF CountInv
  <2>7. verdict = "Ok" => Cardinality(Signers) >= Threshold
    BY <2>3, <2>4, <2>6, QuorumAssumption DEF VerdictFollows
  <2>8. verdict = "QuorumNotMet" => Cardinality(Signers) < Threshold
    BY <2>4, <2>5, <2>6 DEF VerdictFollows
  <2> QED BY <2>7, <2>8 DEF VerdictIsQuorum
<1> QED BY CountInvariance, <1>1, PTL

(* The loop is over as soon as the entries looked at hold a quorum.        *)
THEOREM EarlyExit == Spec => []StopsAtThreshold
<1>1. CountInv => StopsAtThreshold
  <2> SUFFICES ASSUME CountInv PROVE StopsAtThreshold
    OBVIOUS
  <2>1. /\ Cardinality(counted) = Cardinality(SignersUpTo(next - 1))
        /\ Cardinality(counted) \in Nat
    BY FS_CardinalityType DEF CountInv, CountIsExact
  <2>2. verdict \in {"none", "Ok", "QuorumNotMet"}
    BY DEF CountInv, TypeOK
  <2> QED
    BY <2>1, <2>2, QuorumAssumption DEF CountInv, VerdictFollows, StopsAtThreshold
<1> QED BY CountInvariance, <1>1, PTL

-----------------------------------------------------------------------------
(* The memos of a session.                                                 *)

(* The policies of the verifiers that trust a shard's own certificate, and *)
(* the contexts of the strict one.                                         *)
Lax      == {c.policy : c \in MembershipCalls}
Contexts == {c.policy : c \in AbsenceCalls}

-----------------------------------------------------------------------------
(* The verdicts of the verifiers, without a session.                       *)

Then(v, w) == IF v # "Ok" THEN v ELSE w

RulesVerdict(rules) == IF Passes(rules) THEN "Ok" ELSE FirstError(rules)
TrustVerdict(tb)    == IF validate(tb) THEN "Ok" ELSE "InvalidTrustBase"

QuorumVerdict(tb, seal) ==
  Then(TrustVerdict(tb), IF quorum_met(tb, seal) THEN "Ok" ELSE "QuorumNotMet")

SealVerdict(tb, seal) ==
  Then(Then(TrustVerdict(tb), RulesVerdict(SealRules(tb, seal))), QuorumVerdict(tb, seal))

CertificateVerdict(tb, uc) ==
  Then(RulesVerdict(PartitionRules(uc)),
       Then(RulesVerdict(BodyRules(tb, uc)), QuorumVerdict(tb, uc.unicity_seal)))

StrictVerdict(tb, uc, context) ==
  Then(RulesVerdict(PartitionRules(uc)),
       Then(Then(RulesVerdict(StrictRules(uc, context)), SealVerdict(tb, uc.unicity_seal)),
            RulesVerdict(EndRules(uc, context))))

MembershipVerdict(tb, c) ==
  Then(Then(Then(TrustVerdict(tb), RulesVerdict(MembershipRules(c))),
            CertificateVerdict(tb, c.uc)),
       RulesVerdict(WitnessRules(c)))

AbsenceVerdict(tb, c) ==
  Then(Then(Then(TrustVerdict(tb), RulesVerdict(TargetRules(c))),
            StrictVerdict(tb, c.uc, c.policy)),
       RulesVerdict(AbsenceRules(c)))

-----------------------------------------------------------------------------
(* What a session may remember under trust base tb.                        *)

GoodSeals(tb) == {seal \in Seals : quorum_met(tb, seal)}
GoodBodies(tb) ==
  {b \in [policy : Lax, uc : Certificates] : CertificateVerdict(tb, b.uc) = "Ok"}
    \cup {b \in [policy : Contexts, uc : Certificates] : StrictVerdict(tb, b.uc, b.policy) = "Ok"}

(* The sessions whose memos are earned.                                    *)
Earned(tb) ==
  {s \in [capacity : Nat, validated : BOOLEAN, memo : Seq(GoodSeals(tb)),
          bodies : Seq(GoodBodies(tb)), quorum_checks : Nat] :
     s.validated => validate(tb)}

(* A result with verdict v, in a session whose memos are earned.           *)
Result(tb, r, v) ==
  \E s \in Earned(tb) : r = [verdict |-> v, session |-> s]

(* The signature work between session s and result r: none, the check of a *)
(* new seal that is then remembered, or a check that ends the call.        *)
Worked(s, r) ==
  /\ r.session.capacity = s.capacity
  /\ \/ /\ r.session.memo = s.memo /\ r.session.quorum_checks = s.quorum_checks
        /\ r.verdict # "QuorumNotMet"
     \/ /\ r.session.quorum_checks = s.quorum_checks + 1
        /\ \E seal \in Seals : /\ ~Holds(s.memo, seal)
                              /\ r.session.memo = Remember(s.capacity, s.memo, seal)
        /\ r.verdict # "QuorumNotMet"
     \/ /\ r.session.quorum_checks = s.quorum_checks + 1 /\ r.session.memo = s.memo
        /\ r.verdict = "QuorumNotMet"

(* Nothing of the signature work is done.                                  *)
Idle(s, r) ==
  /\ r.session.capacity = s.capacity /\ r.session.memo = s.memo
  /\ r.session.quorum_checks = s.quorum_checks

-----------------------------------------------------------------------------
(* A bounded memo of elements of S stays one.                              *)
LEMMA RememberKeeps ==
  ASSUME NEW S, NEW memo \in Seq(S), NEW x \in S, NEW capacity \in Nat
  PROVE  /\ Remember(capacity, memo, x) \in Seq(S)
         /\ Len(memo) < capacity => Remember(capacity, memo, x) = Append(memo, x)
<1>1. CASE capacity = 0
  BY <1>1 DEF Remember
<1>2. CASE capacity # 0 /\ Len(memo) = capacity
  <2>1. memo # <<>>
    BY <1>2
  <2>2. Tail(memo) \in Seq(S)
    BY <2>1, HeadTailProperties
  <2> QED BY <1>2, <2>2, AppendProperties DEF Remember
<1>3. CASE capacity # 0 /\ Len(memo) # capacity
  BY <1>3, AppendProperties DEF Remember
<1> QED BY <1>1, <1>2, <1>3

(* An element found in a memo of elements of S is one of them.             *)
LEMMA HeldIsGood ==
  ASSUME NEW S, NEW memo \in Seq(S), NEW x, Holds(memo, x)
  PROVE  x \in S
  BY DEF Holds

(* A list of up to seven rules has a first one that fails, and reports its *)
(* error.                                                                  *)
LEMMA RulesReport ==
  ASSUME NEW rules, NEW n \in 0..7, DOMAIN rules = 1..n,
         \A i \in 1..n : rules[i].error # "QuorumNotMet"
  PROVE  RulesVerdict(rules) # "QuorumNotMet"
<1>1. CASE Passes(rules)
  BY <1>1 DEF RulesVerdict
<1>2. CASE ~Passes(rules)
  <2> DEFINE First(i) == ~rules[i].holds /\ \A j \in DOMAIN rules : j < i => rules[j].holds
             f == CHOOSE i \in DOMAIN rules : First(i)
  <2>1. \E i \in DOMAIN rules : First(i)
    BY <1>2 DEF Passes
  <2>2. f \in DOMAIN rules
    BY <2>1
  <2>3. RulesVerdict(rules) = rules[f].error
    BY <1>2 DEF RulesVerdict, FirstError
  <2> QED BY <2>2, <2>3
<1> QED BY <1>1, <1>2

(* No rule reports that the quorum is missing.                             *)
LEMMA RuleVerdicts ==
  ASSUME NEW tb, NEW seal, NEW uc, NEW context, NEW c
  PROVE  /\ TrustVerdict(tb) # "QuorumNotMet"
         /\ RulesVerdict(SealRules(tb, seal)) # "QuorumNotMet"
         /\ RulesVerdict(PartitionRules(uc)) # "QuorumNotMet"
         /\ RulesVerdict(BodyRules(tb, uc)) # "QuorumNotMet"
         /\ RulesVerdict(StrictRules(uc, context)) # "QuorumNotMet"
         /\ RulesVerdict(EndRules(uc, context)) # "QuorumNotMet"
         /\ RulesVerdict(MembershipRules(c)) # "QuorumNotMet"
         /\ RulesVerdict(WitnessRules(c)) # "QuorumNotMet"
         /\ RulesVerdict(TargetRules(c)) # "QuorumNotMet"
         /\ RulesVerdict(AbsenceRules(c)) # "QuorumNotMet"
<1>0. TrustVerdict(tb) # "QuorumNotMet"
  BY DEF TrustVerdict
<1>1. RulesVerdict(SealRules(tb, seal)) # "QuorumNotMet"
  <2>1. DOMAIN SealRules(tb, seal) = 1..5 /\ \A i \in 1..5 : SealRules(tb, seal)[i].error # "QuorumNotMet"
    BY DEF SealRules, Rule
  <2> QED BY <2>1, RulesReport
<1>2. RulesVerdict(PartitionRules(uc)) # "QuorumNotMet"
  <2>1. DOMAIN PartitionRules(uc) = 1..1 /\ \A i \in 1..1 : PartitionRules(uc)[i].error # "QuorumNotMet"
    BY DEF PartitionRules, Rule
  <2> QED BY <2>1, RulesReport
<1>3. RulesVerdict(BodyRules(tb, uc)) # "QuorumNotMet"
  <2>1. DOMAIN BodyRules(tb, uc) = 1..4 /\ \A i \in 1..4 : BodyRules(tb, uc)[i].error # "QuorumNotMet"
    BY DEF BodyRules, Rule
  <2> QED BY <2>1, RulesReport
<1>4. RulesVerdict(StrictRules(uc, context)) # "QuorumNotMet"
  <2>1. DOMAIN StrictRules(uc, context) = 1..5 /\ \A i \in 1..5 : StrictRules(uc, context)[i].error # "QuorumNotMet"
    BY DEF StrictRules, Rule
  <2> QED BY <2>1, RulesReport
<1>5. RulesVerdict(EndRules(uc, context)) # "QuorumNotMet"
  <2>1. DOMAIN EndRules(uc, context) = 1..1 /\ \A i \in 1..1 : EndRules(uc, context)[i].error # "QuorumNotMet"
    BY DEF EndRules, Rule
  <2> QED BY <2>1, RulesReport
<1>6. RulesVerdict(MembershipRules(c)) # "QuorumNotMet"
  <2>1. DOMAIN MembershipRules(c) = 1..7 /\ \A i \in 1..7 : MembershipRules(c)[i].error # "QuorumNotMet"
    BY DEF MembershipRules, Rule
  <2> QED BY <2>1, RulesReport
<1>7. RulesVerdict(WitnessRules(c)) # "QuorumNotMet"
  <2>1. DOMAIN WitnessRules(c) = 1..1 /\ \A i \in 1..1 : WitnessRules(c)[i].error # "QuorumNotMet"
    BY DEF WitnessRules, Rule
  <2> QED BY <2>1, RulesReport
<1>8. RulesVerdict(TargetRules(c)) # "QuorumNotMet"
  <2>1. DOMAIN TargetRules(c) = 1..1 /\ \A i \in 1..1 : TargetRules(c)[i].error # "QuorumNotMet"
    BY DEF TargetRules, Rule
  <2> QED BY <2>1, RulesReport
<1>9. RulesVerdict(AbsenceRules(c)) # "QuorumNotMet"
  <2>1. DOMAIN AbsenceRules(c) = 1..2 /\ \A i \in 1..2 : AbsenceRules(c)[i].error # "QuorumNotMet"
    BY DEF AbsenceRules, Rule
  <2> QED BY <2>1, RulesReport
<1> QED BY <1>0, <1>1, <1>2, <1>3, <1>4, <1>5, <1>6, <1>7, <1>8, <1>9

(* A list of rules decides a result that has not failed.                   *)
LEMMA CheckVerdict ==
  ASSUME NEW tb, NEW v, NEW r, NEW rules, Result(tb, r, v)
  PROVE  /\ Result(tb, Check(r, rules), Then(v, RulesVerdict(rules)))
         /\ Check(r, rules).session = r.session
<1>1. PICK s \in Earned(tb) : r = [verdict |-> v, session |-> s]
  BY DEF Result
<1>2. CASE v # "Ok" \/ Passes(rules)
  <2>1. Check(r, rules) = r /\ Then(v, RulesVerdict(rules)) = v
    BY <1>1, <1>2 DEF Check, Failed, Then, RulesVerdict
  <2> QED BY <2>1
<1>3. CASE v = "Ok" /\ ~Passes(rules)
  <2>1. Check(r, rules) = [verdict |-> FirstError(rules), session |-> s]
    BY <1>1, <1>3 DEF Check, Failed, Fail
  <2>2. Then(v, RulesVerdict(rules)) = FirstError(rules)
    BY <1>3 DEF Then, RulesVerdict
  <2> QED BY <1>1, <2>1, <2>2 DEF Result
<1> QED BY <1>2, <1>3

(* ensure_trust_base.                                                      *)
LEMMA TrustBaseVerdict ==
  ASSUME NEW tb, NEW v, NEW r, Result(tb, r, v)
  PROVE  /\ Result(tb, ensure_trust_base(tb, r), Then(v, TrustVerdict(tb)))
         /\ Idle(r.session, ensure_trust_base(tb, r))
<1>1. PICK s \in Earned(tb) : r = [verdict |-> v, session |-> s]
  BY DEF Result
<1>2. CASE v # "Ok" \/ s.validated
  <2>1. ensure_trust_base(tb, r) = r
    BY <1>1, <1>2 DEF ensure_trust_base, Failed
  <2>2. Then(v, TrustVerdict(tb)) = v
    BY <1>1, <1>2 DEF Then, TrustVerdict, Earned
  <2> QED BY <2>1, <2>2 DEF Idle
<1>3. CASE v = "Ok" /\ ~s.validated /\ validate(tb)
  <2> DEFINE new == [s EXCEPT !.validated = TRUE]
  <2>1. ensure_trust_base(tb, r) = [verdict |-> v, session |-> new]
    BY <1>1, <1>3 DEF ensure_trust_base, Failed
  <2>2. Then(v, TrustVerdict(tb)) = v
    BY <1>3 DEF Then, TrustVerdict
  <2>3. new \in Earned(tb)
    BY <1>1, <1>3 DEF Earned
  <2>4. Idle(r.session, ensure_trust_base(tb, r))
    BY <1>1, <2>1 DEF Idle, Earned
  <2> HIDE DEF new
  <2> QED BY <2>1, <2>2, <2>3, <2>4 DEF Result
<1>4. CASE v = "Ok" /\ ~s.validated /\ ~validate(tb)
  <2>1. ensure_trust_base(tb, r) = [verdict |-> "InvalidTrustBase", session |-> s]
    BY <1>1, <1>4 DEF ensure_trust_base, Failed, Fail
  <2>2. Then(v, TrustVerdict(tb)) = "InvalidTrustBase"
    BY <1>4 DEF Then, TrustVerdict
  <2>3. Idle(r.session, ensure_trust_base(tb, r))
    BY <1>1, <2>1 DEF Idle
  <2> QED BY <1>1, <2>1, <2>2, <2>3 DEF Result
<1> QED BY <1>2, <1>3, <1>4

-----------------------------------------------------------------------------
(* How the signature work of a call composes: it may follow or precede     *)
(* steps that do none.                                                     *)
LEMMA IdleThenWorked ==
  ASSUME NEW s, NEW a, NEW b, Idle(s, a), Worked(a.session, b)
  PROVE  Worked(s, b)
  BY DEF Idle, Worked

LEMMA WorkedThenIdle ==
  ASSUME NEW s, NEW a, NEW b, Worked(s, a), Idle(a.session, b),
         a.verdict = "QuorumNotMet" <=> b.verdict = "QuorumNotMet"
  PROVE  Worked(s, b)
  BY DEF Idle, Worked

LEMMA IdleWorked ==
  ASSUME NEW s, NEW a, Idle(s, a), a.verdict # "QuorumNotMet"
  PROVE  Worked(s, a)
  BY DEF Idle, Worked

(* The verdict of a result is the one it is said to have.                  *)
LEMMA ResultParts ==
  ASSUME NEW tb, NEW v, NEW r, Result(tb, r, v)
  PROVE  r.verdict = v /\ r.session \in Earned(tb) /\ r = [verdict |-> v, session |-> r.session]
<1>1. PICK s \in Earned(tb) : r = [verdict |-> v, session |-> s]
  BY DEF Result
<1> QED BY <1>1

(* check_quorum of a seal that is not remembered.                          *)
LEMMA CheckQuorumVerdict ==
  ASSUME NEW tb, NEW s \in Earned(tb), NEW seal \in Seals,
         ~Remembered(s, seal), NEW r, r = [verdict |-> "Ok", session |-> s]
  PROVE  /\ Result(tb, check_quorum(tb, r, seal),
                   IF quorum_met(tb, seal) THEN "Ok" ELSE "QuorumNotMet")
         /\ Worked(s, check_quorum(tb, r, seal))
<1> DEFINE m == Remember(s.capacity, s.memo, seal)
           n == s.quorum_checks + 1
           c == [s EXCEPT !.quorum_checks = n]
<1>1. s.capacity \in Nat /\ s.memo \in Seq(GoodSeals(tb)) /\ n \in Nat
  BY DEF Earned
<1>2. c \in Earned(tb)
  BY <1>1 DEF Earned
<1>3. c.capacity = s.capacity /\ c.memo = s.memo /\ c.quorum_checks = n
  BY DEF Earned
<1>4. CASE quorum_met(tb, seal)
  <2> DEFINE d == [c EXCEPT !.memo = m]
  <2>1. m \in Seq(GoodSeals(tb)) /\ (Len(s.memo) < s.capacity => m = Append(s.memo, seal))
    <3>1. seal \in GoodSeals(tb)
      BY <1>4 DEF GoodSeals
    <3> QED BY <1>1, <3>1, RememberKeeps
  <2>2. d \in Earned(tb) /\ d.capacity = s.capacity /\ d.memo = m /\ d.quorum_checks = n
    <3> HIDE DEF c, m, n
    <3> QED BY <1>2, <1>3, <2>1 DEF Earned
  <2>3. check_quorum(tb, r, seal) = [verdict |-> "Ok", session |-> d]
    BY <1>4 DEF check_quorum, Earned
  <2>4. ~Holds(s.memo, seal)
    BY DEF Remembered
  <2> HIDE DEF d, m
  <2>5. Result(tb, check_quorum(tb, r, seal), "Ok")
    BY <2>2, <2>3 DEF Result
  <2>6. Worked(s, check_quorum(tb, r, seal))
    BY <2>2, <2>3, <2>4 DEF Worked, m
  <2> QED BY <1>4, <2>5, <2>6
<1>5. CASE ~quorum_met(tb, seal)
  <2>1. check_quorum(tb, r, seal) = [verdict |-> "QuorumNotMet", session |-> c]
    BY <1>5 DEF check_quorum
  <2> HIDE DEF c
  <2>2. Result(tb, check_quorum(tb, r, seal), "QuorumNotMet")
    BY <1>2, <2>1 DEF Result
  <2>3. Worked(s, check_quorum(tb, r, seal))
    BY <1>3, <2>1 DEF Worked
  <2> QED BY <1>5, <2>2, <2>3
<1> QED BY <1>4, <1>5

(* verify_quorum_under: a remembered seal is one that carries a quorum.    *)
LEMMA QuorumUnderVerdict ==
  ASSUME NEW tb, NEW v, NEW r0, Result(tb, r0, v),
         v # "QuorumNotMet", NEW seal \in Seals
  PROVE  /\ Result(tb, verify_quorum_under(tb, r0, seal), Then(v, QuorumVerdict(tb, seal)))
         /\ Worked(r0.session, verify_quorum_under(tb, r0, seal))
<1> DEFINE r == ensure_trust_base(tb, r0)
           w == Then(v, TrustVerdict(tb))
           q == IF quorum_met(tb, seal) THEN "Ok" ELSE "QuorumNotMet"
<1>1. Result(tb, r, w) /\ Idle(r0.session, r)
  BY TrustBaseVerdict
<1>2. r.verdict = w /\ r.session \in Earned(tb) /\ r = [verdict |-> w, session |-> r.session]
  BY <1>1, ResultParts
<1>3. Then(v, QuorumVerdict(tb, seal)) = Then(w, q) /\ w # "QuorumNotMet"
  BY RuleVerdicts DEF Then, QuorumVerdict
<1> HIDE DEF r, w, q
<1>4. verify_quorum_under(tb, r0, seal) =
        IF w # "Ok" THEN r ELSE IF Remembered(r.session, seal) THEN r ELSE check_quorum(tb, r, seal)
  BY <1>2 DEF verify_quorum_under, r, Failed
<1>5. CASE w # "Ok"
  <2>1. Then(w, q) = w
    BY <1>5 DEF Then
  <2> QED BY <1>1, <1>2, <1>3, <1>4, <1>5, <2>1, IdleWorked
<1>6. CASE w = "Ok" /\ Remembered(r.session, seal)
  <2>1. r.session.memo \in Seq(GoodSeals(tb))
    BY <1>2 DEF Earned
  <2>2. seal \in GoodSeals(tb)
    BY <1>6, <2>1, HeldIsGood DEF Remembered
  <2>3. Then(w, q) = w
    BY <1>6, <2>2 DEF Then, q, GoodSeals
  <2> QED BY <1>1, <1>2, <1>3, <1>4, <1>6, <2>3, IdleWorked
<1>7. CASE w = "Ok" /\ ~Remembered(r.session, seal)
  <2>1. r = [verdict |-> "Ok", session |-> r.session]
    BY <1>2, <1>7
  <2>2. /\ Result(tb, check_quorum(tb, r, seal), q)
        /\ Worked(r.session, check_quorum(tb, r, seal))
    BY <1>2, <1>7, <2>1, CheckQuorumVerdict DEF q
  <2>3. Then(w, q) = q
    BY <1>7 DEF Then
  <2> QED BY <1>1, <1>3, <1>4, <1>7, <2>2, <2>3, IdleThenWorked
<1> QED BY <1>5, <1>6, <1>7

(* authenticate_seal_under.                                                *)
LEMMA SealUnderVerdict ==
  ASSUME NEW tb, NEW v, NEW r, Result(tb, r, v),
         v # "QuorumNotMet", NEW seal \in Seals
  PROVE  /\ Result(tb, authenticate_seal_under(tb, r, seal), Then(v, SealVerdict(tb, seal)))
         /\ Worked(r.session, authenticate_seal_under(tb, r, seal))
<1> DEFINE a == ensure_trust_base(tb, r)
           b == Check(a, SealRules(tb, seal))
           x == Then(v, TrustVerdict(tb))
           y == Then(x, RulesVerdict(SealRules(tb, seal)))
<1>0. x # "QuorumNotMet" /\ y # "QuorumNotMet"
  BY RuleVerdicts DEF Then
<1>1. Result(tb, a, x) /\ Idle(r.session, a)
  BY TrustBaseVerdict
<1> HIDE DEF a, x
<1>2. Result(tb, b, y) /\ b.session = a.session
  BY <1>1, CheckVerdict
<1> HIDE DEF b, y
<1>3. /\ Result(tb, verify_quorum_under(tb, b, seal), Then(y, QuorumVerdict(tb, seal)))
      /\ Worked(b.session, verify_quorum_under(tb, b, seal))
  BY <1>0, <1>2, QuorumUnderVerdict
<1>4. Worked(r.session, verify_quorum_under(tb, b, seal))
  BY <1>1, <1>2, <1>3, IdleThenWorked
<1>5. Then(v, SealVerdict(tb, seal)) = Then(y, QuorumVerdict(tb, seal))
  BY DEF Then, SealVerdict, x, y
<1>6. authenticate_seal_under(tb, r, seal) = verify_quorum_under(tb, b, seal)
  BY DEF authenticate_seal_under, a, b
<1> QED BY <1>3, <1>4, <1>5, <1>6

-----------------------------------------------------------------------------
(* remember_body of a certificate that has earned its place.               *)
LEMMA RememberBodyVerdict ==
  ASSUME NEW tb, NEW v, NEW r, Result(tb, r, v), NEW policy, NEW uc,
         v = "Ok" => [policy |-> policy, uc |-> uc] \in GoodBodies(tb)
  PROVE  /\ Result(tb, remember_body(r, policy, uc), v)
         /\ Idle(r.session, remember_body(r, policy, uc))
<1>1. PICK s \in Earned(tb) : r = [verdict |-> v, session |-> s]
  BY DEF Result
<1>2. CASE v # "Ok"
  <2>1. remember_body(r, policy, uc) = r
    BY <1>1, <1>2 DEF remember_body, Failed
  <2> QED BY <2>1 DEF Idle
<1>3. CASE v = "Ok"
  <2> DEFINE body == [policy |-> policy, uc |-> uc]
             m == Remember(s.capacity, s.bodies, body)
             new == [s EXCEPT !.bodies = m]
  <2>1. remember_body(r, policy, uc) = [verdict |-> v, session |-> new]
    BY <1>1, <1>3 DEF remember_body, Failed, Earned
  <2>2. s.capacity \in Nat /\ s.bodies \in Seq(GoodBodies(tb))
    BY DEF Earned
  <2>3. m \in Seq(GoodBodies(tb))
    <3> body \in GoodBodies(tb)
      BY <1>3
    <3> HIDE DEF body
    <3> QED BY <2>2, RememberKeeps
  <2> HIDE DEF m
  <2>4. /\ new \in Earned(tb) /\ new.capacity = s.capacity /\ new.memo = s.memo
        /\ new.quorum_checks = s.quorum_checks
    BY <2>3 DEF Earned
  <2> HIDE DEF new
  <2> QED BY <1>1, <2>1, <2>4 DEF Result, Idle
<1> QED BY <1>2, <1>3

(* verify_unicity_certificate: a certificate remembered under a policy of  *)
(* these verifiers is one that they have accepted.                         *)
LEMMA CertificateUnderVerdict ==
  ASSUME NEW tb, NEW v, NEW r0, Result(tb, r0, v),
         v # "QuorumNotMet", NEW policy \in Lax, NEW uc \in Certificates
  PROVE  /\ Result(tb, verify_unicity_certificate(tb, r0, uc, policy),
                   Then(v, CertificateVerdict(tb, uc)))
         /\ Worked(r0.session, verify_unicity_certificate(tb, r0, uc, policy))
<1> DEFINE r == Check(r0, PartitionRules(uc))
           w == Then(v, RulesVerdict(PartitionRules(uc)))
           b == Check(r, BodyRules(tb, uc))
           x == Then(w, RulesVerdict(BodyRules(tb, uc)))
           q == verify_quorum_under(tb, b, uc.unicity_seal)
           y == Then(x, QuorumVerdict(tb, uc.unicity_seal))
           m == remember_body(q, policy, uc)
<1>1. uc.unicity_seal \in Seals
  BY SessionAssumption
<1>2. Result(tb, r, w) /\ r.session = r0.session
  BY CheckVerdict
<1>0. w # "QuorumNotMet" /\ x # "QuorumNotMet"
  BY RuleVerdicts DEF Then
<1>3. Then(v, CertificateVerdict(tb, uc)) = y
  BY DEF Then, CertificateVerdict
<1>4. w = "Ok" /\ y = "Ok" => CertificateVerdict(tb, uc) = "Ok"
  BY DEF Then, CertificateVerdict
<1>5. w # "Ok" => y = w
  BY DEF Then
<1>6. w = "Ok" /\ CertificateVerdict(tb, uc) = "Ok" => y = "Ok"
  BY DEF Then, CertificateVerdict
<1> HIDE DEF r, w
<1>7. r.verdict = w /\ r.session \in Earned(tb)
  BY <1>2, ResultParts
<1>8. verify_unicity_certificate(tb, r0, uc, policy) =
        IF w # "Ok" THEN r ELSE IF body_verified(r.session, policy, uc) THEN r ELSE m
  BY <1>7 DEF verify_unicity_certificate, Failed, r
<1>9. Worked(r0.session, r)
  BY <1>0, <1>2, <1>7, IdleWorked DEF Idle
<1>10. CASE w # "Ok"
  BY <1>2, <1>3, <1>5, <1>8, <1>9, <1>10
<1>11. CASE w = "Ok" /\ body_verified(r.session, policy, uc)
  <2>1. r.session.bodies \in Seq(GoodBodies(tb))
    BY <1>7 DEF Earned
  <2>2. [policy |-> policy, uc |-> uc] \in GoodBodies(tb)
    BY <1>11, <2>1, HeldIsGood DEF body_verified
  <2>3. policy \notin Contexts
    BY PolicyAssumption DEF Lax, Contexts
  <2>4. CertificateVerdict(tb, uc) = "Ok"
    BY <2>2, <2>3 DEF GoodBodies
  <2> HIDE DEF y
  <2>5. y = w
    BY <1>6, <1>11, <2>4
  <2> QED BY <1>2, <1>3, <1>8, <1>9, <1>11, <2>5
<1>12. CASE w = "Ok" /\ ~body_verified(r.session, policy, uc)
  <2>1. Result(tb, b, x) /\ b.session = r.session
    BY <1>2, CheckVerdict
  <2> HIDE DEF b, x
  <2>2. Result(tb, q, y) /\ Worked(b.session, q)
    BY <1>0, <1>1, <2>1, QuorumUnderVerdict
  <2> HIDE DEF q, y
  <2>3. y = "Ok" => [policy |-> policy, uc |-> uc] \in GoodBodies(tb)
    BY <1>4, <1>12 DEF GoodBodies
  <2>4. Result(tb, m, y) /\ Idle(q.session, m)
    BY <2>2, <2>3, RememberBodyVerdict
  <2> HIDE DEF m
  <2>5. q.verdict = y /\ m.verdict = y
    BY <2>2, <2>4, ResultParts
  <2>6. Worked(b.session, m)
    BY <2>2, <2>4, <2>5, WorkedThenIdle
  <2> QED BY <1>2, <1>3, <1>8, <1>12, <2>1, <2>4, <2>6
<1> QED BY <1>10, <1>11, <1>12

(* verify_unicity_certificate_strict: what a certificate is remembered     *)
(* under is the context it was accepted in.                                *)
LEMMA StrictUnderVerdict ==
  ASSUME NEW tb, NEW v, NEW r0, Result(tb, r0, v),
         v # "QuorumNotMet", NEW context \in Contexts, NEW uc \in Certificates
  PROVE  /\ Result(tb, verify_unicity_certificate_strict(tb, r0, uc, context),
                   Then(v, StrictVerdict(tb, uc, context)))
         /\ Worked(r0.session, verify_unicity_certificate_strict(tb, r0, uc, context))
<1> DEFINE r == Check(r0, PartitionRules(uc))
           w == Then(v, RulesVerdict(PartitionRules(uc)))
           b == Check(r, StrictRules(uc, context))
           x == Then(w, RulesVerdict(StrictRules(uc, context)))
           q == authenticate_seal_under(tb, b, uc.unicity_seal)
           y == Then(x, SealVerdict(tb, uc.unicity_seal))
           e == Check(q, EndRules(uc, context))
           z == Then(y, RulesVerdict(EndRules(uc, context)))
           m == remember_body(e, context, uc)
<1>1. uc.unicity_seal \in Seals
  BY SessionAssumption
<1>2. Result(tb, r, w) /\ r.session = r0.session
  BY CheckVerdict
<1>0. w # "QuorumNotMet" /\ x # "QuorumNotMet"
  BY RuleVerdicts DEF Then
<1>3. Then(v, StrictVerdict(tb, uc, context)) = z
  BY DEF Then, StrictVerdict
<1>4. w = "Ok" /\ z = "Ok" => StrictVerdict(tb, uc, context) = "Ok"
  BY DEF Then, StrictVerdict
<1>5. w # "Ok" => z = w
  BY DEF Then
<1>6. w = "Ok" /\ StrictVerdict(tb, uc, context) = "Ok" => z = "Ok"
  BY DEF Then, StrictVerdict
<1> HIDE DEF r, w
<1>7. r.verdict = w /\ r.session \in Earned(tb)
  BY <1>2, ResultParts
<1>8. verify_unicity_certificate_strict(tb, r0, uc, context) =
        IF w # "Ok" THEN r ELSE IF body_verified(r.session, context, uc) THEN r ELSE m
  BY <1>7 DEF verify_unicity_certificate_strict, Failed, r
<1>9. Worked(r0.session, r)
  BY <1>0, <1>2, <1>7, IdleWorked DEF Idle
<1>10. CASE w # "Ok"
  BY <1>2, <1>3, <1>5, <1>8, <1>9, <1>10
<1>11. CASE w = "Ok" /\ body_verified(r.session, context, uc)
  <2>1. r.session.bodies \in Seq(GoodBodies(tb))
    BY <1>7 DEF Earned
  <2>2. [policy |-> context, uc |-> uc] \in GoodBodies(tb)
    BY <1>11, <2>1, HeldIsGood DEF body_verified
  <2>3. context \notin Lax
    BY PolicyAssumption DEF Lax, Contexts
  <2>4. StrictVerdict(tb, uc, context) = "Ok"
    BY <2>2, <2>3 DEF GoodBodies
  <2> HIDE DEF z
  <2>5. z = w
    BY <1>6, <1>11, <2>4
  <2> QED BY <1>2, <1>3, <1>8, <1>9, <1>11, <2>5
<1>12. CASE w = "Ok" /\ ~body_verified(r.session, context, uc)
  <2>1. Result(tb, b, x) /\ b.session = r.session
    BY <1>2, CheckVerdict
  <2> HIDE DEF b, x
  <2>2. Result(tb, q, y) /\ Worked(b.session, q)
    BY <1>0, <1>1, <2>1, SealUnderVerdict
  <2>3. y = "QuorumNotMet" <=> z = "QuorumNotMet"
    BY RuleVerdicts DEF Then
  <2> HIDE DEF q, y
  <2>4. Result(tb, e, z) /\ e.session = q.session
    BY <2>2, CheckVerdict
  <2> HIDE DEF e, z
  <2>5. z = "Ok" => [policy |-> context, uc |-> uc] \in GoodBodies(tb)
    BY <1>4, <1>12 DEF GoodBodies
  <2>6. Result(tb, m, z) /\ Idle(e.session, m)
    BY <2>4, <2>5, RememberBodyVerdict
  <2> HIDE DEF m
  <2>7. q.verdict = y /\ m.verdict = z
    BY <2>2, <2>6, ResultParts
  <2>8. Worked(b.session, m)
    BY <2>2, <2>3, <2>4, <2>6, <2>7, WorkedThenIdle
  <2> QED BY <1>2, <1>3, <1>8, <1>12, <2>1, <2>6, <2>8
<1> QED BY <1>10, <1>11, <1>12

-----------------------------------------------------------------------------
(* verify_membership_under and its callers.                                *)
LEMMA MembershipUnderVerdict ==
  ASSUME NEW tb, NEW s \in Earned(tb),
         NEW c, c.policy \in Lax, c.uc \in Certificates
  PROVE  /\ Result(tb, verify_membership_under(tb, Started(s), c), MembershipVerdict(tb, c))
         /\ Worked(s, verify_membership_under(tb, Started(s), c))
<1> DEFINE r == Started(s)
           a == ensure_trust_base(tb, r)
           x == Then("Ok", TrustVerdict(tb))
           b == Check(a, MembershipRules(c))
           y == Then(x, RulesVerdict(MembershipRules(c)))
           q == verify_unicity_certificate(tb, b, c.uc, c.policy)
           z == Then(y, CertificateVerdict(tb, c.uc))
           e == Check(q, WitnessRules(c))
           w == Then(z, RulesVerdict(WitnessRules(c)))
<1>1. Result(tb, r, "Ok") /\ r.session = s
  BY DEF Result, Started
<1>2. w = MembershipVerdict(tb, c)
  BY DEF Then, MembershipVerdict
<1>3. (z = "QuorumNotMet" <=> w = "QuorumNotMet") /\ y # "QuorumNotMet"
  BY RuleVerdicts DEF Then
<1>4. e = verify_membership_under(tb, Started(s), c)
  BY DEF verify_membership_under
<1> HIDE DEF r
<1>5. Result(tb, a, x) /\ Idle(s, a)
  BY <1>1, TrustBaseVerdict
<1> HIDE DEF a, x
<1>6. Result(tb, b, y) /\ b.session = a.session
  BY <1>5, CheckVerdict
<1> HIDE DEF b, y
<1>7. Result(tb, q, z) /\ Worked(b.session, q)
  BY <1>3, <1>6, CertificateUnderVerdict
<1> HIDE DEF q, z
<1>8. Result(tb, e, w) /\ e.session = q.session
  BY <1>7, CheckVerdict
<1> HIDE DEF e, w
<1>9. q.verdict = z /\ e.verdict = w
  BY <1>7, <1>8, ResultParts
<1>10. Idle(q.session, e)
  BY <1>8 DEF Idle
<1>11. Worked(s, q)
  BY <1>5, <1>6, <1>7, IdleThenWorked
<1>12. Worked(s, e)
  BY <1>3, <1>9, <1>10, <1>11, WorkedThenIdle
<1> QED BY <1>2, <1>4, <1>8, <1>12

(* verify_non_inclusion_in.                                                *)
LEMMA AbsenceUnderVerdict ==
  ASSUME NEW tb, NEW s \in Earned(tb),
         NEW c, c.policy \in Contexts, c.uc \in Certificates
  PROVE  /\ Result(tb, verify_non_inclusion_in(tb, Started(s), c), AbsenceVerdict(tb, c))
         /\ Worked(s, verify_non_inclusion_in(tb, Started(s), c))
<1> DEFINE r == Started(s)
           a == ensure_trust_base(tb, r)
           x == Then("Ok", TrustVerdict(tb))
           b == Check(a, TargetRules(c))
           y == Then(x, RulesVerdict(TargetRules(c)))
           q == verify_unicity_certificate_strict(tb, b, c.uc, c.policy)
           z == Then(y, StrictVerdict(tb, c.uc, c.policy))
           e == Check(q, AbsenceRules(c))
           w == Then(z, RulesVerdict(AbsenceRules(c)))
<1>1. Result(tb, r, "Ok") /\ r.session = s
  BY DEF Result, Started
<1>2. w = AbsenceVerdict(tb, c)
  BY DEF Then, AbsenceVerdict
<1>3. (z = "QuorumNotMet" <=> w = "QuorumNotMet") /\ y # "QuorumNotMet"
  BY RuleVerdicts DEF Then
<1>4. e = verify_non_inclusion_in(tb, Started(s), c)
  BY DEF verify_non_inclusion_in
<1> HIDE DEF r
<1>5. Result(tb, a, x) /\ Idle(s, a)
  BY <1>1, TrustBaseVerdict
<1> HIDE DEF a, x
<1>6. Result(tb, b, y) /\ b.session = a.session
  BY <1>5, CheckVerdict
<1> HIDE DEF b, y
<1>7. Result(tb, q, z) /\ Worked(b.session, q)
  BY <1>3, <1>6, StrictUnderVerdict
<1> HIDE DEF q, z
<1>8. Result(tb, e, w) /\ e.session = q.session
  BY <1>7, CheckVerdict
<1> HIDE DEF e, w
<1>9. q.verdict = z /\ e.verdict = w
  BY <1>7, <1>8, ResultParts
<1>10. Idle(q.session, e)
  BY <1>8 DEF Idle
<1>11. Worked(s, q)
  BY <1>5, <1>6, <1>7, IdleThenWorked
<1>12. Worked(s, e)
  BY <1>3, <1>9, <1>10, <1>11, WorkedThenIdle
<1> QED BY <1>2, <1>4, <1>8, <1>12

-----------------------------------------------------------------------------
(* The verdict of a direct call, without a session.                        *)
CallVerdict(tb, call) ==
  CASE call.op = "membership" -> MembershipVerdict(tb, call.arg)
    [] call.op = "absence"    -> AbsenceVerdict(tb, call.arg)
    [] call.op = "seal"       -> SealVerdict(tb, call.arg)
    [] call.op = "quorum"     -> QuorumVerdict(tb, call.arg)

LEMMA DirectVerdict ==
  ASSUME NEW s \in Earned(trust_base), NEW call \in DirectCalls
  PROVE  /\ Result(trust_base, DirectlyCalled(s, call), CallVerdict(trust_base, call))
         /\ Worked(s, DirectlyCalled(s, call))
<1>1. Result(trust_base, Started(s), "Ok") /\ Started(s).session = s
  BY DEF Result, Started
<1>2. CASE call \in [op : {"membership"}, arg : MembershipCalls]
  <2>1. call.arg \in MembershipCalls /\ call.op = "membership"
    BY <1>2
  <2>2. call.arg.policy \in Lax /\ call.arg.uc \in Certificates
    BY <2>1, SessionAssumption DEF Lax
  <2>3. /\ Result(trust_base, verify_membership_under(trust_base, Started(s), call.arg),
                  MembershipVerdict(trust_base, call.arg))
        /\ Worked(s, verify_membership_under(trust_base, Started(s), call.arg))
    BY <2>2, MembershipUnderVerdict
  <2> QED BY <2>1, <2>3 DEF DirectlyCalled, CallVerdict
<1>3. CASE call \in [op : {"absence"}, arg : AbsenceCalls]
  <2>1. call.arg \in AbsenceCalls /\ call.op = "absence"
    BY <1>3
  <2>2. call.arg.policy \in Contexts /\ call.arg.uc \in Certificates
    BY <2>1, SessionAssumption DEF Contexts
  <2>3. /\ Result(trust_base, verify_non_inclusion_in(trust_base, Started(s), call.arg),
                  AbsenceVerdict(trust_base, call.arg))
        /\ Worked(s, verify_non_inclusion_in(trust_base, Started(s), call.arg))
    BY <2>2, AbsenceUnderVerdict
  <2> QED BY <2>1, <2>3 DEF DirectlyCalled, CallVerdict
<1>4. CASE call \in [op : {"seal", "quorum"}, arg : Seals] /\ call.op = "seal"
  <2>1. call.arg \in Seals
    BY <1>4
  <2>2. Then("Ok", SealVerdict(trust_base, call.arg)) = SealVerdict(trust_base, call.arg)
    BY DEF Then
  <2>3. /\ Result(trust_base, authenticate_seal_under(trust_base, Started(s), call.arg),
                  SealVerdict(trust_base, call.arg))
        /\ Worked(s, authenticate_seal_under(trust_base, Started(s), call.arg))
    BY <1>1, <2>1, <2>2, SealUnderVerdict
  <2> QED BY <1>4, <2>3 DEF DirectlyCalled, CallVerdict
<1>5. CASE call \in [op : {"seal", "quorum"}, arg : Seals] /\ call.op = "quorum"
  <2>1. call.arg \in Seals
    BY <1>5
  <2>2. Then("Ok", QuorumVerdict(trust_base, call.arg)) = QuorumVerdict(trust_base, call.arg)
    BY DEF Then
  <2>3. /\ Result(trust_base, verify_quorum_under(trust_base, Started(s), call.arg),
                  QuorumVerdict(trust_base, call.arg))
        /\ Worked(s, verify_quorum_under(trust_base, Started(s), call.arg))
    BY <1>1, <2>1, <2>2, QuorumUnderVerdict
  <2> QED BY <1>5, <2>3 DEF DirectlyCalled, CallVerdict
<1>6. call \in [op : {"seal", "quorum"}, arg : Seals] => call.op = "seal" \/ call.op = "quorum"
  OBVIOUS
<1> QED BY <1>2, <1>3, <1>4, <1>5, <1>6 DEF DirectCalls

(* A new session has remembered nothing, so nothing it has not earned.     *)
LEMMA NewIsEarned ==
  ASSUME NEW tb, NEW capacity \in Nat
  PROVE  NewSession(capacity) \in Earned(tb)
<1>1. \A S : <<>> \in Seq(S)
  OBVIOUS
<1> QED BY <1>1 DEF NewSession, Earned

(* A memo without repetitions that misses an element of a finite set has   *)
(* room for it below the size of the set.                                  *)
LEMMA RoomForNew ==
  ASSUME NEW S, IsFiniteSet(S), NEW memo \in Seq(S), NEW x \in S, ~Holds(memo, x),
         \A i, j \in DOMAIN memo : memo[i] = memo[j] => i = j
  PROVE  Len(memo) < Cardinality(S)
<1>1. memo \in Injection(1..Len(memo), S \ {x})
  <2>1. memo \in [1..Len(memo) -> S] /\ DOMAIN memo = 1..Len(memo)
    OBVIOUS
  <2>2. memo \in [1..Len(memo) -> S \ {x}]
    BY <2>1 DEF Holds
  <2> QED BY <2>1, <2>2 DEF Injection, IsInjective
<1>2. IsFiniteSet(S \ {x}) /\ Cardinality(S \ {x}) = Cardinality(S) - 1
  BY FS_RemoveElement
<1>3. Cardinality(1..Len(memo)) <= Cardinality(S \ {x})
  BY <1>1, <1>2, FS_Injection DEF ExistsInjection
<1>4. Cardinality(1..Len(memo)) = Len(memo)
  <2>1. Len(memo) \in Nat
    OBVIOUS
  <2>2. Cardinality(1..Len(memo)) = IF 1 > Len(memo) THEN 0 ELSE Len(memo) - 1 + 1
    BY <2>1, FS_Interval
  <2> QED BY <2>1, <2>2
<1>5. Cardinality(S) \in Nat
  BY FS_CardinalityType
<1> QED BY <1>2, <1>3, <1>4, <1>5

-----------------------------------------------------------------------------
(* The inductive invariant: the memos are earned, and where there is room  *)
(* for every seal the signature work is accounted for.                     *)
IInv ==
  /\ session \in Earned(trust_base)
  /\ rejected \in Nat
  /\ OneCheckPerSeal

LEMMA OpenKeepsIInv ==
  ASSUME OpenSession
  PROVE  IInv
<1>1. PICK capacity \in Capacities : session = NewSession(capacity)
  BY DEF OpenSession
<1>2. session \in Earned(trust_base)
  BY <1>1, NewIsEarned, SessionAssumption
<1>3. session.memo = <<>> /\ session.quorum_checks = 0 /\ rejected = 0
  BY <1>1 DEF OpenSession, NewSession
<1> QED BY <1>2, <1>3 DEF IInv, OneCheckPerSeal

(* The accounts after a call.  The new seal goes behind the others: there  *)
(* is room for it, since the memo has no repetitions and misses it.        *)
LEMMA WorkIsAccounted ==
  ASSUME IInv, NEW r, Worked(session, r), r.session \in Earned(trust_base), Returns(r)
  PROVE  OneCheckPerSeal'
<1> SUFFICES ASSUME Cardinality(Seals) <= r.session.capacity
             PROVE  /\ r.session.quorum_checks = Len(r.session.memo) + rejected'
                    /\ \A i, j \in DOMAIN r.session.memo :
                         r.session.memo[i] = r.session.memo[j] => i = j
  BY DEF OneCheckPerSeal, Returns
<1>1. /\ session.capacity \in Nat /\ session.quorum_checks \in Nat /\ rejected \in Nat
      /\ session.memo \in Seq(Seals)
  BY DEF IInv, Earned, GoodSeals
<1>2. /\ Cardinality(Seals) <= session.capacity
      /\ session.quorum_checks = Len(session.memo) + rejected
      /\ \A i, j \in DOMAIN session.memo : session.memo[i] = session.memo[j] => i = j
  BY DEF IInv, OneCheckPerSeal, Worked
<1>3. rejected' = rejected + (IF r.verdict = "QuorumNotMet" THEN 1 ELSE 0)
  BY DEF Returns
<1> DEFINE New(seal) == /\ ~Holds(session.memo, seal)
                        /\ r.session.memo = Remember(session.capacity, session.memo, seal)
<1>4. CASE /\ r.session.memo = session.memo /\ r.session.quorum_checks = session.quorum_checks
           /\ r.verdict # "QuorumNotMet"
  BY <1>1, <1>2, <1>3, <1>4
<1>5. CASE /\ r.session.quorum_checks = session.quorum_checks + 1
           /\ \E seal \in Seals : New(seal)
           /\ r.verdict # "QuorumNotMet"
  <2>1. PICK seal \in Seals : New(seal)
    BY <1>5
  <2>2. Len(session.memo) < Cardinality(Seals)
    BY <1>1, <1>2, <2>1, RoomForNew, SessionAssumption
  <2>3. Cardinality(Seals) \in Nat
    BY SessionAssumption, FS_CardinalityType
  <2>4. Len(session.memo) < session.capacity
    BY <1>1, <1>2, <2>2, <2>3
  <2>5. r.session.memo = Append(session.memo, seal)
    BY <1>1, <2>1, <2>4 DEF Remember
  <2>6. r.session.quorum_checks = Len(r.session.memo) + rejected'
    BY <1>1, <1>2, <1>3, <1>5, <2>5
  <2>7. ASSUME NEW i \in DOMAIN r.session.memo, NEW j \in DOMAIN r.session.memo,
               r.session.memo[i] = r.session.memo[j]
        PROVE  i = j
    BY <1>1, <1>2, <2>1, <2>5, <2>7 DEF Holds
  <2> QED BY <2>6, <2>7
<1>6. CASE /\ r.session.quorum_checks = session.quorum_checks + 1
           /\ r.session.memo = session.memo /\ r.verdict = "QuorumNotMet"
  <2>1. rejected' = rejected + 1 /\ Len(session.memo) \in Nat
    BY <1>1, <1>3, <1>6
  <2>2. session.quorum_checks + 1 = Len(session.memo) + (rejected + 1)
    <3>1. \A a, b, c \in Nat : a = b + c => a + 1 = b + (c + 1)
      OBVIOUS
    <3> QED BY <1>1, <1>2, <2>1, <3>1, Zenon
  <2>3. r.session.quorum_checks = Len(r.session.memo) + rejected'
    BY <1>6, <2>1, <2>2, Zenon
  <2> QED BY <1>2, <1>6, <2>3
<1> HIDE DEF New
<1> QED BY <1>4, <1>5, <1>6, Zenon DEF Worked, New

LEMMA CallKeepsIInv ==
  ASSUME IInv, NEW call \in DirectCalls, Returns(DirectlyCalled(session, call))
  PROVE  IInv'
<1> DEFINE r == DirectlyCalled(session, call)
<1>1. Result(trust_base, r, CallVerdict(trust_base, call)) /\ Worked(session, r)
  BY DirectVerdict DEF IInv
<1> HIDE DEF r
<1>2. r.session \in Earned(trust_base)
  BY <1>1, ResultParts
<1>3. Returns(r)
  BY DEF r
<1>4. OneCheckPerSeal'
  BY <1>1, <1>2, <1>3, WorkIsAccounted
<1>5. (session \in Earned(trust_base))' /\ rejected' \in Nat
  BY <1>2, <1>3 DEF Returns, IInv, Earned, GoodSeals, GoodBodies
<1> QED BY <1>4, <1>5 DEF IInv

(* The memos of a session hold only what was earned under its trust base,  *)
(* after any sequence of direct calls, with any evictions.                 *)
THEOREM Invariance == CallSpec => []IInv
<1>1. OpenSession => IInv
  BY OpenKeepsIInv
<1>2. IInv /\ [CallNext]_callVars => IInv'
  <2> SUFFICES ASSUME IInv, [CallNext]_callVars
               PROVE  IInv'
    OBVIOUS
  <2>1. CASE CallNext
    BY <2>1, CallKeepsIInv DEF CallNext
  <2>2. CASE UNCHANGED callVars
    BY <2>2 DEF callVars, IInv, OneCheckPerSeal
  <2> QED BY <2>1, <2>2
<1> QED BY <1>1, <1>2, PTL DEF CallSpec

(* Reuse is sound: whatever was verified before, under whatever policy, a  *)
(* warm session returns for every direct call the verdict, and so the very *)
(* error, that a session without memos returns.                            *)
THEOREM ReuseIsSound == CallSpec => []WarmIsCold
<1>1. IInv => WarmIsCold
  <2> SUFFICES ASSUME IInv, NEW call \in DirectCalls
               PROVE  DirectlyCalled(session, call).verdict =
                        DirectlyCalled(NewSession(0), call).verdict
    BY DEF WarmIsCold
  <2>1. Result(trust_base, DirectlyCalled(session, call), CallVerdict(trust_base, call))
    BY DirectVerdict DEF IInv
  <2>2. NewSession(0) \in Earned(trust_base)
    BY NewIsEarned
  <2>3. Result(trust_base, DirectlyCalled(NewSession(0), call), CallVerdict(trust_base, call))
    BY <2>2, DirectVerdict
  <2> QED BY <2>1, <2>3, ResultParts
<1> QED BY <1>1, Invariance, PTL

(* In a session with room for every seal no authentic seal costs a second  *)
(* signature check, whichever verifiers meet it.                           *)
THEOREM WorkIsMinimal == CallSpec => []OneCheckPerSeal
<1>1. IInv => OneCheckPerSeal
  BY DEF IInv
<1> QED BY <1>1, Invariance, PTL
=============================================================================
