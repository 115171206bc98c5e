------------------------- MODULE SubmitAndWaitProofs -------------------------
(***************************************************************************)
(* Proofs about SubmitAndWait, for every set of clients and of conflicting *)
(* requests, every number of resubmissions and of crashes.                 *)
(*                                                                         *)
(* The two properties are about what a call returned and what the state is *)
(* certified with, which are decided at different times by different       *)
(* actors; together with the types they are inductive, because a leaf is   *)
(* never replaced and a returned outcome never taken back.                 *)
(***************************************************************************)
EXTENDS SubmitAndWait, SequenceTheorems, TLAPS

(* What a read may conclude from an answer without a proof.                *)
ReadVerdicts ==
  {"none", "StateExpired", "StateUnknown", "Timeout", "OverloadTimeout", "Cancelled",
   "StateNotFound", "Error"}

(* What a call may return.                                                 *)
Outcomes ==
  ReadVerdicts \cup {"Ok", "LocalVerification", "Transport", "Rejected", "Verification",
                    "ProofOfOtherData", "StateCertifiedWithOtherData"}

(* Every variable has the values the calls and the aggregator give it.     *)
TypeOK ==
  /\ pc \in [Clients -> {"start", "submit", "read", "done"}]
  /\ resubmits \in [Clients -> Nat]
  /\ seen \in [Clients -> Seq(Rule!Classes)]
  /\ outcome \in [Clients -> Outcomes]
  /\ proof \in [Clients -> Proofs \cup {NoProof}]
  /\ queue \in Data \cup {NoData} /\ leaf \in Data \cup {NoData}
  /\ dropped \in BOOLEAN /\ crashes \in Nat

(* A call that is not over has returned nothing.                           *)
OutcomeAtEnd ==
  \A c \in Clients : pc[c] # "done" => outcome[c] = "none" /\ proof[c] = NoProof

IInv == TypeOK /\ OutcomeAtEnd /\ NoDoubleSpend /\ LostRaceIsReal

-----------------------------------------------------------------------------
(* Before the first step nobody has anything.                              *)
LEMMA InitEstablishesIInv == Init => IInv
<1> SUFFICES ASSUME Init PROVE IInv
  OBVIOUS
<1>1. <<>> \in Seq(Rule!Classes)
  OBVIOUS
<1>2. TypeOK
  BY <1>1 DEF Init, TypeOK, Outcomes, ReadVerdicts
<1> QED
  BY <1>2 DEF Init, IInv, OutcomeAtEnd, NoDoubleSpend, LostRaceIsReal

(* An answer that carries no proof never ends a read with a lost race.     *)
LEMMA AnswerVerdicts ==
  ASSUME NEW s \in Seq(Rule!Classes), NEW a \in LookupClasses
  PROVE  /\ Append(s, a) \in Seq(Rule!Classes)
         /\ Rule!VerdictsOf(Append(s, a)) \subseteq ReadVerdicts
<1>1. a \in Rule!Classes /\ a # "certified"
  BY DEF LookupClasses, Rule!Classes
<1>2. /\ Append(s, a) \in Seq(Rule!Classes)
      /\ Append(s, a)[Len(Append(s, a))] = a
  BY <1>1, AppendProperties
<1> QED
  BY <1>1, <1>2 DEF Rule!VerdictsOf, Rule!Classes, ReadVerdicts

(* A call that ends without a proof keeps the invariant, if it does not    *)
(* claim a lost race.                                                      *)
LEMMA ReturnKeepsIInv ==
  ASSUME IInv, NEW c \in Clients, NEW o \in Outcomes, o # "StateCertifiedWithOtherData",
         Return(c, o, NoProof),
         resubmits' \in [Clients -> Nat], seen' \in [Clients -> Seq(Rule!Classes)],
         queue' \in Data \cup {NoData}, dropped' \in BOOLEAN, crashes' \in Nat,
         UNCHANGED leaf
  PROVE  IInv'
<1>1. TypeOK'
  BY DEF IInv, TypeOK, Return
<1> QED
  BY <1>1 DEF IInv, TypeOK, OutcomeAtEnd, NoDoubleSpend, LostRaceIsReal, Return, NoProof

(* So does one that goes on, or that starts over.                          *)
LEMMA GoOnKeepsIInv ==
  ASSUME IInv, NEW c \in Clients, NEW where \in {"start", "submit", "read"},
         pc[c] # "done", pc' = [pc EXCEPT ![c] = where], UNCHANGED <<outcome, proof, leaf>>,
         resubmits' \in [Clients -> Nat], seen' \in [Clients -> Seq(Rule!Classes)],
         queue' \in Data \cup {NoData}, dropped' \in BOOLEAN, crashes' \in Nat
  PROVE  IInv'
  BY DEF IInv, TypeOK, OutcomeAtEnd, NoDoubleSpend, LostRaceIsReal

-----------------------------------------------------------------------------
(* Start, the local verification.                                          *)
LEMMA StartKeepsIInv == \A c \in Clients : IInv /\ Start(c) => IInv'
<1> SUFFICES ASSUME NEW c \in Clients, IInv, Start(c) PROVE IInv'
  OBVIOUS
<1>1. /\ resubmits' \in [Clients -> Nat] /\ seen' \in [Clients -> Seq(Rule!Classes)]
      /\ queue' \in Data \cup {NoData} /\ dropped' \in BOOLEAN /\ crashes' \in Nat
      /\ UNCHANGED leaf
  BY DEF IInv, TypeOK, Start, serverVars
<1>2. CASE Return(c, "LocalVerification", NoProof)
  BY <1>1, <1>2, ReturnKeepsIInv DEF Outcomes
<1>3. CASE Goto(c, "submit")
  BY <1>1, <1>3, GoOnKeepsIInv DEF Start, Goto
<1> QED BY <1>2, <1>3 DEF Start

(* Submit, whatever the aggregator replies and whether the reply arrives.  *)
LEMMA SubmitKeepsIInv == \A c \in Clients : IInv /\ Submit(c) => IInv'
<1> SUFFICES ASSUME NEW c \in Clients, IInv, Submit(c) PROVE IInv'
  OBVIOUS
<1>1. Own[c] \in Data
  BY SubmitAssumption
<1>2. /\ resubmits' \in [Clients -> Nat] /\ seen' \in [Clients -> Seq(Rule!Classes)]
      /\ crashes' \in Nat /\ pc[c] # "done"
  BY DEF IInv, TypeOK, Submit
<1>3. queue' \in Data \cup {NoData} /\ dropped' \in BOOLEAN /\ UNCHANGED leaf
  <2>1. CASE UNCHANGED serverVars
    BY <2>1 DEF IInv, TypeOK, serverVars
  <2>2. CASE \E reply \in Replies : Admit(Own[c], reply)
    BY <1>1, <2>2 DEF IInv, TypeOK, Admit
  <2> QED BY <2>1, <2>2 DEF Submit
<1>4. \/ Return(c, "Transport", NoProof)
      \/ Return(c, "Rejected", NoProof)
      \/ Goto(c, "read")
  BY DEF Submit
<1> QED
  BY <1>2, <1>3, <1>4, ReturnKeepsIInv, GoOnKeepsIInv DEF Goto, Outcomes

(* ReadProof: a proof of the caller's own request that verifies says what  *)
(* the leaf is, and so does a proof of another one.                        *)
LEMMA ReadProofKeepsIInv == \A c \in Clients : IInv /\ ReadProof(c) => IInv'
<1> SUFFICES ASSUME NEW c \in Clients, IInv, ReadProof(c) PROVE IInv'
  OBVIOUS
<1>1. PICK p \in LookupProofs : TakeProof(c, p)
  BY DEF ReadProof
<1>2. /\ p \in Proofs /\ p.data \in Data
      /\ p.genuine => leaf # NoData /\ p.data = leaf
  <2>1. leaf \in Data \cup {NoData}
    BY DEF IInv, TypeOK
  <2>2. CASE p \in [data : Data, genuine : {FALSE}]
    BY <2>2 DEF Proofs
  <2>3. CASE leaf # NoData /\ p = [data |-> leaf, genuine |-> TRUE]
    BY <2>1, <2>3 DEF Proofs
  <2> QED BY <2>2, <2>3 DEF LookupProofs
<1>3. /\ UNCHANGED <<resubmits, crashes, queue, dropped, leaf>>
      /\ seen' \in [Clients -> Seq(Rule!Classes)]
  <2>1. seen[c] \in Seq(Rule!Classes) /\ "certified" \in Rule!Classes
    BY DEF IInv, TypeOK, Rule!Classes
  <2>2. Append(seen[c], "certified") \in Seq(Rule!Classes)
    BY <2>1, AppendProperties
  <2> QED BY <2>2 DEF IInv, TypeOK, ReadProof, serverVars
<1>4. \/ Return(c, "Ok", p) /\ p.data = Own[c]
      \/ Return(c, "Verification", NoProof)
      \/ Return(c, "ProofOfOtherData", NoProof)
      \/ Return(c, "StateCertifiedWithOtherData", NoProof) /\ p.genuine /\ p.data # Own[c]
  BY <1>1, SubmitAssumption DEF TakeProof, conflict_error
<1>5. CASE Return(c, "Ok", p) /\ p.data = Own[c]
  <2>1. TypeOK'
    BY <1>2, <1>3, <1>5 DEF IInv, TypeOK, Return, Outcomes
  <2> QED
    BY <1>2, <1>3, <1>5, <2>1
    DEF IInv, OutcomeAtEnd, NoDoubleSpend, LostRaceIsReal, Return, TypeOK
<1>6. CASE Return(c, "StateCertifiedWithOtherData", NoProof) /\ p.genuine /\ p.data # Own[c]
  <2>1. TypeOK'
    BY <1>3, <1>6 DEF IInv, TypeOK, Return, Outcomes
  <2> QED
    BY <1>2, <1>3, <1>6, <2>1
    DEF IInv, OutcomeAtEnd, NoDoubleSpend, LostRaceIsReal, Return, TypeOK
<1>7. CASE Return(c, "Verification", NoProof) \/ Return(c, "ProofOfOtherData", NoProof)
  <2>1. resubmits' \in [Clients -> Nat] /\ crashes' \in Nat /\ dropped' \in BOOLEAN
        /\ queue' \in Data \cup {NoData}
    BY <1>3 DEF IInv, TypeOK
  <2> QED BY <1>3, <1>7, <2>1, ReturnKeepsIInv DEF Outcomes
<1> QED BY <1>4, <1>5, <1>6, <1>7

(* The end of a read without a proof: resubmission or a verdict.           *)
LEMMA EndReadKeepsIInv ==
  ASSUME IInv, NEW c \in Clients, pc[c] = "read", NEW v \in ReadVerdicts, EndRead(c, v),
         seen' \in [Clients -> Seq(Rule!Classes)], UNCHANGED <<crashes, serverVars>>
  PROVE  IInv'
<1>1. /\ queue' \in Data \cup {NoData} /\ dropped' \in BOOLEAN /\ crashes' \in Nat
      /\ UNCHANGED leaf
  BY DEF IInv, TypeOK, serverVars
<1>2. CASE Resubmit(c)
  <2>1. resubmits' \in [Clients -> Nat]
    BY <1>2 DEF IInv, TypeOK, Resubmit
  <2>2. pc' = [pc EXCEPT ![c] = "submit"] /\ UNCHANGED <<outcome, proof>>
    BY <1>2 DEF Resubmit, Goto
  <2> QED BY <1>1, <2>1, <2>2, GoOnKeepsIInv
<1>3. CASE Return(c, v, NoProof) /\ UNCHANGED resubmits
  BY <1>1, <1>3, ReturnKeepsIInv DEF IInv, TypeOK, ReadVerdicts, Outcomes
<1> QED BY <1>2, <1>3 DEF EndRead

(* ReadAnswer and ReadTimeout.                                             *)
LEMMA ReadKeepsIInv == \A c \in Clients : IInv /\ (ReadAnswer(c) \/ ReadTimeout(c)) => IInv'
<1> SUFFICES ASSUME NEW c \in Clients, IInv, ReadAnswer(c) \/ ReadTimeout(c) PROVE IInv'
  OBVIOUS
<1>1. CASE ReadAnswer(c)
  <2>1. PICK a \in LookupClasses :
          LET s == Append(seen[c], a) IN
          /\ seen' = [seen EXCEPT ![c] = s]
          /\ \E v \in Rule!VerdictsOf(s) \ {"Cancelled"} :
               IF v = "none" THEN UNCHANGED <<pc, outcome, proof, resubmits>>
                             ELSE EndRead(c, v)
    BY <1>1 DEF ReadAnswer
  <2>2. PICK v \in Rule!VerdictsOf(Append(seen[c], a)) :
               IF v = "none" THEN UNCHANGED <<pc, outcome, proof, resubmits>>
                             ELSE EndRead(c, v)
    BY <2>1
  <2>3. seen[c] \in Seq(Rule!Classes)
    BY DEF IInv, TypeOK
  <2>4. v \in ReadVerdicts /\ Append(seen[c], a) \in Seq(Rule!Classes)
    BY <2>2, <2>3, AnswerVerdicts
  <2>5. seen' \in [Clients -> Seq(Rule!Classes)]
    BY <2>1, <2>4 DEF IInv, TypeOK
  <2>6. UNCHANGED <<crashes, serverVars>> /\ pc[c] = "read"
    BY <1>1 DEF ReadAnswer
  <2>7. CASE v = "none"
    BY <2>2, <2>5, <2>6, <2>7
    DEF IInv, TypeOK, OutcomeAtEnd, NoDoubleSpend, LostRaceIsReal, serverVars
  <2>8. CASE v # "none"
    BY <2>2, <2>4, <2>5, <2>6, <2>8, EndReadKeepsIInv
  <2> QED BY <2>7, <2>8
<1>2. CASE ReadTimeout(c)
  <2>1. seen' \in [Clients -> Seq(Rule!Classes)] /\ UNCHANGED <<crashes, serverVars>>
        /\ pc[c] = "read" /\ EndRead(c, "Timeout")
    BY <1>2 DEF IInv, TypeOK, ReadTimeout
  <2> QED BY <2>1, EndReadKeepsIInv DEF ReadVerdicts
<1> QED BY <1>1, <1>2

(* A crash loses what the call knew, nothing that was returned.            *)
LEMMA CrashKeepsIInv == \A c \in Clients : IInv /\ Crash(c) => IInv'
<1> SUFFICES ASSUME NEW c \in Clients, IInv, Crash(c) PROVE IInv'
  OBVIOUS
<1>1. <<>> \in Seq(Rule!Classes)
  OBVIOUS
<1>2. /\ resubmits' \in [Clients -> Nat] /\ seen' \in [Clients -> Seq(Rule!Classes)]
      /\ queue' \in Data \cup {NoData} /\ dropped' \in BOOLEAN /\ crashes' \in Nat
  BY <1>1 DEF IInv, TypeOK, Crash, serverVars
<1> QED
  BY <1>2, GoOnKeepsIInv DEF Crash, serverVars

(* The aggregator's own steps: a leaf appears where there was none.        *)
LEMMA ServerKeepsIInv ==
  IInv /\ (Certify \/ LoseRequest(TRUE) \/ LoseRequest(FALSE)) => IInv'
<1>1. IInv /\ Certify => IInv'
  BY SubmitAssumption
  DEF IInv, TypeOK, OutcomeAtEnd, NoDoubleSpend, LostRaceIsReal, Certify
<1>2. \A expired \in BOOLEAN : IInv /\ LoseRequest(expired) => IInv'
  BY DEF IInv, TypeOK, OutcomeAtEnd, NoDoubleSpend, LostRaceIsReal, LoseRequest
<1> QED BY <1>1, <1>2

(* Every step keeps the invariant.                                         *)
LEMMA NextKeepsIInv == IInv /\ [Next]_vars => IInv'
<1> SUFFICES ASSUME IInv, [Next]_vars PROVE IInv'
  OBVIOUS
<1>1. CASE \E c \in Clients : ClientStep(c) \/ Crash(c)
  BY <1>1, StartKeepsIInv, SubmitKeepsIInv, ReadProofKeepsIInv, ReadKeepsIInv, CrashKeepsIInv
  DEF ClientStep
<1>2. CASE Certify \/ LoseRequest(TRUE) \/ LoseRequest(FALSE)
  BY <1>2, ServerKeepsIInv
<1>3. CASE UNCHANGED vars
  BY <1>3 DEF vars, IInv, TypeOK, OutcomeAtEnd, NoDoubleSpend, LostRaceIsReal
<1> QED BY <1>1, <1>2, <1>3 DEF Next, Done

(* The inductive invariant holds in every state.                           *)
THEOREM Invariance == Spec => []IInv
  BY InitEstablishesIInv, NextKeepsIInv, PTL DEF Spec

(* Whoever races for the state, however often a request is resubmitted and *)
(* whatever crashes: a call of mint, transfer or submit_and_wait that ends *)
(* with a proof that verifies holds the one request the state is certified *)
(* with, so no two conflicting spends succeed.                             *)
THEOREM OneWinner == Spec => []NoDoubleSpend
<1>1. IInv => NoDoubleSpend
  BY DEF IInv
<1> QED BY Invariance, <1>1, PTL

(* submit_and_wait_verified reports StateCertifiedWithOtherData only when  *)
(* the state is certified with somebody else's request.                    *)
THEOREM RaceReallyLost == Spec => []LostRaceIsReal
<1>1. IInv => LostRaceIsReal
  BY DEF IInv
<1> QED BY Invariance, <1>1, PTL
=============================================================================
