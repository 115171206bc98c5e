---------------------------- MODULE SubmitAndWait ----------------------------
(***************************************************************************)
(* Several client calls that contend for ONE state id, and the aggregator  *)
(* that answers them:                                                      *)
(*                                                                         *)
(*   "flow"     client::mint and client::transfer: check locally, submit,  *)
(*              read the proof, verify the result;                         *)
(*   "wait"     HttpAggregatorClient::submit_and_wait;                     *)
(*   "verified" HttpAggregatorClient::submit_and_wait_verified.            *)
(*                                                                         *)
(* Two clients whose Own data is equal are the same signed request sent    *)
(* twice (a retry by another process); different data are conflicting      *)
(* spends of the state.  A read is a sequence of answers judged by the     *)
(* verdict rule of ProofRead, which both waiting loops implement.          *)
(*                                                                         *)
(* The aggregator is modelled from how the client uses it and is not       *)
(* trusted: it may lose the queued request, forget that it holds one,      *)
(* answer from another replica, or send a proof that does not verify.  It  *)
(* certifies at most one request per state id, which is what the unicity   *)
(* tree and its certificates make verifiable.  A client may crash at any   *)
(* step and start its call over.                                           *)
(***************************************************************************)
EXTENDS Naturals, Sequences, FiniteSets

CONSTANTS
  Clients,       \* the client calls
  Data,          \* certification data for the one state id
  Own,           \* Own[c]: the data client c submits
  Kind,          \* Kind[c]: "flow", "wait" or "verified"
  NoData,        \* "nothing", not in Data
  MaxResubmits,  \* max_resubmits
  Grace,         \* unknown_grace
  MaxAnswers,    \* bound: answers of one read before its time is up
  MaxCrashes     \* bound: client crashes in a behaviour

ASSUME SubmitAssumption ==
  /\ Own \in [Clients -> Data] /\ Kind \in [Clients -> {"flow", "wait", "verified"}]
  /\ NoData \notin Data
  /\ MaxResubmits \in Nat /\ Grace \in Nat /\ MaxAnswers \in Nat /\ MaxCrashes \in Nat

VARIABLES
  pc,         \* pc[c]: "start", "submit", "read" or "done"
  resubmits,  \* resubmits[c]: resubmissions made by this call
  seen,       \* seen[c]: classes of the answers of the running read
  outcome,    \* outcome[c]: what the call returned
  proof,      \* proof[c]: the proof a successful call returned
  queue,      \* aggregator: the request it holds for the state id
  dropped,    \* aggregator: whether a held request was dropped as expired
  leaf,       \* aggregator: the data certified for the state id
  crashes     \* crashes so far

serverVars == <<queue, dropped, leaf>>
vars == <<pc, resubmits, seen, outcome, proof, queue, dropped, leaf, crashes>>

(* A proof certifies some data; it verifies iff the certificate is real.   *)
Proofs  == [data : Data, genuine : BOOLEAN]
NoProof == [data |-> NoData, genuine |-> FALSE]

Rule == INSTANCE ProofRead WITH seen <- <<>>, verdict <- "none"

Init ==
  /\ pc = [c \in Clients |-> "start"]
  /\ resubmits = [c \in Clients |-> 0]
  /\ seen = [c \in Clients |-> <<>>]
  /\ outcome = [c \in Clients |-> "none"]
  /\ proof = [c \in Clients |-> NoProof]
  /\ crashes = 0
  /\ queue = NoData /\ dropped = FALSE /\ leaf = NoData

Return(c, o, p) ==
  /\ pc' = [pc EXCEPT ![c] = "done"]
  /\ outcome' = [outcome EXCEPT ![c] = o]
  /\ proof' = [proof EXCEPT ![c] = p]

Goto(c, where) ==
  /\ pc' = [pc EXCEPT ![c] = where]
  /\ UNCHANGED <<outcome, proof>>

-----------------------------------------------------------------------------
(* The aggregator.                                                         *)

(* Its reply to a certification request for the state id, by state id      *)
(* alone: a copy of a held request is refused by one queue and silently    *)
(* dropped by the other.                                                   *)
Replies ==
  IF leaf # NoData THEN {"StateIdExists", "Rejected"}
  ELSE IF queue # NoData THEN {"QueueDuplicate", "Accepted", "Rejected"}
  ELSE {"Accepted", "Rejected"}

(* The effect of handling that request.                                    *)
Admit(d, reply) ==
  /\ queue' = IF reply = "Accepted" /\ queue = NoData THEN d ELSE queue
  /\ dropped' = (dropped /\ reply # "Accepted")
  /\ UNCHANGED leaf

(* A round includes the held request; a leaf is never replaced.            *)
Certify ==
  /\ queue # NoData /\ leaf = NoData
  /\ leaf' = queue /\ queue' = NoData
  /\ UNCHANGED <<pc, resubmits, seen, outcome, proof, dropped, crashes>>

(* The held request is lost by a restart, or dropped as expired.           *)
LoseRequest(expired) ==
  /\ queue # NoData
  /\ queue' = NoData /\ dropped' = expired
  /\ UNCHANGED <<pc, resubmits, seen, outcome, proof, leaf, crashes>>

(* The classes of answer to a lookup.  A replica may lag behind, so        *)
(* "pending" and "unknown" are possible whatever the tree holds.           *)
LookupClasses ==
  {"pending", "unknown", "overload", "transport", "notfound", "malformed"}
    \cup (IF dropped THEN {"expired"} ELSE {})

(* The proofs an answer may carry: the real one, or one that does not      *)
(* verify.                                                                 *)
LookupProofs ==
  [data : Data, genuine : {FALSE}]
    \cup (IF leaf = NoData THEN {} ELSE {[data |-> leaf, genuine |-> TRUE]})

-----------------------------------------------------------------------------
(* The clients.                                                            *)

(* mint and transfer verify what they start from (the trust base and the   *)
(* network, or the whole source token) before anything is sent.            *)
Start(c) ==
  /\ pc[c] = "start"
  /\ \/ Kind[c] = "flow" /\ Return(c, "LocalVerification", NoProof)
     \/ Goto(c, "submit")
  /\ UNCHANGED <<resubmits, seen, crashes, serverVars>>

(* The replies after which the call goes on to read the proof: the plain   *)
(* submission reports both kinds of duplicate as errors, the idempotent    *)
(* one does not.                                                           *)
ReadsAfter(c) ==
  IF Kind[c] = "flow" THEN {"Accepted"}
                      ELSE {"Accepted", "StateIdExists", "QueueDuplicate"}

(* One submission, first or repeated.  The request or its reply may be     *)
(* lost; a submission is never replayed by the transport.                  *)
Submit(c) ==
  /\ pc[c] = "submit"
  /\ seen' = [seen EXCEPT ![c] = <<>>]
  /\ \/ UNCHANGED serverVars /\ Return(c, "Transport", NoProof)
     \/ \E reply \in Replies :
          /\ Admit(Own[c], reply)
          /\ \/ Return(c, "Transport", NoProof)
             \/ reply \in ReadsAfter(c) /\ Goto(c, "read")
             \/ reply \notin ReadsAfter(c) /\ Return(c, "Rejected", NoProof)
  /\ UNCHANGED <<resubmits, crashes>>

(* Other data is believed without verification.                            *)
conflict_errorMutant(p) == "StateCertifiedWithOtherData"

(* A proof of other data is a lost race only if it verifies.               *)
conflict_error(p) ==
  IF p.genuine THEN "StateCertifiedWithOtherData" ELSE "ProofOfOtherData"

(* The proof's own data is not compared with the request.                  *)
TakeProofMutant(c, p) ==
  IF Kind[c] = "flow" /\ ~p.genuine
  THEN Return(c, "Verification", NoProof)
  ELSE Return(c, "Ok", p)

(* What the call makes of the proof it has read.                           *)
TakeProof(c, p) ==
  CASE Kind[c] = "flow" ->
         IF p.genuine /\ p.data = Own[c] THEN Return(c, "Ok", p)
                                         ELSE Return(c, "Verification", NoProof)
    [] Kind[c] = "wait" ->
         IF p.data = Own[c] THEN Return(c, "Ok", p)
                            ELSE Return(c, "ProofOfOtherData", NoProof)
    [] Kind[c] = "verified" ->
         IF p.data = Own[c] THEN Return(c, "Ok", p)
                            ELSE Return(c, conflict_error(p), NoProof)

ReadProof(c) ==
  /\ pc[c] = "read"
  /\ \E p \in LookupProofs : TakeProof(c, p)
  /\ seen' = [seen EXCEPT ![c] = Append(@, "certified")]
  /\ UNCHANGED <<resubmits, crashes, serverVars>>

(* Resubmissions are not counted.                                          *)
ResubmitMutant(c) == Goto(c, "submit") /\ UNCHANGED resubmits

(* The identical request goes out again.                                   *)
Resubmit(c) ==
  /\ resubmits' = [resubmits EXCEPT ![c] = @ + 1]
  /\ Goto(c, "submit")

(* A read that ends without a proof: a request reported lost or expired is *)
(* sent again, at most MaxResubmits times.                                 *)
EndRead(c, v) ==
  IF Kind[c] # "flow" /\ v \in {"StateUnknown", "StateExpired"} /\ resubmits[c] < MaxResubmits
  THEN Resubmit(c)
  ELSE Return(c, v, NoProof) /\ UNCHANGED resubmits

(* An answer without a proof, judged by the rule of the read.              *)
ReadAnswer(c) ==
  /\ pc[c] = "read" /\ Len(seen[c]) < MaxAnswers
  /\ \E a \in LookupClasses :
       LET s == Append(seen[c], a) IN
       /\ seen' = [seen EXCEPT ![c] = s]
       /\ \E v \in Rule!VerdictsOf(s) \ {"Cancelled"} :
            IF v = "none" THEN UNCHANGED <<pc, outcome, proof, resubmits>>
                          ELSE EndRead(c, v)
  /\ UNCHANGED <<crashes, serverVars>>

(* The read's time is up between two answers.                              *)
ReadTimeout(c) ==
  /\ pc[c] = "read"
  /\ EndRead(c, "Timeout")
  /\ UNCHANGED <<seen, crashes, serverVars>>

(* The process dies and runs the call again: nothing of it was saved, and  *)
(* the request it builds is the same.                                      *)
Crash(c) ==
  /\ pc[c] \in {"submit", "read"} /\ crashes < MaxCrashes
  /\ crashes' = crashes + 1
  /\ pc' = [pc EXCEPT ![c] = "start"]
  /\ resubmits' = [resubmits EXCEPT ![c] = 0]
  /\ seen' = [seen EXCEPT ![c] = <<>>]
  /\ UNCHANGED <<outcome, proof, serverVars>>

Done == (\A c \in Clients : pc[c] = "done") /\ UNCHANGED vars

ClientStep(c) ==
  Start(c) \/ Submit(c) \/ ReadProof(c) \/ ReadAnswer(c) \/ ReadTimeout(c)

Next ==
  \/ \E c \in Clients : ClientStep(c) \/ Crash(c)
  \/ Certify \/ LoseRequest(TRUE) \/ LoseRequest(FALSE)
  \/ Done

Spec == Init /\ [][Next]_vars

(* Each call's thread runs; nothing is assumed of the aggregator.          *)
FairSpec == Spec /\ \A c \in Clients : WF_vars(ClientStep(c))

-----------------------------------------------------------------------------
(* No two conflicting spends both end with a proof that verifies, and a    *)
(* proof that verifies is of the caller's own request, whoever else raced  *)
(* for the state, however often it was resubmitted and whatever crashed.   *)
NoDoubleSpend ==
  \A c \in Clients :
    outcome[c] = "Ok" /\ proof[c].genuine => leaf = Own[c] /\ proof[c].data = Own[c]

(* StateCertifiedWithOtherData means that the race is really lost: the     *)
(* state is certified with another request, never with the caller's own.   *)
LostRaceIsReal ==
  \A c \in Clients :
    outcome[c] = "StateCertifiedWithOtherData" => leaf \notin {NoData, Own[c]}

(* Every call returns, although the aggregator may lose the request again  *)
(* and again: resubmission is bounded.                                     *)
EveryCallReturns == <>(\A c \in Clients : pc[c] = "done")
=============================================================================
