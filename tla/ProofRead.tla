------------------------------ MODULE ProofRead ------------------------------
(***************************************************************************)
(* What waiting for an inclusion proof promises, whichever loop does the   *)
(* waiting: `AggregatorClient::get_inclusion_proof` of the HTTP client is  *)
(* either the deadline-bound `wait_loop` (module ProofWait) or the         *)
(* attempts loop (module ProofPoll), and both are shown to implement this  *)
(* specification.  SubmitAndWait uses the same verdict rule.               *)
(*                                                                         *)
(* A read is a sequence of answers to one question, "is this state         *)
(* certified?", ended by one verdict.  The status an answer carries is a   *)
(* hint: "pending" keeps the read going, "expired" ends it, and "unknown"  *)
(* ends it only when more than Grace of them came with no "pending" in     *)
(* between; overload answers and transport failures decide nothing about   *)
(* the state.                                                              *)
(***************************************************************************)
EXTENDS Naturals, Sequences, FiniteSets

CONSTANT Grace      \* `unknown` answers tolerated (unknown_grace)

VARIABLES seen,     \* the classes of the answers so far, oldest first
          verdict   \* how the read ended, "none" while it has not

readVars == <<seen, verdict>>

Classes == {"certified", "expired", "unknown", "pending", "overload",
            "transport", "notfound", "malformed"}

(* How many `unknown` answers came since the last `pending` one.           *)
UnknownRun(s) ==
  Cardinality({i \in DOMAIN s : /\ s[i] = "unknown"
                                /\ \A j \in DOMAIN s : j > i => s[j] # "pending"})

(* The verdicts the answers s allow, given by the last of them.            *)
VerdictsOf(s) ==
  CASE s[Len(s)] = "certified" -> {"Ok"}
    [] s[Len(s)] = "expired"   -> {"StateExpired"}
    [] s[Len(s)] = "unknown"   -> IF UnknownRun(s) > Grace THEN {"StateUnknown"}
                                                           ELSE {"none"}
    [] s[Len(s)] = "pending"   -> {"none"}
    [] s[Len(s)] = "overload"  -> {"none", "Timeout", "OverloadTimeout", "Cancelled"}
    [] s[Len(s)] = "transport" -> {"none", "Timeout", "Cancelled"}
    [] s[Len(s)] = "notfound"  -> {"StateNotFound"}
    [] s[Len(s)] = "malformed" -> {"Error"}

Init == seen = <<>> /\ verdict = "none"

(* One answer arrives and is judged.                                       *)
Read(a) ==
  /\ verdict = "none"
  /\ seen' = Append(seen, a)
  /\ verdict' \in VerdictsOf(seen')

(* The time or the caller ends the read between two answers.               *)
Stop ==
  /\ verdict = "none"
  /\ verdict' \in {"Timeout", "Cancelled"}
  /\ UNCHANGED seen

Next == Stop \/ \E a \in Classes : Read(a)

Spec == Init /\ [][Next]_readVars
=============================================================================
