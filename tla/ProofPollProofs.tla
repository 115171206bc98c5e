--------------------------- MODULE ProofPollProofs ---------------------------
(***************************************************************************)
(* Proofs about the attempts loop (module ProofPoll), for every number of  *)
(* attempts, interval, grace, request timeout and Retry-After.             *)
(*                                                                         *)
(* The bound on the duration is a bound on the moment attempt number a can *)
(* begin: the budget, and one interval and one call for each attempt made. *)
(* That the loop judges its answers as ProofRead says rests on the counter *)
(* unknown_seen being the length of the current run of `unknown` answers.  *)
(***************************************************************************)
EXTENDS ProofPoll, SequenceTheorems, FiniteSetTheorems, TLAPS

(* The variables have their types, and the loop counter its range.         *)
TypeOK ==
  /\ pc \in {"probe", "calling", "sleeping", "done"}
  /\ now \in Nat /\ call_started \in Nat /\ sleep_end \in Nat
  /\ attempt \in 0..Attempts /\ unknown_seen \in Nat
  /\ pc = "calling" => attempt < Attempts
  /\ result \in Results /\ (result = "none" <=> pc # "done")
  /\ log \in Seq(Contract!Classes)

(* The latest moment at which attempt a can begin.                         *)
Latest(a) == Budget + a * (Interval + MaxRequest)

(* Where the clock can be, by what the loop is doing.                      *)
Timed ==
  /\ pc = "probe" => now <= Latest(attempt)
  /\ pc = "calling" => call_started <= Latest(attempt) /\ now <= call_started + MaxRequest
  /\ pc = "sleeping" => sleep_end <= Latest(attempt) /\ now <= sleep_end
  /\ pc = "done" => now <= Latest(attempt) + MaxRequest

(* The counter is the run of `unknown` answers that ProofRead looks at.    *)
RunCounted == unknown_seen = Contract!UnknownRun(log)

IInv == TypeOK /\ Timed /\ RunCounted

-----------------------------------------------------------------------------
(* How an answer changes the run of `unknown` answers.                     *)

(* The answers of the run, by position.                                    *)
RunOf(s) == {i \in DOMAIN s : /\ s[i] = "unknown"
                             /\ \A j \in DOMAIN s : j > i => s[j] # "pending"}

(* The run is a finite set of positions.                                   *)
LEMMA RunIsFinite ==
  ASSUME NEW s \in Seq(Contract!Classes)
  PROVE  /\ RunOf(s) \subseteq 1..Len(s) /\ IsFiniteSet(RunOf(s))
         /\ Contract!UnknownRun(s) = Cardinality(RunOf(s))
         /\ Contract!UnknownRun(s) \in Nat
<1>1. DOMAIN s = 1..Len(s) /\ Len(s) \in Nat
  BY LenProperties
<1>2. RunOf(s) \subseteq 1..Len(s)
  BY <1>1 DEF RunOf
<1>3. IsFiniteSet(RunOf(s))
  <2>1. IsFiniteSet(1..Len(s))
    BY <1>1, FS_Interval
  <2> QED BY <1>2, <2>1, FS_Subset
<1>4. Contract!UnknownRun(s) = Cardinality(RunOf(s))
  BY Zenon DEF Contract!UnknownRun, RunOf, Cardinality, Contract!Cardinality
<1> QED BY <1>2, <1>3, <1>4, FS_CardinalityType

(* A pending answer ends the run, an unknown one prolongs it, no other     *)
(* answer touches it.                                                      *)
LEMMA RunAfterAnswer ==
  ASSUME NEW s \in Seq(Contract!Classes), NEW a \in Contract!Classes
  PROVE  /\ Append(s, a) \in Seq(Contract!Classes)
         /\ Append(s, a)[Len(Append(s, a))] = a
         /\ Contract!UnknownRun(Append(s, a)) =
              IF a = "pending" THEN 0
              ELSE IF a = "unknown" THEN Contract!UnknownRun(s) + 1
              ELSE Contract!UnknownRun(s)
<1> DEFINE t == Append(s, a)
<1>1. /\ t \in Seq(Contract!Classes) /\ Len(t) = Len(s) + 1 /\ t[Len(t)] = a
      /\ \A i \in 1..Len(s) : t[i] = s[i]
  BY AppendProperties
<1>2. /\ DOMAIN s = 1..Len(s) /\ Len(s) \in Nat
      /\ DOMAIN t = 1..(Len(s) + 1)
  BY <1>1, LenProperties
<1> HIDE DEF t
<1>3. CASE a = "pending"
  <2>1. RunOf(t) = {}
    BY <1>1, <1>2, <1>3 DEF RunOf
  <2> QED BY <1>1, <1>3, <2>1, RunIsFinite, FS_EmptySet DEF t
<1>4. CASE a = "unknown"
  <2>1. RunOf(t) = RunOf(s) \cup {Len(s) + 1}
    BY <1>1, <1>2, <1>4 DEF RunOf
  <2>2. Len(s) + 1 \notin RunOf(s)
    BY <1>2 DEF RunOf
  <2>3. Cardinality(RunOf(t)) = Cardinality(RunOf(s)) + 1
    BY <2>1, <2>2, RunIsFinite, FS_AddElement
  <2> QED BY <1>1, <1>4, <2>3, RunIsFinite DEF t
<1>5. CASE a \notin {"pending", "unknown"}
  <2>1. RunOf(t) = RunOf(s)
    BY <1>1, <1>2, <1>5 DEF RunOf
  <2> QED BY <1>1, <1>5, <2>1, RunIsFinite DEF t
<1> QED BY <1>1, <1>3, <1>4, <1>5 DEF t

-----------------------------------------------------------------------------
(* The times of consecutive attempts.                                      *)
LEMMA LatestGrows ==
  ASSUME NEW a \in Nat
  PROVE  /\ Latest(a) \in Nat /\ Budget \in Nat /\ Latest(a) >= Budget
         /\ Latest(a + 1) = Latest(a) + Interval + MaxRequest
<1>1. /\ Budget \in Nat /\ Interval + MaxRequest \in Nat
      /\ a * (Interval + MaxRequest) \in Nat
  BY PollAssumption DEF Budget
<1>2. (a + 1) * (Interval + MaxRequest) = a * (Interval + MaxRequest) + Interval + MaxRequest
  BY PollAssumption
<1> QED BY <1>1, <1>2, PollAssumption DEF Latest

(* The clock is never more than one call past the latest start.            *)
LEMMA ClockBounded ==
  ASSUME IInv
  PROVE  now <= Latest(attempt) + MaxRequest
<1>1. /\ now \in Nat /\ call_started \in Nat /\ sleep_end \in Nat /\ attempt \in Nat
      /\ pc \in {"probe", "calling", "sleeping", "done"}
  BY PollAssumption DEF IInv, TypeOK
<1>2. Latest(attempt) \in Nat /\ MaxRequest \in Nat
  BY <1>1, LatestGrows, PollAssumption
<1> HIDE DEF Latest
<1> QED BY <1>1, <1>2 DEF IInv, Timed

(* The loop starts in the invariant.                                       *)
LEMMA InitEstablishesIInv == Init => IInv
<1> SUFFICES ASSUME Init PROVE IInv
  OBVIOUS
<1>1. TypeOK
  BY PollAssumption DEF Init, TypeOK, Results
<1>2. Timed
  BY LatestGrows DEF Init, Timed
<1>3. RunOf(<<>>) = {}
  BY DEF RunOf
<1>4. RunCounted
  <2>1. <<>> \in Seq(Contract!Classes)
    OBVIOUS
  <2>2. Contract!UnknownRun(<<>>) = 0
    BY <1>3, <2>1, RunIsFinite, FS_EmptySet
  <2> QED BY <2>2 DEF Init, RunCounted
<1> QED BY <1>1, <1>2, <1>4 DEF IInv

(* The loop goes to sleep until e, then to the next attempt.               *)
Sleeps ==
  /\ pc' = "sleeping" /\ attempt' = attempt + 1 /\ UNCHANGED result
  /\ sleep_end' \in Nat /\ sleep_end' >= now /\ sleep_end' <= Latest(attempt + 1)

(* The common shape of the handlers of an answer.                          *)
AnswerEffect(a) ==
  /\ pc = "calling" /\ log' = Append(log, a)
  /\ UNCHANGED <<now, call_started>>
  /\ unknown_seen' = Contract!UnknownRun(log')
  /\ \/ Sleeps /\ "none" \in Contract!VerdictsOf(log')
     \/ /\ pc' = "done" /\ result' \in Results \ {"none"}
        /\ result' \in Contract!VerdictsOf(log')
        /\ UNCHANGED <<attempt, sleep_end>>

(* The three pauses of the loop: none of them ends later than the next     *)
(* attempt may begin.                                                      *)
LEMMA PausesFit ==
  ASSUME IInv, pc = "calling"
  PROVE  /\ PauseThenNext => Sleeps
         /\ transport_pause => Sleeps \/ Finish("Timeout")
         /\ \A r \in RetryAfters : overload_pause(r) => Sleeps \/ Finish("OverloadTimeout")
<1>1. /\ now \in Nat /\ attempt \in Nat /\ now <= Latest(attempt) + MaxRequest
  BY ClockBounded DEF IInv, TypeOK
<1>2. /\ Latest(attempt) \in Nat /\ Budget \in Nat /\ Latest(attempt) >= Budget
      /\ Latest(attempt + 1) = Latest(attempt) + Interval + MaxRequest
  BY <1>1, LatestGrows
<1>3. /\ now + Interval <= Latest(attempt + 1) /\ now <= Latest(attempt + 1)
      /\ Budget <= Latest(attempt + 1)
  BY <1>1, <1>2, PollAssumption
<1>4. PauseThenNext => Sleeps
  BY <1>1, <1>2, <1>3, PollAssumption DEF PauseThenNext, SleepThenNext, Sleeps
<1>5. ASSUME NEW d \in Nat, d <= Left PROVE SleepThenNext(d) => Sleeps
  <2>1. CASE now >= Budget
    <3>1. d = 0
      BY <1>1, <1>2, <1>5, <2>1 DEF Left
    <3> QED BY <1>1, <1>3, <3>1 DEF SleepThenNext, Sleeps
  <2>2. CASE ~(now >= Budget)
    <3>1. now + d \in Nat /\ now + d >= now /\ now + d <= Latest(attempt + 1)
      BY <1>1, <1>2, <1>3, <1>5, <2>2, PollAssumption DEF Left
    <3> QED BY <3>1 DEF SleepThenNext, Sleeps
  <2> QED BY <2>1, <2>2
<1>6. transport_pause => Sleeps \/ Finish("Timeout")
  <2>1. Left \in Nat
    BY <1>1, <1>2 DEF Left
  <2> QED BY <1>5, <2>1, PollAssumption DEF transport_pause
<1>7. ASSUME NEW r \in RetryAfters, overload_pause(r)
      PROVE  Sleeps \/ Finish("OverloadTimeout")
  <2>1. Left \in Nat /\ Max2(Interval, r) \in Nat
    BY <1>1, <1>2, PollAssumption DEF Left, Max2
  <2> QED BY <1>5, <1>7, <2>1 DEF overload_pause
<1> QED BY <1>4, <1>6, <1>7

(* Every handler has that shape, and judges as ProofRead does.             *)
LEMMA AnswersHaveEffect ==
  ASSUME IInv, Answer
  PROVE  \E a \in Contract!Classes : AnswerEffect(a)
<1>1. pc = "calling"
  BY DEF Answer, Answered, Overload, TransportFailure, Pending, Unknown, Final
<1>2. log \in Seq(Contract!Classes) /\ unknown_seen = Contract!UnknownRun(log)
      /\ unknown_seen \in Nat
  BY DEF IInv, TypeOK, RunCounted
<1>3. CASE \E r \in RetryAfters : Overload(r)
  <2>1. log' = Append(log, "overload") /\ UNCHANGED <<now, call_started, unknown_seen>>
        /\ (Sleeps \/ Finish("OverloadTimeout"))
    BY <1>1, <1>3, PausesFit DEF Overload, Answered
  <2>2. /\ unknown_seen' = Contract!UnknownRun(log')
        /\ Contract!VerdictsOf(log') = {"none", "Timeout", "OverloadTimeout", "Cancelled"}
    BY <1>2, <2>1, RunAfterAnswer DEF Contract!Classes, Contract!VerdictsOf
  <2>3. AnswerEffect("overload")
    BY <1>1, <2>1, <2>2 DEF AnswerEffect, Finish, Results
  <2> QED BY <2>3 DEF Contract!Classes
<1>4. CASE TransportFailure
  <2>1. log' = Append(log, "transport") /\ UNCHANGED <<now, call_started, unknown_seen>>
        /\ (Sleeps \/ Finish("Timeout"))
    BY <1>1, <1>4, PausesFit DEF TransportFailure, Answered
  <2>2. /\ unknown_seen' = Contract!UnknownRun(log')
        /\ Contract!VerdictsOf(log') = {"none", "Timeout", "Cancelled"}
    BY <1>2, <2>1, RunAfterAnswer DEF Contract!Classes, Contract!VerdictsOf
  <2>3. AnswerEffect("transport")
    BY <1>1, <2>1, <2>2 DEF AnswerEffect, Finish, Results
  <2> QED BY <2>3 DEF Contract!Classes
<1>5. CASE Pending
  <2>1. log' = Append(log, "pending") /\ UNCHANGED <<now, call_started>>
        /\ unknown_seen' = 0 /\ Sleeps
    BY <1>1, <1>5, PausesFit DEF Pending, Answered
  <2>2. unknown_seen' = Contract!UnknownRun(log') /\ Contract!VerdictsOf(log') = {"none"}
    BY <1>2, <2>1, RunAfterAnswer DEF Contract!Classes, Contract!VerdictsOf
  <2>3. AnswerEffect("pending")
    BY <1>1, <2>1, <2>2 DEF AnswerEffect
  <2> QED BY <2>3 DEF Contract!Classes
<1>6. CASE Unknown
  <2>1. log' = Append(log, "unknown") /\ UNCHANGED <<now, call_started>>
        /\ unknown_seen' = unknown_seen + 1
        /\ IF unknown_seen + 1 > Grace THEN Finish("StateUnknown") ELSE Sleeps
    BY <1>1, <1>6, PausesFit DEF Unknown, Answered, UnknownLimit
  <2>2. unknown_seen' = Contract!UnknownRun(log')
    BY <1>2, <2>1, RunAfterAnswer DEF Contract!Classes
  <2>3. Contract!VerdictsOf(log') = IF unknown_seen' > Grace THEN {"StateUnknown"} ELSE {"none"}
    BY <1>2, <2>1, <2>2, RunAfterAnswer DEF Contract!Classes, Contract!VerdictsOf
  <2>4. AnswerEffect("unknown")
    BY <1>1, <2>1, <2>2, <2>3 DEF AnswerEffect, Finish, Results
  <2> QED BY <2>4 DEF Contract!Classes
<1>7. ASSUME NEW a \in Contract!Classes, NEW r \in Results \ {"none"}, Final(a, r),
             <<a, r>> \in {<<"certified", "Ok">>, <<"expired", "StateExpired">>,
                           <<"notfound", "StateNotFound">>, <<"malformed", "Error">>}
      PROVE  AnswerEffect(a)
  <2>1. log' = Append(log, a) /\ UNCHANGED <<now, call_started, unknown_seen>> /\ Finish(r)
    BY <1>7 DEF Final, Answered
  <2>2. unknown_seen' = Contract!UnknownRun(log') /\ Contract!VerdictsOf(log') = {r}
    BY <1>2, <1>7, <2>1, RunAfterAnswer DEF Contract!Classes, Contract!VerdictsOf
  <2> QED BY <1>1, <2>1, <2>2 DEF AnswerEffect, Finish
<1>8. CASE \/ Final("certified", "Ok") \/ Final("expired", "StateExpired")
           \/ Final("notfound", "StateNotFound") \/ Final("malformed", "Error")
  BY <1>7, <1>8 DEF Contract!Classes, Results
<1> QED BY <1>3, <1>4, <1>5, <1>6, <1>8 DEF Answer

(* A handler keeps the invariant.                                          *)
LEMMA AnswerKeepsIInv ==
  ASSUME IInv, NEW a \in Contract!Classes, AnswerEffect(a)
  PROVE  IInv'
<1>1. log' \in Seq(Contract!Classes) /\ unknown_seen' \in Nat
  <2>1. log' \in Seq(Contract!Classes)
    BY RunAfterAnswer DEF IInv, TypeOK, AnswerEffect
  <2> QED BY <2>1, RunIsFinite DEF AnswerEffect
<1>2. attempt \in Nat /\ attempt < Attempts /\ now <= Latest(attempt) + MaxRequest
      /\ attempt + 1 \in 0..Attempts /\ now \in Nat
  BY ClockBounded, PollAssumption DEF IInv, TypeOK, AnswerEffect
<1>3. TypeOK'
  BY <1>1, <1>2 DEF IInv, TypeOK, AnswerEffect, Sleeps
<1>4. Timed'
  BY <1>2 DEF Timed, AnswerEffect, Sleeps, Latest, Budget
<1>5. RunCounted'
  BY DEF AnswerEffect, RunCounted
<1> QED BY <1>3, <1>4, <1>5 DEF IInv

(* So does every other step.                                               *)
LEMMA NextKeepsIInv == IInv /\ [Next]_vars => IInv'
<1> SUFFICES ASSUME IInv, [Next]_vars PROVE IInv'
  OBVIOUS
<1>1. CASE Answer
  BY <1>1, AnswersHaveEffect, AnswerKeepsIInv
<1>2. attempt \in Nat /\ Latest(attempt) \in Nat /\ MaxRequest \in Nat
  <2>1. attempt \in Nat
    BY DEF IInv, TypeOK
  <2> QED BY <2>1, LatestGrows, PollAssumption
<1>3. CASE Probe
  <2>1. TypeOK'
    BY <1>3 DEF IInv, TypeOK, Probe, Finish, Results
  <2>2. Timed'
    BY <1>2, <1>3 DEF IInv, TypeOK, Timed, Probe, Finish, Latest, Budget
  <2> QED BY <1>3, <2>1, <2>2 DEF IInv, RunCounted, Probe
<1>4. CASE Wake
  <2>1. TypeOK' /\ Timed'
    BY <1>2, <1>4 DEF IInv, TypeOK, Timed, Wake, Latest, Budget
  <2> QED BY <1>4, <2>1 DEF IInv, RunCounted, Wake
<1>5. CASE Tick
  <2>1. TypeOK' /\ Timed'
    BY <1>2, <1>5 DEF IInv, TypeOK, Timed, Tick, Latest, Budget
  <2> QED BY <1>5, <2>1 DEF IInv, RunCounted, Tick
<1>6. CASE UNCHANGED vars
  BY <1>6 DEF vars, IInv, TypeOK, Timed, RunCounted, Latest, Budget
<1> QED BY <1>1, <1>3, <1>4, <1>5, <1>6 DEF Next, Done

-----------------------------------------------------------------------------
(* The inductive invariant of the attempts loop holds in every state.      *)
THEOREM Invariance == Spec => []IInv
  BY InitEstablishesIInv, NextKeepsIInv, PTL DEF Spec

(* get_inclusion_proof lasts at most its budget, one interval and one      *)
(* request timeout per attempt, whatever Retry-After a server sends.       *)
THEOREM DurationBounded == Spec => []LoopIsBounded
<1>1. IInv => LoopIsBounded
  <2> SUFFICES ASSUME IInv PROVE LoopIsBounded
    OBVIOUS
  <2>1. /\ attempt \in Nat /\ Attempts \in Nat /\ Interval \in Nat /\ MaxRequest \in Nat
        /\ now \in Nat /\ attempt <= Attempts
    BY PollAssumption DEF IInv, TypeOK
  <2>2. now <= Latest(attempt) + MaxRequest
    BY ClockBounded
  <2>3. attempt * Interval <= Attempts * Interval
    <3>1. (Attempts - attempt) * Interval \in Nat
      BY <2>1
    <3>2. (Attempts - attempt) * Interval = Attempts * Interval - attempt * Interval
      BY <2>1
    <3>3. attempt * Interval \in Nat /\ Attempts * Interval \in Nat
      BY <2>1
    <3> QED BY <3>1, <3>2, <3>3
  <2>4. Latest(attempt) + MaxRequest
          = Budget + attempt * Interval + (attempt + 1) * MaxRequest
    BY <2>1 DEF Latest, Budget
  <2>5. Budget \in Nat /\ attempt * Interval \in Nat /\ Attempts * Interval \in Nat
        /\ (attempt + 1) * MaxRequest \in Nat
    BY <2>1 DEF Budget
  <2> QED BY <2>1, <2>2, <2>3, <2>4, <2>5 DEF LoopIsBounded
<1> QED BY Invariance, <1>1, PTL

(* The attempts loop implements ProofRead: each of its steps is one answer *)
(* judged by the verdict rule, the end of the attempts, or nothing.        *)
THEOREM Refinement == Spec => ImplementsProofRead
<1>1. Init => Contract!Init
  BY DEF Init, Contract!Init
<1>2. IInv /\ [Next]_vars => [Contract!Next]_<<log, result>>
  <2> SUFFICES ASSUME IInv, [Next]_vars PROVE [Contract!Next]_<<log, result>>
    OBVIOUS
  <2>1. CASE Answer
    <3>1. PICK a \in Contract!Classes : AnswerEffect(a)
      BY <2>1, AnswersHaveEffect
    <3>2. result = "none" /\ result' \in Contract!VerdictsOf(log') /\ log' = Append(log, a)
      BY <3>1 DEF AnswerEffect, Sleeps, IInv, TypeOK
    <3> QED BY <3>1, <3>2 DEF Contract!Next, Contract!Read
  <2>2. CASE Probe
    BY <2>2 DEF IInv, TypeOK, Probe, Finish, Contract!Next, Contract!Stop
  <2>3. CASE Wake \/ Tick \/ Done \/ UNCHANGED vars
    BY <2>3 DEF Wake, Tick, Done, vars
  <2> QED BY <2>1, <2>2, <2>3 DEF Next
<1> QED
  BY <1>1, <1>2, Invariance, PTL DEF Spec, ImplementsProofRead, Contract!Spec, Contract!readVars
=============================================================================
