------------------------- MODULE ConsolidationProofs -------------------------
(***************************************************************************)
(* Proofs about a consolidation attempt (module Consolidation), for every  *)
(* number of shards and threads, every set of rounds, failures and flaws   *)
(* and every deadline.                                                     *)
(*                                                                         *)
(* The argument has four parts.  Ownership: a job below the shared counter *)
(* either has its result or belongs to exactly one thread.  Order: what    *)
(* each place of the attempt's own thread knows of the master's answer and *)
(* of the wave.  Accounting: which requests are counted and which are not  *)
(* yet.  Lateness: a request can be late only if its thread was past its   *)
(* check when the flag was set, so that late requests and threads past     *)
(* their check together are never more than the threads.                   *)
(***************************************************************************)
EXTENDS Consolidation, FiniteSetTheorems, TLAPS

(* Where the attempt's own thread can be, and where it is before the wave. *)
BeforeWave == {"start", "admit", "evidence", "bound", "mcheck", "mready",
               "mcalling", "manswered", "mplace", "direct"}
Places == BeforeWave \cup {"wave", "place", "finish", "publish", "done"}

(* What a job of the wave may end in.                                      *)
JobResults == {"none", "Ok", "Cancelled", "Timeout", "Transport", "InvalidResponse",
               "Rejected", "Unavailable", "Server"}
Slots   == [result : JobResults, answer : PeerAnswers]
Threads == [at : {"claim", "check", "ready", "calling", "answered", "store", "exited"},
            job : Nat, got : Slots]

(* The variables have their types.                                         *)
TypeOK ==
  /\ sharded \in BOOLEAN /\ kind \in {"token", "bundle"} /\ evidence \in [Groups -> Rounds]
  /\ pc \in Places /\ now \in Nat /\ cancel \in BOOLEAN /\ abort \in BOOLEAN
  /\ mbatch \in MasterAnswers \cup {NoAnswer} /\ wait \in {"no", "sent", "retried"}
  /\ requests \in Nat /\ sent \in Nat /\ late \in Nat
  /\ next \in Nat \ {0}
  /\ worker \in [Workers -> Threads] /\ results \in [Jobs -> Slots]

-----------------------------------------------------------------------------
(* Ownership of the jobs.                                                  *)

(* Thread w has claimed a job and not stored its result yet.               *)
Busy(w) == worker[w].at \in {"check", "ready", "calling", "answered", "store"}

(* A claimed job has its result or a thread, an unclaimed one has neither. *)
Owned ==
  /\ runs = [j \in Jobs |-> IF j < next THEN 1 ELSE 0]
  /\ \A w \in Workers : Busy(w) =>
       /\ worker[w].job \in Jobs /\ worker[w].job < next
       /\ results[worker[w].job].result = "none"
  /\ \A v, w \in Workers : Busy(v) /\ Busy(w) /\ worker[v].job = worker[w].job => v = w
  /\ \A j \in Jobs : results[j].result = "none" =>
       j >= next \/ \E w \in Workers : Busy(w) /\ worker[w].job = j
  /\ \A j \in Jobs : j >= next => results[j].result = "none"

(* A result is there when it is stored, and is a success only of a call    *)
(* that did not fail.                                                      *)
Stored ==
  /\ \A w \in Workers : worker[w].at = "store" =>
       /\ worker[w].got.result # "none"
       /\ worker[w].got.result = "Ok" => worker[w].got.answer.failure = "none"
  /\ \A j \in Jobs : results[j].result = "Ok" => results[j].answer.failure = "none"

(* A thread leaves when no job is left; before the wave none has begun.    *)
Phased ==
  /\ \A w \in Workers : worker[w].at = "exited" => next > NJobs
  /\ pc \in BeforeWave => next = 1 /\ ~abort /\ \A w \in Workers : worker[w].at = "claim"
  /\ pc = "place" => Exited /\ Failing = {}

-----------------------------------------------------------------------------
(* What each place of the attempt knows.                                   *)

(* The master's answer once it is authenticated, but for its leaves.       *)
MasterAdmitted(view) ==
  mbatch.failure = "none" /\ mbatch.flaw \in {"none", "Leaf"} /\ mbatch.view = view

(* The master's answer once it is placed.                                  *)
MasterPlaced(view) ==
  MasterAdmitted(view) /\ mbatch.flaw = "none" /\ mbatch.round >= Bound

(* Everything a success rests on.                                          *)
Verified ==
  /\ MasterPlaced("good") \/ (MasterPlaced("unsharded") /\ ~sharded)
  /\ \A j \in Jobs : results[j].result = "Ok" /\ results[j].answer = NoAnswer

Known ==
  /\ pc = "mplace" => MasterAdmitted("good") /\ mbatch.round >= Bound
  /\ pc = "direct" => MasterAdmitted("unsharded")
  /\ pc \in {"wave", "place"} \/ next > 1 => MasterPlaced("good")
  /\ pc \in {"finish", "publish"} \/ outcome = "Consolidated" => Verified
  /\ pc # "done" => outcome = "none"

-----------------------------------------------------------------------------
(* The requests that are sent, and those the summary counts.               *)
Counted ==
  /\ ~LongPoll => wait = "no"
  /\ IF pc = "mcalling" /\ wait # "no" THEN requests + RequestsMade = sent ELSE requests = sent

(* The threads that are past their check.                                  *)
Past == {w \in Workers : worker[w].at = "ready"}

(* Late requests.  A late master request is a cancelled one, and ends the  *)
(* attempt.                                                                *)
LateBounded ==
  ~LongPoll =>
    /\ late > 0 => cancel \/ abort
    /\ pc \in BeforeWave \ {"mcalling", "manswered"} => late = 0
    /\ pc \in {"mcalling", "manswered"} => late <= 1
    /\ pc = "wave" => late + Cardinality(Past) <= NWorkers
    /\ late <= MaxParallel

IInv == TypeOK /\ Owned /\ Stored /\ Phased /\ Known /\ Counted /\ LateBounded /\ OriginatingFailure

-----------------------------------------------------------------------------
(* Facts about the constants and the derived sets.                         *)

(* A function into the naturals has a largest value on a finite set.       *)
LEMMA LargestExists ==
  ASSUME NEW S, IsFiniteSet(S), S # {}, NEW f \in [S -> Nat]
  PROVE  \E m \in S : \A s \in S : f[s] <= f[m]
<1> DEFINE Above(m) == {s \in S : f[s] > f[m]}
           T == {Above(m) : m \in S}
<1>1. T \subseteq FiniteSubsetsOf(S) /\ T # {}
  <2>1. FiniteSubsetsOf(S) = SUBSET S
    BY FS_FiniteSubsetsOfFinite
  <2>2. T \subseteq SUBSET S
    OBVIOUS
  <2>3. T # {}
    <3>1. PICK m \in S : TRUE
      OBVIOUS
    <3>2. Above(m) \in T
      BY <3>1
    <3> QED BY <3>2
  <2> QED BY <2>1, <2>2, <2>3
<1>2. PICK a \in T : \A b \in T : ~(<<b, a>> \in StrictSubsetOrdering(S))
  BY <1>1, FS_StrictSubsetOrderingWellFounded, WFMin
<1>3. PICK m \in S : a = Above(m)
  BY <1>2
<1>4. Above(m) = {}
  <2> SUFFICES ASSUME NEW s \in S, f[s] > f[m] PROVE FALSE
    OBVIOUS
  <2>1. Above(s) \subseteq Above(m) /\ Above(s) # Above(m)
    OBVIOUS
  <2>2. <<Above(s), Above(m)>> \in StrictSubsetOrdering(S)
    BY <2>1 DEF StrictSubsetOrdering
  <2> QED BY <1>2, <1>3, <2>2
<1> QED BY <1>4

(* A non-empty set of numbers up to n has a smallest element.              *)
LEMMA SmallestExists ==
  ASSUME NEW n \in Nat, NEW S \in SUBSET (1..n), S # {}
  PROVE  \E m \in S : \A s \in S : m <= s
<1> DEFINE f == [s \in S |-> n - s]
<1>1. f \in [S -> Nat]
  OBVIOUS
<1>2. IsFiniteSet(S)
  <2>1. IsFiniteSet(1..n)
    BY FS_Interval
  <2> QED BY <2>1, FS_Subset
<1>3. PICK m \in S : \A s \in S : f[s] <= f[m]
  BY <1>1, <1>2, LargestExists
<1> QED BY <1>3

(* The shards, the jobs of the wave and the threads of the executor.       *)
LEMMA Sizes ==
  ASSUME TypeOK
  PROVE  /\ NShards \in Nat \ {0} /\ NJobs \in Nat /\ NWorkers \in Nat
         /\ NWorkers <= MaxParallel /\ (NJobs > 0 => NWorkers > 0)
         /\ Jobs \subseteq Nat /\ (~sharded => Jobs = {})
         /\ \A j \in Jobs : NJobs > 0 /\ j <= NJobs
<1>1. NShards \in Nat \ {0} /\ (~sharded => NShards = 1)
  BY ConsolidationAssumption DEF TypeOK, NShards
<1>2. NJobs \in Nat /\ (~sharded => NJobs = 0)
  BY <1>1 DEF NJobs
<1>3. /\ NWorkers \in Nat /\ NWorkers <= MaxParallel /\ (NJobs > 0 => NWorkers > 0)
  BY <1>2, ConsolidationAssumption DEF NWorkers
<1> QED BY <1>1, <1>2, <1>3 DEF Jobs

(* The bound is the round of the newest evidence.                          *)
LEMMA BoundIsNewest ==
  ASSUME TypeOK
  PROVE  Bound \in Nat /\ \A g \in Groups : evidence[g] <= Bound
<1>1. IsFiniteSet(Groups) /\ Groups # {}
  <2>1. NShards \in Nat \ {0}
    BY Sizes
  <2>2. IsFiniteSet(1..NShards)
    BY <2>1, FS_Interval
  <2>3. 1 \in 1..NShards
    BY <2>1
  <2> QED BY <2>2, <2>3 DEF Groups
<1>2. evidence \in [Groups -> Nat]
  BY ConsolidationAssumption DEF TypeOK
<1>3. PICK m \in Groups : \A g \in Groups : evidence[g] <= evidence[m]
  BY <1>1, <1>2, LargestExists
<1>4. \E r \in {evidence[g] : g \in Groups} : \A g \in Groups : evidence[g] <= r
  BY <1>3
<1>5. Bound \in {evidence[g] : g \in Groups} /\ \A g \in Groups : evidence[g] <= Bound
  BY <1>4 DEF Bound
<1> QED BY <1>2, <1>5

(* The input of an attempt never changes, nor does what derives from it.   *)
LEMMA InputStays ==
  ASSUME UNCHANGED input
  PROVE  /\ NJobs' = NJobs /\ Jobs' = Jobs /\ Groups' = Groups
         /\ NWorkers' = NWorkers /\ Workers' = Workers /\ Bound' = Bound
         /\ sharded' = sharded /\ kind' = kind /\ evidence' = evidence
<1>1. sharded' = sharded /\ kind' = kind /\ evidence' = evidence
  BY DEF input
<1>2. NShards' = NShards
  BY <1>1 DEF NShards
<1>3. NJobs' = NJobs /\ Groups' = Groups
  BY <1>2 DEF NJobs, Groups
<1>4. NWorkers' = NWorkers /\ Jobs' = Jobs
  BY <1>3 DEF NWorkers, Jobs
<1>5. Workers' = Workers
  BY <1>4 DEF Workers
<1>6. Bound' = Bound
  BY <1>1, <1>3 DEF Bound
<1> QED BY <1>1, <1>3, <1>4, <1>5, <1>6

(* What the budget check can say.                                          *)
LEMMA BudgetVerdict ==
  ASSUME TypeOK
  PROVE  /\ budget_check \in {"Ok", "Cancelled", "Timeout"}
         /\ budget_check = "Ok" => ~cancel /\ ~abort /\ now < Deadline
  BY ConsolidationAssumption DEF TypeOK, budget_check

(* What the answers of a peer are, and what a failed one is classified as. *)
LEMMA PeerAnswerFacts ==
  /\ NoAnswer \in PeerAnswers
  /\ \A a \in PeerAnswers :
       /\ a.failure # "none" => classify(a.failure) \in JobResults \ {"none", "Ok"}
       /\ a.failure = "none" /\ check_batch(a, TRUE) = "Ok" /\ a.flaw # "Leaf" => a = NoAnswer
<1>1. NoAnswer \in PeerAnswers
  <2>1. NoAnswer = [NoAnswer EXCEPT !.flaw = "none"]
    BY DEF NoAnswer
  <2> QED BY <2>1 DEF PeerAnswers
<1>2. ASSUME NEW a \in PeerAnswers
      PROVE  /\ a.failure # "none" => classify(a.failure) \in JobResults \ {"none", "Ok"}
             /\ a.failure = "none" /\ check_batch(a, TRUE) = "Ok" /\ a.flaw # "Leaf" => a = NoAnswer
  <2>1. CASE a \in Failed
    <3>1. PICK f \in Failures : a = [NoAnswer EXCEPT !.failure = f]
      BY <2>1 DEF Failed
    <3>2. a.failure = f
      BY <3>1 DEF NoAnswer
    <3>3. f \in {"Timeout", "Cancelled", "Transport", "Decode", "Unavailable",
                 "malformed_params", "Server"}
      BY ConsolidationAssumption
    <3> QED BY <3>2, <3>3 DEF classify, JobResults
  <2>2. CASE a \in {[NoAnswer EXCEPT !.flaw = f] : f \in {"none"} \cup Flaws}
    <3>1. PICK f \in {"none"} \cup Flaws : a = [NoAnswer EXCEPT !.flaw = f]
      BY <2>2
    <3>2. f \in {"none", "InvalidResponse", "Binding", "RootSubstitution", "Leaf"}
      BY ConsolidationAssumption
    <3>3. a.failure = "none" /\ a.flaw = f /\ a.view = "none"
      BY <3>1 DEF NoAnswer
    <3>4. f = "none" => a = NoAnswer
      BY <3>1 DEF NoAnswer
    <3> QED BY <3>2, <3>3, <3>4 DEF check_batch
  <2>3. CASE a \in {[NoAnswer EXCEPT !.view = "good"]}
    <3>1. a.failure = "none" /\ a.flaw = "none" /\ a.view = "good"
      BY <2>3 DEF NoAnswer
    <3> QED BY <3>1 DEF check_batch
  <2> QED BY <2>1, <2>2, <2>3 DEF PeerAnswers
<1> QED BY <1>1, <1>2

(* What the master's answer is.                                            *)
LEMMA MasterAnswerFacts ==
  ASSUME NEW a \in MasterAnswers \cup {NoAnswer}
  PROVE  /\ a.flaw \in {"none", "InvalidResponse", "Binding", "Leaf"}
         /\ a.view \in {"none", "unsharded", "good", "bad"} /\ a.round \in Nat
         /\ a.failure # "none" => classify(a.failure) # "Consolidated"
<1>1. CASE a = NoAnswer
  BY <1>1 DEF NoAnswer
<1>2. CASE a \in Failed
  <2>1. PICK f \in Failures : a = [NoAnswer EXCEPT !.failure = f]
    BY <1>2 DEF Failed
  <2>2. a.failure = f /\ a.flaw = "none" /\ a.view = "none" /\ a.round = 0
    BY <2>1 DEF NoAnswer
  <2>3. f \in {"Timeout", "Cancelled", "Transport", "Decode", "Unavailable",
               "malformed_params", "Server"}
    BY ConsolidationAssumption
  <2> QED BY <2>2, <2>3 DEF classify
<1>3. CASE a \in [failure : {"none"}, flaw : ({"none"} \cup Flaws) \ {"RootSubstitution"},
                  round : Rounds, view : {"none", "unsharded", "good", "bad"}]
  <2>1. /\ a.failure = "none" /\ a.flaw \in {"none"} \cup Flaws /\ a.flaw # "RootSubstitution"
        /\ a.round \in Rounds /\ a.view \in {"none", "unsharded", "good", "bad"}
    BY <1>3
  <2> QED BY <2>1, ConsolidationAssumption
<1> QED BY <1>1, <1>2, <1>3 DEF MasterAnswers

-----------------------------------------------------------------------------
(* The attempt's own thread.                                               *)

(* No job has a result before the wave, or when it never began.            *)
LEMMA NothingStored ==
  ASSUME IInv, next = 1
  PROVE  /\ \A j \in Jobs : results[j].result = "none"
         /\ \A j \in Jobs : j >= 1
  BY DEF IInv, Owned, Jobs

(* A quiet step leaves the types and the wave as they were.                *)
LEMMA QuietKeepsWave ==
  ASSUME IInv, Quiet, pc' \in Places
  PROVE  /\ TypeOK' /\ Owned' /\ Stored'
         /\ Failing' = Failing /\ (Exited' <=> Exited) /\ Past' = Past
         /\ (MasterPlaced("good")' <=> MasterPlaced("good"))
         /\ (MasterAdmitted("good")' <=> MasterAdmitted("good"))
         /\ (MasterAdmitted("unsharded")' <=> MasterAdmitted("unsharded"))
         /\ (Verified' <=> Verified)
         /\ NJobs' = NJobs /\ NWorkers' = NWorkers /\ Workers' = Workers /\ Jobs' = Jobs
         /\ Bound' = Bound
<1>1. /\ UNCHANGED input
      /\ UNCHANGED <<now, cancel, abort, mbatch, wait, requests, sent, late>>
      /\ UNCHANGED <<next, worker, results, runs>>
  BY DEF Quiet, waveVars
<1>2. /\ NJobs' = NJobs /\ Jobs' = Jobs /\ Groups' = Groups
      /\ NWorkers' = NWorkers /\ Workers' = Workers /\ Bound' = Bound
      /\ sharded' = sharded /\ kind' = kind /\ evidence' = evidence
  BY <1>1, InputStays
<1>3. TypeOK'
  BY <1>1, <1>2 DEF IInv, TypeOK
<1>4. Owned' /\ Stored'
  BY <1>1, <1>2 DEF IInv, Owned, Stored, Busy
<1>5. Failing' = Failing /\ (Exited' <=> Exited) /\ Past' = Past
  BY <1>1, <1>2 DEF Failing, Exited, Past
<1>6. /\ MasterPlaced("good")' <=> MasterPlaced("good")
      /\ MasterPlaced("unsharded")' <=> MasterPlaced("unsharded")
      /\ MasterAdmitted("good")' <=> MasterAdmitted("good")
      /\ MasterAdmitted("unsharded")' <=> MasterAdmitted("unsharded")
  BY <1>1, <1>2 DEF MasterPlaced, MasterAdmitted
<1>7. Verified' <=> Verified
  BY <1>1, <1>2, <1>6 DEF Verified
<1> QED BY <1>2, <1>3, <1>4, <1>5, <1>6, <1>7

(* What a return must establish: a success rests on verified answers, and  *)
(* a stop the caller did not ask for on no other failure.                  *)
LEMMA ReturnKeepsIInv ==
  ASSUME IInv, Quiet, NEW o, Return(o), pc \notin {"done", "mcalling"},
         o = "Consolidated" => Verified,
         o \in {"Cancelled", "Timeout"} /\ ~cancel =>
           \A j \in Jobs : results[j].result \in {"none", "Ok", "Cancelled", "Timeout"}
  PROVE  IInv'
<1>1. /\ pc' = "done" /\ outcome' = o /\ next' = next /\ abort' = abort /\ cancel' = cancel
      /\ late' = late /\ requests' = requests /\ sent' = sent /\ wait' = wait
      /\ worker' = worker /\ results' = results /\ mbatch' = mbatch
  BY DEF Return, Quiet, waveVars
<1>2. pc' \in Places
  BY <1>1 DEF Places
<1>3. Phased'
  BY <1>1, <1>2, QuietKeepsWave DEF IInv, Phased, BeforeWave
<1>4. Known'
  <2>1. next > 1 => MasterPlaced("good")
    BY DEF IInv, Known
  <2>2. MasterPlaced("good")' <=> MasterPlaced("good")
    BY <1>2, QuietKeepsWave
  <2>3. Verified' <=> Verified
    BY <1>2, QuietKeepsWave
  <2> QED BY <1>1, <2>1, <2>2, <2>3 DEF Known
<1>5. Counted'
  BY <1>1 DEF IInv, Counted
<1>6. LateBounded'
  BY <1>1 DEF IInv, LateBounded, BeforeWave
<1>7. OriginatingFailure'
  BY <1>1, <1>2, QuietKeepsWave DEF OriginatingFailure
<1> QED BY <1>2, <1>3, <1>4, <1>5, <1>6, <1>7, QuietKeepsWave DEF IInv

(* A return before the wave, with anything but success.                    *)
LEMMA EarlyReturnKeepsIInv ==
  ASSUME IInv, Quiet, NEW o, Return(o), pc \in BeforeWave \ {"mcalling"}, o # "Consolidated"
  PROVE  IInv'
<1>1. next = 1
  BY DEF IInv, Phased
<1>2. \A j \in Jobs : results[j].result = "none"
  BY <1>1, NothingStored
<1>3. pc \notin {"done", "mcalling"}
  BY DEF BeforeWave
<1> QED BY <1>2, <1>3, ReturnKeepsIInv

(* What going on to p must establish.                                      *)
LEMMA GotoKeepsIInv ==
  ASSUME IInv, Quiet, NEW p \in Places \ {"done", "mcalling", "manswered"}, Goto(p),
         pc \notin {"done", "mcalling"},
         p \in BeforeWave \cup {"wave"} => pc \in BeforeWave /\ (~LongPoll => late = 0),
         p = "mplace" => MasterAdmitted("good") /\ mbatch.round >= Bound,
         p = "direct" => MasterAdmitted("unsharded"),
         p \in {"wave", "place"} => MasterPlaced("good"),
         p = "place" => Exited /\ Failing = {},
         p \in {"finish", "publish"} => Verified
  PROVE  IInv'
<1>1. /\ pc' = p /\ outcome' = outcome /\ next' = next /\ abort' = abort /\ cancel' = cancel
      /\ late' = late /\ requests' = requests /\ sent' = sent /\ wait' = wait
      /\ worker' = worker /\ results' = results /\ mbatch' = mbatch
  BY DEF Goto, Quiet, waveVars
<1>2. pc' \in Places
  BY <1>1
<1>3. outcome = "none"
  BY DEF IInv, Known
<1>4. Phased'
  BY <1>1, <1>2, QuietKeepsWave DEF IInv, Phased
<1>5. Known'
  <2>1. next > 1 => MasterPlaced("good")
    BY DEF IInv, Known
  <2>2. /\ MasterPlaced("good")' <=> MasterPlaced("good")
        /\ MasterAdmitted("good")' <=> MasterAdmitted("good")
        /\ MasterAdmitted("unsharded")' <=> MasterAdmitted("unsharded")
        /\ Verified' <=> Verified
        /\ Bound' = Bound
    BY <1>2, QuietKeepsWave
  <2> QED BY <1>1, <1>3, <2>1, <2>2 DEF Known
<1>6. Counted'
  BY <1>1 DEF IInv, Counted
<1>7. LateBounded'
  <2> SUFFICES ASSUME ~LongPoll PROVE LateBounded'
    BY DEF LateBounded
  <2>1. late <= MaxParallel /\ (late > 0 => cancel \/ abort)
    BY DEF IInv, LateBounded
  <2>2. ASSUME p = "wave" PROVE late + Cardinality(Past) <= NWorkers
    <3>1. Past = {}
      BY <2>2 DEF IInv, Phased, Past
    <3>2. Cardinality({}) = 0
      BY FS_EmptySet
    <3>3. late = 0 /\ NWorkers \in Nat
      BY <2>2, Sizes DEF IInv
    <3> QED BY <3>1, <3>2, <3>3
  <2>3. Past' = Past /\ NWorkers' = NWorkers
    BY <1>2, QuietKeepsWave
  <2> QED BY <1>1, <2>1, <2>2, <2>3 DEF LateBounded
<1>8. OriginatingFailure'
  BY <1>1, <1>3 DEF OriginatingFailure
<1> QED BY <1>2, <1>4, <1>5, <1>6, <1>7, <1>8, QuietKeepsWave DEF IInv

(* The checks that precede the wave and the error each may end in.         *)
LEMMA CheckedKeepsIInv ==
  ASSUME IInv, Quiet, NEW errors, "Consolidated" \notin errors,
         NEW p \in BeforeWave \ {"mcalling", "manswered", "mplace", "direct"},
         pc \in BeforeWave \ {"mcalling", "manswered"}, Checked(errors, p)
  PROVE  IInv'
<1>1. budget_check \in {"Ok", "Cancelled", "Timeout"}
  BY BudgetVerdict DEF IInv
<1>2. CASE Return(budget_check)
  BY <1>1, <1>2, EarlyReturnKeepsIInv
<1>3. CASE \E e \in errors : Return(e)
  <2>1. PICK e \in errors : Return(e)
    BY <1>3
  <2>2. e # "Consolidated"
    BY <2>1
  <2> QED BY <2>1, <2>2, EarlyReturnKeepsIInv
<1>4. CASE Goto(p)
  <2>1. ~LongPoll => late = 0
    BY DEF IInv, LateBounded
  <2>2. /\ pc \notin {"done", "mcalling"} /\ p \in Places \ {"done", "mcalling", "manswered"}
        /\ p \notin {"mplace", "direct", "wave", "place", "finish", "publish"}
    BY DEF BeforeWave, Places
  <2> QED BY <1>4, <2>1, <2>2, GotoKeepsIInv
<1> QED BY <1>2, <1>3, <1>4 DEF Checked

(* The steps from the start to the master's request keep the invariant.    *)
LEMMA AdmissionKeepsIInv ==
  ASSUME IInv, Begin \/ Admit \/ Evidence \/ Bounded \/ MasterCheck
  PROVE  IInv'
<1> USE DEF BeforeWave
<1>1. CASE Begin
  <2>1. pc = "start" /\ Quiet
    BY <1>1 DEF Begin
  <2>2. CASE Checked({"InvalidToken"}, "admit")
    BY <2>1, <2>2, CheckedKeepsIInv
  <2>3. CASE Goto("admit")
    <3>1. ~LongPoll => late = 0
      BY <2>1 DEF IInv, LateBounded
    <3> QED BY <2>1, <2>3, <3>1, GotoKeepsIInv DEF Places
  <2> QED BY <1>1, <2>2, <2>3 DEF Begin
<1>2. CASE Admit
  BY <1>2, CheckedKeepsIInv DEF Admit
<1>3. CASE Evidence
  BY <1>3, CheckedKeepsIInv DEF Evidence
<1>4. CASE Bounded
  <2> DEFINE errors == {"Configuration"} \cup (IF OneSeal THEN {"AlreadyShared"} ELSE {})
  <2>1. "Consolidated" \notin errors
    OBVIOUS
  <2>2. pc = "bound" /\ Quiet /\ Checked(errors, "mcheck")
    BY <1>4 DEF Bounded
  <2> HIDE DEF errors
  <2> QED BY <2>1, <2>2, CheckedKeepsIInv
<1>5. CASE MasterCheck
  <2>1. "Consolidated" \notin {}
    OBVIOUS
  <2> QED BY <1>5, <2>1, CheckedKeepsIInv DEF MasterCheck
<1> QED BY <1>1, <1>2, <1>3, <1>4, <1>5

(* What check_batch can say.                                               *)
LEMMA BatchVerdict ==
  ASSUME NEW a, NEW exact
  PROVE  /\ check_batch(a, exact) \in {"InvalidResponse", "Integrity", "Ok"}
         /\ check_batch(a, exact) = "Ok" => a.flaw \notin {"InvalidResponse", "Binding"}
  BY DEF check_batch

(* The master's answer is judged: only an admitted one goes on.            *)
LEMMA MasterJudgeKeepsIInv ==
  ASSUME IInv, MasterJudge
  PROVE  IInv'
<1>1. pc = "manswered" /\ Quiet /\ pc \in BeforeWave \ {"mcalling"} /\ pc # "done"
  BY DEF MasterJudge, BeforeWave
<1>2. /\ mbatch.flaw \in {"none", "InvalidResponse", "Binding", "Leaf"}
      /\ mbatch.view \in {"none", "unsharded", "good", "bad"} /\ mbatch.round \in Nat
      /\ mbatch.failure # "none" => classify(mbatch.failure) # "Consolidated"
  BY MasterAnswerFacts DEF IInv, TypeOK
<1>3. /\ budget_check \in {"Ok", "Cancelled", "Timeout"}
      /\ budget_check = "Ok" => ~cancel /\ ~abort
  BY BudgetVerdict DEF IInv
<1>4. check_batch(mbatch, FALSE) \in {"InvalidResponse", "Integrity", "Ok"}
  BY BatchVerdict
<1>5. CASE \E o : Return(o) /\ o # "Consolidated"
  BY <1>1, <1>5, EarlyReturnKeepsIInv
<1>6. CASE /\ budget_check = "Ok" /\ mbatch.failure = "none"
           /\ check_batch(mbatch, FALSE) = "Ok"
           /\ \/ mbatch.view = "unsharded" /\ Goto("direct")
              \/ mbatch.view \notin {"none", "unsharded", "bad"} /\ ~(mbatch.round < Bound)
                 /\ Goto("mplace")
  <2>1. mbatch.flaw \in {"none", "Leaf"}
    BY <1>2, <1>6, BatchVerdict
  <2>2. ~LongPoll => late = 0
    BY <1>3, <1>6 DEF IInv, LateBounded, TypeOK
  <2>3. "direct" \in Places /\ "mplace" \in Places
    BY DEF Places, BeforeWave
  <2>4. CASE mbatch.view = "unsharded" /\ Goto("direct")
    <3>1. MasterAdmitted("unsharded")
      BY <1>6, <2>1, <2>4 DEF MasterAdmitted
    <3> QED BY <1>1, <2>2, <2>3, <2>4, <3>1, GotoKeepsIInv
  <2>5. CASE mbatch.view \notin {"none", "unsharded", "bad"} /\ ~(mbatch.round < Bound)
             /\ Goto("mplace")
    <3>1. MasterAdmitted("good")
      BY <1>2, <1>6, <2>1, <2>5 DEF MasterAdmitted
    <3>2. mbatch.round >= Bound
      BY <1>2, <2>5, BoundIsNewest DEF IInv
    <3> QED BY <1>1, <2>2, <2>3, <2>5, <3>1, <3>2, GotoKeepsIInv
  <2> QED BY <1>6, <2>4, <2>5
<1>7. \/ budget_check # "Ok" /\ Return(budget_check)
      \/ mbatch.failure # "none" /\ Return(classify(mbatch.failure))
      \/ check_batch(mbatch, FALSE) # "Ok" /\ Return(check_batch(mbatch, FALSE))
      \/ Return("Unavailable") \/ Return("Integrity")
      \/ /\ budget_check = "Ok" /\ mbatch.failure = "none"
         /\ check_batch(mbatch, FALSE) = "Ok"
         /\ \/ mbatch.view = "unsharded" /\ Goto("direct")
            \/ mbatch.view \notin {"none", "unsharded", "bad"} /\ ~(mbatch.round < Bound)
               /\ Goto("mplace")
  BY DEF MasterJudge
<1>8. ASSUME NEW o, Return(o), o \in {"Cancelled", "Timeout", "Unavailable", "Integrity",
                                       "InvalidResponse"}
      PROVE  IInv'
  BY <1>1, <1>8, EarlyReturnKeepsIInv
<1>9. CASE mbatch.failure # "none" /\ Return(classify(mbatch.failure))
  BY <1>1, <1>2, <1>9, EarlyReturnKeepsIInv
<1> QED BY <1>3, <1>4, <1>6, <1>7, <1>8, <1>9

(* The master's leaves are verified before the wave.                       *)
LEMMA PlaceMasterKeepsIInv ==
  ASSUME IInv, PlaceMaster
  PROVE  IInv'
<1>1. pc = "mplace" /\ Quiet /\ pc \in BeforeWave \ {"mcalling"} /\ pc # "done"
  BY DEF PlaceMaster, BeforeWave
<1>2. /\ budget_check \in {"Ok", "Cancelled", "Timeout"}
  BY BudgetVerdict DEF IInv
<1>3. \/ Return("Integrity") \/ Return("Configuration")
      \/ budget_check # "Ok" /\ Return(budget_check)
      \/ mbatch.flaw # "Leaf" /\ Goto("wave")
  BY DEF PlaceMaster, Checked
<1>4. CASE mbatch.flaw # "Leaf" /\ Goto("wave")
  <2>1. MasterPlaced("good")
    BY <1>1, <1>4 DEF IInv, Known, MasterPlaced, MasterAdmitted
  <2>2. ~LongPoll => late = 0
    BY <1>1 DEF IInv, LateBounded
  <2>3. "wave" \in Places
    BY DEF Places
  <2> QED BY <1>1, <1>4, <2>1, <2>2, <2>3, GotoKeepsIInv DEF BeforeWave
<1> QED BY <1>1, <1>2, <1>3, <1>4, EarlyReturnKeepsIInv

(* The unsharded batch as its own target.                                  *)
LEMMA DirectKeepsIInv ==
  ASSUME IInv, Direct
  PROVE  IInv'
<1>1. pc = "direct" /\ Quiet /\ pc \in BeforeWave \ {"mcalling"} /\ pc # "done"
  BY DEF Direct, BeforeWave
<1>2. /\ budget_check \in {"Ok", "Cancelled", "Timeout"}
  BY BudgetVerdict DEF IInv
<1>3. \/ Return("Integrity") \/ Return("Unavailable")
      \/ budget_check # "Ok" /\ Return(budget_check)
      \/ ~sharded /\ ~(mbatch.round < Bound) /\ mbatch.flaw # "Leaf" /\ Goto("finish")
  BY DEF Direct
<1>4. CASE ~sharded /\ ~(mbatch.round < Bound) /\ mbatch.flaw # "Leaf" /\ Goto("finish")
  <2>1. mbatch.round \in Nat
    BY MasterAnswerFacts DEF IInv, TypeOK
  <2>2. MasterPlaced("unsharded")
    BY <1>1, <1>4, <2>1, BoundIsNewest DEF IInv, Known, MasterPlaced, MasterAdmitted
  <2>3. Jobs = {}
    BY <1>4, Sizes DEF IInv
  <2>4. Verified
    BY <1>4, <2>2, <2>3 DEF Verified
  <2>5. "finish" \in Places /\ "finish" \notin BeforeWave
    BY DEF Places, BeforeWave
  <2> QED BY <1>1, <1>4, <2>4, <2>5, GotoKeepsIInv
<1> QED BY <1>1, <1>2, <1>3, <1>4, EarlyReturnKeepsIInv

(* first_stop is a failure of its own, if any job has one.                 *)
LEMMA FirstStop ==
  ASSUME IInv, Failing # {}
  PROVE  /\ first_stop \in Failing
         /\ Stopped(first_stop) => \A j \in Failing : Stopped(j)
<1> DEFINE real == {j \in Failing : ~Stopped(j)}
           from == IF real = {} THEN Failing ELSE real
<1>1. from # {} /\ from \subseteq Failing
  OBVIOUS
<1>2. from \subseteq 1..NJobs /\ NJobs \in Nat
  BY <1>1, Sizes DEF IInv, Failing, Jobs
<1>3. \E j \in from : \A k \in from : j <= k
  <2> HIDE DEF from
  <2> QED BY <1>1, <1>2, SmallestExists
<1>4. first_stop \in from
  <2>1. first_stop = CHOOSE j \in from : \A k \in from : j <= k
    BY DEF first_stop
  <2> HIDE DEF from
  <2> QED BY <1>3, <2>1
<1> QED BY <1>4

(* The threads are joined.                                                 *)
LEMMA CollectKeepsIInv ==
  ASSUME IInv, Collect
  PROVE  IInv'
<1>1. pc = "wave" /\ Exited /\ Quiet
  BY DEF Collect
<1>2. CASE Failing = {} /\ Goto("place")
  <2>1. MasterPlaced("good")
    BY <1>1 DEF IInv, Known
  <2>2. "place" \in Places /\ "place" \notin BeforeWave
    BY DEF Places, BeforeWave
  <2> QED BY <1>1, <1>2, <2>1, <2>2, GotoKeepsIInv
<1>3. CASE cancel /\ Return("Cancelled")
  BY <1>1, <1>3, ReturnKeepsIInv
<1>4. CASE Failing # {} /\ Return(results[first_stop].result)
  <2>1. first_stop \in Jobs /\ (Stopped(first_stop) => \A j \in Failing : Stopped(j))
    BY <1>4, FirstStop DEF Failing
  <2>2. results[first_stop].result # "Consolidated"
    BY <2>1 DEF IInv, TypeOK, Slots, JobResults
  <2>3. ASSUME results[first_stop].result \in {"Cancelled", "Timeout"}, NEW j \in Jobs
        PROVE  results[j].result \in {"none", "Ok", "Cancelled", "Timeout"}
    BY <2>1, <2>3 DEF Stopped, Failing
  <2> QED BY <1>1, <1>4, <2>2, <2>3, ReturnKeepsIInv
<1> QED BY <1>2, <1>3, <1>4 DEF Collect

(* The peers' batches are judged in order; only flawless ones go on.       *)
LEMMA PlacePeersKeepsIInv ==
  ASSUME IInv, PlacePeers
  PROVE  IInv'
<1>1. pc = "place" /\ Quiet
  BY DEF PlacePeers
<1>2. \A j \in Jobs : results[j].result = "Ok"
  BY <1>1 DEF IInv, Phased, Failing
<1>3. budget_check \in {"Ok", "Cancelled", "Timeout"}
  BY BudgetVerdict DEF IInv
<1>4. \A j : PlaceError(j) \in {"InvalidResponse", "Integrity"}
  BY BatchVerdict DEF PlaceError
<1>5. \/ Return(budget_check)
      \/ \E j : Return(PlaceError(j))
      \/ PlaceErrors = {} /\ Goto("finish")
  BY DEF PlacePeers
<1>6. ASSUME NEW o, Return(o), o # "Consolidated" PROVE IInv'
  BY <1>1, <1>2, <1>6, ReturnKeepsIInv
<1>7. CASE PlaceErrors = {} /\ Goto("finish")
  <2>1. ASSUME NEW j \in Jobs PROVE results[j].answer = NoAnswer
    <3>1. results[j].answer \in PeerAnswers /\ results[j].answer.failure = "none"
      BY <1>2 DEF IInv, TypeOK, Slots, Stored
    <3>2. check_batch(results[j].answer, TRUE) = "Ok" /\ results[j].answer.flaw # "Leaf"
      BY <1>7 DEF PlaceErrors
    <3> QED BY <3>1, <3>2, PeerAnswerFacts
  <2>2. Verified
    BY <1>1, <1>2, <2>1 DEF IInv, Known, Verified
  <2>3. "finish" \in Places /\ "finish" \notin BeforeWave
    BY DEF Places, BeforeWave
  <2> QED BY <1>1, <1>7, <2>2, <2>3, GotoKeepsIInv
<1>8. CASE Return(budget_check)
  BY <1>3, <1>6, <1>8
<1>9. CASE \E j : Return(PlaceError(j))
  <2>1. PICK j : Return(PlaceError(j))
    BY <1>9
  <2>2. PlaceError(j) # "Consolidated"
    BY <1>4
  <2> QED BY <1>6, <2>1, <2>2
<1> QED BY <1>5, <1>7, <1>8, <1>9

(* The last steps.                                                         *)
LEMMA LastStepsKeepIInv ==
  ASSUME IInv, Finish \/ Publish
  PROVE  IInv'
<1>1. pc \in {"finish", "publish"} /\ Quiet /\ Verified
  BY DEF Finish, Publish, IInv, Known
<1>2. \A j \in Jobs : results[j].result = "Ok"
  BY <1>1 DEF Verified
<1>3. ASSUME NEW o, Return(o) PROVE IInv'
  BY <1>1, <1>2, <1>3, ReturnKeepsIInv
<1>4. CASE Goto("publish")
  <2>1. "publish" \in Places /\ "publish" \notin BeforeWave
    BY DEF Places, BeforeWave
  <2> QED BY <1>1, <1>4, <2>1, GotoKeepsIInv
<1> QED BY <1>3, <1>4 DEF Finish, Publish

-----------------------------------------------------------------------------
(* The master's request, the caller and the clock.                         *)

(* What a step that leaves the wave alone keeps of it.                     *)
LEMMA WaveStays ==
  ASSUME IInv, UNCHANGED input, UNCHANGED <<next, worker, results, runs>>
  PROVE  /\ Owned' /\ Stored' /\ Past' = Past /\ NWorkers' = NWorkers
         /\ worker' \in [Workers' -> Threads] /\ results' \in [Jobs' -> Slots]
         /\ next' \in Nat \ {0} /\ evidence' \in [Groups' -> Rounds]
         /\ Failing' = Failing /\ (Exited' <=> Exited)
<1>1. /\ Jobs' = Jobs /\ Groups' = Groups /\ NWorkers' = NWorkers /\ Workers' = Workers
      /\ evidence' = evidence
  BY InputStays
<1>2. Owned' /\ Stored'
  BY <1>1 DEF IInv, Owned, Stored, Busy
<1>3. Past' = Past /\ Failing' = Failing /\ (Exited' <=> Exited)
  BY <1>1 DEF Past, Failing, Exited
<1> QED BY <1>1, <1>2, <1>3 DEF IInv, TypeOK

(* The request, its retry without the wait, and its answer.                *)
LEMMA MasterCallKeepsIInv ==
  ASSUME IInv, MasterRequest \/ MasterRetry \/ MasterAnswer
  PROVE  IInv'
<1>1. /\ UNCHANGED input /\ UNCHANGED <<next, worker, results, runs>>
      /\ UNCHANGED <<now, cancel, abort, outcome>>
      /\ pc \in BeforeWave /\ pc' \in {"mcalling", "manswered"} /\ pc # "done"
  BY DEF MasterRequest, MasterRetry, MasterAnswer, Goto, waveVars, BeforeWave
<1>2. /\ next = 1 /\ ~abort /\ \A w \in Workers : worker[w].at = "claim"
      /\ outcome = "none"
  BY <1>1 DEF IInv, Phased, Known
<1>3. /\ requests \in Nat /\ sent \in Nat /\ late \in Nat /\ cancel \in BOOLEAN
      /\ wait \in {"no", "sent", "retried"} /\ LongPoll \in BOOLEAN
      /\ mbatch \in MasterAnswers \cup {NoAnswer}
  BY ConsolidationAssumption DEF IInv, TypeOK
<1>4. /\ NJobs' = NJobs /\ Workers' = Workers /\ Jobs' = Jobs /\ Groups' = Groups
      /\ sharded' = sharded /\ kind' = kind /\ evidence' = evidence
  BY <1>1, InputStays
<1>5. CASE MasterRequest
  <2>1. /\ pc = "mready" /\ pc' = "mcalling" /\ wait' \in {"no", "sent"}
        /\ (~LongPoll => wait' = "no") /\ mbatch' = mbatch /\ sent' = sent + 1
        /\ requests' = (IF wait' = "no" THEN requests + 1 ELSE requests)
        /\ late' = (IF cancel THEN late + 1 ELSE late)
    BY <1>3, <1>5 DEF MasterRequest, Goto
  <2>2. requests = sent /\ (~LongPoll => late = 0)
    BY <2>1 DEF IInv, Counted, LateBounded, BeforeWave
  <2>3. TypeOK'
    BY <1>1, <1>3, <1>4, <2>1, WaveStays DEF IInv, TypeOK, Places, BeforeWave
  <2>4. Counted'
    BY <1>3, <2>1, <2>2 DEF Counted, RequestsMade
  <2>5. LateBounded'
    BY <1>1, <1>3, <2>1, <2>2, ConsolidationAssumption DEF LateBounded, BeforeWave
  <2>6. Phased' /\ Known' /\ OriginatingFailure'
    BY <1>1, <1>2, <1>4, <2>1 DEF Phased, Known, OriginatingFailure
  <2> QED BY <1>1, <2>3, <2>4, <2>5, <2>6, WaveStays DEF IInv
<1>6. CASE MasterRetry
  <2>1. /\ pc = "mcalling" /\ pc' = "mcalling" /\ wait = "sent" /\ wait' = "retried"
        /\ mbatch' = mbatch /\ sent' = sent + 1 /\ requests' = requests
        /\ late' = (IF cancel THEN late + 1 ELSE late)
    BY <1>6 DEF MasterRetry
  <2>2. LongPoll /\ requests + 1 = sent
    BY <2>1 DEF IInv, Counted, RequestsMade
  <2>3. TypeOK'
    BY <1>1, <1>3, <1>4, <2>1, WaveStays DEF IInv, TypeOK, Places, BeforeWave
  <2>4. Counted'
    BY <1>3, <2>1, <2>2 DEF Counted, RequestsMade
  <2>5. LateBounded'
    BY <2>2 DEF LateBounded
  <2>6. Phased' /\ Known' /\ OriginatingFailure'
    BY <1>1, <1>2, <1>4, <2>1 DEF Phased, Known, OriginatingFailure
  <2> QED BY <1>1, <2>3, <2>4, <2>5, <2>6, WaveStays DEF IInv
<1>7. CASE MasterAnswer
  <2>1. /\ pc = "mcalling" /\ pc' = "manswered" /\ wait' = wait /\ sent' = sent
        /\ mbatch' \in MasterAnswers /\ late' = late
        /\ requests' = (IF wait = "no" THEN requests ELSE requests + RequestsMade)
    BY <1>7 DEF MasterAnswer, Goto
  <2>2. requests' = sent
    BY <2>1 DEF IInv, Counted
  <2>3. TypeOK'
    BY <1>1, <1>3, <1>4, <2>1, <2>2, WaveStays DEF IInv, TypeOK, Places, BeforeWave
  <2>4. Counted'
    BY <2>1, <2>2 DEF IInv, Counted
  <2>5. LateBounded'
    BY <1>1, <1>3, <2>1 DEF IInv, LateBounded, BeforeWave
  <2>6. Phased' /\ Known' /\ OriginatingFailure'
    BY <1>1, <1>2, <1>4, <2>1 DEF Phased, Known, OriginatingFailure
  <2> QED BY <1>1, <2>3, <2>4, <2>5, <2>6, WaveStays DEF IInv
<1> QED BY <1>5, <1>6, <1>7

(* The caller's cancellation, the clock and a stuttering step.             *)
LEMMA EnvironmentKeepsIInv ==
  ASSUME IInv, CallerCancels \/ Tick \/ UNCHANGED vars
  PROVE  IInv'
<1>1. /\ UNCHANGED input /\ UNCHANGED <<next, worker, results, runs>>
      /\ UNCHANGED <<pc, abort, mbatch, wait, requests, sent, late, outcome>>
      /\ cancel' \in BOOLEAN /\ (cancel => cancel') /\ now' \in Nat
      /\ pc = "done" => cancel' = cancel
  <2>1. now \in Nat /\ cancel \in BOOLEAN
    BY DEF IInv, TypeOK
  <2>2. CASE CallerCancels
    BY <2>1, <2>2 DEF CallerCancels, waveVars
  <2>3. CASE Tick
    BY <2>1, <2>3 DEF Tick, waveVars
  <2>4. CASE UNCHANGED vars
    BY <2>1, <2>4 DEF vars, input
  <2> QED BY <2>2, <2>3, <2>4
<1>2. /\ NJobs' = NJobs /\ Workers' = Workers /\ Jobs' = Jobs /\ Groups' = Groups
      /\ sharded' = sharded /\ kind' = kind /\ evidence' = evidence /\ Bound' = Bound
  BY <1>1, InputStays
<1>3. TypeOK'
  BY <1>1, <1>2, WaveStays DEF IInv, TypeOK
<1>4. Phased'
  BY <1>1, <1>2, WaveStays DEF IInv, Phased
<1>5. Known'
  <2>1. /\ MasterPlaced("good")' <=> MasterPlaced("good")
        /\ MasterPlaced("unsharded")' <=> MasterPlaced("unsharded")
        /\ MasterAdmitted("good")' <=> MasterAdmitted("good")
        /\ MasterAdmitted("unsharded")' <=> MasterAdmitted("unsharded")
    BY <1>1, <1>2 DEF MasterPlaced, MasterAdmitted
  <2>2. Verified' <=> Verified
    BY <1>1, <1>2, <2>1 DEF Verified
  <2> QED BY <1>1, <1>2, <2>1, <2>2 DEF IInv, Known
<1>6. Counted'
  BY <1>1 DEF IInv, Counted, RequestsMade
<1>7. LateBounded'
  BY <1>1, WaveStays DEF IInv, LateBounded
<1>8. OriginatingFailure'
  BY <1>1, <1>2 DEF IInv, OriginatingFailure, Known
<1> QED BY <1>1, <1>3, <1>4, <1>5, <1>6, <1>7, <1>8, WaveStays DEF IInv

-----------------------------------------------------------------------------
(* The threads of the wave.                                                *)

(* Thread w goes to place a; the other threads stay where they are.        *)
ThreadMoves(w, a) ==
  /\ worker' \in [Workers -> Threads] /\ worker'[w].at = a
  /\ \A v \in Workers \ {w} : worker'[v] = worker[v]

(* What a step of a thread must keep for the attempt to keep its invariant.*)
LEMMA WaveKeepsIInv ==
  ASSUME IInv, pc = "wave", WaveQuiet,
         worker' \in [Workers -> Threads], results' \in [Jobs -> Slots],
         next' \in Nat, next' >= next, abort' \in BOOLEAN,
         requests' \in Nat, sent' \in Nat, late' \in Nat,
         requests = sent => requests' = sent',
         Owned', Stored', LateBounded',
         \A w \in Workers : worker'[w].at = "exited" => next' > NJobs
  PROVE  IInv'
<1>1. /\ UNCHANGED input
      /\ UNCHANGED <<pc, now, cancel, mbatch, wait, outcome>>
  BY DEF WaveQuiet
<1>2. /\ NJobs' = NJobs /\ Workers' = Workers /\ Jobs' = Jobs /\ Groups' = Groups
      /\ sharded' = sharded /\ kind' = kind /\ evidence' = evidence /\ Bound' = Bound
  BY <1>1, InputStays
<1>3. TypeOK'
  <2>1. next' \in Nat \ {0}
    BY DEF IInv, TypeOK
  <2> QED BY <1>1, <1>2, <2>1 DEF IInv, TypeOK
<1>4. Phased'
  BY <1>1, <1>2 DEF Phased, BeforeWave
<1>5. outcome = "none"
  BY DEF IInv, Known
<1>6. Known'
  <2>1. MasterPlaced("good")'
    BY <1>1, <1>2 DEF IInv, Known, MasterPlaced, MasterAdmitted
  <2> QED BY <1>1, <1>5, <2>1 DEF Known
<1>7. Counted'
  BY <1>1 DEF IInv, Counted
<1>8. OriginatingFailure'
  BY <1>1, <1>5 DEF OriginatingFailure
<1> QED BY <1>3, <1>4, <1>6, <1>7, <1>8 DEF IInv

(* The threads past their check are finitely many, at most all of them.    *)
LEMMA PastIsFinite ==
  ASSUME TypeOK
  PROVE  IsFiniteSet(Past) /\ Cardinality(Past) \in Nat /\ Cardinality(Past) <= NWorkers
<1>1. NWorkers \in Nat
  BY Sizes
<1>2. IsFiniteSet(1..NWorkers) /\ Cardinality(1..NWorkers) = NWorkers
  <2>1. Cardinality(1..NWorkers) = IF 1 > NWorkers THEN 0 ELSE NWorkers - 1 + 1
    BY <1>1, FS_Interval
  <2> QED BY <1>1, <2>1, FS_Interval
<1>3. Past \subseteq 1..NWorkers
  BY DEF Past, Workers
<1>4. IsFiniteSet(Past) /\ Cardinality(Past) <= Cardinality(1..NWorkers)
  BY <1>2, <1>3, FS_Subset
<1> QED BY <1>2, <1>4, FS_CardinalityType

(* A step that sends nothing and lets no thread past its check.            *)
LEMMA NothingLate ==
  ASSUME IInv, pc = "wave", WaveQuiet, late' = late, abort => abort',
         NEW w \in Workers, NEW a, ThreadMoves(w, a), worker[w].at # "ready", a # "ready"
  PROVE  LateBounded'
<1>1. /\ UNCHANGED input /\ pc' = pc /\ cancel' = cancel
  BY DEF WaveQuiet
<1>2. Workers' = Workers /\ NWorkers' = NWorkers
  BY <1>1, InputStays
<1>3. Past' = Past
  BY <1>2 DEF Past, ThreadMoves
<1> QED BY <1>1, <1>2, <1>3 DEF IInv, LateBounded, BeforeWave

(* A busy thread that stays busy with its job owns it still.               *)
LEMMA BusyStaysOwner ==
  ASSUME IInv, WaveQuiet, NEW w \in Workers, Busy(w), Busy(w)',
         NEW a, ThreadMoves(w, a), worker'[w].job = worker[w].job,
         UNCHANGED <<next, results, runs>>
  PROVE  Owned'
<1>1. Workers' = Workers /\ Jobs' = Jobs
  BY InputStays DEF WaveQuiet
<1>2. \A v \in Workers : (Busy(v)' <=> Busy(v)) /\ worker'[v].job = worker[v].job
  BY DEF ThreadMoves, Busy
<1>3. Owned
  BY DEF IInv
<1> HIDE DEF Busy
<1> QED BY <1>1, <1>2, <1>3 DEF Owned

(* A thread that goes anywhere but to its store leaves the results alone.  *)
LEMMA StoredStays ==
  ASSUME IInv, WaveQuiet, NEW w \in Workers, NEW a, ThreadMoves(w, a), a # "store",
         results' = results
  PROVE  Stored'
<1>1. Workers' = Workers /\ Jobs' = Jobs
  BY InputStays DEF WaveQuiet
<1> QED BY <1>1 DEF IInv, Stored, ThreadMoves

(* So does one that goes to its store with a result.                       *)
LEMMA StoredGains ==
  ASSUME IInv, WaveQuiet, NEW w \in Workers, ThreadMoves(w, "store"), results' = results,
         worker'[w].got.result # "none",
         worker'[w].got.result = "Ok" => worker'[w].got.answer.failure = "none"
  PROVE  Stored'
<1>1. Workers' = Workers /\ Jobs' = Jobs
  BY InputStays DEF WaveQuiet
<1> QED BY <1>1 DEF IInv, Stored, ThreadMoves

(* Claiming a job, or leaving when there is none.                          *)
LEMMA ClaimKeepsIInv ==
  ASSUME IInv, NEW w \in Workers, Claim(w)
  PROVE  IInv'
<1>1. /\ pc = "wave" /\ worker[w].at = "claim" /\ WaveQuiet /\ next' = next + 1
      /\ UNCHANGED <<abort, requests, results, sent, late>>
  BY DEF Claim, Working
<1>2. /\ next \in Nat \ {0} /\ worker \in [Workers -> Threads] /\ results \in [Jobs -> Slots]
      /\ worker[w] \in Threads /\ NJobs \in Nat
      /\ abort \in BOOLEAN /\ requests \in Nat /\ sent \in Nat /\ late \in Nat
  BY Sizes DEF IInv, TypeOK
<1>3. Workers' = Workers /\ Jobs' = Jobs /\ NJobs' = NJobs
  BY <1>1, InputStays DEF WaveQuiet
<1>4. Owned /\ ~Busy(w)
  BY <1>1 DEF IInv, Busy
<1>5. CASE next <= NJobs
  <2>1. worker' = [worker EXCEPT ![w].at = "check", ![w].job = next]
        /\ runs' = [runs EXCEPT ![next] = @ + 1]
    BY <1>5 DEF Claim, Take
  <2>2. ThreadMoves(w, "check") /\ worker'[w].job = next
    BY <1>2, <2>1 DEF ThreadMoves, Threads
  <2>3. next \in Jobs
    BY <1>2, <1>5 DEF Jobs
  <2>4. Owned'
    <3>1. Busy(w)' /\ \A v \in Workers \ {w} : (Busy(v)' <=> Busy(v)) /\ worker'[v].job = worker[v].job
      BY <2>2 DEF ThreadMoves, Busy
    <3>2. runs' = [j \in Jobs |-> IF j < next' THEN 1 ELSE 0]
      <4>1. runs = [j \in Jobs |-> IF j < next THEN 1 ELSE 0] /\ Jobs \subseteq Nat
        BY <1>4, Sizes DEF Owned, IInv
      <4> QED BY <1>1, <1>2, <2>1, <2>3, <4>1
    <3>3. \A v \in Workers : Busy(v)' =>
             /\ worker'[v].job \in Jobs /\ worker'[v].job < next'
             /\ results'[worker'[v].job].result = "none"
      <4>1. results[next].result = "none"
        BY <1>2, <1>4, <2>3 DEF Owned
      <4> SUFFICES ASSUME NEW v \in Workers, Busy(v)'
                   PROVE  /\ worker'[v].job \in Jobs /\ worker'[v].job < next'
                          /\ results'[worker'[v].job].result = "none"
        OBVIOUS
      <4>2. CASE v = w
        BY <1>1, <1>2, <2>2, <2>3, <4>1, <4>2
      <4>3. CASE v # w
        <5>1. /\ worker'[v].job = worker[v].job /\ worker[v].job \in Jobs
              /\ worker[v].job < next /\ results[worker[v].job].result = "none"
          BY <1>4, <3>1, <4>3 DEF Owned
        <5>2. worker[v].job \in Nat
          BY <5>1, Sizes DEF IInv
        <5> QED BY <1>1, <1>2, <5>1, <5>2
      <4> QED BY <4>2, <4>3
    <3>4. \A u, v \in Workers : Busy(u)' /\ Busy(v)' /\ worker'[u].job = worker'[v].job => u = v
      <4>1. \A v \in Workers \ {w} : Busy(v)' => worker'[v].job # next
        BY <1>2, <1>4, <3>1, Sizes DEF Owned, IInv
      <4> QED BY <1>4, <2>2, <3>1, <4>1 DEF Owned
    <3>5. \A j \in Jobs : results'[j].result = "none" =>
             j >= next' \/ \E v \in Workers : Busy(v)' /\ worker'[v].job = j
      <4> SUFFICES ASSUME NEW j \in Jobs, results[j].result = "none", ~(j >= next')
                   PROVE  \E v \in Workers : Busy(v)' /\ worker'[v].job = j
        BY <1>1
      <4>1. CASE j = next
        BY <2>2, <3>1, <4>1
      <4>2. CASE j # next
        <5>1. ~(j >= next)
          BY <1>1, <1>2, <4>2, Sizes DEF IInv
        <5>2. PICK v \in Workers : Busy(v) /\ worker[v].job = j
          BY <1>4, <5>1 DEF Owned
        <5> QED BY <1>4, <3>1, <5>2
      <4> QED BY <4>1, <4>2
    <3>6. \A j \in Jobs : j >= next' => results'[j].result = "none"
      BY <1>1, <1>2, <1>4, Sizes DEF Owned, IInv
    <3> QED BY <1>3, <3>2, <3>3, <3>4, <3>5, <3>6 DEF Owned
  <2>5. Stored' /\ LateBounded'
    BY <1>1, <2>2, StoredStays, NothingLate
  <2>6. \A v \in Workers : worker'[v].at = "exited" => next' > NJobs
    BY <1>1, <1>2, <2>2 DEF IInv, Phased, ThreadMoves
  <2> QED BY <1>1, <1>2, <2>2, <2>4, <2>5, <2>6, WaveKeepsIInv DEF ThreadMoves
<1>6. CASE ~(next <= NJobs)
  <2>1. worker' = [worker EXCEPT ![w].at = "exited"] /\ runs' = runs
    BY <1>6 DEF Claim, Leave
  <2>2. ThreadMoves(w, "exited")
    BY <1>2, <2>1 DEF ThreadMoves, Threads
  <2>3. \A v \in Workers : (Busy(v)' <=> Busy(v)) /\ worker'[v].job = worker[v].job
    BY <1>2, <1>4, <2>1, <2>2 DEF ThreadMoves, Busy, Threads
  <2>4. \A j \in Jobs : j \in Nat /\ j < next /\ j < next'
    BY <1>1, <1>2, <1>6, Sizes DEF IInv
  <2>5. Owned'
    <3>1. runs' = [j \in Jobs |-> IF j < next' THEN 1 ELSE 0]
      BY <1>4, <2>1, <2>4 DEF Owned
    <3>2. \A j \in Jobs : ~(j >= next) /\ ~(j >= next')
      BY <1>1, <1>2, <2>4
    <3> HIDE DEF Busy
    <3> QED BY <1>1, <1>3, <1>4, <2>3, <2>4, <3>1, <3>2 DEF Owned
  <2>6. Stored' /\ LateBounded'
    BY <1>1, <2>2, StoredStays, NothingLate
  <2>7. next' > NJobs
    BY <1>1, <1>2, <1>6
  <2> QED BY <1>1, <1>2, <2>2, <2>5, <2>6, <2>7, WaveKeepsIInv DEF ThreadMoves
<1> QED BY <1>5, <1>6

(* The budget check of a job: a thread gets past it only while no flag is  *)
(* set, and then no request was late yet.                                  *)
LEMMA PeerCheckKeepsIInv ==
  ASSUME IInv, NEW w \in Workers, PeerCheck(w)
  PROVE  IInv'
<1>1. /\ pc = "wave" /\ worker[w].at = "check" /\ WaveQuiet
      /\ UNCHANGED <<abort, requests, next, results, runs, sent, late>>
  BY DEF PeerCheck, Working
<1>2. /\ next \in Nat /\ worker \in [Workers -> Threads] /\ results \in [Jobs -> Slots]
      /\ worker[w] \in Threads /\ worker[w].got \in Slots
      /\ abort \in BOOLEAN /\ requests \in Nat /\ sent \in Nat /\ late \in Nat
  BY DEF IInv, TypeOK, Threads
<1>3. /\ budget_check \in {"Ok", "Cancelled", "Timeout"}
      /\ budget_check = "Ok" => ~cancel /\ ~abort
  BY BudgetVerdict DEF IInv
<1>4. CASE budget_check = "Ok"
  <2>1. ThreadMoves(w, "ready") /\ worker'[w].job = worker[w].job
    BY <1>2, <1>4 DEF PeerCheck, ThreadMoves, Threads
  <2>2. Busy(w) /\ Busy(w)'
    BY <1>1, <2>1 DEF Busy, ThreadMoves
  <2>3. Owned' /\ Stored'
    BY <1>1, <2>1, <2>2, BusyStaysOwner, StoredStays
  <2>4. LateBounded'
    <3> SUFFICES ASSUME ~LongPoll PROVE LateBounded'
      BY DEF LateBounded
    <3>1. late' = 0 /\ pc' = "wave" /\ NWorkers' = NWorkers /\ Workers' = Workers
      BY <1>1, <1>2, <1>3, <1>4, InputStays DEF IInv, LateBounded, WaveQuiet
    <3>2. Cardinality(Past') <= NWorkers /\ Cardinality(Past') \in Nat
      <4>1. Past' \subseteq 1..NWorkers /\ NWorkers \in Nat
        BY <3>1, Sizes DEF Past, Workers, IInv
      <4>2. IsFiniteSet(1..NWorkers) /\ Cardinality(1..NWorkers) = NWorkers
        <5>1. Cardinality(1..NWorkers) = IF 1 > NWorkers THEN 0 ELSE NWorkers - 1 + 1
          BY <4>1, FS_Interval
        <5> QED BY <4>1, <5>1, FS_Interval
      <4>3. IsFiniteSet(Past') /\ Cardinality(Past') <= Cardinality(1..NWorkers)
        BY <4>1, <4>2, FS_Subset
      <4> QED BY <4>2, <4>3, FS_CardinalityType
    <3>3. MaxParallel \in Nat
      BY ConsolidationAssumption
    <3> QED BY <3>1, <3>2, <3>3 DEF LateBounded, BeforeWave
  <2>5. \A v \in Workers : worker'[v].at = "exited" => next' > NJobs
    BY <1>1, <2>1 DEF IInv, Phased, ThreadMoves
  <2> QED BY <1>1, <1>2, <2>1, <2>3, <2>4, <2>5, WaveKeepsIInv DEF ThreadMoves
<1>5. CASE budget_check # "Ok"
  <2>1. worker' = [worker EXCEPT ![w].at = "store", ![w].got.result = budget_check]
    BY <1>5 DEF PeerCheck
  <2>2. budget_check \in JobResults
    BY <1>3 DEF JobResults
  <2>3. /\ ThreadMoves(w, "store") /\ worker'[w].job = worker[w].job
        /\ worker'[w].got.result = budget_check
    BY <1>2, <2>1, <2>2 DEF ThreadMoves, Threads, Slots
  <2>4. Busy(w) /\ Busy(w)'
    BY <1>1, <2>3 DEF Busy, ThreadMoves
  <2>5. Owned'
    BY <1>1, <2>3, <2>4, BusyStaysOwner
  <2>6. Stored'
    BY <1>1, <1>3, <1>5, <2>3, StoredGains
  <2>7. LateBounded'
    BY <1>1, <2>3, NothingLate
  <2>8. \A v \in Workers : worker'[v].at = "exited" => next' > NJobs
    BY <1>1, <2>3 DEF IInv, Phased, ThreadMoves
  <2> QED BY <1>1, <1>2, <2>3, <2>5, <2>6, <2>7, <2>8, WaveKeepsIInv DEF ThreadMoves
<1> QED BY <1>4, <1>5

(* The request of a job: a late one uses up its thread's place.            *)
LEMMA PeerRequestKeepsIInv ==
  ASSUME IInv, NEW w \in Workers, PeerRequest(w)
  PROVE  IInv'
<1>1. /\ pc = "wave" /\ worker[w].at = "ready" /\ WaveQuiet
      /\ requests' = requests + 1 /\ sent' = sent + 1
      /\ late' = (IF cancel \/ abort THEN late + 1 ELSE late)
      /\ UNCHANGED <<abort, next, results, runs>>
  BY DEF PeerRequest, Working
<1>2. /\ next \in Nat /\ worker \in [Workers -> Threads] /\ results \in [Jobs -> Slots]
      /\ worker[w] \in Threads
      /\ abort \in BOOLEAN /\ requests \in Nat /\ sent \in Nat /\ late \in Nat
  BY DEF IInv, TypeOK
<1>3. ThreadMoves(w, "calling") /\ worker'[w].job = worker[w].job
  BY <1>2 DEF PeerRequest, ThreadMoves, Threads
<1>4. Busy(w) /\ Busy(w)'
  BY <1>1, <1>3 DEF Busy, ThreadMoves
<1>5. Owned' /\ Stored'
  BY <1>1, <1>3, <1>4, BusyStaysOwner, StoredStays
<1>6. LateBounded'
  <2> SUFFICES ASSUME ~LongPoll PROVE LateBounded'
    BY DEF LateBounded
  <2>1. /\ late + Cardinality(Past) <= NWorkers /\ NWorkers \in Nat /\ MaxParallel \in Nat
        /\ NWorkers <= MaxParallel /\ (late > 0 => cancel \/ abort)
    BY <1>1, Sizes, ConsolidationAssumption DEF IInv, LateBounded
  <2>2. /\ UNCHANGED <<pc, cancel>> /\ NWorkers' = NWorkers /\ Workers' = Workers
    BY <1>1, InputStays DEF WaveQuiet
  <2>3. w \in Past /\ Past' = Past \ {w}
    BY <1>1, <1>3, <2>2 DEF Past, ThreadMoves
  <2>4. IsFiniteSet(Past) /\ Cardinality(Past) \in Nat
    BY PastIsFinite DEF IInv
  <2>5. Cardinality(Past') = Cardinality(Past) - 1 /\ Cardinality(Past') \in Nat
    <3>1. IsFiniteSet(Past \ {w}) /\ Cardinality(Past \ {w}) = Cardinality(Past) - 1
      BY <2>3, <2>4, FS_RemoveElement
    <3> QED BY <2>3, <3>1, FS_CardinalityType
  <2>6. late' + Cardinality(Past') <= NWorkers /\ late' \in Nat
    BY <1>1, <1>2, <2>1, <2>4, <2>5
  <2>7. late' <= MaxParallel
    BY <2>1, <2>5, <2>6
  <2>8. late' > 0 => cancel' \/ abort'
    BY <1>1, <1>2, <2>1, <2>2
  <2> QED BY <1>1, <2>2, <2>6, <2>7, <2>8 DEF LateBounded, BeforeWave
<1>7. \A v \in Workers : worker'[v].at = "exited" => next' > NJobs
  BY <1>1, <1>3 DEF IInv, Phased, ThreadMoves
<1>8. late' \in Nat /\ requests' \in Nat /\ sent' \in Nat
  BY <1>1, <1>2
<1> QED BY <1>1, <1>2, <1>3, <1>5, <1>6, <1>7, <1>8, WaveKeepsIInv DEF ThreadMoves

(* The answer of a call.                                                   *)
LEMMA PeerAnswerKeepsIInv ==
  ASSUME IInv, NEW w \in Workers, PeerAnswer(w)
  PROVE  IInv'
<1>1. /\ pc = "wave" /\ worker[w].at = "calling" /\ WaveQuiet
      /\ UNCHANGED <<abort, requests, next, results, runs, sent, late>>
  BY DEF PeerAnswer, Working
<1>2. /\ next \in Nat /\ worker \in [Workers -> Threads] /\ results \in [Jobs -> Slots]
      /\ worker[w] \in Threads /\ worker[w].got \in Slots
      /\ abort \in BOOLEAN /\ requests \in Nat /\ sent \in Nat /\ late \in Nat
  BY DEF IInv, TypeOK, Threads
<1>3. ThreadMoves(w, "answered") /\ worker'[w].job = worker[w].job
  <2>1. PICK a \in PeerAnswers :
          worker' = [worker EXCEPT ![w].at = "answered", ![w].got.answer = a]
    BY DEF PeerAnswer
  <2> QED BY <1>2, <2>1 DEF ThreadMoves, Threads, Slots
<1>4. Busy(w) /\ Busy(w)'
  BY <1>1, <1>3 DEF Busy, ThreadMoves
<1>5. Owned' /\ Stored' /\ LateBounded'
  BY <1>1, <1>3, <1>4, BusyStaysOwner, StoredStays, NothingLate
<1>6. \A v \in Workers : worker'[v].at = "exited" => next' > NJobs
  BY <1>1, <1>3 DEF IInv, Phased, ThreadMoves
<1> QED BY <1>1, <1>2, <1>3, <1>5, <1>6, WaveKeepsIInv DEF ThreadMoves

(* The verdict of a job.                                                   *)
LEMMA PeerJudgeKeepsIInv ==
  ASSUME IInv, NEW w \in Workers, PeerJudge(w)
  PROVE  IInv'
<1>1. /\ pc = "wave" /\ worker[w].at = "answered" /\ WaveQuiet
      /\ UNCHANGED <<abort, requests, next, results, runs, sent, late>>
  BY DEF PeerJudge, Working
<1>2. /\ next \in Nat /\ worker \in [Workers -> Threads] /\ results \in [Jobs -> Slots]
      /\ worker[w] \in Threads /\ worker[w].got \in Slots /\ worker[w].got.answer \in PeerAnswers
      /\ abort \in BOOLEAN /\ requests \in Nat /\ sent \in Nat /\ late \in Nat
  BY DEF IInv, TypeOK, Threads, Slots
<1> DEFINE a == worker[w].got.answer
           r == ResultOf(a)
<1>3. r \in JobResults \ {"none"} /\ (r = "Ok" => a.failure = "none")
  <2>1. budget_check \in {"Ok", "Cancelled", "Timeout"}
    BY BudgetVerdict DEF IInv
  <2>2. a.failure # "none" => classify(a.failure) \in JobResults \ {"none", "Ok"}
    BY <1>2, PeerAnswerFacts
  <2> HIDE DEF a
  <2> QED BY <2>1, <2>2 DEF ResultOf, JobResults
<1>4. worker' = [worker EXCEPT ![w].at = "store", ![w].got.result = r]
  BY DEF PeerJudge
<1> HIDE DEF r
<1>5. /\ ThreadMoves(w, "store") /\ worker'[w].job = worker[w].job
      /\ worker'[w].got.result = r /\ worker'[w].got.answer = a
  BY <1>2, <1>3, <1>4 DEF ThreadMoves, Threads, Slots
<1>6. Busy(w) /\ Busy(w)'
  BY <1>1, <1>5 DEF Busy, ThreadMoves
<1>7. Owned' /\ LateBounded'
  BY <1>1, <1>5, <1>6, BusyStaysOwner, NothingLate
<1>8. Stored'
  BY <1>1, <1>3, <1>5, StoredGains
<1>9. \A v \in Workers : worker'[v].at = "exited" => next' > NJobs
  BY <1>1, <1>5 DEF IInv, Phased, ThreadMoves
<1> QED BY <1>1, <1>2, <1>5, <1>7, <1>8, <1>9, WaveKeepsIInv DEF ThreadMoves

(* A result is stored in its job's slot, and nobody else's.                *)
LEMMA PeerStoreKeepsIInv ==
  ASSUME IInv, NEW w \in Workers, PeerStore(w)
  PROVE  IInv'
<1> DEFINE job == worker[w].job
           got == worker[w].got
<1>1. /\ pc = "wave" /\ worker[w].at = "store" /\ WaveQuiet
      /\ abort' = (abort \/ got.result # "Ok")
      /\ results' = [results EXCEPT ![job] = got]
      /\ worker' = [worker EXCEPT ![w].at = "claim", ![w].got = NoResult]
      /\ UNCHANGED <<requests, next, runs, sent, late>>
  BY DEF PeerStore, Working
<1>2. /\ next \in Nat /\ worker \in [Workers -> Threads] /\ results \in [Jobs -> Slots]
      /\ worker[w] \in Threads /\ got \in Slots
      /\ abort \in BOOLEAN /\ requests \in Nat /\ sent \in Nat /\ late \in Nat
  BY DEF IInv, TypeOK, Threads
<1>3. Owned /\ Busy(w) /\ job \in Jobs /\ job < next
  BY <1>1 DEF IInv, Owned, Busy
<1>4. got.result # "none" /\ (got.result = "Ok" => got.answer.failure = "none")
  BY <1>1 DEF IInv, Stored
<1>5. ThreadMoves(w, "claim")
  <2>1. NoResult \in Slots
    BY PeerAnswerFacts DEF NoResult, Slots, JobResults
  <2> QED BY <1>1, <1>2, <2>1 DEF ThreadMoves, Threads
<1>6. Workers' = Workers /\ Jobs' = Jobs
  BY <1>1, InputStays DEF WaveQuiet
<1> HIDE DEF job, got
<1>7. /\ results' \in [Jobs -> Slots] /\ results'[job] = got
      /\ \A j \in Jobs \ {job} : results'[j] = results[j]
  BY <1>1, <1>2, <1>3
<1>8. Owned'
  <2>1. /\ ~(Busy(w)')
        /\ \A v \in Workers \ {w} : (Busy(v)' <=> Busy(v)) /\ worker'[v].job = worker[v].job
    BY <1>5 DEF ThreadMoves, Busy
  <2>2. \A v \in Workers \ {w} : Busy(v) => worker[v].job # job
    BY <1>3 DEF Owned, job
  <2>3. \A v \in Workers : Busy(v)' =>
           /\ worker'[v].job \in Jobs /\ worker'[v].job < next'
           /\ results'[worker'[v].job].result = "none"
    <3> SUFFICES ASSUME NEW v \in Workers, Busy(v)'
                 PROVE  /\ worker'[v].job \in Jobs /\ worker'[v].job < next'
                        /\ results'[worker'[v].job].result = "none"
      OBVIOUS
    <3>1. v # w
      BY <2>1
    <3>2. /\ worker'[v].job = worker[v].job /\ worker[v].job \in Jobs
          /\ worker[v].job < next /\ results[worker[v].job].result = "none"
          /\ worker[v].job # job
      BY <1>3, <2>1, <2>2, <3>1 DEF Owned
    <3> QED BY <1>1, <1>7, <3>2
  <2>4. \A u, v \in Workers : Busy(u)' /\ Busy(v)' /\ worker'[u].job = worker'[v].job => u = v
    BY <1>3, <2>1 DEF Owned
  <2>5. \A j \in Jobs : results'[j].result = "none" =>
           j >= next' \/ \E v \in Workers : Busy(v)' /\ worker'[v].job = j
    <3> SUFFICES ASSUME NEW j \in Jobs, results'[j].result = "none", ~(j >= next')
                 PROVE  \E v \in Workers : Busy(v)' /\ worker'[v].job = j
      OBVIOUS
    <3>1. j # job /\ results[j].result = "none" /\ ~(j >= next)
      BY <1>1, <1>4, <1>7
    <3>2. PICK v \in Workers : Busy(v) /\ worker[v].job = j
      BY <1>3, <3>1 DEF Owned
    <3>3. v # w
      BY <3>1, <3>2 DEF job
    <3> QED BY <2>1, <3>2, <3>3
  <2>6. \A j \in Jobs : j >= next' => results'[j].result = "none"
    <3> SUFFICES ASSUME NEW j \in Jobs, j >= next PROVE results'[j].result = "none"
      BY <1>1
    <3>1. j # job
      BY <1>2, <1>3, Sizes DEF IInv
    <3> QED BY <1>3, <1>7, <3>1 DEF Owned
  <2>7. runs' = [j \in Jobs |-> IF j < next' THEN 1 ELSE 0]
    BY <1>1, <1>3 DEF Owned
  <2> HIDE DEF Busy
  <2> QED BY <1>6, <2>3, <2>4, <2>5, <2>6, <2>7 DEF Owned
<1>9. Stored'
  BY <1>4, <1>5, <1>6, <1>7 DEF IInv, Stored, ThreadMoves
<1>10. LateBounded'
  BY <1>1, <1>5, NothingLate
<1>11. \A v \in Workers : worker'[v].at = "exited" => next' > NJobs
  BY <1>1, <1>5 DEF IInv, Phased, ThreadMoves
<1>12. abort' \in BOOLEAN
  BY <1>1
<1> QED BY <1>1, <1>2, <1>5, <1>7, <1>8, <1>9, <1>10, <1>11, <1>12, WaveKeepsIInv DEF ThreadMoves

-----------------------------------------------------------------------------
(* The attempt starts in the invariant.                                    *)
LEMMA InitEstablishesIInv == Init => IInv
<1> SUFFICES ASSUME Init PROVE IInv
  OBVIOUS
<1>1. /\ pc = "start" /\ now = 0 /\ cancel = FALSE /\ abort = FALSE /\ mbatch = NoAnswer
      /\ wait = "no" /\ requests = 0 /\ sent = 0 /\ late = 0 /\ next = 1 /\ outcome = "none"
      /\ sharded \in BOOLEAN /\ kind \in {"token", "bundle"} /\ evidence \in [Groups -> Rounds]
      /\ worker = [w \in Workers |-> [at |-> "claim", job |-> 0, got |-> NoResult]]
      /\ results = [j \in Jobs |-> NoResult] /\ runs = [j \in Jobs |-> 0]
  BY DEF Init
<1>2. NoResult \in Slots /\ NoResult.result = "none"
  BY PeerAnswerFacts DEF NoResult, Slots, JobResults
<1>3. worker \in [Workers -> Threads] /\ results \in [Jobs -> Slots]
  BY <1>1, <1>2 DEF Threads
<1>4. cancel \in BOOLEAN /\ abort \in BOOLEAN
  BY <1>1
<1> HIDE DEF Init
<1>5. TypeOK
  BY <1>1, <1>3, <1>4 DEF TypeOK, Places, BeforeWave
<1>6. \A w \in Workers : worker[w].at = "claim" /\ ~Busy(w)
  BY <1>1 DEF Busy
<1>7. \A j \in Jobs : j >= 1 /\ ~(j < 1) /\ results[j].result = "none"
  BY <1>1, <1>2, Sizes, <1>5 DEF Jobs
<1>8. Owned
  <2>1. runs = [j \in Jobs |-> IF j < next THEN 1 ELSE 0]
    BY <1>1, <1>7
  <2> QED BY <1>1, <1>6, <1>7, <2>1 DEF Owned
<1>9. Stored /\ Phased
  BY <1>1, <1>6, <1>7 DEF Stored, Phased
<1>10. Known /\ Counted /\ OriginatingFailure
  BY <1>1 DEF Known, Counted, OriginatingFailure
<1>11. LateBounded
  BY <1>1, ConsolidationAssumption DEF LateBounded
<1> QED BY <1>5, <1>8, <1>9, <1>10, <1>11 DEF IInv

(* The inductive invariant of an attempt holds in every state.             *)
THEOREM Invariance == Spec => []IInv
<1>1. IInv /\ [Next]_vars => IInv'
  <2> SUFFICES ASSUME IInv, [Next]_vars PROVE IInv'
    OBVIOUS
  <2>1. CASE MainStep
    BY <2>1, AdmissionKeepsIInv, MasterCallKeepsIInv, MasterJudgeKeepsIInv, PlaceMasterKeepsIInv,
       DirectKeepsIInv, CollectKeepsIInv, PlacePeersKeepsIInv, LastStepsKeepIInv DEF MainStep
  <2>2. CASE \E w \in Workers : PeerStep(w)
    BY <2>2, ClaimKeepsIInv, PeerCheckKeepsIInv, PeerRequestKeepsIInv, PeerAnswerKeepsIInv,
       PeerJudgeKeepsIInv, PeerStoreKeepsIInv DEF PeerStep
  <2>3. CASE CallerCancels \/ Tick \/ Done \/ UNCHANGED vars
    BY <2>3, EnvironmentKeepsIInv DEF Done
  <2> QED BY <2>1, <2>2, <2>3 DEF Next
<1> QED BY InitEstablishesIInv, <1>1, PTL DEF Spec

(* Every variable of the attempt keeps its type.                           *)
THEOREM TypeCorrect == Spec => []TypeOK
<1>1. IInv => TypeOK
  BY DEF IInv
<1> QED BY Invariance, <1>1, PTL

(* A reported success rests on an authenticated master batch that is not   *)
(* older than any evidence and on a flawless batch of every peer, and its  *)
(* summary counts every request sent.                                      *)
THEOREM SoundSuccess == Spec => []SuccessIsSound
<1>1. IInv => SuccessIsSound
  <2> SUFFICES ASSUME IInv, outcome = "Consolidated"
               PROVE  /\ mbatch.failure = "none" /\ mbatch.flaw = "none"
                      /\ mbatch.view \in {"good", "unsharded"}
                      /\ mbatch.view = "unsharded" => ~sharded
                      /\ \A g \in Groups : mbatch.round >= evidence[g]
                      /\ \A j \in Jobs : results[j].result = "Ok" /\ results[j].answer = NoAnswer
                      /\ requests = sent
    BY DEF SuccessIsSound
  <2>1. Verified /\ pc = "done"
    BY DEF IInv, Known
  <2>2. requests = sent
    BY <2>1 DEF IInv, Counted
  <2>3. mbatch.round \in Nat /\ mbatch.round >= Bound
    BY <2>1, MasterAnswerFacts DEF IInv, TypeOK, Verified, MasterPlaced
  <2>4. ASSUME NEW g \in Groups PROVE mbatch.round >= evidence[g]
    <3>1. evidence[g] <= Bound /\ Bound \in Nat
      BY BoundIsNewest DEF IInv
    <3>2. evidence[g] \in Nat
      BY ConsolidationAssumption DEF IInv, TypeOK
    <3> QED BY <2>3, <3>1, <3>2
  <2> QED BY <2>1, <2>2, <2>4 DEF Verified, MasterPlaced, MasterAdmitted
<1> QED BY Invariance, <1>1, PTL

(* No peer is contacted before everything of the master's answer was       *)
(* verified.                                                               *)
THEOREM MasterVerifiedFirst == Spec => []MasterFirst
<1>1. IInv => MasterFirst
  <2> SUFFICES ASSUME IInv, NEW j \in Jobs, runs[j] > 0
               PROVE  /\ mbatch.failure = "none" /\ mbatch.flaw = "none" /\ mbatch.view = "good"
                      /\ mbatch.round >= Bound
    BY DEF MasterFirst
  <2>1. j < next
    BY DEF IInv, Owned
  <2>2. next > 1
    BY <2>1 DEF IInv, TypeOK, Jobs
  <2> QED BY <2>2 DEF IInv, Known, MasterPlaced, MasterAdmitted
<1> QED BY Invariance, <1>1, PTL

(* ThreadedExecutor runs every job exactly once, for every number of jobs  *)
(* and threads, and has a result for each when the threads are joined.     *)
THEOREM ExactlyOnce == Spec => []JobsExactlyOnce
<1>1. IInv => JobsExactlyOnce
  <2> SUFFICES ASSUME IInv, Exited, NEW j \in Jobs
               PROVE  runs[j] = 1 /\ results[j].result # "none"
    BY DEF JobsExactlyOnce, IInv, Phased
  <2>1. NWorkers \in Nat /\ NWorkers > 0 /\ j \in Nat /\ j <= NJobs /\ NJobs \in Nat
    BY Sizes DEF IInv
  <2>2. 1 \in Workers
    BY <2>1 DEF Workers
  <2>3. next > NJobs /\ next \in Nat
    BY <2>2 DEF Exited, IInv, Phased, TypeOK
  <2>4. j < next /\ ~(j >= next)
    BY <2>1, <2>3
  <2>5. \A w \in Workers : ~Busy(w)
    BY DEF Exited, Busy
  <2> QED BY <2>4, <2>5 DEF IInv, Owned
<1> QED BY Invariance, <1>1, PTL

(* The failure that took the attempt down is reported, not the stops it    *)
(* caused in the other threads.                                            *)
THEOREM FailureReported == Spec => []OriginatingFailure
<1>1. IInv => OriginatingFailure
  BY DEF IInv
<1> QED BY Invariance, <1>1, PTL

(* Once the attempt is stopped, each thread sends at most one more request.*)
THEOREM StopsPromptly == Spec => []OneRequestEach
<1>1. IInv => OneRequestEach
  BY DEF IInv, LateBounded, OneRequestEach
<1> QED BY Invariance, <1>1, PTL

(* A consolidated result is published only by an attempt that is neither   *)
(* cancelled nor out of time at that moment.                               *)
THEOREM SuccessInTime == Spec => NoLateSuccess
<1>1. IInv /\ [Next]_vars =>
        [outcome # "Consolidated" /\ outcome' = "Consolidated" => ~cancel /\ now < Deadline]_vars
  <2> SUFFICES ASSUME IInv, Next, outcome # "Consolidated", outcome' = "Consolidated"
               PROVE  ~cancel /\ now < Deadline
    OBVIOUS
  <2>1. /\ budget_check \in {"Ok", "Cancelled", "Timeout"}
        /\ budget_check = "Ok" => ~cancel /\ ~abort /\ now < Deadline
    BY BudgetVerdict DEF IInv
  <2>2. ASSUME NEW o, Return(o), o # "Consolidated" PROVE FALSE
    BY <2>2 DEF Return
  <2>3. ASSUME NEW p, Goto(p) PROVE FALSE
    BY <2>3 DEF Goto
  <2>4. ASSUME NEW errors, NEW p, Checked(errors, p), "Consolidated" \notin errors PROVE FALSE
    <3>1. CASE \E e \in errors : Return(e)
      BY <2>2, <2>4, <3>1
    <3> QED BY <2>1, <2>2, <2>3, <2>4, <3>1 DEF Checked
  <2>5. CASE Begin \/ Admit \/ Evidence \/ Bounded \/ MasterCheck
    <3>1. CASE Bounded
      <4> DEFINE errors == {"Configuration"} \cup (IF OneSeal THEN {"AlreadyShared"} ELSE {})
      <4>1. "Consolidated" \notin errors /\ Checked(errors, "mcheck")
        BY <3>1 DEF Bounded
      <4> HIDE DEF errors
      <4> QED BY <2>4, <4>1
    <3> QED BY <2>3, <2>4, <2>5, <3>1 DEF Begin, Admit, Evidence, MasterCheck
  <2>6. CASE MasterRequest \/ MasterRetry \/ MasterAnswer
    BY <2>6 DEF MasterRequest, MasterRetry, MasterAnswer, Goto
  <2>7. CASE MasterJudge
    <3>1. mbatch.failure # "none" => classify(mbatch.failure) # "Consolidated"
      BY MasterAnswerFacts DEF IInv, TypeOK
    <3>2. check_batch(mbatch, FALSE) # "Consolidated"
      BY BatchVerdict
    <3>3. budget_check # "Consolidated"
      BY <2>1
    <3>4. \/ \E p : Goto(p)
          \/ Return(budget_check) \/ Return(check_batch(mbatch, FALSE))
          \/ mbatch.failure # "none" /\ Return(classify(mbatch.failure))
          \/ Return("Unavailable") \/ Return("Integrity")
      BY <2>7 DEF MasterJudge
    <3> QED BY <2>2, <2>3, <3>1, <3>2, <3>3, <3>4
  <2>8. CASE PlaceMaster \/ Direct
    <3>1. \/ \E p : Goto(p)
          \/ Return(budget_check) \/ Return("Configuration")
          \/ Return("Unavailable") \/ Return("Integrity")
      BY <2>8 DEF PlaceMaster, Direct, Checked
    <3> QED BY <2>1, <2>2, <2>3, <3>1
  <2>9. CASE Collect
    <3>1. CASE Failing # {} /\ Return(results[first_stop].result)
      <4>1. results[first_stop].result # "Consolidated"
        BY <3>1, FirstStop DEF IInv, TypeOK, Slots, JobResults, Failing
      <4> QED BY <2>2, <3>1, <4>1
    <3> QED BY <2>2, <2>3, <2>9, <3>1 DEF Collect
  <2>10. CASE PlacePeers
    <3>1. \A j : PlaceError(j) # "Consolidated"
      BY BatchVerdict DEF PlaceError
    <3>2. Return(budget_check) \/ (\E j : Return(PlaceError(j))) \/ Goto("finish")
      BY <2>10 DEF PlacePeers
    <3> QED BY <2>1, <2>2, <2>3, <3>1, <3>2
  <2>11. CASE Finish \/ Publish
    <3>1. \/ budget_check = "Ok" \/ Return(budget_check)
      BY <2>11 DEF Finish, Publish
    <3> QED BY <2>1, <2>2, <3>1
  <2>12. CASE \/ \E w \in Workers : PeerStep(w)
              \/ CallerCancels \/ Tick \/ Done
    <3>1. outcome' = outcome
      BY <2>12 DEF PeerStep, Claim, PeerCheck, PeerRequest, PeerAnswer, PeerJudge, PeerStore,
                   WaveQuiet, CallerCancels, Tick, Done, vars
    <3> QED BY <3>1
  <2> QED
    BY <2>5, <2>6, <2>7, <2>8, <2>9, <2>10, <2>11, <2>12 DEF Next, MainStep
<1> QED BY Invariance, <1>1, PTL DEF Spec, NoLateSuccess
=============================================================================
