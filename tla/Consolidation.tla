---------------------------- MODULE Consolidation ----------------------------
(***************************************************************************)
(* One attempt of `ProofClient::consolidate` or `consolidate_proofs`       *)
(* (client/consolidate): admit the input, ask the master shard for its     *)
(* latest batch and partition view, authenticate it, then fetch the exact  *)
(* roots of the other shards in one wave on at most MaxParallel threads    *)
(* (ThreadedExecutor), and verify everything before success.               *)
(*                                                                         *)
(* The attempt has one deadline and one CancelToken; a failing job of the  *)
(* wave sets the attempt's own `abort` flag, which stops the others.       *)
(*                                                                         *)
(* Groups are the participating shards, in canonical order 1..NGroups; the *)
(* evidence of a group is the root round of the seal its proofs are under. *)
(* A batch is abstracted to the check it fails, if any.  Shard 1 alone may *)
(* be the empty shard id of an unsharded partition.                        *)
(***************************************************************************)
EXTENDS Integers, Sequences, FiniteSets

CONSTANTS
  NGroups,      \* participating shards of a sharded partition
  Rounds,       \* root rounds of seals
  MaxParallel,  \* ThreadedExecutor::max_parallel
  LongPoll,     \* whether the master request may carry a wait
  Failures,     \* classes of failed calls
  Flaws,        \* checks a batch may fail
  Deadline      \* the total deadline; the attempt starts at 0

ASSUME ConsolidationAssumption ==
  /\ NGroups \in Nat \ {0} /\ MaxParallel \in Nat \ {0}
  /\ Rounds \subseteq Nat /\ LongPoll \in BOOLEAN
  /\ Failures \subseteq {"Timeout", "Cancelled", "Transport", "Decode", "Unavailable",
                         "malformed_params", "Server"}
  /\ Flaws \subseteq {"InvalidResponse", "Binding", "RootSubstitution", "Leaf"}
  /\ Deadline \in Nat

VARIABLES
  sharded,   \* whether the topology has more than the empty shard id
  kind,      \* "token" (consolidate) or "bundle" (consolidate_proofs)
  evidence,  \* evidence[g]: the round of the seal the input of g is under
  pc,        \* where the attempt's own thread is
  now,       \* the clock; all times from the deadline on are alike
  cancel,    \* the caller's CancelToken
  abort,     \* the attempt's own abort flag
  mbatch,    \* the master's answer
  wait,      \* the master request's wait: "no", "sent" or "retried" without it
  requests,  \* the request counter of the summary
  next,      \* the executor's shared counter: the next job
  worker,    \* worker[w]: what thread w does, its job and its answer
  results,   \* results[j]: the executor's result slots
  runs,      \* history: how often job j was run
  sent,      \* history: requests sent
  late,      \* history: requests sent after a cancellation or an abort
  outcome    \* what the call returned

vars == <<sharded, kind, evidence, pc, now, cancel, abort, mbatch, wait, requests,
          next, worker, results, runs, sent, late, outcome>>
waveVars == <<next, worker, results, runs>>
input == <<sharded, kind, evidence>>

NShards == IF sharded THEN NGroups ELSE 1
Groups  == 1..NShards
Bound  == CHOOSE r \in {evidence[g] : g \in Groups} : \A g \in Groups : evidence[g] <= r

(* The jobs of the wave: every group but the master's, in order.           *)
NJobs    == NShards - 1
Jobs     == 1..NJobs
NWorkers == IF MaxParallel <= NJobs THEN MaxParallel ELSE NJobs
Workers  == 1..NWorkers

(* Answers to a batch call: a failure by class, or a batch by the check it *)
(* would fail.  The view is absent ("none"), absent from a batch of the    *)
(* empty shard id ("unsharded"), or authenticates or not.                  *)
NoAnswer ==
  [failure |-> "none", flaw |-> "none", view |-> "none", round |-> 0]
Failed   == {[NoAnswer EXCEPT !.failure = f] : f \in Failures}
MasterAnswers ==
  Failed \cup [failure : {"none"}, flaw : ({"none"} \cup Flaws) \ {"RootSubstitution"},
               round : Rounds, view : {"none", "unsharded", "good", "bad"}]
PeerAnswers ==
  Failed \cup {[NoAnswer EXCEPT !.flaw = f] : f \in {"none"} \cup Flaws}
         \cup {[NoAnswer EXCEPT !.view = "good"]}

NoResult == [result |-> "none", answer |-> NoAnswer]

Init ==
  /\ sharded \in BOOLEAN
  /\ kind \in {"token", "bundle"}
  /\ evidence \in [Groups -> Rounds]
  /\ pc = "start" /\ now = 0 /\ cancel = FALSE /\ abort = FALSE
  /\ mbatch = NoAnswer /\ wait = "no" /\ requests = 0
  /\ next = 1
  /\ worker = [w \in Workers |-> [at |-> "claim", job |-> 0, got |-> NoResult]]
  /\ results = [j \in Jobs |-> NoResult]
  /\ runs = [j \in Jobs |-> 0]
  /\ sent = 0 /\ late = 0
  /\ outcome = "none"

-----------------------------------------------------------------------------
(* Only the attempt's own flag is looked at.                               *)
budget_checkMutant ==
  IF abort THEN "Cancelled" ELSE IF now >= Deadline THEN "Timeout" ELSE "Ok"

(* Budget::check: "Ok", or why the attempt must stop.                      *)
budget_check ==
  IF cancel \/ abort THEN "Cancelled"
  ELSE IF now >= Deadline THEN "Timeout"
  ELSE "Ok"

Return(o) == pc' = "done" /\ outcome' = o
Goto(p)   == pc' = p /\ UNCHANGED outcome

(* A step of the attempt's own thread that touches nothing else.           *)
Quiet == UNCHANGED <<input, now, cancel, abort, mbatch, wait, requests, waveVars, sent, late>>

(* `check()?` and then one of the given errors, or on to p.                *)
Checked(errors, p) ==
  IF budget_check # "Ok" THEN Return(budget_check)
  ELSE Goto(p) \/ \E e \in errors : Return(e)

(* classify: the error of a failed call.                                   *)
classify(failure) ==
  CASE failure = "Decode"           -> "InvalidResponse"
    [] failure = "malformed_params" -> "Rejected"
    [] OTHER                        -> failure

(* What check_batch finds; a bad leaf is only found when it is placed.     *)
check_batch(answer, exact) ==
  CASE answer.flaw = "InvalidResponse"  -> "InvalidResponse"
    [] answer.flaw = "Binding"          -> "Integrity"
    [] exact /\ answer.view # "none"    -> "InvalidResponse"
    [] exact /\ answer.flaw = "RootSubstitution" -> "Integrity"
    [] OTHER -> "Ok"

-----------------------------------------------------------------------------
(* consolidate verifies the whole input token, unless the attempt is over. *)
Begin ==
  /\ pc = "start"
  /\ IF kind = "token" THEN Checked({"InvalidToken"}, "admit") ELSE Goto("admit")
  /\ Quiet

(* group: routes and counts the states of the input.                       *)
Admit ==
  /\ pc = "admit"
  /\ Checked({"Configuration", "TooManyStates"}, "evidence")
  /\ Quiet

(* The proofs must be of the configured partition and shards; a bundle's   *)
(* proofs are verified here (a token's already were).                      *)
Evidence ==
  /\ pc = "evidence"
  /\ Checked({"Integrity"}, "bound")
  /\ Quiet

OneSeal == \A g, h \in Groups : evidence[g] = evidence[h]

(* The bound is known.  Input under one seal that is acceptable as a       *)
(* target is returned as it is; an override may name a shard that does not *)
(* take part.                                                              *)
Bounded ==
  /\ pc = "bound"
  /\ Checked({"Configuration"} \cup (IF OneSeal THEN {"AlreadyShared"} ELSE {}), "mcheck")
  /\ Quiet

(* fetch of the master's latest batch: check, then the request.            *)
MasterCheck ==
  /\ pc = "mcheck"
  /\ Checked({}, "mready")
  /\ Quiet

MasterRequest ==
  /\ pc = "mready"
  /\ Goto("mcalling")
  /\ wait' \in IF LongPoll THEN {"no", "sent"} ELSE {"no"}
  /\ sent' = sent + 1
  /\ requests' = IF wait' = "no" THEN requests + 1 ELSE requests
  /\ late' = IF cancel THEN late + 1 ELSE late
  /\ UNCHANGED <<input, now, cancel, abort, mbatch, waveVars>>

(* get_latest_negotiating_wait: a rejection without an echo is retried     *)
(* once without the wait, in the time that is left; nobody looks at the    *)
(* CancelToken in between.                                                 *)
MasterRetry ==
  /\ pc = "mcalling" /\ wait = "sent" /\ now < Deadline
  /\ wait' = "retried" /\ sent' = sent + 1
  /\ late' = IF cancel THEN late + 1 ELSE late
  /\ UNCHANGED <<input, pc, now, cancel, abort, mbatch, requests, waveVars, outcome>>

RequestsMade == IF wait = "retried" THEN 2 ELSE 1

(* The requests of a negotiated wait are counted when it is over.          *)
MasterAnswer ==
  /\ pc = "mcalling"
  /\ mbatch' \in MasterAnswers
  /\ requests' = IF wait = "no" THEN requests ELSE requests + RequestsMade
  /\ Goto("manswered")
  /\ UNCHANGED <<input, now, cancel, abort, wait, waveVars, sent, late>>

(* The budget first: a done attempt never turns a late answer into success *)
(* or a misleading error.  Then the failure, the batch and the view.       *)
MasterJudge ==
  /\ pc = "manswered"
  /\ IF budget_check # "Ok" THEN Return(budget_check)
     ELSE IF mbatch.failure # "none" THEN Return(classify(mbatch.failure))
     ELSE IF check_batch(mbatch, FALSE) # "Ok" THEN Return(check_batch(mbatch, FALSE))
     ELSE IF mbatch.view = "none" THEN Return("Unavailable")
     ELSE IF mbatch.view = "unsharded" THEN Goto("direct")
     ELSE IF mbatch.view = "bad" THEN Return("Integrity")
     ELSE IF mbatch.round < Bound THEN Return("Unavailable")
     ELSE Goto("mplace")
  /\ Quiet

(* The peers are contacted before the master's leaves are verified.        *)
PlaceMasterMutant ==
  /\ pc = "mplace"
  /\ Checked(IF NJobs > 0 THEN {"Configuration", "Integrity"} ELSE {}, "wave")
  /\ Quiet

(* The master's leaves are verified against the authenticated target       *)
(* before any peer is contacted; the view must name every peer's root.     *)
PlaceMaster ==
  /\ pc = "mplace"
  /\ IF mbatch.flaw = "Leaf" /\ budget_check = "Ok" THEN Return("Integrity")
     ELSE Checked(IF NJobs > 0 THEN {"Configuration", "Integrity"} ELSE {}, "wave")
  /\ Quiet

(* run_direct: the unsharded batch is its own target, if the configuration *)
(* is unsharded and the certificate is authentic.                          *)
Direct ==
  /\ pc = "direct"
  /\ \/ Return("Integrity")
     \/ /\ ~sharded
        /\ IF mbatch.round < Bound THEN Return("Unavailable")
           ELSE IF budget_check # "Ok" THEN Return(budget_check)
           ELSE IF mbatch.flaw = "Leaf" THEN Return("Integrity")
           ELSE Goto("finish")
  /\ Quiet

-----------------------------------------------------------------------------
(* The wave.  Each thread claims jobs until none is left.                  *)

Working(w, at) == pc = "wave" /\ worker[w].at = at
WaveQuiet == UNCHANGED <<input, pc, now, cancel, mbatch, wait, outcome>>

(* A thread that claims a job.                                             *)
Take(w) ==
  /\ worker' = [worker EXCEPT ![w].at = "check", ![w].job = next]
  /\ runs' = [runs EXCEPT ![next] = @ + 1]
Leave(w) == worker' = [worker EXCEPT ![w].at = "exited"] /\ UNCHANGED runs

(* The counter is read and written back in two steps: two threads may get  *)
(* the same job.                                                           *)
ClaimMutant(w) ==
  /\ Working(w, "claim")
  /\ IF next <= NJobs THEN Take(w) ELSE Leave(w)
  /\ next' = IF next <= NJobs /\ runs[next] = 0 THEN next ELSE next + 1
  /\ WaveQuiet /\ UNCHANGED <<abort, requests, results, sent, late>>

(* fetch_add, then the job of that index, if there is one.                 *)
Claim(w) ==
  /\ Working(w, "claim")
  /\ IF next <= NJobs THEN Take(w) ELSE Leave(w)
  /\ next' = next + 1
  /\ WaveQuiet /\ UNCHANGED <<abort, requests, results, sent, late>>

(* fetch: the budget, then the request.                                    *)
PeerCheck(w) ==
  /\ Working(w, "check")
  /\ worker' = IF budget_check = "Ok" THEN [worker EXCEPT ![w].at = "ready"]
               ELSE [worker EXCEPT ![w].at = "store", ![w].got.result = budget_check]
  /\ WaveQuiet /\ UNCHANGED <<abort, requests, next, results, runs, sent, late>>

PeerRequest(w) ==
  /\ Working(w, "ready")
  /\ worker' = [worker EXCEPT ![w].at = "calling"]
  /\ requests' = requests + 1 /\ sent' = sent + 1
  /\ late' = IF cancel \/ abort THEN late + 1 ELSE late
  /\ WaveQuiet /\ UNCHANGED <<abort, next, results, runs>>

PeerAnswer(w) ==
  /\ Working(w, "calling")
  /\ \E a \in PeerAnswers :
       worker' = [worker EXCEPT ![w].at = "answered", ![w].got.answer = a]
  /\ WaveQuiet /\ UNCHANGED <<abort, requests, next, results, runs, sent, late>>

(* A late answer is not looked at.                                         *)
ResultOf(a) ==
  IF budget_check # "Ok" THEN budget_check
  ELSE IF a.failure # "none" THEN classify(a.failure)
  ELSE "Ok"

PeerJudge(w) ==
  /\ Working(w, "answered")
  /\ worker' = [worker EXCEPT ![w].at = "store",
                              ![w].got.result = ResultOf(worker[w].got.answer)]
  /\ WaveQuiet /\ UNCHANGED <<abort, requests, next, results, runs, sent, late>>

(* After a failure the thread waits for the attempt to be taken down.      *)
PeerStoreMutant(w) ==
  /\ Working(w, "store")
  /\ IF worker[w].got.result # "Ok" THEN UNCHANGED <<abort, results, worker>>
     ELSE /\ results' = [results EXCEPT ![worker[w].job] = worker[w].got]
          /\ worker' = [worker EXCEPT ![w].at = "claim", ![w].got = NoResult]
          /\ UNCHANGED abort
  /\ WaveQuiet /\ UNCHANGED <<requests, next, runs, sent, late>>

(* A failed job aborts the attempt; its result goes to the job's own slot. *)
PeerStore(w) ==
  /\ Working(w, "store")
  /\ abort' = (abort \/ worker[w].got.result # "Ok")
  /\ results' = [results EXCEPT ![worker[w].job] = worker[w].got]
  /\ worker' = [worker EXCEPT ![w].at = "claim", ![w].got = NoResult]
  /\ WaveQuiet /\ UNCHANGED <<requests, next, runs, sent, late>>

Exited == \A w \in Workers : worker[w].at = "exited"
Failing == {j \in Jobs : results[j].result # "Ok"}
Stopped(j) == results[j].result \in {"Cancelled", "Timeout"}

(* The first failure in input order, whatever it is.                       *)
first_stopMutant == CHOOSE j \in Failing : \A k \in Failing : j <= k

(* The first failure in input order that is neither a cancellation nor a   *)
(* timeout, or else the first of those.                                    *)
first_stop ==
  LET real == {j \in Failing : ~Stopped(j)}
      from == IF real = {} THEN Failing ELSE real
  IN CHOOSE j \in from : \A k \in from : j <= k

(* The threads are joined and their results collected.                     *)
Collect ==
  /\ pc = "wave" /\ Exited
  /\ IF Failing = {} THEN Goto("place")
     ELSE IF cancel THEN Return("Cancelled")
     ELSE Return(results[first_stop].result)
  /\ Quiet

(* A batch of a peer is judged when it is placed, in input order.          *)
PlaceErrors ==
  {j \in Jobs : check_batch(results[j].answer, TRUE) # "Ok" \/ results[j].answer.flaw = "Leaf"}
PlaceError(j) ==
  IF check_batch(results[j].answer, TRUE) # "Ok" THEN check_batch(results[j].answer, TRUE)
  ELSE "Integrity"

(* The peers' batches are taken as they come.                              *)
PlacePeersMutant ==
  /\ pc = "place"
  /\ Checked({}, "finish")
  /\ Quiet

PlacePeers ==
  /\ pc = "place"
  /\ IF budget_check # "Ok" THEN Return(budget_check)
     ELSE IF PlaceErrors # {}
     THEN Return(PlaceError(CHOOSE j \in PlaceErrors : \A k \in PlaceErrors : j <= k))
     ELSE Goto("finish")
  /\ Quiet

(* The last check of run; a token is then rebuilt and verified as a whole. *)
Finish ==
  /\ pc = "finish"
  /\ IF budget_check # "Ok" THEN Return(budget_check)
     ELSE IF kind = "bundle" THEN Return("Consolidated")
     ELSE Goto("publish") \/ (\E e \in {"Configuration", "Integrity"} : Return(e))
  /\ Quiet

(* The time the last verification took is not looked at.                   *)
PublishMutant ==
  /\ pc = "publish"
  /\ Return("Consolidated")
  /\ Quiet

(* Never success for an attempt that is already over.                      *)
Publish ==
  /\ pc = "publish"
  /\ Return(IF budget_check = "Ok" THEN "Consolidated" ELSE budget_check)
  /\ Quiet

-----------------------------------------------------------------------------
CallerCancels ==
  /\ pc # "done" /\ ~cancel
  /\ cancel' = TRUE
  /\ UNCHANGED <<input, pc, now, abort, mbatch, wait, requests, waveVars, sent, late, outcome>>

Tick ==
  /\ pc # "done" /\ now < Deadline
  /\ now' = now + 1
  /\ UNCHANGED <<input, pc, cancel, abort, mbatch, wait, requests, waveVars, sent, late, outcome>>

Done == pc = "done" /\ UNCHANGED vars

PeerStep(w) ==
  Claim(w) \/ PeerCheck(w) \/ PeerRequest(w) \/ PeerAnswer(w) \/ PeerJudge(w) \/ PeerStore(w)

MainStep ==
  \/ Begin \/ Admit \/ Evidence \/ Bounded
  \/ MasterCheck \/ MasterRequest \/ MasterRetry \/ MasterAnswer \/ MasterJudge
  \/ PlaceMaster \/ Direct \/ Collect \/ PlacePeers
  \/ Finish \/ Publish

Next == MainStep \/ (\E w \in Workers : PeerStep(w)) \/ CallerCancels \/ Tick \/ Done

Spec == Init /\ [][Next]_vars

(* Every thread runs, and the transport ends every call (each is given a   *)
(* timeout).                                                               *)
FairSpec ==
  /\ Spec /\ WF_vars(MainStep)
  /\ \A w \in 1..MaxParallel : WF_vars(w \in Workers /\ PeerStep(w))

-----------------------------------------------------------------------------
(* A consolidation that reports success rests on an authenticated master   *)
(* batch not older than any evidence of the input, and on one batch per    *)
(* peer that failed none of its checks, whatever the other threads, the    *)
(* clock and the caller did meanwhile; its summary counts every request    *)
(* sent, the negotiation retry included.                                   *)
SuccessIsSound ==
  outcome = "Consolidated" =>
    /\ mbatch.failure = "none" /\ mbatch.flaw = "none" /\ mbatch.view \in {"good", "unsharded"}
    /\ mbatch.view = "unsharded" => ~sharded
    /\ \A g \in Groups : mbatch.round >= evidence[g]
    /\ \A j \in Jobs : results[j].result = "Ok" /\ results[j].answer = NoAnswer
    /\ requests = sent

(* A bad master batch can never hide behind a peer's unavailability: when  *)
(* a peer is contacted, everything of the master's answer was verified.    *)
MasterFirst ==
  (\E j \in Jobs : runs[j] > 0) =>
    /\ mbatch.failure = "none" /\ mbatch.flaw = "none" /\ mbatch.view = "good"
    /\ mbatch.round >= Bound

(* ThreadedExecutor runs every job exactly once and has a result for each  *)
(* when the threads are joined ("every job ran exactly once").             *)
JobsExactlyOnce ==
  pc = "place" \/ (pc = "wave" /\ Exited) =>
    \A j \in Jobs : runs[j] = 1 /\ results[j].result # "none"

(* The originating failure is reported rather than the cancellations it    *)
(* caused: a Cancelled or Timeout the caller did not ask for means that no *)
(* job of the wave failed in any other way.                                *)
OriginatingFailure ==
  outcome \in {"Cancelled", "Timeout"} /\ ~cancel =>
    \A j \in Jobs : results[j].result \in {"none", "Ok", "Cancelled", "Timeout"}

(* Once the caller cancelled or a job failed, a thread sends at most the   *)
(* one request it was about to send: the flags are observed before every   *)
(* request but the retry of a negotiated wait.                             *)
OneRequestEach == ~LongPoll => late <= MaxParallel

(* A consolidated result is never published by an attempt that is          *)
(* cancelled or out of time, not even when that happened during the last   *)
(* verification.  Proofs that already share an acceptable seal are         *)
(* returned as they are, without a final look at the budget: that outcome  *)
(* is not meant.                                                           *)
NoLateSuccess ==
  [][outcome # "Consolidated" /\ outcome' = "Consolidated" => ~cancel /\ now < Deadline]_vars

(* "The caller cancelled" is reported only if the caller did.              *)
CancelledMeansCaller == outcome = "Cancelled" => cancel

(* Every attempt returns, whatever fails.                                  *)
Termination == <>(pc = "done")
=============================================================================
