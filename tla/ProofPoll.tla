------------------------------ MODULE ProofPoll ------------------------------
(***************************************************************************)
(* The attempts loop of `HttpAggregatorClient::get_inclusion_proof`, used  *)
(* when long poll is off or the budget `interval * attempts` is zero: up   *)
(* to Attempts probes, each a plain lookup with the client's own request   *)
(* timeout.  Only the pauses after an overload answer or a transport       *)
(* failure look at the budget.                                             *)
(*                                                                         *)
(* Time is the counter `now`, 0 at the start of the loop.  It passes       *)
(* during a call (at most MaxRequest) and during a sleep.                  *)
(***************************************************************************)
EXTENDS Integers, Sequences

CONSTANTS
  Attempts,     \* poll_attempts
  Interval,     \* poll_interval
  Grace,        \* unknown_grace
  MaxRequest,   \* the transport's timeout of one call
  RetryAfters   \* Retry-After delays a server may send, 0 for none

ASSUME PollAssumption ==
  /\ Attempts \in Nat /\ Interval \in Nat /\ Grace \in Nat /\ MaxRequest \in Nat
  /\ RetryAfters \subseteq Nat

VARIABLES
  pc,            \* "probe", "calling", "sleeping" or "done"
  now,           \* the clock
  attempt,       \* the loop counter, 0-based
  unknown_seen,  \* `unknown` answers since the last pending one
  call_started,  \* when the running call started
  sleep_end,     \* when the running sleep is over
  result,        \* how the wait ended
  log            \* history: the classes of the answers received

vars == <<pc, now, attempt, unknown_seen, call_started, sleep_end, result, log>>

Budget == Interval * Attempts

Left == IF now >= Budget THEN 0 ELSE Budget - now
Max2(a, b) == IF a >= b THEN a ELSE b

Results == {"none", "Ok", "StateExpired", "StateUnknown", "StateNotFound",
            "Error", "Timeout", "OverloadTimeout"}

Init ==
  /\ pc = "probe" /\ now = 0 /\ attempt = 0 /\ unknown_seen = 0
  /\ call_started = 0 /\ sleep_end = 0 /\ result = "none" /\ log = <<>>

Finish(r) == /\ pc' = "done" /\ result' = r
             /\ UNCHANGED <<attempt, sleep_end>>

(* Sleep d, then the next attempt.                                         *)
SleepThenNext(d) ==
  /\ pc' = "sleeping" /\ sleep_end' = now + d /\ attempt' = attempt + 1
  /\ UNCHANGED result

(* The pause between two attempts; there is none after the last one.       *)
PauseThenNext ==
  IF attempt + 1 < Attempts THEN SleepThenNext(Interval) ELSE SleepThenNext(0)

(* The loop waits for nothing once the attempts are used up.               *)
ProbeWaitsOnMutant ==
  /\ pc = "probe"
  /\ IF attempt < Attempts
     THEN pc' = "calling" /\ call_started' = now /\ UNCHANGED <<attempt, sleep_end, result>>
     ELSE pc' = "sleeping" /\ UNCHANGED <<call_started, attempt, sleep_end, result>>
  /\ UNCHANGED <<now, unknown_seen, log>>

(* The head of the `for` loop: a probe, or the attempts are used up.       *)
Probe ==
  /\ pc = "probe"
  /\ IF attempt < Attempts
     THEN pc' = "calling" /\ call_started' = now /\ UNCHANGED <<attempt, sleep_end, result>>
     ELSE Finish("Timeout") /\ UNCHANGED call_started
  /\ UNCHANGED <<now, unknown_seen, log>>

(* An answer of class a; every handler leaves the clock alone.             *)
Answered(a) == /\ pc = "calling"
               /\ log' = Append(log, a)
               /\ UNCHANGED <<now, call_started>>

(* overload_pause lets any pause through.                                  *)
overload_pauseMutant(retry_after) == SleepThenNext(Max2(Interval, retry_after))

(* The pause after an overload answer must fit the budget.                 *)
overload_pause(retry_after) ==
  LET pause == Max2(Interval, retry_after) IN
  IF pause > Left THEN Finish("OverloadTimeout") ELSE SleepThenNext(pause)

transport_pause == IF Interval > Left THEN Finish("Timeout") ELSE SleepThenNext(Interval)

Overload(retry_after) ==
  /\ Answered("overload") /\ overload_pause(retry_after) /\ UNCHANGED unknown_seen

TransportFailure ==
  /\ Answered("transport") /\ transport_pause /\ UNCHANGED unknown_seen

(* A pending error, and a result without a proof whose status is neither   *)
(* expired nor unknown.                                                    *)
Pending == Answered("pending") /\ unknown_seen' = 0 /\ PauseThenNext

(* The grace is compared before the answer is counted.                     *)
UnknownLimitMutant == unknown_seen > Grace

UnknownLimit == unknown_seen + 1 > Grace

Unknown ==
  /\ Answered("unknown") /\ unknown_seen' = unknown_seen + 1
  /\ IF UnknownLimit THEN Finish("StateUnknown") ELSE PauseThenNext

(* Answers that end the loop.                                              *)
Final(a, r) == Answered(a) /\ Finish(r) /\ UNCHANGED unknown_seen

Wake ==
  /\ pc = "sleeping" /\ now >= sleep_end /\ pc' = "probe"
  /\ UNCHANGED <<now, attempt, unknown_seen, call_started, sleep_end, result, log>>

Tick ==
  /\ \/ pc = "calling" /\ now < call_started + MaxRequest
     \/ pc = "sleeping" /\ now < sleep_end
  /\ now' = now + 1
  /\ UNCHANGED <<pc, attempt, unknown_seen, call_started, sleep_end, result, log>>

Answer ==
  \/ \E r \in RetryAfters : Overload(r)
  \/ TransportFailure \/ Pending \/ Unknown
  \/ Final("certified", "Ok")
  \/ Final("expired", "StateExpired")
  \/ Final("notfound", "StateNotFound")
  \/ Final("malformed", "Error")

Done == pc = "done" /\ UNCHANGED vars

Next == Probe \/ Answer \/ Wake \/ Tick \/ Done

Spec == Init /\ [][Next]_vars
FairSpec == Spec /\ WF_vars(Probe) /\ WF_vars(Answer) /\ WF_vars(Wake) /\ WF_vars(Tick)

-----------------------------------------------------------------------------
(* Whatever delays the server asks for, the loop lasts at most the budget, *)
(* one interval per attempt and one request timeout per attempt: a         *)
(* Retry-After never reaches past the budget.                              *)
LoopIsBounded ==
  now <= Budget + Attempts * Interval + (attempt + 1) * MaxRequest

(* The documentation gives the attempts loop "a total time budget of       *)
(* `interval * attempts`": no probe starts after it.                       *)
ProbesWithinBudget == pc = "calling" => call_started <= Budget

(* The attempts loop judges its answers as ProofRead says.                 *)
Contract == INSTANCE ProofRead WITH seen <- log, verdict <- result
ImplementsProofRead == Contract!Spec

(* Every wait ends.                                                        *)
Termination == <>(pc = "done")
=============================================================================
