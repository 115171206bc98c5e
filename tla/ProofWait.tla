------------------------------ MODULE ProofWait ------------------------------
(***************************************************************************)
(* `HttpAggregatorClient::wait_for_inclusion_proof` and its `wait_loop`:   *)
(* one thread asks the aggregator for the proof of one state until a       *)
(* proof, a final answer, the total deadline or a cancellation ends the    *)
(* wait.  Each call may ask the server to hold it (`waitMs`); the server   *)
(* says in an echo (`waitedMs`) whether it did.                            *)
(*                                                                         *)
(* Time is a counter `now` that starts at 0 when the wait starts, so the   *)
(* deadline is Total.  Time passes while a call is in flight, while the    *)
(* thread sleeps (a sleep may last longer than asked) and between two      *)
(* iterations; only between reading the clock for the plan of a call and   *)
(* starting the call does it stand still.  The server and the network are  *)
(* the environment: any answer the client can classify may come at any     *)
(* moment of a call, but the transport ends a call by its own timeout.     *)
(***************************************************************************)
EXTENDS Integers, Sequences

CONSTANTS
  Total,        \* the total deadline, from the start of the wait
  Interval,     \* pause between probes (poll_interval)
  MinPause,     \* MIN_PAUSE
  SleepSlice,   \* SLEEP_SLICE, the granularity at which a sleep sees a cancel
  Grace,        \* consecutive `unknown` answers tolerated
  Preferred,    \* preferred server-side wait of one call
  Margin,       \* response margin kept between the wait and the call timeout
  MaxRequest,   \* longest single transport call
  MaxWaitMs,    \* MAX_WAIT_MS, the largest wait the wire can carry
  LongPoll,     \* whether the options allow `waitMs` at all
  KeepPlain,    \* plain_calls_keep_request_timeout
  RetryAfters,  \* the Retry-After delays a server may send, 0 for none
  Horizon       \* bound of the clock

ASSUME WaitAssumption ==
  /\ Total \in Nat /\ Interval \in Nat /\ Grace \in Nat
  /\ Preferred \in Nat /\ Margin \in Nat /\ MaxRequest \in Nat
  /\ MinPause \in Nat \ {0} /\ SleepSlice \in Nat \ {0} /\ MaxWaitMs \in Nat \ {0}
  /\ LongPoll \in BOOLEAN /\ KeepPlain \in BOOLEAN
  /\ RetryAfters \subseteq Nat /\ Horizon \in Nat /\ Horizon >= Total

VARIABLES
  pc,            \* "top", "planned", "calling", "pausing" or "done"
  now,           \* the clock
  cancelled,     \* the caller's CancelToken
  send_wait,     \* whether calls may still carry `waitMs`
  unknown_seen,  \* `unknown` answers since the last pending one
  plan,          \* the CallPlan, with the time left it was made for
  call_started,  \* when the last call started
  pause_end,     \* when the running pause is over
  wake,          \* when the running sleep slice is over
  stats,         \* WaitStats
  result,        \* how the wait ended
  log,           \* history: the classes of the answers received
  late           \* history: calls started after the cancellation

vars == <<pc, now, cancelled, send_wait, unknown_seen, plan, call_started,
          pause_end, wake, stats, result, log, late>>

Min2(a, b) == IF a <= b THEN a ELSE b
Max2(a, b) == IF a >= b THEN a ELSE b

(* Subtraction that wraps below zero instead of saturating.                *)
MonusMutant(a, b) == a - b

(* saturating_sub                                                          *)
Monus(a, b) == IF a >= b THEN a - b ELSE 0

(* interval.max(MIN_PAUSE)                                                 *)
Pace == Max2(Interval, MinPause)

Results == {"none", "Ok", "StateExpired", "StateUnknown", "StateNotFound",
            "Error", "Timeout", "OverloadTimeout", "Cancelled"}
Echoes  == {"none", "zero", "positive", "malformed"}
Plans   == [wait_ms : Nat, timeout_ms : Nat, left_ms : Nat]
Stats   == [requests : Nat, long_poll_requests : Nat, pending : Nat,
            unknown : Nat, overloaded : Nat, transport_failures : Nat,
            immediate_rechecks : Nat, wait_dropped_for_missing_echo : BOOLEAN]

(* The call timeout is not kept within the remaining deadline.             *)
plan_callMutant(remaining, send) ==
  LET wait == IF send /\ LongPoll
              THEN Min2(Min2(Preferred, Monus(remaining, Margin)), MaxWaitMs)
              ELSE 0
  IN [wait_ms    |-> wait,
      timeout_ms |-> IF wait > 0 THEN wait + Margin ELSE Max2(MaxRequest, 1),
      left_ms    |-> remaining]

(***************************************************************************)
(* The budget arithmetic of one call with `remaining` left.  A wait_ms of  *)
(* 0 stands for None.                                                      *)
(***************************************************************************)
plan_call(remaining, send) ==
  LET wait == IF send /\ LongPoll
              THEN Min2(Min2(Preferred, Monus(remaining, Margin)),
                        Min2(Monus(MaxRequest, Margin), MaxWaitMs))
              ELSE 0
  IN [wait_ms    |-> wait,
      timeout_ms |-> IF wait > 0 THEN Max2(Min2(wait + Margin, remaining), 1)
                     ELSE IF KeepPlain THEN Max2(MaxRequest, 1)
                     ELSE Max2(Min2(MaxRequest, remaining), 1),
      left_ms    |-> remaining]

Init ==
  /\ pc = "top" /\ now = 0 /\ cancelled = FALSE
  /\ send_wait = TRUE /\ unknown_seen = 0
  /\ plan = [wait_ms |-> 0, timeout_ms |-> 0, left_ms |-> 0]
  /\ call_started = 0 /\ pause_end = 0 /\ wake = 0
  /\ stats = [requests |-> 0, long_poll_requests |-> 0, pending |-> 0,
              unknown |-> 0, overloaded |-> 0, transport_failures |-> 0,
              immediate_rechecks |-> 0, wait_dropped_for_missing_echo |-> FALSE]
  /\ result = "none" /\ log = <<>> /\ late = 0

-----------------------------------------------------------------------------
(* Effects the handlers share.                                             *)

Finish(r) == pc' = "done" /\ result' = r /\ UNCHANGED <<pause_end, wake>>

(* `pause`: sleep for d, never past the deadline; its first cancellation   *)
(* check is due at once.                                                   *)
Pause(d) ==
  /\ pc' = "pausing"
  /\ pause_end' = Min2(now + d, Total)
  /\ wake' = now
  /\ UNCHANGED result

(* What no handler of an answer touches.                                   *)
CallUnchanged == UNCHANGED <<now, cancelled, plan, call_started, late>>

WaitSent == plan.wait_ms > 0
Left     == Monus(Total, now)

(* The wait loop looks at the token only in its sleeps.                    *)
CancelObservedMutant == FALSE

(* The `cancelled` closure of the wait loop.                               *)
CancelObserved == cancelled

(* The grace counts the answer that spends it.                             *)
GraceSpentMutant(n) == n >= Grace

GraceSpent(n) == n > Grace

(* A call timeout that the deadline capped is the deadline.                *)
CappedByDeadline == plan.timeout_ms >= plan.left_ms

-----------------------------------------------------------------------------
(* A spent deadline starts another round instead of ending the wait.       *)
TopMutant ==
  /\ pc = "top"
  /\ \/ cancelled /\ Finish("Cancelled") /\ UNCHANGED plan
     \/ ~cancelled /\ Left = 0 /\ Pause(0) /\ UNCHANGED plan
     \/ /\ ~cancelled /\ Left > 0
        /\ plan' = plan_call(Left, send_wait)
        /\ pc' = "planned"
        /\ UNCHANGED <<result, pause_end, wake>>
  /\ UNCHANGED <<now, cancelled, send_wait, unknown_seen, call_started, stats, log, late>>

(* The head of the loop: cancellation, then the deadline, then the plan.   *)
Top ==
  /\ pc = "top"
  /\ \/ CancelObserved /\ Finish("Cancelled") /\ UNCHANGED plan
     \/ ~CancelObserved /\ Left = 0 /\ Finish("Timeout") /\ UNCHANGED plan
     \/ /\ ~CancelObserved /\ Left > 0
        /\ plan' = plan_call(Left, send_wait)
        /\ pc' = "planned"
        /\ UNCHANGED <<result, pause_end, wake>>
  /\ UNCHANGED <<now, cancelled, send_wait, unknown_seen, call_started, stats, log, late>>

(* The request goes out; a cancellation since the check is not seen.       *)
StartCall ==
  /\ pc = "planned"
  /\ pc' = "calling"
  /\ call_started' = now
  /\ stats' = [stats EXCEPT !.requests = @ + 1,
                            !.long_poll_requests = IF WaitSent THEN @ + 1 ELSE @]
  /\ late' = IF cancelled THEN late + 1 ELSE late
  /\ UNCHANGED <<now, cancelled, send_wait, unknown_seen, plan, pause_end, wake, result, log>>

(* The call failed below HTTP, by a timeout or otherwise.                  *)
TransportFailure(timed_out) ==
  /\ pc = "calling"
  /\ log' = Append(log, "transport")
  /\ \/ CancelObserved /\ Finish("Cancelled") /\ UNCHANGED <<send_wait, stats>>
     \/ /\ ~CancelObserved
        /\ Left = 0 \/ (timed_out /\ CappedByDeadline)
        /\ Finish("Timeout") /\ UNCHANGED <<send_wait, stats>>
     \/ /\ ~CancelObserved /\ Left > 0 /\ ~(timed_out /\ CappedByDeadline)
        /\ stats' = [stats EXCEPT !.transport_failures = @ + 1]
        /\ send_wait' = FALSE
        /\ IF Pace > Left THEN Finish("Timeout") ELSE Pause(Pace)
  /\ CallUnchanged /\ UNCHANGED unknown_seen

(* The server, or a gateway, says it is overloaded; body_timed_out is an   *)
(* error body that the call timeout cut short.                             *)
Overload(retry_after, body_timed_out) ==
  /\ pc = "calling"
  /\ log' = Append(log, "overload")
  /\ \/ CancelObserved /\ Finish("Cancelled") /\ UNCHANGED <<send_wait, stats>>
     \/ /\ ~CancelObserved
        /\ Left = 0 \/ (body_timed_out /\ CappedByDeadline)
        /\ Finish("Timeout") /\ UNCHANGED <<send_wait, stats>>
     \/ /\ ~CancelObserved /\ Left > 0 /\ ~(body_timed_out /\ CappedByDeadline)
        /\ stats' = [stats EXCEPT !.overloaded = @ + 1]
        /\ send_wait' = (send_wait /\ ~WaitSent)
        /\ LET pause == Max2(Pace, retry_after) IN
           IF pause > Left THEN Finish("OverloadTimeout") ELSE Pause(pause)
  /\ CallUnchanged /\ UNCHANGED unknown_seen

(* The pending error (-32021) of a server that answers errors, not status  *)
(* objects.  Its echo is looked at only if this call sent `waitMs`.        *)
LegacyPending(echo) ==
  /\ pc = "calling"
  /\ unknown_seen' = 0
  /\ \/ /\ WaitSent /\ echo = "malformed"
        /\ log' = Append(log, "malformed")
        /\ stats' = [stats EXCEPT !.pending = @ + 1]
        /\ Finish("Error") /\ UNCHANGED send_wait
     \/ /\ ~(WaitSent /\ echo = "malformed")
        /\ log' = Append(log, "pending")
        /\ LET dropped == WaitSent /\ echo = "none" IN
             /\ send_wait' = (send_wait /\ ~dropped)
             /\ stats' = [stats EXCEPT !.pending = @ + 1,
                            !.wait_dropped_for_missing_echo = @ \/ dropped]
        /\ Pause(Pace)
  /\ CallUnchanged

(* Answers that end the wait whatever else is known: not found (-32020 or  *)
(* HTTP 404), and every other error or undecodable answer.                 *)
FinalError(class, verdict) ==
  /\ pc = "calling"
  /\ log' = Append(log, class)
  /\ Finish(verdict)
  /\ CallUnchanged /\ UNCHANGED <<send_wait, unknown_seen, stats>>

(* A result object.  decode_v2_result refuses an echo nobody asked for and *)
(* a malformed one.                                                        *)
EchoRefused(echo) == (echo # "none" /\ ~WaitSent) \/ echo = "malformed"

(* A request with a wait answered without an echo: no long-poll here.      *)
EchoMissing(echo) == WaitSent /\ echo = "none"

(* A missing echo is noted but the next call asks for a wait again.        *)
NoteEchoMutant(echo, st) ==
  /\ send_wait' = send_wait
  /\ stats' = [st EXCEPT !.wait_dropped_for_missing_echo = @ \/ EchoMissing(echo)]

(* The effect of a decoded result on the wait mode.                        *)
NoteEcho(echo, st) ==
  /\ send_wait' = (send_wait /\ ~EchoMissing(echo))
  /\ stats' = [st EXCEPT !.wait_dropped_for_missing_echo = @ \/ EchoMissing(echo)]

RefusedResult(echo) ==
  /\ EchoRefused(echo)
  /\ FinalError("malformed", "Error")

(* A proof ends the wait, a cancelled one too: it is not lost.             *)
CertifiedResult(echo) ==
  /\ pc = "calling" /\ ~EchoRefused(echo)
  /\ log' = Append(log, "certified")
  /\ NoteEcho(echo, stats)
  /\ Finish("Ok")
  /\ CallUnchanged /\ UNCHANGED unknown_seen

ExpiredResult(echo) ==
  /\ pc = "calling" /\ ~EchoRefused(echo)
  /\ log' = Append(log, "expired")
  /\ NoteEcho(echo, stats)
  /\ Finish("StateExpired")
  /\ CallUnchanged /\ UNCHANGED unknown_seen

UnknownResult(echo) ==
  /\ pc = "calling" /\ ~EchoRefused(echo)
  /\ log' = Append(log, "unknown")
  /\ NoteEcho(echo, [stats EXCEPT !.unknown = @ + 1])
  /\ unknown_seen' = unknown_seen + 1
  /\ IF GraceSpent(unknown_seen') THEN Finish("StateUnknown") ELSE Pause(Pace)
  /\ CallUnchanged

(* The server's echo alone is taken as proof that it waited.               *)
RecheckNowMutant(proven) == proven

(* Pending: call again at once only if the server proved that it waited    *)
(* and the call already took the polling interval.                         *)
RecheckNow(proven) == proven /\ now - call_started >= Pace

PendingResult(echo) ==
  LET proven == WaitSent /\ echo = "positive"
      again  == RecheckNow(proven)
      pause  == IF proven THEN Max2(Monus(Interval, now - call_started), MinPause)
                          ELSE Pace
  IN /\ pc = "calling" /\ ~EchoRefused(echo)
     /\ log' = Append(log, "pending")
     /\ unknown_seen' = 0
     /\ NoteEcho(echo, [stats EXCEPT !.pending = @ + 1,
                          !.immediate_rechecks = IF again THEN @ + 1 ELSE @])
     /\ IF again THEN pc' = "top" /\ UNCHANGED <<result, pause_end, wake>>
                 ELSE Pause(pause)
     /\ CallUnchanged

(* One turn of the sleep loop: cancellation, the end, or another slice.    *)
PauseTurn ==
  /\ pc = "pausing" /\ now >= wake
  /\ \/ cancelled /\ Finish("Cancelled")
     \/ /\ ~cancelled /\ now >= pause_end
        /\ pc' = "top" /\ UNCHANGED <<result, pause_end, wake>>
     \/ /\ ~cancelled /\ now < pause_end
        /\ wake' = now + Min2(pause_end - now, SleepSlice)
        /\ UNCHANGED <<pc, result, pause_end>>
  /\ UNCHANGED <<now, cancelled, send_wait, unknown_seen, plan, call_started, stats, log, late>>

(* The caller cancels, at any moment.                                      *)
Cancel ==
  /\ pc # "done" /\ ~cancelled
  /\ cancelled' = TRUE
  /\ UNCHANGED <<pc, now, send_wait, unknown_seen, plan, call_started,
                 pause_end, wake, stats, result, log, late>>

(* Time passes; a call never outlives its timeout.                         *)
Tick ==
  /\ pc \in {"top", "calling", "pausing"} /\ now < Horizon
  /\ pc = "calling" => now < call_started + plan.timeout_ms
  /\ now' = now + 1
  /\ UNCHANGED <<pc, cancelled, send_wait, unknown_seen, plan, call_started,
                 pause_end, wake, stats, result, log, late>>

Answer ==
  \/ \E t \in BOOLEAN : TransportFailure(t)
  \/ \E r \in RetryAfters, cut \in BOOLEAN : Overload(r, cut)
  \/ FinalError("notfound", "StateNotFound")
  \/ FinalError("malformed", "Error")
  \/ \E e \in Echoes : \/ LegacyPending(e)
                       \/ RefusedResult(e)
                       \/ CertifiedResult(e)
                       \/ ExpiredResult(e)
                       \/ UnknownResult(e)
                       \/ PendingResult(e)

Done == pc = "done" /\ UNCHANGED vars

Next == Top \/ StartCall \/ Answer \/ PauseTurn \/ Cancel \/ Tick \/ Done

Spec == Init /\ [][Next]_vars

(* The thread runs, the clock runs, and the transport ends every call.     *)
FairSpec == Spec /\ WF_vars(Top) /\ WF_vars(StartCall) /\ WF_vars(Answer)
                 /\ WF_vars(PauseTurn) /\ WF_vars(Tick)
-----------------------------------------------------------------------------
(* Every variable keeps its type; in particular no budget goes below zero. *)
TypeOK ==
  /\ pc \in {"top", "planned", "calling", "pausing", "done"}
  /\ now \in Nat /\ call_started \in Nat /\ pause_end \in Nat /\ wake \in Nat
  /\ cancelled \in BOOLEAN /\ send_wait \in BOOLEAN
  /\ unknown_seen \in Nat /\ late \in Nat
  /\ plan \in Plans /\ stats \in Stats
  /\ result \in Results
  /\ log \in Seq({"certified", "expired", "unknown", "pending", "overload",
                  "transport", "notfound", "malformed"})

(* "The wait never exceeds `total`" (docs/api-reference.md): a call in     *)
(* flight ends by the deadline, however many fallbacks and retries led to  *)
(* it.  A plain call of the trait's wait keeps the client's own timeout    *)
(* instead, and then it at least started before the deadline.              *)
CallsEndByDeadline ==
  pc = "calling" =>
    /\ call_started < Total
    /\ WaitSent \/ ~KeepPlain => call_started + plan.timeout_ms <= Total

(* No answer, real or forged (the echo is unauthenticated), makes the wait *)
(* ask twice within the polling interval or MIN_PAUSE.                     *)
RequestsPaced ==
  [][stats.requests' > stats.requests /\ stats.requests > 0
       => now - call_started >= Pace]_vars

(* Long-poll costs "no more requests than the classic poller": with Total  *)
(* = interval * attempts and an interval of at least MIN_PAUSE, at most    *)
(* `attempts` requests.                                                    *)
NoMoreThanClassicPoller ==
  stats.requests > 0 => (stats.requests - 1) * Pace < Total

(* After an overload answer, a transport failure or a missing echo, no     *)
(* later call of this wait carries `waitMs` (documentation of WaitStats),  *)
(* an overload of a call that carried none included.                       *)
NoWaitAfterRefusal ==
  pc = "calling" /\ (\/ stats.overloaded > 0
                     \/ stats.transport_failures > 0
                     \/ stats.wait_dropped_for_missing_echo)
    => ~WaitSent

(* A cancelled wait starts at most the one call that was past its check    *)
(* when the token was set, and reports neither a timeout nor an overload:  *)
(* "Cancellation and a spent deadline win".                                *)
CancellationWins ==
  /\ late <= 1
  /\ cancelled => result \notin {"Timeout", "OverloadTimeout"}
  /\ result = "OverloadTimeout" => now < Total

(* The wait judges its answers as ProofRead says.                          *)
Contract == INSTANCE ProofRead WITH seen <- log, verdict <- result
ImplementsProofRead == Contract!Spec

(* Every wait ends.                                                        *)
Termination == <>(pc = "done")
=============================================================================
