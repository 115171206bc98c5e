--------------------------- MODULE ProofWaitProofs ---------------------------
(***************************************************************************)
(* Proofs about the wait loop (module ProofWait), for every deadline,      *)
(* interval, grace, margin and request timeout.                            *)
(***************************************************************************)
EXTENDS ProofWait, SequenceTheorems, FiniteSetTheorems, TLAPS

Answers == {"certified", "expired", "unknown", "pending", "overload",
            "transport", "notfound", "malformed"}

(* The pace is at least the interval and at least MIN_PAUSE.               *)
LEMMA PaceIsPositive == Pace \in Nat /\ Pace >= 1 /\ Pace >= Interval /\ Pace >= MinPause
  BY WaitAssumption DEF Pace, Max2

(* What a call plan is, for any time left and wait mode.                   *)
LEMMA PlanProperties ==
  ASSUME NEW left \in Nat, NEW send \in BOOLEAN
  PROVE  /\ plan_call(left, send) \in Plans
         /\ plan_call(left, send).left_ms = left
         /\ left > 0 /\ (plan_call(left, send).wait_ms > 0 \/ ~KeepPlain)
              => plan_call(left, send).timeout_ms <= left
         /\ ~send => plan_call(left, send).wait_ms = 0
  BY WaitAssumption DEF plan_call, Plans, Min2, Max2, Monus

(* Less time left never makes room for a wait.                             *)
LEMMA WaitsShrink ==
  ASSUME NEW left \in Nat, NEW less \in 0..left, NEW send \in BOOLEAN,
         plan_call(left, send).wait_ms = 0
  PROVE  plan_call(less, send).wait_ms = 0
  BY WaitAssumption DEF plan_call, Min2, Max2, Monus

(* A refusal of the wait was seen: what NoWaitAfterRefusal speaks of.      *)
Refused(st) ==
  st.overloaded > 0 \/ st.transport_failures > 0 \/ st.wait_dropped_for_missing_echo

(***************************************************************************)
(* The common shape of the handlers of an answer: one answer is logged,    *)
(* the clock and the plan stay, and the wait ends, pauses or calls again;  *)
(* a pause runs to the end of the pace or to the deadline.                 *)
(***************************************************************************)
Ends ==
  /\ pc' = "done" /\ result' \in Results \ {"none"}
  /\ cancelled => result' \notin {"Timeout", "OverloadTimeout"}
  /\ result' = "OverloadTimeout" => now < Total
  /\ UNCHANGED <<pause_end, wake>>

Pauses ==
  /\ pc' = "pausing" /\ UNCHANGED result /\ wake' = now
  /\ pause_end' \in Nat
  /\ pause_end' >= Total \/ pause_end' >= call_started + Pace

Rechecks ==
  /\ pc' = "top" /\ UNCHANGED <<result, pause_end, wake>>
  /\ now - call_started >= Pace

AnswerEffect ==
  /\ pc = "calling"
  /\ UNCHANGED <<now, cancelled, plan, call_started, late>>
  /\ \E a \in Answers : log' = Append(log, a)
  /\ send_wait' \in BOOLEAN /\ (send_wait' => send_wait)
  /\ unknown_seen' \in Nat
  /\ stats' \in Stats /\ stats'.requests = stats.requests
  /\ Refused(stats') => Refused(stats) \/ ~send_wait' \/ ~WaitSent
  /\ Ends \/ Pauses \/ Rechecks

(* The time left is a natural number, zero once the deadline passed.       *)
LEMMA LeftIsTime ==
  ASSUME now \in Nat
  PROVE  Left \in Nat /\ (Left > 0 <=> now < Total) /\ (Left = 0 <=> now >= Total)
  BY WaitAssumption DEF Left, Monus

(* Ending the wait leaves no call in flight.                               *)
LEMMA FinishEnds ==
  ASSUME NEW r \in Results \ {"none"}, Finish(r),
         r = "Timeout" => ~cancelled,
         r = "OverloadTimeout" => ~cancelled /\ now < Total
  PROVE  Ends
<1>1. pc' = "done" /\ result' = r /\ UNCHANGED <<pause_end, wake>>
  BY DEF Finish
<1>2. cancelled => r \notin {"Timeout", "OverloadTimeout"}
  OBVIOUS
<1> QED
  BY <1>1, <1>2 DEF Ends

(* A pause of at least what is missing to the pace.                        *)
LEMMA PausePauses ==
  ASSUME TypeOK, NEW d \in Nat, Pause(d), now + d >= call_started + Pace
  PROVE  Pauses
<1>1. now \in Nat /\ call_started \in Nat /\ Total \in Nat /\ Pace \in Nat
  BY WaitAssumption, PaceIsPositive DEF TypeOK
<1> QED
  BY <1>1 DEF Pause, Pauses, Min2

(* An echo changes the wait mode only by ending it, and a missing one does.*)
LEMMA EchoEffect ==
  ASSUME TypeOK, NEW e, NEW st \in Stats, NoteEcho(e, st),
         st.requests = stats.requests, Refused(st) => Refused(stats)
  PROVE  /\ send_wait' \in BOOLEAN /\ (send_wait' => send_wait)
         /\ stats' \in Stats /\ stats'.requests = stats.requests
         /\ Refused(stats') => Refused(stats) \/ ~send_wait' \/ ~WaitSent
<1>1. EchoMissing(e) \in BOOLEAN /\ send_wait \in BOOLEAN
      /\ st.wait_dropped_for_missing_echo \in BOOLEAN
  BY DEF EchoMissing, WaitSent, TypeOK, Stats
<1> DEFINE miss == EchoMissing(e)
<1>2. /\ send_wait' = (send_wait /\ ~miss)
      /\ stats' = [st EXCEPT !.wait_dropped_for_missing_echo = @ \/ miss]
  BY DEF NoteEcho
<1>3. miss \in BOOLEAN
  BY <1>1
<1> HIDE DEF miss
<1>4. send_wait' \in BOOLEAN /\ (send_wait' => send_wait) /\ (miss => ~send_wait')
  BY <1>1, <1>2, <1>3
<1>5. stats' \in Stats /\ stats'.requests = stats.requests
  BY <1>1, <1>2, <1>3 DEF Stats
<1>6. /\ stats'.overloaded = st.overloaded
      /\ stats'.transport_failures = st.transport_failures
      /\ stats'.wait_dropped_for_missing_echo = (st.wait_dropped_for_missing_echo \/ miss)
  BY <1>2 DEF Stats
<1>7. Refused(stats') => Refused(st) \/ miss
  BY <1>6, <1>1, <1>3 DEF Refused
<1> QED
  BY <1>4, <1>5, <1>7

(* What a transport failure may do.                                        *)
LEMMA TransportFailureEffect ==
  ASSUME TypeOK, call_started <= now, NEW t \in BOOLEAN, TransportFailure(t)
  PROVE  AnswerEffect
<1>1. /\ pc = "calling" /\ UNCHANGED <<now, cancelled, plan, call_started, late>>
      /\ \E a \in Answers : log' = Append(log, a)
      /\ unknown_seen' \in Nat
  BY DEF TransportFailure, CallUnchanged, TypeOK, Answers
<1>2. /\ send_wait \in BOOLEAN /\ stats \in Stats /\ now \in Nat /\ call_started \in Nat
      /\ Pace \in Nat
  BY PaceIsPositive DEF TypeOK
<1>3. CASE UNCHANGED <<send_wait, stats>> /\ Ends
  BY <1>1, <1>2, <1>3 DEF AnswerEffect
<1>4. CASE /\ stats' = [stats EXCEPT !.transport_failures = @ + 1]
           /\ send_wait' = FALSE /\ (Ends \/ Pauses)
  <2>1. send_wait' \in BOOLEAN /\ ~send_wait'
    BY <1>4
  <2>2. stats' \in Stats /\ stats'.requests = stats.requests
    BY <1>2, <1>4 DEF Stats
  <2> QED
    BY <1>1, <1>4, <2>1, <2>2 DEF AnswerEffect
<1>5. ASSUME NEW r \in {"Cancelled", "Timeout"}, Finish(r), r = "Timeout" => ~cancelled
      PROVE  Ends
  BY <1>5, FinishEnds DEF Results
<1>6. Pause(Pace) => Pauses
  BY <1>2, PausePauses
<1> QED
  BY <1>3, <1>4, <1>5, <1>6 DEF TransportFailure, CancelObserved

(* What an overload answer may do.                                         *)
LEMMA OverloadEffect ==
  ASSUME TypeOK, call_started <= now, NEW r \in RetryAfters, NEW cut \in BOOLEAN,
         Overload(r, cut)
  PROVE  AnswerEffect
<1>1. /\ pc = "calling" /\ UNCHANGED <<now, cancelled, plan, call_started, late>>
      /\ \E a \in Answers : log' = Append(log, a)
      /\ unknown_seen' \in Nat
  BY DEF Overload, CallUnchanged, TypeOK, Answers
<1>2. /\ send_wait \in BOOLEAN /\ stats \in Stats /\ now \in Nat /\ call_started \in Nat
      /\ Pace \in Nat /\ r \in Nat
  BY PaceIsPositive, WaitAssumption DEF TypeOK
<1>3. CASE UNCHANGED <<send_wait, stats>> /\ Ends
  BY <1>1, <1>2, <1>3 DEF AnswerEffect
<1>4. CASE /\ stats' = [stats EXCEPT !.overloaded = @ + 1]
           /\ send_wait' = (send_wait /\ ~WaitSent) /\ (Ends \/ Pauses)
  <2>1. send_wait' \in BOOLEAN /\ (send_wait' => send_wait) /\ (~send_wait' \/ ~WaitSent)
    BY <1>2, <1>4 DEF WaitSent
  <2>2. stats' \in Stats /\ stats'.requests = stats.requests
    BY <1>2, <1>4 DEF Stats
  <2> QED
    BY <1>1, <1>4, <2>1, <2>2 DEF AnswerEffect
<1>5. ASSUME NEW v \in {"Cancelled", "Timeout"}, Finish(v), v = "Timeout" => ~cancelled
      PROVE  Ends
  BY <1>5, FinishEnds DEF Results
<1>6. ASSUME Finish("OverloadTimeout"), ~cancelled, Left > 0
      PROVE  Ends
  BY <1>2, <1>6, LeftIsTime, FinishEnds DEF Results
<1>7. Pause(Max2(Pace, r)) => Pauses
  <2>1. Max2(Pace, r) \in Nat /\ now + Max2(Pace, r) >= call_started + Pace
    BY <1>2 DEF Max2
  <2> QED BY <2>1, PausePauses
<1> QED
  BY <1>3, <1>4, <1>5, <1>6, <1>7 DEF Overload, CancelObserved

(* What a pending error may do.                                            *)
LEMMA LegacyPendingEffect ==
  ASSUME TypeOK, call_started <= now, NEW e \in Echoes, LegacyPending(e)
  PROVE  AnswerEffect
<1>1. /\ pc = "calling" /\ UNCHANGED <<now, cancelled, plan, call_started, late>>
      /\ unknown_seen' \in Nat
      /\ \E a \in Answers : log' = Append(log, a)
  BY DEF LegacyPending, CallUnchanged, Answers
<1>2. /\ send_wait \in BOOLEAN /\ stats \in Stats /\ now \in Nat /\ call_started \in Nat
      /\ Pace \in Nat
  BY PaceIsPositive DEF TypeOK
<1>3. CASE WaitSent /\ e = "malformed"
  <2>1. /\ stats' = [stats EXCEPT !.pending = @ + 1] /\ UNCHANGED send_wait /\ Finish("Error")
    BY <1>3 DEF LegacyPending
  <2>2. Ends
    BY <2>1, FinishEnds DEF Results
  <2>3. stats' \in Stats /\ stats'.requests = stats.requests /\ (Refused(stats') => Refused(stats))
    BY <1>2, <2>1 DEF Stats, Refused
  <2> QED
    BY <1>1, <1>2, <2>1, <2>2, <2>3 DEF AnswerEffect
<1>4. CASE ~(WaitSent /\ e = "malformed")
  <2> DEFINE miss == WaitSent /\ e = "none"
             st   == [stats EXCEPT !.pending = @ + 1]
  <2>1. /\ send_wait' = (send_wait /\ ~miss)
        /\ stats' = [stats EXCEPT !.pending = @ + 1,
                                  !.wait_dropped_for_missing_echo = @ \/ miss]
        /\ Pause(Pace)
    BY <1>4 DEF LegacyPending
  <2>2. Pauses
    BY <1>2, <2>1, PausePauses
  <2>3. miss = EchoMissing(e) /\ miss \in BOOLEAN
    BY DEF EchoMissing
  <2>4. /\ st \in Stats /\ st.requests = stats.requests
        /\ Refused(st) => Refused(stats)
    BY <1>2 DEF Stats, Refused
  <2> HIDE DEF miss
  <2>5. stats' = [st EXCEPT !.wait_dropped_for_missing_echo = @ \/ miss]
    BY <1>2, <2>1 DEF Stats
  <2>6. NoteEcho(e, st)
    BY <2>1, <2>3, <2>5, Zenon DEF NoteEcho
  <2> HIDE DEF st
  <2> QED
    BY <1>1, <2>2, <2>4, <2>6, EchoEffect DEF AnswerEffect
<1> QED
  BY <1>3, <1>4

(* What a final error may do.                                              *)
LEMMA FinalErrorEffect ==
  ASSUME TypeOK, NEW a \in Answers, NEW v \in {"StateNotFound", "Error"}, FinalError(a, v)
  PROVE  AnswerEffect
<1>1. /\ pc = "calling" /\ UNCHANGED <<now, cancelled, plan, call_started, late>>
      /\ log' = Append(log, a)
      /\ UNCHANGED <<send_wait, unknown_seen, stats>> /\ Finish(v)
  BY DEF FinalError, CallUnchanged
<1>2. send_wait \in BOOLEAN /\ stats \in Stats /\ unknown_seen \in Nat
  BY DEF TypeOK
<1>3. Ends
  BY <1>1, FinishEnds DEF Results
<1> QED
  BY <1>1, <1>2, <1>3 DEF AnswerEffect

(* The decoded results, after the echo was noted.                          *)
LEMMA ResultEffect ==
  ASSUME TypeOK, call_started <= now, NEW e \in Echoes,
         CertifiedResult(e) \/ ExpiredResult(e) \/ UnknownResult(e) \/ PendingResult(e)
  PROVE  AnswerEffect
<1>1. /\ pc = "calling" /\ UNCHANGED <<now, cancelled, plan, call_started, late>>
      /\ \E a \in Answers : log' = Append(log, a)
  BY DEF CertifiedResult, ExpiredResult, UnknownResult, PendingResult, CallUnchanged, Answers
<1>2. /\ send_wait \in BOOLEAN /\ stats \in Stats /\ now \in Nat /\ call_started \in Nat
      /\ Pace \in Nat /\ Pace >= Interval /\ Pace >= MinPause /\ unknown_seen \in Nat
      /\ Interval \in Nat /\ MinPause \in Nat /\ now - call_started \in Nat
  BY PaceIsPositive, WaitAssumption DEF TypeOK
<1>3. unknown_seen' \in Nat
  BY <1>2 DEF CertifiedResult, ExpiredResult, UnknownResult, PendingResult
<1>4. PICK st \in Stats : /\ NoteEcho(e, st) /\ st.requests = stats.requests
                          /\ Refused(st) => Refused(stats)
  <2>1. CASE CertifiedResult(e) \/ ExpiredResult(e)
    BY <1>2, <2>1 DEF CertifiedResult, ExpiredResult
  <2>2. CASE UnknownResult(e)
    <3> DEFINE u == [stats EXCEPT !.unknown = @ + 1]
    <3>1. u \in Stats /\ u.requests = stats.requests /\ (Refused(u) => Refused(stats))
      BY <1>2 DEF Stats, Refused
    <3>2. NoteEcho(e, u)
      BY <2>2 DEF UnknownResult
    <3> QED BY <3>1, <3>2
  <2>3. CASE PendingResult(e)
    <3> DEFINE u(n) == [stats EXCEPT !.pending = @ + 1, !.immediate_rechecks = n]
    <3>1. PICK n \in Nat : NoteEcho(e, u(n))
      <4>1. stats.immediate_rechecks \in Nat
        BY <1>2 DEF Stats
      <4> DEFINE n == IF RecheckNow(WaitSent /\ e = "positive")
                      THEN stats.immediate_rechecks + 1 ELSE stats.immediate_rechecks
      <4>2. n \in Nat
        BY <4>1
      <4>3. u(n) = [stats EXCEPT !.pending = @ + 1,
                      !.immediate_rechecks = IF RecheckNow(WaitSent /\ e = "positive")
                                             THEN @ + 1 ELSE @]
        BY <1>2 DEF Stats
      <4>4. NoteEcho(e, u(n))
        BY <2>3, <4>3 DEF PendingResult
      <4> HIDE DEF n, u
      <4> QED BY <4>2, <4>4
    <3>2. u(n) \in Stats /\ u(n).requests = stats.requests /\ (Refused(u(n)) => Refused(stats))
      <4>1. u(n) \in Stats /\ u(n).requests = stats.requests
        <5> DEFINE p == [stats EXCEPT !.pending = @ + 1]
        <5>1. p \in Stats /\ p.requests = stats.requests
          BY <1>2 DEF Stats
        <5>2. u(n) = [p EXCEPT !.immediate_rechecks = n]
          BY <1>2 DEF Stats
        <5> HIDE DEF p, u
        <5> QED BY <3>1, <5>1, <5>2 DEF Stats
      <4>2. /\ u(n).overloaded = stats.overloaded
            /\ u(n).transport_failures = stats.transport_failures
            /\ u(n).wait_dropped_for_missing_echo = stats.wait_dropped_for_missing_echo
        BY <1>2 DEF Stats
      <4> HIDE DEF u
      <4> QED BY <4>1, <4>2 DEF Refused
    <3> HIDE DEF u
    <3> QED BY <3>1, <3>2
  <2> QED BY <2>1, <2>2, <2>3
<1>5. Ends \/ Pauses \/ Rechecks
  <2>1. \A v \in {"Ok", "StateExpired", "StateUnknown"} : Finish(v) => Ends
    BY FinishEnds DEF Results
  <2>2. Pause(Pace) => Pauses
    BY <1>2, PausePauses
  <2>3. CASE CertifiedResult(e) \/ ExpiredResult(e) \/ UnknownResult(e)
    BY <2>1, <2>2, <2>3 DEF CertifiedResult, ExpiredResult, UnknownResult
  <2>4. CASE PendingResult(e)
    <3> DEFINE took == now - call_started
               d == Max2(Monus(Interval, took), MinPause)
    <3>1. d \in Nat /\ now + d >= call_started + Pace
      <4>1. Pace = Interval \/ Pace = MinPause
        BY DEF Pace, Max2
      <4> QED BY <4>1, <1>2 DEF Max2, Monus
    <3>2. Pause(d) => Pauses
      <4> HIDE DEF d
      <4> QED BY <3>1, PausePauses
    <3>3. \/ Pause(d) \/ Pause(Pace)
          \/ /\ RecheckNow(WaitSent /\ e = "positive")
             /\ pc' = "top" /\ UNCHANGED <<result, pause_end, wake>>
      BY <2>4 DEF PendingResult
    <3> QED BY <2>2, <3>2, <3>3 DEF Rechecks, RecheckNow
  <2> QED BY <2>3, <2>4
<1> QED
  BY <1>1, <1>3, <1>4, <1>5, EchoEffect DEF AnswerEffect

(* Every answer has the effect common to all handlers.                     *)
LEMMA AnswerHasEffect ==
  ASSUME TypeOK, call_started <= now, Answer
  PROVE  AnswerEffect
<1>1. "notfound" \in Answers /\ "malformed" \in Answers
  BY DEF Answers
<1> QED
  BY <1>1, TransportFailureEffect, OverloadEffect, LegacyPendingEffect, FinalErrorEffect,
     ResultEffect DEF Answer, RefusedResult

-----------------------------------------------------------------------------
(***************************************************************************)
(* The inductive invariant.  A plan is the one of the time left when it    *)
(* was made; a call is preceded by a full pace or the deadline; and once a *)
(* wait was refused, either no call may carry one or none fits the time    *)
(* left.                                                                   *)
(***************************************************************************)
PlanIsCurrent ==
  /\ call_started <= now
  /\ pc = "planned" => now < Total /\ plan = plan_call(Left, send_wait)
  /\ pc = "calling" => /\ call_started < Total
                       /\ plan = plan_call(Total - call_started, send_wait)

PaceKept ==
  stats.requests > 0 =>
    /\ pc \in {"top", "planned"} => now >= Total \/ now >= call_started + Pace
    /\ pc = "pausing" => pause_end >= Total \/ pause_end >= call_started + Pace

RequestsCounted ==
  stats.requests > 0 => /\ (stats.requests - 1) * Pace <= call_started
                        /\ call_started < Total

RefusalKept ==
  Refused(stats) =>
    /\ send_wait => plan_call(Left, TRUE).wait_ms = 0
    /\ pc \in {"planned", "calling"} => plan.wait_ms = 0

CancelKept ==
  /\ pc # "done" => result = "none"
  /\ late <= 1 /\ (~cancelled \/ pc = "planned" => late = 0)
  /\ cancelled => result \notin {"Timeout", "OverloadTimeout"}
  /\ result = "OverloadTimeout" => now < Total

IInv == TypeOK /\ PlanIsCurrent /\ PaceKept /\ RequestsCounted /\ RefusalKept /\ CancelKept

(* The wait starts in the invariant.                                       *)
LEMMA InitEstablishesIInv == Init => IInv
<1> SUFFICES ASSUME Init PROVE IInv
  OBVIOUS
<1>1. /\ pc = "top" /\ now = 0 /\ call_started = 0 /\ cancelled = FALSE /\ late = 0
      /\ result = "none" /\ stats \in Stats /\ stats.requests = 0 /\ ~Refused(stats)
  BY DEF Init, Stats, Refused
<1>2. TypeOK
  <2>1. /\ plan \in Plans /\ log = <<>> /\ unknown_seen = 0 /\ pause_end = 0 /\ wake = 0
        /\ send_wait = TRUE
    BY DEF Init, Plans
  <2>2. cancelled \in BOOLEAN /\ send_wait \in BOOLEAN
    BY <1>1, <2>1
  <2>3. log \in Seq({"certified", "expired", "unknown", "pending", "overload",
                     "transport", "notfound", "malformed"})
    BY <2>1
  <2>4. result \in Results
    BY <1>1 DEF Results
  <2> HIDE DEF Init
  <2> QED BY <1>1, <2>1, <2>2, <2>3, <2>4 DEF TypeOK
<1>3. PlanIsCurrent /\ PaceKept /\ RequestsCounted /\ RefusalKept
  <2>1. PlanIsCurrent
    BY <1>1 DEF PlanIsCurrent
  <2>2. PaceKept /\ RequestsCounted
    <3>1. ~(stats.requests > 0)
      BY <1>1
    <3> QED BY <3>1 DEF PaceKept, RequestsCounted
  <2>3. RefusalKept
    BY <1>1 DEF RefusalKept
  <2> QED BY <2>1, <2>2, <2>3
<1>4. CancelKept
  BY <1>1, SMT DEF CancelKept
<1> QED
  BY <1>2, <1>3, <1>4 DEF IInv

(* The loop head keeps the invariant: the plan fits the time left.         *)
LEMMA TopKeepsIInv ==
  ASSUME IInv, Top
  PROVE  IInv'
<1>1. /\ TypeOK /\ PlanIsCurrent /\ PaceKept /\ RequestsCounted /\ RefusalKept /\ CancelKept
      /\ now \in Nat /\ Left \in Nat /\ send_wait \in BOOLEAN
      /\ pc = "top" /\ result = "none"
      /\ UNCHANGED <<now, cancelled, send_wait, unknown_seen, call_started, stats, log, late>>
  BY LeftIsTime DEF IInv, TypeOK, Top, CancelKept
<1>2. CASE /\ pc' = "done" /\ UNCHANGED <<plan, pause_end, wake>>
           /\ result' \in {"Cancelled", "Timeout"} /\ (result' = "Timeout" => ~cancelled)
  <2>1. TypeOK'
    BY <1>1, <1>2 DEF TypeOK, Results
  <2>2. CancelKept'
    BY <1>1, <1>2 DEF CancelKept
  <2> QED
    BY <1>1, <1>2, <2>1, <2>2
    DEF IInv, PlanIsCurrent, PaceKept, RequestsCounted, RefusalKept, Left, Refused
<1>3. CASE /\ ~cancelled /\ Left > 0 /\ plan' = plan_call(Left, send_wait)
           /\ pc' = "planned" /\ UNCHANGED <<result, pause_end, wake>>
  <2>1. plan' \in Plans
    BY <1>1, <1>3, PlanProperties
  <2>2. TypeOK'
    BY <1>1, <1>3, <2>1 DEF TypeOK
  <2>3. PlanIsCurrent'
    BY <1>1, <1>3, LeftIsTime DEF PlanIsCurrent, Left
  <2>4. RefusalKept'
    <3>1. Refused(stats') <=> Refused(stats)
      BY <1>1
    <3>2. Left' = Left
      BY <1>1 DEF Left
    <3>3. ASSUME Refused(stats) PROVE plan'.wait_ms = 0
      <4>1. CASE send_wait
        <5>1. plan' = plan_call(Left, TRUE)
          BY <1>1, <1>3, <4>1 DEF plan_call
        <5> QED BY <1>1, <3>3, <4>1, <5>1 DEF RefusalKept
      <4>2. CASE ~send_wait
        BY <1>1, <1>3, <4>2, PlanProperties
      <4> QED BY <4>1, <4>2
    <3> QED BY <1>1, <3>1, <3>2, <3>3 DEF RefusalKept
  <2>5. CancelKept'
    BY <1>1, <1>3 DEF CancelKept
  <2> QED
    BY <1>1, <1>3, <2>2, <2>3, <2>4, <2>5 DEF IInv, PaceKept, RequestsCounted
<1> QED
  BY <1>2, <1>3 DEF Top, Finish, CancelObserved

(* Starting a call keeps the invariant.                                    *)
LEMMA StartCallKeepsIInv ==
  ASSUME IInv, StartCall
  PROVE  /\ IInv'
         /\ stats.requests > 0 => now - call_started >= Pace
<1>1. /\ TypeOK /\ PlanIsCurrent /\ PaceKept /\ RequestsCounted /\ RefusalKept /\ CancelKept
      /\ now \in Nat /\ Total \in Nat /\ Pace \in Nat /\ stats \in Stats
      /\ call_started \in Nat /\ late \in Nat /\ cancelled \in BOOLEAN
      /\ pc = "planned" /\ pc' = "calling" /\ call_started' = now
      /\ UNCHANGED <<now, cancelled, send_wait, unknown_seen, plan, pause_end, wake, result, log>>
  BY WaitAssumption, PaceIsPositive DEF IInv, TypeOK, StartCall
<1>2. now < Total /\ Left = Total - now /\ call_started <= now
  BY <1>1 DEF PlanIsCurrent, Left, Monus
<1>3. stats' \in Stats /\ stats'.requests = stats.requests + 1
  <2> DEFINE one == [stats EXCEPT !.requests = @ + 1]
             n == IF WaitSent THEN stats.long_poll_requests + 1 ELSE stats.long_poll_requests
  <2>1. one \in Stats /\ one.requests = stats.requests + 1
    BY <1>1 DEF Stats
  <2>2. n \in Nat
    BY <1>1 DEF Stats
  <2>3. stats' = [one EXCEPT !.long_poll_requests = n]
    BY <1>1 DEF StartCall, Stats
  <2> HIDE DEF one, n
  <2> QED BY <2>1, <2>2, <2>3 DEF Stats
<1>4. Refused(stats') <=> Refused(stats)
  BY <1>1 DEF StartCall, Stats, Refused
<1>5. stats.requests > 0 => now - call_started >= Pace
  BY <1>1, <1>2 DEF PaceKept
<1>6. TypeOK'
  <2>1. late' \in Nat
    BY <1>1 DEF StartCall
  <2> QED BY <1>1, <1>3, <2>1 DEF TypeOK
<1>7. PlanIsCurrent'
  BY <1>1, <1>2 DEF PlanIsCurrent
<1>8. RequestsCounted'
  <2>1. CASE stats.requests = 0
    BY <1>1, <1>2, <1>3, <2>1 DEF RequestsCounted
  <2>2. CASE stats.requests # 0
    <3> DEFINE r == stats.requests
    <3>1. r \in Nat /\ r > 0
      BY <1>1, <2>2 DEF Stats
    <3>2. (r - 1) * Pace <= call_started
      BY <1>1, <3>1 DEF RequestsCounted
    <3> HIDE DEF r
    <3>3. \A m, q \in Nat : m > 0 => m * q = (m - 1) * q + q
      OBVIOUS
    <3>4. r * Pace = (r - 1) * Pace + Pace
      BY <1>1, <3>1, <3>3
    <3>5. r * Pace \in Nat /\ (r - 1) * Pace \in Nat
      BY <1>1, <3>1
    <3>6. r * Pace <= now
      BY <1>1, <1>5, <3>1, <3>2, <3>4, <3>5 DEF r
    <3>7. stats'.requests - 1 = r
      BY <1>3, <3>1 DEF r
    <3> QED BY <1>1, <1>2, <3>6, <3>7 DEF RequestsCounted
  <2> QED BY <2>1, <2>2
<1>9. RefusalKept'
  <2>1. Left' = Left
    BY <1>1 DEF Left
  <2>2. ASSUME Refused(stats)
        PROVE  (send_wait => plan_call(Left, TRUE).wait_ms = 0) /\ plan.wait_ms = 0
    BY <1>1, <2>2 DEF RefusalKept
  <2> QED BY <1>1, <1>4, <2>1, <2>2 DEF RefusalKept
<1>10. CancelKept'
  <2>1. late = 0 /\ late' \in {0, 1} /\ (~cancelled => late' = 0)
    BY <1>1 DEF CancelKept, StartCall
  <2> QED BY <1>1, <2>1 DEF CancelKept
<1>11. PaceKept'
  BY <1>1 DEF PaceKept
<1> QED
  BY <1>5, <1>6, <1>7, <1>8, <1>9, <1>10, <1>11 DEF IInv

(* Every answer keeps the invariant.                                       *)
LEMMA AnswerKeepsIInv ==
  ASSUME IInv, Answer
  PROVE  IInv' /\ stats'.requests = stats.requests
<1>1. /\ TypeOK /\ PlanIsCurrent /\ PaceKept /\ RequestsCounted /\ RefusalKept /\ CancelKept
      /\ now \in Nat /\ Total \in Nat /\ Pace \in Nat /\ stats \in Stats
      /\ call_started \in Nat /\ call_started <= now
      /\ cancelled \in BOOLEAN /\ send_wait \in BOOLEAN
  BY WaitAssumption, PaceIsPositive DEF IInv, TypeOK, PlanIsCurrent
<1>2. AnswerEffect
  BY <1>1, AnswerHasEffect
<1>3. /\ pc = "calling" /\ UNCHANGED <<now, cancelled, plan, call_started, late>>
      /\ send_wait' \in BOOLEAN /\ (send_wait' => send_wait)
      /\ stats' \in Stats /\ stats'.requests = stats.requests
      /\ Refused(stats') => Refused(stats) \/ ~send_wait' \/ ~WaitSent
      /\ pc' \in {"done", "pausing", "top"} /\ result = "none"
  BY <1>1, <1>2 DEF AnswerEffect, Ends, Pauses, Rechecks, CancelKept
<1>4. TypeOK'
  <2>1. log' \in Seq(Answers)
    <3>1. log \in Seq(Answers)
      BY <1>1 DEF TypeOK, Answers
    <3>2. PICK a \in Answers : log' = Append(log, a)
      BY <1>2 DEF AnswerEffect
    <3> HIDE DEF Answers
    <3> QED BY <3>1, <3>2
  <2>2. unknown_seen' \in Nat /\ pause_end' \in Nat /\ wake' \in Nat /\ result' \in Results
    BY <1>1, <1>2 DEF AnswerEffect, Ends, Pauses, Rechecks, TypeOK
  <2> QED BY <1>1, <1>3, <2>1, <2>2 DEF TypeOK, Answers
<1>5. PlanIsCurrent'
  BY <1>1, <1>3 DEF PlanIsCurrent
<1>6. PaceKept'
  BY <1>1, <1>2, <1>3 DEF PaceKept, AnswerEffect, Ends, Pauses, Rechecks
<1>7. RequestsCounted'
  BY <1>1, <1>3 DEF RequestsCounted
<1>8. RefusalKept'
  <2>1. Left' = Left /\ Left \in Nat
    BY <1>1, <1>3, LeftIsTime DEF Left
  <2>2. ASSUME Refused(stats'), send_wait' PROVE plan_call(Left, TRUE).wait_ms = 0
    <3>1. CASE Refused(stats)
      BY <1>1, <1>3, <2>2, <3>1 DEF RefusalKept
    <3>2. CASE ~WaitSent
      <4> DEFINE then == Total - call_started
      <4>1. then \in Nat /\ Left \in 0..then
        BY <1>1, <1>3 DEF PlanIsCurrent, Left, Monus
      <4>2. send_wait = TRUE
        BY <1>1, <1>3, <2>2
      <4>3. plan = plan_call(then, TRUE)
        BY <1>1, <1>3, <4>2 DEF PlanIsCurrent
      <4>4. plan.wait_ms = 0
        BY <1>1, <3>2 DEF WaitSent, TypeOK, Plans
      <4> HIDE DEF then
      <4> QED BY <4>1, <4>3, <4>4, WaitsShrink
    <3> QED BY <1>3, <2>2, <3>1, <3>2
  <2> QED BY <1>3, <2>1, <2>2 DEF RefusalKept
<1>9. CancelKept'
  BY <1>1, <1>2, <1>3 DEF CancelKept, AnswerEffect, Ends, Pauses, Rechecks
<1> QED
  BY <1>3, <1>4, <1>5, <1>6, <1>7, <1>8, <1>9 DEF IInv

(* A turn of the sleep keeps the invariant.                                *)
LEMMA PauseTurnKeepsIInv ==
  ASSUME IInv, PauseTurn
  PROVE  IInv'
<1>1. /\ TypeOK /\ PlanIsCurrent /\ PaceKept /\ RequestsCounted /\ RefusalKept /\ CancelKept
      /\ now \in Nat /\ pause_end \in Nat /\ Total \in Nat /\ Pace \in Nat
      /\ SleepSlice \in Nat /\ call_started \in Nat
      /\ pc = "pausing" /\ result = "none"
      /\ UNCHANGED <<now, cancelled, send_wait, unknown_seen, plan, call_started, stats, log, late>>
  BY WaitAssumption, PaceIsPositive DEF IInv, TypeOK, PauseTurn, CancelKept
<1>2. /\ pause_end' = pause_end /\ pc' \in {"done", "top", "pausing"}
      /\ wake' \in Nat
      /\ result' = result \/ result' = "Cancelled"
      /\ pc' # "done" => result' = "none"
      /\ pc' = "top" => now >= pause_end
  BY <1>1 DEF PauseTurn, Finish, Min2, TypeOK
<1>3. TypeOK'
  BY <1>1, <1>2 DEF TypeOK, Results
<1>4. RefusalKept'
  BY <1>1, <1>2 DEF RefusalKept, Left
<1>5. PaceKept'
  BY <1>1, <1>2 DEF PaceKept
<1>6. CancelKept'
  BY <1>1, <1>2 DEF CancelKept
<1> QED
  BY <1>1, <1>2, <1>3, <1>4, <1>5, <1>6 DEF IInv, PlanIsCurrent, RequestsCounted

(* A cancellation keeps the invariant.                                     *)
LEMMA CancelKeepsIInv ==
  ASSUME IInv, Cancel
  PROVE  IInv'
<1>1. /\ TypeOK /\ PlanIsCurrent /\ PaceKept /\ RequestsCounted /\ RefusalKept /\ CancelKept
      /\ pc # "done" /\ result = "none" /\ late = 0
      /\ UNCHANGED <<pc, now, send_wait, unknown_seen, plan, call_started,
                     pause_end, wake, stats, result, log, late>>
  BY DEF IInv, Cancel, CancelKept
<1>2. cancelled' \in BOOLEAN
  BY DEF Cancel
<1>3. TypeOK'
  BY <1>1, <1>2 DEF TypeOK
<1>4. CancelKept'
  BY <1>1 DEF CancelKept
<1> QED
  BY <1>1, <1>3, <1>4 DEF IInv, PlanIsCurrent, PaceKept, RequestsCounted, RefusalKept, Left

(* The passing of time keeps the invariant.                                *)
LEMMA TickKeepsIInv ==
  ASSUME IInv, Tick
  PROVE  IInv'
<1>1. /\ TypeOK /\ PlanIsCurrent /\ PaceKept /\ RequestsCounted /\ RefusalKept /\ CancelKept
      /\ now \in Nat /\ now' = now + 1 /\ Total \in Nat /\ Pace \in Nat
      /\ call_started \in Nat /\ pc \in {"top", "calling", "pausing"} /\ result = "none"
      /\ UNCHANGED <<pc, cancelled, send_wait, unknown_seen, plan, call_started,
                     pause_end, wake, stats, result, log, late>>
  BY WaitAssumption, PaceIsPositive DEF IInv, Tick, CancelKept, TypeOK
<1>2. TypeOK'
  BY <1>1 DEF TypeOK
<1>3. RefusalKept'
  <2>1. Left \in Nat /\ Left' \in 0..Left
    BY <1>1 DEF Left, Monus
  <2>2. ASSUME Refused(stats), send_wait PROVE plan_call(Left', TRUE).wait_ms = 0
    <3>1. plan_call(Left, TRUE).wait_ms = 0
      BY <1>1, <2>2 DEF RefusalKept
    <3> QED BY <2>1, <3>1, WaitsShrink
  <2> QED BY <1>1, <2>2 DEF RefusalKept
<1>4. PlanIsCurrent' /\ PaceKept' /\ RequestsCounted'
  BY <1>1 DEF PlanIsCurrent, PaceKept, RequestsCounted
<1>5. CancelKept'
  BY <1>1 DEF CancelKept
<1> QED
  BY <1>2, <1>3, <1>4, <1>5 DEF IInv

(* A stuttering step keeps the invariant.                                  *)
LEMMA StutterKeepsIInv ==
  ASSUME IInv, UNCHANGED vars
  PROVE  IInv'
<1>1. TypeOK'
  BY DEF IInv, TypeOK, vars
<1>2. RefusalKept' /\ PlanIsCurrent'
  BY DEF IInv, RefusalKept, PlanIsCurrent, Left, vars
<1> QED
  BY <1>1, <1>2 DEF IInv, PaceKept, RequestsCounted, CancelKept, vars

(* The inductive invariant of the wait holds in every state.               *)
THEOREM Invariance == Spec => []IInv
<1>1. IInv /\ [Next]_vars => IInv'
  BY TopKeepsIInv, StartCallKeepsIInv, AnswerKeepsIInv, PauseTurnKeepsIInv,
     CancelKeepsIInv, TickKeepsIInv, StutterKeepsIInv DEF Next, Done
<1> QED
  BY InitEstablishesIInv, <1>1, PTL DEF Spec

(* Every variable of the wait keeps its type: no budget goes below zero.   *)
THEOREM TypeCorrect == Spec => []TypeOK
<1>1. IInv => TypeOK
  BY DEF IInv
<1> QED
  BY Invariance, <1>1, PTL

(* No call is planned past the total deadline, except a plain call of the  *)
(* trait's wait, which at least starts before it.                          *)
THEOREM DeadlineKept == Spec => []CallsEndByDeadline
<1>1. IInv => CallsEndByDeadline
  <2> SUFFICES ASSUME IInv, pc = "calling"
               PROVE  /\ call_started < Total
                      /\ WaitSent \/ ~KeepPlain => call_started + plan.timeout_ms <= Total
    BY DEF CallsEndByDeadline
  <2> DEFINE left == Total - call_started
  <2>1. /\ call_started < Total /\ plan = plan_call(left, send_wait)
        /\ call_started \in Nat /\ Total \in Nat /\ send_wait \in BOOLEAN
    BY WaitAssumption DEF IInv, TypeOK, PlanIsCurrent
  <2>2. left \in Nat /\ left > 0
    BY <2>1
  <2> HIDE DEF left
  <2>3. plan \in Plans /\ (WaitSent \/ ~KeepPlain => plan.timeout_ms <= left)
    BY <2>1, <2>2, PlanProperties DEF WaitSent
  <2> QED BY <2>1, <2>3 DEF left, Plans
<1> QED
  BY Invariance, <1>1, PTL

(* Two requests of a wait are at least the pace apart, whatever the server *)
(* answers and echoes.                                                     *)
THEOREM Paced == Spec => RequestsPaced
<1>1. IInv /\ [Next]_vars =>
        [stats.requests' > stats.requests /\ stats.requests > 0
           => now - call_started >= Pace]_vars
  <2> SUFFICES ASSUME IInv, Next, stats.requests' > stats.requests, stats.requests > 0
               PROVE  now - call_started >= Pace
    OBVIOUS
  <2>1. stats.requests \in Nat
    BY DEF IInv, TypeOK, Stats
  <2>2. ASSUME stats' = stats \/ stats.requests' = stats.requests PROVE FALSE
    BY <2>1, <2>2
  <2>3. ~Answer
    <3> SUFFICES ASSUME Answer PROVE FALSE
      OBVIOUS
    <3> QED BY <2>2, AnswerKeepsIInv
  <2> QED
    BY <2>2, <2>3, StartCallKeepsIInv
    DEF Next, Top, PauseTurn, Cancel, Tick, Done, vars
<1> QED
  BY Invariance, <1>1, PTL DEF Spec, RequestsPaced

(* A wait sends no more requests than the classic poller of the same       *)
(* budget.                                                                 *)
THEOREM Economy == Spec => []NoMoreThanClassicPoller
<1>1. IInv => NoMoreThanClassicPoller
  <2> SUFFICES ASSUME IInv, stats.requests > 0
               PROVE  (stats.requests - 1) * Pace < Total
    BY DEF NoMoreThanClassicPoller
  <2>1. /\ (stats.requests - 1) * Pace <= call_started /\ call_started < Total
        /\ stats.requests \in Nat /\ Pace \in Nat /\ call_started \in Nat /\ Total \in Nat
    BY WaitAssumption, PaceIsPositive DEF IInv, TypeOK, Stats, RequestsCounted
  <2>2. (stats.requests - 1) * Pace \in Int
    BY <2>1
  <2> QED BY <2>1, <2>2
<1> QED
  BY Invariance, <1>1, PTL

(* Once the server refused or ignored a wait, no later call of this wait   *)
(* asks for one.                                                           *)
THEOREM RefusalRespected == Spec => []NoWaitAfterRefusal
<1>1. IInv => NoWaitAfterRefusal
  <2> SUFFICES ASSUME IInv, pc = "calling", Refused(stats)
               PROVE  ~WaitSent
    BY DEF NoWaitAfterRefusal, Refused
  <2>1. plan.wait_ms = 0
    BY DEF IInv, RefusalKept
  <2> QED BY <2>1 DEF WaitSent
<1> QED
  BY Invariance, <1>1, PTL

(* A cancelled wait starts at most one more call and never reports a       *)
(* timeout or an overload instead of the cancellation.                     *)
THEOREM CancellationRespected == Spec => []CancellationWins
<1>1. IInv => CancellationWins
  BY DEF IInv, CancelKept, CancellationWins
<1> QED
  BY Invariance, <1>1, PTL

-----------------------------------------------------------------------------
(***************************************************************************)
(* The wait implements ProofRead.  What ties the two together is that the  *)
(* counter unknown_seen is, while the wait lasts, the run of `unknown`     *)
(* answers ProofRead looks at; a malformed echo of a pending answer ends   *)
(* the wait after it reset the counter.                                    *)
(***************************************************************************)
RunCounted == pc # "done" => unknown_seen = Contract!UnknownRun(log)

(* The answers of the run, by position.                                    *)
RunOf(s) == {i \in DOMAIN s : /\ s[i] = "unknown"
                             /\ \A j \in DOMAIN s : j > i => s[j] # "pending"}

(* The run is a finite set of positions.                                   *)
LEMMA RunIsFinite ==
  ASSUME NEW s \in Seq(Contract!Classes)
  PROVE  /\ RunOf(s) \subseteq 1..Len(s) /\ IsFiniteSet(RunOf(s))
         /\ Contract!UnknownRun(s) = Cardinality(RunOf(s))
         /\ Contract!UnknownRun(s) \in Nat
<1>1. DOMAIN s = 1..Len(s) /\ Len(s) \in Nat
  BY LenProperties
<1>2. RunOf(s) \subseteq 1..Len(s)
  BY <1>1 DEF RunOf
<1>3. IsFiniteSet(RunOf(s))
  <2>1. IsFiniteSet(1..Len(s))
    BY <1>1, FS_Interval
  <2> QED BY <1>2, <2>1, FS_Subset
<1>4. Contract!UnknownRun(s) = Cardinality(RunOf(s))
  BY Zenon DEF Contract!UnknownRun, RunOf, Cardinality, Contract!Cardinality
<1> QED BY <1>2, <1>3, <1>4, FS_CardinalityType

(* A pending answer ends the run, an unknown one prolongs it, no other     *)
(* answer touches it.                                                      *)
LEMMA RunAfterAnswer ==
  ASSUME NEW s \in Seq(Contract!Classes), NEW a \in Contract!Classes
  PROVE  /\ Append(s, a) \in Seq(Contract!Classes)
         /\ Append(s, a)[Len(Append(s, a))] = a
         /\ Contract!UnknownRun(Append(s, a)) =
              IF a = "pending" THEN 0
              ELSE IF a = "unknown" THEN Contract!UnknownRun(s) + 1
              ELSE Contract!UnknownRun(s)
<1> DEFINE t == Append(s, a)
<1>1. /\ t \in Seq(Contract!Classes) /\ Len(t) = Len(s) + 1 /\ t[Len(t)] = a
      /\ \A i \in 1..Len(s) : t[i] = s[i]
  BY AppendProperties
<1>2. /\ DOMAIN s = 1..Len(s) /\ Len(s) \in Nat
      /\ DOMAIN t = 1..(Len(s) + 1)
  BY <1>1, LenProperties
<1> HIDE DEF t
<1>3. CASE a = "pending"
  <2>1. RunOf(t) = {}
    BY <1>1, <1>2, <1>3 DEF RunOf
  <2> QED BY <1>1, <1>3, <2>1, RunIsFinite, FS_EmptySet DEF t
<1>4. CASE a = "unknown"
  <2>1. RunOf(t) = RunOf(s) \cup {Len(s) + 1}
    BY <1>1, <1>2, <1>4 DEF RunOf
  <2>2. Len(s) + 1 \notin RunOf(s)
    BY <1>2 DEF RunOf
  <2>3. Cardinality(RunOf(t)) = Cardinality(RunOf(s)) + 1
    BY <2>1, <2>2, RunIsFinite, FS_AddElement
  <2> QED BY <1>1, <1>4, <2>3, RunIsFinite DEF t
<1>5. CASE a \notin {"pending", "unknown"}
  <2>1. RunOf(t) = RunOf(s)
    BY <1>1, <1>2, <1>5 DEF RunOf
  <2> QED BY <1>1, <1>5, <2>1, RunIsFinite DEF t
<1> QED BY <1>1, <1>3, <1>4, <1>5 DEF t

(* An answer is logged and judged as ProofRead says, and counted.          *)
Judged(a) ==
  /\ log' = Append(log, a) /\ result = "none"
  /\ result' \in Contract!VerdictsOf(log')
  /\ pc' # "done" => unknown_seen' = Contract!UnknownRun(log')

(* What is known when an answer arrives.                                   *)
Asking ==
  /\ pc = "calling" /\ result = "none" /\ unknown_seen \in Nat
  /\ log \in Seq(Contract!Classes) /\ unknown_seen = Contract!UnknownRun(log)

(* A failed call or an overload answer decides nothing about the state.    *)
LEMMA UndecidedJudged ==
  ASSUME Asking
  PROVE  /\ \A t \in BOOLEAN : TransportFailure(t) => Judged("transport")
         /\ \A r \in RetryAfters, c \in BOOLEAN : Overload(r, c) => Judged("overload")
<1>1. ASSUME NEW t \in BOOLEAN, TransportFailure(t) PROVE Judged("transport")
  <2>1. /\ log' = Append(log, "transport") /\ unknown_seen' = unknown_seen
        /\ result' \in {"none", "Timeout", "Cancelled"}
    BY <1>1 DEF Asking, TransportFailure, Finish, Pause
  <2>2. /\ Contract!VerdictsOf(log') = {"none", "Timeout", "Cancelled"}
        /\ unknown_seen' = Contract!UnknownRun(log')
    BY <2>1, RunAfterAnswer DEF Asking, Contract!Classes, Contract!VerdictsOf
  <2> QED BY <2>1, <2>2 DEF Asking, Judged
<1>2. ASSUME NEW r \in RetryAfters, NEW c \in BOOLEAN, Overload(r, c) PROVE Judged("overload")
  <2>1. /\ log' = Append(log, "overload") /\ unknown_seen' = unknown_seen
        /\ result' \in {"none", "Timeout", "OverloadTimeout", "Cancelled"}
    BY <1>2 DEF Asking, Overload, Finish, Pause
  <2>2. /\ Contract!VerdictsOf(log') = {"none", "Timeout", "OverloadTimeout", "Cancelled"}
        /\ unknown_seen' = Contract!UnknownRun(log')
    BY <2>1, RunAfterAnswer DEF Asking, Contract!Classes, Contract!VerdictsOf
  <2> QED BY <2>1, <2>2 DEF Asking, Judged
<1> QED BY <1>1, <1>2

(* A pending answer keeps the wait going, unless its echo is malformed.    *)
LEMMA PendingJudged ==
  ASSUME Asking, NEW e \in Echoes, LegacyPending(e) \/ PendingResult(e)
  PROVE  Judged("pending") \/ Judged("malformed")
<1>1. CASE /\ log' = Append(log, "pending") /\ unknown_seen' = 0 /\ result' = "none"
  <2>1. Contract!VerdictsOf(log') = {"none"} /\ Contract!UnknownRun(log') = 0
    BY <1>1, RunAfterAnswer DEF Asking, Contract!Classes, Contract!VerdictsOf
  <2> QED BY <1>1, <2>1 DEF Asking, Judged
<1>2. CASE log' = Append(log, "malformed") /\ Finish("Error")
  <2>1. Contract!VerdictsOf(log') = {"Error"}
    BY <1>2, RunAfterAnswer DEF Asking, Contract!Classes, Contract!VerdictsOf
  <2> QED BY <1>2, <2>1 DEF Asking, Judged, Finish
<1>3. LegacyPending(e) => \/ log' = Append(log, "pending") /\ unknown_seen' = 0 /\ result' = "none"
                          \/ log' = Append(log, "malformed") /\ Finish("Error")
  BY DEF Asking, LegacyPending, Pause
<1>4. PendingResult(e) => log' = Append(log, "pending") /\ unknown_seen' = 0 /\ result' = "none"
  BY DEF Asking, PendingResult, Pause
<1> QED BY <1>1, <1>2, <1>3, <1>4

(* An unknown answer ends the wait exactly when the grace is used up.      *)
LEMMA UnknownJudged ==
  ASSUME Asking, NEW e \in Echoes, UnknownResult(e)
  PROVE  Judged("unknown")
<1>1. /\ log' = Append(log, "unknown") /\ unknown_seen' = unknown_seen + 1
      /\ result' = IF unknown_seen' > Grace THEN "StateUnknown" ELSE "none"
  BY DEF Asking, UnknownResult, GraceSpent, Finish, Pause
<1>2. unknown_seen' = Contract!UnknownRun(log')
  BY <1>1, RunAfterAnswer DEF Asking, Contract!Classes
<1>3. Contract!VerdictsOf(log') = IF unknown_seen' > Grace THEN {"StateUnknown"} ELSE {"none"}
  BY <1>1, <1>2, RunAfterAnswer DEF Asking, Contract!Classes, Contract!VerdictsOf
<1> QED BY <1>1, <1>2, <1>3 DEF Asking, Judged

(* The answers that end the wait, each with its verdict.                   *)
LEMMA FinalJudged ==
  ASSUME Asking, NEW a, NEW r, log' = Append(log, a), Finish(r),
         <<a, r>> \in {<<"certified", "Ok">>, <<"expired", "StateExpired">>,
                       <<"notfound", "StateNotFound">>, <<"malformed", "Error">>}
  PROVE  a \in Contract!Classes /\ Judged(a)
<1>1. a \in Contract!Classes
  BY DEF Contract!Classes
<1>2. Contract!VerdictsOf(log') = {r}
  BY <1>1, RunAfterAnswer DEF Asking, Contract!VerdictsOf
<1> QED BY <1>1, <1>2 DEF Asking, Judged, Finish

(* Every answer is judged as ProofRead says.                               *)
LEMMA AnswerJudged ==
  ASSUME Asking, Answer
  PROVE  \E a \in Contract!Classes : Judged(a)
<1>1. CASE \/ \E t \in BOOLEAN : TransportFailure(t)
           \/ \E r \in RetryAfters, c \in BOOLEAN : Overload(r, c)
  BY <1>1, UndecidedJudged DEF Contract!Classes
<1>2. CASE \E e \in Echoes : LegacyPending(e) \/ PendingResult(e)
  BY <1>2, PendingJudged DEF Contract!Classes
<1>3. CASE \E e \in Echoes : UnknownResult(e)
  BY <1>3, UnknownJudged DEF Contract!Classes
<1>4. CASE \/ FinalError("notfound", "StateNotFound") \/ FinalError("malformed", "Error")
           \/ \E e \in Echoes : RefusedResult(e) \/ CertifiedResult(e) \/ ExpiredResult(e)
  <2>1. \/ log' = Append(log, "notfound") /\ Finish("StateNotFound")
        \/ log' = Append(log, "malformed") /\ Finish("Error")
        \/ log' = Append(log, "certified") /\ Finish("Ok")
        \/ log' = Append(log, "expired") /\ Finish("StateExpired")
    BY <1>4 DEF FinalError, RefusedResult, CertifiedResult, ExpiredResult
  <2> QED BY <2>1, FinalJudged
<1> QED BY <1>1, <1>2, <1>3, <1>4 DEF Answer

(* What the answers are judged by, from the two invariants.                *)
LEMMA AskingWhenCalling ==
  ASSUME IInv, RunCounted, pc = "calling"
  PROVE  Asking
  BY DEF IInv, TypeOK, CancelKept, RunCounted, Asking, Contract!Classes

(* The counter is the run of `unknown` answers in every state of the wait. *)
LEMMA RunIsCounted == Spec => []RunCounted
<1>1. Init => RunCounted
  <2>1. RunOf(<<>>) = {} /\ <<>> \in Seq(Contract!Classes)
    BY DEF RunOf
  <2>2. Contract!UnknownRun(<<>>) = 0
    BY <2>1, RunIsFinite, FS_EmptySet
  <2> QED BY <2>2 DEF Init, RunCounted
<1>2. IInv /\ RunCounted /\ [Next]_vars => RunCounted'
  <2> SUFFICES ASSUME IInv, RunCounted, [Next]_vars PROVE RunCounted'
    OBVIOUS
  <2>1. CASE Answer
    <3>1. pc = "calling"
      BY <2>1 DEF Answer, TransportFailure, Overload, FinalError, LegacyPending,
                  RefusedResult, CertifiedResult, ExpiredResult, UnknownResult, PendingResult
    <3> QED BY <2>1, <3>1, AskingWhenCalling, AnswerJudged DEF Judged, RunCounted
  <2>2. CASE Top \/ StartCall \/ PauseTurn \/ Cancel \/ Tick \/ Done \/ UNCHANGED vars
    <3>1. UNCHANGED <<unknown_seen, log>> /\ (pc = "done" => pc' = "done")
      BY <2>2 DEF Top, StartCall, PauseTurn, Cancel, Tick, Done, vars
    <3> QED BY <3>1 DEF RunCounted
  <2> QED BY <2>1, <2>2 DEF Next
<1> QED BY <1>1, <1>2, Invariance, PTL DEF Spec

(* wait_for_inclusion_proof implements ProofRead: each of its steps is one *)
(* answer judged by the verdict rule, the deadline or the caller ending    *)
(* the read, or nothing.                                                   *)
THEOREM Refinement == Spec => ImplementsProofRead
<1>1. Init => Contract!Init
  BY DEF Init, Contract!Init
<1>2. IInv /\ RunCounted /\ [Next]_vars => [Contract!Next]_<<log, result>>
  <2> SUFFICES ASSUME IInv, RunCounted, [Next]_vars PROVE [Contract!Next]_<<log, result>>
    OBVIOUS
  <2>1. CASE Answer
    <3>1. pc = "calling"
      BY <2>1 DEF Answer, TransportFailure, Overload, FinalError, LegacyPending,
                  RefusedResult, CertifiedResult, ExpiredResult, UnknownResult, PendingResult
    <3>2. PICK a \in Contract!Classes : Judged(a)
      BY <2>1, <3>1, AskingWhenCalling, AnswerJudged
    <3> QED BY <3>2 DEF Judged, Contract!Next, Contract!Read
  <2>2. CASE Top \/ PauseTurn
    <3>1. /\ log' = log /\ result = "none"
          /\ result' = result \/ result' \in {"Timeout", "Cancelled"}
      BY <2>2 DEF IInv, CancelKept, Top, PauseTurn, Finish
    <3> QED BY <3>1 DEF Contract!Next, Contract!Stop
  <2>3. CASE StartCall \/ Cancel \/ Tick \/ Done \/ UNCHANGED vars
    BY <2>3 DEF StartCall, Cancel, Tick, Done, vars
  <2> QED BY <2>1, <2>2, <2>3 DEF Next
<1> QED
  BY <1>1, <1>2, Invariance, RunIsCounted, PTL
  DEF Spec, ImplementsProofRead, Contract!Spec, Contract!readVars
=============================================================================
