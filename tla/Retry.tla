-------------------------------- MODULE Retry --------------------------------
(***************************************************************************)
(* run_sync and run_async: the attempts of one call against the clock.     *)
(*                                                                         *)
(* Time is counted in ticks from the start of the call.  What the program  *)
(* runs in the caller's place (the diagnostic sinks, the scheduler) may    *)
(* take up to MaxLate ticks each time.                                     *)
(***************************************************************************)
EXTENDS Integers, FiniteSets

CONSTANTS
  Modes,            \* the policies modelled, of "sync" and "async"
  AttemptDeadline,  \* deadline_for, for a "read" and for a "write"
  TotalDeadline,    \* _total_deadline_for
  JitterBase,       \* the first delay's cap, 100 ms
  JitterSpace,      \* the random source yields 0 .. JitterSpace - 1
  MaxLate           \* bound on what the caller adds to a deadline

Operations == {"read", "write"}

ASSUME ModesAssumption == Modes \subseteq {"sync", "async"}
ASSUME DeadlineAssumption ==
  /\ AttemptDeadline \in [Operations -> Nat \ {0}]
  /\ TotalDeadline \in [Operations -> Nat \ {0}]
  /\ AttemptDeadline["write"] = TotalDeadline["write"]
ASSUME JitterAssumption ==
  /\ JitterBase \in Nat
  /\ JitterSpace \in Nat /\ JitterSpace > 2 * JitterBase
ASSUME LateAssumption == MaxLate \in Nat

VARIABLES
  mode,            \* which of the two functions runs
  operation,       \* operation_key, as far as READS tells
  now,             \* monotonic() - started
  pc,              \* where the caller is
  attempt,         \* the attempt's number
  attemptStarted,  \* when it was announced, then when it started
  timeout,         \* min(attempt_deadline, remaining)
  wakeAt,          \* when the delay ends
  request,         \* what became of the request of each attempt
  result           \* how the call ended

call == <<mode, operation>>
clocks == <<attemptStarted, timeout, wakeAt>>
vars == <<call, now, pc, attempt, clocks, request, result>>

MaxAttempts == 3
Live == {"sent", "responding"}

TypeOK ==
  /\ mode \in Modes
  /\ operation \in Operations
  /\ now \in Nat
  /\ pc \in {"check", "announce", "wait", "sleep", "done"}
  /\ attempt \in 1 .. MaxAttempts
  /\ attemptStarted \in Nat /\ timeout \in Nat /\ wakeAt \in Nat
  /\ request \in [1 .. MaxAttempts ->
                    Live \cup {"none", "answered", "refused", "failed", "broken", "cancelled", "cut"}]
  /\ result \in {"none", "value", "late", "error"}

Init ==
  /\ mode \in Modes
  /\ operation \in Operations
  /\ now = 0
  /\ pc = "check"
  /\ attempt = 1
  /\ attemptStarted = 0 /\ timeout = 0 /\ wakeAt = 0
  /\ request = [i \in 1 .. MaxAttempts |-> "none"]
  /\ result = "none"

-----------------------------------------------------------------------------
(* full_jitter_delay                                                        *)

\* Slip: every number of the source is used.
RejectNothing(limit) == JitterSpace

RejectionLimit(limit) == (JitterSpace \div limit) * limit

\* The numbers of the source that give a delay of d.
DrawsOf(cap, d) == {raw \in 0 .. RejectionLimit(cap + 1) - 1 : raw % (cap + 1) = d}

Delays(cap) == {raw % (cap + 1) : raw \in 0 .. RejectionLimit(cap + 1) - 1}

-----------------------------------------------------------------------------
(* The attempt loop                                                         *)

\* Slip: a write is attempted like a read.
AttemptsAlike == 3

\* Slip: one attempt too many.
AttemptsTooMany == IF operation = "read" THEN 4 ELSE 1

Attempts == IF operation = "read" THEN 3 ELSE 1

End(how) ==
  /\ pc' = "done"
  /\ result' = how

\* Slip: an attempt may take its full deadline though less is left in all.
WholeDeadline(remaining) == AttemptDeadline[operation]

Budget(remaining) ==
  IF AttemptDeadline[operation] < remaining THEN AttemptDeadline[operation] ELSE remaining

\* What is left of the total deadline is read before the sink is told.
Begin ==
  /\ pc = "check"
  /\ LET remaining == TotalDeadline[operation] - now
     IN  /\ remaining > 0
         /\ timeout' = Budget(remaining)
  /\ pc' = "announce"
  /\ attemptStarted' = now
  /\ UNCHANGED <<call, now, attempt, wakeAt, request, result>>

NoTimeLeft ==
  /\ pc = "check"
  /\ TotalDeadline[operation] - now <= 0
  /\ End("error")
  /\ UNCHANGED <<call, now, attempt, clocks, request>>

\* attempt_start() is over: the request goes out.
Dispatch ==
  /\ pc = "announce"
  /\ pc' = "wait"
  /\ attemptStarted' = now
  /\ request' = [request EXCEPT ![attempt] = "sent"]
  /\ UNCHANGED <<call, now, attempt, timeout, wakeAt, result>>

\* Slip: only the attempt's own time is looked at.
OnTimeForAttempt == now - attemptStarted <= timeout

OnTime ==
  /\ now - attemptStarted <= timeout
  /\ now <= TotalDeadline[operation]

\* An answer: a value in time, an error of its own, or too late, which is
\* reported as a response that had started.
TakeAnswer ==
  /\ pc = "wait"
  /\ request[attempt] = "answered"
  /\ End(IF OnTime THEN "value" ELSE "late")
  /\ UNCHANGED <<call, now, attempt, clocks, request>>

\* An error that is not eligible: of the API, or of a response's stream.
TakeError ==
  /\ pc = "wait"
  /\ request[attempt] \in {"refused", "broken"}
  /\ End("error")
  /\ UNCHANGED <<call, now, attempt, clocks, request>>

\* The delay's cap, doubled after every attempt.
Cap == IF attempt = 1 THEN JitterBase ELSE 2 * JitterBase

\* An eligible error with attempts left: a delay, or the end when the delay
\* would reach the total deadline.
RetryOrRaise ==
  IF attempt >= Attempts
    THEN End("error") /\ UNCHANGED <<attempt, wakeAt>>
    ELSE \E delay \in Delays(Cap) :
           IF now + delay >= TotalDeadline[operation]
             THEN End("error") /\ UNCHANGED <<attempt, wakeAt>>
             ELSE /\ pc' = "sleep"
                  /\ wakeAt' = now + delay
                  /\ attempt' = attempt + 1
                  /\ UNCHANGED result

\* The transport failed before a response.
TakeFailure ==
  /\ pc = "wait"
  /\ request[attempt] = "failed"
  /\ RetryOrRaise
  /\ UNCHANGED <<call, now, attemptStarted, timeout, request>>

TimeIsOut == pc = "wait" /\ now - attemptStarted >= timeout

\* wait_for ends the request and raises, which is eligible.
WaitForTimesOut ==
  /\ TimeIsOut /\ mode = "async"
  /\ request' = [request EXCEPT ![attempt] =
                   CASE @ = "sent" -> "cancelled" [] @ = "responding" -> "cut" [] OTHER -> @]
  /\ RetryOrRaise
  /\ UNCHANGED <<call, now, attemptStarted, timeout>>

\* Slip: an attempt whose worker was abandoned is retried.
JoinTimesOutRetried ==
  /\ TimeIsOut /\ mode = "sync"
  /\ RetryOrRaise
  /\ UNCHANGED <<call, now, attemptStarted, timeout, request>>

\* Slip: join() without a timeout.
JoinForever ==
  /\ TimeIsOut /\ mode = "sync"
  /\ request[attempt] \notin Live
  /\ End("error")
  /\ UNCHANGED <<call, now, attempt, clocks, request>>

\* The worker is abandoned with its request: not eligible.
JoinTimesOut ==
  /\ TimeIsOut /\ mode = "sync"
  /\ End("error")
  /\ UNCHANGED <<call, now, attempt, clocks, request>>

Wake ==
  /\ pc = "sleep"
  /\ now >= wakeAt
  /\ pc' = "check"
  /\ UNCHANGED <<call, now, attempt, clocks, request, result>>

-----------------------------------------------------------------------------
(* The transport and the clock                                              *)

Becomes(i, from, to) ==
  /\ request[i] = from
  /\ request' = [request EXCEPT ![i] = to]
  /\ UNCHANGED <<call, now, pc, attempt, clocks, result>>

\* The request of attempt i gets a response, which is complete, refuses the
\* request or breaks off; or there is none.  It may be an abandoned one.
Transport ==
  \E i \in 1 .. MaxAttempts :
    \/ Becomes(i, "sent", "responding")
    \/ Becomes(i, "responding", "answered")
    \/ Becomes(i, "responding", "refused")
    \/ Becomes(i, "responding", "broken")
    \/ Becomes(i, "sent", "failed")

\* The caller may be busy or wait a while longer.
MayLinger ==
  \/ pc = "announce" /\ now < attemptStarted + MaxLate
  \/ pc = "wait" /\ now < attemptStarted + timeout + MaxLate
  \/ pc = "sleep" /\ now < wakeAt + MaxLate

Tick ==
  /\ MayLinger
  /\ now' = now + 1
  /\ UNCHANGED <<call, pc, attempt, clocks, request, result>>

Caller ==
  \/ Begin \/ NoTimeLeft \/ Dispatch \/ TakeAnswer \/ TakeError \/ TakeFailure
  \/ WaitForTimesOut \/ JoinTimesOut \/ Wake

Ended == pc = "done" /\ UNCHANGED vars

Next == Caller \/ Transport \/ Tick \/ Ended

Spec == Init /\ [][Next]_vars

\* Time passes and the caller goes on; nothing is assumed of the transport.
Fairness == WF_vars(Caller) /\ WF_vars(Tick)

FairSpec == Spec /\ Fairness

-----------------------------------------------------------------------------
(* Properties                                                               *)

\* A write reaches the transport once, whatever becomes of it.
WriteSentOnce ==
  operation = "write" =>
    \A i, j \in 1 .. MaxAttempts : request[i] # "none" /\ request[j] # "none" => i = j

\* The requests of one call never overlap, not even with an abandoned one.
NoOverlap ==
  \A i, j \in 1 .. MaxAttempts : request[i] \in Live /\ request[j] \in Live => i = j

\* A value is returned within the total deadline of the call and the
\* deadline of its attempt, though time passed between the reading of what
\* was left and the start of the attempt.
ValueOnTime ==
  result = "value" =>
    now <= TotalDeadline[operation] /\ now - attemptStarted <= AttemptDeadline[operation]

\* Whatever happens, the call is over when the total deadline has passed, but
\* for what one sink and one wake-up take.
EndsInTime == now <= TotalDeadline[operation] + 2 * MaxLate

\* An attempt whose response had started is the last one.
StartedNeverRetried ==
  \A i \in 1 .. MaxAttempts :
    request[i] \in {"responding", "answered", "refused", "broken", "cut"} => i = attempt

\* The synchronous policy keeps that, even for abandoned requests that get
\* their response after the call has ended.
SyncStartedNeverRetried == mode = "sync" => StartedNeverRetried

\* Every delay up to the present cap is as likely as any other.
JitterUniform ==
  \A d, e \in 0 .. Cap : Cardinality(DrawsOf(Cap, d)) = Cardinality(DrawsOf(Cap, e))

\* Every call ends, whether or not the transport ever answers.
CallEnds == <>(pc = "done")
=============================================================================
