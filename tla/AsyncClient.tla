----------------------------- MODULE AsyncClient -----------------------------
(***************************************************************************)
(* AsyncCuna: the lease every call takes, the attempts of _invoke,         *)
(* cancellation, and close().  Tasks of one event loop.                    *)
(*                                                                         *)
(* A step runs from one suspension of a task to its next one.  No code     *)
(* awaits while it holds the condition's lock except Condition.wait(),     *)
(* which gives the lock up, so taking the lock never suspends a task.      *)
(***************************************************************************)
EXTENDS Integers, FiniteSets

CONSTANTS
  Tasks,           \* the tasks that use the client
  OwnedTransport,  \* FALSE: the caller gave the transport (_with_transport)
  InlineWait,      \* TRUE: asyncio.wait_for awaits in the calling task
                   \* (Python 3.12 and later), FALSE: in a task of its own
  MaxAttempts,     \* attempts of a read
  MaxCancels,      \* bound on the cancellations outstanding on a task
  CancelPoints,    \* where a task may be when it is cancelled
  AcloseMayRaise   \* httpx's aclose() may raise something else

Points == {"idle", "flight", "backoff", "follow", "drain", "aclose"}

ASSUME TasksAssumption == IsFiniteSet(Tasks)
ASSUME SwitchAssumption ==
  /\ OwnedTransport \in BOOLEAN
  /\ InlineWait \in BOOLEAN
  /\ AcloseMayRaise \in BOOLEAN
  /\ CancelPoints \subseteq Points
ASSUME BoundAssumption == MaxAttempts \in Nat \ {0} /\ MaxCancels \in Nat

VARIABLES
  state,            \* AsyncCuna._state
  closeActive,      \* AsyncCuna._close_active
  admitted,         \* AsyncCuna._admitted
  transportClosed,  \* AsyncHttpTransport._closed
  httpClient,       \* the httpx client the transport creates on first use
  pc,               \* where each task is suspended, "idle" outside the SDK
  left,             \* attempts the call of a task may still make
  notified,         \* waiters of the condition that were notified
  cancelling,       \* Task.cancelling()
  pending,          \* a CancelledError not yet raised in the task
  interrupted,      \* the task was cancelled during its present or last call
  outcome           \* how the last call of a task ended

clientVars == <<state, closeActive, admitted>>
transportVars == <<transportClosed, httpClient>>
cancelVars == <<cancelling, pending, interrupted>>
vars == <<clientVars, transportVars, pc, left, notified, cancelVars, outcome>>

LeasePoints == {"flight", "backoff"}   \* inside _lease
WaitPoints == {"follow", "drain"}      \* in Condition.wait()
LeaderPoints == {"drain", "aclose"}    \* a close() that leads

Holders == {t \in Tasks : pc[t] \in LeasePoints}
Waiters == {t \in Tasks : pc[t] \in WaitPoints}
Leaders == {t \in Tasks : pc[t] \in LeaderPoints}

Outcomes == {"ended", "cancelled"}   \* "ended": a value, None or another error

TypeOK ==
  /\ state \in {"OPEN", "CLOSING", "CLOSED"}
  /\ closeActive \in BOOLEAN
  /\ admitted \in Nat
  /\ transportClosed \in BOOLEAN
  /\ httpClient \in {"none", "open", "closing", "closed", "leaked"}
  /\ pc \in [Tasks -> Points]
  /\ left \in [Tasks -> Nat]
  /\ notified \in SUBSET Tasks
  /\ cancelling \in [Tasks -> Nat]
  /\ pending \in [Tasks -> BOOLEAN]
  /\ interrupted \in [Tasks -> BOOLEAN]
  /\ outcome \in [Tasks -> Outcomes]

Init ==
  /\ state = "OPEN"
  /\ closeActive = FALSE
  /\ admitted = 0
  /\ transportClosed = FALSE
  /\ httpClient = "none"
  /\ pc = [t \in Tasks |-> "idle"]
  /\ left = [t \in Tasks |-> 0]
  /\ notified = {}
  /\ cancelling = [t \in Tasks |-> 0]
  /\ pending = [t \in Tasks |-> FALSE]
  /\ interrupted = [t \in Tasks |-> FALSE]
  /\ outcome = [t \in Tasks |-> "ended"]

-----------------------------------------------------------------------------
(* Calls: _lease, _invoke and the attempts of run_async                     *)

\* The task returns to its caller.
Return(t, result) ==
  /\ pc' = [pc EXCEPT ![t] = "idle"]
  /\ outcome' = [outcome EXCEPT ![t] = result]
  /\ pending' = [pending EXCEPT ![t] = FALSE]
  /\ left' = [left EXCEPT ![t] = 0]

\* A new call starts; what happened to an earlier one no longer counts.
Forget(t) == interrupted' = [interrupted EXCEPT ![t] = FALSE]

\* Slip: the last lease goes without waking anybody.
UnleaseSilently ==
  /\ admitted' = admitted - 1
  /\ UNCHANGED notified

\* The finally of _lease.
Unlease ==
  /\ admitted' = admitted - 1
  /\ notified' = Waiters

\* Slip: the count of the calling task is read whoever runs dispatch.
CancellationCounted(t) == cancelling[t] > 0

\* cancellation_requested(): the task that runs dispatch has been cancelled.
\* A wait_for that uses a task of its own hides the caller's count.
CancellationRequested(t) == InlineWait /\ cancelling[t] > 0

\* AsyncHttpTransport.__call__ creates the httpx client when there is none.
Send == httpClient' = IF OwnedTransport /\ httpClient = "none" THEN "open" ELSE httpClient

\* Slip: the admission check inside the try whose finally gives the lease back.
RefuseInsideTry(t) ==
  /\ pc[t] = "idle"
  /\ state # "OPEN"
  /\ Return(t, "ended")
  /\ Forget(t)
  /\ Unlease
  /\ UNCHANGED <<state, closeActive, transportVars, cancelling>>

\* A call on a client that is not open.
Refuse(t) ==
  /\ pc[t] = "idle"
  /\ state # "OPEN"
  /\ Return(t, "ended")
  /\ Forget(t)
  /\ UNCHANGED <<clientVars, transportVars, notified, cancelling>>

\* A call that takes its lease and gives it back before it first suspends:
\* prepare_request refuses it, or a cancellation is still counted.
InvokeWithoutSending(t) ==
  /\ pc[t] = "idle"
  /\ state = "OPEN"
  /\ \E result \in Outcomes :
       /\ result = "cancelled" => CancellationRequested(t)
       /\ Return(t, result)
  /\ Forget(t)
  /\ notified' = Waiters
  /\ UNCHANGED <<clientVars, transportVars, cancelling>>

\* Slip: the lease is taken whatever the client's state.
InvokeUnchecked(t) ==
  /\ pc[t] = "idle"
  /\ ~CancellationRequested(t)
  /\ admitted' = admitted + 1
  /\ pc' = [pc EXCEPT ![t] = "flight"]
  /\ left' \in {[left EXCEPT ![t] = n - 1] : n \in {1, MaxAttempts}}
  /\ Send
  /\ Forget(t)
  /\ UNCHANGED <<state, closeActive, transportClosed, notified, cancelling, pending, outcome>>

\* A call that reaches the transport: a read may try MaxAttempts times.
Invoke(t) ==
  /\ pc[t] = "idle"
  /\ state = "OPEN"
  /\ ~CancellationRequested(t)
  /\ admitted' = admitted + 1
  /\ pc' = [pc EXCEPT ![t] = "flight"]
  /\ left' \in {[left EXCEPT ![t] = n - 1] : n \in {1, MaxAttempts}}
  /\ Send
  /\ Forget(t)
  /\ UNCHANGED <<state, closeActive, transportClosed, notified, cancelling, pending, outcome>>

\* Slip: no look at the cancellation after the transport has answered.
AnsweredUnchecked(t) == pc[t] = "flight"

\* The attempt is answered, fails or times out.  A wait_for of Python 3.11
\* returns what the inner task had finished with even when the caller has
\* been cancelled since; later ones raise the cancellation.
Answered(t) == pc[t] = "flight" /\ (pending[t] => ~InlineWait)

\* The call ends with a decoded value, or with an error that is not retried.
EndAttempt(t) ==
  /\ Answered(t)
  /\ Return(t, "ended")
  /\ Unlease
  /\ UNCHANGED <<state, closeActive, transportVars, cancelling, interrupted>>

\* A transport error of a read: another attempt after the jittered delay.
Retry(t) ==
  /\ Answered(t)
  /\ left[t] > 0
  /\ pc' = [pc EXCEPT ![t] = "backoff"]
  /\ pending' = [pending EXCEPT ![t] = FALSE]
  /\ left' = [left EXCEPT ![t] = @ - 1]
  /\ UNCHANGED <<clientVars, transportVars, notified, cancelling, interrupted, outcome>>

\* The delay is over and time is left.
Redispatch(t) ==
  /\ pc[t] = "backoff"
  /\ ~pending[t]
  /\ ~CancellationRequested(t)
  /\ pc' = [pc EXCEPT ![t] = "flight"]
  /\ Send
  /\ UNCHANGED <<clientVars, transportClosed, left, notified, cancelVars, outcome>>

\* The delay is over and the total deadline has passed.
Expire(t) ==
  /\ pc[t] = "backoff"
  /\ ~pending[t]
  /\ Return(t, "ended")
  /\ Unlease
  /\ UNCHANGED <<state, closeActive, transportVars, cancelling, interrupted>>

\* The CancelledError is raised in the call.
CallCancelled(t) ==
  /\ pc[t] \in LeasePoints
  /\ pending[t]
  /\ Return(t, "cancelled")
  /\ Unlease
  /\ UNCHANGED <<state, closeActive, transportVars, cancelling, interrupted>>

-----------------------------------------------------------------------------
(* close()                                                                  *)

\* Slip: the end of close() wakes nobody.
FinishSilently(t) ==
  /\ state' = "CLOSED"
  /\ closeActive' = FALSE
  /\ notified' = notified \ {t}
  /\ Return(t, "ended")

\* close() ends with the client closed.
Finish(t) ==
  /\ state' = "CLOSED"
  /\ closeActive' = FALSE
  /\ notified' = Waiters \ {t}
  /\ Return(t, "ended")

\* A leader that finds calls admitted waits for them.
LeadByDraining(t) ==
  /\ admitted # 0
  /\ state' = "CLOSING"
  /\ closeActive' = TRUE
  /\ pc' = [pc EXCEPT ![t] = "drain"]
  /\ notified' = notified \ {t}
  /\ UNCHANGED <<transportVars, left, pending, outcome>>

\* Slip: the client is reported closed while its httpx client is open.
LeadPastTheClient(t) ==
  /\ admitted = 0
  /\ Finish(t)
  /\ transportClosed' = OwnedTransport
  /\ UNCHANGED httpClient

\* There is no httpx client to close: not owned, never used, or taken away
\* by an earlier leader.
LeadToTheEnd(t) ==
  /\ admitted = 0
  /\ ~OwnedTransport \/ httpClient = "none" \/ transportClosed
  /\ Finish(t)
  /\ transportClosed' = OwnedTransport
  /\ UNCHANGED httpClient

\* Slip: the leader goes on without draining.
LeadWithoutDraining(t) ==
  /\ OwnedTransport /\ httpClient # "none" /\ ~transportClosed
  /\ state' = "CLOSING"
  /\ closeActive' = TRUE
  /\ transportClosed' = TRUE
  /\ httpClient' = "closing"
  /\ pc' = [pc EXCEPT ![t] = "aclose"]
  /\ notified' = notified \ {t}
  /\ UNCHANGED <<left, pending, outcome>>

\* AsyncHttpTransport.close() marks itself closed and lets go of the httpx
\* client before it awaits aclose().
LeadByClosing(t) ==
  /\ admitted = 0
  /\ OwnedTransport /\ httpClient # "none" /\ ~transportClosed
  /\ state' = "CLOSING"
  /\ closeActive' = TRUE
  /\ transportClosed' = TRUE
  /\ httpClient' = "closing"
  /\ pc' = [pc EXCEPT ![t] = "aclose"]
  /\ notified' = notified \ {t}
  /\ UNCHANGED <<left, pending, outcome>>

Lead(t) == LeadByDraining(t) \/ LeadToTheEnd(t) \/ LeadByClosing(t)

\* Slip: whoever finds the client closing takes the lead.
CloseLeadsAnyway(t) ==
  /\ pc[t] = "idle"
  /\ state # "CLOSED"
  /\ Lead(t)
  /\ Forget(t)
  /\ UNCHANGED <<admitted, cancelling>>

\* close() on an open client, or on one whose close was interrupted.
CloseLeads(t) ==
  /\ pc[t] = "idle"
  /\ state = "OPEN" \/ (state = "CLOSING" /\ ~closeActive)
  /\ Lead(t)
  /\ Forget(t)
  /\ UNCHANGED <<admitted, cancelling>>

\* close() while another one leads.
CloseFollows(t) ==
  /\ pc[t] = "idle"
  /\ state = "CLOSING" /\ closeActive
  /\ pc' = [pc EXCEPT ![t] = "follow"]
  /\ Forget(t)
  /\ UNCHANGED <<clientVars, transportVars, left, notified, cancelling, pending, outcome>>

\* close() on a closed client.
CloseAgain(t) ==
  /\ pc[t] = "idle"
  /\ state = "CLOSED"
  /\ Return(t, "ended")
  /\ Forget(t)
  /\ UNCHANGED <<clientVars, transportVars, notified, cancelling>>

Woken(t) == t \in notified /\ ~pending[t]

\* A follower wakes: closed, its turn to lead, or back to wait.
FollowerWakes(t) ==
  /\ pc[t] = "follow"
  /\ Woken(t)
  /\ \/ /\ state = "CLOSED"
        /\ Return(t, "ended")
        /\ notified' = notified \ {t}
        /\ UNCHANGED <<state, closeActive, transportVars>>
     \/ /\ state = "CLOSING" /\ ~closeActive
        /\ Lead(t)
     \/ /\ state = "CLOSING" /\ closeActive
        /\ notified' = notified \ {t}
        /\ UNCHANGED <<state, closeActive, transportVars, pc, left, pending, outcome>>
  /\ UNCHANGED <<admitted, cancelling, interrupted>>

\* The draining leader wakes: another lease is out, or it goes on.
LeaderWakes(t) ==
  /\ pc[t] = "drain"
  /\ Woken(t)
  /\ Lead(t)
  /\ UNCHANGED <<admitted, cancelling, interrupted>>

AcloseEnds(t) ==
  /\ pc[t] = "aclose"
  /\ ~pending[t]
  /\ Finish(t)
  /\ httpClient' = "closed"
  /\ UNCHANGED <<admitted, transportClosed, cancelling, interrupted>>

\* Slip: the cancelled leader keeps the lead.
AcloseCancelledLeading(t) ==
  /\ pc[t] = "aclose"
  /\ pending[t]
  /\ httpClient' = "leaked"
  /\ notified' = Waiters
  /\ Return(t, "cancelled")
  /\ UNCHANGED <<clientVars, transportClosed, cancelling, interrupted>>

\* The leader is cancelled in aclose(): the lead is free again.
AcloseCancelled(t) ==
  /\ pc[t] = "aclose"
  /\ pending[t]
  /\ closeActive' = FALSE
  /\ httpClient' = "leaked"
  /\ notified' = Waiters
  /\ Return(t, "cancelled")
  /\ UNCHANGED <<state, admitted, transportClosed, cancelling, interrupted>>

\* Anything but a CancelledError leaves close() with the lead taken.
AcloseRaises(t) ==
  /\ AcloseMayRaise
  /\ pc[t] = "aclose"
  /\ ~pending[t]
  /\ httpClient' = "leaked"
  /\ Return(t, "ended")
  /\ UNCHANGED <<clientVars, transportClosed, notified, cancelling, interrupted>>

\* A cancellation raised in Condition.wait() leaves close() at once.
WaitCancelled(t) ==
  /\ pc[t] \in WaitPoints
  /\ pending[t]
  /\ notified' = notified \ {t}
  /\ Return(t, "cancelled")
  /\ UNCHANGED <<clientVars, transportVars, cancelling, interrupted>>

-----------------------------------------------------------------------------
(* The program around the client                                            *)

\* Task.cancel() by anybody else.  Outside the SDK the error is raised in
\* the program's own await, which may catch it and go on; the count stays.
Cancel(t) ==
  /\ pc[t] \in CancelPoints
  /\ cancelling[t] < MaxCancels
  /\ cancelling' = [cancelling EXCEPT ![t] = @ + 1]
  /\ pending' = [pending EXCEPT ![t] = pc[t] # "idle"]
  /\ interrupted' = [interrupted EXCEPT ![t] = @ \/ pc[t] # "idle"]
  /\ UNCHANGED <<clientVars, transportVars, pc, left, notified, outcome>>

\* Task.uncancel(): the end of an asyncio.timeout() or TaskGroup block.
Uncancel(t) ==
  /\ pc[t] = "idle"
  /\ cancelling[t] > 0
  /\ cancelling' = [cancelling EXCEPT ![t] = @ - 1]
  /\ UNCHANGED <<clientVars, transportVars, pc, left, notified, pending, interrupted, outcome>>

Start(t) ==
  \/ Refuse(t) \/ InvokeWithoutSending(t) \/ Invoke(t)
  \/ CloseLeads(t) \/ CloseFollows(t) \/ CloseAgain(t)

Proceed(t) ==
  \/ EndAttempt(t) \/ Retry(t) \/ Redispatch(t) \/ Expire(t) \/ CallCancelled(t)
  \/ FollowerWakes(t) \/ LeaderWakes(t) \/ AcloseEnds(t) \/ AcloseCancelled(t)
  \/ AcloseRaises(t) \/ WaitCancelled(t)

Environment(t) == Cancel(t) \/ Uncancel(t)

Next == \E t \in Tasks : Start(t) \/ Proceed(t) \/ Environment(t)

Spec == Init /\ [][Next]_vars

\* A started call or close() goes on: every attempt has a wait_for timeout,
\* every delay and httpx's aclose() end.  Nothing obliges anybody to start
\* a call or to cancel one.
Fairness == \A t \in Tasks : WF_vars(Proceed(t))

FairSpec == Spec /\ Fairness

-----------------------------------------------------------------------------
(* Properties                                                               *)

\* close() waits for exactly the calls that hold a lease: _admitted is
\* neither short of one (the transport would close under it) nor over.
LeaseCounted == admitted = Cardinality(Holders)

\* A call that was admitted finds the owned transport open at every attempt,
\* whatever close() does between its attempts.
AdmittedFindsOpen == transportClosed => Holders = {}

\* At most one close() leads, and only while it is recorded.
OneLeader ==
  /\ Leaders # {} => closeActive
  /\ closeActive => state = "CLOSING"
  /\ \A t, u \in Leaders : t = u

\* No wake-up is lost: a waiter nobody notified has something to wait for,
\* a lease that is out or a leader at work.
NoLostWakeup ==
  \A t \in Tasks \ notified :
    /\ pc[t] = "drain" => admitted # 0
    /\ pc[t] = "follow" => state = "CLOSING" /\ closeActive

\* The lead is never recorded without a task that has it: who waits for the
\* leader waits for somebody.
LeadIsHeld == closeActive => Leaders # {}

\* A call or close() cancelled while it ran ends with the CancelledError and
\* never with a late value, where dispatch runs in the calling task.
NoLateValue ==
  InlineWait =>
    \A t \in Tasks : pc[t] = "idle" /\ interrupted[t] => outcome[t] = "cancelled"

\* A call ends cancelled only if it was cancelled: the one cleanup call a
\* program makes after an earlier cancellation is attempted.
CancelledOnlyIfInterrupted ==
  \A t \in Tasks : pc[t] = "idle" /\ outcome[t] = "cancelled" => interrupted[t]

\* close() reports the client closed after the httpx client was closed.
ClosedReleasesHttp == state = "CLOSED" => httpClient \in {"none", "closed"}

\* The client keeps the promise of ClientLifecycle.
Lifecycle ==
  INSTANCE ClientLifecycle
    WITH Callers <- Tasks, phase <- state, inflight <- Holders,
         released <- transportClosed \/ state = "CLOSED"
LifecycleSpec == Lifecycle!Spec

\* Every call and every close() that starts returns or raises.
EverythingReturns == \A t \in Tasks : pc[t] # "idle" ~> pc[t] = "idle"
=============================================================================
