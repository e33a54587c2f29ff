----------------------------- MODULE SyncClient ------------------------------
(***************************************************************************)
(* Cuna: the lease every call takes, the worker thread that runs each      *)
(* attempt, the process-wide dispatch capacity, and close().  Threads.     *)
(*                                                                         *)
(* A step is a critical section of the client's condition, or what a       *)
(* thread does between two points where another thread could tell.         *)
(***************************************************************************)
EXTENDS Integers, FiniteSets

CONSTANTS
  Threads,         \* the threads that use the client
  Permits,         \* permits of _SYNC_DISPATCH_CAPACITY
  NoThread,        \* "nobody", for a permit or worker that serves no call
  OwnedTransport,  \* FALSE: the caller gave the transport (_with_transport)
  MaxAttempts,     \* attempts of a read
  Main,            \* the thread that receives KeyboardInterrupt
  InterruptPoints  \* where it may receive it

Points == {"idle", "leased", "join", "backoff", "follow", "drain", "closing"}

ASSUME ThreadsAssumption ==
  /\ IsFiniteSet(Threads)
  /\ NoThread \notin Threads
  /\ Main \in Threads
ASSUME SwitchAssumption == OwnedTransport \in BOOLEAN /\ InterruptPoints \subseteq Points
ASSUME BoundAssumption == MaxAttempts \in Nat \ {0}

VARIABLES
  state,            \* Cuna._state
  admitted,         \* Cuna._admitted
  transportClosed,  \* SyncHttpTransport._closed
  httpClient,       \* the httpx client, made with the transport
  pc,               \* where each thread is, "idle" outside the SDK
  left,             \* attempts the call of a thread may still make
  notified,         \* waiters of the condition that were notified
  worker,           \* what the worker that holds a permit is doing
  serves,           \* the call whose attempt that worker runs
  served            \* callers whose worker has ended with their answer

clientVars == <<state, admitted>>
transportVars == <<transportClosed, httpClient>>
workerVars == <<worker, serves, served>>
vars == <<clientVars, transportVars, pc, left, notified, workerVars>>

LeasePoints == {"leased", "join", "backoff"}
WaitPoints == {"follow", "drain"}
LeaderPoints == {"drain", "closing"}

Holders == {t \in Threads : pc[t] \in LeasePoints}
Waiters == {t \in Threads : pc[t] \in WaitPoints}
Leaders == {t \in Threads : pc[t] \in LeaderPoints}

WorkerStages == {"free", "started", "sending", "answered", "lost"}

TypeOK ==
  /\ state \in {"OPEN", "CLOSING", "CLOSED"}
  /\ admitted \in Nat
  /\ transportClosed \in BOOLEAN
  /\ httpClient \in {"open", "closed", "leaked"}
  /\ pc \in [Threads -> Points]
  /\ left \in [Threads -> Nat]
  /\ notified \in SUBSET Threads
  /\ worker \in [Permits -> WorkerStages]
  /\ serves \in [Permits -> Threads \cup {NoThread}]
  /\ served \in SUBSET Threads

Init ==
  /\ state = "OPEN"
  /\ admitted = 0
  /\ transportClosed = FALSE
  /\ httpClient = "open"
  /\ pc = [t \in Threads |-> "idle"]
  /\ left = [t \in Threads |-> 0]
  /\ notified = {}
  /\ worker = [w \in Permits |-> "free"]
  /\ serves = [w \in Permits |-> NoThread]
  /\ served = {}

-----------------------------------------------------------------------------
(* Calls: _lease, _invoke, run_sync                                         *)

GoTo(t, point) == pc' = [pc EXCEPT ![t] = point]

\* Slip: the last lease goes without waking anybody.
EndCallSilently(t) ==
  /\ GoTo(t, "idle")
  /\ left' = [left EXCEPT ![t] = 0]
  /\ admitted' = admitted - 1
  /\ UNCHANGED notified

\* Slip: the call leaves, its lease stays.
EndCallKeepingLease(t) ==
  /\ GoTo(t, "idle")
  /\ left' = [left EXCEPT ![t] = 0]
  /\ notified' = Waiters
  /\ UNCHANGED admitted

\* The call leaves _lease, with a value or an error.
EndCall(t) ==
  /\ GoTo(t, "idle")
  /\ left' = [left EXCEPT ![t] = 0]
  /\ admitted' = admitted - 1
  /\ notified' = Waiters

\* Slip: the lease is given back but was never counted.
LeaseUncounted(t) ==
  /\ pc[t] = "idle"
  /\ state = "OPEN"
  /\ GoTo(t, "leased")
  /\ left' \in {[left EXCEPT ![t] = n] : n \in {1, MaxAttempts}}
  /\ UNCHANGED <<clientVars, transportVars, notified, workerVars>>

\* Slip: the lease is taken whatever the client's state.
LeaseUnchecked(t) ==
  /\ pc[t] = "idle"
  /\ admitted' = admitted + 1
  /\ GoTo(t, "leased")
  /\ left' \in {[left EXCEPT ![t] = n] : n \in {1, MaxAttempts}}
  /\ UNCHANGED <<state, transportVars, notified, workerVars>>

\* A call takes its lease.
Lease(t) ==
  /\ pc[t] = "idle"
  /\ state = "OPEN"
  /\ admitted' = admitted + 1
  /\ GoTo(t, "leased")
  /\ left' \in {[left EXCEPT ![t] = n] : n \in {1, MaxAttempts}}
  /\ UNCHANGED <<state, transportVars, notified, workerVars>>

\* prepare_request refuses the call, or the total deadline has passed.
GiveUp(t) ==
  /\ pc[t] = "leased"
  /\ EndCall(t)
  /\ UNCHANGED <<state, transportVars, workerVars>>

\* A worker thread is started for the attempt with a permit nobody holds.
Dispatch(t) ==
  /\ pc[t] = "leased"
  /\ \E w \in Permits :
       /\ worker[w] = "free"
       /\ worker' = [worker EXCEPT ![w] = "started"]
       /\ serves' = [serves EXCEPT ![w] = t]
  /\ GoTo(t, "join")
  /\ left' = [left EXCEPT ![t] = @ - 1]
  /\ UNCHANGED <<clientVars, transportVars, notified, served>>

\* No permit is free: the call fails closed, without a thread or a retry.
CapacityExhausted(t) ==
  /\ pc[t] = "leased"
  /\ \A w \in Permits : worker[w] # "free"
  /\ EndCall(t)
  /\ UNCHANGED <<state, transportVars, workerVars>>

\* worker.start() raises: the call ends, and the permit with no worker to
\* release it is never released.
StartFails(t) ==
  /\ pc[t] = "leased"
  /\ \E w \in Permits : worker[w] = "free" /\ worker' = [worker EXCEPT ![w] = "lost"]
  /\ EndCall(t)
  /\ UNCHANGED <<state, transportVars, serves, served>>

\* The worker has ended within the timeout: its answer ends the call.
TakeAnswer(t) ==
  /\ pc[t] = "join"
  /\ t \in served
  /\ served' = served \ {t}
  /\ EndCall(t)
  /\ UNCHANGED <<state, transportVars, worker, serves>>

\* It ended with a transport error of a read: another attempt, later.
Retry(t) ==
  /\ pc[t] = "join"
  /\ t \in served
  /\ left[t] > 0
  /\ served' = served \ {t}
  /\ GoTo(t, "backoff")
  /\ UNCHANGED <<clientVars, transportVars, left, notified, worker, serves>>

\* Slip: the worker still counts as the caller's.
AbandonNothing(t) == t \in Threads /\ UNCHANGED serves

\* Whatever the worker still does is for nobody.
Abandon(t) == serves' = [w \in Permits |-> IF serves[w] = t THEN NoThread ELSE serves[w]]

\* join(timeout) is over and the worker is alive, even if it has put its
\* result already: an error that is not retried.
JoinTimesOut(t) ==
  /\ pc[t] = "join"
  /\ t \notin served
  /\ Abandon(t)
  /\ EndCall(t)
  /\ UNCHANGED <<state, transportVars, worker, served>>

\* The jittered delay is over.
Redispatch(t) ==
  /\ pc[t] = "backoff"
  /\ GoTo(t, "leased")
  /\ UNCHANGED <<clientVars, transportVars, left, notified, workerVars>>

-----------------------------------------------------------------------------
(* Workers: invoke() of _dispatch_with_timeout                              *)

\* The transport refuses the request when it is closed, or sends it.
WorkerSends(w) ==
  /\ worker[w] = "started"
  /\ worker' = [worker EXCEPT ![w] = IF OwnedTransport /\ transportClosed
                                       THEN "answered" ELSE "sending"]
  /\ UNCHANGED <<clientVars, transportVars, pc, left, notified, serves, served>>

\* completed.put(): an answer, an error or a timeout of httpx.
WorkerAnswers(w) ==
  /\ worker[w] = "sending"
  /\ worker' = [worker EXCEPT ![w] = "answered"]
  /\ UNCHANGED <<clientVars, transportVars, pc, left, notified, serves, served>>

\* The permit is released and the thread ends.
WorkerEnds(w) ==
  /\ worker[w] = "answered"
  /\ worker' = [worker EXCEPT ![w] = "free"]
  /\ serves' = [serves EXCEPT ![w] = NoThread]
  /\ served' = served \cup ({serves[w]} \ {NoThread})
  /\ UNCHANGED <<clientVars, transportVars, pc, left, notified>>

-----------------------------------------------------------------------------
(* close()                                                                  *)

\* Slip: the transport is closed under the calls.
CloseWithoutDraining(t) ==
  /\ state' = "CLOSING"
  /\ notified' = notified \ {t}
  /\ GoTo(t, "closing")
  /\ transportClosed' = OwnedTransport

\* Slip: the drain is an if and not a while: woken early, close() returns.
DrainOnce(t) ==
  /\ state' = "CLOSING"
  /\ notified' = notified \ {t}
  /\ GoTo(t, IF admitted = 0 THEN "closing" ELSE IF pc[t] = "drain" THEN "idle" ELSE "drain")
  /\ transportClosed' = (transportClosed \/ (admitted = 0 /\ OwnedTransport))

\* The leader goes on to the transport when no lease is out, or waits.
DrainOrClose(t) ==
  /\ state' = "CLOSING"
  /\ notified' = notified \ {t}
  /\ GoTo(t, IF admitted = 0 THEN "closing" ELSE "drain")
  /\ transportClosed' = (transportClosed \/ (admitted = 0 /\ OwnedTransport))

CloseLeads(t) ==
  /\ pc[t] = "idle"
  /\ state = "OPEN"
  /\ DrainOrClose(t)
  /\ UNCHANGED <<admitted, httpClient, left, workerVars>>

CloseFollows(t) ==
  /\ pc[t] = "idle"
  /\ state = "CLOSING"
  /\ GoTo(t, "follow")
  /\ UNCHANGED <<clientVars, transportVars, left, notified, workerVars>>

FollowerWakes(t) ==
  /\ pc[t] = "follow"
  /\ t \in notified
  /\ notified' = notified \ {t}
  /\ GoTo(t, IF state = "CLOSED" THEN "idle" ELSE "follow")
  /\ UNCHANGED <<clientVars, transportVars, left, workerVars>>

LeaderWakes(t) ==
  /\ pc[t] = "drain"
  /\ t \in notified
  /\ DrainOrClose(t)
  /\ UNCHANGED <<admitted, httpClient, left, workerVars>>

\* Slip: the end of close() wakes nobody.
EndCloseSilently(t) ==
  /\ state' = "CLOSED"
  /\ GoTo(t, "idle")
  /\ UNCHANGED notified

\* The finally of close(), whether httpx's close() ended or was left.
EndClose(t) ==
  /\ state' = "CLOSED"
  /\ GoTo(t, "idle")
  /\ notified' = Waiters

TransportCloses(t) ==
  /\ pc[t] = "closing"
  /\ EndClose(t)
  /\ httpClient' = IF OwnedTransport THEN "closed" ELSE httpClient
  /\ UNCHANGED <<admitted, transportClosed, left, workerVars>>

-----------------------------------------------------------------------------
(* KeyboardInterrupt, in the main thread                                    *)

InterruptCall(t) ==
  /\ pc[t] \in LeasePoints
  /\ Abandon(t)
  /\ served' = served \ {t}
  /\ EndCall(t)
  /\ UNCHANGED <<state, transportVars, worker>>

InterruptWait(t) ==
  /\ pc[t] \in WaitPoints
  /\ GoTo(t, "idle")
  /\ notified' = notified \ {t}
  /\ UNCHANGED <<clientVars, transportVars, left, workerVars>>

InterruptClosing(t) ==
  /\ pc[t] = "closing"
  /\ EndClose(t)
  /\ httpClient' = IF OwnedTransport THEN "leaked" ELSE httpClient
  /\ UNCHANGED <<admitted, transportClosed, left, workerVars>>

Interrupt ==
  /\ pc[Main] \in InterruptPoints
  /\ InterruptCall(Main) \/ InterruptWait(Main) \/ InterruptClosing(Main)

-----------------------------------------------------------------------------
Start(t) == Lease(t) \/ CloseLeads(t) \/ CloseFollows(t)

Proceed(t) ==
  \/ GiveUp(t) \/ Dispatch(t) \/ StartFails(t) \/ CapacityExhausted(t)
  \/ TakeAnswer(t) \/ Retry(t) \/ JoinTimesOut(t) \/ Redispatch(t)
  \/ FollowerWakes(t) \/ LeaderWakes(t) \/ TransportCloses(t)

Work(w) == WorkerSends(w) \/ WorkerAnswers(w) \/ WorkerEnds(w)

\* A call on a closed client is refused, another close() returns at once.
CloseAgain == state = "CLOSED" /\ UNCHANGED vars

Next ==
  \/ \E t \in Threads : Start(t) \/ Proceed(t)
  \/ \E w \in Permits : Work(w)
  \/ Interrupt
  \/ CloseAgain

Spec == Init /\ [][Next]_vars

\* Callers go on: join() and the delays have timeouts, httpx's close() ends.
\* Nothing is assumed of the workers: a custom transport may hang for ever.
Fairness == \A t \in Threads : WF_vars(Proceed(t))

FairSpec == Spec /\ Fairness

-----------------------------------------------------------------------------
(* Properties                                                               *)

\* close() waits for exactly the calls that hold a lease.
LeaseCounted == admitted = Cardinality(Holders)

\* A call that was admitted finds the owned transport open at every attempt,
\* whatever close() does between its attempts.
AdmittedFindsOpen == transportClosed => Holders = {}

\* No wake-up is lost: a waiter nobody notified has something to wait for.
NoLostWakeup ==
  \A t \in Threads \ notified :
    /\ pc[t] = "drain" => admitted # 0
    /\ pc[t] = "follow" => state = "CLOSING"

\* A client that is closing has one thread that closes it.
LeadIsHeld ==
  /\ state = "CLOSING" => Leaders # {}
  /\ \A t, u \in Leaders : t = u

\* A caller that waits has one worker of its own, or that worker's answer,
\* and a thread that does not wait has neither: the late answer of an
\* abandoned worker never reaches a later call of the same thread.
AnswersMatchCalls ==
  \A t \in Threads :
    LET mine == {w \in Permits : serves[w] = t}
    IN /\ t \in served \/ mine # {} <=> pc[t] = "join"
       /\ t \in served => mine = {}
       /\ \A v, w \in mine : v = w
       /\ \A w \in mine : worker[w] # "free"

\* The client keeps the promise of ClientLifecycle.
Lifecycle ==
  INSTANCE ClientLifecycle
    WITH Callers <- Threads, phase <- state, inflight <- Holders,
         released <- transportClosed \/ state = "CLOSED"
LifecycleSpec == Lifecycle!Spec

\* Every call and every close() returns or raises, even when the workers
\* hang and hold every permit.
EverythingReturns == \A t \in Threads : pc[t] # "idle" ~> pc[t] = "idle"
=============================================================================
