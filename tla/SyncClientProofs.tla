--------------------------- MODULE SyncClientProofs --------------------------
(***************************************************************************)
(* What TLAPS proves of SyncClient, for every set of threads and permits,  *)
(* any number of attempts, a transport of either owner, and a main thread  *)
(* interrupted anywhere.                                                   *)
(***************************************************************************)
EXTENDS SyncClient, FiniteSetTheorems, TLAPS

\* One thread at most drains or closes, in a client that is closing.
OneCloser ==
  /\ Leaders # {} => state = "CLOSING"
  /\ \A t, u \in Leaders : t = u

\* What each value of _state excludes, and what a leader has seen.
PhaseFacts ==
  /\ state = "OPEN" => ~transportClosed /\ Waiters = {}
  /\ state = "CLOSED" => Holders = {}
  /\ \A t \in Threads : pc[t] = "closing" => Holders = {}

\* The part of the invariant that speaks of the lease and of close().
LeaseInv ==
  /\ LeaseCounted
  /\ AdmittedFindsOpen
  /\ OneCloser
  /\ NoLostWakeup
  /\ PhaseFacts

\* A call that will be dispatched has an attempt left.
AttemptsLeft == \A t \in Threads : pc[t] \in {"leased", "backoff"} => left[t] > 0

IInv == TypeOK /\ LeaseInv /\ AttemptsLeft /\ AnswersMatchCalls

-----------------------------------------------------------------------------
(* The count of the leases                                                  *)

\* The leases that are out are finitely many, so they can be counted.
LEMMA HoldersFinite == IsFiniteSet(Holders) /\ Cardinality(Holders) \in Nat
<1>1. Holders \in SUBSET Threads
  BY DEF Holders
<1>2. QED
  BY <1>1, ThreadsAssumption, FS_Subset, FS_CardinalityType

\* With no lease out, the count says so.
LEMMA NoLease ==
  ASSUME LeaseCounted, admitted = 0
  PROVE  Holders = {}
BY HoldersFinite, FS_EmptySet DEF LeaseCounted

LEMMA InitIInv == Init => IInv
<1> SUFFICES ASSUME Init PROVE IInv
  OBVIOUS
<1> USE DEF Init
<1>1. TypeOK
  BY DEF TypeOK, Points, WorkerStages
<1>2. Holders = {} /\ Leaders = {} /\ Waiters = {}
  BY DEF Holders, Leaders, Waiters, LeasePoints, LeaderPoints, WaitPoints
<1>3. LeaseInv
  BY <1>2, FS_EmptySet
  DEF LeaseInv, LeaseCounted, AdmittedFindsOpen, OneCloser, NoLostWakeup, PhaseFacts
<1>4. AnswersMatchCalls /\ AttemptsLeft
  BY ThreadsAssumption DEF AnswersMatchCalls, AttemptsLeft
<1>5. QED
  BY <1>1, <1>3, <1>4 DEF IInv

-----------------------------------------------------------------------------
(* The lease                                                                *)

\* A call enters an open client, in which nobody waits and nobody closes.
LEMMA EnterStep ==
  ASSUME TypeOK, LeaseInv, NEW t \in Threads, Lease(t)
  PROVE  LeaseInv' /\ admitted' \in Nat
<1> USE DEF LeaseInv, Lease, GoTo
<1>1. Holders' = Holders \cup {t} /\ t \notin Holders
  BY DEF TypeOK, Holders, LeasePoints
<1>2. Cardinality(Holders') = Cardinality(Holders) + 1
  BY <1>1, HoldersFinite, FS_AddElement
<1>3. LeaseCounted' /\ admitted' \in Nat
  BY <1>2 DEF LeaseCounted, TypeOK
<1>4. Leaders' = {} /\ Waiters' = {} /\ ~transportClosed'
  BY DEF TypeOK, OneCloser, PhaseFacts, Leaders, Waiters, LeaderPoints, WaitPoints,
     transportVars
<1>5. OneCloser' /\ AdmittedFindsOpen'
  BY <1>4 DEF OneCloser, AdmittedFindsOpen
<1>6. NoLostWakeup' /\ PhaseFacts'
  BY <1>4 DEF NoLostWakeup, PhaseFacts, Waiters, Leaders, WaitPoints, LeaderPoints
<1>7. QED
  BY <1>3, <1>5, <1>6

\* A call that leaves wakes every waiter.
LEMMA LeaveStep ==
  ASSUME TypeOK, LeaseInv, NEW t \in Threads, pc[t] \in LeasePoints, EndCall(t),
         UNCHANGED <<state, transportVars>>
  PROVE  LeaseInv' /\ admitted' \in Nat
<1> USE DEF LeaseInv, EndCall, GoTo
<1>1. Holders' = Holders \ {t} /\ t \in Holders
  BY DEF TypeOK, Holders, LeasePoints
<1>2. Cardinality(Holders') = Cardinality(Holders) - 1 /\ Cardinality(Holders') \in Nat
  BY <1>1, HoldersFinite, FS_RemoveElement, FS_CardinalityType
<1>3. LeaseCounted' /\ admitted' \in Nat
  BY <1>2 DEF LeaseCounted, TypeOK
<1>4. Leaders' = Leaders /\ Waiters' = Waiters
  BY DEF TypeOK, Leaders, Waiters, LeaderPoints, WaitPoints, LeasePoints
<1>5. AdmittedFindsOpen' /\ OneCloser'
  BY <1>1, <1>4 DEF AdmittedFindsOpen, OneCloser, transportVars
<1>6. NoLostWakeup'
  BY <1>4 DEF NoLostWakeup, Waiters, WaitPoints, TypeOK
<1>7. PhaseFacts'
  BY <1>1, <1>4 DEF PhaseFacts, TypeOK, transportVars
<1>8. QED
  BY <1>3, <1>5, <1>6, <1>7

\* A call that goes on keeps its lease.
LEMMA MoveStep ==
  ASSUME TypeOK, LeaseInv, NEW t \in Threads, NEW p \in LeasePoints,
         pc[t] \in LeasePoints, GoTo(t, p), UNCHANGED <<clientVars, transportVars, notified>>
  PROVE  LeaseInv'
<1> USE DEF LeaseInv, GoTo, clientVars
<1>1. Holders' = Holders /\ Leaders' = Leaders /\ Waiters' = Waiters
  BY DEF TypeOK, Holders, Leaders, Waiters, LeasePoints, LeaderPoints, WaitPoints
<1>2. LeaseCounted' /\ AdmittedFindsOpen' /\ OneCloser'
  BY <1>1 DEF LeaseCounted, AdmittedFindsOpen, OneCloser, transportVars
<1>3. NoLostWakeup' /\ PhaseFacts'
  BY <1>1 DEF NoLostWakeup, PhaseFacts, TypeOK, LeasePoints, transportVars
<1>4. QED
  BY <1>2, <1>3

\* What workers do does not concern the lease.
LEMMA KeepStep ==
  ASSUME LeaseInv, UNCHANGED <<clientVars, transportVars, pc, notified>>
  PROVE  LeaseInv'
BY DEF LeaseInv, clientVars, transportVars, LeaseCounted, AdmittedFindsOpen, OneCloser,
   NoLostWakeup, PhaseFacts, Holders, Leaders, Waiters

-----------------------------------------------------------------------------
(* close()                                                                  *)

\* The leader drains, or goes on to the transport with no lease out.
LEMMA DrainStep ==
  ASSUME TypeOK, LeaseInv, NEW t \in Threads, pc[t] \in {"idle", "drain"},
         Leaders \subseteq {t}, state # "CLOSED", DrainOrClose(t), admitted' = admitted
  PROVE  LeaseInv'
<1> USE DEF LeaseInv, DrainOrClose, GoTo
<1>1. Holders' = Holders /\ Leaders' = {t}
  BY DEF TypeOK, Holders, Leaders, LeasePoints, LeaderPoints
<1>2. admitted = 0 => Holders = {}
  BY NoLease
<1>3. LeaseCounted' /\ AdmittedFindsOpen' /\ OneCloser'
  BY <1>1, <1>2 DEF LeaseCounted, AdmittedFindsOpen, OneCloser
<1>4. NoLostWakeup'
  BY DEF NoLostWakeup, TypeOK
<1>5. PhaseFacts'
  BY <1>1, <1>2 DEF PhaseFacts, TypeOK
<1>6. QED
  BY <1>3, <1>4, <1>5

\* A thread that comes to wait, goes back to wait or leaves a wait.
LEMMA WaitStep ==
  ASSUME TypeOK, LeaseInv, NEW t \in Threads,
         CloseFollows(t) \/ FollowerWakes(t) \/ InterruptWait(t)
  PROVE  LeaseInv'
<1> USE DEF LeaseInv, CloseFollows, FollowerWakes, InterruptWait, GoTo, clientVars
<1>1. Holders' = Holders /\ Leaders' \subseteq Leaders
  BY DEF TypeOK, Holders, Leaders, LeasePoints, LeaderPoints, WaitPoints
<1>2. LeaseCounted' /\ AdmittedFindsOpen' /\ OneCloser'
  BY <1>1 DEF LeaseCounted, AdmittedFindsOpen, OneCloser, transportVars
<1>3. NoLostWakeup'
  <2>1. pc[t] = "follow" => state # "OPEN"
    BY DEF PhaseFacts, Waiters, WaitPoints
  <2>2. QED
    BY <2>1 DEF NoLostWakeup, TypeOK
<1>4. Waiters' \subseteq Waiters \/ state = "CLOSING"
  BY DEF TypeOK, Waiters, WaitPoints
<1>5. PhaseFacts'
  BY <1>1, <1>4 DEF PhaseFacts, TypeOK, transportVars
<1>6. QED
  BY <1>2, <1>3, <1>5

\* The end of close() wakes every follower of a client without calls.
LEMMA EndStep ==
  ASSUME TypeOK, LeaseInv, NEW t \in Threads, pc[t] = "closing", EndClose(t),
         UNCHANGED <<admitted, transportClosed>>
  PROVE  LeaseInv'
<1> USE DEF LeaseInv, EndClose, GoTo
<1>1. Holders' = {} /\ Holders = {}
  BY DEF TypeOK, PhaseFacts, Holders, LeasePoints
<1>2. Leaders' = {}
  BY DEF TypeOK, OneCloser, Leaders, LeaderPoints
<1>3. LeaseCounted' /\ AdmittedFindsOpen' /\ OneCloser'
  BY <1>1, <1>2 DEF LeaseCounted, AdmittedFindsOpen, OneCloser
<1>4. NoLostWakeup'
  BY <1>2 DEF NoLostWakeup, TypeOK, Waiters, WaitPoints, Leaders, LeaderPoints
<1>5. PhaseFacts'
  BY <1>1 DEF PhaseFacts
<1>6. QED
  BY <1>3, <1>4, <1>5

-----------------------------------------------------------------------------
(* The lease and close() together                                           *)

\* Every step of a thread preserves what concerns the lease.
LEMMA ThreadLease ==
  ASSUME TypeOK, LeaseInv, NEW t \in Threads, Start(t) \/ Proceed(t)
  PROVE  LeaseInv' /\ admitted' \in Nat
<1> USE DEF clientVars
<1>1. CASE Lease(t)
  BY <1>1, EnterStep
<1>2. CASE GiveUp(t) \/ CapacityExhausted(t) \/ StartFails(t) \/ TakeAnswer(t) \/ JoinTimesOut(t)
  BY <1>2, LeaveStep
  DEF GiveUp, CapacityExhausted, StartFails, TakeAnswer, JoinTimesOut, LeasePoints
<1>3. CASE Dispatch(t) \/ Retry(t) \/ Redispatch(t)
  BY <1>3, MoveStep DEF Dispatch, Retry, Redispatch, LeasePoints, TypeOK
<1>4. CASE CloseFollows(t) \/ FollowerWakes(t)
  BY <1>4, WaitStep DEF CloseFollows, FollowerWakes, TypeOK
<1>5. CASE CloseLeads(t)
  <2>1. Leaders = {}
    BY <1>5 DEF CloseLeads, LeaseInv, OneCloser
  <2>2. QED
    BY <1>5, <2>1, DrainStep DEF CloseLeads, TypeOK
<1>6. CASE LeaderWakes(t)
  <2>1. Leaders \subseteq {t} /\ state = "CLOSING"
    BY <1>6 DEF LeaderWakes, LeaseInv, OneCloser, Leaders, LeaderPoints
  <2>2. QED
    BY <1>6, <2>1, DrainStep DEF LeaderWakes, TypeOK
<1>7. CASE TransportCloses(t)
  BY <1>7, EndStep DEF TransportCloses, TypeOK
<1>8. QED
  BY <1>1, <1>2, <1>3, <1>4, <1>5, <1>6, <1>7 DEF Start, Proceed

\* So does an interrupt, wherever it is raised.
LEMMA InterruptLease ==
  ASSUME TypeOK, LeaseInv, Interrupt
  PROVE  LeaseInv' /\ admitted' \in Nat
<1>1. Main \in Threads
  BY ThreadsAssumption
<1>2. CASE InterruptCall(Main)
  BY <1>1, <1>2, LeaveStep DEF InterruptCall
<1>3. CASE InterruptWait(Main)
  BY <1>1, <1>3, WaitStep DEF InterruptWait, TypeOK, clientVars
<1>4. CASE InterruptClosing(Main)
  BY <1>1, <1>4, EndStep DEF InterruptClosing, TypeOK
<1>5. QED
  BY <1>2, <1>3, <1>4 DEF Interrupt

-----------------------------------------------------------------------------
(* Types and answers                                                        *)

\* The worker that serves a call is not free, so a free permit serves nobody.
LEMMA FreeServesNobody ==
  ASSUME TypeOK, AnswersMatchCalls, NEW w \in Permits, worker[w] = "free"
  PROVE  serves[w] = NoThread
BY DEF TypeOK, AnswersMatchCalls

\* A step of a thread keeps the types.
LEMMA ThreadTypes ==
  ASSUME IInv, NEW t \in Threads, Start(t) \/ Proceed(t), admitted' \in Nat
  PROVE  TypeOK'
<1> USE DEF IInv, TypeOK, GoTo, clientVars, transportVars, workerVars, Points
<1>1. CASE Lease(t)
  BY <1>1, BoundAssumption DEF Lease
<1>2. CASE GiveUp(t) \/ CapacityExhausted(t)
  BY <1>2 DEF GiveUp, CapacityExhausted, EndCall, Waiters
<1>3. CASE StartFails(t)
  BY <1>3 DEF StartFails, EndCall, Waiters, WorkerStages
<1>4. CASE TakeAnswer(t)
  BY <1>4 DEF TakeAnswer, EndCall, Waiters
<1>5. CASE JoinTimesOut(t)
  BY <1>5 DEF JoinTimesOut, Abandon, EndCall, Waiters
<1>6. CASE Dispatch(t)
  <2>1. PICK w \in Permits : /\ worker' = [worker EXCEPT ![w] = "started"]
                             /\ serves' = [serves EXCEPT ![w] = t]
    BY <1>6 DEF Dispatch
  <2>2. left[t] - 1 \in Nat
    BY <1>6 DEF Dispatch, AttemptsLeft
  <2>3. QED
    BY <1>6, <2>1, <2>2 DEF Dispatch, WorkerStages
<1>7. CASE Retry(t) \/ Redispatch(t)
  BY <1>7 DEF Retry, Redispatch
<1>8. CASE CloseFollows(t) \/ FollowerWakes(t)
  BY <1>8 DEF CloseFollows, FollowerWakes
<1>9. CASE CloseLeads(t) \/ LeaderWakes(t)
  BY <1>9, SwitchAssumption DEF CloseLeads, LeaderWakes, DrainOrClose
<1>10. CASE TransportCloses(t)
  BY <1>10 DEF TransportCloses, EndClose, Waiters
<1>11. QED
  BY <1>1, <1>2, <1>3, <1>4, <1>5, <1>6, <1>7, <1>8, <1>9, <1>10 DEF Start, Proceed

\* So do an interrupt and a worker.
LEMMA OtherTypes ==
  ASSUME IInv, admitted' \in Nat, Interrupt \/ \E w \in Permits : Work(w)
  PROVE  TypeOK'
<1> USE DEF IInv, TypeOK, GoTo, clientVars, transportVars, Points
<1>1. Main \in Threads
  BY ThreadsAssumption
<1>2. CASE InterruptCall(Main)
  BY <1>1, <1>2 DEF InterruptCall, Abandon, EndCall, Waiters
<1>3. CASE InterruptWait(Main)
  BY <1>1, <1>3 DEF InterruptWait, workerVars
<1>4. CASE InterruptClosing(Main)
  BY <1>1, <1>4 DEF InterruptClosing, EndClose, Waiters, workerVars
<1>5. ASSUME NEW w \in Permits, Work(w) PROVE TypeOK'
  BY <1>5 DEF Work, WorkerSends, WorkerAnswers, WorkerEnds, WorkerStages
<1>6. QED
  BY <1>2, <1>3, <1>4, <1>5 DEF Interrupt

\* The attempts left, over every step.
LEMMA AttemptsStep ==
  ASSUME IInv, \/ \E t \in Threads : Start(t) \/ Proceed(t)
               \/ \E w \in Permits : Work(w)
               \/ Interrupt
  PROVE  AttemptsLeft'
<1> USE DEF IInv, TypeOK, AttemptsLeft, GoTo, workerVars
<1>1. ASSUME NEW t \in Threads, Lease(t) PROVE AttemptsLeft'
  BY <1>1, BoundAssumption DEF Lease
<1>2. ASSUME NEW t \in Threads, pc'[t] \notin {"leased", "backoff"},
             \A u \in Threads \ {t} : pc'[u] = pc[u] /\ left'[u] = left[u]
      PROVE  AttemptsLeft'
  BY <1>2
<1>3. ASSUME NEW t \in Threads,
             \/ CloseLeads(t) \/ CloseFollows(t) \/ FollowerWakes(t) \/ LeaderWakes(t)
             \/ TransportCloses(t) \/ Dispatch(t)
             \/ GiveUp(t) \/ CapacityExhausted(t) \/ StartFails(t) \/ TakeAnswer(t)
             \/ JoinTimesOut(t) \/ InterruptCall(t) \/ InterruptWait(t) \/ InterruptClosing(t)
      PROVE  AttemptsLeft'
  BY <1>2, <1>3
  DEF CloseLeads, CloseFollows, FollowerWakes, LeaderWakes, DrainOrClose, TransportCloses,
      EndClose, Dispatch, GiveUp, CapacityExhausted, StartFails, TakeAnswer, JoinTimesOut,
      InterruptCall, InterruptWait, InterruptClosing, EndCall
<1>4. ASSUME NEW t \in Threads, Retry(t) \/ Redispatch(t) PROVE AttemptsLeft'
  BY <1>4 DEF Retry, Redispatch
<1>5. ASSUME NEW w \in Permits, Work(w) PROVE AttemptsLeft'
  BY <1>5 DEF Work, WorkerSends, WorkerAnswers, WorkerEnds
<1>6. CASE Interrupt
  BY <1>3, <1>6, ThreadsAssumption DEF Interrupt
<1>7. QED
  BY <1>1, <1>3, <1>4, <1>5, <1>6 DEF Start, Proceed

\* A step that leaves the workers alone and moves a thread that does not wait
\* for an answer, to a point where it does not either, keeps them matched.
LEMMA AnswersKept ==
  ASSUME IInv, NEW t \in Threads, NEW p \in Points \ {"join"}, pc[t] # "join",
         GoTo(t, p), UNCHANGED <<serves, served>>,
         \A w \in Permits : worker[w] # "free" => worker'[w] # "free"
  PROVE  AnswersMatchCalls'
<1>1. \A u \in Threads : pc'[u] = "join" <=> pc[u] = "join"
  BY DEF IInv, TypeOK, GoTo
<1>2. QED
  BY <1>1 DEF IInv, AnswersMatchCalls

\* A thread that stops waiting takes its answer along or gives up its worker.
LEMMA AnswersLeft ==
  ASSUME IInv, NEW t \in Threads, NEW p \in Points \ {"join"}, GoTo(t, p),
         served' = served \ {t}, Abandon(t), worker' = worker
  PROVE  AnswersMatchCalls'
<1>1. \A u \in Threads \ {t} : pc'[u] = pc[u]
  BY DEF IInv, TypeOK, GoTo
<1>2. pc'[t] # "join"
  BY DEF IInv, TypeOK, GoTo
<1>3. t \notin served' /\ \A w \in Permits : serves'[w] # t
  BY ThreadsAssumption DEF Abandon
<1>4. \A u \in Threads \ {t} :
        /\ u \in served' <=> u \in served
        /\ \A w \in Permits : serves'[w] = u <=> serves[w] = u
  BY ThreadsAssumption DEF IInv, TypeOK, Abandon
<1>5. \A u \in Threads \ {t} :
        {w \in Permits : serves'[w] = u} = {w \in Permits : serves[w] = u}
  BY <1>4
<1>6. QED
  BY <1>1, <1>2, <1>3, <1>4, <1>5 DEF IInv, AnswersMatchCalls

\* Every call has one worker or its answer, over every step.
LEMMA AnswersStep ==
  ASSUME IInv, \/ \E t \in Threads : Start(t) \/ Proceed(t)
               \/ \E w \in Permits : Work(w)
               \/ Interrupt
  PROVE  AnswersMatchCalls'
<1>1. ASSUME NEW t \in Threads,
             \/ Lease(t) \/ CloseLeads(t) \/ CloseFollows(t) \/ FollowerWakes(t)
             \/ LeaderWakes(t) \/ TransportCloses(t) \/ GiveUp(t) \/ CapacityExhausted(t)
             \/ Redispatch(t) \/ InterruptWait(t) \/ InterruptClosing(t)
      PROVE  AnswersMatchCalls'
  <2>1. pc[t] # "join" /\ UNCHANGED workerVars
    BY <1>1
    DEF Lease, CloseLeads, CloseFollows, FollowerWakes, LeaderWakes, TransportCloses, GiveUp,
        CapacityExhausted, Redispatch, InterruptWait, InterruptClosing, WaitPoints, workerVars
  <2>2. \E p \in Points \ {"join"} : GoTo(t, p)
    BY <1>1
    DEF Lease, CloseLeads, CloseFollows, FollowerWakes, LeaderWakes, TransportCloses, GiveUp,
        CapacityExhausted, Redispatch, InterruptWait, InterruptClosing, EndCall, EndClose,
        DrainOrClose, Points
  <2>3. QED
    BY <2>1, <2>2, AnswersKept DEF workerVars
<1>2. ASSUME NEW t \in Threads, StartFails(t) PROVE AnswersMatchCalls'
  <2>1. \A w \in Permits : worker[w] # "free" => worker'[w] # "free"
    BY <1>2 DEF StartFails, IInv, TypeOK
  <2>2. QED
    BY <1>2, <2>1, AnswersKept DEF StartFails, EndCall, Points
<1>3. ASSUME NEW t \in Threads, TakeAnswer(t) \/ Retry(t) PROVE AnswersMatchCalls'
  <2>1. \A w \in Permits : serves[w] # t
    BY <1>3 DEF TakeAnswer, Retry, IInv, AnswersMatchCalls
  <2>2. Abandon(t)
    BY <1>3, <2>1 DEF TakeAnswer, Retry, Abandon, IInv, TypeOK
  <2>3. QED
    BY <1>3, <2>2, AnswersLeft DEF TakeAnswer, Retry, EndCall, Points
<1>4. ASSUME NEW t \in Threads, JoinTimesOut(t) \/ InterruptCall(t) PROVE AnswersMatchCalls'
  <2>1. served' = served \ {t}
    BY <1>4 DEF JoinTimesOut, InterruptCall
  <2>2. QED
    BY <1>4, <2>1, AnswersLeft DEF JoinTimesOut, InterruptCall, EndCall, Points
<1>5. ASSUME NEW t \in Threads, Dispatch(t) PROVE AnswersMatchCalls'
  <2>1. PICK w \in Permits : /\ worker[w] = "free"
                             /\ worker' = [worker EXCEPT ![w] = "started"]
                             /\ serves' = [serves EXCEPT ![w] = t]
    BY <1>5 DEF Dispatch
  <2>2. serves[w] = NoThread /\ t # NoThread
    BY <2>1, FreeServesNobody, ThreadsAssumption DEF IInv
  <2>3. t \notin served /\ \A v \in Permits : serves[v] # t
    BY <1>5 DEF Dispatch, IInv, AnswersMatchCalls
  <2>4. /\ served' = served /\ pc'[t] = "join"
        /\ \A u \in Threads \ {t} : pc'[u] = pc[u]
    BY <1>5 DEF Dispatch, GoTo, IInv, TypeOK
  <2>5. \A v \in Permits : serves'[v] = t <=> v = w
    BY <2>1, <2>3 DEF IInv, TypeOK
  <2>6. \A u \in Threads \ {t} :
          {v \in Permits : serves'[v] = u} = {v \in Permits : serves[v] = u}
    BY <2>1, <2>2, ThreadsAssumption DEF IInv, TypeOK
  <2>7. \A v \in Permits : worker[v] # "free" \/ v = w => worker'[v] # "free"
    BY <2>1 DEF IInv, TypeOK
  <2>8. ASSUME NEW u \in Threads \ {t}
        PROVE  LET mine == {v \in Permits : serves'[v] = u}
               IN /\ u \in served' \/ mine # {} <=> pc'[u] = "join"
                  /\ u \in served' => mine = {}
                  /\ \A v, x \in mine : v = x
                  /\ \A v \in mine : worker'[v] # "free"
    BY <2>4, <2>6, <2>7 DEF IInv, AnswersMatchCalls
  <2>9. LET mine == {v \in Permits : serves'[v] = t}
        IN /\ t \in served' \/ mine # {} <=> pc'[t] = "join"
           /\ t \in served' => mine = {}
           /\ \A v, x \in mine : v = x
           /\ \A v \in mine : worker'[v] # "free"
    BY <2>3, <2>4, <2>5, <2>7
  <2>10. QED
    BY <2>8, <2>9 DEF AnswersMatchCalls
<1>6. ASSUME NEW w \in Permits, WorkerSends(w) \/ WorkerAnswers(w) PROVE AnswersMatchCalls'
  <2>1. \A v \in Permits : worker[v] # "free" => worker'[v] # "free"
    BY <1>6 DEF WorkerSends, WorkerAnswers, IInv, TypeOK
  <2>2. QED
    BY <1>6, <2>1 DEF WorkerSends, WorkerAnswers, IInv, AnswersMatchCalls
<1>7. ASSUME NEW w \in Permits, WorkerEnds(w) PROVE AnswersMatchCalls'
  <2>1. /\ serves' = [serves EXCEPT ![w] = NoThread]
        /\ worker' = [worker EXCEPT ![w] = "free"]
        /\ served' = served \cup ({serves[w]} \ {NoThread})
        /\ pc' = pc
    BY <1>7 DEF WorkerEnds
  <2>2. ASSUME NEW u \in Threads, serves[w] # u
        PROVE  LET mine == {v \in Permits : serves'[v] = u}
               IN /\ u \in served' \/ mine # {} <=> pc'[u] = "join"
                  /\ u \in served' => mine = {}
                  /\ \A v, x \in mine : v = x
                  /\ \A v \in mine : worker'[v] # "free"
    <3>1. {v \in Permits : serves'[v] = u} = {v \in Permits : serves[v] = u}
      BY <2>1, <2>2, ThreadsAssumption DEF IInv, TypeOK
    <3>2. u \in served' <=> u \in served
      BY <2>1, <2>2
    <3>3. \A v \in Permits : serves[v] = u => worker'[v] = worker[v]
      BY <2>1, <2>2 DEF IInv, TypeOK
    <3>4. QED
      BY <2>1, <3>1, <3>2, <3>3 DEF IInv, AnswersMatchCalls
  <2>3. ASSUME NEW u \in Threads, serves[w] = u
        PROVE  LET mine == {v \in Permits : serves'[v] = u}
               IN /\ u \in served' \/ mine # {} <=> pc'[u] = "join"
                  /\ u \in served' => mine = {}
                  /\ \A v, x \in mine : v = x
                  /\ \A v \in mine : worker'[v] # "free"
    <3>1. \A v \in Permits : serves[v] = u => v = w
      BY <2>3 DEF IInv, AnswersMatchCalls
    <3>2. {v \in Permits : serves'[v] = u} = {}
      BY <2>1, <3>1, ThreadsAssumption DEF IInv, TypeOK
    <3>3. u \in served' /\ pc[u] = "join"
      BY <2>1, <2>3, ThreadsAssumption DEF IInv, AnswersMatchCalls
    <3>4. QED
      BY <2>1, <3>2, <3>3
  <2>4. QED
    BY <2>2, <2>3 DEF AnswersMatchCalls
<1>8. CASE Interrupt
  BY <1>1, <1>4, <1>8, ThreadsAssumption DEF Interrupt
<1>9. QED
  BY <1>1, <1>2, <1>3, <1>4, <1>5, <1>6, <1>7, <1>8 DEF Start, Proceed, Work

LEMMA StutterStep ==
  ASSUME IInv, UNCHANGED vars
  PROVE  IInv'
BY KeepStep DEF IInv, vars, clientVars, transportVars, workerVars, TypeOK, AnswersMatchCalls,
   AttemptsLeft

LEMMA NextIInv == IInv /\ [Next]_vars => IInv'
<1> SUFFICES ASSUME IInv, [Next]_vars PROVE IInv'
  OBVIOUS
<1>1. ASSUME NEW t \in Threads, Start(t) \/ Proceed(t) PROVE IInv'
  <2>1. LeaseInv' /\ admitted' \in Nat
    BY <1>1, ThreadLease DEF IInv
  <2>2. TypeOK'
    BY <1>1, <2>1, ThreadTypes
  <2>3. QED
    BY <1>1, <2>1, <2>2, AttemptsStep, AnswersStep DEF IInv
<1>2. CASE Interrupt
  <2>1. LeaseInv' /\ admitted' \in Nat
    BY <1>2, InterruptLease DEF IInv
  <2>2. TypeOK'
    BY <1>2, <2>1, OtherTypes
  <2>3. QED
    BY <1>2, <2>1, <2>2, AttemptsStep, AnswersStep DEF IInv
<1>3. ASSUME NEW w \in Permits, Work(w) PROVE IInv'
  <2>1. UNCHANGED <<clientVars, transportVars, pc, notified>>
    BY <1>3 DEF Work, WorkerSends, WorkerAnswers, WorkerEnds
  <2>2. LeaseInv' /\ admitted' \in Nat
    BY <2>1, KeepStep DEF IInv, TypeOK, clientVars
  <2>3. TypeOK'
    BY <1>3, <2>2, OtherTypes
  <2>4. QED
    BY <1>3, <2>2, <2>3, AttemptsStep, AnswersStep DEF IInv
<1>4. CASE CloseAgain \/ UNCHANGED vars
  BY <1>4, StutterStep DEF CloseAgain
<1>5. QED
  BY <1>1, <1>2, <1>3, <1>4 DEF Next

-----------------------------------------------------------------------------
(* The theorems                                                             *)

\* The inductive invariant holds of every behaviour.
THEOREM Inductive == Spec => []IInv
<1>1. QED
  BY InitIInv, NextIInv, PTL DEF Spec

\* The client's state has its types; _admitted is never negative and no call
\* makes more attempts than it has.
THEOREM TypeCorrect == Spec => []TypeOK
<1>1. IInv => TypeOK
  BY DEF IInv
<1>2. QED
  BY <1>1, Inductive, PTL

\* close() never takes the transport from an admitted call, and what it
\* counts is what is admitted, wherever the main thread is interrupted.
THEOREM TransportOutlivesCalls == Spec => [](LeaseCounted /\ AdmittedFindsOpen)
<1>1. IInv => LeaseCounted /\ AdmittedFindsOpen
  BY DEF IInv, LeaseInv
<1>2. QED
  BY <1>1, Inductive, PTL

\* Every waiter that nobody notified has something to wait for.
THEOREM WaitersAreServed == Spec => []NoLostWakeup
<1>1. IInv => NoLostWakeup
  BY DEF IInv, LeaseInv
<1>2. QED
  BY <1>1, Inductive, PTL

\* A call gets the answer of its own worker or none, whatever abandoned
\* workers still do: for any number of threads and permits.
THEOREM OwnAnswersOnly == Spec => []AnswersMatchCalls
<1>1. IInv => AnswersMatchCalls
  BY DEF IInv
<1>2. QED
  BY <1>1, Inductive, PTL

-----------------------------------------------------------------------------
(* SyncClient implements ClientLifecycle                                    *)

\* Steps of a call admit it, end it, or show nothing of the lifecycle.
LEMMA CallRefines ==
  ASSUME IInv, NEW t \in Threads,
         \/ Lease(t) \/ GiveUp(t) \/ CapacityExhausted(t) \/ StartFails(t) \/ TakeAnswer(t)
         \/ JoinTimesOut(t) \/ InterruptCall(t) \/ Dispatch(t) \/ Retry(t) \/ Redispatch(t)
  PROVE  [Lifecycle!Next]_(Lifecycle!vars)
<1> USE DEF IInv, GoTo, clientVars, transportVars
<1>1. CASE Lease(t)
  <2>1. Holders' = Holders \cup {t} /\ t \notin Holders
    BY <1>1 DEF Lease, TypeOK, Holders, LeasePoints
  <2>2. Lifecycle!Admit(t)
    BY <1>1, <2>1 DEF Lease, Lifecycle!Admit
  <2>3. QED
    BY <2>2 DEF Lifecycle!Next
<1>2. CASE \/ GiveUp(t) \/ CapacityExhausted(t) \/ StartFails(t) \/ TakeAnswer(t)
           \/ JoinTimesOut(t) \/ InterruptCall(t)
  <2>1. /\ pc[t] \in LeasePoints /\ pc' = [pc EXCEPT ![t] = "idle"]
        /\ UNCHANGED <<state, transportClosed>>
    BY <1>2
    DEF GiveUp, CapacityExhausted, StartFails, TakeAnswer, JoinTimesOut, InterruptCall,
        EndCall, LeasePoints
  <2>2. Holders' = Holders \ {t} /\ t \in Holders
    BY <2>1 DEF TypeOK, Holders, LeasePoints
  <2>3. Lifecycle!Finish(t)
    BY <2>1, <2>2 DEF Lifecycle!Finish
  <2>4. QED
    BY <2>3 DEF Lifecycle!Next
<1>3. CASE Dispatch(t) \/ Retry(t) \/ Redispatch(t)
  <2>1. Holders' = Holders
    BY <1>3 DEF Dispatch, Retry, Redispatch, TypeOK, Holders, LeasePoints
  <2>2. UNCHANGED <<state, transportClosed>>
    BY <1>3 DEF Dispatch, Retry, Redispatch
  <2>3. QED
    BY <2>1, <2>2 DEF Lifecycle!vars
<1>4. QED
  BY <1>1, <1>2, <1>3

\* Steps of close() begin to close, release the transport or close.
LEMMA CloseRefines ==
  ASSUME IInv, NEW t \in Threads,
         \/ CloseLeads(t) \/ LeaderWakes(t) \/ TransportCloses(t) \/ InterruptClosing(t)
         \/ CloseFollows(t) \/ FollowerWakes(t) \/ InterruptWait(t)
  PROVE  [Lifecycle!Next]_(Lifecycle!vars)
<1> USE DEF IInv, LeaseInv, GoTo, clientVars, transportVars
<1>1. CASE CloseLeads(t) \/ LeaderWakes(t)
  <2>1. /\ Holders' = Holders /\ state' = "CLOSING"
        /\ transportClosed' = (transportClosed \/ (admitted = 0 /\ OwnedTransport))
    BY <1>1 DEF CloseLeads, LeaderWakes, DrainOrClose, TypeOK, Holders, LeasePoints
  <2>2. (state = "OPEN" /\ ~transportClosed) \/ state = "CLOSING"
    BY <1>1 DEF CloseLeads, LeaderWakes, OneCloser, PhaseFacts, Leaders, LeaderPoints
  <2>3. CASE admitted = 0 /\ OwnedTransport
    <3>1. Lifecycle!Release
      BY <2>1, <2>2, <2>3, NoLease DEF Lifecycle!Release
    <3>2. QED
      BY <3>1 DEF Lifecycle!Next
  <2>4. CASE ~(admitted = 0 /\ OwnedTransport)
    <3>1. state = "OPEN" => Lifecycle!BeginClose
      BY <2>1, <2>2, <2>4 DEF Lifecycle!BeginClose
    <3>2. state = "CLOSING" => UNCHANGED Lifecycle!vars
      BY <2>1, <2>4 DEF Lifecycle!vars, TypeOK
    <3>3. QED
      BY <2>2, <3>1, <3>2 DEF Lifecycle!Next
  <2>5. QED
    BY <2>3, <2>4
<1>2. CASE TransportCloses(t) \/ InterruptClosing(t)
  <2>1. Holders' = Holders /\ Holders = {}
    BY <1>2
    DEF TransportCloses, InterruptClosing, EndClose, TypeOK, Holders, LeasePoints, PhaseFacts
  <2>2. state # "CLOSED"
    BY <1>2 DEF TransportCloses, InterruptClosing, OneCloser, Leaders, LeaderPoints
  <2>3. Lifecycle!Close
    BY <1>2, <2>1, <2>2 DEF TransportCloses, InterruptClosing, EndClose, Lifecycle!Close
  <2>4. QED
    BY <2>3 DEF Lifecycle!Next
<1>3. CASE CloseFollows(t) \/ FollowerWakes(t) \/ InterruptWait(t)
  <2>1. Holders' = Holders
    BY <1>3
    DEF CloseFollows, FollowerWakes, InterruptWait, TypeOK, Holders, LeasePoints, WaitPoints
  <2>2. UNCHANGED <<state, transportClosed>>
    BY <1>3 DEF CloseFollows, FollowerWakes, InterruptWait
  <2>3. QED
    BY <2>1, <2>2 DEF Lifecycle!vars
<1>4. QED
  BY <1>1, <1>2, <1>3

\* What Cuna does is what ClientLifecycle promises.
THEOREM ImplementsLifecycle == Spec => LifecycleSpec
<1>1. Init => Lifecycle!Init
  BY DEF Init, Lifecycle!Init, Holders, LeasePoints
<1>2. IInv /\ [Next]_vars => [Lifecycle!Next]_(Lifecycle!vars)
  <2> SUFFICES ASSUME IInv, [Next]_vars PROVE [Lifecycle!Next]_(Lifecycle!vars)
    OBVIOUS
  <2>1. ASSUME NEW t \in Threads, Start(t) \/ Proceed(t) PROVE [Lifecycle!Next]_(Lifecycle!vars)
    BY <2>1, CallRefines, CloseRefines DEF Start, Proceed
  <2>2. CASE Interrupt
    BY <2>2, CallRefines, CloseRefines, ThreadsAssumption DEF Interrupt
  <2>3. ASSUME NEW w \in Permits, Work(w) PROVE UNCHANGED Lifecycle!vars
    BY <2>3
    DEF Work, WorkerSends, WorkerAnswers, WorkerEnds, clientVars, transportVars, Holders,
        Lifecycle!vars
  <2>4. CASE CloseAgain \/ UNCHANGED vars
    BY <2>4 DEF CloseAgain, vars, clientVars, transportVars, Holders, Lifecycle!vars
  <2>5. QED
    BY <2>1, <2>2, <2>3, <2>4 DEF Next
<1>3. QED
  BY <1>1, <1>2, Inductive, PTL DEF Spec, LifecycleSpec, Lifecycle!Spec

-----------------------------------------------------------------------------
(* Where the draining leader is not interrupted the lead is never lost      *)

\* A client is closing only with a thread at it.
LEMMA HeldStep ==
  ASSUME "drain" \notin InterruptPoints, IInv, IInv', LeadIsHeld, [Next]_vars
  PROVE  LeadIsHeld'
<1> USE DEF IInv, LeaseInv, GoTo, clientVars
<1>1. \A t, u \in Leaders' : t = u
  BY DEF OneCloser
<1>2. ASSUME UNCHANGED state, \A t \in Leaders : pc'[t] = pc[t] PROVE LeadIsHeld'
  BY <1>1, <1>2 DEF LeadIsHeld, Leaders
<1>3. ASSUME NEW t \in Threads,
             \/ Lease(t) \/ GiveUp(t) \/ CapacityExhausted(t) \/ StartFails(t) \/ TakeAnswer(t)
             \/ JoinTimesOut(t) \/ InterruptCall(t) \/ Dispatch(t) \/ Retry(t) \/ Redispatch(t)
             \/ CloseFollows(t) \/ FollowerWakes(t) \/ (InterruptWait(t) /\ pc[t] # "drain")
      PROVE  LeadIsHeld'
  <2>1. UNCHANGED state /\ \A u \in Threads : u # t => pc'[u] = pc[u]
    BY <1>3
    DEF Lease, GiveUp, CapacityExhausted, StartFails, TakeAnswer, JoinTimesOut, InterruptCall,
        Dispatch, Retry, Redispatch, CloseFollows, FollowerWakes, InterruptWait, EndCall, TypeOK
  <2>2. t \notin Leaders
    BY <1>3
    DEF Lease, GiveUp, CapacityExhausted, StartFails, TakeAnswer, JoinTimesOut, InterruptCall,
        Dispatch, Retry, Redispatch, CloseFollows, FollowerWakes, InterruptWait, Leaders,
        LeaderPoints, LeasePoints, WaitPoints
  <2>3. QED
    BY <1>2, <2>1, <2>2 DEF Leaders
<1>4. ASSUME NEW t \in Threads, CloseLeads(t) \/ LeaderWakes(t) PROVE LeadIsHeld'
  <2>1. t \in Leaders'
    BY <1>4 DEF CloseLeads, LeaderWakes, DrainOrClose, TypeOK, Leaders, LeaderPoints
  <2>2. QED
    BY <1>1, <2>1 DEF LeadIsHeld
<1>5. ASSUME NEW t \in Threads, TransportCloses(t) \/ InterruptClosing(t) PROVE LeadIsHeld'
  <2>1. state' = "CLOSED"
    BY <1>5 DEF TransportCloses, InterruptClosing, EndClose
  <2>2. QED
    BY <1>1, <2>1 DEF LeadIsHeld
<1>6. CASE Interrupt
  <2>1. Main \in Threads /\ pc[Main] # "drain"
    BY <1>6, ThreadsAssumption DEF Interrupt
  <2>2. QED
    BY <1>3, <1>5, <1>6, <2>1 DEF Interrupt
<1>7. ASSUME NEW w \in Permits, Work(w) PROVE LeadIsHeld'
  BY <1>2, <1>7 DEF Work, WorkerSends, WorkerAnswers, WorkerEnds
<1>8. CASE CloseAgain \/ UNCHANGED vars
  BY <1>2, <1>8 DEF CloseAgain, vars
<1>9. QED
  BY <1>3, <1>4, <1>5, <1>6, <1>7, <1>8 DEF Next, Start, Proceed

\* Where KeyboardInterrupt is never raised in the drain of close(), a client
\* that is closing always has one thread that closes it.
THEOREM LeadNeverLost ==
  ASSUME "drain" \notin InterruptPoints
  PROVE  Spec => []LeadIsHeld
<1>1. Init => LeadIsHeld
  BY DEF Init, LeadIsHeld, Leaders, LeaderPoints
<1>2. IInv /\ IInv' /\ LeadIsHeld /\ [Next]_vars => LeadIsHeld'
  BY HeldStep
<1>3. QED
  BY <1>1, <1>2, Inductive, PTL DEF Spec
=============================================================================
