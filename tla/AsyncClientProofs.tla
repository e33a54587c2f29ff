-------------------------- MODULE AsyncClientProofs --------------------------
(***************************************************************************)
(* What TLAPS proves of AsyncClient, for every set of tasks, any number of *)
(* attempts and cancellations, both kinds of wait_for and transports of    *)
(* either owner, wherever tasks are cancelled and whether aclose() raises  *)
(* or not.                                                                 *)
(***************************************************************************)
EXTENDS AsyncClient, FiniteSetTheorems, TLAPS

\* What each value of _state excludes.
PhaseFacts ==
  /\ state = "OPEN" => /\ ~closeActive
                       /\ ~transportClosed
                       /\ Waiters = {} /\ Leaders = {}
  /\ state = "CLOSED" => Holders = {} /\ ~closeActive
  /\ \A t \in Tasks : pc[t] = "aclose" => transportClosed

\* The lease count, the phases and the wake-ups depend on one another: the
\* count is what lets a leader conclude that nobody uses the transport.
IInv ==
  /\ TypeOK
  /\ LeaseCounted
  /\ AdmittedFindsOpen
  /\ OneLeader
  /\ NoLostWakeup
  /\ PhaseFacts

\* The leases that are out are finitely many, so they can be counted.
LEMMA HoldersFinite == IsFiniteSet(Holders) /\ Cardinality(Holders) \in Nat
<1>1. Holders \in SUBSET Tasks
  BY DEF Holders
<1>2. QED
  BY <1>1, TasksAssumption, FS_Subset, FS_CardinalityType

\* A task that goes from outside the lease into it adds one to the count.
LEMMA TakeLease ==
  ASSUME TypeOK, LeaseCounted, NEW t \in Tasks, pc[t] \notin LeasePoints,
         pc' = [pc EXCEPT ![t] = "flight"], admitted' = admitted + 1
  PROVE  LeaseCounted' /\ admitted' \in Nat
<1>1. Holders' = Holders \cup {t} /\ t \notin Holders
  BY DEF TypeOK, Holders, LeasePoints
<1>2. Cardinality(Holders') = Cardinality(Holders) + 1
  BY <1>1, HoldersFinite, FS_AddElement
<1>3. QED
  BY <1>2 DEF LeaseCounted, TypeOK

\* A task that leaves the lease takes one off it, and one was there.
LEMMA GiveLeaseBack ==
  ASSUME TypeOK, LeaseCounted, NEW t \in Tasks, pc[t] \in LeasePoints,
         pc' = [pc EXCEPT ![t] = "idle"], admitted' = admitted - 1
  PROVE  LeaseCounted' /\ admitted' \in Nat
<1>1. Holders' = Holders \ {t} /\ t \in Holders
  BY DEF TypeOK, Holders, LeasePoints
<1>2. Cardinality(Holders') = Cardinality(Holders) - 1
  BY <1>1, HoldersFinite, FS_RemoveElement
<1>3. Cardinality(Holders') \in Nat
  BY <1>1, HoldersFinite, FS_RemoveElement, FS_CardinalityType
<1>4. QED
  BY <1>2, <1>3 DEF LeaseCounted, TypeOK

\* A step that moves no task into or out of the lease leaves the count.
LEMMA KeepLease ==
  ASSUME TypeOK, LeaseCounted, NEW t \in Tasks, NEW p \in Points,
         pc' = [pc EXCEPT ![t] = p], pc[t] \in LeasePoints <=> p \in LeasePoints,
         admitted' = admitted
  PROVE  LeaseCounted' /\ Holders' = Holders
<1>1. Holders' = Holders
  BY DEF TypeOK, Holders
<1>2. QED
  BY <1>1 DEF LeaseCounted

\* With no lease out, the count says so.
LEMMA NoLease ==
  ASSUME LeaseCounted, admitted = 0
  PROVE  Holders = {}
BY HoldersFinite, FS_EmptySet DEF LeaseCounted

LEMMA InitIInv == Init => IInv
<1> SUFFICES ASSUME Init PROVE IInv
  OBVIOUS
<1> USE DEF Init
<1>1. TypeOK
  BY DEF TypeOK, Points, Outcomes
<1>2. Holders = {} /\ Leaders = {} /\ Waiters = {}
  BY DEF Holders, Leaders, Waiters, LeasePoints, LeaderPoints, WaitPoints
<1>3. LeaseCounted
  BY <1>2, FS_EmptySet DEF LeaseCounted
<1>4. AdmittedFindsOpen /\ OneLeader /\ NoLostWakeup /\ PhaseFacts
  BY <1>2 DEF AdmittedFindsOpen, OneLeader, NoLostWakeup, PhaseFacts
<1>5. QED
  BY <1>1, <1>3, <1>4 DEF IInv

-----------------------------------------------------------------------------
(* Every step preserves the invariant: the calls, close(), the program.     *)

LEMMA CallSteps ==
  ASSUME IInv, NEW t \in Tasks,
         \/ Refuse(t) \/ InvokeWithoutSending(t) \/ Invoke(t)
         \/ EndAttempt(t) \/ Retry(t) \/ Redispatch(t) \/ Expire(t) \/ CallCancelled(t)
  PROVE  IInv'
<1> USE DEF IInv
<1> DEFINE Rest == OneLeader /\ NoLostWakeup /\ PhaseFacts
<1>1. CASE Refuse(t)
  <2>1. LeaseCounted' /\ admitted' \in Nat
    BY <1>1, KeepLease DEF Refuse, Return, Forget, TypeOK, clientVars, Points, LeasePoints
  <2>2. TypeOK'
    BY <1>1, <2>1 DEF Refuse, Return, Forget, TypeOK, clientVars, transportVars, cancelVars,
       Waiters, Points, LeasePoints, Outcomes
  <2>3. AdmittedFindsOpen'
    BY <1>1 DEF Refuse, Return, Forget, AdmittedFindsOpen, PhaseFacts, Holders, TypeOK,
       clientVars,
       transportVars, LeasePoints
  <2>4. Rest'
    BY <1>1 DEF Refuse, Return, Forget, TypeOK, clientVars, transportVars, OneLeader,
       NoLostWakeup, PhaseFacts, Waiters, Leaders, WaitPoints, LeaderPoints, Holders,
       LeasePoints
  <2>5. QED
    BY <2>1, <2>2, <2>3, <2>4
<1>2. CASE InvokeWithoutSending(t)
  <2>1. LeaseCounted' /\ admitted' \in Nat
    BY <1>2, KeepLease DEF InvokeWithoutSending, Return, Forget, TypeOK, clientVars,
       Points, LeasePoints
  <2>2. TypeOK'
    BY <1>2, <2>1 DEF InvokeWithoutSending, Return, Forget, TypeOK, clientVars,
       transportVars, cancelVars,
       Waiters, Points, LeasePoints, Outcomes
  <2>3. AdmittedFindsOpen'
    BY <1>2 DEF InvokeWithoutSending, Return, Forget, AdmittedFindsOpen, PhaseFacts,
       Holders, TypeOK, clientVars,
       transportVars, LeasePoints
  <2>4. Rest'
    BY <1>2 DEF InvokeWithoutSending, Return, Forget, TypeOK, clientVars, transportVars,
       OneLeader, NoLostWakeup, PhaseFacts, Waiters, Leaders, WaitPoints, LeaderPoints,
       Holders, LeasePoints
  <2>5. QED
    BY <2>1, <2>2, <2>3, <2>4
<1>3. CASE Invoke(t)
  <2>1. LeaseCounted' /\ admitted' \in Nat
    BY <1>3, TakeLease DEF Invoke, Forget, Send, TypeOK, clientVars, Points, LeasePoints
  <2>2. TypeOK'
    BY <1>3, <2>1, BoundAssumption DEF Invoke, Forget, Send, TypeOK, clientVars,
       transportVars, cancelVars,
       Waiters, Points, LeasePoints, Outcomes
  <2>3. AdmittedFindsOpen'
    BY <1>3 DEF Invoke, Forget, Send, AdmittedFindsOpen, PhaseFacts, Holders, TypeOK,
       clientVars,
       transportVars, LeasePoints
  <2>4. Rest'
    BY <1>3 DEF Invoke, Forget, Send, TypeOK, clientVars, transportVars, OneLeader,
       NoLostWakeup, PhaseFacts, Waiters, Leaders, WaitPoints, LeaderPoints, Holders,
       LeasePoints
  <2>5. QED
    BY <2>1, <2>2, <2>3, <2>4
<1>4. CASE EndAttempt(t)
  <2>1. LeaseCounted' /\ admitted' \in Nat
    BY <1>4, GiveLeaseBack DEF EndAttempt, Answered, Return, Unlease, TypeOK, clientVars,
       Points, LeasePoints
  <2>2. TypeOK'
    BY <1>4, <2>1 DEF EndAttempt, Answered, Return, Unlease, TypeOK, clientVars,
       transportVars, cancelVars,
       Waiters, Points, LeasePoints, Outcomes
  <2>3. AdmittedFindsOpen'
    BY <1>4 DEF EndAttempt, Answered, Return, Unlease, AdmittedFindsOpen, PhaseFacts,
       Holders, TypeOK, clientVars,
       transportVars, LeasePoints
  <2>4. Rest'
    BY <1>4 DEF EndAttempt, Answered, Return, Unlease, TypeOK, clientVars, transportVars,
       OneLeader, NoLostWakeup, PhaseFacts, Waiters, Leaders, WaitPoints, LeaderPoints,
       Holders, LeasePoints
  <2>5. QED
    BY <2>1, <2>2, <2>3, <2>4
<1>5. CASE Retry(t)
  <2>1. LeaseCounted' /\ admitted' \in Nat
    BY <1>5, KeepLease DEF Retry, Answered, TypeOK, clientVars, Points, LeasePoints
  <2>2. TypeOK'
    BY <1>5, <2>1 DEF Retry, Answered, TypeOK, clientVars, transportVars, cancelVars,
       Waiters, Points, LeasePoints, Outcomes
  <2>3. AdmittedFindsOpen'
    BY <1>5 DEF Retry, Answered, AdmittedFindsOpen, PhaseFacts, Holders, TypeOK, clientVars,
       transportVars, LeasePoints
  <2>4. Rest'
    BY <1>5 DEF Retry, Answered, TypeOK, clientVars, transportVars, OneLeader,
       NoLostWakeup, PhaseFacts, Waiters, Leaders, WaitPoints, LeaderPoints, Holders,
       LeasePoints
  <2>5. QED
    BY <2>1, <2>2, <2>3, <2>4
<1>6. CASE Redispatch(t)
  <2>1. LeaseCounted' /\ admitted' \in Nat
    BY <1>6, KeepLease DEF Redispatch, Send, TypeOK, clientVars, Points, LeasePoints
  <2>2. TypeOK'
    BY <1>6, <2>1 DEF Redispatch, Send, TypeOK, clientVars, transportVars, cancelVars,
       Waiters, Points, LeasePoints, Outcomes
  <2>3. AdmittedFindsOpen'
    BY <1>6 DEF Redispatch, Send, AdmittedFindsOpen, PhaseFacts, Holders, TypeOK,
       clientVars,
       transportVars, LeasePoints
  <2>4. Rest'
    BY <1>6 DEF Redispatch, Send, TypeOK, clientVars, transportVars, OneLeader,
       NoLostWakeup, PhaseFacts, Waiters, Leaders, WaitPoints, LeaderPoints, Holders,
       LeasePoints
  <2>5. QED
    BY <2>1, <2>2, <2>3, <2>4
<1>7. CASE Expire(t)
  <2>1. LeaseCounted' /\ admitted' \in Nat
    BY <1>7, GiveLeaseBack DEF Expire, Return, Unlease, TypeOK, clientVars, Points,
       LeasePoints
  <2>2. TypeOK'
    BY <1>7, <2>1 DEF Expire, Return, Unlease, TypeOK, clientVars, transportVars,
       cancelVars,
       Waiters, Points, LeasePoints, Outcomes
  <2>3. AdmittedFindsOpen'
    BY <1>7 DEF Expire, Return, Unlease, AdmittedFindsOpen, PhaseFacts, Holders, TypeOK,
       clientVars,
       transportVars, LeasePoints
  <2>4. Rest'
    BY <1>7 DEF Expire, Return, Unlease, TypeOK, clientVars, transportVars, OneLeader,
       NoLostWakeup, PhaseFacts, Waiters, Leaders, WaitPoints, LeaderPoints, Holders,
       LeasePoints
  <2>5. QED
    BY <2>1, <2>2, <2>3, <2>4
<1>8. CASE CallCancelled(t)
  <2>1. LeaseCounted' /\ admitted' \in Nat
    BY <1>8, GiveLeaseBack DEF CallCancelled, Return, Unlease, TypeOK, clientVars, Points,
       LeasePoints
  <2>2. TypeOK'
    BY <1>8, <2>1 DEF CallCancelled, Return, Unlease, TypeOK, clientVars, transportVars,
       cancelVars,
       Waiters, Points, LeasePoints, Outcomes
  <2>3. AdmittedFindsOpen'
    BY <1>8 DEF CallCancelled, Return, Unlease, AdmittedFindsOpen, PhaseFacts, Holders,
       TypeOK, clientVars,
       transportVars, LeasePoints
  <2>4. Rest'
    BY <1>8 DEF CallCancelled, Return, Unlease, TypeOK, clientVars, transportVars,
       OneLeader, NoLostWakeup, PhaseFacts, Waiters, Leaders, WaitPoints, LeaderPoints,
       Holders, LeasePoints
  <2>5. QED
    BY <2>1, <2>2, <2>3, <2>4
<1>9. QED
  BY <1>1, <1>2, <1>3, <1>4, <1>5, <1>6, <1>7, <1>8

\* A close() that leads, first or in the place of another, keeps the
\* invariant whichever of its three ways it takes.
LEMMA LeadSteps ==
  ASSUME IInv, NEW t \in Tasks,
         pc[t] \in {"idle", "follow", "drain"}, Leaders \subseteq {t}, state # "CLOSED",
         Lead(t),
         UNCHANGED <<admitted, cancelling>>, interrupted' \in [Tasks -> BOOLEAN]
  PROVE  IInv'
<1> USE DEF IInv
<1> DEFINE Rest == OneLeader /\ NoLostWakeup /\ PhaseFacts
<1>1. CASE LeadByDraining(t)
  <2>1. LeaseCounted' /\ Holders' = Holders
    BY <1>1, KeepLease DEF LeadByDraining, TypeOK, Points, LeasePoints
  <2>2. TypeOK'
    BY <1>1, SwitchAssumption DEF LeadByDraining, TypeOK, transportVars, Waiters, Points,
       Outcomes
  <2>3. AdmittedFindsOpen'
    BY <1>1, <2>1 DEF LeadByDraining, AdmittedFindsOpen, transportVars
  <2>4. Rest'
    <3>1. OneLeader'
      BY <1>1 DEF LeadByDraining, TypeOK, OneLeader, Leaders, LeaderPoints
    <3>2. NoLostWakeup'
      BY <1>1 DEF LeadByDraining, TypeOK, NoLostWakeup, Waiters, WaitPoints
    <3>3. PhaseFacts'
      BY <1>1, <2>1 DEF LeadByDraining, TypeOK, PhaseFacts, transportVars
    <3>4. QED
      BY <3>1, <3>2, <3>3
  <2>5. QED
    BY <2>1, <2>2, <2>3, <2>4
<1>2. CASE LeadToTheEnd(t)
  <2>1. LeaseCounted' /\ Holders' = Holders
    BY <1>2, KeepLease DEF LeadToTheEnd, Finish, Return, TypeOK, Points, LeasePoints
  <2>2. TypeOK'
    BY <1>2, SwitchAssumption DEF LeadToTheEnd, Finish, Return, TypeOK, transportVars,
       Waiters, Points, Outcomes
  <2>3. AdmittedFindsOpen'
    BY <1>2, <2>1, NoLease DEF LeadToTheEnd, Finish, Return, AdmittedFindsOpen,
       transportVars
  <2>4. Rest'
    <3>1. OneLeader'
      BY <1>2 DEF LeadToTheEnd, Finish, Return, TypeOK, OneLeader, Leaders, LeaderPoints
    <3>2. NoLostWakeup'
      BY <1>2 DEF LeadToTheEnd, Finish, Return, TypeOK, NoLostWakeup, Waiters, WaitPoints
    <3>3. PhaseFacts'
      BY <1>2, <2>1, NoLease DEF LeadToTheEnd, Finish, Return, TypeOK, PhaseFacts,
         Leaders, LeaderPoints
    <3>4. QED
      BY <3>1, <3>2, <3>3
  <2>5. QED
    BY <2>1, <2>2, <2>3, <2>4
<1>3. CASE LeadByClosing(t)
  <2>1. LeaseCounted' /\ Holders' = Holders
    BY <1>3, KeepLease DEF LeadByClosing, TypeOK, Points, LeasePoints
  <2>2. TypeOK'
    BY <1>3, SwitchAssumption DEF LeadByClosing, TypeOK, transportVars, Waiters, Points,
       Outcomes
  <2>3. AdmittedFindsOpen'
    BY <1>3, <2>1, NoLease DEF LeadByClosing, AdmittedFindsOpen, transportVars
  <2>4. Rest'
    <3>1. OneLeader'
      BY <1>3 DEF LeadByClosing, TypeOK, OneLeader, Leaders, LeaderPoints
    <3>2. NoLostWakeup'
      BY <1>3 DEF LeadByClosing, TypeOK, NoLostWakeup, Waiters, WaitPoints
    <3>3. PhaseFacts'
      BY <1>3, <2>1, NoLease DEF LeadByClosing, TypeOK, PhaseFacts, transportVars
    <3>4. QED
      BY <3>1, <3>2, <3>3
  <2>5. QED
    BY <2>1, <2>2, <2>3, <2>4
<1>4. QED
  BY <1>1, <1>2, <1>3 DEF Lead

LEMMA CloseSteps ==
  ASSUME IInv, NEW t \in Tasks,
         \/ CloseLeads(t) \/ CloseFollows(t) \/ CloseAgain(t)
         \/ FollowerWakes(t) \/ LeaderWakes(t) \/ WaitCancelled(t)
         \/ AcloseEnds(t) \/ AcloseCancelled(t) \/ AcloseRaises(t)
  PROVE  IInv'
<1> USE DEF IInv
<1> DEFINE Rest == OneLeader /\ NoLostWakeup /\ PhaseFacts
<1>1. CASE CloseLeads(t)
  <2>1. Leaders = {}
    BY <1>1 DEF CloseLeads, OneLeader, PhaseFacts
  <2>2. interrupted' \in [Tasks -> BOOLEAN]
    BY <1>1 DEF CloseLeads, Forget, TypeOK
  <2>3. QED
    BY <1>1, <2>1, <2>2, LeadSteps DEF CloseLeads
<1>2. CASE LeaderWakes(t)
  <2>1. Leaders \subseteq {t} /\ state = "CLOSING"
    BY <1>2 DEF LeaderWakes, OneLeader, Leaders, LeaderPoints
  <2>2. QED
    BY <1>2, <2>1, LeadSteps DEF LeaderWakes, TypeOK
<1>3. CASE FollowerWakes(t) /\ Lead(t) /\ state = "CLOSING" /\ ~closeActive
  <2>1. Leaders = {}
    BY <1>3 DEF OneLeader
  <2>2. QED
    BY <1>3, <2>1, LeadSteps DEF FollowerWakes, TypeOK
<1>4. CASE FollowerWakes(t) /\ state = "CLOSED" /\ Return(t, "ended") /\ notified' = notified \ {t}
          /\ UNCHANGED <<state, closeActive, transportVars>>
  <2>1. LeaseCounted' /\ Holders' = Holders
    BY <1>4, KeepLease DEF FollowerWakes, Return, TypeOK, clientVars, Points, LeasePoints,
       WaitPoints, LeaseCounted, Holders
  <2>2. TypeOK'
    BY <1>4 DEF FollowerWakes, Return, TypeOK, clientVars, transportVars, Waiters, Points,
       Outcomes
  <2>3. AdmittedFindsOpen'
    BY <1>4, <2>1 DEF FollowerWakes, Return, AdmittedFindsOpen, transportVars
  <2>4. Rest'
    <3>1. OneLeader'
      BY <1>4 DEF FollowerWakes, Return, TypeOK, clientVars, OneLeader, Leaders,
         LeaderPoints, WaitPoints
    <3>2. NoLostWakeup'
      BY <1>4 DEF FollowerWakes, Return, TypeOK, clientVars, NoLostWakeup, Waiters,
         WaitPoints
    <3>3. PhaseFacts'
      BY <1>4, <2>1 DEF FollowerWakes, Return, TypeOK, clientVars, PhaseFacts,
         transportVars, AdmittedFindsOpen,
         OneLeader, Leaders, LeaderPoints, Waiters, WaitPoints
    <3>4. QED
      BY <3>1, <3>2, <3>3
  <2>5. QED
    BY <2>1, <2>2, <2>3, <2>4
<1>5. CASE FollowerWakes(t) /\ state = "CLOSING" /\ closeActive /\ notified' = notified \ {t}
          /\ UNCHANGED <<state, closeActive, transportVars, pc, left, pending, outcome>>
  <2>1. LeaseCounted' /\ Holders' = Holders
    BY <1>5 DEF FollowerWakes, TypeOK, clientVars, Points, LeasePoints, WaitPoints,
       LeaseCounted, Holders
  <2>2. TypeOK'
    BY <1>5 DEF FollowerWakes, TypeOK, clientVars, transportVars, Waiters, Points, Outcomes
  <2>3. AdmittedFindsOpen'
    BY <1>5, <2>1 DEF FollowerWakes, AdmittedFindsOpen, transportVars
  <2>4. Rest'
    <3>1. OneLeader'
      BY <1>5 DEF FollowerWakes, TypeOK, clientVars, OneLeader, Leaders, LeaderPoints,
         WaitPoints
    <3>2. NoLostWakeup'
      BY <1>5 DEF FollowerWakes, TypeOK, clientVars, NoLostWakeup, Waiters, WaitPoints
    <3>3. PhaseFacts'
      BY <1>5, <2>1 DEF FollowerWakes, TypeOK, clientVars, PhaseFacts, transportVars,
         AdmittedFindsOpen,
         OneLeader, Leaders, LeaderPoints, Waiters, WaitPoints
    <3>4. QED
      BY <3>1, <3>2, <3>3
  <2>5. QED
    BY <2>1, <2>2, <2>3, <2>4
<1>6. CASE CloseFollows(t)
  <2>1. LeaseCounted' /\ Holders' = Holders
    BY <1>6, KeepLease DEF CloseFollows, Forget, TypeOK, clientVars, Points, LeasePoints,
       WaitPoints, LeaseCounted, Holders
  <2>2. TypeOK'
    BY <1>6 DEF CloseFollows, Forget, TypeOK, clientVars, transportVars, Waiters, Points,
       Outcomes
  <2>3. AdmittedFindsOpen'
    BY <1>6, <2>1 DEF CloseFollows, Forget, AdmittedFindsOpen, transportVars
  <2>4. Rest'
    <3>1. OneLeader'
      BY <1>6 DEF CloseFollows, Forget, TypeOK, clientVars, OneLeader, Leaders,
         LeaderPoints, WaitPoints
    <3>2. NoLostWakeup'
      BY <1>6 DEF CloseFollows, Forget, TypeOK, clientVars, NoLostWakeup, Waiters,
         WaitPoints
    <3>3. PhaseFacts'
      BY <1>6, <2>1 DEF CloseFollows, Forget, TypeOK, clientVars, PhaseFacts,
         transportVars, AdmittedFindsOpen,
         OneLeader, Leaders, LeaderPoints, Waiters, WaitPoints
    <3>4. QED
      BY <3>1, <3>2, <3>3
  <2>5. QED
    BY <2>1, <2>2, <2>3, <2>4
<1>7. CASE CloseAgain(t)
  <2>1. LeaseCounted' /\ Holders' = Holders
    BY <1>7, KeepLease DEF CloseAgain, Return, Forget, TypeOK, clientVars, Points,
       LeasePoints, WaitPoints, LeaseCounted, Holders
  <2>2. TypeOK'
    BY <1>7 DEF CloseAgain, Return, Forget, TypeOK, clientVars, transportVars, Waiters,
       Points, Outcomes
  <2>3. AdmittedFindsOpen'
    BY <1>7, <2>1 DEF CloseAgain, Return, Forget, AdmittedFindsOpen, transportVars
  <2>4. Rest'
    <3>1. OneLeader'
      BY <1>7 DEF CloseAgain, Return, Forget, TypeOK, clientVars, OneLeader, Leaders,
         LeaderPoints, WaitPoints
    <3>2. NoLostWakeup'
      BY <1>7 DEF CloseAgain, Return, Forget, TypeOK, clientVars, NoLostWakeup, Waiters,
         WaitPoints
    <3>3. PhaseFacts'
      BY <1>7, <2>1 DEF CloseAgain, Return, Forget, TypeOK, clientVars, PhaseFacts,
         transportVars, AdmittedFindsOpen,
         OneLeader, Leaders, LeaderPoints, Waiters, WaitPoints
    <3>4. QED
      BY <3>1, <3>2, <3>3
  <2>5. QED
    BY <2>1, <2>2, <2>3, <2>4
<1>8. CASE WaitCancelled(t)
  <2>1. LeaseCounted' /\ Holders' = Holders
    BY <1>8, KeepLease DEF WaitCancelled, Return, TypeOK, clientVars, Points, LeasePoints,
       WaitPoints, LeaseCounted, Holders
  <2>2. TypeOK'
    BY <1>8 DEF WaitCancelled, Return, TypeOK, clientVars, transportVars, Waiters, Points,
       Outcomes
  <2>3. AdmittedFindsOpen'
    BY <1>8, <2>1 DEF WaitCancelled, Return, AdmittedFindsOpen, transportVars
  <2>4. Rest'
    <3>1. OneLeader'
      BY <1>8 DEF WaitCancelled, Return, TypeOK, clientVars, OneLeader, Leaders,
         LeaderPoints, WaitPoints
    <3>2. NoLostWakeup'
      BY <1>8 DEF WaitCancelled, Return, TypeOK, clientVars, NoLostWakeup, Waiters,
         WaitPoints
    <3>3. PhaseFacts'
      BY <1>8, <2>1 DEF WaitCancelled, Return, TypeOK, clientVars, PhaseFacts,
         transportVars, AdmittedFindsOpen,
         OneLeader, Leaders, LeaderPoints, Waiters, WaitPoints
    <3>4. QED
      BY <3>1, <3>2, <3>3
  <2>5. QED
    BY <2>1, <2>2, <2>3, <2>4
<1>9. CASE AcloseEnds(t)
  <2>1. LeaseCounted' /\ Holders' = Holders
    BY <1>9, KeepLease DEF AcloseEnds, Finish, Return, TypeOK, clientVars, Points,
       LeasePoints, WaitPoints, LeaseCounted, Holders
  <2>2. TypeOK'
    BY <1>9 DEF AcloseEnds, Finish, Return, TypeOK, clientVars, transportVars, Waiters,
       Points, Outcomes
  <2>3. AdmittedFindsOpen'
    BY <1>9, <2>1 DEF AcloseEnds, Finish, Return, AdmittedFindsOpen, transportVars
  <2>4. Rest'
    <3>1. OneLeader'
      BY <1>9 DEF AcloseEnds, Finish, Return, TypeOK, clientVars, OneLeader, Leaders,
         LeaderPoints, WaitPoints
    <3>2. NoLostWakeup'
      BY <1>9 DEF AcloseEnds, Finish, Return, TypeOK, clientVars, NoLostWakeup, Waiters,
         WaitPoints
    <3>3. PhaseFacts'
      BY <1>9, <2>1 DEF AcloseEnds, Finish, Return, TypeOK, clientVars, PhaseFacts,
         transportVars, AdmittedFindsOpen,
         OneLeader, Leaders, LeaderPoints, Waiters, WaitPoints
    <3>4. QED
      BY <3>1, <3>2, <3>3
  <2>5. QED
    BY <2>1, <2>2, <2>3, <2>4
<1>10. CASE AcloseCancelled(t)
  <2>1. LeaseCounted' /\ Holders' = Holders
    BY <1>10, KeepLease DEF AcloseCancelled, Return, TypeOK, clientVars, Points,
       LeasePoints, WaitPoints, LeaseCounted, Holders
  <2>2. TypeOK'
    BY <1>10 DEF AcloseCancelled, Return, TypeOK, clientVars, transportVars, Waiters,
       Points, Outcomes
  <2>3. AdmittedFindsOpen'
    BY <1>10, <2>1 DEF AcloseCancelled, Return, AdmittedFindsOpen, transportVars
  <2>4. Rest'
    <3>1. OneLeader'
      BY <1>10 DEF AcloseCancelled, Return, TypeOK, clientVars, OneLeader, Leaders,
         LeaderPoints, WaitPoints
    <3>2. NoLostWakeup'
      BY <1>10 DEF AcloseCancelled, Return, TypeOK, clientVars, NoLostWakeup, Waiters,
         WaitPoints
    <3>3. PhaseFacts'
      BY <1>10, <2>1 DEF AcloseCancelled, Return, TypeOK, clientVars, PhaseFacts,
         transportVars, AdmittedFindsOpen,
         OneLeader, Leaders, LeaderPoints, Waiters, WaitPoints
    <3>4. QED
      BY <3>1, <3>2, <3>3
  <2>5. QED
    BY <2>1, <2>2, <2>3, <2>4
<1>11. CASE AcloseRaises(t)
  <2>1. LeaseCounted' /\ Holders' = Holders
    BY <1>11, KeepLease DEF AcloseRaises, Return, TypeOK, clientVars, Points, LeasePoints,
       WaitPoints, LeaseCounted, Holders
  <2>2. TypeOK'
    BY <1>11 DEF AcloseRaises, Return, TypeOK, clientVars, transportVars, Waiters, Points,
       Outcomes
  <2>3. AdmittedFindsOpen'
    BY <1>11, <2>1 DEF AcloseRaises, Return, AdmittedFindsOpen, transportVars
  <2>4. Rest'
    <3>1. OneLeader'
      BY <1>11 DEF AcloseRaises, Return, TypeOK, clientVars, OneLeader, Leaders,
         LeaderPoints, WaitPoints
    <3>2. NoLostWakeup'
      BY <1>11 DEF AcloseRaises, Return, TypeOK, clientVars, NoLostWakeup, Waiters,
         WaitPoints
    <3>3. PhaseFacts'
      BY <1>11, <2>1 DEF AcloseRaises, Return, TypeOK, clientVars, PhaseFacts,
         transportVars, AdmittedFindsOpen,
         OneLeader, Leaders, LeaderPoints, Waiters, WaitPoints
    <3>4. QED
      BY <3>1, <3>2, <3>3
  <2>5. QED
    BY <2>1, <2>2, <2>3, <2>4
<1>12. QED
  BY <1>1, <1>2, <1>3, <1>4, <1>5, <1>6, <1>7, <1>8, <1>9, <1>10, <1>11 DEF FollowerWakes

LEMMA EnvironmentSteps ==
  ASSUME IInv, NEW t \in Tasks, Environment(t)
  PROVE  IInv'
<1> USE DEF IInv
<1>1. UNCHANGED <<clientVars, transportVars, pc, left, notified, outcome>>
  BY DEF Environment, Cancel, Uncancel
<1>2. cancelling' \in [Tasks -> Nat]
  BY DEF Environment, Cancel, Uncancel, TypeOK
<1>3. pending' \in [Tasks -> BOOLEAN] /\ interrupted' \in [Tasks -> BOOLEAN]
  BY DEF Environment, Cancel, Uncancel, TypeOK
<1>4. TypeOK'
  BY <1>1, <1>2, <1>3 DEF TypeOK, clientVars, transportVars
<1>5. QED
  BY <1>1, <1>4 DEF clientVars, transportVars, LeaseCounted, AdmittedFindsOpen, OneLeader,
     NoLostWakeup, PhaseFacts, Holders, Leaders, Waiters

LEMMA StutterStep ==
  ASSUME IInv, UNCHANGED vars
  PROVE  IInv'
BY DEF IInv, vars, clientVars, transportVars, cancelVars, TypeOK, LeaseCounted,
   AdmittedFindsOpen, OneLeader, NoLostWakeup, PhaseFacts, Holders, Leaders, Waiters

LEMMA NextIInv == IInv /\ [Next]_vars => IInv'
<1> SUFFICES ASSUME IInv, [Next]_vars PROVE IInv'
  OBVIOUS
<1>1. ASSUME NEW t \in Tasks, Start(t) \/ Proceed(t) \/ Environment(t) PROVE IInv'
  BY <1>1, CallSteps, CloseSteps, EnvironmentSteps DEF Start, Proceed
<1>2. QED
  BY <1>1, StutterStep DEF Next

-----------------------------------------------------------------------------
(* The theorems                                                             *)

\* The inductive invariant holds of every behaviour.
THEOREM Inductive == Spec => []IInv
<1>1. QED
  BY InitIInv, NextIInv, PTL DEF Spec

\* The client's state has its types; _admitted is never negative.
THEOREM TypeCorrect == Spec => []TypeOK
<1>1. IInv => TypeOK
  BY DEF IInv
<1>2. QED
  BY <1>1, Inductive, PTL

\* close() never takes the transport from an admitted call, and what it
\* counts is what is admitted.
THEOREM TransportOutlivesCalls == Spec => [](LeaseCounted /\ AdmittedFindsOpen)
<1>1. IInv => LeaseCounted /\ AdmittedFindsOpen
  BY DEF IInv
<1>2. QED
  BY <1>1, Inductive, PTL

\* At most one close() leads, and every waiter that nobody notified has
\* something to wait for.
THEOREM WaitersAreServed == Spec => [](OneLeader /\ NoLostWakeup)
<1>1. IInv => OneLeader /\ NoLostWakeup
  BY DEF IInv
<1>2. QED
  BY <1>1, Inductive, PTL

-----------------------------------------------------------------------------
(* AsyncClient implements ClientLifecycle                                   *)

\* Steps of a call admit it, end it, or show nothing of the lifecycle.
LEMMA CallRefines ==
  ASSUME IInv, NEW t \in Tasks,
         \/ Refuse(t) \/ InvokeWithoutSending(t) \/ Invoke(t)
         \/ EndAttempt(t) \/ Retry(t) \/ Redispatch(t) \/ Expire(t) \/ CallCancelled(t)
  PROVE  [Lifecycle!Next]_(Lifecycle!vars)
<1> USE DEF IInv
<1>1. CASE Invoke(t)
  <2>1. Holders' = Holders \cup {t} /\ t \notin Holders
    BY <1>1 DEF Invoke, TypeOK, Holders, LeasePoints
  <2>2. Lifecycle!Admit(t)
    BY <1>1, <2>1 DEF Invoke, Lifecycle!Admit
  <2>3. QED
    BY <2>2 DEF Lifecycle!Next
<1>2. CASE EndAttempt(t) \/ Expire(t) \/ CallCancelled(t)
  <2>1. Holders' = Holders \ {t} /\ t \in Holders
    BY <1>2 DEF EndAttempt, Expire, CallCancelled, Answered, Return, TypeOK, Holders,
       LeasePoints
  <2>2. UNCHANGED <<state, transportClosed>>
    BY <1>2 DEF EndAttempt, Expire, CallCancelled, transportVars
  <2>3. Lifecycle!Finish(t)
    BY <2>1, <2>2 DEF Lifecycle!Finish
  <2>4. QED
    BY <2>3 DEF Lifecycle!Next
<1>3. CASE Refuse(t) \/ InvokeWithoutSending(t) \/ Retry(t) \/ Redispatch(t)
  <2>1. Holders' = Holders
    BY <1>3 DEF Refuse, InvokeWithoutSending, Retry, Redispatch, Answered, Return, TypeOK,
       Holders, LeasePoints
  <2>2. UNCHANGED <<state, transportClosed>>
    BY <1>3 DEF Refuse, InvokeWithoutSending, Retry, Redispatch, clientVars, transportVars
  <2>3. QED
    BY <2>1, <2>2 DEF Lifecycle!vars
<1>4. QED
  BY <1>1, <1>2, <1>3

\* A leading close() begins to close, releases the transport or closes.
LEMMA LeadRefines ==
  ASSUME IInv, NEW t \in Tasks, pc[t] \in {"idle", "follow", "drain"},
         state # "CLOSED", state = "OPEN" => ~transportClosed, Lead(t)
  PROVE  [Lifecycle!Next]_(Lifecycle!vars)
<1> USE DEF IInv
<1>1. Holders' = Holders
  BY DEF Lead, LeadByDraining, LeadToTheEnd, LeadByClosing, Finish, Return, TypeOK, Holders,
     LeasePoints
<1>2. CASE LeadByDraining(t)
  <2>1. state = "OPEN" => Lifecycle!BeginClose
    BY <1>1, <1>2 DEF LeadByDraining, transportVars, Lifecycle!BeginClose
  <2>2. state = "CLOSING" => UNCHANGED Lifecycle!vars
    BY <1>1, <1>2 DEF LeadByDraining, transportVars, Lifecycle!vars
  <2>3. QED
    BY <2>1, <2>2 DEF Lifecycle!Next, TypeOK
<1>3. CASE LeadToTheEnd(t)
  <2>1. Lifecycle!Close
    BY <1>1, <1>3, NoLease DEF LeadToTheEnd, Finish, Lifecycle!Close
  <2>2. QED
    BY <2>1 DEF Lifecycle!Next
<1>4. CASE LeadByClosing(t)
  <2>1. Lifecycle!Release
    BY <1>1, <1>4, NoLease DEF LeadByClosing, Lifecycle!Release
  <2>2. QED
    BY <2>1 DEF Lifecycle!Next
<1>5. QED
  BY <1>2, <1>3, <1>4 DEF Lead

LEMMA CloseRefines ==
  ASSUME IInv, NEW t \in Tasks,
         \/ CloseLeads(t) \/ CloseFollows(t) \/ CloseAgain(t)
         \/ FollowerWakes(t) \/ LeaderWakes(t) \/ WaitCancelled(t)
         \/ AcloseEnds(t) \/ AcloseCancelled(t) \/ AcloseRaises(t)
  PROVE  [Lifecycle!Next]_(Lifecycle!vars)
<1> USE DEF IInv
<1>1. CASE CloseLeads(t) \/ LeaderWakes(t) \/ (FollowerWakes(t) /\ Lead(t) /\ state = "CLOSING")
  <2>1. state # "CLOSED" /\ (state = "OPEN" => ~transportClosed)
    BY <1>1 DEF CloseLeads, LeaderWakes, OneLeader, Leaders, LeaderPoints, PhaseFacts
  <2>2. QED
    BY <1>1, <2>1, LeadRefines DEF CloseLeads, LeaderWakes, FollowerWakes
<1>2. CASE AcloseEnds(t)
  <2>1. Holders' = Holders /\ Holders = {}
    BY <1>2 DEF AcloseEnds, Finish, Return, TypeOK, Holders, LeasePoints, PhaseFacts,
       AdmittedFindsOpen
  <2>2. state # "CLOSED"
    BY <1>2 DEF AcloseEnds, OneLeader, Leaders, LeaderPoints
  <2>3. Lifecycle!Close
    BY <1>2, <2>1, <2>2 DEF AcloseEnds, Finish, Lifecycle!Close
  <2>4. QED
    BY <2>3 DEF Lifecycle!Next
<1>3. CASE CloseFollows(t) \/ CloseAgain(t) \/ WaitCancelled(t) \/ AcloseCancelled(t)
           \/ AcloseRaises(t)
  <2>1. Holders' = Holders
    BY <1>3 DEF CloseFollows, CloseAgain, WaitCancelled, AcloseCancelled, AcloseRaises,
       Return,
       TypeOK, Holders, LeasePoints, WaitPoints
  <2>2. UNCHANGED <<state, transportClosed>>
    BY <1>3 DEF CloseFollows, CloseAgain, WaitCancelled, AcloseCancelled, AcloseRaises,
       clientVars, transportVars
  <2>3. QED
    BY <2>1, <2>2 DEF Lifecycle!vars
<1>4. CASE FollowerWakes(t) /\ ~(Lead(t) /\ state = "CLOSING")
  <2>1. Holders' = Holders
    BY <1>4 DEF FollowerWakes, Return, TypeOK, Holders, LeasePoints
  <2>2. UNCHANGED <<state, transportClosed>>
    BY <1>4 DEF FollowerWakes, transportVars
  <2>3. QED
    BY <2>1, <2>2 DEF Lifecycle!vars
<1>5. QED
  BY <1>1, <1>2, <1>3, <1>4

\* What AsyncCuna does is what ClientLifecycle promises: no call is admitted
\* once close() has begun, and the transport goes after the last call.
THEOREM ImplementsLifecycle == Spec => LifecycleSpec
<1>1. Init => Lifecycle!Init
  BY DEF Init, Lifecycle!Init, Holders, LeasePoints
<1>2. IInv /\ [Next]_vars => [Lifecycle!Next]_(Lifecycle!vars)
  <2> SUFFICES ASSUME IInv, [Next]_vars PROVE [Lifecycle!Next]_(Lifecycle!vars)
    OBVIOUS
  <2>1. ASSUME NEW t \in Tasks, Environment(t) PROVE UNCHANGED Lifecycle!vars
    BY <2>1 DEF Environment, Cancel, Uncancel, clientVars, transportVars, Holders,
       Lifecycle!vars
  <2>2. ASSUME UNCHANGED vars PROVE UNCHANGED Lifecycle!vars
    BY <2>2 DEF vars, clientVars, transportVars, Holders, Lifecycle!vars
  <2>3. ASSUME NEW t \in Tasks, Start(t) \/ Proceed(t) PROVE [Lifecycle!Next]_(Lifecycle!vars)
    BY <2>3, CallRefines, CloseRefines DEF Start, Proceed
  <2>4. QED
    BY <2>1, <2>2, <2>3 DEF Next
<1>3. QED
  BY <1>1, <1>2, Inductive, PTL DEF Spec, LifecycleSpec, Lifecycle!Spec

-----------------------------------------------------------------------------
(* Where nobody cancels a draining leader the lead is never lost            *)

\* A cancellation is only owed to a task inside the SDK, and never to one
\* that drains.
CancelFacts ==
  \A t \in Tasks : pending[t] => pc[t] \notin {"idle", "drain"}

HeldInv == LeadIsHeld /\ CancelFacts

LEMMA HeldStep ==
  ASSUME "drain" \notin CancelPoints, ~AcloseMayRaise, IInv, IInv', HeldInv, [Next]_vars
  PROVE  HeldInv'
<1> USE DEF IInv, HeldInv
<1>1. ASSUME NEW t \in Tasks, Start(t) PROVE HeldInv'
  <2>1. CASE Refuse(t) \/ InvokeWithoutSending(t) \/ Invoke(t) \/ CloseFollows(t) \/ CloseAgain(t)
    <3>1. Leaders \subseteq Leaders' /\ UNCHANGED closeActive
      BY <2>1 DEF Refuse, InvokeWithoutSending, Invoke, CloseFollows, CloseAgain, Return,
         clientVars, TypeOK, Leaders, LeaderPoints
    <3>2. CancelFacts'
      BY <2>1 DEF Refuse, InvokeWithoutSending, Invoke, CloseFollows, CloseAgain, Return,
         TypeOK, CancelFacts
    <3>3. QED
      BY <3>1, <3>2 DEF LeadIsHeld
  <2>2. CASE CloseLeads(t)
    <3>1. LeadIsHeld'
      BY <2>2 DEF CloseLeads, Lead, LeadByDraining, LeadToTheEnd, LeadByClosing, Finish,
         TypeOK,
         LeadIsHeld, Leaders, LeaderPoints
    <3>2. CancelFacts'
      BY <2>2 DEF CloseLeads, Lead, LeadByDraining, LeadToTheEnd, LeadByClosing, Finish,
         Return,
         TypeOK, CancelFacts
    <3>3. QED
      BY <3>1, <3>2
  <2>3. QED
    BY <1>1, <2>1, <2>2 DEF Start
<1>2. ASSUME NEW t \in Tasks, Proceed(t) PROVE HeldInv'
  <2>1. CASE EndAttempt(t) \/ Retry(t) \/ Redispatch(t) \/ Expire(t) \/ CallCancelled(t)
             \/ WaitCancelled(t)
    <3>1. Leaders \subseteq Leaders' /\ UNCHANGED closeActive
      BY <2>1 DEF EndAttempt, Retry, Redispatch, Expire, CallCancelled, WaitCancelled,
         Answered,
         Return, clientVars, TypeOK, Leaders, LeaderPoints, LeasePoints, WaitPoints, CancelFacts
    <3>2. CancelFacts'
      BY <2>1 DEF EndAttempt, Retry, Redispatch, Expire, CallCancelled, WaitCancelled,
         Answered,
         Return, cancelVars, TypeOK, CancelFacts
    <3>3. QED
      BY <3>1, <3>2 DEF LeadIsHeld
  <2>2. CASE Lead(t) /\ (FollowerWakes(t) \/ LeaderWakes(t))
    <3>1. LeadIsHeld'
      BY <2>2 DEF Lead, LeadByDraining, LeadToTheEnd, LeadByClosing, Finish, TypeOK,
         LeadIsHeld,
         Leaders, LeaderPoints
    <3>2. CancelFacts'
      BY <2>2 DEF FollowerWakes, LeaderWakes, Woken, Lead, LeadByDraining, LeadToTheEnd,
         LeadByClosing, Finish, Return, TypeOK, CancelFacts
    <3>3. QED
      BY <3>1, <3>2
  <2>3. CASE FollowerWakes(t) /\ ~Lead(t)
    <3>1. Leaders \subseteq Leaders' /\ UNCHANGED closeActive
      BY <2>3 DEF FollowerWakes, Return, TypeOK, Leaders, LeaderPoints
    <3>2. CancelFacts'
      BY <2>3 DEF FollowerWakes, Return, TypeOK, CancelFacts
    <3>3. QED
      BY <3>1, <3>2 DEF LeadIsHeld
  <2>4. CASE AcloseEnds(t) \/ AcloseCancelled(t)
    <3>1. ~closeActive'
      BY <2>4 DEF AcloseEnds, AcloseCancelled, Finish
    <3>2. CancelFacts'
      BY <2>4 DEF AcloseEnds, AcloseCancelled, Finish, Return, TypeOK, CancelFacts
    <3>3. QED
      BY <3>1, <3>2 DEF LeadIsHeld
  <2>5. QED
    BY <1>2, <2>1, <2>2, <2>3, <2>4 DEF Proceed, LeaderWakes, AcloseRaises
<1>3. ASSUME NEW t \in Tasks, Environment(t) PROVE HeldInv'
  <2>1. UNCHANGED <<closeActive, pc>>
    BY <1>3 DEF Environment, Cancel, Uncancel, clientVars
  <2>2. CancelFacts'
    BY <1>3 DEF Environment, Cancel, Uncancel, TypeOK, CancelFacts
  <2>3. QED
    BY <2>1, <2>2 DEF LeadIsHeld, Leaders
<1>4. CASE UNCHANGED vars
  BY <1>4 DEF vars, clientVars, cancelVars, LeadIsHeld, CancelFacts, Leaders
<1>5. QED
  BY <1>1, <1>2, <1>3, <1>4 DEF Next

\* Where neither a cancellation reaches a draining leader nor aclose() raises
\* another error, _close_active never outlives the close() that set it.
THEOREM LeadNeverLost ==
  ASSUME "drain" \notin CancelPoints, ~AcloseMayRaise
  PROVE  Spec => []LeadIsHeld
<1>1. Init => HeldInv
  BY DEF Init, HeldInv, LeadIsHeld, CancelFacts
<1>2. IInv /\ IInv' /\ HeldInv /\ [Next]_vars => HeldInv'
  BY HeldStep
<1>3. HeldInv => LeadIsHeld
  BY DEF HeldInv
<1>4. QED
  BY <1>1, <1>2, <1>3, Inductive, PTL DEF Spec

-----------------------------------------------------------------------------
(* Cancellation and outcome                                                 *)

\* A cancellation that is owed belongs to a call or close() in progress.
OwedFacts == \A t \in Tasks : pending[t] => pc[t] # "idle" /\ interrupted[t]

\* Where wait_for awaits in the calling task, nothing but the end of the call
\* takes a cancellation back.
StillOwed ==
  InlineWait => \A t \in Tasks : pc[t] # "idle" /\ interrupted[t] => pending[t]

\* Where it does not, a call cannot see an earlier cancellation.
NotForeseen == InlineWait \/ CancelledOnlyIfInterrupted

OutcomeInv == OwedFacts /\ StillOwed /\ NoLateValue /\ NotForeseen

LEMMA OutcomeStep ==
  ASSUME TypeOK, OutcomeInv, [Next]_vars
  PROVE  OutcomeInv'
<1> USE DEF OutcomeInv, OwedFacts, StillOwed, NoLateValue, NotForeseen,
            CancelledOnlyIfInterrupted, TypeOK
<1>1. ASSUME NEW t \in Tasks, Start(t) PROVE OutcomeInv'
  <2>1. CASE Refuse(t) \/ InvokeWithoutSending(t) \/ CloseAgain(t)
    BY <2>1 DEF Refuse, InvokeWithoutSending, CloseAgain, Return, Forget, CancellationRequested
  <2>2. CASE Invoke(t) \/ CloseFollows(t)
    BY <2>2 DEF Invoke, CloseFollows, Forget
  <2>3. CASE CloseLeads(t)
    BY <2>3 DEF CloseLeads, Lead, LeadByDraining, LeadToTheEnd, LeadByClosing, Finish, Return,
       Forget
  <2>4. QED
    BY <1>1, <2>1, <2>2, <2>3 DEF Start
<1>2. ASSUME NEW t \in Tasks, Proceed(t) PROVE OutcomeInv'
  <2>1. CASE EndAttempt(t) \/ Expire(t)
    BY <2>1 DEF EndAttempt, Expire, Answered, Return
  <2>2. CASE Retry(t) \/ Redispatch(t)
    BY <2>2 DEF Retry, Redispatch, Answered, cancelVars
  <2>3. CASE CallCancelled(t) \/ AcloseCancelled(t) \/ WaitCancelled(t)
    BY <2>3 DEF CallCancelled, AcloseCancelled, WaitCancelled, Return, LeasePoints, WaitPoints
  <2>4. CASE FollowerWakes(t) \/ LeaderWakes(t)
    BY <2>4 DEF FollowerWakes, LeaderWakes, Woken, Lead, LeadByDraining, LeadToTheEnd,
       LeadByClosing, Finish, Return
  <2>5. CASE AcloseEnds(t) \/ AcloseRaises(t)
    BY <2>5 DEF AcloseEnds, AcloseRaises, Finish, Return
  <2>6. QED
    BY <1>2, <2>1, <2>2, <2>3, <2>4, <2>5 DEF Proceed
<1>3. ASSUME NEW t \in Tasks, Environment(t) PROVE OutcomeInv'
  BY <1>3 DEF Environment, Cancel, Uncancel
<1>4. CASE UNCHANGED vars
  BY <1>4 DEF vars, cancelVars
<1>5. QED
  BY <1>1, <1>2, <1>3, <1>4 DEF Next

\* OutcomeInv holds of every behaviour.
THEOREM OutcomesInvariant == Spec => []OutcomeInv
<1>1. Init => OutcomeInv
  BY DEF Init, OutcomeInv, OwedFacts, StillOwed, NoLateValue, NotForeseen,
     CancelledOnlyIfInterrupted
<1>2. TypeOK /\ OutcomeInv /\ [Next]_vars => OutcomeInv'
  BY OutcomeStep
<1>3. QED
  BY <1>1, <1>2, TypeCorrect, PTL DEF Spec

\* A call or close() that is cancelled while it runs ends with the
\* CancelledError, wherever the cancellation reaches it (wait_for, the delay,
\* the condition, aclose()), if dispatch runs in the calling task.
THEOREM CancelledNeverLate == Spec => []NoLateValue
<1>1. OutcomeInv => NoLateValue
  BY DEF OutcomeInv
<1>2. QED
  BY <1>1, OutcomesInvariant, PTL

\* Where wait_for hides the caller's count, a call ends cancelled only if it
\* was cancelled (with the count in sight the third finding is the
\* counterexample).
THEOREM CleanupIsAttempted ==
  ASSUME ~InlineWait
  PROVE  Spec => []CancelledOnlyIfInterrupted
<1>1. OutcomeInv => CancelledOnlyIfInterrupted
  BY DEF OutcomeInv, NotForeseen
<1>2. QED
  BY <1>1, OutcomesInvariant, PTL

-----------------------------------------------------------------------------
(* Where nobody cancels aclose() the httpx client is closed                 *)

\* An httpx client belongs to an owned transport and is let go only by a
\* leader in aclose(); one whose aclose() raised takes the lead with it.
HttpFacts ==
  /\ httpClient # "none" => OwnedTransport
  /\ httpClient = "leaked" => closeActive /\ Leaders = {}
  /\ transportClosed => \/ httpClient \in {"none", "closed", "leaked"}
                        \/ \E t \in Tasks : pc[t] = "aclose"
  /\ \A t \in Tasks : pc[t] \in {"idle", "aclose"} => ~pending[t]
  /\ \A t \in Tasks : pc[t] = "aclose" => OwnedTransport

HttpInv == ClosedReleasesHttp /\ HttpFacts

LEMMA HttpStep ==
  ASSUME "aclose" \notin CancelPoints, IInv, HttpInv, [Next]_vars
  PROVE  HttpInv'
<1> USE DEF IInv, TypeOK, HttpInv, ClosedReleasesHttp, HttpFacts
<1>1. ASSUME NEW t \in Tasks,
             Refuse(t) \/ InvokeWithoutSending(t) \/ CloseFollows(t) \/ CloseAgain(t)
      PROVE  HttpInv'
  BY <1>1 DEF Refuse, InvokeWithoutSending, CloseFollows, CloseAgain, Return, clientVars,
     transportVars, Leaders, LeaderPoints
<1>2. ASSUME NEW t \in Tasks, Invoke(t) \/ Redispatch(t)
      PROVE  HttpInv'
  <2>1. state # "CLOSED" /\ ~transportClosed
    BY <1>2 DEF Invoke, Redispatch, PhaseFacts, AdmittedFindsOpen, Holders, LeasePoints
  <2>2. UNCHANGED <<state, transportClosed, closeActive>> /\ httpClient' \in {httpClient, "open"}
        /\ (httpClient' # httpClient => OwnedTransport)
    BY <1>2 DEF Invoke, Redispatch, Send, clientVars
  <2>3. Leaders' = Leaders
    BY <1>2 DEF Invoke, Redispatch, Leaders, LeaderPoints
  <2>4. \A u \in Tasks : pc'[u] \in {"idle", "aclose"} => ~pending'[u] /\ pc'[u] = pc[u]
    BY <1>2 DEF Invoke, Redispatch, cancelVars
  <2>5. QED
    BY <2>1, <2>2, <2>3, <2>4
<1>3. ASSUME NEW t \in Tasks,
             \/ EndAttempt(t) \/ Retry(t) \/ Expire(t) \/ CallCancelled(t) \/ WaitCancelled(t)
      PROVE  HttpInv'
  BY <1>3 DEF EndAttempt, Retry, Expire, CallCancelled, WaitCancelled, Answered, Return,
     clientVars, transportVars, LeasePoints, WaitPoints, Leaders, LeaderPoints
<1>4. ASSUME NEW t \in Tasks, Lead(t),
             \/ CloseLeads(t)
             \/ FollowerWakes(t) /\ state = "CLOSING" /\ ~closeActive
             \/ LeaderWakes(t)
      PROVE  HttpInv'
  <2>1. /\ ~pending[t] /\ state # "CLOSED" /\ httpClient # "leaked"
        /\ \A u \in Tasks : pc[u] # "aclose"
    BY <1>4 DEF CloseLeads, FollowerWakes, LeaderWakes, Woken, OneLeader, Leaders,
       LeaderPoints
  <2>2. CASE LeadByDraining(t)
    BY <2>1, <2>2 DEF LeadByDraining, transportVars
  <2>3. CASE LeadToTheEnd(t)
    BY <2>1, <2>3 DEF LeadToTheEnd, Finish, Return
  <2>4. CASE LeadByClosing(t)
    BY <2>1, <2>4 DEF LeadByClosing
  <2>5. QED
    BY <1>4, <2>2, <2>3, <2>4 DEF Lead
<1>5. ASSUME NEW t \in Tasks, FollowerWakes(t), ~(state = "CLOSING" /\ ~closeActive)
      PROVE  HttpInv'
  BY <1>5 DEF FollowerWakes, Return, transportVars, Leaders, LeaderPoints
<1>6. ASSUME NEW t \in Tasks, AcloseEnds(t) \/ AcloseCancelled(t) \/ AcloseRaises(t)
      PROVE  HttpInv'
  BY <1>6 DEF AcloseEnds, AcloseCancelled, AcloseRaises, Finish, Return, clientVars,
     OneLeader, Leaders, LeaderPoints
<1>7. ASSUME NEW t \in Tasks, Environment(t)
      PROVE  HttpInv'
  BY <1>7 DEF Environment, Cancel, Uncancel, clientVars, transportVars, Leaders
<1>8. CASE UNCHANGED vars
  BY <1>8 DEF vars, clientVars, transportVars, cancelVars, Leaders
<1>9. QED
  BY <1>1, <1>2, <1>3, <1>4, <1>5, <1>6, <1>7, <1>8
     DEF Next, Start, Proceed, CloseLeads, FollowerWakes, LeaderWakes

\* close() reports the client closed only when its httpx client is, even if
\* aclose() may raise, as long as it is not cancelled (the second finding is
\* the counterexample).
THEOREM ClosedClientIsReleased ==
  ASSUME "aclose" \notin CancelPoints
  PROVE  Spec => []ClosedReleasesHttp
<1>1. Init => HttpInv
  BY DEF Init, HttpInv, ClosedReleasesHttp, HttpFacts
<1>2. IInv /\ HttpInv /\ [Next]_vars => HttpInv'
  BY HttpStep
<1>3. HttpInv => ClosedReleasesHttp
  BY DEF HttpInv
<1>4. QED
  BY <1>1, <1>2, <1>3, Inductive, PTL DEF Spec
=============================================================================
