----------------------------- MODULE RetryProofs -----------------------------
(***************************************************************************)
(* Theorems about Retry: for every pair of deadlines, every cap of the     *)
(* delay and every lateness of the caller.                                 *)
(***************************************************************************)
EXTENDS Retry, FiniteSetTheorems, TLAPS

\* What is left of the total deadline bounds each stage of an attempt, one
\* sink or one wake-up late.
StageFacts ==
  /\ pc = "check" => now <= TotalDeadline[operation] + MaxLate
  /\ pc = "announce" =>
       /\ attemptStarted + timeout <= TotalDeadline[operation]
       /\ now <= attemptStarted + MaxLate
  /\ pc = "wait" =>
       /\ attemptStarted + timeout <= TotalDeadline[operation] + MaxLate
       /\ now <= attemptStarted + timeout + MaxLate
  /\ pc = "sleep" =>
       /\ wakeAt < TotalDeadline[operation]
       /\ now <= wakeAt + MaxLate

\* Attempts go out one after the other, and one that is over left no live
\* request behind it.
RequestFacts ==
  /\ \A i \in 1 .. MaxAttempts : i > attempt => request[i] = "none"
  /\ \A i \in 1 .. MaxAttempts : i < attempt => request[i] \notin Live
  /\ pc \in {"check", "announce", "sleep"} => request[attempt] = "none"

ResultFacts ==
  /\ timeout <= AttemptDeadline[operation]
  /\ pc # "done" => result = "none"
  /\ operation = "write" => attempt = 1

IInv ==
  /\ TypeOK
  /\ EndsInTime /\ ValueOnTime /\ SyncStartedNeverRetried
  /\ StageFacts /\ RequestFacts /\ ResultFacts

-----------------------------------------------------------------------------
\* What full_jitter_delay returns lies between 0 and its cap.
LEMMA DelayBounds ==
  ASSUME NEW cap \in Nat, NEW delay \in Delays(cap)
  PROVE  delay \in 0 .. cap
<1>1. PICK raw \in 0 .. RejectionLimit(cap + 1) - 1 : delay = raw % (cap + 1)
  BY DEF Delays
<1>2. (JitterSpace \div (cap + 1)) * (cap + 1) \in Int
  <2>1. JitterSpace \div (cap + 1) \in Int  BY JitterAssumption
  <2> QED BY <2>1
<1>3. raw \in Int  BY <1>1, <1>2 DEF RejectionLimit
<1> QED BY <1>1, <1>3

\* The initial state satisfies the invariant.
LEMMA InitIInv == Init => IInv
  BY ModesAssumption, DeadlineAssumption, LateAssumption
  DEF Init, IInv, TypeOK, EndsInTime, ValueOnTime, StageFacts, RequestFacts, ResultFacts,
      SyncStartedNeverRetried, StartedNeverRetried, Operations, MaxAttempts, Live

-----------------------------------------------------------------------------
(* Every step preserves the invariant.                                      *)

\* Another attempt, or the end: the requests up to this one are over, and the
\* delay stays within the total deadline.
LEMMA RetryOrRaiseStep ==
  ASSUME IInv, pc = "wait", RetryOrRaise,
         UNCHANGED <<call, now, attemptStarted, timeout>>,
         request' \in [1 .. MaxAttempts ->
                    Live \cup {"none", "answered", "refused", "failed", "broken",
                              "cancelled", "cut"}],
         \A i \in 1 .. MaxAttempts : i # attempt => request'[i] = request[i],
         request'[attempt] \notin Live,
         mode = "sync" => request'[attempt] = "failed"
  PROVE  IInv'
<1> USE DEF IInv
<1>1. attempt \in Nat /\ now \in Nat /\ TotalDeadline[operation] \in Nat
  BY DeadlineAssumption DEF TypeOK, Operations, MaxAttempts
<1>2. CASE End("error") /\ UNCHANGED <<attempt, wakeAt>>
  BY <1>1, <1>2, LateAssumption
  DEF End, TypeOK, EndsInTime, ValueOnTime, StageFacts, RequestFacts, ResultFacts,
      SyncStartedNeverRetried, StartedNeverRetried, call, Live, MaxAttempts
<1>3. ASSUME attempt < Attempts, NEW delay \in Delays(Cap),
             now + delay < TotalDeadline[operation],
             pc' = "sleep", wakeAt' = now + delay, attempt' = attempt + 1, result' = result
      PROVE  IInv'
  <2>1. delay \in Nat
    BY DelayBounds, JitterAssumption DEF Cap
  <2>2. operation = "read" /\ attempt \in {1, 2}
    BY <1>1, <1>3 DEF Attempts, TypeOK, Operations
  <2>3. TypeOK' /\ EndsInTime' /\ ValueOnTime' /\ StageFacts' /\ ResultFacts'
    BY <1>1, <1>3, <2>1, <2>2, LateAssumption
    DEF TypeOK, EndsInTime, ValueOnTime, StageFacts, ResultFacts, call, MaxAttempts
  <2>4. RequestFacts'
    BY <1>3, <2>2 DEF TypeOK, RequestFacts, Live, MaxAttempts
  <2>5. SyncStartedNeverRetried'
    BY <1>3, <2>2
    DEF TypeOK, SyncStartedNeverRetried, StartedNeverRetried, call, MaxAttempts
  <2> QED
    BY <2>3, <2>4, <2>5
<1>4. CASE attempt >= Attempts
  BY <1>2, <1>4 DEF RetryOrRaise
<1>5. CASE ~(attempt >= Attempts)
  <2>1. attempt < Attempts
    BY <1>1, <1>5 DEF Attempts
  <2>2. PICK delay \in Delays(Cap) :
          IF now + delay >= TotalDeadline[operation]
            THEN End("error") /\ UNCHANGED <<attempt, wakeAt>>
            ELSE /\ pc' = "sleep"
                 /\ wakeAt' = now + delay
                 /\ attempt' = attempt + 1
                 /\ UNCHANGED result
    BY <1>5 DEF RetryOrRaise
  <2>3. delay \in Nat
    BY DelayBounds, JitterAssumption DEF Cap
  <2>4. CASE now + delay >= TotalDeadline[operation]
    BY <1>2, <2>2, <2>4
  <2>5. CASE now + delay < TotalDeadline[operation]
    BY <1>1, <1>3, <2>1, <2>2, <2>3, <2>5
  <2> QED
    BY <1>1, <2>3, <2>4, <2>5
<1> QED
  BY <1>4, <1>5

\* The steps of the attempt loop.
LEMMA CallerSteps == IInv /\ Caller => IInv'
<1> SUFFICES ASSUME IInv, Caller PROVE IInv'
  OBVIOUS
<1> USE DEF IInv
<1>1. /\ TotalDeadline[operation] \in Nat /\ AttemptDeadline[operation] \in Nat
      /\ attempt \in Nat /\ now \in Nat /\ timeout \in Nat
      /\ attemptStarted \in Nat /\ wakeAt \in Nat
  BY DeadlineAssumption DEF TypeOK, Operations, MaxAttempts
<1>2. CASE Begin
  <2>1. timeout' \in Nat /\ timeout' <= AttemptDeadline[operation]
        /\ now + timeout' <= TotalDeadline[operation]
    BY <1>1, <1>2 DEF Begin, Budget
  <2> QED
    BY <1>1, <1>2, <2>1, LateAssumption
    DEF Begin, TypeOK, EndsInTime, ValueOnTime, SyncStartedNeverRetried,
        StartedNeverRetried, StageFacts, RequestFacts, ResultFacts, call
<1>3. CASE NoTimeLeft
  BY <1>1, <1>3, LateAssumption
  DEF NoTimeLeft, End, TypeOK, EndsInTime, ValueOnTime, SyncStartedNeverRetried,
      StartedNeverRetried, StageFacts, RequestFacts, ResultFacts, call, clocks
<1>4. CASE Dispatch
  BY <1>1, <1>4, LateAssumption
  DEF Dispatch, TypeOK, EndsInTime, ValueOnTime, SyncStartedNeverRetried,
      StartedNeverRetried, StageFacts, RequestFacts, ResultFacts, call, Live, MaxAttempts
<1>5. CASE TakeAnswer
  <2>1. result' = "value" => OnTime
    BY <1>5 DEF TakeAnswer, End
  <2> QED
    BY <1>1, <1>5, <2>1, LateAssumption
    DEF TakeAnswer, End, OnTime, TypeOK, EndsInTime, ValueOnTime, SyncStartedNeverRetried,
        StartedNeverRetried, StageFacts, RequestFacts, ResultFacts, call, clocks
<1>6. CASE TakeError
  BY <1>1, <1>6, LateAssumption
  DEF TakeError, End, TypeOK, EndsInTime, ValueOnTime, SyncStartedNeverRetried,
      StartedNeverRetried, StageFacts, RequestFacts, ResultFacts, call, clocks
<1>7. CASE TakeFailure
  BY <1>7, RetryOrRaiseStep DEF TakeFailure, TypeOK, Live
<1>8. CASE WaitForTimesOut
  <2>1. /\ request' \in [1 .. MaxAttempts ->
                    Live \cup {"none", "answered", "refused", "failed", "broken",
                              "cancelled", "cut"}]
        /\ \A i \in 1 .. MaxAttempts : i # attempt => request'[i] = request[i]
        /\ request'[attempt] \notin Live
    BY <1>8 DEF WaitForTimesOut, TypeOK, Live
  <2> QED
    BY <1>8, <2>1, RetryOrRaiseStep DEF WaitForTimesOut, TimeIsOut
<1>9. CASE JoinTimesOut
  BY <1>1, <1>9, LateAssumption
  DEF JoinTimesOut, TimeIsOut, End, TypeOK, EndsInTime, ValueOnTime,
      SyncStartedNeverRetried, StartedNeverRetried, StageFacts, RequestFacts, ResultFacts,
      call, clocks
<1>10. CASE Wake
  BY <1>1, <1>10, LateAssumption
  DEF Wake, TypeOK, EndsInTime, ValueOnTime, SyncStartedNeverRetried,
      StartedNeverRetried, StageFacts, RequestFacts, ResultFacts, call, clocks
<1> QED
  BY <1>2, <1>3, <1>4, <1>5, <1>6, <1>7, <1>8, <1>9, <1>10 DEF Caller

\* The steps of the transport and of the clock.
LEMMA OtherSteps == IInv /\ (Transport \/ Tick) => IInv'
<1> SUFFICES ASSUME IInv, Transport \/ Tick PROVE IInv'
  OBVIOUS
<1> USE DEF IInv
<1>1. ASSUME NEW i \in 1 .. MaxAttempts, NEW from \in Live,
             NEW to \in {"responding", "answered", "refused", "broken", "failed"},
             Becomes(i, from, to)
      PROVE  IInv'
  <2>1. i = attempt /\ pc \in {"wait", "done"}
    BY <1>1 DEF Becomes, TypeOK, RequestFacts, Live, MaxAttempts
  <2>2. TypeOK' /\ EndsInTime' /\ ValueOnTime' /\ StageFacts' /\ ResultFacts'
    BY <1>1
    DEF Becomes, TypeOK, EndsInTime, ValueOnTime, StageFacts, ResultFacts, call, clocks, Live
  <2>3. RequestFacts' /\ SyncStartedNeverRetried'
    BY <1>1, <2>1
    DEF Becomes, TypeOK, RequestFacts, SyncStartedNeverRetried, StartedNeverRetried, call,
        MaxAttempts
  <2> QED
    BY <2>2, <2>3
<1>2. CASE Transport
  BY <1>1, <1>2 DEF Transport, Live
<1>3. CASE Tick
  <2>1. /\ TotalDeadline[operation] \in Nat /\ now \in Nat /\ timeout \in Nat
        /\ attemptStarted \in Nat /\ wakeAt \in Nat
    BY DeadlineAssumption DEF TypeOK
  <2> QED
    BY <1>3, <2>1, LateAssumption
    DEF Tick, MayLinger, TypeOK, EndsInTime, ValueOnTime, SyncStartedNeverRetried,
        StartedNeverRetried, StageFacts, RequestFacts, ResultFacts, call, clocks
<1> QED
  BY <1>2, <1>3

\* A step that changes nothing.
LEMMA StutterStep == IInv /\ UNCHANGED vars => IInv'
BY DEF IInv, vars, call, clocks, TypeOK, EndsInTime, ValueOnTime, SyncStartedNeverRetried,
   StartedNeverRetried, StageFacts, RequestFacts, ResultFacts

\* The invariant holds throughout.
THEOREM Inductive == Spec => []IInv
<1>1. IInv /\ [Next]_vars => IInv'
  BY CallerSteps, OtherSteps, StutterStep DEF Next, Ended
<1> QED
  BY InitIInv, <1>1, PTL DEF Spec

-----------------------------------------------------------------------------
(* The results                                                              *)

\* The state of a call has its types.
THEOREM TypeCorrect == Spec => []TypeOK
<1>1. IInv => TypeOK
  BY DEF IInv
<1> QED
  BY <1>1, Inductive, PTL

\* A call is over when its total deadline and two delays of its surroundings
\* have passed, and a value it returns was in time: for all deadlines.
THEOREM Punctual == Spec => [](EndsInTime /\ ValueOnTime)
<1>1. IInv => EndsInTime /\ ValueOnTime
  BY DEF IInv
<1> QED
  BY <1>1, Inductive, PTL

\* A write is sent once.
THEOREM WritesOnce == Spec => []WriteSentOnce
<1>1. IInv => WriteSentOnce
  <2> SUFFICES ASSUME IInv, operation = "write",
                      NEW i \in 1 .. MaxAttempts, NEW j \in 1 .. MaxAttempts,
                      request[i] # "none", request[j] # "none"
               PROVE  i = j
    BY DEF WriteSentOnce
  <2>1. attempt = 1
    BY DEF IInv, ResultFacts
  <2>2. ~(i > 1) /\ ~(j > 1)
    BY <2>1 DEF IInv, RequestFacts
  <2> QED
    BY <2>2 DEF MaxAttempts
<1> QED
  BY <1>1, Inductive, PTL

\* At most one request of a call is live, an abandoned one included.
THEOREM OneAtATime == Spec => []NoOverlap
<1>1. IInv => NoOverlap
  <2> SUFFICES ASSUME IInv, NEW i \in 1 .. MaxAttempts, NEW j \in 1 .. MaxAttempts,
                      request[i] \in Live, request[j] \in Live
               PROVE  i = j
    BY DEF NoOverlap
  <2>1. attempt \in Nat
    BY DEF IInv, TypeOK, MaxAttempts
  <2>2. ~(i > attempt) /\ ~(i < attempt) /\ ~(j > attempt) /\ ~(j < attempt)
    BY DEF IInv, RequestFacts, Live
  <2> QED
    BY <2>1, <2>2 DEF MaxAttempts
<1> QED
  BY <1>1, Inductive, PTL

\* The synchronous client never repeats a request whose response had started.
THEOREM SyncNeverRepeats == Spec => []SyncStartedNeverRetried
<1>1. IInv => SyncStartedNeverRetried
  BY DEF IInv
<1> QED
  BY <1>1, Inductive, PTL

-----------------------------------------------------------------------------
(* The delay                                                               *)

\* Of the numbers below a multiple of n, those with one remainder moved by the
\* difference are those with another.
LEMMA ShiftDraw ==
  ASSUME NEW n \in Nat, n > 0, NEW q \in Nat, NEW d \in 0 .. n - 1, NEW e \in 0 .. n - 1,
         NEW raw \in 0 .. q * n - 1, raw % n = d
  PROVE  raw - d + e \in 0 .. q * n - 1 /\ (raw - d + e) % n = e
<1> DEFINE k == raw \div n
<1>1. k \in Int /\ raw = n * k + d
  OBVIOUS
<1>2. k >= 0
  BY <1>1
<1>3. k < q
  BY <1>1, <1>2
<1> HIDE DEF k
<1>4. (k + 1) * n <= q * n
  BY <1>3, <1>2, <1>1
<1>5. raw - d + e = n * k + e
  BY <1>1
<1>6. n * k >= 0
  BY <1>1, <1>2
<1>7. n * k + e < q * n
  BY <1>4, <1>1, <1>6
<1>8. (n * k + e) % n = e
  BY <1>1
<1> QED
  BY <1>5, <1>6, <1>7, <1>8

\* A draw that gives one delay, moved by the difference, gives another.
LEMMA DrawsAlike ==
  ASSUME NEW cap \in Nat, NEW d \in 0 .. cap, NEW e \in 0 .. cap
  PROVE  Cardinality(DrawsOf(cap, d)) = Cardinality(DrawsOf(cap, e))
<1> DEFINE n == cap + 1
           q == JitterSpace \div n
           f == [raw \in DrawsOf(cap, d) |-> raw - d + e]
<1>1. n \in Nat /\ n > 0 /\ q \in Nat /\ RejectionLimit(n) = q * n
  BY JitterAssumption DEF RejectionLimit
<1>2. ASSUME NEW a \in 0 .. cap, NEW b \in 0 .. cap, NEW raw \in DrawsOf(cap, a)
      PROVE  raw \in Nat /\ raw - a + b \in DrawsOf(cap, b)
  <2>1. raw \in 0 .. q * n - 1 /\ raw % n = a
    BY <1>1 DEF DrawsOf
  <2>2. raw - a + b \in 0 .. q * n - 1 /\ (raw - a + b) % n = b
    BY <1>1, <2>1, ShiftDraw
  <2> QED
    BY <1>1, <2>1, <2>2 DEF DrawsOf
<1>3. f \in [DrawsOf(cap, d) -> DrawsOf(cap, e)]
  BY <1>2
<1>4. \A raw, other \in DrawsOf(cap, d) : f[raw] = f[other] => raw = other
  BY <1>2
<1>5. ASSUME NEW target \in DrawsOf(cap, e)
      PROVE  \E raw \in DrawsOf(cap, d) : f[raw] = target
  <2>1. target \in Nat /\ target - e + d \in DrawsOf(cap, d)
    BY <1>2
  <2>2. f[target - e + d] = target
    BY <2>1
  <2> QED
    BY <2>1, <2>2
<1>6. ExistsBijection(DrawsOf(cap, d), DrawsOf(cap, e))
  BY <1>3, <1>4, <1>5 DEF ExistsBijection, Bijection, Injection, IsInjective, Surjection
<1>7. IsFiniteSet(DrawsOf(cap, d))
  <2>1. IsFiniteSet(0 .. q * n - 1)
    BY <1>1, FS_Interval
  <2> QED
    BY <1>1, <2>1, FS_Subset DEF DrawsOf
<1> QED
  BY <1>6, <1>7, FS_Bijection

\* full_jitter_delay is fair for every cap and whatever the size of the source,
\* the numbers above its last multiple being rejected.
THEOREM JitterIsFair == Spec => []JitterUniform
<1>1. Cap \in Nat
  BY JitterAssumption DEF Cap
<1>2. JitterUniform
  BY <1>1, DrawsAlike DEF JitterUniform
<1> QED
  BY <1>2, PTL
=============================================================================
