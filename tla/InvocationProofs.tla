--------------------------- MODULE InvocationProofs ----------------------------
(***************************************************************************)
(* A client never passes over an invalid value, whatever it may be given,  *)
(* and keeps the promise of ClientLifecycle, whatever its sinks do.        *)
(***************************************************************************)
EXTENDS StoryProofs

-----------------------------------------------------------------------------
(* Configuration                                                            *)

\* A set of some of the numbers from 1 to 5 has a least element, which is Min.
LEMMA LeastOfFive ==
  ASSUME NEW S, S \subseteq 1 .. 5, S # {}
  PROVE  Min(S) \in S /\ \A j \in S : Min(S) <= j
<1>1. \E i \in S : \A j \in S : i <= j
  <2>1. CASE 1 \in S
    BY <2>1
  <2>2. CASE 1 \notin S /\ 2 \in S
    BY <2>2
  <2>3. CASE 1 \notin S /\ 2 \notin S /\ 3 \in S
    BY <2>3
  <2>4. CASE 1 \notin S /\ 2 \notin S /\ 3 \notin S /\ 4 \in S
    BY <2>4
  <2>5. CASE 1 \notin S /\ 2 \notin S /\ 3 \notin S /\ 4 \notin S
    <3>1. \A i \in S : i = 5
      BY <2>5
    <3>2. PICK i \in S : TRUE
      OBVIOUS
    <3> QED
      BY <3>1, <3>2
  <2> QED
    BY <2>1, <2>2, <2>3, <2>4, <2>5
<1> QED
  BY <1>1 DEF Min

\* The first source with a field stands before every other one that has it.
LEMMA HavingFacts ==
  ASSUME NEW s, NEW field, Having(s, field) # {}
  PROVE  LET i == Min(Having(s, field))
         IN  /\ i \in DOMAIN Sources(s) /\ field \in DOMAIN Sources(s)[i]
             /\ \A j \in 1 .. i - 1 : field \notin DOMAIN Sources(s)[j]
<1> DEFINE S == Having(s, field)
<1>1. S \subseteq 1 .. 5
  BY DEF Having
<1>2. Min(S) \in S /\ \A j \in S : Min(S) <= j
  BY <1>1, LeastOfFive
<1>3. Min(S) \in 1 .. 5 /\ field \in DOMAIN Sources(s)[Min(S)]
  BY <1>1, <1>2 DEF Having
<1>4. DOMAIN Sources(s) = 1 .. 5
  BY DEF Sources
<1>5. ASSUME NEW j \in 1 .. Min(S) - 1
      PROVE  field \notin DOMAIN Sources(s)[j]
  <2>1. j \in 1 .. 5 /\ ~(Min(S) <= j)
    BY <1>3
  <2> QED
    BY <1>2, <2>1 DEF Having
<1> QED
  BY <1>3, <1>4, <1>5

\* There is always a URL: the default's.
LEMMA DefaultHasOrigin ==
  ASSUME NEW s
  PROVE  Having(s, "base_url") # {}
<1>1. Sources(s)[5] = Default
  BY DEF Sources
<1>2. "base_url" \in DOMAIN Default
  BY DEF Default
<1> QED
  BY <1>1, <1>2 DEF Having

\* What is normalized to an origin has one of the hosts.
LEMMA OriginOfHost ==
  ASSUME NEW url, NormalizeOrigin(url) # None
  PROVE  /\ url.host \in DOMAIN AllowedOrigins
         /\ NormalizeOrigin(url) = AllowedOrigins[url.host]
BY DEF NormalizeOrigin

LEMMA ResolvedIsFirst ==
  ASSUME NEW s, ~Failed(ResolveConfig(s))
  PROVE  LET keys == Having(s, "api_key")
             url == Sources(s)[Min(Having(s, "base_url"))].base_url
         IN  /\ keys # {}
             /\ ResolveConfig(s).api_key = Sources(s)[Min(keys)].api_key
             /\ url.host \in DOMAIN AllowedOrigins
             /\ ResolveConfig(s).base_url = AllowedOrigins[url.host]
<1> DEFINE keys == Having(s, "api_key")
           key == Sources(s)[Min(keys)].api_key
           raw == Sources(s)[Min(Having(s, "base_url"))].base_url
           url == NormalizeOrigin(raw)
<1>1. \A c : Failed(Failure(c))
  BY DEF Failed, Failure
<1>2. /\ ~FileRefused(s.file) /\ keys # {} /\ ValidKey(key) /\ url # None
      /\ ResolveConfig(s) = [api_key |-> key, base_url |-> url]
  BY <1>1 DEF ResolveConfig
<1>3. raw.host \in DOMAIN AllowedOrigins /\ url = AllowedOrigins[raw.host]
  BY <1>2, OriginOfHost
<1> QED
  BY <1>2, <1>3

\* A client that is made uses, for each field, the value of the first source
\* that has it, whatever the sources hold (resolve_config).
THEOREM PresenceDecides == Spec => NeverFallsBack
<1>1. ASSUME Construct
      PROVE  OfDecidingSources
  <2> SUFFICES ASSUME ~Failed(config')
               PROVE  OfDecidingSources
    BY DEF OfDecidingSources
  <2>1. config' = ResolveConfig(settings)
    BY <1>1 DEF Construct
  <2>2. ~Failed(ResolveConfig(settings))
    BY <2>1
  <2> DEFINE k == Min(Having(settings, "api_key"))
             u == Min(Having(settings, "base_url"))
  <2>3. /\ Having(settings, "api_key") # {}
        /\ config'.api_key = Sources(settings)[k].api_key
        /\ Sources(settings)[u].base_url.host \in DOMAIN AllowedOrigins
        /\ config'.base_url = AllowedOrigins[Sources(settings)[u].base_url.host]
    BY <2>1, <2>2, ResolvedIsFirst
  <2>4. k \in DOMAIN Sources(settings) /\ Decides(Sources(settings), k, "api_key")
    BY <2>3, HavingFacts DEF Decides
  <2>5. u \in DOMAIN Sources(settings) /\ Decides(Sources(settings), u, "base_url")
    BY DefaultHasOrigin, HavingFacts DEF Decides
  <2> QED
    BY <2>3, <2>4, <2>5 DEF OfDecidingSources
<1>2. ASSUME Next, ~Construct
      PROVE  UNCHANGED config
  BY <1>2 DEF Next, Step, Prepare, CallHook, StartAttempt, Respond, Fail, EndOperation,
     Leave,
     Return, Closed, Call, HookCalls, HookCloses, Cancel, Close, clientVars
<1>3. [Next]_vars => [OfDecidingSources]_vars
  BY <1>1, <1>2 DEF OfDecidingSources, vars, clientVars
<1> QED
  BY <1>3, PTL DEF Spec, NeverFallsBack

-----------------------------------------------------------------------------
(* Invocation implements ClientLifecycle                                    *)

\* Every call that has not returned is counted, and counted once.
LeasesOK ==
  /\ \A c \in Callers : Len(stack[c]) <= MaxDepth
  /\ IsFiniteSet(Holders) /\ admitted = Cardinality(Holders)

\* What changes when the call on top becomes another one.
LEMMA BecomesTop ==
  ASSUME StacksOK, NEW c \in Callers, stack[c] # <<>>, NEW call \in CallSet, Becomes(c, call)
  PROVE  \A d \in Callers :
           /\ Len(stack'[d]) = Len(stack[d]) /\ DOMAIN stack'[d] = DOMAIN stack[d]
           /\ \A k \in DOMAIN stack[d] :
                stack'[d][k] = IF d = c /\ k = Len(stack[c]) THEN call ELSE stack[d][k]
<1> DEFINE n == Len(stack[c])
<1>1. stack \in [Callers -> Seq(CallSet)]
  BY DEF StacksOK
<1>2. stack[c] \in Seq(CallSet) /\ n \in 1 .. n /\ DOMAIN stack[c] = 1 .. n
  BY <1>1, EmptySeq, LenProperties
<1> DEFINE calls == [stack[c] EXCEPT ![n] = call]
<1>3. /\ calls \in Seq(CallSet) /\ Len(calls) = n /\ DOMAIN calls = 1 .. n
      /\ \A k \in 1 .. n : calls[k] = IF k = n THEN call ELSE stack[c][k]
  BY <1>2, ExceptSeq, LenProperties
<1>4. stack' = [stack EXCEPT ![c] = calls]
  BY DEF Becomes
<1> HIDE DEF calls
<1>5. stack'[c] = calls /\ \A d \in Callers : d # c => stack'[d] = stack[d]
  BY <1>1, <1>4
<1> QED
  BY <1>2, <1>3, <1>5

\* A step of a call that neither takes a lease nor gives it back.
LEMMA LeasesKept ==
  ASSUME StacksOK, LeasesOK, NEW c \in Callers, stack[c] # <<>>, NEW call \in CallSet,
         Becomes(c, call), call.at = "returned" <=> Top(c).at = "returned",
         admitted' = admitted
  PROVE  LeasesOK' /\ Holders' = Holders
<1>1. ASSUME NEW d \in Callers, NEW k
      PROVE  Holding(d, k)' <=> Holding(d, k)
  BY BecomesTop DEF Holding, Top
<1>2. Holders' = Holders
  BY <1>1 DEF Holders, Slots
<1> QED
  BY <1>2, BecomesTop DEF LeasesOK

\* The call on top gives its lease back.
LEMMA LeaseEnds ==
  ASSUME StacksOK, LeasesOK, NEW c \in Callers, stack[c] # <<>>, NEW call \in CallSet,
         Becomes(c, call), call.at = "returned", Top(c).at # "returned",
         admitted' = admitted - 1
  PROVE  /\ LeasesOK'
         /\ \E slot \in Slots : slot \in Holders /\ Holders' = Holders \ {slot}
<1> DEFINE n == Len(stack[c])
           slot == <<c, n>>
<1>1. n \in 1 .. n /\ DOMAIN stack[c] = 1 .. n
  BY EmptySeq, LenProperties DEF StacksOK
<1>2. slot \in Slots
  BY <1>1, DepthAssumption DEF LeasesOK, Slots
<1>3. slot \in Holders
  BY <1>1, <1>2 DEF Holders, Holding, Top
<1>4. ASSUME NEW d \in Callers, NEW k \in Nat
      PROVE  Holding(d, k)' <=> Holding(d, k) /\ <<d, k>> # slot
  BY <1>1, BecomesTop DEF Holding
<1>5. Holders' = Holders \ {slot}
  BY <1>4, DepthAssumption DEF Holders, Slots
<1>6. IsFiniteSet(Holders') /\ admitted' = Cardinality(Holders')
  BY <1>3, <1>5, FS_RemoveElement DEF LeasesOK
<1> QED
  BY <1>2, <1>3, <1>5, <1>6, BecomesTop DEF LeasesOK

\* A call begins, with its lease, on top of those that its caller is in.
LEMMA LeaseBegins ==
  ASSUME StacksOK, LeasesOK, NEW c \in Callers, NEW op, NEW calls \in Seq(CallSet),
         Len(calls) = Len(stack[c]), Len(calls) < MaxDepth,
         \A k \in DOMAIN calls : calls[k].at = stack[c][k].at, Lease(c, calls, op)
  PROVE  /\ LeasesOK'
         /\ \E slot \in Slots : slot \notin Holders /\ Holders' = Holders \cup {slot}
<1> DEFINE n == Len(calls)
           slot == <<c, n + 1>>
           more == Append(calls, NewCall(op))
<1>1. /\ n \in Nat /\ DOMAIN calls = 1 .. n /\ DOMAIN stack[c] = 1 .. n
      /\ DOMAIN more = 1 .. n + 1 /\ Len(more) = n + 1
      /\ more[n + 1] = NewCall(op) /\ \A k \in 1 .. n : more[k] = calls[k]
  <2>1. calls \in Seq(CallSet \cup {NewCall(op)}) /\ stack[c] \in Seq(CallSet)
    BY DEF StacksOK
  <2>2. more \in Seq(CallSet \cup {NewCall(op)})
    BY <2>1, AppendProperties
  <2> QED
    BY <2>1, <2>2, AppendProperties, LenProperties
<1>2. /\ stack'[c] = more /\ NewCall(op).at = "prepare"
      /\ \A d \in Callers : d # c => stack'[d] = stack[d]
  <2>1. stack' = [stack EXCEPT ![c] = more] /\ stack \in [Callers -> Seq(CallSet)]
    BY DEF Lease, StacksOK
  <2> HIDE DEF more
  <2> QED
    BY <2>1 DEF NewCall
<1> HIDE DEF more
<1>3. slot \in Slots /\ slot \notin Holders
  BY <1>1, DepthAssumption DEF Slots, Holders, Holding
<1>4. ASSUME NEW d \in Callers, NEW k \in Nat
      PROVE  Holding(d, k)' <=> Holding(d, k) \/ <<d, k>> = slot
  <2>1. CASE d = c
    <3>1. k \in DOMAIN more <=> k \in DOMAIN stack[c] \/ k = n + 1
      BY <1>1
    <3>2. k \in DOMAIN stack[c] => more[k].at = stack[c][k].at
      BY <1>1
    <3> QED
      BY <1>1, <1>2, <2>1, <3>1, <3>2 DEF Holding
  <2>2. CASE d # c
    BY <1>2, <2>2 DEF Holding
  <2> QED
    BY <2>1, <2>2
<1>5. Holders' = Holders \cup {slot}
  BY <1>3, <1>4, DepthAssumption DEF Holders, Slots
<1>6. IsFiniteSet(Holders') /\ admitted' = Cardinality(Holders')
  BY <1>3, <1>5, FS_AddElement DEF LeasesOK, Lease
<1>7. \A d \in Callers : Len(stack'[d]) <= MaxDepth
  BY <1>1, <1>2, DepthAssumption DEF LeasesOK
<1> QED
  BY <1>3, <1>5, <1>6, <1>7 DEF LeasesOK

\* A call that has returned to a sink or to the program holds no lease.
LEMMA ReturnKeepsLeases ==
  ASSUME StacksOK, LeasesOK, NEW c \in Callers, Return(c)
  PROVE  LeasesOK' /\ Holders' = Holders
<1> DEFINE n == Len(stack[c])
           front == SubSeq(stack[c], 1, n - 1)
<1>1. /\ stack \in [Callers -> Seq(CallSet)] /\ stack[c] # <<>> /\ Top(c).at = "returned"
      /\ stack' = [stack EXCEPT ![c] = front] /\ admitted' = admitted
  BY DEF StacksOK, Return, Ready, At, Front
<1>2. /\ n \in Nat \ {0} /\ DOMAIN stack[c] = 1 .. n
      /\ \A k \in 1 .. n : stack[c][k] \in CallSet
  BY <1>1, EmptySeq, LenProperties, ElementOfSeq
<1>3. /\ front \in Seq(CallSet) /\ Len(front) = n - 1
      /\ \A k \in 1 .. n - 1 : front[k] = stack[c][k]
  <2>1. /\ front \in Seq(CallSet)
        /\ Len(front) = IF 1 <= n - 1 THEN n - 1 - 1 + 1 ELSE 0
        /\ \A k \in 1 .. n - 1 - 1 + 1 : front[k] = stack[c][1 + k - 1]
    BY <1>2, SubSeqProperties
  <2> HIDE DEF front
  <2>2. ASSUME NEW k \in 1 .. n - 1
        PROVE  front[k] = stack[c][k]
    <3>1. 1 + k - 1 = k /\ k \in 1 .. n - 1 - 1 + 1
      BY <1>2
    <3> QED
      BY <2>1, <3>1
  <2> QED
    BY <1>2, <2>1, <2>2
<1> HIDE DEF front
<1>4. DOMAIN front = 1 .. n - 1
  BY <1>3, LenProperties
<1>5. stack'[c] = front /\ \A d \in Callers : d # c => stack'[d] = stack[d]
  BY <1>1, <1>3
<1>6. ASSUME NEW d \in Callers, NEW k \in Nat
      PROVE  Holding(d, k)' <=> Holding(d, k)
  <2>1. CASE d = c
    <3>1. k \in 1 .. n - 1 <=> k \in 1 .. n /\ k # n
      BY <1>2
    <3>2. stack[c][n].at = "returned"
      BY <1>1 DEF Top
    <3> QED
      BY <1>2, <1>3, <1>4, <1>5, <2>1, <3>1, <3>2 DEF Holding
  <2>2. CASE d # c
    BY <1>5, <2>2 DEF Holding
  <2> QED
    BY <2>1, <2>2
<1>7. Holders' = Holders
  BY <1>6, DepthAssumption DEF Holders, Slots
<1>8. \A d \in Callers : Len(stack'[d]) <= MaxDepth
  BY <1>2, <1>3, <1>5, DepthAssumption DEF LeasesOK
<1> QED
  BY <1>1, <1>7, <1>8 DEF LeasesOK

\* Whatever a sink or the span does, its call goes on as before.
LEMMA HookedFields ==
  ASSUME NEW call, CallOK(call), call.tell # <<>>, NEW next \in Hooked(call)
  PROVE  next \in CallSet /\ next.at = call.at
<1>1. next \in CallSet /\ call \in CallSet
  BY HookedKeeps DEF CallOK
<1>2. Told(call) \in CallSet /\ Told(call).at = call.at
  BY <1>1, ToldFields DEF CallSet
<1>3. CASE next = Told(call)
  BY <1>1, <1>2, <1>3
<1>4. CASE next = Traced(call)
  <2> DEFINE traced == [Told(call) EXCEPT !.span = TRUE]
  <2>1. traced \in CallSet /\ traced.at = call.at
    BY <1>2 DEF CallSet
  <2>2. next = [traced EXCEPT !.tell = Start(traced)]
    BY <1>4 DEF Traced
  <2> HIDE DEF traced
  <2> QED
    BY <1>1, <2>1, <2>2 DEF CallSet
<1> QED
  BY <1>3, <1>4 DEF Hooked

LEMMA HookedHolding ==
  ASSUME StacksOK, LeasesOK, NEW c \in Callers, Telling(c),
         NEW next \in Hooked(Top(c)), Becomes(c, next), admitted' = admitted
  PROVE  LeasesOK' /\ Holders' = Holders
<1>1. stack[c] # <<>> /\ CallOK(Top(c)) /\ Top(c).tell # <<>>
  BY TopRight DEF Telling
<1>2. next \in CallSet /\ next.at = Top(c).at
  BY <1>1, HookedFields
<1> QED
  BY <1>1, <1>2, LeasesKept

\* A call keeps its lease while it is prepared, tried, answered, given up and ended.
LEMMA ProgressHolding ==
  ASSUME StacksOK, LeasesOK, NEW c \in Callers,
         \/ Prepare(c) \/ StartAttempt(c) \/ Respond(c) \/ Fail(c) \/ Cancel(c) \/ EndOperation(c)
  PROVE  LeasesOK' /\ Holders' = Holders
<1> DEFINE call == Top(c)
<1>1. /\ stack[c] # <<>> /\ call \in CallSet /\ call.tell = <<>>
      /\ call.at \in {"prepare", "attempt", "dispatch", "end"} /\ admitted' = admitted
  BY TopRight
     DEF Prepare, StartAttempt, Respond, Fail, Cancel, EndOperation, Ready, At
<1>2. PICK next : Becomes(c, next) /\ next \in CallSet /\ next.at # "returned"
  <2>0. CallOK(call)
    BY <1>1, TopRight
  <2>1. CASE Prepare(c)
    <3>1. call.at = "prepare"
      BY <2>1 DEF Prepare, Ready, At
    <3>2. \A next : CallOK(next) => next \in CallSet
      BY DEF CallOK
    <3>3. /\ [call EXCEPT !.at = "attempt", !.tell = Start(call)] \in CallSet
          /\ [call EXCEPT !.at = "leave", !.outcome = [tag |-> "refused"]] \in CallSet
      BY <1>1, <2>0, <3>1, <3>2, PreparedKeeps
    <3>4. /\ [call EXCEPT !.at = "attempt", !.tell = Start(call)].at = "attempt"
          /\ [call EXCEPT !.at = "leave", !.outcome = [tag |-> "refused"]].at = "leave"
      BY <1>1 DEF CallSet
    <3>5. \/ Becomes(c, [call EXCEPT !.at = "attempt", !.tell = Start(call)])
          \/ Becomes(c, [call EXCEPT !.at = "leave", !.outcome = [tag |-> "refused"]])
      BY <2>1 DEF Prepare
    <3> QED
      BY <3>3, <3>4, <3>5
  <2>2. CASE StartAttempt(c)
    <3> DEFINE more == [call EXCEPT !.attempt = @ + 1]
               next == [more EXCEPT !.at = "dispatch", !.tell = AttemptStart(more)]
    <3>1. call.at = "attempt"
      BY <2>2 DEF StartAttempt, Ready, At
    <3>2. CASE call.attempt > 0 /\ Becomes(c, Ended(call, ErrorOutcome))
      <4>1. CallOK(Ended(call, ErrorOutcome))
        BY <1>1, <2>0, <3>1, <3>2, NoAnswerKeeps
      <4>2. Ended(call, ErrorOutcome).at = "end"
        BY <1>1 DEF Ended, CallSet
      <4> QED
        BY <3>2, <4>1, <4>2 DEF CallOK
    <3>3. CASE Becomes(c, next)
      <4>1. CallOK(next)
        BY <1>1, <2>0, <3>1, AttemptKeeps
      <4>2. next.at = "dispatch"
        BY <1>1 DEF CallSet
      <4> QED
        BY <3>3, <4>1, <4>2 DEF CallOK
    <3> QED
      BY <2>2, <3>2, <3>3 DEF StartAttempt
  <2>3. CASE Respond(c)
    <3>1. PICK response \in Responses :
            Becomes(c, [Ended(call, Decoded(call, response)) EXCEPT !.response = response])
      BY <2>3 DEF Respond
    <3>2. call.at = "dispatch"
      BY <2>3 DEF Respond, Ready, At
    <3> DEFINE next == [Ended(call, Decoded(call, response)) EXCEPT !.response = response]
    <3>3. CallOK(next)
      BY <1>1, <2>0, <3>2, AnswerKeeps
    <3>4. next.at = "end"
      BY <1>1 DEF Ended, CallSet
    <3> QED
      BY <3>1, <3>3, <3>4 DEF CallOK
  <2>4. CASE Fail(c)
    <3> DEFINE next == [call EXCEPT !.at = "attempt", !.tell = RetryScheduled(call)]
    <3>1. call.at = "dispatch"
      BY <2>4 DEF Fail, Ready, At
    <3>2. CallOK(next) /\ CallOK(Ended(call, ErrorOutcome))
      BY <1>1, <2>0, <3>1, RetryKeeps, NoAnswerKeeps
    <3>3. next.at = "attempt" /\ Ended(call, ErrorOutcome).at = "end"
      BY <1>1 DEF Ended, CallSet
    <3>4. Becomes(c, next) \/ Becomes(c, Ended(call, ErrorOutcome))
      BY <2>4 DEF Fail
    <3> QED
      BY <3>2, <3>3, <3>4 DEF CallOK
  <2>5. CASE Cancel(c)
    <3>1. call.at = "dispatch" \/ (call.at = "attempt" /\ call.attempt > 0)
      BY <2>5 DEF Cancel, Ready, At
    <3>2. CallOK(Ended(call, [tag |-> "cancelled"]))
      BY <1>1, <2>0, <3>1, NoAnswerKeeps DEF Cancelled
    <3>3. Ended(call, [tag |-> "cancelled"]).at = "end"
      BY <1>1 DEF Ended, CallSet
    <3>4. Becomes(c, Ended(call, [tag |-> "cancelled"]))
      BY <2>5 DEF Cancel
    <3> QED
      BY <3>2, <3>3, <3>4 DEF CallOK
  <2>6. CASE EndOperation(c)
    <3> DEFINE next == [call EXCEPT !.at = "leave", !.tell = End(call)]
    <3>1. call.at = "end"
      BY <2>6 DEF EndOperation, Ready, At
    <3>2. CallOK(next)
      BY <1>1, <2>0, <3>1, EndToldKeeps
    <3>3. next.at = "leave"
      BY <1>1 DEF CallSet
    <3>4. Becomes(c, next)
      BY <2>6 DEF EndOperation
    <3> QED
      BY <3>2, <3>3, <3>4 DEF CallOK
  <2> QED
    BY <2>1, <2>2, <2>3, <2>4, <2>5, <2>6
<1> QED
  BY <1>1, <1>2, LeasesKept

\* The call that a sink makes, and the one that the program makes.
LEMMA CallHolding ==
  ASSUME StacksOK, LeasesOK, NEW c \in Callers, Call(c) \/ HookCalls(c)
  PROVE  LeasesOK' /\ Lifecycle!Next
<1> DEFINE n == Len(stack[c])
<1>1. PICK op \in Uses[c], calls \in Seq(CallSet) :
        /\ Len(calls) = n /\ Len(calls) < MaxDepth
        /\ \A k \in DOMAIN calls : calls[k].at = stack[c][k].at
        /\ Lease(c, calls, op)
  <2>1. CASE Call(c)
    <3> DEFINE none == <<>>
    <3>1. PICK op \in Uses[c] : Lease(c, none, op)
      BY <2>1 DEF Call
    <3>2. n = 0 /\ none \in Seq(CallSet) /\ Len(none) = 0 /\ DOMAIN none = {}
      BY <2>1, EmptySeq DEF Call
    <3>3. 0 < MaxDepth
      BY DepthAssumption
    <3> HIDE DEF none, n
    <3> QED
      BY <3>1, <3>2, <3>3
  <2>2. CASE HookCalls(c)
    <3>1. /\ stack[c] # <<>> /\ CallOK(Top(c)) /\ Top(c).tell # <<>> /\ n < MaxDepth
      BY <2>2, TopRight DEF HookCalls, Telling
    <3>2. PICK op \in Uses[c], next \in Hooked(Top(c)) : Lease(c, [stack[c] EXCEPT ![n] = next], op)
      BY <2>2 DEF HookCalls
    <3> DEFINE calls == [stack[c] EXCEPT ![n] = next]
    <3>3. next \in CallSet /\ next.at = Top(c).at
      BY <3>1, HookedFields
    <3>4. stack[c] \in Seq(CallSet) /\ n \in 1 .. n /\ DOMAIN stack[c] = 1 .. n
      BY <3>1, EmptySeq, LenProperties DEF StacksOK
    <3>5. /\ calls \in Seq(CallSet) /\ Len(calls) = n /\ DOMAIN calls = 1 .. n
          /\ \A k \in 1 .. n : calls[k] = IF k = n THEN next ELSE stack[c][k]
      BY <3>3, <3>4, ExceptSeq, LenProperties
    <3>6. \A k \in DOMAIN calls : calls[k].at = stack[c][k].at
      BY <3>3, <3>5 DEF Top
    <3>7. Lease(c, calls, op)
      BY <3>2
    <3> HIDE DEF calls
    <3> QED
      BY <3>1, <3>5, <3>6, <3>7
  <2> QED
    BY <2>1, <2>2
<1>2. /\ LeasesOK'
      /\ \E slot \in Slots : slot \notin Holders /\ Holders' = Holders \cup {slot}
  BY <1>1, LeaseBegins
<1>3. state = "OPEN" /\ state' = state
  BY <1>1 DEF Lease, Call, HookCalls
<1> QED
  BY <1>2, <1>3 DEF Lifecycle!Next, Lifecycle!Admit

\* Every step counts its leases and is one that the promise allows.
LEMMA LeasesInductive ==
  ASSUME StacksOK, LeasesOK, Next
  PROVE  LeasesOK' /\ [Lifecycle!Next]_(Lifecycle!vars)
<1>1. CASE Construct
  BY <1>1 DEF Construct, LeasesOK, Holders, Holding, Lifecycle!vars
<1>2. ASSUME NEW c \in Callers, Call(c) \/ HookCalls(c)
      PROVE  LeasesOK' /\ [Lifecycle!Next]_(Lifecycle!vars)
  BY <1>2, CallHolding
<1>3. ASSUME NEW c \in Callers,
             \/ Prepare(c) \/ StartAttempt(c) \/ Respond(c) \/ Fail(c) \/ Cancel(c)
             \/ EndOperation(c) \/ CallHook(c) \/ Return(c)
      PROVE  LeasesOK' /\ [Lifecycle!Next]_(Lifecycle!vars)
  <2>1. LeasesOK' /\ Holders' = Holders
    <3>1. CASE CallHook(c)
      BY <3>1, HookedHolding DEF CallHook
    <3> QED
      BY <1>3, <3>1, ProgressHolding, ReturnKeepsLeases
  <2>2. state' = state
    BY <1>3
       DEF Prepare, StartAttempt, Respond, Fail, Cancel, EndOperation, CallHook, Return
  <2> QED
    BY <2>1, <2>2 DEF Lifecycle!vars
<1>4. ASSUME NEW c \in Callers, Leave(c)
      PROVE  LeasesOK' /\ [Lifecycle!Next]_(Lifecycle!vars)
  <2> DEFINE call == [Top(c) EXCEPT !.at = "returned"]
  <2>1. /\ stack[c] # <<>> /\ Top(c) \in CallSet /\ Top(c).at = "leave"
        /\ Becomes(c, call) /\ admitted' = admitted - 1 /\ state' = state
    BY <1>4, TopRight DEF Leave, Ready, At
  <2>2. call \in CallSet /\ call.at = "returned"
    BY <2>1 DEF CallSet
  <2> HIDE DEF call
  <2>3. /\ LeasesOK'
        /\ \E slot \in Slots : slot \in Holders /\ Holders' = Holders \ {slot}
    BY <2>1, <2>2, LeaseEnds
  <2> QED
    BY <2>1, <2>3 DEF Lifecycle!Next, Lifecycle!Finish
<1>5. ASSUME NEW c \in Callers, HookCloses(c) \/ Close(c)
      PROVE  LeasesOK' /\ [Lifecycle!Next]_(Lifecycle!vars)
  <2>1. LeasesOK' /\ Holders' = Holders
    <3>1. CASE HookCloses(c)
      BY <3>1, HookedHolding DEF HookCloses
    <3>2. CASE Close(c)
      BY <3>2 DEF Close, LeasesOK, Holders, Holding
    <3> QED
      BY <1>5, <3>1, <3>2
  <2>2. state' = IF state = "OPEN" THEN "CLOSING" ELSE state
    BY <1>5 DEF HookCloses, Close
  <2>3. CASE state = "OPEN"
    BY <2>1, <2>2, <2>3 DEF Lifecycle!Next, Lifecycle!BeginClose
  <2>4. CASE state # "OPEN"
    BY <2>1, <2>2, <2>4 DEF Lifecycle!vars
  <2> QED
    BY <2>3, <2>4
<1>6. ASSUME NEW c \in Callers, Closed(c)
      PROVE  LeasesOK' /\ [Lifecycle!Next]_(Lifecycle!vars)
  <2>1. LeasesOK' /\ Holders' = Holders /\ state' = "CLOSED"
    BY <1>6 DEF Closed, LeasesOK, Holders, Holding
  <2>2. CASE state = "CLOSED"
    BY <2>1, <2>2 DEF Lifecycle!vars
  <2>3. CASE state # "CLOSED"
    <3>1. admitted = 0
      BY <1>6, <2>3 DEF Closed
    <3>2. Holders = {}
      BY <3>1, FS_EmptySet DEF LeasesOK
    <3> QED
      BY <2>1, <2>3, <3>2 DEF Lifecycle!Next, Lifecycle!Close
  <2> QED
    BY <2>2, <2>3
<1> QED
  BY <1>1, <1>2, <1>3, <1>4, <1>5, <1>6 DEF Next, Step

\* A client that calls itself from its sinks and is closed from them admits calls
\* only while it is open, and is closed only when none of them holds a lease
\* (_lease(), close()): Invocation keeps the promise of ClientLifecycle.
THEOREM ImplementsLifecycle == Spec => LifecycleSpec
<1>1. Init => StacksOK /\ LeasesOK /\ Lifecycle!Init
  <2> SUFFICES ASSUME Init
               PROVE  StacksOK /\ LeasesOK /\ Lifecycle!Init
    OBVIOUS
  <2>1. stack = [c \in Callers |-> <<>>] /\ admitted = 0 /\ state = "OPEN"
    BY DEF Init
  <2>2. <<>> \in Seq(CallSet) /\ DOMAIN <<>> = {} /\ Len(<<>>) = 0
    BY EmptySeq
  <2>3. StacksOK
    BY <2>1, <2>2 DEF StacksOK
  <2>4. Holders = {}
    BY <2>1, <2>2 DEF Holders, Holding, Slots
  <2>5. LeasesOK
    BY <2>1, <2>2, <2>4, FS_EmptySet, DepthAssumption DEF LeasesOK
  <2> QED
    BY <2>1, <2>3, <2>4, <2>5 DEF Lifecycle!Init
<1>2. StacksOK /\ LeasesOK /\ [Next]_vars
        => StacksOK' /\ LeasesOK' /\ [Lifecycle!Next]_(Lifecycle!vars)
  <2> SUFFICES ASSUME StacksOK, LeasesOK, [Next]_vars
               PROVE  StacksOK' /\ LeasesOK' /\ [Lifecycle!Next]_(Lifecycle!vars)
    OBVIOUS
  <2>1. CASE Next
    BY <2>1, StacksInductive, LeasesInductive
  <2>2. CASE UNCHANGED vars
    <3>1. /\ hooks' = hooks /\ stack' = stack /\ admitted' = admitted
          /\ state' = state /\ Holders' = Holders
      BY <2>2 DEF vars, clientVars, Holders, Holding
    <3>2. LeasesOK'
      BY <3>1 DEF LeasesOK
    <3> QED
      BY <3>1, <3>2, StacksStay DEF Lifecycle!vars
  <2> QED
    BY <2>1, <2>2
<1> QED
  BY <1>1, <1>2, PTL DEF Spec, LifecycleSpec, Lifecycle!Spec
=============================================================================
