------------------------------ MODULE Invocation -------------------------------
(***************************************************************************)
(* One client from its construction on: its configuration, the calls made  *)
(* through it, and the diagnostic and trace sinks that are told of them.   *)
(*                                                                         *)
(* A sink, or the span that the trace sink has made, runs on the thread of *)
(* the call, which holds its lease: it may return, raise, call the client  *)
(* again or close it.  What an AsyncCuna's sink gives back (a coroutine)   *)
(* is closed and never runs.  The lease and close() are those of           *)
(* SyncClient and AsyncClient with one step each.                          *)
(***************************************************************************)
EXTENDS Exchange, FiniteSets

CONSTANTS
  Callers,     \* threads of a Cuna, or tasks of an AsyncCuna
  Settings,    \* the arguments and surroundings that a client may be made in
  Reads,       \* the operations that are tried again
  Operations,
  Uses,        \* those that each caller calls
  Arguments,   \* what they are called with
  Success,     \* for each operation, the status that it succeeds with
  Responses,   \* what the service answers
  Decodable,   \* the values that the decoder of an operation takes
  MaxDepth     \* bound on calls made by sinks within calls

ASSUME OperationsAssumption ==
  Reads \subseteq Operations /\ \A c \in Callers : Uses[c] \subseteq Operations
ASSUME DepthAssumption == MaxDepth \in Nat \ {0}
ASSUME ResponseAssumption ==
  MaxResponseBytes \in Nat /\ \A response \in Responses : response.bytes \in Nat

VARIABLES
  kind,      \* "sync" or "async"
  hooks,     \* the sinks that the client was given
  settings,  \* what its values are found in, None when they have been read
  config,    \* None, the resolved configuration, or why there is none
  state,     \* _state
  admitted,  \* _admitted
  stack,     \* the calls of each caller, the one its sinks made last on top
  closing    \* callers in close()

clientVars == <<kind, hooks, settings, config>>
vars == <<clientVars, state, admitted, stack, closing>>

Init ==
  /\ settings \in Settings
  /\ kind = settings.kind /\ hooks = settings.hooks
  /\ config = None
  /\ state = "OPEN" /\ admitted = 0
  /\ stack = [c \in Callers |-> <<>>] /\ closing = {}

\* __init__: raises ConfigError, or the client is there.
Construct ==
  /\ config = None
  /\ config' = ResolveConfig(settings) /\ settings' = None
  /\ UNCHANGED <<kind, hooks, state, admitted, stack, closing>>

-----------------------------------------------------------------------------
(* Events                                                                   *)

Event(name, attempt, outcome) == [name |-> name, attempt |-> attempt, outcome |-> outcome]

If(condition, tell) == IF condition THEN <<tell>> ELSE <<>>

\* Whom an event goes to, in order: the span if there is one, then the sink.
Deliver(call, event) ==
  If(call.span, [to |-> "span", event |-> event])
    \o If("diagnostic" \in hooks, [to |-> "diagnostic", event |-> event])

\* The trace sink is asked for a span, and told of nothing else.
Start(call) ==
  LET event == Event("operation.start", 0, None)
  IN  If("trace" \in hooks /\ ~call.span, [to |-> "trace", event |-> event]) \o Deliver(call, event)

AttemptStart(call) == Deliver(call, Event("attempt.start", call.attempt, None))
RetryScheduled(call) == Deliver(call, Event("retry.scheduled", call.attempt + 1, None))

\* The span is ended after everyone has been told.
End(call) ==
  LET event == Event("operation.end", call.attempt, call.outcome.tag)
  IN  Deliver(call, event)
        \o If(call.span, [to |-> "span", event |-> [event EXCEPT !.name = "end"]])

-----------------------------------------------------------------------------
(* The top of a caller's stack                                              *)

Top(c) == stack[c][Len(stack[c])]
At(c, place) == stack[c] # <<>> /\ c \notin closing /\ Top(c).at = place
Ready(c, place) == At(c, place) /\ Top(c).tell = <<>>
Becomes(c, call) == stack' = [stack EXCEPT ![c][Len(stack[c])] = call]

NewCall(op) ==
  [at |-> "prepare", op |-> op, attempt |-> 0, tell |-> <<>>, span |-> FALSE, heard |-> <<>>,
   traced |-> <<>>, response |-> None, outcome |-> None]

\* _lease(), which raises when the client is not open, and the call behind it.
Lease(c, calls, op) ==
  /\ state = "OPEN" /\ admitted' = admitted + 1
  /\ stack' = [stack EXCEPT ![c] = Append(calls, NewCall(op))]

Usable == config # None /\ ~Failed(config)

Call(c) ==
  /\ Usable /\ stack[c] = <<>> /\ c \notin closing
  /\ \E op \in Uses[c] : Lease(c, <<>>, op)
  /\ UNCHANGED <<clientVars, state, closing>>

\* A request that is refused is refused before there is an observer.  What
\* security_dispatch_guard compares before each attempt, nothing changes.
Prepare(c) ==
  /\ Ready(c, "prepare")
  /\ \E args \in Arguments :
       IF Admissible(args)
         THEN Becomes(c, [Top(c) EXCEPT !.at = "attempt", !.tell = Start(Top(c))])
         ELSE Becomes(c, [Top(c) EXCEPT !.at = "leave", !.outcome = [tag |-> "refused"]])
  /\ UNCHANGED <<clientVars, state, admitted, closing>>

\* A caller whose sink is being told, and the call when it has been.
Telling(c) == stack[c] # <<>> /\ c \notin closing /\ Top(c).tell # <<>>

Told(call) ==
  LET told == Head(call.tell)
  IN  IF told.to = "span" THEN [call EXCEPT !.tell = Tail(@), !.traced = Append(@, told.event)]
      ELSE IF told.to = "diagnostic"
        THEN [call EXCEPT !.tell = Tail(@), !.heard = Append(@, told.event)]
        ELSE [call EXCEPT !.tell = Tail(@)]

\* Slip: a hook that raises ends the call it is told of.
CallHookUnisolated(c) ==
  /\ Telling(c)
  /\ \/ Becomes(c, Told(Top(c)))
     \/ Becomes(c, [Top(c) EXCEPT !.at = "leave", !.tell = <<>>, !.outcome = [tag |-> "error"]])
  /\ UNCHANGED <<clientVars, state, admitted, closing>>

\* The trace sink has returned a span, which is told of the start as well.
Traced(call) ==
  LET traced == [Told(call) EXCEPT !.span = TRUE] IN [traced EXCEPT !.tell = Start(traced)]

\* The call when a sink or the span returns, or raises, which is the same.
Hooked(call) ==
  {Told(call)} \cup (IF Head(call.tell).to = "trace" THEN {Traced(call)} ELSE {})

CallHook(c) ==
  /\ Telling(c)
  /\ \E next \in Hooked(Top(c)) : Becomes(c, next)
  /\ UNCHANGED <<clientVars, state, admitted, closing>>

\* A sink or the span calls the client, and is still to return.
HookCalls(c) ==
  /\ kind = "sync" /\ Telling(c) /\ Len(stack[c]) < MaxDepth
  /\ \E op \in Uses[c] : \E next \in Hooked(Top(c)) :
       Lease(c, [stack[c] EXCEPT ![Len(stack[c])] = next], op)
  /\ UNCHANGED <<clientVars, state, closing>>

\* Or it closes the client, whose close() waits for the lease of this very call.
HookCloses(c) ==
  /\ kind = "sync" /\ Telling(c)
  /\ \E next \in Hooked(Top(c)) : Becomes(c, next)
  /\ closing' = closing \cup {c} /\ state' = IF state = "OPEN" THEN "CLOSING" ELSE state
  /\ UNCHANGED <<clientVars, admitted>>

-----------------------------------------------------------------------------
(* Attempts                                                                 *)

Attempts(op) == IF op \in Reads THEN 3 ELSE 1

ErrorOutcome == [tag |-> "error"]
Ended(call, outcome) == [call EXCEPT !.at = "end", !.outcome = outcome]

\* The time may be over when it comes to another attempt.
StartAttempt(c) ==
  /\ Ready(c, "attempt")
  /\ LET call == Top(c)
         next == [call EXCEPT !.attempt = @ + 1]
     IN  \/ call.attempt > 0 /\ Becomes(c, Ended(call, ErrorOutcome))
         \/ Becomes(c, [next EXCEPT !.at = "dispatch", !.tell = AttemptStart(next)])
  /\ UNCHANGED <<clientVars, state, admitted, closing>>

\* What the answer is worth: disposition, then the decoder of the operation.
Decoded(call, response) ==
  LET answer == Disposition(response, Success[call.op])
  IN  IF answer.tag = "success" /\ answer.value \notin Decodable
        THEN ApiError(response.status, "malformed_response", None)
        ELSE answer

Respond(c) ==
  /\ Ready(c, "dispatch")
  /\ \E response \in Responses :
       Becomes(c, [Ended(Top(c), Decoded(Top(c), response)) EXCEPT !.response = response])
  /\ UNCHANGED <<clientVars, state, admitted, closing>>

\* No answer.  Before the response began a read may be tried again; when it had,
\* or the attempt is late, abandoned or without a worker, it is not.
Fail(c) ==
  /\ Ready(c, "dispatch")
  /\ LET call == Top(c)
     IN  \/ /\ call.attempt < Attempts(call.op)
            /\ Becomes(c, [call EXCEPT !.at = "attempt", !.tell = RetryScheduled(call)])
         \/ Becomes(c, Ended(call, ErrorOutcome))
  /\ UNCHANGED <<clientVars, state, admitted, closing>>

\* CancelledError, at the request or in the sleep before the next one.
Cancel(c) ==
  /\ kind = "async"
  /\ Ready(c, "dispatch") \/ (Ready(c, "attempt") /\ Top(c).attempt > 0)
  /\ Becomes(c, Ended(Top(c), [tag |-> "cancelled"]))
  /\ UNCHANGED <<clientVars, state, admitted, closing>>

EndOperation(c) ==
  /\ Ready(c, "end")
  /\ Becomes(c, [Top(c) EXCEPT !.at = "leave", !.tell = End(Top(c))])
  /\ UNCHANGED <<clientVars, state, admitted, closing>>

\* Slip: the lease is given back in no finally.
LeaveUnlessRaising(c) ==
  /\ Ready(c, "leave")
  /\ Becomes(c, [Top(c) EXCEPT !.at = "returned"])
  /\ admitted' = IF Top(c).outcome.tag = "success" THEN admitted - 1 ELSE admitted
  /\ UNCHANGED <<clientVars, state, closing>>

Leave(c) ==
  /\ Ready(c, "leave")
  /\ Becomes(c, [Top(c) EXCEPT !.at = "returned"])
  /\ admitted' = admitted - 1
  /\ UNCHANGED <<clientVars, state, closing>>

\* To the program, or to the sink, whose errors are dropped.
Return(c) ==
  /\ Ready(c, "returned")
  /\ stack' = [stack EXCEPT ![c] = Front(@)]
  /\ UNCHANGED <<clientVars, state, admitted, closing>>

-----------------------------------------------------------------------------
(* close()                                                                  *)

Close(c) ==
  /\ Usable /\ stack[c] = <<>> /\ c \notin closing
  /\ closing' = closing \cup {c} /\ state' = IF state = "OPEN" THEN "CLOSING" ELSE state
  /\ UNCHANGED <<clientVars, admitted, stack>>

\* Slip: a sink's close() does not wait for the call that it was told of.
ClosedWithinCall(c) ==
  /\ c \in closing /\ (state = "CLOSED" \/ admitted = 0 \/ stack[c] # <<>>)
  /\ state' = "CLOSED" /\ closing' = closing \ {c}
  /\ UNCHANGED <<clientVars, admitted, stack>>

Closed(c) ==
  /\ c \in closing /\ (state = "CLOSED" \/ admitted = 0)
  /\ state' = "CLOSED" /\ closing' = closing \ {c}
  /\ UNCHANGED <<clientVars, admitted, stack>>

-----------------------------------------------------------------------------

Step(c) ==
  \/ Prepare(c) \/ CallHook(c) \/ StartAttempt(c)
  \/ Respond(c) \/ Fail(c)
  \/ EndOperation(c) \/ Leave(c) \/ Return(c) \/ Closed(c)

Next ==
  \/ Construct
  \/ \E c \in Callers :
       Step(c) \/ Call(c) \/ HookCalls(c) \/ HookCloses(c) \/ Cancel(c) \/ Close(c)

Spec == Init /\ [][Next]_vars

\* Threads run, sinks return unless they close the client, attempts have deadlines.
FairSpec == Spec /\ \A c \in Callers : WF_vars(Step(c))

-----------------------------------------------------------------------------
(* Properties                                                               *)

\* Attempts counted from one, a retry announced between two of them, the start
\* first and once, the end with what became of the call.
ProperStory(events, call) ==
  \A i \in DOMAIN events :
    LET event == events[i]
        tries == Cardinality({j \in 1 .. i : events[j].name = "attempt.start"})
    IN  /\ event.name = "operation.start" <=> i = 1
        /\ event.name = "attempt.start" => event.attempt = tries
        /\ event.name = "retry.scheduled" =>
             event.attempt = tries + 1 /\ events[i - 1].name = "attempt.start"
        /\ event.name = "operation.end" => event.attempt = tries /\ event.outcome = call.outcome.tag

Names(events) == [i \in DOMAIN events |-> events[i].name]
EndsIn(events, names) ==
  /\ IsSuffix(names, Names(events))
  /\ \A i \in 1 .. Len(events) - Len(names) : events[i].name # "operation.end"

\* The stories of a call and what it gives its caller.
StoryAgrees(call) ==
  /\ ProperStory(call.heard, call) /\ ProperStory(call.traced, call)
  /\ call.at = "returned" =>
       /\ call.outcome.tag = "refused" => call.heard = <<>> /\ call.traced = <<>>
       /\ call.outcome.tag # "refused" =>
            /\ "diagnostic" \in hooks => EndsIn(call.heard, <<"operation.end">>)
            /\ call.span => EndsIn(call.traced, <<"operation.end", "end">>)
       /\ call.outcome.tag = "success" =>
            /\ call.response.status = Success[call.op] /\ call.response.body \in Decodable
            /\ call.response.bytes <= MaxResponseBytes
       /\ call.response # None /\ call.outcome.tag = "error" =>
            /\ call.outcome.status = call.response.status
            /\ call.outcome.problem # None => call.outcome.problem.status \in 400 .. 599
                                              /\ call.outcome.problem.status = call.response.status

\* What the service answered, what the caller is given and what the sinks and
\* the span are told agree, whatever sinks raise, call or close: one story
\* each, with one end; success only for a whole answer of the right status;
\* a problem only if it is the one of this response.
StoriesAgree == \A c \in Callers : \A k \in DOMAIN stack[c] : StoryAgrees(stack[c][k])

\* The calls that hold a lease, those that sinks made within others among them.
Slots == Callers \X (1 .. MaxDepth)
Holding(c, k) == k \in DOMAIN stack[c] /\ stack[c][k].at # "returned"
Holders == {slot \in Slots : Holding(slot[1], slot[2])}

\* With one step each for _lease() and close(), and calls within calls, the
\* client keeps the promise that AsyncClient and SyncClient keep.
Lifecycle ==
  INSTANCE ClientLifecycle
    WITH Callers <- Slots, phase <- state, inflight <- Holders, released <- (state = "CLOSED")
LifecycleSpec == Lifecycle!Spec

\* Source i has the field and no source before it does.
Decides(sources, i, field) ==
  field \in DOMAIN sources[i] /\ \A j \in 1 .. i - 1 : field \notin DOMAIN sources[j]

OfDecidingSources ==
  config = None /\ config' # None /\ ~Failed(config') =>
    LET sources == Sources(settings)
    IN  /\ \E i \in DOMAIN sources :
             Decides(sources, i, "api_key") /\ sources[i].api_key = config'.api_key
        /\ \E i \in DOMAIN sources :
             /\ Decides(sources, i, "base_url") /\ sources[i].base_url.host \in DOMAIN AllowedOrigins
             /\ AllowedOrigins[sources[i].base_url.host] = config'.base_url

\* A client that is made uses, for each field, the value of a source that no
\* source with that field stands before: an invalid value is never passed over.
NeverFallsBack == [][OfDecidingSources]_vars

\* A sink of this caller waits, in close(), for the call it was told of.
ClosesItself(c) == c \in closing /\ stack[c] # <<>>

\* Every call and every close() returns, unless some sink closes the client
\* that it is told of.
OnlySelfCloseSticks ==
  \A c \in Callers :
    stack[c] # <<>> \/ c \in closing ~>
      \/ stack[c] = <<>> /\ c \notin closing
      \/ \E d \in Callers : ClosesItself(d)
=============================================================================
