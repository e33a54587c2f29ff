------------------------------ MODULE StoryProofs ------------------------------
(***************************************************************************)
(* What the sinks and the span of a call are told agrees with what became  *)
(* of the call, whatever sinks raise, call or close, for any number of     *)
(* callers, operations and calls within calls.                             *)
(***************************************************************************)
EXTENDS Invocation, FiniteSetTheorems, SequenceTheorems, TLAPS

-----------------------------------------------------------------------------
(* Stories: the inductive invariant                                         *)

Tags == {"refused", "success", "error", "cancelled"}
EventNames == {"operation.start", "attempt.start", "retry.scheduled", "operation.end", "end"}
EventSet ==
  [name : EventNames, attempt : Nat, outcome : Tags \cup {None}]
TellSet == [to : {"trace", "span", "diagnostic"}, event : EventSet]
Refused == [tag |-> "refused"]
Cancelled == [tag |-> "cancelled"]
OutcomeSet ==
  {None, Refused, ErrorOutcome, Cancelled}
    \cup {Decoded([op |-> op], response) : op \in Operations, response \in Responses}
CallSet ==
  [at : {"prepare", "attempt", "dispatch", "end", "leave", "returned"}, op : Operations,
   attempt : Nat, tell : Seq(TellSet), span : BOOLEAN, heard : Seq(EventSet),
   traced : Seq(EventSet), response : Responses \cup {None}, outcome : OutcomeSet]

\* The attempts that a story tells of up to its i-th event.
Tries(events, i) == Cardinality({j \in 1 .. i : events[j].name = "attempt.start"})

\* A story that has begun, has not ended, and has come to its n-th attempt.
Underway(events, n) ==
  /\ events # <<>>
  /\ Tries(events, Len(events)) = n
  /\ \A i \in DOMAIN events :
       LET event == events[i]
       IN  /\ event.name = "operation.start" <=> i = 1
           /\ event.name = "attempt.start" => event.attempt = Tries(events, i)
           /\ event.name = "retry.scheduled" =>
                event.attempt = Tries(events, i) + 1 /\ events[i - 1].name = "attempt.start"
           /\ event.name \notin {"operation.end", "end"}

\* One whose last event is the start of the n-th attempt.
Trying(events, n) == Underway(events, n) /\ events[Len(events)].name = "attempt.start"

\* One that has been told its end, with an outcome, after n attempts.
Over(events, n, tag) ==
  \E told \in Seq(EventSet), event \in EventSet :
    /\ Underway(told, n) /\ events = Append(told, event)
    /\ event.name = "operation.end" /\ event.attempt = n /\ event.outcome = tag

\* One whose span has been ended too.
Sealed(events, n, tag) ==
  \E told \in Seq(EventSet), event \in EventSet :
    Over(told, n, tag) /\ events = Append(told, event) /\ event.name = "end"

\* A call that was refused, of which nobody is told.
TurnedAway(call) == call.at \in {"leave", "returned"} /\ call.outcome = Refused

\* The event that a call is telling.
Current(call) ==
  IF call.at = "attempt"
    THEN IF call.attempt = 0 THEN Event("operation.start", 0, None)
         ELSE Event("retry.scheduled", call.attempt + 1, None)
    ELSE IF call.at = "dispatch" THEN Event("attempt.start", call.attempt, None)
    ELSE Event("operation.end", call.attempt, call.outcome.tag)

To(listener, event) == [to |-> listener, event |-> event]

\* What may be left to deliver: the rest of a list that Deliver, Start or End makes.
Rests(call) ==
  LET event == Current(call)
      end == To("span", [event EXCEPT !.name = "end"])
      diagnostic == "diagnostic" \in hooks
  IN  IF call.at \in {"prepare", "end", "returned"} \/ TurnedAway(call) THEN {<<>>}
      ELSE IF call.at = "leave" /\ call.span
        THEN IF diagnostic
               THEN {<<To("span", event), To("diagnostic", event), end>>,
                     <<To("diagnostic", event), end>>, <<end>>, <<>>}
               ELSE {<<To("span", event), end>>, <<end>>, <<>>}
      ELSE {<<>>}
             \cup (IF diagnostic THEN {<<To("diagnostic", event)>>} ELSE {})
             \cup (IF call.span /\ diagnostic
                     THEN {<<To("span", event), To("diagnostic", event)>>} ELSE {})
             \cup (IF call.span /\ ~diagnostic THEN {<<To("span", event)>>} ELSE {})
             \cup (IF ~call.span /\ call.at = "attempt" /\ call.attempt = 0
                     THEN IF diagnostic THEN {<<To("trace", event), To("diagnostic", event)>>}
                          ELSE {<<To("trace", event)>>}
                     ELSE {})

Hears(call, listener) ==
  IF listener = "diagnostic" THEN "diagnostic" \in hooks ELSE call.span

\* A list has the present event for a listener, and the end of the span.
Tells(list, listener) ==
  \E i \in DOMAIN list : list[i].to = listener /\ list[i].event.name # "end"
EndsSpan(list) == \E i \in DOMAIN list : list[i].event.name = "end"

Owed(call, listener) == Tells(call.tell, listener)

\* How far the story of a listener has come.
StoryOK(call, listener, events) ==
  IF ~Hears(call, listener) \/ call.at = "prepare" \/ TurnedAway(call) THEN events = <<>>
  ELSE IF call.at = "attempt" /\ call.attempt = 0
    THEN IF Owed(call, listener) THEN events = <<>> ELSE Underway(events, 0)
  ELSE IF call.at = "attempt"
    THEN IF Owed(call, listener) THEN Trying(events, call.attempt)
         ELSE Underway(events, call.attempt)
  ELSE IF call.at = "dispatch"
    THEN IF Owed(call, listener) THEN Underway(events, call.attempt - 1)
         ELSE Trying(events, call.attempt)
  ELSE IF call.at = "end" \/ Owed(call, listener) THEN Underway(events, call.attempt)
  ELSE IF listener = "diagnostic" \/ EndsSpan(call.tell)
    THEN Over(events, call.attempt, call.outcome.tag)
  ELSE Sealed(events, call.attempt, call.outcome.tag)

\* A call that has ended otherwise than by a refusal has an answer or none.
Got(call) ==
  \/ call.outcome \in {ErrorOutcome, Cancelled} /\ call.response = None
  \/ call.response \in Responses /\ call.outcome = Decoded(call, call.response)

ResultOK(call) ==
  /\ call.at \in {"prepare", "attempt", "dispatch"} => call.outcome = None /\ call.response = None
  /\ call.at = "prepare" => call.attempt = 0
  /\ call.at = "dispatch" => call.attempt > 0
  /\ call.at = "end" => Got(call)
  /\ call.at \in {"leave", "returned"} =>
       Got(call) \/ (call.outcome = Refused /\ call.response = None)

CallOK(call) ==
  /\ call \in CallSet
  /\ call.tell \in Rests(call)
  /\ StoryOK(call, "diagnostic", call.heard) /\ StoryOK(call, "span", call.traced)
  /\ ResultOK(call)

StacksOK ==
  /\ stack \in [Callers -> Seq(CallSet)]
  /\ \A c \in Callers : \A k \in DOMAIN stack[c] : CallOK(stack[c][k])

-----------------------------------------------------------------------------
(* Stories                                                                  *)

\* One event more is one attempt more if it is the start of one.
LEMMA TriesAppend ==
  ASSUME NEW events \in Seq(EventSet), NEW event \in EventSet
  PROVE  LET more == Append(events, event)
         IN  /\ Tries(events, Len(events)) \in Nat
             /\ \A i \in 0 .. Len(events) : Tries(more, i) = Tries(events, i)
             /\ Tries(more, Len(more)) =
                  Tries(events, Len(events)) + (IF event.name = "attempt.start" THEN 1 ELSE 0)
<1> DEFINE more == Append(events, event)
           n == Len(events)
           before == {j \in 1 .. n : events[j].name = "attempt.start"}
           after == {j \in 1 .. Len(more) : more[j].name = "attempt.start"}
<1>1. /\ n \in Nat /\ Len(more) = n + 1 /\ more[n + 1] = event
      /\ \A j \in 1 .. n : more[j] = events[j]
  BY AppendProperties, LenProperties
<1>2. \A i \in 0 .. n : Tries(more, i) = Tries(events, i)
  <2> SUFFICES ASSUME NEW i \in 0 .. n
               PROVE  Tries(more, i) = Tries(events, i)
    OBVIOUS
  <2>1. {j \in 1 .. i : more[j].name = "attempt.start"}
          = {j \in 1 .. i : events[j].name = "attempt.start"}
    BY <1>1
  <2> QED
    BY <2>1 DEF Tries
<1>3. IsFiniteSet(before) /\ Cardinality(before) \in Nat
  <2>1. IsFiniteSet(1 .. n)
    BY <1>1, FS_Interval
  <2> QED
    BY <2>1, FS_Subset, FS_CardinalityType
<1>6. Tries(events, n) = Cardinality(before) /\ Tries(more, Len(more)) = Cardinality(after)
  BY DEF Tries
<1> HIDE DEF more, n, before, after
<1>4. CASE event.name = "attempt.start"
  <2>1. after = before \cup {n + 1} /\ n + 1 \notin before
    BY <1>1, <1>4 DEF before, after
  <2>2. Cardinality(after) = Cardinality(before) + 1
    BY <1>3, <2>1, FS_AddElement
  <2> QED
    BY <1>2, <1>3, <1>4, <1>6, <2>2 DEF more, n
<1>5. CASE event.name # "attempt.start"
  <2>1. after = before
    BY <1>1, <1>5 DEF before, after
  <2> QED
    BY <1>2, <1>3, <1>5, <1>6, <2>1 DEF more, n
<1> QED
  BY <1>4, <1>5

\* An event that is not the first and no end keeps a story going, if it counts
\* the attempts right and a retry follows the start of one.
LEMMA GoesOn ==
  ASSUME NEW events \in Seq(EventSet), NEW n \in Nat, Underway(events, n),
         NEW event \in EventSet,
         event.name \notin {"operation.start", "operation.end", "end"},
         event.name = "attempt.start" => event.attempt = n + 1,
         event.name = "retry.scheduled" =>
           event.attempt = n + 1 /\ events[Len(events)].name = "attempt.start"
  PROVE  /\ Underway(Append(events, event), IF event.name = "attempt.start" THEN n + 1 ELSE n)
         /\ Append(events, event)[Len(Append(events, event))] = event
<1> DEFINE more == Append(events, event)
           k == Len(events)
<1>1. /\ k \in Nat /\ Len(more) = k + 1 /\ more[k + 1] = event /\ more # <<>>
      /\ \A j \in 1 .. k : more[j] = events[j]
      /\ DOMAIN more = 1 .. k + 1 /\ DOMAIN events = 1 .. k
      /\ more \in Seq(EventSet)
  BY AppendProperties, LenProperties
<1>2. k > 0
  BY <1>1, EmptySeq DEF Underway
<1>3. Tries(events, k) = n
  BY DEF Underway
<1>4. /\ \A i \in 0 .. k : Tries(more, i) = Tries(events, i)
      /\ Tries(more, k + 1) = IF event.name = "attempt.start" THEN n + 1 ELSE n
  BY <1>1, <1>3, TriesAppend
<1>8. Underway(events, n) /\ Append(events, event) = more
  OBVIOUS
<1> HIDE DEF more, k
<1>5. ASSUME NEW i \in 1 .. k
      PROVE  /\ more[i].name = "operation.start" <=> i = 1
             /\ more[i].name = "attempt.start" => more[i].attempt = Tries(more, i)
             /\ more[i].name = "retry.scheduled" =>
                  more[i].attempt = Tries(more, i) + 1 /\ more[i - 1].name = "attempt.start"
             /\ more[i].name \notin {"operation.end", "end"}
  <2>1. more[i] = events[i] /\ Tries(more, i) = Tries(events, i)
    BY <1>1, <1>4
  <2>2. CASE i = 1
    BY <1>1, <2>1, <2>2 DEF Underway
  <2>3. CASE i # 1
    <3>1. more[i - 1] = events[i - 1]
      BY <1>1, <2>3
    <3> QED
      BY <1>1, <2>1, <3>1 DEF Underway
  <2> QED
    BY <2>2, <2>3
<1>6. /\ more[k + 1].name = "operation.start" <=> k + 1 = 1
      /\ more[k + 1].name = "attempt.start" => more[k + 1].attempt = Tries(more, k + 1)
      /\ more[k + 1].name = "retry.scheduled" =>
           more[k + 1].attempt = Tries(more, k + 1) + 1 /\ more[(k + 1) - 1].name = "attempt.start"
      /\ more[k + 1].name \notin {"operation.end", "end"}
  <2>1. (k + 1) - 1 = k /\ k \in 1 .. k
    BY <1>1, <1>2
  <2>2. more[k] = events[k]
    BY <1>1, <2>1
  <2>3. event.name = "retry.scheduled" => events[k].name = "attempt.start"
    BY DEF k
  <2> QED
    BY <1>1, <1>2, <1>4, <2>1, <2>2, <2>3
<1>7. \A i \in 1 .. k + 1 : i \in 1 .. k \/ i = k + 1
  BY <1>1
<1> QED
  <2>1. Underway(more, Tries(more, k + 1))
    BY <1>1, <1>5, <1>6, <1>7 DEF Underway
  <2> QED
    BY <1>1, <1>4, <2>1 DEF more

\* A story begins with the start of the operation.
LEMMA Begins ==
  ASSUME NEW event \in EventSet, event.name = "operation.start"
  PROVE  Underway(Append(<<>>, event), 0)
<1> DEFINE more == Append(<<>>, event)
<1>1. <<>> \in Seq(EventSet) /\ Len(<<>>) = 0
  BY EmptySeq
<1>2. /\ Len(more) = 1 /\ more[1] = event /\ more # <<>> /\ DOMAIN more = 1 .. 1
  BY <1>1, AppendProperties, LenProperties
<1>3. Tries(<<>>, 0) = 0
  <2>1. {j \in 1 .. 0 : <<>>[j].name = "attempt.start"} = {}
    OBVIOUS
  <2> QED
    BY <2>1, FS_EmptySet DEF Tries
<1>4. Tries(more, Len(more)) = 0
  <2>1. Tries(more, Len(more)) = Tries(<<>>, 0) + 0
    BY <1>1, TriesAppend
  <2> QED
    BY <1>3, <2>1
<1> QED
  BY <1>2, <1>4 DEF Underway

\* An attempt of a story that is under way, a retry of one that tries, and the end.
LEMMA StorySteps ==
  ASSUME NEW events \in Seq(EventSet), NEW n \in Nat, Underway(events, n)
  PROVE  /\ Trying(Append(events, Event("attempt.start", n + 1, None)), n + 1)
         /\ Trying(events, n) =>
              Underway(Append(events, Event("retry.scheduled", n + 1, None)), n)
         /\ \A tag \in Tags : Over(Append(events, Event("operation.end", n, tag)), n, tag)
<1>1. /\ Event("attempt.start", n + 1, None) \in EventSet
      /\ Event("retry.scheduled", n + 1, None) \in EventSet
      /\ \A tag \in Tags : Event("operation.end", n, tag) \in EventSet
  BY DEF Event, EventSet, EventNames
<1>2. Trying(Append(events, Event("attempt.start", n + 1, None)), n + 1)
  BY <1>1, GoesOn DEF Trying, Event
<1>3. ASSUME Trying(events, n)
      PROVE  Underway(Append(events, Event("retry.scheduled", n + 1, None)), n)
  BY <1>1, <1>3, GoesOn DEF Trying, Event
<1>4. ASSUME NEW tag \in Tags
      PROVE  Over(Append(events, Event("operation.end", n, tag)), n, tag)
  BY <1>1, <1>4 DEF Over, Event
<1> QED
  BY <1>2, <1>3, <1>4

-----------------------------------------------------------------------------
(* What is delivered                                                        *)

LEMMA TupleConcat ==
  ASSUME NEW a, NEW b, NEW c
  PROVE  /\ <<a>> \o <<b>> = <<a, b>> /\ <<a, b>> \o <<c>> = <<a, b, c>>
         /\ <<a>> \o <<>> = <<a>> /\ <<>> \o <<a>> = <<a>> /\ <<>> \o <<>> = <<>>
         /\ <<a, b>> \o <<>> = <<a, b>> /\ <<>> \o <<a, b>> = <<a, b>>
<1> DEFINE S == {a, b, c}
<1>1. /\ <<>> \in Seq(S) /\ <<a>> \in Seq(S) /\ <<b>> \in Seq(S) /\ <<c>> \in Seq(S)
      /\ <<a, b>> \in Seq(S) /\ a \in S /\ b \in S /\ c \in S
  OBVIOUS
<1> HIDE DEF S
<1>2. <<a, b>> = Append(<<a>>, b) /\ <<a, b, c>> = Append(<<a, b>>, c)
  OBVIOUS
<1>3. <<a>> \o <<b>> = <<a, b>> /\ <<a, b>> \o <<c>> = <<a, b, c>>
  BY <1>1, <1>2, AppendIsConcat
<1> QED
  BY <1>1, <1>3, ConcatEmptySeq

\* The lists that are made, with each of their elements named.
LEMMA DeliverIs ==
  ASSUME NEW call, NEW event, call.span \in BOOLEAN
  PROVE  Deliver(call, event) =
           IF call.span /\ "diagnostic" \in hooks
             THEN <<To("span", event), To("diagnostic", event)>>
           ELSE IF call.span THEN <<To("span", event)>>
           ELSE IF "diagnostic" \in hooks THEN <<To("diagnostic", event)>>
           ELSE <<>>
<1> DEFINE x == To("span", event)
           y == To("diagnostic", event)
<1>1. Deliver(call, event) = If(call.span, x) \o If("diagnostic" \in hooks, y)
  BY DEF Deliver, To
<1> HIDE DEF x, y
<1>2. /\ If(call.span, x) = IF call.span THEN <<x>> ELSE <<>>
      /\ If("diagnostic" \in hooks, y) = IF "diagnostic" \in hooks THEN <<y>> ELSE <<>>
  BY DEF If
<1>3. <<x>> \o <<y>> = <<x, y>> /\ <<x>> \o <<>> = <<x>> /\ <<>> \o <<y>> = <<y>> /\ <<>> \o <<>> = <<>>
  BY TupleConcat
<1> QED
  BY <1>1, <1>2, <1>3 DEF x, y

LEMMA StartIs ==
  ASSUME NEW call, call.span \in BOOLEAN
  PROVE  LET event == Event("operation.start", 0, None)
         IN  Start(call) =
               IF "trace" \in hooks /\ ~call.span
                 THEN IF "diagnostic" \in hooks
                        THEN <<To("trace", event), To("diagnostic", event)>>
                      ELSE <<To("trace", event)>>
                 ELSE Deliver(call, event)
<1> DEFINE event == Event("operation.start", 0, None)
           x == To("span", event)
           y == To("diagnostic", event)
           z == To("trace", event)
<1>1. Start(call) = If("trace" \in hooks /\ ~call.span, z) \o Deliver(call, event)
  BY DEF Start, To
<1>2. Deliver(call, event) =
        IF call.span /\ "diagnostic" \in hooks THEN <<x, y>>
        ELSE IF call.span THEN <<x>> ELSE IF "diagnostic" \in hooks THEN <<y>> ELSE <<>>
  BY DeliverIs
<1> SUFFICES Start(call) = IF "trace" \in hooks /\ ~call.span
                             THEN IF "diagnostic" \in hooks THEN <<z, y>> ELSE <<z>>
                             ELSE Deliver(call, event)
  OBVIOUS
<1> HIDE DEF event, x, y, z
<1>3. If("trace" \in hooks /\ ~call.span, z) = IF "trace" \in hooks /\ ~call.span THEN <<z>> ELSE <<>>
  BY DEF If
<1>4. /\ <<z>> \o <<y>> = <<z, y>> /\ <<z>> \o <<>> = <<z>> /\ <<>> \o <<>> = <<>>
      /\ <<>> \o <<x>> = <<x>> /\ <<>> \o <<y>> = <<y>> /\ <<>> \o <<x, y>> = <<x, y>>
  BY TupleConcat
<1> QED
  BY <1>1, <1>2, <1>3, <1>4

LEMMA EndIs ==
  ASSUME NEW call, call.span \in BOOLEAN
  PROVE  LET event == Event("operation.end", call.attempt, call.outcome.tag)
             end == To("span", [event EXCEPT !.name = "end"])
         IN  End(call) =
               IF call.span
                 THEN IF "diagnostic" \in hooks
                        THEN <<To("span", event), To("diagnostic", event), end>>
                      ELSE <<To("span", event), end>>
                 ELSE Deliver(call, event)
<1> DEFINE event == Event("operation.end", call.attempt, call.outcome.tag)
           end == To("span", [event EXCEPT !.name = "end"])
           x == To("span", event)
           y == To("diagnostic", event)
<1>1. End(call) = Deliver(call, event) \o If(call.span, end)
  BY DEF End, To
<1>2. Deliver(call, event) =
        IF call.span /\ "diagnostic" \in hooks THEN <<x, y>>
        ELSE IF call.span THEN <<x>> ELSE IF "diagnostic" \in hooks THEN <<y>> ELSE <<>>
  BY DeliverIs
<1> SUFFICES End(call) = IF call.span
                           THEN IF "diagnostic" \in hooks THEN <<x, y, end>> ELSE <<x, end>>
                           ELSE Deliver(call, event)
  OBVIOUS
<1> HIDE DEF event, end, x, y
<1>3. If(call.span, end) = IF call.span THEN <<end>> ELSE <<>>
  BY DEF If
<1>4. /\ <<x, y>> \o <<end>> = <<x, y, end>> /\ <<x>> \o <<end>> = <<x, end>>
      /\ <<y>> \o <<>> = <<y>> /\ <<>> \o <<>> = <<>>
  BY TupleConcat
<1> QED
  BY <1>1, <1>2, <1>3, <1>4

\* What a call that has told the first of its list is left with.  Everyone is
\* told of the present event once, and the end of the span comes last.
RestIs(call, told, rest) ==
  /\ call.at \in {"attempt", "dispatch", "leave"} /\ ~TurnedAway(call)
  /\ rest \in Rests(call) /\ told.to \in {"trace", "span", "diagnostic"}
  /\ told.to = "trace" =>
       /\ call.at = "attempt" /\ call.attempt = 0 /\ ~call.span
       /\ ~Tells(call.tell, "span") /\ ~Tells(rest, "span")
       /\ "diagnostic" \in hooks => Tells(call.tell, "diagnostic")
       /\ Tells(rest, "diagnostic") <=> Tells(call.tell, "diagnostic")
  /\ told.to = "diagnostic" =>
       /\ "diagnostic" \in hooks /\ told.event = Current(call)
       /\ Tells(call.tell, "diagnostic") /\ ~Tells(rest, "diagnostic")
       /\ Tells(rest, "span") <=> Tells(call.tell, "span")
       /\ EndsSpan(rest) <=> EndsSpan(call.tell)
  /\ told.to = "span" =>
       /\ call.span
       /\ Tells(rest, "diagnostic") <=> Tells(call.tell, "diagnostic")
       /\ \/ /\ told.event = Current(call)
             /\ Tells(call.tell, "span") /\ ~Tells(rest, "span")
             /\ call.at = "leave" => EndsSpan(rest)
          \/ /\ call.at = "leave" /\ told.event = [Current(call) EXCEPT !.name = "end"]
             /\ ~Tells(call.tell, "span") /\ EndsSpan(call.tell)
             /\ ~Tells(rest, "span") /\ ~EndsSpan(rest)

LEMMA RestFacts ==
  ASSUME NEW call, call.span \in BOOLEAN, call.tell \in Rests(call), call.tell # <<>>,
         call.at \in {"prepare", "attempt", "dispatch", "end", "leave", "returned"}
  PROVE  RestIs(call, Head(call.tell), Tail(call.tell))
<1> DEFINE event == Current(call)
           x == To("span", event)
           y == To("diagnostic", event)
           z == To("trace", event)
           w == To("span", [event EXCEPT !.name = "end"])
<1>1. /\ x.to = "span" /\ y.to = "diagnostic" /\ z.to = "trace" /\ w.to = "span"
      /\ x.event = event /\ y.event = event /\ z.event = event
      /\ w.event = [event EXCEPT !.name = "end"]
  BY DEF To
<1>2. w.event.name = "end" /\ event.name # "end"
  BY <1>1 DEF Current, Event
<1>3. call.at \in {"attempt", "dispatch", "leave"} /\ ~TurnedAway(call)
  BY DEF Rests
<1> DEFINE diagnostic == "diagnostic" \in hooks
<1>4. \/ call.at = "leave" /\ call.span /\ diagnostic /\ call.tell = <<x, y, w>>
      \/ call.at = "leave" /\ call.span /\ diagnostic /\ call.tell = <<y, w>>
      \/ call.at = "leave" /\ call.span /\ call.tell = <<w>>
      \/ call.at = "leave" /\ call.span /\ ~diagnostic /\ call.tell = <<x, w>>
      \/ ~(call.at = "leave" /\ call.span) /\ diagnostic /\ call.tell = <<y>>
      \/ call.at # "leave" /\ call.span /\ diagnostic /\ call.tell = <<x, y>>
      \/ call.at # "leave" /\ call.span /\ ~diagnostic /\ call.tell = <<x>>
      \/ /\ call.at = "attempt" /\ call.attempt = 0 /\ ~call.span /\ diagnostic
         /\ call.tell = <<z, y>>
      \/ /\ call.at = "attempt" /\ call.attempt = 0 /\ ~call.span /\ ~diagnostic
         /\ call.tell = <<z>>
  BY <1>3 DEF Rests
<1>5. Rests(call) =
        IF call.at = "leave" /\ call.span
          THEN IF diagnostic THEN {<<x, y, w>>, <<y, w>>, <<w>>, <<>>}
               ELSE {<<x, w>>, <<w>>, <<>>}
          ELSE {<<>>} \cup (IF diagnostic THEN {<<y>>} ELSE {})
                 \cup (IF call.span /\ diagnostic THEN {<<x, y>>} ELSE {})
                 \cup (IF call.span /\ ~diagnostic THEN {<<x>>} ELSE {})
                 \cup (IF ~call.span /\ call.at = "attempt" /\ call.attempt = 0
                         THEN IF diagnostic THEN {<<z, y>>} ELSE {<<z>>} ELSE {})
  BY <1>3 DEF Rests
<1>7. /\ x.to = "span" /\ y.to = "diagnostic" /\ z.to = "trace" /\ w.to = "span"
      /\ x.event.name # "end" /\ y.event.name # "end" /\ z.event.name # "end"
      /\ w.event.name = "end"
  BY <1>1, <1>2
<1> HIDE DEF event, x, y, z, w, diagnostic
<1>6. RestIs(call, Head(call.tell), Tail(call.tell))
  <2>1. CASE call.at = "leave" /\ call.span /\ diagnostic /\ call.tell = <<x, y, w>>
    <3>1. Head(call.tell) = x /\ Tail(call.tell) = <<y, w>>
      BY <2>1
    <3>2. Tells(call.tell, "span") /\ Tells(call.tell, "diagnostic") /\ EndsSpan(call.tell)
      BY <1>7, <2>1 DEF Tells, EndsSpan
    <3>3. ~Tells(<<y, w>>, "span") /\ Tells(<<y, w>>, "diagnostic") /\ EndsSpan(<<y, w>>)
      BY <1>7 DEF Tells, EndsSpan
    <3>4. Tail(call.tell) \in Rests(call)
      BY <1>5, <2>1, <3>1
    <3> QED
      BY <1>3, <1>1, <2>1, <3>1, <3>2, <3>3, <3>4 DEF RestIs, event, diagnostic
  <2>2. CASE call.at = "leave" /\ call.span /\ diagnostic /\ call.tell = <<y, w>>
    <3>1. Head(call.tell) = y /\ Tail(call.tell) = <<w>>
      BY <2>2
    <3> QED
      BY <1>3, <1>1, <1>2, <1>5, <2>2, <3>1 DEF RestIs, Tells, EndsSpan, event, diagnostic
  <2>3. CASE call.at = "leave" /\ call.span /\ call.tell = <<w>>
    <3>1. Head(call.tell) = w /\ Tail(call.tell) = <<>>
      BY <2>3
    <3>2. ~Tells(call.tell, "span") /\ ~Tells(call.tell, "diagnostic") /\ EndsSpan(call.tell)
      BY <1>7, <2>3 DEF Tells, EndsSpan
    <3>3. ~Tells(Tail(call.tell), "span") /\ ~Tells(Tail(call.tell), "diagnostic") /\ ~EndsSpan(Tail(call.tell))
      BY <1>7, <3>1 DEF Tells, EndsSpan
    <3>4. Tail(call.tell) \in Rests(call)
      BY <1>5, <2>3, <3>1
    <3> QED
      BY <1>3, <1>1, <2>3, <3>1, <3>2, <3>3, <3>4 DEF RestIs, event, diagnostic
  <2>4. CASE call.at = "leave" /\ call.span /\ ~diagnostic /\ call.tell = <<x, w>>
    <3>1. Head(call.tell) = x /\ Tail(call.tell) = <<w>>
      BY <2>4
    <3>2. Tells(call.tell, "span") /\ ~Tells(call.tell, "diagnostic") /\ EndsSpan(call.tell)
      BY <1>7, <2>4 DEF Tells, EndsSpan
    <3>3. ~Tells(<<w>>, "span") /\ ~Tells(<<w>>, "diagnostic") /\ EndsSpan(<<w>>)
      BY <1>7 DEF Tells, EndsSpan
    <3>4. Tail(call.tell) \in Rests(call)
      BY <1>5, <2>4, <3>1
    <3> QED
      BY <1>3, <1>1, <2>4, <3>1, <3>2, <3>3, <3>4 DEF RestIs, event, diagnostic
  <2>5. CASE ~(call.at = "leave" /\ call.span) /\ diagnostic /\ call.tell = <<y>>
    <3>1. Head(call.tell) = y /\ Tail(call.tell) = <<>>
      BY <2>5
    <3> QED
      BY <1>3, <1>1, <1>2, <1>5, <2>5, <3>1 DEF RestIs, Tells, EndsSpan, event, diagnostic
  <2>6. CASE call.at # "leave" /\ call.span /\ diagnostic /\ call.tell = <<x, y>>
    <3>1. Head(call.tell) = x /\ Tail(call.tell) = <<y>>
      BY <2>6
    <3> QED
      BY <1>3, <1>1, <1>2, <1>5, <2>6, <3>1 DEF RestIs, Tells, EndsSpan, event, diagnostic
  <2>7. CASE call.at # "leave" /\ call.span /\ ~diagnostic /\ call.tell = <<x>>
    <3>1. Head(call.tell) = x /\ Tail(call.tell) = <<>>
      BY <2>7
    <3> QED
      BY <1>3, <1>1, <1>2, <1>5, <2>7, <3>1 DEF RestIs, Tells, EndsSpan, event, diagnostic
  <2>8. CASE /\ call.at = "attempt" /\ call.attempt = 0 /\ ~call.span /\ diagnostic
             /\ call.tell = <<z, y>>
    <3>1. Head(call.tell) = z /\ Tail(call.tell) = <<y>>
      BY <2>8
    <3> QED
      BY <1>3, <1>1, <1>2, <1>5, <2>8, <3>1 DEF RestIs, Tells, EndsSpan, event, diagnostic
  <2>9. CASE /\ call.at = "attempt" /\ call.attempt = 0 /\ ~call.span /\ ~diagnostic
             /\ call.tell = <<z>>
    <3>1. Head(call.tell) = z /\ Tail(call.tell) = <<>>
      BY <2>9
    <3> QED
      BY <1>3, <1>1, <1>2, <1>5, <2>9, <3>1 DEF RestIs, Tells, EndsSpan, event, diagnostic
  <2> QED
    BY <1>4, <2>1, <2>2, <2>3, <2>4, <2>5, <2>6, <2>7, <2>8, <2>9
<1> QED
  BY <1>6

-----------------------------------------------------------------------------
(* Calls                                                                    *)

\* What a call may make of a response: a success or an error, which are its own.
Honest(call, response, outcome) ==
  /\ outcome.tag \in {"success", "error"}
  /\ outcome = Decoded([op |-> call.op], response)
  /\ outcome.tag = "success" =>
       /\ response.status = Success[call.op] /\ response.body \in Decodable
       /\ ~(response.bytes > MaxResponseBytes)
  /\ outcome.tag = "error" =>
       /\ outcome.status = response.status
       /\ outcome.problem # None =>
            /\ outcome.problem.status \in 400 .. 599
            /\ outcome.problem.status = response.status

LEMMA DecodedFacts ==
  ASSUME NEW call, NEW response
  PROVE  Honest(call, response, Decoded(call, response))
<1> DEFINE answer == Disposition(response, Success[call.op])
           problem == IF IsProblem(response) THEN response.body ELSE None
<1>1. \/ /\ answer = Answer(response.body)
         /\ response.status = Success[call.op] /\ ~(response.bytes > MaxResponseBytes)
      \/ answer = ApiError(response.status, "malformed_response", None)
      \/ answer = ApiError(response.status, "api_error", problem)
  BY DEF Disposition
<1>2. problem # None =>
        problem.status \in 400 .. 599 /\ problem.status = response.status
  BY DEF IsProblem
<1> HIDE DEF answer, problem
<1>3. Decoded(call, response) =
        IF answer.tag = "success" /\ answer.value \notin Decodable
          THEN ApiError(response.status, "malformed_response", None) ELSE answer
  BY DEF Decoded, answer
<1>4. Decoded([op |-> call.op], response) = Decoded(call, response)
  BY <1>3 DEF Decoded, answer
<1>5. /\ Answer(response.body).tag = "success" /\ Answer(response.body).value = response.body
      /\ \A code, p : LET outcome == ApiError(response.status, code, p)
                     IN  /\ outcome.tag = "error" /\ outcome.status = response.status
                         /\ outcome.problem = p
  BY DEF Answer, ApiError
<1>6. CASE answer = Answer(response.body)
  BY <1>1, <1>3, <1>4, <1>5, <1>6 DEF Honest
<1>7. CASE answer = ApiError(response.status, "malformed_response", None)
  BY <1>3, <1>4, <1>5, <1>7 DEF Honest
<1>8. CASE answer = ApiError(response.status, "api_error", problem)
  BY <1>2, <1>3, <1>4, <1>5, <1>8 DEF Honest
<1> QED
  BY <1>1, <1>6, <1>7, <1>8

LEMMA OutcomeTag ==
  ASSUME NEW call, call.at \in {"end", "leave"}, ResultOK(call), ~TurnedAway(call)
  PROVE  call.outcome.tag \in Tags
<1>1. Got(call)
  BY DEF ResultOK, TurnedAway
<1>2. CASE call.outcome \in {ErrorOutcome, Cancelled}
  BY <1>2 DEF Tags, ErrorOutcome, Cancelled
<1>3. CASE call.outcome = Decoded(call, call.response)
  <2>1. Decoded(call, call.response).tag \in {"success", "error"}
    BY DecodedFacts DEF Honest
  <2> QED
    BY <1>3, <2>1 DEF Tags
<1> QED
  BY <1>1, <1>2, <1>3 DEF Got

\* What is told when it is owed takes the story one event further.
LEMMA StoryTold ==
  ASSUME NEW call \in CallSet, ResultOK(call), NEW listener, NEW events \in Seq(EventSet),
         call.at \in {"attempt", "dispatch", "leave"}, ~TurnedAway(call),
         Hears(call, listener), Owed(call, listener), StoryOK(call, listener, events)
  PROVE  LET more == Append(events, Current(call))
         IN  /\ Current(call) \in EventSet
             /\ call.at = "attempt" => Underway(more, call.attempt)
             /\ call.at = "dispatch" => Trying(more, call.attempt)
             /\ call.at = "leave" => Over(more, call.attempt, call.outcome.tag)
<1>1. call.attempt \in Nat
  BY DEF CallSet
<1>2. CASE call.at = "attempt" /\ call.attempt = 0
  <2>1. events = <<>> /\ Current(call) = Event("operation.start", 0, None)
    BY <1>2 DEF StoryOK, Current
  <2>2. Current(call) \in EventSet /\ Current(call).name = "operation.start"
    BY <2>1 DEF Event, EventSet, EventNames
  <2> QED
    BY <1>2, <2>1, <2>2, Begins
<1>3. CASE call.at = "attempt" /\ call.attempt # 0
  <2>1. Trying(events, call.attempt)
    BY <1>3 DEF StoryOK
  <2>2. Current(call) = Event("retry.scheduled", call.attempt + 1, None)
    BY <1>3 DEF Current
  <2>3. Current(call) \in EventSet
    BY <1>1, <2>2 DEF Event, EventSet, EventNames
  <2>4. Underway(events, call.attempt)
    BY <2>1 DEF Trying
  <2> QED
    BY <1>1, <1>3, <2>1, <2>2, <2>3, <2>4, StorySteps
<1>4. CASE call.at = "dispatch"
  <2>1. call.attempt - 1 \in Nat /\ (call.attempt - 1) + 1 = call.attempt
    BY <1>1, <1>4 DEF ResultOK
  <2>2. Underway(events, call.attempt - 1)
    BY <1>4 DEF StoryOK
  <2>3. Current(call) = Event("attempt.start", call.attempt, None)
    BY <1>4 DEF Current
  <2>4. Current(call) \in EventSet
    BY <1>1, <2>3 DEF Event, EventSet, EventNames
  <2>5. Trying(Append(events, Event("attempt.start", (call.attempt - 1) + 1, None)),
               (call.attempt - 1) + 1)
    BY <2>1, <2>2, StorySteps
  <2> QED
    BY <1>4, <2>1, <2>3, <2>4, <2>5
<1>5. CASE call.at = "leave"
  <2>1. call.outcome.tag \in Tags
    BY <1>5, OutcomeTag
  <2>2. Underway(events, call.attempt)
    BY <1>5 DEF StoryOK
  <2>3. Current(call) = Event("operation.end", call.attempt, call.outcome.tag)
    BY <1>5 DEF Current
  <2>4. Current(call) \in EventSet
    BY <1>1, <2>1, <2>3 DEF Event, EventSet, EventNames
  <2> QED
    BY <1>1, <1>5, <2>1, <2>2, <2>3, <2>4, StorySteps
<1> QED
  BY <1>2, <1>3, <1>4, <1>5

\* What a call becomes when somebody has been told.
LEMMA ToldFields ==
  ASSUME NEW call \in CallSet, call.tell # <<>>
  PROVE  LET told == Head(call.tell)
             next == Told(call)
         IN  /\ next = [call EXCEPT !.tell = Tail(call.tell),
                          !.heard = IF told.to = "diagnostic" THEN Append(@, told.event) ELSE @,
                          !.traced = IF told.to = "span" THEN Append(@, told.event) ELSE @]
             /\ next \in CallSet
<1>1. /\ Tail(call.tell) \in Seq(TellSet) /\ Head(call.tell) \in TellSet
  BY HeadTailProperties DEF CallSet
<1>2. Head(call.tell).event \in EventSet
  BY <1>1 DEF TellSet
<1>3. /\ Append(call.heard, Head(call.tell).event) \in Seq(EventSet)
      /\ Append(call.traced, Head(call.tell).event) \in Seq(EventSet)
  BY <1>2, AppendProperties DEF CallSet
<1>4. Told(call) = [call EXCEPT !.tell = Tail(call.tell),
                      !.heard = IF Head(call.tell).to = "diagnostic"
                                  THEN Append(@, Head(call.tell).event) ELSE @,
                      !.traced = IF Head(call.tell).to = "span"
                                   THEN Append(@, Head(call.tell).event) ELSE @]
  BY DEF Told, CallSet
<1>5. Told(call) \in CallSet
  BY <1>1, <1>3, <1>4 DEF CallSet
<1> QED
  BY <1>4, <1>5

\* Being told of, or the passing of what is in no story, keeps a call right.
LEMMA ToldKeeps ==
  ASSUME NEW call, CallOK(call), call.tell # <<>>
  PROVE  CallOK(Told(call))
<1> DEFINE told == Head(call.tell)
           rest == Tail(call.tell)
           next == Told(call)
<1>1. /\ call \in CallSet /\ call.tell \in Rests(call) /\ ResultOK(call)
      /\ StoryOK(call, "diagnostic", call.heard) /\ StoryOK(call, "span", call.traced)
  BY DEF CallOK
<1>2. /\ call.at \in {"prepare", "attempt", "dispatch", "end", "leave", "returned"}
      /\ call.span \in BOOLEAN /\ call.heard \in Seq(EventSet) /\ call.traced \in Seq(EventSet)
  BY <1>1 DEF CallSet
<1>3. RestIs(call, told, rest)
  BY <1>1, <1>2, RestFacts
<1>4. /\ next \in CallSet
      /\ next.at = call.at /\ next.op = call.op /\ next.attempt = call.attempt
      /\ next.span = call.span /\ next.response = call.response /\ next.outcome = call.outcome
      /\ next.tell = rest
      /\ next.heard = IF told.to = "diagnostic" THEN Append(call.heard, told.event) ELSE call.heard
      /\ next.traced = IF told.to = "span" THEN Append(call.traced, told.event) ELSE call.traced
  <2>1. /\ next = [call EXCEPT !.tell = rest,
                     !.heard = IF told.to = "diagnostic" THEN Append(@, told.event) ELSE @,
                     !.traced = IF told.to = "span" THEN Append(@, told.event) ELSE @]
        /\ next \in CallSet
    BY <1>1, ToldFields
  <2> HIDE DEF next, told, rest
  <2> QED
    BY <1>1, <2>1 DEF CallSet
<1> HIDE DEF told, rest, next
<1>5. next.tell = rest
  BY <1>4
<1>6. next.tell \in Rests(next)
  BY <1>3, <1>4 DEF RestIs, Rests, Current, TurnedAway
<1>7. ResultOK(next)
  <2>1. \A response : Decoded(next, response) = Decoded(call, response)
    BY <1>4 DEF Decoded
  <2> QED
    BY <1>1, <1>4, <2>1 DEF ResultOK, Got
<1>8. ~TurnedAway(next) /\ \A listener : Hears(next, listener) <=> Hears(call, listener)
  BY <1>3, <1>4 DEF RestIs, TurnedAway, Hears
<1>9. StoryOK(next, "diagnostic", next.heard)
  <2>1. CASE told.to = "diagnostic"
    <3>1. /\ Owed(call, "diagnostic") /\ ~Owed(next, "diagnostic")
          /\ Hears(call, "diagnostic") /\ next.heard = Append(call.heard, Current(call))
      BY <1>3, <1>4, <1>5, <2>1 DEF Owed, RestIs, Hears
    <3>2. LET more == Append(call.heard, Current(call))
          IN  /\ call.at = "attempt" => Underway(more, call.attempt)
              /\ call.at = "dispatch" => Trying(more, call.attempt)
              /\ call.at = "leave" => Over(more, call.attempt, call.outcome.tag)
      BY <1>1, <1>2, <1>3, <3>1, StoryTold DEF RestIs
    <3> QED
      BY <1>3, <1>4, <1>8, <3>1, <3>2 DEF RestIs, StoryOK
  <2>2. CASE told.to # "diagnostic"
    <3>1. next.heard = call.heard /\ (Owed(next, "diagnostic") <=> Owed(call, "diagnostic"))
      BY <1>3, <1>4, <1>5, <2>2 DEF Owed, RestIs
    <3> QED
      BY <1>1, <1>3, <1>4, <1>8, <3>1 DEF RestIs, StoryOK
  <2> QED
    BY <2>1, <2>2
<1>10. StoryOK(next, "span", next.traced)
  <2>1. CASE told.to = "span" /\ told.event = Current(call) /\ Owed(call, "span")
    <3>1. /\ ~Owed(next, "span") /\ Hears(call, "span")
          /\ call.at = "leave" => EndsSpan(next.tell)
          /\ next.traced = Append(call.traced, Current(call))
      BY <1>3, <1>4, <1>5, <2>1 DEF Owed, RestIs, Hears
    <3>2. LET more == Append(call.traced, Current(call))
          IN  /\ call.at = "attempt" => Underway(more, call.attempt)
              /\ call.at = "dispatch" => Trying(more, call.attempt)
              /\ call.at = "leave" => Over(more, call.attempt, call.outcome.tag)
      BY <1>1, <1>2, <1>3, <2>1, <3>1, StoryTold DEF RestIs
    <3> QED
      BY <1>3, <1>4, <1>8, <3>1, <3>2 DEF RestIs, StoryOK
  <2>2. CASE told.to = "span" /\ ~Owed(call, "span")
    <3>1. /\ call.at = "leave" /\ Hears(call, "span") /\ EndsSpan(call.tell)
          /\ ~Owed(next, "span") /\ ~EndsSpan(next.tell)
          /\ next.traced = Append(call.traced, [Current(call) EXCEPT !.name = "end"])
      BY <1>3, <1>4, <1>5, <2>2 DEF Owed, RestIs, Hears
    <3>2. Over(call.traced, call.attempt, call.outcome.tag)
      BY <1>1, <1>3, <2>2, <3>1 DEF RestIs, StoryOK
    <3>3. Current(call) = Event("operation.end", call.attempt, call.outcome.tag)
      BY <3>1 DEF Current
    <3>4. call.outcome.tag \in Tags
      BY <1>1, <1>3, <3>1, OutcomeTag DEF RestIs
    <3>5. /\ [Current(call) EXCEPT !.name = "end"] \in EventSet
          /\ [Current(call) EXCEPT !.name = "end"].name = "end"
      BY <1>1, <3>3, <3>4 DEF Event, EventSet, EventNames, CallSet
    <3>6. Sealed(next.traced, call.attempt, call.outcome.tag)
      BY <1>2, <3>1, <3>2, <3>5 DEF Sealed
    <3> QED
      BY <1>4, <1>8, <3>1, <3>6 DEF StoryOK
  <2>3. CASE told.to # "span"
    <3>1. next.traced = call.traced /\ (Owed(next, "span") <=> Owed(call, "span"))
      BY <1>3, <1>4, <1>5, <2>3 DEF Owed, RestIs
    <3>2. call.at = "leave" => (EndsSpan(next.tell) <=> EndsSpan(call.tell))
      BY <1>3, <1>5, <2>3 DEF Owed, RestIs
    <3> QED
      BY <1>1, <1>3, <1>4, <1>8, <3>1, <3>2 DEF RestIs, StoryOK
  <2> QED
    BY <1>3, <1>5, <2>1, <2>2, <2>3 DEF Owed, RestIs
<1>11. CallOK(next)
  BY <1>4, <1>6, <1>7, <1>9, <1>10 DEF CallOK
<1> QED
  BY <1>11 DEF next

\* The lists are sequences of what is told to somebody.
LEMMA ListTypes ==
  ASSUME NEW call, call.span \in BOOLEAN
  PROVE  /\ \A event \in EventSet : Deliver(call, event) \in Seq(TellSet)
         /\ Start(call) \in Seq(TellSet)
         /\ call.attempt \in Nat /\ call.outcome.tag \in Tags => End(call) \in Seq(TellSet)
<1>1. ASSUME NEW event \in EventSet
      PROVE  Deliver(call, event) \in Seq(TellSet)
  <2> DEFINE x == To("span", event)
             y == To("diagnostic", event)
  <2>1. x \in TellSet /\ y \in TellSet
    BY DEF To, TellSet
  <2>2. \/ Deliver(call, event) = <<x, y>> \/ Deliver(call, event) = <<x>>
        \/ Deliver(call, event) = <<y>> \/ Deliver(call, event) = <<>>
    BY DeliverIs
  <2> HIDE DEF x, y
  <2>3. /\ <<x, y>> \in Seq(TellSet) /\ <<x>> \in Seq(TellSet)
        /\ <<y>> \in Seq(TellSet) /\ <<>> \in Seq(TellSet)
    BY <2>1
  <2> QED
    BY <2>2, <2>3
<1>2. Start(call) \in Seq(TellSet)
  <2> DEFINE event == Event("operation.start", 0, None)
  <2>1. event \in EventSet
    BY DEF Event, EventSet, EventNames
  <2> HIDE DEF event
  <2>2. To("trace", event) \in TellSet /\ To("diagnostic", event) \in TellSet
    BY <2>1 DEF To, TellSet
  <2>3. Start(call) = IF "trace" \in hooks /\ ~call.span
                        THEN IF "diagnostic" \in hooks
                               THEN <<To("trace", event), To("diagnostic", event)>>
                             ELSE <<To("trace", event)>>
                        ELSE Deliver(call, event)
    BY StartIs DEF event
  <2> QED
    BY <1>1, <2>1, <2>2, <2>3
<1>3. ASSUME call.attempt \in Nat, call.outcome.tag \in Tags
      PROVE  End(call) \in Seq(TellSet)
  <2> DEFINE event == Event("operation.end", call.attempt, call.outcome.tag)
             end == To("span", [event EXCEPT !.name = "end"])
  <2>1. event \in EventSet /\ [event EXCEPT !.name = "end"] \in EventSet
    BY <1>3 DEF Event, EventSet, EventNames
  <2>2. /\ To("span", event) \in TellSet /\ To("diagnostic", event) \in TellSet
        /\ end \in TellSet
    BY <2>1 DEF To, TellSet
  <2>3. End(call) = IF call.span
                      THEN IF "diagnostic" \in hooks
                             THEN <<To("span", event), To("diagnostic", event), end>>
                           ELSE <<To("span", event), end>>
                      ELSE Deliver(call, event)
    BY EndIs
  <2> HIDE DEF event, end
  <2> QED
    BY <1>1, <2>1, <2>2, <2>3
<1> QED
  BY <1>1, <1>2, <1>3

\* A list that has just been made is whole: who hears is in it.
LEMMA ListIsWhole ==
  ASSUME NEW call, call.span \in BOOLEAN, ~TurnedAway(call),
         \/ /\ call.at \in {"attempt", "dispatch"}
            /\ call.tell = Deliver(call, Current(call))
         \/ call.at = "attempt" /\ call.attempt = 0 /\ call.tell = Start(call)
         \/ call.at = "leave" /\ call.tell = End(call)
  PROVE  /\ call.tell \in Rests(call)
         /\ "diagnostic" \in hooks => Owed(call, "diagnostic")
         /\ call.span => Owed(call, "span")
<1> DEFINE event == Current(call)
           x == To("span", event)
           y == To("diagnostic", event)
           z == To("trace", event)
           w == To("span", [event EXCEPT !.name = "end"])
           diagnostic == "diagnostic" \in hooks
<1>1. /\ x.to = "span" /\ y.to = "diagnostic" /\ z.to = "trace"
      /\ x.event.name # "end" /\ y.event.name # "end" /\ z.event.name # "end"
  BY DEF To, Current, Event
<1>2. Deliver(call, event) =
        IF call.span /\ diagnostic THEN <<x, y>>
        ELSE IF call.span THEN <<x>> ELSE IF diagnostic THEN <<y>> ELSE <<>>
  BY DeliverIs
<1>3. CASE call.at \in {"attempt", "dispatch"} /\ call.tell = Deliver(call, Current(call))
  <2>1. call.tell \in Rests(call)
    BY <1>2, <1>3 DEF Rests
  <2> HIDE DEF x, y, z, w, event
  <2>2. call.tell = Deliver(call, event)
    BY <1>3 DEF event
  <2>5. diagnostic => call.tell = <<x, y>> \/ call.tell = <<y>>
    BY <1>2, <2>2
  <2>6. call.span => call.tell = <<x, y>> \/ call.tell = <<x>>
    BY <1>2, <2>2
  <2>7. diagnostic => Owed(call, "diagnostic")
    BY <1>1, <2>5 DEF Owed, Tells
  <2>8. call.span => Owed(call, "span")
    BY <1>1, <2>6 DEF Owed, Tells
  <2> QED
    BY <2>1, <2>7, <2>8
<1>4. CASE call.at = "attempt" /\ call.attempt = 0 /\ call.tell = Start(call)
  <2>1. event = Event("operation.start", 0, None)
    BY <1>4 DEF Current
  <2>2. Start(call) = IF "trace" \in hooks /\ ~call.span
                        THEN IF diagnostic THEN <<z, y>> ELSE <<z>>
                        ELSE Deliver(call, event)
    BY <2>1, StartIs
  <2>3. call.tell \in Rests(call)
    BY <1>2, <1>4, <2>2 DEF Rests
  <2> HIDE DEF x, y, z, w, event
  <2>4. call.tell = IF "trace" \in hooks /\ ~call.span
                      THEN IF diagnostic THEN <<z, y>> ELSE <<z>>
                      ELSE IF call.span /\ diagnostic THEN <<x, y>>
                      ELSE IF call.span THEN <<x>> ELSE IF diagnostic THEN <<y>> ELSE <<>>
    BY <1>2, <1>4, <2>2
  <2>5. diagnostic => call.tell = <<z, y>> \/ call.tell = <<x, y>> \/ call.tell = <<y>>
    BY <2>4
  <2>6. call.span => call.tell = <<x, y>> \/ call.tell = <<x>>
    BY <2>4
  <2>7. diagnostic => Owed(call, "diagnostic")
    BY <1>1, <2>5 DEF Owed, Tells
  <2>8. call.span => Owed(call, "span")
    BY <1>1, <2>6 DEF Owed, Tells
  <2> QED
    BY <2>3, <2>7, <2>8
<1>5. CASE call.at = "leave" /\ call.tell = End(call)
  <2>1. event = Event("operation.end", call.attempt, call.outcome.tag)
    BY <1>5 DEF Current
  <2>2. End(call) = IF call.span
                      THEN IF diagnostic THEN <<x, y, w>> ELSE <<x, w>>
                      ELSE Deliver(call, event)
    BY <2>1, EndIs
  <2>3. call.tell \in Rests(call)
    BY <1>2, <1>5, <2>2 DEF Rests
  <2> HIDE DEF x, y, z, w, event
  <2>5. diagnostic => call.tell = <<x, y, w>> \/ call.tell = <<y>>
    BY <1>2, <1>5, <2>2
  <2>6. call.span => call.tell = <<x, y, w>> \/ call.tell = <<x, w>>
    BY <1>2, <1>5, <2>2
  <2>7. diagnostic => Owed(call, "diagnostic")
    BY <1>1, <2>5 DEF Owed, Tells
  <2>8. call.span => Owed(call, "span")
    BY <1>1, <2>6 DEF Owed, Tells
  <2> QED
    BY <2>3, <2>7, <2>8
<1> QED
  BY <1>3, <1>4, <1>5

\* A call whose start is about to be told.
LEMMA StartKeeps ==
  ASSUME NEW call \in CallSet, call.at = "attempt", call.attempt = 0, call.tell = Start(call),
         call.heard = <<>>, call.traced = <<>>, call.outcome = None, call.response = None
  PROVE  CallOK(call)
<1>1. ~TurnedAway(call) /\ call.span \in BOOLEAN
  BY DEF TurnedAway, CallSet
<1>2. /\ call.tell \in Rests(call)
      /\ "diagnostic" \in hooks => Owed(call, "diagnostic")
      /\ call.span => Owed(call, "span")
  BY <1>1, ListIsWhole
<1>3. StoryOK(call, "diagnostic", call.heard) /\ StoryOK(call, "span", call.traced)
  BY <1>2 DEF StoryOK, Hears
<1>4. ResultOK(call)
  BY DEF ResultOK
<1> QED
  BY <1>2, <1>3, <1>4 DEF CallOK

\* A call that comes to its end, with an answer or without one.
LEMMA EndedKeeps ==
  ASSUME NEW call, CallOK(call), call.tell = <<>>,
         \/ call.at = "attempt" /\ call.attempt > 0
         \/ call.at = "dispatch",
         NEW outcome \in OutcomeSet, NEW response \in Responses \cup {None},
         NEW next, next = [call EXCEPT !.at = "end", !.outcome = outcome, !.response = response],
         Got(next)
  PROVE  CallOK(next)
<1>1. call \in CallSet /\ ResultOK(call)
  BY DEF CallOK
<1>2. /\ next \in CallSet /\ next.at = "end" /\ next.tell = <<>> /\ next.attempt = call.attempt
      /\ next.span = call.span /\ next.heard = call.heard /\ next.traced = call.traced
  BY <1>1 DEF CallSet
<1>3. ~TurnedAway(call) /\ ~TurnedAway(next) /\ call.at # "prepare" /\ next.at # "prepare"
  BY <1>2 DEF TurnedAway
<1>4. ASSUME NEW listener, NEW events, StoryOK(call, listener, events)
      PROVE  StoryOK(next, listener, events)
  <2>1. ~Owed(call, listener) /\ (Hears(next, listener) <=> Hears(call, listener))
    BY <1>2 DEF Owed, Tells, Hears
  <2>2. CASE ~Hears(call, listener)
    BY <1>3, <1>4, <2>1, <2>2 DEF StoryOK
  <2>3. CASE Hears(call, listener)
    <3>1. Underway(events, call.attempt)
      BY <1>3, <1>4, <2>1, <2>3 DEF StoryOK, Trying
    <3> QED
      BY <1>2, <1>3, <2>1, <2>3, <3>1 DEF StoryOK
  <2> QED
    BY <2>2, <2>3
<1>5. next.tell \in Rests(next)
  BY <1>2 DEF Rests
<1>6. ResultOK(next)
  BY <1>2 DEF ResultOK
<1>7. StoryOK(next, "diagnostic", next.heard) /\ StoryOK(next, "span", next.traced)
  BY <1>2, <1>4 DEF CallOK
<1> QED
  BY <1>2, <1>5, <1>6, <1>7 DEF CallOK

\* Its result may be told, and then it may return.
LEMMA EndToldKeeps ==
  ASSUME NEW call, CallOK(call), call.tell = <<>>, call.at = "end"
  PROVE  CallOK([call EXCEPT !.at = "leave", !.tell = End(call)])
<1> DEFINE next == [call EXCEPT !.at = "leave", !.tell = End(call)]
<1>1. call \in CallSet /\ ResultOK(call)
  BY DEF CallOK
<1>2. ~TurnedAway(call) /\ call.outcome.tag \in Tags /\ call.attempt \in Nat /\ call.span \in BOOLEAN
  BY <1>1, OutcomeTag DEF TurnedAway, CallSet
<1>3. End(call) \in Seq(TellSet)
  BY <1>2, ListTypes
<1>4. /\ next \in CallSet /\ next.at = "leave" /\ next.tell = End(call)
      /\ next.attempt = call.attempt /\ next.op = call.op
      /\ next.span = call.span /\ next.heard = call.heard /\ next.traced = call.traced
      /\ next.outcome = call.outcome /\ next.response = call.response
  BY <1>1, <1>3 DEF CallSet
<1> HIDE DEF next
<1>5. Got(next) /\ ~TurnedAway(next)
  <2>1. Got(call)
    BY <1>1 DEF ResultOK
  <2>2. Decoded(next, next.response) = Decoded(call, call.response)
    BY <1>4 DEF Decoded
  <2>3. Got(next)
    BY <1>4, <2>1, <2>2 DEF Got
  <2>4. call.outcome.tag # "refused"
    <3>1. CASE call.outcome \in {ErrorOutcome, Cancelled}
      BY <3>1 DEF ErrorOutcome, Cancelled
    <3>2. CASE call.outcome = Decoded(call, call.response)
      <4>1. Decoded(call, call.response).tag \in {"success", "error"}
        BY DecodedFacts DEF Honest
      <4> QED
        BY <3>2, <4>1
    <3> QED
      BY <2>1, <3>1, <3>2 DEF Got
  <2> QED
    BY <1>4, <2>3, <2>4 DEF TurnedAway, Refused
<1>6. End(next) = End(call)
  <2>1. \A event : Deliver(next, event) = Deliver(call, event)
    BY <1>4 DEF Deliver
  <2> QED
    BY <1>4, <2>1 DEF End
<1>7. /\ next.tell \in Rests(next)
      /\ "diagnostic" \in hooks => Owed(next, "diagnostic")
      /\ next.span => Owed(next, "span")
  <2>1. next.span \in BOOLEAN /\ next.at = "leave" /\ next.tell = End(next)
    BY <1>2, <1>4, <1>6
  <2> QED
    BY <1>5, <2>1, ListIsWhole
<1>8. ASSUME NEW listener \in {"diagnostic", "span"}, NEW events, StoryOK(call, listener, events)
      PROVE  StoryOK(next, listener, events)
  <2>1. (Hears(next, listener) <=> Hears(call, listener)) /\ (Hears(next, listener) => Owed(next, listener))
    BY <1>4, <1>7 DEF Hears
  <2>2. CASE ~Hears(call, listener)
    BY <1>2, <1>8, <2>1, <2>2 DEF StoryOK
  <2>3. CASE Hears(call, listener)
    <3>1. Underway(events, call.attempt)
      BY <1>2, <1>8, <2>3 DEF StoryOK
    <3> QED
      BY <1>4, <1>5, <2>1, <2>3, <3>1 DEF StoryOK
  <2> QED
    BY <2>2, <2>3
<1>9. ResultOK(next)
  BY <1>4, <1>5 DEF ResultOK
<1>10. StoryOK(next, "diagnostic", next.heard) /\ StoryOK(next, "span", next.traced)
  BY <1>4, <1>8 DEF CallOK
<1>11. CallOK(next)
  BY <1>4, <1>7, <1>9, <1>10 DEF CallOK
<1> QED
  BY <1>11 DEF next

LEMMA LeftKeeps ==
  ASSUME NEW call, CallOK(call), call.tell = <<>>, call.at = "leave",
         NEW next, next = [call EXCEPT !.at = "returned"]
  PROVE  CallOK(next)
<1>1. call \in CallSet /\ ResultOK(call)
  BY DEF CallOK
<1>2. /\ next \in CallSet /\ next.at = "returned" /\ next.tell = <<>>
      /\ next.attempt = call.attempt /\ next.op = call.op
      /\ next.span = call.span /\ next.heard = call.heard /\ next.traced = call.traced
      /\ next.outcome = call.outcome /\ next.response = call.response
  BY <1>1 DEF CallSet
<1>3. TurnedAway(next) <=> TurnedAway(call)
  BY <1>2 DEF TurnedAway
<1>4. ASSUME NEW listener, NEW events, StoryOK(call, listener, events)
      PROVE  StoryOK(next, listener, events)
  <2>1. (Hears(next, listener) <=> Hears(call, listener)) /\ ~Owed(call, listener) /\ ~Owed(next, listener)
    BY <1>2 DEF Hears, Owed, Tells
  <2> QED
    BY <1>2, <1>3, <1>4, <2>1 DEF StoryOK
<1>5. ResultOK(next)
  <2>1. Decoded(next, next.response) = Decoded(call, call.response)
    BY <1>2 DEF Decoded
  <2> QED
    BY <1>1, <1>2, <2>1 DEF ResultOK, Got
<1>6. next.tell \in Rests(next)
  BY <1>2 DEF Rests
<1>7. StoryOK(next, "diagnostic", next.heard) /\ StoryOK(next, "span", next.traced)
  BY <1>2, <1>4 DEF CallOK
<1> QED
  BY <1>2, <1>5, <1>6, <1>7 DEF CallOK

\* A call whose request is sent, or refused.
LEMMA PreparedKeeps ==
  ASSUME NEW call, CallOK(call), call.tell = <<>>, call.at = "prepare"
  PROVE  /\ CallOK([call EXCEPT !.at = "attempt", !.tell = Start(call)])
         /\ CallOK([call EXCEPT !.at = "leave", !.outcome = [tag |-> "refused"]])
<1>1. /\ call \in CallSet /\ call.attempt = 0 /\ call.outcome = None /\ call.response = None
      /\ call.span \in BOOLEAN /\ call.heard = <<>> /\ call.traced = <<>>
  BY DEF CallOK, ResultOK, StoryOK, CallSet
<1>2. CallOK([call EXCEPT !.at = "attempt", !.tell = Start(call)])
  <2> DEFINE next == [call EXCEPT !.at = "attempt", !.tell = Start(call)]
  <2>1. Start(call) \in Seq(TellSet)
    BY <1>1, ListTypes
  <2>2. /\ next \in CallSet /\ next.at = "attempt" /\ next.attempt = 0 /\ next.tell = Start(call)
        /\ next.heard = <<>> /\ next.traced = <<>> /\ next.outcome = None /\ next.response = None
        /\ next.span = call.span
    BY <1>1, <2>1 DEF CallSet
  <2>3. Start(next) = Start(call)
    BY <2>2 DEF Start, Deliver
  <2> HIDE DEF next
  <2>4. CallOK(next)
    BY <2>2, <2>3, StartKeeps
  <2> QED
    BY <2>4 DEF next
<1>3. CallOK([call EXCEPT !.at = "leave", !.outcome = [tag |-> "refused"]])
  <2> DEFINE next == [call EXCEPT !.at = "leave", !.outcome = [tag |-> "refused"]]
  <2>1. /\ next \in CallSet /\ next.at = "leave" /\ next.tell = <<>> /\ next.outcome = Refused
        /\ next.heard = <<>> /\ next.traced = <<>> /\ next.response = None
    <3>1. Refused \in OutcomeSet
      BY DEF OutcomeSet
    <3> QED
      BY <1>1, <3>1 DEF CallSet, Refused
  <2> HIDE DEF next
  <2>2. TurnedAway(next)
    BY <2>1 DEF TurnedAway
  <2>3. next.tell \in Rests(next) /\ ResultOK(next)
    BY <2>1, <2>2 DEF Rests, ResultOK
  <2>4. StoryOK(next, "diagnostic", next.heard) /\ StoryOK(next, "span", next.traced)
    BY <2>1, <2>2 DEF StoryOK
  <2>5. CallOK(next)
    BY <2>1, <2>3, <2>4 DEF CallOK
  <2> QED
    BY <2>5 DEF next
<1> QED
  BY <1>2, <1>3

\* The trace sink has given a span: the start is told again, to it and to the
\* diagnostic sink, which has not been told yet.
LEMMA TracedKeeps ==
  ASSUME NEW call, CallOK(call), call.tell # <<>>, Head(call.tell).to = "trace",
         NEW traced, traced = [Told(call) EXCEPT !.span = TRUE]
  PROVE  CallOK([traced EXCEPT !.tell = Start(traced)])
<1>1. /\ call \in CallSet /\ call.tell \in Rests(call) /\ ResultOK(call)
      /\ StoryOK(call, "diagnostic", call.heard) /\ StoryOK(call, "span", call.traced)
  BY DEF CallOK
<1>2. RestIs(call, Head(call.tell), Tail(call.tell))
  BY <1>1, RestFacts DEF CallSet
<1>3. /\ call.at = "attempt" /\ call.attempt = 0 /\ ~call.span
      /\ "diagnostic" \in hooks => Owed(call, "diagnostic")
      /\ call.outcome = None /\ call.response = None
  BY <1>1, <1>2 DEF RestIs, Owed, ResultOK
<1>4. call.heard = <<>> /\ call.traced = <<>>
  BY <1>1, <1>3 DEF StoryOK, Hears
<1> DEFINE told == Told(call)
           next == [traced EXCEPT !.tell = Start(traced)]
<1>5. /\ told \in CallSet /\ told.at = "attempt" /\ told.attempt = 0
      /\ told.heard = <<>> /\ told.traced = <<>> /\ told.outcome = None /\ told.response = None
  <2>1. /\ told = [call EXCEPT !.tell = Tail(call.tell),
                     !.heard = IF Head(call.tell).to = "diagnostic"
                                 THEN Append(@, Head(call.tell).event) ELSE @,
                     !.traced = IF Head(call.tell).to = "span"
                                  THEN Append(@, Head(call.tell).event) ELSE @]
        /\ told \in CallSet
    BY <1>1, ToldFields
  <2> HIDE DEF told
  <2> QED
    BY <1>1, <1>3, <1>4, <2>1 DEF CallSet
<1> HIDE DEF told
<1>6. /\ traced \in CallSet /\ traced.at = "attempt" /\ traced.attempt = 0 /\ traced.span
      /\ traced.heard = <<>> /\ traced.traced = <<>>
      /\ traced.outcome = None /\ traced.response = None
  BY <1>5 DEF told, CallSet
<1>7. Start(traced) \in Seq(TellSet)
  BY <1>6, ListTypes DEF CallSet
<1>8. /\ next \in CallSet /\ next.at = "attempt" /\ next.attempt = 0 /\ next.span = traced.span
      /\ next.heard = <<>> /\ next.traced = <<>> /\ next.tell = Start(traced)
      /\ next.outcome = None /\ next.response = None
  BY <1>6, <1>7 DEF CallSet
<1>9. Start(next) = Start(traced)
  BY <1>8 DEF Start, Deliver
<1> HIDE DEF next
<1>10. CallOK(next)
  BY <1>8, <1>9, StartKeeps
<1> QED
  BY <1>10 DEF next

\* Whatever a sink or the span does, its call stays right.
LEMMA HookedKeeps ==
  ASSUME NEW call, CallOK(call), call.tell # <<>>, NEW next \in Hooked(call)
  PROVE  CallOK(next)
<1>1. CASE next = Told(call)
  BY <1>1, ToldKeeps
<1>2. CASE Head(call.tell).to = "trace" /\ next = Traced(call)
  BY <1>2, TracedKeeps DEF Traced
<1> QED
  BY <1>1, <1>2 DEF Hooked

\* One attempt more, which is about to be told.
LEMMA AttemptKeeps ==
  ASSUME NEW call, CallOK(call), call.tell = <<>>, call.at = "attempt"
  PROVE  LET more == [call EXCEPT !.attempt = @ + 1]
         IN  CallOK([more EXCEPT !.at = "dispatch", !.tell = AttemptStart(more)])
<1> DEFINE more == [call EXCEPT !.attempt = @ + 1]
           next == [more EXCEPT !.at = "dispatch", !.tell = AttemptStart(more)]
           event == Event("attempt.start", call.attempt + 1, None)
<1>1. /\ call \in CallSet /\ call.outcome = None /\ call.response = None
      /\ StoryOK(call, "diagnostic", call.heard) /\ StoryOK(call, "span", call.traced)
  BY DEF CallOK, ResultOK
<1>2. /\ call.attempt \in Nat /\ more \in CallSet /\ more.attempt = call.attempt + 1
      /\ more.span = call.span /\ more.span \in BOOLEAN
      /\ more.heard = call.heard /\ more.traced = call.traced
      /\ more.outcome = None /\ more.response = None
  <2>1. call.attempt \in Nat /\ call.attempt + 1 \in Nat
    BY <1>1 DEF CallSet
  <2>2. more = [call EXCEPT !.attempt = call.attempt + 1]
    OBVIOUS
  <2> QED
    BY <1>1, <2>1, <2>2 DEF CallSet
<1> HIDE DEF more
<1>3. AttemptStart(more) = Deliver(more, event) /\ event \in EventSet
  BY <1>2 DEF AttemptStart, Event, EventSet, EventNames
<1>4. AttemptStart(more) \in Seq(TellSet)
  <2>1. \A e \in EventSet : Deliver(more, e) \in Seq(TellSet)
    BY <1>2, ListTypes
  <2> QED
    BY <1>3, <2>1
<1>5. /\ next \in CallSet /\ next.at = "dispatch" /\ next.tell = AttemptStart(more)
      /\ next.attempt = call.attempt + 1 /\ next.span = call.span
      /\ next.heard = call.heard /\ next.traced = call.traced
      /\ next.outcome = None /\ next.response = None
  BY <1>2, <1>4 DEF CallSet
<1> HIDE DEF next
<1>6. ~TurnedAway(next) /\ ~TurnedAway(call) /\ next.span \in BOOLEAN
  BY <1>2, <1>5 DEF TurnedAway
<1>7. next.tell = Deliver(next, Current(next))
  <2>1. Current(next) = event
    BY <1>5 DEF Current
  <2>2. Deliver(next, event) = Deliver(more, event)
    BY <1>2, <1>5 DEF Deliver
  <2> QED
    BY <1>3, <1>5, <2>1, <2>2
<1>8. /\ next.tell \in Rests(next)
      /\ "diagnostic" \in hooks => Owed(next, "diagnostic")
      /\ next.span => Owed(next, "span")
  BY <1>5, <1>6, <1>7, ListIsWhole
<1>9. ASSUME NEW listener \in {"diagnostic", "span"}, NEW events, StoryOK(call, listener, events)
      PROVE  StoryOK(next, listener, events)
  <2>1. /\ Hears(next, listener) <=> Hears(call, listener)
        /\ Hears(next, listener) => Owed(next, listener)
        /\ ~Owed(call, listener)
    BY <1>5, <1>8 DEF Hears, Owed, Tells
  <2>2. CASE ~Hears(call, listener)
    BY <1>6, <1>9, <2>1, <2>2 DEF StoryOK
  <2>3. CASE Hears(call, listener)
    <3>1. Underway(events, call.attempt)
      BY <1>6, <1>9, <2>1, <2>3 DEF StoryOK
    <3>2. next.attempt - 1 = call.attempt
      BY <1>2, <1>5
    <3> QED
      BY <1>5, <1>6, <2>1, <2>3, <3>1, <3>2 DEF StoryOK
  <2> QED
    BY <2>2, <2>3
<1>10. StoryOK(next, "diagnostic", next.heard) /\ StoryOK(next, "span", next.traced)
  BY <1>1, <1>5, <1>9
<1>11. ResultOK(next)
  BY <1>2, <1>5 DEF ResultOK
<1>12. CallOK(next)
  BY <1>5, <1>8, <1>10, <1>11 DEF CallOK
<1> QED
  BY <1>12 DEF next, more

\* A retry that is about to be told.
LEMMA RetryKeeps ==
  ASSUME NEW call, CallOK(call), call.tell = <<>>, call.at = "dispatch"
  PROVE  CallOK([call EXCEPT !.at = "attempt", !.tell = RetryScheduled(call)])
<1> DEFINE next == [call EXCEPT !.at = "attempt", !.tell = RetryScheduled(call)]
           event == Event("retry.scheduled", call.attempt + 1, None)
<1>1. /\ call \in CallSet /\ call.outcome = None /\ call.response = None /\ call.attempt > 0
      /\ StoryOK(call, "diagnostic", call.heard) /\ StoryOK(call, "span", call.traced)
  BY DEF CallOK, ResultOK
<1>2. call.attempt \in Nat /\ call.span \in BOOLEAN
  BY <1>1 DEF CallSet
<1>3. RetryScheduled(call) = Deliver(call, event) /\ event \in EventSet
  BY <1>2 DEF RetryScheduled, Event, EventSet, EventNames
<1>4. RetryScheduled(call) \in Seq(TellSet)
  BY <1>2, <1>3, ListTypes
<1>5. /\ next \in CallSet /\ next.at = "attempt" /\ next.tell = RetryScheduled(call)
      /\ next.attempt = call.attempt /\ next.span = call.span
      /\ next.heard = call.heard /\ next.traced = call.traced
      /\ next.outcome = None /\ next.response = None
  BY <1>1, <1>4 DEF CallSet
<1> HIDE DEF next
<1>6. ~TurnedAway(next) /\ ~TurnedAway(call) /\ next.span \in BOOLEAN
  BY <1>2, <1>5 DEF TurnedAway
<1>7. next.tell = Deliver(next, Current(next))
  <2>1. Current(next) = event
    BY <1>1, <1>2, <1>5 DEF Current
  <2>2. Deliver(next, event) = Deliver(call, event)
    BY <1>2, <1>5 DEF Deliver
  <2> QED
    BY <1>3, <1>5, <2>1, <2>2
<1>8. /\ next.tell \in Rests(next)
      /\ "diagnostic" \in hooks => Owed(next, "diagnostic")
      /\ next.span => Owed(next, "span")
  BY <1>5, <1>6, <1>7, ListIsWhole
<1>9. ASSUME NEW listener \in {"diagnostic", "span"}, NEW events, StoryOK(call, listener, events)
      PROVE  StoryOK(next, listener, events)
  <2>1. /\ Hears(next, listener) <=> Hears(call, listener)
        /\ Hears(next, listener) => Owed(next, listener)
        /\ ~Owed(call, listener)
    BY <1>5, <1>8 DEF Hears, Owed, Tells
  <2>2. CASE ~Hears(call, listener)
    BY <1>6, <1>9, <2>1, <2>2 DEF StoryOK
  <2>3. CASE Hears(call, listener)
    <3>1. Trying(events, call.attempt)
      BY <1>6, <1>9, <2>1, <2>3 DEF StoryOK
    <3> QED
      BY <1>1, <1>2, <1>5, <1>6, <2>1, <2>3, <3>1 DEF StoryOK
  <2> QED
    BY <2>2, <2>3
<1>10. StoryOK(next, "diagnostic", next.heard) /\ StoryOK(next, "span", next.traced)
  BY <1>1, <1>5, <1>9
<1>11. ResultOK(next)
  BY <1>1, <1>2, <1>5 DEF ResultOK
<1>12. CallOK(next)
  BY <1>5, <1>8, <1>10, <1>11 DEF CallOK
<1> QED
  BY <1>12 DEF next

\* A call that ends without an answer, or with one.
LEMMA NoAnswerKeeps ==
  ASSUME NEW call, CallOK(call), call.tell = <<>>,
         call.at = "dispatch" \/ (call.at = "attempt" /\ call.attempt > 0)
  PROVE  CallOK(Ended(call, ErrorOutcome)) /\ CallOK(Ended(call, Cancelled))
<1>1. call \in CallSet /\ call.response = None
  BY DEF CallOK, ResultOK
<1>2. ASSUME NEW outcome \in {ErrorOutcome, Cancelled}
      PROVE  CallOK(Ended(call, outcome))
  <2> DEFINE next == Ended(call, outcome)
  <2>1. next = [call EXCEPT !.at = "end", !.outcome = outcome, !.response = None]
    BY <1>1 DEF Ended, CallSet
  <2>2. outcome \in OutcomeSet
    BY DEF OutcomeSet
  <2>3. next.outcome = outcome /\ next.response = None
    BY <1>1, <2>1 DEF CallSet
  <2> HIDE DEF next
  <2>4. Got(next)
    BY <2>3 DEF Got
  <2>5. CallOK(next)
    BY <2>1, <2>2, <2>4, EndedKeeps
  <2> QED
    BY <2>5 DEF next
<1> QED
  BY <1>2

LEMMA AnswerKeeps ==
  ASSUME NEW call, CallOK(call), call.tell = <<>>, call.at = "dispatch",
         NEW response \in Responses
  PROVE  CallOK([Ended(call, Decoded(call, response)) EXCEPT !.response = response])
<1> DEFINE outcome == Decoded(call, response)
           next == [Ended(call, outcome) EXCEPT !.response = response]
<1>1. call \in CallSet
  BY DEF CallOK
<1>2. outcome \in OutcomeSet
  <2>1. call.op \in Operations
    BY <1>1 DEF CallSet
  <2>2. outcome = Decoded([op |-> call.op], response)
    BY DecodedFacts DEF Honest
  <2> HIDE DEF outcome
  <2> QED
    BY <2>1, <2>2 DEF OutcomeSet
<1> HIDE DEF outcome
<1>3. /\ next = [call EXCEPT !.at = "end", !.outcome = outcome, !.response = response]
      /\ next.outcome = outcome /\ next.response = response /\ next.op = call.op
  BY <1>1 DEF Ended, CallSet
<1> HIDE DEF next
<1>4. Got(next)
  <2>1. Decoded(next, response) = outcome
    BY <1>3 DEF Decoded, outcome
  <2> QED
    BY <1>3, <2>1 DEF Got
<1>5. CallOK(next)
  BY <1>2, <1>3, <1>4, EndedKeeps
<1> QED
  BY <1>5 DEF next, outcome

-----------------------------------------------------------------------------
(* Stacks                                                                   *)

\* The sinks are given once.
LEMMA SinksStay ==
  ASSUME hooks' = hooks
  PROVE  \A call : CallOK(call)' <=> CallOK(call)
BY DEF CallOK, Rests, StoryOK, Hears

\* A call on top of a stack becomes a right one.
LEMMA BecomesRight ==
  ASSUME StacksOK, hooks' = hooks, NEW c \in Callers, stack[c] # <<>>,
         NEW call, CallOK(call), Becomes(c, call)
  PROVE  StacksOK'
<1>1. stack \in [Callers -> Seq(CallSet)] /\ call \in CallSet
  BY DEF StacksOK, CallOK
<1>2. /\ stack[c] \in Seq(CallSet) /\ Len(stack[c]) \in 1 .. Len(stack[c])
      /\ DOMAIN stack[c] = 1 .. Len(stack[c])
  BY <1>1, EmptySeq, LenProperties
<1>3. /\ stack' \in [Callers -> Seq(CallSet)]
      /\ stack'[c] = [stack[c] EXCEPT ![Len(stack[c])] = call]
      /\ \A d \in Callers : d # c => stack'[d] = stack[d]
  <2>1. [stack[c] EXCEPT ![Len(stack[c])] = call] \in Seq(CallSet)
    BY <1>1, <1>2, ExceptSeq
  <2>2. stack' = [stack EXCEPT ![c] = [stack[c] EXCEPT ![Len(stack[c])] = call]]
    BY DEF Becomes
  <2> QED
    BY <1>1, <2>1, <2>2
<1>4. ASSUME NEW d \in Callers, NEW k \in DOMAIN stack'[d]
      PROVE  CallOK(stack'[d][k])
  <2>1. CASE d = c
    <3>1. k \in 1 .. Len(stack[c]) /\ stack'[c][k] = IF k = Len(stack[c]) THEN call ELSE stack[c][k]
      BY <1>2, <1>3, <1>4, <2>1
    <3> QED
      BY <1>2, <2>1, <3>1 DEF StacksOK
  <2>2. CASE d # c
    BY <1>3, <1>4, <2>2 DEF StacksOK
  <2> QED
    BY <2>1, <2>2
<1>5. \A d \in Callers : \A k \in DOMAIN stack'[d] : CallOK(stack[d][k])'
  BY <1>4, SinksStay
<1> QED
  BY <1>3, <1>5 DEF StacksOK

LEMMA TopRight ==
  ASSUME StacksOK, NEW c \in Callers, stack[c] # <<>>
  PROVE  CallOK(Top(c)) /\ Top(c) \in CallSet
<1>1. stack[c] \in Seq(CallSet)
  BY DEF StacksOK
<1>2. Len(stack[c]) \in DOMAIN stack[c]
  BY <1>1, EmptySeq, LenProperties
<1> QED
  BY <1>2 DEF StacksOK, Top, CallOK

\* A new call is right.
LEMMA NewCallRight ==
  ASSUME NEW op \in Operations
  PROVE  CallOK(NewCall(op))
<1> DEFINE call == NewCall(op)
<1>1. <<>> \in Seq(TellSet) /\ <<>> \in Seq(EventSet)
  BY EmptySeq
<1>2. None \in OutcomeSet
  BY DEF OutcomeSet
<1>3. /\ call \in CallSet /\ call.at = "prepare" /\ call.tell = <<>> /\ call.attempt = 0
      /\ call.heard = <<>> /\ call.traced = <<>> /\ call.outcome = None /\ call.response = None
  BY <1>1, <1>2 DEF NewCall, CallSet
<1> HIDE DEF call
<1>4. CallOK(call)
  BY <1>3 DEF CallOK, Rests, StoryOK, ResultOK
<1> QED
  BY <1>4 DEF call

\* And so is a stack of right calls with a new one on top.
LEMMA LeaseRight ==
  ASSUME StacksOK, hooks' = hooks, NEW c \in Callers, NEW op \in Operations,
         NEW calls \in Seq(CallSet), \A k \in DOMAIN calls : CallOK(calls[k]),
         Lease(c, calls, op)
  PROVE  StacksOK'
<1>1. CallOK(NewCall(op)) /\ NewCall(op) \in CallSet
  BY NewCallRight DEF CallOK
<1> DEFINE more == Append(calls, NewCall(op))
<1>2. /\ more \in Seq(CallSet) /\ DOMAIN more = 1 .. Len(calls) + 1 /\ DOMAIN calls = 1 .. Len(calls)
      /\ more[Len(calls) + 1] = NewCall(op) /\ \A k \in 1 .. Len(calls) : more[k] = calls[k]
      /\ Len(calls) \in Nat
  BY <1>1, AppendProperties, LenProperties
<1>3. /\ stack' \in [Callers -> Seq(CallSet)] /\ stack'[c] = more
      /\ \A d \in Callers : d # c => stack'[d] = stack[d]
  <2>1. stack' = [stack EXCEPT ![c] = more] /\ stack \in [Callers -> Seq(CallSet)]
    BY DEF Lease, StacksOK
  <2> HIDE DEF more
  <2> QED
    BY <1>2, <2>1
<1>4. ASSUME NEW k \in DOMAIN more
      PROVE  CallOK(more[k])
  <2>1. k \in 1 .. Len(calls) \/ k = Len(calls) + 1
    BY <1>2
  <2> QED
    BY <1>1, <1>2, <2>1
<1> HIDE DEF more
<1>5. ASSUME NEW d \in Callers, NEW k \in DOMAIN stack'[d]
      PROVE  CallOK(stack'[d][k])
  <2>1. CASE d = c
    BY <1>3, <1>4, <1>5, <2>1
  <2>2. CASE d # c
    BY <1>3, <1>5, <2>2 DEF StacksOK
  <2> QED
    BY <2>1, <2>2
<1>6. \A d \in Callers : \A k \in DOMAIN stack'[d] : CallOK(stack[d][k])'
  BY <1>5, SinksStay
<1> QED
  BY <1>3, <1>6 DEF StacksOK

\* A call that has returned leaves those under it as they are.
LEMMA ReturnRight ==
  ASSUME StacksOK, hooks' = hooks, NEW c \in Callers, stack[c] # <<>>,
         stack' = [stack EXCEPT ![c] = Front(@)]
  PROVE  StacksOK'
<1>1. stack \in [Callers -> Seq(CallSet)]
  BY DEF StacksOK
<1>2. /\ Len(stack[c]) \in Nat \ {0} /\ DOMAIN stack[c] = 1 .. Len(stack[c])
      /\ \A k \in 1 .. Len(stack[c]) : stack[c][k] \in CallSet
  BY <1>1, EmptySeq, LenProperties, ElementOfSeq
<1>3. /\ Front(stack[c]) \in Seq(CallSet)
      /\ DOMAIN Front(stack[c]) = 1 .. Len(stack[c]) - 1
      /\ \A k \in 1 .. Len(stack[c]) - 1 : Front(stack[c])[k] = stack[c][k]
  <2> DEFINE front == SubSeq(stack[c], 1, Len(stack[c]) - 1)
  <2>1. /\ front \in Seq(CallSet)
        /\ Len(front) = IF 1 <= Len(stack[c]) - 1 THEN Len(stack[c]) - 1 - 1 + 1 ELSE 0
        /\ \A k \in 1 .. Len(stack[c]) - 1 - 1 + 1 : front[k] = stack[c][1 + k - 1]
    BY <1>2, SubSeqProperties
  <2>2. Front(stack[c]) = front
    BY DEF Front
  <2> HIDE DEF front
  <2>3. DOMAIN front = 1 .. Len(front)
    BY <2>1, LenProperties
  <2>4. Len(front) = Len(stack[c]) - 1
    BY <1>2, <2>1
  <2>5. ASSUME NEW k \in 1 .. Len(stack[c]) - 1
        PROVE  front[k] = stack[c][k]
    <3>1. 1 + k - 1 = k /\ k \in 1 .. Len(stack[c]) - 1 - 1 + 1
      BY <1>2
    <3> QED
      BY <2>1, <3>1
  <2> QED
    BY <2>1, <2>2, <2>3, <2>4, <2>5
<1>4. /\ stack' \in [Callers -> Seq(CallSet)] /\ stack'[c] = Front(stack[c])
      /\ \A d \in Callers : d # c => stack'[d] = stack[d]
  BY <1>1, <1>3
<1>5. ASSUME NEW d \in Callers, NEW k \in DOMAIN stack'[d]
      PROVE  CallOK(stack'[d][k])
  <2>1. CASE d = c
    <3>1. k \in DOMAIN stack[c] /\ stack'[c][k] = stack[c][k]
      BY <1>2, <1>3, <1>4, <1>5, <2>1
    <3> QED
      BY <2>1, <3>1 DEF StacksOK
  <2>2. CASE d # c
    BY <1>4, <1>5, <2>2 DEF StacksOK
  <2> QED
    BY <2>1, <2>2
<1>6. \A d \in Callers : \A k \in DOMAIN stack'[d] : CallOK(stack[d][k])'
  BY <1>5, SinksStay
<1> QED
  BY <1>4, <1>6 DEF StacksOK

LEMMA StacksStay ==
  ASSUME StacksOK, hooks' = hooks, stack' = stack
  PROVE  StacksOK'
<1>1. \A d \in Callers : \A k \in DOMAIN stack[d] : CallOK(stack[d][k])'
  BY SinksStay DEF StacksOK
<1> QED
  BY <1>1 DEF StacksOK

\* Every step keeps every call right.
LEMMA StacksInductive ==
  ASSUME StacksOK, Next
  PROVE  StacksOK'
<1>1. hooks' = hooks
  BY DEF Next, Construct, Step, Prepare, CallHook, StartAttempt, Respond, Fail, EndOperation,
         Leave, Return, Closed, Call, HookCalls, HookCloses, Cancel, Close, clientVars
<1>2. CASE Construct
  BY <1>1, <1>2, StacksStay DEF Construct
<1>3. ASSUME NEW c \in Callers, Closed(c) \/ Close(c)
      PROVE  StacksOK'
  BY <1>1, <1>3, StacksStay DEF Closed, Close
<1>4. ASSUME NEW c \in Callers, Prepare(c)
      PROVE  StacksOK'
  <2>1. /\ stack[c] # <<>> /\ CallOK(Top(c)) /\ Top(c).at = "prepare" /\ Top(c).tell = <<>>
    BY <1>4, TopRight DEF Prepare, Ready, At
  <2>2. /\ CallOK([Top(c) EXCEPT !.at = "attempt", !.tell = Start(Top(c))])
        /\ CallOK([Top(c) EXCEPT !.at = "leave", !.outcome = [tag |-> "refused"]])
    BY <2>1, PreparedKeeps
  <2>3. \/ Becomes(c, [Top(c) EXCEPT !.at = "attempt", !.tell = Start(Top(c))])
        \/ Becomes(c, [Top(c) EXCEPT !.at = "leave", !.outcome = [tag |-> "refused"]])
    BY <1>4 DEF Prepare
  <2> QED
    BY <1>1, <2>1, <2>2, <2>3, BecomesRight
<1>5. ASSUME NEW c \in Callers, CallHook(c) \/ HookCloses(c)
      PROVE  StacksOK'
  <2>1. stack[c] # <<>> /\ CallOK(Top(c)) /\ Top(c).tell # <<>>
    BY <1>5, TopRight DEF CallHook, HookCloses, Telling
  <2>2. PICK next \in Hooked(Top(c)) : Becomes(c, next)
    BY <1>5 DEF CallHook, HookCloses
  <2>3. CallOK(next)
    BY <2>1, HookedKeeps
  <2> QED
    BY <1>1, <2>1, <2>2, <2>3, BecomesRight
<1>6. ASSUME NEW c \in Callers, Call(c)
      PROVE  StacksOK'
  <2>1. PICK op \in Uses[c] : Lease(c, <<>>, op)
    BY <1>6 DEF Call
  <2>2. op \in Operations /\ <<>> \in Seq(CallSet) /\ DOMAIN <<>> = {}
    BY OperationsAssumption, EmptySeq
  <2> QED
    BY <1>1, <2>1, <2>2, LeaseRight
<1>7. ASSUME NEW c \in Callers, HookCalls(c)
      PROVE  StacksOK'
  <2> DEFINE n == Len(stack[c])
  <2>1. stack[c] # <<>> /\ CallOK(Top(c)) /\ Top(c).tell # <<>>
    BY <1>7, TopRight DEF HookCalls, Telling
  <2>2. PICK op \in Uses[c], next \in Hooked(Top(c)) : Lease(c, [stack[c] EXCEPT ![n] = next], op)
    BY <1>7 DEF HookCalls
  <2> DEFINE calls == [stack[c] EXCEPT ![n] = next]
  <2>3. op \in Operations
    BY OperationsAssumption
  <2>4. CallOK(next) /\ next \in CallSet
    BY <2>1, HookedKeeps DEF CallOK
  <2>5. stack[c] \in Seq(CallSet) /\ n \in 1 .. n /\ DOMAIN stack[c] = 1 .. n
    BY <2>1, EmptySeq, LenProperties DEF StacksOK
  <2>6. /\ calls \in Seq(CallSet) /\ DOMAIN calls = 1 .. n
        /\ \A k \in 1 .. n : calls[k] = IF k = n THEN next ELSE stack[c][k]
    BY <2>4, <2>5, ExceptSeq, LenProperties
  <2>7. \A k \in DOMAIN calls : CallOK(calls[k])
    BY <2>4, <2>5, <2>6 DEF StacksOK
  <2> HIDE DEF calls
  <2>8. Lease(c, calls, op)
    BY <2>2 DEF calls
  <2> QED
    BY <1>1, <2>3, <2>6, <2>7, <2>8, LeaseRight
<1>8. ASSUME NEW c \in Callers, StartAttempt(c)
      PROVE  StacksOK'
  <2> DEFINE call == Top(c)
             next == [call EXCEPT !.attempt = @ + 1]
  <2>1. stack[c] # <<>> /\ CallOK(call) /\ call.at = "attempt" /\ call.tell = <<>>
    BY <1>8, TopRight DEF StartAttempt, Ready, At
  <2>2. CASE call.attempt > 0 /\ Becomes(c, Ended(call, ErrorOutcome))
    <3>1. CallOK(Ended(call, ErrorOutcome))
      BY <2>1, <2>2, NoAnswerKeeps
    <3> QED
      BY <1>1, <2>1, <2>2, <3>1, BecomesRight
  <2>3. CASE Becomes(c, [next EXCEPT !.at = "dispatch", !.tell = AttemptStart(next)])
    <3>1. CallOK([next EXCEPT !.at = "dispatch", !.tell = AttemptStart(next)])
      BY <2>1, AttemptKeeps
    <3> QED
      BY <1>1, <2>1, <2>3, <3>1, BecomesRight
  <2> QED
    BY <1>8, <2>2, <2>3 DEF StartAttempt
<1>9. ASSUME NEW c \in Callers, Respond(c)
       PROVE  StacksOK'
  <2> DEFINE call == Top(c)
  <2>1. stack[c] # <<>> /\ CallOK(call) /\ call.at = "dispatch" /\ call.tell = <<>>
    BY <1>9, TopRight DEF Respond, Ready, At
  <2>2. PICK response \in Responses :
          Becomes(c, [Ended(call, Decoded(call, response)) EXCEPT !.response = response])
    BY <1>9 DEF Respond
  <2>3. CallOK([Ended(call, Decoded(call, response)) EXCEPT !.response = response])
    BY <2>1, AnswerKeeps
  <2> QED
    BY <1>1, <2>1, <2>2, <2>3, BecomesRight
<1>10. ASSUME NEW c \in Callers, Fail(c)
       PROVE  StacksOK'
  <2> DEFINE call == Top(c)
  <2>1. stack[c] # <<>> /\ CallOK(call) /\ call.at = "dispatch" /\ call.tell = <<>>
    BY <1>10, TopRight DEF Fail, Ready, At
  <2>2. CASE Becomes(c, [call EXCEPT !.at = "attempt", !.tell = RetryScheduled(call)])
    <3>1. CallOK([call EXCEPT !.at = "attempt", !.tell = RetryScheduled(call)])
      BY <2>1, RetryKeeps
    <3> QED
      BY <1>1, <2>1, <2>2, <3>1, BecomesRight
  <2>3. CASE Becomes(c, Ended(call, ErrorOutcome))
    <3>1. CallOK(Ended(call, ErrorOutcome))
      BY <2>1, NoAnswerKeeps
    <3> QED
      BY <1>1, <2>1, <2>3, <3>1, BecomesRight
  <2> QED
    BY <1>10, <2>2, <2>3 DEF Fail
<1>11. ASSUME NEW c \in Callers, Cancel(c)
       PROVE  StacksOK'
  <2> DEFINE call == Top(c)
  <2>1. /\ stack[c] # <<>> /\ CallOK(call) /\ call.tell = <<>>
        /\ call.at = "dispatch" \/ (call.at = "attempt" /\ call.attempt > 0)
    BY <1>11, TopRight DEF Cancel, Ready, At
  <2>2. CallOK(Ended(call, [tag |-> "cancelled"]))
    BY <2>1, NoAnswerKeeps DEF Cancelled
  <2>3. Becomes(c, Ended(call, [tag |-> "cancelled"]))
    BY <1>11 DEF Cancel
  <2> QED
    BY <1>1, <2>1, <2>2, <2>3, BecomesRight
<1>12. ASSUME NEW c \in Callers, EndOperation(c)
       PROVE  StacksOK'
  <2>1. stack[c] # <<>> /\ CallOK(Top(c)) /\ Top(c).at = "end" /\ Top(c).tell = <<>>
    BY <1>12, TopRight DEF EndOperation, Ready, At
  <2>2. CallOK([Top(c) EXCEPT !.at = "leave", !.tell = End(Top(c))])
    BY <2>1, EndToldKeeps
  <2>3. Becomes(c, [Top(c) EXCEPT !.at = "leave", !.tell = End(Top(c))])
    BY <1>12 DEF EndOperation
  <2> QED
    BY <1>1, <2>1, <2>2, <2>3, BecomesRight
<1>13. ASSUME NEW c \in Callers, Leave(c)
       PROVE  StacksOK'
  <2>1. stack[c] # <<>> /\ CallOK(Top(c)) /\ Top(c).at = "leave" /\ Top(c).tell = <<>>
    BY <1>13, TopRight DEF Leave, Ready, At
  <2>2. CallOK([Top(c) EXCEPT !.at = "returned"])
    BY <2>1, LeftKeeps
  <2>3. Becomes(c, [Top(c) EXCEPT !.at = "returned"])
    BY <1>13 DEF Leave
  <2> QED
    BY <1>1, <2>1, <2>2, <2>3, BecomesRight
<1>14. ASSUME NEW c \in Callers, Return(c)
       PROVE  StacksOK'
  BY <1>1, <1>14, ReturnRight DEF Return, Ready, At
<1> QED
  BY <1>2, <1>3, <1>4, <1>5, <1>6, <1>7, <1>8, <1>9, <1>10, <1>11, <1>12, <1>13, <1>14
     DEF Next, Step

-----------------------------------------------------------------------------
(* What the stories say                                                     *)

LEMMA UnderwayIsProper ==
  ASSUME NEW events, NEW n, Underway(events, n), NEW call
  PROVE  ProperStory(events, call)
BY DEF Underway, ProperStory, Tries

\* An end is a proper event when it counts the attempts and has the outcome.
LEMMA EndIsProper ==
  ASSUME NEW events \in Seq(EventSet), events # <<>>, NEW call, ProperStory(events, call),
         NEW event \in EventSet, event.name \in {"operation.end", "end"},
         event.name = "operation.end" =>
           event.attempt = Tries(events, Len(events)) /\ event.outcome = call.outcome.tag
  PROVE  ProperStory(Append(events, event), call)
<1> DEFINE more == Append(events, event)
           k == Len(events)
           proper(story, i) ==
             /\ story[i].name = "operation.start" <=> i = 1
             /\ story[i].name = "attempt.start" => story[i].attempt = Tries(story, i)
             /\ story[i].name = "retry.scheduled" =>
                  story[i].attempt = Tries(story, i) + 1 /\ story[i - 1].name = "attempt.start"
             /\ story[i].name = "operation.end" =>
                  story[i].attempt = Tries(story, i) /\ story[i].outcome = call.outcome.tag
<1>1. /\ k \in Nat /\ k > 0 /\ Len(more) = k + 1 /\ more[k + 1] = event
      /\ \A j \in 1 .. k : more[j] = events[j]
      /\ DOMAIN more = 1 .. k + 1 /\ DOMAIN events = 1 .. k
      /\ more \in Seq(EventSet)
  BY AppendProperties, LenProperties, EmptySeq
<1>2. /\ \A i \in 0 .. k : Tries(more, i) = Tries(events, i)
      /\ Tries(more, k + 1) = Tries(events, k)
  <2>1. /\ \A i \in 0 .. k : Tries(more, i) = Tries(events, i)
        /\ Tries(more, Len(more)) = Tries(events, k) + 0 /\ Tries(events, k) \in Nat
    BY TriesAppend
  <2> QED
    BY <1>1, <2>1
<1>3. \A i \in 1 .. k : proper(events, i)
  BY <1>1 DEF ProperStory, Tries
<1>4. event.name = "operation.end" =>
        event.attempt = Tries(events, k) /\ event.outcome = call.outcome.tag
  OBVIOUS
<1>5. (\A i \in 1 .. k + 1 : proper(more, i)) => ProperStory(more, call)
  BY <1>1 DEF ProperStory, Tries
<1> HIDE DEF more, k
<1>6. ASSUME NEW i \in 1 .. k
      PROVE  proper(more, i)
  <2>1. more[i] = events[i] /\ Tries(more, i) = Tries(events, i)
    BY <1>1, <1>2
  <2>2. CASE i = 1
    BY <1>1, <1>3, <2>1, <2>2
  <2>3. CASE i # 1
    <3>1. more[i - 1] = events[i - 1]
      BY <1>1, <2>3
    <3> QED
      BY <1>3, <2>1, <3>1
  <2> QED
    BY <2>2, <2>3
<1>7. proper(more, k + 1)
  BY <1>1, <1>2, <1>4
<1>8. \A i \in 1 .. k + 1 : i \in 1 .. k \/ i = k + 1
  BY <1>1
<1> QED
  BY <1>5, <1>6, <1>7, <1>8 DEF more

\* The last names of a story are those of its last events.
LEMMA LastNames ==
  ASSUME NEW events \in Seq(EventSet), NEW names \in Seq(EventNames), Len(names) <= Len(events),
         \A i \in 1 .. Len(names) : names[i] = events[Len(events) - Len(names) + i].name
  PROVE  IsSuffix(names, Names(events))
<1> DEFINE n == Len(events)
           m == Len(names)
           all == Names(events)
           s == Reverse(names)
           t == Reverse(all)
<1>1. n \in Nat /\ m \in Nat /\ m <= n /\ DOMAIN events = 1 .. n
  BY LenProperties
<1>2. \A f : \A k \in Nat : f \in [1 .. k -> EventNames] => f \in Seq(EventNames) /\ Len(f) = k
  <2> SUFFICES ASSUME NEW f, NEW k \in Nat, f \in [1 .. k -> EventNames]
               PROVE  f \in Seq(EventNames) /\ Len(f) = k
    OBVIOUS
  <2>1. f \in Seq(EventNames)
    BY SeqDef
  <2>2. 1 .. Len(f) = 1 .. k /\ Len(f) \in Nat
    BY <2>1, LenProperties
  <2> QED
    BY <2>1, <2>2
<1>3. all \in [1 .. n -> EventNames] /\ \A i \in 1 .. n : all[i] = events[i].name
  <2>1. \A i \in 1 .. n : events[i].name \in EventNames
    <3>1. \A i \in 1 .. n : events[i] \in EventSet
      BY ElementOfSeq
    <3> QED
      BY <3>1 DEF EventSet, EventNames
  <2> QED
    BY <1>1, <2>1 DEF Names
<1>4. all \in Seq(EventNames) /\ Len(all) = n
  BY <1>1, <1>2, <1>3
<1> HIDE DEF all
<1>5. /\ s \in [1 .. m -> EventNames] /\ \A i \in 1 .. m : s[i] = names[m - i + 1]
  <2>1. \A i \in 1 .. m : m - i + 1 \in 1 .. m
    BY <1>1
  <2>2. \A i \in 1 .. m : names[i] \in EventNames
    BY ElementOfSeq
  <2> QED
    BY <2>1, <2>2 DEF Reverse
<1>6. /\ t \in [1 .. n -> EventNames] /\ \A i \in 1 .. n : t[i] = all[n - i + 1]
  <2>1. \A i \in 1 .. n : n - i + 1 \in 1 .. n
    BY <1>1
  <2> QED
    BY <1>3, <1>4, <2>1 DEF Reverse
<1>7. s \in Seq(EventNames) /\ Len(s) = m /\ t \in Seq(EventNames) /\ Len(t) = n
  BY <1>1, <1>2, <1>5, <1>6
<1>8. \A i \in 1 .. m : s[i] = t[i]
  <2> SUFFICES ASSUME NEW i \in 1 .. m
               PROVE  s[i] = t[i]
    OBVIOUS
  <2>1. m - i + 1 \in 1 .. m /\ i \in 1 .. n /\ n - i + 1 \in 1 .. n
    BY <1>1
  <2>2. names[m - i + 1] = events[n - m + (m - i + 1)].name /\ n - m + (m - i + 1) = n - i + 1
    BY <1>1, <2>1
  <2> QED
    BY <1>3, <1>5, <1>6, <2>1, <2>2
<1> HIDE DEF s, t
<1>9. SubSeq(s, 1, m) = SubSeq(t, 1, m)
  <2>1. \A i \in 1 .. m : s[i] \in EventNames /\ t[i] \in EventNames
    <3>1. \A i \in 1 .. m : i \in 1 .. n
      BY <1>1
    <3>2. \A i \in 1 .. n : t[i] \in EventNames
      BY <1>6
    <3>3. \A i \in 1 .. m : s[i] \in EventNames
      BY <1>5
    <3> QED
      BY <3>1, <3>2, <3>3
  <2>2. /\ SubSeq(s, 1, m) \in Seq(EventNames)
        /\ Len(SubSeq(s, 1, m)) = IF 1 <= m THEN m - 1 + 1 ELSE 0
        /\ \A i \in 1 .. m - 1 + 1 : SubSeq(s, 1, m)[i] = s[1 + i - 1]
    BY <1>1, <2>1, SubSeqProperties
  <2>3. /\ SubSeq(t, 1, m) \in Seq(EventNames)
        /\ Len(SubSeq(t, 1, m)) = IF 1 <= m THEN m - 1 + 1 ELSE 0
        /\ \A i \in 1 .. m - 1 + 1 : SubSeq(t, 1, m)[i] = t[1 + i - 1]
    BY <1>1, <2>1, SubSeqProperties
  <2>4. /\ Len(SubSeq(s, 1, m)) = m /\ Len(SubSeq(t, 1, m)) = m
    BY <1>1, <2>2, <2>3
  <2>5. \A i \in 1 .. m : SubSeq(s, 1, m)[i] = SubSeq(t, 1, m)[i]
    BY <1>1, <1>8, <2>2, <2>3
  <2> QED
    BY <2>2, <2>3, <2>4, <2>5, SeqEqual
<1> QED
  BY <1>7, <1>9 DEF IsSuffix, IsPrefix, s, t, all

\* A story whose end has been told ends in it.
LEMMA OverFacts ==
  ASSUME NEW events \in Seq(EventSet), NEW n, NEW call, Over(events, n, call.outcome.tag)
  PROVE  ProperStory(events, call) /\ EndsIn(events, <<"operation.end">>)
<1>1. PICK told \in Seq(EventSet), event \in EventSet :
        /\ Underway(told, n) /\ events = Append(told, event)
        /\ event.name = "operation.end" /\ event.attempt = n /\ event.outcome = call.outcome.tag
  BY DEF Over
<1>2. told # <<>> /\ Tries(told, Len(told)) = n
  BY <1>1 DEF Underway
<1>3. ProperStory(events, call)
  <2>1. ProperStory(told, call)
    BY <1>1, UnderwayIsProper
  <2> QED
    BY <1>1, <1>2, <2>1, EndIsProper
<1>4. /\ Len(told) \in Nat /\ Len(events) = Len(told) + 1 /\ events[Len(told) + 1] = event
      /\ \A i \in 1 .. Len(told) : events[i] = told[i]
      /\ DOMAIN told = 1 .. Len(told)
  BY <1>1, AppendProperties, LenProperties
<1> DEFINE names == <<"operation.end">>
<1>5. names \in Seq(EventNames) /\ Len(names) = 1 /\ names[1] = "operation.end"
  BY DEF EventNames
<1> HIDE DEF names
<1>6. IsSuffix(names, Names(events))
  <2>1. Len(names) <= Len(events)
    BY <1>4, <1>5
  <2>2. \A i \in 1 .. Len(names) : names[i] = events[Len(events) - Len(names) + i].name
    BY <1>1, <1>4, <1>5
  <2> QED
    BY <2>1, <2>2, <1>5, LastNames
<1>7. \A i \in 1 .. Len(events) - Len(names) : events[i].name # "operation.end"
  BY <1>1, <1>4, <1>5 DEF Underway
<1> QED
  BY <1>3, <1>6, <1>7 DEF EndsIn, names

\* And the story of a span that has been ended ends in both.
LEMMA SealedFacts ==
  ASSUME NEW events \in Seq(EventSet), NEW n, NEW call, Sealed(events, n, call.outcome.tag)
  PROVE  ProperStory(events, call) /\ EndsIn(events, <<"operation.end", "end">>)
<1>1. PICK told \in Seq(EventSet), event \in EventSet :
        /\ Over(told, n, call.outcome.tag) /\ events = Append(told, event) /\ event.name = "end"
  BY DEF Sealed
<1>2. PICK before \in Seq(EventSet), over \in EventSet :
        /\ Underway(before, n) /\ told = Append(before, over) /\ over.name = "operation.end"
  BY <1>1 DEF Over
<1>3. ProperStory(events, call)
  <2>1. ProperStory(told, call)
    BY <1>1, OverFacts
  <2>2. told # <<>>
    BY <1>2, AppendProperties
  <2> QED
    BY <1>1, <2>1, <2>2, EndIsProper
<1>4. /\ Len(before) \in Nat /\ Len(told) = Len(before) + 1 /\ told[Len(before) + 1] = over
      /\ \A i \in 1 .. Len(before) : told[i] = before[i]
      /\ DOMAIN before = 1 .. Len(before)
  BY <1>2, AppendProperties, LenProperties
<1>5. /\ Len(events) = Len(told) + 1 /\ events[Len(told) + 1] = event
      /\ \A i \in 1 .. Len(told) : events[i] = told[i]
  BY <1>1, AppendProperties
<1> DEFINE names == <<"operation.end", "end">>
<1>6. names \in Seq(EventNames) /\ Len(names) = 2 /\ names[1] = "operation.end" /\ names[2] = "end"
  BY DEF EventNames
<1> HIDE DEF names
<1>7. /\ Len(events) = Len(before) + 2 /\ events[Len(before) + 2] = event
      /\ events[Len(before) + 1] = over
      /\ \A i \in 1 .. Len(before) : events[i] = before[i]
  BY <1>4, <1>5
<1>8. IsSuffix(names, Names(events))
  <2>1. Len(names) <= Len(events)
    BY <1>4, <1>6, <1>7
  <2>2. \A i \in 1 .. Len(names) : names[i] = events[Len(events) - Len(names) + i].name
    <3>1. /\ Len(events) - Len(names) + 1 = Len(before) + 1
          /\ Len(events) - Len(names) + 2 = Len(before) + 2
      BY <1>4, <1>6, <1>7
    <3>2. \A i \in 1 .. Len(names) : i = 1 \/ i = 2
      BY <1>6
    <3> QED
      BY <1>1, <1>2, <1>6, <1>7, <3>1, <3>2
  <2> QED
    BY <2>1, <2>2, <1>6, LastNames
<1>9. \A i \in 1 .. Len(events) - Len(names) : events[i].name # "operation.end"
  BY <1>2, <1>4, <1>6, <1>7 DEF Underway
<1> QED
  BY <1>3, <1>8, <1>9 DEF EndsIn, names

\* Whatever a right call has come to, its stories are proper.
LEMMA RightStories ==
  ASSUME NEW call, NEW listener, NEW events \in Seq(EventSet), StoryOK(call, listener, events)
  PROVE  /\ ProperStory(events, call)
         /\ TurnedAway(call) => events = <<>>
         /\ call.at = "returned" /\ call.tell = <<>> /\ ~TurnedAway(call) /\ Hears(call, listener) =>
              EndsIn(events, IF listener = "diagnostic" THEN <<"operation.end">>
                             ELSE <<"operation.end", "end">>)
<1>1. \/ events = <<>>
      \/ \E n : Underway(events, n)
      \/ Over(events, call.attempt, call.outcome.tag)
      \/ Sealed(events, call.attempt, call.outcome.tag)
  BY DEF StoryOK, Trying
<1>2. ProperStory(events, call)
  <2>1. CASE events = <<>>
    BY <2>1 DEF ProperStory
  <2>2. CASE \E n : Underway(events, n)
    BY <2>2, UnderwayIsProper
  <2>3. CASE Over(events, call.attempt, call.outcome.tag)
    BY <2>3, OverFacts
  <2>4. CASE Sealed(events, call.attempt, call.outcome.tag)
    BY <2>4, SealedFacts
  <2> QED
    BY <1>1, <2>1, <2>2, <2>3, <2>4
<1>3. TurnedAway(call) => events = <<>>
  BY DEF StoryOK
<1>4. ASSUME call.at = "returned", call.tell = <<>>, ~TurnedAway(call), Hears(call, listener)
      PROVE  EndsIn(events, IF listener = "diagnostic" THEN <<"operation.end">>
                            ELSE <<"operation.end", "end">>)
  <2>1. ~Owed(call, listener) /\ ~EndsSpan(call.tell)
    BY <1>4 DEF Owed, Tells, EndsSpan
  <2>2. IF listener = "diagnostic" THEN Over(events, call.attempt, call.outcome.tag)
        ELSE Sealed(events, call.attempt, call.outcome.tag)
    BY <1>4, <2>1 DEF StoryOK
  <2> QED
    BY <2>2, OverFacts, SealedFacts
<1> QED
  BY <1>2, <1>3, <1>4

\* What a right call gives its caller is what the service answered.
LEMMA RightResult ==
  ASSUME NEW call \in CallSet, ResultOK(call), call.at = "returned"
  PROVE  /\ call.outcome.tag = "refused" <=> TurnedAway(call)
         /\ call.outcome.tag = "success" =>
              /\ call.response.status = Success[call.op] /\ call.response.body \in Decodable
              /\ call.response.bytes <= MaxResponseBytes
         /\ call.response # None /\ call.outcome.tag = "error" =>
              /\ call.outcome.status = call.response.status
              /\ call.outcome.problem # None => call.outcome.problem.status \in 400 .. 599
                                                /\ call.outcome.problem.status = call.response.status
<1>1. \/ call.outcome = Refused /\ call.response = None
      \/ call.outcome = ErrorOutcome /\ call.response = None
      \/ call.outcome = Cancelled /\ call.response = None
      \/ call.response \in Responses /\ call.outcome = Decoded(call, call.response)
  BY DEF ResultOK, Got
<1>2. /\ Refused.tag = "refused" /\ ErrorOutcome.tag = "error" /\ Cancelled.tag = "cancelled"
  BY DEF Refused, ErrorOutcome, Cancelled
<1>3. CASE call.outcome = Refused /\ call.response = None
  BY <1>2, <1>3 DEF TurnedAway
<1>4. CASE call.outcome = ErrorOutcome /\ call.response = None
  BY <1>2, <1>4 DEF TurnedAway
<1>5. CASE call.outcome = Cancelled /\ call.response = None
  BY <1>2, <1>5 DEF TurnedAway
<1>6. CASE call.response \in Responses /\ call.outcome = Decoded(call, call.response)
  <2>1. Honest(call, call.response, call.outcome)
    BY <1>6, DecodedFacts
  <2>2. ~(call.response.bytes > MaxResponseBytes) => call.response.bytes <= MaxResponseBytes
    BY <1>6, ResponseAssumption
  <2> QED
    BY <1>2, <2>1, <2>2 DEF TurnedAway, Honest
<1> QED
  BY <1>1, <1>3, <1>4, <1>5, <1>6

LEMMA StacksAgree ==
  ASSUME StacksOK
  PROVE  StoriesAgree
<1> SUFFICES ASSUME NEW c \in Callers, NEW k \in DOMAIN stack[c]
             PROVE  StoryAgrees(stack[c][k])
  BY DEF StoriesAgree
<1>1. PICK call \in CallSet : call = stack[c][k]
  BY DEF StacksOK, CallOK
<1>2. /\ StoryOK(call, "diagnostic", call.heard) /\ StoryOK(call, "span", call.traced)
      /\ ResultOK(call) /\ call.tell \in Rests(call)
      /\ call.heard \in Seq(EventSet) /\ call.traced \in Seq(EventSet)
  BY <1>1 DEF StacksOK, CallOK, CallSet
<1>3. ProperStory(call.heard, call) /\ ProperStory(call.traced, call)
  BY <1>2, RightStories
<1>4. ASSUME call.at = "returned"
      PROVE  /\ call.outcome.tag = "refused" => call.heard = <<>> /\ call.traced = <<>>
             /\ call.outcome.tag # "refused" =>
                  /\ "diagnostic" \in hooks => EndsIn(call.heard, <<"operation.end">>)
                  /\ call.span => EndsIn(call.traced, <<"operation.end", "end">>)
  <2>1. call.tell = <<>>
    BY <1>2, <1>4 DEF Rests
  <2>2. call.outcome.tag = "refused" <=> TurnedAway(call)
    BY <1>2, <1>4, RightResult
  <2>3. /\ Hears(call, "diagnostic") <=> "diagnostic" \in hooks
        /\ Hears(call, "span") <=> call.span
    BY <1>1 DEF Hears, CallSet
  <2>4. /\ TurnedAway(call) => call.heard = <<>>
        /\ ~TurnedAway(call) /\ Hears(call, "diagnostic") => EndsIn(call.heard, <<"operation.end">>)
    BY <1>2, <1>4, <2>1, RightStories
  <2>5. /\ TurnedAway(call) => call.traced = <<>>
        /\ ~TurnedAway(call) /\ Hears(call, "span") => EndsIn(call.traced, <<"operation.end", "end">>)
    BY <1>2, <1>4, <2>1, RightStories
  <2> QED
    BY <2>2, <2>3, <2>4, <2>5
<1>5. StoryAgrees(call)
  BY <1>2, <1>3, <1>4, RightResult DEF StoryAgrees
<1> QED
  BY <1>1, <1>5

\* What the service answered, what the caller is given and what the sinks and the
\* span are told agree, for every number of callers, calls within calls and retries.
THEOREM StoriesSafe == Spec => []StoriesAgree
<1>1. Init => StacksOK
  <2> SUFFICES ASSUME Init
               PROVE  StacksOK
    OBVIOUS
  <2>1. stack = [c \in Callers |-> <<>>] /\ <<>> \in Seq(CallSet) /\ DOMAIN <<>> = {}
    BY EmptySeq DEF Init
  <2> QED
    BY <2>1 DEF StacksOK
<1>2. StacksOK /\ [Next]_vars => StacksOK'
  <2> SUFFICES ASSUME StacksOK, [Next]_vars
               PROVE  StacksOK'
    OBVIOUS
  <2>1. CASE Next
    BY <2>1, StacksInductive
  <2>2. CASE UNCHANGED vars
    BY <2>2, StacksStay DEF vars, clientVars
  <2> QED
    BY <2>1, <2>2
<1>3. StacksOK => StoriesAgree
  BY StacksAgree
<1> QED
  BY <1>1, <1>2, <1>3, PTL DEF Spec
=============================================================================
