# A TLA+ development of cuna-sdk

The Python SDK of Cuna (`src/src/cuna`) is a client library with a synchronous
and an asynchronous face: `Cuna` runs in threads, `AsyncCuna` in the tasks of an
event loop. Both admit calls, carry each one through up to three attempts under
two deadlines, and close what they own. Paths below start at the repository's
`src/`; `client.py`, `resilience.py`, `transport.py`, `observability.py`,
`config.py` and `bridge.py` are those of `src/src/cuna`.

## The system

| part | state it keeps | operations | talks to |
|---|---|---|---|
| `AsyncCuna` (`client.py` 2288-2593) | `_state`, `_close_active`, `_admitted`, a condition | `_lease`, `_invoke`, `close` | tasks, `run_async`, the transport, an observer |
| `Cuna` (`client.py` 1235-1525) | `_state`, `_admitted`, a condition | the same | threads, `run_sync`, the transport, an observer |
| retry and deadlines (`resilience.py`) | the process-wide dispatch permits; attempt number and clocks of a call | `run_sync`, `run_async`, `_dispatch_with_timeout`, `full_jitter_delay` | worker threads, `asyncio.wait_for` |
| transports (`transport.py`) | `_closed`, the httpx client (made on first use when asynchronous) | `__call__`, `close`, `disposition`, request preparation | httpx |
| session handles (`client.py` 1067-1232 and the asynchronous twin) | `_snapshot` (under a lock when synchronous) | `refresh`, lifecycle, `exec`, `checkpoint`, `open`, `delete` | a manager |
| resource managers (`client.py` 557-1064 and the twins) | none | one `_invoke` each, argument and identity checks | a client, the decoders |
| workspace synchronisation (`client.py` 599-715, `bridge.py`) | none in the SDK; protocol, capabilities and digests in the envelopes | begin, negotiate, chunks, commit, changes, reconcile | a client, the decoders |
| decoding (`bridge.py`) | none | one decoder per response | |
| configuration (`config.py`) | an immutable configuration | `resolve_config` over five sources | the constructors |
| observation (`observability.py`) | span, attempt count, start time | start, attempt, retry, end | sinks of the program |
| redaction, constraints, models, errors | none | | |
| publication (`tools/publication_state.py`, `release.yml`, `publication-recovery.yml`) | a record, the registry, a GitHub release, artifacts of runs | create-tag, publish, promote, recover | the gates, the registry, GitHub |
| evidence and approval (`release-evidence.yml` and the gates under `tools`) | files in a directory | one gate per step of a workflow | the release authority, the approval provider |
| documentation, performance and packaging gates (`tools`) | none | one pass over files each | |

What makes them hard:

- **Admission against close.** A call holds its lease over all its attempts, the
  delays between them included; `close()` must neither miss one nor wait for one
  that is gone. Correct when the count is the number of calls inside, and no
  admitted call ever meets a closed transport.
- **Who leads.** Several tasks or threads may close at once. One leads and the
  others wait on the same condition as the draining leader; the lead of a
  cancelled asynchronous leader passes on. Correct when one leads, a recorded
  lead has a leader, and no wake-up is lost.
- **Cancellation.** It may be raised at every `await`, after the answer has come,
  and may have been counted before the call began.
- **Workers that hang.** The synchronous client runs every attempt in a thread
  with one of eight permits of the process and abandons it at its deadline.
  Correct when a late answer reaches nobody, full capacity fails rather than
  waits, and no second request is sent while an abandoned one is out.
- **Deadlines.** The time left is read, then a sink of the program runs, then the
  attempt starts. Correct when no late value is returned and every call ends.
- **Answers.** Those of concurrent calls arrive in any order; one may belong to
  another request, be damaged, or be late. Correct when a handle shows nothing its
  own machine never was, goes back only by a race, and a method that checks what
  it returns never returns anything but the answer to a request that agrees with
  its own in all that it checks.
- **Sinks.** The program's code runs between the steps of a call, with its lease
  held. Correct when whatever it does changes neither the outcome nor the story
  the other events tell, and only a sink or span that closes its own client can hang.
- **Publication.** An upload cannot be undone or repeated, a workflow may stop
  between any two of its steps, and approval and evidence expire. Correct when what
  is uploaded was approved and checked a moment before, every record is true, and
  recovery ends what the publication began.

## Modules

| module | models | runs |
|---|---|---|
| `ClientLifecycle` | what a client promises: admission, release, close | as `LifecycleSpec` |
| `AsyncClient` | `AsyncCuna`: lease, attempts, cancellation, `close`, `AsyncHttpTransport` | `async_*` |
| `AsyncClientProofs` | theorems about `AsyncClient` | |
| `SyncClient` | `Cuna`: lease, workers, permits, `close`, `KeyboardInterrupt`, `SyncHttpTransport` | `sync_client` |
| `SyncClientProofs` | theorems about `SyncClient` | |
| `Retry` | one call's attempts against the clock, both policies, the jitter | `retry`, `retry_started` |
| `RetryProofs` | theorems about `Retry` | |
| `Contract` | the decoders: which bodies each of them takes | through `resources` |
| `Requests` | what the managers ask of their arguments | through `resources` |
| `Resources` | managers and handles of both clients, shared by callers, and the service | `resources` |
| `Exchange` | configuration, request preparation, disposition of responses | through `invocation` |
| `Invocation` | construction, calls, events and sinks, close | `invocation` |
| `ReleaseGates` | the gates of the release and the documents they write | through `publication` |
| `Publication` | the release, evidence and recovery workflows | `publication`, `publication_receipt` |
| `StoryProofs` | what the calls of `Invocation` tell and return | |
| `InvocationProofs` | how `Invocation` constructs clients, and the promise it keeps | |
| `ResourcesProofs` | the handles of `Resources` | |
| `AnswerProofs` | what the methods of `Resources` return | |
| `PublicationProofs` | theorems about `Publication` | |
| `MC*` | the instances TLC checks | |

`Resources` extends `Requests`, which extends `Contract`; `Invocation` extends
`Exchange`; `Publication` extends `ReleaseGates`. In each group the first holds the
state and the steps, the others what one step computes. A `Slip` in a module is a
plausible mistake in the definition behind it; nothing uses it but the mutation
that shows that a property would notice.

### AsyncClient

`state`, `closeActive` and `admitted` are the client's fields, `transportClosed`
and `httpClient` the transport's (`"closing"` during `aclose()`, `"leaked"` when
that was cancelled or raised). `pc` says where a task is suspended:

| `pc` | suspended in |
|---|---|
| `"idle"` | the program's own code |
| `"flight"` | `wait_for` of an attempt (`resilience.py` 183) |
| `"backoff"` | the delay before the next attempt (205) |
| `"follow"` | `close()` behind a leader (`client.py` 2542) |
| `"drain"` | `close()` waiting for leases (2549) |
| `"aclose"` | `close()` in `aclose()` |

An action runs a task from one suspension to the next. That is the code's
atomicity: the tasks share one thread, nothing is awaited while the condition's
lock is held except `Condition.wait()`, which gives the lock up, so the lock is
free whenever another task runs and taking it never suspends. `Lead` is the rest
of `close()` once a task leads, its three alternatives being where it suspends
next. `notified` holds the waiters that `notify_all()` has reached and that have
not run since; `pending` is a cancellation not raised yet, `cancelling` the count
of `Task.cancelling()`, which survives the error until the program calls
`uncancel()`.

`InlineWait` tells Python 3.12 and later, where `wait_for` awaits in the caller's
task, from 3.10 and 3.11, where it wraps the coroutine in a task of its own. Two
things depend on it: whether `cancellation_requested()` sees the caller's count,
and whether an answer that is ready beats a cancellation.

How an attempt ends is a choice (a value, an error, a retry if attempts are
left); `outcome` keeps only whether the call ended cancelled. Left out: a task
that cancels itself just before a call, spurious wake-ups of the condition, sinks
that call the client back.

### SyncClient

The same fields, in threads. A step is a critical section of the condition or
what a thread does between two points another thread could tell apart. `worker`
says what the thread behind each permit is doing; `serves` whose attempt it runs,
`NoThread` once the caller gave up on it; `served` the callers whose worker has
ended with an answer in its queue. A worker that has put its result but is still
alive when `join(timeout)` returns counts as timed out, as in the code.
`StartFails` is `worker.start()` raising, after which the permit is lost.

`KeyboardInterrupt` is raised in `Main` at `InterruptPoints`. The run keeps it out
of the drain: there the synchronous client stays `CLOSING` with no leader and no
way to take over, and every other `close()` hangs.

### Retry

One call of one policy (`mode`), a read or a write. `now` is the time since its
start, in ticks. `pc` goes through `"check"` (the time left is read),
`"announce"` (`attempt_start()` tells the sink), `"wait"`, `"sleep"`. `request[i]`
is what became of the request of attempt i; it goes on changing after the
synchronous caller has abandoned it. `MaxLate` bounds, each time, the ticks a sink
takes and the ticks by which a sleep or a timeout wakes late; it is the only bound
on time. `Delays` is the set `full_jitter_delay` draws from, the rejection of the
source's upper end included.

### ClientLifecycle

`phase`, the calls in flight, and whether the owned transport is still usable.
Calls enter only an open client, and `Release` and `Close` require that none is in
flight. Both clients implement it with `phase <- state`, `inflight <- Holders`. So
does `Invocation`, whose callers are a thread and a depth each: a call that a sink
makes within another one holds a lease of its own, and a `close()` by a sink waits
for both.

### Contract and Requests

A body is a function from its members to values; a decoder is the condition under
which it does not raise, and what it returns has the body's members. Grammars of
single texts (UUIDs, digests, names, paths) are constant sets, times are seconds.
Members that are only held to their own grammar and never compared are one
member, `rest`. Everything that joins several members is spelled out: both or
neither of two members, the length and digest of a chunk against its content,
the window of authentication evidence against the clock, the protocol of an
envelope against the one inside it, capabilities complete and without repetition.

`Requests` says which arguments pass. An argument that does not raises
`ConfigError` before anything is sent; no step models that. The type of a
workspace request decides how it is checked, not the operation it is given to
(`client.py` 490), and the model keeps that.

### Resources

`calls` is what each caller is doing: asked (`"sent"`), or answered with `body`.
`handles` holds a snapshot and the machine it was obtained for. `log` and `ended`
are the service's: the statuses each machine has had, and when each process of an
agent session ended. `Answer` performs what was asked and picks a body: the one
for this request or, misrouted, the one for another of the same kind. `Deliver`
lets any one member of it be lost, ill-typed or added, and a header be dropped; it
fires only if decoder, header check and the method's own comparison
(`Matches`) let the value through. `Raises` is everything else that can end a call,
whatever the service has done by then. The lifecycle calls and `refresh` swap the
snapshot, `exec`, `checkpoint`, `open` and `delete` do not. `kind` says which client
it is; the managers of both have the same operations, which is what their twin
definitions say.

`AcceptedIsAnswer` is about the methods that compare something (`Checked`, and
`agent_auth`). It says that what they would return is part of one answer of the
service, to a request that agrees with the caller's in what is compared
(`AskAlike`). That leaves open whatever is not compared, and there the answer to
another request is taken by the code and in the model:

| method | not compared |
|---|---|
| `agent_sessions.list` | `limit` and `cursor`: another page of the same machine; a page without items is taken whoever asks |
| `agent_sessions.create` | `name`, `auth_mode`, `credential_binding_id`, the idempotency key |
| `workspace_bindings.create` | `excluded_prefixes`, the idempotency key |
| `workspace_sync.download_chunk` | the synchronisation in the path: any chunk with the digest is the chunk |
| `sessions.create`, `machine_creates`, `exec`, `open`, `checkpoint`, terminal grants, changes, and the receipts of workspace synchronisation | everything; they are not in `Checked` |

Negative evidence carries no time and is taken whenever it comes. An account's list
of sessions is one list, whoever asks. What mode a launch gets when none is named is
the service's affair: the client validates it as `interactive_login`
(`client.py` 148) and sends nothing, and nothing in the repository says what the
service takes that for.

### Exchange and Invocation

`settings` is what the five sources hold, each field present, absent or invalid;
`Construct` turns it into a configuration or a category of failure. From then on
each caller has a stack of calls: a hook that calls the client back puts another
call on top. `tell` is the list of deliveries a call has still to make, `heard` and
`traced` what the diagnostic sink and the span have been told. A hook is any of the
three that run on the caller's thread under its lease: the trace sink's `start_span`,
the span's `add_event` and `end`, and the diagnostic sink. `CallHook` is one that
returns or raises, which `_call` makes the same, `HookCalls` and `HookCloses` are what
it may do before it returns; a trace sink may or may not give a span (`Hooked`).
`security_dispatch_guard` compares every attempt's request with what `_invoke` has
just built it from. Nothing changes that request in between, so its refusal cannot
happen, and `Prepare` has only the refusals of `prepare_request`. The events are kept
per call, by their `request_id`: what a sink makes of the events of two calls is not
modelled. The lease and `close()` have one step each
here; `SyncClient` and `AsyncClient` show what they do in many. All three implement
`ClientLifecycle`.

### ReleaseGates and Publication

A directory is a function from file names to contents, and a digest is the
content it is of. Each gate is the condition under which it lets the workflow go
on, each builder the document it writes. The documents of one kind are in order: what
they say of artifacts is merged, and the last to name one decides
(`inherited_evidence_gate.py` 217). Signatures, certificates and queries to
the provider are verdicts that come with a document.

`pc` is the step the one run in progress is at (the concurrency group admits one,
`release.yml` 35), `handoff` its directory, `record` its `publication-state.json`.
`registry`, `release`, `tag` and the artifacts of past runs (`tagRuns`, `evidence`,
`envelopes`, `promoted`) outlive it. `StepFails` ends a run at any step, and the
publish job then still saves its envelope (`if: always()`); `RunnerLost` ends it
without. `Tick` may not pass `StepTime` while a step runs, except where a job
waits for its reviewers. A recovery may be dispatched whenever an envelope can be
recovered. The fixed path of the receipt is a constant: `publication` uses the one
the release workflow reads, `publication_receipt` the one the evidence workflow's
upload makes (finding 5).

## Runs

| run | question | instance |
|---|---|---|
| `async_inline` | Do leases, hand-over, wake-ups and the lifecycle hold on Python 3.12, and does everything return? | 3 tasks, 3 attempts, cancelled anywhere but in the drain |
| `async_wrapped` | On 3.10 and 3.11, is a call cancelled only when it was, and is a closed client's httpx client closed, even if `aclose()` may raise? | 3 tasks, 2 attempts, calls and followers cancelled |
| `async_drain_cancelled` | What if the draining leader is cancelled? | 2 tasks; violated |
| `async_aclose_cancelled` | What if the leader is cancelled in `aclose()`? | 2 tasks; violated |
| `async_cleanup` | Is the cleanup call after a caught cancellation attempted on 3.12? | 2 tasks; violated |
| `sync_client` | Does every call get its own answer or none, and does everything return, with hanging workers and an interrupted main thread? | 3 threads, 2 permits, 2 attempts |
| `retry` | Are requests sent once and one at a time, values on time, and does the call end in time? | deadlines 3 and 8 for a read, 4 for a write, lateness up to 2 |
| `retry_started` | Does the asynchronous policy repeat a request whose response had started? | the same; violated |
| `resources` | Is what handles show and methods return true, whatever happens to answers? | 2 callers, 1 shared handle, 3 machines, 2 agent sessions on 2 pages and an empty one, 2 chunks, 1 change of a machine |
| `invocation` | Do events, outcome and answer agree whatever sinks do, does no invalid setting get passed over, is nothing given back within a call, and can only a self-closing sink hang? | 2 callers, calls of any hook 2 deep, every setting in every source |
| `publication` | Is what is uploaded approved and fresh, are records true, does recovery complete? | 2 builds, 3 tag or publish runs, 2 evidence runs, 1 failure, any number of recoveries |
| `publication_receipt` | Does valid evidence get past the release gate? | 1 evidence run, no failure; violated |

Why these bounds are enough. Three tasks are a leader, a follower that may take
over, and a call or a second follower; the hazards of `close()` need no more.
One outstanding cancellation per task (`MaxCancels`) still allows one after
another, since `uncancel()` gives it back. Two permits with three threads let the
capacity run out with a caller left over, and let an abandoned worker hold one
while the other serves the same thread again. A read of 8 ticks with attempts of
3 has its third attempt cut short by the total deadline, and a sink of 2 ticks can
push an attempt past it.

One shared handle and two callers are a race of two answers; `MaxChanges = 1`
makes the older and the newer state it needs, for three machines of which one is
created on the way. One of the two callers uses every operation, the other resumes
the shared handle. A tick of 33 seconds is between the life of evidence (30) and
that life with the skew of 3 and a second: late evidence is caught by its own
`valid_until` or not at all. `MaxSafe` stands for 2^53 - 1. Every operation has an
answer that fits and one that fits another request; each rule that joins two
arguments has arguments on both sides of it. Lists are asked for by machine and by
page, launches with and without name, mode and credential, so that requests differ
also in what is not compared.

Settings vary one field at a time, in all sources at once: the two fields meet only
in the order of the checks. Three attempts of a read, a sink that calls once more,
and two callers let a story be interrupted at every event, by the same caller or by
another.

Two builds and a candidate whose manifest names the wrong one make every gate
that compares artifacts matter. Three dispatches are a tag run and two publish
runs, so two envelopes; two evidence runs give them different approvals of the same
core. One failure is enough for every place at which a run may stop, since what
follows is a recovery, which may be repeated without bound. Times up to 2 with a
step of 1 and evidence that is good for 1 let everything expire while a job waits.

Deadlock is checked wherever the system cannot stop: not in
`async_wrapped` and `async_drain_cancelled`, where an `aclose()` that raises or a
cancelled drain leaves everyone waiting for a lead nobody has; not in `invocation`,
where a client may have no configuration or be closed by its own sink; not in the
`publication` runs, where the last dispatch may have been used up.

Fairness. A task or thread that is inside the SDK goes on when it can
(`WF_vars(Proceed(t))`): every attempt has a `wait_for` or `join` timeout, every
delay ends, and httpx's own `close()`/`aclose()` is taken to end. Nobody is obliged
to start a call or to cancel one, and no worker thread is obliged to do
anything: a custom transport may hang for ever. In `Retry`, time passes and the
caller acts; the transport owes nothing. In `Invocation` a caller inside the SDK
goes on (`WF_vars(Step(c))`), sinks included: one that never returned would hang its
call by the program's own doing. In `Publication` a run in progress goes on
(`WF_vars(Step)`), since every job has a timeout, and an operator dispatches a
recovery that keeps being possible (`SF_vars(Recover)`: it is not possible while
another run is in progress). Nobody is obliged to dispatch anything else.

## What the code does otherwise than it says

1. A `close()` cancelled while it waits for admitted calls (`client.py` 2549)
   leaves `_state` at `CLOSING` and `_close_active` at `True` for ever: the wait is
   outside the `try` that gives the lead back. Every later `close()` hangs.
   (`async_drain_cancelled`)
2. A `close()` cancelled in `aclose()` hands the lead on, but the transport has
   already dropped its httpx client (`transport.py` 427): the next `close()` has
   nothing to close and reports the client closed. (`async_aclose_cancelled`)
3. From Python 3.12 on, a program that catches a cancellation and makes its
   cleanup call, as `docs/guides/troubleshooting.md` asks, has that call end
   cancelled before it is sent: the task's count is still up. (`async_cleanup`)
4. `run_async` retries a read whose response had started when `wait_for` times
   out, which the transport's own errors and `run_sync` never do.
   (`retry_started`)
5. The evidence workflow uploads `approval/approval-receipt.json` among files of the
   workspace's root (`release-evidence.yml` 131-139), so the download puts it at
   `handoff/approval/approval-receipt.json`; the release workflow, and the test of
   it, read `handoff/approval-receipt.json`. As it stands no evidence gets past the
   gate. The signature beside it has the same fate. (`publication_receipt`)

Not contradictions, but seen while modelling:

- A sink or span that calls `close()` on the client it is told about waits for its own call,
  and with it every later `close()`; a timeout does not help, for the deadline
  covers attempts only.
- Of two answered refreshes the later taken wins, not the later made: `_replace`
  compares identifiers only, so a handle may go back in time if two calls share it
  (`docs/api/sync/Session.md` speaks of the latest snapshot).
- A runner lost after `git push` of the tag and before its handoff is saved burns the
  version: the tag gate refuses a second tag, and nothing can be published without
  the handoff.
- An upload that stops after the wheel cannot be finished: the absence gate blocks
  another publish run and the recovery finds no sdist.
- Two envelopes of one version may differ in their admission; a promotion stopped
  between assets and then recovered from the other envelope leaves a release that
  verifies against neither.
- A publish job that fails before `publication_state.py init` saves an envelope
  without a record, which no recovery can use.

## Proofs

`AsyncClientProofs`, for every finite set of tasks, any number of attempts and
cancellations, cancellation anywhere, both kinds of `wait_for`, either owner of the
transport, and an `aclose()` that may raise:

- `TypeCorrect`, `TransportOutlivesCalls`, `WaitersAreServed`, `ImplementsLifecycle`.
- `LeadNeverLost` assumes that the drain is not a cancellation point and that
  `aclose()` does not raise: the first finding is the counterexample without it.
- `CancelledNeverLate`; `CleanupIsAttempted` where `wait_for` hides the caller's
  count (the third finding is the counterexample where it does not); and
  `ClosedClientIsReleased` where `aclose()` is not cancelled (the second finding),
  though it may raise.

Their invariant is `IInv == TypeOK /\ LeaseCounted /\ AdmittedFindsOpen /\
OneLeader /\ NoLostWakeup /\ PhaseFacts`. `AdmittedFindsOpen` is not inductive by
itself: the leader takes the transport when `admitted = 0`, and that says that
nobody is inside only by `LeaseCounted`. A lease is given back by lowering a
natural number, so `TypeOK` needs `LeaseCounted` too. A leader in `aclose()` has no
lease beside it only because calls enter an open client and `PhaseFacts` says that
an open client has no leader, no waiter and a usable transport. `NoLostWakeup` needs
`OneLeader`, for the end of a lead to reach every follower. The refinement follows:
each step of `AsyncClient` is a step of `ClientLifecycle` or a stutter. The outcomes
have an invariant of their own: a cancellation that is owed belongs to a call in
progress, and where dispatch runs in the caller's task only the end of the call
settles it. So have the httpx clients: one whose `aclose()` raised has taken the lead
with it, so nobody reports the client closed after that.

`SyncClientProofs`, for every finite set of threads, any set of permits and a main
thread interrupted anywhere: `TypeCorrect`, `TransportOutlivesCalls`,
`WaitersAreServed`, `OwnAnswersOnly`, `ImplementsLifecycle`; and `LeadNeverLost`
where the drain is not an interrupt point. The invariant has three parts that
meet only in the types. `LeaseInv` is the argument of `AsyncClient` for one lead that
is never handed on. `AnswersMatchCalls` is inductive as it stands: it says that a
permit that serves a caller is not free, so a dispatch never takes over a permit
that still serves somebody. `AttemptsLeft` keeps the count of attempts natural.

`RetryProofs`, for all deadlines, jitter caps and latenesses: `Punctual` (the call
is over by the total deadline plus two latenesses, and its value was in time),
`WritesOnce`, `OneAtATime`, `SyncNeverRepeats`, `TypeCorrect`, `JitterIsFair`. The
invariant adds `StageFacts`, a bound on the clock for each value of `pc` (the sum of
what an attempt may use and its start never passes the total deadline by more than
one lateness), and `RequestFacts`: later attempts have no request yet, earlier ones no
live one. `JitterIsFair` needs none: adding `e - d` turns the draws of the delay `d`
into those of `e`, because the draws end at a multiple of the number of delays.

`StoryProofs`, for any callers, operations, settings and answers, any sinks and any
depth of calls within calls: `StoriesSafe`. `StoriesAgree` speaks of whole stories
and of calls that have returned; the invariant, `StacksOK`, says where every call
on every stack is. `Rests` are the deliveries that may be left (a list that `Deliver`,
`Start` or `End` made, without some of its head), `StoryOK` how far the story of each
listener is given that (`Underway` with so many attempts, `Trying` after the start of
one, `Over` with the outcome, `Sealed` when the span has ended), and `ResultOK` that
an outcome is a refusal, an error of the SDK's own, or what `Disposition` and the
decoder make of the response. A listener that is still owed the current event is one
event behind, which is why `Rests` and `StoryOK` cannot be had apart. What a sink
does only ever puts a new call on top or takes the head of the list. It assumes that
callers use known operations and that sizes are numbers (`OperationsAssumption`,
`ResponseAssumption`).

`InvocationProofs`. For all contents of the five sources, `PresenceDecides`: only
`Construct` ever sets `config`, and the first source that has a field exists (there
is a default URL) and comes before every other that has it. For any callers and any
depth, `ImplementsLifecycle`: beside `StacksOK`, which the steps of a call need to be
told from its return, the invariant counts (`LeasesOK`): the calls that have not
returned, on all stacks, are finitely many and `admitted` is their number. So a
`close()` that ends has found no call under way, that of its own sink included.
`DepthAssumption` says that at least one call fits on a stack.

`ResourcesProofs`, for any callers, handles, machines, agents and clocks, and for
any number of changes of the machines:

- `HandlesAreTrue`. Misrouting and damage are both in the model, so the argument
  is that every body of a snapshot operation, whosever answer it is, is a past row of
  `log`, that every damaged one is refused by the decoder, and that rows stay past
  because `log` only grows.
- `HandlesGoBackOnlyByRace`. A call that has had its handle to itself since it was
  asked gets, if it gets its own answer, a row no older than the snapshot
  (`AloneOK`), since nobody else has replaced it meanwhile; another machine's
  row is refused by the comparison of identifiers, for a call on a handle is for
  that handle's machine (`OnItsHandle`).

`AnswerProofs`, on top of that and for any processes and contents: `TypeCorrect` and
`AnswersAgree`, which is `AcceptedIsAnswer`. The body that a call is given is some
reply of the service to a request of the kind, perhaps with a member lost, added or
broken. (1) What a decoder of a method that compares lets through has
nothing unknown and nothing broken in it, member by member, and the content of a
chunk has its own length and digest (`ContentUndamaged`, `ContentUnchanged`); what
may still be wrong is that a member that need not be there is not, so a value that
is returned is part of a reply (`TakenIsPart`). (2) The reply it is part of is that to
some request, and shows that request's own members, since the service answers what it
is asked; the method has compared them with those of its arguments, so the two
requests agree in them (`TakenAlike`, from one lemma per kind of answer). What this
does not give is equality of the requests, and it is false: page two is taken for page
one.
(3) Evidence of a login needs time as well: the answer was true of the session's
process when it was given (`WasEvidence`, kept by `AInv` because processes only end
and the clock only advances), and the window that decoder and method check bounds
how long ago that process can have ended (`EvidenceIsTrue`). `TypeOK` then says of a snapshot that it has just
the members that `Session` keeps.

The attempt to prove (1) failed for evidence that is negative: the decoder in the
model let a broken `auth_mode` through, where `bridge.py` 338 decodes the mode of
every answer. `DecodeAgentSessionAuth` was wrong, and has been put right.

`PublicationProofs`, for any candidates, statements and receipts, any number of
runs and failures, and any step time: `TypeCorrect`, `OnlyApprovedIsUploaded`,
`RecordsAreTrue`, `UploadsAreFresh`. The invariant has three parts, since nothing
that a run has checked is of use unless it still holds when the run gets to use it.
`Types` bounds the time a step has lasted, except while a job waits for reviewers;
`UploadsAreFresh` is that bound and the gate's comparison. `WorldOK` says what past
runs left behind: handed-over evidence has an approval of its core, an envelope is
of one piece of evidence and its record is at most at the state its files are at, a
promoted record is the release. `RunOK` says, for each step, what the run has
established before it: from `revalidate` to the upload, that the registry has
nothing but this pair. The two meet in a recovery, which begins with an envelope of
`WorldOK` in the middle of `RunOK`. What one recovery has put into the release
another one may not overwrite, which is what keeps promoted records true.

Assumptions: the constants' ranges (`ASSUME`s of the modules) and, in `Resources`
and `Publication`, that what stands for something is nothing else: no handle is not a
handle and no identifier (`NoneAssumption`), a machine's name is an identifier
(`MachineAssumption`), a damaged member is in no grammar (`BrokenAssumption`), the
receipt's path is that of no other file (`PathAssumption`), a quality run hands over
its pair and manifest only (`CandidateAssumption`) and receipts expire at a time
(`ReceiptAssumption`). `AnswersAgree` assumes an honest service and digests
without collisions: every agent session has had a process (`ProcessesAssumption`); two contents that are ever spelled
differ in their digests if they differ (`DigestAssumption`); the service's reply to
a request passes the comparison made for that request, and a chunk is sent with its
own length and digest (`AnswersAssumption`). Nothing is assumed of replies that look
alike. TLC evaluates all of them in the runs.

Only model-checked: liveness (`EverythingReturns`, `CallEnds`, `OnlySelfCloseSticks`,
`RecoveryCompletes`), which needs fairness. Every invariant and every other action
property of a passing run is a theorem.

## Not modelled

- The text of requests and responses, TLS, httpx itself. `encode_for_operation`
  (`bridge.py` 1291): it puts the members that the validators have made in order, and
  would refuse one that the generated schema does not have.
- The rules that classify strings (`security.py`, `constraints.py`): regular
  expressions without state. What they find is the value `Protected`.
- Immutability, representation and subclassing of values and errors: they are
  Python's, and a model of them would only repeat the declarations.
- Signatures, certificates, the form of SBOMs and provenance, branch protection, the
  policy files of the one commit: verdicts of documents in `ReleaseGates`.
- Documentation, performance, packaging and dependency gates, the generator of the
  reference, generated tables: one pass over files, no state that a step could
  leave wrong.
- The generations of a workspace and the processes of agents, beyond what their
  answers show: they are the service's, and the SDK keeps nothing of them.
