------------------------------ MODULE Resources --------------------------------
(***************************************************************************)
(* The managers and the handles of one client, used by several threads (or *)
(* tasks) at once, and the service that answers them.                      *)
(*                                                                         *)
(* The service may answer with what it has for another request, and what   *)
(* it answers may be damaged on the way.  A call can raise at any moment:  *)
(* a deadline, an error status, a cancellation.  An argument that the      *)
(* client refuses raises ConfigError before anything is sent: no step.     *)
(***************************************************************************)
EXTENDS Requests, Functions

CONSTANTS
  Callers,          \* threads of a Cuna, or tasks of an AsyncCuna
  Handles,          \* the Session or AsyncSession objects they share
  Arguments(_),     \* the arguments an operation is called with
  Uses,             \* the operations of each caller
  Reply(_, _),      \* what the service has for a request, machines and auth aside
  Machine, Started, \* the machines, and those that exist from the start
  Processes,        \* for each agent session, its processes, one after the other
  Broken,           \* a value in no grammar
  ServiceSkew,      \* how far the service's clock is ahead
  TimeStep,         \* the seconds of a tick
  MaxTime,
  MaxChanges        \* bound on what happens to machines

ASSUME ClockAssumption ==
  /\ ServiceSkew \in 0 .. MaxAgentAuthFutureSkew
  /\ TimeStep \in Nat /\ MaxTime \in Nat

\* What is broken is none of the values that a decoder takes.
ASSUME BrokenAssumption ==
  Broken \notin Uuid \cup Digest \cup Text \cup DOMAIN B64Decode \cup Time \cup
              SessionStatus \cup SessionAgent \cup AuthMode \cup DesiredState \cup RequestState \cup
              ProcessState \cup CapabilityScope \cup
              {"1.0", "unavailable", "login_required", "authenticated", "configured",
               "insufficient", "provider_cli_login_status", "credential_binding_authority",
               Formed, None}

\* No handle is not a handle, and no identifier not an identifier.
ASSUME NoneAssumption ==
  /\ None \notin [machine : Machine,
                 snapshot : [id : Machine, status : SessionStatus, updated_at : Nat, rest : {Formed}]]
  /\ None \notin Uuid

ASSUME MachineAssumption == Machine \subseteq Uuid

\* Each agent session that a caller may hold has had a process.
ASSUME ProcessesAssumption ==
  /\ \A s \in DOMAIN Processes : Len(Processes[s]) \in Nat \ {0}
  /\ \A args \in Arguments("agentSessions.agentAuth") : args.session.id \in DOMAIN Processes

\* No two contents that are ever spelled have the same digest.
ASSUME DigestAssumption ==
  \A x, y \in DOMAIN B64Decode :
    Sha256[B64Decode[x]] = Sha256[B64Decode[y]] => B64Decode[x] = B64Decode[y]

VARIABLES
  kind,     \* "sync" or "async": which of the two clients it is
  now,
  log,      \* for each machine, the statuses it has had
  ended,    \* for each agent session, when its processes but the last one ended
  handles,  \* None, or the snapshot with the machine it was obtained for
  calls     \* what each caller is doing

vars == <<kind, now, log, ended, handles, calls>>

Idle == [at |-> "idle"]

Init ==
  /\ kind \in {"sync", "async"}
  /\ now = 0
  /\ log = [m \in Machine |-> IF m \in Started THEN <<"running">> ELSE <<>>]
  /\ ended = [s \in DOMAIN Processes |-> <<>>]
  /\ handles = [h \in Handles |-> None]
  /\ calls = [c \in Callers |-> Idle]

-----------------------------------------------------------------------------
(* Sending                                                                  *)

InFlight(h) == {c \in Callers : calls[c] # Idle /\ calls[c].handle = h}

\* Calls that share a handle with one in flight are not alone on it.
Send(c, op, args, h) ==
  /\ calls[c] = Idle /\ op \in Uses[c]
  /\ calls' = [d \in Callers |->
       IF d = c THEN [at |-> "sent", op |-> op, args |-> args, handle |-> h,
                      alone |-> h = None \/ InFlight(h) = {}, body |-> None]
       ELSE IF h # None /\ d \in InFlight(h) THEN [calls[d] EXCEPT !.alone = FALSE]
       ELSE calls[d]]
  /\ UNCHANGED <<kind, now, log, ended, handles>>

\* A method without a handle, called with arguments that pass.
Ask(c, op, Passes(_)) == \E args \in Arguments(op) : Passes(args) /\ Send(c, op, args, None)

\* A method of a handle, which gives its own identifier.
AskHandle(c, h, op) == handles[h] # None /\ Send(c, op, [id |-> handles[h].snapshot.id], h)

IdIsUuid(args) == args.id \in Uuid

CreateSession(c) == Ask(c, "sessions.create", LAMBDA a : ValidateCreate(a.name, a.options))
ListSessions(c) == Ask(c, "sessions.list", LAMBDA a : TRUE)
GetSession(c) == Ask(c, "sessions.get", IdIsUuid)
Lifecycle(c, h) == \E op \in Lifecycles : AskHandle(c, h, op)
Delete(c, h) == AskHandle(c, h, "sessions.delete")
Open(c, h) == AskHandle(c, h, "sessions.open")

Exec(c, h) ==
  \E args \in Arguments("sessions.exec") :
    ExecBodyValid(args.command, args.options) /\ AskHandle(c, h, "sessions.exec")

Checkpoint(c, h) ==
  \E args \in Arguments("sessions.checkpoint") :
    args.name \in Name /\ AskHandle(c, h, "sessions.checkpoint")

\* refresh() is a get of the handle's own machine.
Refresh(c, h) == AskHandle(c, h, "sessions.get")

ListAgentSessions(c) ==
  Ask(c, "agentSessions.list", LAMBDA a : a.id \in Uuid /\ AgentSessionQueryValid(a.options))

CreateAgentSession(c) ==
  Ask(c, "agentSessions.create", LAMBDA a : a.id \in Uuid /\ ValidateAgentSessionCreate(a.options))

OneAgentSession(c) ==
  \/ Ask(c, "agentSessions.get", IdIsUuid)
  \/ Ask(c, "agentSessions.rename", LAMBDA a : a.id \in Uuid /\ a.name \in Name)
  \/ Ask(c, "agentSessions.terminate", IdIsUuid)

AgentAuth(c) == Ask(c, "agentSessions.agentAuth", LAMBDA a : DecodeAgentSession(a.session))

CreateTerminalConnection(c) ==
  Ask(c, "agentSessions.createTerminalConnection",
      LAMBDA a : a.id \in Uuid /\ ValidateTerminalConnectionCreate(a.options))

GetCapabilities(c) ==
  Ask(c, "capabilities.get", LAMBDA a : CapabilityQueryValid(a.scope, a.resource))

ListRecords(c) == Ask(c, "records.list", LAMBDA a : TRUE)
GetMe(c) == Ask(c, "me.get", LAMBDA a : TRUE)

CreateBinding(c) ==
  Ask(c, "workspaceBindings.create",
      LAMBDA a : BindingCreateBodyValid(a.identity) /\ a.key \in Key)

\* A binding is not a workspace: one identifier is never given for the other.
GetBinding(c) ==
  Ask(c, "workspaceBindings.get",
      LAMBDA a : /\ a.id \in Uuid /\ a.id # a.identity.workspace_id
                 /\ BindingIdentityValid(a.identity))

MutateSync(c) ==
  \/ \E op \in {"workspaces.sync.begin", "workspaces.sync.reconcile"} :
       Ask(c, op, LAMBDA a : /\ a.id \in Uuid /\ a.id # a.request.workspace_binding_id
                             /\ WorkspaceSyncBodyValid(a.request) /\ a.key \in Key)
  \/ \E op \in {"workspaces.sync.negotiate", "workspaces.sync.commit"} :
       Ask(c, op, LAMBDA a : /\ a.id \in Uuid /\ WorkspaceSyncBodyValid(a.request)
                             /\ a.key \in Key)

\* That the digest is the digest of the data is left to the service.
UploadChunk(c) ==
  Ask(c, "workspaces.sync.chunk",
      LAMBDA a : a.id \in Uuid /\ a.digest \in Digest /\ Length[a.data] <= MaxChunk /\ a.key \in Key)

DownloadChunk(c) ==
  Ask(c, "workspaces.sync.chunkDownload", LAMBDA a : a.id \in Uuid /\ a.digest \in Digest)

ReadChanges(c) ==
  Ask(c, "workspaces.sync.changes", LAMBDA a : a.id \in Uuid /\ WorkspaceSyncQueryValid(a.options))

MachineCreates(c) == \E op \in {"machineCreates.get", "machineCreates.reconcile"} : Ask(c, op, IdIsUuid)

-----------------------------------------------------------------------------
(* The two clients                                                          *)

Sessions(c) == CreateSession(c) \/ ListSessions(c) \/ GetSession(c)

AgentSessions(c) ==
  \/ ListAgentSessions(c) \/ CreateAgentSession(c) \/ OneAgentSession(c)
  \/ AgentAuth(c) \/ CreateTerminalConnection(c)

WorkspaceSync(c) == MutateSync(c) \/ UploadChunk(c) \/ DownloadChunk(c) \/ ReadChanges(c)
WorkspaceBindings(c) == CreateBinding(c) \/ GetBinding(c)

OnHandle(c, h) ==
  Refresh(c, h) \/ Lifecycle(c, h) \/ Delete(c, h) \/ Exec(c, h) \/ Checkpoint(c, h) \/ Open(c, h)

SessionsManager(c) == kind = "sync" /\ Sessions(c)
AgentSessionsManager(c) == kind = "sync" /\ AgentSessions(c)
WorkspaceSyncManager(c) == kind = "sync" /\ WorkspaceSync(c)
WorkspaceBindingsManager(c) == kind = "sync" /\ WorkspaceBindings(c)
MachineCreatesManager(c) == kind = "sync" /\ MachineCreates(c)
CapabilitiesManager(c) == kind = "sync" /\ GetCapabilities(c)
RecordsManager(c) == kind = "sync" /\ ListRecords(c)
Session(c, h) == kind = "sync" /\ OnHandle(c, h)

AsyncSessionsManager(c) == kind = "async" /\ Sessions(c)
AsyncAgentSessionsManager(c) == kind = "async" /\ AgentSessions(c)
AsyncWorkspaceSyncManager(c) == kind = "async" /\ WorkspaceSync(c)
AsyncWorkspaceBindingsManager(c) == kind = "async" /\ WorkspaceBindings(c)
AsyncMachineCreatesManager(c) == kind = "async" /\ MachineCreates(c)
AsyncCapabilitiesManager(c) == kind = "async" /\ GetCapabilities(c)
AsyncRecordsManager(c) == kind = "async" /\ ListRecords(c)
AsyncSession(c, h) == kind = "async" /\ OnHandle(c, h)

-----------------------------------------------------------------------------
(* The service                                                              *)

SessionRow(m) ==
  [id |-> m, status |-> log[m][Len(log[m])], updated_at |-> Len(log[m]), rest |-> Formed]

Existing == {m \in Machine : log[m] # <<>>}
Changes == FoldFunctionOnSet(LAMBDA history, sum : Len(history) + sum, 0, log, Machine)
Becomes(m, status) == Changes < Cardinality(Started) + MaxChanges /\ log' = [log EXCEPT ![m] = Append(@, status)]

StatusOf == [op \in Lifecycles \cup {"sessions.delete"} |->
  IF op = "sessions.pause" THEN "paused" ELSE IF op = "sessions.stop" THEN "stopped"
  ELSE IF op = "sessions.delete" THEN "deleted" ELSE "running"]

\* The evidence about the process that there is now.
AuthRow(session) ==
  LET process == Processes[session.id][Len(ended[session.id]) + 1]
      negative == process.state = "unavailable"
  IN  [agent_session_id |-> session.id, process_epoch |-> process.epoch,
       auth_mode |-> session.auth_mode, state |-> process.state, rest |-> Formed,
       evidence_class |-> IF negative THEN "insufficient" ELSE "provider_cli_login_status",
       observed_at |-> now + ServiceSkew,
       valid_until |-> IF negative THEN now + ServiceSkew
                       ELSE now + ServiceSkew + MaxAgentAuthTtl]

\* The service does what it is asked to a machine.
Perform(op, args) ==
  IF op \in DOMAIN StatusOf
    THEN args.id \in Existing /\ Becomes(args.id, StatusOf[op])
    ELSE IF op = "sessions.create"
      THEN \E m \in Machine \ Existing : Becomes(m, "creating")
      ELSE UNCHANGED log

\* What it has for a request, machines after the step.
Answers(op, args) ==
  IF op \in {"sessions.get"} \cup Lifecycles THEN {SessionRow(m)' : m \in {args.id} \cap Existing'}
  ELSE IF op = "sessions.create" THEN {SessionRow(m)' : m \in Existing' \ Existing}
  ELSE IF op = "sessions.list" THEN {<<SessionRow(m)'>> : m \in Existing'}
  ELSE IF op = "agentSessions.agentAuth" THEN {AuthRow(args.session)}
  ELSE {Reply(op, args)}

\* The answer is to this request or, by mistake, to another of its kind.
Answer(c) ==
  /\ calls[c].at = "sent"
  /\ LET op == calls[c].op
         args == calls[c].args
     IN  /\ Perform(op, args)
         /\ \E body \in Answers(op, args) \cup
                        (IF op \in {"sessions.get", "sessions.create"} \cup Lifecycles
                           THEN {SessionRow(m)' : m \in Existing'}
                           ELSE UNION {Answers(op, other) : other \in Arguments(op)}) :
              calls' = [calls EXCEPT ![c].at = "answered", ![c].body = body]
  /\ UNCHANGED <<kind, now, ended, handles>>

-----------------------------------------------------------------------------
(* The answer                                                               *)

\* Lost, ill-typed and unknown members, of the body or of what is in it.
Objects == {"data", "sync", "items", "capabilities", "workspace", "missing_digests"}

DamagedObject(row) ==
  {[n \in DOMAIN row \ {m} |-> row[n]] : m \in DOMAIN row}
  \cup {[row EXCEPT ![m] = Broken] : m \in DOMAIN row \ Objects}
  \cup {[n \in DOMAIN row \cup {"unknown"} |-> IF n \in DOMAIN row THEN row[n] ELSE Broken]}

Lists == {"sessions.list", "records.list"}

Damaged(op, body) ==
  IF op \in Lists THEN {<<row>> : row \in DamagedObject(body[1])}
  ELSE DamagedObject(body) \cup
       (IF op \in Syncs THEN {[body EXCEPT !.data = d] : d \in DamagedObject(body.data)} ELSE {}) \cup
       (IF op = "workspaces.sync.chunkDownload"
          THEN {[body EXCEPT !.data.content_base64 = t] : t \in DOMAIN B64Decode} ELSE {})

\* The header that goes with a body, if nothing on the way dropped it.
Header(op, body) ==
  IF op = "capabilities.get" THEN body.etag
  ELSE IF op = "agentSessions.agentAuth" THEN "no-store" ELSE None

ValidateCapabilityResponse(value, header) == header = value.etag
ValidateAgentAuthHeaders(value, header) == header = "no-store"

Decodes(op, row, header) ==
  /\ DecodeForOperation(op, row, now)
  /\ op = "capabilities.get" => ValidateCapabilityResponse(row, header)
  /\ op = "agentSessions.agentAuth" => ValidateAgentAuthHeaders(row, header)

\* Slip: a snapshot is a snapshot.
AnySnapshot(value, id) == value.id \in Uuid

RequireMatchingSnapshot(value, id) == value.id = id
RequireMatchingAgentSession(value, id) == value.id = id

Optional(row, name) == IF Given(row, name) THEN row[name] ELSE None

CreatedAsAsked(value, args) ==
  /\ value.machine_id = args.id
  /\ value.agent = args.options.agent /\ value.cwd = args.options.cwd
  /\ Optional(value, "workspace_binding_id") = args.options.workspace_binding_id
  /\ Optional(value, "workspace_generation") = args.options.workspace_generation

EvidenceOf(value, session) ==
  /\ value.agent_session_id = session.id
  /\ value.auth_mode = session.auth_mode
  /\ value.process_epoch = Optional(session, "process_epoch")

RequireBindingMatches(value, identity) ==
  /\ \A m \in Identity : value[m] = identity[m]
  /\ value.exclusion_policy_digest = identity.exclusion_policy_digest

SnapshotMatches(value, args) ==
  /\ value.subject_scope = args.scope
  /\ args.scope # "account" => Optional(value, "subject_id") = args.resource

\* What a method asks of a value before it returns it; the other methods
\* return what they get.
Matches(op, args, value) ==
  /\ op \in {"sessions.get"} \cup Lifecycles => RequireMatchingSnapshot(value, args.id)
  /\ op = "agentSessions.list" => All(value.items, LAMBDA item : item.machine_id = args.id)
  /\ op = "agentSessions.create" => CreatedAsAsked(value, args)
  /\ op \in {"agentSessions.get", "agentSessions.rename", "agentSessions.terminate"} =>
       RequireMatchingAgentSession(value, args.id)
  /\ op = "agentSessions.rename" => value.name = args.name
  /\ op = "agentSessions.agentAuth" => EvidenceOf(value, args.session)
  /\ op = "capabilities.get" => SnapshotMatches(value, args)
  /\ op = "workspaceBindings.create" => RequireBindingMatches(value, args.identity)
  /\ op = "workspaceBindings.get" =>
       value.binding_id = args.id /\ RequireBindingMatches(value, args.identity)
  /\ op = "workspaces.sync.chunkDownload" =>
       value.data.digest = args.digest /\ value.data.minimum_reader <= 2

\* The methods that compare what they return with what they were asked for.
Checked ==
  {"agentSessions.list", "agentSessions.create", "agentSessions.get", "agentSessions.rename",
   "agentSessions.terminate", "capabilities.get", "workspaceBindings.create",
   "workspaceBindings.get", "workspaces.sync.chunkDownload"}

\* The service's own answer to a request is to what was asked, as far as the
\* methods look, and a chunk is one.  Answers to requests that differ in what no
\* method looks at may differ in any way.
ASSUME AnswersAssumption ==
  /\ \A op \in Checked : \A args \in Arguments(op) : Matches(op, args, Reply(op, args))
  /\ \A args \in Arguments("workspaces.sync.chunkDownload") :
       LET reply == Reply("workspaces.sync.chunkDownload", args)
       IN  /\ Given(reply, "data")
           /\ reply.data \in [selected_protocol : Protocols, digest : Digest, byte_length : 0 .. MaxChunk,
                              minimum_reader : Protocols, content_base64 : DOMAIN B64Decode]
           /\ ContentVerified(reply.data)

Accepts(c, row, header) ==
  Decodes(calls[c].op, row, header) /\ Matches(calls[c].op, calls[c].args, row)

\* Slip: a lifecycle call shows the status that was asked for.
ReplaceAsAsked(h, op, row) ==
  handles' = [handles EXCEPT ![h].snapshot =
                IF op \in Lifecycles THEN [@ EXCEPT !.status = StatusOf[op]]
                ELSE IF op = "sessions.get" THEN row ELSE @]

\* The handle's snapshot is swapped, under its lock in a Cuna.
Replace(h, op, row) ==
  handles' = [handles EXCEPT ![h].snapshot =
                IF op \in {"sessions.get"} \cup Lifecycles THEN row ELSE @]

\* A new handle, if the caller keeps it.
NewHandle(row) ==
  \/ UNCHANGED handles
  \/ \E h \in Handles :
       /\ handles[h] = None
       /\ handles' = [handles EXCEPT ![h] = [machine |-> row.id, snapshot |-> row]]

Keep(c, row) ==
  LET op == calls[c].op
      h == calls[c].handle
  IN  IF h # None THEN Replace(h, op, row)
      ELSE IF op \in {"sessions.get", "sessions.create"} THEN NewHandle(row)
      ELSE IF op = "sessions.list" THEN NewHandle(row[1])
      ELSE UNCHANGED handles

Deliver(c) ==
  /\ calls[c].at = "answered"
  /\ \E row \in {calls[c].body} \cup Damaged(calls[c].op, calls[c].body),
        header \in {Header(calls[c].op, calls[c].body), None} :
       Accepts(c, row, header) /\ Keep(c, row)
  /\ calls' = [calls EXCEPT ![c] = Idle]
  /\ UNCHANGED <<kind, now, log, ended>>

\* A deadline, an error, CancelledError, or an answer that is refused: whatever
\* the service may have done.
Raises(c) ==
  /\ calls[c] # Idle
  /\ calls' = [calls EXCEPT ![c] = Idle]
  /\ UNCHANGED <<kind, now, log, ended, handles>>

LetGo(h) ==
  /\ handles[h] # None /\ InFlight(h) = {}
  /\ handles' = [handles EXCEPT ![h] = None]
  /\ UNCHANGED <<kind, now, log, ended, calls>>

-----------------------------------------------------------------------------
(* The world                                                                *)

\* Another client, or the service itself, changes a machine.
Elsewhere ==
  /\ \E m \in Existing : Becomes(m, "suspended")
  /\ UNCHANGED <<kind, now, ended, handles, calls>>

ProcessMoves ==
  /\ \E s \in DOMAIN Processes :
       /\ Len(ended[s]) + 1 < Len(Processes[s])
       /\ ended' = [ended EXCEPT ![s] = Append(@, now)]
  /\ UNCHANGED <<kind, now, log, handles, calls>>

Tick ==
  /\ now + TimeStep <= MaxTime
  /\ now' = now + TimeStep
  /\ UNCHANGED <<kind, log, ended, handles, calls>>

SyncCalls(c) ==
  \/ SessionsManager(c) \/ AgentSessionsManager(c) \/ WorkspaceSyncManager(c)
  \/ WorkspaceBindingsManager(c) \/ MachineCreatesManager(c) \/ CapabilitiesManager(c)
  \/ RecordsManager(c) \/ (kind = "sync" /\ GetMe(c))
  \/ \E h \in Handles : Session(c, h)

AsyncCalls(c) ==
  \/ AsyncSessionsManager(c) \/ AsyncAgentSessionsManager(c) \/ AsyncWorkspaceSyncManager(c)
  \/ AsyncWorkspaceBindingsManager(c) \/ AsyncMachineCreatesManager(c)
  \/ AsyncCapabilitiesManager(c) \/ AsyncRecordsManager(c) \/ (kind = "async" /\ GetMe(c))
  \/ \E h \in Handles : AsyncSession(c, h)

Next ==
  \/ \E c \in Callers : SyncCalls(c) \/ AsyncCalls(c) \/ Answer(c) \/ Deliver(c) \/ Raises(c)
  \/ \E h \in Handles : LetGo(h)
  \/ Elsewhere \/ ProcessMoves \/ Tick

Spec == Init /\ [][Next]_vars

-----------------------------------------------------------------------------
(* Properties                                                               *)

TypeOK ==
  /\ kind \in {"sync", "async"}
  /\ now \in 0 .. MaxTime
  /\ \A m \in Machine : All(log[m], LAMBDA s : s \in SessionStatus)
  /\ \A s \in DOMAIN Processes : Len(ended[s]) < Len(Processes[s])
  /\ \A h \in Handles :
       \/ handles[h] = None
       \/ /\ DOMAIN handles[h].snapshot \in
              {{"id", "status", "updated_at", "rest"}, {"id", "status", "updated_at", "rest", "agent"}}
          /\ handles[h].snapshot.id \in Uuid /\ handles[h].snapshot.status \in SessionStatus
  /\ \A c \in Callers : calls[c] = Idle \/ calls[c].at \in {"sent", "answered"}

\* What a handle shows is a state its own machine has really had, whatever was
\* misrouted, damaged, refused or interrupted, and whichever calls shared it.
HandleTrue ==
  \A h \in Handles : handles[h] # None =>
    LET snapshot == handles[h].snapshot
        past == log[handles[h].machine]
    IN  /\ snapshot.id = handles[h].machine
        /\ snapshot.updated_at \in DOMAIN past
        /\ snapshot.status = past[snapshot.updated_at]

\* A handle goes back to an older state only through an answer to a call that
\* shared the handle with another one: one call at a time, it never does.
BackOnlyByRace ==
  [][\A h \in Handles :
       (handles[h] # None /\ handles'[h] # None) =>
         \/ handles[h].snapshot.updated_at <= handles'[h].snapshot.updated_at
         \/ \E c \in InFlight(h) :
              /\ calls[c].at = "answered" /\ calls'[c] = Idle
              /\ ~calls[c].alone /\ handles'[h].snapshot = calls[c].body]_vars

\* A process of the asked session was in that state within the time that the
\* evidence is good for and the skew that is allowed.
WasSo(value, session) ==
  LET processes == Processes[session.id]
      ends == ended[session.id]
  IN  \E k \in 1 .. Len(ends) + 1 :
        /\ processes[k].state = value.state
        /\ processes[k].epoch = Optional(session, "process_epoch")
        /\ k \in DOMAIN ends => now < ends[k] + MaxAgentAuthTtl + ServiceSkew

\* Nothing in the one that is not in the other.
Part(row, body) == \A n \in DOMAIN row : n \in DOMAIN body /\ row[n] = body[n]

\* Two requests that agree in all that a checked method compares.  It does not
\* compare the page of a list, the name, mode, credential and key of a launch,
\* the prefixes and key of a new binding, or what a chunk is downloaded for.
AskAlike(op, args, other) ==
  /\ op \in Checked \ {"capabilities.get", "workspaceBindings.create",
                       "workspaces.sync.chunkDownload"} => other.id = args.id
  /\ op = "agentSessions.create" =>
       \A m \in {"agent", "cwd", "workspace_binding_id", "workspace_generation"} :
         other.options[m] = args.options[m]
  /\ op = "agentSessions.rename" => other.name = args.name
  /\ op = "capabilities.get" =>
       other.scope = args.scope /\ (args.scope # "account" => other.resource = args.resource)
  /\ op \in {"workspaceBindings.create", "workspaceBindings.get"} =>
       \A m \in Identity \cup {"exclusion_policy_digest"} : other.identity[m] = args.identity[m]
  /\ op = "workspaces.sync.chunkDownload" => other.digest = args.digest

\* A page without items, which tells nobody whose it is.
EmptyPage(op, row) == op = "agentSessions.list" /\ DOMAIN row.items = {}

\* What a checked method would return is from one answer of the service, to a
\* request that agrees with the caller's in all that the method compares (or is
\* an empty page), and positive evidence is true of the process the caller holds,
\* although answers are misrouted, damaged and late.
AcceptedIsAnswer ==
  \A c \in Callers :
    calls[c] # Idle /\ calls[c].at = "answered" =>
      LET op == calls[c].op
          args == calls[c].args
      IN  \A row \in {calls[c].body} \cup Damaged(op, calls[c].body) :
            Accepts(c, row, Header(op, calls[c].body)) =>
              /\ op \in Checked /\ ~EmptyPage(op, row) =>
                   \E other \in Arguments(op) :
                     AskAlike(op, args, other) /\ Part(row, Reply(op, other))
              /\ op = "agentSessions.agentAuth" /\ row.state # "unavailable" =>
                   WasSo(row, args.session)
=============================================================================
