---------------------------- MODULE ResourcesProofs ----------------------------
(***************************************************************************)
(* What a handle shows is true of its machine, and goes back only when     *)
(* calls share it, for any number of callers, handles and machines.        *)
(***************************************************************************)
EXTENDS Resources, TLAPS

-----------------------------------------------------------------------------
(* The inductive invariant                                                  *)

\* What a machine looked like after its k-th change.
RowAt(m, k) == [id |-> m, status |-> log[m][k], updated_at |-> k, rest |-> Formed]
IsPast(row) == \E m \in Machine : \E k \in DOMAIN log[m] : row = RowAt(m, k)

Snapshots == {"sessions.get"} \cup Lifecycles

HandleOK(h) ==
  handles[h] # None =>
    \E m \in Machine : \E k \in DOMAIN log[m] :
      handles[h] = [machine |-> m, snapshot |-> RowAt(m, k)]

\* The answers that a handle may be made of are past states.
BodyOK(c) ==
  calls[c].at = "answered" =>
    /\ calls[c].op \in Snapshots \cup {"sessions.create"} => IsPast(calls[c].body)
    /\ calls[c].op = "sessions.list" => \E row : calls[c].body = <<row>> /\ IsPast(row)

\* A call on a handle is for the machine of the handle, which is not let go.
OnItsHandle(c) ==
  calls[c].handle # None =>
    /\ calls[c].handle \in Handles /\ handles[calls[c].handle] # None
    /\ calls[c].args.id = handles[calls[c].handle].machine

\* No answer to a call that is alone on its handle is older than the handle.
AloneOK(c) ==
  calls[c].handle # None /\ calls[c].alone =>
    /\ \A d \in InFlight(calls[c].handle) : d = c
    /\ (calls[c].at = "answered" /\ calls[c].op \in Snapshots
          /\ calls[c].body.id = calls[c].args.id) =>
         handles[calls[c].handle].snapshot.updated_at <= calls[c].body.updated_at

CallOK(c) ==
  calls[c] # Idle =>
    /\ calls[c].at \in {"sent", "answered"}
    /\ DOMAIN calls[c] = {"at", "op", "args", "handle", "alone", "body"}
    /\ OnItsHandle(c) /\ BodyOK(c) /\ AloneOK(c)

IInv ==
  /\ log \in [Machine -> Seq(SessionStatus)]
  /\ DOMAIN handles = Handles /\ DOMAIN calls = Callers
  /\ \A h \in Handles : HandleOK(h)
  /\ \A c \in Callers : CallOK(c)

-----------------------------------------------------------------------------
(* The histories of the machines only grow                                  *)

LogGrows ==
  /\ log' \in [Machine -> Seq(SessionStatus)]
  /\ \A m \in Machine : Len(log[m]) <= Len(log'[m])
  /\ \A m \in Machine : \A k \in DOMAIN log[m] :
       k \in DOMAIN log'[m] /\ log'[m][k] = log[m][k]

LEMMA BecomesGrows ==
  ASSUME log \in [Machine -> Seq(SessionStatus)],
         NEW m \in Machine, NEW status \in SessionStatus, Becomes(m, status)
  PROVE  LogGrows
<1>1. log' = [log EXCEPT ![m] = Append(@, status)]
  BY DEF Becomes
<1>2. Append(log[m], status) \in Seq(SessionStatus)
  OBVIOUS
<1> QED
  BY <1>1, <1>2 DEF LogGrows

LEMMA SameGrows ==
  ASSUME log \in [Machine -> Seq(SessionStatus)], UNCHANGED log
  PROVE  LogGrows
BY DEF LogGrows

\* What is asked of the service changes a machine or none.
LEMMA PerformGrows ==
  ASSUME log \in [Machine -> Seq(SessionStatus)], NEW op, NEW args, Perform(op, args)
  PROVE  LogGrows
<1>1. CASE op \in DOMAIN StatusOf
  <2>1. StatusOf[op] \in SessionStatus
    BY <1>1 DEF StatusOf, SessionStatus
  <2>2. args.id \in Machine /\ Becomes(args.id, StatusOf[op])
    BY <1>1 DEF Perform, Existing
  <2> QED
    BY <2>1, <2>2, BecomesGrows
<1>2. CASE op \notin DOMAIN StatusOf /\ op = "sessions.create"
  <2>1. PICK m \in Machine : Becomes(m, "creating")
    BY <1>2 DEF Perform
  <2> QED
    BY <2>1, BecomesGrows DEF SessionStatus
<1>3. CASE op \notin DOMAIN StatusOf /\ op # "sessions.create"
  BY <1>3, SameGrows DEF Perform
<1> QED
  BY <1>1, <1>2, <1>3

\* A past state stays one.
LEMMA PastStays ==
  ASSUME LogGrows, NEW row, IsPast(row)
  PROVE  IsPast(row)'
BY DEF LogGrows, IsPast, RowAt

-----------------------------------------------------------------------------
(* Answers                                                                  *)

\* What the service has of a machine is its last state.
LEMMA RowIsPast ==
  ASSUME log' \in [Machine -> Seq(SessionStatus)], NEW m \in Existing'
  PROVE  /\ SessionRow(m)' = RowAt(m, Len(log[m]))' /\ Len(log'[m]) \in DOMAIN log'[m]
         /\ m \in Machine /\ IsPast(SessionRow(m))'
<1>1. m \in Machine /\ log'[m] # <<>> /\ log'[m] \in Seq(SessionStatus)
  BY DEF Existing
<1>2. Len(log'[m]) \in DOMAIN log'[m]
  BY <1>1
<1> QED
  BY <1>1, <1>2 DEF SessionRow, RowAt, IsPast

\* No decoder takes a damaged snapshot.
LEMMA DamagedRefused ==
  ASSUME NEW row, IsPast(row), NEW damaged \in DamagedObject(row)
  PROVE  ~DecodeSession(damaged)
<1> DEFINE Names == {"id", "status", "updated_at", "rest"}
<1>1. DOMAIN row = Names
  BY DEF IsPast, RowAt
<1>2. CASE \E m \in DOMAIN row : damaged = [n \in DOMAIN row \ {m} |-> row[n]]
  BY <1>1, <1>2 DEF DecodeSession, Carrier
<1>3. CASE \E m \in DOMAIN row \ Objects : damaged = [row EXCEPT ![m] = Broken]
  <2>1. PICK m \in DOMAIN row \ Objects : damaged = [row EXCEPT ![m] = Broken]
    BY <1>3
  <2>2. damaged[m] = Broken
    BY <2>1
  <2> QED
    BY <1>1, <2>1, <2>2, BrokenAssumption DEF DecodeSession
<1>4. CASE damaged = [n \in DOMAIN row \cup {"unknown"} |->
                        IF n \in DOMAIN row THEN row[n] ELSE Broken]
  BY <1>1, <1>4 DEF DecodeSession, Carrier
<1> QED
  BY <1>2, <1>3, <1>4 DEF DamagedObject

\* A snapshot that a call returns is the one in its answer.
LEMMA AcceptedIsBody ==
  ASSUME NEW c \in Callers, NEW header, NEW row \in {calls[c].body} \cup Damaged(calls[c].op, calls[c].body),
         Accepts(c, row, header), calls[c].op \in Snapshots \cup {"sessions.create"},
         IsPast(calls[c].body)
  PROVE  row = calls[c].body /\ (calls[c].op \in Snapshots => row.id = calls[c].args.id)
<1>1. DecodeSession(row)
  BY DEF Accepts, Decodes, DecodeForOperation, Snapshots, Lifecycles, Syncs
<1>2. Damaged(calls[c].op, calls[c].body) = DamagedObject(calls[c].body)
  BY DEF Damaged, Snapshots, Lifecycles, Syncs, Lists
<1>3. calls[c].op \in Snapshots => row.id = calls[c].args.id
  BY DEF Accepts, Matches, RequireMatchingSnapshot, Snapshots
<1> QED
  BY <1>1, <1>2, <1>3, DamagedRefused

LEMMA AcceptedIsListed ==
  ASSUME NEW c \in Callers, NEW header, NEW row \in {calls[c].body} \cup Damaged(calls[c].op, calls[c].body),
         Accepts(c, row, header), calls[c].op = "sessions.list",
         NEW listed, calls[c].body = <<listed>>, IsPast(listed)
  PROVE  row = <<listed>>
<1>1. All(row, DecodeSession)
  BY DEF Accepts, Decodes, DecodeForOperation, Lifecycles, Syncs
<1>2. Damaged(calls[c].op, calls[c].body) = {<<d>> : d \in DamagedObject(listed)}
  BY DEF Damaged, Lists
<1>3. ASSUME NEW d \in DamagedObject(listed), row = <<d>>
      PROVE  FALSE
  BY <1>1, <1>3, DamagedRefused DEF All
<1> QED
  BY <1>2, <1>3

-----------------------------------------------------------------------------
(* Calls                                                                    *)

\* The methods that compare what they return with what they asked for.
Judged == Checked \cup {"agentSessions.agentAuth"}

\* What a method of a handle asks for, and what the others do.
RightlyAsked(op, args) ==
  /\ op \in Judged => args \in Arguments(op)
  /\ op = "agentSessions.create" => ValidateAgentSessionCreate(args.options)
  /\ op = "capabilities.get" => CapabilityQueryValid(args.scope, args.resource)

\* Each method sends one request, on a handle with the handle's identifier.
Sends(c) ==
  \E op, args, h :
    /\ Send(c, op, args, h)
    /\ h # None => h \in Handles /\ handles[h] # None /\ args.id = handles[h].snapshot.id
    /\ RightlyAsked(op, args)

LEMMA OnHandleSends ==
  ASSUME NEW c \in Callers, NEW h \in Handles, OnHandle(c, h)
  PROVE  Sends(c)
<1>1. PICK op : AskHandle(c, h, op) /\ op \notin Judged
  BY DEF OnHandle, Refresh, Lifecycle, Delete, Exec, Checkpoint, Open, Lifecycles, Judged, Checked
<1>2. \A args : RightlyAsked(op, args)
  BY <1>1 DEF RightlyAsked, Judged, Checked
<1> QED
  BY <1>1, <1>2 DEF AskHandle, Sends

\* The requests without a handle, each with arguments that its method lets pass.
Asks(c) ==
  \E op : \E args \in Arguments(op) : Send(c, op, args, None) /\ RightlyAsked(op, args)

LEMMA AskSends ==
  ASSUME NEW c \in Callers, NEW op, NEW args \in Arguments(op), Send(c, op, args, None),
         op = "agentSessions.create" => ValidateAgentSessionCreate(args.options),
         op = "capabilities.get" => CapabilityQueryValid(args.scope, args.resource)
  PROVE  Asks(c)
BY DEF Asks, RightlyAsked

LEMMA SessionsAsk ==
  ASSUME NEW c \in Callers,
         Sessions(c) \/ MachineCreates(c) \/ ListRecords(c) \/ GetMe(c)
  PROVE  Asks(c)
BY AskSends DEF Sessions, CreateSession, ListSessions, GetSession, MachineCreates, ListRecords, GetMe, Ask

LEMMA WorkspacesAsk ==
  ASSUME NEW c \in Callers, WorkspaceSync(c) \/ WorkspaceBindings(c)
  PROVE  Asks(c)
BY AskSends DEF WorkspaceSync, MutateSync, UploadChunk, DownloadChunk, ReadChanges,
       WorkspaceBindings, CreateBinding, GetBinding, Ask

LEMMA AgentSessionsAsk ==
  ASSUME NEW c \in Callers, AgentSessions(c) \/ GetCapabilities(c)
  PROVE  Asks(c)
BY AskSends DEF AgentSessions, ListAgentSessions, CreateAgentSession, OneAgentSession, AgentAuth,
       CreateTerminalConnection, GetCapabilities, Ask

LEMMA CallsSend ==
  ASSUME NEW c \in Callers, SyncCalls(c) \/ AsyncCalls(c)
  PROVE  Sends(c)
<1>1. \/ \E h \in Handles : OnHandle(c, h)
      \/ Sessions(c) \/ MachineCreates(c) \/ ListRecords(c) \/ GetMe(c)
      \/ WorkspaceSync(c) \/ WorkspaceBindings(c) \/ AgentSessions(c) \/ GetCapabilities(c)
  BY DEF SyncCalls, AsyncCalls, SessionsManager, AgentSessionsManager, WorkspaceSyncManager,
         WorkspaceBindingsManager, MachineCreatesManager, CapabilitiesManager, RecordsManager,
         Session, AsyncSessionsManager, AsyncAgentSessionsManager, AsyncWorkspaceSyncManager,
         AsyncWorkspaceBindingsManager, AsyncMachineCreatesManager, AsyncCapabilitiesManager,
         AsyncRecordsManager, AsyncSession
<1>2. Asks(c) => Sends(c)
  BY DEF Asks, Sends
<1> QED
  BY <1>1, <1>2, OnHandleSends, SessionsAsk, WorkspacesAsk, AgentSessionsAsk

-----------------------------------------------------------------------------
(* The invariant is kept                                                    *)

LEMMA InitHolds == Init => IInv
<1> SUFFICES ASSUME Init PROVE IInv
  OBVIOUS
<1>1. log \in [Machine -> Seq(SessionStatus)]
  <2>1. <<"running">> \in Seq(SessionStatus) /\ <<>> \in Seq(SessionStatus)
    BY DEF SessionStatus
  <2> QED
    BY <2>1 DEF Init
<1>2. DOMAIN handles = Handles /\ \A h \in Handles : handles[h] = None
  BY DEF Init
<1>3. DOMAIN calls = Callers /\ \A c \in Callers : calls[c] = Idle
  BY DEF Init
<1> QED
  BY <1>1, <1>2, <1>3 DEF IInv, HandleOK, CallOK

LEMMA SendKeeps ==
  ASSUME IInv, NEW c \in Callers, Sends(c)
  PROVE  IInv'
<1>1. PICK op, args, h :
        /\ Send(c, op, args, h)
        /\ h # None => h \in Handles /\ handles[h] # None /\ args.id = handles[h].snapshot.id
  BY DEF Sends
<1>2. UNCHANGED <<log, handles>> /\ calls[c] = Idle
  BY <1>1 DEF Send
<1>3. DOMAIN calls' = Callers
  BY <1>1 DEF Send
<1>4. \A g \in Handles : HandleOK(g)'
  BY <1>2 DEF IInv, HandleOK, RowAt
<1>5. ASSUME NEW d \in Callers
      PROVE  CallOK(d)'
  <2>1. CASE d = c
    <3>1. calls'[c] = [at |-> "sent", op |-> op, args |-> args, handle |-> h,
                       alone |-> h = None \/ InFlight(h) = {}, body |-> None]
      BY <1>1 DEF Send
    <3>2. OnItsHandle(c)'
      <4> SUFFICES ASSUME h # None
                   PROVE  args.id = handles[h].machine
        BY <1>1, <1>2, <3>1 DEF OnItsHandle
      <4> QED
        BY <1>1 DEF IInv, HandleOK, RowAt
    <3>3. AloneOK(c)'
      <4>1. calls'[c].at = "sent" /\ calls'[c].handle = h
        BY <3>1
      <4>2. calls'[c].alone = (h = None \/ InFlight(h) = {})
        BY <3>1
      <4> SUFFICES ASSUME h # None, InFlight(h) = {}, NEW e \in InFlight(h)', e # c
                   PROVE  FALSE
        BY <4>1, <4>2 DEF AloneOK
      <4>3. e \in Callers /\ calls'[e] # Idle /\ calls'[e].handle = h
        BY DEF InFlight
      <4>4. calls'[e] = calls[e]
        BY <1>1, <4>3 DEF Send
      <4> QED
        BY <4>3, <4>4 DEF InFlight
    <3> QED
      BY <2>1, <3>1, <3>2, <3>3 DEF CallOK, BodyOK
  <2>2. CASE d # c /\ h # None /\ d \in InFlight(h)
    <3>1. calls'[d] = [calls[d] EXCEPT !.alone = FALSE]
      BY <1>1, <2>2 DEF Send
    <3>2. calls[d] # Idle /\ CallOK(d)
      BY <2>2 DEF InFlight, IInv
    <3>3. ~calls'[d].alone
      BY <3>1, <3>2 DEF CallOK
    <3>4. /\ DOMAIN calls'[d] = DOMAIN calls[d] /\ calls'[d].at = calls[d].at
          /\ calls'[d].op = calls[d].op /\ calls'[d].args = calls[d].args
          /\ calls'[d].handle = calls[d].handle /\ calls'[d].body = calls[d].body
      BY <3>1, <3>2 DEF CallOK
    <3>5. OnItsHandle(d)' /\ BodyOK(d)' /\ AloneOK(d)'
      BY <1>2, <3>2, <3>3, <3>4 DEF CallOK, OnItsHandle, BodyOK, AloneOK, IsPast, RowAt
    <3> QED
      BY <3>2, <3>4, <3>5 DEF CallOK
  <2>3. CASE d # c /\ ~(h # None /\ d \in InFlight(h))
    <3>1. calls'[d] = calls[d]
      BY <1>1, <2>3 DEF Send
    <3> SUFFICES ASSUME calls[d] # Idle
                 PROVE  CallOK(d)'
      BY <3>1 DEF CallOK
    <3>2. OnItsHandle(d)' /\ BodyOK(d)'
      BY <1>2, <3>1 DEF IInv, CallOK, OnItsHandle, BodyOK, IsPast, RowAt
    <3>3. ASSUME calls[d].handle # None, calls[d].alone, NEW e \in InFlight(calls[d].handle)'
          PROVE  e = d
      <4>1. h # calls[d].handle
        BY <2>3, <3>3 DEF InFlight
      <4>2. e \in Callers /\ calls'[e] # Idle /\ calls'[e].handle = calls[d].handle
        BY <3>1, <3>3 DEF InFlight
      <4>3. e # c
        BY <1>1, <4>1, <4>2 DEF Send
      <4>4. e \notin InFlight(h)
        <5> SUFFICES ASSUME e \in InFlight(h)
                     PROVE  calls'[e].handle = h
          BY <4>1, <4>2
        <5>1. CallOK(e) /\ calls[e] # Idle /\ calls[e].handle = h
          BY DEF InFlight, IInv
        <5>2. calls'[e] \in {[calls[e] EXCEPT !.alone = FALSE], calls[e]}
          BY <1>1, <4>2, <4>3 DEF Send
        <5> QED
          BY <5>1, <5>2 DEF CallOK
      <4>5. calls'[e] = calls[e]
        BY <1>1, <4>2, <4>3, <4>4 DEF Send
      <4> QED
        BY <3>3, <4>2, <4>5 DEF IInv, CallOK, AloneOK, InFlight
    <3>4. AloneOK(d)'
      BY <1>2, <3>1, <3>3 DEF IInv, CallOK, AloneOK
    <3> QED
      BY <3>1, <3>2, <3>4 DEF IInv, CallOK
  <2> QED
    BY <2>1, <2>2, <2>3
<1> QED
  BY <1>2, <1>3, <1>4, <1>5 DEF IInv

\* A call that a step leaves as it is, on a handle that stays in its hands.
LEMMA OtherCallKept ==
  ASSUME LogGrows, NEW d \in Callers, CallOK(d), calls'[d] = calls[d],
         calls[d] # Idle /\ calls[d].handle # None =>
           /\ handles'[calls[d].handle] # None
           /\ handles'[calls[d].handle].machine = handles[calls[d].handle].machine
           /\ calls[d].alone => /\ handles'[calls[d].handle] = handles[calls[d].handle]
                               /\ InFlight(calls[d].handle)' \subseteq InFlight(calls[d].handle)
  PROVE  CallOK(d)'
<1> SUFFICES ASSUME calls[d] # Idle
             PROVE  CallOK(d)'
  BY DEF CallOK
<1>1. OnItsHandle(d)'
  BY DEF CallOK, OnItsHandle
<1>2. BodyOK(d)'
  BY PastStays DEF CallOK, BodyOK
<1>3. AloneOK(d)'
  BY DEF CallOK, AloneOK
<1> QED
  BY <1>1, <1>2, <1>3 DEF CallOK

\* Handles are true of longer histories too.
LEMMA HandlesKept ==
  ASSUME IInv, LogGrows, NEW h \in Handles, handles'[h] = handles[h]
  PROVE  HandleOK(h)'
BY DEF IInv, LogGrows, HandleOK, RowAt

LEMMA AnswerKeeps ==
  ASSUME IInv, NEW c \in Callers, Answer(c)
  PROVE  IInv'
<1> DEFINE op == calls[c].op
           args == calls[c].args
           h == calls[c].handle
<1>1. calls[c].at = "sent" /\ Perform(op, args) /\ UNCHANGED handles
  BY DEF Answer
<1>2. PICK body \in Answers(op, args) \cup
                     (IF op \in {"sessions.get", "sessions.create"} \cup Lifecycles
                        THEN {SessionRow(m)' : m \in Existing'}
                        ELSE UNION {Answers(op, other) : other \in Arguments(op)}) :
        calls' = [calls EXCEPT ![c].at = "answered", ![c].body = body]
  BY DEF Answer
<1>3. LogGrows /\ log' \in [Machine -> Seq(SessionStatus)]
  BY <1>1, PerformGrows DEF IInv, LogGrows
<1>4. calls[c] # Idle /\ CallOK(c)
  BY <1>1 DEF Idle, IInv
<1>5. /\ DOMAIN calls'[c] = DOMAIN calls[c] /\ calls'[c].at = "answered"
      /\ calls'[c].op = op /\ calls'[c].args = args /\ calls'[c].handle = h
      /\ calls'[c].alone = calls[c].alone /\ calls'[c].body = body
  BY <1>2, <1>4 DEF CallOK, IInv
<1>6. DOMAIN calls' = Callers /\ \A d \in Callers \ {c} : calls'[d] = calls[d]
  BY <1>2 DEF IInv
<1>7. calls'[c] # Idle
  BY <1>5 DEF Idle
<1>8. \A g : InFlight(g)' = InFlight(g)
  BY <1>4, <1>5, <1>6, <1>7 DEF InFlight
<1>9. ASSUME op \in Snapshots \cup {"sessions.create"}
      PROVE  \E m \in Existing' : body = SessionRow(m)'
  <2>1. op \in {"sessions.get", "sessions.create"} \cup Lifecycles
    BY <1>9 DEF Snapshots
  <2>2. Answers(op, args) \subseteq {SessionRow(m)' : m \in Existing'}
    BY <2>1 DEF Answers
  <2> QED
    BY <1>2, <2>1, <2>2
<1>10. ASSUME op = "sessions.list"
       PROVE  \E m \in Existing' : body = <<SessionRow(m)'>>
  <2>1. \A other : Answers(op, other) = {<<SessionRow(m)'>> : m \in Existing'}
    BY <1>10 DEF Answers, Lifecycles
  <2> QED
    BY <1>2, <1>10, <2>1 DEF Lifecycles
<1>11. BodyOK(c)'
  BY <1>3, <1>5, <1>9, <1>10, RowIsPast DEF BodyOK
<1>12. OnItsHandle(c)'
  BY <1>1, <1>4, <1>5 DEF CallOK, OnItsHandle
<1>13. AloneOK(c)'
  <2> SUFFICES ASSUME h # None, calls[c].alone, op \in Snapshots, body.id = args.id
               PROVE  handles[h].snapshot.updated_at <= body.updated_at
    BY <1>1, <1>4, <1>5, <1>8 DEF CallOK, AloneOK
  <2>1. h \in Handles /\ handles[h] # None /\ args.id = handles[h].machine
    BY <1>4 DEF CallOK, OnItsHandle
  <2>2. PICK m \in Existing' : body = SessionRow(m)'
    BY <1>9
  <2>3. body.id = m /\ body.updated_at = Len(log'[m]) /\ m \in Machine
    BY <1>3, <2>2, RowIsPast DEF RowAt
  <2>4. PICK k \in DOMAIN log[m] : handles[h].snapshot.updated_at = k
    BY <2>1, <2>3 DEF IInv, HandleOK, RowAt
  <2>5. k <= Len(log[m]) /\ Len(log[m]) <= Len(log'[m]) /\ Len(log[m]) \in Nat /\ Len(log'[m]) \in Nat
    BY <1>3, <2>3, <2>4 DEF IInv, LogGrows
  <2>6. k \in Nat
    BY <2>3, <2>4 DEF IInv
  <2> QED
    BY <2>3, <2>4, <2>5, <2>6
<1>14. CallOK(c)'
  BY <1>4, <1>5, <1>11, <1>12, <1>13 DEF CallOK
<1>15. ASSUME NEW d \in Callers \ {c}
       PROVE  CallOK(d)'
  BY <1>1, <1>3, <1>6, <1>8, OtherCallKept DEF IInv, CallOK, OnItsHandle
<1>16. \A g \in Handles : HandleOK(g)'
  BY <1>1, <1>3, HandlesKept
<1> QED
  BY <1>1, <1>3, <1>6, <1>14, <1>15, <1>16 DEF IInv

\* A step of the world, or of nobody, in which only histories may change.
LEMMA WorldKeeps ==
  ASSUME IInv, LogGrows, UNCHANGED <<handles, calls>>
  PROVE  IInv'
<1>1. \A g : InFlight(g)' = InFlight(g)
  BY DEF InFlight
<1>2. \A d \in Callers : CallOK(d)'
  BY <1>1, OtherCallKept DEF IInv, CallOK, OnItsHandle
<1>3. \A g \in Handles : HandleOK(g)'
  BY HandlesKept
<1> QED
  BY <1>2, <1>3 DEF IInv, LogGrows

\* A call ends, and its handle, if it has one, stays for the same machine.
LEMMA EndKeeps ==
  ASSUME IInv, NEW c \in Callers, calls[c] # Idle, UNCHANGED log,
         calls' = [calls EXCEPT ![c] = Idle], DOMAIN handles' = Handles,
         \A g \in Handles : HandleOK(g)',
         \A g \in Handles : handles[g] # None =>
            /\ handles'[g] # None /\ handles'[g].machine = handles[g].machine
            /\ g # calls[c].handle => handles'[g] = handles[g]
  PROVE  IInv'
<1>1. DOMAIN calls' = Callers /\ calls'[c] = Idle /\ \A d \in Callers \ {c} : calls'[d] = calls[d]
  BY DEF IInv
<1>2. \A g : InFlight(g)' \subseteq InFlight(g)
  BY <1>1 DEF InFlight
<1>3. LogGrows
  BY SameGrows DEF IInv
<1>4. CallOK(c)'
  BY <1>1 DEF CallOK
<1>5. ASSUME NEW d \in Callers \ {c}
      PROVE  CallOK(d)'
  <2>1. CallOK(d) /\ calls'[d] = calls[d]
    BY <1>1 DEF IInv
  <2>2. ASSUME calls[d] # Idle, calls[d].handle # None
        PROVE  /\ handles'[calls[d].handle] # None
               /\ handles'[calls[d].handle].machine = handles[calls[d].handle].machine
               /\ calls[d].alone => handles'[calls[d].handle] = handles[calls[d].handle]
    <3>1. calls[d].handle \in Handles /\ handles[calls[d].handle] # None
      BY <2>1, <2>2 DEF CallOK, OnItsHandle
    <3>2. ASSUME calls[d].alone
          PROVE  calls[d].handle # calls[c].handle
      BY <2>1, <2>2, <3>2 DEF CallOK, AloneOK, InFlight
    <3> QED
      BY <3>1, <3>2
  <2> QED
    BY <1>2, <1>3, <2>1, <2>2, OtherCallKept
<1> QED
  BY <1>1, <1>3, <1>4, <1>5 DEF IInv, LogGrows

LEMMA LetGoKeeps ==
  ASSUME IInv, NEW h \in Handles, LetGo(h)
  PROVE  IInv'
<1>1. /\ InFlight(h) = {} /\ handles' = [handles EXCEPT ![h] = None]
      /\ UNCHANGED <<log, calls>>
  BY DEF LetGo
<1>2. DOMAIN handles' = Handles /\ handles'[h] = None /\ \A g \in Handles \ {h} : handles'[g] = handles[g]
  BY <1>1 DEF IInv
<1>3. LogGrows
  BY <1>1, SameGrows DEF IInv
<1>4. \A g \in Handles : HandleOK(g)'
  BY <1>2, <1>3, HandlesKept DEF HandleOK
<1>5. ASSUME NEW d \in Callers
      PROVE  CallOK(d)'
  <2>1. CallOK(d) /\ calls'[d] = calls[d] /\ \A g : InFlight(g)' = InFlight(g)
    BY <1>1 DEF IInv, InFlight
  <2>2. ASSUME calls[d] # Idle, calls[d].handle # None
        PROVE  /\ calls[d].handle \in Handles \ {h} /\ handles[calls[d].handle] # None
    BY <1>1, <2>1, <2>2 DEF CallOK, OnItsHandle, InFlight
  <2> QED
    BY <1>2, <1>3, <2>1, <2>2, OtherCallKept
<1> QED
  BY <1>1, <1>2, <1>3, <1>4, <1>5 DEF IInv, LogGrows

\* A new handle is kept where there is none, with a past state of its machine.
LEMMA NewHandleOK ==
  ASSUME IInv, UNCHANGED log, NEW row, IsPast(row), NewHandle(row)
  PROVE  /\ DOMAIN handles' = Handles /\ \A g \in Handles : HandleOK(g)'
         /\ \A g \in Handles : handles[g] # None => handles'[g] = handles[g]
<1>1. LogGrows
  BY SameGrows DEF IInv
<1>2. CASE UNCHANGED handles
  BY <1>1, <1>2, HandlesKept DEF IInv
<1>3. CASE \E h \in Handles :
             /\ handles[h] = None
             /\ handles' = [handles EXCEPT ![h] = [machine |-> row.id, snapshot |-> row]]
  <2>1. PICK h \in Handles :
          /\ handles[h] = None
          /\ handles' = [handles EXCEPT ![h] = [machine |-> row.id, snapshot |-> row]]
    BY <1>3
  <2>2. /\ DOMAIN handles' = Handles /\ handles'[h] = [machine |-> row.id, snapshot |-> row]
        /\ \A g \in Handles \ {h} : handles'[g] = handles[g]
    BY <2>1 DEF IInv
  <2>3. PICK m \in Machine : \E k \in DOMAIN log[m] : row = RowAt(m, k)
    BY DEF IsPast
  <2>4. row.id = m
    BY <2>3 DEF RowAt
  <2>5. HandleOK(h)'
    BY <2>2, <2>3, <2>4 DEF HandleOK, RowAt
  <2> QED
    BY <1>1, <2>1, <2>2, <2>5, HandlesKept
<1> QED
  BY <1>2, <1>3 DEF NewHandle

LEMMA SomeHandle ==
  ASSUME log \in [Machine -> Seq(SessionStatus)],
         NEW m \in Machine, NEW k \in DOMAIN log[m], NEW row, row = RowAt(m, k)
  PROVE  None # [machine |-> m, snapshot |-> row]
<1>1. log[m][k] \in SessionStatus /\ k \in Nat
  OBVIOUS
<1> QED
  BY <1>1, NoneAssumption DEF RowAt

\* What a call on a handle puts in it is a past state of the same machine.
LEMMA ReplaceOK ==
  ASSUME IInv, UNCHANGED log, NEW h \in Handles, handles[h] # None, NEW op, NEW row, Replace(h, op, row),
         op \in Snapshots => IsPast(row) /\ row.id = handles[h].machine
  PROVE  /\ DOMAIN handles' = Handles /\ \A g \in Handles : HandleOK(g)'
         /\ \A g \in Handles \ {h} : handles'[g] = handles[g]
         /\ handles'[h] # handles[h] => op \in Snapshots /\ handles'[h].snapshot = row
         /\ handles'[h] # None /\ handles'[h].machine = handles[h].machine
<1>1. PICK m : m \in Machine /\ \E k \in DOMAIN log[m] :
                 handles[h] = [machine |-> m, snapshot |-> RowAt(m, k)]
  BY DEF IInv, HandleOK
<1>2. LogGrows
  BY SameGrows DEF IInv
<1>3. DOMAIN handles' = Handles /\ \A g \in Handles \ {h} : handles'[g] = handles[g]
  BY DEF Replace, IInv
<1>4. CASE op \in Snapshots
  <2>1. handles' = [handles EXCEPT ![h].snapshot = row]
    BY <1>4 DEF Replace, Snapshots
  <2>2. handles'[h] = [handles[h] EXCEPT !.snapshot = row]
    BY <2>1 DEF IInv
  <2>3. handles'[h] = [machine |-> m, snapshot |-> row]
    BY <1>1, <2>2
  <2>4. PICK n \in Machine : \E j \in DOMAIN log[n] : row = RowAt(n, j)
    BY <1>4 DEF IsPast
  <2>5. n = m
    BY <1>1, <1>4, <2>4 DEF RowAt
  <2>6. HandleOK(h)'
    BY <2>3, <2>4, <2>5 DEF HandleOK, RowAt
  <2>7. handles'[h] # None
    BY <2>3, <2>4, <2>5, SomeHandle DEF IInv
  <2> QED
    BY <1>1, <1>2, <1>3, <1>4, <2>3, <2>6, <2>7, HandlesKept
<1>5. CASE op \notin Snapshots
  <2>1. handles' = [handles EXCEPT ![h].snapshot = @]
    BY <1>5 DEF Replace, Snapshots
  <2>2. handles'[h] = [handles[h] EXCEPT !.snapshot = handles[h].snapshot]
    BY <2>1 DEF IInv
  <2>3. handles'[h] = handles[h]
    BY <1>1, <2>2
  <2> QED
    BY <1>1, <1>2, <1>3, <2>3, HandlesKept
<1> QED
  BY <1>4, <1>5

\* A call that delivers ends; if it changes a handle there was, that is its own,
\* which gets the snapshot in the answer.
LEMMA DeliverFacts ==
  ASSUME IInv, NEW c \in Callers, Deliver(c)
  PROVE  /\ calls[c].at = "answered" /\ UNCHANGED log /\ calls' = [calls EXCEPT ![c] = Idle]
         /\ DOMAIN handles' = Handles /\ \A g \in Handles : HandleOK(g)'
         /\ \A g \in Handles : handles[g] # None =>
              /\ handles'[g] # None /\ handles'[g].machine = handles[g].machine
              /\ handles'[g] # handles[g] =>
                   /\ g # None /\ g = calls[c].handle /\ calls[c].op \in Snapshots
                   /\ handles'[g].snapshot = calls[c].body
                   /\ calls[c].body.id = calls[c].args.id
<1> DEFINE op == calls[c].op
           h == calls[c].handle
<1>1. calls[c].at = "answered" /\ UNCHANGED log /\ calls' = [calls EXCEPT ![c] = Idle]
  BY DEF Deliver
<1>2. calls[c] # Idle /\ CallOK(c)
  BY <1>1 DEF Idle, IInv
<1>3. PICK row \in {calls[c].body} \cup Damaged(op, calls[c].body), header \in {Header(op, calls[c].body), None} :
        Accepts(c, row, header) /\ Keep(c, row)
  BY DEF Deliver
<1>4. BodyOK(c) /\ OnItsHandle(c)
  BY <1>2 DEF CallOK
<1>5. ASSUME op \in Snapshots \cup {"sessions.create"}
      PROVE  /\ row = calls[c].body /\ IsPast(row)
             /\ op \in Snapshots => row.id = calls[c].args.id
  BY <1>1, <1>3, <1>4, <1>5, AcceptedIsBody DEF BodyOK
<1>6. CASE h # None
  <2>1. h \in Handles /\ handles[h] # None /\ calls[c].args.id = handles[h].machine
    BY <1>4, <1>6 DEF OnItsHandle
  <2>2. Replace(h, op, row)
    BY <1>3, <1>6 DEF Keep
  <2>3. /\ DOMAIN handles' = Handles /\ \A g \in Handles : HandleOK(g)'
        /\ \A g \in Handles \ {h} : handles'[g] = handles[g]
        /\ handles'[h] # handles[h] => op \in Snapshots /\ handles'[h].snapshot = row
        /\ handles'[h] # None /\ handles'[h].machine = handles[h].machine
    BY <1>1, <1>5, <2>1, <2>2, ReplaceOK
  <2> QED
    BY <1>1, <1>5, <1>6, <2>1, <2>3
<1>7. CASE h = None
  <2>1. CASE op \in {"sessions.get", "sessions.create"}
    <3>1. NewHandle(row) /\ IsPast(row)
      BY <1>3, <1>5, <1>7, <2>1 DEF Keep, Snapshots
    <3> QED
      BY <1>1, <3>1, NewHandleOK
  <2>2. CASE op = "sessions.list"
    <3>1. PICK listed : calls[c].body = <<listed>> /\ IsPast(listed)
      BY <1>1, <1>4, <2>2 DEF BodyOK
    <3>2. row = <<listed>>
      BY <1>3, <2>2, <3>1, AcceptedIsListed
    <3>3. NewHandle(listed)
      BY <1>3, <1>7, <2>2, <3>2 DEF Keep
    <3> QED
      BY <1>1, <3>1, <3>3, NewHandleOK
  <2>3. CASE op \notin {"sessions.get", "sessions.create", "sessions.list"}
    <3>1. UNCHANGED handles
      BY <1>3, <1>7, <2>3 DEF Keep
    <3>2. LogGrows
      BY <1>1, SameGrows DEF IInv
    <3> QED
      BY <1>1, <3>1, <3>2, HandlesKept DEF IInv
  <2> QED
    BY <2>1, <2>2, <2>3
<1> QED
  BY <1>6, <1>7

LEMMA DeliverKeeps ==
  ASSUME IInv, NEW c \in Callers, Deliver(c)
  PROVE  IInv'
<1>1. calls[c] # Idle
  BY DeliverFacts DEF Idle
<1> QED
  BY <1>1, DeliverFacts, EndKeeps

LEMMA RaisesKeeps ==
  ASSUME IInv, NEW c \in Callers, Raises(c)
  PROVE  IInv'
<1>1. /\ calls[c] # Idle /\ calls' = [calls EXCEPT ![c] = Idle]
      /\ UNCHANGED <<log, handles>>
  BY DEF Raises
<1>2. \A g \in Handles : HandleOK(g)'
  BY <1>1, SameGrows, HandlesKept DEF IInv
<1> QED
  BY <1>1, <1>2, EndKeeps DEF IInv

LEMMA NextKeeps == IInv /\ [Next]_vars => IInv'
<1> SUFFICES ASSUME IInv, [Next]_vars
             PROVE  IInv'
  OBVIOUS
<1>1. ASSUME NEW c \in Callers, SyncCalls(c) \/ AsyncCalls(c)
      PROVE  IInv'
  BY <1>1, CallsSend, SendKeeps
<1>2. ASSUME NEW c \in Callers, Answer(c) \/ Deliver(c) \/ Raises(c)
      PROVE  IInv'
  BY <1>2, AnswerKeeps, DeliverKeeps, RaisesKeeps
<1>3. ASSUME NEW h \in Handles, LetGo(h)
      PROVE  IInv'
  BY <1>3, LetGoKeeps
<1>4. CASE Elsewhere
  <2>1. PICK m \in Machine : Becomes(m, "suspended")
    BY <1>4 DEF Elsewhere, Existing
  <2>2. LogGrows
    BY <2>1, BecomesGrows DEF IInv, SessionStatus
  <2> QED
    BY <1>4, <2>2, WorldKeeps DEF Elsewhere
<1>5. CASE ProcessMoves \/ Tick \/ UNCHANGED vars
  BY <1>5, SameGrows, WorldKeeps DEF IInv, ProcessMoves, Tick, vars
<1> QED
  BY <1>1, <1>2, <1>3, <1>4, <1>5 DEF Next

-----------------------------------------------------------------------------
(* Theorems                                                                 *)

\* IInv holds of every behaviour: answers on their way and handles are made of
\* past states of their machines.
THEOREM Invariance == Spec => []IInv
BY InitHolds, NextKeeps, PTL DEF Spec

\* What a handle shows is a state its machine has had (the snapshots that
\* Session and AsyncSession keep), whatever the service mixes up or damages.
THEOREM HandlesAreTrue == Spec => []HandleTrue
<1>1. IInv => HandleTrue
  BY DEF IInv, HandleOK, RowAt, HandleTrue
<1> QED
  BY <1>1, Invariance, PTL

\* A handle goes back to an older state only by the answer to a call that
\* shared it with another (refresh and the lifecycle methods take no order).
THEOREM HandlesGoBackOnlyByRace == Spec => BackOnlyByRace
<1> DEFINE Forward ==
      \A h \in Handles :
         (handles[h] # None /\ handles'[h] # None) =>
           \/ handles[h].snapshot.updated_at <= handles'[h].snapshot.updated_at
           \/ \E c \in InFlight(h) :
                /\ calls[c].at = "answered" /\ calls'[c] = Idle
                /\ ~calls[c].alone /\ handles'[h].snapshot = calls[c].body
<1>1. ASSUME IInv, \A h \in Handles : handles[h] # None => handles'[h] = handles[h] \/ handles'[h] = None
      PROVE  Forward
  BY <1>1 DEF IInv, HandleOK, RowAt
<1>2. ASSUME IInv, NEW c \in Callers, Deliver(c)
      PROVE  Forward
  <2> SUFFICES ASSUME NEW h \in Handles, handles[h] # None, handles'[h] # handles[h],
                      ~(handles[h].snapshot.updated_at <= handles'[h].snapshot.updated_at)
               PROVE  /\ c \in InFlight(h) /\ calls[c].at = "answered" /\ calls'[c] = Idle
                      /\ ~calls[c].alone /\ handles'[h].snapshot = calls[c].body
    BY <1>1, <1>2 DEF IInv, HandleOK, RowAt
  <2>1. /\ calls[c].at = "answered" /\ calls' = [calls EXCEPT ![c] = Idle]
        /\ h # None /\ h = calls[c].handle /\ calls[c].op \in Snapshots
        /\ handles'[h].snapshot = calls[c].body /\ calls[c].body.id = calls[c].args.id
    BY <1>2, DeliverFacts
  <2>2. calls'[c] = Idle
    BY <1>2, <2>1 DEF IInv
  <2>3. calls[c] # Idle /\ c \in InFlight(h)
    BY <2>1 DEF InFlight, Idle
  <2>4. AloneOK(c)
    BY <1>2, <2>3 DEF IInv, CallOK
  <2> QED
    BY <2>1, <2>2, <2>3, <2>4 DEF AloneOK
<1>3. ASSUME IInv, Next, \A c \in Callers : ~Deliver(c)
      PROVE  \A h \in Handles : handles'[h] = handles[h] \/ handles'[h] = None
  <2>1. ASSUME NEW c \in Callers, SyncCalls(c) \/ AsyncCalls(c)
        PROVE  UNCHANGED handles
    BY <2>1, CallsSend DEF Sends, Send
  <2>2. ASSUME NEW h \in Handles, LetGo(h)
        PROVE  \A g \in Handles : handles'[g] = handles[g] \/ handles'[g] = None
    BY <1>3, <2>2 DEF LetGo, IInv
  <2> QED
    BY <1>3, <2>1, <2>2 DEF Next, Answer, Raises, Elsewhere, ProcessMoves, Tick
<1>4. IInv /\ [Next]_vars => [Forward]_vars
  BY <1>1, <1>2, <1>3
<1> QED
  BY <1>4, Invariance, PTL DEF Spec, BackOnlyByRace
=============================================================================
