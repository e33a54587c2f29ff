----------------------------- MODULE AnswerProofs ------------------------------
(***************************************************************************)
(* What a method that compares returns is an answer to a request like its  *)
(* own, and what it says of a login is true of the caller's process.       *)
(***************************************************************************)
EXTENDS ResourcesProofs

Auth == "agentSessions.agentAuth"
Download == "workspaces.sync.chunkDownload"

-----------------------------------------------------------------------------
(* Damage is refused                                                        *)

\* Nothing unknown and nothing broken.
Whole(row) == "unknown" \notin DOMAIN row /\ \A n \in DOMAIN row \ Objects : row[n] # Broken

LEMMA DamagedIsPart ==
  ASSUME NEW body, NEW row \in DamagedObject(body), Whole(row)
  PROVE  Part(row, body)
<1>1. CASE \E m \in DOMAIN body : row = [n \in DOMAIN body \ {m} |-> body[n]]
  BY <1>1 DEF Part
<1>2. CASE \E m \in DOMAIN body \ Objects : row = [body EXCEPT ![m] = Broken]
  BY <1>2 DEF Whole
<1>3. CASE row = [n \in DOMAIN body \cup {"unknown"} |->
                    IF n \in DOMAIN body THEN body[n] ELSE Broken]
  BY <1>3 DEF Whole
<1> QED
  BY <1>1, <1>2, <1>3 DEF DamagedObject

LEMMA AgentSessionIsWhole ==
  ASSUME NEW row, DecodeAgentSession(row)
  PROVE  Whole(row)
BY BrokenAssumption DEF DecodeAgentSession, Carrier, IfGiven, Given, Whole, Time

LEMMA PageIsWhole ==
  ASSUME NEW row, DecodeAgentSessionPage(row)
  PROVE  Whole(row)
BY BrokenAssumption DEF DecodeAgentSessionPage, Carrier, IfGiven, Given, Whole, Objects

LEMMA EvidenceIsWhole ==
  ASSUME NEW row, NEW time, DecodeAgentSessionAuth(row, time)
  PROVE  Whole(row)
BY BrokenAssumption
   DEF DecodeAgentSessionAuth, Carrier, Whole, Unavailable, Interactive, Credential, AuthMode

LEMMA CapabilitiesAreWhole ==
  ASSUME NEW row, DecodeCapabilitySnapshot(row)
  PROVE  Whole(row)
BY BrokenAssumption DEF DecodeCapabilitySnapshot, Carrier, IfGiven, Given, Whole, Objects

LEMMA BindingIsWhole ==
  ASSUME NEW row, DecodeWorkspaceBinding(row)
  PROVE  Whole(row)
BY BrokenAssumption DEF DecodeWorkspaceBinding, ExactMapping, Carrier, Whole, Safe, Time

LEMMA EnvelopeIsWhole ==
  ASSUME NEW op, NEW row, DecodeEnvelope(op, row)
  PROVE  Whole(row)
BY BrokenAssumption DEF DecodeEnvelope, Carrier, Whole, Objects, Protocols, Time

LEMMA ContentIsWhole ==
  ASSUME NEW row, DecodeChunkContent(row)
  PROVE  Whole(row)
<1>1. row.content_base64 \in DOMAIN B64Decode
  BY DEF DecodeChunkContent, ContentVerified
<1> QED
  BY <1>1, BrokenAssumption
  DEF DecodeChunkContent, ExactMapping, Carrier, Whole, Protocols, Time

-----------------------------------------------------------------------------
(* What is taken is part of an answer                                       *)

\* A chunk that the service has, as its own answer carries it.
IsChunk(body) ==
  /\ Given(body, "data")
  /\ body.data \in [selected_protocol : Protocols, digest : Digest, byte_length : 0 .. MaxChunk,
                    minimum_reader : Protocols, content_base64 : DOMAIN B64Decode]
  /\ ContentVerified(body.data)

\* An object in an answer that must have just these members cannot be damaged.
LEMMA ContentUndamaged ==
  ASSUME NEW body, IsChunk(body), NEW data \in DamagedObject(body.data)
  PROVE  ~DecodeChunkContent(data)
<1> SUFFICES ASSUME DecodeChunkContent(data)
             PROVE  FALSE
  OBVIOUS
<1> DEFINE Names == {"selected_protocol", "digest", "byte_length", "minimum_reader", "content_base64"}
<1>1. DOMAIN body.data = Names
  BY DEF IsChunk
<1>2. DOMAIN data = Names
  BY DEF DecodeChunkContent, ExactMapping, Carrier
<1>3. Whole(data)
  BY ContentIsWhole
<1>4. CASE \E m \in DOMAIN body.data : data = [n \in DOMAIN body.data \ {m} |-> body.data[n]]
  BY <1>1, <1>2, <1>4
<1>5. CASE \E m \in DOMAIN body.data \ Objects : data = [body.data EXCEPT ![m] = Broken]
  BY <1>3, <1>5 DEF Whole
<1>6. CASE data = [n \in DOMAIN body.data \cup {"unknown"} |->
                     IF n \in DOMAIN body.data THEN body.data[n] ELSE Broken]
  BY <1>3, <1>6 DEF Whole
<1> QED
  BY <1>4, <1>5, <1>6 DEF DamagedObject

\* No other text spells the same content, or another with the same digest.
LEMMA ContentUnchanged ==
  ASSUME NEW body, IsChunk(body), NEW text \in DOMAIN B64Decode, NEW data,
         data = [body.data EXCEPT !.content_base64 = text], DecodeChunkContent(data)
  PROVE  data = body.data
<1> DEFINE before == B64Decode[body.data.content_base64]
           after == B64Decode[text]
<1>1. data.content_base64 = text /\ data.digest = body.data.digest
  BY DEF IsChunk
<1>2. B64Encode[after] = text /\ Sha256[after] = data.digest
  BY <1>1 DEF DecodeChunkContent, ContentVerified
<1>3. /\ B64Encode[before] = body.data.content_base64 /\ Sha256[before] = body.data.digest
      /\ body.data.content_base64 \in DOMAIN B64Decode
  BY DEF IsChunk, ContentVerified
<1>4. before = after
  BY <1>1, <1>2, <1>3, DigestAssumption
<1>5. text = body.data.content_base64
  BY <1>2, <1>3, <1>4
<1> QED
  BY <1>5 DEF IsChunk

LEMMA DownloadIsPart ==
  ASSUME NEW body, IsChunk(body), NEW row \in {body} \cup Damaged(Download, body),
         DecodeEnvelope(Download, row)
  PROVE  Part(row, body)
<1>1. DecodeChunkContent(row.data) /\ Whole(row)
  BY EnvelopeIsWhole DEF DecodeEnvelope, DecodeSyncData, Download
<1>2. CASE row = body
  BY <1>2 DEF Part
<1>3. CASE row \in DamagedObject(body)
  BY <1>1, <1>3, DamagedIsPart
<1>4. CASE \E d \in DamagedObject(body.data) : row = [body EXCEPT !.data = d]
  <2>1. PICK d \in DamagedObject(body.data) : row = [body EXCEPT !.data = d]
    BY <1>4
  <2>2. row.data = d
    BY <2>1 DEF IsChunk, Given
  <2> QED
    BY <1>1, <2>2, ContentUndamaged
<1>5. CASE \E text \in DOMAIN B64Decode : row = [body EXCEPT !.data.content_base64 = text]
  <2>1. PICK text \in DOMAIN B64Decode : row = [body EXCEPT !.data.content_base64 = text]
    BY <1>5
  <2>2. row.data = [body.data EXCEPT !.content_base64 = text]
    BY <2>1 DEF IsChunk, Given
  <2>3. row.data = body.data
    BY <1>1, <2>2, ContentUnchanged
  <2> QED
    BY <2>1, <2>3 DEF Part
<1>6. Damaged(Download, body) =
        DamagedObject(body) \cup {[body EXCEPT !.data = d] : d \in DamagedObject(body.data)}
          \cup {[body EXCEPT !.data.content_base64 = t] : t \in DOMAIN B64Decode}
  BY DEF Damaged, Download, Lists, Syncs
<1> QED
  BY <1>2, <1>3, <1>4, <1>5, <1>6

\* The methods that compare return nothing that is not in the answer.
LEMMA TakenIsPart ==
  ASSUME NEW op \in Judged, NEW body, op = Download => IsChunk(body),
         NEW row \in {body} \cup Damaged(op, body), NEW time, DecodeForOperation(op, row, time)
  PROVE  Part(row, body)
<1>1. CASE op = Download
  <2>1. DecodeEnvelope(Download, row)
    BY <1>1 DEF DecodeForOperation, Download, Lifecycles, Syncs
  <2> QED
    BY <1>1, <2>1, DownloadIsPart
<1>2. CASE op # Download
  <2>1. op \notin Syncs \cup Lists
    BY <1>2 DEF Judged, Checked, Syncs, Lists, Download
  <2>2. Damaged(op, body) = DamagedObject(body)
    BY <1>2, <2>1 DEF Damaged, Download
  <2>3. \/ DecodeWorkspaceBinding(row) \/ DecodeAgentSessionPage(row)
        \/ DecodeAgentSessionAuth(row, time) \/ DecodeAgentSession(row)
        \/ DecodeCapabilitySnapshot(row)
    BY <1>2 DEF DecodeForOperation, Judged, Checked, Lifecycles, Syncs, Download
  <2>4. Whole(row)
    BY <2>3, BindingIsWhole, PageIsWhole, EvidenceIsWhole, AgentSessionIsWhole, CapabilitiesAreWhole
  <2> QED
    BY <2>2, <2>4, DamagedIsPart DEF Part
<1> QED
  BY <1>1, <1>2

-----------------------------------------------------------------------------
(* What is taken was asked alike                                            *)

\* What a decoder requires, or a comparison found, is in the answer as well.
LEMMA SameInAnswer ==
  ASSUME NEW row, NEW body, Part(row, body), NEW name, Given(row, name)
  PROVE  Given(body, name) /\ body[name] = row[name] /\ Optional(body, name) = Optional(row, name)
BY DEF Part, Given, Optional

LEMMA ListAlike ==
  ASSUME NEW args \in Arguments("agentSessions.list"), NEW other \in Arguments("agentSessions.list"),
         NEW row, DecodeAgentSessionPage(row), Part(row, Reply("agentSessions.list", other)),
         Matches("agentSessions.list", args, row), ~EmptyPage("agentSessions.list", row)
  PROVE  AskAlike("agentSessions.list", args, other)
<1> DEFINE page == Reply("agentSessions.list", other)
<1>1. "items" \in DOMAIN row /\ row.items = page.items
  BY DEF DecodeAgentSessionPage, Carrier, Part
<1>2. Matches("agentSessions.list", other, page)
  BY AnswersAssumption DEF Checked
<1>3. /\ \A i \in DOMAIN row.items : row.items[i].machine_id = args.id
      /\ \A i \in DOMAIN row.items : row.items[i].machine_id = other.id
  BY <1>1, <1>2 DEF Matches, All
<1>4. \E i \in DOMAIN row.items : TRUE
  BY DEF EmptyPage
<1>5. other.id = args.id
  BY <1>3, <1>4
<1> QED
  BY <1>5 DEF AskAlike, Checked

LEMMA DownloadAlike ==
  ASSUME NEW args \in Arguments(Download), NEW other \in Arguments(Download),
         NEW row, DecodeEnvelope(Download, row), Part(row, Reply(Download, other)),
         Matches(Download, args, row)
  PROVE  AskAlike(Download, args, other)
<1>1. row.data = Reply(Download, other).data
  BY DEF DecodeEnvelope, Carrier, Part
<1>2. Matches(Download, other, Reply(Download, other))
  BY AnswersAssumption DEF Checked, Download
<1>3. other.digest = args.digest
  BY <1>1, <1>2 DEF Matches, Download
<1> QED
  BY <1>3 DEF AskAlike, Checked, Download

LEMMA AgentSessionAlike ==
  ASSUME NEW op \in {"agentSessions.get", "agentSessions.rename", "agentSessions.terminate"},
         NEW args \in Arguments(op), NEW other \in Arguments(op),
         NEW row, DecodeAgentSession(row), Part(row, Reply(op, other)), Matches(op, args, row)
  PROVE  AskAlike(op, args, other)
<1>1. Reply(op, other).id = row.id /\ Reply(op, other).name = row.name
  BY DEF DecodeAgentSession, Carrier, Part
<1>2. Matches(op, other, Reply(op, other))
  BY AnswersAssumption DEF Checked
<1>3. other.id = args.id
  BY <1>1, <1>2 DEF Matches, RequireMatchingAgentSession
<1>4. op = "agentSessions.rename" => other.name = args.name
  BY <1>1, <1>2 DEF Matches
<1> QED
  BY <1>3, <1>4 DEF AskAlike

LEMMA CreatedAlike ==
  ASSUME NEW args \in Arguments("agentSessions.create"), NEW other \in Arguments("agentSessions.create"),
         ValidateAgentSessionCreate(args.options), NEW row, DecodeAgentSession(row),
         Part(row, Reply("agentSessions.create", other)), Matches("agentSessions.create", args, row)
  PROVE  AskAlike("agentSessions.create", args, other)
<1> DEFINE created == Reply("agentSessions.create", other)
<1>1. CreatedAsAsked(row, args) /\ CreatedAsAsked(created, other)
  BY AnswersAssumption DEF Matches, Checked
<1>2. args.options.workspace_binding_id # None
  BY NoneAssumption DEF ValidateAgentSessionCreate
<1>3. Given(row, "workspace_binding_id") /\ Given(row, "workspace_generation")
  BY <1>1, <1>2 DEF CreatedAsAsked, Optional, DecodeAgentSession
<1>4. created.machine_id = row.machine_id /\ created.agent = row.agent /\ created.cwd = row.cwd
  BY DEF DecodeAgentSession, Carrier, Part
<1>5. /\ Optional(created, "workspace_binding_id") = Optional(row, "workspace_binding_id")
      /\ Optional(created, "workspace_generation") = Optional(row, "workspace_generation")
  BY <1>3, SameInAnswer
<1>6. other.id = args.id
  BY <1>1, <1>4 DEF CreatedAsAsked
<1>7. \A m \in {"agent", "cwd", "workspace_binding_id", "workspace_generation"} :
        other.options[m] = args.options[m]
  BY <1>1, <1>4, <1>5 DEF CreatedAsAsked
<1> QED
  BY <1>6, <1>7 DEF AskAlike

LEMMA CapabilitiesAlike ==
  ASSUME NEW args \in Arguments("capabilities.get"), NEW other \in Arguments("capabilities.get"),
         CapabilityQueryValid(args.scope, args.resource), NEW row, DecodeCapabilitySnapshot(row),
         Part(row, Reply("capabilities.get", other)), Matches("capabilities.get", args, row)
  PROVE  AskAlike("capabilities.get", args, other)
<1> DEFINE snapshot == Reply("capabilities.get", other)
<1>1. SnapshotMatches(row, args) /\ SnapshotMatches(snapshot, other)
  BY AnswersAssumption DEF Matches, Checked
<1>2. snapshot.subject_scope = row.subject_scope
  BY DEF DecodeCapabilitySnapshot, Carrier, Part
<1>3. other.scope = args.scope
  BY <1>1, <1>2 DEF SnapshotMatches
<1>4. ASSUME args.scope # "account"
      PROVE  other.resource = args.resource
  <2>1. args.resource # None
    BY <1>4, NoneAssumption DEF CapabilityQueryValid
  <2>2. Given(row, "subject_id")
    BY <1>1, <1>4, <2>1 DEF SnapshotMatches, Optional
  <2>3. Optional(snapshot, "subject_id") = Optional(row, "subject_id")
    BY <2>2, SameInAnswer
  <2> QED
    BY <1>1, <1>3, <1>4, <2>3 DEF SnapshotMatches
<1> QED
  BY <1>3, <1>4 DEF AskAlike, Checked

LEMMA BindingAlike ==
  ASSUME NEW op \in {"workspaceBindings.create", "workspaceBindings.get"},
         NEW args \in Arguments(op), NEW other \in Arguments(op),
         NEW row, DecodeWorkspaceBinding(row), Part(row, Reply(op, other)), Matches(op, args, row)
  PROVE  AskAlike(op, args, other)
<1> DEFINE names == Identity \cup {"exclusion_policy_digest"}
<1>1. Matches(op, other, Reply(op, other))
  BY AnswersAssumption DEF Checked
<1>2. \A m \in names \cup {"binding_id"} : Reply(op, other)[m] = row[m]
  BY DEF DecodeWorkspaceBinding, ExactMapping, Carrier, Identity, Part
<1>3. /\ \A m \in names : row[m] = args.identity[m]
      /\ \A m \in names : Reply(op, other)[m] = other.identity[m]
  BY <1>1 DEF Matches, RequireBindingMatches
<1>4. \A m \in names : other.identity[m] = args.identity[m]
  BY <1>2, <1>3
<1>5. op = "workspaceBindings.get" => other.id = args.id
  BY <1>1, <1>2 DEF Matches
<1> QED
  BY <1>4, <1>5 DEF AskAlike, Checked

\* A value that passes the comparison is from the answer to a request that agrees
\* with the caller's in what is compared: the answer carries what its own request
\* asked for, the comparison finds there what the caller asked for.
LEMMA TakenAlike ==
  ASSUME NEW op \in Checked, NEW args, RightlyAsked(op, args), NEW other \in Arguments(op), NEW row, NEW time,
         DecodeForOperation(op, row, time), Part(row, Reply(op, other)), Matches(op, args, row),
         ~EmptyPage(op, row)
  PROVE  AskAlike(op, args, other)
<1>1. args \in Arguments(op)
  BY DEF RightlyAsked, Judged
<1>2. CASE op = "agentSessions.list"
  BY <1>1, <1>2, ListAlike DEF DecodeForOperation, Lifecycles, Syncs
<1>3. CASE op = Download
  BY <1>1, <1>3, DownloadAlike DEF DecodeForOperation, Lifecycles, Syncs, Download
<1>4. CASE op \in {"agentSessions.get", "agentSessions.rename", "agentSessions.terminate"}
  BY <1>1, <1>4, AgentSessionAlike DEF DecodeForOperation, Lifecycles, Syncs
<1>5. CASE op = "agentSessions.create"
  BY <1>1, <1>5, CreatedAlike DEF DecodeForOperation, Lifecycles, Syncs, RightlyAsked
<1>6. CASE op = "capabilities.get"
  BY <1>1, <1>6, CapabilitiesAlike DEF DecodeForOperation, Lifecycles, Syncs, RightlyAsked
<1>7. CASE op \in {"workspaceBindings.create", "workspaceBindings.get"}
  BY <1>1, <1>7, BindingAlike DEF DecodeForOperation, Lifecycles, Syncs
<1> QED
  BY <1>2, <1>3, <1>4, <1>5, <1>6, <1>7 DEF Checked, Download

-----------------------------------------------------------------------------
(* The inductive invariant                                                  *)

\* The evidence about the k-th process of an agent session, given out at a time.
EvidenceAt(session, k, time) ==
  LET process == Processes[session.id][k]
      negative == process.state = "unavailable"
  IN  [agent_session_id |-> session.id, process_epoch |-> process.epoch,
       auth_mode |-> session.auth_mode, state |-> process.state, rest |-> Formed,
       evidence_class |-> IF negative THEN "insufficient" ELSE "provider_cli_login_status",
       observed_at |-> time + ServiceSkew,
       valid_until |-> IF negative THEN time + ServiceSkew ELSE time + ServiceSkew + MaxAgentAuthTtl]

\* The process was there at that time: it had begun, and had not ended.
ThereAt(id, k, time) ==
  /\ k \in 1 .. Len(ended[id]) + 1
  /\ k \in DOMAIN ended[id] => time <= ended[id][k]

\* Evidence on its way was true of a process when it was given out.
WasEvidence(body) ==
  \E args \in Arguments(Auth) : \E time \in 0 .. now : \E k \in Nat :
    body = EvidenceAt(args.session, k, time) /\ ThereAt(args.session.id, k, time)

AskedOK(c) == calls[c] # Idle => RightlyAsked(calls[c].op, calls[c].args)

AnsweredOK(c) ==
  calls[c] # Idle /\ calls[c].at = "answered" =>
    /\ calls[c].op \in Checked =>
         \E other \in Arguments(calls[c].op) : calls[c].body = Reply(calls[c].op, other)
    /\ calls[c].op = Auth => WasEvidence(calls[c].body)

TimesOK ==
  /\ now \in 0 .. MaxTime
  /\ ended \in [DOMAIN Processes -> Seq(Nat)]
  /\ \A s \in DOMAIN Processes : Len(ended[s]) < Len(Processes[s])

AInv ==
  /\ kind \in {"sync", "async"} /\ TimesOK
  /\ \A c \in Callers : AskedOK(c) /\ AnsweredOK(c)

-----------------------------------------------------------------------------
(* The invariant is kept                                                    *)

LEMMA AInvBegins == Init => AInv
<1> SUFFICES ASSUME Init PROVE AInv
  OBVIOUS
<1>1. now = 0 /\ kind \in {"sync", "async"} /\ \A c \in Callers : calls[c] = Idle
  BY DEF Init
<1>2. ended = [s \in DOMAIN Processes |-> <<>>]
  BY DEF Init
<1>3. \A s \in DOMAIN Processes : Len(ended[s]) = 0
  BY <1>2
<1>4. TimesOK
  BY <1>1, <1>2, <1>3, ClockAssumption, ProcessesAssumption DEF TimesOK
<1> QED
  BY <1>1, <1>4 DEF AInv, AskedOK, AnsweredOK

\* Evidence stays what it was while time passes and processes end.
LEMMA EvidenceStays ==
  ASSUME TimesOK, now' \in Nat, now <= now', NEW body, WasEvidence(body),
         \/ UNCHANGED ended
         \/ \E s \in DOMAIN Processes : ended' = [ended EXCEPT ![s] = Append(@, now)]
  PROVE  WasEvidence(body)'
<1>1. PICK args \in Arguments(Auth), time \in 0 .. now, k \in Nat :
        body = EvidenceAt(args.session, k, time) /\ ThereAt(args.session.id, k, time)
  BY DEF WasEvidence
<1> DEFINE id == args.session.id
<1>2. id \in DOMAIN Processes /\ ended[id] \in Seq(Nat)
  BY <1>1, ProcessesAssumption DEF TimesOK, Auth
<1>3. time \in 0 .. now'
  BY DEF TimesOK
<1>4. ThereAt(id, k, time)'
  <2>1. CASE ended'[id] = ended[id]
    BY <1>1, <2>1 DEF ThereAt
  <2>2. CASE ended'[id] = Append(ended[id], now)
    <3>1. Len(ended'[id]) = Len(ended[id]) + 1
      BY <1>2, <2>2 DEF TimesOK
    <3>2. k \in 1 .. Len(ended[id]) => ended'[id][k] = ended[id][k]
      BY <1>2, <2>2 DEF TimesOK
    <3>3. k = Len(ended[id]) + 1 => ended'[id][k] = now
      BY <1>2, <2>2 DEF TimesOK
    <3>4. time <= now
      BY DEF TimesOK
    <3> QED
      BY <1>1, <1>2, <3>1, <3>2, <3>3, <3>4 DEF ThereAt
  <2>3. ended'[id] = ended[id] \/ ended'[id] = Append(ended[id], now)
    BY <1>2 DEF TimesOK
  <2> QED
    BY <2>1, <2>2, <2>3
<1> QED
  BY <1>1, <1>3, <1>4 DEF WasEvidence, EvidenceAt

\* A call that keeps its question and its answer, or ends.
LEMMA OtherAnswersKept ==
  ASSUME AInv, now' \in Nat, now <= now',
         \/ UNCHANGED ended
         \/ \E s \in DOMAIN Processes : ended' = [ended EXCEPT ![s] = Append(@, now)],
         NEW c \in Callers,
         \/ calls'[c] = Idle
         \/ /\ calls[c] # Idle
            /\ calls'[c].op = calls[c].op /\ calls'[c].args = calls[c].args
            /\ calls'[c].at = calls[c].at /\ calls'[c].body = calls[c].body
  PROVE  AskedOK(c)' /\ AnsweredOK(c)'
BY EvidenceStays DEF AInv, AskedOK, AnsweredOK, RightlyAsked

LEMMA SendKeepsAnswers ==
  ASSUME IInv, AInv, NEW c \in Callers, Sends(c)
  PROVE  AInv'
<1>1. PICK op, args, h : Send(c, op, args, h) /\ RightlyAsked(op, args)
  BY DEF Sends
<1>2. UNCHANGED <<kind, now, ended>> /\ calls[c] = Idle
  BY <1>1 DEF Send
<1>3. calls'[c].op = op /\ calls'[c].args = args /\ calls'[c].at = "sent"
  BY <1>1 DEF Send
<1>4. ASSUME NEW d \in Callers, d # c
      PROVE  calls'[d] = calls[d] \/ (calls[d] # Idle /\ calls'[d] = [calls[d] EXCEPT !.alone = FALSE])
  BY <1>1, <1>4 DEF Send, InFlight
<1>5. ASSUME NEW d \in Callers, d # c
      PROVE  AskedOK(d)' /\ AnsweredOK(d)'
  <2>1. calls[d] # Idle => DOMAIN calls[d] = {"at", "op", "args", "handle", "alone", "body"}
    BY DEF IInv, CallOK
  <2>2. \/ calls'[d] = Idle
        \/ /\ calls[d] # Idle
           /\ calls'[d].op = calls[d].op /\ calls'[d].args = calls[d].args
           /\ calls'[d].at = calls[d].at /\ calls'[d].body = calls[d].body
    BY <1>4, <1>5, <2>1
  <2>3. now' \in Nat /\ now <= now'
    BY <1>2 DEF AInv, TimesOK
  <2> QED
    BY <1>2, <2>2, <2>3, OtherAnswersKept
<1>6. AskedOK(c)' /\ AnsweredOK(c)'
  BY <1>1, <1>3 DEF AskedOK, AnsweredOK, RightlyAsked
<1>7. TimesOK'
  BY <1>2 DEF AInv, TimesOK
<1> QED
  BY <1>2, <1>5, <1>6, <1>7 DEF AInv

\* What the service has for one request of its kind.
LEMMA AnswersAre ==
  ASSUME NEW op \in Judged, NEW args
  PROVE  Answers(op, args) = IF op = Auth THEN {AuthRow(args.session)} ELSE {Reply(op, args)}
BY DEF Answers, Judged, Checked, Lifecycles, Auth

LEMMA NewEvidence ==
  ASSUME TimesOK, NEW args \in Arguments(Auth)
  PROVE  WasEvidence(AuthRow(args.session))
<1> DEFINE id == args.session.id
           k == Len(ended[id]) + 1
<1>1. id \in DOMAIN Processes /\ ended[id] \in Seq(Nat)
  BY ProcessesAssumption DEF TimesOK, Auth
<1>2. k \in Nat /\ k \in 1 .. Len(ended[id]) + 1 /\ k \notin DOMAIN ended[id] /\ now \in 0 .. now
  BY <1>1 DEF TimesOK
<1>3. AuthRow(args.session) = EvidenceAt(args.session, k, now)
  BY DEF AuthRow, EvidenceAt
<1> QED
  BY <1>2, <1>3 DEF WasEvidence, ThereAt

LEMMA AnswerKeepsAnswers ==
  ASSUME IInv, AInv, NEW c \in Callers, Answer(c)
  PROVE  AInv'
<1> DEFINE op == calls[c].op
           args == calls[c].args
<1>1. PICK body \in Answers(op, args) \cup
                     (IF op \in {"sessions.get", "sessions.create"} \cup Lifecycles
                        THEN {SessionRow(m)' : m \in Existing'}
                        ELSE UNION {Answers(op, other) : other \in Arguments(op)}) :
        calls' = [calls EXCEPT ![c].at = "answered", ![c].body = body]
  BY DEF Answer
<1>2. calls[c] # Idle /\ calls[c].at = "sent" /\ UNCHANGED <<kind, now, ended>>
  BY DEF Answer, Idle
<1>3. DOMAIN calls[c] = {"at", "op", "args", "handle", "alone", "body"} /\ DOMAIN calls = Callers
  BY <1>2 DEF IInv, CallOK
<1>4. calls'[c].op = op /\ calls'[c].args = args /\ calls'[c].body = body
  BY <1>1, <1>3
<1>5. TimesOK /\ TimesOK' /\ now' \in Nat /\ now <= now'
  BY <1>2 DEF AInv, TimesOK
<1>6. RightlyAsked(op, args)
  BY <1>2 DEF AInv, AskedOK
<1>7. ASSUME op \in Judged
      PROVE  \E other \in Arguments(op) : body \in Answers(op, other)
  <2>1. op \notin {"sessions.get", "sessions.create"} \cup Lifecycles
    BY <1>7 DEF Judged, Checked, Lifecycles
  <2>2. args \in Arguments(op)
    BY <1>6, <1>7 DEF RightlyAsked
  <2> QED
    BY <1>1, <2>1, <2>2
<1>8. ASSUME op \in Checked
      PROVE  \E other \in Arguments(op) : body = Reply(op, other)
  <2>1. op # Auth /\ op \in Judged
    BY <1>8 DEF Checked, Auth, Judged
  <2> QED
    BY <1>7, <2>1, AnswersAre
<1>9. ASSUME op = Auth
      PROVE  WasEvidence(body)'
  <2>1. PICK other \in Arguments(Auth) : body = AuthRow(other.session)
    BY <1>7, <1>9, AnswersAre DEF Judged, Auth
  <2>2. WasEvidence(body)
    BY <1>5, <2>1, NewEvidence
  <2> QED
    BY <1>2, <1>5, <2>2, EvidenceStays
<1>10. AskedOK(c)' /\ AnsweredOK(c)'
  BY <1>4, <1>6, <1>8, <1>9 DEF AskedOK, AnsweredOK, RightlyAsked
<1>11. ASSUME NEW d \in Callers, d # c
       PROVE  AskedOK(d)' /\ AnsweredOK(d)'
  <2>1. calls'[d] = calls[d]
    BY <1>1, <1>3, <1>11
  <2> QED
    BY <1>2, <1>5, <2>1, OtherAnswersKept
<1> QED
  BY <1>2, <1>5, <1>10, <1>11 DEF AInv

\* A step that answers nothing and asks nothing.
LEMMA OtherStepsKeep ==
  ASSUME AInv, TimesOK', kind' = kind, now <= now',
         \/ UNCHANGED ended
         \/ \E s \in DOMAIN Processes : ended' = [ended EXCEPT ![s] = Append(@, now)],
         \A c \in Callers : calls'[c] \in {calls[c], Idle}
  PROVE  AInv'
<1>1. now' \in Nat
  BY DEF TimesOK
<1>2. ASSUME NEW c \in Callers
      PROVE  AskedOK(c)' /\ AnsweredOK(c)'
  BY <1>1, OtherAnswersKept
<1> QED
  BY <1>2 DEF AInv

LEMMA ProcessMovesKeeps ==
  ASSUME AInv, ProcessMoves
  PROVE  AInv'
<1>1. PICK s \in DOMAIN Processes :
        Len(ended[s]) + 1 < Len(Processes[s]) /\ ended' = [ended EXCEPT ![s] = Append(@, now)]
  BY DEF ProcessMoves
<1>2. UNCHANGED <<kind, now, calls>> /\ TimesOK /\ now \in Nat
  BY DEF ProcessMoves, AInv, TimesOK
<1>3. ended[s] \in Seq(Nat) /\ ended'[s] = Append(ended[s], now)
  BY <1>1, <1>2 DEF TimesOK
<1>4. ended'[s] \in Seq(Nat) /\ Len(ended'[s]) = Len(ended[s]) + 1
  BY <1>2, <1>3
<1>5. ended' \in [DOMAIN Processes -> Seq(Nat)]
  BY <1>1, <1>2, <1>4 DEF TimesOK
<1>6. TimesOK'
  BY <1>1, <1>2, <1>4, <1>5 DEF TimesOK
<1>7. \E r \in DOMAIN Processes : ended' = [ended EXCEPT ![r] = Append(@, now)]
  BY <1>1
<1>8. now <= now' /\ \A c \in Callers : calls'[c] \in {calls[c], Idle}
  BY <1>2
<1> QED
  BY <1>2, <1>6, <1>7, <1>8, OtherStepsKeep

LEMMA NextKeepsAnswers == IInv /\ AInv /\ [Next]_vars => AInv'
<1> SUFFICES ASSUME IInv, AInv, [Next]_vars
             PROVE  AInv'
  OBVIOUS
<1>1. ASSUME NEW c \in Callers, SyncCalls(c) \/ AsyncCalls(c)
      PROVE  AInv'
  BY <1>1, CallsSend, SendKeepsAnswers
<1>2. ASSUME NEW c \in Callers, Answer(c)
      PROVE  AInv'
  BY <1>2, AnswerKeepsAnswers
<1>3. ASSUME UNCHANGED <<kind, now, ended>>, \A c \in Callers : calls'[c] \in {calls[c], Idle}
      PROVE  AInv'
  <2>1. TimesOK' /\ now <= now'
    BY <1>3 DEF AInv, TimesOK
  <2> QED
    BY <1>3, <2>1, OtherStepsKeep
<1>4. ASSUME NEW c \in Callers, Deliver(c) \/ Raises(c)
      PROVE  AInv'
  <2>1. calls' = [calls EXCEPT ![c] = Idle] /\ UNCHANGED <<kind, now, ended>>
    BY <1>4 DEF Deliver, Raises
  <2> QED
    BY <1>3, <2>1 DEF IInv
<1>5. CASE Elsewhere \/ (\E h \in Handles : LetGo(h)) \/ UNCHANGED vars
  BY <1>3, <1>5 DEF Elsewhere, LetGo, vars
<1>6. CASE ProcessMoves
  BY <1>6, ProcessMovesKeeps
<1>7. CASE Tick
  <2>1. TimesOK' /\ now <= now'
    BY <1>7, ClockAssumption DEF Tick, AInv, TimesOK
  <2> QED
    BY <1>7, <2>1, OtherStepsKeep DEF Tick
<1> QED
  BY <1>1, <1>2, <1>4, <1>5, <1>6, <1>7 DEF Next

\* What is on its way is an answer to some request of the same kind.
THEOREM AnswersAreAnswers == Spec => [](IInv /\ AInv)
<1>1. Init => IInv /\ AInv
  BY InitHolds, AInvBegins
<1>2. (IInv /\ AInv) /\ [Next]_vars => (IInv /\ AInv)'
  BY NextKeeps, NextKeepsAnswers
<1> QED
  BY <1>1, <1>2, PTL DEF Spec

-----------------------------------------------------------------------------
(* What the methods return                                                  *)

\* A checked method returns what the service has for a request like its own.
LEMMA CheckedIsAnswer ==
  ASSUME AInv, NEW c \in Callers, calls[c] # Idle, calls[c].at = "answered", calls[c].op \in Checked,
         NEW row \in {calls[c].body} \cup Damaged(calls[c].op, calls[c].body), NEW header,
         Accepts(c, row, header), ~EmptyPage(calls[c].op, row)
  PROVE  \E other \in Arguments(calls[c].op) :
           AskAlike(calls[c].op, calls[c].args, other) /\ Part(row, Reply(calls[c].op, other))
<1> DEFINE op == calls[c].op
           args == calls[c].args
<1>1. PICK other \in Arguments(op) : calls[c].body = Reply(op, other)
  BY DEF AInv, AnsweredOK
<1>2. RightlyAsked(op, args)
  BY DEF AInv, AskedOK
<1>3. DecodeForOperation(op, row, now) /\ Matches(op, args, row)
  BY DEF Accepts, Decodes
<1>4. op = Download => IsChunk(Reply(op, other))
  BY AnswersAssumption DEF IsChunk, Download
<1>5. Part(row, Reply(op, other))
  BY <1>1, <1>3, <1>4, TakenIsPart DEF Judged
<1>6. AskAlike(op, args, other)
  BY <1>2, <1>3, <1>5, TakenAlike
<1> QED
  BY <1>5, <1>6

\* Positive evidence that agent_auth returns is true of a process of the session
\* that the caller holds, or was until so long ago as evidence is good for.
LEMMA EvidenceIsTrue ==
  ASSUME AInv, NEW c \in Callers, calls[c] # Idle, calls[c].at = "answered", calls[c].op = Auth,
         NEW row \in {calls[c].body} \cup Damaged(calls[c].op, calls[c].body), NEW header,
         Accepts(c, row, header), row.state # "unavailable"
  PROVE  WasSo(row, calls[c].args.session)
<1> DEFINE session == calls[c].args.session
           id == session.id
<1>1. PICK other \in Arguments(Auth), time \in 0 .. now, k \in Nat :
        calls[c].body = EvidenceAt(other.session, k, time) /\ ThereAt(other.session.id, k, time)
  BY DEF AInv, AnsweredOK, WasEvidence
<1>2. DecodeForOperation(Auth, row, now) /\ Matches(Auth, calls[c].args, row)
  BY DEF Accepts, Decodes
<1>3. DecodeAgentSessionAuth(row, now)
  BY <1>2 DEF DecodeForOperation, Auth, Lifecycles, Syncs
<1>4. EvidenceOf(row, session)
  BY <1>2 DEF Matches, Auth
<1>5. Part(row, calls[c].body)
  BY <1>2, TakenIsPart DEF Judged, Auth, Download
<1>6. \A n \in {"agent_session_id", "process_epoch", "state", "valid_until"} : row[n] = calls[c].body[n]
  BY <1>3, <1>5 DEF DecodeAgentSessionAuth, Carrier, Part
<1>7. other.session.id = id
  BY <1>1, <1>4, <1>6 DEF EvidenceAt, EvidenceOf
<1>8. Processes[id][k].state = row.state /\ Processes[id][k].epoch = Optional(session, "process_epoch")
  <2>1. /\ calls[c].body.state = Processes[id][k].state
        /\ calls[c].body.process_epoch = Processes[id][k].epoch
    BY <1>1, <1>7 DEF EvidenceAt
  <2>2. row.state = calls[c].body.state /\ row.process_epoch = calls[c].body.process_epoch
    BY <1>6
  <2> QED
    BY <1>4, <2>1, <2>2 DEF EvidenceOf
<1>9. now < row.valid_until
  BY <1>3 DEF DecodeAgentSessionAuth, Unavailable, Fresh
<1>10. now < time + ServiceSkew + MaxAgentAuthTtl
  <2>1. calls[c].body.valid_until = time + ServiceSkew + MaxAgentAuthTtl
    BY <1>1, <1>7, <1>8 DEF EvidenceAt
  <2> QED
    BY <1>6, <1>9, <2>1
<1>11. ThereAt(id, k, time)
  BY <1>1, <1>7
<1>12. id \in DOMAIN Processes /\ TimesOK
  BY <1>7, ProcessesAssumption DEF AInv, Auth
<1>13. ended[id] \in Seq(Nat) /\ now \in Nat /\ time \in Nat /\ ServiceSkew \in Nat
  BY <1>12, ClockAssumption DEF TimesOK, MaxAgentAuthFutureSkew
<1>14. ASSUME k \in DOMAIN ended[id]
       PROVE  now < ended[id][k] + MaxAgentAuthTtl + ServiceSkew
  <2> DEFINE end == ended[id][k]
  <2>1. time <= end /\ end \in Nat
    BY <1>11, <1>13, <1>14 DEF ThereAt
  <2> HIDE DEF end
  <2>2. now < end + MaxAgentAuthTtl + ServiceSkew
    BY <1>10, <1>13, <2>1 DEF MaxAgentAuthTtl
  <2> QED
    BY <2>2 DEF end
<1> QED
  BY <1>8, <1>11, <1>14 DEF ThereAt, WasSo

-----------------------------------------------------------------------------
(* Theorems                                                                 *)

\* A method that compares (agent sessions, capabilities, bindings, downloads)
\* returns nothing that is not in one answer of the service, to a request that
\* agrees with the caller's in all that the method compares, but for an empty page
\* of a list; positive evidence from agent_auth is true of the process the caller
\* holds, though answers are misrouted, damaged and late.
THEOREM AnswersAgree == Spec => []AcceptedIsAnswer
<1>1. AInv => AcceptedIsAnswer
  <2> SUFFICES ASSUME AInv, NEW c \in Callers, calls[c] # Idle, calls[c].at = "answered",
                      NEW row \in {calls[c].body} \cup Damaged(calls[c].op, calls[c].body),
                      Accepts(c, row, Header(calls[c].op, calls[c].body))
               PROVE  /\ calls[c].op \in Checked /\ ~EmptyPage(calls[c].op, row) =>
                           \E other \in Arguments(calls[c].op) :
                             /\ AskAlike(calls[c].op, calls[c].args, other)
                             /\ Part(row, Reply(calls[c].op, other))
                      /\ calls[c].op = "agentSessions.agentAuth" /\ row.state # "unavailable" =>
                           WasSo(row, calls[c].args.session)
    BY DEF AcceptedIsAnswer
  <2>1. calls[c].op \in Checked /\ ~EmptyPage(calls[c].op, row) =>
          \E other \in Arguments(calls[c].op) :
            AskAlike(calls[c].op, calls[c].args, other) /\ Part(row, Reply(calls[c].op, other))
    BY CheckedIsAnswer
  <2>2. calls[c].op = Auth /\ row.state # "unavailable" => WasSo(row, calls[c].args.session)
    BY EvidenceIsTrue
  <2> QED
    BY <2>1, <2>2 DEF Auth
<1> QED
  BY <1>1, AnswersAreAnswers, PTL

\* The state of handles, calls and clock has its types: a snapshot has just the
\* members that Session keeps, with values in their grammars.
THEOREM TypeCorrect == Spec => []TypeOK
<1>1. IInv /\ AInv => TypeOK
  <2> SUFFICES ASSUME IInv, AInv
               PROVE  TypeOK
    OBVIOUS
  <2>1. \A m \in Machine : \A i \in DOMAIN log[m] : log[m][i] \in SessionStatus
    BY DEF IInv
  <2>2. ASSUME NEW h \in Handles, handles[h] # None
        PROVE  /\ DOMAIN handles[h].snapshot = {"id", "status", "updated_at", "rest"}
               /\ handles[h].snapshot.id \in Uuid /\ handles[h].snapshot.status \in SessionStatus
    <3>1. PICK m \in Machine : \E k \in DOMAIN log[m] :
                 handles[h] = [machine |-> m, snapshot |-> RowAt(m, k)]
      BY <2>2 DEF IInv, HandleOK
    <3>2. PICK k \in DOMAIN log[m] : handles[h].snapshot = RowAt(m, k)
      BY <3>1
    <3> QED
      BY <2>1, <3>2, MachineAssumption DEF RowAt
  <2>3. \A c \in Callers : calls[c] = Idle \/ calls[c].at \in {"sent", "answered"}
    BY DEF IInv, CallOK
  <2> QED
    BY <2>1, <2>2, <2>3 DEF TypeOK, AInv, TimesOK, All
<1> QED
  BY <1>1, AnswersAreAnswers, PTL
=============================================================================
