------------------------------- MODULE Contract --------------------------------
(***************************************************************************)
(* The decoders of the client: which bodies they take for an operation.    *)
(*                                                                         *)
(* A body is a function from the names of its members to their values.     *)
(* What a decoder returns has the members of the body, so a decoder is the *)
(* condition under which it does not raise DecodeFailure.  A time is the   *)
(* number of seconds it denotes.  Members that are only held to a grammar  *)
(* of their own (names, URLs, counts) are one member, "rest": Formed when  *)
(* each of them is in its grammar.                                         *)
(***************************************************************************)
EXTENDS Integers, Sequences, FiniteSets

CONSTANTS
  Uuid, Digest, Text,  \* the texts in each of these grammars
  Formed,              \* members that are each in their grammar
  MaxSafe,             \* the largest generation, 2^53 - 1
  Protected,           \* a value that contains_denied finds
  None,                \* null, or no value
  B64Decode, B64Encode, Length, Sha256  \* functions of the standard library

Time == Int
Safe == 0 .. MaxSafe
Protocols == {1, 2}

-----------------------------------------------------------------------------
(* Shapes                                                                   *)

\* An object with the required members, no unknown one, and nothing protected.
Carrier(row, required, optional) ==
  /\ required \subseteq DOMAIN row
  /\ DOMAIN row \subseteq required \cup optional
  /\ \A name \in DOMAIN row : row[name] # Protected

ExactMapping(row, required) == Carrier(row, required, {})

Given(row, name) == name \in DOMAIN row
IfGiven(row, name, set) == Given(row, name) => row[name] \in set
NoDuplicates(s) == \A i, j \in DOMAIN s : s[i] = s[j] => i = j
All(s, Test(_)) == \A i \in DOMAIN s : Test(s[i])

-----------------------------------------------------------------------------
(* Machines (sessions)                                                      *)

SessionStatus == {"creating", "running", "paused", "suspended", "stopped", "deleted", "error"}
SessionAgent == {"claude-code", "codex", "openclaw"}

\* Slip: what is not known is passed on.
DecodeSessionLoosely(row) ==
  /\ {"id", "status", "updated_at", "rest"} \subseteq DOMAIN row
  /\ row.id \in Uuid /\ row.updated_at \in Time /\ row.rest = Formed

DecodeSession(row) ==
  /\ Carrier(row, {"id", "status", "updated_at", "rest"}, {"agent"})
  /\ row.id \in Uuid /\ row.status \in SessionStatus /\ IfGiven(row, "agent", SessionAgent)
  /\ row.updated_at \in Time /\ row.rest = Formed

DecodeExec(row) ==
  /\ Carrier(row, {"exit_code", "duration_ms", "truncated", "rest"}, {})
  /\ row.exit_code \in Int /\ row.duration_ms \in Nat
  /\ row.truncated \in BOOLEAN /\ row.rest = Formed

DecodeAck(row) == Carrier(row, {"ok"}, {}) /\ row.ok = TRUE

DecodeOpen(row) == Carrier(row, {"url"}, {}) /\ row.url \in Text

DecodeRecord(row) ==
  /\ Carrier(row, {"id", "session_id", "created_at", "rest"}, {})
  /\ {row.id, row.session_id} \subseteq Uuid /\ row.created_at \in Time /\ row.rest = Formed

\* A workspace is assigned, with its usage, or waits for one.
DecodeMe(row) ==
  /\ Carrier(row, {"id", "workspace", "rest"}, {})
  /\ row.id \in Uuid /\ row.rest = Formed
  /\ \/ /\ DOMAIN row.workspace = {"assigned", "id", "usage"}
        /\ row.workspace.assigned = TRUE
        /\ row.workspace.id \in Uuid /\ row.workspace.usage = Formed
     \/ /\ DOMAIN row.workspace = {"assigned", "waitlist_position"}
        /\ row.workspace.assigned = FALSE
        /\ row.workspace.waitlist_position \in Nat

MachineCreateStates ==
  {"prepared", "in_progress", "unknown", "provider_succeeded", "settled", "terminal_failed"}

DecodeMachineCreate(row) ==
  /\ DOMAIN row = {"id", "machine_id", "state", "retryable", "action", "updated_at"}
  /\ {row.id, row.machine_id} \subseteq Uuid
  /\ row.state \in MachineCreateStates /\ row.retryable \in BOOLEAN
  /\ row.action \in {"retry_create", "reconcile", "wait", "none"}
  /\ row.updated_at \in Time

-----------------------------------------------------------------------------
(* Agent sessions                                                           *)

AuthMode == {"interactive_login", "credential_binding"}
DesiredState == {"running", "terminated"}
RequestState ==
  {"launch_pending", "runtime_claimed", "launched", "termination_pending", "terminal", "failed"}
ProcessState ==
  {"unknown", "starting", "ready", "running", "exited", "failed", "terminating", "terminated"}

\* The binding and its generation are both given or both absent.
DecodeAgentSession(row) ==
  /\ Carrier(row, {"id", "machine_id", "name", "agent", "cwd", "auth_mode", "desired_state",
                   "request_state", "process_state", "row_version", "rest"},
             {"workspace_binding_id", "workspace_generation", "process_epoch"})
  /\ {row.id, row.machine_id} \subseteq Uuid
  /\ {row.name, row.cwd} \subseteq Text
  /\ row.agent \in SessionAgent /\ row.auth_mode \in AuthMode
  /\ row.desired_state \in DesiredState /\ row.request_state \in RequestState
  /\ row.process_state \in ProcessState /\ row.row_version \in Nat /\ row.rest = Formed
  /\ Given(row, "workspace_binding_id") <=> Given(row, "workspace_generation")
  /\ IfGiven(row, "workspace_binding_id", Uuid)
  /\ IfGiven(row, "workspace_generation", Nat \ {0})
  /\ IfGiven(row, "process_epoch", Uuid)

DecodeAgentSessionPage(row) ==
  /\ Carrier(row, {"items"}, {"next_cursor"})
  /\ Len(row.items) <= 100 /\ All(row.items, DecodeAgentSession)
  /\ IfGiven(row, "next_cursor", Text)

MaxAgentAuthTtl == 30
MaxAgentAuthFutureSkew == 5

Unavailable(row) == row.evidence_class = "insufficient" /\ row.state = "unavailable"

Interactive(row) ==
  /\ row.auth_mode = "interactive_login"
  /\ row.evidence_class = "provider_cli_login_status"
  /\ row.state \in {"login_required", "authenticated"}

Credential(row) ==
  /\ row.auth_mode = "credential_binding"
  /\ row.evidence_class = "credential_binding_authority"
  /\ row.state = "configured"

\* Evidence of a process, for no more than its time, and in that time.
Fresh(row, now) ==
  /\ row.process_epoch # None
  /\ row.observed_at < row.valid_until
  /\ row.valid_until - row.observed_at <= MaxAgentAuthTtl
  /\ row.observed_at <= now + MaxAgentAuthFutureSkew
  /\ now < row.valid_until

\* Negative evidence is good for no time at all.
DecodeAgentSessionAuth(row, now) ==
  /\ Carrier(row, {"agent_session_id", "process_epoch", "auth_mode", "evidence_class",
                   "observed_at", "valid_until", "state", "rest"}, {})
  /\ row.agent_session_id \in Uuid /\ row.process_epoch \in Uuid \cup {None}
  /\ row.auth_mode \in AuthMode
  /\ {row.observed_at, row.valid_until} \subseteq Time /\ row.rest = Formed
  /\ Unavailable(row) \/ Interactive(row) \/ Credential(row)
  /\ IF Unavailable(row) THEN row.valid_until = row.observed_at ELSE Fresh(row, now)

TerminalCapabilityNames == {"acknowledgement", "heartbeat", "live_resize", "resume", "signals"}

\* The URL is the one of this terminal session; each capability is told once.
DecodeTerminalConnectionGrant(row) ==
  /\ Carrier(row, {"terminal_session_id", "resume_handle", "connect_url", "connect_token",
                   "protocol", "capabilities", "expires_at"}, {})
  /\ {row.terminal_session_id, row.resume_handle} \subseteq Uuid
  /\ row.connect_url = <<"stream", row.terminal_session_id>>
  /\ row.protocol \in {"cuna.terminal.v1", "runa.terminal.v1"}
  /\ Len(row.capabilities) = 5
  /\ {row.capabilities[i].name : i \in 1 .. 5} = TerminalCapabilityNames
  /\ All(row.capabilities,
         LAMBDA c : c.availability \in {"supported", "unsupported", "unknown"})
  /\ row.connect_token \in Text /\ row.expires_at \in Time

-----------------------------------------------------------------------------
(* Capabilities                                                             *)

CapabilityScope == {"account", "machine", "agent_session"}
CapabilityAvailability == {"supported", "unsupported", "temporarily_unavailable", "unknown"}
CapabilitySurface == {"cli", "web", "sdk"}
CapabilityInteraction == {"native", "read_only", "browser_handoff"}
CapabilityMutationClass == {"none", "reversible", "destructive", "secret_revealing", "financial"}

DecodeCapability(row) ==
  /\ Carrier(row, {"id", "availability", "surfaces", "interaction", "mutation_class",
                   "required_permissions"}, {"reason_code"})
  /\ row.id \in Text /\ row.availability \in CapabilityAvailability
  /\ row.interaction \in CapabilityInteraction /\ row.mutation_class \in CapabilityMutationClass
  /\ Len(row.surfaces) \in 1 .. 3 /\ NoDuplicates(row.surfaces)
  /\ All(row.surfaces, LAMBDA s : s \in CapabilitySurface)
  /\ Len(row.required_permissions) <= 16 /\ NoDuplicates(row.required_permissions)
  /\ All(row.required_permissions, LAMBDA p : p \in Text)
  /\ IfGiven(row, "reason_code", Text)

DecodeCapabilitySnapshot(row) ==
  /\ Carrier(row, {"schema_version", "subject_scope", "observed_at", "expires_at", "etag",
                   "capabilities"}, {"subject_id"})
  /\ row.schema_version = "1.0" /\ row.subject_scope \in CapabilityScope
  /\ IfGiven(row, "subject_id", Uuid)
  /\ {row.observed_at, row.expires_at} \subseteq Time /\ row.observed_at < row.expires_at
  /\ row.etag \in Digest
  /\ Len(row.capabilities) <= 128 /\ All(row.capabilities, DecodeCapability)

-----------------------------------------------------------------------------
(* Workspaces                                                               *)

DecodeWorkspaceBinding(row) ==
  /\ ExactMapping(row, {"binding_id", "workspace_id", "project_id", "local_instance_id",
                        "machine_id", "exclusion_policy_digest", "active_generation",
                        "active_manifest_root", "binding_epoch", "rest"})
  /\ {row.binding_id, row.workspace_id, row.project_id, row.local_instance_id, row.machine_id}
       \subseteq Uuid
  /\ {row.exclusion_policy_digest, row.active_manifest_root} \subseteq Digest
  /\ row.active_generation \in Safe /\ row.binding_epoch \in Safe \ {0} /\ row.rest = Formed

WorkspaceSyncCapabilities ==
  {"atomic_generation_commit", "bounded_manifest_pages", "content_digest_verification",
   "explicit_reconciliation", "ordered_generation_changes", "policy_bound_admission"}

\* All six, once each, in any order.
DecodeSyncCapabilities(value) ==
  Len(value) = Cardinality(WorkspaceSyncCapabilities)
    /\ {value[i] : i \in DOMAIN value} = WorkspaceSyncCapabilities

MaxChunk == 8388608

DecodeManifestEntry(row) ==
  /\ ExactMapping(row, {"path", "kind", "byte_length", "executable", "chunks", "link_target"})
  /\ row.path \in Text /\ row.kind \in {"directory", "file", "symlink"}
  /\ row.executable \in BOOLEAN /\ row.link_target \in Text \cup {None}
  /\ Len(row.chunks) <= 4096
  /\ All(row.chunks, LAMBDA c : c.digest \in Digest /\ c.byte_length \in 0 .. MaxChunk)
  /\ row.byte_length \in Nat

SyncStates == {"staging", "committed", "conflicted", "expired"}

DecodeSyncSession(row) ==
  /\ Carrier(row, {"id", "workspace_id", "machine_id", "base_generation",
                   "exclusion_policy_digest", "selected_protocol", "capabilities", "state", "rest"},
             {"last_page_index", "committed_generation", "committed_manifest_root"})
  /\ {row.id, row.workspace_id, row.machine_id} \subseteq Uuid
  /\ row.base_generation \in Nat /\ row.exclusion_policy_digest \in Digest
  /\ row.selected_protocol \in Protocols /\ DecodeSyncCapabilities(row.capabilities)
  /\ row.state \in SyncStates /\ row.rest = Formed
  /\ IfGiven(row, "last_page_index", Nat) /\ IfGiven(row, "committed_generation", Nat \ {0})
  /\ IfGiven(row, "committed_manifest_root", Digest)

DecodeManifestReceipt(row) ==
  /\ ExactMapping(row, {"sync", "page_index", "page_digest", "missing_digests"})
  /\ DecodeSyncSession(row.sync) /\ row.page_index \in Nat /\ row.page_digest \in Digest
  /\ All(row.missing_digests, LAMBDA d : d \in Digest)

DecodeChunkReceipt(row) ==
  /\ ExactMapping(row, {"selected_protocol", "digest", "byte_length", "stored"})
  /\ row.selected_protocol \in Protocols /\ row.digest \in Digest
  /\ row.byte_length \in 0 .. MaxChunk /\ row.stored \in BOOLEAN

\* Slip: whatever decodes is the content.
ContentUnread(row) ==
  /\ row.content_base64 \in DOMAIN B64Decode
  /\ row.minimum_reader <= row.selected_protocol

\* The content is spelled canonically and has the length and digest it claims.
ContentVerified(row) ==
  /\ row.content_base64 \in DOMAIN B64Decode
  /\ LET content == B64Decode[row.content_base64]
     IN  /\ row.minimum_reader <= row.selected_protocol
         /\ Length[content] = row.byte_length
         /\ B64Encode[content] = row.content_base64
         /\ Sha256[content] = row.digest

DecodeChunkContent(row) ==
  /\ ExactMapping(row, {"selected_protocol", "digest", "byte_length", "minimum_reader",
                        "content_base64"})
  /\ {row.selected_protocol, row.minimum_reader} \subseteq Protocols
  /\ row.digest \in Digest /\ row.byte_length \in 0 .. MaxChunk
  /\ ContentVerified(row)

DecodeCommitReceipt(row) ==
  /\ ExactMapping(row, {"selected_protocol", "state", "generation", "manifest_root", "rest"})
  /\ row.state = "committed" /\ row.selected_protocol \in Protocols
  /\ row.generation \in Nat \ {0} /\ row.manifest_root \in Digest /\ row.rest = Formed

DecodeChangePage(row) ==
  /\ ExactMapping(row, {"selected_protocol", "items", "next_cursor"})
  /\ row.selected_protocol \in Protocols
  /\ Len(row.items) <= 1000 /\ row.next_cursor \in Text \cup {None}
  /\ All(row.items,
         LAMBDA item :
           /\ ExactMapping(item, {"generation", "operation", "path", "entry", "rest"})
           /\ item.operation \in {"revision", "upsert", "delete"}
           /\ item.path \in Text \cup {None} /\ item.generation \in Nat \ {0}
           /\ item.entry = None \/ DecodeManifestEntry(item.entry)
           /\ item.rest = Formed)

DecodeReconcileReceipt(row) ==
  /\ ExactMapping(row, {"selected_protocol", "status", "active_generation",
                        "active_manifest_root", "exclusion_policy_digest"})
  /\ row.status \in {"converged", "reconciliation_required"}
  /\ row.selected_protocol \in Protocols /\ row.active_generation \in Nat
  /\ {row.active_manifest_root, row.exclusion_policy_digest} \subseteq Digest

DecodeSyncData(op, data) ==
  \/ op = "workspaces.sync.begin" /\ DecodeSyncSession(data)
  \/ op = "workspaces.sync.negotiate" /\ DecodeManifestReceipt(data)
  \/ op = "workspaces.sync.chunk" /\ DecodeChunkReceipt(data)
  \/ op = "workspaces.sync.chunkDownload" /\ DecodeChunkContent(data)
  \/ op = "workspaces.sync.commit" /\ DecodeCommitReceipt(data)
  \/ op = "workspaces.sync.changes" /\ DecodeChangePage(data)
  \/ op = "workspaces.sync.reconcile" /\ DecodeReconcileReceipt(data)

\* The envelope speaks for its content: one protocol, the same capabilities.
DecodeEnvelope(op, row) ==
  /\ Carrier(row, {"request_id", "selected_protocol", "capabilities", "data"}, {})
  /\ row.request_id \in Uuid /\ row.selected_protocol \in Protocols
  /\ DecodeSyncCapabilities(row.capabilities)
  /\ DecodeSyncData(op, row.data)
  /\ LET nested == IF op = "workspaces.sync.negotiate" THEN row.data.sync ELSE row.data
     IN  nested.selected_protocol = row.selected_protocol

-----------------------------------------------------------------------------

Syncs ==
  {"workspaces.sync.begin", "workspaces.sync.negotiate", "workspaces.sync.chunk",
   "workspaces.sync.chunkDownload", "workspaces.sync.commit", "workspaces.sync.changes",
   "workspaces.sync.reconcile"}
Lifecycles == {"sessions.start", "sessions.pause", "sessions.resume", "sessions.stop"}

DecodeForOperation(op, body, now) ==
  \/ op \in {"workspaceBindings.create", "workspaceBindings.get"} /\ DecodeWorkspaceBinding(body)
  \/ op \in {"machineCreates.get", "machineCreates.reconcile"} /\ DecodeMachineCreate(body)
  \/ op \in Syncs /\ DecodeEnvelope(op, body)
  \/ op = "sessions.list" /\ All(body, DecodeSession)
  \/ op = "records.list" /\ All(body, DecodeRecord)
  \/ op \in {"sessions.create", "sessions.get"} \cup Lifecycles /\ DecodeSession(body)
  \/ op = "sessions.exec" /\ DecodeExec(body)
  \/ op \in {"sessions.checkpoint", "sessions.delete"} /\ DecodeAck(body)
  \/ op = "sessions.open" /\ DecodeOpen(body)
  \/ op = "agentSessions.list" /\ DecodeAgentSessionPage(body)
  \/ op = "agentSessions.createTerminalConnection" /\ DecodeTerminalConnectionGrant(body)
  \/ op = "agentSessions.agentAuth" /\ DecodeAgentSessionAuth(body, now)
  \/ /\ op \in {"agentSessions.create", "agentSessions.get", "agentSessions.rename",
                "agentSessions.terminate"}
     /\ DecodeAgentSession(body)
  \/ op = "capabilities.get" /\ DecodeCapabilitySnapshot(body)
  \/ op = "me.get" /\ DecodeMe(body)
=============================================================================
