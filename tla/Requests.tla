------------------------------- MODULE Requests --------------------------------
(***************************************************************************)
(* What the managers ask of their arguments before anything is sent.  The  *)
(* body they make of them has the same members.                            *)
(*                                                                         *)
(* An argument that is not of its type or grammar is in none of the sets.  *)
(* Options are functions whose domain is what the caller has given: what   *)
(* is None or UNSET in the code is not there.                              *)
(***************************************************************************)
EXTENDS Contract

CONSTANTS
  Name,   \* texts of 1 to 80 characters
  Cwd,    \* paths under /workspace of 10 to 1024 characters
  Key,    \* idempotency keys
  Prefix  \* relative paths without empty, "." and ".." parts

-----------------------------------------------------------------------------
(* Machines (sessions)                                                      *)

\* One network rule or the other, never both.
ValidateCreate(name, options) ==
  /\ name \in Name
  /\ IfGiven(options, "idempotency_key", Key)
  /\ IfGiven(options, "agent", SessionAgent)
  /\ IfGiven(options, "vcpus", 1 .. 8)
  /\ IfGiven(options, "memory_mib", 512 .. 16384)
  /\ IfGiven(options, "runtime_port", 1 .. 65535)
  /\ Given(options, "allowed_hosts") =>
       Len(options.allowed_hosts) <= 128 /\ All(options.allowed_hosts, LAMBDA h : h \in Text)
  /\ ~(Given(options, "allowed_hosts") /\ Given(options, "outbound_policy"))
  /\ Given(options, "outbound_policy") =>
       LET policy == options.outbound_policy
       IN  /\ policy.mode \in {"allowlist", "denylist"}
           /\ Len(policy.hosts) <= 128 /\ NoDuplicates(policy.hosts)
           /\ All(policy.hosts, LAMBDA h : h \in Text)

\* A command line, or a program and its arguments.
ExecBodyValid(command, options) ==
  /\ Len(command) > 0 /\ command[1] \in Text
  /\ IfGiven(options, "cwd", Text) /\ IfGiven(options, "timeout_secs", 1 .. 600)

-----------------------------------------------------------------------------
(* Agent sessions                                                           *)

EffectiveMode(options) ==
  IF Given(options, "auth_mode") THEN options.auth_mode
  ELSE IF options.agent = "openclaw" THEN "credential_binding" ELSE "interactive_login"

\* A credential is given in the mode that takes one, and only in that.
ValidateAgentSessionCreate(options) ==
  /\ options.agent \in SessionAgent /\ options.cwd \in Cwd
  /\ options.workspace_binding_id \in Uuid /\ options.workspace_generation \in Nat \ {0}
  /\ options.idempotency_key \in Key
  /\ IfGiven(options, "name", Name) /\ IfGiven(options, "auth_mode", AuthMode)
  /\ IfGiven(options, "credential_binding_id", Uuid)
  /\ Given(options, "credential_binding_id") <=> EffectiveMode(options) = "credential_binding"

ValidateTerminalConnectionCreate(options) ==
  /\ options.idempotency_key \in Key /\ options.client_instance_id \in Text
  /\ IfGiven(options, "resume_handle", Uuid)

AgentSessionQueryValid(options) ==
  IfGiven(options, "limit", 1 .. 100) /\ IfGiven(options, "cursor", Text)

\* The account has no resource, the other scopes need one.
CapabilityQueryValid(scope, resource) ==
  /\ scope \in CapabilityScope
  /\ IF scope = "account" THEN resource = None ELSE resource \in Uuid

-----------------------------------------------------------------------------
(* Workspaces                                                               *)

Identity == {"workspace_id", "project_id", "local_instance_id", "machine_id"}

BindingIdentityValid(identity) ==
  /\ \A m \in Identity : identity[m] \in Uuid
  /\ identity.exclusion_policy_digest \in Digest

BindingCreateBodyValid(request) ==
  /\ BindingIdentityValid(request)
  /\ Len(request.excluded_prefixes) <= 10000 /\ NoDuplicates(request.excluded_prefixes)
  /\ All(request.excluded_prefixes, LAMBDA p : p \in Prefix)

WorkspaceProtocolValid(range) == range.minimum \in Nat \ {0} /\ range.minimum <= range.maximum

ReadersValid(request) == {request.minimum_reader, request.minimum_writer} \subseteq Nat \ {0}

ManifestEntryValid(entry) ==
  /\ entry.path \in Text /\ entry.kind \in {"directory", "file", "symlink"}
  /\ entry.executable \in BOOLEAN /\ entry.link_target \in Text \cup {None}
  /\ Len(entry.chunks) <= 4096
  /\ All(entry.chunks, LAMBDA c : c.digest \in Digest /\ c.byte_length \in 0 .. MaxChunk)
  /\ entry.byte_length \in Nat

\* The type of the request decides, not the operation it is given to.
WorkspaceSyncBodyValid(request) ==
  \/ /\ request.type = "WorkspaceSyncBeginRequest"
     /\ {request.workspace_binding_id, request.machine_id} \subseteq Uuid
     /\ request.base_generation \in Nat /\ request.exclusion_policy_digest \in Digest
     /\ WorkspaceProtocolValid(request.protocol) /\ ReadersValid(request)
  \/ /\ request.type = "WorkspaceSyncManifestPageRequest"
     /\ request.page_index \in 0 .. 255 /\ request.is_last \in BOOLEAN
     /\ Len(request.entries) <= 4096 /\ All(request.entries, ManifestEntryValid)
     /\ ReadersValid(request)
  \/ /\ request.type = "WorkspaceSyncCommitRequest"
     /\ request.expected_generation \in Nat /\ ReadersValid(request)
     /\ {request.exclusion_policy_digest, request.manifest_root} \subseteq Digest
  \/ /\ request.type = "WorkspaceSyncReconcileRequest"
     /\ {request.workspace_binding_id, request.machine_id} \subseteq Uuid
     /\ request.observed_generation \in Nat /\ WorkspaceProtocolValid(request.protocol)
     /\ {request.exclusion_policy_digest, request.manifest_root} \subseteq Digest

WorkspaceSyncQueryValid(options) ==
  /\ options.reader_version \in Nat \ {0}
  /\ IfGiven(options, "limit", 1 .. 1000) /\ IfGiven(options, "cursor", Text)
=============================================================================
