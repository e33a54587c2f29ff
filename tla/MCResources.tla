----------------------------- MODULE MCResources ------------------------------
(* Two machines, two agent sessions, two bindings of one workspace and two   *)
(* chunks, so that every answer can be that to another request, and requests *)
(* that differ in what is not compared; of every argument one that passes    *)
(* and, where a rule joins several, one that fails.                          *)
EXTENDS Resources

MCUuid == {"m1", "m2", "m3", "a1", "a2", "w1", "b1", "b2", "p1", "i1", "e1", "e2", "e3", "u1"}
MCDigest == {"d1", "d2"}
MCName == {"n1", "n2"}
MCCwd == {"/workspace/x"}
MCKey == {"key"}
MCText == MCName \cup MCCwd \cup {"text"}

MCLength == [content1 |-> 2, content2 |-> 3]
MCSha256 == [content1 |-> "d1", content2 |-> "d2"]
MCB64Encode == [content1 |-> "b64-1", content2 |-> "b64-2"]
MCB64Decode == [x \in {"b64-1", "b64-1+", "b64-2"} |-> IF x = "b64-2" THEN "content2" ELSE "content1"]

\* A login that is asked for, done, and then asked for again by a new process.
MCProcesses ==
  [a1 |-> <<[epoch |-> "e1", state |-> "login_required"], [epoch |-> "e1", state |-> "authenticated"]>>,
   a2 |-> <<[epoch |-> "e3", state |-> "authenticated"]>>]

AgentRow(id, machine, name) ==
  [id |-> id, machine_id |-> machine, name |-> name, agent |-> "codex", cwd |-> "/workspace/x",
   auth_mode |-> "interactive_login", desired_state |-> "running", request_state |-> "launched",
   process_state |-> "ready", row_version |-> 1, rest |-> Formed, workspace_binding_id |-> "b1",
   workspace_generation |-> 1, process_epoch |-> IF id = "a1" THEN "e1" ELSE "e3"]

MachineOf == [a1 |-> "m1", a2 |-> "m2"]

Launch == [agent |-> "codex", cwd |-> "/workspace/x", workspace_binding_id |-> "b1",
           workspace_generation |-> 1, idempotency_key |-> "key"]

With(row, name, value) ==
  [n \in DOMAIN row \cup {name} |-> IF n = name THEN value ELSE row[n]]

Launches ==
  {Launch, With(Launch, "name", "n2"), With(Launch, "credential_binding_id", "u1"),
   With(With(Launch, "auth_mode", "credential_binding"), "credential_binding_id", "u1"),
   With([Launch EXCEPT !.agent = "openclaw"], "credential_binding_id", "u1"),
   [Launch EXCEPT !.agent = "openclaw"], With(Launch, "auth_mode", "credential_binding"),
   [Launch EXCEPT !.workspace_generation = 0]}

BindingIdentity(machine) ==
  [workspace_id |-> "w1", project_id |-> "p1", local_instance_id |-> "i1", machine_id |-> machine,
   exclusion_policy_digest |-> "d1"]

Entry == [path |-> "text", kind |-> "file", byte_length |-> 2, executable |-> FALSE,
          chunks |-> <<[digest |-> "d1", byte_length |-> 2]>>, link_target |-> None]

SyncRequest(type) ==
  IF type = "WorkspaceSyncManifestPageRequest"
    THEN [type |-> type, page_index |-> 255, is_last |-> TRUE, entries |-> <<Entry>>,
          minimum_reader |-> 1, minimum_writer |-> 1, workspace_binding_id |-> "b1"]
    ELSE [type |-> type, workspace_binding_id |-> "b1", machine_id |-> "m1", base_generation |-> 0,
          expected_generation |-> 0, observed_generation |-> 0, exclusion_policy_digest |-> "d1",
          manifest_root |-> "d2", protocol |-> [minimum |-> 1, maximum |-> 2],
          minimum_reader |-> 1, minimum_writer |-> 1]

TypeFor ==
  [op \in Syncs |->
     IF op = "workspaces.sync.begin" THEN "WorkspaceSyncBeginRequest"
     ELSE IF op = "workspaces.sync.negotiate" THEN "WorkspaceSyncManifestPageRequest"
     ELSE IF op = "workspaces.sync.commit" THEN "WorkspaceSyncCommitRequest"
     ELSE "WorkspaceSyncReconcileRequest"]

CreateOptions ==
  {[vcpus |-> 8], [vcpus |-> 9],
   [allowed_hosts |-> <<"text">>, outbound_policy |-> [mode |-> "allowlist", hosts |-> <<>>]]}

ArgumentsOf(op) ==
  IF op = "sessions.create" THEN {[name |-> "n1", options |-> o] : o \in CreateOptions}
  ELSE IF op = "sessions.get" THEN {[id |-> "m1"]}
  ELSE IF op = "sessions.exec"
    THEN {[command |-> <<"text">>, options |-> [timeout_secs |-> t]] : t \in {600, 601}}
  ELSE IF op = "sessions.checkpoint" THEN {[name |-> "n1"]}
  ELSE IF op = "agentSessions.list"
    THEN {[id |-> m, options |-> o] : m \in {"m1", "m2"},
                                      o \in {[limit |-> 100], [limit |-> 100, cursor |-> "text"]}}
  ELSE IF op = "agentSessions.create"
    THEN {[id |-> m, options |-> o] : m \in {"m1", "m2"}, o \in Launches}
  ELSE IF op = "agentSessions.rename" THEN {[id |-> "a1", name |-> n] : n \in MCName}
  ELSE IF op \in {"agentSessions.get", "agentSessions.terminate"} THEN {[id |-> a] : a \in {"a1", "a2"}}
  ELSE IF op = "agentSessions.agentAuth"
    THEN {[session |-> AgentRow(a, MachineOf[a], "n1")] : a \in {"a1", "a2"}}
  ELSE IF op = "agentSessions.createTerminalConnection"
    THEN {[id |-> "a1", options |-> [idempotency_key |-> "key", client_instance_id |-> "text"]]}
  ELSE IF op = "capabilities.get"
    THEN {[scope |-> "account", resource |-> None], [scope |-> "account", resource |-> "m1"],
          [scope |-> "machine", resource |-> "m1"], [scope |-> "machine", resource |-> "m2"]}
  ELSE IF op = "workspaceBindings.create"
    THEN {[identity |-> With(BindingIdentity(m), "excluded_prefixes", <<"text">>), key |-> "key"]
            : m \in {"m1", "m2"}}
  ELSE IF op = "workspaceBindings.get"
    THEN {[id |-> b, identity |-> BindingIdentity("m1")] : b \in {"b1", "b2", "w1"}}
  ELSE IF op = "workspaces.sync.chunk" THEN {[id |-> "u1", digest |-> "d1", data |-> "content1", key |-> "key"]}
  ELSE IF op = "workspaces.sync.chunkDownload" THEN {[id |-> "u1", digest |-> d] : d \in MCDigest}
  ELSE IF op = "workspaces.sync.changes"
    THEN {[id |-> "u1", options |-> [reader_version |-> 1, limit |-> l]] : l \in {1000, 1001}}
  ELSE IF op \in {"workspaces.sync.begin", "workspaces.sync.reconcile"}
    THEN {[id |-> w, request |-> SyncRequest(TypeFor[op]), key |-> "key"] : w \in {"w1", "b1"}}
  ELSE IF op \in Syncs THEN {[id |-> "u1", request |-> SyncRequest(TypeFor[op]), key |-> "key"]}
  ELSE IF op \in {"machineCreates.get", "machineCreates.reconcile"} THEN {[id |-> "u1"]}
  ELSE {[id |-> "m1"]}

HandleOps == {"sessions.get", "sessions.exec", "sessions.checkpoint", "sessions.open", "sessions.delete"}
             \cup Lifecycles
AllOps == HandleOps \cup Syncs \cup
  {"sessions.create", "sessions.list", "agentSessions.list", "agentSessions.create",
   "agentSessions.get", "agentSessions.rename", "agentSessions.terminate", "agentSessions.agentAuth",
   "agentSessions.createTerminalConnection", "capabilities.get", "records.list", "me.get",
   "workspaceBindings.create", "workspaceBindings.get", "machineCreates.get", "machineCreates.reconcile"}

\* A table, worked out once.
ArgumentTable == [op \in AllOps |-> ArgumentsOf(op)]
MCArguments(op) == ArgumentTable[op]

AllSix == <<"atomic_generation_commit", "bounded_manifest_pages", "content_digest_verification",
            "explicit_reconciliation", "ordered_generation_changes", "policy_bound_admission">>

SyncSession ==
  [id |-> "u1", workspace_id |-> "w1", machine_id |-> "m1", base_generation |-> 0,
   exclusion_policy_digest |-> "d1", selected_protocol |-> 2, capabilities |-> AllSix,
   state |-> "staging", rest |-> Formed]

SyncData(op, args) ==
  IF op = "workspaces.sync.begin" THEN SyncSession
  ELSE IF op = "workspaces.sync.negotiate"
    THEN [sync |-> SyncSession, page_index |-> 255, page_digest |-> "d1", missing_digests |-> <<"d2">>]
  ELSE IF op = "workspaces.sync.chunk"
    THEN [selected_protocol |-> 2, digest |-> args.digest, byte_length |-> 2, stored |-> TRUE]
  ELSE IF op = "workspaces.sync.chunkDownload"
    THEN [selected_protocol |-> 2, digest |-> args.digest, minimum_reader |-> 1,
          byte_length |-> IF args.digest = "d1" THEN 2 ELSE 3,
          content_base64 |-> IF args.digest = "d1" THEN "b64-1" ELSE "b64-2"]
  ELSE IF op = "workspaces.sync.commit"
    THEN [selected_protocol |-> 2, state |-> "committed", generation |-> 1, manifest_root |-> "d2",
          rest |-> Formed]
  ELSE IF op = "workspaces.sync.changes"
    THEN [selected_protocol |-> 2, next_cursor |-> None,
          items |-> <<[generation |-> 1, operation |-> "upsert", path |-> "text", entry |-> Entry,
                       rest |-> Formed]>>]
  ELSE [selected_protocol |-> 2, status |-> "converged", active_generation |-> 1,
        active_manifest_root |-> "d2", exclusion_policy_digest |-> "d1"]

Names == <<"acknowledgement", "heartbeat", "live_resize", "resume", "signals">>

OneCapability ==
  [id |-> "text", availability |-> "supported", surfaces |-> <<"cli", "sdk">>,
   interaction |-> "native", mutation_class |-> "none", required_permissions |-> <<"text">>]

CapabilityRow(args) ==
  LET row == [schema_version |-> "1.0", subject_scope |-> args.scope, observed_at |-> 0,
              expires_at |-> 9, etag |-> "d1", capabilities |-> <<OneCapability>>]
  IN  IF args.scope = "account" THEN row ELSE With(row, "subject_id", args.resource)

BindingRow(id, identity) ==
  [m \in Identity \cup {"exclusion_policy_digest", "binding_id", "active_generation",
                        "active_manifest_root", "binding_epoch", "rest"} |->
     IF m \in DOMAIN identity THEN identity[m]
     ELSE IF m = "binding_id" THEN id ELSE IF m = "active_manifest_root" THEN "d2"
     ELSE IF m = "rest" THEN Formed ELSE 1]

\* Two pages for the first machine; the second page of the other one is empty.
Page(machine, options) ==
  IF ~Given(options, "cursor")
    THEN [items |-> <<AgentRow(IF machine = "m1" THEN "a1" ELSE "a2", machine, "n1")>>,
          next_cursor |-> "text"]
    ELSE [items |-> IF machine = "m1" THEN <<AgentRow("u1", machine, "n2")>> ELSE <<>>]

MCReply(op, args) ==
  IF op = "sessions.exec"
    THEN [exit_code |-> 0, duration_ms |-> 1, truncated |-> FALSE, rest |-> Formed]
  ELSE IF op \in {"sessions.checkpoint", "sessions.delete"} THEN [ok |-> TRUE]
  ELSE IF op = "sessions.open" THEN [url |-> "text"]
  ELSE IF op = "agentSessions.list" THEN Page(args.id, args.options)
  ELSE IF op = "agentSessions.create"
    THEN [AgentRow("a1", args.id, IF Given(args.options, "name") THEN args.options.name ELSE "n1") EXCEPT
            !.agent = args.options.agent, !.auth_mode = EffectiveMode(args.options),
            !.workspace_generation = args.options.workspace_generation]
  ELSE IF op = "agentSessions.rename" THEN AgentRow("a1", "m1", args.name)
  ELSE IF op \in {"agentSessions.get", "agentSessions.terminate"} THEN AgentRow(args.id, MachineOf[args.id], "n1")
  ELSE IF op = "agentSessions.createTerminalConnection"
    THEN [terminal_session_id |-> "u1", resume_handle |-> "u1", connect_url |-> <<"stream", "u1">>,
          connect_token |-> "text", protocol |-> "runa.terminal.v1", expires_at |-> 9,
          capabilities |-> [i \in 1 .. 5 |-> [name |-> Names[i], availability |-> "supported"]]]
  ELSE IF op = "capabilities.get" THEN CapabilityRow(args)
  ELSE IF op = "records.list"
    THEN <<[id |-> "u1", session_id |-> "m1", created_at |-> 0, rest |-> Formed]>>
  ELSE IF op = "me.get"
    THEN [id |-> "u1", rest |-> Formed,
          workspace |-> [assigned |-> TRUE, id |-> "w1", usage |-> Formed]]
  ELSE IF op = "workspaceBindings.create" THEN BindingRow("b1", args.identity)
  ELSE IF op = "workspaceBindings.get" THEN BindingRow(args.id, args.identity)
  ELSE IF op \in Syncs
    THEN [request_id |-> "u1", selected_protocol |-> 2, capabilities |-> AllSix,
          data |-> SyncData(op, args)]
  ELSE [id |-> args.id, machine_id |-> "m1", state |-> "settled", retryable |-> FALSE,
        action |-> "none", updated_at |-> 0]

CONSTANTS one, two
MCUses == [c \in {one, two} |-> IF c = one THEN AllOps \ {"sessions.start", "sessions.stop"} ELSE {"sessions.resume"}]
=============================================================================
