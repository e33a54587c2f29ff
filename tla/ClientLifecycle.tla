--------------------------- MODULE ClientLifecycle ---------------------------
(***************************************************************************)
(* What a Cuna client promises about its life, whatever runs it: calls are *)
(* admitted only while it is open, an admitted call keeps what it needs    *)
(* until it ends, and what the client owns is given back once, after the   *)
(* last admitted call.  AsyncClient, SyncClient and Invocation implement   *)
(* this module.                                                            *)
(***************************************************************************)
CONSTANT Callers  \* whatever makes calls one after another: a task, a thread, a depth of calls

VARIABLES
  phase,     \* "OPEN", "CLOSING" or "CLOSED"
  inflight,  \* callers whose call is admitted and has not ended
  released   \* the owned transport is no longer usable

vars == <<phase, inflight, released>>

Phases == {"OPEN", "CLOSING", "CLOSED"}

TypeOK ==
  /\ phase \in Phases
  /\ inflight \in SUBSET Callers
  /\ released \in BOOLEAN

Init ==
  /\ phase = "OPEN"
  /\ inflight = {}
  /\ released = FALSE

\* A call of c takes a lease.
Admit(c) ==
  /\ phase = "OPEN"
  /\ c \notin inflight
  /\ inflight' = inflight \cup {c}
  /\ UNCHANGED <<phase, released>>

\* The call of c ends, in whatever way.
Finish(c) ==
  /\ c \in inflight
  /\ inflight' = inflight \ {c}
  /\ UNCHANGED <<phase, released>>

\* The first close() stops admission.
BeginClose ==
  /\ phase = "OPEN"
  /\ phase' = "CLOSING"
  /\ UNCHANGED <<inflight, released>>

\* The transport starts to close: nobody is using it.
Release ==
  /\ phase # "CLOSED"
  /\ inflight = {}
  /\ phase' = "CLOSING"
  /\ released' = TRUE
  /\ UNCHANGED inflight

\* A close() ends; with no transport to wait for it may do so in one step.
Close ==
  /\ phase # "CLOSED"
  /\ inflight = {}
  /\ phase' = "CLOSED"
  /\ released' = TRUE
  /\ UNCHANGED inflight

Next ==
  \/ \E c \in Callers : Admit(c) \/ Finish(c)
  \/ BeginClose
  \/ Release
  \/ Close

Spec == Init /\ [][Next]_vars
=============================================================================
