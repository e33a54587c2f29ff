----------------------------- MODULE Publication ------------------------------
(***************************************************************************)
(* The release of one version: the tag, the evidence, the upload to the    *)
(* registry, the promotion of a GitHub release, and the recovery of a      *)
(* publication that stopped on the way.                                    *)
(*                                                                         *)
(* Runs of the release and the recovery workflow share a concurrency       *)
(* group: one of them is in progress at a time.  Any step of theirs may    *)
(* fail, and any runner may be lost.                                       *)
(***************************************************************************)
EXTENDS ReleaseGates

CONSTANTS
  Candidates,     \* what successful quality runs on the commit handed over
  Inherited,      \* statements of the release authority
  Receipts,       \* receipts of the approval provider
  None,
  ReceiptPath,    \* where the download of the evidence puts the receipt
  StepTime,       \* bound on the duration of a step
  MaxTime,        \* bound on time
  MaxEvidence,    \* bound on successful evidence runs
  MaxDispatches,  \* bound on create-tag and publish runs
  MaxFailures     \* bound on failed steps and lost runners

ASSUME TimeAssumption == StepTime \in Nat /\ MaxTime \in Nat
ASSUME BoundAssumption == {MaxEvidence, MaxDispatches, MaxFailures} \subseteq Nat

\* A quality run hands over its pair and its manifest, nothing else.
ASSUME CandidateAssumption ==
  \A c \in Candidates : DOMAIN c \subseteq Dists \cup {"candidate-manifest"}
ASSUME ReceiptAssumption == EvidenceLife \in Nat /\ \A r \in Receipts : r.expiresAt \in Int

\* The receipt is downloaded over none of the other files.
ASSUME PathAssumption ==
  ReceiptPath \notin Dists \cup {"core", "inherited-evidence", "evidence", "admission",
                               "publication-state"}

VARIABLES
  now,
  pc,          \* the step the run in progress is at, "idle" if there is none
  since,       \* when that step began
  handoff,     \* the directory of that run
  record,      \* its publication-state.json
  tag,         \* the tag's object, 0 while there is no tag
  tagRuns,     \* what successful create-tag runs handed over
  evidence,    \* what successful evidence runs handed over
  registry,    \* the files of the version
  release,     \* whether there is a GitHub release, and its assets
  envelopes,   \* the python-publication-recovery artifacts
  promoted,    \* the python-promoted-release-record artifacts
  dispatches, failures

run == <<pc, since, handoff, record>>
world == <<tag, tagRuns, evidence, registry, release, envelopes, promoted>>
bounds == <<dispatches, failures>>
vars == <<now, run, world, bounds>>

PublishJob == {"publish", "absence", "revalidate", "upload", "record-upload", "verify-upload"}
Promotion == {"promote", "assets", "save-record"}
Steps == {"tag-authority", "create-tag", "save-tag-handoff", "publish-authority",
          "save", "save-failed", "retrieve-existing", "recover-release"}
         \cup PublishJob \cup Promotion

NoFiles == [n \in {} |-> None]

Init ==
  /\ now = 0
  /\ pc = "idle" /\ since = 0 /\ handoff = NoFiles /\ record = None
  /\ tag = 0 /\ tagRuns = {} /\ evidence = {}
  /\ registry = [d \in Dists |-> None]
  /\ release = [exists |-> FALSE, assets |-> NoFiles]
  /\ envelopes = {} /\ promoted = {}
  /\ dispatches = 0 /\ failures = 0

Goto(step) == pc' = step /\ since' = now

\* The run is over: its directory is gone.
EndRun == Goto("idle") /\ handoff' = NoFiles /\ record' = None

Retrieved == [d \in {e \in Dists : registry[e] # None} |-> registry[d]]

-----------------------------------------------------------------------------
(* The tag                                                                  *)

Absent == \A d \in Dists : registry[d] = None

DispatchTag ==
  /\ pc = "idle" /\ dispatches < MaxDispatches
  /\ \E c \in Candidates : ValidateCandidateHandoff(c) /\ handoff' = c
  /\ Goto("tag-authority")
  /\ dispatches' = dispatches + 1
  /\ UNCHANGED <<now, record, world, failures>>

TagAuthority ==
  /\ pc = "tag-authority"
  /\ Absent /\ ValidateTagCandidate(handoff, tag)
  /\ Goto("create-tag")
  /\ UNCHANGED <<now, handoff, record, world, bounds>>

CreateTag ==
  /\ pc = "create-tag"
  /\ ValidateTagCandidate(handoff, tag)
  /\ tag' = tag + 1
  /\ Goto("save-tag-handoff")
  /\ UNCHANGED <<now, handoff, record, tagRuns, evidence, registry, release, envelopes, promoted, bounds>>

SaveTagHandoff ==
  /\ pc = "save-tag-handoff"
  /\ tagRuns' = tagRuns \cup
       {Download(handoff, [n \in {"tag-handoff"} |-> BuildTagHandoff(handoff, tag)])}
  /\ EndRun
  /\ UNCHANGED <<now, tag, evidence, registry, release, envelopes, promoted, bounds>>

-----------------------------------------------------------------------------
(* The evidence, by a workflow that hands over nothing unless it succeeds   *)

WithCore(h, statement) ==
  Download(h, [n \in {"core", "inherited-evidence"} |->
                 IF n = "core" THEN AdmissionManifest(h, statement) ELSE statement])

EvidenceFiles(root, receipt) ==
  [n \in {"core", "inherited-evidence", "evidence", ReceiptPath} |->
     IF n = "evidence" THEN BuildEvidence(root, receipt, now)
     ELSE IF n = ReceiptPath THEN receipt ELSE root[n]]

ProduceEvidence ==
  /\ Cardinality(evidence) < MaxEvidence
  /\ \E h \in tagRuns, statement \in Inherited :
       /\ ValidateTagHandoff(h, tag)
       /\ CoreCanBeBuilt(h, statement)
       /\ \E root \in {WithCore(h, statement)}, receipt \in Receipts :
            /\ ValidateReleaseCore(root)
            /\ ApprovalReceiptGate(root, receipt, now)
            /\ evidence' = evidence \cup {EvidenceFiles(root, receipt)}
  /\ UNCHANGED <<now, run, tag, tagRuns, registry, release, envelopes, promoted, bounds>>

-----------------------------------------------------------------------------
(* Publication                                                              *)

DispatchPublish ==
  /\ pc = "idle" /\ dispatches < MaxDispatches
  /\ \E h \in tagRuns, e \in evidence :
       /\ ValidateTagHandoff(h, tag)
       /\ handoff' = Download(h, e)
  /\ Goto("publish-authority")
  /\ dispatches' = dispatches + 1
  /\ UNCHANGED <<now, record, world, failures>>

Admitted == ValidateReleaseCore(handoff) /\ ReleaseGate(handoff, tag, now)

PublishAuthority ==
  /\ pc = "publish-authority"
  /\ Admitted
  /\ handoff' = Download(handoff, [n \in {"admission"} |-> Admission(handoff)])
  /\ Goto("publish")
  /\ UNCHANGED <<now, record, world, bounds>>

Valid == ValidateHandoff(handoff) /\ ReleaseGate(handoff, tag, now)

StartPublish ==
  /\ pc = "publish"
  /\ Valid /\ CanInitialize(handoff) /\ StagePublishArtifacts(handoff)
  /\ record' = Initialize(handoff)
  /\ Goto("absence")
  /\ UNCHANGED <<now, handoff, world, bounds>>

ProveAbsence ==
  /\ pc = "absence"
  /\ Absent
  /\ Goto("revalidate")
  /\ UNCHANGED <<now, handoff, record, world, bounds>>

\* Slip: what was valid when the job started is taken to be.
RevalidateNothing ==
  /\ pc = "revalidate"
  /\ Goto("upload")
  /\ UNCHANGED <<now, handoff, record, world, bounds>>

Revalidate ==
  /\ pc = "revalidate"
  /\ Valid
  /\ Goto("upload")
  /\ UNCHANGED <<now, handoff, record, world, bounds>>

\* The wheel is uploaded first; the registry refuses a file that it has.
NextUpload == IF registry["wheel"] = None THEN "wheel" ELSE "sdist"

Upload ==
  /\ pc = "upload"
  /\ registry[NextUpload] = None
  /\ registry' = [registry EXCEPT ![NextUpload] = handoff[NextUpload]]
  /\ IF NextUpload = "sdist" THEN Goto("record-upload") ELSE UNCHANGED <<pc, since>>
  /\ UNCHANGED <<now, handoff, record, tag, tagRuns, evidence, release, envelopes, promoted, bounds>>

RecordUpload ==
  /\ pc = "record-upload"
  /\ CanMove(record, "uploaded-unverified")
  /\ record' = Moved(record, "uploaded-unverified")
  /\ Goto("verify-upload")
  /\ UNCHANGED <<now, handoff, world, bounds>>

VerifyUpload ==
  /\ pc = "verify-upload"
  /\ VerifyPublished(handoff, Retrieved)
  /\ CanMove(record, "registry-verified")
  /\ record' = Moved(record, "registry-verified")
  /\ Goto("save")
  /\ UNCHANGED <<now, handoff, world, bounds>>

\* The directory and the record, if there is one, outlive the job, even when
\* a step failed; the promotion needs the job to have succeeded.
SaveEnvelope ==
  /\ pc \in {"save", "save-failed"}
  /\ envelopes' = envelopes \cup
       {IF record = None THEN handoff
        ELSE Download(handoff, [n \in {"publication-state"} |-> record])}
  /\ IF pc = "save" THEN Goto("promote") /\ UNCHANGED <<handoff, record>> ELSE EndRun
  /\ UNCHANGED <<now, tag, tagRuns, evidence, registry, release, promoted, bounds>>

-----------------------------------------------------------------------------
(* Promotion                                                                *)

CreateRelease ==
  /\ pc = "promote"
  /\ StateOf(record) = "registry-verified"
  /\ CanStageAssets(handoff)
  /\ ~release.exists
  /\ release' = [exists |-> TRUE, assets |-> NoFiles]
  /\ Goto("assets")
  /\ UNCHANGED <<now, handoff, record, tag, tagRuns, evidence, registry, envelopes, promoted, bounds>>

\* Only what the release lacks is uploaded, by the promotion and the recovery.
UploadAsset ==
  /\ pc = "assets"
  /\ \E a \in AssetNames \ DOMAIN release.assets :
       release' = [release EXCEPT !.assets =
                     Download(@, [n \in {a} |-> ExpectedAssets(handoff)[n]])]
  /\ UNCHANGED <<now, run, tag, tagRuns, evidence, registry, envelopes, promoted, bounds>>

VerifyRelease ==
  /\ pc = "assets"
  /\ AssetNames \subseteq DOMAIN release.assets
  /\ VerifyAssets(ExpectedAssets(handoff), release.assets)
  /\ CanMove(record, "release-assets-verified")
  /\ record' = Moved(Moved(record, "release-assets-verified"), "promoted")
  /\ Goto("save-record")
  /\ UNCHANGED <<now, handoff, world, bounds>>

SaveRecord ==
  /\ pc = "save-record"
  /\ promoted' = promoted \cup {record}
  /\ EndRun
  /\ UNCHANGED <<now, tag, tagRuns, evidence, registry, release, envelopes, bounds>>

-----------------------------------------------------------------------------
(* Recovery                                                                 *)

Recoverable(e) == ValidateHandoff(e) /\ tag # 0 /\ Has(e, {"publication-state"})

DispatchRecovery(e) ==
  /\ pc = "idle"
  /\ Recoverable(e)
  /\ handoff' = e
  /\ record' = e["publication-state"]
  /\ Goto("retrieve-existing")
  /\ UNCHANGED <<now, world, bounds>>

\* Slip: the record is taken up where the envelope left it.
ResumedAsSaved == record

\* A planned record is moved on, because the registry has the files.
Resumed ==
  IF StateOf(record) = "planned" THEN Moved(record, "uploaded-unverified") ELSE record

RecoverRecord ==
  /\ pc = "retrieve-existing"
  /\ DOMAIN Retrieved = Dists
  /\ VerifyPublished(handoff, Retrieved)
  /\ record' = IF StateOf(Resumed) = "uploaded-unverified"
                 THEN Moved(Resumed, "registry-verified") ELSE Resumed
  /\ StateOf(record') = "registry-verified"
  /\ Goto("recover-release")
  /\ UNCHANGED <<now, handoff, world, bounds>>

RecoverRelease ==
  /\ pc = "recover-release"
  /\ CanStageAssets(handoff)
  /\ release' = [release EXCEPT !.exists = TRUE]
  /\ Goto("assets")
  /\ UNCHANGED <<now, handoff, record, tag, tagRuns, evidence, registry, envelopes, promoted, bounds>>

-----------------------------------------------------------------------------
(* Failures and time                                                        *)

\* A job that uploads saves its envelope when a step fails.
Abort ==
  IF pc \in PublishJob
    THEN Goto("save-failed") /\ UNCHANGED <<handoff, record>>
    ELSE EndRun

\* The gate of the step in progress, or what the step finds, stops the run.
Blocked ==
  /\ \/ pc = "tag-authority" /\ ~(Absent /\ ValidateTagCandidate(handoff, tag))
     \/ pc = "publish-authority" /\ ~Admitted
     \/ pc = "publish" /\ ~Valid
     \/ pc = "absence" /\ ~Absent
     \/ pc = "revalidate" /\ ~Valid
     \/ pc = "promote" /\ release.exists
     \/ pc = "retrieve-existing" /\ ~VerifyPublished(handoff, Retrieved)
     \/ /\ pc = "assets" /\ AssetNames \subseteq DOMAIN release.assets
        /\ ~VerifyAssets(ExpectedAssets(handoff), release.assets)
  /\ Abort
  /\ UNCHANGED <<now, world, bounds>>

StepFails ==
  /\ pc # "idle" /\ failures < MaxFailures
  /\ failures' = failures + 1
  /\ Abort
  /\ UNCHANGED <<now, world, dispatches>>

RunnerLost ==
  /\ pc \in PublishJob /\ failures < MaxFailures
  /\ failures' = failures + 1
  /\ EndRun
  /\ UNCHANGED <<now, world, dispatches>>

\* A job may wait for its environment's reviewers as long as they like.
Waiting == {"idle", "publish-authority", "publish"}

Tick ==
  /\ now < MaxTime
  /\ pc \in Waiting \/ now < since + StepTime
  /\ now' = now + 1
  /\ UNCHANGED <<run, world, bounds>>

Step ==
  \/ TagAuthority \/ CreateTag \/ SaveTagHandoff
  \/ PublishAuthority \/ StartPublish \/ ProveAbsence \/ Revalidate \/ Upload
  \/ RecordUpload \/ VerifyUpload \/ SaveEnvelope
  \/ CreateRelease \/ UploadAsset \/ VerifyRelease \/ SaveRecord
  \/ RecoverRecord \/ RecoverRelease \/ Blocked

Recover == \E e \in envelopes : DispatchRecovery(e)

Next ==
  \/ DispatchTag \/ ProduceEvidence \/ DispatchPublish \/ Recover
  \/ Step \/ StepFails \/ RunnerLost \/ Tick

Spec == Init /\ [][Next]_vars

\* A run in progress goes on, and a recovery that is possible is dispatched
\* until it has succeeded.
Fairness == WF_vars(Step) /\ SF_vars(Recover)

FairSpec == Spec /\ Fairness

-----------------------------------------------------------------------------
(* Properties                                                               *)

Uploaded == \E d \in Dists : registry[d] # None
Complete == \A d \in Dists : registry[d] # None

TypeOK ==
  /\ now \in 0 .. MaxTime /\ since \in 0 .. now
  /\ pc \in Steps \cup {"idle"}
  /\ pc = "idle" => handoff = NoFiles /\ record = None
  /\ tag \in 0 .. 1
  /\ DOMAIN registry = Dists
  /\ DOMAIN release.assets \subseteq AssetNames
  /\ Cardinality(evidence) <= MaxEvidence
  /\ dispatches \in 0 .. MaxDispatches /\ failures \in 0 .. MaxFailures

\* What the registry holds is of one build, and an unrevoked approval of this
\* very pair had been handed over with the evidence: whatever runs failed, were
\* repeated or were recovered, and whichever build the tag was cut from.
OnlyApproved ==
  Uploaded =>
    \E e \in evidence :
      LET receipt == e[ReceiptPath]
      IN  /\ receipt.decision = "approve" /\ ~receipt.revoked /\ receipt.signed
          /\ receipt.provider = Authority /\ receipt.core = e["core"]
          /\ receipt.artifacts = e["core"].artifacts
          /\ \A d \in Dists : registry[d] \in {None, e["core"].artifacts[d]}

\* What a record says is so, and stays so: from registry-verified on the
\* registry holds its pair, and a promoted record has the release whose every
\* asset is its own, even if envelopes of several runs were recovered.
RecordTrue ==
  /\ record # None /\ Len(record.events) >= 3 => registry = record.artifacts
  /\ \A e \in envelopes :
       Has(e, {"publication-state"}) /\ Len(e["publication-state"].events) >= 3
         => registry = e["publication-state"].artifacts
  /\ \A r \in promoted :
       /\ r.events = StateSequence
       /\ registry = r.artifacts
       /\ release.assets["core"] = r.core
       /\ release.assets["admission"].approvalReceipt = r.approvalReceipt
       /\ release.assets["admission"].core = r.core
       /\ release.assets["sbom"] = r.core.inherited["sbom"]
       /\ release.assets["provenance"] = r.core.inherited["provenance"]

\* A file reaches the registry no more than a step's duration after evidence
\* and approval were both still valid, however long the job waited before.
UploadFresh ==
  [][registry' # registry =>
       /\ now < handoff["evidence"].expiresAt + StepTime
       /\ now < handoff["approval-receipt"].expiresAt + StepTime]_vars

\* Once both files are out and one envelope was saved, recovering it ends in a
\* promoted record wherever the publication or an earlier recovery stopped; not
\* so when a second envelope appears, whose assets may have got into the release.
RecoveryCompletes ==
  (Complete /\ Cardinality(envelopes) = 1 /\ (\E e \in envelopes : Recoverable(e)))
    ~> (promoted # {} \/ Cardinality(envelopes) > 1)

\* Valid evidence of an approved core gets past the gate.
ApprovedIsAdmitted ==
  [][pc = "publish-authority" /\ pc' = "idle" /\ failures' = failures =>
       ~\E r \in Receipts :
          /\ VerifyProviderReceipt(r, handoff["core"], ArtifactsIn(handoff), now)
          /\ r.id = handoff["evidence"].approvalReceipt
          /\ now < handoff["evidence"].expiresAt]_vars
=============================================================================
