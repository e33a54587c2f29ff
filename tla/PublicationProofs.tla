--------------------------- MODULE PublicationProofs ---------------------------
(***************************************************************************)
(* What is released was approved, and what the records say of it is true,  *)
(* for any candidates, statements, receipts and bounds.                    *)
(***************************************************************************)
EXTENDS Publication, FiniteSetTheorems, SequenceTheorems, TLAPS

USE TimeAssumption, BoundAssumption, ReceiptAssumption

-----------------------------------------------------------------------------
(* Types and times                                                          *)

\* A job that does not wait is at its step for no more than a step's duration.
Types ==
  /\ now \in 0 .. MaxTime /\ since \in 0 .. now
  /\ pc \in Steps \cup {"idle"}
  /\ pc \notin Waiting => now <= since + StepTime
  /\ pc = "idle" => handoff = NoFiles /\ record = None
  /\ tag \in 0 .. 1
  /\ registry = [d \in Dists |-> registry[d]]
  /\ DOMAIN release = {"exists", "assets"} /\ release.exists \in BOOLEAN
  /\ DOMAIN release.assets \subseteq AssetNames
  /\ IsFiniteSet(evidence) /\ Cardinality(evidence) <= MaxEvidence
  /\ dispatches \in 0 .. MaxDispatches /\ failures \in 0 .. MaxFailures

LEMMA TypesInit == Init => Types
<1> SUFFICES ASSUME Init PROVE Types
  OBVIOUS
<1>1. IsFiniteSet(evidence) /\ Cardinality(evidence) = 0
  BY FS_EmptySet DEF Init
<1>2. /\ DOMAIN release = {"exists", "assets"} /\ release.exists \in BOOLEAN
      /\ DOMAIN release.assets = {}
  BY DEF Init, NoFiles
<1>3. registry = [d \in Dists |-> registry[d]]
  BY DEF Init
<1> QED
  BY <1>1, <1>2, <1>3 DEF Init, Types, Steps, Waiting

\* A step that goes to another one at once, or ends its run.
LEMMA GotoTypes ==
  ASSUME Types, NEW step \in Steps, Goto(step), UNCHANGED <<now, tag, registry, release, evidence, failures>>,
         dispatches' \in 0 .. MaxDispatches
  PROVE  Types'
BY DEF Types, Goto, Steps, PublishJob, Promotion

LEMMA EndTypes ==
  ASSUME Types, EndRun, UNCHANGED <<now, tag, registry, release, evidence, dispatches>>,
         failures' \in 0 .. MaxFailures
  PROVE  Types'
BY DEF Types, EndRun, Goto, Waiting

LEMMA AbortTypes ==
  ASSUME Types, Abort, UNCHANGED <<now, world, dispatches>>, failures' \in 0 .. MaxFailures
  PROVE  Types'
<1>1. CASE pc \in PublishJob
  BY <1>1 DEF Abort, Types, Goto, Steps, world
<1>2. CASE pc \notin PublishJob
  BY <1>2, EndTypes DEF Abort, world
<1> QED
  BY <1>1, <1>2

LEMMA StepTypes ==
  ASSUME Types, Step
  PROVE  Types'
<1> USE DEF Steps, PublishJob, Promotion, world, bounds, run
<1>1. CASE TagAuthority \/ PublishAuthority \/ StartPublish \/ ProveAbsence \/ Revalidate
           \/ RecordUpload \/ VerifyUpload \/ RecoverRecord
  BY <1>1, GotoTypes DEF TagAuthority, PublishAuthority, StartPublish, ProveAbsence,
     Revalidate,
     RecordUpload, VerifyUpload, RecoverRecord, Types
<1>2. CASE CreateTag
  BY <1>2 DEF CreateTag, ValidateTagCandidate, Types, Goto
<1>3. CASE SaveTagHandoff \/ SaveRecord
  BY <1>3, EndTypes DEF SaveTagHandoff, SaveRecord, Types
<1>4. CASE Upload
  <2>1. registry' = [registry EXCEPT ![NextUpload] = handoff[NextUpload]]
    BY <1>4 DEF Upload
  <2>2. registry' = [d \in Dists |-> registry'[d]]
    BY <2>1 DEF Types
  <2> QED
    BY <1>4, <2>2 DEF Upload, Types, Goto
<1>5. CASE SaveEnvelope
  <2>1. CASE pc = "save"
    BY <1>5, <2>1, GotoTypes DEF SaveEnvelope, Types
  <2>2. CASE pc # "save"
    BY <1>5, <2>2, EndTypes DEF SaveEnvelope, Types
  <2> QED
    BY <2>1, <2>2
<1>6. CASE CreateRelease
  BY <1>6 DEF CreateRelease, Types, Goto, NoFiles
<1>7. CASE UploadAsset
  <2>1. PICK a \in AssetNames \ DOMAIN release.assets :
          release' = [release EXCEPT !.assets = Download(@, [n \in {a} |-> ExpectedAssets(handoff)[n]])]
    BY <1>7 DEF UploadAsset
  <2>2. /\ DOMAIN release' = {"exists", "assets"} /\ release'.exists = release.exists
        /\ release'.assets = Download(release.assets, [n \in {a} |-> ExpectedAssets(handoff)[n]])
    BY <2>1 DEF Types
  <2>3. DOMAIN release'.assets = DOMAIN release.assets \cup {a}
    BY <2>2 DEF Download
  <2> QED
    BY <1>7, <2>2, <2>3 DEF UploadAsset, Types
<1>8. CASE VerifyRelease
  BY <1>8, GotoTypes DEF VerifyRelease, Types
<1>9. CASE RecoverRelease
  <2>1. /\ DOMAIN release' = {"exists", "assets"} /\ release'.exists = TRUE
        /\ release'.assets = release.assets
    BY <1>9 DEF RecoverRelease, Types
  <2> QED
    BY <1>9, <2>1 DEF RecoverRelease, Types, Goto
<1>10. CASE Blocked
  BY <1>10, AbortTypes DEF Blocked, Types
<1> QED
  BY <1>1, <1>2, <1>3, <1>4, <1>5, <1>6, <1>7, <1>8, <1>9, <1>10 DEF Step

LEMMA TypesNext == Types /\ [Next]_vars => Types'
<1> SUFFICES ASSUME Types, [Next]_vars
             PROVE  Types'
  OBVIOUS
<1> USE DEF world, bounds, run
<1>1. CASE DispatchTag \/ DispatchPublish \/ Recover
  BY <1>1, GotoTypes DEF DispatchTag, DispatchPublish, Recover, DispatchRecovery, Types,
     Steps
<1>2. CASE ProduceEvidence
  <2>1. PICK e : evidence' = evidence \cup {e}
    BY <1>2 DEF ProduceEvidence
  <2>2. IsFiniteSet(evidence') /\ Cardinality(evidence') <= MaxEvidence
    <3>1. Cardinality(evidence) < MaxEvidence /\ Cardinality(evidence) \in Nat
      BY <1>2, FS_CardinalityType DEF ProduceEvidence, Types
    <3>2. /\ IsFiniteSet(evidence')
          /\ Cardinality(evidence') = Cardinality(evidence) \/ Cardinality(evidence') = Cardinality(evidence) + 1
      BY <2>1, FS_AddElement DEF Types
    <3> QED
      BY <3>1, <3>2
  <2> QED
    BY <1>2, <2>2 DEF ProduceEvidence, Types
<1>3. CASE StepFails
  BY <1>3, AbortTypes DEF StepFails, Types
<1>4. CASE RunnerLost
  BY <1>4, EndTypes DEF RunnerLost, Types
<1>5. CASE Tick
  BY <1>5 DEF Tick, Types
<1>6. CASE UNCHANGED vars
  BY <1>6 DEF vars, Types
<1> QED
  BY <1>1, <1>2, <1>3, <1>4, <1>5, <1>6, StepTypes DEF Next

\* The state is well formed, and a step that waits for nobody is not older than
\* its duration.
THEOREM TypesInvariance == Spec => []Types
BY TypesInit, TypesNext, PTL DEF Spec

\* The state of a release is always well formed (the variables of the module,
\* which stand for the workflows' runs, artifacts, registry and release).
THEOREM TypeCorrect == Spec => []TypeOK
<1>1. Types => TypeOK
  BY DEF Types, TypeOK
<1> QED
  BY <1>1, TypesInvariance, PTL

-----------------------------------------------------------------------------
(* The inductive invariant                                                  *)

\* The times in a directory are times.
Timed(root) ==
  /\ "evidence" \in DOMAIN root => root["evidence"].expiresAt \in Int
  /\ "approval-receipt" \in DOMAIN root => root["approval-receipt"].expiresAt \in Int

\* What quality runs and create-tag runs hand over.
Plain(root) == DOMAIN root \subseteq Dists \cup {"candidate-manifest", "tag-handoff"}

\* The core lists what is in the inherited evidence that stands beside it.
Listed(root) ==
  \A a \in {"sbom", "provenance"} :
    DigestsOf(root["inherited-evidence"], a) = root["core"].inherited[a]

\* The approval that was handed over with the evidence is one of its core.
Approved(e) ==
  LET receipt == e[ReceiptPath]
  IN  /\ receipt.decision = "approve" /\ ~receipt.revoked /\ receipt.signed
      /\ receipt.provider = Authority /\ receipt.core = e["core"]
      /\ receipt.artifacts = e["core"].artifacts

EvidenceOK(e) ==
  /\ DOMAIN e = {"core", "inherited-evidence", "evidence", ReceiptPath}
  /\ Timed(e) /\ Listed(e) /\ Approved(e)

\* A directory into which evidence was downloaded.
Supported(root) ==
  /\ {"core", "inherited-evidence"} \subseteq DOMAIN root
  /\ Timed(root) /\ Listed(root)
  /\ \E e \in evidence : root["core"] = e["core"]

Progress(n) == SubSeq(StateSequence, 1, n)

\* The record of what is in a directory, which has come to its n-th state.
RecordIs(r, root, n) ==
  /\ Has(root, {"admission", "core"} \cup Dists)
  /\ root["admission"].core = root["core"]
  /\ r = [approvalReceipt |-> root["admission"].approvalReceipt,
          artifacts |-> ArtifactsIn(root), core |-> root["core"], events |-> Progress(n)]

\* Both files are out, and they are the ones in the directory.
Released(root) == Complete /\ registry = ArtifactsIn(root)

EnvelopeOK(e) ==
  /\ Supported(e)
  /\ "publication-state" \in DOMAIN e =>
       \E n \in 1 .. 3 : RecordIs(e["publication-state"], e, n) /\ (n = 3 => Released(e))

\* The release is the one of a record that was promoted.
PromotedOK(r) ==
  /\ r.events = StateSequence /\ Complete /\ registry = r.artifacts
  /\ release.exists /\ DOMAIN release.assets = AssetNames
  /\ release.assets["core"] = r.core
  /\ release.assets["admission"].approvalReceipt = r.approvalReceipt
  /\ release.assets["admission"].core = r.core
  /\ release.assets["sbom"] = r.core.inherited["sbom"]
  /\ release.assets["provenance"] = r.core.inherited["provenance"]

WorldOK ==
  /\ \A h \in tagRuns : Plain(h)
  /\ \A e \in evidence : EvidenceOK(e)
  /\ OnlyApproved
  /\ \A e \in envelopes : EnvelopeOK(e)
  /\ \A r \in promoted : PromotedOK(r)

\* The steps of a run, by what has been done before them.
Tagging == {"tag-authority", "create-tag", "save-tag-handoff"}
Publishing == {"publish-authority", "save", "save-failed"} \cup PublishJob
Planned == {"absence", "revalidate", "upload", "record-upload"}
Verified == {"save", "promote", "assets", "recover-release"}
Going == Publishing \cup Verified \cup {"save-record", "retrieve-existing"}

RunOK ==
  /\ pc \in Tagging => Plain(handoff)
  /\ pc \in Going => Supported(handoff)
  /\ pc \in Publishing => "publication-state" \notin DOMAIN handoff
  /\ pc \in Tagging \cup {"idle", "publish-authority", "publish"} => record = None
  /\ pc \in Planned => RecordIs(record, handoff, 1)
  /\ pc = "verify-upload" => RecordIs(record, handoff, 2)
  /\ pc \in Verified => RecordIs(record, handoff, 3)
  /\ pc = "save-record" => RecordIs(record, handoff, 5) /\ PromotedOK(record)
  /\ pc = "save-failed" => record = None \/ \E n \in 1 .. 2 : RecordIs(record, handoff, n)
  /\ pc = "retrieve-existing" => handoff \in envelopes /\ "publication-state" \in DOMAIN handoff
                                  /\ record = handoff["publication-state"]
  /\ pc = "revalidate" => Absent
  /\ pc = "upload" =>
       /\ handoff["core"].artifacts = ArtifactsIn(handoff)
       /\ \A d \in Dists : registry[d] \in {None, handoff[d]}
       /\ {"evidence", "approval-receipt"} \subseteq DOMAIN handoff
       /\ since < handoff["evidence"].expiresAt /\ since < handoff["approval-receipt"].expiresAt
  /\ pc \in Verified \cup {"save-record"} => Released(handoff)
  /\ pc = "assets" => release.exists

IInv == Types /\ WorldOK /\ RunOK

-----------------------------------------------------------------------------
(* Records and directories                                                  *)

States == {"planned", "uploaded-unverified", "registry-verified", "release-assets-verified", "promoted"}

LEMMA SequenceOfStates ==
  StateSequence \in Seq(States) /\ Len(StateSequence) = 5 /\ \A i \in 1 .. 5 : StateSequence[i] \in States
<1>1. StateSequence \in Seq(States)
  BY DEF StateSequence, States
<1>2. Len(StateSequence) = 5
  BY DEF StateSequence
<1>3. \A i \in 1 .. 5 : StateSequence[i] \in States
  BY <1>1, <1>2, ElementOfSeq
<1> QED
  BY <1>1, <1>2, <1>3

LEMMA ProgressIs ==
  ASSUME NEW n \in 1 .. 5
  PROVE  /\ Progress(n) \in Seq(States) /\ Len(Progress(n)) = n
         /\ \A i \in 1 .. n : Progress(n)[i] = StateSequence[i]
<1>1. \A i \in 1 .. n : StateSequence[i] \in States
  BY SequenceOfStates
<1>2. /\ SubSeq(StateSequence, 1, n) \in Seq(States)
      /\ Len(SubSeq(StateSequence, 1, n)) = IF 1 <= n THEN n - 1 + 1 ELSE 0
      /\ \A i \in 1 .. n - 1 + 1 : SubSeq(StateSequence, 1, n)[i] = StateSequence[1 + i - 1]
  BY <1>1, SubSeqProperties
<1> QED
  BY <1>2 DEF Progress

LEMMA ProgressEnds == Progress(5) = StateSequence
<1>1. Progress(5) \in Seq(States) /\ Len(Progress(5)) = 5 /\ \A i \in 1 .. 5 : Progress(5)[i] = StateSequence[i]
  BY ProgressIs
<1> QED
  BY <1>1, SequenceOfStates, SeqEqual

LEMMA ProgressGoesOn ==
  ASSUME NEW n \in 1 .. 4
  PROVE  Append(Progress(n), StateSequence[n + 1]) = Progress(n + 1)
<1>1. n \in 1 .. 5 /\ n + 1 \in 1 .. 5 /\ StateSequence[n + 1] \in States
  BY SequenceOfStates
<1>2. Progress(n) \in Seq(States) /\ Len(Progress(n)) = n /\ \A i \in 1 .. n : Progress(n)[i] = StateSequence[i]
  BY <1>1, ProgressIs
<1>3. /\ Append(Progress(n), StateSequence[n + 1]) \in Seq(States)
      /\ Len(Append(Progress(n), StateSequence[n + 1])) = n + 1
      /\ \A i \in 1 .. n + 1 : Append(Progress(n), StateSequence[n + 1])[i] = StateSequence[i]
  BY <1>1, <1>2
<1>4. /\ Progress(n + 1) \in Seq(States) /\ Len(Progress(n + 1)) = n + 1
      /\ \A i \in 1 .. n + 1 : Progress(n + 1)[i] = StateSequence[i]
  BY <1>1, ProgressIs
<1> QED
  BY <1>3, <1>4, SeqEqual

LEMMA MovedIs ==
  ASSUME NEW r, NEW root, NEW n \in 1 .. 4, RecordIs(r, root, n), NEW target, target = StateSequence[n + 1]
  PROVE  RecordIs(Moved(r, target), root, n + 1)
<1>1. r.events = Progress(n)
  BY DEF RecordIs
<1>2. Moved(r, target) = [r EXCEPT !.events = Progress(n + 1)]
  BY <1>1, ProgressGoesOn DEF Moved
<1> QED
  BY <1>2 DEF RecordIs

LEMMA CanMoveTo ==
  ASSUME NEW r, NEW root, NEW n \in 1 .. 5, RecordIs(r, root, n), NEW target, CanMove(r, target)
  PROVE  n \in 1 .. 4 /\ target = StateSequence[n + 1]
<1>1. r.events = Progress(n) /\ Len(r.events) = n
  BY ProgressIs DEF RecordIs
<1>2. Len(r.events) < Len(StateSequence) /\ StateSequence[Len(r.events) + 1] = target
  BY DEF CanMove
<1> QED
  BY <1>1, <1>2, SequenceOfStates

LEMMA StateIs ==
  ASSUME NEW r, NEW root, NEW n \in 1 .. 5, RecordIs(r, root, n)
  PROVE  StateOf(r) = StateSequence[n] /\ Len(r.events) = n
<1>1. r.events = Progress(n) /\ Len(r.events) = n
  BY ProgressIs DEF RecordIs
<1>2. \A i \in 1 .. n : Progress(n)[i] = StateSequence[i]
  BY ProgressIs
<1>3. Progress(n)[n] = StateSequence[n]
  BY <1>2
<1> QED
  BY <1>1, <1>3 DEF StateOf

LEMMA DownloadIs ==
  ASSUME NEW root, NEW files
  PROVE  /\ DOMAIN Download(root, files) = DOMAIN root \cup DOMAIN files
         /\ \A n \in DOMAIN files : Download(root, files)[n] = files[n]
         /\ \A n \in DOMAIN root \ DOMAIN files : Download(root, files)[n] = root[n]
BY DEF Download

\* A file that is no part of the pair, the core or the evidence changes nothing.
LEMMA BesidesThem ==
  ASSUME NEW root, NEW name, name \in {"admission", "publication-state"}, NEW file, Supported(root)
  PROVE  Supported(Download(root, [n \in {name} |-> file]))
<1> DEFINE more == Download(root, [n \in {name} |-> file])
<1>1. DOMAIN more = DOMAIN root \cup {name} /\ \A n \in DOMAIN root \ {name} : more[n] = root[n]
  BY DownloadIs
<1>2. /\ more["core"] = root["core"] /\ more["inherited-evidence"] = root["inherited-evidence"]
      /\ \A n \in {"evidence", "approval-receipt"} :
           /\ n \in DOMAIN more <=> n \in DOMAIN root
           /\ n \in DOMAIN root => more[n] = root[n]
  BY <1>1 DEF Supported
<1>3. Timed(more)
  BY <1>2 DEF Supported, Timed
<1> QED
  BY <1>1, <1>2, <1>3 DEF Supported, Listed

LEMMA RecordInEnvelope ==
  ASSUME NEW root, NEW r, NEW n \in 1 .. 5, RecordIs(r, root, n)
  PROVE  LET e == Download(root, [m \in {"publication-state"} |-> r])
         IN  RecordIs(r, e, n) /\ ArtifactsIn(e) = ArtifactsIn(root)
<1> DEFINE e == Download(root, [m \in {"publication-state"} |-> r])
<1>1. DOMAIN e = DOMAIN root \cup {"publication-state"} /\ \A m \in DOMAIN root \ {"publication-state"} : e[m] = root[m]
  BY DownloadIs
<1>2. \A m \in {"admission", "core"} \cup Dists : m \in DOMAIN e /\ e[m] = root[m]
  BY <1>1 DEF RecordIs, Has, Dists
<1>3. ArtifactsIn(e) = ArtifactsIn(root)
  BY <1>2 DEF ArtifactsIn
<1> QED
  BY <1>2, <1>3 DEF RecordIs, Has

-----------------------------------------------------------------------------
(* What the workflows hand over                                             *)

LEMMA InitOK == Init => WorldOK /\ RunOK
<1> SUFFICES ASSUME Init PROVE WorldOK /\ RunOK
  OBVIOUS
<1>1. ~Uploaded
  BY DEF Init, Uploaded, Dists
<1>2. pc = "idle" /\ record = None
  BY DEF Init
<1>3. WorldOK
  BY <1>1 DEF Init, WorldOK, OnlyApproved
<1> QED
  BY <1>2, <1>3 DEF RunOK, Tagging, Going, Publishing, PublishJob, Planned, Verified

\* What a run that is over leaves.
LEMMA EndedOK ==
  ASSUME EndRun
  PROVE  RunOK'
BY DEF EndRun, Goto, RunOK, Tagging, Going, Publishing, PublishJob, Planned, Verified

\* Nothing of the world is lost while its things stay.
LEMMA SameWorldOK ==
  ASSUME WorldOK, UNCHANGED world
  PROVE  WorldOK'
BY DEF WorldOK, world, OnlyApproved, Uploaded, EnvelopeOK, Supported, Released, Complete,
   PromotedOK

LEMMA SupportStays ==
  ASSUME NEW root, Supported(root), evidence \subseteq evidence'
  PROVE  Supported(root)'
BY DEF Supported

\* Evidence is handed over with an approval of its core.
LEMMA EvidenceIsOK ==
  ASSUME Types, NEW h, NEW statement, NEW receipt \in Receipts,
         CoreCanBeBuilt(h, statement), ValidateReleaseCore(WithCore(h, statement)),
         ApprovalReceiptGate(WithCore(h, statement), receipt, now)
  PROVE  EvidenceOK(EvidenceFiles(WithCore(h, statement), receipt))
<1> DEFINE root == WithCore(h, statement)
           e == EvidenceFiles(root, receipt)
<1>1. root["core"] = AdmissionManifest(h, statement) /\ root["inherited-evidence"] = statement
  BY DownloadIs DEF WithCore
<1>2. DOMAIN e = {"core", "inherited-evidence", "evidence", ReceiptPath}
  BY DEF EvidenceFiles
<1>3. /\ e["core"] = root["core"] /\ e["inherited-evidence"] = root["inherited-evidence"]
      /\ e["evidence"] = BuildEvidence(root, receipt, now) /\ e[ReceiptPath] = receipt
  BY PathAssumption DEF EvidenceFiles
<1>4. e["evidence"].expiresAt \in Int
  BY <1>3 DEF BuildEvidence, Types
<1>5. Timed(e)
  BY <1>2, <1>3, <1>4 DEF Timed
<1>6. \A a \in {"sbom", "provenance"} :
        /\ a \in DOMAIN statement.evidence
        /\ DigestsOf(statement, a) = statement.evidence[a].files
  BY DEF CoreCanBeBuilt, ValidateInherited, RequiredEvidence
<1>7. \A a \in {"sbom", "provenance"} : root["core"].inherited[a] = statement.evidence[a].files
  BY <1>1, <1>6 DEF AdmissionManifest
<1>8. Listed(e)
  BY <1>1, <1>3, <1>6, <1>7 DEF Listed
<1>9. Approved(e)
  BY <1>3 DEF Approved, ApprovalReceiptGate, VerifyProviderReceipt, CoreBinding,
     ValidateReleaseCore, ValidateCore
<1> QED
  BY <1>2, <1>5, <1>8, <1>9 DEF EvidenceOK

LEMMA ProduceEvidenceKeeps ==
  ASSUME IInv, ProduceEvidence
  PROVE  WorldOK' /\ RunOK'
<1>1. PICK h \in tagRuns, statement \in Inherited, receipt \in Receipts :
        /\ CoreCanBeBuilt(h, statement) /\ ValidateReleaseCore(WithCore(h, statement))
        /\ ApprovalReceiptGate(WithCore(h, statement), receipt, now)
        /\ evidence' = evidence \cup {EvidenceFiles(WithCore(h, statement), receipt)}
  BY DEF ProduceEvidence
<1>2. EvidenceOK(EvidenceFiles(WithCore(h, statement), receipt))
  BY <1>1, EvidenceIsOK DEF IInv
<1>3. /\ \A e \in evidence' : EvidenceOK(e)
      /\ UNCHANGED <<now, run, tag, tagRuns, registry, release, envelopes, promoted>>
  BY <1>1, <1>2 DEF ProduceEvidence, IInv, WorldOK
<1>4. evidence \subseteq evidence'
  BY <1>1
<1>5. \A e \in evidence' : EvidenceOK(e)'
  BY <1>3 DEF EvidenceOK, Timed, Listed, Approved
<1>6. OnlyApproved'
  BY <1>3, <1>4 DEF IInv, WorldOK, OnlyApproved, Uploaded
<1>7. \A e \in envelopes' : EnvelopeOK(e)'
  BY <1>3, <1>4, SupportStays DEF IInv, WorldOK, EnvelopeOK, Released, Complete
<1>8. \A r \in promoted' : PromotedOK(r)'
  BY <1>3 DEF IInv, WorldOK, PromotedOK, Complete
<1>9. WorldOK'
  BY <1>3, <1>5, <1>6, <1>7, <1>8 DEF IInv, WorldOK
<1>10. RunOK'
  BY <1>3, <1>4, SupportStays DEF IInv, RunOK, run, PromotedOK, Released, Complete, Absent
<1> QED
  BY <1>9, <1>10

\* What is downloaded for a publication is supported by the evidence.
LEMMA DispatchPublishKeeps ==
  ASSUME IInv, DispatchPublish
  PROVE  WorldOK' /\ RunOK'
<1>1. PICK h \in tagRuns, e \in evidence : handoff' = Download(h, e)
  BY DEF DispatchPublish
<1>2. Plain(h) /\ EvidenceOK(e)
  BY DEF IInv, WorldOK
<1>3. /\ DOMAIN handoff' = DOMAIN h \cup DOMAIN e
      /\ \A n \in DOMAIN e : handoff'[n] = e[n]
  BY <1>1 DEF Download
<1>4. \A n \in {"evidence", "approval-receipt"} : n \in DOMAIN handoff' => n \in DOMAIN e /\ handoff'[n] = e[n]
  BY <1>2, <1>3 DEF Plain, Dists
<1>5. Timed(handoff')
  BY <1>2, <1>4 DEF EvidenceOK, Timed
<1>6. Supported(handoff')
  BY <1>2, <1>3, <1>5 DEF EvidenceOK, Supported, Listed
<1>7. "publication-state" \notin DOMAIN handoff'
  BY <1>2, <1>3, PathAssumption DEF EvidenceOK, Plain, Dists
<1>8. UNCHANGED <<world, record>> /\ pc = "idle" /\ pc' = "publish-authority"
  BY DEF DispatchPublish, Goto
<1>9. WorldOK'
  BY <1>8, SameWorldOK DEF IInv
<1>10. Supported(handoff)'
  BY <1>6, <1>8 DEF Supported, world
<1>11. record' = None
  BY <1>8 DEF IInv, Types
<1> QED
  BY <1>7, <1>8, <1>9, <1>10, <1>11 DEF RunOK, Tagging, Going, Publishing, PublishJob,
     Planned, Verified

-----------------------------------------------------------------------------
(* The publish job                                                          *)

LEMMA PublishAuthorityKeeps ==
  ASSUME IInv, PublishAuthority
  PROVE  WorldOK' /\ RunOK'
<1>1. /\ handoff' = Download(handoff, [n \in {"admission"} |-> Admission(handoff)])
      /\ UNCHANGED <<record, world>> /\ pc = "publish-authority" /\ pc' = "publish"
  BY DEF PublishAuthority, Goto
<1>2. Supported(handoff) /\ record = None /\ "publication-state" \notin DOMAIN handoff
  BY <1>1 DEF IInv, RunOK, Going, Publishing
<1>3. Supported(handoff)'
  <2>1. Supported(Download(handoff, [n \in {"admission"} |-> Admission(handoff)]))
    BY <1>2, BesidesThem
  <2> QED
    BY <1>1, <2>1 DEF Supported, world
<1>4. "publication-state" \notin DOMAIN handoff'
  BY <1>1, <1>2 DEF Download
<1>5. WorldOK'
  BY <1>1, SameWorldOK DEF IInv
<1> QED
  BY <1>1, <1>2, <1>3, <1>4, <1>5 DEF RunOK, Tagging, Going, Publishing, PublishJob,
     Planned, Verified

LEMMA StartPublishKeeps ==
  ASSUME IInv, StartPublish
  PROVE  WorldOK' /\ RunOK'
<1>1. /\ Valid /\ CanInitialize(handoff) /\ record' = Initialize(handoff)
      /\ UNCHANGED <<handoff, world>> /\ pc = "publish" /\ pc' = "absence"
  BY DEF StartPublish, Goto
<1>2. Supported(handoff)' /\ "publication-state" \notin DOMAIN handoff'
  BY <1>1 DEF IInv, RunOK, Going, Publishing, PublishJob, Supported, world
<1>3. Progress(1) = <<"planned">>
  <2>1. Progress(1) \in Seq(States) /\ Len(Progress(1)) = 1 /\ Progress(1)[1] = StateSequence[1]
    BY ProgressIs
  <2>2. StateSequence[1] = "planned" /\ <<"planned">> \in Seq(States)
    BY DEF StateSequence, States
  <2>3. Len(<<"planned">>) = 1 /\ <<"planned">>[1] = "planned"
    OBVIOUS
  <2>4. \A i \in 1 .. 1 : Progress(1)[i] = <<"planned">>[i]
    BY <2>1, <2>2, <2>3
  <2> QED
    BY <2>1, <2>2, <2>3, <2>4, SeqEqual
<1>4. RecordIs(record', handoff, 1)
  BY <1>1, <1>3 DEF CanInitialize, Initialize, RecordIs, CoreBinding
<1>5. WorldOK'
  BY <1>1, SameWorldOK DEF IInv
<1>6. RecordIs(record, handoff, 1)'
  BY <1>1, <1>4
<1> QED
  BY <1>1, <1>2, <1>5, <1>6 DEF RunOK, Tagging, Going, Publishing, PublishJob, Planned,
     Verified

LEMMA ProveAbsenceKeeps ==
  ASSUME IInv, ProveAbsence
  PROVE  WorldOK' /\ RunOK'
<1>1. Absent /\ UNCHANGED <<handoff, record, world>> /\ pc = "absence" /\ pc' = "revalidate"
  BY DEF ProveAbsence, Goto
<1>2. /\ Supported(handoff)' /\ "publication-state" \notin DOMAIN handoff'
      /\ RecordIs(record, handoff, 1)' /\ Absent'
  BY <1>1 DEF IInv, RunOK, Going, Publishing, PublishJob, Planned, Supported, Absent, world
<1>3. WorldOK'
  BY <1>1, SameWorldOK DEF IInv
<1> QED
  BY <1>1, <1>2, <1>3 DEF RunOK, Tagging, Going, Publishing, PublishJob, Planned, Verified

LEMMA RevalidateKeeps ==
  ASSUME IInv, Revalidate
  PROVE  WorldOK' /\ RunOK'
<1>1. /\ Valid /\ UNCHANGED <<now, handoff, record, world>>
      /\ pc = "revalidate" /\ pc' = "upload" /\ since' = now
  BY DEF Revalidate, Goto
<1>2. /\ Supported(handoff)' /\ "publication-state" \notin DOMAIN handoff'
      /\ RecordIs(record, handoff, 1)' /\ Absent
  BY <1>1 DEF IInv, RunOK, Going, Publishing, PublishJob, Planned, Supported, world
<1>3. /\ handoff["core"].artifacts = ArtifactsIn(handoff)
      /\ {"evidence", "approval-receipt"} \subseteq DOMAIN handoff
      /\ now < handoff["evidence"].expiresAt /\ now < handoff["approval-receipt"].expiresAt
  BY <1>1 DEF Valid, ValidateHandoff, ValidateReleaseCore, ValidateCore, ReleaseGate, Has,
     VerifyProviderReceipt
<1>4. \A d \in Dists : registry'[d] = None
  BY <1>1, <1>2 DEF Absent, world
<1>5. WorldOK'
  BY <1>1, SameWorldOK DEF IInv
<1> QED
  BY <1>1, <1>2, <1>3, <1>4, <1>5
     DEF RunOK, Tagging, Going, Publishing, PublishJob, Planned, Verified

LEMMA UploadKeeps ==
  ASSUME IInv, Upload
  PROVE  WorldOK' /\ RunOK'
<1>1. /\ registry[NextUpload] = None /\ registry' = [registry EXCEPT ![NextUpload] = handoff[NextUpload]]
      /\ UNCHANGED <<handoff, record, tag, tagRuns, evidence, release, envelopes, promoted>>
      /\ pc = "upload" /\ (pc' = "record-upload" \/ (pc' = pc /\ since' = since))
  BY DEF Upload, Goto
<1>2. NextUpload \in Dists
  BY DEF NextUpload, Dists
<1>3. \A d \in Dists : registry'[d] \in {registry[d], handoff[d]}
  BY <1>1, <1>2 DEF IInv, Types
<1>4. ~Complete
  BY <1>1, <1>2 DEF Complete
<1>5. /\ Supported(handoff) /\ "publication-state" \notin DOMAIN handoff /\ RecordIs(record, handoff, 1)
      /\ handoff["core"].artifacts = ArtifactsIn(handoff)
      /\ \A d \in Dists : registry[d] \in {None, handoff[d]}
  BY <1>1 DEF IInv, RunOK, Going, Publishing, PublishJob, Planned
<1>6. \A d \in Dists : registry'[d] \in {None, handoff[d]}
  BY <1>3, <1>5
<1>7. PICK e \in evidence : handoff["core"] = e["core"]
  BY <1>5 DEF Supported
<1>8. Approved(e)
  BY <1>7 DEF IInv, WorldOK, EvidenceOK
<1>9. \A d \in Dists : registry'[d] \in {None, e["core"].artifacts[d]}
  BY <1>5, <1>6, <1>7 DEF ArtifactsIn
<1>10. OnlyApproved'
  BY <1>1, <1>7, <1>8, <1>9 DEF OnlyApproved, Approved
<1>11. \A f \in envelopes' : EnvelopeOK(f)'
  BY <1>1, <1>4 DEF IInv, WorldOK, EnvelopeOK, Supported, Released
<1>12. promoted' = {}
  BY <1>1, <1>4 DEF IInv, WorldOK, PromotedOK
<1>13. WorldOK'
  BY <1>1, <1>10, <1>11, <1>12 DEF IInv, WorldOK
<1>14. RunOK'
  BY <1>1, <1>5, <1>6
     DEF IInv, RunOK, Supported, Tagging, Going, Publishing, PublishJob, Planned, Verified
<1> QED
  BY <1>13, <1>14

LEMMA RecordUploadKeeps ==
  ASSUME IInv, RecordUpload
  PROVE  WorldOK' /\ RunOK'
<1>1. /\ record' = Moved(record, "uploaded-unverified") /\ CanMove(record, "uploaded-unverified")
      /\ UNCHANGED <<handoff, world>> /\ pc = "record-upload" /\ pc' = "verify-upload"
  BY DEF RecordUpload, Goto
<1>2. /\ Supported(handoff)' /\ "publication-state" \notin DOMAIN handoff'
      /\ RecordIs(record, handoff, 1)
  BY <1>1 DEF IInv, RunOK, Going, Publishing, PublishJob, Planned, Supported, world
<1>3. RecordIs(record, handoff, 2)'
  BY <1>1, <1>2, CanMoveTo, MovedIs
<1>4. WorldOK'
  BY <1>1, SameWorldOK DEF IInv
<1> QED
  BY <1>1, <1>2, <1>3, <1>4 DEF RunOK, Tagging, Going, Publishing, PublishJob, Planned,
     Verified

\* What was retrieved is all that there is.
LEMMA PublishedIsReleased ==
  ASSUME Types, VerifyPublished(handoff, Retrieved)
  PROVE  Released(handoff)
<1>1. {d \in Dists : registry[d] # None} = Dists /\ Retrieved = ArtifactsIn(handoff)
  BY DEF VerifyPublished, Retrieved
<1>2. Retrieved = registry
  BY <1>1 DEF Retrieved, Types
<1> QED
  BY <1>1, <1>2 DEF Released, Complete

LEMMA VerifyUploadKeeps ==
  ASSUME IInv, VerifyUpload
  PROVE  WorldOK' /\ RunOK'
<1>1. /\ VerifyPublished(handoff, Retrieved)
      /\ record' = Moved(record, "registry-verified") /\ CanMove(record, "registry-verified")
      /\ UNCHANGED <<handoff, world>> /\ pc = "verify-upload" /\ pc' = "save"
  BY DEF VerifyUpload, Goto
<1>2. /\ Supported(handoff)' /\ "publication-state" \notin DOMAIN handoff'
      /\ RecordIs(record, handoff, 2)
  BY <1>1 DEF IInv, RunOK, Going, Publishing, PublishJob, Supported, world
<1>3. RecordIs(record, handoff, 3)'
  BY <1>1, <1>2, CanMoveTo, MovedIs
<1>4. Released(handoff)'
  BY <1>1, PublishedIsReleased DEF IInv, Released, Complete, world
<1>5. WorldOK'
  BY <1>1, SameWorldOK DEF IInv
<1> QED
  BY <1>1, <1>2, <1>3, <1>4, <1>5 DEF RunOK, Tagging, Going, Publishing, PublishJob,
     Planned, Verified

LEMMA SaveEnvelopeKeeps ==
  ASSUME IInv, SaveEnvelope
  PROVE  WorldOK' /\ RunOK'
<1> DEFINE e == IF record = None THEN handoff
                ELSE Download(handoff, [n \in {"publication-state"} |-> record])
<1>1. /\ pc \in {"save", "save-failed"} /\ envelopes' = envelopes \cup {e}
      /\ UNCHANGED <<tag, tagRuns, evidence, registry, release, promoted>>
  BY DEF SaveEnvelope
<1>2. /\ Supported(handoff) /\ "publication-state" \notin DOMAIN handoff
      /\ record = None \/ \E n \in 1 .. 3 : RecordIs(record, handoff, n) /\ (n = 3 => Released(handoff))
  BY <1>1 DEF IInv, RunOK, Going, Publishing, Verified
<1>3. EnvelopeOK(e)
  <2>1. CASE record = None
    BY <1>2, <2>1 DEF EnvelopeOK
  <2>2. CASE record # None
    <3>1. PICK n \in 1 .. 3 : RecordIs(record, handoff, n) /\ (n = 3 => Released(handoff))
      BY <1>2, <2>2
    <3>2. Supported(Download(handoff, [m \in {"publication-state"} |-> record]))
      BY <1>2, BesidesThem
    <3>3. RecordIs(record, e, n) /\ ArtifactsIn(e) = ArtifactsIn(handoff)
      <4>1. n \in 1 .. 5 /\ RecordIs(record, handoff, n)
        BY <3>1
      <4>2. LET f == Download(handoff, [m \in {"publication-state"} |-> record])
            IN  RecordIs(record, f, n) /\ ArtifactsIn(f) = ArtifactsIn(handoff)
        BY <4>1, RecordInEnvelope
      <4> QED
        BY <2>2, <4>2
    <3>4. e["publication-state"] = record
      BY <2>2 DEF Download
    <3> QED
      BY <2>2, <3>1, <3>2, <3>3, <3>4 DEF EnvelopeOK, Released
  <2> QED
    BY <2>1, <2>2
<1>4. \A f \in envelopes' : EnvelopeOK(f)'
  BY <1>1, <1>3 DEF IInv, WorldOK, EnvelopeOK, Supported, Released, Complete
<1>5. WorldOK'
  BY <1>1, <1>4 DEF IInv, WorldOK, OnlyApproved, Uploaded, PromotedOK, Complete
<1>6. CASE pc = "save"
  <2>1. pc' = "promote" /\ UNCHANGED <<handoff, record>>
    BY <1>6 DEF SaveEnvelope, Goto
  <2>2. Supported(handoff)' /\ RecordIs(record, handoff, 3)' /\ Released(handoff)'
    BY <1>1, <1>6, <2>1 DEF IInv, RunOK, Going, Verified, Supported, Released, Complete
  <2> QED
    BY <1>5, <2>1, <2>2 DEF RunOK, Tagging, Going, Publishing, PublishJob, Planned, Verified
<1>7. CASE pc # "save"
  BY <1>5, <1>7, EndedOK DEF SaveEnvelope
<1> QED
  BY <1>6, <1>7

-----------------------------------------------------------------------------
(* The promotion                                                            *)

LEMMA CreateReleaseKeeps ==
  ASSUME IInv, CreateRelease
  PROVE  WorldOK' /\ RunOK'
<1>1. /\ ~release.exists /\ pc = "promote" /\ pc' = "assets"
      /\ UNCHANGED <<handoff, record, tag, tagRuns, evidence, registry, envelopes, promoted>>
  BY DEF CreateRelease, Goto
<1>2. promoted = {}
  BY <1>1 DEF IInv, WorldOK, PromotedOK
<1>3. WorldOK'
  BY <1>1, <1>2 DEF IInv, WorldOK, OnlyApproved, Uploaded, EnvelopeOK, Supported,
     Released, Complete
<1>4. Supported(handoff)' /\ RecordIs(record, handoff, 3)' /\ Released(handoff)'
  BY <1>1 DEF IInv, RunOK, Going, Verified, Supported, Released, Complete
<1>5. release'.exists
  BY DEF CreateRelease
<1> QED
  BY <1>1, <1>3, <1>4, <1>5 DEF RunOK, Tagging, Going, Publishing, PublishJob, Planned,
     Verified

LEMMA UploadAssetKeeps ==
  ASSUME IInv, UploadAsset
  PROVE  WorldOK' /\ RunOK'
<1>1. /\ pc = "assets" /\ DOMAIN release.assets # AssetNames
      /\ UNCHANGED <<pc, since, handoff, record, tag, tagRuns, evidence, registry, envelopes, promoted>>
  BY DEF UploadAsset, run
<1>2. promoted = {}
  BY <1>1 DEF IInv, WorldOK, PromotedOK
<1>3. WorldOK'
  BY <1>1, <1>2 DEF IInv, WorldOK, OnlyApproved, Uploaded, EnvelopeOK, Supported,
     Released, Complete
<1>4. Supported(handoff)' /\ RecordIs(record, handoff, 3)' /\ Released(handoff)'
  BY <1>1 DEF IInv, RunOK, Going, Verified, Supported, Released, Complete
<1>5. release'.exists
  <2>1. PICK assets : release' = [release EXCEPT !.assets = assets]
    BY DEF UploadAsset
  <2> QED
    BY <1>1, <2>1 DEF IInv, Types, RunOK
<1> QED
  BY <1>1, <1>3, <1>4, <1>5 DEF RunOK, Tagging, Going, Publishing, PublishJob, Planned,
     Verified

LEMMA VerifyReleaseKeeps ==
  ASSUME IInv, VerifyRelease
  PROVE  WorldOK' /\ RunOK'
<1> DEFINE moved == Moved(record, "release-assets-verified")
<1>1. /\ VerifyAssets(ExpectedAssets(handoff), release.assets)
      /\ CanMove(record, "release-assets-verified") /\ record' = Moved(moved, "promoted")
      /\ UNCHANGED <<handoff, world>> /\ pc = "assets" /\ pc' = "save-record"
  BY DEF VerifyRelease, Goto
<1>2. Supported(handoff) /\ RecordIs(record, handoff, 3) /\ Released(handoff)
  BY <1>1 DEF IInv, RunOK, Going, Verified
<1>3. RecordIs(moved, handoff, 4)
  BY <1>1, <1>2, CanMoveTo, MovedIs
<1>4. "promoted" = StateSequence[5]
  BY DEF StateSequence
<1>5. RecordIs(record', handoff, 5)
  BY <1>1, <1>3, <1>4, MovedIs
<1>6. /\ record'.events = StateSequence /\ record'.artifacts = ArtifactsIn(handoff)
      /\ record'.core = handoff["core"] /\ handoff["admission"].core = handoff["core"]
      /\ record'.approvalReceipt = handoff["admission"].approvalReceipt
  BY <1>5, ProgressEnds DEF RecordIs
<1>7. /\ DOMAIN release.assets = AssetNames
      /\ release.assets["core"] = handoff["core"] /\ release.assets["admission"] = handoff["admission"]
      /\ release.assets["sbom"] = DigestsOf(handoff["inherited-evidence"], "sbom")
      /\ release.assets["provenance"] = DigestsOf(handoff["inherited-evidence"], "provenance")
  <2>1. DOMAIN ExpectedAssets(handoff) = AssetNames
    BY DEF ExpectedAssets
  <2>2. DOMAIN release.assets = AssetNames /\ \A a \in AssetNames : release.assets[a] = ExpectedAssets(handoff)[a]
    BY <1>1, <2>1 DEF VerifyAssets
  <2> QED
    BY <2>2 DEF ExpectedAssets, AssetNames
<1>8. release.exists
  BY <1>1 DEF IInv, RunOK
<1>9. PromotedOK(record')
  BY <1>2, <1>6, <1>7, <1>8 DEF PromotedOK, Supported, Listed, Released
<1>10. PromotedOK(record)' /\ Supported(handoff)' /\ RecordIs(record, handoff, 5)' /\ Released(handoff)'
  BY <1>1, <1>2, <1>5, <1>9 DEF PromotedOK, Supported, Released, Complete, world
<1>11. WorldOK'
  BY <1>1, SameWorldOK DEF IInv
<1> QED
  BY <1>1, <1>10, <1>11 DEF RunOK, Tagging, Going, Publishing, PublishJob, Planned, Verified

LEMMA SaveRecordKeeps ==
  ASSUME IInv, SaveRecord
  PROVE  WorldOK' /\ RunOK'
<1>1. /\ pc = "save-record" /\ promoted' = promoted \cup {record} /\ EndRun
      /\ UNCHANGED <<tag, tagRuns, evidence, registry, release, envelopes>>
  BY DEF SaveRecord
<1>2. \A r \in promoted' : PromotedOK(r)
  BY <1>1 DEF IInv, WorldOK, RunOK
<1>3. WorldOK'
  BY <1>1, <1>2 DEF IInv, WorldOK, OnlyApproved, Uploaded, EnvelopeOK, Supported,
     Released, Complete, PromotedOK
<1> QED
  BY <1>1, <1>3, EndedOK

-----------------------------------------------------------------------------
(* Recovery                                                                 *)

LEMMA DispatchRecoveryKeeps ==
  ASSUME IInv, NEW e \in envelopes, DispatchRecovery(e)
  PROVE  WorldOK' /\ RunOK'
<1>1. /\ handoff' = e /\ record' = e["publication-state"] /\ "publication-state" \in DOMAIN e
      /\ UNCHANGED world /\ pc' = "retrieve-existing"
  BY DEF DispatchRecovery, Recoverable, Has, Goto
<1>2. Supported(handoff)'
  BY <1>1 DEF IInv, WorldOK, EnvelopeOK, Supported, world
<1>3. WorldOK'
  BY <1>1, SameWorldOK DEF IInv
<1>4. handoff' \in envelopes'
  BY <1>1 DEF world
<1> QED
  BY <1>1, <1>2, <1>3, <1>4 DEF RunOK, Tagging, Going, Publishing, PublishJob, Planned,
     Verified

LEMMA StateNames ==
  /\ StateSequence[1] = "planned" /\ StateSequence[2] = "uploaded-unverified"
  /\ StateSequence[3] = "registry-verified"
BY DEF StateSequence

LEMMA RecoverRecordKeeps ==
  ASSUME IInv, RecoverRecord
  PROVE  WorldOK' /\ RunOK'
<1>1. /\ VerifyPublished(handoff, Retrieved)
      /\ record' = IF StateOf(Resumed) = "uploaded-unverified"
                     THEN Moved(Resumed, "registry-verified") ELSE Resumed
      /\ UNCHANGED <<handoff, world>> /\ pc = "retrieve-existing" /\ pc' = "recover-release"
  BY DEF RecoverRecord, Goto
<1>2. /\ handoff \in envelopes /\ record = handoff["publication-state"]
      /\ "publication-state" \in DOMAIN handoff /\ EnvelopeOK(handoff)
  BY <1>1 DEF IInv, RunOK, WorldOK
<1>3. PICK n \in 1 .. 3 : RecordIs(record, handoff, n)
  BY <1>2 DEF EnvelopeOK
<1>4. StateOf(record) = StateSequence[n]
  BY <1>3, StateIs
<1>5. RecordIs(Resumed, handoff, IF n = 1 THEN 2 ELSE n)
  <2>1. CASE n = 1
    <3>1. RecordIs(Moved(record, "uploaded-unverified"), handoff, 1 + 1)
      BY <1>3, <2>1, MovedIs, StateNames
    <3> QED
      BY <1>4, <2>1, <3>1, StateNames DEF Resumed
  <2>2. CASE n \in {2, 3}
    BY <1>3, <1>4, <2>2, StateNames DEF Resumed
  <2> QED
    BY <2>1, <2>2
<1>6. RecordIs(record', handoff, 3)
  <2>1. CASE n \in {1, 2}
    <3>1. RecordIs(Resumed, handoff, 2)
      BY <1>5, <2>1
    <3>2. StateOf(Resumed) = "uploaded-unverified"
      BY <3>1, StateIs, StateNames
    <3>3. RecordIs(Moved(Resumed, "registry-verified"), handoff, 2 + 1)
      BY <3>1, MovedIs, StateNames
    <3> QED
      BY <1>1, <3>2, <3>3
  <2>2. CASE n = 3
    <3>1. RecordIs(Resumed, handoff, 3)
      BY <1>5, <2>2
    <3>2. StateOf(Resumed) = "registry-verified"
      BY <3>1, StateIs, StateNames
    <3> QED
      BY <1>1, <3>1, <3>2
  <2> QED
    BY <2>1, <2>2
<1>7. Released(handoff)
  BY <1>1, PublishedIsReleased DEF IInv
<1>8. Supported(handoff)' /\ RecordIs(record, handoff, 3)' /\ Released(handoff)'
  BY <1>1, <1>2, <1>6, <1>7 DEF EnvelopeOK, Supported, Released, Complete, world
<1>9. WorldOK'
  BY <1>1, SameWorldOK DEF IInv
<1> QED
  BY <1>1, <1>8, <1>9 DEF RunOK, Tagging, Going, Publishing, PublishJob, Planned, Verified

LEMMA RecoverReleaseKeeps ==
  ASSUME IInv, RecoverRelease
  PROVE  WorldOK' /\ RunOK'
<1>1. /\ release' = [release EXCEPT !.exists = TRUE] /\ pc = "recover-release" /\ pc' = "assets"
      /\ UNCHANGED <<handoff, record, tag, tagRuns, evidence, registry, envelopes, promoted>>
  BY DEF RecoverRelease, Goto
<1>2. release'.exists /\ release'.assets = release.assets
  BY <1>1 DEF IInv, Types
<1>3. WorldOK'
  BY <1>1, <1>2
     DEF IInv, WorldOK, OnlyApproved, Uploaded, EnvelopeOK, Supported, Released, Complete, PromotedOK
<1>4. Supported(handoff)' /\ RecordIs(record, handoff, 3)' /\ Released(handoff)'
  BY <1>1 DEF IInv, RunOK, Going, Verified, Supported, Released, Complete
<1> QED
  BY <1>1, <1>2, <1>3, <1>4 DEF RunOK, Tagging, Going, Publishing, PublishJob, Planned,
     Verified

-----------------------------------------------------------------------------
(* The tag, failures and time                                               *)

LEMMA TagKeeps ==
  ASSUME IInv, DispatchTag \/ TagAuthority \/ CreateTag \/ SaveTagHandoff
  PROVE  WorldOK' /\ RunOK'
<1>1. CASE DispatchTag
  <2>1. handoff' \in Candidates /\ UNCHANGED <<record, world>> /\ record = None /\ pc' = "tag-authority"
    BY <1>1 DEF DispatchTag, Goto, IInv, Types
  <2>2. Plain(handoff')
    BY <2>1, CandidateAssumption DEF Plain
  <2> QED
    BY <2>1, <2>2, SameWorldOK
       DEF IInv, RunOK, Tagging, Going, Publishing, PublishJob, Planned, Verified
<1>2. CASE TagAuthority \/ CreateTag
  <2>1. /\ UNCHANGED <<handoff, record, tagRuns, evidence, registry, release, envelopes, promoted>>
        /\ pc \in Tagging /\ pc' \in {"create-tag", "save-tag-handoff"}
    BY <1>2 DEF TagAuthority, CreateTag, Goto, world, Tagging
  <2>2. Plain(handoff) /\ record = None
    BY <2>1 DEF IInv, RunOK
  <2>3. WorldOK'
    BY <2>1
       DEF IInv, WorldOK, OnlyApproved, Uploaded, EnvelopeOK, Supported, Released, Complete, PromotedOK
  <2> QED
    BY <2>1, <2>2, <2>3 DEF RunOK, Tagging, Going, Publishing, PublishJob, Planned, Verified
<1>3. CASE SaveTagHandoff
  <2> DEFINE h == Download(handoff, [n \in {"tag-handoff"} |-> BuildTagHandoff(handoff, tag)])
  <2>1. /\ pc = "save-tag-handoff" /\ tagRuns' = tagRuns \cup {h} /\ EndRun
        /\ UNCHANGED <<tag, evidence, registry, release, envelopes, promoted>>
    BY <1>3 DEF SaveTagHandoff
  <2>2. Plain(handoff)
    BY <2>1 DEF IInv, RunOK, Tagging
  <2>3. Plain(h)
    BY <2>2 DEF Plain, Download
  <2>4. WorldOK'
    BY <2>1, <2>3
       DEF IInv, WorldOK, OnlyApproved, Uploaded, EnvelopeOK, Supported, Released, Complete, PromotedOK
  <2> QED
    BY <2>1, <2>4, EndedOK
<1> QED
  BY <1>1, <1>2, <1>3

\* A job that uploads has something to save, whichever of its steps failed.
LEMMA AbortKeeps ==
  ASSUME IInv, Abort, UNCHANGED world
  PROVE  WorldOK' /\ RunOK'
<1>1. WorldOK'
  BY SameWorldOK DEF IInv
<1>2. CASE pc \notin PublishJob
  BY <1>1, <1>2, EndedOK DEF Abort
<1>3. CASE pc \in PublishJob
  <2>1. pc' = "save-failed" /\ UNCHANGED <<handoff, record>>
    BY <1>3 DEF Abort, Goto
  <2>2. /\ Supported(handoff) /\ "publication-state" \notin DOMAIN handoff
        /\ record = None \/ \E n \in 1 .. 2 : RecordIs(record, handoff, n)
    BY <1>3 DEF IInv, RunOK, Going, Publishing, PublishJob, Planned
  <2>3. Supported(handoff)'
    BY <2>1, <2>2 DEF Supported, world
  <2> QED
    BY <1>1, <2>1, <2>2, <2>3 DEF RunOK, Tagging, Going, Publishing, PublishJob, Planned,
       Verified
<1> QED
  BY <1>2, <1>3

LEMMA SameRunOK ==
  ASSUME IInv, UNCHANGED <<run, world>>
  PROVE  WorldOK' /\ RunOK'
<1>1. WorldOK'
  BY SameWorldOK DEF IInv
<1>2. RunOK'
  BY DEF IInv, RunOK, run, world, Supported, Released, Complete, Absent, PromotedOK
<1> QED
  BY <1>1, <1>2

LEMMA IInvNext == IInv /\ [Next]_vars => IInv'
<1> SUFFICES ASSUME IInv, [Next]_vars
             PROVE  WorldOK' /\ RunOK'
  BY TypesNext DEF IInv
<1>1. CASE Step
  <2>1. CASE Blocked
    BY <2>1, AbortKeeps DEF Blocked
  <2> QED
    BY <1>1, <2>1, TagKeeps, PublishAuthorityKeeps, StartPublishKeeps, ProveAbsenceKeeps,
       RevalidateKeeps, UploadKeeps, RecordUploadKeeps, VerifyUploadKeeps, SaveEnvelopeKeeps,
       CreateReleaseKeeps, UploadAssetKeeps, VerifyReleaseKeeps, SaveRecordKeeps,
       RecoverRecordKeeps, RecoverReleaseKeeps DEF Step
<1>2. CASE StepFails
  BY <1>2, AbortKeeps DEF StepFails
<1>3. CASE RunnerLost
  BY <1>3, EndedOK, SameWorldOK DEF RunnerLost, IInv
<1>4. CASE Tick \/ UNCHANGED vars
  BY <1>4, SameRunOK DEF Tick, vars
<1>5. CASE Recover
  BY <1>5, DispatchRecoveryKeeps DEF Recover
<1> QED
  BY <1>1, <1>2, <1>3, <1>4, <1>5, TagKeeps, ProduceEvidenceKeeps, DispatchPublishKeeps
     DEF Next

-----------------------------------------------------------------------------
(* Theorems                                                                 *)

\* IInv holds of every behaviour: what a run has checked so far, by its step,
\* and what past runs have left behind.
THEOREM Invariance == Spec => []IInv
<1>1. Init => IInv
  BY TypesInit, InitOK DEF IInv
<1> QED
  BY <1>1, IInvNext, PTL DEF Spec

\* Nothing gets to the registry that was not approved: what is there is of the
\* core of one evidence run, whose approval is unrevoked, signed and about it
\* (release_gate.py, asked again right before the upload).
THEOREM OnlyApprovedIsUploaded == Spec => []OnlyApproved
<1>1. IInv => OnlyApproved
  BY DEF IInv, WorldOK
<1> QED
  BY <1>1, Invariance, PTL

\* What publication records say of the registry and of the release is so, in a
\* run, in an envelope that may be recovered and in a record that was promoted
\* (publication_state.py).
THEOREM RecordsAreTrue == Spec => []RecordTrue
<1>1. ASSUME IInv, record # None, Len(record.events) >= 3
      PROVE  registry = record.artifacts
  <2>1. PICK n \in 1 .. 5 : RecordIs(record, handoff, n) /\ (n >= 3 => Released(handoff))
    <3>1. CASE pc = "retrieve-existing"
      BY <1>1, <3>1 DEF IInv, RunOK, WorldOK, EnvelopeOK
    <3>2. CASE pc # "retrieve-existing"
      BY <1>1, <3>2
         DEF IInv, Types, Steps, Promotion, RunOK, Tagging, Planned, PublishJob, Verified
    <3> QED
      BY <3>1, <3>2
  <2>2. Len(record.events) = n
    BY <2>1, StateIs
  <2> QED
    BY <1>1, <2>1, <2>2 DEF RecordIs, Released
<1>2. ASSUME IInv, NEW e \in envelopes, Has(e, {"publication-state"}),
             Len(e["publication-state"].events) >= 3
      PROVE  registry = e["publication-state"].artifacts
  <2>1. PICK n \in 1 .. 3 : RecordIs(e["publication-state"], e, n) /\ (n = 3 => Released(e))
    BY <1>2 DEF IInv, WorldOK, EnvelopeOK, Has
  <2>2. Len(e["publication-state"].events) = n
    <3>1. n \in 1 .. 5 /\ RecordIs(e["publication-state"], e, n)
      BY <2>1
    <3> QED
      BY <3>1, StateIs
  <2> QED
    BY <1>2, <2>1, <2>2 DEF RecordIs, Released
<1>3. IInv => RecordTrue
  BY <1>1, <1>2 DEF RecordTrue, IInv, WorldOK, PromotedOK
<1> QED
  BY <1>3, Invariance, PTL

\* A file is uploaded no more than a step's duration after evidence and approval
\* were both valid (the revalidation in the publish job of release.yml).
THEOREM UploadsAreFresh == Spec => UploadFresh
<1> DEFINE Freshly ==
      registry' # registry =>
        /\ now < handoff["evidence"].expiresAt + StepTime
        /\ now < handoff["approval-receipt"].expiresAt + StepTime
<1>1. ASSUME IInv, Upload
      PROVE  Freshly
  <2>1. pc = "upload"
    BY <1>1 DEF Upload
  <2>2. /\ {"evidence", "approval-receipt"} \subseteq DOMAIN handoff /\ Timed(handoff)
        /\ since < handoff["evidence"].expiresAt /\ since < handoff["approval-receipt"].expiresAt
    BY <1>1, <2>1 DEF IInv, RunOK, Going, Publishing, PublishJob, Supported
  <2>3. now \in Int /\ since \in Int /\ now <= since + StepTime
    BY <1>1, <2>1 DEF IInv, Types, Waiting
  <2> QED
    BY <2>2, <2>3 DEF Timed
<1>2. ASSUME Next, ~Upload
      PROVE  UNCHANGED registry
  BY <1>2
     DEF Next, Step, world, DispatchTag, TagAuthority, CreateTag, SaveTagHandoff, ProduceEvidence,
         DispatchPublish, PublishAuthority, StartPublish, ProveAbsence, Revalidate, RecordUpload,
         VerifyUpload, SaveEnvelope, CreateRelease, UploadAsset, VerifyRelease, SaveRecord, Recover,
         DispatchRecovery, RecoverRecord, RecoverRelease, Blocked, StepFails, RunnerLost, Tick
<1>3. IInv /\ [Next]_vars => [Freshly]_vars
  BY <1>1, <1>2
<1> QED
  BY <1>3, Invariance, PTL DEF Spec, UploadFresh
=============================================================================
