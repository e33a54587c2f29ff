----------------------------- MODULE ReleaseGates -----------------------------
(***************************************************************************)
(* The gates of the release: what each of them asks of the documents in a  *)
(* directory, and the documents it writes.                                 *)
(*                                                                         *)
(* A directory is a function from the names of its files to what they      *)
(* contain.  A digest stands for what was digested: two digests are equal  *)
(* when the contents are.  All documents speak of one source commit and    *)
(* its one version, whose policy files pass their own checks.              *)
(***************************************************************************)
EXTENDS Integers, Sequences, FiniteSets

CONSTANTS
  Authority,     \* the release authority the run pins
  EvidenceLife,  \* what the evidence is good for, 10 minutes
  MaxValidity    \* maximumValiditySeconds of an approval

Dists == {"wheel", "sdist"}

Has(root, names) == names \subseteq DOMAIN root

\* What a directory holds after files were downloaded into it.
Download(root, files) ==
  [n \in DOMAIN root \cup DOMAIN files |-> IF n \in DOMAIN files THEN files[n] ELSE root[n]]

\* The pair of artifacts a directory holds.
ArtifactsIn(root) == [d \in Dists |-> root[d]]

-----------------------------------------------------------------------------
(* The candidate and the tag                                                *)

\* Ten installed cells and twenty measured ones, about exactly this pair.
ValidateCore(root, manifest) ==
  /\ Has(root, Dists)
  /\ manifest.artifacts = ArtifactsIn(root)
  /\ manifest.cells = 10 /\ manifest.performanceCells = 20

ValidateCandidateHandoff(root) ==
  /\ Has(root, {"candidate-manifest"})
  /\ ValidateCore(root, root["candidate-manifest"])
  /\ root["candidate-manifest"].verdict = "candidate-pass"
  /\ ~root["candidate-manifest"].releaseEligible

\* Slip: only the candidate is looked at.
ValidateAnyCandidate(root, tag) == ValidateCandidateHandoff(root)

\* tag is the tag's object, 0 while it does not exist.
ValidateTagCandidate(root, tag) ==
  /\ tag = 0
  /\ ValidateCandidateHandoff(root)

BuildTagHandoff(root, tag) ==
  [artifacts |-> ArtifactsIn(root), candidate |-> root["candidate-manifest"], tagObject |-> tag]

ValidateTagHandoff(root, tag) ==
  /\ Has(root, {"tag-handoff"})
  /\ ValidateCandidateHandoff(root) /\ tag # 0
  /\ root["tag-handoff"] = BuildTagHandoff(root, tag)

-----------------------------------------------------------------------------
(* Inherited evidence and the release core                                  *)

\* The five gate reports have one form; one stands for them.
RequiredEvidence == {"report", "releaseManifest", "sbom", "provenance"}

\* The repository is the run's choice, which the statement can only meet.
SignerIsExpected(statement) == statement.signer = Authority

\* Merged in their order, so that the last document to name an artifact
\* decides, the documents name just this pair.
NamePair(documents, artifacts) ==
  /\ \A i \in DOMAIN documents : DOMAIN documents[i].subjects \subseteq Dists
  /\ \A a \in Dists :
       \E i \in DOMAIN documents :
         /\ a \in DOMAIN documents[i].subjects
         /\ documents[i].subjects[a] = artifacts[a]
         /\ \A j \in DOMAIN documents : j > i => a \notin DOMAIN documents[j].subjects

\* What the documents of one kind say: SBOMs about the statement's
\* dependencies or provenances by the authority's builder, together about the
\* pair, or one report or manifest about both artifacts.
ValidateContent(documents, artifacts) ==
  /\ \A i \in DOMAIN documents : documents[i].wellFormed
  /\ NamePair(documents, artifacts)

\* What the files of one kind contain, beside what is listed of them.
DigestsOf(statement, key) ==
  LET documents == statement.evidence[key].documents
  IN  {documents[i].digest : i \in DOMAIN documents}

\* The statement is signed by the authority, names this pair, and every file
\* it lists has the digest it lists and says what it must.
ValidateInherited(statement, artifacts) ==
  /\ SignerIsExpected(statement)
  /\ statement.signed
  /\ statement.artifacts = artifacts
  /\ DOMAIN statement.evidence = RequiredEvidence
  /\ \A key \in RequiredEvidence :
       LET entry == statement.evidence[key]
       IN  /\ entry.verdict = "pass"
           /\ Len(entry.documents) = IF key \in {"sbom", "provenance"} THEN 2 ELSE 1
           /\ DigestsOf(statement, key) = entry.files
           /\ ValidateContent(entry.documents, artifacts)

\* The approval-free core: what the candidate measured and what was inherited.
AdmissionManifest(root, statement) ==
  [artifacts        |-> ArtifactsIn(root),
   cells            |-> root["candidate-manifest"].cells,
   performanceCells |-> root["candidate-manifest"].performanceCells,
   verdict          |-> "core-pass",
   releaseEligible  |-> FALSE,
   inherited        |-> [key \in DOMAIN statement.evidence |-> statement.evidence[key].files]]

CoreCanBeBuilt(root, statement) ==
  /\ Has(root, Dists \cup {"candidate-manifest"})
  /\ root["candidate-manifest"].cells = 10
  /\ root["candidate-manifest"].performanceCells = 20
  /\ ValidateInherited(statement, ArtifactsIn(root))

ValidateReleaseCore(root) ==
  /\ Has(root, {"core"})
  /\ ValidateCore(root, root["core"])
  /\ root["core"].verdict = "core-pass" /\ ~root["core"].releaseEligible
  /\ DOMAIN root["core"].inherited = RequiredEvidence
  /\ \A key \in RequiredEvidence : root["core"].inherited[key] # {}

\* The digest that the approval and the evidence are bound to.
CoreBinding(root) == root["core"]

\* The release manifest inside the core, whose file is at hand and unchanged.
ManifestBinding(root) == root["core"].inherited["releaseManifest"]

ManifestAtHand(root) ==
  /\ Has(root, {"core", "inherited-evidence"})
  /\ DigestsOf(root["inherited-evidence"], "releaseManifest") = ManifestBinding(root)

-----------------------------------------------------------------------------
(* Approval, evidence and admission                                         *)

\* Slip: the revocation field is read by nobody.
VerifyReceiptEvenRevoked(receipt, core, artifacts, now) ==
  /\ receipt.decision = "approve" /\ receipt.signed /\ receipt.provider = Authority
  /\ receipt.core = core /\ receipt.artifacts = artifacts
  /\ receipt.issuedAt <= now /\ now < receipt.expiresAt
  /\ receipt.expiresAt - receipt.issuedAt \in 1 .. MaxValidity

\* A signed, unrevoked approval of this core and this pair, in its time.
VerifyProviderReceipt(receipt, core, artifacts, now) ==
  /\ receipt.decision = "approve" /\ ~receipt.revoked
  /\ receipt.provider = Authority
  /\ receipt.core = core
  /\ receipt.artifacts = artifacts
  /\ receipt.issuedAt <= now /\ now < receipt.expiresAt
  /\ receipt.issuedAt < receipt.expiresAt
  /\ receipt.expiresAt - receipt.issuedAt <= MaxValidity
  /\ receipt.signed

ApprovalReceiptGate(root, receipt, now) ==
  VerifyProviderReceipt(receipt, CoreBinding(root), ArtifactsIn(root), now)

\* The statement the evidence workflow signs, about what is in root.
BuildEvidence(root, receipt, now) ==
  [artifacts       |-> ArtifactsIn(root),
   releaseCore     |-> CoreBinding(root),
   releaseManifest |-> ManifestBinding(root),
   approvalReceipt |-> receipt.id,
   expiresAt       |-> now + EvidenceLife]

\* root["approval-receipt"] is the path the gate is told to read.
ReleaseGate(root, tag, now) ==
  /\ tag # 0
  /\ Has(root, Dists \cup {"evidence", "approval-receipt"})
  /\ now < root["evidence"].expiresAt
  /\ ManifestAtHand(root)
  /\ root["evidence"].releaseManifest = ManifestBinding(root)
  /\ root["evidence"].releaseCore = CoreBinding(root)
  /\ root["evidence"].artifacts = ArtifactsIn(root)
  /\ VerifyProviderReceipt(root["approval-receipt"], CoreBinding(root), ArtifactsIn(root), now)
  /\ root["evidence"].approvalReceipt = root["approval-receipt"].id

Admission(root) ==
  [state |-> "admitted", core |-> CoreBinding(root), approvalReceipt |-> root["approval-receipt"].id]

ValidateHandoff(root) ==
  /\ ValidateReleaseCore(root)
  /\ Has(root, {"admission"})
  /\ root["admission"].state = "admitted"
  /\ root["admission"].core = CoreBinding(root)

-----------------------------------------------------------------------------
(* The publication record                                                   *)

StateSequence ==
  <<"planned", "uploaded-unverified", "registry-verified", "release-assets-verified", "promoted">>

CanInitialize(root) ==
  /\ Has(root, {"admission", "core"} \cup Dists)
  /\ root["admission"].state = "admitted"
  /\ root["admission"].core = CoreBinding(root)

Initialize(root) ==
  [approvalReceipt |-> root["admission"].approvalReceipt,
   artifacts       |-> ArtifactsIn(root),
   core            |-> CoreBinding(root),
   events          |-> <<"planned">>]

StateOf(record) == record.events[Len(record.events)]

\* A record moves by one state, and only if its events are the sequence so far.
CanMove(record, target) ==
  /\ record.events = SubSeq(StateSequence, 1, Len(record.events))
  /\ Len(record.events) < Len(StateSequence)
  /\ StateSequence[Len(record.events) + 1] = target

Moved(record, target) == [record EXCEPT !.events = Append(@, target)]

-----------------------------------------------------------------------------
(* The registry and the release                                             *)

\* Exactly one wheel and one sdist are copied for the upload.
StagePublishArtifacts(root) == Has(root, Dists)

\* What was retrieved is the pair, to the digest, and attested.
VerifyPublished(root, retrieved) ==
  /\ DOMAIN retrieved = Dists
  /\ retrieved = ArtifactsIn(root)

AssetNames == {"core", "admission", "sbom", "provenance"}

\* The files a release consists of: the core, the admission, and the SBOMs and
\* provenances that the inherited statement lists.
ExpectedAssets(root) ==
  [a \in AssetNames |->
     IF a \in {"core", "admission"} THEN root[a]
     ELSE DigestsOf(root["inherited-evidence"], a)]

CanStageAssets(root) ==
  /\ Has(root, {"core", "admission", "inherited-evidence"})
  /\ \A a \in {"sbom", "provenance"} :
       LET files == root["inherited-evidence"].evidence[a].files
       IN  Cardinality(files) = 2 /\ DigestsOf(root["inherited-evidence"], a) = files

\* Slip: the names are compared.
VerifyNames(expected, retrieved) == DOMAIN retrieved = DOMAIN expected

VerifyAssets(expected, retrieved) ==
  /\ DOMAIN retrieved = DOMAIN expected
  /\ \A a \in DOMAIN expected : retrieved[a] = expected[a]
=============================================================================
