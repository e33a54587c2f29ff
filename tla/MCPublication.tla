---------------------------- MODULE MCPublication -----------------------------
(* Two quality runs whose builds differ, one whose manifest is of the other  *)
(* build; one good statement per build and a foreign one; two approvals of   *)
(* the first build's core, one of the second's, and three that must not do.  *)
EXTENDS Publication

Build(i) == [d \in Dists |-> <<d, i>>]

Candidate(i, j) ==
  [n \in Dists \cup {"candidate-manifest"} |->
     IF n \in Dists THEN Build(i)[n]
     ELSE [artifacts |-> Build(j), cells |-> 10, performanceCells |-> 20,
           verdict |-> "candidate-pass", releaseEligible |-> FALSE]]

MCCandidates == {Candidate(1, 1), Candidate(2, 2), Candidate(1, 2)}

\* Of the provenances the first names a wrong sdist, which the second one's
\* statement about it replaces.
Document(i, d, subjects) == [digest |-> <<i, d>>, wellFormed |-> TRUE, subjects |-> subjects]

Only(i, d) == [e \in {d} |-> Build(i)[d]]

Documents(key, i) ==
  CASE key = "sbom" -> <<Document(i, "wheel", Only(i, "wheel")), Document(i, "sdist", Only(i, "sdist"))>>
    [] key = "provenance" ->
         <<Document(i, "wheel", [Build(i) EXCEPT !["sdist"] = <<"sdist", 3 - i>>]),
           Document(i, "sdist", Only(i, "sdist"))>>
    [] OTHER -> <<Document(i, "both", Build(i))>>

Statement(i, signer) ==
  [signer |-> signer, signed |-> TRUE, artifacts |-> Build(i),
   evidence |-> [key \in RequiredEvidence |->
                   [verdict |-> "pass", documents |-> Documents(key, i),
                    files |-> {Documents(key, i)[n].digest : n \in DOMAIN Documents(key, i)}]]]

MCInherited == {Statement(1, Authority), Statement(2, Authority), Statement(1, "other")}

Approval(id, i, issued, expires) ==
  [id |-> id, decision |-> "approve", revoked |-> FALSE, signed |-> TRUE, provider |-> Authority,
   core |-> AdmissionManifest(Candidate(i, i), Statement(i, Authority)), artifacts |-> Build(i),
   issuedAt |-> issued, expiresAt |-> expires]

MCReceipts ==
  {Approval("first", 1, 0, 2), Approval("second", 1, 1, 3), Approval("third", 2, 0, 2),
   Approval("long", 1, 0, 9),
   [Approval("revoked", 2, 0, 3) EXCEPT !.revoked = TRUE],
   [Approval("swapped", 1, 0, 3) EXCEPT !.artifacts = Build(2)]}
=============================================================================
