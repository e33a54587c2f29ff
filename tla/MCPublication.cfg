SPECIFICATION FairSpec
CONSTANTS
  Authority = authority
  None = None
  EvidenceLife = 1
  MaxValidity = 3
  StepTime = 1
  ReceiptPath = "approval-receipt"
  MaxTime = 2
  MaxEvidence = 2
  MaxDispatches = 3
  MaxFailures = 1
  Candidates <- MCCandidates
  Inherited <- MCInherited
  Receipts <- MCReceipts
INVARIANTS TypeOK OnlyApproved RecordTrue
PROPERTIES UploadFresh RecoveryCompletes
CHECK_DEADLOCK FALSE
