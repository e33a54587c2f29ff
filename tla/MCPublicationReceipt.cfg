SPECIFICATION FairSpec
CONSTANTS
  Authority = authority
  None = None
  EvidenceLife = 1
  MaxValidity = 3
  StepTime = 1
  ReceiptPath = "approval/approval-receipt"
  MaxTime = 1
  MaxEvidence = 1
  MaxDispatches = 2
  MaxFailures = 0
  Candidates <- MCCandidates
  Inherited <- MCInherited
  Receipts <- MCReceipts
PROPERTIES ApprovedIsAdmitted
CHECK_DEADLOCK FALSE
