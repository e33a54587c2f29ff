\* Python 3.12 and later: three tasks, a cancelled leader hands over
SPECIFICATION FairSpec
CONSTANTS
  Tasks = {t1, t2, t3}
  OwnedTransport = TRUE
  InlineWait = TRUE
  MaxAttempts = 3
  MaxCancels = 1
  CancelPoints <- AllButDrain
  AcloseMayRaise = FALSE
INVARIANTS
  TypeOK
  AdmittedFindsOpen
  OneLeader
  NoLostWakeup
  LeadIsHeld
  NoLateValue
PROPERTIES
  LifecycleSpec
  EverythingReturns
