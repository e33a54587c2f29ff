\* Three threads and two permits: workers that hang, late answers, close()
SPECIFICATION FairSpec
CONSTANTS
  Threads = {t1, t2, t3}
  Permits = {w1, w2}
  NoThread = nobody
  OwnedTransport = TRUE
  MaxAttempts = 2
  Main = t1
  InterruptPoints <- AllButDrain
INVARIANTS
  TypeOK
  LeaseCounted
  AdmittedFindsOpen
  NoLostWakeup
  LeadIsHeld
  AnswersMatchCalls
PROPERTIES
  LifecycleSpec
  EverythingReturns
