\* Python 3.10 and 3.11: wait_for runs dispatch in a task of its own
SPECIFICATION Spec
CONSTANTS
  Tasks = {t1, t2, t3}
  OwnedTransport = TRUE
  InlineWait = FALSE
  MaxAttempts = 2
  MaxCancels = 1
  CancelPoints <- CallsAndFollowers
  AcloseMayRaise = TRUE
INVARIANTS
  CancelledOnlyIfInterrupted
  ClosedReleasesHttp
CHECK_DEADLOCK FALSE
