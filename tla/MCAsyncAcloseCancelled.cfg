\* The leader of close() may be cancelled in aclose()
SPECIFICATION Spec
CONSTANTS
  Tasks = {t1, t2}
  OwnedTransport = TRUE
  InlineWait = TRUE
  MaxAttempts = 1
  MaxCancels = 1
  CancelPoints = {"aclose"}
  AcloseMayRaise = FALSE
INVARIANT ClosedReleasesHttp
