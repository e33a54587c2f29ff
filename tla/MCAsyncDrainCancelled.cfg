\* The leader of close() may also be cancelled while it drains
SPECIFICATION FairSpec
CONSTANTS
  Tasks = {t1, t2}
  OwnedTransport = TRUE
  InlineWait = TRUE
  MaxAttempts = 1
  MaxCancels = 1
  CancelPoints = {"drain"}
  AcloseMayRaise = FALSE
PROPERTY EverythingReturns
CHECK_DEADLOCK FALSE
