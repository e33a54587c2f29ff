\* A program catches a cancellation and makes its cleanup call
SPECIFICATION Spec
CONSTANTS
  Tasks = {t1, t2}
  OwnedTransport = TRUE
  InlineWait = TRUE
  MaxAttempts = 1
  MaxCancels = 1
  CancelPoints = {"idle", "flight"}
  AcloseMayRaise = FALSE
INVARIANT CancelledOnlyIfInterrupted
