\* The asynchronous policy: is a request repeated whose response had started?
SPECIFICATION Spec
CONSTANTS
  Modes = {"async"}
  AttemptDeadline <- AttemptTicks
  TotalDeadline <- TotalTicks
  JitterBase = 1
  JitterSpace = 16
  MaxLate = 2
INVARIANT StartedNeverRetried
