\* One call of either client, with slow sinks, late wake-ups and silent servers
SPECIFICATION FairSpec
CONSTANTS
  Modes = {"sync", "async"}
  AttemptDeadline <- AttemptTicks
  TotalDeadline <- TotalTicks
  JitterBase = 1
  JitterSpace = 16
  MaxLate = 2
INVARIANTS
  TypeOK
  WriteSentOnce
  NoOverlap
  ValueOnTime
  EndsInTime
  SyncStartedNeverRetried
  JitterUniform
PROPERTIES
  CallEnds
