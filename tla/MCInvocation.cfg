\* Two callers of one client, whose sinks call it once more or close it
SPECIFICATION FairSpec
CONSTANTS
  None = None
  one = one
  two = two
  Callers = {one, two}
  Reads = {"read"}
  Operations = {"read", "write"}
  MaxDepth = 2
  MaxResponseBytes = 1
  Uuid = {"u1"}
  ProblemCode = {"code", "sync"}
  WorkspaceSyncCode = {"sync"}
  IdempotencyKey = {"key"}
  Decodable <- MCDecodable
  Uses <- MCUses
  Text <- MCText
  ApiKeys <- MCApiKeys
  Settings <- MCSettings
  Arguments <- MCArguments
  Success <- MCSuccess
  Responses <- MCResponses
INVARIANTS StoriesAgree
PROPERTIES NeverFallsBack LifecycleSpec OnlySelfCloseSticks
CHECK_DEADLOCK FALSE
