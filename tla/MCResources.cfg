SPECIFICATION Spec
CONSTANTS
  one = one
  two = two
  Formed = Formed
  Protected = Protected
  Broken = Broken
  None = None
  Callers = {one, two}
  Handles = {handle}
  Machine = {"m1", "m2", "m3"}
  Started = {"m1", "m2"}
  ServiceSkew = 3
  TimeStep = 33
  MaxTime = 33
  MaxChanges = 1
  MaxSafe = 9
  Uuid <- MCUuid
  Digest <- MCDigest
  Text <- MCText
  Name <- MCName
  Cwd <- MCCwd
  Key <- MCKey
  Prefix <- MCText
  Length <- MCLength
  Sha256 <- MCSha256
  B64Encode <- MCB64Encode
  B64Decode <- MCB64Decode
  Arguments <- MCArguments
  Uses <- MCUses
  Reply <- MCReply
  Processes <- MCProcesses
INVARIANTS TypeOK HandleTrue AcceptedIsAnswer
PROPERTIES BackOnlyByRace
