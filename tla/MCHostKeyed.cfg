SPECIFICATION Spec
CONSTANTS
  Ids = {n1, n2, n3, n4}
  Factory = Factory
  NoId = NoId
  Specs = {a, b, long}
  Misconfigured = {long}
  Cooldown = 1
  Timeout = 1
  Meddling = TRUE
  MaxEdits = 1
SYMMETRY Symmetry
INVARIANTS
  HostKeyedTypeOK
  NoStrandedRequest
  NoStrandedKey
  GivenUpAfterCooldown
  RepairNotReady
PROPERTIES
  RotationRecorded
  RoundsThrottled
