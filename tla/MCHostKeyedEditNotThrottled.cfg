SPECIFICATION Spec
CONSTANTS
  Ids = {n1, n2, n3}
  Factory = Factory
  NoId = NoId
  Specs = {a, b}
  Misconfigured = {}
  Cooldown = 1
  Timeout = 1
  Meddling = FALSE
  MaxEdits = 1
PROPERTY
  EditNotThrottled
