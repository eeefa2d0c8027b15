SPECIFICATION Spec
CONSTANTS
  Keys = {k1, k2}
  Consumers = {w1}
  NoKey = NoKey
  MaxDelay = 1
  StartupSpread = 0
  MaxBackoff = 1
  Requeues = {1}
  MaxEdits = 1
  MaxPods = 1
PROPERTIES
  EventuallyTaken
  LookedAt
  EditReconciled
  GoneDropped
