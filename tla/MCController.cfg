SPECIFICATION Spec
CONSTANTS
  Keys = {k1}
  Consumers = {w1, w2}
  NoKey = NoKey
  MaxDelay = 2
  StartupSpread = 1
  MaxBackoff = 1
  Requeues = {1, 2}
  MaxEdits = 2
  MaxPods = 2
SYMMETRY Symmetry
INVARIANTS
  ControllerTypeOK
  NotForgotten
  EditNoticed
