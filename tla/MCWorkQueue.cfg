SPECIFICATION QueueSpec
CONSTANTS
  Keys = {k1, k2, k3}
  Consumers = {c1, c2}
  MaxDelay = 2
  NoKey = NoKey
SYMMETRY Symmetry
INVARIANTS
  TypeOK
  Serialised
  QueueExact
  NoDeadlineStranded
PROPERTIES
  EarliestWins
  KeepsPromise
