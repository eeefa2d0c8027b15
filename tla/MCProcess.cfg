SPECIFICATION ProcessSpec
CONSTANTS
  Keys = {k1, k2}
  NoKey = NoKey
  WorkerCount = 2
  Resources = {pubs}
  Publications = pubs
  MaxPass = 1
  ReconcileTimeout = 1
  ShutdownTimeout = 1
  GracePeriod = 2
  CallLimit = 1
  WatchLimit = 2
  MaxBackoff = 3
  MaxFaults = 2
INVARIANTS
  ProcessTypeOK
  UnhealthyMeansHung
PROPERTIES
  EndsHonestly
  EveryoneServed
