SPECIFICATION Spec
CONSTANTS
  Keys = {k1}
  MaxEvents = 3
  MaxFailures = 2
INVARIANTS
  WatcherTypeOK
  NothingMissed
  RememberedRight
PROPERTIES
  StatusIgnored
  ReadyFollowsAccess
  ChangesPassedOn
  KeepsFeed
