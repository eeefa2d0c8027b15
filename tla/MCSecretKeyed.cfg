SPECIFICATION Spec
CONSTANTS
  Names = {x, y}
  Settings = {s}
  Groups = {}
  Unset = Unset
  Created <- PlainSpecs
  Targets <- EveryTarget
  Meddling = TRUE
  MaxEdits = 1
  MaxRenewals = 1
INVARIANTS
  SecretKeyedTypeOK
  ReportedWhole
PROPERTIES
  NoBackslide
  LatestPublished
  EditPublished
