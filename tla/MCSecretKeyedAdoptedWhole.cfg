SPECIFICATION Spec
CONSTANTS
  Names = {x, y}
  Settings = {}
  Groups = {}
  Unset = Unset
  Created <- FirstSpecs
  Targets <- EveryTarget
  Meddling = FALSE
  MaxEdits = 0
  MaxRenewals = 1
PROPERTY
  AdoptedWhole
