SPECIFICATION Spec
CONSTANTS
  Names = {x, y}
  Settings = {s}
  Groups = {g}
  Unset = Unset
  Created <- FirstSpecs
  Targets <- EveryTarget
  Meddling = FALSE
  MaxEdits = 1
  MaxRenewals = 0
PROPERTY
  EditSettles
