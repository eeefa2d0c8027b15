SPECIFICATION IDracSpec
CONSTANTS
  cn = cn
  san1 = san1
  san2 = san2
  none = none
  Values = {cn, san1, san2, none}
  Subjects <- MCSubjects
  Unset <- MCUnset
  Issued = {c1}
  Factory = Factory
  Foreign = Foreign
  NoCert = NoCert
  Attempts = 2
  ApplyPolls = 1
INVARIANTS
  IDracTypeOK
  CsrAsAsked
PROPERTIES
  RequestsReachHost
  OperationEnds
