SPECIFICATION LiveSpec
CONSTANTS
  j1 = j1
  j2 = j2
  o1 = o1
  o2 = o2
  Job = {j1, j2}
  Owner = {o1, o2}
  NoOwner = NoOwner
  PrincipalGroup <- MCPrincipalGroup
  Packages <- MCPackages
  Surcharge <- MCSurcharge
  Promotion <- MCPromotion
  Credit <- MCCredit
  Together = TRUE
  MaxBatches = 2
  MaxFiles = 1
  MaxFaults = 2
INVARIANTS TypeOK FilesAgree SentOnce CountedOnce
PROPERTY ReportedIsMarked
CHECK_DEADLOCK FALSE
