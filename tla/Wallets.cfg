SPECIFICATION Spec
CONSTANTS
  o1 = o1
  o2 = o2
  o3 = o3
  j1 = j1
  j2 = j2
  t1 = t1
  t2 = t2
  Owner = {o1, o2, o3}
  NoOwner = NoOwner
  Job = {j1, j2}
  NoJob = NoJob
  DispatcherOf <- Separate
  ImpactedOf <- BothMoved
  Earning <- Two
  Compensation <- One
  Thread = {t1, t2}
  MaxPayouts = 3
  Calls = {"fulfil", "fail", "regen", "schedule", "patch"}
  Overlapping = {}
  Payable = {o1, o2}
  NewStatus = {}
  RepeatReports = FALSE
  MaxAnnounced <- OnceAndAgain
  MaxBatches = 0
  MaxCrashes = 1
INVARIANT PayoutIsBacked
PROPERTY LedgerSpec
CHECK_DEADLOCK FALSE
