SPECIFICATION Spec
CONSTANTS
  o1 = o1
  o2 = o2
  o3 = o3
  j1 = j1
  j2 = j2
  t1 = t1
  t2 = t2
  Owner = {o1, o2}
  NoOwner = NoOwner
  Job = {j1, j2}
  NoJob = NoJob
  DispatcherOf <- AllOfOne
  ImpactedOf <- Undisturbed
  Earning <- Two
  Compensation <- One
  Thread = {t1, t2}
  MaxPayouts = 1
  Calls = {"fulfil", "schedule", "upload", "mark", "settle"}
  Overlapping = {"mark"}
  Payable = {o1, o2}
  NewStatus = {}
  RepeatReports = FALSE
  MaxAnnounced <- Two
  MaxBatches = 1
  MaxCrashes = 1
INVARIANT SettledIsPaid
CHECK_DEADLOCK FALSE
