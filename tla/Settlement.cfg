SPECIFICATION LiveSpec
CONSTANTS
  o1 = o1
  o2 = o2
  o3 = o3
  j1 = j1
  j2 = j2
  t1 = t1
  t2 = t2
  Owner = {o1, o2}
  NoOwner = NoOwner
  Job = {j1, j2}
  NoJob = NoJob
  DispatcherOf <- AllOfOne
  ImpactedOf <- Undisturbed
  Earning <- Two
  Compensation <- One
  Thread = {t1}
  MaxPayouts = 2
  Calls = {"fulfil", "testFulfilled", "schedule", "upload", "mark", "update", "settle"}
  Overlapping = {}
  Payable = {o1, o2}
  NewStatus = {"PAID"}
  RepeatReports = TRUE
  MaxAnnounced <- OnceAndAgain
  MaxBatches = 2
  MaxCrashes = 1
INVARIANTS TypeOK ReleasedIsPaid
PROPERTIES LedgerSpec HeldInTheEnd
CHECK_DEADLOCK FALSE
