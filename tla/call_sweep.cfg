\* Two payers' requests end or die early; the sweep reads a page of one record.
SPECIFICATION FairCallServiceSpec
CONSTANTS
  a1 = a1
  a2 = a2
  i1 = i1
  i2 = i2
  k1 = k1
  Auths = {a1, a2}
  Intents = {i1}
  Keys = {}
  Requests = {r1, r2}
  Absent = Absent
  NoHash = NoHash
  NoKey = NoKey
  Payments <- TwoPayments
  ScanOrder <- PaymentsOnly
  PageSize = 1
  MaxDuration = 1
  PreparedTTL = 2
  SubmittedTTL = 2
  MaxTime = 3
  LastArrival = 0
PROPERTY SweepResolvesEveryRecord
CHECK_DEADLOCK FALSE
