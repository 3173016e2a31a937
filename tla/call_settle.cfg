\* Two requests with the same or different payments, keys and signatures, the sweep and crashes.
SPECIFICATION SettingsSpec
CONSTANTS
  a1 = a1
  a2 = a2
  i1 = i1
  i2 = i2
  k1 = k1
  Auths = {a1, a2}
  Intents = {i1, i2}
  Keys = {k1}
  Requests = {r1, r2}
  Absent = Absent
  NoHash = NoHash
  NoKey = NoKey
  Payments <- Retries
  ScanOrder <- KeysFirst
  PageSize = 3
  MaxDuration = 1
  PreparedTTL = 2
  SubmittedTTL = 3
  LastArrival = 4
  MaxTime = 4
  Operations = {op}
  Reservations = {res}
  LegacyOperations = {old}
  Workers = {w1, w2}
  None = None
  TTLs = {1}
  MaxWrites = 2
  MaxTokens = 2
  MaxClock = 1
SYMMETRY Symmetry
INVARIANTS SingleSubmitter RecordTruthful AnswersTruthful KeyPaysOnce LiveSubmitterOwnsRecord LeaseExclusive
PROPERTIES RecordOnlyMovesForward NothingUnresolvedLost
CHECK_DEADLOCK FALSE
