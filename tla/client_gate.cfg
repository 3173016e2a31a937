SPECIFICATION FlowSpec
CONSTANTS
  None = None
  Attempts = {a}
  Hashes <- MCHashes
  Slots = {s1, s2}
  Ops = {"call", "batch", "claim", "receipt", "cctp", "bridge", "x402", "bulk", "overview-multi", "payments-send", "requests-claim", "verify-receipt"}
  MaxStarts = 2
  MaxReloads = 1
  MaxFaults = 2
CHECK_DEADLOCK FALSE
ACTION_CONSTRAINT Disturbances
SYMMETRY Symmetry
INVARIANTS
  BurnOnce
  OneAuthorizationPerAttempt
  UnresolvedBlocksEveryStart
