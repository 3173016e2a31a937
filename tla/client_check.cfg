SPECIFICATION FlowSpec
CONSTANTS
  None = None
  Attempts = {a}
  Hashes <- MCHashes
  Slots = {s1}
  Ops = {"call", "bulk"}
  MaxStarts = 1
  MaxReloads = 0
  MaxFaults = 0
CHECK_DEADLOCK FALSE
PROPERTY
  CheckingCannotChargeTwice
