\* A claim vouched for by a key reads as bound after its kind is rewired to a verifier contract.
SPECIFICATION DisputeSpec
CONSTANTS
  caller1 = c1
  Accounts = {o1, c1, t1}
  Owners = {o1}
  Contracts = {registry, ppc, v4}
  Registry = registry
  PPC = ppc
  Slashers = {v4}
  Admins = {admin1}
  NoAddress = NoAddress
  Signers = {k1}
  Prices = {20}
  StakeAmounts = {80}
  SlashAmounts = {}
  MinStake = 80
  Caps = {0}
  TermsInputs <- AtOnce
  MaxVersions = 1
  Funds = 80
  MinResponseTime = 0
  Bps = 10000
  TermsTimelock = 3
  UnstakeCooldown = 1
  MaxTime = 1
  Payers = {c1}
  Beneficiaries = {}
  Keepers = {}
  Authorizations <- NoAuthorizations
  MaxCalls = 1
  MaxDeadline = 0
  SubmitGrace = 0
  KeeperBountyBps = 500
  MaxKeeperBounty = 1
  DefaultMaxConcurrent = 2
  ClaimCalls <- Ids
  Kinds = {witness}
  Claims = {claim1}
  Responses = {r1}
  SignatureKeys = {key1}
  ProofVerifiers = {adapter1}
  EvidenceOwners = {admin1}
  Unset = Unset
  Dispute = v4
  LegacyDisputes = {}
  Judges = {judge1}
  Treasuries = {t1}
  DisputeBonds = {0}
  AppealBonds = {0}
  DisputeSlashes = {5000}
  DisputeWindow = 1
  AppealWindow = 0
  ResolutionWindow = 0
  MaxEvidenceKinds = 1
  Committed = r1
INVARIANT BoundRowsAreProven
CHECK_DEADLOCK FALSE
