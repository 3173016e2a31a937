\* Two calls against one stake; one call with evidence; one call and two dispute contracts.
SPECIFICATION SettingSpec
CONSTANTS
  caller1 = c1
  uptime = uptime
  Accounts = {o1, c1, t1}
  Owners = {o1}
  Contracts = {registry, ppc, v4, v3, uptime}
  Registry = registry
  PPC = ppc
  Slashers = {v4, v3, uptime}
  Admins = {admin1}
  NoAddress = NoAddress
  Signers = {k1}
  Prices = {20}
  StakeAmounts = {80}
  SlashAmounts = {40}
  MinStake = 80
  Caps = {0}
  TermsInputs <- AtOnce
  MaxVersions = 1
  Funds = 80
  MinResponseTime = 0
  Bps = 10000
  TermsTimelock = 3
  UnstakeCooldown = 1
  MaxTime = 3
  Payers = {c1}
  Beneficiaries = {}
  Keepers = {}
  Authorizations <- NoAuthorizations
  MaxCalls = 2
  MaxDeadline = 0
  SubmitGrace = 0
  KeeperBountyBps = 500
  MaxKeeperBounty = 1
  DefaultMaxConcurrent = 2
  ClaimCalls <- Ids
  Kinds = {zk}
  Claims = {claim1, claim2}
  Responses = {r1, r2}
  SignatureKeys = {key1}
  ProofVerifiers = {adapter1}
  EvidenceOwners = {admin1}
  Unset = Unset
  Dispute = v4
  LegacyDisputes = {v3}
  Judges = {judge1}
  Treasuries = {t1}
  DisputeBonds = {5}
  AppealBonds = {6}
  DisputeSlashes = {5000}
  DisputeWindow = 1
  AppealWindow = 0
  ResolutionWindow = 0
  MaxEvidenceKinds = 1
  Committed = r1
INVARIANTS DisputeSolvent HeldUntilSettled NoDoubleSlash RowsTruthful
PROPERTIES EscrowToWinner SettledIsFinal FlagFollowsWiring
CHECK_DEADLOCK FALSE
