\* One call, terms updates, price changes and key rotation around it, with keepers cranking.
SPECIFICATION FairSpec
CONSTANTS
  caller1 = c1
  caller2 = c2
  Accounts = {o1, c1, c2}
  Owners = {o1}
  Contracts = {registry, ppc, dispute}
  Registry = registry
  PPC = ppc
  Slashers = {}
  Admins = {admin1, admin2}
  NoAddress = NoAddress
  Signers = {k1, k2}
  Prices = {20, 40}
  StakeAmounts = {80}
  SlashAmounts = {40}
  MinStake = 80
  Caps = {1}
  TermsInputs <- FreeTerms
  MaxVersions = 2
  Funds = 80
  MinResponseTime = 1
  Bps = 10000
  TermsTimelock = 2
  UnstakeCooldown = 1
  MaxTime = 6
  Payers = {c1}
  Beneficiaries = {}
  Keepers = {c2}
  Authorizations <- NoAuthorizations
  MaxCalls = 1
  MaxDeadline = 4
  SubmitGrace = 1
  KeeperBountyBps = 500
  MaxKeeperBounty = 1
  DefaultMaxConcurrent = 2
INVARIANTS Inv PublishedTermsStand AlwaysOneWayOut
PROPERTIES TermsNotice NoExitWithOpenCalls RefinesEscrow EventuallySettled
CHECK_DEADLOCK FALSE
