\* One provider, two calls: every order of receipts, timeouts, batches, availability claims,
\* slashes and withdrawals.
SPECIFICATION SystemSpec
CONSTANTS
  caller1 = c1
  caller2 = c2
  dispute = dispute
  Accounts = {o1, c1, c2}
  Owners = {o1}
  Contracts = {registry, ppc, dispute, keeper, uptime}
  Registry = registry
  PPC = ppc
  Slashers = {dispute, uptime}
  Admins = {admin1}
  NoAddress = NoAddress
  Signers = {k1}
  Prices = {20}
  StakeAmounts = {80}
  SlashAmounts = {40}
  MinStake = 80
  Caps = {0, 1, 2}
  TermsInputs <- OneTerms
  MaxVersions = 1
  Funds = 80
  MinResponseTime = 1
  Bps = 10000
  TermsTimelock = 3
  UnstakeCooldown = 1
  MaxTime = 4
  Payers = {c1, c2}
  Beneficiaries = {c1, keeper}
  Keepers = {c2}
  Authorizations <- Signed
  MaxCalls = 2
  MaxDeadline = 2
  SubmitGrace = 1
  KeeperBountyBps = 500
  MaxKeeperBounty = 5
  DefaultMaxConcurrent = 2
  SLAKeeperAddress = keeper
  MaxBatch = 3
  SLAUptimeAddress = uptime
  UptimeArbiters = {arbiter1}
  UptimeTreasuries = {c2}
  AvailabilitySlashes = {2500}
  UptimeBounties = {3333}
  Cooldowns = {1}
  SampleMinimums = {1, 2}
INVARIANTS MoneyCovered CountersExact KeepersPaid EachOutcomeChargedOnce
PROPERTY BatchMakesCallersWhole
CHECK_DEADLOCK FALSE
