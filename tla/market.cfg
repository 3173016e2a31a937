SPECIFICATION MarketSpec
CONSTANTS
  owner = owner
  alice = alice
  bob = bob
  Accounts = {owner, alice, bob}
  Owners = {owner, alice, bob}
  Contracts = {Registry, PPC, PPCNext, Futures, Subs, Loans, Wallet, VaultA, VaultB, Court, Quality, Arbitration, Receiver, Middleware}
  Registry = Registry
  PayPerCalls = {PPC, PPCNext}
  Slashers = {Court, Quality, Arbitration}
  OtherSlashers = {Court}
  SlashRecipients = {owner}
  NoAddress = NoAddress
  Offers <- BothOffers
  Prices = {10, 20}
  StakeAmounts = {30, 40}
  SlashAmounts = {15}
  MinStake = 40
  Funds = 50
  Bps = 10000
  UnstakeCooldown = 1
  PayPerCallTimelock = 1
  MaxTime = 4
  PPC = PPC
  Payers = {alice}
  Beneficiaries = {alice, bob}
  MaxCalls = 3
  Authorizations <- SignedByBob
  DefaultMaxConcurrent = 2
  SubmitGrace = 0
  FuturesAddress = Futures
  Holders = {alice, bob}
  MaxBatches = 1
  SlotCounts = {1, 2}
  Lifetimes = {0, 1}
  SlotPrices = {0, 10}
  MinPricePerCall = 1
  RefundGrace = 1
  FeedAnswers <- Answers
  FeedAges = {1, 2}
  DefaultStaleness = 1
  MaxBatchUsd = 20
  SubscriptionAddress = Subs
  Subscribers = {alice}
  Callers = {PPC, PPCNext}
  CallUsers = {PPCNext}
  MaxSubs = 2
  CallCounts = {1, 2}
  Durations = {2}
  StreamAmounts = {15}
  LoanAddress = Loans
  LPs = {alice, bob}
  Deposits = {10}
  ShareAmounts = {5, 10}
  MaxLoans = 2
  LoanAmounts = {5}
  LoanTerms <- AllLoanTerms
  Vaults = {VaultA}
  MaxYield = 1
  Year = 2
  WalletAddress = Wallet
  WalletOwner = alice
  TopUps = {20}
  Limits = {10, 20}
  Day = 2
  QualityAddress = Quality
  QualityIds = {1, 2}
  Openers = {alice}
  Voters = {owner, alice, bob}
  QualityBond = 3
  VoterBond = 2
  MinVoterStake = 20
  QualitySlashBps = 5000
  QualityWindows = {0, 1}
  DisputeAddress = Arbitration
  DisputeTreasury = bob
  DisputeBonds = {5, 10}
  DisputeSlashBps = 5000
  DisputeWindow = 1
  ReceiverAddress = Receiver
  MessageIds = {m1, m2}
  Messages <- Transfers
  RecoverAmounts = {10}
  MiddlewareAddress = Middleware
  Agents = {alice, bob}
  RequestHashes = {h1}
  Payments = {10, 20}
  Requesters = {alice}
  RateLimits = {0, 2}
  DefaultRateLimit = 1
  FirstBlock = 2
  MaxAttestations = 3
INVARIANTS MarketsSolvent EntriesPayTheirOwn AttestationsStandUp HolderCovered StreamOnSchedule SpendWithinTwoLimits
PROPERTIES SharePriceNeverFalls
CHECK_DEADLOCK FALSE
