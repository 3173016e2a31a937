------------------------------ MODULE MCMarkets -----------------------------
(***************************************************************************)
(* Instances for TLC of the contracts built around the v7 registry.  A     *)
(* behaviour plays in one setting: one of the markets next to the registry *)
(* and, where the market depends on calls, the v7 escrow; or the registry  *)
(* and the escrow alone with all of the admin's levers.                    *)
(***************************************************************************)
EXTENDS Markets

CONSTANTS owner, alice, bob

VARIABLE setting

Settings == {"v7", "futures", "subscription", "loan", "wallet", "dispute", "quality",
             "receiver", "middleware", "attestation"}

Transfers == [provider : {owner}, caller : {alice, bob}, amount : {10, 20}]

Offer == [price |-> 10, maxResponseTime |-> 1, slashBps |-> 5000, cap |-> 0]
TightOffer == [Offer EXCEPT !.cap = 1]
BothOffers == {Offer, TightOffer}

SignedByBob == {[from |-> bob, value |-> 10, validAfter |-> 0, validBefore |-> 1, nonce |-> 1]}

StandardLoans == [minHonorRate |-> 5000, minCallCount |-> 1, maxLoanBps |-> 5000,
                  interestRateBps |-> 5000, loanDuration |-> 1]
OpenLoans == [StandardLoans EXCEPT !.minCallCount = 0, !.minHonorRate = 0]
CheapLoans == [OpenLoans EXCEPT !.interestRateBps = 0]
AllLoanTerms == {StandardLoans, OpenLoans, CheapLoans}

FeedFails == -1
Answers == {FeedFails, 1, 2}

marketVars == <<contractVars, setting>>

(* What the admin and third parties may do is left to "v7"; the other      *)
(* settings keep to the levers their market reads.                         *)
InSetting ==
  /\ setting # "v7" =>
       /\ authorizedSlashers \cap OtherSlashers = {} /\ usedAuthorizations = {}
       /\ wiring.payPerCall \in {NoAddress, PPC} /\ wiring.pending = NoAddress
       /\ \A p \in Providers : providers[p].zkTier = 0 /\ providers[p].cap = 0
  /\ setting # "quality" => \A p \in Providers \ {owner} : ~Registered(p) /\ p \notin whitelist
  /\ setting # "quality" => QualityAddress \notin authorizedSlashers
                             /\ qualityWindows = [dispute |-> 1, voting |-> 1]
  /\ setting # "dispute" => DisputeAddress \notin authorizedSlashers
                             /\ arbitration.bond = 5
  /\ setting = "v7" =>
       /\ nonce <= 2 /\ now <= 2
       /\ \A c \in CallIds : calls[c].caller \in {NoAddress, bob}
       /\ PPC \notin {wiring.pending}
       /\ \A p \in Providers : providers[p].price # 20 /\ providers[p].zkTier # 1
  /\ setting = "futures" =>
       \A p \in Providers : providers[p].price # 20
  /\ setting \in {"futures", "subscription", "quality"} => wiring.payPerCall = NoAddress
  /\ setting = "subscription" =>
       /\ now <= 3
       /\ subCount = 0 =>
            \A p \in Providers : providers[p].price # 20 /\ (Registered(p) => providers[p].active)
  /\ setting = "loan" =>
       /\ nonce <= 1 /\ now <= 2
       /\ loanCount = 0 => \A p \in Providers : Registered(p) => providers[p].active
       /\ loanCount = 2 => vaultHeld = [v \in Vaults |-> 0] /\ yieldVault = NoAddress /\ yieldPaid = 0
       /\ \A c \in CallIds : calls[c].caller \in {NoAddress, alice}
       /\ \A p \in Providers : providers[p].price # 20
       /\ \A a \in LPs : shares[a] <= 10
       /\ shares[bob] > 0 => shares[bob] + shares[alice] >= 10
       /\ \A p \in Providers : Registered(p) => wiring.payPerCall = PPC
       /\ loanTerms \in AllLoanTerms
       /\ loanTerms = CheapLoans => vaultHeld = [v \in Vaults |-> 0] /\ yieldVault = NoAddress
       /\ nonce = 1 =>
            /\ loanTerms = StandardLoans /\ yieldVault = NoAddress
            /\ yieldPaid = 0 /\ vaultHeld = [v \in Vaults |-> 0] /\ shares[bob] = 0
  /\ setting = "dispute" =>
       /\ nonce <= 2 /\ now <= 2
       /\ \A c \in CallIds : calls[c].caller \in {NoAddress, alice}
       /\ \A p \in Providers : providers[p].price # 20
  /\ setting = "quality" =>
       /\ now <= 1
       /\ ballots[2] # <<>> => ballots[2][1].voter = alice
       /\ \A p \in Providers : providers[p].price # 20
       /\ \A p \in Providers \ {bob} : Registered(p) => providers[p].active
       /\ quality[2].outcome # "None" => quality[1].outcome \notin {"None", "Pending"}
       /\ quality[2].outcome # "None" => qualityWindows.voting = 0
       /\ authorizedSlashers = {} => quality[2].outcome = "None" /\ quality[1].outcome \in {"None", "Pending"}
       /\ quality[1].provider \in {NoAddress, bob} /\ quality[2].provider \in {NoAddress, alice}
       /\ quality[2].outcome # "None" => pendingWithdrawals[owner] = 0 /\ pendingWithdrawals[bob] = 0
       /\ quality[1].outcome # "None" =>
            /\ qualityWindows.dispute = 1
            /\ \A p \in Providers : Registered(p)
  /\ setting = "wallet" =>
       /\ \A c \in CallIds : calls[c].caller \in {NoAddress, WalletAddress}
       /\ \A p \in Providers : Registered(p) => providers[p].active
       /\ usdc[owner] <= Funds - MinStake \/ nonce = 0
       /\ ~wallet.paused \/ whitelist = {}
  /\ setting \in {"receiver", "middleware", "attestation"} =>
       /\ nonce <= 2 /\ usdc[PPC] >= 10 * nonce
       /\ \A p \in Providers :
            Registered(p) => providers[p].active /\ wiring.payPerCall = PPC
  /\ setting = "receiver" =>
       /\ now = 0 /\ nonce = Cardinality(processedMessages)
       /\ recovered <= 10 /\ usdc[owner] >= Funds - MinStake
  /\ setting = "middleware" =>
       /\ now <= 2 /\ \A c \in 0..(nonce - 1) : paymentOf[c].agent # NoAddress
       /\ now > 0 => nonce = 2
  /\ setting = "attestation" =>
       /\ now <= 2
       /\ \A c \in CallIds : calls[c].caller \in {NoAddress, bob} /\ calls[c].amount \in {0, 10}
       /\ \A p \in Providers : providers[p].price # 20
  /\ setting # "wallet" => wallet.dailyLimit = 20 /\ wallet.maxPerCall = 10
  /\ setting # "loan" => loanTerms = StandardLoans
  /\ setting # "subscription" => subscriptionCaller = PPC
  /\ setting # "futures" => priceFeed.staleness = 1

MarketInit ==
  /\ MarketsInit
  /\ setting \in Settings
  /\ InSetting

WithCalls == {"v7", "loan", "wallet", "dispute", "receiver", "middleware", "attestation"}

MarketNext ==
  /\ \/ RegistryStep /\ UNCHANGED callVars /\ Apart("none")
     \/ setting \in WithCalls /\ SettlementStep /\ Apart("none")
     \/ setting \in Names /\ StepOf(setting) /\ Apart(setting)
  /\ UNCHANGED setting
  /\ InSetting'

MarketSpec == MarketInit /\ [][MarketNext]_marketVars
=============================================================================
