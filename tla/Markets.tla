------------------------------- MODULE Markets ------------------------------
(***************************************************************************)
(* The contracts built around the v7 registry, next to each other: what    *)
(* they share is the provider table, the escrow's calls and the USDC       *)
(* ledger.  A step of one leaves the variables of the others alone.        *)
(***************************************************************************)
EXTENDS SLAFutures, Subscription, ReputationLoan, AgentWallet, Dispute, DisputeQuality,
        CrossChainReceiver, X402Middleware, SLAAttestationBridge

(* The contracts that hold exactly what their books say.                   *)
Bookkeepers ==
  {Registry, PPC, FuturesAddress, SubscriptionAddress, DisputeAddress, QualityAddress}

(* Each contract has an address of its own, and nobody outside them pays   *)
(* into a contract that keeps books other than by its functions: USDC sent *)
(* there by itself belongs to nobody.                                      *)
ASSUME MarketsAssumption ==
  /\ FuturesAddress \notin {Registry, PPC}
  /\ SubscriptionAddress \notin {Registry, PPC, FuturesAddress}
  /\ DisputeAddress \notin {Registry, PPC, FuturesAddress, SubscriptionAddress}
  /\ QualityAddress \notin {Registry, PPC, FuturesAddress, SubscriptionAddress, DisputeAddress}
  /\ LoanAddress \notin Bookkeepers
  /\ WalletAddress \notin Bookkeepers \cup {LoanAddress}
  /\ ReceiverAddress \notin Bookkeepers \cup {LoanAddress, WalletAddress}
  /\ MiddlewareAddress \notin Bookkeepers \cup {LoanAddress, WalletAddress, ReceiverAddress}
  /\ Vaults \cap (Bookkeepers \cup {WalletAddress, ReceiverAddress, MiddlewareAddress}) = {}
  /\ (SlashRecipients \cup {DisputeTreasury} \cup CallUsers) \cap Bookkeepers = {}

contractVars == <<registryVars, callVars, futuresVars, subscriptionVars, loanVars, walletVars,
                  disputeVars, qualityVars, receiverVars, middlewareVars, attestationVars>>

Names == {"futures", "subscription", "loan", "wallet", "dispute", "quality", "receiver",
          "middleware", "attestation"}

MarketsInit ==
  /\ RegistryInit /\ CallInit /\ FuturesInit /\ SubscriptionInit /\ LoanInit /\ WalletInit
  /\ DisputeInit /\ QualityInit /\ ReceiverInit /\ MiddlewareInit /\ AttestationInit

(* The steps of one market leave the variables of the others alone.        *)
Apart(market) ==
  /\ market # "futures" => UNCHANGED futuresVars
  /\ market # "subscription" => UNCHANGED subscriptionVars
  /\ market # "loan" => UNCHANGED loanVars
  /\ market # "wallet" => UNCHANGED walletVars
  /\ market # "dispute" => UNCHANGED disputeVars
  /\ market # "quality" => UNCHANGED qualityVars
  /\ market # "receiver" => UNCHANGED receiverVars
  /\ market # "middleware" => UNCHANGED middlewareVars
  /\ market # "attestation" => UNCHANGED attestationVars

(* A step of the named market, or of none of them.                         *)
StepOf(market) ==
  \/ market = "futures" /\ FuturesStep /\ UNCHANGED callVars
  \/ market = "subscription" /\ SubscriptionStep /\ UNCHANGED callVars
  \/ market = "loan" /\ LoanStep /\ UNCHANGED callVars
  \/ market = "wallet" /\ WalletStep
  \/ market = "dispute" /\ DisputeStep
  \/ market = "quality" /\ QualityStep /\ UNCHANGED callVars
  \/ market = "receiver" /\ ReceiverStep
  \/ market = "middleware" /\ MiddlewareStep
  \/ market = "attestation" /\ AttestationStep

MarketsNext ==
  \/ ((RegistryStep /\ UNCHANGED callVars) \/ SettlementStep) /\ Apart("none")
  \/ \E market \in Names : StepOf(market) /\ Apart(market)

MarketsSpec == MarketsInit /\ [][MarketsNext]_contractVars

-----------------------------------------------------------------------------
(* No contract of the v7 era spends money it does not have: the escrow,    *)
(* the registry's stakes, the futures, subscriptions, loans and disputes    *)
(* each hold what their books say they owe, after any order of deposits,   *)
(* payments, refunds, slashes and write-offs.                              *)
MarketsSolvent ==
  /\ EscrowCovered
  /\ FuturesSolvent
  /\ SubscriptionsCovered
  /\ PoolCovered
  /\ BondsCovered
  /\ QualitySolvent

(* The contracts that open calls for somebody else spend each payment on   *)
(* the call it was sent for.                                               *)
EntriesPayTheirOwn == MessagesPayTheirOwn /\ RequestsOpenTheirOwnCall
=============================================================================
