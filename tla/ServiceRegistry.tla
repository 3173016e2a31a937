--------------------------- MODULE ServiceRegistry --------------------------
(***************************************************************************)
(* contracts/ServiceRegistry.sol: the v7 provider record that SLAFutures,  *)
(* Subscription, ReputationLoan and AgentWallet read, and the hooks the v7 *)
(* PayPerCall calls.  As in ServiceRegistryV8 a provider is identified by  *)
(* its owner, and a hook is a transformer of the table together with the   *)
(* condition under which the registry accepts it.  Unlike v8 the terms are *)
(* part of the record, and the admin may replace PayPerCall after a        *)
(* timelock.                                                               *)
(***************************************************************************)
EXTENDS USDC

CONSTANTS
  Accounts,         \* externally owned accounts
  Owners,           \* the accounts that may register a provider
  Contracts,        \* every contract address that may hold USDC
  Registry,         \* the address of this contract
  PayPerCalls,      \* contracts that may be wired as payPerCall
  Slashers,         \* contracts the admin may authorize to slash
  OtherSlashers,    \* those of them whose rules are not modelled
  NoAddress,        \* address(0)
  Offers,           \* [price, maxResponseTime, slashBps, cap] an owner may register with
  Prices,           \* prices an owner may change to
  StakeAmounts,     \* stakes an owner may register with
  SlashAmounts,     \* amounts those may ask for
  SlashRecipients,  \* and for whom
  MinStake,
  Funds,            \* USDC each account starts with
  Bps,              \* 10_000
  UnstakeCooldown,  \* UNSTAKE_COOLDOWN
  PayPerCallTimelock,
  MaxTime           \* bound: the clock stops here

Providers == Owners
Addresses == Accounts \cup Contracts
Time == 0..MaxTime

ASSUME RegistryAssumption ==
  /\ Owners \subseteq Accounts /\ Accounts \cap Contracts = {}
  /\ IsFiniteSet(Accounts) /\ IsFiniteSet(Contracts)
  /\ Registry \in Contracts /\ PayPerCalls \subseteq Contracts \ {Registry}
  /\ Slashers \subseteq Contracts \ {Registry}
  /\ OtherSlashers \subseteq Slashers
  /\ NoAddress \notin Addresses
  /\ Offers \subseteq [price : Nat, maxResponseTime : Nat, slashBps : 0..Bps, cap : Nat]
  /\ Prices \subseteq Nat /\ StakeAmounts \subseteq Nat /\ SlashAmounts \subseteq Nat
  /\ SlashRecipients \subseteq Addresses
  /\ MinStake \in Nat
  /\ Funds \in Nat /\ Bps \in Nat \ {0}
  /\ UnstakeCooldown \in Nat /\ PayPerCallTimelock \in Nat /\ MaxTime \in Nat

VARIABLES
  providers,           \* _providers
  wiring,              \* payPerCall, pendingPayPerCall, payPerCallChangeAt
  authorizedSlashers,
  usdc,                \* the token's own ledger
  now                  \* block.timestamp

registryVars == <<providers, wiring, authorizedSlashers, usdc, now>>

NoProvider ==
  [registered |-> FALSE, stake |-> 0, price |-> 0, maxResponseTime |-> 0,
   slashBps |-> 0, cap |-> 0, zkTier |-> 0, deactivatedAt |-> 0, pendingCalls |-> 0,
   completedCalls |-> 0, slashedCalls |-> 0, active |-> FALSE]

Registered(p) == providers[p].registered

RegistryInit ==
  /\ providers = [p \in Providers |-> NoProvider]
  /\ wiring = [payPerCall |-> NoAddress, pending |-> NoAddress, changeAt |-> 0]
  /\ authorizedSlashers = {}
  /\ usdc = [a \in Addresses |-> IF a \in Accounts THEN Funds ELSE 0]
  /\ now = 0

-----------------------------------------------------------------------------
(* Wiring.                                                                 *)

SetPayPerCall(c) ==
  /\ wiring.payPerCall = NoAddress
  /\ wiring' = [wiring EXCEPT !.payPerCall = c]
  /\ UNCHANGED <<providers, authorizedSlashers, usdc, now>>

ProposePayPerCall(c) ==
  /\ wiring' = [wiring EXCEPT !.pending = c, !.changeAt = now + PayPerCallTimelock]
  /\ UNCHANGED <<providers, authorizedSlashers, usdc, now>>

ExecutePayPerCall ==
  /\ wiring.pending # NoAddress
  /\ now >= wiring.changeAt
  /\ wiring' = [payPerCall |-> wiring.pending, pending |-> NoAddress, changeAt |-> 0]
  /\ UNCHANGED <<providers, authorizedSlashers, usdc, now>>

AuthorizeSlasher(s) ==
  /\ authorizedSlashers' = authorizedSlashers \cup {s}
  /\ UNCHANGED <<providers, wiring, usdc, now>>

RevokeSlasher(s) ==
  /\ authorizedSlashers' = authorizedSlashers \ {s}
  /\ UNCHANGED <<providers, wiring, usdc, now>>

-----------------------------------------------------------------------------
(* The provider's life cycle.  registerV2 does the same for the owner of   *)
(* an identity NFT.                                                        *)

Register(p, amount, offer) ==
  /\ ~Registered(p)
  /\ amount >= MinStake
  /\ CanPay(usdc, p, amount)
  /\ providers' = [providers EXCEPT ![p] =
       [NoProvider EXCEPT !.registered = TRUE, !.active = TRUE, !.stake = amount,
          !.price = offer.price, !.maxResponseTime = offer.maxResponseTime,
          !.slashBps = offer.slashBps, !.cap = offer.cap]]
  /\ usdc' = Transfer(usdc, p, Registry, amount)
  /\ UNCHANGED <<wiring, authorizedSlashers, now>>

Deactivate(p) ==
  /\ Registered(p) /\ providers[p].active
  /\ providers' = [providers EXCEPT ![p].active = FALSE, ![p].deactivatedAt = now]
  /\ UNCHANGED <<wiring, authorizedSlashers, usdc, now>>

(* There is no guard on the stake: a second unstake moves zero USDC.       *)
Unstake(p) ==
  /\ Registered(p) /\ ~providers[p].active
  /\ providers[p].pendingCalls = 0
  /\ now >= providers[p].deactivatedAt + UnstakeCooldown
  /\ CanPay(usdc, Registry, providers[p].stake)
  /\ providers' = [providers EXCEPT ![p].stake = 0]
  /\ usdc' = Transfer(usdc, Registry, p, providers[p].stake)
  /\ UNCHANGED <<wiring, authorizedSlashers, now>>

UpdatePrice(p, price) ==
  /\ Registered(p)
  /\ providers' = [providers EXCEPT ![p].price = price]
  /\ UNCHANGED <<wiring, authorizedSlashers, usdc, now>>

UpdateMaxConcurrentCalls(p, cap) ==
  /\ Registered(p)
  /\ providers' = [providers EXCEPT ![p].cap = cap]
  /\ UNCHANGED <<wiring, authorizedSlashers, usdc, now>>

SetZkTier(p, tier) ==
  /\ Registered(p)
  /\ providers' = [providers EXCEPT ![p].zkTier = tier]
  /\ UNCHANGED <<wiring, authorizedSlashers, usdc, now>>

-----------------------------------------------------------------------------
(* What PayPerCall and the slashers call.                                  *)

IsPayPerCall(c) == wiring.payPerCall = c

CallStarted(table, p) == [table EXCEPT ![p].pendingCalls = @ + 1]

CallFinished(table, p) == [table EXCEPT ![p].pendingCalls = @ - 1]

IncCompleted(table, p) == [table EXCEPT ![p].completedCalls = @ + 1]

IncSlashed(table, p) == [table EXCEPT ![p].slashedCalls = @ + 1]

Slashed(table, p, amount) == [table EXCEPT ![p].stake = @ - amount]

(* A slash by one of the other authorized contracts.                       *)
Slash(s, p, amount, recipient) ==
  /\ s \in authorizedSlashers
  /\ Registered(p)
  /\ 0 < amount /\ amount <= providers[p].stake
  /\ CanPay(usdc, Registry, amount)
  /\ providers' = Slashed(providers, p, amount)
  /\ usdc' = Transfer(usdc, Registry, recipient, amount)
  /\ UNCHANGED <<wiring, authorizedSlashers, now>>

Tick == now < MaxTime /\ now' = now + 1 /\ UNCHANGED <<providers, wiring, authorizedSlashers, usdc>>

RegistryStep ==
  \/ \E c \in PayPerCalls : SetPayPerCall(c) \/ ProposePayPerCall(c)
  \/ ExecutePayPerCall
  \/ \E s \in Slashers : AuthorizeSlasher(s) \/ RevokeSlasher(s)
  \/ \E p \in Providers :
       \/ \E amount \in StakeAmounts, offer \in Offers : Register(p, amount, offer)
       \/ Deactivate(p) \/ Unstake(p)
       \/ \E price \in Prices : UpdatePrice(p, price)
       \/ \E offer \in Offers : UpdateMaxConcurrentCalls(p, offer.cap)
       \/ \E tier \in 0..2 : SetZkTier(p, tier)
       \/ \E s \in OtherSlashers, amount \in SlashAmounts, recipient \in SlashRecipients :
            Slash(s, p, amount, recipient)
  \/ Tick
=============================================================================
