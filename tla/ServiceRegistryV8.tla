-------------------------- MODULE ServiceRegistryV8 -------------------------
(***************************************************************************)
(* contracts/ServiceRegistryV8.sol: providers, their stake and their       *)
(* versioned SLA terms.  A provider is identified by its owner: an owner   *)
(* registers at most once and providers are never deleted, so providerIdOf *)
(* is a bijection.                                                         *)
(*                                                                         *)
(* One action is one transaction.  The hooks other contracts call are      *)
(* transformers of the provider table, with the condition under which the  *)
(* registry accepts them: the calling contract composes them into its own  *)
(* transaction (PayPerCallV8).  Slash is also an action of its own, for a  *)
(* slasher whose own rules are not modelled here.                          *)
(***************************************************************************)
EXTENDS USDC

CONSTANTS
  Accounts,         \* externally owned accounts
  Owners,           \* the accounts that may register a provider
  Contracts,        \* every contract address that may hold USDC
  Registry,         \* the address of this contract
  PPC,              \* the PayPerCall contract wired by setPayPerCall
  Slashers,         \* contracts the admin may authorize to slash
  Admins,           \* addresses the admin role may be handed to
  NoAddress,        \* address(0)
  Signers,          \* receipt signing keys
  Prices,           \* prices an owner may set
  StakeAmounts,     \* amounts an owner may stake at once
  SlashAmounts,     \* amounts a slasher may ask for
  MinStake,
  Caps,             \* values of maxConcurrentCalls (0 means the default)
  TermsInputs,      \* terms an owner may submit, valid or not
  MaxVersions,      \* bound: terms versions per provider
  Funds,            \* USDC each account starts with
  MinResponseTime,  \* MIN_RESPONSE_TIME
  Bps,              \* 10_000: the basis-point denominator, MAX_SLASH_BPS
  TermsTimelock,    \* TERMS_TIMELOCK
  UnstakeCooldown,  \* UNSTAKE_COOLDOWN
  MaxTime           \* bound: the clock stops here

Providers == Owners
Addresses == Accounts \cup Contracts
Versions == 1..MaxVersions
Time == 0..MaxTime

ASSUME RegistryAssumption ==
  /\ Owners \subseteq Accounts
  /\ IsFiniteSet(Accounts) /\ IsFiniteSet(Contracts)
  /\ Accounts \cap Contracts = {}
  /\ Registry \in Contracts /\ PPC \in Contracts /\ Registry # PPC
  /\ Slashers \subseteq Contracts /\ Registry \notin Slashers /\ PPC \notin Slashers
  /\ NoAddress \notin Addresses \cup Admins
  /\ Admins # {}
  /\ Prices \subseteq Nat /\ StakeAmounts \subseteq Nat
  /\ SlashAmounts \subseteq Nat /\ Caps \subseteq Nat
  /\ TermsInputs \subseteq [maxResponseTime : Nat, slashBps : Nat,
                            availabilityTargetBps : Nat]
  /\ MinStake \in Nat /\ MaxVersions \in Nat \ {0} /\ Funds \in Nat
  /\ MinResponseTime \in Nat /\ Bps \in Nat \ {0}
  /\ TermsTimelock \in Nat /\ UnstakeCooldown \in Nat /\ MaxTime \in Nat

VARIABLES
  providers,            \* _providers
  terms,                \* _terms
  latestTermsVersion,   \* _latestTermsVersion
  pendingTerms,         \* _pendingTerms, _pendingTermsVersion, _pendingTermsExecuteAt
  admin, payPerCall, authorizedSlashers,
  balance,              \* USDC: the token's own ledger
  now                   \* block.timestamp

termsVars == <<terms, latestTermsVersion, pendingTerms>>
adminVars == <<admin, payPerCall, authorizedSlashers>>
registryVars == <<providers, termsVars, adminVars, balance, now>>

-----------------------------------------------------------------------------
(* The records of the source; an unset mapping entry reads as zeroes.      *)

NoTerms == [maxResponseTime |-> 0, slashBps |-> 0, availabilityTargetBps |-> 0]
NoPendingTerms == [version |-> 0, input |-> NoTerms, executeAt |-> 0]
NoProvider ==
  [registered |-> FALSE, signer |-> NoAddress, stake |-> 0, price |-> 0,
   deactivatedAt |-> 0, pendingCalls |-> 0, completedCalls |-> 0,
   slashedCalls |-> 0, cap |-> 0, active |-> FALSE]

Provider ==
  [registered : BOOLEAN, signer : Signers \cup {NoAddress}, stake : Nat,
   price : Nat, deactivatedAt : Time, pendingCalls : Nat,
   completedCalls : Nat, slashedCalls : Nat, cap : Nat, active : BOOLEAN]
Terms == TermsInputs \cup {NoTerms}
PendingTerms ==
  [version : 0..MaxVersions, input : Terms, executeAt : Nat]

ValidTerms(t) ==
  /\ t.maxResponseTime >= MinResponseTime
  /\ t.slashBps <= Bps
  /\ t.availabilityTargetBps <= Bps

(* The transaction's sender owns the registered provider p (each owner    *)
(* signs for its own provider, so only the registration is left to check). *)
Registered(p) == providers[p].registered

RegistryInit ==
  /\ providers = [p \in Providers |-> NoProvider]
  /\ terms = [p \in Providers |-> [v \in Versions |-> NoTerms]]
  /\ latestTermsVersion = [p \in Providers |-> 0]
  /\ pendingTerms = [p \in Providers |-> NoPendingTerms]
  /\ admin \in Admins
  /\ payPerCall = NoAddress
  /\ authorizedSlashers = {}
  /\ balance = [a \in Addresses |-> IF a \in Accounts THEN Funds ELSE 0]
  /\ now = 0

-----------------------------------------------------------------------------
(* Wiring and administration.                                              *)

SetPayPerCall ==
  /\ payPerCall = NoAddress
  /\ payPerCall' = PPC
  /\ UNCHANGED <<providers, termsVars, admin, authorizedSlashers, balance, now>>

TransferAdmin(newAdmin) ==
  /\ admin' = newAdmin
  /\ UNCHANGED <<providers, termsVars, payPerCall, authorizedSlashers, balance, now>>

AuthorizeSlasher(s) ==
  /\ authorizedSlashers' = authorizedSlashers \cup {s}
  /\ UNCHANGED <<providers, termsVars, admin, payPerCall, balance, now>>

RevokeSlasher(s) ==
  /\ authorizedSlashers' = authorizedSlashers \ {s}
  /\ UNCHANGED <<providers, termsVars, admin, payPerCall, balance, now>>

-----------------------------------------------------------------------------
(* The provider's life cycle.                                              *)

Register(p, key, amount, price, t, cap) ==
  /\ ~Registered(p)
  /\ amount >= MinStake
  /\ ValidTerms(t)
  /\ CanPay(balance, p, amount)
  /\ providers' = [providers EXCEPT ![p] =
       [NoProvider EXCEPT !.registered = TRUE, !.signer = key, !.stake = amount,
                          !.price = price, !.cap = cap, !.active = TRUE]]
  /\ terms' = [terms EXCEPT ![p][1] = t]
  /\ latestTermsVersion' = [latestTermsVersion EXCEPT ![p] = 1]
  /\ balance' = Transfer(balance, p, Registry, amount)
  /\ UNCHANGED <<pendingTerms, adminVars, now>>

AddStake(p, amount) ==
  /\ Registered(p)
  /\ amount > 0
  /\ CanPay(balance, p, amount)
  /\ providers' = [providers EXCEPT ![p].stake = @ + amount]
  /\ balance' = Transfer(balance, p, Registry, amount)
  /\ UNCHANGED <<termsVars, adminVars, now>>

Deactivate(p) ==
  /\ Registered(p)
  /\ providers[p].active
  /\ providers' = [providers EXCEPT ![p].active = FALSE, ![p].deactivatedAt = now]
  /\ UNCHANGED <<termsVars, adminVars, balance, now>>

\* Mutant: open calls are not looked at.
Unstake_IgnoresCalls(p) ==
  /\ Registered(p)
  /\ ~providers[p].active
  /\ now >= providers[p].deactivatedAt + UnstakeCooldown
  /\ CanPay(balance, Registry, providers[p].stake)
  /\ providers' = [providers EXCEPT ![p].stake = 0]
  /\ balance' = Transfer(balance, Registry, p, providers[p].stake)
  /\ UNCHANGED <<termsVars, adminVars, now>>

Unstake(p) ==
  /\ Registered(p)
  /\ ~providers[p].active
  /\ providers[p].pendingCalls = 0
  /\ now >= providers[p].deactivatedAt + UnstakeCooldown
  /\ CanPay(balance, Registry, providers[p].stake)
  /\ providers' = [providers EXCEPT ![p].stake = 0]
  /\ balance' = Transfer(balance, Registry, p, providers[p].stake)
  /\ UNCHANGED <<termsVars, adminVars, now>>

UpdatePrice(p, price) ==
  /\ Registered(p)
  /\ providers' = [providers EXCEPT ![p].price = price]
  /\ UNCHANGED <<termsVars, adminVars, balance, now>>

UpdateSigner(p, key) ==
  /\ Registered(p)
  /\ providers' = [providers EXCEPT ![p].signer = key]
  /\ UNCHANGED <<termsVars, adminVars, balance, now>>

UpdateMaxConcurrentCalls(p, cap) ==
  /\ Registered(p)
  /\ providers' = [providers EXCEPT ![p].cap = cap]
  /\ UNCHANGED <<termsVars, adminVars, balance, now>>

-----------------------------------------------------------------------------
(* Terms: propose, wait for the timelock, execute or cancel.  A second     *)
(* proposal overwrites the first and starts the timelock again.            *)

\* Mutant: a replacement inherits the timelock of what it replaces.
ProposeTermsUpdate_KeepsClock(p, t) ==
  LET proposed == latestTermsVersion[p] + 1
      started == pendingTerms[p].version # 0 IN
  /\ Registered(p)
  /\ ValidTerms(t)
  /\ proposed \in Versions
  /\ pendingTerms' = [pendingTerms EXCEPT ![p] =
       [version |-> proposed, input |-> t,
        executeAt |-> IF started THEN @.executeAt ELSE now + TermsTimelock]]
  /\ UNCHANGED <<providers, terms, latestTermsVersion, adminVars, balance, now>>

(* The guard on MaxVersions is the model's bound, not the code's.          *)
ProposeTermsUpdate(p, t) ==
  LET proposed == latestTermsVersion[p] + 1 IN
  /\ Registered(p)
  /\ ValidTerms(t)
  /\ proposed \in Versions
  /\ pendingTerms' = [pendingTerms EXCEPT ![p] =
       [version |-> proposed, input |-> t, executeAt |-> now + TermsTimelock]]
  /\ UNCHANGED <<providers, terms, latestTermsVersion, adminVars, balance, now>>

\* Mutant: the accepted terms overwrite the version in force.
ExecuteTermsUpdate_InPlace(p) ==
  /\ Registered(p)
  /\ pendingTerms[p].version # 0
  /\ now >= pendingTerms[p].executeAt
  /\ terms' = [terms EXCEPT ![p][latestTermsVersion[p]] = pendingTerms[p].input]
  /\ pendingTerms' = [pendingTerms EXCEPT ![p] = NoPendingTerms]
  /\ UNCHANGED <<providers, latestTermsVersion, adminVars, balance, now>>

ExecuteTermsUpdate(p) ==
  LET pending == pendingTerms[p] IN
  /\ Registered(p)
  /\ pending.version # 0
  /\ now >= pending.executeAt
  /\ terms' = [terms EXCEPT ![p][pending.version] = pending.input]
  /\ latestTermsVersion' = [latestTermsVersion EXCEPT ![p] = pending.version]
  /\ pendingTerms' = [pendingTerms EXCEPT ![p] = NoPendingTerms]
  /\ UNCHANGED <<providers, adminVars, balance, now>>

CancelTermsUpdate(p) ==
  /\ Registered(p)
  /\ pendingTerms[p].version # 0
  /\ pendingTerms' = [pendingTerms EXCEPT ![p] = NoPendingTerms]
  /\ UNCHANGED <<providers, terms, latestTermsVersion, adminVars, balance, now>>

-----------------------------------------------------------------------------
(* The hooks, as transformers of the provider table and as the conditions  *)
(* under which the registry accepts them.                                  *)

MaySlash(sender) == sender = payPerCall \/ sender \in authorizedSlashers

\* Mutant: the stake is not compared with the amount.
SlashAccepted_Unchecked(provs, p, amount) == provs[p].registered /\ amount > 0

SlashAccepted(provs, p, amount) ==
  provs[p].registered /\ amount > 0 /\ provs[p].stake >= amount

Slashed(provs, p, amount) == [provs EXCEPT ![p].stake = @ - amount]

\* Mutant: pendingCalls is a flag.
CallStarted_Flag(provs, p) == [provs EXCEPT ![p].pendingCalls = 1]

CallStarted(provs, p) == [provs EXCEPT ![p].pendingCalls = @ + 1]

\* Mutant: a deactivated provider's calls cannot be finished.
FinishAccepted_ActiveOnly(provs, p) == provs[p].active /\ provs[p].pendingCalls # 0

FinishAccepted(provs, p) == provs[p].registered /\ provs[p].pendingCalls # 0

CallFinished(provs, p) == [provs EXCEPT ![p].pendingCalls = @ - 1]

IncCompleted(provs, p) == [provs EXCEPT ![p].completedCalls = @ + 1]

\* Mutant: copied from incCompleted.
IncSlashed_Completed(provs, p) == [provs EXCEPT ![p].completedCalls = @ + 1]

IncSlashed(provs, p) == [provs EXCEPT ![p].slashedCalls = @ + 1]

(* A slash by a contract that pays the money to itself, as PayPerCall and  *)
(* the dispute contract do.                                                *)
Slash(s, p, amount) ==
  /\ MaySlash(s)
  /\ SlashAccepted(providers, p, amount)
  /\ CanPay(balance, Registry, amount)
  /\ providers' = Slashed(providers, p, amount)
  /\ balance' = Transfer(balance, Registry, s, amount)
  /\ UNCHANGED <<termsVars, adminVars, now>>

Tick ==
  /\ now < MaxTime
  /\ now' = now + 1
  /\ UNCHANGED <<providers, termsVars, adminVars, balance>>

-----------------------------------------------------------------------------
AdminStep ==
  \/ SetPayPerCall
  \/ \E a \in Admins : TransferAdmin(a)
  \/ \E s \in Slashers : AuthorizeSlasher(s) \/ RevokeSlasher(s)

TermsStep(p) ==
  \/ \E t \in TermsInputs : ProposeTermsUpdate(p, t)
  \/ ExecuteTermsUpdate(p)
  \/ CancelTermsUpdate(p)

OwnerStep(p) ==
  \/ \E key \in Signers, amount \in StakeAmounts, price \in Prices,
        t \in TermsInputs, cap \in Caps : Register(p, key, amount, price, t, cap)
  \/ \E amount \in StakeAmounts : AddStake(p, amount)
  \/ Deactivate(p)
  \/ Unstake(p)
  \/ \E price \in Prices : UpdatePrice(p, price)
  \/ \E key \in Signers : UpdateSigner(p, key)
  \/ \E cap \in Caps : UpdateMaxConcurrentCalls(p, cap)
  \/ TermsStep(p)

(* Everything that can happen to the registry other than through PPC.      *)
RegistryStep ==
  \/ AdminStep
  \/ \E p \in Providers : OwnerStep(p)
  \/ \E s \in Slashers, p \in Providers, amount \in SlashAmounts : Slash(s, p, amount)

RegistryNext ==
  \/ RegistryStep
  \/ \E p \in Providers, amount \in SlashAmounts : Slash(PPC, p, amount)
  \/ Tick

RegistrySpec == RegistryInit /\ [][RegistryNext]_registryVars

-----------------------------------------------------------------------------
(* Type invariant of the registry's state.                                 *)
RegistryTypeOK ==
  /\ providers \in [Providers -> Provider]
  /\ terms \in [Providers -> [Versions -> Terms]]
  /\ latestTermsVersion \in [Providers -> 0..MaxVersions]
  /\ pendingTerms \in [Providers -> PendingTerms]
  /\ admin \in Admins
  /\ payPerCall \in {NoAddress, PPC}
  /\ authorizedSlashers \subseteq Slashers
  /\ balance \in [Addresses -> Nat]
  /\ now \in Time

StakeOf == [p \in Providers |-> providers[p].stake]

(* The registry holds exactly the stake it owes: no sequence of top-ups,   *)
(* slashes by several contracts and repeated unstakes pays one provider    *)
(* out of another's deposit.                                               *)
StakeBacked == balance[Registry] = Total(StakeOf, Providers)

(* Versions are contiguous: every version up to the latest was published   *)
(* with terms that passed validation, and a proposal in the timelock is    *)
(* always the next version, however often it was replaced or cancelled.    *)
(* getTerms(latest) and the terms an open call points to therefore exist.  *)
VersionsContiguous ==
  \A p \in Providers :
    /\ \A v \in Versions :
         IF v <= latestTermsVersion[p] THEN ValidTerms(terms[p][v])
                                       ELSE terms[p][v] = NoTerms
    /\ pendingTerms[p].version # 0 =>
         /\ pendingTerms[p].version = latestTermsVersion[p] + 1
         /\ ValidTerms(pendingTerms[p].input)

(* Nobody's terms change without notice: what becomes the latest version   *)
(* is the proposal that was pending, at the time it had announced or       *)
(* later, and whenever that proposal is set or replaced it announces a     *)
(* time a whole timelock away.                                             *)
TermsNotice ==
  [][\A p \in Providers :
       /\ latestTermsVersion'[p] # latestTermsVersion[p] /\ latestTermsVersion[p] # 0 =>
            /\ terms'[p][latestTermsVersion'[p]] = pendingTerms[p].input
            /\ now >= pendingTerms[p].executeAt
       /\ pendingTerms'[p].version # 0 /\ pendingTerms'[p] # pendingTerms[p] =>
            pendingTerms'[p].executeAt >= now + TermsTimelock]_registryVars
=============================================================================
