---------------------------- MODULE PayPerCallV8 ----------------------------
(***************************************************************************)
(* contracts/PayPerCallV8.sol composed with the registry it calls: escrow  *)
(* of a paid call, settled by a signed receipt in time or by a timeout     *)
(* claim that refunds the caller and slashes the provider.                 *)
(*                                                                         *)
(* callId is a hash over a nonce that grows with every call; here it is    *)
(* the nonce.  termsHash is the terms record itself.  A receipt names its  *)
(* signing key instead of carrying a signature.                            *)
(***************************************************************************)
EXTENDS ServiceRegistryV8

CONSTANTS
  Payers,               \* accounts that open calls with their own USDC
  Beneficiaries,        \* addresses calls are opened for (call.caller)
  Keepers,              \* accounts that crank timeouts
  Authorizations,       \* signed EIP-3009 authorizations that may be submitted
  MaxCalls,             \* bound: calls ever opened
  MaxDeadline,          \* the largest deadline that fits (uint32, checked addition)
  SubmitGrace,          \* SUBMIT_GRACE
  KeeperBountyBps,      \* keeperBountyBps
  MaxKeeperBounty,      \* MAX_KEEPER_BOUNTY
  DefaultMaxConcurrent  \* DEFAULT_MAX_CONCURRENT

CallIds == 0..(MaxCalls - 1)
Authorization ==
  [from : Accounts, value : Nat, validAfter : Nat, validBefore : Nat, nonce : Nat]

ASSUME PayPerCallAssumption ==
  /\ Payers \subseteq Accounts /\ Keepers \subseteq Accounts
  /\ Beneficiaries \subseteq Addresses
  /\ Authorizations \subseteq Authorization
  /\ MaxCalls \in Nat /\ MaxDeadline \in Nat /\ SubmitGrace \in Nat
  /\ KeeperBountyBps \in 0..Bps /\ MaxKeeperBounty \in Nat
  /\ DefaultMaxConcurrent \in Nat \ {0}
  /\ MaxTime > MaxDeadline + SubmitGrace

VARIABLES
  calls,               \* _calls
  nonce,
  openCallsPerCaller,
  claimable,
  usedReceipts,        \* digests of the receipts accepted so far
  usedAuthorizations   \* USDC: <<authorizer, nonce>> pairs already spent

callVars == <<calls, nonce, openCallsPerCaller, claimable, usedReceipts,
              usedAuthorizations>>
vars == <<registryVars, callVars>>

-----------------------------------------------------------------------------
NoCall ==
  [provider |-> NoAddress, caller |-> NoAddress, amount |-> 0, startedAt |-> 0,
   deadline |-> 0, completedAt |-> 0, termsVersion |-> 0, termsHash |-> NoTerms,
   status |-> "None"]

Call ==
  [provider : Providers \cup {NoAddress}, caller : Addresses \cup {NoAddress},
   amount : Nat, startedAt : Time, deadline : Nat, completedAt : Time,
   termsVersion : 0..MaxVersions, termsHash : Terms,
   status : {"None", "Pending", "Completed", "Slashed"}]

Receipt == [call : CallIds, respondedAt : Nat, termsVersion : 0..MaxVersions]

CallInit ==
  /\ calls = [c \in CallIds |-> NoCall]
  /\ nonce = 0
  /\ openCallsPerCaller = [p \in Providers |-> [a \in Addresses |-> 0]]
  /\ claimable = [a \in Addresses |-> 0]
  /\ usedReceipts = {}
  /\ usedAuthorizations = {}

Pending(c) == calls[c].status = "Pending"

(* Math.mulDiv rounds down.                                                *)
Share(amount, bps) == (amount * bps) \div Bps

(* getTerms reverts on a version that was never published.                 *)
TermsPublished(p, v) == 1 <= v /\ v <= latestTermsVersion[p]

-----------------------------------------------------------------------------
(* Opening a call.                                                         *)

LatestTerms(p) == terms[p][latestTermsVersion[p]]

(* zkTier is 0 for every v8 provider, so the doubled cap of tier 2 is      *)
(* never reached.                                                          *)
ConcurrencyCap(p) ==
  IF providers[p].cap = 0 THEN DefaultMaxConcurrent ELSE providers[p].cap

MayOpen(p, caller) ==
  /\ providers[p].active
  /\ TermsPublished(p, latestTermsVersion[p])
  /\ Share(providers[p].stake, LatestTerms(p).slashBps) >= providers[p].price
  /\ openCallsPerCaller[p][caller] < ConcurrencyCap(p)
  /\ now + LatestTerms(p).maxResponseTime <= MaxDeadline

(* The call recorded, its price moved from `payer` into escrow and the     *)
(* registry's pending count raised: one transaction.                       *)
CreateCall(p, caller, payer) ==
  /\ payPerCall = PPC
  /\ nonce \in CallIds
  /\ MayOpen(p, caller)
  /\ CanPay(balance, payer, providers[p].price)
  /\ calls' = [calls EXCEPT ![nonce] =
       [provider |-> p, caller |-> caller, amount |-> providers[p].price,
        startedAt |-> now, deadline |-> now + LatestTerms(p).maxResponseTime,
        completedAt |-> 0, termsVersion |-> latestTermsVersion[p],
        termsHash |-> LatestTerms(p), status |-> "Pending"]]
  /\ nonce' = nonce + 1
  /\ openCallsPerCaller' = [openCallsPerCaller EXCEPT ![p][caller] = @ + 1]
  /\ balance' = Transfer(balance, payer, PPC, providers[p].price)
  /\ providers' = CallStarted(providers, p)
  /\ UNCHANGED <<termsVars, adminVars, now, claimable, usedReceipts>>

CallService(a, p) ==
  CreateCall(p, a, a) /\ UNCHANGED usedAuthorizations

CallServiceFor(payer, beneficiary, p) ==
  CreateCall(p, beneficiary, payer) /\ UNCHANGED usedAuthorizations

(* The token refuses an authorization that is spent or whose signed value  *)
(* is not the price the call is charged.                                   *)
CallServiceWithAuthorization(auth, p) ==
  /\ auth.validAfter <= now /\ now <= auth.validBefore
  /\ <<auth.from, auth.nonce>> \notin usedAuthorizations
  /\ auth.value = providers[p].price
  /\ CreateCall(p, auth.from, auth.from)
  /\ usedAuthorizations' = usedAuthorizations \cup {<<auth.from, auth.nonce>>}

-----------------------------------------------------------------------------
(* Closing a call.                                                         *)

\* Mutant: the count is never lowered.
OpenCallsDecremented_Never(open, p, a) == open

(* _decrementOpenCalls: a count that is already zero stays zero.           *)
OpenCallsDecremented(open, p, a) ==
  [open EXCEPT ![p][a] = IF @ > 0 THEN @ - 1 ELSE 0]

ReceiptWindow(c) == now <= calls[c].deadline + SubmitGrace

\* Mutant: a timeout is claimable in the last second of the grace period.
TimeoutWindow_LastSecond(c) == now >= calls[c].deadline + SubmitGrace

TimeoutWindow(c) == now > calls[c].deadline + SubmitGrace

\* Mutant: the provider is paid its present price, not the price of the call.
SubmitReceipt_CurrentPrice(c, respondedAt, version, key) ==
  LET call == calls[c]
      p == call.provider
      digest == [call |-> c, respondedAt |-> respondedAt, termsVersion |-> version]
  IN
  /\ respondedAt <= call.deadline
  /\ ReceiptWindow(c)
  /\ version = call.termsVersion
  /\ digest \notin usedReceipts
  /\ Pending(c)
  /\ key = providers[p].signer
  /\ payPerCall = PPC
  /\ FinishAccepted(providers, p)
  /\ usedReceipts' = usedReceipts \cup {digest}
  /\ calls' = [calls EXCEPT ![c].completedAt = now, ![c].status = "Completed"]
  /\ openCallsPerCaller' = OpenCallsDecremented(openCallsPerCaller, p, call.caller)
  /\ providers' = IncCompleted(CallFinished(providers, p), p)
  /\ claimable' = Credit(claimable, p, providers[p].price)
  /\ UNCHANGED <<termsVars, adminVars, balance, now, nonce, usedAuthorizations>>

(* Anyone may relay the receipt; `key` is the key that signed it.          *)
SubmitReceipt(c, respondedAt, version, key) ==
  LET call == calls[c]
      p == call.provider
      digest == [call |-> c, respondedAt |-> respondedAt, termsVersion |-> version]
  IN
  /\ respondedAt <= call.deadline
  /\ ReceiptWindow(c)
  /\ version = call.termsVersion
  /\ digest \notin usedReceipts
  /\ Pending(c)
  /\ key = providers[p].signer
  /\ payPerCall = PPC
  /\ FinishAccepted(providers, p)
  /\ usedReceipts' = usedReceipts \cup {digest}
  /\ calls' = [calls EXCEPT ![c].completedAt = now, ![c].status = "Completed"]
  /\ openCallsPerCaller' = OpenCallsDecremented(openCallsPerCaller, p, call.caller)
  /\ providers' = IncCompleted(CallFinished(providers, p), p)
  /\ claimable' = Credit(claimable, p, call.amount)
  /\ UNCHANGED <<termsVars, adminVars, balance, now, nonce, usedAuthorizations>>

(* The part of the state a timeout claim reads and writes, as a record, so *)
(* that a batch of claims in one transaction is a fold over it.            *)
Book == [providers |-> providers, calls |-> calls, open |-> openCallsPerCaller,
         claimable |-> claimable, balance |-> balance]

(* The slash is a share of the stake the provider has left NOW, under the  *)
(* terms version the call was opened with.                                 *)
SlashAmount(book, c) ==
  LET call == book.calls[c] IN
  Share(book.providers[call.provider].stake,
        terms[call.provider][call.termsVersion].slashBps)

KeeperBounty(slash) ==
  LET share == Share(slash, KeeperBountyBps) IN
  IF share > MaxKeeperBounty THEN MaxKeeperBounty ELSE share

(* Everything the registry itself requires of a timeout claim.             *)
RegistryAcceptsTimeout(book, c) ==
  LET p == book.calls[c].provider
      slash == SlashAmount(book, c)
  IN
  /\ FinishAccepted(book.providers, p)
  /\ TermsPublished(p, book.calls[c].termsVersion)
  /\ slash > 0 => SlashAccepted(book.providers, p, slash)
  /\ CanPay(book.balance, Registry, slash)

\* Mutant: the bounty is paid but not taken out of the caller's compensation.
AfterTimeout_BountyOnTop(book, c, sender) ==
  LET call == book.calls[c]
      p == call.provider
      slash == SlashAmount(book, c)
  IN
  [providers |-> Slashed(IncSlashed(CallFinished(book.providers, p), p), p, slash),
   calls |-> [book.calls EXCEPT ![c].status = "Slashed"],
   open |-> OpenCallsDecremented(book.open, p, call.caller),
   claimable |-> Credit(Credit(book.claimable, call.caller, call.amount + slash),
                        sender, KeeperBounty(slash)),
   balance |-> Transfer(book.balance, Registry, PPC, slash)]

\* Mutant: the bounty is slashed on top of the slash the registry checked.
AfterTimeout_SlashesBounty(book, c, sender) ==
  LET call == book.calls[c]
      p == call.provider
      slash == SlashAmount(book, c)
      bounty == KeeperBounty(slash)
  IN
  [providers |-> Slashed(IncSlashed(CallFinished(book.providers, p), p), p, slash + bounty),
   calls |-> [book.calls EXCEPT ![c].status = "Slashed"],
   open |-> OpenCallsDecremented(book.open, p, call.caller),
   claimable |-> Credit(Credit(book.claimable, call.caller, call.amount + slash),
                        sender, bounty),
   balance |-> Transfer(book.balance, Registry, PPC, slash + bounty)]

\* Mutant: the credits are read from storage, not from the running transaction.
AfterTimeout_StaleCredits(book, c, sender) ==
  LET call == book.calls[c]
      p == call.provider
      slash == SlashAmount(book, c)
      bounty == KeeperBounty(slash)
  IN
  [providers |-> Slashed(IncSlashed(CallFinished(book.providers, p), p), p, slash),
   calls |-> [book.calls EXCEPT ![c].status = "Slashed"],
   open |-> OpenCallsDecremented(book.open, p, call.caller),
   claimable |-> Credit(Credit(claimable, call.caller, call.amount + (slash - bounty)),
                        sender, bounty),
   balance |-> Transfer(book.balance, Registry, PPC, slash)]

AfterTimeout(book, c, sender) ==
  LET call == book.calls[c]
      p == call.provider
      slash == SlashAmount(book, c)
      bounty == KeeperBounty(slash)
  IN
  [providers |-> Slashed(IncSlashed(CallFinished(book.providers, p), p), p, slash),
   calls |-> [book.calls EXCEPT ![c].status = "Slashed"],
   open |-> OpenCallsDecremented(book.open, p, call.caller),
   claimable |-> Credit(Credit(book.claimable, call.caller, call.amount + (slash - bounty)),
                        sender, bounty),
   balance |-> Transfer(book.balance, Registry, PPC, slash)]

ClaimTimeout(c, sender) ==
  LET after == AfterTimeout(Book, c, sender) IN
  /\ Pending(c)
  /\ TimeoutWindow(c)
  /\ payPerCall = PPC
  /\ RegistryAcceptsTimeout(Book, c)
  /\ providers' = after.providers
  /\ calls' = after.calls
  /\ openCallsPerCaller' = after.open
  /\ claimable' = after.claimable
  /\ balance' = after.balance
  /\ UNCHANGED <<termsVars, adminVars, now, nonce, usedReceipts, usedAuthorizations>>

Claim(a) ==
  /\ claimable[a] # 0
  /\ CanPay(balance, PPC, claimable[a])
  /\ claimable' = [claimable EXCEPT ![a] = 0]
  /\ balance' = Transfer(balance, PPC, a, claimable[a])
  /\ UNCHANGED <<providers, termsVars, adminVars, now, calls, nonce,
                 openCallsPerCaller, usedReceipts, usedAuthorizations>>

-----------------------------------------------------------------------------
(* The respondedAt a receipt may carry: what matters is which side of the  *)
(* deadline it falls on.                                                   *)
RespondedAt(c) == {calls[c].deadline, calls[c].deadline + 1}

OpenStep ==
  \E p \in Providers :
    \/ \E a \in Payers : CallService(a, p)
    \/ \E a \in Payers, b \in Beneficiaries : CallServiceFor(a, b, p)
    \/ \E auth \in Authorizations : CallServiceWithAuthorization(auth, p)

ReceiptStep ==
  \E c \in CallIds, v \in Versions, key \in Signers :
    \E t \in RespondedAt(c) : SubmitReceipt(c, t, v, key)

TimeoutStep(c) == \E k \in Keepers : ClaimTimeout(c, k)

CallStep ==
  \/ OpenStep
  \/ ReceiptStep
  \/ \E c \in CallIds : TimeoutStep(c)
  \/ \E a \in Accounts : Claim(a)

Init == RegistryInit /\ CallInit

Next ==
  \/ (RegistryStep \/ Tick) /\ UNCHANGED callVars
  \/ CallStep

Spec == Init /\ [][Next]_vars

(* Time passes, and keepers keep cranking: scripts/keeper-soak.js looks    *)
(* for claimable calls in every cycle, forever, and claims each of them.   *)
Fairness ==
  /\ WF_vars(Tick /\ UNCHANGED callVars)
  /\ \A c \in CallIds : WF_vars(TimeoutStep(c))

FairSpec == Spec /\ Fairness

-----------------------------------------------------------------------------
(* Type invariant of the composed state.                                   *)
TypeOK ==
  /\ RegistryTypeOK
  /\ calls \in [CallIds -> Call]
  /\ nonce \in 0..MaxCalls
  /\ openCallsPerCaller \in [Providers -> [Addresses -> Nat]]
  /\ claimable \in [Addresses -> Nat]
  /\ usedReceipts \subseteq Receipt
  /\ usedAuthorizations \subseteq (Accounts \X Nat)

PendingCalls == {c \in CallIds : Pending(c)}
PendingOf(p) == {c \in CallIds : Pending(c) /\ calls[c].provider = p}
OpenOf(p, a) == {c \in PendingOf(p) : calls[c].caller = a}
Escrowed == [c \in CallIds |-> calls[c].amount]

(* PayPerCall holds exactly the price of every open call plus everything   *)
(* it has credited: no order of receipts, timeouts with slashes and        *)
(* bounties, and withdrawals leaves a credit unpayable or money stranded.  *)
EscrowSolvent ==
  balance[PPC] = Total(Escrowed, PendingCalls) + Total(claimable, Addresses)

(* Neither contract spends money it does not have, and none is stranded.   *)
MoneyCovered == StakeBacked /\ EscrowSolvent

(* The registry's pendingCalls, which is all unstake looks at, is the      *)
(* number of the provider's open calls.                                    *)
PendingCountExact ==
  \A p \in Providers : providers[p].pendingCalls = Cardinality(PendingOf(p))

(* Calls exist below the nonce only, and a call that exists names a        *)
(* provider, a beneficiary and a version.                                  *)
CallsWellFormed ==
  \A c \in CallIds :
    /\ c >= nonce => calls[c] = NoCall
    /\ calls[c].status # "None" =>
         /\ calls[c].provider \in Providers
         /\ calls[c].caller \in Addresses
         /\ calls[c].termsVersion \in Versions

(* An owner that has not registered has an empty entry, so that its first  *)
(* registration resets nothing.                                            *)
ProvidersWellFormed ==
  \A p \in Providers : ~Registered(p) => providers[p] = NoProvider

(* The inductive invariant of the proofs: a settlement finds the provider  *)
(* it counts down because the call names one, and its count is not zero    *)
(* because the call is among those counted.                                *)
Inv == TypeOK /\ ProvidersWellFormed /\ CallsWellFormed /\ PendingCountExact

(* The concurrency counter is the number of open calls of that pair, so    *)
(* the guard in _decrementOpenCalls never hides a lost count and a caller  *)
(* is never locked out of a provider by calls that are over.               *)
OpenCountExact ==
  \A p \in Providers, a \in Addresses :
    openCallsPerCaller[p][a] = Cardinality(OpenOf(p, a))

(* The reputation counters account for every call that is over.            *)
OutcomesCounted ==
  \A p \in Providers :
    /\ providers[p].completedCalls =
         Cardinality({c \in CallIds : calls[c].provider = p /\ calls[c].status = "Completed"})
    /\ providers[p].slashedCalls =
         Cardinality({c \in CallIds : calls[c].provider = p /\ calls[c].status = "Slashed"})

(* Every counter agrees with the calls it counts: the one unstake looks    *)
(* at, the one that caps concurrency and the two reputation is made of.    *)
CountersExact == PendingCountExact /\ OpenCountExact /\ OutcomesCounted

(* The terms a call was opened under stay what they were while it is open  *)
(* and after: the version it points to still is the record it hashed, and  *)
(* its deadline is the one those terms gave.                               *)
SnapshotIntact ==
  \A c \in CallIds : calls[c].status # "None" =>
    /\ TermsPublished(calls[c].provider, calls[c].termsVersion)
    /\ terms[calls[c].provider][calls[c].termsVersion] = calls[c].termsHash
    /\ calls[c].deadline = calls[c].startedAt + calls[c].termsHash.maxResponseTime

(* What was published stays published: versions have no holes, and each    *)
(* call can be judged by its own for ever.                                 *)
PublishedTermsStand == VersionsContiguous /\ SnapshotIntact

(* At any time an open call can be settled in exactly one of the two ways: *)
(* at no second do a receipt and a timeout race, at no second is neither   *)
(* accepted for its time, and the registry never refuses the timeout,      *)
(* whatever happened to the provider's stake in between.                   *)
AlwaysOneWayOut ==
  \A c \in PendingCalls :
    /\ ReceiptWindow(c) # TimeoutWindow(c)
    /\ RegistryAcceptsTimeout(Book, c)

(* Stake leaves for the provider's own wallet only when it has no call     *)
(* open, and a provider that has gone never has a call open again.         *)
NoExitWithOpenCalls ==
  [][\A p \in Providers :
       /\ /\ providers'[p].stake < providers[p].stake
          /\ balance'[p] > balance[p]
          => PendingOf(p) = {}
       /\ ~providers[p].active /\ PendingOf(p) = {} => PendingOf(p)' = {}]_vars

(* The escrow as its two parties see it: every step of the contracts is a  *)
(* step of SLAEscrow or leaves what the parties see alone.                 *)
Escrow == INSTANCE SLAEscrow WITH
  Calls <- CallIds, Parties <- Addresses, Nobody <- NoAddress,
  phase <- [c \in CallIds |-> calls[c].status],
  deal <- [c \in CallIds |-> [provider |-> calls[c].provider, caller |-> calls[c].caller,
                              amount |-> calls[c].amount]],
  due <- claimable

(* A call is agreed once, settled once, and settling it credits the        *)
(* provider with exactly the price or the caller with at least the price,  *)
(* a keeper's bounty coming out of the slash and never out of the refund.  *)
RefinesEscrow == Escrow!Spec

(* Every call is settled in the end, by its provider or by a keeper.       *)
EventuallySettled ==
  \A c \in CallIds : Pending(c) ~> ~Pending(c)
=============================================================================
