# CallGuard: a TLA+ verification project

CallGuard sells API calls under an SLA. A provider stakes USDC and publishes
terms; a caller escrows the price of a call; the provider answers with a signed
receipt before the deadline, or anybody claims the timeout, which refunds the
caller and slashes the provider. Around that core sit disputes about quality,
keepers, availability claims, futures, subscriptions, loans, evidence
registries, an HTTP API that settles signed authorizations, and a web client
that must not pay twice.

Paths below are relative to the repository. The modules follow the contracts
and handlers one action per transaction or atomic step.

## 1. Inventory

### Contracts

| Component | State | Operations | Interacts with | What makes it correct |
|---|---|---|---|---|
| `contracts/ServiceRegistryV8.sol` | providers (stake, price, signer, counters), versioned terms, one proposal per provider, slashers, wiring | register, addStake, deactivate, unstake, terms propose/execute/cancel, setters; hooks `slash`, `markCallStarted/Finished`, `incCompleted/Slashed` | called by PayPerCallV8, DisputeV4, SLAUptime | holds exactly the stake it owes; terms versions contiguous, immutable, announced; stake never leaves under an open call |
| `contracts/PayPerCallV8.sol` | calls, nonce, credits, used receipts, open-call counts | three ways to open, `submitReceipt`, `claimTimeout`, `claim` | registry hooks, USDC | exactly solvent; one outcome per call; always one way out; terms snapshot |
| `contracts/SLAKeeper.sol` | bounty credits | `claim`, `claimBatch`, `withdrawBounty` | PayPerCallV8 | a batch never reverts, callers made whole, bounties payable |
| `contracts/SLAUptime.sol` | window of counters and last claim per provider, thresholds | `claimAvailability`, the arbiter's and owner's setters | registry counters and `slash` | no outcome is charged twice; the promise a call was opened under is the one it is measured by (finding) |
| `contracts/DisputeV4.sol` | disputes, held slash, bonds, roles, evidence snapshots | open, resolve, appeal, resolveAppeal, finalize, reclaimExpiredBond, setters | registry `slash`, PayPerCallV8 `getCall`, evidence registry | every bond and every held slash is paid once and to the right party |
| `contracts/SLAEvidenceRegistryV2.sol`, `SLAProvenance.sol`, `zk/*Adapter.sol` | one anchor per call and kind, verifier wiring, attestors | anchor, recordProvenance, wiring | read by DisputeV4 | an anchor is never replaced; rows say what was anchored |
| `contracts/ServiceRegistry.sol`, `PayPerCall.sol`, `Dispute.sol` (v7) | providers with their terms, wiring under a timelock; calls and credits; disputes with one arbiter | as in V8, without versioned terms and bounties | each other, and all markets below | covered after a migration of the escrow, after slashes by several contracts |
| `contracts/DisputeQuality.sol` | disputes, ballots, bonds, withdrawals, windows | open, vote, finalize, withdraw | v7 registry `slash` | what it pays out is what was locked and slashed |
| `contracts/SLAFutures.sol` | batches, purchased, refunded, proceeds, ERC-1155 balances, price feed | mint, buy, burn, transfer, cancel, refund, proceeds | USDC, v7 registry, a price feed | every holder can be refunded, nothing is paid twice |
| `contracts/ReputationLoan.sol` | shares, assets, loans, vault shares | deposit, withdraw, borrow, repay, liquidate, vault | v7 registry, ERC-4626 vault | assets = cash + vault + loans; share price never falls except by a write-off |
| `contracts/Subscription.sol` | subscriptions, active index | subscribe, stream, cancel, useCall, claimStream, releaseExpired | v7 registry | locked balances are covered; a stream pays by the clock |
| `contracts/AgentWallet.sol` | limits, spent today, whitelist | agentCall, owner setters | v7 PayPerCall | no window of a day spends more than two limits |
| `contracts/CrossChainReceiver.sol`, `X402Middleware.sol` | processed messages, the call of each request | a transmitter's callback, `executePayment`, the owner's registry and recovery | v7 PayPerCall, USDC, CCTP | one payment opens one call, for its sender and with its own money, through redeliveries and price changes |
| `contracts/SLAAttestationBridge.sol` | attestations, the latest per provider, rate limit | `attestCall`, `attestProviderScore`, `attestBatchSummary` | reads v7 PayPerCall and registry | what was attested stays true |
| `contracts/RegisterWithNFT.sol` | the one user it registered | register, forwards | v7 registry | not modelled |

### Off chain

| Component | State | What is hard |
|---|---|---|
| `api/call-service.js`, `api/_idempotency.js`, `api/_upstash_idempotency_store.js` | one record per signed authorization in a remote store | concurrent requests, a crash between reserving and broadcasting, store calls that time out after they applied, windows after which a record is given up |
| `src/lib/paymentGate.ts`, `txLifecycle.ts`, `cctpOperation.ts`, `facilitatorGuard.ts`, `facilitatorOutcome.ts` and the panels' payment handlers | markers in browser storage, module memory, panel state | a reload between two transactions, handlers that outlive their panel, wallets that send and lose the hash, storage that fails |
| `api/_idempotency_state.js` | two kinds of records with transition tables, revisions and recovery leases | it only plans patches, for a store that is to compare revisions: what was read may be old when the patch lands, late, twice or never; no handler uses it yet |
| `api/auto-receipt.js`, `notify-provider.js`, `nano-call.js` | none of their own | retries of transactions that may have landed |
| `x402-facilitator/` | sessions | HTTP plumbing around the same settlement |
| `scripts/keeper-soak.js` | metrics | a loop that claims timeouts for ever |
| UI rendering, marketing, subgraph, verification library, deploy scripts, zk/TEE guests | views or stateless computations | |

The hazards of each part, with the line where each one bites, are listed in
`PROJECT.json` under "hazards"; the properties below are aimed at them.

## 2. Modules

```
USDC <-+- ServiceRegistryV8 <- PayPerCallV8 <-+- SLAKeeper --+- MCEscrowV8
       |                        ^   ^    ^    +- SLAUptime --+
       |          MCPayPerCallV8-   |    +- DisputeV4 <- MCDisputeV4 <- MCDisputeSettings
       |     PayPerCallV8_proofs ---+         ^
       |     (refines SLAEscrow)     SLAEvidenceRegistryV2
       |
       +- ServiceRegistry (v7) <-+- PayPerCall <-+- AgentWallet --+
                                 |               +- Dispute ------+
                                 |               +- CrossChainReceiver, X402Middleware,
                                 |               |  SLAAttestationBridge ---------+
                                 +- DisputeQuality ---------------+- Markets
                                 +- Subscription -----------------+     ^- MCMarkets
                                 +- ReputationLoan ---------------+          ^- Markets_proofs
                                 +- SLAFutures -------------------+             (and TotalTheorems)

IdempotencyStore <- CallService <-+- MCCallService <-+- MCCallSettings
                                  +- Idempotency_proofs
                OperationRecords <-+-----------------+
                                   +- Idempotency_proofs

PaymentGate <- PaymentFlows <-+- MCPaymentFlows
                              +- PaymentFlows_proofs

SettlementV8_proofs: on PayPerCallV8_proofs and TotalTheorems (on USDC)
DisputeV4_proofs:    on DisputeV4, PayPerCallV8_proofs and TotalTheorems
SLAClaims_proofs:    on SLAUptime, SLAKeeper and SettlementV8_proofs
```

| Module | Models | State | Actions |
|---|---|---|---|
| `USDC` | the token ledger the contracts rely on (external) | none, operators only | `Transfer`, `CanPay`, `Total` |
| `ServiceRegistryV8` | the registry | `providers`, `terms`, `pendingTerms`, `slashers`, roles, `balance`, `now` | one per transaction; hooks are operators on the provider table that callers compose into their own transaction |
| `SLAEscrow` | what the escrow promises two parties, without stake, time or custody | `phase`, `deal`, `due` | `Open`, `Pay`, `Refund`, `Withdraw` |
| `PayPerCallV8` | calls composed with the registry | `calls`, `nonce`, `claimable`, `openCallsPerCaller`, used receipts and authorizations | three ways to open, `SubmitReceipt`, `ClaimTimeout`, `Claim`, `Tick` |
| `SLAKeeper` | the permissionless crank | `bountyClaimable` | `claim`, `claimBatch` (a fold over the batch inside one transaction), `withdrawBounty` |
| `SLAUptime` | availability claims | `uptimeConfig`, `windows`, `lastClaimAt`; `scored` remembers the calls already charged | `claimAvailability`, setters |
| `SLAEvidenceRegistryV2` | claims anchored per call and kind | wiring and `evidence` | `Anchor`, `AllowSigner`, `RevokeSigner`, `SetProofVerifier`, `SetOwner` |
| `DisputeV4` | disputes of V4 and, beside it, of V3 | `config`, `disputes`, `evidenceKinds`, `snapshots` | open, resolve, reclaim, appeal, finalize, resolveAppeal, setters |
| `ServiceRegistry`, `PayPerCall`, `Dispute` | the v7 registry, escrow and first dispute contract | provider records with their terms, the escrow address under its timelock; calls, credits; disputes | one per transaction |
| `DisputeQuality` | votes of staked providers about a call | `quality`, ballots, `pendingWithdrawals`, windows | open, vote, finalize, withdraw, windows |
| `SLAFutures` | slots of capacity as ERC-1155 tokens | `batches`, `slots`, `purchased`, `refunded`, `providerClaimable`, `priceFeed` | mint, buy, burn, transfer, both cancellations, both withdrawals, the feed |
| `Subscription` | bundles and streams | subscriptions and the active index | subscribe, use, claim, cancel, release, setter |
| `ReputationLoan` | a loan pool | `shares`, assets, loans, vault shares | deposit, withdraw, borrow, repay, liquidate, terms, vault, yield (external) |
| `AgentWallet` | a wallet with a daily budget | limits, spent, window, whitelist | deposit, withdraw, `AgentCall`, setters, pause |
| `CrossChainReceiver` | calls for payments that arrive over CCTP | mints, processed messages, whether the price is checked | `CctpMint` (external), the callback, the owner's two levers |
| `X402Middleware` | calls for payments behind a 402 answer | calls per request and per scoped request, whether the price is checked | `ExecutePayment`, the owner's two levers |
| `SLAAttestationBridge` | attestations for other protocols | `attestations` in order of issue, the latest ones, the rate limit | three requests, the rate limit's setter |
| `Markets` | the v7 registry, the escrow and the nine contracts around them next to each other | theirs | a step of one of them, which leaves the variables of the others alone |
| `IdempotencyStore` | the Redis-backed store | `ops`, `aliases` | operators for create, compare-and-set and scan |
| `CallService` | HTTP requests, sweep and chain on that store | `req`, `tx`, `sweep`, `now` | one per await of a request, one per await of the sweep, `Mine`, `Die`, `Tick` |
| `OperationRecords` | the second version of the records, their nonce reservations and leases | `records`, `writes` in flight, the `leases` workers were told they hold | create, plan a transition, claim and release a lease, `Land` and `Lose` of a write, cleanup, crash |
| `PaymentGate` | what one browser tab remembers of its payments | one record; operators per exported function | |
| `PaymentFlows` | the panels' payment handlers in that tab | `flows` (running handlers), `txs` (chain and facilitator), `health` of the storage, what the Call Builder shows | one per await of a handler, the wallet's answers, recovery buttons, navigation, reload, storage faults |

### How the contracts are modelled

A transaction is one action: its `require`s are the guard, and a revert is the
absence of the step. Hooks across contracts run inside the caller's transaction,
so `PayPerCallV8` composes the registry's operators (`CallStarted`, `Slashed`,
`CallFinished`, ...) rather than taking a second step.

* A provider is identified by its owner: `register` admits one provider per
  owner and never deletes one. A call is identified by its position in the nonce
  sequence, a dispute by its call.
* A receipt is "signed by key k for call c"; signatures, hashes and proofs are
  opaque. `termsHash` is the terms record itself, so comparing the two compares
  what the hash stands for. The response hash is `Committed` or another value.
* Time is a counter. `uint32` deadlines use checked addition in the code;
  `MaxDeadline` plays the role of the largest value, so a call whose deadline
  does not fit is refused as in the code. `zkTier` is always 0 in the V8 code's
  only path and is left out there.
* Donations to a contract and ERC-20 allowances are left out; without donations
  the solvency invariants can be equalities instead of inequalities.
* `setPayPerCall` takes effect once in V8, and under a timelock in v7, as in the
  code.
* The v7 markets share nothing but the registry, the escrow and the token. `Markets`
  puts all of them next to each other (`MarketsSpec`), which is what the proofs are
  about; for TLC `MCMarkets` gives a behaviour one `setting`, which says who takes
  part, and each such behaviour is one of `MarketsSpec` (`OneMarketIsOfThemAll`). The ERC-4626 vault of the loan pool and the price
  feed of the futures are outside the repository; the vault serves the pool only
  and grows by itself, the feed answers anything, a failure included.

### How the API is modelled

Everything between two `await`s of `api/call-service.js` is one step, and other
requests, the sweep, the chain and the clock interleave between steps. A request
keeps in `req[r]` what the handler keeps in local variables across its awaits
(the record it last saw, hence the revision it will compare with). A store
script is atomic at the server, and its client may see a failure although the
script ran (`Transition` with `ok = FALSE`, the `refused` branches of the
creates). `Die` is a crash or Vercel's time limit at any await. A transaction is
named by the request that sent it; the chain may mine it, revert it or never
touch it, and settles an authorization once.

The answers 409 (conflict), 500, 502 and 503 are merged as `refused`. The sweep
re-reads its page before each record rather than once per run, which only lets
it see more records than the code does. The clock stops far below the seven days
after which a record expires.

`api/_idempotency_state.js` is a second design of those records, ahead of its
store: it computes patches and asks for a store with an atomic create and a
compare-and-set on the revision. `OperationRecords` gives it exactly that. A
worker plans from the record it reads now and puts a write in flight; the write
may land at any later time, again after it landed, with or without its sender
hearing of it, or never. Revisions restart at 0 when an id is created anew, so a
record is only created while no write for its id is in flight: the file leaves
that to the store. Lease tokens are unique and workers' clocks agree. The file
judges a transition by the stored record, before the patch is applied.

### How the client is modelled

The tab's memory is one record with two halves: what `sessionStorage` keeps and
what the module keeps, and a `Reload` loses the second. Storage is `ok`, `full`
(writes throw) or `down` (everything throws), and every exported function of the
gate is an operator on that record under a health, with the code's fall-backs.
A handler is a program counter in `flows[s]` that moves at each `await`: asking
the wallet (which may send, refuse, or send and lose the hash), waiting for a
receipt (which may be unreadable), waiting for an attestation, or for the
facilitator's answer. Handlers go on after their panel is unmounted, as React
leaves promises running. The ghost variables `owed`, `signed` and `overlap`
remember which recorded hashes nobody has read, which authorizations are neither
proven, acknowledged nor reported reverted, and whether a second handler joined a
running one: the gate's module keeps one marker and one lock per tab, so two of
its promises hold only while handlers do not overlap, and the properties say so.
The loops and the hook-based handlers release their label even when they started
nothing (`RefusedStart`), which can end the lock of an earlier handler.
An answer of the facilitator is any response at all, true or not: the client
cannot authenticate it. Only that a hash in it is the hash of the transaction made
from this authorization is assumed. A complete report of a revert is believed by
the code, so `OneAuthorizationPerAttempt` counts a reported authorization as done.
That is less than the client's own comments ask for; the disagreement is reported
after the findings in section 4.

The header of `cctpOperation.ts` (lines 8-11) still lists a reverted mint among
the outcomes that remove the marker of a cross-chain operation. The code
(`cctpStageDecision`, 230-235) and the comment in it keep the marker, because the
burnt USDC is still in flight; the model follows the code, and with the header's
rule `BurnOnce` fails (it is that property's mutant).

## 3. Runs

Deadlock checking is off in all runs because the clocks stop at `MaxTime` and
the client's budgets run out: there the system legitimately has nothing left to
do.

| Run | Question | Settings and bounds |
|---|---|---|
| `ppc_escrow` | are registry, escrow, keeper and uptime contract exactly solvent and all counters equal to what they count; does a batch with repeated ids ever revert or short-change a caller; is an outcome charged twice? | two calls against a stake of 80. `plain`: two callers, one authorization, a second slasher, caps 1 and 2; `batch`: batches up to 3 racing claims, the keeper contract itself a beneficiary; `uptime`: changing thresholds |
| `ppc_terms` | does a call keep its terms while the provider changes terms, price and key; is stake locked under it; is there at every second exactly one way out, and is it taken; does the composition implement `SLAEscrow`? | one call, two versions, terms that slash nothing and everything, deadlines 1 and 2, grace 1 |
| `dispute_core` | does a dispute contract hold what it owes, keep an escrow until the dispute is settled, and pay it once, to the winner; can one call be slashed twice; do rows agree with the evidence registry? | `money`: two calls against one stake, all orders of decision, appeal, expiry and settlement; `evidence`: one kind, two claims, rewiring, revoking, late anchors; `slashed`: another slasher; `migration`: V3 next to V4 by the runbook |
| `dispute_levers` | what if the arbiter changes bonds, slash and treasury mid-dispute, the provider is itself the treasury, or nobody decides? | one call, two values of each lever, fairness |
| `call_settle` | do concurrent requests, retries, crashes, store time-outs and the sweep broadcast twice, lie about the chain, or move a record backwards? Do two workers ever hold a live lease on one record, can a late write undo progress or lose a lead? | `service`: two requests out of four payments (same authorization with another intent, same key with another authorization, bad signature), limits 1 < 2 < 3, clock to 4; `records`: one operation or reservation next to a version-1 record, two workers, two writes in flight, two tokens |
| `client_gate` | can any mixture of the panels' flows burn twice, authorize an attempt twice while the first is neither read, acknowledged nor reported reverted, or pay next to an unresolved hash? | all twelve flows, two starts, three hashes, a reload and a storage fault, or a fault that goes away again (`Disturbances`) |
| `market` | does every v7 contract hold what it owes; do refunds follow tokens, streams the clock, share prices the pool, and an agent its budget; does a payment from elsewhere open its own call, once; do attestations stay true? | `v7`: all of the admin's levers, two calls; `futures`, `subscription`, `loan`, `wallet`, `dispute`, `quality`: one market each, with one or two batches, subscriptions, loans, disputes; `receiver`, `middleware`, `attestation`: two messages or agents with their two amounts, two prices, three attestations |
| `uptime_promise` | finding, see below | one call, two versions |
| `dispute_escape` | finding | one call |
| `dispute_signed` | finding | one kind |
| `call_sweep` | finding | two records, a page of one |
| `client_check` | finding | one flow |

**Why the bounds are enough.** Every hazard of this code is a relation between
two things: two calls sharing one stake, two ids in a batch, an old and a new
version of terms, two dispute contracts, two requests with one authorization,
two handlers in a tab, two holders of a token. Each run has two of what its
question relates, and one of everything else. Amounts are chosen so that
rounding, caps and exhaustion happen: stakes of 80 with half slashes give
bounties above and at the cap and a second slash below the price of a call;
terms that slash 0 and 100 per cent bracket the shares; a stream of 15 over two
seconds rounds, and a loan of half the pool leaves it illiquid. Windows are one
or two seconds long and the clock runs past the last of them, so both sides of
every deadline are reached. A setting is a constraint on who acts (a conjunct on
the next state, named in the module), never on what a contract does. The one TLC
constraint is `Disturbances` of `client_gate`: at most two of a reload, a storage
fault and its recovery befall a tab, which every mutant of that run is caught within.

**Fairness.** Only what the code's own loops or the platform justify:

* `ppc_terms`: time passes and some keeper claims a claimable timeout
  (`scripts/keeper-soak.js`, cycle loop at 190-308). Providers, callers and
  admins owe nothing.
* `dispute_levers`: time passes and somebody closes what anybody may close
  (`reclaimExpiredBond`, `finalize`). Arbiters owe nothing, so the promise stops
  at an appeal: an appealed dispute has no timeout in the code.
* `call_sweep`: time passes, requests end or are killed (`vercel.json`), the cron
  job keeps running, and a sweep that keeps visiting a record eventually gets
  through to the store and the chain (strong fairness, because single failures
  are allowed). Even under this fairness the property fails.

## 4. Findings

* `dispute_escape`: README.md:151 and docs/SLA_COVERAGE.md:61 say a provider
  cannot serve, unstake and dodge a quality slash. The slash is escrowed when
  the dispute opens, but `unstake` looks only at open calls: the provider can
  answer, deactivate, wait for the cooldown and withdraw before the dispute is
  opened. The claim is upheld and there is nothing to pay it from.
* `dispute_signed`: contracts/DisputeV4.sol:93-95 says a signature-mode kind can
  never be bound. A row takes mode and flag from the wiring at opening time: a
  claim signed by a key reads as bound once the kind is pointed at a verifier.
* `uptime_promise`: README.md:147 says a call snapshots its availability target.
  `claimAvailability` reads the target of the latest terms (SLAUptime.sol:284):
  terms without a target, published while the calls of the window are open,
  leave the miss without a consequence.
* `call_sweep`: docs/decisions.md:439 says a very large keyspace needs more than
  a day to be visited. Each run of the sweep restarts at cursor 0 and drops the
  cursor it gets back, so records outside the first page are not visited by any
  run as long as the first page's keys live.
* `client_check`: the Call Builder says its recovery "never sends anything, so
  checking cannot charge twice". The panel holds the hash it read when it was
  mounted; if a handler that outlived the panel has since recorded another one,
  checking the old hash clears the marker of the new one, and the gate opens.

### A disagreement that no run checks: a reverted answer is believed

facilitatorGuard.ts:13-16 says an attempt's marker "is removed only after
independent evidence (a receipt for the transaction hash the facilitator returned,
read by this client) or after the user's explicit acknowledgment. A facilitator
response body is not evidence". facilitatorOutcome.ts:14-16 says of a reverted
outcome that "the caller still reads the receipt before trusting it". The code
does neither: when the answer has the complete reverted schema, `handleX402Call`
removes the pending and the x402 marker and returns, with no receipt read
(CallBuilder.tsx:1343-1352, `AnswerReverted`). The model reaches it in four
states: the call starts, the user signs and the request leaves, and the answer
reports a revert of a transaction that was not even broadcast. The marker is gone,
the gate admits the same attempt again, and `FacilitatorSettles` may still settle
the first authorization.

`OneAuthorizationPerAttempt` therefore states only what the code keeps: its ghost
`signed` drops an authorization when its report is made, true or false. It and the
theorem `AuthorizesOnce` say nothing of an attempt whose first authorization was
falsely reported as reverted. They do cover every other answer, a false success, a
refusal, a demo answer or none, at any status of the transaction.

### Behaviours the models reach that no document contradicts

* The check at opening compares one price with a slash of the whole current
  stake (PayPerCallV8.sol:342-344), so with two open calls the second timeout
  may slash less than its price.
* `NoExitWithOpenCalls` holds for the registry and the escrow and is about them:
  with SLAUptime next to them an owner may claim its own miss and take the
  bounty, so stake leaves under an open call, once per cooldown.
* An abandoned record of the API stays abandoned even if its transaction settles
  later, which the answer warns about.
* v7: replacing PayPerCall makes every hook of the old contract revert, so its
  open calls can neither be answered nor refunded until it is put back. An agent
  wallet is the caller of its calls, so refunds are credited to it, and it has
  no way to claim them; the same holds for what a provider registered through
  `RegisterWithNFT` earns, since the helper is its owner. `Subscription.useCall` is for PayPerCall, but no
  contract of the repository calls it. `releaseExpired` returns all that is
  still locked, including what has accrued and was not claimed, to the
  subscriber. `setYieldVault` leaves the shares of the old vault behind, and a
  vault's yield never reaches `totalAssets`. When the last share is withdrawn with
  what a vault earned, a loan that comes back with interest leaves assets without
  shares, which belong to whoever deposits next. `callServiceFor` accepts the 402
  middleware as the caller: such a call's refund is credited to a contract that
  cannot claim it. The window of the v7 `Dispute`
  counts from a time its opener names; `DisputeQuality` verifies neither call,
  provider nor time, and the last second of voting is the first of finalizing.

## 5. Proofs

Each proof module extends the module it is about, and its theorems hold for
every value of the constants the stated assumptions admit.

**`PayPerCallV8_proofs`** (assumptions `RegistryAssumption` and
`PayPerCallAssumption`: accounts and contracts are disjoint finite sets, amounts
and limits natural numbers, the keeper's share at most 100 per cent).

* The inductive invariant `Inv` says that state has its types, that providers and
  calls are well formed, and that `pendingCalls` of each provider is the number of
  its open calls. Types alone are not inductive: finishing a call decrements a
  count that must be positive, and that it is follows only from its being exact.
* There is one lemma per transaction. What administrators, slashers and the clock
  do preserves the registry's part and leaves the counts alone; opening a call
  raises a count by one (`OpeningCounts`), an answer and a timeout lower it by one
  (`ClosingCounts`), both from the cardinality of the set of open calls. That a
  bounty is at most the slash, and the slash at most the stake, keeps every
  balance a natural number: no settlement reverts on checked arithmetic.
* Theorems: `Invariant`, `TypeCorrect`, `PendingCountsExact`, `ExitOnlyWhenClear`
  (stake leaves only when no call is open), and `ImplementsEscrow`, which shows
  every step of the two contracts to be a step of `SLAEscrow` or a stutter.

**`TotalTheorems`** (no assumption but that the set is finite). Solvency equates a
balance with a sum over providers, calls or addresses, so the proofs need to know
what a sum does when one summand changes (`TotalChange`), appears (`TotalAdd`) or
goes (`TotalTakeOut`). The sum is a fold that chooses its own order; that it
exists and does not depend on it is shown without an induction theorem: of the
subsets on which a claim fails one contains no other (`MinimalSet`), and the fold's
own recursion carries the claim to it from a smaller one.

**`SettlementV8_proofs`** (the assumptions of `PayPerCallV8_proofs`, whose `Inv` it
builds on), so that what `ppc_escrow` and `ppc_terms` check of the registry and the
escrow is proved for any number of providers, callers and calls.

* `TermsStandForever`: besides contiguous versions the induction needs that a
  provider has no terms before it registers, or its first registration might
  overwrite some (`NoTermsBefore`); a call's copy of its terms then stays the
  published one because versions that are out are never written (`VersionsStay`).
* `TermsAnnounced`: what becomes a version was proposed at least the timelock ago.
* `CountersAreExact`: opening adds one call to exactly one of the counted sets
  (`OpeningCounted`), settling moves one from open to its outcome
  (`SettlingCounted`).
* `MoneyIsCovered`: each transaction changes a balance by as much as it changes the
  sum it stands for; a timeout moves the slash from the stakes to the credits of
  the caller and the keeper, whose shares add up to it.
* `OneWayOut`: a call's two windows exclude each other and leave no second between
  them, and the registry accepts its timeout because the count it decrements is
  exact, the terms it is judged by are published, the share of the stake it takes
  is at most the stake, and the registry holds the stake.

**`DisputeV4_proofs`** (those assumptions, `DisputeAssumption` and
`EvidenceAssumption`), for any number of calls and any bonds, rates and windows.

* `EscrowInv` adds to `Inv` the types of the disputes and `HeldUntilSettled`: a
  record says by itself whether its escrow is still there. It needs `Inv` next to
  it because a dispute names the parties of a completed call, and that a completed
  call stays so with the same caller (`NextCompletedStay`) is a fact about
  PayPerCallV8.
* A dispute contract writes one record at a time. `RecordWritten` says once what a
  record in order does to the invariant, `TwoTransfers` and `SecondPaid` what two
  payouts do to a ledger; each transaction then only has to name the record it
  leaves and whom it pays (`ResolveAfter`, `ReclaimAfter`, ...). Opening also cuts
  the stake (`StakeCut`): a share of a stake never exceeds it.
* Theorems: `EscrowInvariant`, `EscrowHeld`, `SettledStays`, `EscrowPaysWinner`.
* `ShownEvidenceIsTrue`: a claim, once anchored, is never written again
  (`AnchoredStay`), so a row that was true when the dispute opened stays true; a row
  binds only where the kind's mode, being neither unset nor a signature, is proof.
* `MigrationSlashesOnce`: V4 takes a penalty only while authorized, so V3 is
  revoked by the runbook's first rule, and the second keeps it so from V4's first
  dispute on; and V4 takes none for a call V3 has. `MigrationInv` states these as
  facts about slashes that were taken, which is what makes them inductive.

* `DisputesAreCovered`: each transaction about a dispute changes the contract's
  balance by as much as it changes what that one dispute is owed (`AccountMoves`),
  with `NothingHeld` for calls nobody disputed, and no transaction of the registry or
  the escrow touches the balance of a dispute contract (`SettlementElsewhere`). That
  the treasury is not a dispute contract is an assumption: a contract paying a
  forfeited bond to itself would hold more than it owes.
* `AppealBondReturns`: who appealed and prevails has its bond and the escrow, and
  whoever does not gets nothing. The attempt to prove it for every call failed for a
  reason: the owner of a service may call and dispute itself, and is then on both
  sides, winner and loser; the contract treats it as the caller. The property says
  so with `Caller(c) # ProviderOf(c)`.
* `WiringIsFollowed` (invariant `WiringInv`): whether a kind binds the response is
  always what its present wiring makes of it, and revoking a key never restamps it. `DisputesOnlyReadEvidence`: every step of the dispute
  contracts is a step of the evidence registry's specification or a stutter, which
  is why what is proved of that registry alone holds next to the disputes.

**`SLAClaims_proofs`** (the assumptions of `SettlementV8_proofs`, `UptimeAssumption`
and `SLAKeeperAssumption`, which says that the keeper is a contract of its own and
not a slasher: it has no call that slashes).

* `OutcomesChargedOnce`: no outcome of a call is charged to a
  provider by two availability claims. The contract keeps two numbers per provider
  and never a set of calls; the invariant `UptimeInv` ties them to the calls charged
  so far (`WindowsExact`), and with the registry's own counters (`OutcomesCounted`)
  the difference it measures is exactly the calls that ended since. What is over
  stays over with the same outcome (`NextOverStay`), so nothing leaves a window.
* `KeepersArePaid` and `CallersMadeWhole`: a batch is one transaction, a fold over its
  ids in which a claim sees what the earlier ones left, so it needs an invariant
  inside the transaction. `Underway` is that: the books typed, every call as it was
  or timed out, the registry's count of open calls exact, its tokens the stakes, the
  escrow's tokens what is open plus what is credited, every caller credited at least
  the price of what was timed out on it, the bounty so far within the keeper's credit.
  It follows that the next id, if it is claimable, can be claimed (`AcceptedUnderway`)
  and that claiming it keeps `Underway` (`ClaimsUnderway`). That a fold over a sequence
  exists and ends in an `Underway` state is proved without induction on the sequence,
  from a largest prefix on which it does (`Runs`, `AfterBatchIsRun`, `BatchUnderway`).
  Between transactions `KeeperInv` holds: the invariants of the settlement, and the
  keeper's tokens cover what it booked (`BountyBooks`).

**`Idempotency_proofs`** (assumptions `StoreAssumption`, `RecordAssumption`,
`RecordsAssumption`, `NoneAssumption` and `CallServiceAssumption`, of which the one that carries weight
is `MaxDuration < PreparedTTL <= SubmittedTTL`), for any number of requests,
authorizations, keys and payments.

* The properties are about what is stored and told; none of them is inductive,
  because a request acts on what it read several awaits ago. `IInv` adds that: a
  record somebody holds is the stored one or an older revision of it, with the
  same payment and date (`SeenOf`); a verdict on its way to the store rests on a
  receipt or on the record's age (`Justified`); whoever has broadcast, or is about
  to, left its record and its key behind first (`Reserved`); and a submitter still
  at work is younger than its record's window (`InTime`).
* `Progress` is what every step does to store, chain and payments: nothing is
  taken back. What a request does not touch survives any step that is `Progress`
  (`OtherRequest`), so each await only has to be shown to leave its own request in
  order: it either ends (`EndedStep`) or goes on (`MoveOn`), and it touches the
  store in one of four ways (`NoStoreStep`, `AliasStep`, `CreateStep`, `MoveStep`).
* The window assumption is used once, in `OtherRequest`: a record may be given up
  only `PreparedTTL` after it was made, by when its submitter is gone.
* Theorems: `Invariant`, `TypeCorrect`, `OneRequestSubmits`, `RecordsAreTruthful`,
  `AnswersAreTruthful`, `KeysPayOnce`, `SubmitterKeepsRecord`, and the action
  property `RecordsOnlyMoveForward`. So every property the run `call_settle` checks
  on two requests is proved for any number.

And of the records' second version, for any number of records, workers and writes
in flight:

* `LeasesInv` is `Shapes` (types), `WritesSound` and `LeaseExclusive`. The middle
  one carries the argument: a write in flight whose revision is still the stored
  one says of the record what is still true of it, because every write that lands
  raises the revision; a write with an older revision can only be refused.
* Theorems: `RecordsInvariant`, `LeasesAreExclusive` and `RecordsLoseNothing`, the
  action property that no step lowers a record's rank, reopens a terminal one, or
  removes one that has a live lease or is unresolved.

**`PaymentFlows_proofs`** (assumptions `FlowAssumption` and `GateAssumption`: hashes
are numbers, `None` is no hash, attempt or stage), for any number of handlers,
hashes, attempts, reloads and storage faults.

* `FlowInv` is `BurnInv` and, while handlers do not overlap, `SoloInv`. `BurnInv`
  says what a handler knows at each of its awaits (`HandlersSound`), and that an
  outstanding burn keeps the cross-chain marker set and is the very burn the one
  running operation carries (`OperationOpen`): a second operation finds the marker,
  a resumed one finds the burn. `SoloInv` says that the one running handler owns
  the marker and the recorded hash (`Alone`, `Marked`), and that each unproven
  authorization has a guard of its own (`Guarded`). Both were model-checked by
  `client_gate` first. Nothing is assumed about what an answer claims;
  `AuthorizesOnce` does not cover an authorization the facilitator reported
  reverted, whose marker the code drops without reading the receipt.
* There is one lemma per await of each handler and per answer of the wallet, the
  facilitator and the chain. What a handler does not touch is said once: a step of
  one slot leaves the burns the others carry (`Carries`), and the hash of a new
  transaction is one nothing refers to (`NewHashIsFree`).
* Theorems: `FlowInvariant`, `BurnsOnce`, `AuthorizesOnce` and `UnresolvedCloses`.

**`Markets_proofs`** (the assumptions of the v7 modules and `MarketsAssumption`: each
contract has an address of its own, and nobody outside pays into a contract that
keeps books other than by its functions), for any number of providers, calls,
batches, subscriptions, loans, votes, messages, requests and attestations, with all
the contracts in play at once.

* The inductive invariant `MarketsInv` is a conjunction of one invariant per
  contract. The registry's and the escrow's (`BaseInv`) say that the registry holds
  the stakes, the escrow the open calls and the credits, and that the counters other
  contracts read are the cardinalities of the sets of calls they count.
* `Progress(S)` is what the others see of a step: the base stays sound, calls and
  counters only grow, and no contract outside `S` loses money, nor gains any if it
  keeps books. There is one lemma per market that its step is `Progress` of its own
  addresses and keeps its own books (`StepProgress`), and one that its books survive
  the `Progress` of anybody else; so nine markets need eighteen lemmas and no pairs.
* `MarketsStaySolvent`, `StreamsStayOnSchedule`, `SharesKeepTheirWorth` and
  `CreditFollowsToken` follow from `MarketsInv` and its steps. Its less obvious parts:
  as long as a batch is open, the slots held are those sold and not yet used, and what
  is booked to its provider is the price of every slot sold; the rounded shares of a
  dispute's winners, with the remainder, add up to exactly their bonds and the spoils;
  a holder's unrefunded purchases cover its tokens, since a
  transfer moves the smaller of amount and credit; the pool's cash and vaults cover
  what is not lent out. The proof of the share price failed while nobody holds a
  share, for the reason given in section 4, and the property now says so.
* `WalletsKeepToTheirLimit`: the day of a wallet restarts with a call, at any time, so
  a stretch of a day may lie across two of them. `WalletInv` says that every such
  stretch splits at one instant into two parts (`Splits`), each of which is empty or
  has a call that saw a limit covering the whole part (`Bounded`).
* `EntriesSpendOnTheirOwn`: the receiver holds, with what its owner took out, at least
  what is left of every message that arrived (`ReceiverInv`); a scope of the
  middleware leads to one call, and every paid call is in one scope
  (`MiddlewareInv`). That the middleware never has a credit needs that nobody names
  it as the caller of a call, which the code does not prevent: it is the theorem's
  one hypothesis.
* `AttestationsStayTrue`: the receipts up to a place are about different calls that
  ended that way (`ReceiptsCounted`), so the counters, which are cardinalities, are at
  least as many; outcomes and counters never go back.

## 6. Only model-checked

* Liveness (`EventuallySettled`, `SilenceSettles`): it rests on fairness, and the
  enabledness of an action is beyond the proof system.
* The findings: a counterexample is one behaviour, which TLC exhibits.

## 7. Not modelled

`PROJECT.json` lists every component. Left out: rendering, queries, formatting,
deploy scripts, stateless parsing and cryptography, generated verifiers, and of
the v7 contracts those another module already says as much as can be said about
(DisputeV2, the first evidence registry). `RegisterWithNFT` forwards to the v7
registry for the one user it can ever register (its own comment says so). In
`api/call-service.js` the path
without a store (it keeps no state of its own), demo mode and the advertised
price are left out; of `scripts/keeper-soak.js` only its fairness is used.

Most of the repository by lines is React panels, generated subgraph bindings,
marketing pages and generated circuits: code with no state of its own beyond what
the modelled parts own.
