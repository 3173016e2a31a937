------------------------------ MODULE SLAFutures ----------------------------
(***************************************************************************)
(* contracts/SLAFutures.sol: a provider sells the slots of a batch as      *)
(* transferable ERC-1155 tokens.  After the deadline the batch is          *)
(* cancelled, by the provider or, after a grace period, by anyone; then    *)
(* the provider claims what was used and the holders are refunded the      *)
(* rest.  A refund needs both the token and the purchase credit, which     *)
(* _update moves along with a token that is passed on.                     *)
(***************************************************************************)
EXTENDS ServiceRegistry

CONSTANTS
  FuturesAddress,   \* the address of this contract
  Holders,          \* accounts that buy and trade slots
  MaxBatches,       \* bound: batches minted
  SlotCounts,       \* values of totalSlots
  Lifetimes,        \* a batch's deadline, from the time it is minted
  SlotPrices,       \* values of pricePerCall
  MinPricePerCall,  \* MIN_PRICE_PER_CALL
  RefundGrace,      \* REFUND_GRACE
  FeedAnswers,      \* prices the feed may report, a broken one included
  FeedAges,         \* ages of that report, and values of priceFeedStaleness
  DefaultStaleness, \* the staleness accepted at deployment
  MaxBatchUsd       \* MAX_BATCH_USD_8DEC, in the unit of price * slots * answer

BatchIds == 1..MaxBatches

ASSUME FuturesAssumption ==
  /\ FuturesAddress \in Contracts /\ Holders \subseteq Accounts
  /\ MaxBatches \in Nat /\ SlotCounts \subseteq Nat /\ Lifetimes \subseteq Nat
  /\ SlotPrices \subseteq Nat /\ MinPricePerCall \in Nat /\ RefundGrace \in Nat
  /\ FeedAnswers \subseteq Int /\ FeedAges \subseteq Nat /\ DefaultStaleness \in Nat
  /\ MaxBatchUsd \in Nat

VARIABLES
  batches, nextBatchId,
  slots,                          \* balanceOf: the ERC-1155 ledger
  purchased, refunded, providerClaimable,
  priceFeed                       \* [set, staleness]: priceFeed, priceFeedStaleness

tradeVars == <<slots, purchased, refunded>>
futuresVars == <<batches, nextBatchId, tradeVars, providerClaimable, priceFeed>>

NoBatch == [provider |-> NoAddress, price |-> 0, totalSlots |-> 0, soldSlots |-> 0,
            usedSlots |-> 0, deadline |-> 0, active |-> FALSE]

NoSlots == [b \in BatchIds |-> [h \in Holders |-> 0]]

FuturesInit ==
  /\ batches = [b \in BatchIds |-> NoBatch]
  /\ nextBatchId = 1
  /\ slots = NoSlots /\ purchased = NoSlots /\ refunded = NoSlots
  /\ providerClaimable = [b \in BatchIds |-> 0]
  /\ priceFeed = [set |-> FALSE, staleness |-> DefaultStaleness]

Minted(b) == b < nextBatchId

(* The feed has a positive answer of an accepted age, and the batch is     *)
(* worth no more than the cap.  The code scales both sides to 8 decimals   *)
(* and rounds the batch's worth down, by less than a millionth of a        *)
(* dollar; the model compares them in one unit.                            *)
FeedAccepts(price, count, answer, age) ==
  answer > 0 /\ age <= priceFeed.staleness /\ price * count * answer <= MaxBatchUsd

MintCapacity(p, price, count, lifetime) ==
  /\ nextBatchId \in BatchIds
  /\ Registered(p) /\ providers[p].active
  /\ price >= MinPricePerCall /\ count >= 1 /\ lifetime > 0
  /\ priceFeed.set =>
       \E answer \in FeedAnswers, age \in FeedAges : FeedAccepts(price, count, answer, age)
  /\ batches' = [batches EXCEPT ![nextBatchId] =
       [provider |-> p, price |-> price, totalSlots |-> count, soldSlots |-> 0,
        usedSlots |-> 0, deadline |-> now + lifetime, active |-> TRUE]]
  /\ nextBatchId' = nextBatchId + 1
  /\ UNCHANGED <<registryVars, tradeVars, providerClaimable, priceFeed>>

SetPriceFeed(set) ==
  /\ priceFeed' = [priceFeed EXCEPT !.set = set]
  /\ UNCHANGED <<registryVars, batches, nextBatchId, tradeVars, providerClaimable>>

SetPriceFeedStaleness(age) ==
  /\ priceFeed' = [priceFeed EXCEPT !.staleness = age]
  /\ UNCHANGED <<registryVars, batches, nextBatchId, tradeVars, providerClaimable>>

Trading(b) == Minted(b) /\ batches[b].active /\ now <= batches[b].deadline

BuySlots(h, b, amount) ==
  LET cost == amount * batches[b].price IN
  /\ Trading(b)
  /\ amount > 0
  /\ batches[b].soldSlots + amount <= batches[b].totalSlots
  /\ CanPay(usdc, h, cost)
  /\ batches' = [batches EXCEPT ![b].soldSlots = @ + amount]
  /\ purchased' = [purchased EXCEPT ![b][h] = @ + amount]
  /\ providerClaimable' = [providerClaimable EXCEPT ![b] = @ + cost]
  /\ usdc' = Transfer(usdc, h, FuturesAddress, cost)
  /\ slots' = [slots EXCEPT ![b][h] = @ + amount]
  /\ UNCHANGED <<providers, wiring, authorizedSlashers, now, nextBatchId, refunded, priceFeed>>

BurnSlot(h, b) ==
  /\ Trading(b)
  /\ slots[b][h] > 0
  /\ batches' = [batches EXCEPT ![b].usedSlots = @ + 1]
  /\ slots' = [slots EXCEPT ![b][h] = @ - 1]
  /\ UNCHANGED <<registryVars, nextBatchId, purchased, refunded, providerClaimable, priceFeed>>

Refundable(b, h) ==
  IF purchased[b][h] > refunded[b][h] THEN purchased[b][h] - refunded[b][h] ELSE 0

Smaller(m, n) == IF m < n THEN m ELSE n

\* Mutant: the credit stays with the seller when a slot is passed on.
MovedCredit_Stays(b, from, amount) == 0

(* The purchase credit _update moves with `amount` slots.                  *)
MovedCredit(b, from, amount) == Smaller(amount, Refundable(b, from))

(* A secondary transfer of the token.                                      *)
TransferSlots(from, to, b, amount) ==
  LET moved == MovedCredit(b, from, amount) IN
  /\ Minted(b) /\ from # to
  /\ 0 < amount /\ amount <= slots[b][from]
  /\ purchased' = [purchased EXCEPT ![b] =
       [@ EXCEPT ![from] = purchased[b][from] - moved, ![to] = purchased[b][to] + moved]]
  /\ slots' = [slots EXCEPT ![b] =
       [@ EXCEPT ![from] = slots[b][from] - amount, ![to] = slots[b][to] + amount]]
  /\ UNCHANGED <<registryVars, batches, nextBatchId, refunded, providerClaimable, priceFeed>>

(* What a cancellation sets aside for the holders.                         *)
RefundReserve(b) == (batches[b].soldSlots - batches[b].usedSlots) * batches[b].price

(* Checked subtraction: the transaction reverts below zero.                *)
Cancel(b) ==
  /\ Minted(b) /\ batches[b].active
  /\ RefundReserve(b) <= providerClaimable[b]
  /\ batches' = [batches EXCEPT ![b].active = FALSE]
  /\ providerClaimable' = [providerClaimable EXCEPT ![b] = @ - RefundReserve(b)]
  /\ UNCHANGED <<registryVars, nextBatchId, tradeVars, priceFeed>>

CancelBatch(b) == now > batches[b].deadline /\ Cancel(b)

CancelExpiredBatch(b) == now > batches[b].deadline + RefundGrace /\ Cancel(b)

ClaimProceeds(b) ==
  LET provider == batches[b].provider IN
  /\ Minted(b) /\ ~batches[b].active
  /\ providerClaimable[b] > 0
  /\ CanPay(usdc, FuturesAddress, providerClaimable[b])
  /\ providerClaimable' = [providerClaimable EXCEPT ![b] = 0]
  /\ usdc' = Transfer(usdc, FuturesAddress, provider, providerClaimable[b])
  /\ UNCHANGED <<providers, wiring, authorizedSlashers, now, batches, nextBatchId,
                 tradeVars, priceFeed>>

(* The holder is refunded the slots it holds, as far as it has credit.     *)
ClaimRefund(h, b) ==
  LET amount == Smaller(slots[b][h], Refundable(b, h)) IN
  /\ Minted(b) /\ ~batches[b].active
  /\ amount > 0
  /\ CanPay(usdc, FuturesAddress, amount * batches[b].price)
  /\ refunded' = [refunded EXCEPT ![b][h] = @ + amount]
  /\ slots' = [slots EXCEPT ![b][h] = @ - amount]
  /\ usdc' = Transfer(usdc, FuturesAddress, h, amount * batches[b].price)
  /\ UNCHANGED <<providers, wiring, authorizedSlashers, now, batches, nextBatchId,
                 purchased, providerClaimable, priceFeed>>

FuturesStep ==
  \/ \E p \in Providers, price \in SlotPrices, count \in SlotCounts, lifetime \in Lifetimes :
       MintCapacity(p, price, count, lifetime)
  \/ \E set \in BOOLEAN : SetPriceFeed(set)
  \/ \E age \in FeedAges : SetPriceFeedStaleness(age)
  \/ \E b \in BatchIds :
       \/ CancelBatch(b) \/ CancelExpiredBatch(b) \/ ClaimProceeds(b)
       \/ \E h \in Holders :
            \/ BurnSlot(h, b) \/ ClaimRefund(h, b)
            \/ \E amount \in SlotCounts : BuySlots(h, b, amount)
            \/ \E to \in Holders, amount \in SlotCounts : TransferSlots(h, to, b, amount)

FuturesNext == FuturesStep \/ (RegistryStep /\ UNCHANGED futuresVars)

FuturesSpec == RegistryInit /\ FuturesInit /\ [][FuturesNext]_<<registryVars, futuresVars>>

-----------------------------------------------------------------------------
(* The type invariant of this module's own state.                          *)
FuturesTypeOK ==
  /\ slots \in [BatchIds -> [Holders -> Nat]]
  /\ purchased \in [BatchIds -> [Holders -> Nat]]
  /\ refunded \in [BatchIds -> [Holders -> Nat]]

(* Whoever holds slots holds the credit to be refunded for every one of    *)
(* them, whatever was sold on, used or refunded before: claimRefund, which *)
(* takes the smaller of the two, never leaves a slot behind.               *)
HolderCovered ==
  \A b \in BatchIds, h \in Holders : slots[b][h] <= purchased[b][h] - refunded[b][h]

(* The contract holds exactly what it owes: the proceeds nobody claimed    *)
(* yet and, for cancelled batches, the price of every slot still held.  As *)
(* long as a batch is open all of it is booked to the provider.            *)
FuturesSolvent ==
  LET held(b) == batches[b].price * Total(slots[b], Holders) IN
  /\ usdc[FuturesAddress]
       = SumFunctionOnSet([b \in BatchIds |->
           providerClaimable[b] + IF batches[b].active THEN 0 ELSE held(b)], BatchIds)
  /\ \A b \in BatchIds : batches[b].active => held(b) <= providerClaimable[b]
=============================================================================
