----------------------------- MODULE Subscription ---------------------------
(***************************************************************************)
(* contracts/Subscription.sol: calls bought in advance, in two modes.  A   *)
(* bundle locks the price of its calls until they are used, cancelled or   *)
(* expired; a stream pays its provider in proportion to the time that went *)
(* by, and returns what is still locked once it has expired.               *)
(***************************************************************************)
EXTENDS ServiceRegistry

CONSTANTS
  SubscriptionAddress,  \* the address of this contract
  Subscribers,
  Callers,              \* contracts payPerCall may be set to
  CallUsers,            \* those of them whose code calls useCall: v7 PayPerCall does not
  MaxSubs,              \* bound: subscriptions
  CallCounts,           \* calls per bundle, MIN_CALLS..MAX_CALLS
  Durations,            \* MIN_DURATION..MAX_DURATION
  StreamAmounts         \* USDC locked in a stream

SubIds == 1..MaxSubs

ASSUME SubscriptionAssumption ==
  /\ SubscriptionAddress \in Contracts /\ Subscribers \subseteq Accounts
  /\ Callers \subseteq Contracts \ {SubscriptionAddress}
  /\ CallUsers \subseteq Callers /\ MaxSubs \in Nat
  /\ CallCounts \subseteq Nat \ {0} /\ Durations \subseteq Nat \ {0}
  /\ StreamAmounts \subseteq Nat \ {0}

VARIABLES
  subscriptions, subCount,
  activeSub,             \* subscriber and provider to their latest subscription, 0 for none
  subscriptionCaller     \* payPerCall

subscriptionVars == <<subscriptions, subCount, activeSub, subscriptionCaller>>

NoSub == [subscriber |-> NoAddress, provider |-> NoAddress, price |-> 0, remaining |-> 0,
          expiresAt |-> 0, lockedBalance |-> 0, cancelled |-> FALSE, streamMode |-> FALSE,
          streamReleased |-> 0, streamStart |-> 0, streamDuration |-> 0]

SubscriptionInit ==
  /\ subscriptions = [s \in SubIds |-> NoSub]
  /\ subCount = 0
  /\ activeSub = [a \in Subscribers |-> [p \in Providers |-> 0]]
  /\ subscriptionCaller \in Callers

(* A new subscription record and the transfer that fills it.               *)
Open(a, p, amount, record) ==
  /\ subCount + 1 \in SubIds
  /\ providers[p].active
  /\ CanPay(usdc, a, amount)
  /\ usdc' = Transfer(usdc, a, SubscriptionAddress, amount)
  /\ subCount' = subCount + 1
  /\ subscriptions' = [subscriptions EXCEPT ![subCount + 1] =
       [record EXCEPT !.subscriber = a, !.provider = p, !.lockedBalance = amount]]
  /\ activeSub' = [activeSub EXCEPT ![a][p] = subCount + 1]
  /\ UNCHANGED <<providers, wiring, authorizedSlashers, now, subscriptionCaller>>

Subscribe(a, p, count, duration) ==
  Open(a, p, providers[p].price * count,
       [NoSub EXCEPT !.price = providers[p].price, !.remaining = count,
                     !.expiresAt = now + duration])

SubscribeStream(a, p, amount, duration) ==
  Open(a, p, amount,
       [NoSub EXCEPT !.expiresAt = now + duration, !.streamMode = TRUE,
                     !.streamStart = now, !.streamDuration = duration])

Elapsed(sub) == IF now - sub.streamStart > sub.streamDuration THEN sub.streamDuration
                ELSE now - sub.streamStart

\* Mutant: the share of time is taken of what is still locked only.
Accrued_OfLocked(sub) == sub.streamReleased + (sub.lockedBalance * Elapsed(sub)) \div sub.streamDuration

(* What the stream owes its provider so far, paid or not.                  *)
Accrued(sub) ==
  ((sub.lockedBalance + sub.streamReleased) * Elapsed(sub)) \div sub.streamDuration

(* What changes in every later transaction is the record and the balance.  *)
Pay(s, sub, to, amount) ==
  /\ CanPay(usdc, SubscriptionAddress, amount)
  /\ subscriptions' = [subscriptions EXCEPT ![s] = sub]
  /\ usdc' = Transfer(usdc, SubscriptionAddress, to, amount)
  /\ UNCHANGED <<providers, wiring, authorizedSlashers, now, subCount, subscriptionCaller>>

(* Anyone may trigger the payment.  The receiver is the provider's owner:  *)
(* a subscription is only opened with an active provider, so the fallback  *)
(* to the subscriber is never taken.                                       *)
ClaimStream(s) ==
  LET sub == subscriptions[s]
      amount == Accrued(sub) - sub.streamReleased
  IN
  /\ sub.streamMode /\ ~sub.cancelled
  /\ amount > 0
  /\ Pay(s, [sub EXCEPT !.streamReleased = @ + amount, !.lockedBalance = @ - amount],
         sub.provider, amount)
  /\ UNCHANGED activeSub

CancelRefund(sub) == sub.price * sub.remaining

CancelSubscription(s) ==
  LET sub == subscriptions[s] IN
  /\ s <= subCount
  /\ ~sub.streamMode /\ ~sub.cancelled
  /\ now < sub.expiresAt
  /\ Pay(s, [sub EXCEPT !.cancelled = TRUE, !.lockedBalance = 0, !.remaining = 0],
         sub.subscriber, CancelRefund(sub))
  /\ activeSub' = [activeSub EXCEPT ![sub.subscriber][sub.provider] = IF @ = s THEN 0 ELSE @]

(* Anyone, in both modes.                                                  *)
ReleaseExpired(s) ==
  LET sub == subscriptions[s] IN
  /\ now >= sub.expiresAt
  /\ sub.lockedBalance # 0
  /\ Pay(s, [sub EXCEPT !.lockedBalance = 0, !.remaining = 0],
         sub.subscriber, sub.lockedBalance)
  /\ UNCHANGED activeSub

(* By payPerCall only, which receives the price.                           *)
UseCall(s) ==
  LET sub == subscriptions[s] IN
  /\ subscriptionCaller \in CallUsers
  /\ now < sub.expiresAt
  /\ sub.remaining > 0
  /\ ~sub.cancelled
  /\ Pay(s, [sub EXCEPT !.remaining = @ - 1, !.lockedBalance = @ - sub.price],
         subscriptionCaller, sub.price)
  /\ UNCHANGED activeSub

SetSubscriptionCaller(c) ==
  /\ subscriptionCaller' = c
  /\ UNCHANGED <<registryVars, subscriptions, subCount, activeSub>>

SubscriptionStep ==
  \/ \E a \in Subscribers, p \in Providers, duration \in Durations :
       \/ \E count \in CallCounts : Subscribe(a, p, count, duration)
       \/ \E amount \in StreamAmounts : SubscribeStream(a, p, amount, duration)
  \/ \E s \in SubIds : ClaimStream(s) \/ CancelSubscription(s) \/ ReleaseExpired(s) \/ UseCall(s)
  \/ \E c \in Callers : SetSubscriptionCaller(c)

-----------------------------------------------------------------------------
(* The contract holds exactly what its subscriptions have locked, and a    *)
(* bundle has locked exactly the calls it has left.                        *)
SubscriptionsCovered ==
  /\ usdc[SubscriptionAddress]
       = Total([s \in SubIds |-> subscriptions[s].lockedBalance], SubIds)
  /\ \A s \in SubIds : ~subscriptions[s].streamMode =>
       subscriptions[s].lockedBalance = subscriptions[s].price * subscriptions[s].remaining

(* A stream never pays ahead of time: what the provider has been paid in   *)
(* all its claims, which anyone may trigger at any second, is at most the  *)
(* elapsed share of the whole amount.                                      *)
StreamOnSchedule ==
  \A s \in SubIds : LET sub == subscriptions[s] IN
    sub.streamMode =>
      sub.streamReleased * sub.streamDuration
        <= (sub.lockedBalance + sub.streamReleased) * Elapsed(sub)
=============================================================================
