---------------------------- MODULE Markets_proofs --------------------------
(***************************************************************************)
(* Proofs about the v7 registry, its escrow and the markets around them,   *)
(* all in play at once, for any number of providers, calls and accounts.   *)
(***************************************************************************)
EXTENDS MCMarkets, TotalTheorems, SequenceTheorems

-----------------------------------------------------------------------------
(* Arithmetic.                                                             *)

LEMMA DivFloor ==
  ASSUME NEW a \in Nat, NEW d \in Nat \ {0}
  PROVE  a \div d \in Nat /\ d * (a \div d) <= a /\ a < d * (a \div d) + d
BY SMT

LEMMA MulMono ==
  ASSUME NEW a \in Nat, NEW b \in Nat, NEW c \in Nat, a <= b
  PROVE  c * a <= c * b /\ a * c <= b * c
BY SMT

LEMMA Products == \A a, b \in Nat : a * b \in Nat
BY SMT

(* A share of at most the whole.                                           *)
LEMMA ShareBound ==
  ASSUME NEW t \in Nat, NEW e \in Nat, NEW d \in Nat \ {0}, e <= d
  PROVE  (t * e) \div d \in Nat /\ (t * e) \div d <= t
BY SMT

-----------------------------------------------------------------------------
(* Addresses and the ledger.                                               *)

USE DEF Providers, Addresses, Time

LEMMA Sizes ==
  /\ IsFiniteSet(Addresses) /\ IsFiniteSet(Accounts) /\ IsFiniteSet(Contracts)
  /\ IsFiniteSet(Providers) /\ IsFiniteSet(CallIds)
<1>1. IsFiniteSet(Accounts) /\ IsFiniteSet(Contracts) /\ Providers \subseteq Accounts
  BY RegistryAssumption
<1>2. IsFiniteSet(CallIds)
  BY FS_Interval, PayPerCallAssumption DEF CallIds
<1> QED
  BY <1>1, <1>2, FS_Subset, FS_Union

LEMMA Places ==
  /\ Providers \subseteq Accounts /\ Bookkeepers \subseteq Contracts
  /\ Accounts \cap Bookkeepers = {}
  /\ {LoanAddress, WalletAddress, ReceiverAddress, MiddlewareAddress} \subseteq Contracts \ Bookkeepers
  /\ Registry # PPC /\ Registry \in Contracts /\ PPC \in Contracts
  /\ NoAddress \notin Addresses
BY RegistryAssumption, PayPerCallAssumption, FuturesAssumption, SubscriptionAssumption,
   DisputeAssumption, QualityAssumption, LoanAssumption, WalletAssumption, ReceiverAssumption,
   MiddlewareAssumption, MarketsAssumption
   DEF Bookkeepers

Ledgers == [Addresses -> Nat]

LEMMA CreditLedger ==
  ASSUME NEW ledger \in Ledgers, NEW to \in Addresses, NEW n \in Nat
  PROVE  /\ Credit(ledger, to, n) \in Ledgers
         /\ \A a \in Addresses : Credit(ledger, to, n)[a] = ledger[a] + (IF a = to THEN n ELSE 0)
BY DEF Credit, Ledgers

LEMMA TransferLedger ==
  ASSUME NEW ledger \in Ledgers, NEW from \in Addresses, NEW to \in Addresses, NEW n \in Nat,
         CanPay(ledger, from, n)
  PROVE  /\ Transfer(ledger, from, to, n) \in Ledgers
         /\ \A a \in Addresses :
              Transfer(ledger, from, to, n)[a]
                = ledger[a] - (IF a = from THEN n ELSE 0) + (IF a = to THEN n ELSE 0)
<1> DEFINE paid == [ledger EXCEPT ![from] = @ - n]
<1>1. ledger[from] \in Nat /\ n <= ledger[from]
  BY DEF Ledgers, CanPay
<1>2. /\ paid \in Ledgers
      /\ \A a \in Addresses : paid[a] = ledger[a] - (IF a = from THEN n ELSE 0)
  BY <1>1 DEF Ledgers
<1>3. Transfer(ledger, from, to, n) = Credit(paid, to, n)
  BY DEF Transfer
<1>4. \A a \in Addresses : ledger[a] \in Nat
  BY DEF Ledgers
<1> HIDE DEF paid
<1>5. /\ Credit(paid, to, n) \in Ledgers
      /\ \A a \in Addresses : Credit(paid, to, n)[a] = paid[a] + (IF a = to THEN n ELSE 0)
  BY <1>2, CreditLedger
<1> QED
  BY <1>2, <1>3, <1>4, <1>5

(* A step that moves no money of a contract outside S, except that one     *)
(* that keeps no books may receive some.                                   *)
Quiet(S) ==
  /\ usdc' \in Ledgers
  /\ \A a \in Contracts \ S : usdc'[a] >= usdc[a] /\ (a \in Bookkeepers => usdc'[a] = usdc[a])

LEMMA TransferQuiet ==
  ASSUME usdc \in Ledgers, NEW S, NEW from \in Addresses \cap (Accounts \cup S), NEW n \in Nat,
         NEW to \in Addresses \cap (Accounts \cup S \cup (Contracts \ Bookkeepers)),
         CanPay(usdc, from, n), usdc' = Transfer(usdc, from, to, n)
  PROVE  Quiet(S)
<1>1. /\ usdc' \in Ledgers
      /\ \A a \in Addresses :
           usdc'[a] = usdc[a] - (IF a = from THEN n ELSE 0) + (IF a = to THEN n ELSE 0)
  BY TransferLedger
<1>2. \A a \in Addresses : usdc[a] \in Nat
  BY DEF Ledgers
<1>3. Accounts \cap Contracts = {}
  BY RegistryAssumption
<1> QED
  BY <1>1, <1>2, <1>3 DEF Quiet

LEMMA StillQuiet == ASSUME usdc \in Ledgers, usdc' = usdc, NEW S PROVE Quiet(S)
BY DEF Quiet, Ledgers

-----------------------------------------------------------------------------
(* The registry: records keep their types, an account that never           *)
(* registered has none, and the registry holds the stakes.                 *)

Provider == [registered : BOOLEAN, stake : Nat, price : Nat, maxResponseTime : Nat,
             slashBps : 0..Bps, cap : Nat, zkTier : 0..2, deactivatedAt : Nat,
             pendingCalls : Nat, completedCalls : Nat, slashedCalls : Nat, active : BOOLEAN]

Stakes == [p \in Providers |-> providers[p].stake]

RegistryInv ==
  /\ providers \in [Providers -> Provider]
  /\ usdc \in Ledgers
  /\ now \in Nat
  /\ \A p \in Providers : ~Registered(p) => providers[p] = NoProvider
  /\ usdc[Registry] = Total(Stakes, Providers)

LEMMA RegistryUntouched ==
  ASSUME RegistryInv, providers' = providers, usdc' \in Ledgers, usdc'[Registry] = usdc[Registry],
         now' \in Nat
  PROVE  RegistryInv'
BY DEF RegistryInv, Registered, Stakes

(* One record is written, and the registry's balance moves with its stake. *)
LEMMA RecordWritten ==
  ASSUME RegistryInv, NEW p \in Providers, NEW record \in Provider,
         providers' = [providers EXCEPT ![p] = record],
         record.registered \/ record = NoProvider,
         usdc' \in Ledgers, usdc'[Registry] = usdc[Registry] - providers[p].stake + record.stake,
         now' \in Nat
  PROVE  RegistryInv'
<1>1. providers \in [Providers -> Provider] /\ usdc[Registry] = Total(Stakes, Providers)
  BY DEF RegistryInv
<1>2. providers' \in [Providers -> Provider]
  BY <1>1
<1>3. Total(Stakes', Providers) = Total(Stakes, Providers) - Stakes[p] + Stakes'[p]
  <2>1. \A q \in Providers : Stakes[q] \in Nat /\ Stakes'[q] \in Nat
    BY <1>1, <1>2 DEF Stakes, Provider
  <2>2. \A q \in Providers \ {p} : Stakes'[q] = Stakes[q]
    BY <1>1 DEF Stakes
  <2> QED
    BY <2>1, <2>2, Sizes, TotalChange
<1>4. Stakes[p] = providers[p].stake /\ Stakes'[p] = record.stake
  BY <1>1 DEF Stakes
<1>5. \A q \in Providers : ~Registered(q)' => providers'[q] = NoProvider
  BY <1>1 DEF RegistryInv, Registered
<1> QED
  BY <1>1, <1>2, <1>3, <1>4, <1>5 DEF RegistryInv

LEMMA RegistryStart == RegistryInit => RegistryInv
<1> SUFFICES ASSUME RegistryInit PROVE RegistryInv
  OBVIOUS
<1>1. NoProvider \in Provider /\ NoProvider.stake = 0 /\ NoProvider.registered = FALSE
  BY RegistryAssumption DEF NoProvider, Provider
<1>2. usdc \in Ledgers /\ usdc[Registry] = 0
  BY RegistryAssumption, Places DEF RegistryInit, Ledgers
<1>3. Total(Stakes, Providers) = 0
  <2>1. \A p \in Providers : Stakes[p] = 0
    BY <1>1 DEF RegistryInit, Stakes
  <2> QED
    BY <2>1, Sizes, TotalZero
<1> QED
  BY <1>1, <1>2, <1>3 DEF RegistryInit, RegistryInv, Registered

CountsKept ==
  \A p \in Providers : /\ providers'[p].pendingCalls = providers[p].pendingCalls
                       /\ providers'[p].completedCalls = providers[p].completedCalls
                       /\ providers'[p].slashedCalls = providers[p].slashedCalls

(* A record is written that keeps its counts.                              *)
LEMMA RecordKeepsCounts ==
  ASSUME RegistryInv, NEW p \in Providers, NEW record,
         providers' = [providers EXCEPT ![p] = record],
         record.pendingCalls = providers[p].pendingCalls,
         record.completedCalls = providers[p].completedCalls,
         record.slashedCalls = providers[p].slashedCalls
  PROVE  CountsKept
BY DEF CountsKept, RegistryInv

(* The terms of a record change, but neither its stake nor its counts.     *)
LEMMA SettingChanged ==
  ASSUME RegistryInv, NEW p \in Providers, NEW record \in Provider, Registered(p),
         providers' = [providers EXCEPT ![p] = record], record.registered = TRUE,
         record.stake = providers[p].stake,
         record.pendingCalls = providers[p].pendingCalls,
         record.completedCalls = providers[p].completedCalls,
         record.slashedCalls = providers[p].slashedCalls,
         usdc' = usdc, now' = now
  PROVE  RegistryInv' /\ CountsKept /\ Quiet({Registry})
<1>1. usdc \in Ledgers /\ now \in Nat /\ usdc[Registry] \in Nat
  BY Places DEF RegistryInv, Ledgers
<1>2. usdc'[Registry] = usdc[Registry] - providers[p].stake + record.stake
  BY <1>1 DEF RegistryInv, Provider
<1>3. RegistryInv'
  BY <1>1, <1>2, RecordWritten
<1> QED
  BY <1>1, <1>3, RecordKeepsCounts, StillQuiet

LEMMA RegistryMoves ==
  ASSUME RegistryInv, RegistryStep
  PROVE  RegistryInv' /\ CountsKept /\ Quiet({Registry})
<1>1. /\ providers \in [Providers -> Provider] /\ usdc \in Ledgers /\ now \in Nat
      /\ \A a \in Addresses : usdc[a] \in Nat
      /\ \A p \in Providers : ~Registered(p) => providers[p] = NoProvider
  BY DEF RegistryInv, Ledgers
<1>2. Registry \in Contracts /\ Registry \notin Accounts /\ Providers \subseteq Accounts
      /\ Registry \in Bookkeepers
  BY RegistryAssumption, Places DEF Bookkeepers
<1>3. /\ NoProvider \in Provider /\ NoProvider.stake = 0 /\ NoProvider.pendingCalls = 0
      /\ NoProvider.completedCalls = 0 /\ NoProvider.slashedCalls = 0
  BY RegistryAssumption DEF NoProvider, Provider
<1>4. CASE providers' = providers /\ usdc' = usdc /\ now' \in Nat
  BY <1>1, <1>4, RegistryUntouched, StillQuiet DEF CountsKept
<1>5. ASSUME NEW p \in Providers, NEW amount \in StakeAmounts, NEW offer \in Offers,
             Register(p, amount, offer)
      PROVE  RegistryInv' /\ CountsKept /\ Quiet({Registry})
  <2> DEFINE record == [NoProvider EXCEPT !.registered = TRUE, !.active = TRUE, !.stake = amount,
                          !.price = offer.price, !.maxResponseTime = offer.maxResponseTime,
                          !.slashBps = offer.slashBps, !.cap = offer.cap]
  <2>1. /\ record \in Provider /\ record.registered = TRUE /\ record.stake = amount
        /\ record.pendingCalls = 0 /\ record.completedCalls = 0 /\ record.slashedCalls = 0
        /\ amount \in Nat
    <3>1. /\ offer.price \in Nat /\ offer.maxResponseTime \in Nat /\ offer.slashBps \in 0..Bps
          /\ offer.cap \in Nat /\ amount \in Nat
      BY RegistryAssumption
    <3> QED
      BY <1>3, <3>1 DEF Provider
  <2>2. /\ providers' = [providers EXCEPT ![p] = record] /\ providers[p] = NoProvider
        /\ CanPay(usdc, p, amount) /\ usdc' = Transfer(usdc, p, Registry, amount) /\ now' = now
    BY <1>1, <1>5 DEF Register
  <2> HIDE DEF record
  <2>3. usdc' \in Ledgers /\ usdc'[Registry] = usdc[Registry] + amount
    BY <1>1, <1>2, <2>1, <2>2, TransferLedger
  <2>4. Quiet({Registry})
    BY <1>1, <1>2, <2>1, <2>2, TransferQuiet
  <2>5. CountsKept
    BY <1>3, <2>1, <2>2, RecordKeepsCounts
  <2>6. usdc'[Registry] = usdc[Registry] - providers[p].stake + record.stake
    BY <1>1, <1>2, <1>3, <2>1, <2>2, <2>3
  <2>7. RegistryInv'
    BY <1>1, <2>1, <2>2, <2>3, <2>6, RecordWritten
  <2> QED
    BY <2>4, <2>5, <2>7
<1>6. ASSUME NEW p \in Providers, NEW record \in Provider, Registered(p),
             providers' = [providers EXCEPT ![p] = record], record.registered = TRUE,
             record.stake = providers[p].stake,
             record.pendingCalls = providers[p].pendingCalls,
             record.completedCalls = providers[p].completedCalls,
             record.slashedCalls = providers[p].slashedCalls,
             usdc' = usdc, now' = now
      PROVE  RegistryInv' /\ CountsKept /\ Quiet({Registry})
  BY <1>6, SettingChanged
<1>7. ASSUME NEW p \in Providers, Deactivate(p)
      PROVE  RegistryInv' /\ CountsKept /\ Quiet({Registry})
  <2>1. providers' = [providers EXCEPT ![p] =
                        [providers[p] EXCEPT !.active = FALSE, !.deactivatedAt = now]]
    BY <1>1, <1>7 DEF Deactivate
  <2>2. [providers[p] EXCEPT !.active = FALSE, !.deactivatedAt = now] \in Provider
    BY <1>1 DEF Provider
  <2> QED
    BY <1>1, <1>6, <1>7, <2>1, <2>2 DEF Deactivate, Registered, Provider
<1>8. ASSUME NEW p \in Providers, NEW price \in Prices, UpdatePrice(p, price)
      PROVE  RegistryInv' /\ CountsKept /\ Quiet({Registry})
  <2>1. providers' = [providers EXCEPT ![p] = [providers[p] EXCEPT !.price = price]]
    BY <1>1, <1>8 DEF UpdatePrice
  <2>2. [providers[p] EXCEPT !.price = price] \in Provider
    BY <1>1, RegistryAssumption DEF Provider
  <2> QED
    BY <1>1, <1>6, <1>8, <2>1, <2>2 DEF UpdatePrice, Registered, Provider
<1>9. ASSUME NEW p \in Providers, NEW offer \in Offers, UpdateMaxConcurrentCalls(p, offer.cap)
      PROVE  RegistryInv' /\ CountsKept /\ Quiet({Registry})
  <2>1. providers' = [providers EXCEPT ![p] = [providers[p] EXCEPT !.cap = offer.cap]]
    BY <1>1, <1>9 DEF UpdateMaxConcurrentCalls
  <2>2. offer.cap \in Nat
    BY RegistryAssumption
  <2>3. [providers[p] EXCEPT !.cap = offer.cap] \in Provider
    BY <1>1, <2>2 DEF Provider
  <2> QED
    BY <1>1, <1>6, <1>9, <2>1, <2>3 DEF UpdateMaxConcurrentCalls, Registered, Provider
<1>10. ASSUME NEW p \in Providers, NEW tier \in 0..2, SetZkTier(p, tier)
       PROVE  RegistryInv' /\ CountsKept /\ Quiet({Registry})
  <2>1. providers' = [providers EXCEPT ![p] = [providers[p] EXCEPT !.zkTier = tier]]
    BY <1>1, <1>10 DEF SetZkTier
  <2>2. [providers[p] EXCEPT !.zkTier = tier] \in Provider
    BY <1>1 DEF Provider
  <2> QED
    BY <1>1, <1>6, <1>10, <2>1, <2>2 DEF SetZkTier, Registered, Provider
<1>11. ASSUME NEW p \in Providers, NEW n \in Nat, n <= providers[p].stake, Registered(p),
              NEW to \in Accounts \cup (Contracts \ Bookkeepers),
              CanPay(usdc, Registry, n), usdc' = Transfer(usdc, Registry, to, n),
              providers' = [providers EXCEPT ![p].stake = @ - n], now' = now
       PROVE  RegistryInv' /\ CountsKept /\ Quiet({Registry})
  <2> DEFINE record == [providers[p] EXCEPT !.stake = @ - n]
  <2>1. /\ record \in Provider /\ record.registered = TRUE
        /\ record.stake = providers[p].stake - n /\ providers[p].stake \in Nat
        /\ record.pendingCalls = providers[p].pendingCalls
        /\ record.completedCalls = providers[p].completedCalls
        /\ record.slashedCalls = providers[p].slashedCalls
    BY <1>1, <1>11 DEF Provider, Registered
  <2>2. providers' = [providers EXCEPT ![p] = record]
    BY <1>1, <1>11
  <2> HIDE DEF record
  <2>3. to \in Addresses /\ to # Registry
    BY <1>2, <1>11
  <2>4. usdc' \in Ledgers /\ usdc'[Registry] = usdc[Registry] - n
    BY <1>1, <1>2, <1>11, <2>3, TransferLedger
  <2>5. Quiet({Registry})
    BY <1>1, <1>2, <1>11, <2>3, TransferQuiet
  <2>6. CountsKept
    BY <2>1, <2>2, RecordKeepsCounts
  <2>7. usdc'[Registry] = usdc[Registry] - providers[p].stake + record.stake
    BY <1>1, <1>2, <2>1, <2>4
  <2>8. RegistryInv'
    BY <1>1, <1>11, <2>1, <2>2, <2>4, <2>7, RecordWritten
  <2> QED
    BY <2>5, <2>6, <2>8
<1>12. ASSUME NEW p \in Providers, Unstake(p)
       PROVE  RegistryInv' /\ CountsKept /\ Quiet({Registry})
  <2>1. providers[p].stake \in Nat /\ providers[p].stake - providers[p].stake = 0
    BY <1>1 DEF Provider
  <2>2. providers' = [providers EXCEPT ![p].stake = @ - providers[p].stake]
    <3>1. providers' = [providers EXCEPT ![p] = [providers[p] EXCEPT !.stake = 0]]
      BY <1>1, <1>12 DEF Unstake
    <3> QED
      BY <1>1, <2>1, <3>1
  <2>3. /\ Registered(p) /\ CanPay(usdc, Registry, providers[p].stake) /\ now' = now
        /\ usdc' = Transfer(usdc, Registry, p, providers[p].stake)
        /\ p \in Accounts \cup (Contracts \ Bookkeepers) /\ providers[p].stake <= providers[p].stake
    BY <1>2, <1>12, <2>1 DEF Unstake
  <2> QED
    BY <1>11, <2>1, <2>2, <2>3
<1>13. ASSUME NEW p \in Providers, NEW s \in OtherSlashers, NEW amount \in SlashAmounts,
              NEW recipient \in SlashRecipients, Slash(s, p, amount, recipient)
       PROVE  RegistryInv' /\ CountsKept /\ Quiet({Registry})
  <2>1. amount \in Nat /\ recipient \in Accounts \cup (Contracts \ Bookkeepers)
    BY RegistryAssumption, MarketsAssumption
  <2> QED
    BY <1>11, <1>13, <2>1 DEF Slash, Slashed
<1>14. CASE \/ \E c \in PayPerCalls : SetPayPerCall(c) \/ ProposePayPerCall(c)
            \/ ExecutePayPerCall
            \/ \E s \in Slashers : AuthorizeSlasher(s) \/ RevokeSlasher(s)
            \/ Tick
  <2>1. Tick => now' \in Nat /\ providers' = providers /\ usdc' = usdc
    BY <1>1 DEF Tick
  <2>2. \/ \E c \in PayPerCalls : SetPayPerCall(c) \/ ProposePayPerCall(c)
        \/ ExecutePayPerCall
        \/ \E s \in Slashers : AuthorizeSlasher(s) \/ RevokeSlasher(s)
        => providers' = providers /\ usdc' = usdc /\ now' = now
    BY DEF SetPayPerCall, ProposePayPerCall, ExecutePayPerCall, AuthorizeSlasher, RevokeSlasher
  <2>3. providers' = providers /\ usdc' = usdc /\ now' \in Nat
    BY <1>1, <1>14, <2>1, <2>2
  <2> QED
    BY <1>4, <2>3
<1> QED
  BY <1>5, <1>7, <1>8, <1>9, <1>10, <1>12, <1>13, <1>14 DEF RegistryStep

-----------------------------------------------------------------------------
(* The escrow: calls keep their shape, its balance is the money of the     *)
(* open calls and the credits, and the registry's three counters are the   *)
(* numbers of calls they stand for.                                        *)

Statuses == {"None", "Pending", "Completed", "Slashed"}
Counted == {"Pending", "Completed", "Slashed"}

Call == [provider : Providers \cup {NoAddress}, caller : Addresses \cup {NoAddress},
         amount : Nat, deadline : Nat, status : Statuses]

OpenMoney == [c \in CallIds |-> IF Pending(c) THEN calls[c].amount ELSE 0]

CallsOf(table, p, status) ==
  {c \in CallIds : table[c].provider = p /\ table[c].status = status}

CallsSound ==
  /\ calls \in [CallIds -> Call]
  /\ nonce \in Nat
  /\ \A c \in CallIds : calls[c].status = "None" <=> c >= nonce
  /\ \A c \in CallIds : calls[c].status = "None" => calls[c] = NoCall
  /\ \A c \in CallIds : calls[c].status # "None" =>
                          calls[c].provider \in Providers /\ calls[c].caller \in Addresses

CountersSound ==
  \A p \in Providers : /\ providers[p].pendingCalls = Cardinality(CallsOf(calls, p, "Pending"))
                       /\ providers[p].completedCalls = Cardinality(CallsOf(calls, p, "Completed"))
                       /\ providers[p].slashedCalls = Cardinality(CallsOf(calls, p, "Slashed"))

EscrowInv ==
  /\ CallsSound
  /\ CountersSound
  /\ claimable \in Ledgers
  /\ usdc[PPC] = Total(OpenMoney, CallIds) + Total(claimable, Addresses)

LEMMA EscrowUntouched ==
  ASSUME EscrowInv, CountsKept, UNCHANGED callVars, usdc'[PPC] = usdc[PPC]
  PROVE  EscrowInv'
<1>1. CallsSound'
  BY DEF callVars, EscrowInv, CallsSound
<1>2. \A p, status : CallsOf(calls', p, status) = CallsOf(calls, p, status)
  BY DEF callVars, CallsOf
<1>3. CountersSound'
  BY <1>2 DEF EscrowInv, CountersSound, CountsKept
<1>4. OpenMoney' = OpenMoney
  BY DEF callVars, OpenMoney, Pending
<1> QED
  BY <1>1, <1>3, <1>4 DEF EscrowInv, callVars

LEMMA EscrowStart == RegistryInit /\ CallInit => EscrowInv
<1> SUFFICES ASSUME RegistryInit, CallInit PROVE EscrowInv
  OBVIOUS
<1>1. NoCall \in Call /\ NoCall.status = "None" /\ NoCall.amount = 0
  BY DEF NoCall, Call, Statuses
<1>2. CallsSound
  BY <1>1 DEF CallInit, CallsSound, CallIds
<1>3. \A p, status : status \in Counted => CallsOf(calls, p, status) = {}
  BY <1>1 DEF CallInit, CallsOf, Counted
<1>4. CountersSound
  BY <1>3, FS_EmptySet DEF CountersSound, Counted, RegistryInit, NoProvider
<1>5. claimable \in Ledgers /\ \A a \in Addresses : claimable[a] = 0
  BY DEF CallInit, Ledgers
<1>6. \A c \in CallIds : OpenMoney[c] = 0
  BY <1>1 DEF CallInit, OpenMoney, Pending
<1>7. Total(OpenMoney, CallIds) = 0 /\ Total(claimable, Addresses) = 0
  BY <1>5, <1>6, Sizes, TotalZero
<1>8. usdc[PPC] = 0
  BY RegistryAssumption, Places DEF RegistryInit
<1> QED
  BY <1>2, <1>4, <1>5, <1>7, <1>8 DEF EscrowInv

(* What writing one call does to the money of the open calls, and to the   *)
(* number of calls of a provider with some status.                         *)
LEMMA MoneyWritten ==
  ASSUME calls \in [CallIds -> Call], NEW c \in CallIds, NEW call \in Call,
         calls' = [calls EXCEPT ![c] = call]
  PROVE  Total(OpenMoney', CallIds)
           = Total(OpenMoney, CallIds) - (IF calls[c].status = "Pending" THEN calls[c].amount ELSE 0)
               + (IF call.status = "Pending" THEN call.amount ELSE 0)
<1>1. \A d \in CallIds : OpenMoney[d] \in Nat /\ OpenMoney'[d] \in Nat
  BY DEF OpenMoney, Pending, Call
<1>2. \A d \in CallIds \ {c} : OpenMoney'[d] = OpenMoney[d]
  BY DEF OpenMoney, Pending
<1>3. /\ OpenMoney[c] = IF calls[c].status = "Pending" THEN calls[c].amount ELSE 0
      /\ OpenMoney'[c] = IF call.status = "Pending" THEN call.amount ELSE 0
  BY DEF OpenMoney, Pending
<1> QED
  BY <1>1, <1>2, <1>3, Sizes, TotalChange

LEMMA FewCalls ==
  ASSUME NEW table, NEW p, NEW status
  PROVE  IsFiniteSet(CallsOf(table, p, status)) /\ Cardinality(CallsOf(table, p, status)) \in Nat
<1>1. CallsOf(table, p, status) \in SUBSET CallIds
  BY DEF CallsOf
<1> QED
  BY <1>1, Sizes, FS_Subset, FS_CardinalityType

Writes(c, call) == calls' = [calls EXCEPT ![c] = call]

Written(call, p, status) == IF call.provider = p /\ call.status = status THEN 1 ELSE 0

LEMMA CountWritten ==
  ASSUME calls \in [CallIds -> Call], NEW c \in CallIds, NEW call \in Call,
         Writes(c, call), call.status # calls[c].status,
         NEW p, NEW status
  PROVE  Cardinality(CallsOf(calls', p, status))
           = Cardinality(CallsOf(calls, p, status))
               - Written(calls[c], p, status) + Written(call, p, status)
<1> DEFINE old == CallsOf(calls, p, status)
           new == CallsOf(calls', p, status)
<1> SUFFICES Cardinality(new)
               = Cardinality(old) - Written(calls[c], p, status) + Written(call, p, status)
  OBVIOUS
<1>1. IsFiniteSet(old) /\ Cardinality(old) \in Nat
  BY FewCalls
<1>2. CASE calls[c].provider = p /\ calls[c].status = status
  <2>1. new = old \ {c} /\ c \in old
    BY <1>2 DEF CallsOf, Writes
  <2>2. Written(calls[c], p, status) = 1 /\ Written(call, p, status) = 0
    BY <1>2 DEF Written
  <2> HIDE DEF old, new
  <2>3. Cardinality(new) = Cardinality(old) - 1
    BY <1>1, <2>1, FS_RemoveElement
  <2> QED
    BY <1>1, <2>2, <2>3
<1>3. CASE call.provider = p /\ call.status = status
  <2>1. new = old \cup {c} /\ c \notin old
    BY <1>3 DEF CallsOf, Writes
  <2>2. Written(calls[c], p, status) = 0 /\ Written(call, p, status) = 1
    BY <1>3 DEF Written
  <2> HIDE DEF old, new
  <2>3. Cardinality(new) = Cardinality(old) + 1
    BY <1>1, <2>1, FS_AddElement
  <2> QED
    BY <1>1, <2>2, <2>3
<1>4. CASE /\ ~(calls[c].provider = p /\ calls[c].status = status)
           /\ ~(call.provider = p /\ call.status = status)
  <2>1. new = old
    BY <1>4 DEF CallsOf, Writes
  <2>2. Written(calls[c], p, status) = 0 /\ Written(call, p, status) = 0
    BY <1>4 DEF Written
  <2> HIDE DEF old, new
  <2> QED
    BY <1>1, <2>1, <2>2
<1> QED
  BY <1>2, <1>3, <1>4

(* A call is opened, or an open one gets its outcome, and the registry's   *)
(* counters and the escrow's balance move along.                           *)
LEMMA CallWritten ==
  ASSUME EscrowInv, NEW c \in CallIds, NEW call \in Call,
         calls' = [calls EXCEPT ![c] = call], call.status \notin {calls[c].status, "None"},
         call.provider \in Providers, call.caller \in Addresses,
         \/ c = nonce /\ nonce' = nonce + 1
         \/ calls[c].status # "None" /\ nonce' = nonce,
         claimable' \in Ledgers,
         usdc'[PPC] - Total(claimable', Addresses)
           = usdc[PPC] - Total(claimable, Addresses)
               - (IF calls[c].status = "Pending" THEN calls[c].amount ELSE 0)
               + (IF call.status = "Pending" THEN call.amount ELSE 0),
         usdc \in Ledgers, usdc' \in Ledgers,
         \A p \in Providers :
           /\ providers'[p].pendingCalls = providers[p].pendingCalls
                - Written(calls[c], p, "Pending") + Written(call, p, "Pending")
           /\ providers'[p].completedCalls = providers[p].completedCalls
                - Written(calls[c], p, "Completed") + Written(call, p, "Completed")
           /\ providers'[p].slashedCalls = providers[p].slashedCalls
                - Written(calls[c], p, "Slashed") + Written(call, p, "Slashed")
  PROVE  EscrowInv'
<1>1. CallsSound
  BY DEF EscrowInv
<1>2. CallsSound'
  <2>1. calls' \in [CallIds -> Call] /\ nonce' \in Nat
    BY <1>1 DEF CallsSound
  <2>2. ASSUME NEW d \in CallIds
        PROVE  calls'[d].status = "None" <=> d >= nonce'
    <3>1. CASE d = c
      BY <1>1, <3>1 DEF CallsSound, CallIds
    <3>2. CASE d # c
      BY <1>1, <3>2, PayPerCallAssumption DEF CallsSound, CallIds
    <3> QED
      BY <3>1, <3>2
  <2>3. ASSUME NEW d \in CallIds
        PROVE  /\ calls'[d].status = "None" => calls'[d] = NoCall
               /\ calls'[d].status # "None" =>
                    calls'[d].provider \in Providers /\ calls'[d].caller \in Addresses
    BY <1>1 DEF CallsSound
  <2> QED
    BY <2>1, <2>2, <2>3 DEF CallsSound
<1>3. CountersSound'
  <2> SUFFICES ASSUME NEW p \in Providers
               PROVE  /\ providers'[p].pendingCalls = Cardinality(CallsOf(calls', p, "Pending"))
                      /\ providers'[p].completedCalls = Cardinality(CallsOf(calls', p, "Completed"))
                      /\ providers'[p].slashedCalls = Cardinality(CallsOf(calls', p, "Slashed"))
    BY DEF CountersSound
  <2>1. calls \in [CallIds -> Call]
    BY <1>1 DEF CallsSound
  <2>2. ASSUME NEW status
        PROVE  Cardinality(CallsOf(calls', p, status))
                 = Cardinality(CallsOf(calls, p, status))
                     - Written(calls[c], p, status) + Written(call, p, status)
    <3>1. Writes(c, call) /\ call.status # calls[c].status /\ c \in CallIds /\ call \in Call
      BY DEF Writes
    <3> QED
      BY ONLY <2>1, <3>1, CountWritten, Zenon
  <2>3. /\ providers[p].pendingCalls = Cardinality(CallsOf(calls, p, "Pending"))
        /\ providers[p].completedCalls = Cardinality(CallsOf(calls, p, "Completed"))
        /\ providers[p].slashedCalls = Cardinality(CallsOf(calls, p, "Slashed"))
    BY DEF EscrowInv, CountersSound
  <2> QED
    BY <2>2, <2>3
<1>4. Total(OpenMoney', CallIds)
        = Total(OpenMoney, CallIds) - (IF calls[c].status = "Pending" THEN calls[c].amount ELSE 0)
            + (IF call.status = "Pending" THEN call.amount ELSE 0)
  BY <1>1, MoneyWritten DEF CallsSound
<1>5. usdc'[PPC] = Total(OpenMoney', CallIds) + Total(claimable', Addresses)
  <2>1. \A a \in Addresses : claimable[a] \in Nat /\ claimable'[a] \in Nat
    BY DEF EscrowInv, Ledgers
  <2>2. Total(claimable, Addresses) \in Nat /\ Total(claimable', Addresses) \in Nat
    BY <2>1, Sizes, TotalNat
  <2>3. \A d \in CallIds : OpenMoney[d] \in Nat
    BY <1>1 DEF CallsSound, OpenMoney, Pending, Call
  <2>4. Total(OpenMoney, CallIds) \in Nat /\ calls[c].amount \in Nat /\ call.amount \in Nat
    BY <1>1, <2>3, Sizes, TotalNat DEF CallsSound, Call
  <2>5. usdc[PPC] \in Nat /\ usdc'[PPC] \in Nat
    BY Places DEF Ledgers
  <2>6. usdc[PPC] = Total(OpenMoney, CallIds) + Total(claimable, Addresses)
    BY DEF EscrowInv
  <2> QED
    BY <1>4, <2>2, <2>4, <2>5, <2>6
<1> QED
  BY <1>2, <1>3, <1>5 DEF EscrowInv

-----------------------------------------------------------------------------
(* What a transaction of the escrow does to the books.                     *)

BaseInv == RegistryInv /\ EscrowInv

LEMMA CreditTotal ==
  ASSUME NEW ledger \in Ledgers, NEW to \in Addresses, NEW n \in Nat
  PROVE  Total(Credit(ledger, to, n), Addresses) = Total(ledger, Addresses) + n
<1> DEFINE after == Credit(ledger, to, n)
<1>1. after \in Ledgers /\ \A a \in Addresses : after[a] = ledger[a] + (IF a = to THEN n ELSE 0)
  BY CreditLedger
<1> HIDE DEF after
<1>2. \A a \in Addresses : ledger[a] \in Nat /\ after[a] \in Nat
  BY <1>1 DEF Ledgers
<1>3. \A a \in Addresses \ {to} : after[a] = ledger[a]
  BY <1>1, <1>2
<1>4. Total(after, Addresses) = Total(ledger, Addresses) - ledger[to] + after[to]
  BY <1>2, <1>3, Sizes, TotalChange
<1>5. after[to] = ledger[to] + n /\ ledger[to] \in Nat /\ Total(ledger, Addresses) \in Nat
  BY <1>1, <1>2, Sizes, TotalNat
<1>6. Total(after, Addresses) = Total(ledger, Addresses) + n
  BY <1>4, <1>5
<1> QED
  BY <1>6 DEF after

(* What happens to the calls: one that was opened keeps its parties and    *)
(* its price, an outcome stays, and the counts of outcomes only grow.      *)
CallsGrow ==
  /\ nonce' >= nonce
  /\ \A c \in CallIds : calls[c].status # "None" =>
       /\ calls'[c].provider = calls[c].provider
       /\ calls'[c].caller = calls[c].caller
       /\ calls'[c].amount = calls[c].amount
       /\ calls'[c].status # "None"
       /\ calls[c].status \in {"Completed", "Slashed"} => calls'[c].status = calls[c].status
  /\ \A p \in Providers : /\ providers'[p].completedCalls >= providers[p].completedCalls
                          /\ providers'[p].slashedCalls >= providers[p].slashedCalls

LEMMA CallsStay ==
  ASSUME BaseInv, BaseInv', CountsKept, UNCHANGED callVars
  PROVE  CallsGrow
<1>1. \A p \in Providers : providers[p].completedCalls \in Nat /\ providers[p].slashedCalls \in Nat
  BY DEF BaseInv, RegistryInv, Provider
<1>2. nonce \in Nat
  BY DEF BaseInv, EscrowInv, CallsSound
<1> QED
  BY <1>1, <1>2 DEF callVars, CountsKept, CallsGrow

(* A call is opened with money from a payer outside the two contracts; the *)
(* ledger it starts from may have just moved that money to the payer.      *)
LEMMA CreateCallBase ==
  ASSUME BaseInv, NEW ledger \in Ledgers, ledger[Registry] = usdc[Registry],
         ledger[PPC] = usdc[PPC], NEW p \in Providers, NEW caller \in Addresses,
         NEW payer \in Addresses \ {PPC, Registry}, CreateCall(ledger, p, caller, payer)
  PROVE  /\ BaseInv' /\ CallsGrow
         /\ nonce \in CallIds /\ calls[nonce] = NoCall /\ nonce' = nonce + 1
         /\ providers[p].price \in Nat
         /\ calls' = [calls EXCEPT ![nonce] =
              [provider |-> p, caller |-> caller, amount |-> providers[p].price,
               deadline |-> now + providers[p].maxResponseTime, status |-> "Pending"]]
         /\ usdc' \in Ledgers /\ claimable' = claimable
         /\ \A a \in Addresses : usdc'[a] = ledger[a] - (IF a = payer THEN providers[p].price ELSE 0)
                                              + (IF a = PPC THEN providers[p].price ELSE 0)
<1> DEFINE price == providers[p].price
           call == [provider |-> p, caller |-> caller, amount |-> price,
                    deadline |-> now + providers[p].maxResponseTime, status |-> "Pending"]
           record == [providers[p] EXCEPT !.pendingCalls = @ + 1]
<1>1. /\ providers \in [Providers -> Provider] /\ usdc \in Ledgers /\ now \in Nat
      /\ \A q \in Providers : ~Registered(q) => providers[q] = NoProvider
  BY DEF BaseInv, RegistryInv
<1>2. /\ providers[p] \in Provider /\ price \in Nat /\ providers[p].maxResponseTime \in Nat
      /\ providers[p].stake \in Nat /\ providers[p].pendingCalls \in Nat
      /\ providers[p].completedCalls \in Nat /\ providers[p].slashedCalls \in Nat
  BY <1>1 DEF Provider
<1>3. Registered(p)
  BY <1>1 DEF CreateCall, MayOpen, NoProvider
<1>4. /\ nonce \in CallIds /\ nonce' = nonce + 1 /\ CanPay(ledger, payer, price)
      /\ calls' = [calls EXCEPT ![nonce] = call]
      /\ usdc' = Transfer(ledger, payer, PPC, price)
      /\ providers' = CallStarted(providers, p) /\ now' = now /\ claimable' = claimable
  BY DEF CreateCall
<1>5. /\ record \in Provider /\ record.registered = TRUE /\ record.stake = providers[p].stake
      /\ record.pendingCalls = providers[p].pendingCalls + 1
      /\ record.completedCalls = providers[p].completedCalls
      /\ record.slashedCalls = providers[p].slashedCalls
      /\ providers' = [providers EXCEPT ![p] = record]
  BY <1>1, <1>2, <1>3, <1>4 DEF Provider, Registered, CallStarted
<1>6. /\ PPC \in Addresses /\ Registry \in Addresses /\ PPC # Registry
      /\ \A a \in Addresses : ledger[a] \in Nat /\ usdc[a] \in Nat
  BY <1>1, Places DEF Ledgers
<1>7. /\ usdc' \in Ledgers
      /\ \A a \in Addresses : usdc'[a] = ledger[a] - (IF a = payer THEN price ELSE 0)
                                              + (IF a = PPC THEN price ELSE 0)
  BY <1>2, <1>4, <1>6, TransferLedger
<1>8. CallsSound
  BY DEF BaseInv, EscrowInv
<1>9. nonce \in CallIds /\ calls[nonce] = NoCall /\ calls[nonce].status = "None"
      /\ nonce \in Nat /\ calls[nonce].provider = NoAddress
  BY <1>4, <1>8 DEF CallsSound, CallIds, NoCall
<1>10. call \in Call /\ call.status = "Pending" /\ call.provider = p /\ call.caller = caller
       /\ call.amount = price
  BY <1>1, <1>2 DEF Call, Statuses
<1>11. /\ providers'[p] = record
       /\ \A q \in Providers : q # p => providers'[q] = providers[q]
  BY <1>1, <1>5
<1> HIDE DEF call, record, price
<1>12. RegistryInv'
  <2>1. usdc'[Registry] = usdc[Registry] - providers[p].stake + record.stake
    BY <1>2, <1>5, <1>6, <1>7
  <2> QED
    BY <1>1, <1>4, <1>5, <1>7, <2>1, RecordWritten DEF BaseInv
<1>13. ASSUME NEW q \in Providers
       PROVE  /\ providers'[q].pendingCalls = providers[q].pendingCalls
                   - Written(calls[nonce], q, "Pending") + Written(call, q, "Pending")
              /\ providers'[q].completedCalls = providers[q].completedCalls
                   - Written(calls[nonce], q, "Completed") + Written(call, q, "Completed")
              /\ providers'[q].slashedCalls = providers[q].slashedCalls
                   - Written(calls[nonce], q, "Slashed") + Written(call, q, "Slashed")
  <2>1. /\ Written(calls[nonce], q, "Pending") = 0 /\ Written(calls[nonce], q, "Completed") = 0
        /\ Written(calls[nonce], q, "Slashed") = 0 /\ Written(call, q, "Completed") = 0
        /\ Written(call, q, "Slashed") = 0
        /\ Written(call, q, "Pending") = IF q = p THEN 1 ELSE 0
    BY <1>9, <1>10 DEF Written
  <2>2. /\ providers[q].pendingCalls \in Nat /\ providers[q].completedCalls \in Nat
        /\ providers[q].slashedCalls \in Nat
    BY <1>1 DEF Provider
  <2> QED
    BY <1>5, <1>11, <2>1, <2>2
<1>14. usdc'[PPC] - Total(claimable', Addresses)
         = usdc[PPC] - Total(claimable, Addresses)
             - (IF calls[nonce].status = "Pending" THEN calls[nonce].amount ELSE 0)
             + (IF call.status = "Pending" THEN call.amount ELSE 0)
  <2>1. \A a \in Addresses : claimable[a] \in Nat
    BY DEF BaseInv, EscrowInv, Ledgers
  <2>2. Total(claimable, Addresses) \in Nat
    BY <2>1, Sizes, TotalNat
  <2>3. usdc'[PPC] = usdc[PPC] + price
    BY <1>2, <1>6, <1>7 DEF price
  <2>4. Total(claimable', Addresses) = Total(claimable, Addresses)
    BY <1>4
  <2> QED
    BY <1>2, <1>6, <1>9, <1>10, <2>2, <2>3, <2>4
<1>15. EscrowInv'
  <2>1. claimable' \in Ledgers /\ EscrowInv
    BY <1>4 DEF BaseInv, EscrowInv
  <2>2. call.status \notin {calls[nonce].status, "None"} /\ call.provider \in Providers
        /\ call.caller \in Addresses
    BY <1>9, <1>10
  <2> QED
    BY <1>1, <1>4, <1>7, <1>9, <1>10, <1>13, <1>14, <2>1, <2>2, CallWritten
<1>16. CallsGrow
  <2>1. \A c \in CallIds : calls[c].status # "None" => calls'[c] = calls[c]
    BY <1>4, <1>8, <1>9 DEF CallsSound
  <2>2. \A q \in Providers : /\ providers'[q].completedCalls = providers[q].completedCalls
                             /\ providers'[q].slashedCalls = providers[q].slashedCalls
                             /\ providers[q].completedCalls \in Nat
                             /\ providers[q].slashedCalls \in Nat
    BY <1>1, <1>5, <1>11 DEF Provider
  <2> QED
    BY <1>4, <1>9, <2>1, <2>2 DEF CallsGrow
<1> QED
  BY <1>2, <1>4, <1>7, <1>9, <1>12, <1>15, <1>16 DEF BaseInv, price, call

(* An open call gets its outcome: the registry hands over the slash, none  *)
(* for an answer, and the price and the slash are credited to one party.   *)
Settling(c, status, slash, to, p, record) ==
  /\ Pending(c) /\ status \in {"Completed", "Slashed"} /\ slash \in Nat /\ to \in Addresses
  /\ p = calls[c].provider /\ providers[p].pendingCalls > 0
  /\ calls' = [calls EXCEPT ![c].status = status] /\ nonce' = nonce /\ now' = now
  /\ record \in Provider /\ providers' = [providers EXCEPT ![p] = record]
  /\ record.registered = providers[p].registered
  /\ record.stake = providers[p].stake - slash
  /\ record.pendingCalls = providers[p].pendingCalls - 1
  /\ record.completedCalls
       = providers[p].completedCalls + (IF status = "Completed" THEN 1 ELSE 0)
  /\ record.slashedCalls = providers[p].slashedCalls + (IF status = "Slashed" THEN 1 ELSE 0)
  /\ claimable' = Credit(claimable, to, calls[c].amount + slash)
  /\ usdc' \in Ledgers /\ usdc'[Registry] = usdc[Registry] - slash
  /\ usdc'[PPC] = usdc[PPC] + slash

LEMMA SettlesBase ==
  ASSUME BaseInv, NEW c \in CallIds, NEW status, NEW slash, NEW to, NEW p, NEW record,
         Settling(c, status, slash, to, p, record)
  PROVE  BaseInv' /\ CallsGrow
<1> USE DEF Settling
<1> DEFINE call == [calls[c] EXCEPT !.status = status]
<1>1. /\ providers \in [Providers -> Provider] /\ usdc \in Ledgers /\ now \in Nat
      /\ \A q \in Providers : ~Registered(q) => providers[q] = NoProvider
  BY DEF BaseInv, RegistryInv
<1>2. CallsSound
  BY DEF BaseInv, EscrowInv
<1>3. /\ calls[c] \in Call /\ calls[c].status = "Pending" /\ p \in Providers
      /\ calls[c].caller \in Addresses /\ calls[c].amount \in Nat /\ nonce \in Nat
  BY <1>2 DEF CallsSound, Pending, Call
<1>4. /\ call \in Call /\ call.status = status /\ call.provider = p
      /\ call.caller = calls[c].caller /\ call.amount = calls[c].amount
      /\ calls' = [calls EXCEPT ![c] = call]
  BY <1>2, <1>3 DEF Call, Statuses, CallsSound
<1>5. /\ providers[p] \in Provider /\ providers[p].stake \in Nat
      /\ providers[p].pendingCalls \in Nat \ {0}
      /\ providers[p].completedCalls \in Nat /\ providers[p].slashedCalls \in Nat
  BY <1>1, <1>3 DEF Provider
<1>6. Registered(p)
  BY <1>1, <1>3, <1>5 DEF NoProvider
<1>7. record.registered = TRUE
  BY <1>6 DEF Registered
<1>8. /\ providers'[p] = record
      /\ \A q \in Providers : q # p => providers'[q] = providers[q]
  BY <1>1, <1>3
<1>9. PPC \in Addresses /\ Registry \in Addresses /\ \A a \in Addresses : usdc[a] \in Nat
  BY <1>1, Places DEF Ledgers
<1> HIDE DEF call
<1>10. RegistryInv'
  <2>1. usdc'[Registry] = usdc[Registry] - providers[p].stake + record.stake
    BY <1>5, <1>7, <1>9
  <2> QED
    BY <1>1, <1>3, <1>7, <2>1, RecordWritten DEF BaseInv
<1>11. ASSUME NEW q \in Providers
       PROVE  /\ providers'[q].pendingCalls = providers[q].pendingCalls
                   - Written(calls[c], q, "Pending") + Written(call, q, "Pending")
              /\ providers'[q].completedCalls = providers[q].completedCalls
                   - Written(calls[c], q, "Completed") + Written(call, q, "Completed")
              /\ providers'[q].slashedCalls = providers[q].slashedCalls
                   - Written(calls[c], q, "Slashed") + Written(call, q, "Slashed")
  <2>1. /\ Written(calls[c], q, "Pending") = (IF q = p THEN 1 ELSE 0)
        /\ Written(calls[c], q, "Completed") = 0 /\ Written(calls[c], q, "Slashed") = 0
        /\ Written(call, q, "Pending") = 0
        /\ Written(call, q, "Completed") = IF q = p /\ status = "Completed" THEN 1 ELSE 0
        /\ Written(call, q, "Slashed") = IF q = p /\ status = "Slashed" THEN 1 ELSE 0
    BY <1>3, <1>4 DEF Written
  <2>2. /\ providers[q].pendingCalls \in Nat /\ providers[q].completedCalls \in Nat
        /\ providers[q].slashedCalls \in Nat
    BY <1>1 DEF Provider
  <2>3. CASE q = p
    <3>1. /\ providers'[q] = record
          /\ record.pendingCalls = providers[q].pendingCalls - 1
          /\ record.completedCalls
               = providers[q].completedCalls + (IF status = "Completed" THEN 1 ELSE 0)
          /\ record.slashedCalls
               = providers[q].slashedCalls + (IF status = "Slashed" THEN 1 ELSE 0)
      BY <1>8, <2>3
    <3>2. CASE status = "Completed"
      BY <2>1, <2>2, <2>3, <3>1, <3>2
    <3>3. CASE status = "Slashed"
      BY <2>1, <2>2, <2>3, <3>1, <3>3
    <3> QED
      BY <3>2, <3>3
  <2>4. CASE q # p
    BY <1>8, <2>1, <2>2, <2>4
  <2> QED
    BY <2>3, <2>4
<1>12. /\ claimable' \in Ledgers
       /\ Total(claimable', Addresses) = Total(claimable, Addresses) + calls[c].amount + slash
       /\ Total(claimable, Addresses) \in Nat
  <2>1. claimable \in Ledgers
    BY DEF BaseInv, EscrowInv
  <2>2. Total(claimable, Addresses) \in Nat
    BY <2>1, Sizes, TotalNat DEF Ledgers
  <2> DEFINE n == calls[c].amount + slash
  <2>3. n \in Nat /\ claimable' = Credit(claimable, to, n) /\ to \in Addresses
    BY <1>3
  <2> HIDE DEF n
  <2>4. /\ Credit(claimable, to, n) \in Ledgers
        /\ Total(Credit(claimable, to, n), Addresses) = Total(claimable, Addresses) + n
    BY ONLY <2>1, <2>3, CreditLedger, CreditTotal, Zenon
  <2> QED
    BY <1>3, <2>2, <2>3, <2>4 DEF n
<1>13. usdc'[PPC] - Total(claimable', Addresses)
         = usdc[PPC] - Total(claimable, Addresses)
             - (IF calls[c].status = "Pending" THEN calls[c].amount ELSE 0)
             + (IF call.status = "Pending" THEN call.amount ELSE 0)
  BY <1>3, <1>4, <1>9, <1>12
<1>14. EscrowInv'
  <2>1. EscrowInv
    BY DEF BaseInv
  <2>2. call.status \notin {calls[c].status, "None"} /\ call.provider \in Providers
        /\ call.caller \in Addresses /\ calls[c].status # "None"
    BY <1>3, <1>4
  <2> QED
    BY <1>1, <1>4, <1>11, <1>12, <1>13, <2>1, <2>2, CallWritten
<1>15. CallsGrow
  <2>1. \A d \in CallIds : d # c => calls'[d] = calls[d]
    BY <1>2, <1>4 DEF CallsSound
  <2>2. calls'[c] = call
    BY <1>2, <1>4 DEF CallsSound
  <2>3. \A q \in Providers : /\ providers'[q].completedCalls >= providers[q].completedCalls
                             /\ providers'[q].slashedCalls >= providers[q].slashedCalls
    BY <1>1, <1>7, <1>8 DEF Provider
  <2> QED
    BY <1>3, <1>4, <2>1, <2>2, <2>3 DEF CallsGrow
<1> QED
  BY <1>10, <1>14, <1>15 DEF BaseInv

LEMMA ShareOfStake ==
  ASSUME RegistryInv, NEW p \in Providers, NEW bps \in 0..Bps
  PROVE  /\ (providers[p].stake * bps) \div Bps \in Nat
         /\ (providers[p].stake * bps) \div Bps <= providers[p].stake
<1>1. providers[p].stake \in Nat /\ bps \in Nat /\ Bps \in Nat \ {0} /\ bps <= Bps
  BY RegistryAssumption DEF RegistryInv, Provider
<1> QED
  BY <1>1, ShareBound

LEMMA SubmitReceiptBase ==
  ASSUME BaseInv, NEW c \in CallIds, SubmitReceipt(c)
  PROVE  BaseInv' /\ CallsGrow /\ Quiet({PPC, Registry})
<1> DEFINE p == calls[c].provider
<1>1. /\ providers \in [Providers -> Provider] /\ usdc \in Ledgers
      /\ PPC \in Addresses /\ Registry \in Addresses
  BY Places DEF BaseInv, RegistryInv
<1>2. /\ Pending(c) /\ providers[p].pendingCalls > 0 /\ now' = now /\ nonce' = nonce
      /\ calls' = [calls EXCEPT ![c].status = "Completed"] /\ usdc' = usdc
      /\ providers' = IncCompleted(CallFinished(providers, p), p)
      /\ claimable' = Credit(claimable, p, calls[c].amount)
  BY DEF SubmitReceipt, HooksAccept
<1>3. p \in Providers /\ calls[c].amount \in Nat /\ p \in Addresses
  BY <1>2, Places DEF BaseInv, EscrowInv, CallsSound, Pending, Call
<1>4. providers[p] \in Provider /\ providers[p].stake \in Nat /\ providers[p].slashedCalls \in Nat
      /\ providers[p].pendingCalls \in Nat /\ providers[p].completedCalls \in Nat
  BY <1>1, <1>3 DEF Provider
<1> DEFINE record == [providers[p] EXCEPT !.pendingCalls = @ - 1, !.completedCalls = @ + 1]
<1>5. /\ record \in Provider /\ providers' = [providers EXCEPT ![p] = record]
      /\ record.registered = providers[p].registered
      /\ record.stake = providers[p].stake - 0
      /\ record.pendingCalls = providers[p].pendingCalls - 1
      /\ record.completedCalls = providers[p].completedCalls + 1
      /\ record.slashedCalls = providers[p].slashedCalls + 0
  <2>1. providers' = [providers EXCEPT ![p] = record]
    BY <1>1, <1>2, <1>3 DEF IncCompleted, CallFinished
  <2>2. providers[p].pendingCalls - 1 \in Nat /\ providers[p].completedCalls + 1 \in Nat
    BY <1>2, <1>4
  <2>3. record \in Provider
    BY <1>4, <2>2 DEF Provider
  <2>4. /\ record.registered = providers[p].registered
        /\ record.stake = providers[p].stake - 0
        /\ record.pendingCalls = providers[p].pendingCalls - 1
        /\ record.completedCalls = providers[p].completedCalls + 1
        /\ record.slashedCalls = providers[p].slashedCalls + 0
    BY <1>4 DEF Provider
  <2> QED
    BY <2>1, <2>3, <2>4
<1> HIDE DEF record
<1>6. claimable' = Credit(claimable, p, calls[c].amount + 0)
  BY <1>2, <1>3
<1>7. usdc'[Registry] = usdc[Registry] - 0 /\ usdc'[PPC] = usdc[PPC] + 0 /\ usdc' \in Ledgers
  BY <1>1, <1>2 DEF Ledgers
<1>8. Settling(c, "Completed", 0, p, p, record)
  BY <1>2, <1>3, <1>5, <1>6, <1>7 DEF Settling
<1>9. BaseInv' /\ CallsGrow
  BY <1>8, SettlesBase
<1> QED
  BY <1>1, <1>2, <1>9, StillQuiet

LEMMA ClaimTimeoutBase ==
  ASSUME BaseInv, NEW c \in CallIds, ClaimTimeout(c)
  PROVE  BaseInv' /\ CallsGrow /\ Quiet({PPC, Registry})
<1> DEFINE p == calls[c].provider
           slash == SlashShare(p)
<1>1. /\ providers \in [Providers -> Provider] /\ usdc \in Ledgers
      /\ PPC \in Addresses /\ Registry \in Addresses /\ PPC # Registry
  BY Places DEF BaseInv, RegistryInv
<1>2. /\ Pending(c) /\ providers[p].pendingCalls > 0 /\ now' = now /\ nonce' = nonce
      /\ calls' = [calls EXCEPT ![c].status = "Slashed"]
      /\ CanPay(usdc, Registry, slash) /\ usdc' = Transfer(usdc, Registry, PPC, slash)
      /\ providers' = Slashed(IncSlashed(CallFinished(providers, p), p), p, slash)
      /\ claimable' = Credit(claimable, calls[c].caller, calls[c].amount + slash)
  BY DEF ClaimTimeout, HooksAccept
<1>3. p \in Providers /\ calls[c].caller \in Addresses
  BY <1>2 DEF BaseInv, EscrowInv, CallsSound, Pending, Call
<1>4. providers[p] \in Provider /\ providers[p].stake \in Nat /\ providers[p].slashedCalls \in Nat
      /\ providers[p].pendingCalls \in Nat /\ providers[p].completedCalls \in Nat
      /\ providers[p].slashBps \in 0..Bps
  BY <1>1, <1>3 DEF Provider
<1>5. slash \in Nat /\ slash <= providers[p].stake
  BY <1>3, <1>4, ShareOfStake DEF BaseInv, SlashShare
<1> HIDE DEF slash
<1> DEFINE record == [providers[p] EXCEPT !.pendingCalls = @ - 1, !.slashedCalls = @ + 1,
                                          !.stake = @ - slash]
<1>6. /\ record \in Provider /\ providers' = [providers EXCEPT ![p] = record]
      /\ record.registered = providers[p].registered
      /\ record.stake = providers[p].stake - slash
      /\ record.pendingCalls = providers[p].pendingCalls - 1
      /\ record.completedCalls = providers[p].completedCalls + 0
      /\ record.slashedCalls = providers[p].slashedCalls + 1
  <2>1. providers' = [providers EXCEPT ![p] = record]
    BY <1>1, <1>2, <1>3 DEF IncSlashed, CallFinished, Slashed
  <2>2. providers[p].pendingCalls - 1 \in Nat /\ providers[p].slashedCalls + 1 \in Nat
        /\ providers[p].stake - slash \in Nat
    BY <1>2, <1>4, <1>5
  <2>3. record \in Provider
    BY <1>4, <2>2 DEF Provider
  <2>4. /\ record.registered = providers[p].registered
        /\ record.stake = providers[p].stake - slash
        /\ record.pendingCalls = providers[p].pendingCalls - 1
        /\ record.completedCalls = providers[p].completedCalls + 0
        /\ record.slashedCalls = providers[p].slashedCalls + 1
    BY <1>4 DEF Provider
  <2> QED
    BY <2>1, <2>3, <2>4
<1> HIDE DEF record
<1>7. usdc' \in Ledgers /\ usdc'[Registry] = usdc[Registry] - slash /\ usdc'[PPC] = usdc[PPC] + slash
  <2>1. usdc' \in Ledgers /\ \A a \in Addresses :
          usdc'[a] = usdc[a] - (IF a = Registry THEN slash ELSE 0) + (IF a = PPC THEN slash ELSE 0)
    BY <1>1, <1>2, <1>5, TransferLedger
  <2>2. usdc[Registry] \in Nat /\ usdc[PPC] \in Nat
    BY <1>1 DEF Ledgers
  <2> QED
    BY <1>1, <1>5, <2>1, <2>2
<1>8. BaseInv' /\ CallsGrow
  <2>1. Settling(c, "Slashed", slash, calls[c].caller, p, record)
    BY <1>2, <1>3, <1>5, <1>6, <1>7 DEF Settling
  <2> QED
    BY <2>1, SettlesBase
<1>9. Quiet({PPC, Registry})
  BY <1>1, <1>2, <1>5, TransferQuiet
<1> QED
  BY <1>8, <1>9

LEMMA ClaimBase ==
  ASSUME BaseInv, NEW a \in Accounts, Claim(a)
  PROVE  BaseInv' /\ CallsGrow /\ Quiet({PPC, Registry})
<1> DEFINE n == claimable[a]
<1>1. /\ claimable \in Ledgers /\ usdc \in Ledgers /\ a \in Addresses /\ a # PPC /\ a # Registry
      /\ PPC \in Addresses /\ Registry \in Addresses /\ PPC # Registry /\ n \in Nat
      /\ \A b \in Addresses : claimable[b] \in Nat /\ usdc[b] \in Nat
  BY Places, RegistryAssumption DEF BaseInv, RegistryInv, EscrowInv, Ledgers
<1>2. /\ CanPay(usdc, PPC, n) /\ usdc' = Transfer(usdc, PPC, a, n)
      /\ claimable' = [claimable EXCEPT ![a] = 0]
      /\ providers' = providers /\ now' = now /\ calls' = calls /\ nonce' = nonce
  BY DEF Claim
<1> HIDE DEF n
<1>3. usdc' \in Ledgers /\ usdc'[PPC] = usdc[PPC] - n /\ usdc'[Registry] = usdc[Registry]
  <2>1. usdc' \in Ledgers /\ \A b \in Addresses :
          usdc'[b] = usdc[b] - (IF b = PPC THEN n ELSE 0) + (IF b = a THEN n ELSE 0)
    BY <1>1, <1>2, TransferLedger
  <2> QED
    BY <1>1, <2>1
<1>4. Quiet({PPC, Registry})
  BY <1>1, <1>2, TransferQuiet
<1>5. claimable' \in Ledgers /\ \A b \in Addresses \ {a} : claimable'[b] = claimable[b]
  BY <1>1, <1>2 DEF Ledgers
<1>6. claimable'[a] = 0
  BY <1>1, <1>2 DEF Ledgers
<1>7. Total(claimable', Addresses) = Total(claimable, Addresses) - n
  <2>1. \A b \in Addresses : claimable[b] \in Nat /\ claimable'[b] \in Nat
    BY <1>1, <1>5 DEF Ledgers
  <2>2. Total(claimable', Addresses) = Total(claimable, Addresses) - claimable[a] + claimable'[a]
    BY <1>1, <1>5, <2>1, Sizes, TotalChange
  <2>3. Total(claimable, Addresses) \in Nat
    BY <2>1, Sizes, TotalNat
  <2> QED
    BY <1>1, <1>6, <2>2, <2>3 DEF n
<1>8. RegistryInv'
  <2>1. RegistryInv /\ now' \in Nat
    BY <1>2 DEF BaseInv, RegistryInv
  <2> QED
    BY <1>2, <1>3, <2>1, RegistryUntouched
<1>9. EscrowInv'
  <2>1. CallsSound' /\ CountersSound'
    BY <1>2 DEF BaseInv, EscrowInv, CallsSound, CountersSound
  <2>2. OpenMoney' = OpenMoney
    BY <1>2 DEF OpenMoney, Pending
  <2>3. usdc[PPC] = Total(OpenMoney, CallIds) + Total(claimable, Addresses)
    BY DEF BaseInv, EscrowInv
  <2>4. \A d \in CallIds : OpenMoney[d] \in Nat
    BY DEF BaseInv, EscrowInv, CallsSound, OpenMoney, Pending, Call
  <2>5. Total(OpenMoney, CallIds) \in Nat /\ Total(claimable, Addresses) \in Nat
    BY <1>1, <2>4, Sizes, TotalNat
  <2> QED
    BY <1>1, <1>3, <1>5, <1>7, <2>1, <2>2, <2>3, <2>5 DEF EscrowInv
<1>10. CallsGrow
  <2>1. \A p \in Providers : providers[p].completedCalls \in Nat /\ providers[p].slashedCalls \in Nat
    BY DEF BaseInv, RegistryInv, Provider
  <2>2. nonce \in Nat
    BY DEF BaseInv, EscrowInv, CallsSound
  <2> QED
    BY <1>2, <2>1, <2>2 DEF CallsGrow
<1> QED
  BY <1>4, <1>8, <1>9, <1>10 DEF BaseInv

(* Calls that accounts and contracts pay for out of their own pocket.      *)
LEMMA CallServiceBase ==
  ASSUME BaseInv, NEW p \in Providers, NEW caller \in Addresses,
         NEW payer \in Accounts \cup (Contracts \ Bookkeepers), CreateCall(usdc, p, caller, payer)
  PROVE  BaseInv' /\ CallsGrow /\ Quiet({PPC, payer})
<1>1. /\ usdc \in Ledgers /\ payer \in Addresses \ {PPC, Registry} /\ PPC \in Bookkeepers
      /\ \A a \in Addresses : usdc[a] \in Nat
  BY Places DEF BaseInv, RegistryInv, Bookkeepers, Ledgers
<1>2. /\ BaseInv' /\ CallsGrow /\ usdc' \in Ledgers /\ providers[p].price \in Nat
      /\ \A a \in Addresses : usdc'[a] = usdc[a] - (IF a = payer THEN providers[p].price ELSE 0)
                                              + (IF a = PPC THEN providers[p].price ELSE 0)
  BY <1>1, CreateCallBase
<1>3. Quiet({PPC, payer})
  BY <1>1, <1>2 DEF Quiet
<1> QED
  BY <1>2, <1>3

LEMMA SettlementMoves ==
  ASSUME BaseInv, SettlementStep
  PROVE  BaseInv' /\ CallsGrow /\ Quiet({PPC, Registry})
<1>1. ASSUME NEW p \in Providers, NEW caller \in Addresses, NEW payer \in Accounts,
             CreateCall(usdc, p, caller, payer)
      PROVE  BaseInv' /\ CallsGrow /\ Quiet({PPC, Registry})
  <2>1. BaseInv' /\ CallsGrow /\ Quiet({PPC, payer})
    BY <1>1, CallServiceBase
  <2>2. payer \notin Contracts
    BY <1>1, RegistryAssumption
  <2> QED
    BY <2>1, <2>2 DEF Quiet
<1>2. ASSUME NEW p \in Providers, NEW payer \in Payers, NEW beneficiary \in Beneficiaries,
             CallServiceFor(payer, beneficiary, p)
      PROVE  BaseInv' /\ CallsGrow /\ Quiet({PPC, Registry})
  <2>1. payer \in Accounts /\ beneficiary \in Addresses
    BY PayPerCallAssumption
  <2> QED
    BY <1>1, <1>2, <2>1 DEF CallServiceFor
<1>3. ASSUME NEW p \in Providers, NEW auth \in Authorizations, CallServiceWithAuthorization(auth, p)
      PROVE  BaseInv' /\ CallsGrow /\ Quiet({PPC, Registry})
  <2>1. auth.from \in Accounts /\ auth.from \in Addresses
    BY PayPerCallAssumption
  <2> QED
    BY <1>1, <1>3, <2>1 DEF CallServiceWithAuthorization
<1> QED
  BY <1>2, <1>3, SubmitReceiptBase, ClaimTimeoutBase, ClaimBase DEF SettlementStep

-----------------------------------------------------------------------------
(* The futures: the credit of a holder covers its slots.  With the types   *)
(* this is inductive: the only step that takes credit from a holder, a     *)
(* transfer, takes no more than what the remaining slots can spare,        *)
(* because the holder had enough for all.                                  *)

FuturesInv == FuturesTypeOK /\ HolderCovered

LEMMA SlotNumbers ==
  SlotCounts \subseteq Nat /\ BatchIds \subseteq Nat
BY FuturesAssumption DEF BatchIds

LEMMA InitCovered == FuturesInit => FuturesInv
BY DEF FuturesInit, FuturesInv, FuturesTypeOK, HolderCovered, NoSlots

LEMMA BuyCovered ==
  ASSUME FuturesInv, NEW h \in Holders, NEW b \in BatchIds, NEW n \in SlotCounts,
         BuySlots(h, b, n)
  PROVE  FuturesInv'
<1>1. /\ slots' = [slots EXCEPT ![b][h] = slots[b][h] + n]
      /\ purchased' = [purchased EXCEPT ![b][h] = purchased[b][h] + n]
      /\ refunded' = refunded
  BY DEF BuySlots
<1> QED
  BY <1>1, SlotNumbers DEF FuturesInv, FuturesTypeOK, HolderCovered

LEMMA BurnCovered ==
  ASSUME FuturesInv, NEW h \in Holders, NEW b \in BatchIds, BurnSlot(h, b)
  PROVE  FuturesInv'
<1>1. /\ slots' = [slots EXCEPT ![b][h] = slots[b][h] - 1] /\ slots[b][h] > 0
      /\ purchased' = purchased /\ refunded' = refunded
  BY DEF BurnSlot
<1> QED
  BY <1>1 DEF FuturesInv, FuturesTypeOK, HolderCovered

(* The credit that moves is at least what the receiver needs for the new   *)
(* slots, and leaves the sender at least what its other slots need.        *)
LEMMA TransferCovered ==
  ASSUME FuturesInv, NEW g \in Holders, NEW h \in Holders, NEW b \in BatchIds,
         NEW n \in SlotCounts, TransferSlots(g, h, b, n)
  PROVE  FuturesInv'
<1> DEFINE moved == MovedCredit(b, g, n)
<1>1. n \in Nat /\ 0 < n /\ n <= slots[b][g] /\ g # h
  BY SlotNumbers DEF TransferSlots
<1>2. /\ slots[b][g] \in Nat /\ slots[b][h] \in Nat
      /\ purchased[b][g] \in Nat /\ purchased[b][h] \in Nat
      /\ refunded[b][g] \in Nat /\ refunded[b][h] \in Nat
      /\ slots[b][g] <= purchased[b][g] - refunded[b][g]
      /\ slots[b][h] <= purchased[b][h] - refunded[b][h]
  BY DEF FuturesInv, FuturesTypeOK, HolderCovered
<1>3. moved = n
  BY <1>1, <1>2 DEF MovedCredit, Refundable, Smaller
<1>4. slots' = [slots EXCEPT ![b] = [slots[b] EXCEPT ![g] = slots[b][g] - n,
                                                     ![h] = slots[b][h] + n]]
  BY DEF TransferSlots
<1>5. purchased' = [purchased EXCEPT ![b] =
                      [purchased[b] EXCEPT ![g] = purchased[b][g] - n,
                                           ![h] = purchased[b][h] + n]]
  BY <1>3 DEF TransferSlots
<1>6. refunded' = refunded
  BY DEF TransferSlots
<1>7. FuturesTypeOK'
  <2>1. /\ slots[b][g] - n \in Nat /\ slots[b][h] + n \in Nat
        /\ slots[b] \in [Holders -> Nat]
    BY <1>1, <1>2 DEF FuturesInv, FuturesTypeOK
  <2>2. [slots[b] EXCEPT ![g] = slots[b][g] - n, ![h] = slots[b][h] + n]
          \in [Holders -> Nat]
    BY <2>1
  <2>3. /\ purchased[b][g] - n \in Nat /\ purchased[b][h] + n \in Nat
        /\ purchased[b] \in [Holders -> Nat]
    BY <1>1, <1>2 DEF FuturesInv, FuturesTypeOK
  <2>4. [purchased[b] EXCEPT ![g] = purchased[b][g] - n, ![h] = purchased[b][h] + n]
          \in [Holders -> Nat]
    BY <2>3
  <2> QED
    BY <1>4, <1>5, <1>6, <2>2, <2>4 DEF FuturesInv, FuturesTypeOK
<1>8. ASSUME NEW c \in BatchIds, NEW k \in Holders
      PROVE  slots'[c][k] <= purchased'[c][k] - refunded'[c][k]
  <2>1. CASE c = b /\ k = g
    BY <1>1, <1>2, <1>4, <1>5, <1>6, <2>1 DEF FuturesInv, FuturesTypeOK
  <2>2. CASE c = b /\ k = h
    BY <1>1, <1>2, <1>4, <1>5, <1>6, <2>2 DEF FuturesInv, FuturesTypeOK
  <2>3. CASE c # b \/ k \notin {g, h}
    <3>1. slots'[c][k] = slots[c][k] /\ purchased'[c][k] = purchased[c][k]
      BY <1>4, <1>5, <2>3 DEF FuturesInv, FuturesTypeOK
    <3> QED
      BY <1>6, <3>1 DEF FuturesInv, HolderCovered
  <2> QED
    BY <2>1, <2>2, <2>3
<1> QED
  BY <1>7, <1>8 DEF FuturesInv, HolderCovered

LEMMA RefundCovered ==
  ASSUME FuturesInv, NEW h \in Holders, NEW b \in BatchIds, ClaimRefund(h, b)
  PROVE  FuturesInv'
<1> DEFINE n == Smaller(slots[b][h], Refundable(b, h))
<1>1. /\ slots' = [slots EXCEPT ![b][h] = slots[b][h] - n]
      /\ refunded' = [refunded EXCEPT ![b][h] = refunded[b][h] + n]
      /\ purchased' = purchased
  BY DEF ClaimRefund
<1>2. n \in Nat /\ n <= slots[b][h]
  BY DEF FuturesInv, FuturesTypeOK, Smaller, Refundable
<1> HIDE DEF n
<1> QED
  BY <1>1, <1>2 DEF FuturesInv, FuturesTypeOK, HolderCovered

LEMMA StepCovered ==
  FuturesInv /\ [FuturesNext]_<<registryVars, futuresVars>>
    => FuturesInv'
<1> SUFFICES ASSUME FuturesInv,
                    [FuturesNext]_<<registryVars, futuresVars>>
             PROVE  FuturesInv'
  OBVIOUS
<1>1. CASE UNCHANGED tradeVars
  BY <1>1 DEF tradeVars, FuturesInv, FuturesTypeOK, HolderCovered
<1>2. CASE RegistryStep /\ UNCHANGED futuresVars
  BY <1>1, <1>2 DEF futuresVars
<1>3. CASE FuturesStep
  <2>1. ASSUME NEW p \in Providers, NEW price \in SlotPrices, NEW count \in SlotCounts,
               NEW lifetime \in Lifetimes, MintCapacity(p, price, count, lifetime)
        PROVE  FuturesInv'
    BY <1>1, <2>1 DEF MintCapacity
  <2>2. ASSUME NEW set \in BOOLEAN, SetPriceFeed(set)
        PROVE  FuturesInv'
    BY <1>1, <2>2 DEF SetPriceFeed
  <2>3. ASSUME NEW age \in FeedAges, SetPriceFeedStaleness(age)
        PROVE  FuturesInv'
    BY <1>1, <2>3 DEF SetPriceFeedStaleness
  <2>4. ASSUME NEW b \in BatchIds, CancelBatch(b) \/ CancelExpiredBatch(b) \/ ClaimProceeds(b)
        PROVE  FuturesInv'
    BY <1>1, <2>4 DEF CancelBatch, CancelExpiredBatch, Cancel, ClaimProceeds
  <2> QED
    BY <1>3, <2>1, <2>2, <2>3, <2>4, BuyCovered, BurnCovered, TransferCovered, RefundCovered
       DEF FuturesStep
<1>4. CASE UNCHANGED <<registryVars, futuresVars>>
  BY <1>1, <1>4 DEF futuresVars
<1> QED
  BY <1>2, <1>3, <1>4 DEF FuturesNext

(* claimRefund never leaves a slot behind for which there is no credit,    *)
(* whatever the number of batches, holders and slots.                      *)
THEOREM CreditFollowsToken == FuturesSpec => []HolderCovered
<1>1. FuturesInv => HolderCovered
  BY DEF FuturesInv
<1> QED
  BY <1>1, InitCovered, StepCovered, PTL DEF FuturesSpec

(* The books of a batch: as long as it is open, the slots held are those   *)
(* sold and not used, and what is booked to the provider is the price of   *)
(* those sold.                                                             *)
Batch == [provider : Providers \cup {NoAddress}, price : Nat, totalSlots : Nat, soldSlots : Nat,
          usedSlots : Nat, deadline : Nat, active : BOOLEAN]

BatchSound(batch, held, claim) ==
  /\ batch \in Batch /\ held \in [Holders -> Nat] /\ claim \in Nat
  /\ batch.active => /\ Total(held, Holders) = batch.soldSlots - batch.usedSlots
                     /\ claim = batch.price * batch.soldSlots

Owing(batch, held, claim) ==
  claim + IF batch.active THEN 0 ELSE batch.price * Total(held, Holders)

Owed == [b \in BatchIds |-> Owing(batches[b], slots[b], providerClaimable[b])]

FuturesBooks ==
  /\ nextBatchId \in Nat /\ batches \in [BatchIds -> Batch]
  /\ slots \in [BatchIds -> [Holders -> Nat]] /\ providerClaimable \in [BatchIds -> Nat]
  /\ \A b \in BatchIds : BatchSound(batches[b], slots[b], providerClaimable[b])
  /\ \A b \in BatchIds : Minted(b) => batches[b].provider \in Providers
  /\ \A b \in BatchIds : ~Minted(b) => /\ batches[b] = NoBatch /\ providerClaimable[b] = 0
                                       /\ Total(slots[b], Holders) = 0
  /\ usdc[FuturesAddress] = Total(Owed, BatchIds)

LEMMA FuturesSizes ==
  /\ IsFiniteSet(Holders) /\ IsFiniteSet(BatchIds) /\ Holders \subseteq Accounts
  /\ BatchIds \subseteq Nat /\ FuturesAddress \in Contracts /\ FuturesAddress \in Bookkeepers
  /\ FuturesAddress \in Addresses /\ FuturesAddress \notin {Registry, PPC}
<1>1. IsFiniteSet(BatchIds) /\ BatchIds \subseteq Nat
  BY FS_Interval, FuturesAssumption DEF BatchIds
<1>2. IsFiniteSet(Holders) /\ Holders \subseteq Accounts
  BY Sizes, FS_Subset, FuturesAssumption
<1> QED
  BY <1>1, <1>2, FuturesAssumption, MarketsAssumption DEF Bookkeepers

LEMMA HeldNat ==
  ASSUME NEW held \in [Holders -> Nat]
  PROVE  Total(held, Holders) \in Nat
BY FuturesSizes, TotalNat

LEMMA FuturesUntouched ==
  ASSUME FuturesBooks, UNCHANGED futuresVars, usdc'[FuturesAddress] = usdc[FuturesAddress]
  PROVE  FuturesBooks'
<1>1. /\ batches' = batches /\ nextBatchId' = nextBatchId /\ slots' = slots
      /\ providerClaimable' = providerClaimable
  BY DEF futuresVars, tradeVars
<1>2. Owed' = Owed
  BY <1>1 DEF Owed
<1> QED
  BY <1>1, <1>2 DEF FuturesBooks, Minted

LEMMA FuturesStart == RegistryInit /\ FuturesInit => FuturesBooks
<1> SUFFICES ASSUME RegistryInit, FuturesInit PROVE FuturesBooks
  OBVIOUS
<1>1. NoBatch \in Batch /\ NoBatch.active = FALSE /\ NoBatch.price = 0
  BY DEF NoBatch, Batch
<1>2. \A b \in BatchIds : /\ batches[b] = NoBatch /\ providerClaimable[b] = 0
                          /\ slots[b] \in [Holders -> Nat] /\ \A h \in Holders : slots[b][h] = 0
  BY DEF FuturesInit, NoSlots
<1>3. \A b \in BatchIds : Total(slots[b], Holders) = 0
  BY <1>2, FuturesSizes, TotalZero
<1>4. \A b \in BatchIds : Owed[b] = 0
  BY <1>1, <1>2, <1>3 DEF Owed, Owing
<1>5. Total(Owed, BatchIds) = 0
  BY <1>4, FuturesSizes, TotalZero
<1>6. usdc[FuturesAddress] = 0
  BY FuturesSizes, RegistryAssumption DEF RegistryInit
<1>7. \A b \in BatchIds : BatchSound(batches[b], slots[b], providerClaimable[b])
  BY <1>1, <1>2 DEF BatchSound
<1>8. \A b \in BatchIds : ~Minted(b)
  BY FuturesSizes DEF FuturesInit, Minted, BatchIds
<1>9. /\ nextBatchId \in Nat /\ batches \in [BatchIds -> Batch]
      /\ slots \in [BatchIds -> [Holders -> Nat]] /\ providerClaimable \in [BatchIds -> Nat]
  BY <1>1 DEF FuturesInit, NoSlots
<1> QED
  BY <1>2, <1>3, <1>5, <1>6, <1>7, <1>8, <1>9 DEF FuturesBooks

(* One batch is written, and the balance moves with what it owes.          *)
LEMMA BatchWritten ==
  ASSUME FuturesBooks, NEW b \in BatchIds, NEW batch, NEW held, NEW claim,
         batches' = [batches EXCEPT ![b] = batch], slots' = [slots EXCEPT ![b] = held],
         providerClaimable' = [providerClaimable EXCEPT ![b] = claim],
         BatchSound(batch, held, claim), batch.provider \in Providers,
         \/ Minted(b) /\ nextBatchId' = nextBatchId
         \/ b = nextBatchId /\ nextBatchId' = nextBatchId + 1,
         usdc[FuturesAddress] \in Nat,
         usdc'[FuturesAddress] = usdc[FuturesAddress]
           - Owing(batches[b], slots[b], providerClaimable[b]) + Owing(batch, held, claim)
  PROVE  FuturesBooks'
<1>1. /\ batch \in Batch /\ held \in [Holders -> Nat] /\ claim \in Nat
      /\ batches \in [BatchIds -> Batch] /\ slots \in [BatchIds -> [Holders -> Nat]]
      /\ providerClaimable \in [BatchIds -> Nat] /\ nextBatchId \in Nat
  BY DEF BatchSound, FuturesBooks
<1>2. /\ batches' \in [BatchIds -> Batch] /\ slots' \in [BatchIds -> [Holders -> Nat]]
      /\ providerClaimable' \in [BatchIds -> Nat] /\ nextBatchId' \in Nat
  BY <1>1
<1>3. /\ batches'[b] = batch /\ slots'[b] = held /\ providerClaimable'[b] = claim
      /\ \A c \in BatchIds \ {b} : /\ batches'[c] = batches[c] /\ slots'[c] = slots[c]
                                   /\ providerClaimable'[c] = providerClaimable[c]
  BY <1>1
<1>4. \A c \in BatchIds : BatchSound(batches'[c], slots'[c], providerClaimable'[c])
  BY <1>3 DEF FuturesBooks
<1>5. \A c \in BatchIds : c < nextBatchId' <=> c < nextBatchId \/ c = b
  BY <1>1, FuturesSizes DEF Minted
<1>6. ASSUME NEW c \in BatchIds
      PROVE  /\ c < nextBatchId' => batches'[c].provider \in Providers
             /\ ~(c < nextBatchId') => /\ batches'[c] = NoBatch /\ providerClaimable'[c] = 0
                                       /\ Total(slots'[c], Holders) = 0
  BY <1>3, <1>5 DEF FuturesBooks, Minted
<1>7. Total(Owed', BatchIds)
        = Total(Owed, BatchIds) - Owing(batches[b], slots[b], providerClaimable[b])
            + Owing(batch, held, claim)
  <2>1. ASSUME NEW x, NEW y, NEW z, BatchSound(x, y, z)
        PROVE  Owing(x, y, z) \in Nat
    <3>1. x.price \in Nat /\ z \in Nat /\ Total(y, Holders) \in Nat
      BY <2>1, HeldNat DEF BatchSound, Batch
    <3>2. x.price * Total(y, Holders) \in Nat
      BY <3>1, Products
    <3> QED
      BY <3>1, <3>2 DEF Owing
  <2>2. \A c \in BatchIds : /\ Owing(batches[c], slots[c], providerClaimable[c]) \in Nat
                            /\ Owing(batches'[c], slots'[c], providerClaimable'[c]) \in Nat
    BY <1>4, <2>1 DEF FuturesBooks
  <2>3. \A c \in BatchIds : Owed[c] \in Nat /\ Owed'[c] \in Nat
    BY <2>2 DEF Owed
  <2>4. \A c \in BatchIds \ {b} : Owed'[c] = Owed[c]
    BY <1>3 DEF Owed
  <2>5. /\ Owed[b] = Owing(batches[b], slots[b], providerClaimable[b])
        /\ Owed'[b] = Owing(batch, held, claim)
    BY <1>3 DEF Owed
  <2>6. Total(Owed', BatchIds) = Total(Owed, BatchIds) - Owed[b] + Owed'[b]
    <3>1. IsFiniteSet(BatchIds) /\ b \in BatchIds
      BY FuturesSizes
    <3> HIDE DEF Owed
    <3> QED
      BY ONLY <2>3, <2>4, <3>1, TotalChange
  <2> QED
    BY <2>5, <2>6
<1>8. usdc'[FuturesAddress] = Total(Owed', BatchIds)
  BY <1>7 DEF FuturesBooks
<1> QED
  BY <1>2, <1>4, <1>6, <1>8 DEF FuturesBooks, Minted

LEMMA BatchFacts ==
  ASSUME FuturesBooks, NEW b \in BatchIds, Minted(b)
  PROVE  /\ batches[b] \in Batch /\ slots[b] \in [Holders -> Nat] /\ providerClaimable[b] \in Nat
         /\ batches[b].price \in Nat /\ batches[b].soldSlots \in Nat /\ batches[b].usedSlots \in Nat
         /\ batches[b].active \in BOOLEAN /\ batches[b].provider \in Providers
         /\ Total(slots[b], Holders) \in Nat
         /\ batches[b].active =>
              /\ Total(slots[b], Holders) = batches[b].soldSlots - batches[b].usedSlots
              /\ providerClaimable[b] = batches[b].price * batches[b].soldSlots
BY HeldNat DEF FuturesBooks, BatchSound, Batch

LEMMA HeldChange ==
  ASSUME NEW held \in [Holders -> Nat], NEW h \in Holders, NEW n \in Nat
  PROVE  Total([held EXCEPT ![h] = n], Holders) = Total(held, Holders) - held[h] + n
<1> DEFINE after == [held EXCEPT ![h] = n]
<1>1. after \in [Holders -> Nat] /\ after[h] = n
  BY DEF after
<1>2. \A k \in Holders \ {h} : after[k] = held[k]
  BY DEF after
<1> HIDE DEF after
<1>3. Total(after, Holders) = Total(held, Holders) - held[h] + after[h]
  BY <1>1, <1>2, FuturesSizes, TotalChange
<1> QED
  BY <1>1, <1>3 DEF after

LEMMA MintBooks ==
  ASSUME FuturesBooks, RegistryInv, NEW p \in Providers, NEW price \in SlotPrices,
         NEW count \in SlotCounts, NEW lifetime \in Lifetimes, MintCapacity(p, price, count, lifetime)
  PROVE  FuturesBooks'
<1> DEFINE b == nextBatchId
           batch == [provider |-> p, price |-> price, totalSlots |-> count, soldSlots |-> 0,
                     usedSlots |-> 0, deadline |-> now + lifetime, active |-> TRUE]
<1>1. /\ b \in BatchIds /\ batches' = [batches EXCEPT ![b] = batch] /\ nextBatchId' = b + 1
      /\ usdc' = usdc /\ slots' = slots /\ providerClaimable' = providerClaimable
  BY DEF MintCapacity, registryVars, tradeVars
<1>2. /\ slots[b] \in [Holders -> Nat] /\ providerClaimable[b] = 0 /\ batches[b] = NoBatch
      /\ Total(slots[b], Holders) = 0
  BY <1>1, FuturesSizes DEF FuturesBooks, Minted
<1>3. slots' = [slots EXCEPT ![b] = slots[b]]
      /\ providerClaimable' = [providerClaimable EXCEPT ![b] = 0]
  BY <1>1, <1>2 DEF FuturesBooks
<1>4. /\ batch \in Batch /\ batch.active /\ batch.soldSlots = 0 /\ batch.usedSlots = 0
      /\ batch.provider = p /\ batch.price = price /\ price \in Nat
  BY FuturesAssumption DEF RegistryInv, Batch
<1>5. BatchSound(batch, slots[b], 0) /\ Owing(batch, slots[b], 0) = 0
  BY <1>2, <1>4 DEF BatchSound, Owing
<1>6. Owing(batches[b], slots[b], providerClaimable[b]) = 0
  BY <1>2 DEF Owing, NoBatch
<1>7. usdc[FuturesAddress] \in Nat
  BY FuturesSizes DEF RegistryInv, Ledgers
<1> HIDE DEF batch
<1>8. usdc'[FuturesAddress] = usdc[FuturesAddress]
           - Owing(batches[b], slots[b], providerClaimable[b]) + Owing(batch, slots[b], 0)
  BY <1>1, <1>5, <1>6, <1>7
<1> QED
  BY <1>1, <1>3, <1>4, <1>5, <1>7, <1>8, BatchWritten

LEMMA BuyBooks ==
  ASSUME FuturesBooks, RegistryInv, NEW h \in Holders, NEW b \in BatchIds, NEW n \in SlotCounts,
         BuySlots(h, b, n)
  PROVE  FuturesBooks' /\ Quiet({FuturesAddress})
<1> DEFINE batch == [batches[b] EXCEPT !.soldSlots = @ + n]
           held == [slots[b] EXCEPT ![h] = @ + n]
           cost == n * batches[b].price
           claim == providerClaimable[b] + cost
<1>1. /\ Minted(b) /\ batches[b].active /\ CanPay(usdc, h, cost) /\ nextBatchId' = nextBatchId
      /\ usdc' = Transfer(usdc, h, FuturesAddress, cost)
  BY DEF BuySlots, Trading
<1>2. batches' = [batches EXCEPT ![b] = batch] /\ slots' = [slots EXCEPT ![b] = held]
      /\ providerClaimable' = [providerClaimable EXCEPT ![b] = claim]
  BY DEF BuySlots, FuturesBooks
<1>3. /\ batches[b] \in Batch /\ slots[b] \in [Holders -> Nat] /\ providerClaimable[b] \in Nat
      /\ batches[b].price \in Nat /\ batches[b].soldSlots \in Nat /\ batches[b].usedSlots \in Nat
      /\ batches[b].provider \in Providers /\ Total(slots[b], Holders) \in Nat
      /\ Total(slots[b], Holders) = batches[b].soldSlots - batches[b].usedSlots
      /\ providerClaimable[b] = batches[b].price * batches[b].soldSlots
      /\ n \in Nat /\ slots[b][h] \in Nat
  BY <1>1, BatchFacts, SlotNumbers
<1>4. cost \in Nat
  BY <1>3, Products
<1>5. /\ batch \in Batch /\ batch.active /\ batch.soldSlots = batches[b].soldSlots + n
      /\ batch.usedSlots = batches[b].usedSlots /\ batch.provider \in Providers
      /\ batch.price = batches[b].price
  BY <1>1, <1>3 DEF Batch
<1>6. held \in [Holders -> Nat] /\ Total(held, Holders) = Total(slots[b], Holders) + n
  <2>1. held = [slots[b] EXCEPT ![h] = slots[b][h] + n] /\ slots[b][h] + n \in Nat
    BY <1>3
  <2>2. Total(held, Holders) = Total(slots[b], Holders) - slots[b][h] + (slots[b][h] + n)
    BY <1>3, <2>1, HeldChange
  <2> QED
    BY <1>3, <2>1, <2>2
<1>7. claim = batch.price * batch.soldSlots
  <2>1. \A x, y, z \in Nat : x * y + z * x = x * (y + z)
    BY SMT
  <2> QED
    BY <1>3, <1>5, <2>1
<1> HIDE DEF batch, held
<1>8. BatchSound(batch, held, claim)
  BY <1>3, <1>4, <1>5, <1>6, <1>7 DEF BatchSound
<1>9. Owing(batch, held, claim) = Owing(batches[b], slots[b], providerClaimable[b]) + cost
  BY <1>1, <1>3, <1>4, <1>5 DEF Owing
<1>10. Owing(batches[b], slots[b], providerClaimable[b]) = providerClaimable[b]
  BY <1>1, <1>3 DEF Owing
<1> HIDE DEF cost
<1>11. h \in Accounts /\ h \in Addresses /\ usdc \in Ledgers /\ usdc[FuturesAddress] \in Nat
       /\ h # FuturesAddress /\ FuturesAddress \in Addresses
  BY FuturesSizes, RegistryAssumption DEF RegistryInv, Ledgers
<1>12. usdc'[FuturesAddress] = usdc[FuturesAddress] + cost
  BY <1>1, <1>4, <1>11, TransferLedger
<1>13. Quiet({FuturesAddress})
  BY <1>1, <1>4, <1>11, TransferQuiet
<1>14. usdc'[FuturesAddress] = usdc[FuturesAddress]
           - Owing(batches[b], slots[b], providerClaimable[b]) + Owing(batch, held, claim)
  BY <1>3, <1>4, <1>9, <1>10, <1>11, <1>12
<1> HIDE DEF claim
<1>15. FuturesBooks'
  BY <1>1, <1>2, <1>5, <1>8, <1>11, <1>14, BatchWritten
<1> QED
  BY <1>13, <1>15

LEMMA BurnBooks ==
  ASSUME FuturesBooks, RegistryInv, NEW h \in Holders, NEW b \in BatchIds, BurnSlot(h, b)
  PROVE  FuturesBooks'
<1> DEFINE batch == [batches[b] EXCEPT !.usedSlots = @ + 1]
           held == [slots[b] EXCEPT ![h] = @ - 1]
           claim == providerClaimable[b]
<1>1. /\ Minted(b) /\ batches[b].active /\ slots[b][h] > 0 /\ nextBatchId' = nextBatchId
      /\ usdc' = usdc
  BY DEF BurnSlot, Trading, registryVars
<1>2. batches' = [batches EXCEPT ![b] = batch] /\ slots' = [slots EXCEPT ![b] = held]
      /\ providerClaimable' = [providerClaimable EXCEPT ![b] = claim]
  BY DEF BurnSlot, FuturesBooks
<1>3. /\ batches[b] \in Batch /\ slots[b] \in [Holders -> Nat] /\ providerClaimable[b] \in Nat
      /\ batches[b].price \in Nat /\ batches[b].soldSlots \in Nat /\ batches[b].usedSlots \in Nat
      /\ batches[b].provider \in Providers /\ Total(slots[b], Holders) \in Nat
      /\ Total(slots[b], Holders) = batches[b].soldSlots - batches[b].usedSlots
      /\ providerClaimable[b] = batches[b].price * batches[b].soldSlots
      /\ slots[b][h] \in Nat
  BY <1>1, BatchFacts
<1>4. /\ batch \in Batch /\ batch.active /\ batch.soldSlots = batches[b].soldSlots
      /\ batch.usedSlots = batches[b].usedSlots + 1 /\ batch.provider \in Providers
      /\ batch.price = batches[b].price
  BY <1>1, <1>3 DEF Batch
<1>5. held \in [Holders -> Nat] /\ Total(held, Holders) = Total(slots[b], Holders) - 1
  <2>1. held = [slots[b] EXCEPT ![h] = slots[b][h] - 1] /\ slots[b][h] - 1 \in Nat
    BY <1>1, <1>3
  <2>2. Total(held, Holders) = Total(slots[b], Holders) - slots[b][h] + (slots[b][h] - 1)
    BY <1>3, <2>1, HeldChange
  <2> QED
    BY <1>3, <2>1, <2>2
<1> HIDE DEF batch, held
<1>6. BatchSound(batch, held, claim)
  BY <1>3, <1>4, <1>5 DEF BatchSound
<1>7. Owing(batch, held, claim) = claim /\ Owing(batches[b], slots[b], claim) = claim
  BY <1>1, <1>3, <1>4 DEF Owing
<1>8. usdc[FuturesAddress] \in Nat
  BY FuturesSizes DEF RegistryInv, Ledgers
<1>9. usdc'[FuturesAddress] = usdc[FuturesAddress]
           - Owing(batches[b], slots[b], providerClaimable[b]) + Owing(batch, held, claim)
  BY <1>1, <1>3, <1>7, <1>8
<1> HIDE DEF claim
<1> QED
  BY <1>1, <1>2, <1>4, <1>6, <1>8, <1>9, BatchWritten

LEMMA TransferBooks ==
  ASSUME FuturesBooks, FuturesInv, RegistryInv, NEW g \in Holders, NEW h \in Holders,
         NEW b \in BatchIds, NEW n \in SlotCounts, TransferSlots(g, h, b, n)
  PROVE  FuturesBooks'
<1> DEFINE one == [slots[b] EXCEPT ![g] = slots[b][g] - n]
           held == [one EXCEPT ![h] = slots[b][h] + n]
<1>1. /\ Minted(b) /\ g # h /\ n <= slots[b][g] /\ nextBatchId' = nextBatchId
      /\ usdc' = usdc /\ batches' = batches /\ providerClaimable' = providerClaimable
      /\ slots' = [slots EXCEPT ![b] =
           [slots[b] EXCEPT ![g] = slots[b][g] - n, ![h] = slots[b][h] + n]]
  BY DEF TransferSlots, registryVars, FuturesBooks
<1>2. /\ batches[b] \in Batch /\ slots[b] \in [Holders -> Nat] /\ providerClaimable[b] \in Nat
      /\ batches[b].provider \in Providers /\ Total(slots[b], Holders) \in Nat
      /\ slots[b][g] \in Nat /\ slots[b][h] \in Nat /\ n \in Nat
  BY <1>1, BatchFacts, SlotNumbers
<1>3. one \in [Holders -> Nat] /\ Total(one, Holders) = Total(slots[b], Holders) - slots[b][g]
                                                          + (slots[b][g] - n)
  BY <1>1, <1>2, HeldChange
<1>4. one[h] = slots[b][h]
  BY <1>1, <1>2
<1>5. held \in [Holders -> Nat] /\ Total(held, Holders) = Total(one, Holders) - slots[b][h]
                                                            + (slots[b][h] + n)
  <2> HIDE DEF one
  <2>1. slots[b][h] + n \in Nat
    BY <1>2
  <2>2. Total([one EXCEPT ![h] = slots[b][h] + n], Holders)
          = Total(one, Holders) - one[h] + (slots[b][h] + n)
    BY <1>3, <2>1, HeldChange
  <2> QED
    BY <1>3, <1>4, <2>1, <2>2
<1>6. Total(held, Holders) = Total(slots[b], Holders)
  <2> HIDE DEF one, held
  <2> QED
    BY <1>2, <1>3, <1>5
<1>7. slots' = [slots EXCEPT ![b] = held]
  BY <1>1
<1>8. batches' = [batches EXCEPT ![b] = batches[b]]
      /\ providerClaimable' = [providerClaimable EXCEPT ![b] = providerClaimable[b]]
  BY <1>1 DEF FuturesBooks
<1> HIDE DEF one, held
<1>9. BatchSound(batches[b], held, providerClaimable[b])
  BY <1>5, <1>6 DEF FuturesBooks, BatchSound
<1>10. Owing(batches[b], held, providerClaimable[b])
         = Owing(batches[b], slots[b], providerClaimable[b])
  BY <1>6 DEF Owing
<1>11. usdc[FuturesAddress] \in Nat
  BY FuturesSizes DEF RegistryInv, Ledgers
<1>12. Owing(batches[b], slots[b], providerClaimable[b]) \in Nat
  <2>1. batches[b].price \in Nat /\ batches[b].price * Total(slots[b], Holders) \in Nat
    BY <1>2, Products DEF Batch
  <2> QED
    BY <1>2, <2>1 DEF Owing
<1>13. usdc'[FuturesAddress] = usdc[FuturesAddress]
           - Owing(batches[b], slots[b], providerClaimable[b])
           + Owing(batches[b], held, providerClaimable[b])
  BY <1>1, <1>10, <1>11, <1>12
<1> QED
  BY <1>1, <1>2, <1>7, <1>8, <1>9, <1>11, <1>13, BatchWritten

(* What is left to the provider when the unused slots are paid back.       *)
LEMMA ReserveSplit ==
  \A price, sold, used \in Nat : sold >= used =>
    /\ (sold - used) * price = price * (sold - used) /\ price * (sold - used) \in Nat
    /\ price * sold - price * (sold - used) = price * used
BY SMT

LEMMA CancelBooks ==
  ASSUME FuturesBooks, RegistryInv, NEW b \in BatchIds, Cancel(b)
  PROVE  FuturesBooks'
<1> DEFINE batch == [batches[b] EXCEPT !.active = FALSE]
           reserve == RefundReserve(b)
           claim == providerClaimable[b] - reserve
<1>1. /\ Minted(b) /\ batches[b].active /\ reserve <= providerClaimable[b]
      /\ nextBatchId' = nextBatchId /\ usdc' = usdc /\ slots' = slots
      /\ batches' = [batches EXCEPT ![b] = batch]
      /\ providerClaimable' = [providerClaimable EXCEPT ![b] = claim]
  BY DEF Cancel, registryVars, tradeVars, FuturesBooks
<1>2. /\ batches[b] \in Batch /\ slots[b] \in [Holders -> Nat] /\ providerClaimable[b] \in Nat
      /\ batches[b].price \in Nat /\ batches[b].soldSlots \in Nat /\ batches[b].usedSlots \in Nat
      /\ batches[b].provider \in Providers /\ Total(slots[b], Holders) \in Nat
      /\ Total(slots[b], Holders) = batches[b].soldSlots - batches[b].usedSlots
  BY <1>1, BatchFacts
<1>3. reserve = batches[b].price * Total(slots[b], Holders) /\ reserve \in Nat
  <2>1. batches[b].soldSlots >= batches[b].usedSlots
    BY <1>2
  <2> QED
    BY <1>2, <2>1, ReserveSplit DEF RefundReserve
<1>4. /\ batch \in Batch /\ ~batch.active /\ batch.provider \in Providers
      /\ batch.price = batches[b].price
  BY <1>1, <1>2 DEF Batch
<1>5. slots' = [slots EXCEPT ![b] = slots[b]]
  BY <1>1 DEF FuturesBooks
<1> HIDE DEF reserve, batch
<1>6. claim \in Nat
  BY <1>1, <1>2, <1>3
<1>7. BatchSound(batch, slots[b], claim)
  BY <1>2, <1>4, <1>6 DEF BatchSound
<1>8. Owing(batches[b], slots[b], providerClaimable[b]) = providerClaimable[b]
      /\ Owing(batch, slots[b], claim) = providerClaimable[b]
  <2>1. Owing(batches[b], slots[b], providerClaimable[b]) = providerClaimable[b]
    BY <1>1, <1>2 DEF Owing
  <2>2. Owing(batch, slots[b], claim) = claim + reserve
    BY <1>3, <1>4 DEF Owing
  <2> QED
    BY <1>2, <1>3, <2>1, <2>2
<1>9. usdc[FuturesAddress] \in Nat
  BY FuturesSizes DEF RegistryInv, Ledgers
<1>10. usdc'[FuturesAddress] = usdc[FuturesAddress]
           - Owing(batches[b], slots[b], providerClaimable[b]) + Owing(batch, slots[b], claim)
  BY <1>1, <1>2, <1>8, <1>9
<1> HIDE DEF claim
<1> QED
  BY <1>1, <1>4, <1>5, <1>7, <1>9, <1>10, BatchWritten

LEMMA ProceedsBooks ==
  ASSUME FuturesBooks, RegistryInv, NEW b \in BatchIds, ClaimProceeds(b)
  PROVE  FuturesBooks' /\ Quiet({FuturesAddress})
<1> DEFINE n == providerClaimable[b]
           p == batches[b].provider
<1>1. /\ Minted(b) /\ ~batches[b].active /\ CanPay(usdc, FuturesAddress, n)
      /\ usdc' = Transfer(usdc, FuturesAddress, p, n)
      /\ nextBatchId' = nextBatchId /\ slots' = slots /\ batches' = batches
      /\ providerClaimable' = [providerClaimable EXCEPT ![b] = 0]
  BY DEF ClaimProceeds, tradeVars
<1>2. /\ batches[b] \in Batch /\ slots[b] \in [Holders -> Nat] /\ n \in Nat
      /\ p \in Providers /\ Total(slots[b], Holders) \in Nat
  BY <1>1, BatchFacts
<1>3. batches' = [batches EXCEPT ![b] = batches[b]] /\ slots' = [slots EXCEPT ![b] = slots[b]]
  BY <1>1 DEF FuturesBooks
<1>4. BatchSound(batches[b], slots[b], 0)
  BY <1>1, <1>2 DEF BatchSound
<1>5. /\ Owing(batches[b], slots[b], n) = n + Owing(batches[b], slots[b], 0)
      /\ Owing(batches[b], slots[b], 0) \in Nat
  <2>1. batches[b].price \in Nat /\ batches[b].price * Total(slots[b], Holders) \in Nat
    BY <1>2, Products DEF Batch
  <2> QED
    BY <1>1, <1>2, <2>1 DEF Owing
<1>6. /\ p \in Accounts /\ p \in Addresses /\ usdc \in Ledgers /\ usdc[FuturesAddress] \in Nat
      /\ p # FuturesAddress /\ FuturesAddress \in Addresses
  BY <1>2, FuturesSizes, RegistryAssumption, Places DEF RegistryInv, Ledgers
<1> HIDE DEF n, p
<1>7. usdc'[FuturesAddress] = usdc[FuturesAddress] - n
  BY <1>1, <1>2, <1>6, TransferLedger
<1>8. Quiet({FuturesAddress})
  BY <1>1, <1>2, <1>6, TransferQuiet
<1>9. usdc'[FuturesAddress] = usdc[FuturesAddress]
           - Owing(batches[b], slots[b], n) + Owing(batches[b], slots[b], 0)
  BY <1>2, <1>5, <1>6, <1>7
<1>10. FuturesBooks'
  BY <1>1, <1>2, <1>3, <1>4, <1>6, <1>9, BatchWritten DEF n, p
<1> QED
  BY <1>8, <1>10

LEMMA RefundBooks ==
  ASSUME FuturesBooks, FuturesInv, RegistryInv, NEW h \in Holders, NEW b \in BatchIds,
         ClaimRefund(h, b)
  PROVE  FuturesBooks' /\ Quiet({FuturesAddress})
<1> DEFINE n == Smaller(slots[b][h], Refundable(b, h))
           held == [slots[b] EXCEPT ![h] = slots[b][h] - n]
           paid == n * batches[b].price
           claim == providerClaimable[b]
<1>1. /\ Minted(b) /\ ~batches[b].active /\ CanPay(usdc, FuturesAddress, paid)
      /\ usdc' = Transfer(usdc, FuturesAddress, h, paid)
      /\ nextBatchId' = nextBatchId /\ slots' = [slots EXCEPT ![b] = held] /\ batches' = batches
      /\ providerClaimable' = providerClaimable
  BY DEF ClaimRefund, FuturesBooks
<1>2. n \in Nat /\ n <= slots[b][h]
  BY DEF FuturesInv, FuturesTypeOK, Smaller, Refundable
<1> HIDE DEF n
<1>3. /\ batches[b] \in Batch /\ slots[b] \in [Holders -> Nat] /\ claim \in Nat
      /\ batches[b].provider \in Providers /\ Total(slots[b], Holders) \in Nat
      /\ batches[b].price \in Nat /\ slots[b][h] \in Nat
  BY <1>1, BatchFacts
<1>4. paid \in Nat
  BY <1>2, <1>3, Products
<1>5. held \in [Holders -> Nat] /\ Total(held, Holders) = Total(slots[b], Holders) - n
  <2>1. slots[b][h] - n \in Nat
    BY <1>2, <1>3
  <2>2. Total(held, Holders) = Total(slots[b], Holders) - slots[b][h] + (slots[b][h] - n)
    BY <1>3, <2>1, HeldChange
  <2> QED
    BY <1>2, <1>3, <2>1, <2>2
<1> HIDE DEF held
<1>6. batches' = [batches EXCEPT ![b] = batches[b]]
      /\ providerClaimable' = [providerClaimable EXCEPT ![b] = claim]
  BY <1>1 DEF FuturesBooks
<1>7. BatchSound(batches[b], held, claim)
  BY <1>1, <1>3, <1>5 DEF BatchSound
<1>8. /\ Owing(batches[b], slots[b], claim) = Owing(batches[b], held, claim) + paid
      /\ Owing(batches[b], held, claim) \in Nat
  <2>1. \A x, y, z \in Nat : x <= y => z * y = z * (y - x) + x * z
    BY SMT
  <2>2. Total(held, Holders) \in Nat /\ n <= Total(slots[b], Holders)
    BY <1>2, <1>3, <1>5, HeldNat
  <2>3. batches[b].price * Total(slots[b], Holders) = batches[b].price * Total(held, Holders) + paid
    BY <1>2, <1>3, <1>5, <2>1, <2>2
  <2>4. batches[b].price * Total(held, Holders) \in Nat
    BY <1>3, <2>2, Products
  <2> HIDE DEF paid
  <2> QED
    BY <1>1, <1>3, <1>4, <2>3, <2>4 DEF Owing
<1> HIDE DEF paid
<1>9. /\ h \in Accounts /\ h \in Addresses /\ usdc \in Ledgers /\ usdc[FuturesAddress] \in Nat
      /\ h # FuturesAddress /\ FuturesAddress \in Addresses
  BY FuturesSizes, RegistryAssumption DEF RegistryInv, Ledgers
<1>10. usdc'[FuturesAddress] = usdc[FuturesAddress] - paid
  BY <1>1, <1>4, <1>9, TransferLedger
<1>11. Quiet({FuturesAddress})
  BY <1>1, <1>4, <1>9, TransferQuiet
<1>12. usdc'[FuturesAddress] = usdc[FuturesAddress]
           - Owing(batches[b], slots[b], claim) + Owing(batches[b], held, claim)
  BY <1>4, <1>8, <1>9, <1>10
<1>13. FuturesBooks'
  BY <1>1, <1>3, <1>6, <1>7, <1>9, <1>12, BatchWritten
<1> QED
  BY <1>11, <1>13

LEMMA FuturesMoves ==
  ASSUME RegistryInv, FuturesInv, FuturesBooks, FuturesStep
  PROVE  /\ FuturesInv' /\ FuturesBooks' /\ Quiet({FuturesAddress})
         /\ UNCHANGED <<providers, wiring, authorizedSlashers, now>>
<1>1. FuturesInv'
  BY StepCovered DEF FuturesNext
<1>2. ASSUME NEW p \in Providers, NEW price \in SlotPrices, NEW count \in SlotCounts,
             NEW lifetime \in Lifetimes, MintCapacity(p, price, count, lifetime)
      PROVE  FuturesBooks' /\ UNCHANGED registryVars
  BY <1>2, MintBooks DEF MintCapacity
<1>3. CASE (\E set \in BOOLEAN : SetPriceFeed(set)) \/ (\E age \in FeedAges : SetPriceFeedStaleness(age))
  <2>1. UNCHANGED <<registryVars, batches, nextBatchId, tradeVars, providerClaimable>>
    BY <1>3 DEF SetPriceFeed, SetPriceFeedStaleness
  <2>2. /\ batches' = batches /\ nextBatchId' = nextBatchId /\ slots' = slots
        /\ providerClaimable' = providerClaimable /\ usdc' = usdc
    BY <2>1 DEF tradeVars, registryVars
  <2>3. Owed' = Owed
    BY <2>2 DEF Owed
  <2>4. FuturesBooks'
    BY <2>2, <2>3 DEF FuturesBooks, Minted
  <2> QED
    BY <1>1, <2>1, <2>2, <2>4, StillQuiet DEF registryVars, RegistryInv
<1>4. ASSUME NEW h \in Holders, NEW b \in BatchIds, BurnSlot(h, b)
      PROVE  FuturesBooks' /\ UNCHANGED registryVars
  BY <1>4, BurnBooks DEF BurnSlot
<1>5. ASSUME NEW g \in Holders, NEW h \in Holders, NEW b \in BatchIds, NEW n \in SlotCounts,
             TransferSlots(g, h, b, n)
      PROVE  FuturesBooks' /\ UNCHANGED registryVars
  BY <1>5, TransferBooks DEF TransferSlots
<1>6. ASSUME NEW b \in BatchIds, CancelBatch(b) \/ CancelExpiredBatch(b)
      PROVE  FuturesBooks' /\ UNCHANGED registryVars
  BY <1>6, CancelBooks DEF CancelBatch, CancelExpiredBatch, Cancel
<1>7. CASE FuturesBooks' /\ UNCHANGED registryVars
  BY <1>1, <1>7, StillQuiet DEF registryVars, RegistryInv
<1>8. ASSUME NEW h \in Holders, NEW b \in BatchIds, NEW n \in SlotCounts, BuySlots(h, b, n)
      PROVE  FuturesBooks' /\ Quiet({FuturesAddress})
             /\ UNCHANGED <<providers, wiring, authorizedSlashers, now>>
  BY <1>8, BuyBooks DEF BuySlots
<1>9. ASSUME NEW b \in BatchIds, ClaimProceeds(b)
      PROVE  FuturesBooks' /\ Quiet({FuturesAddress})
             /\ UNCHANGED <<providers, wiring, authorizedSlashers, now>>
  BY <1>9, ProceedsBooks DEF ClaimProceeds
<1>10. ASSUME NEW h \in Holders, NEW b \in BatchIds, ClaimRefund(h, b)
       PROVE  FuturesBooks' /\ Quiet({FuturesAddress})
              /\ UNCHANGED <<providers, wiring, authorizedSlashers, now>>
  BY <1>10, RefundBooks DEF ClaimRefund
<1> QED
  BY <1>1, <1>2, <1>3, <1>4, <1>5, <1>6, <1>7, <1>8, <1>9, <1>10 DEF FuturesStep

LEMMA FuturesCovered == FuturesBooks => FuturesSolvent
<1> SUFFICES ASSUME FuturesBooks PROVE FuturesSolvent
  OBVIOUS
<1>1. ASSUME NEW b \in BatchIds, batches[b].active
      PROVE  batches[b].price * Total(slots[b], Holders) <= providerClaimable[b]
  <2>1. Minted(b)
    BY <1>1 DEF FuturesBooks, NoBatch
  <2>2. /\ batches[b].price \in Nat /\ batches[b].soldSlots \in Nat /\ batches[b].usedSlots \in Nat
        /\ Total(slots[b], Holders) \in Nat
        /\ Total(slots[b], Holders) = batches[b].soldSlots - batches[b].usedSlots
        /\ providerClaimable[b] = batches[b].price * batches[b].soldSlots
    BY <1>1, <2>1, BatchFacts
  <2>3. Total(slots[b], Holders) <= batches[b].soldSlots
    BY <2>2
  <2> QED
    BY <2>2, <2>3, MulMono
<1>2. usdc[FuturesAddress] = Total([b \in BatchIds |-> providerClaimable[b] +
        IF batches[b].active THEN 0 ELSE batches[b].price * Total(slots[b], Holders)], BatchIds)
  BY DEF FuturesBooks, Owed, Owing
<1> QED
  BY <1>1, <1>2 DEF FuturesSolvent, Total

-----------------------------------------------------------------------------
(* Subscriptions: a bundle has locked the price of its calls, a stream is  *)
(* on schedule, and what is locked is there.                               *)
Sub == [subscriber : Subscribers \cup {NoAddress}, provider : Providers \cup {NoAddress},
        price : Nat, remaining : Nat, expiresAt : Nat, lockedBalance : Nat, cancelled : BOOLEAN,
        streamMode : BOOLEAN, streamReleased : Nat, streamStart : Nat, streamDuration : Nat]

ElapsedAt(sub, t) == IF t - sub.streamStart > sub.streamDuration THEN sub.streamDuration
                     ELSE t - sub.streamStart

OnSchedule(sub, t) ==
  sub.streamReleased * sub.streamDuration
    <= (sub.lockedBalance + sub.streamReleased) * ElapsedAt(sub, t)

SubSound(sub, t) ==
  /\ sub \in Sub
  /\ ~sub.streamMode => sub.lockedBalance = sub.price * sub.remaining
  /\ sub.streamMode =>
       /\ sub.streamDuration > 0 /\ sub.streamStart <= t /\ sub.remaining = 0
       /\ sub.expiresAt = sub.streamStart + sub.streamDuration
       /\ OnSchedule(sub, t)

Locked == [s \in SubIds |-> subscriptions[s].lockedBalance]

SubscriptionInv ==
  /\ subscriptions \in [SubIds -> Sub] /\ subCount \in Nat
  /\ \A s \in SubIds : SubSound(subscriptions[s], now)
  /\ \A s \in SubIds : IF s <= subCount
                       THEN subscriptions[s].subscriber \in Subscribers
                            /\ subscriptions[s].provider \in Providers
                       ELSE subscriptions[s] = NoSub
  /\ usdc[SubscriptionAddress] = Total(Locked, SubIds)

LEMMA SubSizes ==
  /\ IsFiniteSet(SubIds) /\ SubIds \subseteq Nat /\ Subscribers \subseteq Accounts
  /\ SubscriptionAddress \in Contracts /\ SubscriptionAddress \in Bookkeepers
  /\ SubscriptionAddress \in Addresses /\ SubscriptionAddress \notin {Registry, PPC, FuturesAddress}
<1>1. IsFiniteSet(SubIds) /\ SubIds \subseteq Nat
  BY FS_Interval, SubscriptionAssumption DEF SubIds
<1> QED
  BY <1>1, SubscriptionAssumption, MarketsAssumption DEF Bookkeepers

(* A stream stays on schedule as time passes.                              *)
LEMMA ScheduleWaits ==
  ASSUME NEW sub, NEW t \in Nat, NEW u \in Nat, t <= u, SubSound(sub, t)
  PROVE  SubSound(sub, u)
<1>1. CASE ~sub.streamMode
  BY <1>1 DEF SubSound
<1>2. CASE sub.streamMode
  <2>1. /\ sub.streamReleased \in Nat /\ sub.streamDuration \in Nat /\ sub.lockedBalance \in Nat
        /\ sub.streamStart \in Nat /\ sub.streamStart <= t
    BY <1>2 DEF SubSound, Sub
  <2>2. /\ ElapsedAt(sub, t) \in Nat /\ ElapsedAt(sub, u) \in Nat
        /\ ElapsedAt(sub, t) <= ElapsedAt(sub, u)
    BY <2>1 DEF ElapsedAt
  <2> DEFINE whole == sub.lockedBalance + sub.streamReleased
             done == sub.streamReleased * sub.streamDuration
  <2>3. whole \in Nat /\ done \in Nat
    BY <2>1, Products
  <2>4. done <= whole * ElapsedAt(sub, t)
    BY <1>2 DEF SubSound, OnSchedule
  <2> HIDE DEF whole, done
  <2>5. whole * ElapsedAt(sub, t) <= whole * ElapsedAt(sub, u)
    BY <2>2, <2>3, MulMono
  <2>6. whole * ElapsedAt(sub, t) \in Nat /\ whole * ElapsedAt(sub, u) \in Nat
    BY <2>2, <2>3, Products
  <2>7. done <= whole * ElapsedAt(sub, u)
    BY <2>3, <2>4, <2>5, <2>6
  <2> QED
    BY <1>2, <2>1, <2>7 DEF SubSound, OnSchedule, whole, done
<1> QED
  BY <1>1, <1>2

LEMMA SubscriptionsUntouched ==
  ASSUME SubscriptionInv, UNCHANGED subscriptionVars, now \in Nat, now' \in Nat, now <= now',
         usdc'[SubscriptionAddress] = usdc[SubscriptionAddress]
  PROVE  SubscriptionInv'
<1>1. subscriptions' = subscriptions /\ subCount' = subCount
  BY DEF subscriptionVars
<1>2. \A s \in SubIds : SubSound(subscriptions[s], now')
  BY ScheduleWaits DEF SubscriptionInv
<1>3. Locked' = Locked
  BY <1>1 DEF Locked
<1> QED
  BY <1>1, <1>2, <1>3 DEF SubscriptionInv

LEMMA SubscriptionStart == RegistryInit /\ SubscriptionInit => SubscriptionInv
<1> SUFFICES ASSUME RegistryInit, SubscriptionInit PROVE SubscriptionInv
  OBVIOUS
<1>1. NoSub \in Sub /\ NoSub.streamMode = FALSE /\ NoSub.lockedBalance = 0
      /\ NoSub.price = 0 /\ NoSub.remaining = 0
  BY DEF NoSub, Sub
<1>2. subscriptions = [s \in SubIds |-> NoSub] /\ subCount = 0
  BY DEF SubscriptionInit
<1>3. \A s \in SubIds : Locked[s] = 0
  BY <1>1, <1>2 DEF Locked
<1>4. Total(Locked, SubIds) = 0
  BY <1>3, SubSizes, TotalZero
<1>5. usdc[SubscriptionAddress] = 0
  BY SubSizes, RegistryAssumption DEF RegistryInit
<1>6. \A s \in SubIds : SubSound(subscriptions[s], now)
  BY <1>1, <1>2 DEF SubSound
<1>7. \A s \in SubIds : ~(s <= subCount)
  BY <1>2 DEF SubIds
<1> QED
  BY <1>1, <1>2, <1>4, <1>5, <1>6, <1>7 DEF SubscriptionInv

(* One record is written, and the balance moves with what it locks.        *)
LEMMA SubWritten ==
  ASSUME SubscriptionInv, NEW s \in SubIds, NEW sub, SubSound(sub, now), now' = now,
         subscriptions' = [subscriptions EXCEPT ![s] = sub],
         sub.subscriber \in Subscribers, sub.provider \in Providers,
         \/ s <= subCount /\ subCount' = subCount
         \/ s = subCount + 1 /\ subCount' = subCount + 1,
         usdc[SubscriptionAddress] \in Nat,
         usdc'[SubscriptionAddress]
           = usdc[SubscriptionAddress] - subscriptions[s].lockedBalance + sub.lockedBalance
  PROVE  SubscriptionInv'
<1>1. /\ subscriptions \in [SubIds -> Sub] /\ sub \in Sub /\ subCount \in Nat /\ SubIds \subseteq Nat
  BY SubSizes DEF SubscriptionInv, SubSound
<1>2. /\ subscriptions' \in [SubIds -> Sub] /\ subscriptions'[s] = sub /\ subCount' \in Nat
      /\ \A r \in SubIds \ {s} : subscriptions'[r] = subscriptions[r]
  BY <1>1
<1>3. \A r \in SubIds : SubSound(subscriptions'[r], now')
  BY <1>2 DEF SubscriptionInv
<1>4. ASSUME NEW r \in SubIds
      PROVE  IF r <= subCount'
             THEN subscriptions'[r].subscriber \in Subscribers
                  /\ subscriptions'[r].provider \in Providers
             ELSE subscriptions'[r] = NoSub
  <2>1. CASE r = s
    BY <1>1, <1>2, <2>1
  <2>2. CASE r # s
    BY <1>1, <1>2, <2>2 DEF SubscriptionInv
  <2> QED
    BY <2>1, <2>2
<1>5. Total(Locked', SubIds) = Total(Locked, SubIds) - subscriptions[s].lockedBalance
                                                       + sub.lockedBalance
  <2>1. \A r \in SubIds : Locked[r] \in Nat /\ Locked'[r] \in Nat
    BY <1>1, <1>2 DEF Locked, Sub
  <2>2. \A r \in SubIds \ {s} : Locked'[r] = Locked[r]
    BY <1>2 DEF Locked
  <2>3. Locked[s] = subscriptions[s].lockedBalance /\ Locked'[s] = sub.lockedBalance
    BY <1>2 DEF Locked
  <2>4. IsFiniteSet(SubIds) /\ s \in SubIds
    BY SubSizes
  <2>5. Total(Locked', SubIds) = Total(Locked, SubIds) - Locked[s] + Locked'[s]
    <3> HIDE DEF Locked
    <3> QED
      BY ONLY <2>1, <2>2, <2>4, TotalChange
  <2> QED
    BY <2>3, <2>5
<1>6. usdc'[SubscriptionAddress] = Total(Locked', SubIds)
  BY <1>5 DEF SubscriptionInv
<1> QED
  BY <1>2, <1>3, <1>4, <1>6 DEF SubscriptionInv

LEMMA OpenBooks ==
  ASSUME SubscriptionInv, RegistryInv, NEW a \in Subscribers, NEW p \in Providers,
         NEW amount \in Nat, NEW record \in Sub, Open(a, p, amount, record),
         NEW sub, sub = [record EXCEPT !.subscriber = a, !.provider = p, !.lockedBalance = amount],
         SubSound(sub, now)
  PROVE  SubscriptionInv' /\ Quiet({SubscriptionAddress})
         /\ UNCHANGED <<providers, wiring, authorizedSlashers, now>>
<1>1. /\ subCount + 1 \in SubIds /\ CanPay(usdc, a, amount) /\ subCount' = subCount + 1
      /\ usdc' = Transfer(usdc, a, SubscriptionAddress, amount) /\ now' = now
      /\ subscriptions' = [subscriptions EXCEPT ![subCount + 1] = sub]
      /\ UNCHANGED <<providers, wiring, authorizedSlashers, now>>
  BY DEF Open
<1>2. /\ usdc \in Ledgers /\ a \in Accounts /\ a \in Addresses /\ a # SubscriptionAddress
      /\ usdc[SubscriptionAddress] \in Nat /\ SubscriptionAddress \in Addresses
  BY SubSizes, RegistryAssumption DEF RegistryInv, Ledgers
<1>3. sub.subscriber = a /\ sub.provider = p /\ sub.lockedBalance = amount
  BY DEF Sub
<1>4. subscriptions[subCount + 1].lockedBalance = 0
  <2>1. ~(subCount + 1 <= subCount)
    BY DEF SubscriptionInv
  <2> QED
    BY <1>1, <2>1 DEF SubscriptionInv, NoSub
<1>5. usdc'[SubscriptionAddress] = usdc[SubscriptionAddress] + amount
  BY <1>1, <1>2, TransferLedger
<1>6. Quiet({SubscriptionAddress})
  BY <1>1, <1>2, TransferQuiet
<1>7. usdc'[SubscriptionAddress]
        = usdc[SubscriptionAddress] - subscriptions[subCount + 1].lockedBalance + sub.lockedBalance
  BY <1>2, <1>3, <1>4, <1>5
<1>8. SubscriptionInv'
  BY <1>1, <1>2, <1>3, <1>7, SubWritten
<1> QED
  BY <1>1, <1>6, <1>8

LEMMA PayBooks ==
  ASSUME SubscriptionInv, RegistryInv, NEW s \in SubIds, s <= subCount, NEW sub,
         SubSound(sub, now), NEW amount \in Nat,
         sub.lockedBalance = subscriptions[s].lockedBalance - amount,
         sub.subscriber = subscriptions[s].subscriber, sub.provider = subscriptions[s].provider,
         NEW to \in Accounts \cup (Contracts \ Bookkeepers), Pay(s, sub, to, amount)
  PROVE  SubscriptionInv' /\ Quiet({SubscriptionAddress})
         /\ UNCHANGED <<providers, wiring, authorizedSlashers, now>>
<1>1. /\ CanPay(usdc, SubscriptionAddress, amount) /\ subCount' = subCount /\ now' = now
      /\ usdc' = Transfer(usdc, SubscriptionAddress, to, amount)
      /\ subscriptions' = [subscriptions EXCEPT ![s] = sub]
      /\ UNCHANGED <<providers, wiring, authorizedSlashers, now>>
  BY DEF Pay
<1>2. /\ usdc \in Ledgers /\ to \in Addresses /\ to # SubscriptionAddress
      /\ usdc[SubscriptionAddress] \in Nat /\ SubscriptionAddress \in Addresses
  BY SubSizes, RegistryAssumption DEF RegistryInv, Ledgers
<1>3. sub.subscriber \in Subscribers /\ sub.provider \in Providers
      /\ subscriptions[s].lockedBalance \in Nat
  BY DEF SubscriptionInv, Sub
<1>4. usdc'[SubscriptionAddress] = usdc[SubscriptionAddress] - amount
  BY <1>1, <1>2, TransferLedger
<1>5. Quiet({SubscriptionAddress})
  BY <1>1, <1>2, TransferQuiet
<1>6. usdc'[SubscriptionAddress]
        = usdc[SubscriptionAddress] - subscriptions[s].lockedBalance + sub.lockedBalance
  BY <1>2, <1>3, <1>4
<1>7. SubscriptionInv'
  BY <1>1, <1>2, <1>3, <1>6, SubWritten
<1> QED
  BY <1>1, <1>5, <1>7

LEMMA EmptySub == NoSub \in Sub 
                  /\ NoSub.streamMode = FALSE /\ NoSub.streamReleased = 0 /\ NoSub.remaining = 0
BY DEF NoSub, Sub

LEMMA SubscribeBooks ==
  ASSUME SubscriptionInv, RegistryInv, NEW a \in Subscribers, NEW p \in Providers,
         NEW count \in CallCounts, NEW duration \in Durations, Subscribe(a, p, count, duration)
  PROVE  SubscriptionInv' /\ Quiet({SubscriptionAddress})
         /\ UNCHANGED <<providers, wiring, authorizedSlashers, now>>
<1>1. /\ providers[p].price \in Nat /\ count \in Nat /\ duration \in Nat /\ now \in Nat
      /\ a \in Subscribers /\ p \in Providers
  BY SubscriptionAssumption DEF RegistryInv, Provider
<1> DEFINE amount == providers[p].price * count
           record == [NoSub EXCEPT !.price = providers[p].price, !.remaining = count,
                                   !.expiresAt = now + duration]
           sub == [record EXCEPT !.subscriber = a, !.provider = p, !.lockedBalance = amount]
<1>2. amount \in Nat
  BY <1>1, Products
<1>3. Open(a, p, amount, record)
  BY DEF Subscribe
<1>4. record \in Sub
  <2> DEFINE until == now + duration
             price == providers[p].price
  <2>1. until \in Nat /\ price \in Nat /\ count \in Nat
    BY <1>1
  <2> HIDE DEF until, price
  <2>2. [NoSub EXCEPT !.price = price, !.remaining = count, !.expiresAt = until] \in Sub
    BY ONLY <2>1, EmptySub DEF Sub
  <2> QED
    BY <2>2 DEF until, price
<1>5. /\ record.streamMode = FALSE /\ record.price = providers[p].price
      /\ record.remaining = count
  BY <1>1, EmptySub DEF Sub
<1> HIDE DEF record, amount
<1>6. sub \in Sub
  BY <1>1, <1>2, <1>4 DEF Sub
<1>7. /\ ~sub.streamMode /\ sub.lockedBalance = amount
      /\ sub.price = providers[p].price /\ sub.remaining = count
  BY <1>1, <1>2, <1>4, <1>5 DEF Sub
<1>8. SubSound(sub, now)
  <2> HIDE DEF sub
  <2> QED
    BY <1>6, <1>7 DEF SubSound, amount
<1> QED
  BY <1>2, <1>3, <1>4, <1>8, OpenBooks

LEMMA SubscribeStreamBooks ==
  ASSUME SubscriptionInv, RegistryInv, NEW a \in Subscribers, NEW p \in Providers,
         NEW amount \in StreamAmounts, NEW duration \in Durations,
         SubscribeStream(a, p, amount, duration)
  PROVE  SubscriptionInv' /\ Quiet({SubscriptionAddress})
         /\ UNCHANGED <<providers, wiring, authorizedSlashers, now>>
<1>1. amount \in Nat /\ duration \in Nat \ {0} /\ now \in Nat
  BY SubscriptionAssumption DEF RegistryInv
<1> DEFINE record == [NoSub EXCEPT !.expiresAt = now + duration, !.streamMode = TRUE,
                                   !.streamStart = now, !.streamDuration = duration]
           sub == [record EXCEPT !.subscriber = a, !.provider = p, !.lockedBalance = amount]
<1>2. Open(a, p, amount, record)
  BY DEF SubscribeStream
<1>3. record \in Sub
  <2> DEFINE until == now + duration
  <2>1. until \in Nat /\ now \in Nat /\ duration \in Nat
    BY <1>1
  <2> HIDE DEF until
  <2>2. [NoSub EXCEPT !.expiresAt = until, !.streamMode = TRUE, !.streamStart = now,
                      !.streamDuration = duration] \in Sub
    BY ONLY <2>1, EmptySub DEF Sub
  <2> QED
    BY <2>2 DEF until
<1>9. /\ record.streamMode /\ record.streamDuration = duration /\ record.streamStart = now
      /\ record.remaining = 0 /\ record.expiresAt = now + duration /\ record.streamReleased = 0
  BY <1>1, EmptySub DEF Sub
<1> HIDE DEF record
<1>4. sub \in Sub
  BY <1>1, <1>3 DEF Sub
<1>5. /\ sub.streamMode /\ sub.streamDuration = duration /\ sub.streamStart = now
      /\ sub.remaining = 0 /\ sub.expiresAt = now + duration /\ sub.streamReleased = 0
      /\ sub.lockedBalance = amount
  BY <1>1, <1>3, <1>9 DEF Sub
<1>6. ElapsedAt(sub, now) = 0
  BY <1>1, <1>5 DEF ElapsedAt
<1> HIDE DEF sub
<1>7. OnSchedule(sub, now)
  BY <1>1, <1>5, <1>6 DEF OnSchedule
<1>8. SubSound(sub, now)
  BY <1>1, <1>4, <1>5, <1>7 DEF SubSound
<1> QED
  BY <1>1, <1>2, <1>3, <1>8, OpenBooks DEF sub

LEMMA ClaimStreamBooks ==
  ASSUME SubscriptionInv, RegistryInv, NEW s \in SubIds, ClaimStream(s)
  PROVE  SubscriptionInv' /\ Quiet({SubscriptionAddress})
         /\ UNCHANGED <<providers, wiring, authorizedSlashers, now>>
<1> DEFINE sub == subscriptions[s]
           whole == sub.lockedBalance + sub.streamReleased
           amount == Accrued(sub) - sub.streamReleased
           new == [sub EXCEPT !.streamReleased = @ + amount, !.lockedBalance = @ - amount]
<1>1. /\ sub.streamMode /\ sub \in Sub /\ SubSound(sub, now) /\ amount > 0 /\ s \in Nat
      /\ Pay(s, new, sub.provider, amount) /\ now \in Nat /\ subCount \in Nat
  BY SubSizes DEF ClaimStream, SubscriptionInv, RegistryInv
<1>2. s <= subCount /\ sub.provider \in Providers
  BY <1>1 DEF SubscriptionInv, NoSub
<1>3. /\ sub.streamDuration \in Nat \ {0} /\ sub.streamStart \in Nat /\ sub.streamStart <= now
      /\ sub.remaining = 0 /\ sub.expiresAt = sub.streamStart + sub.streamDuration
      /\ sub.lockedBalance \in Nat /\ sub.streamReleased \in Nat /\ whole \in Nat
  BY <1>1 DEF SubSound, Sub
<1>4. ElapsedAt(sub, now) \in Nat /\ ElapsedAt(sub, now) <= sub.streamDuration
      /\ Elapsed(sub) = ElapsedAt(sub, now)
  BY <1>1, <1>3 DEF ElapsedAt, Elapsed
<1>5. Accrued(sub) = (whole * ElapsedAt(sub, now)) \div sub.streamDuration
  BY <1>4 DEF Accrued
<1>6. whole * ElapsedAt(sub, now) \in Nat
  BY <1>3, <1>4, Products
<1>7. /\ Accrued(sub) \in Nat /\ Accrued(sub) <= whole
      /\ sub.streamDuration * Accrued(sub) <= whole * ElapsedAt(sub, now)
  <2> HIDE DEF sub, whole
  <2>1. Accrued(sub) \in Nat /\ Accrued(sub) <= whole
    BY <1>3, <1>4, <1>5, ShareBound
  <2>2. sub.streamDuration * Accrued(sub) <= whole * ElapsedAt(sub, now)
    BY <1>3, <1>5, <1>6, DivFloor
  <2> QED
    BY <2>1, <2>2
<1>8. amount \in Nat /\ amount <= sub.lockedBalance
  <2> HIDE DEF sub
  <2> QED
    BY <1>1, <1>3, <1>7
<1>9. new \in Sub
  <2> HIDE DEF amount, sub
  <2>1. sub.streamReleased + amount \in Nat /\ sub.lockedBalance - amount \in Nat /\ sub \in Sub
    BY <1>1, <1>3, <1>8
  <2> QED
    BY <2>1 DEF Sub
<1>10. /\ new.streamReleased = sub.streamReleased + amount
       /\ new.lockedBalance = sub.lockedBalance - amount
       /\ new.streamMode = sub.streamMode /\ new.streamDuration = sub.streamDuration
       /\ new.streamStart = sub.streamStart /\ new.remaining = sub.remaining
       /\ new.expiresAt = sub.expiresAt /\ new.subscriber = sub.subscriber
       /\ new.provider = sub.provider
  <2> HIDE DEF amount
  <2> QED
    BY <1>1 DEF Sub
<1>11. ElapsedAt(new, now) = ElapsedAt(sub, now)
  <2> HIDE DEF new, sub
  <2> QED
    BY <1>10 DEF ElapsedAt
<1>12. new.streamReleased = Accrued(sub) /\ new.lockedBalance + new.streamReleased = whole
  <2> HIDE DEF new, sub
  <2> QED
    BY <1>3, <1>7, <1>10
<1>13. OnSchedule(new, now)
  <2> HIDE DEF new, sub, whole, amount
  <2>1. new.streamReleased * new.streamDuration = sub.streamDuration * Accrued(sub)
    BY <1>3, <1>7, <1>10, <1>12
  <2> QED
    BY <1>7, <1>11, <1>12, <2>1 DEF OnSchedule
<1>14. SubSound(new, now)
  <2> HIDE DEF new, sub
  <2> QED
    BY <1>1, <1>3, <1>9, <1>10, <1>13 DEF SubSound
<1>15. /\ amount \in Nat /\ new.lockedBalance = subscriptions[s].lockedBalance - amount
       /\ new.subscriber = subscriptions[s].subscriber /\ new.provider = subscriptions[s].provider
       /\ sub.provider \in Accounts \cup (Contracts \ Bookkeepers)
  BY <1>2, <1>8, <1>10, Places
<1> HIDE DEF new, amount
<1> QED
  BY <1>1, <1>2, <1>14, <1>15, PayBooks

LEMMA CancelSubscriptionBooks ==
  ASSUME SubscriptionInv, RegistryInv, NEW s \in SubIds, CancelSubscription(s)
  PROVE  SubscriptionInv' /\ Quiet({SubscriptionAddress})
         /\ UNCHANGED <<providers, wiring, authorizedSlashers, now>>
<1> DEFINE sub == subscriptions[s]
           amount == CancelRefund(sub)
           new == [sub EXCEPT !.cancelled = TRUE, !.lockedBalance = 0, !.remaining = 0]
<1>1. /\ ~sub.streamMode /\ sub \in Sub /\ SubSound(sub, now) /\ s <= subCount
      /\ Pay(s, new, sub.subscriber, amount)
  BY DEF CancelSubscription, SubscriptionInv
<1>2. sub.subscriber \in Accounts \cup (Contracts \ Bookkeepers)
  BY <1>1, SubSizes DEF SubscriptionInv
<1>3. amount = sub.lockedBalance /\ amount \in Nat /\ sub.price \in Nat
  BY <1>1 DEF SubSound, CancelRefund, Sub
<1>4. new \in Sub
  BY <1>1 DEF Sub
<1>5. /\ new.lockedBalance = 0 /\ new.remaining = 0 /\ new.price = sub.price
      /\ new.streamMode = sub.streamMode /\ new.subscriber = sub.subscriber
      /\ new.provider = sub.provider
  BY <1>1 DEF Sub
<1> HIDE DEF new, amount
<1>6. SubSound(new, now)
  BY <1>1, <1>3, <1>4, <1>5 DEF SubSound
<1>7. new.lockedBalance = subscriptions[s].lockedBalance - amount
  BY <1>3, <1>5
<1> QED
  BY <1>1, <1>2, <1>3, <1>5, <1>6, <1>7, PayBooks

LEMMA ReleaseExpiredBooks ==
  ASSUME SubscriptionInv, RegistryInv, NEW s \in SubIds, ReleaseExpired(s)
  PROVE  SubscriptionInv' /\ Quiet({SubscriptionAddress})
         /\ UNCHANGED <<providers, wiring, authorizedSlashers, now>>
<1> DEFINE sub == subscriptions[s]
           amount == sub.lockedBalance
           new == [sub EXCEPT !.lockedBalance = 0, !.remaining = 0]
<1>1. /\ sub \in Sub /\ SubSound(sub, now) /\ amount # 0 /\ now >= sub.expiresAt
      /\ Pay(s, new, sub.subscriber, amount) /\ now \in Nat
  BY DEF ReleaseExpired, SubscriptionInv, RegistryInv
<1>2. s <= subCount
  BY <1>1 DEF SubscriptionInv, NoSub
<1>3. sub.subscriber \in Accounts \cup (Contracts \ Bookkeepers)
  BY <1>2, SubSizes DEF SubscriptionInv
<1>4. amount \in Nat /\ sub.price \in Nat /\ sub.streamReleased \in Nat
      /\ sub.streamStart \in Nat /\ sub.streamDuration \in Nat
  BY <1>1 DEF Sub
<1>5. new \in Sub
  BY <1>1 DEF Sub
<1>6. /\ new.lockedBalance = 0 /\ new.remaining = 0 /\ new.price = sub.price
      /\ new.streamMode = sub.streamMode /\ new.subscriber = sub.subscriber
      /\ new.provider = sub.provider /\ new.streamReleased = sub.streamReleased
      /\ new.streamStart = sub.streamStart /\ new.streamDuration = sub.streamDuration
      /\ new.expiresAt = sub.expiresAt
  BY <1>1 DEF Sub
<1> HIDE DEF new
<1>7. SubSound(new, now)
  <2>1. CASE ~sub.streamMode
    BY <1>4, <1>5, <1>6, <2>1 DEF SubSound
  <2>2. CASE sub.streamMode
    <3>1. /\ sub.streamDuration > 0 /\ sub.streamStart <= now
          /\ sub.expiresAt = sub.streamStart + sub.streamDuration
      BY <1>1, <2>2 DEF SubSound
    <3>2. ElapsedAt(new, now) = sub.streamDuration
      BY <1>1, <1>4, <1>6, <3>1 DEF ElapsedAt
    <3>3. new.lockedBalance + new.streamReleased = sub.streamReleased
      BY <1>4, <1>6
    <3>4. sub.streamReleased * sub.streamDuration \in Nat
      BY <1>4, Products
    <3>5. OnSchedule(new, now)
      BY <1>6, <3>2, <3>3, <3>4 DEF OnSchedule
    <3> QED
      BY <1>5, <1>6, <2>2, <3>1, <3>5 DEF SubSound
  <2> QED
    BY <2>1, <2>2
<1>8. new.lockedBalance = subscriptions[s].lockedBalance - amount
  BY <1>4, <1>6
<1> QED
  BY <1>1, <1>2, <1>3, <1>4, <1>6, <1>7, <1>8, PayBooks

LEMMA OneLess == \A n \in Nat : \A m \in Nat \ {0} : n * (m - 1) = n * m - n
BY SMT

LEMMA UseCallBooks ==
  ASSUME SubscriptionInv, RegistryInv, NEW s \in SubIds, UseCall(s)
  PROVE  SubscriptionInv' /\ Quiet({SubscriptionAddress})
         /\ UNCHANGED <<providers, wiring, authorizedSlashers, now>>
<1> DEFINE sub == subscriptions[s]
           amount == sub.price
           new == [sub EXCEPT !.remaining = @ - 1, !.lockedBalance = @ - sub.price]
<1>1. /\ sub \in Sub /\ SubSound(sub, now) /\ sub.remaining > 0 /\ subscriptionCaller \in CallUsers
      /\ Pay(s, new, subscriptionCaller, amount)
  BY DEF UseCall, SubscriptionInv
<1>2. s <= subCount
  BY <1>1 DEF SubscriptionInv, NoSub
<1>3. subscriptionCaller \in Accounts \cup (Contracts \ Bookkeepers)
  BY <1>1, SubscriptionAssumption, MarketsAssumption
<1>4. /\ amount \in Nat /\ sub.remaining \in Nat \ {0} /\ sub.lockedBalance \in Nat
      /\ ~sub.streamMode /\ sub.lockedBalance = amount * sub.remaining
  BY <1>1 DEF Sub, SubSound
<1>5. amount * (sub.remaining - 1) = sub.lockedBalance - amount /\ sub.lockedBalance - amount \in Nat
  <2> HIDE DEF sub, amount
  <2>1. amount * (sub.remaining - 1) \in Nat
    BY <1>4, Products
  <2> QED
    BY <1>4, <2>1, OneLess
<1>6. new \in Sub
  <2> HIDE DEF sub
  <2>1. sub.remaining - 1 \in Nat /\ sub.lockedBalance - sub.price \in Nat /\ sub \in Sub
    BY <1>1, <1>4, <1>5
  <2> QED
    BY <2>1 DEF Sub
<1>7. /\ new.lockedBalance = sub.lockedBalance - amount /\ new.remaining = sub.remaining - 1
      /\ new.price = amount /\ new.streamMode = sub.streamMode /\ new.subscriber = sub.subscriber
      /\ new.provider = sub.provider
  BY <1>1 DEF Sub
<1> HIDE DEF new
<1>8. SubSound(new, now)
  BY <1>4, <1>5, <1>6, <1>7 DEF SubSound
<1> QED
  BY <1>1, <1>2, <1>3, <1>4, <1>7, <1>8, PayBooks

LEMMA SubscriptionMoves ==
  ASSUME RegistryInv, SubscriptionInv, SubscriptionStep
  PROVE  SubscriptionInv' /\ Quiet({SubscriptionAddress})
         /\ UNCHANGED <<providers, wiring, authorizedSlashers, now>>
<1>1. ASSUME NEW c \in Callers, SetSubscriptionCaller(c)
      PROVE  SubscriptionInv' /\ Quiet({SubscriptionAddress})
             /\ UNCHANGED <<providers, wiring, authorizedSlashers, now>>
  <2>1. /\ subscriptions' = subscriptions /\ subCount' = subCount /\ usdc' = usdc /\ now' = now
        /\ UNCHANGED <<providers, wiring, authorizedSlashers, now>>
    BY <1>1 DEF SetSubscriptionCaller, registryVars
  <2>2. Locked' = Locked
    BY <2>1 DEF Locked
  <2>3. SubscriptionInv'
    BY <2>1, <2>2 DEF SubscriptionInv
  <2> QED
    BY <2>1, <2>3, StillQuiet DEF RegistryInv
<1> QED
  BY <1>1, SubscribeBooks, SubscribeStreamBooks, ClaimStreamBooks, CancelSubscriptionBooks,
     ReleaseExpiredBooks, UseCallBooks DEF SubscriptionStep

LEMMA SubscriptionSolvent ==
  ASSUME SubscriptionInv, now \in Nat
  PROVE  SubscriptionsCovered /\ StreamOnSchedule
<1>1. ASSUME NEW s \in SubIds PROVE ElapsedAt(subscriptions[s], now) = Elapsed(subscriptions[s])
  BY DEF ElapsedAt, Elapsed
<1>2. StreamOnSchedule
  BY <1>1 DEF StreamOnSchedule, SubscriptionInv, SubSound, OnSchedule
<1> QED
  BY <1>2 DEF SubscriptionInv, SubSound, SubscriptionsCovered, Locked, Total

(* A slasher takes a part of a stake: the registry's books follow, and     *)
(* what the escrow knows of the provider stays.                            *)
LEMMA StakeCut ==
  ASSUME BaseInv, NEW p \in Providers, NEW n \in Nat, n <= providers[p].stake,
         providers' = Slashed(providers, p, n), usdc' \in Ledgers,
         usdc'[Registry] = usdc[Registry] - n, usdc'[PPC] = usdc[PPC], now' = now,
         UNCHANGED callVars
  PROVE  BaseInv' /\ CallsGrow
<1>1. /\ providers \in [Providers -> Provider] /\ now \in Nat /\ usdc[Registry] \in Nat
      /\ RegistryInv /\ EscrowInv /\ (~Registered(p) => providers[p] = NoProvider)
  BY Places DEF BaseInv, RegistryInv, Ledgers
<1> DEFINE record == [providers[p] EXCEPT !.stake = @ - n]
<1>2. /\ providers[p] \in Provider /\ providers[p].stake \in Nat
  BY <1>1 DEF Provider
<1>3. record \in Provider /\ record.stake = providers[p].stake - n
  BY <1>2 DEF Provider
<1>4. /\ record.registered = providers[p].registered
      /\ record.pendingCalls = providers[p].pendingCalls
      /\ record.completedCalls = providers[p].completedCalls
      /\ record.slashedCalls = providers[p].slashedCalls
      /\ providers' = [providers EXCEPT ![p] = record]
  BY <1>1, <1>2 DEF Provider, Slashed
<1>5. record.registered \/ record = NoProvider
  <2>1. CASE Registered(p)
    BY <1>4, <2>1 DEF Registered
  <2>2. CASE ~Registered(p)
    <3>1. n = 0 /\ providers[p] = NoProvider
      BY <1>1, <2>2 DEF NoProvider
    <3> QED
      BY <3>1 DEF NoProvider
  <2> QED
    BY <2>1, <2>2
<1> HIDE DEF record
<1>6. usdc'[Registry] = usdc[Registry] - providers[p].stake + record.stake
  BY <1>1, <1>2, <1>3
<1>7. RegistryInv'
  BY <1>1, <1>3, <1>4, <1>5, <1>6, RecordWritten
<1>8. CountsKept
  BY <1>1, <1>4, RecordKeepsCounts
<1>9. EscrowInv'
  BY <1>1, <1>8, EscrowUntouched
<1>10. BaseInv'
  BY <1>7, <1>9 DEF BaseInv
<1> QED
  BY <1>8, <1>10, CallsStay

-----------------------------------------------------------------------------
(* Disputes: the contract holds the bonds of the disputes that are open,   *)
(* each about a settled call of an account.                                *)
DisputeRecord == [bond : Nat, status : {"None", "Pending", "Upheld", "Rejected"}]

Bonded == [c \in CallIds |-> IF disputes[c].status = "Pending" THEN disputes[c].bond ELSE 0]

DisputeInv ==
  /\ disputes \in [CallIds -> DisputeRecord]
  /\ arbitration \in [bond : Nat, wired : BOOLEAN]
  /\ \A c \in CallIds : disputes[c].status = "Pending" =>
       calls[c].status \in {"Completed", "Slashed"} /\ calls[c].caller \in Accounts
  /\ usdc[DisputeAddress] = Total(Bonded, CallIds)

LEMMA DisputePlace ==
  /\ DisputeAddress \in Contracts /\ DisputeAddress \in Bookkeepers /\ DisputeAddress \in Addresses
  /\ DisputeAddress \notin Accounts /\ DisputeAddress # Registry /\ DisputeAddress # PPC
  /\ DisputeTreasury \in Addresses \cap (Accounts \cup (Contracts \ Bookkeepers))
  /\ DisputeTreasury # DisputeAddress
BY DisputeAssumption, MarketsAssumption, RegistryAssumption DEF Bookkeepers

LEMMA DisputesUntouched ==
  ASSUME DisputeInv, UNCHANGED disputeVars, CallsGrow,
         usdc'[DisputeAddress] = usdc[DisputeAddress]
  PROVE  DisputeInv'
<1>1. disputes' = disputes /\ arbitration' = arbitration
  BY DEF disputeVars
<1>2. Bonded' = Bonded
  BY <1>1 DEF Bonded
<1>3. \A c \in CallIds : disputes'[c].status = "Pending" =>
        calls'[c].status \in {"Completed", "Slashed"} /\ calls'[c].caller \in Accounts
  BY <1>1 DEF DisputeInv, CallsGrow
<1> QED
  BY <1>1, <1>2, <1>3 DEF DisputeInv

LEMMA DisputeStart == RegistryInit /\ DisputeInit => DisputeInv
<1> SUFFICES ASSUME RegistryInit, DisputeInit PROVE DisputeInv
  OBVIOUS
<1>1. disputes = [c \in CallIds |-> NoDispute] /\ NoDispute.status = "None"
      /\ NoDispute \in DisputeRecord
  BY DEF DisputeInit, NoDispute, DisputeRecord
<1>2. arbitration \in [bond : Nat, wired : BOOLEAN]
  BY DisputeAssumption DEF DisputeInit
<1>3. \A c \in CallIds : Bonded[c] = 0
  BY <1>1 DEF Bonded
<1>4. Total(Bonded, CallIds) = 0
  BY <1>3, Sizes, TotalZero
<1>5. usdc[DisputeAddress] = 0
  BY DisputePlace DEF RegistryInit
<1> QED
  BY <1>1, <1>2, <1>4, <1>5 DEF DisputeInv

(* One dispute is written, and the balance moves with its bond.            *)
BondOf(dispute) == IF dispute.status = "Pending" THEN dispute.bond ELSE 0

LEMMA DisputeWritten ==
  ASSUME DisputeInv, NEW c \in CallIds, NEW dispute \in DisputeRecord,
         disputes' = [disputes EXCEPT ![c] = dispute], arbitration' = arbitration, calls' = calls,
         dispute.status = "Pending" =>
           calls[c].status \in {"Completed", "Slashed"} /\ calls[c].caller \in Accounts,
         usdc'[DisputeAddress] = usdc[DisputeAddress] - BondOf(disputes[c]) + BondOf(dispute)
  PROVE  DisputeInv'
<1>1. /\ disputes \in [CallIds -> DisputeRecord] /\ disputes' \in [CallIds -> DisputeRecord]
      /\ disputes'[c] = dispute /\ \A d \in CallIds \ {c} : disputes'[d] = disputes[d]
  BY DEF DisputeInv
<1>2. \A d \in CallIds : disputes'[d].status = "Pending" =>
        calls'[d].status \in {"Completed", "Slashed"} /\ calls'[d].caller \in Accounts
  BY <1>1 DEF DisputeInv
<1>3. Total(Bonded', CallIds) = Total(Bonded, CallIds) - BondOf(disputes[c]) + BondOf(dispute)
  <2>1. \A d \in CallIds : Bonded[d] \in Nat /\ Bonded'[d] \in Nat
    BY <1>1 DEF Bonded, DisputeRecord
  <2>2. \A d \in CallIds \ {c} : Bonded'[d] = Bonded[d]
    BY <1>1 DEF Bonded
  <2>3. Bonded[c] = BondOf(disputes[c]) /\ Bonded'[c] = BondOf(dispute)
    BY <1>1 DEF Bonded, BondOf
  <2>4. IsFiniteSet(CallIds) /\ c \in CallIds
    BY Sizes
  <2>5. Total(Bonded', CallIds) = Total(Bonded, CallIds) - Bonded[c] + Bonded'[c]
    <3> HIDE DEF Bonded
    <3> QED
      BY ONLY <2>1, <2>2, <2>4, TotalChange
  <2> QED
    BY <2>3, <2>5
<1>4. usdc'[DisputeAddress] = Total(Bonded', CallIds)
  BY <1>3 DEF DisputeInv
<1> QED
  BY <1>1, <1>2, <1>4 DEF DisputeInv

LEMMA OpenDisputeBooks ==
  ASSUME BaseInv, DisputeInv, NEW c \in CallIds, NEW settledAt, OpenDispute(c, settledAt)
  PROVE  /\ BaseInv' /\ DisputeInv' /\ CallsGrow /\ Quiet({DisputeAddress, Registry})
<1> DEFINE caller == calls[c].caller
           bond == arbitration.bond
           dispute == [bond |-> bond, status |-> "Pending"]
<1>1. /\ disputes[c].status = "None" /\ calls[c].status \in {"Completed", "Slashed"}
      /\ caller \in Accounts /\ CanPay(usdc, caller, bond)
      /\ disputes' = [disputes EXCEPT ![c] = dispute] /\ arbitration' = arbitration
      /\ usdc' = Transfer(usdc, caller, DisputeAddress, bond)
      /\ providers' = providers /\ now' = now /\ UNCHANGED callVars /\ calls' = calls
  BY DEF OpenDispute, callVars
<1>2. /\ usdc \in Ledgers /\ now \in Nat /\ bond \in Nat /\ caller \in Addresses
      /\ caller \notin Contracts /\ PPC \in Contracts /\ Registry \in Contracts
      /\ \A a \in Addresses : usdc[a] \in Nat
  BY <1>1, Places, RegistryAssumption DEF BaseInv, RegistryInv, DisputeInv, Ledgers
<1>3. dispute \in DisputeRecord /\ BondOf(dispute) = bond /\ BondOf(disputes[c]) = 0
  BY <1>1, <1>2 DEF DisputeRecord, BondOf
<1> HIDE DEF dispute, bond, caller
<1>4. /\ usdc' \in Ledgers /\ usdc'[DisputeAddress] = usdc[DisputeAddress] + bond
      /\ usdc'[Registry] = usdc[Registry] /\ usdc'[PPC] = usdc[PPC]
  <2>1. usdc' \in Ledgers /\ \A a \in Addresses :
          usdc'[a] = usdc[a] - (IF a = caller THEN bond ELSE 0)
                       + (IF a = DisputeAddress THEN bond ELSE 0)
    BY <1>1, <1>2, DisputePlace, TransferLedger
  <2> QED
    BY <1>2, <2>1, DisputePlace
<1>5. Quiet({DisputeAddress, Registry})
  BY <1>1, <1>2, DisputePlace, TransferQuiet
<1>6. CountsKept
  BY <1>1 DEF CountsKept
<1>7. BaseInv'
  BY <1>1, <1>2, <1>4, <1>6, RegistryUntouched, EscrowUntouched DEF BaseInv
<1>8. CallsGrow
  BY <1>1, <1>6, <1>7, CallsStay
<1>9. usdc'[DisputeAddress] = usdc[DisputeAddress] - BondOf(disputes[c]) + BondOf(dispute)
  BY <1>2, <1>3, <1>4, DisputePlace
<1>10. DisputeInv'
  BY <1>1, <1>3, <1>9, DisputeWritten DEF caller
<1> QED
  BY <1>5, <1>7, <1>8, <1>10

LEMMA ResolveBooks ==
  ASSUME BaseInv, DisputeInv, NEW c \in CallIds, NEW upheld, Resolve(c, upheld)
  PROVE  /\ BaseInv' /\ DisputeInv' /\ CallsGrow /\ Quiet({DisputeAddress, Registry})
<1> DEFINE p == calls[c].provider
           caller == calls[c].caller
           bond == disputes[c].bond
           slash == (providers[p].stake * DisputeSlashBps) \div Bps
           decided(status) == [disputes[c] EXCEPT !.status = status]
<1>1. /\ disputes[c].status = "Pending" /\ CanPay(usdc, DisputeAddress, bond)
      /\ arbitration' = arbitration /\ now' = now /\ UNCHANGED callVars /\ calls' = calls
  BY DEF Resolve, callVars
<1>2. /\ usdc \in Ledgers /\ now \in Nat /\ bond \in Nat /\ p \in Providers /\ caller \in Accounts
      /\ caller \in Addresses /\ caller \notin Contracts /\ PPC \in Contracts
      /\ Registry \in Contracts /\ \A a \in Addresses : usdc[a] \in Nat
  BY <1>1, Places, RegistryAssumption
     DEF BaseInv, RegistryInv, EscrowInv, CallsSound, DisputeInv, DisputeRecord, Ledgers
<1>3. slash \in Nat /\ slash <= providers[p].stake
  BY <1>2, DisputeAssumption, ShareOfStake DEF BaseInv
<1>4. BondOf(disputes[c]) = bond
  BY <1>1 DEF BondOf
<1>5. ASSUME NEW status \in {"Upheld", "Rejected"}, BaseInv', usdc' \in Ledgers,
             disputes' = [disputes EXCEPT ![c].status = status],
             usdc'[DisputeAddress] = usdc[DisputeAddress] - bond
      PROVE  DisputeInv'
  <2>1. /\ disputes' = [disputes EXCEPT ![c] = decided(status)]
        /\ decided(status) \in DisputeRecord /\ decided(status).status = status
    BY <1>5 DEF DisputeInv, DisputeRecord
  <2>2. BondOf(decided(status)) = 0 /\ decided(status).status # "Pending"
    BY <2>1 DEF BondOf
  <2> HIDE DEF decided
  <2>3. usdc'[DisputeAddress]
          = usdc[DisputeAddress] - BondOf(disputes[c]) + BondOf(decided(status))
    BY <1>2, <1>4, <1>5, <2>2, DisputePlace
  <2> QED
    BY <1>1, <2>1, <2>2, <2>3, DisputeWritten
<1>6. CASE /\ slash > 0 => CanPay(usdc, Registry, slash)
           /\ providers' = Slashed(providers, p, slash)
           /\ usdc' = Transfer(Transfer(usdc, DisputeAddress, caller, bond), Registry, caller, slash)
           /\ disputes' = [disputes EXCEPT ![c].status = "Upheld"]
  <2> HIDE DEF p, caller, bond, slash
  <2> DEFINE mid == Transfer(usdc, DisputeAddress, caller, bond)
  <2>1. /\ mid \in Ledgers
        /\ \A a \in Addresses : mid[a] = usdc[a] - (IF a = DisputeAddress THEN bond ELSE 0)
                                                 + (IF a = caller THEN bond ELSE 0)
    BY <1>1, <1>2, DisputePlace, TransferLedger
  <2>2. CanPay(mid, Registry, slash)
    <3>1. mid[Registry] = usdc[Registry] /\ usdc[Registry] \in Nat
      BY <1>2, <2>1, DisputePlace
    <3> QED
      BY <1>3, <1>6, <3>1 DEF CanPay
  <2>3. usdc' = Transfer(mid, Registry, caller, slash)
    BY <1>6
  <2> HIDE DEF mid
  <2>4. /\ usdc' \in Ledgers
        /\ \A a \in Addresses : usdc'[a] = mid[a] - (IF a = Registry THEN slash ELSE 0)
                                                 + (IF a = caller THEN slash ELSE 0)
    BY <1>2, <1>3, <2>1, <2>2, <2>3, TransferLedger
  <2>5. \A a \in Addresses : mid[a] \in Nat
    BY <2>1 DEF Ledgers
  <2>6. \A a \in Contracts : usdc'[a] = usdc[a] - (IF a = DisputeAddress THEN bond ELSE 0)
                                                - (IF a = Registry THEN slash ELSE 0)
    BY <1>2, <1>3, <2>1, <2>4, <2>5, DisputePlace
  <2>7. /\ usdc'[DisputeAddress] = usdc[DisputeAddress] - bond
        /\ usdc'[Registry] = usdc[Registry] - slash /\ usdc'[PPC] = usdc[PPC]
    BY <1>2, <1>3, <2>6, DisputePlace, Places
  <2>8. Quiet({DisputeAddress, Registry})
    <3>1. \A a \in Contracts \ {DisputeAddress, Registry} : usdc'[a] = usdc[a] /\ usdc[a] \in Nat
      BY <1>2, <2>6
    <3> QED
      BY <2>4, <3>1 DEF Quiet
  <2>9. BaseInv' /\ CallsGrow
    BY <1>1, <1>2, <1>3, <1>6, <2>4, <2>7, StakeCut
  <2> QED
    BY <1>5, <1>6, <2>4, <2>7, <2>8, <2>9
<1>7. CASE /\ usdc' = Transfer(usdc, DisputeAddress, DisputeTreasury, bond)
           /\ disputes' = [disputes EXCEPT ![c].status = "Rejected"]
           /\ UNCHANGED providers
  <2> HIDE DEF p, caller, bond, slash
  <2>1. /\ usdc' \in Ledgers
        /\ \A a \in Addresses : usdc'[a] = usdc[a] - (IF a = DisputeAddress THEN bond ELSE 0)
                                                 + (IF a = DisputeTreasury THEN bond ELSE 0)
    BY <1>1, <1>2, <1>7, DisputePlace, TransferLedger
  <2>2. /\ usdc'[DisputeAddress] = usdc[DisputeAddress] - bond
        /\ usdc'[Registry] = usdc[Registry] /\ usdc'[PPC] = usdc[PPC]
    <3>1. DisputeTreasury \notin {Registry, PPC, DisputeAddress}
      BY <1>2, DisputePlace, RegistryAssumption DEF Bookkeepers
    <3> QED
      BY <1>2, <2>1, <3>1, DisputePlace
  <2>3. Quiet({DisputeAddress, Registry})
    BY <1>1, <1>2, <1>7, DisputePlace, TransferQuiet
  <2>4. CountsKept
    BY <1>7 DEF CountsKept
  <2>5. BaseInv'
    BY <1>1, <1>2, <1>7, <2>1, <2>2, <2>4, RegistryUntouched, EscrowUntouched DEF BaseInv
  <2>6. CallsGrow
    BY <1>1, <2>4, <2>5, CallsStay
  <2> QED
    BY <1>5, <1>7, <2>1, <2>2, <2>3, <2>5, <2>6
<1> QED
  BY <1>6, <1>7 DEF Resolve

LEMMA DisputeMoves ==
  ASSUME BaseInv, DisputeInv, DisputeStep
  PROVE  /\ BaseInv' /\ DisputeInv' /\ CallsGrow /\ Quiet({DisputeAddress, Registry})
         /\ now' = now
<1>1. ASSUME UNCHANGED <<registryVars, callVars, disputes>>,
             arbitration' \in [bond : Nat, wired : BOOLEAN]
      PROVE  /\ BaseInv' /\ DisputeInv' /\ CallsGrow /\ Quiet({DisputeAddress, Registry})
             /\ now' = now
  <2>1. /\ providers' = providers /\ usdc' = usdc /\ now' = now /\ disputes' = disputes
        /\ UNCHANGED callVars /\ calls' = calls /\ usdc \in Ledgers /\ now \in Nat
    BY <1>1 DEF registryVars, callVars, BaseInv, RegistryInv
  <2>2. CountsKept
    BY <2>1 DEF CountsKept
  <2>3. BaseInv'
    BY <2>1, <2>2, RegistryUntouched, EscrowUntouched DEF BaseInv
  <2>4. Bonded' = Bonded
    BY <2>1 DEF Bonded
  <2>5. DisputeInv'
    BY <1>1, <2>1, <2>4 DEF DisputeInv
  <2> QED
    BY <2>1, <2>2, <2>3, <2>5, CallsStay, StillQuiet
<1>2. ASSUME NEW bond \in DisputeBonds, SetDisputeBond(bond)
      PROVE  /\ UNCHANGED <<registryVars, callVars, disputes>>
             /\ arbitration' \in [bond : Nat, wired : BOOLEAN]
  BY <1>2, DisputeAssumption DEF SetDisputeBond, DisputeInv
<1>3. ASSUME WirePayPerCall
      PROVE  /\ UNCHANGED <<registryVars, callVars, disputes>>
             /\ arbitration' \in [bond : Nat, wired : BOOLEAN]
  BY <1>3 DEF WirePayPerCall, DisputeInv
<1>4. ASSUME NEW c \in CallIds, NEW settledAt \in Time, OpenDispute(c, settledAt)
      PROVE  /\ BaseInv' /\ DisputeInv' /\ CallsGrow /\ Quiet({DisputeAddress, Registry})
             /\ now' = now
  <2>1. now' = now
    BY <1>4 DEF OpenDispute
  <2> QED
    BY <1>4, <2>1, OpenDisputeBooks
<1>5. ASSUME NEW c \in CallIds, NEW upheld \in BOOLEAN, Resolve(c, upheld)
      PROVE  /\ BaseInv' /\ DisputeInv' /\ CallsGrow /\ Quiet({DisputeAddress, Registry})
             /\ now' = now
  <2>1. now' = now
    BY <1>5 DEF Resolve
  <2> QED
    BY <1>5, <2>1, ResolveBooks
<1> QED
  BY <1>1, <1>2, <1>3, <1>4, <1>5 DEF DisputeStep

-----------------------------------------------------------------------------
(* Loans: each share belongs to somebody, what is lent out is the open     *)
(* principals, a vault that issued shares has money, and cash and vaults   *)
(* together have what is not lent out.                                     *)
LoanRecord == [provider : Providers \cup {NoAddress}, principal : Nat, startTime : Nat,
               duration : Nat, active : BOOLEAN]

Terms == [minHonorRate : 0..Bps, minCallCount : Nat, maxLoanBps : 0..Bps,
          interestRateBps : 0..Bps, loanDuration : Nat \ {0}]

Lent == [l \in LoanIds |-> IF loans[l].active THEN loans[l].principal ELSE 0]

InVaults == [v \in Vaults |-> usdc[v]]

SharesInv ==
  /\ shares \in [LPs -> Nat] /\ totalShares \in Nat /\ totalAssets \in Nat
  /\ totalShares = Total(shares, LPs)

DebtInv ==
  /\ loans \in [LoanIds -> LoanRecord] /\ loanCount \in Nat
  /\ \A l \in LoanIds : loans[l].active =>
       loans[l].provider \in Providers /\ loans[l].startTime <= now /\ l <= loanCount
  /\ totalLoaned = Total(Lent, LoanIds)

VaultInv ==
  /\ yieldVault \in Vaults \cup {NoAddress} /\ vaultShares \in Nat
  /\ vaultHeld \in [Vaults -> Nat]
  /\ \A v \in Vaults : vaultHeld[v] > 0 => usdc[v] > 0

Backed == usdc[LoanAddress] + Total(InVaults, Vaults) >= totalAssets - totalLoaned

LoanInv == SharesInv /\ DebtInv /\ VaultInv /\ loanTerms \in Terms /\ Backed

LEMMA LoanSizes ==
  /\ IsFiniteSet(LPs) /\ IsFiniteSet(LoanIds) /\ IsFiniteSet(Vaults) /\ LoanIds \subseteq Nat
  /\ LPs \subseteq Accounts /\ Vaults \subseteq Contracts \ Bookkeepers
  /\ LoanAddress \in Contracts \ Bookkeepers /\ LoanAddress \notin Vaults
  /\ LoanAddress \in Addresses /\ Vaults \subseteq Addresses /\ NoAddress \notin Vaults
  /\ Accounts \cap Contracts = {}
<1>1. LPs \subseteq Accounts /\ Vaults \subseteq Contracts
  BY LoanAssumption
<1>2. IsFiniteSet(LoanIds) /\ LoanIds \subseteq Nat
  BY FS_Interval, LoanAssumption DEF LoanIds
<1>3. IsFiniteSet(LPs) /\ IsFiniteSet(Vaults)
  BY <1>1, Sizes, FS_Subset
<1> QED
  BY <1>1, <1>2, <1>3, LoanAssumption, MarketsAssumption, RegistryAssumption

LEMMA VaultMoney ==
  ASSUME usdc \in Ledgers
  PROVE  (\A v \in Vaults : InVaults[v] \in Nat) /\ Total(InVaults, Vaults) \in Nat
<1>1. \A v \in Vaults : InVaults[v] \in Nat
  BY LoanSizes DEF InVaults, Ledgers
<1>2. Total(InVaults, Vaults) \in Nat
  <2> HIDE DEF InVaults
  <2> QED
    BY <1>1, LoanSizes, TotalNat
<1> QED
  BY <1>1, <1>2

(* The money in the vaults when one of them pays or is paid.               *)
LEMMA VaultMoneyMoves ==
  ASSUME usdc \in Ledgers, usdc' \in Ledgers, NEW v \in Vaults,
         \A w \in Vaults \ {v} : usdc'[w] = usdc[w]
  PROVE  Total(InVaults', Vaults) = Total(InVaults, Vaults) - usdc[v] + usdc'[v]
<1>1. \A w \in Vaults : InVaults[w] \in Nat /\ InVaults'[w] \in Nat
  BY LoanSizes DEF InVaults, Ledgers
<1>2. \A w \in Vaults \ {v} : InVaults'[w] = InVaults[w]
  BY DEF InVaults
<1>3. InVaults[v] = usdc[v] /\ InVaults'[v] = usdc'[v] /\ v \in Vaults /\ IsFiniteSet(Vaults)
  BY LoanSizes DEF InVaults
<1>4. Total(InVaults', Vaults) = Total(InVaults, Vaults) - InVaults[v] + InVaults'[v]
  <2> HIDE DEF InVaults
  <2> QED
    BY ONLY <1>1, <1>2, <1>3, TotalChange
<1> QED
  BY <1>3, <1>4

LEMMA VaultMoneyStays ==
  ASSUME \A v \in Vaults : usdc'[v] = usdc[v]
  PROVE  Total(InVaults', Vaults) = Total(InVaults, Vaults)
<1>1. InVaults' = InVaults
  BY DEF InVaults
<1> QED
  BY <1>1

LEMMA LoansUntouched ==
  ASSUME LoanInv, UNCHANGED loanVars, now \in Nat, now' \in Nat, now <= now',
         usdc \in Ledgers, usdc' \in Ledgers,
         \A a \in Vaults \cup {LoanAddress} : usdc'[a] >= usdc[a]
  PROVE  LoanInv'
<1>1. /\ shares' = shares /\ totalShares' = totalShares /\ totalAssets' = totalAssets
      /\ totalLoaned' = totalLoaned /\ loans' = loans /\ loanCount' = loanCount
      /\ yieldVault' = yieldVault /\ vaultShares' = vaultShares /\ vaultHeld' = vaultHeld
      /\ loanTerms' = loanTerms
  BY DEF loanVars, poolVars, debtVars, vaultVars
<1>2. SharesInv'
  BY <1>1 DEF LoanInv, SharesInv
<1>3. DebtInv'
  <2>1. Lent' = Lent
    BY <1>1 DEF Lent
  <2>2. \A l \in LoanIds : loans[l].startTime \in Nat
    BY DEF LoanInv, DebtInv, LoanRecord
  <2>3. \A l \in LoanIds : loans[l].active => loans[l].startTime <= now'
    BY <2>2 DEF LoanInv, DebtInv
  <2> QED
    BY <1>1, <2>1, <2>3 DEF LoanInv, DebtInv
<1>4. \A a \in Addresses : usdc[a] \in Nat /\ usdc'[a] \in Nat
  BY DEF Ledgers
<1>5. VaultInv'
  BY <1>1, <1>4, LoanSizes DEF LoanInv, VaultInv
<1>6. Total(InVaults, Vaults) <= Total(InVaults', Vaults)
  <2>1. \A v \in Vaults : InVaults[v] \in Nat /\ InVaults'[v] \in Nat /\ InVaults[v] <= InVaults'[v]
    BY <1>4, LoanSizes DEF InVaults
  <2> HIDE DEF InVaults
  <2> QED
    BY <2>1, LoanSizes, TotalMonotone
<1>7. Backed'
  <2>1. Total(InVaults, Vaults) \in Nat
    BY VaultMoney
  <2>2. Total(InVaults', Vaults) \in Nat
    <3>1. \A v \in Vaults : InVaults'[v] \in Nat
      BY <1>4, LoanSizes DEF InVaults
    <3> HIDE DEF InVaults
    <3> QED
      BY <3>1, LoanSizes, TotalNat
  <2>3. totalLoaned \in Nat
    <3>1. \A l \in LoanIds : Lent[l] \in Nat
      BY DEF LoanInv, DebtInv, Lent, LoanRecord
    <3> HIDE DEF Lent
    <3>2. Total(Lent, LoanIds) \in Nat
      BY <3>1, LoanSizes, TotalNat
    <3> QED
      BY <3>2 DEF LoanInv, DebtInv
  <2> QED
    BY <1>1, <1>4, <1>6, <2>1, <2>2, <2>3, LoanSizes DEF LoanInv, Backed, SharesInv
<1> QED
  BY <1>1, <1>2, <1>3, <1>5, <1>7 DEF LoanInv

LEMMA LoanStart == RegistryInit /\ LoanInit => LoanInv
<1> SUFFICES ASSUME RegistryInit, LoanInit PROVE LoanInv
  OBVIOUS
<1>1. usdc \in Ledgers
  BY RegistryStart DEF RegistryInv
<1>2. SharesInv
  <2>1. shares \in [LPs -> Nat] /\ \A a \in LPs : shares[a] = 0
    BY DEF LoanInit
  <2>2. Total(shares, LPs) = 0
    BY <2>1, LoanSizes, TotalZero
  <2> QED
    BY <2>1, <2>2 DEF LoanInit, SharesInv
<1>3. DebtInv
  <2>1. loans \in [LoanIds -> LoanRecord] /\ \A l \in LoanIds : loans[l].active = FALSE
    BY DEF LoanInit, NoLoan, LoanRecord
  <2>2. \A l \in LoanIds : Lent[l] = 0
    BY <2>1 DEF Lent
  <2>3. Total(Lent, LoanIds) = 0
    <3> HIDE DEF Lent
    <3> QED
      BY <2>2, LoanSizes, TotalZero
  <2> QED
    BY <2>1, <2>3 DEF LoanInit, DebtInv
<1>4. VaultInv
  BY DEF LoanInit, VaultInv
<1>5. loanTerms \in Terms
  BY LoanAssumption DEF LoanInit, Terms
<1>6. Backed
  <2>1. usdc[LoanAddress] \in Nat /\ Total(InVaults, Vaults) \in Nat
    BY <1>1, LoanSizes, VaultMoney DEF Ledgers
  <2> QED
    BY <2>1 DEF Backed, LoanInit
<1> QED
  BY <1>2, <1>3, <1>4, <1>5, <1>6 DEF LoanInv

LEMMA LoanedNat == ASSUME DebtInv PROVE totalLoaned \in Nat
<1>1. \A l \in LoanIds : Lent[l] \in Nat
  BY DEF DebtInv, Lent, LoanRecord
<1>2. Total(Lent, LoanIds) \in Nat
  <2> HIDE DEF Lent
  <2> QED
    BY <1>1, LoanSizes, TotalNat
<1> QED
  BY <1>2 DEF DebtInv

(* One loan is written, and what is lent out moves with its principal.     *)
PrincipalOf(loan) == IF loan.active THEN loan.principal ELSE 0

LEMMA LoanWritten ==
  ASSUME DebtInv, NEW l \in LoanIds, NEW loan \in LoanRecord,
         loans' = [loans EXCEPT ![l] = loan], loanCount' \in Nat, loanCount <= loanCount', now' = now,
         loan.active => loan.provider \in Providers /\ loan.startTime <= now /\ l <= loanCount',
         totalLoaned' = totalLoaned - PrincipalOf(loans[l]) + PrincipalOf(loan)
  PROVE  DebtInv'
<1>1. /\ loans \in [LoanIds -> LoanRecord] /\ loans' \in [LoanIds -> LoanRecord]
      /\ loans'[l] = loan /\ \A k \in LoanIds \ {l} : loans'[k] = loans[k]
  BY DEF DebtInv
<1>2. \A k \in LoanIds : loans'[k].active =>
        loans'[k].provider \in Providers /\ loans'[k].startTime <= now' /\ k <= loanCount'
  BY <1>1, LoanSizes DEF DebtInv
<1>3. Total(Lent', LoanIds) = Total(Lent, LoanIds) - PrincipalOf(loans[l]) + PrincipalOf(loan)
  <2>1. \A k \in LoanIds : Lent[k] \in Nat /\ Lent'[k] \in Nat
    BY <1>1 DEF Lent, LoanRecord
  <2>2. \A k \in LoanIds \ {l} : Lent'[k] = Lent[k]
    BY <1>1 DEF Lent
  <2>3. Lent[l] = PrincipalOf(loans[l]) /\ Lent'[l] = PrincipalOf(loan)
    BY <1>1 DEF Lent, PrincipalOf
  <2>4. IsFiniteSet(LoanIds) /\ l \in LoanIds
    BY LoanSizes
  <2>5. Total(Lent', LoanIds) = Total(Lent, LoanIds) - Lent[l] + Lent'[l]
    <3> HIDE DEF Lent
    <3> QED
      BY ONLY <2>1, <2>2, <2>4, TotalChange
  <2> QED
    BY <2>3, <2>5
<1> QED
  BY <1>1, <1>2, <1>3 DEF DebtInv

(* The shares of one provider of liquidity change.                         *)
LEMMA SharesWritten ==
  ASSUME SharesInv, NEW a \in LPs, NEW n \in Nat, shares' = [shares EXCEPT ![a] = n],
         totalShares' = totalShares - shares[a] + n, totalAssets' \in Nat
  PROVE  SharesInv'
<1>1. /\ shares \in [LPs -> Nat] /\ shares' \in [LPs -> Nat] /\ shares'[a] = n
      /\ \A b \in LPs \ {a} : shares'[b] = shares[b]
  BY DEF SharesInv
<1>2. Total(shares', LPs) = Total(shares, LPs) - shares[a] + n
  <2>1. \A b \in LPs : shares[b] \in Nat /\ shares'[b] \in Nat
    BY <1>1
  <2>2. IsFiniteSet(LPs) /\ a \in LPs
    BY LoanSizes
  <2>3. Total(shares', LPs) = Total(shares, LPs) - shares[a] + shares'[a]
    BY ONLY <1>1, <2>1, <2>2, TotalChange
  <2> QED
    BY <1>1, <2>3
<1>3. Total(shares', LPs) \in Nat
  <2>1. IsFiniteSet(LPs) /\ \A b \in LPs : shares'[b] \in Nat
    BY <1>1, LoanSizes
  <2> QED
    BY ONLY <2>1, TotalNat
<1> QED
  BY <1>1, <1>2, <1>3 DEF SharesInv

LEMMA PartialShare ==
  ASSUME NEW t \in Nat \ {0}, NEW e \in Nat, NEW d \in Nat \ {0}, e < d
  PROVE  (e * t) \div d \in Nat /\ (e * t) \div d < t
<1> DEFINE q == (e * t) \div d
<1>1. e * t \in Nat
  BY Products
<1>2. q \in Nat /\ d * q <= e * t
  BY <1>1, DivFloor
<1> HIDE DEF q
<1>3. e * t < d * t
  BY SMT
<1>4. ASSUME t <= q PROVE FALSE
  <2>1. d * t <= d * q
    BY <1>2, <1>4, MulMono
  <2>2. d * t \in Nat /\ d * q \in Nat
    BY <1>2, Products
  <2> QED
    BY <1>1, <1>2, <1>3, <2>1, <2>2
<1>5. q < t
  BY <1>2, <1>4
<1> QED
  BY <1>2, <1>5 DEF q

(* What is redeemed before a payment.                                      *)
LEMMA RedeemedShares ==
  ASSUME VaultInv, usdc \in Ledgers, NEW needed \in Nat
  PROVE  /\ SharesToRedeem(needed) \in Nat /\ SharesToRedeem(needed) <= vaultShares
         /\ SharesToRedeem(needed) # 0 => yieldVault \in Vaults
<1> DEFINE deficit == needed - usdc[LoanAddress]
           redeemable == VaultAssets(yieldVault, vaultShares)
           proportional == (deficit * vaultShares) \div redeemable + 1
<1>1. usdc[LoanAddress] \in Nat /\ deficit \in Int /\ vaultShares \in Nat
      /\ yieldVault \in Vaults \cup {NoAddress}
  BY LoanSizes DEF Ledgers, VaultInv
<1>2. CASE yieldVault = NoAddress \/ deficit <= 0
  BY <1>1, <1>2 DEF SharesToRedeem
<1>3. CASE ~(yieldVault = NoAddress \/ deficit <= 0)
  <2>1. yieldVault \in Vaults /\ deficit \in Nat
    BY <1>1, <1>3
  <2>2. redeemable \in Nat
    <3>1. vaultHeld[yieldVault] \in Nat /\ usdc[yieldVault] \in Nat
      BY <2>1, LoanSizes DEF VaultInv, Ledgers
    <3>2. vaultShares * usdc[yieldVault] \in Nat
      BY <1>1, <3>1, Products
    <3>3. vaultHeld[yieldVault] # 0
             => (vaultShares * usdc[yieldVault]) \div vaultHeld[yieldVault] \in Nat
      BY <3>1, <3>2, DivFloor
    <3> QED
      BY <1>1, <3>1, <3>3 DEF VaultAssets
  <2>3. SharesToRedeem(needed) = IF redeemable > deficit /\ proportional < vaultShares
                                 THEN proportional ELSE vaultShares
    BY <1>3 DEF SharesToRedeem
  <2>4. redeemable > deficit => proportional \in Nat
    <3> HIDE DEF deficit, redeemable
    <3>1. deficit * vaultShares \in Nat
      BY <1>1, <2>1, Products
    <3>2. ASSUME redeemable > deficit PROVE (deficit * vaultShares) \div redeemable \in Nat
      BY <2>1, <2>2, <3>1, <3>2, DivFloor
    <3> QED
      BY <3>2
  <2> HIDE DEF deficit, redeemable, proportional
  <2> QED
    BY <1>1, <2>1, <2>3, <2>4
<1> QED
  BY <1>2, <1>3

(* A payment to an account leaves cash and vaults with that much less.     *)
LEMMA PayOutBooks ==
  ASSUME VaultInv, usdc \in Ledgers, NEW needed \in Nat, NEW to \in Accounts, PayOut(needed, to)
  PROVE  /\ VaultInv' /\ Quiet({LoanAddress} \cup Vaults)
         /\ usdc'[LoanAddress] + Total(InVaults', Vaults)
              = usdc[LoanAddress] + Total(InVaults, Vaults) - needed
<1> DEFINE r == SharesToRedeem(needed)
           v == yieldVault
           liquid == Liquid(needed)
<1>1. /\ r \in Nat /\ r <= vaultShares /\ (r # 0 => v \in Vaults)
      /\ vaultShares \in Nat /\ v \in Vaults \cup {NoAddress} /\ vaultHeld \in [Vaults -> Nat]
  BY RedeemedShares DEF VaultInv
<1>2. /\ r > 0 => r <= vaultHeld[v]
      /\ CanPay(liquid, LoanAddress, needed)
      /\ usdc' = Transfer(liquid, LoanAddress, to, needed)
      /\ vaultShares' = vaultShares - r
      /\ vaultHeld' = [w \in Vaults |-> vaultHeld[w] - IF w = v THEN r ELSE 0]
      /\ yieldVault' = v
  BY DEF PayOut
<1>3. /\ \A a \in Addresses : usdc[a] \in Nat
      /\ to \in Addresses /\ to \notin Contracts
  BY LoanSizes DEF Ledgers
<1>4. liquid = IF r = 0 THEN usdc ELSE Transfer(usdc, v, LoanAddress, VaultAssets(v, r))
  BY DEF Liquid
<1>5. CASE r = 0
  <2>1. usdc' = Transfer(usdc, LoanAddress, to, needed) /\ CanPay(usdc, LoanAddress, needed)
    BY <1>2, <1>4, <1>5
  <2> HIDE DEF r, v, liquid
  <2>2. /\ usdc' \in Ledgers
        /\ \A a \in Addresses : usdc'[a] = usdc[a] - (IF a = LoanAddress THEN needed ELSE 0)
                                                   + (IF a = to THEN needed ELSE 0)
    BY <1>3, <2>1, LoanSizes, TransferLedger
  <2>3. vaultHeld' = vaultHeld /\ vaultShares' = vaultShares
    BY <1>1, <1>2, <1>5
  <2>4. \A w \in Vaults : usdc'[w] = usdc[w]
    BY <1>3, <2>2, LoanSizes
  <2>5. VaultInv'
    BY <1>1, <1>2, <2>3, <2>4 DEF VaultInv
  <2>6. Total(InVaults', Vaults) = Total(InVaults, Vaults)
    BY <2>4, VaultMoneyStays
  <2>7. usdc'[LoanAddress] = usdc[LoanAddress] - needed
    BY <1>3, <2>2, LoanSizes
  <2>8. Quiet({LoanAddress} \cup Vaults)
    BY <1>3, <2>1, LoanSizes, TransferQuiet
  <2>9. usdc[LoanAddress] \in Nat /\ Total(InVaults, Vaults) \in Nat
    BY <1>3, LoanSizes, VaultMoney
  <2> QED
    BY <2>5, <2>6, <2>7, <2>8, <2>9
<1>6. CASE r # 0
  <2> DEFINE out == VaultAssets(v, r)
             held == vaultHeld[v]
  <2>1. /\ v \in Vaults /\ r \in Nat \ {0} /\ r <= held /\ held \in Nat \ {0}
        /\ usdc[v] \in Nat /\ usdc[v] > 0 /\ v \in Addresses /\ v # LoanAddress /\ v \in Contracts
    BY <1>1, <1>2, <1>3, <1>6, LoanSizes DEF VaultInv
  <2>2. out = (r * usdc[v]) \div held
    BY <2>1 DEF VaultAssets
  <2>3. /\ out \in Nat /\ out <= usdc[v] /\ (r < held => out < usdc[v])
    <3> HIDE DEF r, v, held, out
    <3>1. r * usdc[v] = usdc[v] * r
      BY <2>1
    <3>2. out \in Nat /\ out <= usdc[v]
      BY <2>1, <2>2, <3>1, ShareBound
    <3>3. ASSUME r < held PROVE out < usdc[v]
      BY <2>1, <2>2, <3>3, PartialShare
    <3> QED
      BY <3>2, <3>3
  <2>4. liquid = Transfer(usdc, v, LoanAddress, out) /\ CanPay(usdc, v, out)
    BY <1>4, <1>6, <2>3 DEF CanPay
  <2> HIDE DEF r, v, liquid, held, out
  <2>5. /\ liquid \in Ledgers
        /\ \A a \in Addresses : liquid[a] = usdc[a] - (IF a = v THEN out ELSE 0)
                                                    + (IF a = LoanAddress THEN out ELSE 0)
    BY <2>1, <2>3, <2>4, LoanSizes, TransferLedger
  <2>6. /\ usdc' \in Ledgers
        /\ \A a \in Addresses : usdc'[a] = liquid[a] - (IF a = LoanAddress THEN needed ELSE 0)
                                                     + (IF a = to THEN needed ELSE 0)
    BY <1>2, <1>3, <2>5, LoanSizes, TransferLedger
  <2>7. \A a \in Addresses : liquid[a] \in Nat
    BY <2>5 DEF Ledgers
  <2>8. \A a \in Contracts : usdc'[a] = usdc[a] - (IF a = v THEN out ELSE 0)
                                + (IF a = LoanAddress THEN out ELSE 0)
                                - (IF a = LoanAddress THEN needed ELSE 0)
    BY <1>3, <2>3, <2>5, <2>6, <2>7
  <2>9. /\ usdc'[v] = usdc[v] - out /\ usdc'[LoanAddress] = usdc[LoanAddress] + out - needed
        /\ \A w \in Contracts \ {v, LoanAddress} : usdc'[w] = usdc[w]
    BY <1>3, <2>1, <2>3, <2>8, LoanSizes
  <2>10. Quiet({LoanAddress} \cup Vaults)
    <3>1. \A w \in Contracts \ ({LoanAddress} \cup Vaults) : usdc'[w] = usdc[w] /\ usdc[w] \in Nat
      BY <1>3, <2>1, <2>9
    <3> QED
      BY <2>6, <3>1 DEF Quiet
  <2>11. /\ vaultHeld' \in [Vaults -> Nat] /\ vaultHeld'[v] = held - r
         /\ \A w \in Vaults \ {v} : vaultHeld'[w] = vaultHeld[w]
    <3>1. \A w \in Vaults : vaultHeld[w] - (IF w = v THEN r ELSE 0) \in Nat
      BY <1>1, <2>1 DEF held
    <3> QED
      BY <1>1, <1>2, <2>1, <3>1 DEF held
  <2>12. VaultInv'
    <3>1. \A w \in Vaults : vaultHeld'[w] > 0 => usdc'[w] > 0
      <4>1. vaultHeld'[v] > 0 => usdc'[v] > 0
        BY <2>1, <2>3, <2>9, <2>11
      <4>2. ASSUME NEW w \in Vaults \ {v}, vaultHeld'[w] > 0 PROVE usdc'[w] > 0
        BY <2>9, <2>11, <4>2, LoanSizes DEF VaultInv
      <4> QED
        BY <4>1, <4>2
    <3>2. vaultShares' \in Nat
      BY <1>1, <1>2
    <3> QED
      BY <1>1, <1>2, <2>11, <3>1, <3>2 DEF VaultInv
  <2>13. Total(InVaults', Vaults) = Total(InVaults, Vaults) - usdc[v] + usdc'[v]
    BY <2>1, <2>6, <2>9, LoanSizes, VaultMoneyMoves
  <2>14. usdc[LoanAddress] \in Nat /\ Total(InVaults, Vaults) \in Nat
    BY <1>3, LoanSizes, VaultMoney
  <2> QED
    BY <2>1, <2>3, <2>9, <2>10, <2>12, <2>13, <2>14
<1> QED
  BY <1>5, <1>6

(* What a step does to the worth of a share.                               *)
PriceKept == totalShares = 0 \/ totalAssets' * totalShares >= totalAssets * totalShares'

ShareStep ==
  \/ totalShares = 0
  \/ totalAssets' * totalShares >= totalAssets * totalShares'
  \/ \E l \in LoanIds :
       /\ loans[l].active /\ ~loans'[l].active
       /\ Matured(l) /\ Uncovered(l)
       /\ totalShares' = totalShares
       /\ totalAssets' = totalAssets - loans[l].principal

LEMMA PriceStays ==
  ASSUME SharesInv, totalShares' = totalShares, totalAssets' \in Nat, totalAssets <= totalAssets'
  PROVE  ShareStep
<1>1. totalShares \in Nat /\ totalAssets \in Nat
  BY DEF SharesInv
<1>2. totalAssets * totalShares <= totalAssets' * totalShares
  BY <1>1, MulMono
<1>3. totalAssets * totalShares \in Nat /\ totalAssets' * totalShares \in Nat
  BY <1>1, Products
<1> QED
  BY <1>2, <1>3 DEF ShareStep

LoanStepSound == /\ LoanInv' /\ Quiet({LoanAddress} \cup Vaults) /\ ShareStep
                 /\ UNCHANGED <<providers, wiring, authorizedSlashers, now>>

LEMMA SharesIssued ==
  \A s, t, a, n \in Nat : a # 0 =>
    LET new == (n * s) \div a IN new \in Nat /\ (t + n) * s = t * s + n * s /\ a * new <= n * s
<1> SUFFICES ASSUME NEW s \in Nat, NEW t \in Nat, NEW a \in Nat, NEW n \in Nat, a # 0
             PROVE  /\ (n * s) \div a \in Nat /\ (t + n) * s = t * s + n * s
                    /\ a * ((n * s) \div a) <= n * s
  OBVIOUS
<1>1. n * s \in Nat
  BY Products
<1>2. (n * s) \div a \in Nat /\ a * ((n * s) \div a) <= n * s
  BY <1>1, DivFloor
<1>3. (t + n) * s = t * s + n * s
  BY SMT
<1> QED
  BY <1>2, <1>3

LEMMA Distribute ==
  \A a, b, c \in Nat : /\ a * (b + c) = a * b + a * c /\ (b + c) * a = b * a + c * a
                       /\ (b <= c => a * (c - b) = a * c - a * b /\ (c - b) * a = c * a - b * a)
BY SMT

LEMMA DepositBooks ==
  ASSUME RegistryInv, LoanInv, NEW a \in LPs, NEW amount \in Deposits, Deposit(a, amount)
  PROVE  LoanStepSound
<1> DEFINE issued == SharesFor(amount)
<1>1. /\ issued > 0 /\ CanPay(usdc, a, amount)
      /\ shares' = [shares EXCEPT ![a] = @ + issued] /\ totalShares' = totalShares + issued
      /\ totalAssets' = totalAssets + amount /\ yieldVault' = yieldVault
      /\ totalLoaned' = totalLoaned /\ loans' = loans /\ loanCount' = loanCount
      /\ loanTerms' = loanTerms /\ now' = now
      /\ UNCHANGED <<providers, wiring, authorizedSlashers, now>>
  BY DEF Deposit, debtVars
<1>2. /\ amount \in Nat \ {0} /\ SharesInv /\ DebtInv /\ VaultInv /\ Backed /\ usdc \in Ledgers
      /\ totalShares \in Nat /\ totalAssets \in Nat /\ shares[a] \in Nat /\ totalLoaned \in Nat
      /\ \A b \in Addresses : usdc[b] \in Nat
  BY LoanAssumption, LoanedNat DEF LoanInv, SharesInv, RegistryInv, Ledgers
<1>3. issued \in Nat /\ PriceKept
  <2>1. CASE totalShares = 0 \/ totalAssets = 0
    <3>1. issued = amount
      BY <2>1 DEF SharesFor
    <3>2. totalAssets = 0 => totalAssets * totalShares' = 0
      BY <1>1, <1>2, <3>1
    <3>3. totalAssets' * totalShares \in Nat
      BY <1>1, <1>2, Products
    <3> QED
      BY <1>2, <2>1, <3>1, <3>2, <3>3 DEF PriceKept
  <2>2. CASE ~(totalShares = 0 \/ totalAssets = 0)
    <3>1. issued = (amount * totalShares) \div totalAssets
      BY <2>2 DEF SharesFor
    <3> HIDE DEF issued
    <3>2. /\ issued \in Nat
          /\ (totalAssets + amount) * totalShares = totalAssets * totalShares + amount * totalShares
          /\ totalAssets * issued <= amount * totalShares
      BY <1>2, <2>2, <3>1, SharesIssued
    <3>3. totalAssets * (totalShares + issued) = totalAssets * totalShares + totalAssets * issued
      BY <1>2, <3>2, Distribute
    <3>4. /\ totalAssets * totalShares \in Nat /\ amount * totalShares \in Nat
          /\ totalAssets * issued \in Nat
      BY <1>2, <3>2, Products
    <3>5. totalAssets * (totalShares + issued) <= (totalAssets + amount) * totalShares
      BY <3>2, <3>3, <3>4
    <3> QED
      BY <1>1, <3>2, <3>5 DEF PriceKept
  <2> QED
    BY <2>1, <2>2
<1>4. ShareStep
  BY <1>3 DEF PriceKept, ShareStep
<1>5. SharesInv'
  <2>1. shares' = [shares EXCEPT ![a] = shares[a] + issued] /\ shares[a] + issued \in Nat
    BY <1>1, <1>2, <1>3 DEF SharesInv
  <2>2. totalShares' = totalShares - shares[a] + (shares[a] + issued) /\ totalAssets' \in Nat
    BY <1>1, <1>2, <1>3
  <2> HIDE DEF issued
  <2> QED
    BY <1>2, <2>1, <2>2, SharesWritten
<1>6. DebtInv'
  <2>1. Lent' = Lent
    BY <1>1 DEF Lent
  <2> QED
    BY <1>1, <1>2, <2>1 DEF DebtInv
<1>7. a \in Addresses /\ a \notin Contracts
  BY LoanSizes
<1>8. /\ VaultInv' /\ Quiet({LoanAddress} \cup Vaults)
      /\ usdc'[LoanAddress] + Total(InVaults', Vaults)
           = usdc[LoanAddress] + Total(InVaults, Vaults) + amount
  <2>0. usdc[LoanAddress] \in Nat /\ Total(InVaults, Vaults) \in Nat
    BY <1>2, LoanSizes, VaultMoney
  <2>1. CASE yieldVault = NoAddress
    <3>1. usdc' = Transfer(usdc, a, LoanAddress, amount) /\ vaultShares' = vaultShares
          /\ vaultHeld' = vaultHeld
      BY <2>1 DEF Deposit
    <3>2. /\ usdc' \in Ledgers
          /\ \A b \in Addresses : usdc'[b] = usdc[b] - (IF b = a THEN amount ELSE 0)
                                               + (IF b = LoanAddress THEN amount ELSE 0)
      BY <1>1, <1>2, <1>7, <3>1, LoanSizes, TransferLedger
    <3>3. (\A w \in Vaults : usdc'[w] = usdc[w]) /\ usdc'[LoanAddress] = usdc[LoanAddress] + amount
      BY <1>2, <1>7, <3>2, LoanSizes
    <3>4. VaultInv'
      BY <1>1, <1>2, <3>1, <3>3 DEF VaultInv
    <3>5. Quiet({LoanAddress} \cup Vaults)
      BY <1>1, <1>2, <1>7, <3>1, LoanSizes, TransferQuiet
    <3> QED
      BY <1>2, <2>0, <3>3, <3>4, <3>5, VaultMoneyStays
  <2>2. CASE yieldVault # NoAddress
    <3> DEFINE v == yieldVault
               given == VaultIssued(v, amount)
    <3>1. /\ v \in Vaults /\ v \in Addresses /\ usdc[v] \in Nat /\ vaultHeld[v] \in Nat
          /\ v # LoanAddress
      BY <1>2, <2>2, LoanSizes DEF VaultInv
    <3>2. /\ usdc' = Transfer(usdc, a, v, amount) /\ vaultShares' = vaultShares + given
          /\ vaultHeld' = [vaultHeld EXCEPT ![v] = @ + given]
      BY <2>2 DEF Deposit
    <3>3. given \in Nat
      <4>1. amount * vaultHeld[v] \in Nat
        BY <1>2, <3>1, Products
      <4>2. vaultHeld[v] # 0 => (amount * vaultHeld[v]) \div usdc[v] \in Nat
        <5>1. v \in Vaults /\ (vaultHeld[v] > 0 => usdc[v] > 0)
          BY <1>2, <3>1 DEF VaultInv
        <5> QED
          BY <3>1, <4>1, <5>1, DivFloor
      <4> QED
        BY <1>2, <4>2 DEF VaultIssued
    <3> HIDE DEF v, given
    <3>4. v # a
      BY <1>7, <3>1, LoanSizes
    <3>5. /\ usdc' \in Ledgers
          /\ \A b \in Addresses : usdc'[b] = usdc[b] - (IF b = a THEN amount ELSE 0)
                                               + (IF b = v THEN amount ELSE 0)
      BY <1>1, <1>2, <1>7, <3>1, <3>2, LoanSizes, TransferLedger
    <3>6. /\ usdc'[v] = usdc[v] + amount /\ usdc'[LoanAddress] = usdc[LoanAddress]
          /\ \A w \in Vaults \ {v} : usdc'[w] = usdc[w]
      BY <1>2, <1>7, <3>1, <3>4, <3>5, LoanSizes
    <3>7. Total(InVaults', Vaults) = Total(InVaults, Vaults) - usdc[v] + usdc'[v]
      BY <1>2, <3>1, <3>5, <3>6, VaultMoneyMoves
    <3>8. VaultInv'
      <4>1. vaultHeld' \in [Vaults -> Nat] /\ \A w \in Vaults \ {v} : vaultHeld'[w] = vaultHeld[w]
        BY <1>2, <3>1, <3>2, <3>3 DEF VaultInv
      <4>2. \A w \in Vaults : vaultHeld'[w] > 0 => usdc'[w] > 0
        BY <1>2, <3>1, <3>6, <4>1 DEF VaultInv
      <4>3. vaultShares' \in Nat
        BY <1>2, <3>2, <3>3 DEF VaultInv
      <4> QED
        BY <1>1, <1>2, <4>1, <4>2, <4>3 DEF VaultInv
    <3>9. Quiet({LoanAddress} \cup Vaults)
      BY <1>1, <1>2, <1>7, <3>1, <3>2, LoanSizes, TransferQuiet
    <3> QED
      BY <1>2, <2>0, <3>1, <3>6, <3>7, <3>8, <3>9
  <2> QED
    BY <2>1, <2>2
<1>9. Backed'
  <2>1. usdc[LoanAddress] \in Nat /\ Total(InVaults, Vaults) \in Nat
    BY <1>2, LoanSizes, VaultMoney
  <2> QED
    BY <1>1, <1>2, <1>8, <2>1 DEF Backed
<1> QED
  BY <1>1, <1>4, <1>5, <1>6, <1>8, <1>9 DEF LoanStepSound, LoanInv

LEMMA WithdrawBooks ==
  ASSUME RegistryInv, LoanInv, NEW a \in LPs, NEW s \in ShareAmounts, Withdraw(a, s)
  PROVE  LoanStepSound
<1> DEFINE amount == (s * totalAssets) \div totalShares
<1>1. /\ 0 < s /\ s <= shares[a] /\ amount > 0 /\ PayOut(amount, a)
      /\ shares' = [shares EXCEPT ![a] = @ - s] /\ totalShares' = totalShares - s
      /\ totalAssets' = totalAssets - amount
      /\ totalLoaned' = totalLoaned /\ loans' = loans /\ loanCount' = loanCount
      /\ loanTerms' = loanTerms /\ now' = now
      /\ UNCHANGED <<providers, wiring, authorizedSlashers, now>>
  BY DEF Withdraw, debtVars
<1>2. /\ s \in Nat /\ SharesInv /\ DebtInv /\ VaultInv /\ Backed /\ usdc \in Ledgers
      /\ totalShares \in Nat /\ totalAssets \in Nat /\ shares \in [LPs -> Nat]
      /\ totalLoaned \in Nat /\ a \in Accounts
      /\ \A b \in Addresses : usdc[b] \in Nat
  BY LoanAssumption, LoanedNat DEF LoanInv, SharesInv, RegistryInv, Ledgers
<1>3. shares[a] <= totalShares
  <2>1. \A b \in LPs : shares[b] \in Nat
    BY <1>2
  <2>2. IsFiniteSet(LPs) /\ a \in LPs
    BY LoanSizes
  <2>3. shares[a] <= Total(shares, LPs)
    BY ONLY <2>1, <2>2, TotalBounds
  <2> QED
    BY <1>2, <2>3 DEF SharesInv
<1>4. shares[a] \in Nat /\ s <= totalShares /\ totalShares \in Nat \ {0}
  BY <1>1, <1>2, <1>3
<1>5. /\ amount \in Nat /\ amount <= totalAssets
      /\ totalShares * amount <= s * totalAssets
  <2>1. s * totalAssets = totalAssets * s /\ s * totalAssets \in Nat
    BY <1>2, Products
  <2>2. amount \in Nat /\ amount <= totalAssets
    BY <1>2, <1>4, <2>1, ShareBound
  <2>3. totalShares * amount <= s * totalAssets
    BY <1>4, <2>1, DivFloor
  <2> QED
    BY <2>2, <2>3
<1> HIDE DEF amount
<1>6. ShareStep
  <2>1. /\ totalAssets' * totalShares = totalAssets * totalShares - amount * totalShares
        /\ totalAssets * totalShares' = totalAssets * totalShares - totalAssets * s
    BY <1>1, <1>2, <1>4, <1>5, Distribute
  <2>2. amount * totalShares = totalShares * amount /\ totalAssets * s = s * totalAssets
        /\ {totalAssets * totalShares, totalShares * amount, s * totalAssets} \subseteq Nat
    BY <1>2, <1>4, <1>5, Products
  <2>3. totalAssets' * totalShares >= totalAssets * totalShares'
    BY <1>5, <2>1, <2>2
  <2> QED
    BY <2>3 DEF ShareStep
<1>7. SharesInv'
  <2>1. shares' = [shares EXCEPT ![a] = shares[a] - s] /\ shares[a] - s \in Nat
    BY <1>1, <1>2, <1>4
  <2>2. totalShares' = totalShares - shares[a] + (shares[a] - s) /\ totalAssets' \in Nat
    BY <1>1, <1>2, <1>4, <1>5
  <2> QED
    BY <1>2, <2>1, <2>2, SharesWritten
<1>8. DebtInv'
  <2>1. Lent' = Lent
    BY <1>1 DEF Lent
  <2> QED
    BY <1>1, <1>2, <2>1 DEF DebtInv
<1>9. /\ VaultInv' /\ Quiet({LoanAddress} \cup Vaults)
      /\ usdc'[LoanAddress] + Total(InVaults', Vaults)
           = usdc[LoanAddress] + Total(InVaults, Vaults) - amount
  BY <1>1, <1>2, <1>5, PayOutBooks
<1>10. Backed'
  <2>1. usdc[LoanAddress] \in Nat /\ Total(InVaults, Vaults) \in Nat
    BY <1>2, LoanSizes, VaultMoney
  <2> QED
    BY <1>1, <1>2, <1>5, <1>9, <2>1 DEF Backed
<1> QED
  BY <1>1, <1>6, <1>7, <1>8, <1>9, <1>10, <1>2 DEF LoanStepSound, LoanInv

LEMMA BorrowBooks ==
  ASSUME RegistryInv, LoanInv, NEW p \in Providers, NEW amount \in LoanAmounts, Borrow(p, amount)
  PROVE  LoanStepSound
<1> DEFINE l == loanCount + 1
           loan == [provider |-> p, principal |-> amount, startTime |-> now,
                    duration |-> loanTerms.loanDuration, active |-> TRUE]
<1>1. /\ l \in LoanIds /\ PayOut(amount, p) /\ loanCount' = l
      /\ loans' = [loans EXCEPT ![l] = loan] /\ totalLoaned' = totalLoaned + amount
      /\ shares' = shares /\ totalShares' = totalShares /\ totalAssets' = totalAssets
      /\ loanTerms' = loanTerms /\ now' = now
      /\ UNCHANGED <<providers, wiring, authorizedSlashers, now>>
  BY DEF Borrow, poolVars
<1>2. /\ amount \in Nat /\ SharesInv /\ DebtInv /\ VaultInv /\ Backed /\ usdc \in Ledgers
      /\ totalAssets \in Nat /\ totalLoaned \in Nat /\ p \in Accounts /\ now \in Nat
      /\ loanTerms \in Terms /\ loanCount \in Nat
  BY LoanAssumption, LoanedNat, Places DEF LoanInv, SharesInv, DebtInv, RegistryInv
<1>3. loan \in LoanRecord /\ PrincipalOf(loan) = amount
  BY <1>2 DEF LoanRecord, Terms, PrincipalOf
<1>4. PrincipalOf(loans[l]) = 0
  <2>1. ~(l <= loanCount)
    BY <1>2
  <2> QED
    BY <1>1, <1>2, <2>1 DEF DebtInv, LoanRecord, PrincipalOf
<1>5. DebtInv'
  <2>1. /\ loan.active => loan.provider \in Providers /\ loan.startTime <= now /\ l <= loanCount'
        /\ loanCount' \in Nat /\ loanCount <= loanCount'
    BY <1>1, <1>2
  <2>2. totalLoaned' = totalLoaned - PrincipalOf(loans[l]) + PrincipalOf(loan)
    BY <1>1, <1>2, <1>3, <1>4
  <2> HIDE DEF loan, l
  <2> QED
    BY <1>1, <1>2, <1>3, <2>1, <2>2, LoanWritten
<1>6. SharesInv' /\ ShareStep
  BY <1>1, <1>2, PriceStays DEF SharesInv
<1>7. /\ VaultInv' /\ Quiet({LoanAddress} \cup Vaults)
      /\ usdc'[LoanAddress] + Total(InVaults', Vaults)
           = usdc[LoanAddress] + Total(InVaults, Vaults) - amount
  BY <1>1, <1>2, PayOutBooks
<1>8. Backed'
  <2>1. usdc[LoanAddress] \in Nat /\ Total(InVaults, Vaults) \in Nat
    BY <1>2, LoanSizes, VaultMoney DEF Ledgers
  <2> QED
    BY <1>1, <1>2, <1>7, <2>1 DEF Backed
<1> QED
  BY <1>1, <1>2, <1>5, <1>6, <1>7, <1>8 DEF LoanStepSound, LoanInv

(* What closing a loan does to what is lent out.                           *)
LEMMA CloseBooks ==
  ASSUME RegistryInv, LoanInv, NEW l \in LoanIds, Close(l), now' = now
  PROVE  /\ DebtInv' /\ loans[l].principal \in Nat /\ loans[l].principal <= totalLoaned
         /\ totalLoaned' = totalLoaned - loans[l].principal
         /\ loans[l].provider \in Providers /\ loans[l].active /\ ~loans'[l].active
<1> DEFINE loan == [loans[l] EXCEPT !.active = FALSE]
<1>1. /\ loans[l].active /\ loans' = [loans EXCEPT ![l].active = FALSE]
      /\ totalLoaned' = totalLoaned - loans[l].principal /\ loanCount' = loanCount
  BY DEF Close
<1>2. /\ DebtInv /\ loans \in [LoanIds -> LoanRecord] /\ loans[l] \in LoanRecord
      /\ loans[l].principal \in Nat /\ loans[l].provider \in Providers /\ loanCount \in Nat
      /\ totalLoaned \in Nat
  BY <1>1, LoanedNat DEF LoanInv, DebtInv, LoanRecord
<1>3. /\ loan \in LoanRecord /\ loan.active = FALSE /\ loans' = [loans EXCEPT ![l] = loan]
  BY <1>1, <1>2 DEF LoanRecord
<1>4. PrincipalOf(loan) = 0 /\ PrincipalOf(loans[l]) = loans[l].principal
  BY <1>1, <1>3 DEF PrincipalOf
<1> HIDE DEF loan
<1>5. DebtInv'
  <2>1. totalLoaned' = totalLoaned - PrincipalOf(loans[l]) + PrincipalOf(loan)
    BY <1>1, <1>2, <1>4
  <2>2. loanCount' \in Nat /\ loanCount <= loanCount' /\ now' = now
    BY <1>1, <1>2
  <2> QED
    BY <1>2, <1>3, <2>1, <2>2, LoanWritten
<1>6. loans[l].principal <= totalLoaned
  <2>1. \A k \in LoanIds : Lent[k] \in Nat
    BY <1>2 DEF Lent, LoanRecord
  <2>2. Lent[l] = loans[l].principal /\ IsFiniteSet(LoanIds) /\ l \in LoanIds
    BY <1>1, LoanSizes DEF Lent
  <2>3. Lent[l] <= Total(Lent, LoanIds)
    <3> HIDE DEF Lent
    <3> QED
      BY ONLY <2>1, <2>2, TotalBounds
  <2> QED
    BY <1>2, <2>2, <2>3 DEF DebtInv
<1> QED
  BY <1>1, <1>2, <1>3, <1>5, <1>6

LEMMA InterestNat ==
  ASSUME RegistryInv, LoanInv, NEW l \in LoanIds, loans[l].active
  PROVE  Interest(l) \in Nat
<1> DEFINE elapsed == IF now - loans[l].startTime > loans[l].duration THEN loans[l].duration
                      ELSE now - loans[l].startTime
<1>1. /\ loans[l].startTime \in Nat /\ loans[l].duration \in Nat /\ loans[l].principal \in Nat
      /\ loans[l].startTime <= now /\ now \in Nat /\ loanTerms.interestRateBps \in Nat
      /\ Year \in Nat \ {0} /\ Bps \in Nat \ {0}
  BY LoanAssumption, RegistryAssumption DEF LoanInv, DebtInv, LoanRecord, Terms, RegistryInv
<1>2. elapsed \in Nat
  BY <1>1
<1> HIDE DEF elapsed
<1>3. loans[l].principal * loanTerms.interestRateBps \in Nat
  BY <1>1, Products
<1>4. loans[l].principal * loanTerms.interestRateBps * elapsed \in Nat
  BY <1>2, <1>3, Products
<1>5. Year * Bps \in Nat \ {0}
  <2>1. \A m, n \in Nat \ {0} : m * n \in Nat \ {0}
    BY SMT
  <2> QED
    BY <1>1, <2>1
<1>6. (loans[l].principal * loanTerms.interestRateBps * elapsed) \div (Year * Bps) \in Nat
  BY <1>4, <1>5, DivFloor
<1> QED
  BY <1>6 DEF Interest, elapsed

LEMMA RepayBooks ==
  ASSUME RegistryInv, LoanInv, NEW l \in LoanIds, Repay(l)
  PROVE  LoanStepSound
<1> DEFINE p == loans[l].provider
           principal == loans[l].principal
           due == principal + Interest(l)
<1>1. /\ Close(l) /\ CanPay(usdc, p, due) /\ usdc' = Transfer(usdc, p, LoanAddress, due)
      /\ totalAssets' = totalAssets + Interest(l) /\ now' = now
      /\ shares' = shares /\ totalShares' = totalShares /\ loanTerms' = loanTerms
      /\ yieldVault' = yieldVault /\ vaultShares' = vaultShares /\ vaultHeld' = vaultHeld
      /\ UNCHANGED <<providers, wiring, authorizedSlashers, now>>
  BY DEF Repay, Close, AssetsRepaid, vaultVars
<1>2. /\ SharesInv /\ DebtInv /\ VaultInv /\ Backed /\ usdc \in Ledgers /\ loanTerms \in Terms
      /\ totalAssets \in Nat /\ totalLoaned \in Nat /\ \A a \in Addresses : usdc[a] \in Nat
  BY LoanedNat DEF LoanInv, SharesInv, RegistryInv, Ledgers
<1>3. /\ DebtInv' /\ principal \in Nat /\ totalLoaned' = totalLoaned - principal
      /\ p \in Providers /\ loans[l].active
  BY <1>1, CloseBooks
<1>4. Interest(l) \in Nat /\ due \in Nat /\ p \in Accounts /\ p \in Addresses /\ p \notin Contracts
  BY <1>3, InterestNat, Places, LoanSizes
<1>5. SharesInv' /\ ShareStep
  BY <1>1, <1>2, <1>4, PriceStays DEF SharesInv
<1>6. due = principal + Interest(l)
  OBVIOUS
<1> HIDE DEF due, principal, p
<1>7. /\ usdc' \in Ledgers
      /\ \A a \in Addresses : usdc'[a] = usdc[a] - (IF a = p THEN due ELSE 0)
                                           + (IF a = LoanAddress THEN due ELSE 0)
  BY <1>1, <1>2, <1>4, LoanSizes, TransferLedger
<1>8. (\A v \in Vaults : usdc'[v] = usdc[v]) /\ usdc'[LoanAddress] = usdc[LoanAddress] + due
  BY <1>2, <1>4, <1>7, LoanSizes
<1>9. Total(InVaults', Vaults) = Total(InVaults, Vaults)
  BY <1>8, VaultMoneyStays
<1>10. VaultInv'
  BY <1>1, <1>2, <1>8 DEF VaultInv
<1>11. Quiet({LoanAddress} \cup Vaults)
  BY <1>1, <1>2, <1>4, LoanSizes, TransferQuiet
<1>12. Backed'
  <2>1. usdc[LoanAddress] \in Nat /\ Total(InVaults, Vaults) \in Nat
    BY <1>2, LoanSizes, VaultMoney
  <2> QED
    BY <1>1, <1>2, <1>3, <1>4, <1>6, <1>8, <1>9, <2>1 DEF Backed
<1> QED
  BY <1>1, <1>2, <1>3, <1>5, <1>10, <1>11, <1>12 DEF LoanStepSound, LoanInv

LEMMA LiquidateBooks ==
  ASSUME RegistryInv, LoanInv, NEW l \in LoanIds, Liquidate(l)
  PROVE  LoanStepSound
<1> DEFINE principal == loans[l].principal
<1>1. /\ Close(l) /\ Matured(l) /\ Uncovered(l) /\ principal <= totalAssets
      /\ totalAssets' = totalAssets - principal /\ now' = now /\ usdc' = usdc
      /\ shares' = shares /\ totalShares' = totalShares /\ loanTerms' = loanTerms
      /\ yieldVault' = yieldVault /\ vaultShares' = vaultShares /\ vaultHeld' = vaultHeld
      /\ UNCHANGED <<providers, wiring, authorizedSlashers, now>>
  BY DEF Liquidate, Close, vaultVars, registryVars
<1>2. /\ SharesInv /\ DebtInv /\ VaultInv /\ Backed /\ usdc \in Ledgers /\ loanTerms \in Terms
      /\ totalAssets \in Nat /\ totalLoaned \in Nat
  BY LoanedNat DEF LoanInv, SharesInv, RegistryInv
<1>3. /\ DebtInv' /\ principal \in Nat /\ totalLoaned' = totalLoaned - principal
      /\ loans[l].active /\ ~loans'[l].active
  BY <1>1, CloseBooks
<1>4. SharesInv'
  BY <1>1, <1>2, <1>3 DEF SharesInv
<1>5. ShareStep
  BY <1>1, <1>3 DEF ShareStep
<1>6. VaultInv'
  BY <1>1, <1>2 DEF VaultInv
<1>7. Backed'
  <2>1. usdc[LoanAddress] \in Nat /\ Total(InVaults, Vaults) \in Nat
    BY <1>2, LoanSizes, VaultMoney DEF Ledgers
  <2>2. Total(InVaults', Vaults) = Total(InVaults, Vaults)
    BY <1>1, VaultMoneyStays
  <2> QED
    BY <1>1, <1>2, <1>3, <2>1, <2>2 DEF Backed
<1>8. Quiet({LoanAddress} \cup Vaults)
  BY <1>1, <1>2, StillQuiet
<1> QED
  BY <1>1, <1>2, <1>3, <1>4, <1>5, <1>6, <1>7, <1>8 DEF LoanStepSound, LoanInv

LEMMA EarnBooks ==
  ASSUME RegistryInv, LoanInv, NEW v \in Vaults, NEW payer \in Owners, Earn(v, payer)
  PROVE  LoanStepSound
<1>1. /\ CanPay(usdc, payer, 1) /\ usdc' = Transfer(usdc, payer, v, 1) /\ now' = now
      /\ shares' = shares /\ totalShares' = totalShares /\ totalAssets' = totalAssets
      /\ totalLoaned' = totalLoaned /\ loans' = loans /\ loanCount' = loanCount
      /\ yieldVault' = yieldVault /\ vaultShares' = vaultShares /\ vaultHeld' = vaultHeld
      /\ loanTerms' = loanTerms
      /\ UNCHANGED <<providers, wiring, authorizedSlashers, now>>
  BY DEF Earn, poolVars, debtVars
<1>2. /\ SharesInv /\ DebtInv /\ VaultInv /\ Backed /\ usdc \in Ledgers /\ loanTerms \in Terms
      /\ totalAssets \in Nat /\ totalLoaned \in Nat /\ \A a \in Addresses : usdc[a] \in Nat
  BY LoanedNat DEF LoanInv, SharesInv, RegistryInv, Ledgers
<1>3. payer \in Accounts /\ payer \in Addresses /\ payer \notin Contracts /\ v \in Addresses
      /\ v \in Contracts /\ v # payer /\ v # LoanAddress /\ 1 \in Nat
  BY LoanSizes, RegistryAssumption
<1>4. /\ usdc' \in Ledgers
      /\ \A a \in Addresses : usdc'[a] = usdc[a] - (IF a = payer THEN 1 ELSE 0)
                                           + (IF a = v THEN 1 ELSE 0)
  BY <1>1, <1>2, <1>3, TransferLedger
<1>5. /\ usdc'[v] = usdc[v] + 1 /\ usdc'[LoanAddress] = usdc[LoanAddress]
      /\ \A w \in Vaults \ {v} : usdc'[w] = usdc[w]
  BY <1>2, <1>3, <1>4, LoanSizes
<1>6. Total(InVaults', Vaults) = Total(InVaults, Vaults) - usdc[v] + usdc'[v]
  BY <1>2, <1>4, <1>5, VaultMoneyMoves
<1>7. VaultInv'
  BY <1>1, <1>2, <1>3, <1>5 DEF VaultInv
<1>8. Quiet({LoanAddress} \cup Vaults)
  BY <1>1, <1>2, <1>3, TransferQuiet
<1>9. Backed'
  <2>1. usdc[LoanAddress] \in Nat /\ Total(InVaults, Vaults) \in Nat
    BY <1>2, LoanSizes, VaultMoney
  <2> QED
    BY <1>1, <1>2, <1>3, <1>5, <1>6, <2>1 DEF Backed
<1>10. SharesInv' /\ ShareStep
  BY <1>1, <1>2, PriceStays DEF SharesInv
<1>11. DebtInv'
  <2>1. Lent' = Lent
    BY <1>1 DEF Lent
  <2> QED
    BY <1>1, <1>2, <2>1 DEF DebtInv
<1> QED
  BY <1>1, <1>2, <1>7, <1>8, <1>9, <1>10, <1>11 DEF LoanStepSound, LoanInv

LEMMA LoanSettingBooks ==
  ASSUME RegistryInv, LoanInv, UNCHANGED <<registryVars, poolVars, debtVars>>,
         vaultShares' = vaultShares, vaultHeld' = vaultHeld,
         yieldVault' \in Vaults \cup {NoAddress}, loanTerms' \in Terms
  PROVE  LoanStepSound
<1>1. /\ usdc' = usdc /\ now' = now
      /\ shares' = shares /\ totalShares' = totalShares /\ totalAssets' = totalAssets
      /\ totalLoaned' = totalLoaned /\ loans' = loans /\ loanCount' = loanCount
      /\ UNCHANGED <<providers, wiring, authorizedSlashers, now>>
  BY DEF registryVars, poolVars, debtVars
<1>2. SharesInv /\ DebtInv /\ VaultInv /\ Backed /\ usdc \in Ledgers /\ totalAssets \in Nat
  BY DEF LoanInv, SharesInv, RegistryInv
<1>3. Total(InVaults', Vaults) = Total(InVaults, Vaults)
  BY <1>1, VaultMoneyStays
<1>4. Lent' = Lent
  BY <1>1 DEF Lent
<1>5. SharesInv' /\ ShareStep
  BY <1>1, <1>2, PriceStays DEF SharesInv
<1>6. DebtInv' /\ VaultInv' /\ Backed'
  BY <1>1, <1>2, <1>3, <1>4 DEF DebtInv, VaultInv, Backed
<1>7. Quiet({LoanAddress} \cup Vaults)
  BY <1>1, <1>2, StillQuiet
<1> QED
  BY <1>1, <1>5, <1>6, <1>7 DEF LoanStepSound, LoanInv

LEMMA LoanMoves ==
  ASSUME RegistryInv, LoanInv, LoanStep
  PROVE  LoanStepSound
<1>1. ASSUME NEW t \in LoanTerms, NEW field \in DOMAIN t, SetLoanTerm(field, t)
      PROVE  LoanStepSound
  <2>1. t \in Terms /\ loanTerms \in Terms
    BY LoanAssumption DEF LoanInv, Terms
  <2>2. field \in {"minHonorRate", "minCallCount", "maxLoanBps", "interestRateBps", "loanDuration"}
    BY <1>1, <2>1 DEF Terms
  <2>3. loanTerms' = [loanTerms EXCEPT ![field] = t[field]]
    BY <1>1 DEF SetLoanTerm
  <2>4. loanTerms' \in Terms
    <3>1. CASE field = "minHonorRate"
      BY <2>1, <2>3, <3>1 DEF Terms
    <3>2. CASE field = "minCallCount"
      BY <2>1, <2>3, <3>2 DEF Terms
    <3>3. CASE field = "maxLoanBps"
      BY <2>1, <2>3, <3>3 DEF Terms
    <3>4. CASE field = "interestRateBps"
      BY <2>1, <2>3, <3>4 DEF Terms
    <3>5. CASE field = "loanDuration"
      BY <2>1, <2>3, <3>5 DEF Terms
    <3> QED
      BY <2>2, <3>1, <3>2, <3>3, <3>4, <3>5
  <2>5. /\ UNCHANGED <<registryVars, poolVars, debtVars>>
        /\ vaultShares' = vaultShares /\ vaultHeld' = vaultHeld
        /\ yieldVault' \in Vaults \cup {NoAddress}
    BY <1>1 DEF SetLoanTerm, vaultVars, LoanInv, VaultInv
  <2> QED
    BY <2>4, <2>5, LoanSettingBooks
<1>2. ASSUME NEW v \in Vaults \cup {NoAddress}, SetYieldVault(v)
      PROVE  LoanStepSound
  BY <1>2, LoanSettingBooks DEF SetYieldVault, LoanInv
<1> QED
  BY <1>1, <1>2, EarnBooks, DepositBooks, WithdrawBooks, BorrowBooks, RepayBooks, LiquidateBooks
     DEF LoanStep

LEMMA LoanCovered == ASSUME LoanInv PROVE PoolCovered
BY DEF LoanInv, SharesInv, DebtInv, Backed, Lent, InVaults, PoolCovered, Total

-----------------------------------------------------------------------------
(* Disputes about quality: what comes in for a dispute is what is credited *)
(* when it is finalized, to the last unit.                                 *)
Ballot == [voter : Accounts, side : Sides, weight : Nat]

Matter == [caller : Accounts \cup {NoAddress}, provider : Providers \cup {NoAddress},
           votingEndsAt : Nat, outcome : {"None", "Pending", "tied", "caller", "provider"}]

Staked == [q \in QualityIds |-> IF quality[q].outcome = "Pending"
                                THEN QualityBond + VoterBond * Len(ballots[q]) ELSE 0]

QualityInv ==
  /\ quality \in [QualityIds -> Matter]
  /\ ballots \in [QualityIds -> Seq(Ballot)]
  /\ pendingWithdrawals \in [Accounts -> Nat]
  /\ qualityWindows \in [dispute : Nat, voting : Nat]
  /\ \A q \in QualityIds :
       /\ quality[q].outcome = "None" => ballots[q] = <<>>
       /\ quality[q].outcome = "Pending" =>
            quality[q].caller \in Accounts /\ quality[q].provider \in Providers
  /\ usdc[QualityAddress] = Total(pendingWithdrawals, Accounts) + Total(Staked, QualityIds)

LEMMA QualityPlace ==
  /\ QualityAddress \in Contracts /\ QualityAddress \in Bookkeepers /\ QualityAddress \in Addresses
  /\ QualityAddress \notin Accounts /\ QualityAddress # Registry /\ QualityAddress # PPC
  /\ Accounts \cap Contracts = {} /\ Registry \in Contracts /\ PPC \in Contracts
  /\ IsFiniteSet(QualityIds) /\ QualityBond \in Nat /\ VoterBond \in Nat
BY QualityAssumption, MarketsAssumption, RegistryAssumption, Places DEF Bookkeepers

LEMMA StakedNat ==
  ASSUME QualityInv
  PROVE  /\ \A q \in QualityIds : Staked[q] \in Nat /\ Len(ballots[q]) \in Nat
                                  /\ VoterBond * Len(ballots[q]) \in Nat
         /\ Total(Staked, QualityIds) \in Nat
         /\ Total(pendingWithdrawals, Accounts) \in Nat
<1>1. ASSUME NEW q \in QualityIds
      PROVE  Staked[q] \in Nat /\ Len(ballots[q]) \in Nat /\ VoterBond * Len(ballots[q]) \in Nat
  <2>1. Len(ballots[q]) \in Nat
    BY DEF QualityInv
  <2>2. VoterBond * Len(ballots[q]) \in Nat
    BY <2>1, QualityPlace, Products
  <2> QED
    BY <2>1, <2>2, QualityPlace DEF Staked
<1>2. Total(Staked, QualityIds) \in Nat
  <2> HIDE DEF Staked
  <2> QED
    BY <1>1, QualityPlace, TotalNat
<1>3. Total(pendingWithdrawals, Accounts) \in Nat
  <2>1. \A a \in Accounts : pendingWithdrawals[a] \in Nat
    BY DEF QualityInv
  <2> QED
    BY <2>1, Sizes, TotalNat
<1> QED
  BY <1>1, <1>2, <1>3

LEMMA QualityUntouched ==
  ASSUME QualityInv, UNCHANGED qualityVars, usdc'[QualityAddress] = usdc[QualityAddress]
  PROVE  QualityInv'
<1>1. /\ quality' = quality /\ ballots' = ballots /\ pendingWithdrawals' = pendingWithdrawals
      /\ qualityWindows' = qualityWindows
  BY DEF qualityVars
<1>2. Staked' = Staked
  BY <1>1 DEF Staked
<1> QED
  BY <1>1, <1>2 DEF QualityInv

LEMMA QualityStart == RegistryInit /\ QualityInit => QualityInv
<1> SUFFICES ASSUME RegistryInit, QualityInit PROVE QualityInv
  OBVIOUS
<1>1. /\ quality = [q \in QualityIds |-> NoQuality] /\ ballots = [q \in QualityIds |-> <<>>]
      /\ pendingWithdrawals = [a \in Accounts |-> 0]
      /\ NoQuality \in Matter /\ NoQuality.outcome = "None"
  BY DEF QualityInit, NoQuality, Matter
<1>2. qualityWindows \in [dispute : Nat, voting : Nat]
  BY QualityAssumption DEF QualityInit
<1>3. Total(Staked, QualityIds) = 0
  <2>1. \A q \in QualityIds : Staked[q] = 0
    BY <1>1 DEF Staked
  <2> HIDE DEF Staked
  <2> QED
    BY <2>1, QualityPlace, TotalZero
<1>4. Total(pendingWithdrawals, Accounts) = 0
  <2>1. \A a \in Accounts : pendingWithdrawals[a] = 0
    BY <1>1
  <2> QED
    BY <2>1, Sizes, TotalZero
<1>5. usdc[QualityAddress] = 0
  BY QualityPlace DEF RegistryInit
<1>6. <<>> \in Seq(Ballot)
  OBVIOUS
<1> QED
  BY <1>1, <1>2, <1>3, <1>4, <1>5, <1>6 DEF QualityInv

(* What one dispute has taken in changes.                                  *)
StakeOf(matter, list) == IF matter.outcome = "Pending"
                         THEN QualityBond + VoterBond * Len(list) ELSE 0

LEMMA MatterWritten ==
  ASSUME QualityInv, NEW q \in QualityIds, NEW matter \in Matter, NEW list \in Seq(Ballot),
         quality' = [quality EXCEPT ![q] = matter], ballots' = [ballots EXCEPT ![q] = list],
         pendingWithdrawals' \in [Accounts -> Nat],
         qualityWindows' = qualityWindows, matter.outcome # "None",
         matter.outcome = "Pending" => matter.caller \in Accounts /\ matter.provider \in Providers,
         usdc'[QualityAddress] - Total(pendingWithdrawals', Accounts)
           = usdc[QualityAddress] - Total(pendingWithdrawals, Accounts)
               - StakeOf(quality[q], ballots[q]) + StakeOf(matter, list),
         usdc[QualityAddress] \in Nat, usdc'[QualityAddress] \in Nat
  PROVE  QualityInv'
<1>1. /\ quality \in [QualityIds -> Matter] /\ quality' \in [QualityIds -> Matter]
      /\ ballots \in [QualityIds -> Seq(Ballot)] /\ ballots' \in [QualityIds -> Seq(Ballot)]
      /\ quality'[q] = matter /\ ballots'[q] = list
      /\ \A r \in QualityIds \ {q} : quality'[r] = quality[r] /\ ballots'[r] = ballots[r]
  BY DEF QualityInv
<1>2. ASSUME NEW r \in QualityIds
      PROVE  /\ quality'[r].outcome = "None" => ballots'[r] = <<>>
             /\ quality'[r].outcome = "Pending" =>
                  quality'[r].caller \in Accounts /\ quality'[r].provider \in Providers
  BY <1>1 DEF QualityInv
<1>3. \A r \in QualityIds : Staked[r] \in Nat /\ Staked'[r] \in Nat
  <2>1. \A r \in QualityIds : Len(ballots'[r]) \in Nat
    BY <1>1
  <2>2. \A r \in QualityIds : VoterBond * Len(ballots'[r]) \in Nat
    BY <2>1, QualityPlace, Products
  <2>3. \A r \in QualityIds : Staked'[r] \in Nat
    <3>1. \A n \in Nat : QualityBond + n \in Nat
      BY QualityPlace
    <3>2. ASSUME NEW r \in QualityIds PROVE Staked'[r] \in Nat
      <4>1. Staked'[r] = IF quality'[r].outcome = "Pending"
                         THEN QualityBond + VoterBond * Len(ballots'[r]) ELSE 0
        BY DEF Staked
      <4>2. QualityBond + VoterBond * Len(ballots'[r]) \in Nat
        BY <2>2, <3>1
      <4> HIDE DEF Staked
      <4> QED
        BY <4>1, <4>2
    <3> QED
      BY <3>2
  <2> QED
    BY <2>3, StakedNat
<1>4. Total(Staked', QualityIds)
        = Total(Staked, QualityIds) - StakeOf(quality[q], ballots[q]) + StakeOf(matter, list)
  <2>1. \A r \in QualityIds \ {q} : Staked'[r] = Staked[r]
    BY <1>1 DEF Staked
  <2>2. Staked[q] = StakeOf(quality[q], ballots[q]) /\ Staked'[q] = StakeOf(matter, list)
    BY <1>1 DEF Staked, StakeOf
  <2>3. IsFiniteSet(QualityIds) /\ q \in QualityIds
    BY QualityPlace
  <2>4. Total(Staked', QualityIds) = Total(Staked, QualityIds) - Staked[q] + Staked'[q]
    <3> HIDE DEF Staked
    <3> QED
      BY ONLY <1>3, <2>1, <2>3, TotalChange
  <2> QED
    BY <2>2, <2>4
<1>5. /\ Total(pendingWithdrawals, Accounts) \in Nat /\ Total(pendingWithdrawals', Accounts) \in Nat
      /\ Total(Staked, QualityIds) \in Nat
      /\ StakeOf(quality[q], ballots[q]) \in Nat /\ StakeOf(matter, list) \in Nat
  <2>1. Total(pendingWithdrawals', Accounts) \in Nat
    <3>1. \A a \in Accounts : pendingWithdrawals'[a] \in Nat
      OBVIOUS
    <3> QED
      BY <3>1, Sizes, TotalNat
  <2>2. StakeOf(quality[q], ballots[q]) \in Nat /\ StakeOf(matter, list) \in Nat
    BY <1>1, <1>3 DEF Staked, StakeOf
  <2> QED
    BY <2>1, <2>2, StakedNat
<1>6. usdc'[QualityAddress] = Total(pendingWithdrawals', Accounts) + Total(Staked', QualityIds)
  <2>1. usdc[QualityAddress] = Total(pendingWithdrawals, Accounts) + Total(Staked, QualityIds)
    BY DEF QualityInv
  <2> QED
    BY <1>4, <1>5, <2>1
<1> QED
  BY <1>1, <1>2, <1>6 DEF QualityInv

-----------------------------------------------------------------------------
(* The credits of a finalized dispute.                                     *)
LEMMA Places2 ==
  ASSUME QualityInv, NEW q \in QualityIds
  PROVE  /\ DOMAIN ballots[q] = 1..Len(ballots[q]) /\ IsFiniteSet(DOMAIN ballots[q])
         /\ DOMAIN ballots[q] \subseteq Nat /\ Cardinality(DOMAIN ballots[q]) = Len(ballots[q])
         /\ \A i \in DOMAIN ballots[q] : ballots[q][i] \in Ballot
<1>1. ballots[q] \in Seq(Ballot) /\ Len(ballots[q]) \in Nat
  BY DEF QualityInv
<1>2. DOMAIN ballots[q] = 1..Len(ballots[q]) /\ \A i \in DOMAIN ballots[q] : ballots[q][i] \in Ballot
  BY <1>1
<1>3. IsFiniteSet(1..Len(ballots[q])) /\ Cardinality(1..Len(ballots[q])) = Len(ballots[q])
  BY <1>1, FS_Interval
<1> QED
  BY <1>1, <1>2, <1>3

LEMMA PaidTotal ==
  ASSUME QualityInv, NEW q \in QualityIds, quality[q].caller \in Accounts, NEW opener \in Nat,
         NEW payout, \A i \in DOMAIN ballots[q] : payout[i] \in Nat
  PROVE  /\ Paid(q, payout, opener) \in [Accounts -> Nat]
         /\ Total(Paid(q, payout, opener), Accounts)
              = Total(pendingWithdrawals, Accounts) + opener + Total(payout, DOMAIN ballots[q])
<1> DEFINE D == DOMAIN ballots[q]
           class == [i \in D |-> ballots[q][i].voter]
           shares_ == [a \in Accounts |-> Total(payout, {i \in D : class[i] = a})]
           credit == [pendingWithdrawals EXCEPT ![quality[q].caller] = @ + opener]
           paid == Paid(q, payout, opener)
<1>1. IsFiniteSet(D) /\ \A i \in D : payout[i] \in Nat /\ class[i] \in Accounts
  BY Places2 DEF Ballot
<1>2. pendingWithdrawals \in [Accounts -> Nat] /\ IsFiniteSet(Accounts)
  BY Sizes DEF QualityInv
<1>3. ASSUME NEW a \in Accounts
      PROVE  /\ shares_[a] \in Nat
             /\ SumFunctionOnSet([i \in {j \in DOMAIN ballots[q] : ballots[q][j].voter = a} |-> payout[i]],
                                 {j \in DOMAIN ballots[q] : ballots[q][j].voter = a}) = shares_[a]
  <2> DEFINE Z == {j \in DOMAIN ballots[q] : ballots[q][j].voter = a}
             part == [i \in Z |-> payout[i]]
  <2>1. Z = {i \in D : class[i] = a}
    OBVIOUS
  <2>2. IsFiniteSet(Z) /\ \A i \in Z : payout[i] \in Nat /\ part[i] = payout[i]
    BY <1>1, FS_Subset
  <2> HIDE DEF Z, part
  <2>3. Total(part, Z) = Total(payout, Z) /\ Total(payout, Z) \in Nat
    BY <2>2, TotalSame, TotalNat
  <2>4. shares_[a] = Total(payout, Z)
    BY <2>1
  <2> QED
    BY <2>3, <2>4 DEF Z, part, Total
<1>4. /\ credit \in [Accounts -> Nat]
      /\ \A a \in Accounts : credit[a] = pendingWithdrawals[a]
                                           + (IF a = quality[q].caller THEN opener ELSE 0)
  BY <1>2
<1>5. \A a \in Accounts : paid[a] = credit[a] + shares_[a]
  BY <1>3, <1>4 DEF Paid
<1>6. paid \in [Accounts -> Nat]
  <2>1. paid = [a \in Accounts |-> paid[a]]
    BY DEF Paid
  <2>2. \A a \in Accounts : credit[a] \in Nat /\ shares_[a] \in Nat
    BY <1>3, <1>4
  <2> HIDE DEF paid, credit, shares_
  <2>3. \A a \in Accounts : paid[a] \in Nat
    BY <1>5, <2>2
  <2> QED
    BY <2>1, <2>3
<1>7. Total(shares_, Accounts) = Total(payout, D)
  <2>1. IsFiniteSet(D) /\ IsFiniteSet(Accounts)
        /\ \A x \in D : payout[x] \in Nat /\ class[x] \in Accounts
    BY <1>1, <1>2
  <2>2. shares_ = ByClass(payout, D, Accounts, class)
    BY DEF ByClass
  <2> HIDE DEF D, class, shares_
  <2>3. Total(ByClass(payout, D, Accounts, class), Accounts) = Total(payout, D)
    BY ONLY <2>1, TotalByClass
  <2> QED
    BY <2>2, <2>3
<1>8. Total(credit, Accounts) = Total(pendingWithdrawals, Accounts) + opener
  <2>1. \A a \in Accounts : pendingWithdrawals[a] \in Nat /\ credit[a] \in Nat
    BY <1>2, <1>4
  <2>2. \A a \in Accounts \ {quality[q].caller} : credit[a] = pendingWithdrawals[a]
    BY <1>2
  <2>3. credit[quality[q].caller] = pendingWithdrawals[quality[q].caller] + opener
    BY <1>2
  <2> HIDE DEF credit
  <2>4. Total(credit, Accounts) = Total(pendingWithdrawals, Accounts)
          - pendingWithdrawals[quality[q].caller] + credit[quality[q].caller]
    <3>1. quality[q].caller \in Accounts /\ IsFiniteSet(Accounts)
      BY <1>2
    <3> QED
      BY ONLY <2>1, <2>2, <3>1, TotalChange
  <2>5. Total(pendingWithdrawals, Accounts) \in Nat
    BY StakedNat
  <2> QED
    BY <2>1, <2>3, <2>4, <2>5
<1>9. Total(paid, Accounts) = Total(credit, Accounts) + Total(shares_, Accounts)
  <2>1. \A a \in Accounts : credit[a] \in Nat /\ shares_[a] \in Nat /\ paid[a] = credit[a] + shares_[a]
    BY <1>3, <1>4, <1>5
  <2>2. IsFiniteSet(Accounts)
    BY <1>2
  <2> HIDE DEF credit, shares_, paid
  <2> QED
    BY ONLY <2>1, <2>2, TotalPlus
<1> HIDE DEF paid, shares_, credit
<1>10. Total(paid, Accounts)
         = Total(pendingWithdrawals, Accounts) + opener + Total(payout, D)
  BY <1>7, <1>8, <1>9
<1> QED
  BY <1>6, <1>10 DEF paid

LEMMA NoMore == \A d \in Nat \ {0} : \A t, s \in Nat : d * t <= s * d => t <= s
BY SMT

(* What the winners of a dispute get: their bonds and all of the spoils.   *)
LEMMA SideTotal ==
  ASSUME QualityInv, NEW q \in QualityIds, NEW side \in Sides, NEW spoils \in Nat,
         WeightFor(q, side) > 0,
         NEW payout, payout = [i \in DOMAIN ballots[q] |-> Payout(q, side, spoils, i)]
  PROVE  /\ \A i \in DOMAIN ballots[q] : payout[i] \in Nat
         /\ Total(payout, DOMAIN ballots[q])
              = VoterBond * Cardinality(BallotsFor(q, side)) + spoils
<1> DEFINE D == DOMAIN ballots[q]
           W == BallotsFor(q, side)
           w == [i \in W |-> ballots[q][i].weight]
           d == WeightFor(q, side)
           r == [i \in W |-> Reward(q, side, spoils, i)]
           rem == Remainder(q, side, spoils)
           last == CHOOSE j \in W : \A k \in W : k <= j
           g == [i \in W |-> r[i] + IF i = last THEN rem ELSE 0]
<1>1. /\ IsFiniteSet(D) /\ D \subseteq Nat /\ W \subseteq D /\ IsFiniteSet(W)
      /\ \A i \in D : ballots[q][i] \in Ballot
  BY Places2, FS_Subset DEF BallotsFor
<1>2. \A i \in W : w[i] \in Nat /\ w[i] = ballots[q][i].weight
  BY <1>1 DEF Ballot
<1>3. d = Total(w, W)
  BY DEF WeightFor, Total
<1>4. d \in Nat \ {0} /\ W # {}
  <2> HIDE DEF W, w, d
  <2>1. Total(w, W) \in Nat
    BY ONLY <1>1, <1>2, TotalNat
  <2>2. Total(w, {}) = 0
    BY TotalEmpty
  <2>3. d > 0
    BY DEF d
  <2> QED
    BY <1>3, <2>1, <2>2, <2>3
<1>5. ASSUME NEW i \in W PROVE r[i] \in Nat /\ d * r[i] <= spoils * w[i]
  <2>1. r[i] = (spoils * w[i]) \div d
    BY <1>2 DEF Reward
  <2>2. w[i] \in Nat
    BY <1>2
  <2> HIDE DEF r, w, d
  <2>3. spoils * w[i] \in Nat
    BY <2>2, Products
  <2> QED
    BY <1>4, <2>1, <2>3, DivFloor
<1>6. Total(r, W) \in Nat /\ Total(r, W) <= spoils
  <2> HIDE DEF W, r, w, d
  <2>1. \A i \in W : r[i] \in Nat /\ w[i] \in Nat /\ d * r[i] <= spoils * w[i]
    BY <1>2, <1>5
  <2>2. d * Total(r, W) <= spoils * Total(w, W)
    <3>1. d \in Nat /\ spoils \in Nat /\ IsFiniteSet(W)
      BY <1>1, <1>4
    <3> QED
      BY ONLY <2>1, <3>1, TotalOfShares
  <2>3. Total(r, W) \in Nat
    BY <1>1, <2>1, TotalNat
  <2> QED
    BY <1>3, <1>4, <2>2, <2>3, NoMore
<1>7. rem = spoils - Total(r, W) /\ rem \in Nat
  <2>1. rem = spoils - Total(r, W)
    BY DEF Remainder, Total
  <2> HIDE DEF rem, r, W
  <2> QED
    BY <1>6, <2>1
<1>8. last \in W
  <2> HIDE DEF W
  <2>1. W \subseteq Nat
    BY <1>1
  <2>2. \E j \in W : \A k \in W : k <= j
    BY <1>1, <1>4, <2>1, LargestExists
  <2> QED
    BY <2>2
<1>9. \A i \in D : payout[i] = IF i \in W THEN VoterBond + g[i] ELSE 0
  <2>1. ASSUME NEW i \in D PROVE payout[i] = IF i \in W THEN VoterBond + g[i] ELSE 0
    <3>1. payout[i] = IF i \notin W THEN 0
                      ELSE VoterBond + Reward(q, side, spoils, i)
                             + IF i = last THEN Remainder(q, side, spoils) ELSE 0
      BY DEF Payout
    <3>2. CASE i \notin W
      BY <3>1, <3>2
    <3>3. CASE i \in W
      <4> DEFINE n == Reward(q, side, spoils, i)
                 m == IF i = last THEN rem ELSE 0
      <4>1. n \in Nat /\ r[i] = n
        BY <1>5, <3>3
      <4>2. m \in Nat
        BY <1>7
      <4>3. g[i] = n + m /\ payout[i] = VoterBond + n + m
        BY <3>1, <3>3
      <4> HIDE DEF n, m, g
      <4> QED
        BY <3>3, <4>1, <4>2, <4>3, QualityPlace
    <3> QED
      BY <3>2, <3>3
  <2> QED
    BY <2>1
<1>10. /\ \A i \in W : g[i] \in Nat
       /\ g[last] = r[last] + rem /\ \A i \in W \ {last} : g[i] = r[i]
  <2>1. \A i \in W : g[i] = r[i] + IF i = last THEN rem ELSE 0
    OBVIOUS
  <2> HIDE DEF W, r, rem, last, g
  <2> QED
    BY <1>5, <1>7, <1>8, <2>1
<1> HIDE DEF D, W, w, d, r, rem, last, g
<1>11. Total(g, W) = spoils
  <2>1. Total(g, W) = Total(r, W) - r[last] + g[last]
    <3>1. \A i \in W : r[i] \in Nat /\ g[i] \in Nat
      BY <1>5, <1>10
    <3>2. \A i \in W \ {last} : g[i] = r[i]
      BY <1>10
    <3>3. IsFiniteSet(W) /\ last \in W
      BY <1>1, <1>8
    <3> QED
      BY ONLY <3>1, <3>2, <3>3, TotalChange
  <2>2. r[last] \in Nat
    BY <1>5, <1>8
  <2> QED
    BY <1>6, <1>7, <1>10, <2>1, <2>2
<1>12. \A i \in D : payout[i] \in Nat /\ (i \notin W => payout[i] = 0)
  BY <1>9, <1>10, QualityPlace
<1>13. Total(payout, W) = VoterBond * Cardinality(W) + Total(g, W)
  <2>1. \A i \in W : g[i] \in Nat /\ payout[i] = VoterBond + g[i]
    BY <1>1, <1>9, <1>10
  <2>2. VoterBond \in Nat /\ IsFiniteSet(W)
    BY <1>1, QualityPlace
  <2> QED
    BY ONLY <2>1, <2>2, TotalShifted
<1>14. Total(payout, D) = Total(payout, W)
  <2>1. W \in SUBSET D
    BY <1>1
  <2> QED
    BY ONLY <1>1, <1>12, <2>1, TotalSupport
<1> QED
  BY <1>11, <1>12, <1>13, <1>14 DEF D, W

(* Every ballot is for one of the sides.                                   *)
LEMMA SidesSplit ==
  ASSUME QualityInv, NEW q \in QualityIds
  PROVE  /\ Cardinality(BallotsFor(q, "caller")) \in Nat
         /\ Cardinality(BallotsFor(q, "provider")) \in Nat
         /\ Len(ballots[q])
              = Cardinality(BallotsFor(q, "caller")) + Cardinality(BallotsFor(q, "provider"))
<1> DEFINE D == DOMAIN ballots[q]
           C == BallotsFor(q, "caller")
           P == BallotsFor(q, "provider")
<1>1. /\ IsFiniteSet(D) /\ C \subseteq D /\ P \subseteq D /\ Cardinality(D) = Len(ballots[q])
      /\ \A i \in D : ballots[q][i].side \in {"caller", "provider"}
  BY Places2 DEF BallotsFor, Ballot, Sides
<1>2. C \cap P = {} /\ C \cup P = D
  BY <1>1 DEF BallotsFor
<1>3. IsFiniteSet(C) /\ IsFiniteSet(P)
  BY <1>1, FS_Subset
<1> HIDE DEF D, C, P
<1>4. Cardinality(C \cup P) = Cardinality(C) + Cardinality(P) - Cardinality(C \cap P)
  BY <1>3, FS_Union
<1>5. Cardinality(C) \in Nat /\ Cardinality(P) \in Nat /\ Cardinality({}) = 0
  BY <1>3, FS_CardinalityType, FS_EmptySet
<1>6. Cardinality(D) = Cardinality(C) + Cardinality(P)
  <2>1. Cardinality(C \cup P) = Cardinality(D) /\ Cardinality(C \cap P) = Cardinality({})
    BY <1>2
  <2> QED
    BY <1>4, <1>5, <2>1
<1> QED
  BY <1>1, <1>5, <1>6 DEF C, P

LEMMA WeightNat ==
  ASSUME QualityInv, NEW q \in QualityIds, NEW side PROVE WeightFor(q, side) \in Nat
<1> DEFINE W == BallotsFor(q, side)
           w == [i \in W |-> ballots[q][i].weight]
<1>1. IsFiniteSet(W) /\ \A i \in W : w[i] \in Nat
  BY Places2, FS_Subset DEF BallotsFor, Ballot
<1>2. WeightFor(q, side) = Total(w, W)
  BY DEF WeightFor, Total
<1> HIDE DEF W, w
<1> QED
  BY <1>1, <1>2, TotalNat

QualityStepSound == /\ BaseInv' /\ QualityInv' /\ CallsGrow
                    /\ Quiet({QualityAddress, Registry}) /\ now' = now

(* Money that moves elsewhere leaves the base contracts alone.             *)
LEMMA BaseUntouched ==
  ASSUME BaseInv, providers' = providers, now' = now, UNCHANGED callVars, usdc' \in Ledgers,
         usdc'[Registry] = usdc[Registry], usdc'[PPC] = usdc[PPC]
  PROVE  BaseInv' /\ CallsGrow
<1>1. CountsKept /\ RegistryInv /\ EscrowInv /\ now \in Nat
  BY DEF CountsKept, BaseInv, RegistryInv
<1>2. BaseInv'
  BY <1>1, RegistryUntouched, EscrowUntouched DEF BaseInv
<1> QED
  BY <1>1, <1>2, CallsStay

LEMMA QualityPaysIn ==
  ASSUME BaseInv, NEW a \in Accounts, NEW n \in Nat, CanPay(usdc, a, n),
         usdc' = Transfer(usdc, a, QualityAddress, n)
  PROVE  /\ usdc' \in Ledgers /\ usdc[QualityAddress] \in Nat /\ usdc'[QualityAddress] \in Nat
         /\ usdc'[Registry] = usdc[Registry] /\ usdc'[PPC] = usdc[PPC]
         /\ Quiet({QualityAddress, Registry})
         /\ usdc'[QualityAddress] = usdc[QualityAddress] + n
<1>1. /\ usdc \in Ledgers /\ \A b \in Addresses : usdc[b] \in Nat
      /\ a \in Addresses /\ a \notin Contracts /\ PPC \in Addresses /\ Registry \in Addresses
  BY QualityPlace DEF BaseInv, RegistryInv, Ledgers
<1>2. usdc' \in Ledgers /\ \A b \in Addresses :
        usdc'[b] = usdc[b] - (IF b = a THEN n ELSE 0) + (IF b = QualityAddress THEN n ELSE 0)
  BY <1>1, QualityPlace, TransferLedger
<1>3. Quiet({QualityAddress, Registry})
  BY <1>1, QualityPlace, TransferQuiet
<1> QED
  BY <1>1, <1>2, <1>3, QualityPlace

LEMMA QualityPaysOut ==
  ASSUME BaseInv, NEW a \in Accounts, NEW n \in Nat, CanPay(usdc, QualityAddress, n),
         usdc' = Transfer(usdc, QualityAddress, a, n)
  PROVE  /\ usdc' \in Ledgers /\ usdc[QualityAddress] \in Nat /\ usdc'[QualityAddress] \in Nat
         /\ usdc'[Registry] = usdc[Registry] /\ usdc'[PPC] = usdc[PPC]
         /\ Quiet({QualityAddress, Registry})
         /\ usdc'[QualityAddress] = usdc[QualityAddress] - n
<1>1. /\ usdc \in Ledgers /\ \A b \in Addresses : usdc[b] \in Nat
      /\ a \in Addresses /\ a \notin Contracts /\ PPC \in Addresses /\ Registry \in Addresses
  BY QualityPlace DEF BaseInv, RegistryInv, Ledgers
<1>2. usdc' \in Ledgers /\ \A b \in Addresses :
        usdc'[b] = usdc[b] - (IF b = QualityAddress THEN n ELSE 0) + (IF b = a THEN n ELSE 0)
  BY <1>1, QualityPlace, TransferLedger
<1>3. usdc'[QualityAddress] = usdc[QualityAddress] - n /\ usdc'[QualityAddress] \in Nat
  BY <1>1, <1>2, QualityPlace DEF CanPay
<1>4. Quiet({QualityAddress, Registry})
  BY <1>1, QualityPlace, TransferQuiet
<1> QED
  BY <1>1, <1>2, <1>3, <1>4, QualityPlace

LEMMA OpenQualityBooks ==
  ASSUME BaseInv, QualityInv, UNCHANGED callVars, NEW a \in Openers, NEW q \in QualityIds,
         NEW p \in Providers, NEW settledAt, OpenQualityDispute(a, q, p, settledAt)
  PROVE  QualityStepSound
<1> DEFINE until == now + qualityWindows.voting
           matter == [caller |-> a, provider |-> p, votingEndsAt |-> until, outcome |-> "Pending"]
<1>1. /\ quality[q].outcome = "None" /\ CanPay(usdc, a, QualityBond)
      /\ quality' = [quality EXCEPT ![q] = matter]
      /\ usdc' = Transfer(usdc, a, QualityAddress, QualityBond)
      /\ providers' = providers /\ now' = now /\ ballots' = ballots
      /\ pendingWithdrawals' = pendingWithdrawals /\ qualityWindows' = qualityWindows
  BY DEF OpenQualityDispute, OutsideQuality
<1>2. until \in Nat /\ a \in Accounts /\ p \in Providers /\ QualityBond \in Nat
  BY QualityAssumption DEF BaseInv, RegistryInv, QualityInv
<1> HIDE DEF until
<1>3. matter \in Matter /\ matter.outcome = "Pending" /\ matter.caller = a /\ matter.provider = p
  BY <1>2 DEF Matter
<1>4. /\ ballots[q] = <<>> /\ ballots[q] \in Seq(Ballot) /\ ballots' = [ballots EXCEPT ![q] = ballots[q]]
      /\ pendingWithdrawals' \in [Accounts -> Nat]
  BY <1>1 DEF QualityInv
<1>5. StakeOf(quality[q], ballots[q]) = 0 /\ StakeOf(matter, ballots[q]) = QualityBond
  <2>1. VoterBond * Len(ballots[q]) = 0
    BY <1>4, QualityPlace
  <2> QED
    BY <1>1, <1>2, <1>3, <2>1 DEF StakeOf
<1> HIDE DEF matter
<1>6. /\ usdc' \in Ledgers /\ usdc[QualityAddress] \in Nat /\ usdc'[QualityAddress] \in Nat
      /\ usdc'[Registry] = usdc[Registry] /\ usdc'[PPC] = usdc[PPC]
      /\ Quiet({QualityAddress, Registry})
      /\ usdc'[QualityAddress] = usdc[QualityAddress] + QualityBond
  BY <1>1, <1>2, QualityPaysIn
<1>7. usdc'[QualityAddress] - Total(pendingWithdrawals', Accounts)
        = usdc[QualityAddress] - Total(pendingWithdrawals, Accounts)
            - StakeOf(quality[q], ballots[q]) + StakeOf(matter, ballots[q])
  BY <1>1, <1>2, <1>5, <1>6, StakedNat
<1>8. QualityInv'
  BY <1>1, <1>2, <1>3, <1>4, <1>6, <1>7, MatterWritten
<1> QED
  BY <1>1, <1>6, <1>8, BaseUntouched DEF QualityStepSound

LEMMA CastVoteBooks ==
  ASSUME BaseInv, QualityInv, UNCHANGED callVars, NEW v \in Voters, NEW q \in QualityIds,
         NEW side \in Sides, CastVote(v, q, side)
  PROVE  QualityStepSound
<1> DEFINE ballot == [voter |-> v, side |-> side, weight |-> VoterStake(v)]
           list == Append(ballots[q], ballot)
<1>1. /\ quality[q].outcome = "Pending" /\ CanPay(usdc, v, VoterBond)
      /\ ballots' = [ballots EXCEPT ![q] = list]
      /\ usdc' = Transfer(usdc, v, QualityAddress, VoterBond)
      /\ providers' = providers /\ now' = now /\ quality' = quality
      /\ pendingWithdrawals' = pendingWithdrawals /\ qualityWindows' = qualityWindows
  <2>1. ballots' = [ballots EXCEPT ![q] = Append(@, [voter |-> v, side |-> side, weight |-> VoterStake(v)])]
    BY DEF CastVote
  <2>2. ballots' = [ballots EXCEPT ![q] = list]
    BY <2>1 DEF QualityInv
  <2> QED
    BY <2>2 DEF CastVote, OutsideQuality
<1>2. v \in Accounts /\ VoterBond \in Nat /\ QualityBond \in Nat
  BY QualityAssumption
<1>3. ballot \in Ballot
  <2>1. VoterStake(v) \in Nat
    BY DEF VoterStake, BaseInv, RegistryInv, Provider
  <2> QED
    BY <1>2, <2>1 DEF Ballot
<1> HIDE DEF ballot
<1>4. /\ ballots[q] \in Seq(Ballot) /\ list \in Seq(Ballot) /\ Len(list) = Len(ballots[q]) + 1
      /\ quality[q] \in Matter /\ quality' = [quality EXCEPT ![q] = quality[q]]
      /\ quality[q].caller \in Accounts /\ quality[q].provider \in Providers
      /\ pendingWithdrawals' \in [Accounts -> Nat]
  BY <1>1, <1>3 DEF QualityInv
<1>5. StakeOf(quality[q], list) = StakeOf(quality[q], ballots[q]) + VoterBond
      /\ StakeOf(quality[q], ballots[q]) \in Nat
  <2> DEFINE n == Len(ballots[q])
  <2>1. n \in Nat /\ VoterBond * n \in Nat
    BY StakedNat
  <2>2. VoterBond * (n + 1) = VoterBond * n + VoterBond * 1
    <3>1. 1 \in Nat /\ VoterBond \in Nat
      BY <1>2
    <3> HIDE DEF n
    <3> QED
      BY ONLY <2>1, <3>1, Distribute
  <2>3. /\ StakeOf(quality[q], list) = QualityBond + VoterBond * (n + 1)
        /\ StakeOf(quality[q], ballots[q]) = QualityBond + VoterBond * n
    BY <1>1, <1>4 DEF StakeOf
  <2> HIDE DEF n
  <2> QED
    BY <1>2, <2>1, <2>2, <2>3
<1> HIDE DEF list
<1>6. /\ usdc' \in Ledgers /\ usdc[QualityAddress] \in Nat /\ usdc'[QualityAddress] \in Nat
      /\ usdc'[Registry] = usdc[Registry] /\ usdc'[PPC] = usdc[PPC]
      /\ Quiet({QualityAddress, Registry})
      /\ usdc'[QualityAddress] = usdc[QualityAddress] + VoterBond
  BY <1>1, <1>2, QualityPaysIn
<1>7. usdc'[QualityAddress] - Total(pendingWithdrawals', Accounts)
        = usdc[QualityAddress] - Total(pendingWithdrawals, Accounts)
            - StakeOf(quality[q], ballots[q]) + StakeOf(quality[q], list)
  BY <1>1, <1>2, <1>5, <1>6, StakedNat
<1>8. QualityInv'
  BY <1>1, <1>4, <1>6, <1>7, MatterWritten
<1> QED
  BY <1>1, <1>6, <1>8, BaseUntouched DEF QualityStepSound

(* A dispute is closed: what was staked on it becomes credit.              *)
LEMMA FinalizedBooks ==
  ASSUME QualityInv, NEW q \in QualityIds, quality[q].outcome = "Pending",
         quality' = [quality EXCEPT ![q].outcome = Verdict(q)], ballots' = ballots,
         qualityWindows' = qualityWindows, usdc[QualityAddress] \in Nat, usdc' \in Ledgers,
         pendingWithdrawals' \in [Accounts -> Nat], NEW extra \in Nat,
         usdc'[QualityAddress] = usdc[QualityAddress] + extra,
         Total(pendingWithdrawals', Accounts)
           = Total(pendingWithdrawals, Accounts) + QualityBond + VoterBond * Len(ballots[q]) + extra
  PROVE  QualityInv'
<1> DEFINE matter == [quality[q] EXCEPT !.outcome = Verdict(q)]
           staked == VoterBond * Len(ballots[q])
<1>1. Verdict(q) \in {"tied", "caller", "provider"}
  BY DEF Verdict
<1>2. /\ matter \in Matter /\ matter.outcome = Verdict(q)
      /\ quality' = [quality EXCEPT ![q] = matter]
      /\ ballots[q] \in Seq(Ballot) /\ ballots' = [ballots EXCEPT ![q] = ballots[q]]
  <2>1. quality[q] \in Matter /\ ballots[q] \in Seq(Ballot)
    BY DEF QualityInv
  <2>2. quality' = [quality EXCEPT ![q] = matter] /\ ballots' = [ballots EXCEPT ![q] = ballots[q]]
    BY DEF QualityInv
  <2>3. matter \in Matter /\ matter.outcome = Verdict(q)
    BY <1>1, <2>1 DEF Matter
  <2> QED
    BY <2>1, <2>2, <2>3
<1>3. matter.outcome \notin {"None", "Pending"}
  BY <1>1, <1>2
<1>4. staked \in Nat /\ StakeOf(matter, ballots[q]) = 0 /\ QualityBond \in Nat
      /\ StakeOf(quality[q], ballots[q]) = QualityBond + staked
  BY <1>3, StakedNat, QualityPlace DEF StakeOf
<1>5. usdc'[QualityAddress] \in Nat /\ Total(pendingWithdrawals, Accounts) \in Nat
  BY QualityPlace, StakedNat DEF Ledgers
<1>6. Total(pendingWithdrawals', Accounts)
        = Total(pendingWithdrawals, Accounts) + QualityBond + staked + extra
  OBVIOUS
<1> HIDE DEF matter, staked
<1>7. usdc'[QualityAddress] - Total(pendingWithdrawals', Accounts)
        = usdc[QualityAddress] - Total(pendingWithdrawals, Accounts)
            - StakeOf(quality[q], ballots[q]) + StakeOf(matter, ballots[q])
  BY <1>4, <1>5, <1>6
<1> QED
  BY <1>2, <1>3, <1>5, <1>7, MatterWritten

LEMMA TiedBooks ==
  ASSUME BaseInv, QualityInv, UNCHANGED callVars, NEW q \in QualityIds,
         quality[q].outcome = "Pending", FinalizeTied(q),
         quality' = [quality EXCEPT ![q].outcome = Verdict(q)], ballots' = ballots,
         qualityWindows' = qualityWindows, now' = now
  PROVE  QualityStepSound
<1> DEFINE D == DOMAIN ballots[q]
           refund == [i \in D |-> VoterBond]
           none == [i \in D |-> 0]
<1>1. /\ pendingWithdrawals' = Paid(q, refund, QualityBond)
      /\ providers' = providers /\ usdc' = usdc
  BY DEF FinalizeTied
<1>2. /\ IsFiniteSet(D) /\ Cardinality(D) = Len(ballots[q]) /\ VoterBond \in Nat /\ QualityBond \in Nat
      /\ quality[q].caller \in Accounts /\ usdc \in Ledgers /\ usdc[QualityAddress] \in Nat
      /\ \A i \in D : none[i] \in Nat /\ refund[i] \in Nat /\ refund[i] = VoterBond + none[i]
                      /\ none[i] = 0
  BY Places2, QualityPlace DEF QualityInv, BaseInv, RegistryInv, Ledgers
<1> HIDE DEF D, refund, none
<1>3. Total(refund, D) = VoterBond * Len(ballots[q])
  <2>1. Total(none, D) = 0
    BY <1>2, TotalZero
  <2>2. Total(refund, D) = VoterBond * Cardinality(D) + Total(none, D)
    <3>1. IsFiniteSet(D) /\ VoterBond \in Nat
          /\ \A i \in D : none[i] \in Nat /\ refund[i] = VoterBond + none[i]
      BY <1>2
    <3> QED
      BY ONLY <3>1, TotalShifted
  <2>3. VoterBond * Len(ballots[q]) \in Nat
    BY StakedNat
  <2> QED
    BY <1>2, <2>1, <2>2, <2>3
<1>4. /\ pendingWithdrawals' \in [Accounts -> Nat]
      /\ Total(pendingWithdrawals', Accounts)
           = Total(pendingWithdrawals, Accounts) + QualityBond + Total(refund, D)
  <2>1. \A i \in DOMAIN ballots[q] : refund[i] \in Nat
    BY <1>2 DEF D
  <2> QED
    BY <1>1, <1>2, <2>1, PaidTotal DEF D
<1>5. QualityInv'
  <2>1. /\ usdc'[QualityAddress] = usdc[QualityAddress] + 0 /\ usdc' \in Ledgers
        /\ Total(pendingWithdrawals', Accounts) = Total(pendingWithdrawals, Accounts)
             + QualityBond + VoterBond * Len(ballots[q]) + 0
    BY <1>1, <1>2, <1>3, <1>4, StakedNat
  <2> QED
    BY <1>2, <1>4, <2>1, FinalizedBooks
<1> QED
  BY <1>1, <1>2, <1>5, BaseUntouched, StillQuiet DEF QualityStepSound

LEMMA ForProviderBooks ==
  ASSUME BaseInv, QualityInv, UNCHANGED callVars, NEW q \in QualityIds,
         quality[q].outcome = "Pending", FinalizeForProvider(q),
         quality' = [quality EXCEPT ![q].outcome = Verdict(q)], ballots' = ballots,
         qualityWindows' = qualityWindows, now' = now
  PROVE  QualityStepSound
<1> DEFINE D == DOMAIN ballots[q]
           lost == Cardinality(BallotsFor(q, "caller"))
           won == Cardinality(BallotsFor(q, "provider"))
           spoils == QualityBond + VoterBond * lost
           payout == [i \in D |-> Payout(q, "provider", spoils, i)]
<1>1. /\ pendingWithdrawals' = Paid(q, payout, 0) /\ Verdict(q) = "provider"
      /\ providers' = providers /\ usdc' = usdc
  BY DEF FinalizeForProvider
<1>2. /\ VoterBond \in Nat /\ QualityBond \in Nat /\ lost \in Nat /\ won \in Nat
      /\ Len(ballots[q]) = lost + won /\ VoterBond * lost \in Nat /\ VoterBond * won \in Nat
      /\ quality[q].caller \in Accounts /\ usdc \in Ledgers /\ usdc[QualityAddress] \in Nat
  BY SidesSplit, QualityPlace, Products DEF QualityInv, BaseInv, RegistryInv, Ledgers
<1>3. spoils \in Nat /\ VoterBond * Len(ballots[q]) = VoterBond * lost + VoterBond * won
  <2>1. VoterBond * (lost + won) = VoterBond * lost + VoterBond * won
    BY <1>2, Distribute
  <2> QED
    BY <1>2, <2>1
<1>4. WeightFor(q, "provider") > 0
  <2>1. WeightFor(q, "provider") \in Nat /\ WeightFor(q, "caller") \in Nat
    BY WeightNat
  <2> QED
    BY <1>1, <2>1 DEF Verdict
<1>5. /\ \A i \in DOMAIN ballots[q] : payout[i] \in Nat
      /\ Total(payout, DOMAIN ballots[q]) = VoterBond * won + spoils
  <2>1. "provider" \in Sides
    BY DEF Sides
  <2> HIDE DEF spoils
  <2> QED
    BY <1>3, <1>4, <2>1, SideTotal
<1> HIDE DEF lost, won, payout
<1>6. /\ pendingWithdrawals' \in [Accounts -> Nat]
      /\ Total(pendingWithdrawals', Accounts)
           = Total(pendingWithdrawals, Accounts) + Total(payout, DOMAIN ballots[q])
  <2> DEFINE nothing == 0
  <2>1. nothing \in Nat /\ pendingWithdrawals' = Paid(q, payout, nothing)
        /\ q \in QualityIds /\ quality[q].caller \in Accounts
        /\ \A i \in DOMAIN ballots[q] : payout[i] \in Nat
    BY <1>1, <1>2, <1>5
  <2> HIDE DEF nothing
  <2>2. /\ Paid(q, payout, nothing) \in [Accounts -> Nat]
        /\ Total(Paid(q, payout, nothing), Accounts)
             = Total(pendingWithdrawals, Accounts) + nothing + Total(payout, DOMAIN ballots[q])
    BY <2>1, PaidTotal
  <2>3. Total(pendingWithdrawals, Accounts) \in Nat
    BY StakedNat
  <2> QED
    BY <2>1, <2>2, <2>3 DEF nothing
<1>7. QualityInv'
  <2> DEFINE lostBonds == VoterBond * lost
             wonBonds == VoterBond * won
             bonds == VoterBond * Len(ballots[q])
             before == Total(pendingWithdrawals, Accounts)
  <2>2. /\ lostBonds \in Nat /\ wonBonds \in Nat /\ before \in Nat
        /\ bonds = lostBonds + wonBonds /\ spoils = QualityBond + lostBonds
        /\ Total(payout, DOMAIN ballots[q]) = wonBonds + spoils
        /\ Total(pendingWithdrawals', Accounts) = before + Total(payout, DOMAIN ballots[q])
    BY <1>2, <1>3, <1>5, <1>6, StakedNat
  <2>3. Total(pendingWithdrawals', Accounts) = before + QualityBond + bonds + 0
    <3> HIDE DEF lostBonds, wonBonds, bonds, before, spoils
    <3> QED
      BY <1>2, <2>2
  <2>1. /\ usdc'[QualityAddress] = usdc[QualityAddress] + 0 /\ usdc' \in Ledgers
        /\ Total(pendingWithdrawals', Accounts) = Total(pendingWithdrawals, Accounts)
             + QualityBond + VoterBond * Len(ballots[q]) + 0
    BY <1>1, <1>2, <2>3
  <2> QED
    BY <1>2, <1>6, <2>1, FinalizedBooks
<1> QED
  BY <1>1, <1>2, <1>7, BaseUntouched, StillQuiet DEF QualityStepSound

LEMMA ForCallerBooks ==
  ASSUME BaseInv, QualityInv, UNCHANGED callVars, NEW q \in QualityIds,
         quality[q].outcome = "Pending", FinalizeForCaller(q),
         quality' = [quality EXCEPT ![q].outcome = Verdict(q)], ballots' = ballots,
         qualityWindows' = qualityWindows, now' = now
  PROVE  QualityStepSound
<1> DEFINE D == DOMAIN ballots[q]
           p == quality[q].provider
           slash == QualitySlash(q)
           lost == Cardinality(BallotsFor(q, "provider"))
           won == Cardinality(BallotsFor(q, "caller"))
           spoils == VoterBond * lost + slash
           payout == [i \in D |-> Payout(q, "caller", spoils, i)]
<1>1. /\ pendingWithdrawals' = Paid(q, payout, QualityBond) /\ Verdict(q) = "caller"
      /\ providers' = Slashed(providers, p, slash)
      /\ usdc' = Transfer(usdc, Registry, QualityAddress, slash)
  BY DEF FinalizeForCaller
<1>2. /\ VoterBond \in Nat /\ QualityBond \in Nat /\ lost \in Nat /\ won \in Nat
      /\ Len(ballots[q]) = won + lost /\ VoterBond * lost \in Nat /\ VoterBond * won \in Nat
      /\ quality[q].caller \in Accounts /\ p \in Providers /\ usdc \in Ledgers
      /\ \A b \in Addresses : usdc[b] \in Nat
  BY SidesSplit, QualityPlace, Products DEF QualityInv, BaseInv, RegistryInv, Ledgers
<1>3. slash \in Nat /\ slash <= providers[p].stake
  BY <1>2, QualityAssumption, ShareOfStake DEF BaseInv, QualitySlash
<1>4. spoils \in Nat /\ VoterBond * Len(ballots[q]) = VoterBond * lost + VoterBond * won
  <2>1. VoterBond * (won + lost) = VoterBond * won + VoterBond * lost
    BY <1>2, Distribute
  <2> HIDE DEF slash
  <2> QED
    BY <1>2, <1>3, <2>1
<1>5. WeightFor(q, "caller") > 0
  <2>1. WeightFor(q, "provider") \in Nat /\ WeightFor(q, "caller") \in Nat
    BY WeightNat
  <2> QED
    BY <1>1, <2>1 DEF Verdict
<1>6. /\ \A i \in DOMAIN ballots[q] : payout[i] \in Nat
      /\ Total(payout, DOMAIN ballots[q]) = VoterBond * won + spoils
  <2>1. "caller" \in Sides
    BY DEF Sides
  <2> HIDE DEF spoils
  <2> QED
    BY <1>4, <1>5, <2>1, SideTotal
<1> HIDE DEF lost, won, payout, slash, p
<1>7. /\ pendingWithdrawals' \in [Accounts -> Nat]
      /\ Total(pendingWithdrawals', Accounts)
           = Total(pendingWithdrawals, Accounts) + QualityBond + Total(payout, DOMAIN ballots[q])
  BY <1>1, <1>2, <1>6, PaidTotal
<1>8. CanPay(usdc, Registry, slash)
  <2>1. \A r \in Providers : Stakes[r] \in Nat /\ Stakes[r] = providers[r].stake
    BY DEF BaseInv, RegistryInv, Provider, Stakes
  <2>2. usdc[Registry] = Total(Stakes, Providers)
    BY DEF BaseInv, RegistryInv
  <2> HIDE DEF Stakes
  <2>3. Stakes[p] <= Total(Stakes, Providers)
    BY <1>2, <2>1, Sizes, TotalBounds
  <2>4. usdc[Registry] \in Nat
    BY <1>2, QualityPlace
  <2> QED
    BY <1>2, <1>3, <2>1, <2>2, <2>3, <2>4 DEF CanPay
<1>9. /\ usdc' \in Ledgers /\ usdc'[QualityAddress] = usdc[QualityAddress] + slash
      /\ usdc'[Registry] = usdc[Registry] - slash /\ usdc'[PPC] = usdc[PPC]
      /\ \A b \in Contracts \ {QualityAddress, Registry} : usdc'[b] = usdc[b]
  <2>1. usdc' \in Ledgers /\ \A b \in Addresses :
          usdc'[b] = usdc[b] - (IF b = Registry THEN slash ELSE 0)
                             + (IF b = QualityAddress THEN slash ELSE 0)
    BY <1>1, <1>2, <1>3, <1>8, QualityPlace, TransferLedger
  <2> QED
    BY <1>2, <1>3, <2>1, QualityPlace, Places
<1>10. QualityInv'
  <2>1. Total(pendingWithdrawals', Accounts) = Total(pendingWithdrawals, Accounts)
          + QualityBond + VoterBond * Len(ballots[q]) + slash
    <3> DEFINE lostBonds == VoterBond * lost
               wonBonds == VoterBond * won
               bonds == VoterBond * Len(ballots[q])
               before == Total(pendingWithdrawals, Accounts)
    <3>1. /\ lostBonds \in Nat /\ wonBonds \in Nat /\ before \in Nat
          /\ bonds = lostBonds + wonBonds /\ spoils = lostBonds + slash
          /\ Total(payout, DOMAIN ballots[q]) = wonBonds + spoils
          /\ Total(pendingWithdrawals', Accounts)
               = before + QualityBond + Total(payout, DOMAIN ballots[q])
      BY <1>2, <1>4, <1>6, <1>7, StakedNat
    <3>2. Total(pendingWithdrawals', Accounts) = before + QualityBond + bonds + slash
      <4> HIDE DEF lostBonds, wonBonds, bonds, before, spoils
      <4> QED
        BY <1>2, <1>3, <3>1
    <3> QED
      BY <3>2
  <2>2. usdc[QualityAddress] \in Nat
    BY <1>2, QualityPlace
  <2> QED
    BY <1>2, <1>3, <1>7, <1>9, <2>1, <2>2, FinalizedBooks
<1>11. BaseInv' /\ CallsGrow
  BY <1>1, <1>2, <1>3, <1>9, StakeCut
<1>12. Quiet({QualityAddress, Registry})
  BY <1>2, <1>9 DEF Quiet
<1> QED
  BY <1>10, <1>11, <1>12 DEF QualityStepSound

LEMMA WithdrawPayoutBooks ==
  ASSUME BaseInv, QualityInv, UNCHANGED callVars, NEW a \in Accounts, WithdrawPayout(a)
  PROVE  QualityStepSound
<1> DEFINE amount == pendingWithdrawals[a]
<1>1. /\ CanPay(usdc, QualityAddress, amount)
      /\ pendingWithdrawals' = [pendingWithdrawals EXCEPT ![a] = 0]
      /\ usdc' = Transfer(usdc, QualityAddress, a, amount)
      /\ providers' = providers /\ now' = now /\ quality' = quality /\ ballots' = ballots
      /\ qualityWindows' = qualityWindows
  BY DEF WithdrawPayout, OutsideQuality
<1>2. /\ pendingWithdrawals \in [Accounts -> Nat] /\ amount \in Nat
      /\ pendingWithdrawals' \in [Accounts -> Nat]
      /\ pendingWithdrawals'[a] = 0
      /\ \A b \in Accounts \ {a} : pendingWithdrawals'[b] = pendingWithdrawals[b]
  BY <1>1 DEF QualityInv
<1>3. Total(pendingWithdrawals', Accounts) = Total(pendingWithdrawals, Accounts) - amount
  <2>1. /\ IsFiniteSet(Accounts) /\ a \in Accounts
        /\ \A b \in Accounts : pendingWithdrawals[b] \in Nat /\ pendingWithdrawals'[b] \in Nat
        /\ \A b \in Accounts \ {a} : pendingWithdrawals'[b] = pendingWithdrawals[b]
    BY <1>2, Sizes
  <2>2. Total(pendingWithdrawals', Accounts)
          = Total(pendingWithdrawals, Accounts) - pendingWithdrawals[a] + pendingWithdrawals'[a]
    BY ONLY <2>1, TotalChange
  <2> QED
    BY <1>2, <2>2, StakedNat
<1> HIDE DEF amount
<1>4. /\ usdc' \in Ledgers /\ usdc[QualityAddress] \in Nat
      /\ usdc'[Registry] = usdc[Registry] /\ usdc'[PPC] = usdc[PPC]
      /\ Quiet({QualityAddress, Registry})
      /\ usdc'[QualityAddress] = usdc[QualityAddress] - amount
  BY <1>1, <1>2, QualityPaysOut
<1>5. QualityInv'
  <2>1. Staked' = Staked
    BY <1>1 DEF Staked
  <2>2. usdc'[QualityAddress] = Total(pendingWithdrawals', Accounts) + Total(Staked', QualityIds)
    <3>1. usdc[QualityAddress] = Total(pendingWithdrawals, Accounts) + Total(Staked, QualityIds)
      BY DEF QualityInv
    <3> QED
      BY <1>2, <1>3, <1>4, <2>1, <3>1, StakedNat
  <2> QED
    BY <1>1, <1>2, <2>2 DEF QualityInv
<1> QED
  BY <1>1, <1>4, <1>5, BaseUntouched DEF QualityStepSound

LEMMA QualitySettingBooks ==
  ASSUME BaseInv, QualityInv, UNCHANGED callVars, NEW w \in QualityWindows,
         ChangeWindow(w) \/ ChangeVotingWindow(w)
  PROVE  QualityStepSound
<1>1. /\ providers' = providers /\ usdc' = usdc /\ now' = now /\ quality' = quality
      /\ ballots' = ballots /\ pendingWithdrawals' = pendingWithdrawals
      /\ usdc \in Ledgers
  BY DEF ChangeWindow, ChangeVotingWindow, registryVars, BaseInv, RegistryInv
<1>2. qualityWindows' \in [dispute : Nat, voting : Nat]
  <2>1. w \in Nat /\ qualityWindows \in [dispute : Nat, voting : Nat]
    BY QualityAssumption DEF QualityInv
  <2> QED
    BY <2>1 DEF ChangeWindow, ChangeVotingWindow
<1>3. Staked' = Staked
  BY <1>1 DEF Staked
<1>4. QualityInv'
  BY <1>1, <1>2, <1>3 DEF QualityInv
<1> QED
  BY <1>1, <1>4, BaseUntouched, StillQuiet DEF QualityStepSound

(* Whatever the outcome, the money of a dispute is shared out in full.     *)
LEMMA QualityMoves ==
  ASSUME BaseInv, QualityInv, QualityStep, UNCHANGED callVars
  PROVE  QualityStepSound
<1>1. ASSUME NEW q \in QualityIds, FinalizeQuality(q) PROVE QualityStepSound
  <2>1. /\ quality[q].outcome = "Pending"
        /\ quality' = [quality EXCEPT ![q].outcome = Verdict(q)]
        /\ ballots' = ballots /\ qualityWindows' = qualityWindows /\ now' = now
        /\ FinalizeTied(q) \/ FinalizeForCaller(q) \/ FinalizeForProvider(q)
    BY <1>1 DEF FinalizeQuality, OutsideQuality
  <2> QED
    BY <2>1, TiedBooks, ForCallerBooks, ForProviderBooks
<1> QED
  BY <1>1, OpenQualityBooks, CastVoteBooks, WithdrawPayoutBooks, QualitySettingBooks DEF QualityStep

LEMMA QualityCovered == ASSUME QualityInv PROVE QualitySolvent
BY DEF QualityInv, QualitySolvent, Staked, Total

LEMMA DisputesCovered == ASSUME DisputeInv PROVE BondsCovered
BY DEF DisputeInv, BondsCovered, Bonded, Total

-----------------------------------------------------------------------------
(* The contracts that have no books of their own.  What their steps do to  *)
(* the registry and the escrow is what an account's steps do.              *)

(* Steps that only set something.                                          *)
LEMMA SideSetting ==
  ASSUME BaseInv, UNCHANGED registryVars, UNCHANGED callVars, NEW S
  PROVE  BaseInv' /\ CallsGrow /\ Quiet(S) /\ now' = now
<1>1. providers' = providers /\ usdc' = usdc /\ now' = now /\ usdc \in Ledgers
  BY DEF registryVars, BaseInv, RegistryInv
<1> QED
  BY <1>1, BaseUntouched, StillQuiet

(* Steps that are quiet to the registry and the escrow.                    *)
LEMMA BaseQuiet ==
  ASSUME BaseInv, UNCHANGED <<providers, now>>, UNCHANGED callVars, NEW S, Quiet(S),
         Registry \notin S, PPC \notin S
  PROVE  BaseInv' /\ CallsGrow
<1>1. /\ usdc' \in Ledgers /\ usdc'[Registry] = usdc[Registry] /\ usdc'[PPC] = usdc[PPC]
  BY Places DEF Quiet, Bookkeepers
<1> QED
  BY <1>1, BaseUntouched

(* Payments between an account and a contract without books.               *)
LEMMA SidePayment ==
  ASSUME BaseInv, UNCHANGED <<providers, now>>, UNCHANGED callVars,
         NEW c \in Contracts \ Bookkeepers, NEW a \in Accounts, NEW n \in Nat,
         \/ CanPay(usdc, a, n) /\ usdc' = Transfer(usdc, a, c, n)
         \/ CanPay(usdc, c, n) /\ usdc' = Transfer(usdc, c, a, n)
  PROVE  BaseInv' /\ CallsGrow /\ Quiet({c})
<1>1. usdc \in Ledgers /\ a \in Addresses /\ c \in Addresses
  BY DEF BaseInv, RegistryInv
<1>2. Quiet({c})
  BY <1>1, TransferQuiet
<1>3. Registry \notin {c} /\ PPC \notin {c}
  BY DEF Bookkeepers
<1> QED
  BY <1>2, <1>3, BaseQuiet

LEMMA WalletMoves ==
  ASSUME BaseInv, WalletStep
  PROVE  BaseInv' /\ CallsGrow /\ Quiet({PPC, WalletAddress}) /\ now' = now
<1>1. /\ WalletAddress \in Contracts \ Bookkeepers /\ WalletOwner \in Accounts
      /\ WalletAddress \in Addresses /\ TopUps \subseteq Nat
  BY Places, WalletAssumption
<1>2. ASSUME NEW amount \in TopUps, WalletDeposit(amount) \/ WalletWithdraw(amount)
      PROVE  BaseInv' /\ CallsGrow /\ Quiet({PPC, WalletAddress}) /\ now' = now
  <2>1. /\ UNCHANGED <<providers, now>> /\ UNCHANGED callVars /\ now' = now
        /\ \/ CanPay(usdc, WalletOwner, amount) /\ usdc' = Transfer(usdc, WalletOwner, WalletAddress, amount)
           \/ CanPay(usdc, WalletAddress, amount) /\ usdc' = Transfer(usdc, WalletAddress, WalletOwner, amount)
    BY <1>2 DEF WalletDeposit, WalletWithdraw
  <2>2. BaseInv' /\ CallsGrow /\ Quiet({WalletAddress})
    BY <1>1, <2>1, SidePayment
  <2> QED
    BY <2>1, <2>2 DEF Quiet
<1>3. ASSUME NEW p \in Providers, NEW amount \in Prices, AgentCall(p, amount)
      PROVE  BaseInv' /\ CallsGrow /\ Quiet({PPC, WalletAddress}) /\ now' = now
  BY <1>1, <1>3, CallServiceBase DEF AgentCall, CallServiceFor, CreateCall
<1>4. CASE UNCHANGED registryVars /\ UNCHANGED callVars
  BY <1>4, SideSetting
<1> QED
  BY <1>2, <1>3, <1>4 DEF WalletStep, SetDailyLimit, SetMaxPerCall, AddToWhitelist,
     RemoveFromWhitelist, Pause

MintsSound == minted \in [MessageIds -> Messages \cup {NoMessage}]

LEMMA ReceiverMoves ==
  ASSUME BaseInv, MintsSound, ReceiverStep
  PROVE  BaseInv' /\ CallsGrow /\ Quiet({PPC, ReceiverAddress}) /\ now' = now
<1>1. /\ ReceiverAddress \in Contracts \ Bookkeepers /\ ReceiverAddress \in Addresses
      /\ RecoverAmounts \subseteq Nat
      /\ \A m \in Messages : m.caller \in Accounts /\ m.amount \in Nat
  BY Places, ReceiverAssumption
<1>2. ASSUME NEW a \in Accounts, NEW n \in Nat, UNCHANGED <<providers, now>>, UNCHANGED callVars,
             \/ CanPay(usdc, a, n) /\ usdc' = Transfer(usdc, a, ReceiverAddress, n)
             \/ CanPay(usdc, ReceiverAddress, n) /\ usdc' = Transfer(usdc, ReceiverAddress, a, n)
      PROVE  BaseInv' /\ CallsGrow /\ Quiet({PPC, ReceiverAddress}) /\ now' = now
  <2>1. BaseInv' /\ CallsGrow /\ Quiet({ReceiverAddress})
    BY <1>1, <1>2, SidePayment
  <2> QED
    BY <1>2, <2>1 DEF Quiet
<1>3. ASSUME NEW m \in MessageIds, NEW message \in Messages, CctpMint(m, message)
      PROVE  BaseInv' /\ CallsGrow /\ Quiet({PPC, ReceiverAddress}) /\ now' = now
  BY <1>1, <1>2, <1>3 DEF CctpMint
<1>4. ASSUME NEW amount \in RecoverAmounts, NEW to \in Accounts, ReceiverRecoverTokens(amount, to)
      PROVE  BaseInv' /\ CallsGrow /\ Quiet({PPC, ReceiverAddress}) /\ now' = now
  BY <1>1, <1>2, <1>4 DEF ReceiverRecoverTokens
<1>5. CASE \E wired \in BOOLEAN : ReceiverSetRegistry(wired)
  BY <1>5, SideSetting DEF ReceiverSetRegistry
<1>6. ASSUME NEW m \in MessageIds, HandleReceiveFinalizedTransfer(m)
      PROVE  BaseInv' /\ CallsGrow /\ Quiet({PPC, ReceiverAddress}) /\ now' = now
  <2> DEFINE p == minted[m].provider
             caller == minted[m].caller
  <2>1. p \in Providers /\ caller \in Addresses
    BY <1>1, <1>6, ReceiverAssumption DEF HandleReceiveFinalizedTransfer, Arrived, MintsSound
  <2>2. CreateCall(usdc, p, caller, ReceiverAddress) /\ now' = now
    BY <1>6 DEF HandleReceiveFinalizedTransfer, CallServiceFor, CreateCall
  <2> HIDE DEF p, caller
  <2> QED
    BY <1>1, <2>1, <2>2, CallServiceBase
<1> QED
  BY <1>3, <1>4, <1>5, <1>6 DEF ReceiverStep

LEMMA MiddlewareMoves ==
  ASSUME BaseInv, MiddlewareStep
  PROVE  BaseInv' /\ CallsGrow /\ Quiet({PPC, MiddlewareAddress}) /\ now' = now
<1>1. /\ MiddlewareAddress \in Contracts \ Bookkeepers /\ MiddlewareAddress \in Addresses
      /\ Payments \subseteq Nat /\ Agents \subseteq Accounts
  BY Places, MiddlewareAssumption
<1>2. ASSUME NEW agent \in Agents, NEW p \in Providers, NEW h \in RequestHashes,
             NEW amount \in Payments, ExecutePayment(agent, p, h, amount)
      PROVE  BaseInv' /\ CallsGrow /\ Quiet({PPC, MiddlewareAddress}) /\ now' = now
  <2> DEFINE ledger == Transfer(usdc, agent, MiddlewareAddress, amount)
  <2>1. /\ CanPay(usdc, agent, amount) /\ CreateCall(ledger, p, agent, MiddlewareAddress)
        /\ providers[p].price <= amount
    BY <1>2 DEF ExecutePayment
  <2>2. now' = now
    BY <2>1 DEF CreateCall
  <2>3. /\ usdc \in Ledgers /\ \A b \in Addresses : usdc[b] \in Nat
        /\ agent \in Accounts /\ agent \in Addresses /\ amount \in Nat
        /\ Registry \in Bookkeepers /\ PPC \in Bookkeepers /\ Bookkeepers \subseteq Contracts
        /\ Accounts \cap Contracts = {} /\ agent # MiddlewareAddress
    BY <1>1, Places, RegistryAssumption DEF BaseInv, RegistryInv, Ledgers, Bookkeepers
  <2>4. /\ ledger \in Ledgers
        /\ \A b \in Addresses : ledger[b] = usdc[b] - (IF b = agent THEN amount ELSE 0)
                                               + (IF b = MiddlewareAddress THEN amount ELSE 0)
    BY <1>1, <2>1, <2>3, TransferLedger
  <2> HIDE DEF ledger
  <2>5. ledger[Registry] = usdc[Registry] /\ ledger[PPC] = usdc[PPC]
        /\ MiddlewareAddress \in Addresses \ {PPC, Registry}
    BY <1>1, <2>3, <2>4
  <2>6. /\ BaseInv' /\ CallsGrow /\ usdc' \in Ledgers /\ providers[p].price \in Nat
        /\ \A b \in Addresses : usdc'[b] = ledger[b]
             - (IF b = MiddlewareAddress THEN providers[p].price ELSE 0)
             + (IF b = PPC THEN providers[p].price ELSE 0)
    BY <2>1, <2>3, <2>4, <2>5, CreateCallBase
  <2>7. \A b \in Contracts \ {PPC, MiddlewareAddress} : usdc'[b] = usdc[b] /\ usdc[b] \in Nat
    BY <2>3, <2>4, <2>6
  <2>8. Quiet({PPC, MiddlewareAddress})
    BY <2>6, <2>7 DEF Quiet
  <2> QED
    BY <2>2, <2>6, <2>8
<1>3. ASSUME NEW amount \in Payments, NEW to \in Accounts, MiddlewareRecoverTokens(amount, to)
      PROVE  BaseInv' /\ CallsGrow /\ Quiet({PPC, MiddlewareAddress}) /\ now' = now
  <2>1. /\ UNCHANGED <<providers, now>> /\ UNCHANGED callVars /\ now' = now
        /\ CanPay(usdc, MiddlewareAddress, amount)
        /\ usdc' = Transfer(usdc, MiddlewareAddress, to, amount)
    BY <1>3 DEF MiddlewareRecoverTokens
  <2>2. BaseInv' /\ CallsGrow /\ Quiet({MiddlewareAddress})
    BY <1>1, <2>1, SidePayment
  <2> QED
    BY <2>1, <2>2 DEF Quiet
<1>4. CASE \E wired \in BOOLEAN : MiddlewareSetRegistry(wired)
  BY <1>4, SideSetting DEF MiddlewareSetRegistry
<1> QED
  BY <1>2, <1>3, <1>4 DEF MiddlewareStep

LEMMA AttestationMoves ==
  ASSUME BaseInv, AttestationStep
  PROVE  BaseInv' /\ CallsGrow /\ Quiet({}) /\ now' = now
<1>1. UNCHANGED registryVars /\ UNCHANGED callVars
  BY DEF AttestationStep, AttestCall, AttestProviderScore, AttestBatchSummary, SetRateLimitBlocks
<1> QED
  BY <1>1, SideSetting

LEMMA MintsMove == ASSUME MintsSound, ReceiverStep PROVE MintsSound'
<1>1. ASSUME NEW m \in MessageIds, NEW message \in Messages, CctpMint(m, message)
      PROVE  MintsSound'
  BY <1>1 DEF CctpMint, MintsSound
<1>2. CASE minted' = minted
  BY <1>2 DEF MintsSound
<1> QED
  BY <1>1, <1>2 DEF ReceiverStep, HandleReceiveFinalizedTransfer, ReceiverSetRegistry,
     ReceiverRecoverTokens

-----------------------------------------------------------------------------
(* All of them next to each other.  A step of one market is quiet to the   *)
(* others: it takes nothing from their addresses, pays nothing into those  *)
(* that keep books, and leaves their variables alone.                      *)

MarketsInv ==
  /\ BaseInv
  /\ FuturesInv /\ FuturesBooks
  /\ SubscriptionInv
  /\ LoanInv
  /\ DisputeInv
  /\ QualityInv
  /\ MintsSound

(* What the others see of a step that moves the money of the addresses S.  *)
Progress(S) == BaseInv' /\ CallsGrow /\ Quiet(S) /\ now' \in {now, now + 1}

LEMMA ClockMoves ==
  ASSUME NEW S, BaseInv, Progress(S)
  PROVE  now \in Nat /\ now' \in Nat /\ now <= now' /\ usdc \in Ledgers /\ usdc' \in Ledgers
BY DEF Progress, BaseInv, RegistryInv

LEMMA OtherFutures ==
  ASSUME NEW S, BaseInv, FuturesInv, FuturesBooks, Progress(S), UNCHANGED futuresVars,
         FuturesAddress \notin S
  PROVE  FuturesInv' /\ FuturesBooks'
<1>1. usdc'[FuturesAddress] = usdc[FuturesAddress]
  BY FuturesSizes DEF Progress, Quiet
<1>2. FuturesInv'
  BY DEF FuturesInv, FuturesTypeOK, HolderCovered, futuresVars, tradeVars
<1> QED
  BY <1>1, <1>2, FuturesUntouched

LEMMA OtherSubscriptions ==
  ASSUME NEW S, BaseInv, SubscriptionInv, Progress(S), UNCHANGED subscriptionVars,
         SubscriptionAddress \notin S
  PROVE  SubscriptionInv'
<1>1. usdc'[SubscriptionAddress] = usdc[SubscriptionAddress]
  BY SubSizes DEF Progress, Quiet
<1> QED
  BY <1>1, ClockMoves, SubscriptionsUntouched

LEMMA OtherLoans ==
  ASSUME NEW S, BaseInv, LoanInv, Progress(S), UNCHANGED loanVars,
         S \cap ({LoanAddress} \cup Vaults) = {}
  PROVE  LoanInv'
<1>1. \A a \in Vaults \cup {LoanAddress} : usdc'[a] >= usdc[a]
  BY LoanSizes DEF Progress, Quiet
<1> QED
  BY <1>1, ClockMoves, LoansUntouched

LEMMA OtherDisputes ==
  ASSUME NEW S, BaseInv, DisputeInv, Progress(S), UNCHANGED disputeVars, DisputeAddress \notin S
  PROVE  DisputeInv'
<1>1. usdc'[DisputeAddress] = usdc[DisputeAddress] /\ CallsGrow
  BY DisputePlace DEF Progress, Quiet
<1> QED
  BY <1>1, DisputesUntouched

LEMMA OtherQuality ==
  ASSUME NEW S, BaseInv, QualityInv, Progress(S), UNCHANGED qualityVars, QualityAddress \notin S
  PROVE  QualityInv'
<1>1. usdc'[QualityAddress] = usdc[QualityAddress]
  BY QualityPlace DEF Progress, Quiet
<1> QED
  BY <1>1, QualityUntouched

(* The addresses whose money a step of a market may move.                  *)
Own ==
  [market \in Names \cup {"none"} |->
     CASE market = "none" -> {PPC, Registry}
       [] market = "futures" -> {FuturesAddress}
       [] market = "subscription" -> {SubscriptionAddress}
       [] market = "loan" -> {LoanAddress} \cup Vaults
       [] market = "wallet" -> {PPC, WalletAddress}
       [] market = "dispute" -> {DisputeAddress, Registry}
       [] market = "quality" -> {QualityAddress, Registry}
       [] market = "receiver" -> {PPC, ReceiverAddress}
       [] market = "middleware" -> {PPC, MiddlewareAddress}
       [] market = "attestation" -> {}]

LEMMA OwnApart ==
  ASSUME NEW market \in Names \cup {"none"}
  PROVE  /\ market # "futures" => FuturesAddress \notin Own[market]
         /\ market # "subscription" => SubscriptionAddress \notin Own[market]
         /\ market # "loan" => Own[market] \cap ({LoanAddress} \cup Vaults) = {}
         /\ market # "dispute" => DisputeAddress \notin Own[market]
         /\ market # "quality" => QualityAddress \notin Own[market]
         /\ market # "wallet" => WalletAddress \notin Own[market]
         /\ market # "receiver" => ReceiverAddress \notin Own[market]
         /\ market # "middleware" => MiddlewareAddress \notin Own[market]
<1>1. LoanAddress \notin Vaults
  BY LoanSizes
<1> QED
  BY <1>1, MarketsAssumption, PayPerCallAssumption, RegistryAssumption, Places
     DEF Own, Names, Bookkeepers

LEMMA RegistryProgress ==
  ASSUME BaseInv, ((RegistryStep /\ UNCHANGED callVars) \/ SettlementStep)
  PROVE  Progress({PPC, Registry})
<1>1. CASE RegistryStep /\ UNCHANGED callVars
  <2>1. RegistryInv' /\ CountsKept /\ Quiet({Registry})
    BY <1>1, RegistryMoves DEF BaseInv
  <2>2. usdc'[PPC] = usdc[PPC]
    BY <2>1, Places DEF Quiet, Bookkeepers
  <2>3. BaseInv'
    BY <1>1, <2>1, <2>2, EscrowUntouched DEF BaseInv
  <2>4. CallsGrow
    BY <1>1, <2>1, <2>3, CallsStay
  <2>5. now' \in {now, now + 1}
    BY <1>1 DEF RegistryStep, SetPayPerCall, ProposePayPerCall, ExecutePayPerCall, AuthorizeSlasher,
       RevokeSlasher, Register, Deactivate, Unstake, UpdatePrice, UpdateMaxConcurrentCalls,
       SetZkTier, Slash, Tick
  <2> QED
    BY <2>1, <2>3, <2>4, <2>5 DEF Progress, Quiet
<1>2. CASE SettlementStep
  <2>1. now' = now
    BY <1>2 DEF SettlementStep, CallServiceFor, CallServiceWithAuthorization, CreateCall,
       SubmitReceipt, ClaimTimeout, Claim
  <2> QED
    BY <1>2, <2>1, SettlementMoves DEF Progress
<1> QED
  BY <1>1, <1>2

(* Whatever step is taken, the registry and the escrow stay sound, and     *)
(* the books of the market that took it.                                   *)
LEMMA StepProgress ==
  ASSUME MarketsInv, NEW market \in Names, StepOf(market)
  PROVE  /\ Progress(Own[market])
         /\ market = "futures" => FuturesInv' /\ FuturesBooks'
         /\ market = "subscription" => SubscriptionInv'
         /\ market = "loan" => LoanInv' /\ ShareStep
         /\ market = "dispute" => DisputeInv'
         /\ market = "quality" => QualityInv'
         /\ market = "receiver" => MintsSound'
<1>1. BaseInv /\ RegistryInv
  BY DEF MarketsInv, BaseInv
<1>2. CASE market = "futures"
  <2>1. FuturesStep /\ UNCHANGED callVars
    BY <1>2 DEF StepOf
  <2>2. /\ FuturesInv' /\ FuturesBooks' /\ Quiet({FuturesAddress})
        /\ UNCHANGED <<providers, now>> /\ now' = now
    BY <1>1, <2>1, FuturesMoves DEF MarketsInv
  <2>3. BaseInv' /\ CallsGrow
    BY <1>1, <2>1, <2>2, FuturesSizes, BaseQuiet
  <2> QED
    BY <1>2, <2>2, <2>3 DEF Progress, Own
<1>3. CASE market = "subscription"
  <2>1. SubscriptionStep /\ UNCHANGED callVars
    BY <1>3 DEF StepOf
  <2>2. /\ SubscriptionInv' /\ Quiet({SubscriptionAddress})
        /\ UNCHANGED <<providers, now>> /\ now' = now
    BY <1>1, <2>1, SubscriptionMoves DEF MarketsInv
  <2>3. BaseInv' /\ CallsGrow
    BY <1>1, <2>1, <2>2, SubSizes, BaseQuiet
  <2> QED
    BY <1>3, <2>2, <2>3 DEF Progress, Own
<1>4. CASE market = "loan"
  <2>1. LoanStep /\ UNCHANGED callVars
    BY <1>4 DEF StepOf
  <2>2. /\ LoanInv' /\ ShareStep /\ Quiet({LoanAddress} \cup Vaults)
        /\ UNCHANGED <<providers, now>> /\ now' = now
    BY <1>1, <2>1, LoanMoves DEF MarketsInv, LoanStepSound
  <2>3. Registry \notin {LoanAddress} \cup Vaults /\ PPC \notin {LoanAddress} \cup Vaults
    BY LoanSizes DEF Bookkeepers
  <2>4. BaseInv' /\ CallsGrow
    BY <1>1, <2>1, <2>2, <2>3, BaseQuiet
  <2> QED
    BY <1>4, <2>2, <2>4 DEF Progress, Own
<1>5. CASE market = "wallet"
  BY <1>1, <1>5, WalletMoves DEF StepOf, Progress, Own
<1>6. CASE market = "dispute"
  <2>1. DisputeStep
    BY <1>6 DEF StepOf
  <2>2. /\ BaseInv' /\ DisputeInv' /\ CallsGrow /\ Quiet({DisputeAddress, Registry}) /\ now' = now
    BY <1>1, <2>1, DisputeMoves DEF MarketsInv
  <2> QED
    BY <1>6, <2>2 DEF Progress, Own
<1>7. CASE market = "quality"
  <2>1. QualityStep /\ UNCHANGED callVars
    BY <1>7 DEF StepOf
  <2>2. QualityStepSound
    BY <1>1, <2>1, QualityMoves DEF MarketsInv
  <2> QED
    BY <1>7, <2>2 DEF QualityStepSound, Progress, Own
<1>8. CASE market = "receiver"
  <2>1. ReceiverStep /\ MintsSound
    BY <1>8 DEF StepOf, MarketsInv
  <2> QED
    BY <1>1, <1>8, <2>1, ReceiverMoves, MintsMove DEF Progress, Own
<1>9. CASE market = "middleware"
  BY <1>1, <1>9, MiddlewareMoves DEF StepOf, Progress, Own
<1>10. CASE market = "attestation"
  BY <1>1, <1>10, AttestationMoves DEF StepOf, Progress, Own
<1> QED
  BY <1>2, <1>3, <1>4, <1>5, <1>6, <1>7, <1>8, <1>9, <1>10 DEF Names

LEMMA MintsKept == ASSUME MintsSound, UNCHANGED receiverVars PROVE MintsSound'
BY DEF MintsSound, receiverVars

LEMMA MarketsStart == MarketsInit => MarketsInv
<1> SUFFICES ASSUME MarketsInit PROVE MarketsInv
  OBVIOUS
<1>1. /\ RegistryInit /\ CallInit /\ FuturesInit /\ SubscriptionInit /\ LoanInit
      /\ DisputeInit /\ QualityInit /\ ReceiverInit
  BY DEF MarketsInit
<1>2. BaseInv
  BY <1>1, RegistryStart, EscrowStart DEF BaseInv
<1>3. MintsSound
  BY <1>1 DEF ReceiverInit, MintsSound
<1> QED
  BY <1>1, <1>2, <1>3, InitCovered, FuturesStart, SubscriptionStart, LoanStart, DisputeStart,
     QualityStart DEF MarketsInv

(* The loans' shares keep their worth while the loans stand still.         *)
LEMMA SharesStand == ASSUME LoanInv, UNCHANGED loanVars PROVE ShareStep
<1>1. totalShares' = totalShares /\ totalAssets' = totalAssets /\ totalAssets \in Nat /\ SharesInv
  BY DEF loanVars, poolVars, LoanInv, SharesInv
<1> QED
  BY <1>1, PriceStays

LEMMA MarketsStep ==
  ASSUME MarketsInv, [MarketsNext]_contractVars
  PROVE  MarketsInv' /\ ShareStep
<1>1. ASSUME NEW market \in Names \cup {"none"}, Progress(Own[market]), Apart(market),
             market = "futures" => FuturesInv' /\ FuturesBooks',
             market = "subscription" => SubscriptionInv',
             market = "loan" => LoanInv' /\ ShareStep,
             market = "dispute" => DisputeInv',
             market = "quality" => QualityInv',
             market = "receiver" => MintsSound'
      PROVE  MarketsInv' /\ ShareStep
  <2> DEFINE S == Own[market]
  <2>1. Progress(S) /\ BaseInv
    BY <1>1 DEF MarketsInv
  <2>2. /\ market # "futures" => FuturesAddress \notin S
        /\ market # "subscription" => SubscriptionAddress \notin S
        /\ market # "loan" => S \cap ({LoanAddress} \cup Vaults) = {}
        /\ market # "dispute" => DisputeAddress \notin S
        /\ market # "quality" => QualityAddress \notin S
    BY <1>1, OwnApart
  <2> HIDE DEF S
  <2>3. FuturesInv' /\ FuturesBooks'
    BY <1>1, <2>1, <2>2, OtherFutures DEF Apart, MarketsInv
  <2>4. SubscriptionInv'
    BY <1>1, <2>1, <2>2, OtherSubscriptions DEF Apart, MarketsInv
  <2>5. LoanInv' /\ ShareStep
    BY <1>1, <2>1, <2>2, OtherLoans, SharesStand DEF Apart, MarketsInv
  <2>6. DisputeInv'
    BY <1>1, <2>1, <2>2, OtherDisputes DEF Apart, MarketsInv
  <2>7. QualityInv'
    BY <1>1, <2>1, <2>2, OtherQuality DEF Apart, MarketsInv
  <2>8. MintsSound'
    BY <1>1, MintsKept DEF Apart, MarketsInv
  <2>9. BaseInv'
    BY <2>1 DEF Progress
  <2> QED
    BY <2>3, <2>4, <2>5, <2>6, <2>7, <2>8, <2>9 DEF MarketsInv
<1>2. CASE ((RegistryStep /\ UNCHANGED callVars) \/ SettlementStep) /\ Apart("none")
  <2>1. Progress(Own["none"])
    BY <1>2, RegistryProgress DEF MarketsInv, Own
  <2> QED
    BY <1>1, <1>2, <2>1
<1>3. ASSUME NEW market \in Names, StepOf(market), Apart(market)
      PROVE  MarketsInv' /\ ShareStep
  BY <1>1, <1>3, StepProgress
<1>4. CASE UNCHANGED contractVars
  <2>1. /\ UNCHANGED registryVars /\ UNCHANGED callVars /\ now' = now
    BY <1>4 DEF contractVars, registryVars
  <2>2. Progress({PPC, Registry})
    BY <2>1, SideSetting DEF MarketsInv, Progress
  <2>3. Apart("none") /\ Progress(Own["none"])
    BY <1>4, <2>2 DEF contractVars, Apart, Own
  <2> QED
    BY <1>1, <2>3
<1> QED
  BY <1>2, <1>3, <1>4 DEF MarketsNext

LEMMA MarketsSound == MarketsInv => MarketsSolvent /\ StreamOnSchedule /\ HolderCovered
<1> SUFFICES ASSUME MarketsInv PROVE MarketsSolvent /\ StreamOnSchedule /\ HolderCovered
  OBVIOUS
<1>1. /\ BaseInv /\ FuturesInv /\ FuturesBooks /\ SubscriptionInv /\ LoanInv /\ DisputeInv
      /\ QualityInv /\ now \in Nat
  BY DEF MarketsInv, BaseInv, RegistryInv
<1>2. EscrowCovered
  BY <1>1 DEF BaseInv, RegistryInv, EscrowInv, CountersSound, EscrowCovered, OpenMoney, Stakes,
     CallsOf, Pending, Total
<1> QED
  BY <1>1, <1>2, FuturesCovered, SubscriptionSolvent, LoanCovered, DisputesCovered, QualityCovered
     DEF MarketsSolvent, FuturesInv

(* No contract of the v7 era spends money it does not have, in any order   *)
(* of the steps of all of them next to each other: deposits, payments,     *)
(* refunds, slashes and write-offs (PayPerCall.sol, SLAFutures.sol,        *)
(* Subscription.sol, ReputationLoan.sol, Dispute.sol, DisputeQuality.sol). *)
THEOREM MarketsStaySolvent == MarketsSpec => []MarketsSolvent
<1>1. MarketsInit => MarketsInv
  BY MarketsStart
<1>2. MarketsInv /\ [MarketsNext]_contractVars => MarketsInv'
  BY MarketsStep
<1>3. MarketsInv => MarketsSolvent
  BY MarketsSound
<1> QED
  BY <1>1, <1>2, <1>3, PTL DEF MarketsSpec

(* A stream has paid its provider no more than the time that passed has    *)
(* earned it, whatever else goes on around the subscription                *)
(* (Subscription.sol).                                                     *)
THEOREM StreamsStayOnSchedule == MarketsSpec => []StreamOnSchedule
<1>1. MarketsInit => MarketsInv
  BY MarketsStart
<1>2. MarketsInv /\ [MarketsNext]_contractVars => MarketsInv'
  BY MarketsStep
<1>3. MarketsInv => StreamOnSchedule
  BY MarketsSound
<1> QED
  BY <1>1, <1>2, <1>3, PTL DEF MarketsSpec

(* A share of the loan pool is never worth less than before, but for the   *)
(* write-off of a loan that matured (ReputationLoan.sol).                  *)
THEOREM SharesKeepTheirWorth == MarketsSpec => SharePriceNeverFalls
<1>1. MarketsInit => MarketsInv
  BY MarketsStart
<1>2. MarketsInv /\ [MarketsNext]_contractVars => MarketsInv'
  BY MarketsStep
<1>3. MarketsInv /\ [MarketsNext]_contractVars => [ShareStep]_<<poolVars, loans>>
  BY MarketsStep
<1>4. SharePriceNeverFalls <=> [][ShareStep]_<<poolVars, loans>>
  BY DEF SharePriceNeverFalls, ShareStep
<1> QED
  BY <1>1, <1>2, <1>3, <1>4, PTL DEF MarketsSpec

-----------------------------------------------------------------------------
(* The agent wallet: a stretch of time shorter than a day splits into two  *)
(* parts that lie in a day of the wallet each, and what was spent in a     *)
(* part is bounded by the limit one of its calls saw.                      *)

Costs(S) == Total([s \in S |-> s.amount], S)

From(t) == {s \in spendings : t <= s.at}

Between(t, u) == {s \in spendings : t <= s.at /\ s.at < u}

(* A call of the part had a limit that covers all of it.                   *)
Bounded(S) == S = {} \/ \E s \in S : Costs(S) <= s.limit

Spending == [call : Nat, at : Nat, amount : Nat, limit : Nat]

WalletTypeOK ==
  /\ wallet \in [dailyLimit : Nat, maxPerCall : Nat, spentToday : Nat, lastResetTime : Nat,
                 paused : BOOLEAN]
  /\ IsFiniteSet(spendings) /\ spendings \subseteq Spending
  /\ wallet.lastResetTime <= now
  /\ \A s \in spendings : s.call < nonce /\ s.at <= now /\ s.at < wallet.lastResetTime + Day

(* The stretch from t to u splits in two at k.                             *)
Splits(t, u) == \E k \in Nat : t <= k /\ k <= u /\ Bounded(Between(t, k)) /\ Bounded(Between(k, u))

WalletInv ==
  /\ WalletTypeOK
  /\ wallet.spentToday = Costs(From(wallet.lastResetTime))
  /\ \A t \in Nat : t >= wallet.lastResetTime => Bounded(From(t))
  /\ \A t \in Nat : t < wallet.lastResetTime /\ wallet.lastResetTime < t + Day =>
                      Bounded(Between(t, wallet.lastResetTime))
  /\ \A t \in Nat : Splits(t, t + Day)

LEMMA CostsNat ==
  ASSUME NEW S, IsFiniteSet(S), S \subseteq Spending
  PROVE  Costs(S) \in Nat
<1> DEFINE f == [s \in S |-> s.amount]
<1>1. \A s \in S : f[s] \in Nat
  BY DEF Spending
<1> HIDE DEF f
<1>2. Total(f, S) \in Nat
  BY <1>1, TotalNat
<1> QED
  BY <1>2 DEF f, Costs

LEMMA CostsOfPart ==
  ASSUME NEW S, IsFiniteSet(S), S \subseteq Spending, NEW T, T \subseteq S
  PROVE  Costs(T) <= Costs(S) /\ Costs(T) \in Nat
<1> DEFINE f == [s \in S |-> s.amount]
           g == [s \in T |-> s.amount]
<1>1. (\A s \in S : f[s] \in Nat) /\ (\A s \in T : f[s] = g[s]) /\ IsFiniteSet(T)
  BY FS_Subset DEF Spending
<1> HIDE DEF f, g
<1>2. Total(f, T) \in Nat /\ Total(f, T) <= Total(f, S)
  BY <1>1, TotalSubset
<1>3. Total(f, T) = Total(g, T)
  BY <1>1, TotalSame
<1> QED
  BY <1>2, <1>3 DEF f, g, Costs

LEMMA CostsOfParts ==
  ASSUME NEW S, IsFiniteSet(S), S \subseteq Spending, NEW T, IsFiniteSet(T), T \subseteq Spending,
         S \cap T = {}
  PROVE  Costs(S \cup T) = Costs(S) + Costs(T)
<1> DEFINE U == S \cup T
           f == [s \in U |-> s.amount]
           g == [s \in S |-> s.amount]
           h == [s \in T |-> s.amount]
<1>1. /\ (\A s \in U : f[s] \in Nat) /\ (\A s \in S : f[s] = g[s]) /\ (\A s \in T : f[s] = h[s])
  BY DEF Spending
<1> HIDE DEF f, g, h
<1>2. Total(f, S \cup T) = Total(f, S) + Total(f, T)
  BY <1>1, TotalParts
<1>3. Total(f, S) = Total(g, S) /\ Total(f, T) = Total(h, T)
  BY <1>1, TotalSame
<1> QED
  BY <1>2, <1>3 DEF f, g, h, U, Costs

LEMMA CostsWithNew ==
  ASSUME NEW S, IsFiniteSet(S), S \subseteq Spending, NEW s \in Spending, s \notin S
  PROVE  Costs(S \cup {s}) = Costs(S) + s.amount
<1>1. IsFiniteSet({s}) /\ {s} \subseteq Spending /\ S \cap {s} = {}
  BY FS_Singleton
<1>2. Costs({s}) = s.amount
  <2> DEFINE f == [x \in {s} |-> x.amount]
  <2>1. f[s] = s.amount /\ s.amount \in Nat
    BY DEF Spending
  <2> HIDE DEF f
  <2>2. Total(f, {s}) = f[s]
    BY <2>1, TotalSingle
  <2> QED
    BY <2>1, <2>2 DEF f, Costs
<1> QED
  BY <1>1, <1>2, CostsOfParts

(* What the property says of the stretches that split.                     *)
LEMMA SplitBound ==
  ASSUME WalletInv, NEW t \in Nat, NEW highest \in Nat,
         \A s \in Between(t, t + Day) : s.limit <= highest
  PROVE  Costs(Between(t, t + Day)) <= 2 * highest
<1>1. PICK k \in Nat : /\ t <= k /\ k <= t + Day
                       /\ Bounded(Between(t, k)) /\ Bounded(Between(k, t + Day))
  BY DEF WalletInv, Splits
<1>2. Day \in Nat /\ IsFiniteSet(spendings) /\ spendings \subseteq Spending
      /\ \A s \in spendings : s.at \in Nat /\ s.limit \in Nat
  BY WalletAssumption DEF WalletInv, WalletTypeOK, Spending
<1> DEFINE A == Between(t, k)
           B == Between(k, t + Day)
<1>3. /\ A \subseteq spendings /\ B \subseteq spendings /\ A \cap B = {}
      /\ A \cup B = Between(t, t + Day)
  BY <1>1, <1>2 DEF Between
<1>4. IsFiniteSet(A) /\ IsFiniteSet(B) /\ A \subseteq Spending /\ B \subseteq Spending
  BY <1>2, <1>3, FS_Subset
<1>5. ASSUME NEW S, S = A \/ S = B PROVE Costs(S) <= highest /\ Costs(S) \in Nat
  <2>1. Bounded(S) /\ IsFiniteSet(S) /\ S \subseteq Spending /\ S \subseteq Between(t, t + Day)
    BY <1>1, <1>3, <1>4, <1>5
  <2>2. Costs(S) \in Nat
    BY <2>1, CostsNat
  <2>3. CASE S = {}
    <3>1. Costs({}) = 0
      BY TotalEmpty DEF Costs
    <3> QED
      BY <2>2, <2>3, <3>1
  <2>4. CASE S # {}
    <3>1. PICK s \in S : Costs(S) <= s.limit
      BY <2>1, <2>4 DEF Bounded
    <3>2. s.limit <= highest /\ s.limit \in Nat
      BY <1>2, <1>3, <2>1 DEF Between
    <3> QED
      BY <2>2, <3>1, <3>2
  <2> QED
    BY <2>3, <2>4
<1> HIDE DEF A, B
<1>6. Costs(A \cup B) = Costs(A) + Costs(B)
  BY <1>3, <1>4, CostsOfParts
<1>7. Costs(A) <= highest /\ Costs(B) <= highest /\ Costs(A) \in Nat /\ Costs(B) \in Nat
  BY <1>5
<1>8. Costs(A) + Costs(B) <= 2 * highest
  BY <1>7
<1> QED
  BY <1>3, <1>6, <1>8

LEMMA WalletBound == ASSUME WalletInv PROVE SpendWithinTwoLimits
<1> SUFFICES ASSUME NEW t \in Time, NEW highest \in Limits,
                    \A s \in Between(t, t + Day) : s.limit <= highest
             PROVE  Costs(Between(t, t + Day)) <= 2 * highest
  BY DEF SpendWithinTwoLimits, Between, Costs, Total
<1>1. t \in Nat /\ highest \in Nat
  BY RegistryAssumption, WalletAssumption
<1> QED
  BY <1>1, SplitBound

LEMMA Nothing == Costs({}) = 0 /\ Bounded({})
BY TotalEmpty DEF Costs, Bounded

LEMMA WalletStart == MarketsInit => WalletInv
<1> SUFFICES ASSUME MarketsInit PROVE WalletInv
  OBVIOUS
<1>1. WalletInit /\ now = 0 /\ nonce = 0 /\ spendings = {} /\ IsFiniteSet({})
  BY FS_EmptySet DEF MarketsInit, WalletInit, RegistryInit, CallInit
<1>2. PICK daily \in Limits, perCall \in Limits :
        wallet = [dailyLimit |-> daily, maxPerCall |-> perCall, spentToday |-> 0,
                  lastResetTime |-> now, paused |-> FALSE]
  BY <1>1 DEF WalletInit
<1>3. /\ wallet.lastResetTime = 0 /\ wallet.spentToday = 0
      /\ wallet \in [dailyLimit : Nat, maxPerCall : Nat, spentToday : Nat, lastResetTime : Nat,
                     paused : BOOLEAN]
  BY <1>1, <1>2, WalletAssumption
<1>4. WalletTypeOK
  BY <1>1, <1>3, WalletAssumption DEF WalletTypeOK
<1>5. \A t, u : From(t) = {} /\ Between(t, u) = {}
  BY <1>1 DEF From, Between
<1>6. ASSUME NEW t \in Nat PROVE Splits(t, t + Day)
  <2>1. t <= t /\ t <= t + Day
    BY WalletAssumption
  <2> QED
    BY <1>5, <2>1, Nothing DEF Splits
<1> QED
  BY <1>3, <1>4, <1>5, <1>6, Nothing DEF WalletInv

(* Steps that make no call of the wallet's.                                *)
LEMMA WalletStands ==
  ASSUME WalletInv, spendings' = spendings,
         wallet' \in [dailyLimit : Nat, maxPerCall : Nat, spentToday : Nat, lastResetTime : Nat,
                      paused : BOOLEAN],
         wallet'.spentToday = wallet.spentToday, wallet'.lastResetTime = wallet.lastResetTime,
         now \in Nat, now' \in Nat, now <= now', nonce \in Nat, nonce' \in Nat, nonce <= nonce'
  PROVE  WalletInv'
<1>1. WalletTypeOK'
  <2>1. wallet.lastResetTime \in Nat /\ \A s \in spendings : s.call \in Nat /\ s.at \in Nat
    BY DEF WalletInv, WalletTypeOK, Spending
  <2> QED
    BY <2>1 DEF WalletInv, WalletTypeOK
<1>2. \A t, u : From(t)' = From(t) /\ Between(t, u)' = Between(t, u)
  BY DEF From, Between
<1>3. \A t, u : Splits(t, u)' = Splits(t, u)
  BY <1>2 DEF Splits
<1> QED
  BY <1>1, <1>2, <1>3 DEF WalletInv

LEMMA WalletUntouched ==
  ASSUME NEW S, BaseInv, WalletInv, Progress(S), UNCHANGED walletVars
  PROVE  WalletInv'
<1>1. now \in Nat /\ now' \in Nat /\ now <= now'
  BY ClockMoves
<1>2. nonce \in Nat /\ nonce' \in Nat /\ nonce <= nonce'
  BY DEF Progress, CallsGrow, BaseInv, EscrowInv, CallsSound
<1>3. wallet' = wallet /\ spendings' = spendings
  BY DEF walletVars
<1> QED
  BY <1>1, <1>2, <1>3, WalletStands DEF WalletInv, WalletTypeOK

LEMMA AgentCallBooks ==
  ASSUME BaseInv, BaseInv', WalletInv, NEW p \in Providers, NEW amount, AgentCall(p, amount)
  PROVE  WalletInv'
<1> DEFINE today == ResetDailyIfNeeded(wallet)
           L == wallet.lastResetTime
           new == [call |-> nonce, at |-> now, amount |-> amount, limit |-> wallet.dailyLimit]
           Kind == [dailyLimit : Nat, maxPerCall : Nat, spentToday : Nat, lastResetTime : Nat,
                    paused : BOOLEAN]
<1>0. PICK M : M = wallet'.lastResetTime
  OBVIOUS
<1>1. /\ today.spentToday + amount <= wallet.dailyLimit /\ amount = providers[p].price
      /\ wallet' = [today EXCEPT !.spentToday = @ + amount]
      /\ spendings' = spendings \cup {new} /\ nonce' = nonce + 1 /\ now' = now
  BY DEF AgentCall, CallServiceFor, CreateCall
<1>2. /\ wallet \in Kind /\ L \in Nat /\ wallet.dailyLimit \in Nat /\ wallet.spentToday \in Nat
      /\ IsFiniteSet(spendings) /\ spendings \subseteq Spending /\ L <= now
      /\ \A s \in spendings : /\ s.call < nonce /\ s.at <= now /\ s.at < L + Day
                              /\ s.at \in Nat /\ s.call \in Nat
  BY DEF WalletInv, WalletTypeOK, Spending
<1>3. now \in Nat /\ nonce \in Nat /\ amount \in Nat /\ Day \in Nat \ {0}
  BY <1>1, WalletAssumption DEF BaseInv, RegistryInv, EscrowInv, CallsSound, Provider
<1>4. /\ today \in Kind
      /\ today.spentToday = IF now >= L + Day THEN 0 ELSE wallet.spentToday
      /\ today.lastResetTime = IF now >= L + Day THEN now ELSE L
  BY <1>2, <1>3 DEF ResetDailyIfNeeded
<1>5. /\ wallet' \in Kind /\ M = today.lastResetTime /\ M = wallet'.lastResetTime
      /\ wallet'.spentToday = today.spentToday + amount
  <2>1. today.spentToday + amount \in Nat
    BY <1>3, <1>4
  <2> HIDE DEF today
  <2> QED
    BY <1>0, <1>1, <1>4, <2>1
<1>6. new \in Spending /\ new \notin spendings
      /\ new.at = now /\ new.amount = amount /\ new.limit = wallet.dailyLimit /\ new.call = nonce
  BY <1>2, <1>3 DEF Spending
<1> HIDE DEF today, new
<1>7. M \in Nat /\ L <= M /\ M <= now /\ now < M + Day /\ (M = L \/ (M = now /\ L + Day <= now))
  BY <1>2, <1>3, <1>4, <1>5
<1>8. today.spentToday = Costs(From(M))
  <2>1. CASE now >= L + Day
    <3>1. From(M) = {}
      BY <1>2, <1>3, <1>4, <1>5, <2>1 DEF From
    <3> QED
      BY <1>4, <2>1, <3>1, Nothing
  <2>2. CASE ~(now >= L + Day)
    BY <1>4, <1>5, <2>2 DEF WalletInv
  <2> QED
    BY <2>1, <2>2
<1>9. ASSUME NEW t \in Nat, t <= now
      PROVE  /\ From(t)' = From(t) \cup {new} /\ From(t) \subseteq spendings
             /\ From(t)' \subseteq Spending /\ IsFiniteSet(From(t)')
             /\ Costs(From(t)') = Costs(From(t)) + amount /\ Costs(From(t)) \in Nat
  <2>1. From(t)' = From(t) \cup {new} /\ From(t) \subseteq spendings
    BY <1>1, <1>6, <1>9 DEF From
  <2>2. IsFiniteSet(From(t)) /\ From(t) \subseteq Spending /\ new \notin From(t)
    BY <1>2, <1>6, <2>1, FS_Subset
  <2>3. IsFiniteSet(From(t) \cup {new})
    BY <2>2, FS_AddElement
  <2>4. Costs(From(t) \cup {new}) = Costs(From(t)) + new.amount
    BY <1>6, <2>2, CostsWithNew
  <2> QED
    BY <1>6, <2>1, <2>2, <2>3, <2>4, CostsNat
<1>10. wallet'.spentToday = Costs(From(M)') /\ wallet'.spentToday <= wallet.dailyLimit
  BY <1>1, <1>5, <1>7, <1>8, <1>9
<1>11. ASSUME NEW t \in Nat, t >= M PROVE Bounded(From(t)')
  <2>1. CASE t <= now
    <3>1. From(t)' \subseteq From(M)' /\ new \in From(t)'
      BY <1>1, <1>2, <1>6, <1>7, <1>9, <1>11, <2>1 DEF From
    <3>2. Costs(From(t)') <= Costs(From(M)') /\ Costs(From(t)') \in Nat /\ Costs(From(M)') \in Nat
      <4>1. PICK A, B : A = From(t)' /\ B = From(M)'
        OBVIOUS
      <4>2. A \subseteq B /\ B \subseteq Spending /\ IsFiniteSet(B)
        BY <1>7, <1>9, <3>1, <4>1
      <4>3. Costs(A) <= Costs(B) /\ Costs(A) \in Nat
        BY ONLY <4>2, CostsOfPart
      <4>4. Costs(B) \in Nat
        BY <4>2, CostsNat
      <4> QED
        BY <4>1, <4>3, <4>4
    <3>3. Costs(From(t)') <= new.limit
      BY <1>2, <1>6, <1>10, <3>2
    <3> QED
      BY <3>1, <3>3 DEF Bounded
  <2>2. CASE ~(t <= now)
    <3>1. From(t)' = {}
      BY <1>1, <1>2, <1>3, <1>6, <2>2 DEF From
    <3> QED
      BY <3>1, Nothing
  <2> QED
    BY <2>1, <2>2
<1>12. ASSUME NEW t \in Nat, t < M, M < t + Day PROVE Bounded(Between(t, M)')
  <2>1. Between(t, M)' = Between(t, M)
    BY <1>1, <1>2, <1>3, <1>6, <1>7 DEF Between
  <2>2. CASE M = L
    BY <1>12, <2>1, <2>2 DEF WalletInv
  <2>3. CASE M = now /\ L + Day <= now
    <3>1. Between(t, M) = From(t)
      BY <1>2, <1>3, <2>3 DEF Between, From
    <3>2. t >= L
      BY <1>2, <1>3, <1>12, <2>3
    <3> QED
      BY <2>1, <3>1, <3>2 DEF WalletInv
  <2> QED
    BY <1>7, <2>2, <2>3
<1>13. ASSUME NEW t \in Nat PROVE Splits(t, t + Day)'
  <2>1. CASE now < t \/ t + Day <= now
    <3>1. PICK k \in Nat : /\ t <= k /\ k <= t + Day
                           /\ Bounded(Between(t, k)) /\ Bounded(Between(k, t + Day))
      BY DEF WalletInv, Splits
    <3>2. Between(t, k)' = Between(t, k) /\ Between(k, t + Day)' = Between(k, t + Day)
      BY <1>1, <1>2, <1>3, <1>6, <2>1, <3>1 DEF Between
    <3> QED
      BY <3>1, <3>2 DEF Splits
  <2>2. CASE t <= now /\ now < t + Day
    <3>1. ASSUME NEW k \in Nat, k >= M, k >= t PROVE Bounded(Between(k, t + Day)')
      <4>1. Between(k, t + Day)' = From(k)'
        BY <1>1, <1>2, <1>3, <1>6, <2>2 DEF Between, From
      <4> QED
        BY <1>11, <3>1, <4>1
    <3>2. CASE t < M
      <4>1. t <= M /\ M <= t + Day /\ M < t + Day
        BY <1>3, <1>7, <2>2, <3>2
      <4>2. Bounded(Between(t, M)') /\ Bounded(Between(M, t + Day)')
        BY <1>7, <1>12, <3>1, <3>2, <4>1
      <4> QED
        BY <1>7, <4>1, <4>2 DEF Splits
    <3>3. CASE ~(t < M)
      <4>1. t <= t + Day /\ t >= M
        BY <1>3, <1>7, <3>3
      <4>2. Between(t, t)' = {}
        BY <1>1, <1>2, <1>3, <1>6 DEF Between
      <4>3. Bounded(Between(t, t)') /\ Bounded(Between(t, t + Day)')
        BY <3>1, <4>1, <4>2, Nothing
      <4> QED
        BY <4>1, <4>3 DEF Splits
    <3> QED
      BY <3>2, <3>3
  <2> QED
    BY <1>3, <2>1, <2>2
<1>14. WalletTypeOK'
  <2>1. IsFiniteSet(spendings') /\ spendings' \subseteq Spending
    BY <1>1, <1>2, <1>6, FS_AddElement
  <2>2. \A s \in spendings' : s.call < nonce' /\ s.at <= now' /\ s.at < M + Day
    BY <1>1, <1>2, <1>3, <1>6, <1>7
  <2> QED
    BY <1>1, <1>5, <1>7, <2>1, <2>2 DEF WalletTypeOK
<1> HIDE DEF L, Kind
<1>15. M = wallet'.lastResetTime
  BY <1>5
<1>16. (\A t \in Nat : t >= wallet.lastResetTime => Bounded(From(t)))'
  BY <1>11, <1>15
<1>17. (\A t \in Nat : t < wallet.lastResetTime /\ wallet.lastResetTime < t + Day =>
                        Bounded(Between(t, wallet.lastResetTime)))'
  BY <1>12, <1>15 DEF Between
<1>18. (wallet.spentToday = Costs(From(wallet.lastResetTime)))'
  BY <1>10, <1>15 DEF From
<1> QED
  BY <1>13, <1>14, <1>16, <1>17, <1>18 DEF WalletInv

LEMMA WalletBooks ==
  ASSUME BaseInv, BaseInv', WalletInv, WalletStep
  PROVE  WalletInv'
<1>1. /\ now \in Nat /\ nonce \in Nat
      /\ wallet \in [dailyLimit : Nat, maxPerCall : Nat, spentToday : Nat, lastResetTime : Nat,
                     paused : BOOLEAN]
  BY DEF BaseInv, RegistryInv, EscrowInv, CallsSound, WalletInv, WalletTypeOK
<1>2. ASSUME NEW amount \in TopUps, WalletDeposit(amount) \/ WalletWithdraw(amount)
      PROVE  WalletInv'
  BY <1>1, <1>2, WalletStands DEF WalletDeposit, WalletWithdraw, callVars, walletVars
<1>3. ASSUME NEW limit \in Limits, SetDailyLimit(limit) \/ SetMaxPerCall(limit)
      PROVE  WalletInv'
  <2>1. limit \in Nat /\ spendings' = spendings /\ now' = now /\ nonce' = nonce
    BY <1>3, WalletAssumption DEF SetDailyLimit, SetMaxPerCall, registryVars, callVars
  <2>2. /\ wallet' \in [dailyLimit : Nat, maxPerCall : Nat, spentToday : Nat, lastResetTime : Nat,
                        paused : BOOLEAN]
        /\ wallet'.spentToday = wallet.spentToday /\ wallet'.lastResetTime = wallet.lastResetTime
    BY <1>1, <1>3, <2>1 DEF SetDailyLimit, SetMaxPerCall
  <2> QED
    BY <1>1, <2>1, <2>2, WalletStands
<1>4. ASSUME NEW q \in Providers, AddToWhitelist(q) \/ RemoveFromWhitelist(q)
      PROVE  WalletInv'
  BY <1>1, <1>4, WalletStands DEF AddToWhitelist, RemoveFromWhitelist, registryVars, callVars
<1>5. ASSUME NEW paused \in BOOLEAN, Pause(paused)
      PROVE  WalletInv'
  <2>1. /\ spendings' = spendings /\ now' = now /\ nonce' = nonce
        /\ wallet' \in [dailyLimit : Nat, maxPerCall : Nat, spentToday : Nat, lastResetTime : Nat,
                        paused : BOOLEAN]
        /\ wallet'.spentToday = wallet.spentToday /\ wallet'.lastResetTime = wallet.lastResetTime
    BY <1>1, <1>5 DEF Pause, registryVars, callVars
  <2> QED
    BY <1>1, <2>1, WalletStands
<1> QED
  BY <1>2, <1>3, <1>4, <1>5, AgentCallBooks DEF WalletStep

(* Every step is a step of one market, and of the registry and the escrow  *)
(* what Progress says.                                                     *)
LEMMA AnyStep ==
  ASSUME MarketsInv, [MarketsNext]_contractVars
  PROVE  \E market \in Names \cup {"none"} :
           Progress(Own[market]) /\ Apart(market) /\ (market # "none" => StepOf(market))
<1>1. CASE ((RegistryStep /\ UNCHANGED callVars) \/ SettlementStep) /\ Apart("none")
  BY <1>1, RegistryProgress DEF MarketsInv, Own
<1>2. ASSUME NEW market \in Names, StepOf(market), Apart(market)
      PROVE  Progress(Own[market]) /\ Apart(market) /\ StepOf(market)
  BY <1>2, StepProgress
<1>3. CASE UNCHANGED contractVars
  <2>1. /\ UNCHANGED registryVars /\ UNCHANGED callVars /\ now' = now
    BY <1>3 DEF contractVars, registryVars
  <2>2. Progress({PPC, Registry})
    BY <2>1, SideSetting DEF MarketsInv, Progress
  <2>3. Apart("none") /\ Progress(Own["none"])
    BY <1>3, <2>2 DEF contractVars, Apart, Own
  <2> QED
    BY <2>3
<1> QED
  BY <1>1, <1>2, <1>3 DEF MarketsNext

LEMMA WalletNext ==
  ASSUME MarketsInv, WalletInv, [MarketsNext]_contractVars
  PROVE  WalletInv'
<1>1. PICK market \in Names \cup {"none"} :
        Progress(Own[market]) /\ Apart(market) /\ (market # "none" => StepOf(market))
  BY AnyStep
<1>2. BaseInv /\ BaseInv'
  BY <1>1 DEF Progress, MarketsInv
<1>3. CASE market = "wallet"
  <2>1. WalletStep
    BY <1>1, <1>3 DEF StepOf
  <2> QED
    BY <1>2, <2>1, WalletBooks
<1>4. CASE market # "wallet"
  <2>1. UNCHANGED walletVars
    BY <1>1, <1>4 DEF Apart
  <2> QED
    BY <1>1, <1>2, <2>1, WalletUntouched
<1> QED
  BY <1>3, <1>4

(* In no stretch of a day does an agent spend more through its wallet than *)
(* twice the highest daily limit its calls of that day saw, whenever the   *)
(* day of the wallet began (AgentWallet.sol).                              *)
THEOREM WalletsKeepToTheirLimit == MarketsSpec => []SpendWithinTwoLimits
<1>1. MarketsInit => MarketsInv /\ WalletInv
  BY MarketsStart, WalletStart
<1>2. MarketsInv /\ WalletInv /\ [MarketsNext]_contractVars => MarketsInv' /\ WalletInv'
  BY MarketsStep, WalletNext
<1>3. WalletInv => SpendWithinTwoLimits
  BY WalletBound
<1> QED
  BY <1>1, <1>2, <1>3, PTL DEF MarketsSpec

-----------------------------------------------------------------------------
(* The cross-chain entry: a processed message has opened one call, and the *)
(* contract still holds what is left of every message that arrived.        *)

CallOf(m) == CHOOSE c \in CallIds : delivered[m] = {c}

Spent(m) == IF m \in processedMessages THEN calls[CallOf(m)].amount ELSE 0

Held == [m \in MessageIds |-> minted[m].amount - Spent(m)]

(* The call of a processed message is its caller's, and its money's.       *)
Opened(m) ==
  /\ delivered[m] = {CallOf(m)} /\ CallOf(m) \in CallIds
  /\ calls[CallOf(m)].status # "None"
  /\ calls[CallOf(m)].caller = minted[m].caller
  /\ calls[CallOf(m)].amount <= minted[m].amount

ReceiverInv ==
  /\ MintsSound
  /\ processedMessages \subseteq MessageIds /\ recovered \in Nat
  /\ delivered \in [MessageIds -> SUBSET CallIds]
  /\ \A m \in MessageIds \ processedMessages : delivered[m] = {}
  /\ \A m \in processedMessages : Arrived(m) /\ Opened(m)
  /\ \A m, n \in MessageIds : m # n => delivered[m] \cap delivered[n] = {}
  /\ usdc[ReceiverAddress] + recovered >= Total(Held, MessageIds)

LEMMA MessageAmounts ==
  ASSUME MintsSound, NEW m \in MessageIds
  PROVE  /\ minted[m].amount \in Nat /\ (~Arrived(m) => minted[m].amount = 0)
         /\ Arrived(m) => minted[m] \in Messages /\ minted[m].provider \in Providers
                          /\ minted[m].caller \in Accounts
BY ReceiverAssumption DEF MintsSound, Arrived, NoMessage

LEMMA HeldMoney ==
  ASSUME BaseInv, ReceiverInv, NEW m \in MessageIds
  PROVE  /\ Held[m] \in Nat /\ Spent(m) \in Nat /\ Held[m] = minted[m].amount - Spent(m)
         /\ (m \notin processedMessages => Held[m] = minted[m].amount)
<1>1. minted[m].amount \in Nat
  BY MessageAmounts DEF ReceiverInv
<1>2. Spent(m) \in Nat /\ Spent(m) <= minted[m].amount
  <2>1. CASE m \in processedMessages
    <3>1. Opened(m)
      BY <2>1 DEF ReceiverInv
    <3>2. calls[CallOf(m)].amount \in Nat
      BY <3>1 DEF Opened, BaseInv, EscrowInv, CallsSound, Call
    <3> QED
      BY <2>1, <3>1, <3>2 DEF Opened, Spent
  <2>2. CASE m \notin processedMessages
    BY <1>1, <2>2 DEF Spent
  <2> QED
    BY <2>1, <2>2
<1>3. m \notin processedMessages => Spent(m) = 0
  BY DEF Spent
<1>4. Held[m] = minted[m].amount - Spent(m)
  BY DEF Held
<1> QED
  BY <1>1, <1>2, <1>3, <1>4

LEMMA ReceiverStart == MarketsInit => ReceiverInv
<1> SUFFICES ASSUME MarketsInit PROVE ReceiverInv
  OBVIOUS
<1>1. ReceiverInit /\ usdc \in Ledgers /\ ReceiverAddress \in Addresses
  BY RegistryStart, Places, ReceiverAssumption DEF MarketsInit, RegistryInv
<1>2. /\ MintsSound /\ processedMessages = {} /\ recovered = 0
      /\ delivered = [m \in MessageIds |-> {}]
  BY <1>1 DEF ReceiverInit, MintsSound
<1>3. \A m \in MessageIds : Held[m] = 0
  BY <1>1, <1>2 DEF ReceiverInit, Held, Spent, NoMessage
<1>4. Total(Held, MessageIds) = 0
  BY <1>3, ReceiverAssumption, TotalZero
<1>5. usdc[ReceiverAddress] \in Nat
  BY <1>1 DEF Ledgers
<1> QED
  BY <1>2, <1>4, <1>5 DEF ReceiverInv

(* Nothing is delivered, and what the contract holds and has given back    *)
(* does not fall.                                                          *)
LEMMA ReceiverStands ==
  ASSUME BaseInv, ReceiverInv, CallsGrow,
         UNCHANGED <<minted, processedMessages, delivered>>, recovered' \in Nat,
         usdc[ReceiverAddress] \in Nat, usdc'[ReceiverAddress] \in Nat,
         usdc'[ReceiverAddress] + recovered' >= usdc[ReceiverAddress] + recovered
  PROVE  ReceiverInv'
<1>1. \A m \in MessageIds : CallOf(m)' = CallOf(m)
  BY DEF CallOf
<1>2. ASSUME NEW m \in processedMessages
      PROVE  /\ Opened(m)' /\ Arrived(m)'
             /\ calls'[CallOf(m)].amount = calls[CallOf(m)].amount
  <2>1. Opened(m) /\ Arrived(m) /\ m \in MessageIds
    BY DEF ReceiverInv
  <2>2. /\ calls'[CallOf(m)].caller = calls[CallOf(m)].caller
        /\ calls'[CallOf(m)].amount = calls[CallOf(m)].amount
        /\ calls'[CallOf(m)].status # "None"
    BY <2>1 DEF Opened, CallsGrow
  <2> QED
    BY <1>1, <2>1, <2>2 DEF Opened, Arrived
<1>3. \A m \in MessageIds : Spent(m)' = Spent(m)
  BY <1>1, <1>2 DEF Spent
<1>4. Held' = Held
  BY <1>3 DEF Held
<1>5. Total(Held, MessageIds)' = Total(Held, MessageIds)
  BY <1>4
<1>6. Total(Held, MessageIds) \in Nat
  <2>1. \A m \in MessageIds : Held[m] \in Nat
    BY HeldMoney
  <2> QED
    BY <2>1, ReceiverAssumption, TotalNat
<1>7. usdc'[ReceiverAddress] + recovered' >= Total(Held, MessageIds)'
  <2>1. usdc[ReceiverAddress] + recovered >= Total(Held, MessageIds) /\ recovered \in Nat
    BY DEF ReceiverInv
  <2> QED
    BY <1>5, <1>6, <2>1
<1> QED
  BY <1>2, <1>7 DEF ReceiverInv, MintsSound

LEMMA ReceiverMints ==
  ASSUME BaseInv, ReceiverInv, NEW m \in MessageIds, NEW message \in Messages, CctpMint(m, message)
  PROVE  ReceiverInv'
<1>1. /\ ~Arrived(m) /\ CanPay(usdc, message.caller, message.amount)
      /\ usdc' = Transfer(usdc, message.caller, ReceiverAddress, message.amount)
      /\ minted' = [minted EXCEPT ![m] = message] /\ calls' = calls
      /\ processedMessages' = processedMessages /\ delivered' = delivered /\ recovered' = recovered
  BY DEF CctpMint, callVars
<1>2. /\ message.caller \in Accounts /\ message.amount \in Nat /\ message.provider \in Providers
      /\ usdc \in Ledgers /\ ReceiverAddress \in Contracts
  BY ReceiverAssumption DEF BaseInv, RegistryInv
<1>3. /\ usdc[ReceiverAddress] \in Nat /\ message.caller # ReceiverAddress
      /\ usdc'[ReceiverAddress] = usdc[ReceiverAddress] + message.amount
  <2>1. /\ message.caller \in Addresses /\ ReceiverAddress \in Addresses
        /\ message.caller # ReceiverAddress
    BY <1>2, RegistryAssumption DEF Addresses
  <2>2. usdc'[ReceiverAddress] = usdc[ReceiverAddress]
          - (IF ReceiverAddress = message.caller THEN message.amount ELSE 0)
          + (IF ReceiverAddress = ReceiverAddress THEN message.amount ELSE 0)
    BY <1>1, <1>2, <2>1, TransferLedger
  <2> QED
    BY <1>2, <2>1, <2>2 DEF Ledgers
<1>4. /\ MintsSound /\ MintsSound' /\ m \notin processedMessages
      /\ minted'[m] = message /\ \A n \in MessageIds \ {m} : minted'[n] = minted[n]
  BY <1>1 DEF ReceiverInv, MintsSound
<1>5. \A n \in MessageIds : CallOf(n)' = CallOf(n) /\ Spent(n)' = Spent(n)
  BY <1>1 DEF CallOf, Spent
<1>6. \A n \in processedMessages : Opened(n)' /\ Arrived(n)'
  BY <1>1, <1>4, <1>5 DEF ReceiverInv, Opened, Arrived
<1>7. /\ minted[m].amount = 0 /\ Spent(m) = 0 /\ Held[m] = 0 /\ Held'[m] = message.amount
      /\ \A n \in MessageIds \ {m} : Held'[n] = Held[n]
  <2>1. minted[m].amount = 0 /\ Spent(m) = 0
    BY <1>1, <1>4, MessageAmounts DEF Spent
  <2>2. Held'[m] = message.amount - Spent(m)' /\ Held[m] = minted[m].amount - Spent(m)
    BY <1>4 DEF Held
  <2>3. \A n \in MessageIds \ {m} : Held'[n] = Held[n]
    BY <1>4, <1>5 DEF Held
  <2> QED
    BY <1>2, <1>5, <2>1, <2>2, <2>3
<1>8. PICK old, new : old = Held /\ new = Held'
  OBVIOUS
<1>9. Total(new, MessageIds) = Total(old, MessageIds) - 0 + message.amount
  <2>1. \A n \in MessageIds : old[n] \in Nat
    BY <1>8, HeldMoney
  <2>2. /\ \A n \in MessageIds : old[n] \in Nat /\ new[n] \in Nat
        /\ \A n \in MessageIds \ {m} : new[n] = old[n]
        /\ old[m] = 0 /\ new[m] = message.amount /\ IsFiniteSet(MessageIds)
    BY <1>2, <1>7, <1>8, <2>1, ReceiverAssumption
  <2>3. Total(new, MessageIds) = Total(old, MessageIds) - old[m] + new[m]
    BY <2>2, TotalChange
  <2> QED
    BY <2>2, <2>3
<1>10. Total(old, MessageIds) \in Nat
  <2>1. \A n \in MessageIds : old[n] \in Nat
    BY <1>8, HeldMoney
  <2> QED
    BY <2>1, ReceiverAssumption, TotalNat
<1>11. usdc'[ReceiverAddress] + recovered' >= Total(new, MessageIds)
  <2>1. usdc[ReceiverAddress] + recovered >= Total(old, MessageIds) /\ recovered \in Nat
    BY <1>8 DEF ReceiverInv
  <2> QED
    BY <1>1, <1>2, <1>3, <1>9, <1>10, <2>1
<1> QED
  BY <1>1, <1>4, <1>6, <1>8, <1>11 DEF ReceiverInv

LEMMA ReceiverDelivers ==
  ASSUME BaseInv, ReceiverInv, NEW m \in MessageIds, HandleReceiveFinalizedTransfer(m)
  PROVE  ReceiverInv'
<1> DEFINE p == minted[m].provider
           price == providers[p].price
<1>1. /\ Arrived(m) /\ m \notin processedMessages /\ price <= minted[m].amount
      /\ CreateCall(usdc, p, minted[m].caller, ReceiverAddress)
      /\ processedMessages' = processedMessages \cup {m}
      /\ delivered' = [delivered EXCEPT ![m] = @ \cup {nonce}]
      /\ minted' = minted /\ recovered' = recovered
  BY DEF HandleReceiveFinalizedTransfer, CallServiceFor, Allows
<1>2. /\ p \in Providers /\ minted[m].caller \in Addresses /\ minted[m].amount \in Nat
      /\ delivered[m] = {} /\ delivered \in [MessageIds -> SUBSET CallIds] /\ MintsSound
      /\ usdc \in Ledgers /\ ReceiverAddress \in Addresses \ {PPC, Registry}
  BY <1>1, MessageAmounts, Places, ReceiverAssumption
     DEF ReceiverInv, BaseInv, RegistryInv, Bookkeepers, Addresses
<1>3. /\ BaseInv' /\ CallsGrow /\ nonce \in CallIds /\ calls[nonce] = NoCall /\ price \in Nat
      /\ calls' = [calls EXCEPT ![nonce] =
           [provider |-> p, caller |-> minted[m].caller, amount |-> price,
            deadline |-> now + providers[p].maxResponseTime, status |-> "Pending"]]
      /\ \A a \in Addresses : usdc'[a] = usdc[a] - (IF a = ReceiverAddress THEN price ELSE 0)
                                            + (IF a = PPC THEN price ELSE 0)
  <2> HIDE DEF p, price
  <2> QED
    BY <1>1, <1>2, CreateCallBase DEF price
<1>4. usdc'[ReceiverAddress] = usdc[ReceiverAddress] - price /\ usdc[ReceiverAddress] \in Nat
  BY <1>2, <1>3 DEF Ledgers
<1>5. /\ calls'[nonce].status = "Pending" /\ calls'[nonce].caller = minted[m].caller
      /\ calls'[nonce].amount = price /\ calls[nonce].status = "None"
  BY <1>3 DEF BaseInv, EscrowInv, CallsSound, NoCall
<1> HIDE DEF p, price
<1>6. delivered'[m] = {nonce} /\ \A n \in MessageIds \ {m} : delivered'[n] = delivered[n]
  BY <1>1, <1>2
<1>7. CallOf(m)' = nonce
  BY <1>3, <1>6 DEF CallOf
<1>8. \A n \in MessageIds \ {m} : CallOf(n)' = CallOf(n)
  BY <1>6 DEF CallOf
<1>9. Opened(m)' /\ Arrived(m)'
  BY <1>1, <1>3, <1>5, <1>6, <1>7 DEF Opened, Arrived
<1>10. ASSUME NEW n \in processedMessages
       PROVE  /\ Opened(n)' /\ Arrived(n)' /\ nonce \notin delivered[n]
              /\ calls'[CallOf(n)].amount = calls[CallOf(n)].amount
  <2>1. Opened(n) /\ Arrived(n) /\ n \in MessageIds \ {m}
    BY <1>1 DEF ReceiverInv
  <2>2. /\ calls'[CallOf(n)].caller = calls[CallOf(n)].caller
        /\ calls'[CallOf(n)].amount = calls[CallOf(n)].amount
        /\ calls'[CallOf(n)].status # "None"
    BY <1>3, <2>1 DEF Opened, CallsGrow
  <2>3. nonce # CallOf(n)
    BY <1>5, <2>1 DEF Opened
  <2> QED
    BY <1>1, <1>6, <1>8, <2>1, <2>2, <2>3 DEF Opened, Arrived
<1>11. \A n \in MessageIds \ {m} : nonce \notin delivered[n]
  BY <1>10 DEF ReceiverInv
<1>12. \A n, o \in MessageIds : n # o => delivered'[n] \cap delivered'[o] = {}
  BY <1>6, <1>11 DEF ReceiverInv
<1>13. /\ Held[m] = minted[m].amount /\ Held'[m] = minted[m].amount - price
       /\ \A n \in MessageIds \ {m} : Held'[n] = Held[n]
  <2>1. Spent(m)' = price
    BY <1>1, <1>5, <1>7 DEF Spent
  <2>2. \A n \in MessageIds \ {m} : Spent(n)' = Spent(n)
    BY <1>1, <1>8, <1>10 DEF Spent
  <2>3. Held[m] = minted[m].amount
    BY <1>1, HeldMoney
  <2> QED
    BY <1>1, <2>1, <2>2, <2>3 DEF Held
<1>14. PICK old, new : old = Held /\ new = Held'
  OBVIOUS
<1>15. \A n \in MessageIds : old[n] \in Nat
  BY <1>14, HeldMoney
<1>16. Total(new, MessageIds) = Total(old, MessageIds) - price
  <2>1. /\ \A n \in MessageIds : old[n] \in Nat /\ new[n] \in Nat
        /\ \A n \in MessageIds \ {m} : new[n] = old[n]
        /\ old[m] = minted[m].amount /\ new[m] = minted[m].amount - price
        /\ IsFiniteSet(MessageIds)
    BY <1>1, <1>2, <1>3, <1>13, <1>14, <1>15, ReceiverAssumption
  <2>2. Total(new, MessageIds) = Total(old, MessageIds) - old[m] + new[m]
    BY <2>1, TotalChange
  <2>3. Total(old, MessageIds) \in Nat
    BY <2>1, TotalNat
  <2> QED
    BY <1>2, <1>3, <2>1, <2>2, <2>3
<1>17. usdc'[ReceiverAddress] + recovered' >= Total(new, MessageIds)
  <2>1. usdc[ReceiverAddress] + recovered >= Total(old, MessageIds) /\ recovered \in Nat
    BY <1>14 DEF ReceiverInv
  <2>2. Total(old, MessageIds) \in Nat
    BY <1>15, ReceiverAssumption, TotalNat
  <2> QED
    BY <1>1, <1>3, <1>4, <1>16, <2>1, <2>2
<1>18. /\ processedMessages' \subseteq MessageIds /\ recovered' \in Nat /\ MintsSound'
       /\ delivered' \in [MessageIds -> SUBSET CallIds]
       /\ \A n \in MessageIds \ processedMessages' : delivered'[n] = {}
  BY <1>1, <1>2, <1>3, <1>6 DEF ReceiverInv, MintsSound
<1>19. \A n \in processedMessages' : Opened(n)' /\ Arrived(n)'
  BY <1>1, <1>9, <1>10
<1>20. usdc'[ReceiverAddress] + recovered' >= Total(Held, MessageIds)'
  BY <1>14, <1>17
<1> QED
  BY <1>12, <1>18, <1>19, <1>20 DEF ReceiverInv

LEMMA ReceiverNext ==
  ASSUME MarketsInv, ReceiverInv, [MarketsNext]_contractVars
  PROVE  ReceiverInv'
<1>1. PICK market \in Names \cup {"none"} :
        Progress(Own[market]) /\ Apart(market) /\ (market # "none" => StepOf(market))
  BY AnyStep
<1>2. /\ BaseInv /\ BaseInv' /\ CallsGrow /\ ReceiverAddress \in Contracts \ Bookkeepers
      /\ usdc[ReceiverAddress] \in Nat /\ usdc'[ReceiverAddress] \in Nat /\ recovered \in Nat
  BY <1>1, Places DEF Progress, MarketsInv, BaseInv, RegistryInv, Ledgers, ReceiverInv
<1>3. CASE market # "receiver"
  <2>1. UNCHANGED receiverVars
    BY <1>1, <1>3 DEF Apart
  <2>2. ReceiverAddress \notin Own[market]
    BY <1>1, <1>3, OwnApart
  <2>3. usdc'[ReceiverAddress] >= usdc[ReceiverAddress]
    BY <1>1, <1>2, <2>2 DEF Progress, Quiet
  <2>4. /\ UNCHANGED <<minted, processedMessages, delivered>> /\ recovered' \in Nat
        /\ usdc'[ReceiverAddress] + recovered' >= usdc[ReceiverAddress] + recovered
    BY <1>2, <2>1, <2>3 DEF receiverVars
  <2> QED
    BY <1>2, <2>4, ReceiverStands
<1>4. CASE market = "receiver"
  <2>1. ReceiverStep
    BY <1>1, <1>4 DEF StepOf
  <2>2. ASSUME NEW m \in MessageIds,
               HandleReceiveFinalizedTransfer(m) \/ \E message \in Messages : CctpMint(m, message)
        PROVE  ReceiverInv'
    BY <1>2, <2>2, ReceiverDelivers, ReceiverMints
  <2>3. ASSUME NEW wired \in BOOLEAN, ReceiverSetRegistry(wired)
        PROVE  ReceiverInv'
    <3>1. /\ UNCHANGED <<minted, processedMessages, delivered>> /\ recovered' \in Nat
          /\ usdc'[ReceiverAddress] + recovered' >= usdc[ReceiverAddress] + recovered
      BY <1>2, <2>3 DEF ReceiverSetRegistry, registryVars
    <3> QED
      BY <1>2, <3>1, ReceiverStands
  <2>4. ASSUME NEW amount \in RecoverAmounts, NEW to \in Accounts, ReceiverRecoverTokens(amount, to)
        PROVE  ReceiverInv'
    <3>1. /\ amount \in Nat /\ to \in Addresses /\ to # ReceiverAddress
          /\ ReceiverAddress \in Addresses /\ usdc \in Ledgers
      BY <1>2, ReceiverAssumption, RegistryAssumption DEF Addresses, BaseInv, RegistryInv
    <3>2. /\ CanPay(usdc, ReceiverAddress, amount) /\ recovered' = recovered + amount
          /\ usdc' = Transfer(usdc, ReceiverAddress, to, amount)
          /\ UNCHANGED <<minted, processedMessages, delivered>>
      BY <2>4 DEF ReceiverRecoverTokens
    <3>3. usdc'[ReceiverAddress] = usdc[ReceiverAddress]
            - (IF ReceiverAddress = ReceiverAddress THEN amount ELSE 0)
            + (IF ReceiverAddress = to THEN amount ELSE 0)
      BY <3>1, <3>2, TransferLedger
    <3>4. /\ recovered' \in Nat
          /\ usdc'[ReceiverAddress] + recovered' >= usdc[ReceiverAddress] + recovered
      BY <1>2, <3>1, <3>2, <3>3
    <3> QED
      BY <1>2, <3>2, <3>4, ReceiverStands
  <2> QED
    BY <2>1, <2>2, <2>3, <2>4 DEF ReceiverStep
<1> QED
  BY <1>3, <1>4

LEMMA MessagesSound == ASSUME BaseInv, ReceiverInv PROVE MessagesPayTheirOwn
<1> DEFINE waiting == {m \in MessageIds : Arrived(m) /\ m \notin processedMessages}
           amounts == [c \in CallIds |-> calls[c].amount]
           change == [m \in MessageIds |-> minted[m].amount - Total(amounts, delivered[m])]
           came == [m \in MessageIds |-> minted[m].amount]
<1>1. /\ MintsSound /\ processedMessages \in SUBSET MessageIds /\ waiting \in SUBSET MessageIds
      /\ processedMessages \cap waiting = {} /\ IsFiniteSet(MessageIds)
      /\ IsFiniteSet(processedMessages) /\ IsFiniteSet(waiting)
  BY ReceiverAssumption, FS_Subset DEF ReceiverInv
<1>2. \A m \in processedMessages : /\ Opened(m) /\ m \in MessageIds
                                   /\ Spent(m) = calls[CallOf(m)].amount /\ Spent(m) \in Nat
  BY HeldMoney DEF ReceiverInv, Spent
<1>3. \A m \in MessageIds : Held[m] \in Nat /\ Held[m] = minted[m].amount - Spent(m)
  BY HeldMoney
<1>4. \A m \in processedMessages : change[m] = Held[m]
  <2> SUFFICES ASSUME NEW m \in processedMessages PROVE change[m] = Held[m]
    OBVIOUS
  <2>1. amounts[CallOf(m)] = Spent(m) /\ Spent(m) \in Nat /\ delivered[m] = {CallOf(m)}
    BY <1>2 DEF Opened
  <2> HIDE DEF amounts
  <2>2. Total(amounts, {CallOf(m)}) = Spent(m)
    BY <2>1, TotalSingle
  <2>3. change[m] = minted[m].amount - Total(amounts, delivered[m])
    BY <1>1
  <2>4. Total(amounts, delivered[m]) = Spent(m)
    BY <2>1, <2>2
  <2> QED
    BY <1>1, <1>3, <2>3, <2>4
<1>5. \A m \in waiting : came[m] = Held[m]
  BY HeldMoney
<1>6. \A m \in MessageIds : m \notin processedMessages \cup waiting => Held[m] = 0
  <2>1. \A m \in MessageIds : m \notin processedMessages \cup waiting =>
          ~Arrived(m) /\ m \notin processedMessages
    OBVIOUS
  <2>2. \A m \in MessageIds : ~Arrived(m) => minted[m].amount = 0
    BY <1>1, MessageAmounts
  <2> QED
    BY <2>1, <2>2, HeldMoney
<1> HIDE DEF amounts, change, came, waiting
<1>7. Total(change, processedMessages) = Total(Held, processedMessages)
  BY <1>1, <1>4, TotalSame
<1>8. Total(came, waiting) = Total(Held, waiting)
  BY <1>1, <1>5, TotalSame
<1>9. Total(Held, MessageIds) = Total(Held, processedMessages) + Total(Held, waiting)
  <2>1. processedMessages \cup waiting \in SUBSET MessageIds
    BY <1>1
  <2>2. Total(Held, MessageIds) = Total(Held, processedMessages \cup waiting)
    BY <1>1, <1>3, <1>6, <2>1, TotalSupport
  <2>3. \A m \in processedMessages \cup waiting : Held[m] \in Nat
    BY <1>1, <1>3
  <2>4. Total(Held, processedMessages \cup waiting)
          = Total(Held, processedMessages) + Total(Held, waiting)
    BY <1>1, <2>3, TotalParts
  <2> QED
    BY <2>2, <2>4
<1>10. Total(Held, processedMessages) \in Nat /\ Total(Held, waiting) \in Nat
  BY <1>1, <1>3, TotalNat
<1>11. usdc[ReceiverAddress] >= Total(came, waiting) + Total(change, processedMessages) - recovered
  <2>1. /\ usdc[ReceiverAddress] + recovered >= Total(Held, MessageIds) /\ recovered \in Nat
        /\ usdc[ReceiverAddress] \in Nat
    BY ReceiverAssumption, Places DEF ReceiverInv, BaseInv, RegistryInv, Ledgers
  <2> QED
    BY <1>7, <1>8, <1>9, <1>10, <2>1
<1>12. \A m \in MessageIds :
         /\ Cardinality(delivered[m]) = IF m \in processedMessages THEN 1 ELSE 0
         /\ \A c \in delivered[m] :
              calls[c].caller = minted[m].caller /\ calls[c].amount <= minted[m].amount
  <2> SUFFICES ASSUME NEW m \in MessageIds
               PROVE  /\ Cardinality(delivered[m]) = IF m \in processedMessages THEN 1 ELSE 0
                      /\ \A c \in delivered[m] :
                           calls[c].caller = minted[m].caller /\ calls[c].amount <= minted[m].amount
    OBVIOUS
  <2>1. CASE m \in processedMessages
    <3>1. Cardinality({CallOf(m)}) = 1
      BY FS_Singleton
    <3> QED
      BY <1>2, <2>1, <3>1 DEF Opened
  <2>2. CASE m \notin processedMessages
    BY <2>2, FS_EmptySet DEF ReceiverInv
  <2> QED
    BY <2>1, <2>2
<1>13. \A m, n \in MessageIds : m # n => delivered[m] \cap delivered[n] = {}
  BY DEF ReceiverInv
<1> QED
  BY <1>11, <1>12, <1>13 DEF MessagesPayTheirOwn, Total, waiting, amounts, change, came

-----------------------------------------------------------------------------
(* The middleware: a scope leads to the one call that was opened for it,   *)
(* and no credit is ever the middleware's own, as nobody opens a call for  *)
(* it.                                                                     *)

CallersInv ==
  /\ claimable[MiddlewareAddress] = 0
  /\ \A c \in CallIds : calls[c].status # "None" => calls[c].caller # MiddlewareAddress

(* A call of a scope is the provider's, the agent's, and paid by the agent. *)
OpenedFor(s, c) ==
  /\ calls[c].status # "None"
  /\ calls[c].provider = s[1] /\ calls[c].caller = s[3]
  /\ paymentOf[c].agent = s[3] /\ calls[c].amount <= paymentOf[c].amount

MiddlewareInv ==
  /\ callIdByScopedRequest \in [Scopes -> SUBSET CallIds]
  /\ paymentOf \in [CallIds -> [agent : Agents \cup {NoAddress}, amount : Nat]]
  /\ \A s \in Scopes : \A c \in callIdByScopedRequest[s] : OpenedFor(s, c)
  /\ \A s, t \in Scopes : s # t => callIdByScopedRequest[s] \cap callIdByScopedRequest[t] = {}
  /\ \A c \in CallIds : paymentOf[c].agent # NoAddress =>
                          \E s \in Scopes : c \in callIdByScopedRequest[s]

LEMMA MiddlewareStart == MarketsInit => MiddlewareInv /\ CallersInv
<1> SUFFICES ASSUME MarketsInit PROVE MiddlewareInv /\ CallersInv
  OBVIOUS
<1>1. /\ callIdByScopedRequest = [s \in Scopes |-> {}]
      /\ paymentOf = [c \in CallIds |-> [agent |-> NoAddress, amount |-> 0]]
      /\ calls = [c \in CallIds |-> NoCall] /\ claimable = [a \in Addresses |-> 0]
      /\ MiddlewareAddress \in Addresses
  BY Places, MiddlewareAssumption DEF MarketsInit, MiddlewareInit, CallInit, Addresses
<1>2. MiddlewareInv
  BY <1>1 DEF MiddlewareInv
<1>3. CallersInv
  BY <1>1 DEF CallersInv, NoCall
<1> QED
  BY <1>2, <1>3

LEMMA CallersCreate ==
  ASSUME BaseInv, CallersInv, NEW ledger, NEW p, NEW caller, NEW payer,
         caller # MiddlewareAddress, CreateCall(ledger, p, caller, payer)
  PROVE  CallersInv'
<1>1. /\ claimable' = claimable /\ nonce \in CallIds
      /\ calls' = [calls EXCEPT ![nonce] =
           [provider |-> p, caller |-> caller, amount |-> providers[p].price,
            deadline |-> now + providers[p].maxResponseTime, status |-> "Pending"]]
  BY DEF CreateCall
<1>2. calls \in [CallIds -> Call]
  BY DEF BaseInv, EscrowInv, CallsSound
<1>3. calls'[nonce].caller = caller /\ \A c \in CallIds \ {nonce} : calls'[c] = calls[c]
  BY <1>1, <1>2
<1> QED
  BY <1>1, <1>3 DEF CallersInv

LEMMA CallersKept ==
  ASSUME CallersInv, UNCHANGED callVars PROVE CallersInv'
BY DEF CallersInv, callVars

(* A settlement credits a provider or the caller of a call, neither of     *)
(* which is the middleware.                                                *)
LEMMA CallersSettle ==
  ASSUME BaseInv, CallersInv, SettlementStep, MiddlewareAddress \notin Beneficiaries
  PROVE  CallersInv'
<1>1. /\ MiddlewareAddress \in Addresses /\ MiddlewareAddress \notin Accounts
      /\ Providers \subseteq Accounts /\ claimable \in Ledgers /\ calls \in [CallIds -> Call]
  BY Places, MiddlewareAssumption, RegistryAssumption
     DEF Addresses, Providers, BaseInv, EscrowInv, CallsSound
<1>2. ASSUME NEW p \in Providers, NEW payer \in Payers, NEW beneficiary \in Beneficiaries,
             CallServiceFor(payer, beneficiary, p)
      PROVE  CallersInv'
  BY <1>2, CallersCreate DEF CallServiceFor
<1>3. ASSUME NEW p \in Providers, NEW auth \in Authorizations, CallServiceWithAuthorization(auth, p)
      PROVE  CallersInv'
  <2>1. auth.from # MiddlewareAddress
    BY <1>1, PayPerCallAssumption
  <2> QED
    BY <1>3, <2>1, CallersCreate DEF CallServiceWithAuthorization
<1>4. ASSUME NEW c \in CallIds, SubmitReceipt(c) \/ ClaimTimeout(c)
      PROVE  CallersInv'
  <2>1. Pending(c) /\ c \in CallIds
    BY <1>4 DEF SubmitReceipt, ClaimTimeout
  <2>2. calls[c].status # "None" /\ calls[c].provider \in Providers
    BY <2>1 DEF Pending, BaseInv, EscrowInv, CallsSound
  <2>3. calls[c].provider # MiddlewareAddress /\ calls[c].caller # MiddlewareAddress
    BY <1>1, <2>2 DEF CallersInv
  <2>4. claimable'[MiddlewareAddress] = claimable[MiddlewareAddress]
    BY <1>1, <1>4, <2>3 DEF SubmitReceipt, ClaimTimeout, Credit, Ledgers
  <2>5. PICK status : calls' = [calls EXCEPT ![c].status = status]
    BY <1>4 DEF SubmitReceipt, ClaimTimeout
  <2>6. \A d \in CallIds : calls'[d].caller = calls[d].caller
                           /\ (d # c => calls'[d] = calls[d])
    BY <1>1, <2>5 DEF Call
  <2> QED
    BY <2>2, <2>3, <2>4, <2>6 DEF CallersInv
<1>5. ASSUME NEW a \in Accounts, Claim(a)
      PROVE  CallersInv'
  <2>1. /\ a # MiddlewareAddress /\ calls' = calls /\ claimable' = [claimable EXCEPT ![a] = 0]
    BY <1>1, <1>5 DEF Claim
  <2>2. claimable'[MiddlewareAddress] = claimable[MiddlewareAddress]
    BY <1>1, <2>1 DEF Ledgers
  <2> QED
    BY <2>1, <2>2 DEF CallersInv
<1> QED
  BY <1>2, <1>3, <1>4, <1>5 DEF SettlementStep

LEMMA CallersNext ==
  ASSUME MarketsInv, CallersInv, [MarketsNext]_contractVars, MiddlewareAddress \notin Beneficiaries
  PROVE  CallersInv'
<1>1. /\ BaseInv /\ MintsSound /\ MiddlewareAddress \notin Accounts
      /\ MiddlewareAddress # WalletAddress /\ Agents \subseteq Accounts
  BY MiddlewareAssumption, RegistryAssumption, MarketsAssumption DEF MarketsInv
<1>2. CASE UNCHANGED callVars
  BY <1>2, CallersKept
<1>3. CASE SettlementStep
  BY <1>1, <1>3, CallersSettle
<1>4. CASE WalletStep
  <2>1. ASSUME NEW p \in Providers, NEW amount \in Prices, AgentCall(p, amount)
        PROVE  CallersInv'
    BY <1>1, <2>1, CallersCreate DEF AgentCall, CallServiceFor
  <2> QED
    BY <1>2, <1>4, <2>1 DEF WalletStep, WalletDeposit, WalletWithdraw, SetDailyLimit, SetMaxPerCall,
       AddToWhitelist, RemoveFromWhitelist, Pause
<1>5. CASE ReceiverStep
  <2>1. ASSUME NEW m \in MessageIds, HandleReceiveFinalizedTransfer(m)
        PROVE  CallersInv'
    <3>1. minted[m].caller # MiddlewareAddress
      BY <1>1, <2>1, MessageAmounts DEF HandleReceiveFinalizedTransfer
    <3> QED
      BY <1>1, <2>1, <3>1, CallersCreate DEF HandleReceiveFinalizedTransfer, CallServiceFor
  <2> QED
    BY <1>2, <1>5, <2>1 DEF ReceiverStep, CctpMint, ReceiverSetRegistry, ReceiverRecoverTokens
<1>6. CASE MiddlewareStep
  <2>1. ASSUME NEW agent \in Agents, NEW p \in Providers, NEW h \in RequestHashes,
               NEW amount \in Payments, ExecutePayment(agent, p, h, amount)
        PROVE  CallersInv'
    <3>1. agent # MiddlewareAddress
      BY <1>1
    <3> QED
      BY <1>1, <2>1, <3>1, CallersCreate DEF ExecutePayment
  <2> QED
    BY <1>2, <1>6, <2>1 DEF MiddlewareStep, MiddlewareSetRegistry, MiddlewareRecoverTokens
<1>7. ASSUME NEW market \in Names, StepOf(market)
      PROVE  UNCHANGED callVars \/ WalletStep \/ ReceiverStep \/ MiddlewareStep
  BY <1>7 DEF StepOf, DisputeStep, OpenDispute, Resolve, SetDisputeBond, WirePayPerCall, AttestationStep,
     AttestCall, AttestProviderScore, AttestBatchSummary, SetRateLimitBlocks
<1>8. CASE UNCHANGED contractVars
  <2>1. UNCHANGED callVars
    BY <1>8 DEF contractVars
  <2> QED
    BY <1>2, <2>1
<1> QED
  BY <1>2, <1>3, <1>4, <1>5, <1>6, <1>7, <1>8 DEF MarketsNext

LEMMA MiddlewareStands ==
  ASSUME MiddlewareInv, CallsGrow, UNCHANGED <<callIdByScopedRequest, paymentOf>>
  PROVE  MiddlewareInv'
<1>1. ASSUME NEW s \in Scopes, NEW c \in callIdByScopedRequest[s] PROVE OpenedFor(s, c)'
  <2>1. OpenedFor(s, c) /\ c \in CallIds
    BY DEF MiddlewareInv
  <2> QED
    BY <2>1 DEF OpenedFor, CallsGrow
<1> QED
  BY <1>1 DEF MiddlewareInv

LEMMA MiddlewarePays ==
  ASSUME BaseInv, MiddlewareInv, CallsGrow, NEW agent \in Agents, NEW p \in Providers,
         NEW h \in RequestHashes, NEW amount \in Payments, ExecutePayment(agent, p, h, amount)
  PROVE  MiddlewareInv'
<1> DEFINE scope == Scope(p, h, agent)
<1>1. /\ callIdByScopedRequest[scope] = {} /\ providers[p].price <= amount /\ nonce \in CallIds
      /\ callIdByScopedRequest' = [callIdByScopedRequest EXCEPT ![scope] = {nonce}]
      /\ paymentOf' = [paymentOf EXCEPT ![nonce] = [agent |-> agent, amount |-> amount]]
      /\ calls' = [calls EXCEPT ![nonce] =
           [provider |-> p, caller |-> agent, amount |-> providers[p].price,
            deadline |-> now + providers[p].maxResponseTime, status |-> "Pending"]]
  BY DEF ExecutePayment, CreateCall
<1>2. scope \in Scopes /\ scope[1] = p /\ scope[3] = agent
  BY DEF Scope, Scopes
<1> HIDE DEF scope
<1>3. /\ callIdByScopedRequest \in [Scopes -> SUBSET CallIds] /\ amount \in Nat
      /\ paymentOf \in [CallIds -> [agent : Agents \cup {NoAddress}, amount : Nat]]
      /\ calls \in [CallIds -> Call] /\ calls[nonce].status = "None"
  BY <1>1, MiddlewareAssumption DEF MiddlewareInv, BaseInv, EscrowInv, CallsSound, CallIds
<1>4. /\ calls'[nonce].status = "Pending" /\ calls'[nonce].provider = p
      /\ calls'[nonce].caller = agent /\ calls'[nonce].amount = providers[p].price
  BY <1>1, <1>3
<1>5. /\ paymentOf'[nonce] = [agent |-> agent, amount |-> amount]
      /\ \A c \in CallIds \ {nonce} : paymentOf'[c] = paymentOf[c]
      /\ paymentOf' \in [CallIds -> [agent : Agents \cup {NoAddress}, amount : Nat]]
  BY <1>1, <1>3
<1>6. /\ callIdByScopedRequest'[scope] = {nonce}
      /\ \A s \in Scopes \ {scope} : callIdByScopedRequest'[s] = callIdByScopedRequest[s]
      /\ callIdByScopedRequest' \in [Scopes -> SUBSET CallIds]
  BY <1>1, <1>2, <1>3
<1>7. ASSUME NEW s \in Scopes PROVE nonce \notin callIdByScopedRequest[s]
  BY <1>3 DEF MiddlewareInv, OpenedFor
<1>8. ASSUME NEW s \in Scopes, NEW c \in callIdByScopedRequest'[s] PROVE OpenedFor(s, c)'
  <2>1. CASE s = scope
    BY <1>1, <1>2, <1>4, <1>5, <1>6, <1>8, <2>1 DEF OpenedFor
  <2>2. CASE s # scope
    <3>1. c \in callIdByScopedRequest[s] /\ c \in CallIds /\ c # nonce
      BY <1>3, <1>6, <1>7, <1>8, <2>2
    <3>2. OpenedFor(s, c)
      BY <3>1 DEF MiddlewareInv
    <3> QED
      BY <1>5, <3>1, <3>2 DEF OpenedFor, CallsGrow
  <2> QED
    BY <2>1, <2>2
<1>9. \A s, t \in Scopes : s # t => callIdByScopedRequest'[s] \cap callIdByScopedRequest'[t] = {}
  BY <1>6, <1>7 DEF MiddlewareInv
<1>10. ASSUME NEW c \in CallIds, paymentOf'[c].agent # NoAddress
       PROVE  \E s \in Scopes : c \in callIdByScopedRequest'[s]
  <2>1. CASE c = nonce
    BY <1>2, <1>6, <2>1
  <2>2. CASE c # nonce
    <3>1. PICK s \in Scopes : c \in callIdByScopedRequest[s]
      BY <1>5, <1>10, <2>2 DEF MiddlewareInv
    <3>2. s # scope
      BY <1>1, <3>1
    <3> QED
      BY <1>6, <3>1, <3>2
  <2> QED
    BY <2>1, <2>2
<1> QED
  BY <1>5, <1>6, <1>8, <1>9, <1>10 DEF MiddlewareInv

LEMMA MiddlewareNext ==
  ASSUME MarketsInv, MiddlewareInv, [MarketsNext]_contractVars
  PROVE  MiddlewareInv'
<1>1. PICK market \in Names \cup {"none"} :
        Progress(Own[market]) /\ Apart(market) /\ (market # "none" => StepOf(market))
  BY AnyStep
<1>2. BaseInv /\ CallsGrow
  BY <1>1 DEF Progress, MarketsInv
<1>3. CASE UNCHANGED <<callIdByScopedRequest, paymentOf>>
  BY <1>2, <1>3, MiddlewareStands
<1>4. CASE market # "middleware"
  <2>1. UNCHANGED <<callIdByScopedRequest, paymentOf>>
    BY <1>1, <1>4 DEF Apart, middlewareVars
  <2> QED
    BY <1>3, <2>1
<1>5. CASE market = "middleware"
  <2>1. MiddlewareStep
    BY <1>1, <1>5 DEF StepOf
  <2> QED
    BY <1>2, <1>3, <2>1, MiddlewarePays
       DEF MiddlewareStep, MiddlewareSetRegistry, MiddlewareRecoverTokens, middlewareVars
<1> QED
  BY <1>4, <1>5

LEMMA RequestsSound == ASSUME MiddlewareInv, CallersInv PROVE RequestsOpenTheirOwnCall
<1>1. ASSUME NEW p \in Providers, NEW h \in RequestHashes, NEW agent \in Agents,
             NEW c \in callIdByScopedRequest[<<p, h, agent>>]
      PROVE  /\ calls[c].provider = p /\ calls[c].caller = agent
             /\ paymentOf[c].agent = agent /\ calls[c].amount <= paymentOf[c].amount
  <2> DEFINE s == <<p, h, agent>>
  <2>1. s \in Scopes /\ s[1] = p /\ s[3] = agent
    BY DEF Scopes
  <2> HIDE DEF s
  <2>2. OpenedFor(s, c)
    BY <1>1, <2>1 DEF MiddlewareInv, s
  <2> QED
    BY <2>1, <2>2 DEF OpenedFor
<1>2. ASSUME NEW c \in CallIds, paymentOf[c].agent # NoAddress
      PROVE  Cardinality({s \in Scopes : c \in callIdByScopedRequest[s]}) = 1
  <2>1. PICK s \in Scopes : c \in callIdByScopedRequest[s]
    BY <1>2 DEF MiddlewareInv
  <2>2. \A t \in Scopes : c \in callIdByScopedRequest[t] => t = s
    BY <2>1 DEF MiddlewareInv
  <2>3. {t \in Scopes : c \in callIdByScopedRequest[t]} = {s}
    BY <2>1, <2>2
  <2>4. Cardinality({s}) = 1
    BY FS_Singleton
  <2> QED
    BY <2>3, <2>4
<1> QED
  BY <1>1, <1>2 DEF RequestsOpenTheirOwnCall, CallersInv

(* Whoever opens calls for others spends each payment on the call it was   *)
(* sent for, in any order of mints, deliveries, payments and price         *)
(* changes, as long as nobody opens a call in the middleware's own name    *)
(* (CrossChainReceiver.sol, X402Middleware.sol).                           *)
THEOREM EntriesSpendOnTheirOwn ==
  MiddlewareAddress \notin Beneficiaries => (MarketsSpec => []EntriesPayTheirOwn)
<1> SUFFICES ASSUME MiddlewareAddress \notin Beneficiaries
             PROVE  MarketsSpec => []EntriesPayTheirOwn
  OBVIOUS
<1> DEFINE EntriesInv == MarketsInv /\ ReceiverInv /\ MiddlewareInv /\ CallersInv
<1>1. MarketsInit => EntriesInv
  BY MarketsStart, ReceiverStart, MiddlewareStart
<1>2. EntriesInv /\ [MarketsNext]_contractVars => EntriesInv'
  BY MarketsStep, ReceiverNext, MiddlewareNext, CallersNext
<1>3. EntriesInv => EntriesPayTheirOwn
  BY MessagesSound, RequestsSound DEF EntriesPayTheirOwn, MarketsInv
<1> HIDE DEF EntriesInv
<1> QED
  BY <1>1, <1>2, <1>3, PTL DEF MarketsSpec

-----------------------------------------------------------------------------
(* The attestations: the receipts up to a place are about as many calls    *)
(* that ended that way, so the snapshot taken with them counts them all.   *)

UpTo(s, i, verdict) ==
  {j \in DOMAIN s : /\ s[j].type = "CALL_RECEIPT" /\ j <= i
                    /\ s[j].provider = s[i].provider /\ s[j].verdict = verdict}

Attestation ==
  [type : {"CALL_RECEIPT", "PROVIDER_SCORE", "BATCH_SUMMARY"}, call : Nat, provider : Providers,
   verdict : {"HONORED", "VIOLATED", "UNKNOWN"}, completedCalls : Nat, slashedCalls : Nat]

(* A receipt is the one of its call, and says how that call ended.         *)
ReceiptSound(s, i) ==
  LET a == s[i] IN
  a.type = "CALL_RECEIPT" =>
    /\ a.call \in CallIds /\ callAttestation[a.call] = i
    /\ Finalized(a.call) /\ a.verdict = VerdictOf(a.call)
    /\ a.provider = calls[a.call].provider

(* The snapshot in a receipt counts the receipts up to it.                 *)
SnapshotCounts(s, i) ==
  s[i].type = "CALL_RECEIPT" =>
    /\ s[i].completedCalls >= Cardinality(UpTo(s, i, "HONORED"))
    /\ s[i].slashedCalls >= Cardinality(UpTo(s, i, "VIOLATED"))

SnapshotPast(s, i) ==
  /\ s[i].completedCalls <= providers[s[i].provider].completedCalls
  /\ s[i].slashedCalls <= providers[s[i].provider].slashedCalls

SnapshotsInOrder(s) ==
  \A i, j \in DOMAIN s : i <= j /\ s[i].provider = s[j].provider =>
    s[i].completedCalls <= s[j].completedCalls /\ s[i].slashedCalls <= s[j].slashedCalls

AttestationInv ==
  /\ attestations \in Seq(Attestation) /\ callAttestation \in [CallIds -> Nat]
  /\ \A i \in DOMAIN attestations : /\ ReceiptSound(attestations, i)
                                    /\ SnapshotCounts(attestations, i)
                                    /\ SnapshotPast(attestations, i)
  /\ SnapshotsInOrder(attestations)

LEMMA UpToAppend ==
  ASSUME NEW s \in Seq(Attestation), NEW a \in Attestation, NEW i \in DOMAIN s, NEW verdict
  PROVE  UpTo(Append(s, a), i, verdict) = UpTo(s, i, verdict)
<1> DEFINE t == Append(s, a)
           n == Len(s)
<1>1. /\ n \in Nat /\ DOMAIN s = 1..n /\ DOMAIN t = 1..(n + 1)
      /\ \A j \in 1..n : t[j] = s[j]
  BY AppendProperties, LenProperties
<1> HIDE DEF t, n
<1>2. \A j \in DOMAIN t : j <= i => j \in DOMAIN s /\ t[j] = s[j]
  BY <1>1
<1>3. \A j \in DOMAIN s : j \in DOMAIN t /\ t[j] = s[j]
  BY <1>1
<1>4. UpTo(t, i, verdict) = UpTo(s, i, verdict)
  BY <1>2, <1>3 DEF UpTo
<1> QED
  BY <1>4 DEF t

LEMMA ReceiptsCounted ==
  ASSUME NEW table, NEW s, NEW i, NEW verdict, NEW status,
         \A j \in UpTo(s, i, verdict) :
           /\ s[j].call \in CallIds /\ table[s[j].call].provider = s[i].provider
           /\ table[s[j].call].status = status,
         \A j, k \in UpTo(s, i, verdict) : s[j].call = s[k].call => j = k
  PROVE  Cardinality(UpTo(s, i, verdict)) <= Cardinality(CallsOf(table, s[i].provider, status))
<1> DEFINE R == UpTo(s, i, verdict)
           T == CallsOf(table, s[i].provider, status)
           f == [j \in R |-> s[j].call]
<1>1. IsFiniteSet(T)
  <2>1. IsFiniteSet(CallIds) /\ T \subseteq CallIds
    BY PayPerCallAssumption, FS_Interval DEF CallIds, CallsOf
  <2> QED
    BY <2>1, FS_Subset
<1>2. f \in [R -> T] /\ \A j, k \in R : f[j] = f[k] => j = k
  BY DEF CallsOf
<1> HIDE DEF R, T, f
<1>3. f \in Injection(R, T)
  BY <1>2 DEF Injection, IsInjective
<1>4. Cardinality(R) <= Cardinality(T)
  BY <1>1, <1>3, FS_Injection
<1> QED
  BY <1>4 DEF R, T

LEMMA AttestationStart == MarketsInit => AttestationInv
<1> SUFFICES ASSUME MarketsInit PROVE AttestationInv
  OBVIOUS
<1>1. attestations = <<>> /\ callAttestation = [c \in CallIds |-> 0]
  BY DEF MarketsInit, AttestationInit
<1>2. attestations \in Seq(Attestation) /\ DOMAIN attestations = {}
  BY <1>1
<1> QED
  BY <1>1, <1>2 DEF AttestationInv, SnapshotsInOrder

LEMMA AttestationsStand ==
  ASSUME BaseInv, BaseInv', AttestationInv, CallsGrow, UNCHANGED <<attestations, callAttestation>>
  PROVE  AttestationInv'
<1>1. ASSUME NEW i \in DOMAIN attestations PROVE ReceiptSound(attestations, i)'
  <2> SUFFICES ASSUME attestations[i].type = "CALL_RECEIPT"
               PROVE  ReceiptSound(attestations, i)'
    BY DEF ReceiptSound
  <2> DEFINE c == attestations[i].call
  <2>1. /\ c \in CallIds /\ callAttestation[c] = i /\ Finalized(c)
        /\ attestations[i].verdict = VerdictOf(c) /\ attestations[i].provider = calls[c].provider
    BY DEF AttestationInv, ReceiptSound
  <2>2. /\ calls'[c].status = calls[c].status /\ calls'[c].provider = calls[c].provider
    BY <2>1 DEF Finalized, CallsGrow
  <2> QED
    BY <2>1, <2>2 DEF ReceiptSound, Finalized, VerdictOf
<1>2. ASSUME NEW i \in DOMAIN attestations PROVE SnapshotPast(attestations, i)'
  <2> DEFINE a == attestations[i]
             p == a.provider
  <2>0. a \in Attestation
    <3>1. attestations \in Seq(Attestation)
      BY DEF AttestationInv
    <3>2. i \in 1..Len(attestations)
      BY <3>1, LenProperties
    <3> QED
      BY <3>1, <3>2, ElementOfSeq
  <2>1. p \in Providers /\ a.completedCalls \in Nat /\ a.slashedCalls \in Nat
    BY <2>0 DEF Attestation
  <2>2. SnapshotPast(attestations, i)
    BY DEF AttestationInv
  <2>3. /\ providers[p].completedCalls \in Nat /\ providers'[p].completedCalls \in Nat
        /\ providers[p].slashedCalls \in Nat /\ providers'[p].slashedCalls \in Nat
    BY <2>1 DEF BaseInv, RegistryInv, Provider
  <2>4. /\ providers'[p].completedCalls >= providers[p].completedCalls
        /\ providers'[p].slashedCalls >= providers[p].slashedCalls
    BY <2>1 DEF CallsGrow
  <2> QED
    BY <2>1, <2>2, <2>3, <2>4 DEF SnapshotPast
<1>3. \A i \in DOMAIN attestations : SnapshotCounts(attestations, i)'
  BY DEF AttestationInv, SnapshotCounts
<1>4. SnapshotsInOrder(attestations)'
  BY DEF AttestationInv, SnapshotsInOrder
<1> QED
  BY <1>1, <1>2, <1>3, <1>4 DEF AttestationInv

(* An attestation is added: the snapshot is of now, and a receipt is for a *)
(* call that had none.                                                     *)
LEMMA AttestationAdds ==
  ASSUME BaseInv, AttestationInv, UNCHANGED <<calls, providers>>,
         NEW a \in Attestation, attestations' = Append(attestations, a),
         a.completedCalls = providers[a.provider].completedCalls,
         a.slashedCalls = providers[a.provider].slashedCalls,
         \/ a.type # "CALL_RECEIPT" /\ callAttestation' = callAttestation
         \/ /\ a.call \in CallIds /\ callAttestation[a.call] = 0 /\ Finalized(a.call)
            /\ a.verdict = VerdictOf(a.call) /\ a.provider = calls[a.call].provider
            /\ callAttestation' = [callAttestation EXCEPT ![a.call] = Len(attestations) + 1]
  PROVE  AttestationInv'
<1>1. PICK n : n = Len(attestations) + 1
  OBVIOUS
<1>2. PICK t : t = attestations'
  OBVIOUS
<1>3. /\ attestations \in Seq(Attestation) /\ callAttestation \in [CallIds -> Nat]
      /\ calls \in [CallIds -> Call] /\ a.provider \in Providers
      /\ a.completedCalls \in Nat /\ a.slashedCalls \in Nat
  BY DEF AttestationInv, BaseInv, EscrowInv, CallsSound, Attestation
<1>4. /\ n \in Nat /\ n > 0 /\ DOMAIN attestations = 1..(n - 1) /\ DOMAIN t = 1..n
      /\ t \in Seq(Attestation) /\ t[n] = a
      /\ \A i \in DOMAIN attestations : t[i] = attestations[i] /\ attestations[i] \in Attestation
      /\ n \notin DOMAIN attestations /\ DOMAIN t = DOMAIN attestations \cup {n}
  BY <1>1, <1>2, <1>3, AppendProperties, LenProperties, ElementOfSeq
<1>5. callAttestation' \in [CallIds -> Nat]
  BY <1>1, <1>3, <1>4
<1>6. ASSUME NEW i \in DOMAIN attestations PROVE ReceiptSound(t, i)'
  <2> SUFFICES ASSUME attestations[i].type = "CALL_RECEIPT" PROVE ReceiptSound(t, i)'
    BY <1>4 DEF ReceiptSound
  <2> DEFINE c == attestations[i].call
  <2>1. /\ c \in CallIds /\ callAttestation[c] = i /\ Finalized(c)
        /\ attestations[i].verdict = VerdictOf(c) /\ attestations[i].provider = calls[c].provider
    BY DEF AttestationInv, ReceiptSound
  <2>2. callAttestation'[c] = i
    BY <1>3, <1>4, <2>1
  <2> QED
    BY <1>4, <2>1, <2>2 DEF ReceiptSound, Finalized, VerdictOf
<1>7. ReceiptSound(t, n)'
  BY <1>1, <1>3, <1>4 DEF ReceiptSound, Finalized, VerdictOf
<1>8. \A i \in DOMAIN t : ReceiptSound(t, i)'
  BY <1>4, <1>6, <1>7
<1>9. ASSUME NEW i \in DOMAIN t PROVE SnapshotPast(t, i)'
  BY <1>3, <1>4, <1>9 DEF AttestationInv, SnapshotPast
<1>10. SnapshotsInOrder(t)
  <2> SUFFICES ASSUME NEW i \in DOMAIN t, NEW j \in DOMAIN t, i <= j, t[i].provider = t[j].provider
               PROVE  /\ t[i].completedCalls <= t[j].completedCalls
                      /\ t[i].slashedCalls <= t[j].slashedCalls
    BY DEF SnapshotsInOrder
  <2>1. CASE j = n /\ i # n
    BY <1>4, <2>1 DEF AttestationInv, SnapshotPast
  <2>2. CASE j = n /\ i = n
    BY <1>3, <1>4, <2>2
  <2>3. CASE j # n
    <3>1. i # n /\ i \in DOMAIN attestations /\ j \in DOMAIN attestations
      BY <1>4, <2>3
    <3> QED
      BY <1>4, <3>1 DEF AttestationInv, SnapshotsInOrder
  <2> QED
    BY <2>1, <2>2, <2>3
<1>11. ASSUME NEW i \in DOMAIN attestations PROVE SnapshotCounts(t, i)
  <2>1. SnapshotCounts(attestations, i)
    BY DEF AttestationInv
  <2>2. /\ UpTo(t, i, "HONORED") = UpTo(attestations, i, "HONORED")
        /\ UpTo(t, i, "VIOLATED") = UpTo(attestations, i, "VIOLATED")
    BY <1>2, <1>3, UpToAppend
  <2> QED
    BY <1>4, <2>1, <2>2 DEF SnapshotCounts
<1>12. SnapshotCounts(t, n)
  <2> SUFFICES ASSUME a.type = "CALL_RECEIPT" PROVE SnapshotCounts(t, n)
    BY <1>4 DEF SnapshotCounts
  <2>1. ASSUME NEW j \in DOMAIN t, t[j].type = "CALL_RECEIPT"
        PROVE  /\ t[j].call \in CallIds /\ callAttestation'[t[j].call] = j
               /\ t[j].provider = calls[t[j].call].provider
               /\ t[j].verdict = "HONORED" => calls[t[j].call].status = "Completed"
               /\ t[j].verdict = "VIOLATED" => calls[t[j].call].status = "Slashed"
    BY <1>8, <2>1 DEF ReceiptSound, Finalized, VerdictOf
  <2>2. ASSUME NEW verdict, NEW status,
               <<verdict, status>> \in {<<"HONORED", "Completed">>, <<"VIOLATED", "Slashed">>}
        PROVE  Cardinality(UpTo(t, n, verdict)) <= Cardinality(CallsOf(calls, a.provider, status))
    <3>1. \A j \in UpTo(t, n, verdict) :
            /\ t[j].call \in CallIds /\ calls[t[j].call].provider = t[n].provider
            /\ calls[t[j].call].status = status
      BY <2>1, <2>2 DEF UpTo
    <3>2. \A j, k \in UpTo(t, n, verdict) : t[j].call = t[k].call => j = k
      BY <2>1 DEF UpTo
    <3>3. Cardinality(UpTo(t, n, verdict)) <= Cardinality(CallsOf(calls, t[n].provider, status))
      BY ONLY <3>1, <3>2, ReceiptsCounted
    <3> QED
      BY <1>4, <3>3
  <2>3. /\ providers[a.provider].completedCalls = Cardinality(CallsOf(calls, a.provider, "Completed"))
        /\ providers[a.provider].slashedCalls = Cardinality(CallsOf(calls, a.provider, "Slashed"))
    BY <1>3 DEF BaseInv, EscrowInv, CountersSound
  <2>4. /\ Cardinality(UpTo(t, n, "HONORED")) <= a.completedCalls
        /\ Cardinality(UpTo(t, n, "VIOLATED")) <= a.slashedCalls
    BY <2>2, <2>3
  <2> QED
    BY <1>4, <2>4 DEF SnapshotCounts
<1>13. \A i \in DOMAIN t : SnapshotCounts(t, i)
  BY <1>4, <1>11, <1>12
<1> QED
  BY <1>2, <1>4, <1>5, <1>8, <1>9, <1>10, <1>13 DEF AttestationInv

LEMMA AttestationNext ==
  ASSUME MarketsInv, AttestationInv, [MarketsNext]_contractVars
  PROVE  AttestationInv'
<1>1. PICK market \in Names \cup {"none"} :
        Progress(Own[market]) /\ Apart(market) /\ (market # "none" => StepOf(market))
  BY AnyStep
<1>2. BaseInv /\ BaseInv' /\ CallsGrow
  BY <1>1 DEF Progress, MarketsInv
<1>3. CASE UNCHANGED <<attestations, callAttestation>>
  BY <1>2, <1>3, AttestationsStand
<1>4. CASE market # "attestation"
  <2>1. UNCHANGED <<attestations, callAttestation>>
    BY <1>1, <1>4 DEF Apart, attestationVars
  <2> QED
    BY <1>3, <2>1
<1>5. CASE market = "attestation"
  <2>1. AttestationStep
    BY <1>1, <1>5 DEF StepOf
  <2>2. ASSUME NEW a \in Requesters, NEW c \in CallIds, AttestCall(a, c)
        PROVE  AttestationInv'
    <3>1. CASE callAttestation[c] # 0
      BY <1>3, <2>2, <3>1 DEF AttestCall
    <3>2. CASE callAttestation[c] = 0
      <4> DEFINE p == calls[c].provider
                 new == [type |-> "CALL_RECEIPT", call |-> c, provider |-> p,
                         verdict |-> VerdictOf(c), completedCalls |-> providers[p].completedCalls,
                         slashedCalls |-> providers[p].slashedCalls]
      <4>1. /\ Finalized(c) /\ attestations' = Append(attestations, new)
            /\ callAttestation' = [callAttestation EXCEPT ![c] = Len(attestations')]
            /\ UNCHANGED <<calls, providers>>
        BY <2>2, <3>2 DEF AttestCall, Issue, registryVars, callVars
      <4>2. p \in Providers
        BY <1>2, <4>1 DEF Finalized, BaseInv, EscrowInv, CallsSound
      <4>3. new \in Attestation
        <5>1. providers[p].completedCalls \in Nat /\ providers[p].slashedCalls \in Nat /\ c \in Nat
          BY <1>2, <4>2 DEF BaseInv, RegistryInv, Provider, CallIds
        <5>2. VerdictOf(c) \in {"HONORED", "VIOLATED", "UNKNOWN"}
          BY DEF VerdictOf
        <5> QED
          BY <4>2, <5>1, <5>2 DEF Attestation
      <4>4. /\ new.type = "CALL_RECEIPT" /\ new.call = c /\ new.provider = p
            /\ new.verdict = VerdictOf(c)
            /\ new.completedCalls = providers[new.provider].completedCalls
            /\ new.slashedCalls = providers[new.provider].slashedCalls
        OBVIOUS
      <4>5. attestations \in Seq(Attestation)
        BY DEF AttestationInv
      <4> HIDE DEF new
      <4>6. Len(attestations') = Len(attestations) + 1
        BY <4>1, <4>3, <4>5, AppendProperties
      <4> QED
        BY <1>2, <3>2, <4>1, <4>3, <4>4, <4>6, AttestationAdds
    <3> QED
      BY <3>1, <3>2
  <2>3. ASSUME NEW a \in Requesters, NEW p \in Providers,
               AttestProviderScore(a, p) \/ AttestBatchSummary(a, p)
        PROVE  AttestationInv'
    <3>1. PICK type \in {"PROVIDER_SCORE", "BATCH_SUMMARY"} :
            /\ Issue(type, 0, p, "UNKNOWN") /\ callAttestation' = callAttestation
            /\ UNCHANGED <<calls, providers>>
      BY <2>3 DEF AttestProviderScore, AttestBatchSummary, registryVars, callVars
    <3> DEFINE new == [type |-> type, call |-> 0, provider |-> p, verdict |-> "UNKNOWN",
                       completedCalls |-> providers[p].completedCalls,
                       slashedCalls |-> providers[p].slashedCalls]
    <3>2. new \in Attestation
      BY <1>2 DEF Attestation, BaseInv, RegistryInv, Provider
    <3>3. /\ new.type # "CALL_RECEIPT" /\ attestations' = Append(attestations, new)
          /\ new.completedCalls = providers[new.provider].completedCalls
          /\ new.slashedCalls = providers[new.provider].slashedCalls
      BY <3>1 DEF Issue
    <3> HIDE DEF new
    <3> QED
      BY <1>2, <3>1, <3>2, <3>3, AttestationAdds
  <2>4. ASSUME NEW blocks \in RateLimits, SetRateLimitBlocks(blocks)
        PROVE  AttestationInv'
    BY <1>3, <2>4 DEF SetRateLimitBlocks
  <2> QED
    BY <2>1, <2>2, <2>3, <2>4 DEF AttestationStep
<1> QED
  BY <1>4, <1>5

LEMMA AttestationsSound == AttestationInv => AttestationsStandUp
<1> SUFFICES ASSUME AttestationInv PROVE AttestationsStandUp
  OBVIOUS
<1> DEFINE Receipts == {i \in DOMAIN attestations : attestations[i].type = "CALL_RECEIPT"}
           CountedTo(i, verdict) ==
             {j \in Receipts : /\ j <= i /\ attestations[j].provider = attestations[i].provider
                               /\ attestations[j].verdict = verdict}
<1>1. \A i, verdict : CountedTo(i, verdict) = UpTo(attestations, i, verdict)
  BY DEF UpTo
<1>2. ASSUME NEW i \in Receipts
      PROVE  LET a == attestations[i] IN
             /\ callAttestation[a.call] = i
             /\ a.verdict = "HONORED" <=> calls[a.call].status = "Completed"
             /\ a.verdict = "VIOLATED" <=> calls[a.call].status = "Slashed"
             /\ a.completedCalls >= Cardinality(CountedTo(i, "HONORED"))
             /\ a.slashedCalls >= Cardinality(CountedTo(i, "VIOLATED"))
  <2>1. ReceiptSound(attestations, i) /\ SnapshotCounts(attestations, i)
        /\ attestations[i].type = "CALL_RECEIPT"
    BY DEF AttestationInv
  <2>2. /\ CountedTo(i, "HONORED") = UpTo(attestations, i, "HONORED")
        /\ CountedTo(i, "VIOLATED") = UpTo(attestations, i, "VIOLATED")
    BY <1>1
  <2> HIDE DEF CountedTo
  <2>3. /\ attestations[i].completedCalls >= Cardinality(CountedTo(i, "HONORED"))
        /\ attestations[i].slashedCalls >= Cardinality(CountedTo(i, "VIOLATED"))
    BY <2>1, <2>2 DEF SnapshotCounts
  <2> QED
    BY <2>1, <2>3 DEF ReceiptSound, Finalized, VerdictOf
<1>3. SnapshotsInOrder(attestations)
      /\ \A i \in DOMAIN attestations : SnapshotPast(attestations, i)
  BY DEF AttestationInv
<1> QED
  BY <1>2, <1>3 DEF AttestationsStandUp, SnapshotsInOrder, SnapshotPast

(* An attestation stands up however long after: a call has one at most,    *)
(* which says how the call ended, and the snapshots of a provider count    *)
(* every attested call, never fall and never run ahead of the registry     *)
(* (SLAAttestationBridge.sol).                                             *)
THEOREM AttestationsStayTrue == MarketsSpec => []AttestationsStandUp
<1>1. MarketsInit => MarketsInv /\ AttestationInv
  BY MarketsStart, AttestationStart
<1>2. MarketsInv /\ AttestationInv /\ [MarketsNext]_contractVars => MarketsInv' /\ AttestationInv'
  BY MarketsStep, AttestationNext
<1>3. AttestationInv => AttestationsStandUp
  BY AttestationsSound
<1> QED
  BY <1>1, <1>2, <1>3, PTL DEF MarketsSpec

(* The behaviours TLC explores, one market next to the registry, are       *)
(* behaviours of all the markets next to each other, of which the theorems *)
(* speak.                                                                  *)
THEOREM OneMarketIsOfThemAll == MarketSpec => MarketsSpec
<1>1. MarketInit => MarketsInit
  BY DEF MarketInit
<1>2. [MarketNext]_marketVars => [MarketsNext]_contractVars
  BY DEF MarketNext, MarketsNext, marketVars
<1> QED
  BY <1>1, <1>2, PTL DEF MarketSpec, MarketsSpec
=============================================================================
