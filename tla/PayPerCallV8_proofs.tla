------------------------- MODULE PayPerCallV8_proofs ------------------------
(***************************************************************************)
(* Proofs about PayPerCallV8 and the registry it calls.                    *)
(***************************************************************************)
EXTENDS PayPerCallV8, FiniteSetTheorems, TLAPS

USE DEF Providers, Addresses, Versions, Time, CallIds

-----------------------------------------------------------------------------
(* A share of at most the whole, rounded down, is at most the amount.      *)
LEMMA ShareBounded ==
  ASSUME NEW s \in Nat, NEW k \in 0..Bps
  PROVE  Share(s, k) \in Nat /\ Share(s, k) <= s
<1> Bps \in Nat \ {0}
  BY RegistryAssumption
<1> DEFINE q == (s * k) \div Bps
<1>1. s * k \in Nat /\ s * k <= s * Bps
  OBVIOUS
<1>2. q \in Nat /\ Bps * q <= s * k
  BY <1>1
<1>3. q <= s
  BY <1>1, <1>2
<1> QED
  BY <1>2, <1>3 DEF Share

LEMMA ShareNat ==
  ASSUME NEW s \in Nat, NEW k \in Nat
  PROVE  Share(s, k) \in Nat
<1> Bps \in Nat \ {0}
  BY RegistryAssumption
<1> s * k \in Nat
  OBVIOUS
<1> QED
  BY DEF Share

(* The keeper's bounty comes out of the slash.                             *)
LEMMA BountyBounded ==
  ASSUME NEW s \in Nat
  PROVE  KeeperBounty(s) \in Nat /\ KeeperBounty(s) <= s
<1> KeeperBountyBps \in 0..Bps /\ MaxKeeperBounty \in Nat
  BY PayPerCallAssumption
<1> QED
  BY ShareBounded DEF KeeperBounty

-----------------------------------------------------------------------------
(* What the registry does on its own keeps its types and leaves every      *)
(* pending count alone.                                                    *)
RegistryInv == RegistryTypeOK /\ ProvidersWellFormed

CountsUnchanged ==
  \A p \in Providers : providers'[p].pendingCalls = providers[p].pendingCalls

LEMMA AdminStepPreserves ==
  ASSUME RegistryInv, AdminStep
  PROVE  RegistryInv' /\ CountsUnchanged
BY RegistryAssumption
   DEF RegistryInv, RegistryTypeOK, ProvidersWellFormed, CountsUnchanged, Registered,
       AdminStep, SetPayPerCall, TransferAdmin, AuthorizeSlasher, RevokeSlasher,
       termsVars, adminVars

LEMMA TickPreserves ==
  ASSUME RegistryInv, Tick
  PROVE  RegistryInv' /\ CountsUnchanged
BY RegistryAssumption
   DEF RegistryInv, RegistryTypeOK, ProvidersWellFormed, CountsUnchanged, Registered,
       Tick, termsVars, adminVars

(* A credit, and a transfer the payer can afford, keep a ledger natural.   *)
LEMMA CreditType ==
  ASSUME NEW ledger \in [Addresses -> Nat], NEW who \in Addresses, NEW amount \in Nat
  PROVE  Credit(ledger, who, amount) \in [Addresses -> Nat]
BY DEF Credit

LEMMA TransferType ==
  ASSUME NEW ledger \in [Addresses -> Nat], NEW from \in Addresses,
         NEW to \in Addresses, NEW amount \in Nat, CanPay(ledger, from, amount)
  PROVE  Transfer(ledger, from, to, amount) \in [Addresses -> Nat]
<1>1. ledger[from] - amount \in Nat
  BY DEF CanPay
<1>2. [ledger EXCEPT ![from] = @ - amount] \in [Addresses -> Nat]
  BY <1>1
<1> QED
  BY <1>2, CreditType DEF Transfer

LEMMA OwnerStepPreserves ==
  ASSUME RegistryInv, NEW p \in Providers, OwnerStep(p)
  PROVE  RegistryInv' /\ CountsUnchanged
<1> USE DEF RegistryInv, ProvidersWellFormed, CountsUnchanged, Registered
<1>1. providers \in [Providers -> Provider] /\ balance \in [Addresses -> Nat]
  BY DEF RegistryTypeOK
<1>2. p \in Addresses /\ Registry \in Addresses
  BY RegistryAssumption
<1>3. TermsInputs \subseteq Terms /\ NoTerms \in Terms /\ 1 \in Versions
  BY RegistryAssumption DEF Terms
<1>4. ASSUME NEW key \in Signers, NEW amount \in StakeAmounts, NEW price \in Prices,
             NEW t \in TermsInputs, NEW cap \in Caps,
             Register(p, key, amount, price, t, cap)
      PROVE  RegistryInv' /\ CountsUnchanged
  <2>1. amount \in Nat /\ price \in Nat /\ cap \in Nat
    BY RegistryAssumption
  <2>2. providers' \in [Providers -> Provider]
    BY <1>1, <1>4, <2>1, RegistryAssumption DEF Register, Provider, NoProvider, RegistryTypeOK
  <2>3. balance' \in [Addresses -> Nat]
    BY <1>1, <1>2, <1>4, <2>1, TransferType DEF Register
  <2>4. terms' \in [Providers -> [Versions -> Terms]]
        /\ latestTermsVersion' \in [Providers -> 0..MaxVersions]
    BY <1>3, <1>4 DEF Register, RegistryTypeOK
  <2>5. RegistryTypeOK'
    BY <1>4, <2>2, <2>3, <2>4 DEF Register, RegistryTypeOK, adminVars
  <2>6. CountsUnchanged /\ ProvidersWellFormed'
    BY <1>1, <1>4 DEF Register, NoProvider, Provider
  <2> QED
    BY <2>5, <2>6
<1>5. ASSUME NEW amount \in StakeAmounts, AddStake(p, amount)
      PROVE  RegistryInv' /\ CountsUnchanged
  <2>1. amount \in Nat
    BY RegistryAssumption
  <2>2. balance' \in [Addresses -> Nat]
    BY <1>1, <1>2, <1>5, <2>1, TransferType DEF AddStake
  <2>3. providers' \in [Providers -> Provider] /\ CountsUnchanged /\ ProvidersWellFormed'
    BY <1>1, <1>5, <2>1 DEF AddStake, Provider
  <2> QED
    BY <1>5, <2>2, <2>3 DEF AddStake, RegistryTypeOK, termsVars, adminVars
<1>6. CASE Deactivate(p)
  <2> DEFINE gone == [providers[p] EXCEPT !.active = FALSE, !.deactivatedAt = now]
  <2>2. now \in Time /\ gone \in Provider
    BY <1>1 DEF Provider, RegistryTypeOK
  <2>3. providers' = [providers EXCEPT ![p] = gone]
    BY <1>1, <1>6 DEF Deactivate
  <2>4. gone.pendingCalls = providers[p].pendingCalls /\ gone.registered
    BY <1>1, <1>6 DEF Deactivate, Provider
  <2>5. providers' \in [Providers -> Provider] /\ CountsUnchanged /\ ProvidersWellFormed'
    BY <1>1, <2>2, <2>3, <2>4
  <2> QED
    BY <1>6, <2>5 DEF Deactivate, RegistryTypeOK, termsVars, adminVars
<1>7. CASE Unstake(p)
  <2>1. providers[p].stake \in Nat
    BY <1>1 DEF Provider
  <2>2. balance' \in [Addresses -> Nat]
    BY <1>1, <1>2, <1>7, <2>1, TransferType DEF Unstake
  <2>3. providers' \in [Providers -> Provider] /\ CountsUnchanged /\ ProvidersWellFormed'
    BY <1>1, <1>7 DEF Unstake, Provider
  <2> QED
    BY <1>7, <2>2, <2>3 DEF Unstake, RegistryTypeOK, termsVars, adminVars
<1>8. ASSUME \/ \E price \in Prices : UpdatePrice(p, price)
             \/ \E key \in Signers : UpdateSigner(p, key)
             \/ \E cap \in Caps : UpdateMaxConcurrentCalls(p, cap)
      PROVE  RegistryInv' /\ CountsUnchanged
  <2>1. providers' \in [Providers -> Provider] /\ CountsUnchanged /\ ProvidersWellFormed'
    BY <1>1, <1>8, RegistryAssumption
       DEF UpdatePrice, UpdateSigner, UpdateMaxConcurrentCalls, Provider
  <2> QED
    BY <1>8, <2>1 DEF UpdatePrice, UpdateSigner, UpdateMaxConcurrentCalls,
                      RegistryTypeOK, termsVars, adminVars
<1>9. CASE TermsStep(p)
  <2>1. ASSUME NEW t \in TermsInputs, ProposeTermsUpdate(p, t)
        PROVE  RegistryInv' /\ CountsUnchanged
    <3>1. pendingTerms' \in [Providers -> PendingTerms]
      BY <1>3, <2>1, RegistryAssumption DEF ProposeTermsUpdate, RegistryTypeOK, PendingTerms
    <3> QED
      BY <2>1, <3>1 DEF ProposeTermsUpdate, RegistryTypeOK, adminVars
  <2>2. CASE ExecuteTermsUpdate(p) \/ CancelTermsUpdate(p)
    <3>1. NoPendingTerms \in PendingTerms
      BY <1>3, RegistryAssumption DEF NoPendingTerms, PendingTerms
    <3>2. pendingTerms[p].version \in 0..MaxVersions /\ pendingTerms[p].input \in Terms
      BY DEF RegistryTypeOK, PendingTerms
    <3>3. CASE ExecuteTermsUpdate(p)
      <4>1. pendingTerms[p].version \in Versions
        BY <3>2, <3>3, RegistryAssumption DEF ExecuteTermsUpdate
      <4>2. terms' \in [Providers -> [Versions -> Terms]]
        BY <3>2, <3>3, <4>1 DEF ExecuteTermsUpdate, RegistryTypeOK
      <4>3. latestTermsVersion' \in [Providers -> 0..MaxVersions]
        BY <3>2, <3>3 DEF ExecuteTermsUpdate, RegistryTypeOK
      <4> QED
        BY <3>1, <3>3, <4>2, <4>3 DEF ExecuteTermsUpdate, RegistryTypeOK, adminVars
    <3>4. CASE CancelTermsUpdate(p)
      BY <3>1, <3>4 DEF CancelTermsUpdate, RegistryTypeOK, adminVars
    <3> QED
      BY <2>2, <3>3, <3>4
  <2> QED
    BY <1>9, <2>1, <2>2 DEF TermsStep
<1> QED
  BY <1>4, <1>5, <1>6, <1>7, <1>8, <1>9 DEF OwnerStep

LEMMA SlashPreserves ==
  ASSUME RegistryInv, NEW s \in Slashers, NEW p \in Providers,
         NEW amount \in SlashAmounts, Slash(s, p, amount)
  PROVE  RegistryInv' /\ CountsUnchanged
<1>1. amount \in Nat /\ Registry \in Addresses /\ s \in Addresses
  BY RegistryAssumption
<1>2. balance' \in [Addresses -> Nat]
  BY <1>1, TransferType DEF Slash, RegistryInv, RegistryTypeOK
<1>3. /\ providers' \in [Providers -> Provider]
      /\ CountsUnchanged /\ ProvidersWellFormed'
  <2> DEFINE cut == [providers[p] EXCEPT !.stake = @ - amount]
  <2>1. providers[p] \in Provider /\ providers[p].registered /\ providers[p].stake >= amount
    BY DEF Slash, SlashAccepted, RegistryInv, RegistryTypeOK
  <2>2. /\ cut \in Provider
        /\ cut.pendingCalls = providers[p].pendingCalls /\ cut.registered
    BY <1>1, <2>1 DEF Provider
  <2>3. providers' = [providers EXCEPT ![p] = cut]
    BY DEF Slash, Slashed, RegistryInv, RegistryTypeOK
  <2> QED
    BY <2>2, <2>3 DEF RegistryInv, RegistryTypeOK, CountsUnchanged, ProvidersWellFormed,
                      Registered
<1> QED
  BY <1>2, <1>3 DEF Slash, RegistryInv, RegistryTypeOK, termsVars, adminVars

LEMMA RegistryPreserves ==
  ASSUME RegistryInv, RegistryStep \/ Tick
  PROVE  RegistryInv' /\ CountsUnchanged
BY AdminStepPreserves, OwnerStepPreserves, SlashPreserves, TickPreserves DEF RegistryStep

-----------------------------------------------------------------------------
(* Counting the open calls.                                                *)

LEMMA PendingFinite ==
  ASSUME NEW p
  PROVE  IsFiniteSet(PendingOf(p)) /\ Cardinality(PendingOf(p)) \in Nat
<1>1. IsFiniteSet(0..(MaxCalls - 1))
  BY FS_Interval, PayPerCallAssumption
<1>2. PendingOf(p) \in SUBSET (0..(MaxCalls - 1))
  BY DEF PendingOf
<1> QED
  BY <1>1, <1>2, FS_Subset, FS_CardinalityType

(* A call of p that becomes pending adds one to p's open calls only.       *)
LEMMA OpeningCounts ==
  ASSUME TypeOK, PendingCountExact, NEW c \in CallIds, ~Pending(c),
         NEW p \in Providers, NEW new \in Call,
         new.status = "Pending", new.provider = p,
         calls' = [calls EXCEPT ![c] = new],
         providers' = CallStarted(providers, p)
  PROVE  PendingCountExact'
<1>1. PendingOf(p)' = PendingOf(p) \cup {c} /\ c \notin PendingOf(p)
  BY DEF TypeOK, PendingOf, Pending
<1>2. \A q \in Providers \ {p} : PendingOf(q)' = PendingOf(q)
  BY DEF TypeOK, PendingOf, Pending
<1>3. Cardinality(PendingOf(p)') = Cardinality(PendingOf(p)) + 1
  BY <1>1, FS_AddElement, PendingFinite
<1>4. /\ providers'[p].pendingCalls = providers[p].pendingCalls + 1
      /\ \A q \in Providers \ {p} : providers'[q] = providers[q]
  BY DEF CallStarted, TypeOK, RegistryTypeOK, Provider
<1> QED
  BY <1>2, <1>3, <1>4 DEF PendingCountExact

(* A pending call of p that is over takes one from p's open calls only.    *)
LEMMA ClosingCounts ==
  ASSUME TypeOK, PendingCountExact, NEW c \in CallIds, Pending(c),
         NEW p \in Providers, calls[c].provider = p,
         NEW new \in Call, new.status # "Pending",
         calls' = [calls EXCEPT ![c] = new],
         providers'[p].pendingCalls = providers[p].pendingCalls - 1,
         \A q \in Providers \ {p} : providers'[q] = providers[q]
  PROVE  PendingCountExact'
<1>1. PendingOf(p)' = PendingOf(p) \ {c} /\ c \in PendingOf(p)
  BY DEF TypeOK, PendingOf, Pending
<1>2. \A q \in Providers \ {p} : PendingOf(q)' = PendingOf(q)
  BY DEF TypeOK, PendingOf, Pending
<1>3. Cardinality(PendingOf(p)') = Cardinality(PendingOf(p)) - 1
  BY <1>1, FS_RemoveElement, PendingFinite
<1> QED
  BY <1>2, <1>3 DEF PendingCountExact

-----------------------------------------------------------------------------
(* Each transaction of PayPerCall preserves the invariant.                 *)

LEMMA CreateCallPreserves ==
  ASSUME Inv, NEW p \in Providers, NEW caller \in Addresses, NEW payer \in Accounts,
         CreateCall(p, caller, payer)
  PROVE  /\ RegistryInv' /\ PendingCountExact' /\ CallsWellFormed'
         /\ calls' \in [CallIds -> Call] /\ nonce' \in 0..MaxCalls
         /\ openCallsPerCaller' \in [Providers -> [Addresses -> Nat]]
<1> DEFINE t == LatestTerms(p)
           v == latestTermsVersion[p]
           new == [provider |-> p, caller |-> caller, amount |-> providers[p].price,
                   startedAt |-> now, deadline |-> now + t.maxResponseTime,
                   completedAt |-> 0, termsVersion |-> v,
                   termsHash |-> t, status |-> "Pending"]
           started == [providers[p] EXCEPT !.pendingCalls = @ + 1]
<1>1. TypeOK /\ RegistryTypeOK
  BY DEF Inv, TypeOK
<1>2. v \in Versions /\ t \in Terms
  BY <1>1, RegistryAssumption
     DEF CreateCall, MayOpen, TermsPublished, LatestTerms, RegistryTypeOK
<1>3. t.maxResponseTime \in Nat
  BY <1>2, RegistryAssumption DEF Terms, NoTerms
<1>4. providers[p] \in Provider /\ providers[p].price \in Nat /\ now \in Time /\ 0 \in Time
  BY <1>1, RegistryAssumption DEF RegistryTypeOK, Provider
<1>5. new \in Call
  BY <1>2, <1>3, <1>4, RegistryAssumption DEF Call
<1>6. /\ nonce \in CallIds /\ calls' = [calls EXCEPT ![nonce] = new]
      /\ nonce' = nonce + 1 /\ providers' = CallStarted(providers, p)
  BY DEF CreateCall
<1>7. ~Pending(nonce)
  BY <1>1, <1>6 DEF Inv, CallsWellFormed, Pending, NoCall, TypeOK
<1>8. PendingCountExact'
  BY <1>1, <1>5, <1>6, <1>7, OpeningCounts DEF Inv
<1>9. started \in Provider /\ started.registered
  <2>1. providers[p].registered
    BY <1>1 DEF Inv, ProvidersWellFormed, Registered, CreateCall, MayOpen, NoProvider
  <2> QED
    BY <1>4, <2>1 DEF Provider
<1>10. balance' \in [Addresses -> Nat]
  <2>1. PPC \in Addresses /\ payer \in Addresses
    BY RegistryAssumption
  <2> QED
    BY <1>1, <1>4, <2>1, TransferType DEF CreateCall, RegistryTypeOK
<1>11. providers' = [providers EXCEPT ![p] = started]
  BY <1>1, <1>6 DEF CallStarted, RegistryTypeOK
<1>12. RegistryInv'
  BY <1>1, <1>9, <1>10, <1>11
     DEF CreateCall, Inv, RegistryInv, RegistryTypeOK, ProvidersWellFormed, Registered,
         termsVars, adminVars
<1>13. CallsWellFormed'
  <2> SUFFICES ASSUME NEW c \in CallIds
               PROVE  /\ c >= nonce' => calls'[c] = NoCall
                      /\ calls'[c].status # "None" =>
                           /\ calls'[c].provider \in Providers
                           /\ calls'[c].caller \in Addresses
                           /\ calls'[c].termsVersion \in Versions
    BY DEF CallsWellFormed
  <2>1. CASE c = nonce
    BY <1>1, <1>2, <1>6, <2>1, PayPerCallAssumption DEF TypeOK
  <2>2. CASE c # nonce
    <3>1. calls'[c] = calls[c] /\ (c >= nonce' => c >= nonce)
      BY <1>1, <1>6, <2>2, PayPerCallAssumption DEF TypeOK
    <3> QED
      BY <3>1 DEF Inv, CallsWellFormed
  <2> QED
    BY <2>1, <2>2
<1>14. openCallsPerCaller' \in [Providers -> [Addresses -> Nat]]
  BY <1>1 DEF CreateCall, TypeOK
<1>15. calls' \in [CallIds -> Call]
  <2> HIDE DEF new
  <2> QED
    BY <1>1, <1>5, <1>6 DEF TypeOK
<1>16. nonce' \in 0..MaxCalls
  BY <1>6, PayPerCallAssumption
<1> QED
  BY <1>8, <1>12, <1>13, <1>14, <1>15, <1>16

(* What a pending call guarantees of itself and of its provider's count.   *)
LEMMA PendingCallFacts ==
  ASSUME Inv, NEW c \in CallIds, Pending(c)
  PROVE  /\ calls[c] \in Call /\ calls[c].amount \in Nat
         /\ calls[c].provider \in Providers
         /\ calls[c].caller \in Addresses
         /\ calls[c].termsVersion \in Versions
         /\ providers[calls[c].provider] \in Provider
<1>1. calls[c] \in Call
  BY DEF Inv, TypeOK
<1> QED
  BY <1>1 DEF Inv, TypeOK, RegistryTypeOK, CallsWellFormed, Pending, Call

LEMMA OpenCallsType ==
  ASSUME NEW open \in [Providers -> [Addresses -> Nat]],
         NEW p \in Providers, NEW a \in Addresses
  PROVE  OpenCallsDecremented(open, p, a) \in [Providers -> [Addresses -> Nat]]
<1>1. open[p] \in [Addresses -> Nat] /\ open[p][a] \in Nat
  OBVIOUS
<1>2. (IF open[p][a] > 0 THEN open[p][a] - 1 ELSE 0) \in Nat
  BY <1>1
<1>3. [open[p] EXCEPT ![a] = IF open[p][a] > 0 THEN open[p][a] - 1 ELSE 0]
        \in [Addresses -> Nat]
  BY <1>1, <1>2
<1> QED
  BY <1>3 DEF OpenCallsDecremented

(* A call that is over keeps the parties and the version it had.           *)
LEMMA ClosedWellFormed ==
  ASSUME Inv, NEW c \in CallIds, Pending(c), NEW new \in Call,
         new.provider = calls[c].provider, new.caller = calls[c].caller,
         new.termsVersion = calls[c].termsVersion,
         calls' = [calls EXCEPT ![c] = new], UNCHANGED nonce
  PROVE  CallsWellFormed' /\ calls' \in [CallIds -> Call]
<1>1. calls \in [CallIds -> Call]
  BY DEF Inv, TypeOK
<1>2. ~(c >= nonce)
  BY DEF Inv, CallsWellFormed, Pending, NoCall
<1>3. \A d \in CallIds : calls'[d] = IF d = c THEN new ELSE calls[d]
  BY <1>1
<1>4. CallsWellFormed'
  BY <1>2, <1>3, PendingCallFacts DEF Inv, CallsWellFormed
<1> QED
  BY <1>1, <1>4

LEMMA SubmitReceiptPreserves ==
  ASSUME Inv, NEW c \in CallIds, NEW respondedAt \in Nat, NEW version \in Versions,
         NEW key, SubmitReceipt(c, respondedAt, version, key)
  PROVE  Inv'
<1> DEFINE p == calls[c].provider
           new == [calls[c] EXCEPT !.completedAt = now, !.status = "Completed"]
           done == [providers[p] EXCEPT !.pendingCalls = @ - 1, !.completedCalls = @ + 1]
<1>1. TypeOK /\ RegistryTypeOK /\ Pending(c)
  BY DEF Inv, TypeOK, SubmitReceipt
<1>2. /\ calls[c] \in Call /\ calls[c].amount \in Nat /\ p \in Providers
      /\ calls[c].caller \in Addresses /\ providers[p] \in Provider
  BY <1>1, PendingCallFacts
<1>3. calls' = [calls EXCEPT ![c] = new]
  BY <1>1 DEF SubmitReceipt, TypeOK
<1>4. /\ new \in Call /\ new.status = "Completed" /\ new.provider = p
      /\ new.caller = calls[c].caller /\ new.termsVersion = calls[c].termsVersion
  BY <1>1, <1>2 DEF Call, RegistryTypeOK
<1>5. providers' = [providers EXCEPT ![p] = done]
  BY <1>1, <1>2 DEF SubmitReceipt, IncCompleted, CallFinished, RegistryTypeOK, Provider
<1>6. /\ done \in Provider /\ done.registered
      /\ done.pendingCalls = providers[p].pendingCalls - 1
  <2>1. providers[p].registered /\ providers[p].pendingCalls # 0
    BY DEF SubmitReceipt, FinishAccepted
  <2>2. /\ providers[p].pendingCalls - 1 \in Nat
        /\ providers[p].completedCalls + 1 \in Nat
    BY <1>2, <2>1 DEF Provider
  <2> QED
    BY <1>2, <2>1, <2>2 DEF Provider
<1>7. PendingCountExact'
  <2>1. /\ providers'[p].pendingCalls = providers[p].pendingCalls - 1
        /\ \A q \in Providers \ {p} : providers'[q] = providers[q]
    BY <1>1, <1>2, <1>5, <1>6 DEF RegistryTypeOK
  <2> HIDE DEF new, done
  <2> QED
    BY <1>1, <1>2, <1>3, <1>4, <2>1, ClosingCounts DEF Inv
<1>8. CallsWellFormed' /\ calls' \in [CallIds -> Call]
  <2>1. UNCHANGED nonce
    BY DEF SubmitReceipt
  <2> HIDE DEF new
  <2> QED
    BY <1>1, <1>3, <1>4, <2>1, ClosedWellFormed
<1>9. RegistryInv'
  <2> HIDE DEF done
  <2> QED
    BY <1>1, <1>2, <1>5, <1>6
       DEF SubmitReceipt, Inv, RegistryInv, RegistryTypeOK, ProvidersWellFormed, Registered,
           termsVars, adminVars
<1>10. openCallsPerCaller' \in [Providers -> [Addresses -> Nat]]
  BY <1>1, <1>2, OpenCallsType DEF SubmitReceipt, TypeOK
<1>11. claimable' \in [Addresses -> Nat]
  <2>1. claimable' = Credit(claimable, p, calls[c].amount)
    BY DEF SubmitReceipt
  <2>2. p \in Addresses
    BY <1>2, RegistryAssumption
  <2> QED
    BY <1>1, <1>2, <2>1, <2>2, CreditType DEF TypeOK
<1>12. usedReceipts' \subseteq Receipt
  BY <1>1, RegistryAssumption DEF SubmitReceipt, TypeOK, Receipt
<1>13. UNCHANGED <<nonce, usedAuthorizations>>
  BY DEF SubmitReceipt
<1> QED
  BY <1>1, <1>7, <1>8, <1>9, <1>10, <1>11, <1>12, <1>13 DEF Inv, TypeOK, RegistryInv

(* What is slashed is natural and never more than the stake, and the       *)
(* bounty never more than what is slashed.                                 *)
LEMMA SlashFacts ==
  ASSUME Inv, NEW c \in CallIds, Pending(c), RegistryAcceptsTimeout(Book, c)
  PROVE  /\ SlashAmount(Book, c) \in Nat
         /\ SlashAmount(Book, c) <= providers[calls[c].provider].stake
         /\ KeeperBounty(SlashAmount(Book, c)) \in Nat
         /\ KeeperBounty(SlashAmount(Book, c)) <= SlashAmount(Book, c)
<1> DEFINE p == calls[c].provider
           v == calls[c].termsVersion
           slash == SlashAmount(Book, c)
<1>1. p \in Providers /\ v \in Versions /\ providers[p] \in Provider
  BY PendingCallFacts
<1>2. providers[p].stake \in Nat
  BY <1>1 DEF Provider
<1>3. terms[p][v] \in Terms
  BY <1>1 DEF Inv, TypeOK, RegistryTypeOK
<1>4. terms[p][v].slashBps \in Nat
  BY <1>3, RegistryAssumption DEF Terms, NoTerms
<1>5. slash = Share(providers[p].stake, terms[p][v].slashBps)
  BY DEF SlashAmount, Book
<1>6. slash \in Nat
  BY <1>2, <1>4, <1>5, ShareNat
<1>7. slash <= providers[p].stake
  BY <1>2, <1>6 DEF RegistryAcceptsTimeout, SlashAccepted, Book
<1> QED
  BY <1>6, <1>7, BountyBounded

LEMMA ClaimTimeoutPreserves ==
  ASSUME Inv, NEW c \in CallIds, NEW sender \in Addresses, ClaimTimeout(c, sender)
  PROVE  Inv'
<1> DEFINE p == calls[c].provider
           a == calls[c].caller
           slash == SlashAmount(Book, c)
           bounty == KeeperBounty(slash)
           new == [calls[c] EXCEPT !.status = "Slashed"]
           cut == [providers[p] EXCEPT !.pendingCalls = @ - 1, !.slashedCalls = @ + 1,
                                       !.stake = @ - slash]
<1>1. TypeOK /\ RegistryTypeOK /\ Pending(c) /\ RegistryAcceptsTimeout(Book, c)
  BY DEF Inv, TypeOK, ClaimTimeout
<1>2. /\ calls[c] \in Call /\ calls[c].amount \in Nat /\ p \in Providers
      /\ a \in Addresses /\ providers[p] \in Provider
  BY <1>1, PendingCallFacts
<1>3. /\ slash \in Nat /\ slash <= providers[p].stake
      /\ bounty \in Nat /\ bounty <= slash
  BY <1>1, SlashFacts
<1>4. calls' = [calls EXCEPT ![c] = new]
  BY <1>1 DEF ClaimTimeout, AfterTimeout, Book, TypeOK
<1>5. /\ new \in Call /\ new.status = "Slashed" /\ new.provider = p
      /\ new.caller = a /\ new.termsVersion = calls[c].termsVersion
  BY <1>1, <1>2 DEF Call
<1> HIDE DEF slash, bounty
<1>6. providers' = [providers EXCEPT ![p] = cut]
  <2>1. providers' = Slashed(IncSlashed(CallFinished(providers, p), p), p, slash)
    BY DEF ClaimTimeout, AfterTimeout, Book, slash
  <2> QED
    BY <1>1, <1>2, <2>1 DEF Slashed, IncSlashed, CallFinished, RegistryTypeOK, Provider
<1>7. /\ cut \in Provider /\ cut.registered
      /\ cut.pendingCalls = providers[p].pendingCalls - 1
  <2>1. providers[p].registered /\ providers[p].pendingCalls # 0
    BY <1>1 DEF RegistryAcceptsTimeout, FinishAccepted, Book
  <2>2. /\ providers[p].pendingCalls - 1 \in Nat
        /\ providers[p].slashedCalls + 1 \in Nat
        /\ providers[p].stake - slash \in Nat
    BY <1>2, <1>3, <2>1 DEF Provider
  <2> QED
    BY <1>2, <2>1, <2>2 DEF Provider
<1>8. PendingCountExact'
  <2>1. /\ providers'[p].pendingCalls = providers[p].pendingCalls - 1
        /\ \A q \in Providers \ {p} : providers'[q] = providers[q]
    BY <1>1, <1>2, <1>6, <1>7 DEF RegistryTypeOK
  <2> HIDE DEF new, cut
  <2> QED
    BY <1>1, <1>2, <1>4, <1>5, <2>1, ClosingCounts DEF Inv
<1>9. CallsWellFormed' /\ calls' \in [CallIds -> Call]
  <2>1. UNCHANGED nonce
    BY DEF ClaimTimeout
  <2> HIDE DEF new
  <2> QED
    BY <1>1, <1>4, <1>5, <2>1, ClosedWellFormed
<1>10. balance' \in [Addresses -> Nat]
  <2>1. balance' = Transfer(balance, Registry, PPC, slash) /\ CanPay(balance, Registry, slash)
    BY <1>1 DEF ClaimTimeout, AfterTimeout, RegistryAcceptsTimeout, Book, slash
  <2> QED
    BY <1>1, <1>3, <2>1, TransferType, RegistryAssumption DEF RegistryTypeOK
<1>11. RegistryInv'
  <2> HIDE DEF cut
  <2> QED
    BY <1>1, <1>2, <1>6, <1>7, <1>10
       DEF ClaimTimeout, Inv, RegistryInv, RegistryTypeOK, ProvidersWellFormed, Registered,
           termsVars, adminVars
<1>12. openCallsPerCaller' \in [Providers -> [Addresses -> Nat]]
  <2>1. openCallsPerCaller' = OpenCallsDecremented(openCallsPerCaller, p, a)
    BY DEF ClaimTimeout, AfterTimeout, Book
  <2> QED
    BY <1>1, <1>2, <2>1, OpenCallsType DEF TypeOK
<1>13. claimable' \in [Addresses -> Nat]
  <2> DEFINE credit == calls[c].amount + (slash - bounty)
             refunded == Credit(claimable, a, credit)
  <2>1. claimable' = Credit(refunded, sender, bounty)
    BY DEF ClaimTimeout, AfterTimeout, Book, slash, bounty
  <2>2. credit \in Nat
    BY <1>2, <1>3
  <2> HIDE DEF credit
  <2>3. refunded \in [Addresses -> Nat]
    BY <1>1, <1>2, <2>2, CreditType DEF TypeOK
  <2> HIDE DEF refunded
  <2> QED
    BY <1>3, <2>1, <2>3, CreditType
<1>14. UNCHANGED <<nonce, usedReceipts, usedAuthorizations>>
  BY DEF ClaimTimeout
<1> QED
  BY <1>1, <1>8, <1>9, <1>11, <1>12, <1>13, <1>14 DEF Inv, TypeOK, RegistryInv

LEMMA ClaimPreserves ==
  ASSUME Inv, NEW a \in Accounts, Claim(a)
  PROVE  Inv'
<1>1. TypeOK /\ RegistryTypeOK /\ claimable[a] \in Nat /\ a \in Addresses /\ PPC \in Addresses
  BY RegistryAssumption DEF Inv, TypeOK
<1>2. balance' \in [Addresses -> Nat]
  BY <1>1, TransferType DEF Claim, RegistryTypeOK
<1>3. claimable' \in [Addresses -> Nat]
  BY <1>1 DEF Claim, TypeOK
<1>4. UNCHANGED <<providers, termsVars, adminVars, now, calls, nonce, openCallsPerCaller,
                  usedReceipts, usedAuthorizations>>
  BY DEF Claim
<1> QED
  BY <1>1, <1>2, <1>3, <1>4
     DEF Inv, TypeOK, RegistryTypeOK, CallsWellFormed, ProvidersWellFormed, Registered,
         PendingCountExact, PendingOf, Pending, termsVars, adminVars

-----------------------------------------------------------------------------
(* The invariant.                                                          *)

LEMMA InitInv == Init => Inv
<1> SUFFICES ASSUME Init PROVE Inv
  OBVIOUS
<1> USE DEF Init, RegistryInit, CallInit
<1>1. /\ 0 \in Nat /\ 0 \in Time /\ 0 \in 0..MaxVersions /\ 0 \in 0..MaxCalls
      /\ NoTerms \in Terms /\ Funds \in Nat
  BY RegistryAssumption, PayPerCallAssumption DEF Terms
<1>2. NoProvider \in Provider /\ NoCall \in Call /\ NoPendingTerms \in PendingTerms
  BY <1>1 DEF NoProvider, Provider, NoCall, Call, NoPendingTerms, PendingTerms
<1>3. TypeOK
  BY <1>1, <1>2 DEF TypeOK, RegistryTypeOK
<1>4. ProvidersWellFormed /\ CallsWellFormed
  BY DEF ProvidersWellFormed, CallsWellFormed, NoCall
<1>5. PendingCountExact
  <2>1. \A p \in Providers : PendingOf(p) = {} /\ providers[p].pendingCalls = 0
    BY DEF PendingOf, Pending, NoCall, NoProvider
  <2> QED
    BY <2>1, FS_EmptySet DEF PendingCountExact
<1> QED
  BY <1>3, <1>4, <1>5 DEF Inv

LEMMA OpenStepPreserves ==
  ASSUME Inv, OpenStep
  PROVE  Inv'
<1>1. PICK p \in Providers, caller \in Addresses, payer \in Accounts :
        /\ CreateCall(p, caller, payer)
        /\ \/ UNCHANGED usedAuthorizations
           \/ \E auth \in Authorizations :
                usedAuthorizations' = usedAuthorizations \cup {<<auth.from, auth.nonce>>}
  <2>1. Payers \subseteq Accounts /\ Beneficiaries \subseteq Addresses
    BY PayPerCallAssumption
  <2>2. \A auth \in Authorizations : auth.from \in Accounts
    BY PayPerCallAssumption DEF Authorization
  <2> QED
    BY <2>1, <2>2 DEF OpenStep, CallService, CallServiceFor, CallServiceWithAuthorization
<1>2. usedAuthorizations' \subseteq (Accounts \X Nat)
  <2>1. \A auth \in Authorizations : <<auth.from, auth.nonce>> \in Accounts \X Nat
    BY PayPerCallAssumption DEF Authorization
  <2> QED
    BY <1>1, <2>1 DEF Inv, TypeOK
<1>3. UNCHANGED <<claimable, usedReceipts>>
  BY <1>1 DEF CreateCall
<1> QED
  BY <1>1, <1>2, <1>3, CreateCallPreserves DEF Inv, TypeOK, RegistryInv

LEMMA ReceiptStepPreserves ==
  ASSUME Inv, ReceiptStep
  PROVE  Inv'
<1>1. PICK c \in CallIds, v \in Versions, key \in Signers :
        \E t \in RespondedAt(c) : SubmitReceipt(c, t, v, key)
  BY DEF ReceiptStep
<1>2. \A t \in RespondedAt(c) : t \in Nat
  BY DEF RespondedAt, Inv, TypeOK, Call
<1> QED
  BY <1>1, <1>2, SubmitReceiptPreserves

LEMMA StepInv == Inv /\ [Next]_vars => Inv'
<1> SUFFICES ASSUME Inv, [Next]_vars PROVE Inv'
  OBVIOUS
<1>1. CASE (RegistryStep \/ Tick) /\ UNCHANGED callVars
  <2>1. RegistryInv' /\ CountsUnchanged
    BY <1>1, RegistryPreserves DEF Inv, TypeOK, RegistryInv
  <2>2. UNCHANGED <<calls, nonce, openCallsPerCaller, claimable, usedReceipts, usedAuthorizations>>
    BY <1>1 DEF callVars
  <2>3. PendingCountExact'
    BY <2>1, <2>2 DEF Inv, CountsUnchanged, PendingCountExact, PendingOf, Pending
  <2> QED
    BY <2>1, <2>2, <2>3 DEF Inv, TypeOK, RegistryInv, CallsWellFormed
<1>2. CASE OpenStep
  BY <1>2, OpenStepPreserves
<1>3. CASE ReceiptStep
  BY <1>3, ReceiptStepPreserves
<1>4. CASE \E c \in CallIds : TimeoutStep(c)
  BY <1>4, ClaimTimeoutPreserves, PayPerCallAssumption DEF TimeoutStep
<1>5. CASE \E a \in Accounts : Claim(a)
  BY <1>5, ClaimPreserves
<1>6. CASE UNCHANGED vars
  BY <1>6 DEF vars, registryVars, termsVars, adminVars, callVars, Inv, TypeOK, RegistryTypeOK,
              CallsWellFormed, ProvidersWellFormed, Registered, PendingCountExact, PendingOf,
              Pending
<1> QED
  BY <1>1, <1>2, <1>3, <1>4, <1>5, <1>6 DEF Next, CallStep

(* Inv is an invariant of every instance of the composed contracts.        *)
THEOREM Invariant == Spec => []Inv
<1> QED
  BY InitInv, StepInv, PTL DEF Spec

(* Every variable keeps its type: no balance, stake, credit or counter     *)
(* goes below zero, which in the source would be a checked-arithmetic      *)
(* revert in the middle of a settlement.                                   *)
THEOREM TypeCorrect == Spec => []TypeOK
<1>1. Inv => TypeOK
  BY DEF Inv
<1> QED
  BY Invariant, <1>1, PTL

(* The registry's pendingCalls is exactly the number of open calls.        *)
THEOREM PendingCountsExact == Spec => []PendingCountExact
<1>1. Inv => PendingCountExact
  BY DEF Inv
<1> QED
  BY Invariant, <1>1, PTL

-----------------------------------------------------------------------------
(* What other contracts do to the ledger and to a stake.                   *)

(* A transfer between two addresses, read off the ledger it leaves.        *)
LEMMA Moves ==
  ASSUME NEW ledger, NEW from, NEW to, NEW m, from # to
  PROVE  /\ DOMAIN Transfer(ledger, from, to, m) = DOMAIN ledger
         /\ from \in DOMAIN ledger => Transfer(ledger, from, to, m)[from] = ledger[from] - m
         /\ to \in DOMAIN ledger => Transfer(ledger, from, to, m)[to] = ledger[to] + m
         /\ \A x \in DOMAIN ledger \ {from, to} : Transfer(ledger, from, to, m)[x] = ledger[x]
BY DEF Transfer, Credit

(* A payout that the ledger can carry disturbs nothing else.               *)
LEMMA PayoutPreserves ==
  ASSUME Inv, balance' \in [Addresses -> Nat],
         UNCHANGED <<providers, termsVars, adminVars, now, callVars>>
  PROVE  Inv'
BY DEF Inv, TypeOK, RegistryTypeOK, CallsWellFormed, ProvidersWellFormed, Registered,
       PendingCountExact, PendingOf, Pending, termsVars, adminVars, callVars

(* A slash within the stake, wherever the money goes.                      *)
LEMMA StakeCut ==
  ASSUME Inv, NEW p \in Providers, NEW amount \in Nat, amount <= providers[p].stake,
         amount > 0 => providers[p].registered,
         providers' = Slashed(providers, p, amount), balance' \in [Addresses -> Nat],
         UNCHANGED <<termsVars, adminVars, now, callVars>>
  PROVE  Inv'
<1> DEFINE cut == [providers[p] EXCEPT !.stake = providers[p].stake - amount]
<1>1. providers \in [Providers -> Provider] /\ providers[p].stake \in Nat
  BY DEF Inv, TypeOK, RegistryTypeOK, Provider
<1>2. /\ cut \in Provider
      /\ cut.pendingCalls = providers[p].pendingCalls /\ cut.registered = providers[p].registered
      /\ amount = 0 => cut = providers[p]
  BY <1>1 DEF Provider
<1>3. providers' = [providers EXCEPT ![p] = cut]
  BY <1>1 DEF Slashed
<1> HIDE DEF cut
<1>4. /\ providers' \in [Providers -> Provider]
      /\ \A q \in Providers : providers'[q].pendingCalls = providers[q].pendingCalls
  BY <1>1, <1>2, <1>3
<1>5. ProvidersWellFormed'
  <2> SUFFICES ASSUME NEW q \in Providers, ~providers'[q].registered
               PROVE  providers'[q] = NoProvider
    BY DEF ProvidersWellFormed, Registered
  <2>1. q = p => providers'[q] = providers[q]
    BY <1>1, <1>2, <1>3
  <2>2. providers'[q] = providers[q]
    BY <1>1, <1>3, <2>1
  <2> QED
    BY <2>2 DEF Inv, ProvidersWellFormed, Registered
<1>6. PendingCountExact'
  BY <1>4 DEF Inv, PendingCountExact, PendingOf, Pending, callVars
<1>7. TypeOK' /\ CallsWellFormed'
  BY <1>4 DEF Inv, TypeOK, RegistryTypeOK, CallsWellFormed, termsVars, adminVars, callVars
<1> QED
  BY <1>5, <1>6, <1>7 DEF Inv

(* The transactions of the two contracts leave the balance of every other  *)
(* contract alone, but for the slashes that contract asks for itself.      *)
LEMMA OthersBalance ==
  ASSUME Inv, NEW e \in Contracts \ {Registry, PPC},
         \/ AdminStep \/ Tick \/ CallStep
         \/ \E p \in Providers : OwnerStep(p)
         \/ \E s \in Slashers \ {e}, p \in Providers, amount \in SlashAmounts : Slash(s, p, amount)
  PROVE  balance'[e] = balance[e]
<1>1. /\ DOMAIN balance = Addresses /\ e \in Addresses /\ e # Registry /\ e # PPC
      /\ e \notin Accounts /\ Providers \subseteq Accounts
  BY RegistryAssumption DEF Inv, TypeOK, RegistryTypeOK
<1>2. ASSUME NEW from, NEW to, NEW m, from # to, e # from, e # to,
             balance' = Transfer(balance, from, to, m)
      PROVE  balance'[e] = balance[e]
  BY <1>1, <1>2, Moves
<1>3. Registry # PPC /\ Registry \notin Accounts /\ PPC \notin Accounts
      /\ \A s \in Slashers : s # Registry
  BY RegistryAssumption
<1>4. CASE UNCHANGED balance
  BY <1>4
<1>5. CASE AdminStep
  BY <1>5 DEF AdminStep, SetPayPerCall, TransferAdmin, AuthorizeSlasher, RevokeSlasher
<1>6. ASSUME NEW p \in Providers, OwnerStep(p) PROVE balance'[e] = balance[e]
  BY <1>1, <1>2, <1>3, <1>6
    DEF OwnerStep, Register, AddStake, Deactivate, Unstake, UpdatePrice, UpdateSigner,
        UpdateMaxConcurrentCalls, TermsStep, ProposeTermsUpdate, ExecuteTermsUpdate, CancelTermsUpdate
<1>7. CASE \E s \in Slashers \ {e}, p \in Providers, amount \in SlashAmounts : Slash(s, p, amount)
  BY <1>1, <1>2, <1>3, <1>7 DEF Slash
<1>8. CASE Tick
  BY <1>8 DEF Tick
<1>9. CASE OpenStep
  <2>1. PICK p \in Providers, caller \in Addresses, payer \in Accounts :
          CreateCall(p, caller, payer)
    BY <1>9, PayPerCallAssumption
      DEF OpenStep, CallService, CallServiceFor, CallServiceWithAuthorization, Authorization
  <2> QED
    BY <1>1, <1>2, <1>3, <2>1 DEF CreateCall
<1>10. CASE ReceiptStep
  BY <1>10 DEF ReceiptStep, SubmitReceipt
<1>11. CASE \E c \in CallIds : TimeoutStep(c)
  BY <1>1, <1>2, <1>3, <1>11 DEF TimeoutStep, ClaimTimeout, AfterTimeout, Book
<1>12. CASE \E a \in Accounts : Claim(a)
  BY <1>1, <1>2, <1>3, <1>12 DEF Claim
<1> QED
  BY <1>5, <1>6, <1>7, <1>8, <1>9, <1>10, <1>11, <1>12 DEF CallStep

-----------------------------------------------------------------------------
(* No exit with open calls.                                                *)

(* The two conjuncts of NoExitWithOpenCalls for one provider.              *)
ExitCondition(p) ==
  /\ /\ providers'[p].stake < providers[p].stake
     /\ balance'[p] > balance[p]
     => PendingOf(p) = {}
  /\ ~providers[p].active /\ PendingOf(p) = {} => PendingOf(p)' = {}

LEMMA RegistryExit ==
  ASSUME Inv, RegistryStep \/ Tick, UNCHANGED callVars, NEW p \in Providers
  PROVE  ExitCondition(p)
<1>1. PendingOf(p)' = PendingOf(p)
  BY DEF callVars, PendingOf, Pending
<1>2. /\ \A q \in Providers : providers[q] \in Provider /\ providers[q].stake \in Nat
      /\ providers \in [Providers -> Provider] /\ balance \in [Addresses -> Nat]
      /\ p \in Addresses /\ balance[p] \in Nat
  BY RegistryAssumption DEF Inv, TypeOK, RegistryTypeOK, Provider
<1>3. ASSUME providers'[p].stake < providers[p].stake, balance'[p] > balance[p]
      PROVE  PendingOf(p) = {}
  <2>1. CASE AdminStep \/ Tick
    BY <1>2, <1>3, <2>1 DEF AdminStep, SetPayPerCall, TransferAdmin, AuthorizeSlasher,
                          RevokeSlasher, Tick
  <2>2. ASSUME NEW s \in Slashers, NEW q \in Providers, NEW amount \in SlashAmounts,
               Slash(s, q, amount)
        PROVE  FALSE
    <3>1. p \in Addresses \ {Registry, s}
      BY RegistryAssumption
    <3>2. balance' = Transfer(balance, Registry, s, amount)
      BY <2>2 DEF Slash
    <3>3. balance'[p] = balance[p]
      BY <1>2, <3>1, <3>2 DEF Transfer, Credit
    <3> QED
      BY <1>2, <1>3, <3>3
  <2>3. ASSUME NEW q \in Providers, OwnerStep(q)
        PROVE  PendingOf(p) = {}
    <3>1. CASE Unstake(q) /\ q = p
      <4>1. Cardinality(PendingOf(p)) = 0
        BY <3>1 DEF Unstake, Inv, PendingCountExact
      <4> QED
        BY <4>1, PendingFinite, FS_EmptySet
    <3>2. CASE Unstake(q) /\ q # p
      BY <1>2, <1>3, <3>2 DEF Unstake
    <3>3. ASSUME NEW key \in Signers, NEW amount \in StakeAmounts, NEW price \in Prices,
                 NEW t \in TermsInputs, NEW cap \in Caps,
                 Register(q, key, amount, price, t, cap)
          PROVE  FALSE
      <4>1. CASE q = p
        <5>1. providers[p].stake = 0
          BY <3>3, <4>1 DEF Register, Inv, ProvidersWellFormed, Registered, NoProvider
        <5>2. providers'[p].stake = amount /\ amount \in Nat
          BY <1>2, <3>3, <4>1, RegistryAssumption DEF Register, NoProvider
        <5> QED
          BY <1>3, <5>1, <5>2
      <4>2. CASE q # p
        BY <1>2, <1>3, <3>3, <4>2 DEF Register
      <4> QED
        BY <4>1, <4>2
    <3>4. ASSUME NEW amount \in StakeAmounts, AddStake(q, amount)
          PROVE  FALSE
      <4>1. amount \in Nat
        BY RegistryAssumption
      <4> QED
        BY <1>2, <1>3, <3>4, <4>1 DEF AddStake
    <3>5. CASE \/ Deactivate(q)
               \/ \E price \in Prices : UpdatePrice(q, price)
               \/ \E key \in Signers : UpdateSigner(q, key)
               \/ \E cap \in Caps : UpdateMaxConcurrentCalls(q, cap)
               \/ TermsStep(q)
      <4>1. balance' = balance
        BY <3>5 DEF Deactivate, UpdatePrice, UpdateSigner, UpdateMaxConcurrentCalls, TermsStep,
                    ProposeTermsUpdate, ExecuteTermsUpdate, CancelTermsUpdate
      <4> QED
        BY <1>2, <1>3, <4>1
    <3> QED
      BY <2>3, <3>1, <3>2, <3>3, <3>4, <3>5 DEF OwnerStep
  <2> QED
    BY <2>1, <2>2, <2>3 DEF RegistryStep
<1> QED
  BY <1>1, <1>3 DEF ExitCondition

LEMMA CallExit ==
  ASSUME Inv, CallStep, NEW p \in Providers
  PROVE  ExitCondition(p)
<1>1. /\ providers \in [Providers -> Provider] /\ balance \in [Addresses -> Nat]
      /\ p \in Addresses /\ balance[p] \in Nat /\ providers[p].stake \in Nat
      /\ calls \in [CallIds -> Call]
  BY RegistryAssumption DEF Inv, TypeOK, RegistryTypeOK, Provider
<1>2. CASE OpenStep
  <2>1. PICK q \in Providers, caller \in Addresses, payer \in Accounts :
          CreateCall(q, caller, payer)
    BY <1>2, PayPerCallAssumption
       DEF OpenStep, CallService, CallServiceFor, CallServiceWithAuthorization, Authorization
  <2>2. providers'[p].stake = providers[p].stake
    BY <1>1, <2>1 DEF CreateCall, CallStarted, Provider
  <2>3. ~providers[p].active => PendingOf(p)' \subseteq PendingOf(p)
    <3>1. ~providers[p].active => p # q
      BY <2>1 DEF CreateCall, MayOpen
    <3> QED
      BY <1>1, <2>1, <3>1 DEF CreateCall, PendingOf, Pending
  <2> QED
    BY <1>1, <2>2, <2>3 DEF ExitCondition
<1>3. CASE ReceiptStep
  <2>1. PICK c \in CallIds, v \in Versions, key \in Signers :
          \E t \in RespondedAt(c) : SubmitReceipt(c, t, v, key)
    BY <1>3 DEF ReceiptStep
  <2>2. balance' = balance
    BY <2>1 DEF SubmitReceipt
  <2>3. PendingOf(p)' \subseteq PendingOf(p)
    BY <1>1, <2>1 DEF SubmitReceipt, PendingOf, Pending
  <2> QED
    BY <1>1, <2>2, <2>3 DEF ExitCondition
<1>4. CASE \E c \in CallIds : TimeoutStep(c)
  <2>1. PICK c \in CallIds, k \in Keepers : ClaimTimeout(c, k)
    BY <1>4 DEF TimeoutStep
  <2>2. balance' = Transfer(balance, Registry, PPC, SlashAmount(Book, c))
    BY <2>1 DEF ClaimTimeout, AfterTimeout, Book
  <2>3. p \in Addresses \ {Registry, PPC}
    BY RegistryAssumption
  <2>4. balance'[p] = balance[p]
    BY <1>1, <2>2, <2>3 DEF Transfer, Credit
  <2>5. calls' = [calls EXCEPT ![c].status = "Slashed"]
    BY <2>1 DEF ClaimTimeout, AfterTimeout, Book
  <2>6. PendingOf(p)' \subseteq PendingOf(p)
    BY <1>1, <2>5 DEF PendingOf, Pending
  <2> QED
    BY <1>1, <2>4, <2>6 DEF ExitCondition
<1>5. CASE \E a \in Accounts : Claim(a)
  <2>1. UNCHANGED <<providers, calls>>
    BY <1>5 DEF Claim
  <2> QED
    BY <1>1, <2>1 DEF ExitCondition, PendingOf, Pending
<1> QED
  BY <1>2, <1>3, <1>4, <1>5 DEF CallStep

(* However receipts, timeouts, slashes and the cooldown interleave, stake  *)
(* never leaves for the provider's wallet while it has a call open, and a  *)
(* provider that has gone never has one open again.                        *)
THEOREM ExitOnlyWhenClear == Spec => NoExitWithOpenCalls
<1>1. Inv /\ [Next]_vars => [\A p \in Providers : ExitCondition(p)]_vars
  BY RegistryExit, CallExit DEF Next
<1>2. [\A p \in Providers : ExitCondition(p)]_vars =>
      [\A p \in Providers :
       /\ /\ providers'[p].stake < providers[p].stake
          /\ balance'[p] > balance[p]
          => PendingOf(p) = {}
       /\ ~providers[p].active /\ PendingOf(p) = {} => PendingOf(p)' = {}]_vars
  BY DEF ExitCondition
<1> QED
  BY Invariant, <1>1, <1>2, PTL DEF Spec, NoExitWithOpenCalls

-----------------------------------------------------------------------------
(* Refinement of SLAEscrow.                                                *)

LEMMA CreateCallOpens ==
  ASSUME Inv, NEW p \in Providers, NEW caller \in Addresses, NEW payer \in Accounts,
         CreateCall(p, caller, payer)
  PROVE  Escrow!Next
<1>1. calls \in [CallIds -> Call] /\ nonce \in CallIds /\ UNCHANGED claimable
  BY DEF Inv, TypeOK, CreateCall
<1>2. calls[nonce] = NoCall
  BY <1>1 DEF Inv, CallsWellFormed
<1>3. PICK id \in CallIds : id = nonce
  BY <1>1
<1>4. /\ calls'[id].status = "Pending" /\ calls'[id].provider = p
      /\ calls'[id].caller = caller /\ calls'[id].amount = providers[p].price
      /\ \A d \in CallIds \ {id} : calls'[d] = calls[d]
  BY <1>1, <1>3 DEF CreateCall
<1>5. providers[p].price \in Nat
  BY DEF Inv, TypeOK, RegistryTypeOK, Provider
<1>6. calls[id].status = "None"
  BY <1>2, <1>3 DEF NoCall
<1>7. [d \in CallIds |-> calls'[d].status]
        = [[d \in CallIds |-> calls[d].status] EXCEPT ![id] = "Pending"]
  BY <1>4
<1>8. Escrow!Open(id)
  BY <1>1, <1>4, <1>5, <1>6, <1>7 DEF Escrow!Open
<1> QED
  BY <1>8 DEF Escrow!Next

LEMMA ReceiptPays ==
  ASSUME Inv, NEW c \in CallIds, NEW t, NEW v, NEW key, SubmitReceipt(c, t, v, key)
  PROVE  Escrow!Next
<1>1. calls \in [CallIds -> Call] /\ Pending(c)
  BY DEF Inv, TypeOK, SubmitReceipt
<1>2. /\ \A d \in CallIds \ {c} : calls'[d] = calls[d]
      /\ calls'[c] = [calls[c] EXCEPT !.completedAt = now, !.status = "Completed"]
  BY <1>1 DEF SubmitReceipt
<1>3. /\ calls'[c].status = "Completed" /\ calls'[c].provider = calls[c].provider
      /\ calls'[c].caller = calls[c].caller /\ calls'[c].amount = calls[c].amount
  BY <1>1, <1>2 DEF Call
<1>4. claimable' = [claimable EXCEPT ![calls[c].provider] = @ + calls[c].amount]
  BY DEF SubmitReceipt, Credit
<1>5. Escrow!Pay(c)
  BY <1>1, <1>2, <1>3, <1>4 DEF Escrow!Pay, Pending
<1> QED
  BY <1>5 DEF Escrow!Next

LEMMA TimeoutRefunds ==
  ASSUME Inv, NEW c \in CallIds, NEW sender \in Addresses, ClaimTimeout(c, sender)
  PROVE  Escrow!Next
<1> DEFINE a == calls[c].caller
           slash == SlashAmount(Book, c)
           bounty == KeeperBounty(slash)
           credit == calls[c].amount + (slash - bounty)
           refunded == Credit(claimable, a, credit)
<1>1. calls \in [CallIds -> Call] /\ Pending(c) /\ claimable \in [Addresses -> Nat]
  BY DEF Inv, TypeOK, ClaimTimeout
<1>2. a \in Addresses /\ calls[c].amount \in Nat
  BY <1>1, PendingCallFacts
<1>3. slash \in Nat /\ bounty \in Nat /\ bounty <= slash
  BY <1>1, SlashFacts DEF ClaimTimeout
<1>4. calls' = [calls EXCEPT ![c].status = "Slashed"]
      /\ claimable' = Credit(refunded, sender, bounty)
  BY DEF ClaimTimeout, AfterTimeout, Book
<1> HIDE DEF slash, bounty
<1>5. credit \in Nat /\ credit >= calls[c].amount
  BY <1>2, <1>3
<1>6. /\ \A d \in CallIds \ {c} : calls'[d] = calls[d]
      /\ calls'[c].status = "Slashed" /\ calls'[c].provider = calls[c].provider
      /\ calls'[c].caller = a /\ calls'[c].amount = calls[c].amount
  BY <1>1, <1>4 DEF Call
<1> HIDE DEF credit
<1>7. /\ claimable'[a] >= claimable[a] + credit
      /\ claimable'[sender] >= claimable[sender]
      /\ claimable' = [claimable EXCEPT ![a] = claimable'[a], ![sender] = claimable'[sender]]
  <2>1. refunded = [claimable EXCEPT ![a] = @ + credit]
        /\ claimable' = [refunded EXCEPT ![sender] = @ + bounty]
    BY <1>4 DEF Credit
  <2>2. \A x \in Addresses :
          /\ refunded[x] = IF x = a THEN claimable[x] + credit ELSE claimable[x]
          /\ claimable'[x] = IF x = sender THEN refunded[x] + bounty ELSE refunded[x]
    BY <1>1, <2>1
  <2> HIDE DEF refunded
  <2>3. claimable' \in [Addresses -> Nat] /\ DOMAIN claimable' = Addresses
    BY <1>1, <1>2, <1>3, <1>5, <2>1, <2>2
  <2>4. claimable' = [claimable EXCEPT ![a] = claimable'[a], ![sender] = claimable'[sender]]
    BY <1>1, <2>2, <2>3
  <2> QED
    BY <1>1, <1>2, <1>3, <1>5, <2>2, <2>4
<1>8. claimable'[a] >= claimable[a] + calls[c].amount
  <2>1. claimable[a] \in Nat /\ claimable'[a] \in Nat
    BY <1>1, <1>2, <1>3, <1>4, <1>5 DEF Credit
  <2> QED
    BY <1>2, <1>5, <1>7, <2>1
<1>9. Escrow!Refund(c)
  <2>1. calls[c].status = "Pending"
    BY <1>1 DEF Pending
  <2>2. [d \in CallIds |-> calls[d].status]'
          = [[d \in CallIds |-> calls[d].status] EXCEPT ![c] = "Slashed"]
    BY <1>6
  <2>3. \A d \in CallIds : /\ calls'[d].provider = calls[d].provider
                           /\ calls'[d].caller = calls[d].caller
                           /\ calls'[d].amount = calls[d].amount
    BY <1>6
  <2> QED
    BY <1>7, <1>8, <2>1, <2>2, <2>3 DEF Escrow!Refund
<1> QED
  BY <1>9 DEF Escrow!Next

LEMMA ClaimWithdraws ==
  ASSUME Inv, NEW a \in Accounts, Claim(a)
  PROVE  Escrow!Next
<1>1. claimable[a] \in Nat /\ claimable[a] > 0 /\ a \in Addresses
  BY DEF Claim, Inv, TypeOK
<1>2. UNCHANGED calls /\ claimable' = [claimable EXCEPT ![a] = 0]
  BY DEF Claim
<1>3. Escrow!Withdraw(a)
  BY <1>1, <1>2 DEF Escrow!Withdraw
<1> QED
  BY <1>1, <1>3 DEF Escrow!Next

LEMMA EscrowStep == Inv /\ [Next]_vars => [Escrow!Next]_Escrow!escrowVars
<1> SUFFICES ASSUME Inv, [Next]_vars
             PROVE  Escrow!Next \/ UNCHANGED Escrow!escrowVars
  OBVIOUS
<1>1. CASE UNCHANGED calls /\ UNCHANGED claimable
  BY <1>1 DEF Escrow!escrowVars
<1>2. CASE OpenStep
  <2>1. PICK p \in Providers, caller \in Addresses, payer \in Accounts :
          CreateCall(p, caller, payer)
    BY <1>2, PayPerCallAssumption
       DEF OpenStep, CallService, CallServiceFor, CallServiceWithAuthorization, Authorization
  <2> QED
    BY <2>1, CreateCallOpens
<1>3. CASE ReceiptStep
  BY <1>3, ReceiptPays DEF ReceiptStep
<1>4. CASE \E c \in CallIds : TimeoutStep(c)
  BY <1>4, TimeoutRefunds, PayPerCallAssumption DEF TimeoutStep
<1>5. CASE \E a \in Accounts : Claim(a)
  BY <1>5, ClaimWithdraws
<1> QED
  BY <1>1, <1>2, <1>3, <1>4, <1>5 DEF Next, CallStep, vars, callVars

(* The composed contracts implement the escrow as its two parties see it,  *)
(* for any number of parties, calls, terms and amounts.                    *)
THEOREM ImplementsEscrow == Spec => RefinesEscrow
<1>1. Init => Escrow!Init
  BY DEF Init, CallInit, Escrow!Init, Escrow!NoDeal, NoCall
<1> QED
  BY Invariant, <1>1, EscrowStep, PTL DEF Spec, RefinesEscrow, Escrow!Spec
=============================================================================
