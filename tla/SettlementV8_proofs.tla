------------------------- MODULE SettlementV8_proofs ------------------------
(***************************************************************************)
(* More about PayPerCallV8 and its registry, on top of the invariant of    *)
(* PayPerCallV8_proofs: published terms stand, every counter is exact,     *)
(* neither contract spends money it does not have, and with these three an *)
(* open call can always be settled in exactly one way.                     *)
(***************************************************************************)
EXTENDS PayPerCallV8_proofs, TotalTheorems

USE DEF Providers, Addresses, Versions, Time, CallIds

-----------------------------------------------------------------------------
(* Published terms.                                                        *)

(* A provider has no terms before it registers: its first registration     *)
(* overwrites nothing.                                                     *)
NoTermsBefore ==
  \A p \in Providers :
    ~Registered(p) => latestTermsVersion[p] = 0 /\ pendingTerms[p].version = 0

TermsInv == VersionsContiguous /\ NoTermsBefore

(* What a step does to versions that are out: nothing.                     *)
VersionsStay ==
  \A p \in Providers, v \in Versions :
    v <= latestTermsVersion[p] =>
      v <= latestTermsVersion'[p] /\ terms'[p][v] = terms[p][v]

LEMMA TermsUntouched ==
  ASSUME RegistryTypeOK, TermsInv, UNCHANGED termsVars,
         \A p \in Providers : Registered(p) => Registered(p)'
  PROVE  TermsInv' /\ VersionsStay
BY DEF TermsInv, VersionsContiguous, NoTermsBefore, VersionsStay, termsVars, RegistryTypeOK

LEMMA RegisterTerms ==
  ASSUME RegistryTypeOK, TermsInv, NEW p \in Providers, NEW key, NEW amount, NEW price,
         NEW t \in TermsInputs, NEW cap, Register(p, key, amount, price, t, cap)
  PROVE  TermsInv' /\ VersionsStay
<1>1. 1 \in Versions /\ latestTermsVersion[p] = 0 /\ pendingTerms[p].version = 0
  BY RegistryAssumption DEF Register, TermsInv, NoTermsBefore
<1>2. /\ \A q \in Providers : latestTermsVersion'[q] = IF q = p THEN 1 ELSE latestTermsVersion[q]
      /\ \A q \in Providers, v \in Versions :
           terms'[q][v] = IF q = p /\ v = 1 THEN t ELSE terms[q][v]
      /\ UNCHANGED pendingTerms /\ ValidTerms(t)
      /\ \A q \in Providers : Registered(q) => Registered(q)'
      /\ Registered(p)'
  BY <1>1 DEF Register, RegistryTypeOK, Registered, NoProvider
<1>3. VersionsStay
  BY <1>1, <1>2 DEF VersionsStay
<1>4. NoTermsBefore'
  BY <1>2 DEF TermsInv, NoTermsBefore
<1>5. VersionsContiguous'
  <2> SUFFICES ASSUME NEW q \in Providers
               PROVE  /\ \A v \in Versions :
                           IF v <= latestTermsVersion'[q] THEN ValidTerms(terms'[q][v])
                                                          ELSE terms'[q][v] = NoTerms
                      /\ pendingTerms'[q].version # 0 =>
                           /\ pendingTerms'[q].version = latestTermsVersion'[q] + 1
                           /\ ValidTerms(pendingTerms'[q].input)
    BY DEF VersionsContiguous, ValidTerms
  <2>1. CASE q = p
    BY <1>1, <1>2, <2>1 DEF TermsInv, VersionsContiguous
  <2>2. CASE q # p
    BY <1>2, <2>2 DEF TermsInv, VersionsContiguous
  <2> QED
    BY <2>1, <2>2
<1> QED
  BY <1>3, <1>4, <1>5 DEF TermsInv

LEMMA TermsStepTerms ==
  ASSUME RegistryTypeOK, TermsInv, NEW p \in Providers, TermsStep(p)
  PROVE  TermsInv' /\ VersionsStay
<1>1. UNCHANGED providers /\ Registered(p)
  BY DEF TermsStep, ProposeTermsUpdate, ExecuteTermsUpdate, CancelTermsUpdate
<1>2. ASSUME NEW t \in TermsInputs, ProposeTermsUpdate(p, t)
      PROVE  TermsInv' /\ VersionsStay
  <2>1. /\ UNCHANGED <<terms, latestTermsVersion>> /\ ValidTerms(t)
        /\ \A q \in Providers \ {p} : pendingTerms'[q] = pendingTerms[q]
        /\ pendingTerms'[p].version = latestTermsVersion[p] + 1
        /\ pendingTerms'[p].input = t
    BY <1>2 DEF ProposeTermsUpdate, RegistryTypeOK
  <2> QED
    BY <1>1, <2>1 DEF TermsInv, VersionsContiguous, NoTermsBefore, VersionsStay, Registered
<1>3. CASE CancelTermsUpdate(p)
  <2>1. /\ UNCHANGED <<terms, latestTermsVersion>>
        /\ \A q \in Providers \ {p} : pendingTerms'[q] = pendingTerms[q]
        /\ pendingTerms'[p].version = 0
    BY <1>3 DEF CancelTermsUpdate, RegistryTypeOK, NoPendingTerms
  <2> QED
    BY <1>1, <2>1 DEF TermsInv, VersionsContiguous, NoTermsBefore, VersionsStay, Registered
<1>4. CASE ExecuteTermsUpdate(p)
  <2> DEFINE v == pendingTerms[p].version
             t == pendingTerms[p].input
  <2>1. v = latestTermsVersion[p] + 1 /\ ValidTerms(t)
    BY <1>4 DEF ExecuteTermsUpdate, TermsInv, VersionsContiguous
  <2>2. latestTermsVersion \in [Providers -> 0..MaxVersions] /\ v \in 0..MaxVersions
    BY DEF RegistryTypeOK, PendingTerms
  <2>3. v \in Versions /\ MaxVersions \in Nat
    BY <2>1, <2>2, RegistryAssumption
  <2>4. /\ \A q \in Providers : latestTermsVersion'[q] = IF q = p THEN v ELSE latestTermsVersion[q]
        /\ \A q \in Providers, w \in Versions :
             terms'[q][w] = IF q = p /\ w = v THEN t ELSE terms[q][w]
        /\ \A q \in Providers \ {p} : pendingTerms'[q] = pendingTerms[q]
        /\ pendingTerms'[p].version = 0
    BY <1>4, <2>3 DEF ExecuteTermsUpdate, RegistryTypeOK, NoPendingTerms
  <2> HIDE DEF v, t
  <2>5. VersionsStay
    BY <2>1, <2>2, <2>3, <2>4 DEF VersionsStay
  <2>6. NoTermsBefore'
    BY <1>1, <2>4 DEF TermsInv, NoTermsBefore, Registered
  <2>7. VersionsContiguous'
    <3> SUFFICES ASSUME NEW q \in Providers
                 PROVE  /\ \A w \in Versions :
                             IF w <= latestTermsVersion'[q] THEN ValidTerms(terms'[q][w])
                                                            ELSE terms'[q][w] = NoTerms
                        /\ pendingTerms'[q].version # 0 =>
                             /\ pendingTerms'[q].version = latestTermsVersion'[q] + 1
                             /\ ValidTerms(pendingTerms'[q].input)
      BY DEF VersionsContiguous, ValidTerms
    <3>1. CASE q = p
      <4>1. ASSUME NEW w \in Versions
            PROVE  IF w <= v THEN ValidTerms(terms'[p][w]) ELSE terms'[p][w] = NoTerms
        <5>1. w = v \/ w <= latestTermsVersion[p] \/ (~(w <= latestTermsVersion[p]) /\ ~(w <= v))
          BY <2>1, <2>2
        <5>2. w <= latestTermsVersion[p] => w <= v /\ w # v
          BY <2>1, <2>2
        <5> QED
          BY <2>1, <2>3, <2>4, <5>1, <5>2 DEF TermsInv, VersionsContiguous
      <4> QED
        BY <2>4, <3>1, <4>1
    <3>2. CASE q # p
      BY <2>4, <3>2 DEF TermsInv, VersionsContiguous
    <3> QED
      BY <3>1, <3>2
  <2> QED
    BY <2>5, <2>6, <2>7 DEF TermsInv
<1> QED
  BY <1>2, <1>3, <1>4 DEF TermsStep

LEMMA RegistryTerms ==
  ASSUME Inv, TermsInv, RegistryStep \/ Tick
  PROVE  TermsInv' /\ VersionsStay
<1>1. RegistryTypeOK /\ providers \in [Providers -> Provider]
  BY DEF Inv, TypeOK, RegistryTypeOK
<1>2. CASE AdminStep \/ Tick
  BY <1>1, <1>2, TermsUntouched
     DEF AdminStep, SetPayPerCall, TransferAdmin, AuthorizeSlasher, RevokeSlasher, Tick, Registered
<1>3. ASSUME NEW s \in Slashers, NEW p \in Providers, NEW amount \in SlashAmounts,
             Slash(s, p, amount)
      PROVE  TermsInv' /\ VersionsStay
  <2>1. UNCHANGED termsVars /\ \A q \in Providers : Registered(q) => Registered(q)'
    BY <1>1, <1>3 DEF Slash, Slashed, Registered, Provider
  <2> QED
    BY <1>1, <2>1, TermsUntouched
<1>4. ASSUME NEW p \in Providers, OwnerStep(p)
      PROVE  TermsInv' /\ VersionsStay
  <2>1. CASE \/ \E amount \in StakeAmounts : AddStake(p, amount)
             \/ Deactivate(p) \/ Unstake(p)
             \/ \E price \in Prices : UpdatePrice(p, price)
             \/ \E key \in Signers : UpdateSigner(p, key)
             \/ \E cap \in Caps : UpdateMaxConcurrentCalls(p, cap)
    <3>1. UNCHANGED termsVars /\ \A q \in Providers : Registered(q) => Registered(q)'
      BY <1>1, <2>1 DEF AddStake, Deactivate, Unstake, UpdatePrice, UpdateSigner,
                        UpdateMaxConcurrentCalls, Registered, Provider
    <3> QED
      BY <1>1, <3>1, TermsUntouched
  <2>2. CASE TermsStep(p)
    BY <1>1, <2>2, TermsStepTerms
  <2> QED
    BY <1>1, <1>4, <2>1, <2>2, RegisterTerms DEF OwnerStep
<1> QED
  BY <1>2, <1>3, <1>4 DEF RegistryStep

(* A transaction of PayPerCall is an opening, an answer, a timeout or a    *)
(* withdrawal; all but the last change one call.                           *)
LEMMA OpenStepCreates ==
  ASSUME OpenStep
  PROVE  \E p \in Providers, caller \in Addresses, payer \in Accounts :
           CreateCall(p, caller, payer)
BY PayPerCallAssumption
   DEF OpenStep, CallService, CallServiceFor, CallServiceWithAuthorization, Authorization

Settles(c, status) ==
  /\ Pending(c)
  /\ \A d \in CallIds \ {c} : calls'[d] = calls[d]
  /\ calls'[c].status = status
  /\ calls'[c].provider = calls[c].provider /\ calls'[c].caller = calls[c].caller
  /\ calls'[c].amount = calls[c].amount /\ calls'[c].startedAt = calls[c].startedAt
  /\ calls'[c].deadline = calls[c].deadline
  /\ calls'[c].termsVersion = calls[c].termsVersion
  /\ calls'[c].termsHash = calls[c].termsHash

LEMMA ReceiptSettles ==
  ASSUME Inv, NEW c \in CallIds, NEW t, NEW v, NEW key, SubmitReceipt(c, t, v, key)
  PROVE  Settles(c, "Completed") /\ UNCHANGED <<termsVars, nonce>>
<1>1. calls[c] \in Call /\ calls \in [CallIds -> Call]
  BY DEF Inv, TypeOK
<1>2. /\ \A d \in CallIds \ {c} : calls'[d] = calls[d]
      /\ calls'[c] = [calls[c] EXCEPT !.completedAt = now, !.status = "Completed"]
  BY <1>1 DEF SubmitReceipt
<1> QED
  BY <1>1, <1>2 DEF SubmitReceipt, Settles, Call

LEMMA TimeoutSettles ==
  ASSUME Inv, NEW c \in CallIds, NEW sender, ClaimTimeout(c, sender)
  PROVE  Settles(c, "Slashed") /\ UNCHANGED <<termsVars, nonce>>
<1>1. calls[c] \in Call /\ calls \in [CallIds -> Call]
  BY DEF Inv, TypeOK
<1>2. calls' = [calls EXCEPT ![c].status = "Slashed"]
  BY DEF ClaimTimeout, AfterTimeout, Book
<1>3. /\ \A d \in CallIds \ {c} : calls'[d] = calls[d]
      /\ calls'[c] = [calls[c] EXCEPT !.status = "Slashed"]
  BY <1>1, <1>2
<1> QED
  BY <1>1, <1>3 DEF ClaimTimeout, Settles, Call

LEMMA CallStepTerms ==
  ASSUME Inv, SnapshotIntact, CallStep
  PROVE  SnapshotIntact' /\ UNCHANGED termsVars /\ \A p \in Providers : Registered(p) => Registered(p)'
<1>1. /\ calls \in [CallIds -> Call] /\ RegistryTypeOK
      /\ providers \in [Providers -> Provider]
  BY DEF Inv, TypeOK, RegistryTypeOK
<1>2. CASE OpenStep
  <2>1. PICK p \in Providers, caller \in Addresses, payer \in Accounts : CreateCall(p, caller, payer)
    BY <1>2, OpenStepCreates
  <2>2. UNCHANGED termsVars /\ \A q \in Providers : Registered(q) => Registered(q)'
    BY <1>1, <2>1 DEF CreateCall, CallStarted, Registered, Provider
  <2>3. /\ \A d \in CallIds \ {nonce} : calls'[d] = calls[d]
        /\ calls'[nonce].provider = p /\ calls'[nonce].termsVersion = latestTermsVersion[p]
        /\ calls'[nonce].termsHash = terms[p][latestTermsVersion[p]]
        /\ calls'[nonce].startedAt = now
        /\ calls'[nonce].deadline = now + calls'[nonce].termsHash.maxResponseTime
        /\ TermsPublished(p, latestTermsVersion[p])
    BY <1>1, <2>1 DEF CreateCall, MayOpen, LatestTerms
  <2> QED
    BY <2>2, <2>3 DEF SnapshotIntact, termsVars, TermsPublished
<1>3. ASSUME NEW c \in CallIds, NEW status, Settles(c, status), UNCHANGED termsVars
      PROVE  SnapshotIntact'
  BY <1>3 DEF SnapshotIntact, Settles, Pending, termsVars, TermsPublished
<1>4. CASE ReceiptStep
  <2>1. PICK c \in CallIds, v \in Versions, key \in Signers :
          \E t \in RespondedAt(c) : SubmitReceipt(c, t, v, key)
    BY <1>4 DEF ReceiptStep
  <2>2. \A q \in Providers : Registered(q) => Registered(q)'
    BY <1>1, <2>1 DEF SubmitReceipt, IncCompleted, CallFinished, Registered, Provider
  <2> QED
    BY <1>3, <2>1, <2>2, ReceiptSettles
<1>5. CASE \E c \in CallIds : TimeoutStep(c)
  <2>1. PICK c \in CallIds, k \in Keepers : ClaimTimeout(c, k)
    BY <1>5 DEF TimeoutStep
  <2>2. \A q \in Providers : Registered(q) => Registered(q)'
    BY <1>1, <2>1 DEF ClaimTimeout, AfterTimeout, Book, Slashed, IncSlashed, CallFinished,
                      Registered, Provider
  <2> QED
    BY <1>3, <2>1, <2>2, TimeoutSettles
<1>6. CASE \E a \in Accounts : Claim(a)
  BY <1>6 DEF Claim, SnapshotIntact, termsVars, TermsPublished, Registered
<1> QED
  BY <1>2, <1>4, <1>5, <1>6 DEF CallStep

LEMMA TermsStepInv ==
  ASSUME Inv, TermsInv, SnapshotIntact, [Next]_vars
  PROVE  TermsInv' /\ SnapshotIntact'
<1>1. RegistryTypeOK /\ calls \in [CallIds -> Call]
  BY DEF Inv, TypeOK
<1>2. CASE (RegistryStep \/ Tick) /\ UNCHANGED callVars
  <2>1. TermsInv' /\ VersionsStay
    BY <1>2, RegistryTerms
  <2>2. \A c \in CallIds : calls[c].status # "None" =>
          calls[c].provider \in Providers /\ calls[c].termsVersion \in Versions
    BY DEF Inv, CallsWellFormed
  <2>3. latestTermsVersion \in [Providers -> 0..MaxVersions]
    BY <1>1 DEF RegistryTypeOK
  <2> QED
    BY <1>2, <2>1, <2>2, <2>3 DEF VersionsStay, SnapshotIntact, TermsPublished, callVars
<1>3. CASE CallStep
  BY <1>1, <1>3, CallStepTerms, TermsUntouched
<1>4. CASE UNCHANGED vars
  BY <1>4 DEF vars, registryVars, termsVars, callVars, TermsInv, VersionsContiguous, NoTermsBefore,
              SnapshotIntact, TermsPublished, Registered
<1> QED
  BY <1>2, <1>3, <1>4 DEF Next

LEMMA TermsInitInv == Init => TermsInv /\ SnapshotIntact
<1> SUFFICES ASSUME Init PROVE TermsInv /\ SnapshotIntact
  OBVIOUS
<1>1. \A v \in Versions : ~(v <= 0)
  BY RegistryAssumption
<1> QED
  BY <1>1 DEF Init, RegistryInit, CallInit, TermsInv, VersionsContiguous, NoTermsBefore,
              SnapshotIntact, NoPendingTerms, NoCall

(* What was published stays published: however proposals replace each      *)
(* other and calls come and go, no version is ever written twice and each  *)
(* call can be judged by the terms it was opened under.                    *)
THEOREM TermsStandForever == Spec => []PublishedTermsStand
<1>1. Init => TermsInv /\ SnapshotIntact
  BY TermsInitInv
<1>2. Inv /\ (TermsInv /\ SnapshotIntact) /\ [Next]_vars => (TermsInv /\ SnapshotIntact)'
  BY TermsStepInv
<1>3. TermsInv /\ SnapshotIntact => PublishedTermsStand
  BY DEF TermsInv, PublishedTermsStand
<1> QED
  BY Invariant, <1>1, <1>2, <1>3, PTL DEF Spec

(* Both halves of TermsNotice for one provider.                            *)
Notice(p) ==
  /\ latestTermsVersion'[p] # latestTermsVersion[p] /\ latestTermsVersion[p] # 0 =>
       /\ terms'[p][latestTermsVersion'[p]] = pendingTerms[p].input
       /\ now >= pendingTerms[p].executeAt
  /\ pendingTerms'[p].version # 0 /\ pendingTerms'[p] # pendingTerms[p] =>
       pendingTerms'[p].executeAt >= now + TermsTimelock

LEMMA StepNotice ==
  ASSUME Inv, TermsInv, [Next]_vars, NEW p \in Providers
  PROVE  Notice(p)
<1>1. RegistryTypeOK
  BY DEF Inv, TypeOK
<1>2. CASE UNCHANGED termsVars
  BY <1>2 DEF Notice, termsVars
<1>3. ASSUME NEW q \in Providers, NEW t \in TermsInputs, ProposeTermsUpdate(q, t)
      PROVE  Notice(p)
  <2>1. now + TermsTimelock \in Nat
    BY <1>1, RegistryAssumption DEF RegistryTypeOK
  <2> QED
    BY <1>1, <1>3, <2>1 DEF ProposeTermsUpdate, Notice, RegistryTypeOK
<1>4. ASSUME NEW q \in Providers, CancelTermsUpdate(q)
      PROVE  Notice(p)
  BY <1>1, <1>4 DEF CancelTermsUpdate, Notice, RegistryTypeOK, NoPendingTerms
<1>5. ASSUME NEW q \in Providers, ExecuteTermsUpdate(q)
      PROVE  Notice(p)
  <2>1. pendingTerms[q].version \in Versions
    BY <1>1, <1>5, RegistryAssumption DEF ExecuteTermsUpdate, RegistryTypeOK, PendingTerms
  <2> QED
    BY <1>1, <1>5, <2>1 DEF ExecuteTermsUpdate, Notice, RegistryTypeOK, NoPendingTerms
<1>6. ASSUME NEW q \in Providers, NEW key, NEW amount, NEW price, NEW t \in TermsInputs, NEW cap,
             Register(q, key, amount, price, t, cap)
      PROVE  Notice(p)
  <2>1. latestTermsVersion[q] = 0
    BY <1>6 DEF Register, TermsInv, NoTermsBefore
  <2> QED
    BY <1>1, <1>6, <2>1 DEF Register, Notice, RegistryTypeOK
<1>7. ASSUME NEW q \in Providers, OwnerStep(q)
      PROVE  Notice(p)
  BY <1>2, <1>3, <1>4, <1>5, <1>6, <1>7
     DEF OwnerStep, TermsStep, AddStake, Deactivate, Unstake, UpdatePrice, UpdateSigner,
         UpdateMaxConcurrentCalls
<1>8. CASE RegistryStep \/ Tick
  BY <1>2, <1>7, <1>8 DEF RegistryStep, AdminStep, SetPayPerCall, TransferAdmin, AuthorizeSlasher,
                          RevokeSlasher, Slash, Tick
<1>9. CASE CallStep
  <2>1. UNCHANGED termsVars
    <3>1. OpenStep => UNCHANGED termsVars
      BY OpenStepCreates DEF CreateCall
    <3> QED
      BY <1>9, <3>1 DEF CallStep, ReceiptStep, SubmitReceipt, TimeoutStep, ClaimTimeout, Claim
  <2> QED
    BY <1>2, <2>1
<1> QED
  BY <1>2, <1>8, <1>9 DEF Next, vars, registryVars

(* Nobody's terms change without notice, whatever is proposed, replaced,   *)
(* cancelled and executed in between.                                      *)
THEOREM TermsAnnounced == Spec => TermsNotice
<1>1. Inv /\ TermsInv /\ [Next]_vars => [\A p \in Providers : Notice(p)]_registryVars
  BY StepNotice
<1>2. [\A p \in Providers : Notice(p)]_registryVars =>
      [\A p \in Providers :
       /\ latestTermsVersion'[p] # latestTermsVersion[p] /\ latestTermsVersion[p] # 0 =>
            /\ terms'[p][latestTermsVersion'[p]] = pendingTerms[p].input
            /\ now >= pendingTerms[p].executeAt
       /\ pendingTerms'[p].version # 0 /\ pendingTerms'[p] # pendingTerms[p] =>
            pendingTerms'[p].executeAt >= now + TermsTimelock]_registryVars
  BY DEF Notice
<1>3. Init => TermsInv /\ SnapshotIntact
  BY TermsInitInv
<1>4. Inv /\ (TermsInv /\ SnapshotIntact) /\ [Next]_vars => (TermsInv /\ SnapshotIntact)'
  BY TermsStepInv
<1> QED
  BY Invariant, <1>1, <1>2, <1>3, <1>4, PTL DEF Spec, TermsNotice

-----------------------------------------------------------------------------
(* Counters.                                                               *)

OutcomeOf(p, status) == {c \in CallIds : calls[c].provider = p /\ calls[c].status = status}

LEMMA IdsFinite ==
  ASSUME NEW S \in SUBSET CallIds
  PROVE  IsFiniteSet(S) /\ Cardinality(S) \in Nat
<1>1. IsFiniteSet(0..(MaxCalls - 1))
  BY FS_Interval, PayPerCallAssumption
<1> QED
  BY <1>1, FS_Subset, FS_CardinalityType

(* What the counters look at when a call is opened and when it is settled. *)
Creates(p, caller) ==
  /\ nonce \in CallIds /\ calls[nonce].status = "None" /\ calls[nonce].provider \notin Providers
  /\ \A d \in CallIds \ {nonce} : calls'[d] = calls[d]
  /\ calls'[nonce].status = "Pending"
  /\ calls'[nonce].provider = p /\ calls'[nonce].caller = caller
  /\ calls'[nonce].amount = providers[p].price

LEMMA CreateCallCreates ==
  ASSUME Inv, NEW p \in Providers, NEW caller \in Addresses, NEW payer \in Accounts,
         CreateCall(p, caller, payer)
  PROVE  Creates(p, caller)
<1>1. calls \in [CallIds -> Call] /\ nonce \in CallIds
  BY DEF Inv, TypeOK, CreateCall
<1>2. calls[nonce] = NoCall
  BY <1>1, PayPerCallAssumption DEF Inv, CallsWellFormed
<1>3. NoAddress \notin Providers
  BY RegistryAssumption
<1> QED
  BY <1>1, <1>2, <1>3 DEF CreateCall, Creates, NoCall

OutcomesUnchanged(p) ==
  /\ providers'[p].completedCalls = providers[p].completedCalls
  /\ providers'[p].slashedCalls = providers[p].slashedCalls

LEMMA OpeningCounted ==
  ASSUME Inv, OpenCountExact, OutcomesCounted, NEW p \in Providers, NEW caller \in Addresses,
         Creates(p, caller),
         openCallsPerCaller' = [openCallsPerCaller EXCEPT ![p][caller] = @ + 1],
         \A q \in Providers : OutcomesUnchanged(q)
  PROVE  OpenCountExact' /\ OutcomesCounted'
<1>1. openCallsPerCaller \in [Providers -> [Addresses -> Nat]]
  BY DEF Inv, TypeOK
<1>2. OpenCountExact'
  <2> SUFFICES ASSUME NEW q \in Providers, NEW a \in Addresses
               PROVE  openCallsPerCaller'[q][a] = Cardinality(OpenOf(q, a)')
    BY DEF OpenCountExact
  <2>1. IsFiniteSet(OpenOf(q, a)) /\ Cardinality(OpenOf(q, a)) \in Nat
    BY IdsFinite DEF OpenOf, PendingOf
  <2>2. openCallsPerCaller[q][a] = Cardinality(OpenOf(q, a))
    BY DEF OpenCountExact
  <2>3. CASE q = p /\ a = caller
    <3>1. OpenOf(q, a)' = OpenOf(q, a) \cup {nonce} /\ nonce \notin OpenOf(q, a)
      BY <2>3 DEF OpenOf, PendingOf, Pending, Creates
    <3> QED
      BY <1>1, <2>1, <2>2, <2>3, <3>1, FS_AddElement
  <2>4. CASE ~(q = p /\ a = caller)
    <3>1. OpenOf(q, a)' = OpenOf(q, a)
      BY <2>4 DEF OpenOf, PendingOf, Pending, Creates
    <3> QED
      BY <1>1, <2>2, <2>4, <3>1
  <2> QED
    BY <2>3, <2>4
<1>3. \A q \in Providers, s \in {"Completed", "Slashed"} : OutcomeOf(q, s)' = OutcomeOf(q, s)
  BY DEF OutcomeOf, Creates
<1> QED
  BY <1>2, <1>3 DEF OutcomesCounted, OutcomeOf, OutcomesUnchanged

LEMMA SettlingCounted ==
  ASSUME Inv, OpenCountExact, OutcomesCounted, NEW c \in CallIds,
         NEW status \in {"Completed", "Slashed"}, Settles(c, status),
         openCallsPerCaller' =
           OpenCallsDecremented(openCallsPerCaller, calls[c].provider, calls[c].caller),
         \A q \in Providers :
           /\ providers'[q].completedCalls = providers[q].completedCalls
                + (IF q = calls[c].provider /\ status = "Completed" THEN 1 ELSE 0)
           /\ providers'[q].slashedCalls = providers[q].slashedCalls
                + (IF q = calls[c].provider /\ status = "Slashed" THEN 1 ELSE 0)
  PROVE  OpenCountExact' /\ OutcomesCounted'
<1> DEFINE p == calls[c].provider
           caller == calls[c].caller
<1>1. /\ openCallsPerCaller \in [Providers -> [Addresses -> Nat]]
      /\ providers \in [Providers -> Provider]
  BY DEF Inv, TypeOK, RegistryTypeOK
<1>2. p \in Providers /\ caller \in Addresses
  BY PendingCallFacts DEF Settles
<1>3. OpenCountExact'
  <2> SUFFICES ASSUME NEW q \in Providers, NEW a \in Addresses
               PROVE  openCallsPerCaller'[q][a] = Cardinality(OpenOf(q, a)')
    BY DEF OpenCountExact
  <2>1. IsFiniteSet(OpenOf(q, a)) /\ Cardinality(OpenOf(q, a)) \in Nat
    BY IdsFinite DEF OpenOf, PendingOf
  <2>2. openCallsPerCaller[q][a] = Cardinality(OpenOf(q, a))
    BY DEF OpenCountExact
  <2>3. CASE q = p /\ a = caller
    <3>1. OpenOf(q, a)' = OpenOf(q, a) \ {c} /\ c \in OpenOf(q, a)
      BY <2>3 DEF OpenOf, PendingOf, Pending, Settles
    <3>2. Cardinality(OpenOf(q, a)') = Cardinality(OpenOf(q, a)) - 1
      BY <2>1, <3>1, FS_RemoveElement
    <3>3. Cardinality(OpenOf(q, a)) # 0
      BY <2>1, <3>1, FS_EmptySet
    <3>4. openCallsPerCaller'[q][a] =
            IF openCallsPerCaller[q][a] > 0 THEN openCallsPerCaller[q][a] - 1 ELSE 0
      BY <1>1, <2>3 DEF OpenCallsDecremented
    <3> QED
      BY <2>1, <2>2, <3>2, <3>3, <3>4
  <2>4. CASE ~(q = p /\ a = caller)
    <3>1. OpenOf(q, a)' = OpenOf(q, a)
      BY <2>4 DEF OpenOf, PendingOf, Pending, Settles
    <3>2. openCallsPerCaller'[q][a] = openCallsPerCaller[q][a]
      BY <1>1, <1>2, <2>4 DEF OpenCallsDecremented
    <3> QED
      BY <2>2, <3>1, <3>2
  <2> QED
    BY <2>3, <2>4
<1>4. ASSUME NEW q \in Providers, NEW s \in {"Completed", "Slashed"}
      PROVE  Cardinality(OutcomeOf(q, s)') =
               Cardinality(OutcomeOf(q, s)) + (IF q = p /\ s = status THEN 1 ELSE 0)
  <2>1. IsFiniteSet(OutcomeOf(q, s)) /\ Cardinality(OutcomeOf(q, s)) \in Nat
    BY IdsFinite DEF OutcomeOf
  <2>2. CASE q = p /\ s = status
    <3>1. OutcomeOf(q, s)' = OutcomeOf(q, s) \cup {c} /\ c \notin OutcomeOf(q, s)
      BY <2>2 DEF OutcomeOf, Settles, Pending
    <3> QED
      BY <2>1, <2>2, <3>1, FS_AddElement
  <2>3. CASE ~(q = p /\ s = status)
    <3>1. OutcomeOf(q, s)' = OutcomeOf(q, s)
      BY <2>3 DEF OutcomeOf, Settles, Pending
    <3> QED
      BY <2>1, <2>3, <3>1
  <2> QED
    BY <2>2, <2>3
<1>5. \A q \in Providers :
        /\ providers[q].completedCalls = Cardinality(OutcomeOf(q, "Completed"))
        /\ providers[q].slashedCalls = Cardinality(OutcomeOf(q, "Slashed"))
  BY DEF OutcomesCounted, OutcomeOf
<1>6. \A q \in Providers :
        /\ providers'[q].completedCalls = Cardinality(OutcomeOf(q, "Completed")')
        /\ providers'[q].slashedCalls = Cardinality(OutcomeOf(q, "Slashed")')
  <2> SUFFICES ASSUME NEW q \in Providers
               PROVE  /\ providers'[q].completedCalls = Cardinality(OutcomeOf(q, "Completed")')
                      /\ providers'[q].slashedCalls = Cardinality(OutcomeOf(q, "Slashed")')
    OBVIOUS
  <2>1. Cardinality(OutcomeOf(q, "Completed")')
          = Cardinality(OutcomeOf(q, "Completed")) + (IF q = p /\ status = "Completed" THEN 1 ELSE 0)
    BY <1>4
  <2>2. Cardinality(OutcomeOf(q, "Slashed")')
          = Cardinality(OutcomeOf(q, "Slashed")) + (IF q = p /\ status = "Slashed" THEN 1 ELSE 0)
    BY <1>4
  <2> QED
    BY <1>5, <2>1, <2>2
<1> QED
  BY <1>3, <1>6 DEF OutcomesCounted, OutcomeOf

(* Nothing but a settlement touches the two outcome counters.              *)
LEMMA RegistryOutcomes ==
  ASSUME Inv, RegistryStep \/ Tick
  PROVE  \A q \in Providers : OutcomesUnchanged(q)
<1>1. providers \in [Providers -> Provider]
  BY DEF Inv, TypeOK, RegistryTypeOK
<1>2. ASSUME UNCHANGED providers PROVE \A q \in Providers : OutcomesUnchanged(q)
  BY <1>2 DEF OutcomesUnchanged
<1>3. ASSUME NEW s \in Slashers, NEW p \in Providers, NEW amount \in SlashAmounts,
             Slash(s, p, amount)
      PROVE  \A q \in Providers : OutcomesUnchanged(q)
  BY <1>1, <1>3 DEF Slash, Slashed, OutcomesUnchanged, Provider
<1>4. ASSUME NEW p \in Providers, NEW key, NEW amount, NEW price, NEW t, NEW cap,
             Register(p, key, amount, price, t, cap)
      PROVE  \A q \in Providers : OutcomesUnchanged(q)
  <2>1. providers[p] = NoProvider
    BY <1>4 DEF Register, Inv, ProvidersWellFormed, Registered
  <2> QED
    BY <1>1, <1>4, <2>1 DEF Register, OutcomesUnchanged, NoProvider
<1>5. ASSUME NEW p \in Providers,
             \/ \E amount \in StakeAmounts : AddStake(p, amount)
             \/ Deactivate(p) \/ Unstake(p)
             \/ \E price \in Prices : UpdatePrice(p, price)
             \/ \E key \in Signers : UpdateSigner(p, key)
             \/ \E cap \in Caps : UpdateMaxConcurrentCalls(p, cap)
      PROVE  \A q \in Providers : OutcomesUnchanged(q)
  BY <1>1, <1>5 DEF AddStake, Deactivate, Unstake, UpdatePrice, UpdateSigner,
                    UpdateMaxConcurrentCalls, OutcomesUnchanged, Provider
<1>6. ASSUME NEW p \in Providers, TermsStep(p)
      PROVE  UNCHANGED providers
  BY <1>6 DEF TermsStep, ProposeTermsUpdate, ExecuteTermsUpdate, CancelTermsUpdate
<1>7. AdminStep \/ Tick => UNCHANGED providers
  BY DEF AdminStep, SetPayPerCall, TransferAdmin, AuthorizeSlasher, RevokeSlasher, Tick
<1> QED
  BY <1>2, <1>3, <1>4, <1>5, <1>6, <1>7 DEF RegistryStep, OwnerStep

LEMMA CountersStep ==
  ASSUME Inv, OpenCountExact, OutcomesCounted, [Next]_vars
  PROVE  OpenCountExact' /\ OutcomesCounted'
<1>1. providers \in [Providers -> Provider]
  BY DEF Inv, TypeOK, RegistryTypeOK
<1>2. ASSUME UNCHANGED <<calls, openCallsPerCaller>>, \A q \in Providers : OutcomesUnchanged(q)
      PROVE  OpenCountExact' /\ OutcomesCounted'
  <2>1. OpenCountExact'
    BY <1>2 DEF OpenCountExact, OpenOf, PendingOf, Pending
  <2>2. \A q \in Providers, s \in {"Completed", "Slashed"} : OutcomeOf(q, s)' = OutcomeOf(q, s)
    BY <1>2 DEF OutcomeOf
  <2> QED
    BY <1>2, <2>1, <2>2 DEF OutcomesCounted, OutcomeOf, OutcomesUnchanged
<1>3. CASE (RegistryStep \/ Tick) /\ UNCHANGED callVars
  BY <1>2, <1>3, RegistryOutcomes DEF callVars
<1>4. CASE OpenStep
  <2>1. PICK p \in Providers, caller \in Addresses, payer \in Accounts : CreateCall(p, caller, payer)
    BY <1>4, OpenStepCreates
  <2>2. Creates(p, caller)
    BY <2>1, CreateCallCreates
  <2>3. openCallsPerCaller' = [openCallsPerCaller EXCEPT ![p][caller] = @ + 1]
        /\ \A q \in Providers : OutcomesUnchanged(q)
    BY <1>1, <2>1 DEF CreateCall, CallStarted, OutcomesUnchanged, Provider
  <2> QED
    BY <2>2, <2>3, OpeningCounted
<1>5. CASE ReceiptStep
  <2>1. PICK c \in CallIds, v \in Versions, key \in Signers :
          \E t \in RespondedAt(c) : SubmitReceipt(c, t, v, key)
    BY <1>5 DEF ReceiptStep
  <2>2. Settles(c, "Completed")
    BY <2>1, ReceiptSettles
  <2>3. calls[c].provider \in Providers
    BY <2>2, PendingCallFacts DEF Settles
  <2>4. \A q \in Providers :
          /\ providers'[q].completedCalls = providers[q].completedCalls
               + (IF q = calls[c].provider THEN 1 ELSE 0)
          /\ providers'[q].slashedCalls = providers[q].slashedCalls + 0
    BY <1>1, <2>1, <2>3 DEF SubmitReceipt, IncCompleted, CallFinished, Provider
  <2>5. openCallsPerCaller' =
          OpenCallsDecremented(openCallsPerCaller, calls[c].provider, calls[c].caller)
    BY <2>1 DEF SubmitReceipt
  <2> QED
    BY <2>2, <2>4, <2>5, SettlingCounted
<1>6. CASE \E c \in CallIds : TimeoutStep(c)
  <2>1. PICK c \in CallIds, k \in Keepers : ClaimTimeout(c, k)
    BY <1>6 DEF TimeoutStep
  <2>2. Settles(c, "Slashed")
    BY <2>1, TimeoutSettles
  <2>3. calls[c].provider \in Providers
    BY <2>2, PendingCallFacts DEF Settles
  <2>4. \A q \in Providers :
          /\ providers'[q].completedCalls = providers[q].completedCalls + 0
          /\ providers'[q].slashedCalls = providers[q].slashedCalls
               + (IF q = calls[c].provider THEN 1 ELSE 0)
    BY <1>1, <2>1, <2>3 DEF ClaimTimeout, AfterTimeout, Book, Slashed, IncSlashed, CallFinished,
                            Provider
  <2>5. openCallsPerCaller' =
          OpenCallsDecremented(openCallsPerCaller, calls[c].provider, calls[c].caller)
    BY <2>1 DEF ClaimTimeout, AfterTimeout, Book
  <2> QED
    BY <2>2, <2>4, <2>5, SettlingCounted
<1>7. CASE \E a \in Accounts : Claim(a)
  BY <1>2, <1>7 DEF Claim, OutcomesUnchanged
<1>8. CASE UNCHANGED vars
  BY <1>2, <1>8 DEF vars, registryVars, callVars, OutcomesUnchanged
<1> QED
  BY <1>3, <1>4, <1>5, <1>6, <1>7, <1>8 DEF Next, CallStep

LEMMA CountersInit == Init => OpenCountExact /\ OutcomesCounted
<1> SUFFICES ASSUME Init PROVE OpenCountExact /\ OutcomesCounted
  OBVIOUS
<1>1. \A p \in Providers, a \in Addresses : OpenOf(p, a) = {}
  BY DEF Init, CallInit, OpenOf, PendingOf, Pending, NoCall
<1>2. \A p \in Providers, s \in {"Completed", "Slashed"} : OutcomeOf(p, s) = {}
  BY DEF Init, CallInit, OutcomeOf, NoCall
<1> QED
  BY <1>1, <1>2, FS_EmptySet
     DEF Init, RegistryInit, CallInit, OpenCountExact, OutcomesCounted, OutcomeOf, NoProvider

(* Each of the four counters the contracts keep is the number of calls it  *)
(* stands for: none is lost, and none counted twice, whichever way and in  *)
(* whichever order the calls end.                                          *)
THEOREM CountersAreExact == Spec => []CountersExact
<1>1. Inv /\ (OpenCountExact /\ OutcomesCounted) => CountersExact
  BY DEF Inv, CountersExact
<1>2. Inv /\ (OpenCountExact /\ OutcomesCounted) /\ [Next]_vars => (OpenCountExact /\ OutcomesCounted)'
  BY CountersStep
<1> QED
  BY Invariant, CountersInit, <1>1, <1>2, PTL DEF Spec

-----------------------------------------------------------------------------
(* Money.                                                                  *)

LEMMA SetsFinite == IsFiniteSet(Providers) /\ IsFiniteSet(Addresses) /\ IsFiniteSet(PendingCalls)
BY RegistryAssumption, FS_Subset, FS_Union, IdsFinite DEF PendingCalls

(* Between two addresses that differ a transfer moves exactly the amount.  *)
LEMMA TransferMoves ==
  ASSUME NEW ledger \in [Addresses -> Nat], NEW from \in Addresses, NEW to \in Addresses,
         from # to, NEW amount \in Nat
  PROVE  LET after == Transfer(ledger, from, to, amount) IN
         /\ after[from] = ledger[from] - amount
         /\ after[to] = ledger[to] + amount
         /\ \A x \in Addresses \ {from, to} : after[x] = ledger[x]
BY DEF Transfer, Credit

LEMMA CreditTotal ==
  ASSUME NEW ledger \in [Addresses -> Nat], NEW who \in Addresses, NEW amount \in Nat
  PROVE  Total(Credit(ledger, who, amount), Addresses) = Total(ledger, Addresses) + amount
<1> DEFINE after == Credit(ledger, who, amount)
           A == Addresses
<1>1. /\ \A x \in A : ledger[x] \in Nat /\ after[x] \in Nat
      /\ after[who] = ledger[who] + amount
      /\ \A x \in A \ {who} : after[x] = ledger[x]
  BY DEF Credit
<1>2. IsFiniteSet(A) /\ who \in A /\ ledger[who] \in Nat
  BY SetsFinite
<1> HIDE DEF after, A
<1>3. Total(after, A) = Total(ledger, A) - ledger[who] + after[who]
  BY <1>1, <1>2, TotalChange
<1>4. Total(ledger, A) \in Nat
  BY <1>1, <1>2, TotalNat
<1> QED
  BY <1>1, <1>2, <1>3, <1>4 DEF after, A

(* One provider's stake and the registry's balance move together.          *)
LEMMA StakeMoves ==
  ASSUME Inv, Inv', StakeBacked, NEW p \in Providers,
         \A q \in Providers \ {p} : providers'[q].stake = providers[q].stake,
         balance'[Registry] = balance[Registry] - providers[p].stake + providers'[p].stake
  PROVE  StakeBacked'
<1> DEFINE f == StakeOf
           h == [q \in Owners |-> providers'[q].stake]
           P == Owners
<1>1. \A q \in P : providers[q].stake \in Nat /\ providers'[q].stake \in Nat
  BY DEF Inv, TypeOK, RegistryTypeOK, Provider
<1>2. /\ \A q \in P : f[q] \in Nat /\ h[q] \in Nat
      /\ \A q \in P \ {p} : h[q] = f[q]
      /\ f[p] = providers[p].stake /\ h[p] = providers'[p].stake
  BY <1>1 DEF StakeOf
<1>3. StakeOf' = h
  BY DEF StakeOf
<1>4. IsFiniteSet(P) /\ p \in P
  BY SetsFinite
<1>5. balance[Registry] = Total(f, P)
  BY DEF StakeBacked
<1> HIDE DEF f, h, P
<1>6. Total(h, P) = Total(f, P) - f[p] + h[p]
  BY <1>2, <1>4, TotalChange
<1>7. balance'[Registry] = Total(h, P)
  BY <1>2, <1>5, <1>6
<1> QED
  BY <1>3, <1>7 DEF StakeBacked, P

LEMMA StakeStays ==
  ASSUME StakeBacked, \A q \in Providers : providers'[q].stake = providers[q].stake,
         balance'[Registry] = balance[Registry]
  PROVE  StakeBacked'
<1>1. StakeOf' = StakeOf
  BY DEF StakeOf
<1> QED
  BY <1>1 DEF StakeBacked

(* What the registry does on its own never touches PayPerCall's balance.   *)
LEMMA RegistryMoney ==
  ASSUME Inv, Inv', StakeBacked, RegistryStep \/ Tick
  PROVE  StakeBacked' /\ balance'[PPC] = balance[PPC]
<1> USE DEF StakeBacked
<1>1. /\ providers \in [Providers -> Provider] /\ balance \in [Addresses -> Nat]
      /\ providers' \in [Providers -> Provider]
      /\ \A q \in Providers : providers[q].stake \in Nat /\ providers'[q].stake \in Nat
  BY DEF Inv, TypeOK, RegistryTypeOK, Provider
<1>2. /\ Registry \in Addresses /\ PPC \in Addresses /\ Registry # PPC
      /\ \A p \in Providers : p \in Addresses /\ p # Registry /\ p # PPC
      /\ \A s \in Slashers : s \in Addresses /\ s # Registry /\ s # PPC
      /\ balance[Registry] \in Nat
  BY <1>1, RegistryAssumption
<1> HIDE DEF StakeBacked
<1>3. ASSUME UNCHANGED balance, \A q \in Providers : providers'[q].stake = providers[q].stake
      PROVE  StakeBacked' /\ balance'[PPC] = balance[PPC]
  BY <1>3, StakeStays
<1>4. ASSUME NEW p \in Providers, NEW amount \in Nat,
             balance' = Transfer(balance, p, Registry, amount),
             \A q \in Providers \ {p} : providers'[q].stake = providers[q].stake,
             providers'[p].stake = providers[p].stake + amount
      PROVE  StakeBacked' /\ balance'[PPC] = balance[PPC]
  <2> DEFINE after == Transfer(balance, p, Registry, amount)
  <2>1. after[Registry] = balance[Registry] + amount /\ after[PPC] = balance[PPC]
    <3>1. p \in Addresses /\ p # Registry /\ PPC \in Addresses \ {p, Registry}
      BY <1>2
    <3>2. balance \in [Addresses -> Nat] /\ Registry \in Addresses
      BY <1>1, <1>2
    <3> HIDE DEF Addresses, Providers
    <3> QED
      BY <3>1, <3>2, TransferMoves
  <2> HIDE DEF after
  <2>2. balance'[Registry] = balance[Registry] + amount /\ balance'[PPC] = balance[PPC]
    BY <1>4, <2>1 DEF after
  <2>3. balance'[Registry] = balance[Registry] - providers[p].stake + providers'[p].stake
    BY <1>1, <1>2, <1>4, <2>2
  <2> QED
    BY <1>4, <2>2, <2>3, StakeMoves
<1>5. ASSUME NEW p \in Providers, NEW to \in Addresses, to # Registry, to # PPC,
             NEW amount \in Nat, balance' = Transfer(balance, Registry, to, amount),
             \A q \in Providers \ {p} : providers'[q].stake = providers[q].stake,
             providers'[p].stake = providers[p].stake - amount
      PROVE  StakeBacked' /\ balance'[PPC] = balance[PPC]
  <2> DEFINE after == Transfer(balance, Registry, to, amount)
  <2>1. after[Registry] = balance[Registry] - amount /\ after[PPC] = balance[PPC]
    <3>1. PPC \in Addresses \ {Registry, to} /\ to # Registry
      BY <1>2, <1>5
    <3>2. balance \in [Addresses -> Nat] /\ Registry \in Addresses
      BY <1>1, <1>2
    <3> HIDE DEF Addresses, Providers
    <3> QED
      BY <3>1, <3>2, TransferMoves
  <2> HIDE DEF after
  <2>2. balance'[Registry] = balance[Registry] - amount /\ balance'[PPC] = balance[PPC]
    BY <1>5, <2>1 DEF after
  <2>3. balance'[Registry] = balance[Registry] - providers[p].stake + providers'[p].stake
    BY <1>1, <1>2, <1>5, <2>2
  <2> QED
    BY <1>5, <2>2, <2>3, StakeMoves
<1>6. CASE AdminStep \/ Tick
  BY <1>3, <1>6 DEF AdminStep, SetPayPerCall, TransferAdmin, AuthorizeSlasher, RevokeSlasher, Tick
<1>7. ASSUME NEW s \in Slashers, NEW p \in Providers, NEW amount \in SlashAmounts,
             Slash(s, p, amount)
      PROVE  StakeBacked' /\ balance'[PPC] = balance[PPC]
  <2>1. /\ \A q \in Providers \ {p} : providers'[q].stake = providers[q].stake
        /\ providers'[p].stake = providers[p].stake - amount
    BY <1>1, <1>7 DEF Slash, Slashed, Provider
  <2>2. amount \in Nat /\ balance' = Transfer(balance, Registry, s, amount)
    BY <1>7, RegistryAssumption DEF Slash
  <2> QED
    BY <1>2, <1>5, <2>1, <2>2
<1>8. ASSUME NEW p \in Providers, NEW key, NEW amount \in StakeAmounts, NEW price, NEW t, NEW cap,
             Register(p, key, amount, price, t, cap)
      PROVE  StakeBacked' /\ balance'[PPC] = balance[PPC]
  <2>1. providers[p].stake = 0
    BY <1>8 DEF Register, Inv, ProvidersWellFormed, Registered, NoProvider
  <2>2. /\ \A q \in Providers \ {p} : providers'[q].stake = providers[q].stake
        /\ providers'[p].stake = amount
    BY <1>1, <1>8 DEF Register, NoProvider
  <2>3. amount \in Nat /\ balance' = Transfer(balance, p, Registry, amount)
    BY <1>8, RegistryAssumption DEF Register
  <2> QED
    BY <1>4, <2>1, <2>2, <2>3
<1>9. ASSUME NEW p \in Providers, NEW amount \in StakeAmounts, AddStake(p, amount)
      PROVE  StakeBacked' /\ balance'[PPC] = balance[PPC]
  <2>1. /\ \A q \in Providers \ {p} : providers'[q].stake = providers[q].stake
        /\ providers'[p].stake = providers[p].stake + amount
    BY <1>1, <1>9 DEF AddStake, Provider
  <2>2. amount \in Nat /\ balance' = Transfer(balance, p, Registry, amount)
    BY <1>9, RegistryAssumption DEF AddStake
  <2> QED
    BY <1>4, <2>1, <2>2
<1>10. ASSUME NEW p \in Providers, Unstake(p)
       PROVE  StakeBacked' /\ balance'[PPC] = balance[PPC]
  <2>1. /\ \A q \in Providers \ {p} : providers'[q].stake = providers[q].stake
        /\ providers'[p].stake = providers[p].stake - providers[p].stake
    BY <1>1, <1>10 DEF Unstake, Provider
  <2>2. providers[p].stake \in Nat /\ balance' = Transfer(balance, Registry, p, providers[p].stake)
    BY <1>1, <1>10 DEF Unstake
  <2> QED
    BY <1>2, <1>5, <2>1, <2>2
<1>11. ASSUME NEW p \in Providers,
              \/ Deactivate(p)
              \/ \E price \in Prices : UpdatePrice(p, price)
              \/ \E key \in Signers : UpdateSigner(p, key)
              \/ \E cap \in Caps : UpdateMaxConcurrentCalls(p, cap)
              \/ TermsStep(p)
       PROVE  StakeBacked' /\ balance'[PPC] = balance[PPC]
  <2>1. UNCHANGED balance /\ \A q \in Providers : providers'[q].stake = providers[q].stake
    BY <1>1, <1>11 DEF Deactivate, UpdatePrice, UpdateSigner, UpdateMaxConcurrentCalls, TermsStep,
                       ProposeTermsUpdate, ExecuteTermsUpdate, CancelTermsUpdate, Provider
  <2> QED
    BY <1>3, <2>1
<1> QED
  BY <1>6, <1>7, <1>8, <1>9, <1>10, <1>11 DEF RegistryStep, OwnerStep

(* What is in escrow: a new call adds its price, a settled one takes it    *)
(* out.                                                                    *)
EscrowTotal == Total(Escrowed, PendingCalls)
CreditTotals == Total(claimable, Addresses)

LEMMA EscrowedNat ==
  ASSUME Inv
  PROVE  /\ \A c \in CallIds : Escrowed[c] \in Nat
         /\ EscrowTotal \in Nat /\ CreditTotals \in Nat
<1>1. \A c \in CallIds : Escrowed[c] \in Nat
  BY DEF Escrowed, Inv, TypeOK, Call
<1>2. \A a \in Addresses : claimable[a] \in Nat
  BY DEF Inv, TypeOK
<1>3. IsFiniteSet(PendingCalls) /\ \A c \in PendingCalls : Escrowed[c] \in Nat
  BY <1>1, SetsFinite DEF PendingCalls
<1> QED
  BY <1>1, <1>2, <1>3, SetsFinite, TotalNat DEF EscrowTotal, CreditTotals

LEMMA CreateEscrows ==
  ASSUME Inv, Inv', NEW p \in Providers, NEW caller \in Addresses, Creates(p, caller)
  PROVE  EscrowTotal' = EscrowTotal + providers[p].price
<1> DEFINE old == Escrowed
           new == [c \in 0..(MaxCalls - 1) |-> calls'[c].amount]
           S == PendingCalls
<1>1. Escrowed' = new
  BY DEF Escrowed
<1>2. PendingCalls' = S \cup {nonce} /\ nonce \notin S
  BY DEF PendingCalls, Pending, Creates
<1>3. \A c \in S : old[c] = new[c]
  BY DEF Escrowed, PendingCalls, Pending, Creates
<1>4. \A c \in S \cup {nonce} : new[c] \in Nat
  BY DEF PendingCalls, Creates, Inv, TypeOK, Call
<1>5. new[nonce] = providers[p].price
  BY DEF Creates
<1>6. IsFiniteSet(S)
  BY SetsFinite
<1>7. EscrowTotal = Total(old, S)
  BY DEF EscrowTotal
<1>8. EscrowTotal' = Total(new, S \cup {nonce})
  BY <1>1, <1>2 DEF EscrowTotal
<1>9. Total(old, S) \in Nat /\ providers[p].price \in Nat
  BY EscrowedNat DEF EscrowTotal, Inv, TypeOK, RegistryTypeOK, Provider
<1> HIDE DEF old, new, S
<1>10. Total(new, S \cup {nonce}) = new[nonce] + Total(new, S)
  BY <1>2, <1>4, <1>6, TotalAdd
<1>11. Total(old, S) = Total(new, S)
  BY <1>3, <1>6, TotalSame
<1> QED
  BY <1>5, <1>7, <1>8, <1>9, <1>10, <1>11

LEMMA SettleReleases ==
  ASSUME Inv, NEW c \in CallIds, NEW status \in {"Completed", "Slashed"}, Settles(c, status)
  PROVE  EscrowTotal' = EscrowTotal - calls[c].amount
<1> DEFINE old == Escrowed
           S == PendingCalls
<1>1. Escrowed' = old
  BY DEF Escrowed, Settles
<1>2. PendingCalls' = S \ {c}
  BY DEF PendingCalls, Pending, Settles
<1>3. c \in S /\ \A d \in S : old[d] \in Nat
  BY EscrowedNat DEF PendingCalls, Settles
<1>4. old[c] = calls[c].amount
  BY DEF Escrowed
<1>5. IsFiniteSet(S) /\ IsFiniteSet(S \ {c})
  BY SetsFinite, FS_Subset
<1>6. EscrowTotal = Total(old, S)
  BY DEF EscrowTotal
<1>7. EscrowTotal' = Total(old, S \ {c})
  BY <1>1, <1>2 DEF EscrowTotal
<1> HIDE DEF old, S
<1>8. Total(old, S) = old[c] + Total(old, S \ {c})
  <2>1. c \in S /\ IsFiniteSet(S)
    BY <1>3, <1>5
  <2>2. \A d \in S : old[d] \in Nat
    BY <1>3
  <2> HIDE DEF CallIds
  <2> QED
    BY <2>1, <2>2, TotalTakeOut
<1>9. Total(old, S \ {c}) \in Nat
  <2>1. \A d \in S \ {c} : old[d] \in Nat
    BY <1>3
  <2> QED
    BY <1>5, <2>1, TotalNat
<1> QED
  BY <1>2, <1>3, <1>4, <1>6, <1>7, <1>8, <1>9

LEMMA BalanceFacts ==
  ASSUME Inv
  PROVE  /\ balance \in [Addresses -> Nat] /\ claimable \in [Addresses -> Nat]
         /\ Registry \in Addresses /\ PPC \in Addresses /\ Registry # PPC
         /\ \A a \in Accounts : a \in Addresses /\ a # Registry /\ a # PPC
         /\ balance[Registry] \in Nat /\ balance[PPC] \in Nat
BY RegistryAssumption DEF Inv, TypeOK, RegistryTypeOK

Funded == balance[PPC] = EscrowTotal + CreditTotals

LEMMA OpenMoney ==
  ASSUME Inv, Inv', StakeBacked, Funded, OpenStep
  PROVE  StakeBacked' /\ Funded'
<1>1. PICK p \in Providers, caller \in Addresses, payer \in Accounts : CreateCall(p, caller, payer)
  BY OpenStepCreates
<1> DEFINE price == providers[p].price
           after == Transfer(balance, payer, PPC, price)
<1>2. price \in Nat /\ \A q \in Providers : providers'[q].stake = providers[q].stake
  <2>1. providers' = CallStarted(providers, p)
    BY <1>1 DEF CreateCall
  <2>2. providers \in [Providers -> Provider]
    BY DEF Inv, TypeOK, RegistryTypeOK
  <2> QED
    BY <2>1, <2>2 DEF CallStarted, Provider
<1>3. balance' = after /\ UNCHANGED claimable
  BY <1>1 DEF CreateCall
<1>4. EscrowTotal' = EscrowTotal + price
  BY <1>1, CreateCallCreates, CreateEscrows
<1> HIDE DEF price
<1>5. after[PPC] = balance[PPC] + price /\ after[Registry] = balance[Registry]
  <2>1. /\ payer \in Addresses /\ payer # PPC /\ PPC \in Addresses
        /\ Registry \in Addresses \ {payer, PPC} /\ balance \in [Addresses -> Nat]
    BY BalanceFacts
  <2> HIDE DEF Addresses, Providers
  <2> QED
    BY <1>2, <2>1, TransferMoves
<1> HIDE DEF after
<1>6. StakeBacked'
  BY <1>2, <1>3, <1>5, StakeStays
<1>7. CreditTotals' = CreditTotals
  BY <1>3 DEF CreditTotals
<1>8. EscrowTotal \in Nat /\ CreditTotals \in Nat
  BY EscrowedNat
<1> QED
  BY <1>2, <1>3, <1>4, <1>5, <1>6, <1>7, <1>8 DEF Funded

LEMMA ReceiptMoney ==
  ASSUME Inv, StakeBacked, Funded, NEW c \in CallIds, NEW t, NEW v, NEW key,
         SubmitReceipt(c, t, v, key)
  PROVE  StakeBacked' /\ Funded'
<1> DEFINE amount == calls[c].amount
           p == calls[c].provider
<1>1. Settles(c, "Completed")
  BY ReceiptSettles
<1>2. amount \in Nat /\ p \in Addresses /\ p \in Providers
  BY <1>1, PendingCallFacts, RegistryAssumption DEF Settles
<1>3. EscrowTotal' = EscrowTotal - amount
  BY <1>1, SettleReleases
<1>4. UNCHANGED balance /\ claimable' = Credit(claimable, p, amount)
  BY DEF SubmitReceipt
<1>5. \A q \in Providers : providers'[q].stake = providers[q].stake
  BY <1>2 DEF SubmitReceipt, IncCompleted, CallFinished, Inv, TypeOK, RegistryTypeOK, Provider
<1>6. StakeBacked'
  BY <1>4, <1>5, StakeStays
<1> HIDE DEF amount, p
<1>7. CreditTotals' = CreditTotals + amount
  BY <1>2, <1>4, BalanceFacts, CreditTotal DEF CreditTotals
<1>8. EscrowTotal \in Nat /\ CreditTotals \in Nat
  BY EscrowedNat
<1> QED
  BY <1>2, <1>3, <1>4, <1>6, <1>7, <1>8 DEF Funded

LEMMA TimeoutMoney ==
  ASSUME Inv, Inv', StakeBacked, Funded, NEW c \in CallIds, NEW sender \in Accounts,
         ClaimTimeout(c, sender)
  PROVE  StakeBacked' /\ Funded'
<1> DEFINE amount == calls[c].amount
           p == calls[c].provider
           caller == calls[c].caller
           slash == SlashAmount(Book, c)
           bounty == KeeperBounty(slash)
           refund == amount + (slash - bounty)
           refunded == Credit(claimable, caller, refund)
           after == Transfer(balance, Registry, PPC, slash)
<1>1. Settles(c, "Slashed")
  BY TimeoutSettles
<1>2. amount \in Nat /\ p \in Providers /\ caller \in Addresses /\ providers[p].stake \in Nat
  BY <1>1, PendingCallFacts DEF Settles, Provider
<1>3. slash \in Nat /\ bounty \in Nat /\ bounty <= slash
  BY SlashFacts DEF ClaimTimeout
<1>4. EscrowTotal' = EscrowTotal - amount
  BY <1>1, SettleReleases
<1>5. /\ balance' = after
      /\ claimable' = Credit(refunded, sender, bounty)
  BY DEF ClaimTimeout, AfterTimeout, Book
<1>6. providers' = Slashed(IncSlashed(CallFinished(providers, p), p), p, slash)
  BY DEF ClaimTimeout, AfterTimeout, Book
<1> HIDE DEF slash, bounty, amount, p, caller
<1>7. /\ \A q \in Providers \ {p} : providers'[q].stake = providers[q].stake
      /\ providers'[p].stake = providers[p].stake - slash
  BY <1>2, <1>6 DEF Slashed, IncSlashed, CallFinished, Inv, TypeOK, RegistryTypeOK, Provider
<1>8. after[PPC] = balance[PPC] + slash /\ after[Registry] = balance[Registry] - slash
  <2>1. /\ balance \in [Addresses -> Nat] /\ Registry \in Addresses /\ PPC \in Addresses
        /\ Registry # PPC
    BY BalanceFacts
  <2> HIDE DEF Addresses, Providers
  <2> QED
    BY <1>3, <2>1, TransferMoves
<1> HIDE DEF after
<1>9. StakeBacked'
  <2>1. balance'[Registry] = balance[Registry] - providers[p].stake + providers'[p].stake
    BY <1>2, <1>3, <1>5, <1>7, <1>8, BalanceFacts
  <2> QED
    BY <1>2, <1>7, <2>1, StakeMoves
<1>10. refund \in Nat /\ refund + bounty = amount + slash
  BY <1>2, <1>3
<1> HIDE DEF refund
<1>11. Total(refunded, Addresses) = CreditTotals + refund /\ refunded \in [Addresses -> Nat]
  BY <1>2, <1>10, BalanceFacts, CreditTotal, CreditType DEF CreditTotals
<1> HIDE DEF refunded
<1>12. CreditTotals' = CreditTotals + refund + bounty
  <2>1. sender \in Addresses
    BY BalanceFacts
  <2>2. Total(claimable', Addresses) = Total(refunded, Addresses) + bounty
    BY <1>3, <1>5, <1>11, <2>1, CreditTotal
  <2> QED
    BY <1>11, <2>2 DEF CreditTotals
<1>13. EscrowTotal \in Nat /\ CreditTotals \in Nat
  BY EscrowedNat
<1>14. Funded'
  <2>1. balance'[PPC] = EscrowTotal + CreditTotals + slash
    BY <1>5, <1>8 DEF Funded
  <2> QED
    BY <1>2, <1>3, <1>4, <1>10, <1>12, <1>13, <2>1 DEF Funded
<1> QED
  BY <1>9, <1>14

LEMMA ClaimMoney ==
  ASSUME Inv, Inv', StakeBacked, Funded, NEW a \in Accounts, Claim(a)
  PROVE  StakeBacked' /\ Funded'
<1> DEFINE due == claimable[a]
           after == Transfer(balance, PPC, a, due)
           A == Accounts \cup Contracts
<1>1. /\ UNCHANGED <<providers, calls>> /\ balance' = after
      /\ claimable' = [claimable EXCEPT ![a] = 0]
  BY DEF Claim
<1>2. due \in Nat /\ a \in A
  BY BalanceFacts
<1> HIDE DEF due
<1>3. after[PPC] = balance[PPC] - due /\ after[Registry] = balance[Registry]
  <2>1. /\ balance \in [Addresses -> Nat] /\ a \in Addresses /\ PPC \in Addresses
        /\ PPC # a /\ Registry \in Addresses \ {PPC, a}
    BY BalanceFacts
  <2> HIDE DEF Addresses, Providers
  <2> QED
    BY <1>2, <2>1, TransferMoves
<1> HIDE DEF after
<1>4. StakeBacked'
  BY <1>1, <1>3, StakeStays
<1>5. EscrowTotal' = EscrowTotal
  BY <1>1 DEF EscrowTotal, Escrowed, PendingCalls, Pending
<1>6. /\ \A y \in A : claimable[y] \in Nat /\ claimable'[y] \in Nat
      /\ \A y \in A \ {a} : claimable'[y] = claimable[y]
      /\ claimable'[a] = 0 /\ claimable[a] = due
  BY <1>1, <1>2, BalanceFacts DEF due
<1>7. IsFiniteSet(A) /\ CreditTotals = Total(claimable, A)
      /\ CreditTotals' = Total(claimable', A)
  BY SetsFinite DEF CreditTotals
<1> HIDE DEF A
<1>8. Total(claimable', A) = Total(claimable, A) - claimable[a] + claimable'[a]
  BY <1>2, <1>6, <1>7, TotalChange
<1>9. EscrowTotal \in Nat /\ CreditTotals \in Nat
  BY EscrowedNat
<1> QED
  BY <1>1, <1>2, <1>3, <1>4, <1>5, <1>6, <1>7, <1>8, <1>9 DEF Funded

LEMMA MoneyStep ==
  ASSUME Inv, StakeBacked, Funded, [Next]_vars
  PROVE  StakeBacked' /\ Funded'
<1>1. Inv'
  BY StepInv
<1>2. ASSUME UNCHANGED callVars
      PROVE  EscrowTotal' = EscrowTotal /\ CreditTotals' = CreditTotals
  BY <1>2 DEF callVars, EscrowTotal, Escrowed, PendingCalls, Pending, CreditTotals
<1>3. CASE (RegistryStep \/ Tick) /\ UNCHANGED callVars
  BY <1>1, <1>2, <1>3, RegistryMoney DEF Funded
<1>4. CASE OpenStep
  BY <1>1, <1>4, OpenMoney
<1>5. CASE ReceiptStep
  BY <1>5, ReceiptMoney DEF ReceiptStep
<1>6. CASE \E c \in CallIds : TimeoutStep(c)
  BY <1>1, <1>6, TimeoutMoney, PayPerCallAssumption DEF TimeoutStep
<1>7. CASE \E a \in Accounts : Claim(a)
  BY <1>1, <1>7, ClaimMoney
<1>8. CASE UNCHANGED vars
  <2>1. UNCHANGED <<callVars, providers, balance>>
    BY <1>8 DEF vars, registryVars
  <2> QED
    BY <1>2, <2>1, StakeStays DEF Funded
<1> QED
  BY <1>3, <1>4, <1>5, <1>6, <1>7, <1>8 DEF Next, CallStep

LEMMA MoneyInit == Init => StakeBacked /\ Funded
<1> SUFFICES ASSUME Init PROVE StakeBacked /\ Funded
  OBVIOUS
<1>1. \A p \in Providers : StakeOf[p] = 0
  BY DEF Init, RegistryInit, StakeOf, NoProvider
<1>2. \A a \in Addresses : claimable[a] = 0
  BY DEF Init, CallInit
<1>3. PendingCalls = {}
  BY DEF Init, CallInit, PendingCalls, Pending, NoCall
<1>4. balance[Registry] = 0 /\ balance[PPC] = 0
  BY RegistryAssumption DEF Init, RegistryInit
<1>5. Total(StakeOf, Providers) = 0 /\ CreditTotals = 0
  BY <1>1, <1>2, SetsFinite, TotalZero DEF CreditTotals
<1>6. EscrowTotal = 0
  BY <1>3, TotalEmpty DEF EscrowTotal
<1> QED
  BY <1>4, <1>5, <1>6 DEF StakeBacked, Funded

(* Neither contract ever owes more than it holds, or holds what it owes to *)
(* nobody: stake, escrow and credits are backed to the last unit for any   *)
(* number of parties, prices, slashes and bounties.                        *)
THEOREM MoneyIsCovered == Spec => []MoneyCovered
<1>1. Inv /\ (StakeBacked /\ Funded) /\ [Next]_vars => (StakeBacked /\ Funded)'
  BY MoneyStep
<1>2. StakeBacked /\ Funded => MoneyCovered
  BY DEF MoneyCovered, EscrowSolvent, Funded, EscrowTotal, CreditTotals
<1> QED
  BY Invariant, MoneyInit, <1>1, <1>2, PTL DEF Spec

-----------------------------------------------------------------------------
(* The way out.                                                            *)

LEMMA WayOut ==
  ASSUME Inv, VersionsContiguous, SnapshotIntact, StakeBacked, NEW c \in CallIds, Pending(c)
  PROVE  ReceiptWindow(c) # TimeoutWindow(c) /\ RegistryAcceptsTimeout(Book, c)
<1> DEFINE p == calls[c].provider
           v == calls[c].termsVersion
           slash == SlashAmount(Book, c)
<1>1. /\ p \in Providers /\ v \in Versions /\ providers[p] \in Provider
      /\ calls[c] \in Call /\ calls[c].status # "None"
  BY PendingCallFacts DEF Pending
<1>2. ReceiptWindow(c) # TimeoutWindow(c)
  <2>1. now \in Nat /\ calls[c].deadline + SubmitGrace \in Nat
    <3>1. calls[c].deadline \in Nat /\ SubmitGrace \in Nat
      BY <1>1, PayPerCallAssumption DEF Call
    <3>2. now \in Nat
      BY RegistryAssumption DEF Inv, TypeOK, RegistryTypeOK
    <3> QED
      BY <3>1, <3>2
  <2> QED
    BY <2>1 DEF ReceiptWindow, TimeoutWindow
<1>3. FinishAccepted(providers, p)
  <2>1. Cardinality(PendingOf(p)) # 0
    <3>1. c \in PendingOf(p)
      BY DEF PendingOf
    <3> QED
      BY <3>1, PendingFinite, FS_EmptySet
  <2>2. providers[p].pendingCalls # 0
    BY <1>1, <2>1 DEF Inv, PendingCountExact
  <2>3. providers[p].registered
    BY <1>1, <2>2 DEF Inv, ProvidersWellFormed, Registered, NoProvider
  <2> QED
    BY <2>2, <2>3 DEF FinishAccepted
<1>4. TermsPublished(p, v)
  BY <1>1 DEF SnapshotIntact
<1>5. terms[p][v].slashBps \in 0..Bps
  <2>1. ValidTerms(terms[p][v])
    BY <1>1, <1>4 DEF VersionsContiguous, TermsPublished
  <2>2. terms[p][v] \in Terms
    BY <1>1 DEF Inv, TypeOK, RegistryTypeOK
  <2>3. terms[p][v].slashBps \in Nat
    BY <2>2, RegistryAssumption DEF Terms, NoTerms
  <2> QED
    BY <2>1, <2>3, RegistryAssumption DEF ValidTerms
<1>6. providers[p].stake \in Nat
  BY <1>1 DEF Provider
<1>7. slash \in Nat /\ slash <= providers[p].stake
  <2>1. slash = Share(providers[p].stake, terms[p][v].slashBps)
    BY DEF SlashAmount, Book
  <2> HIDE DEF slash, p, v
  <2> QED
    BY <1>5, <1>6, <2>1, ShareBounded
<1>8. CanPay(balance, Registry, slash)
  <2> DEFINE f == StakeOf
             P == Owners
  <2>1. \A q \in P : f[q] \in Nat
    BY DEF StakeOf, Inv, TypeOK, RegistryTypeOK, Provider
  <2>2. IsFiniteSet(P) /\ p \in P /\ f[p] = providers[p].stake
    BY <1>1, SetsFinite DEF StakeOf
  <2>3. balance[Registry] = Total(f, P)
    BY DEF StakeBacked
  <2> HIDE DEF f, P, p
  <2>4. f[p] <= Total(f, P) /\ Total(f, P) \in Nat
    BY <2>1, <2>2, TotalBounds, TotalNat
  <2> HIDE DEF slash
  <2> QED
    BY <1>6, <1>7, <2>2, <2>3, <2>4 DEF CanPay
<1> HIDE DEF slash
<1>9. slash > 0 => SlashAccepted(providers, p, slash)
  BY <1>3, <1>6, <1>7 DEF SlashAccepted, FinishAccepted
<1>10. RegistryAcceptsTimeout(Book, c)
  BY <1>3, <1>4, <1>8, <1>9 DEF RegistryAcceptsTimeout, Book, slash
<1> QED
  BY <1>2, <1>10

(* No call is ever stuck and none can end twice: at every moment exactly   *)
(* one of the two transactions is in time, and when it is the timeout      *)
(* neither registry, stake nor balance can be in its way.                  *)
THEOREM OneWayOut == Spec => []AlwaysOneWayOut
<1> DEFINE Whole == /\ TermsInv /\ SnapshotIntact
                    /\ StakeBacked /\ Funded
<1>1. Init => Whole
  BY TermsInitInv, MoneyInit
<1>2. Inv /\ Whole /\ [Next]_vars => Whole'
  BY TermsStepInv, MoneyStep
<1>3. Inv /\ Whole => AlwaysOneWayOut
  BY WayOut DEF AlwaysOneWayOut, PendingCalls, TermsInv
<1> HIDE DEF Whole
<1> QED
  BY Invariant, <1>1, <1>2, <1>3, PTL DEF Spec
=============================================================================
