-------------------------- MODULE SLAClaims_proofs --------------------------
(***************************************************************************)
(* Proofs about the two contracts built on the escrow and the registry.    *)
(* SLAUptime holds a provider to the availability it published: whatever   *)
(* ends, is claimed, claimed again or refused, a call is charged for once. *)
(* SLAKeeper times calls out in batches: every claim of a batch sees what  *)
(* the earlier ones left, so the state between two claims has an           *)
(* invariant of its own, which a batch keeps because each claim does.      *)
(***************************************************************************)
EXTENDS SettlementV8_proofs, SLAUptime, SLAKeeper

USE DEF Providers, Addresses, Versions, Time, CallIds

-----------------------------------------------------------------------------
(* What is over stays over.                                                *)
Final(c) == calls[c].status \in {"Completed", "Slashed"}

OverStay ==
  \A c \in CallIds : Final(c) =>
    calls'[c].status = calls[c].status /\ calls'[c].provider = calls[c].provider

LEMMA NextOverStay ==
  ASSUME Inv, [Next]_vars
  PROVE  OverStay
<1>1. ASSUME UNCHANGED calls PROVE OverStay
  BY <1>1 DEF OverStay
<1>2. CASE OpenStep
  <2>1. PICK p \in Providers, caller \in Addresses, payer \in Accounts : CreateCall(p, caller, payer)
    BY <1>2, OpenStepCreates
  <2>2. Creates(p, caller)
    BY <2>1, CreateCallCreates
  <2> QED
    BY <2>2 DEF Creates, OverStay, Final
<1>3. ASSUME NEW c \in CallIds, NEW status, Settles(c, status) PROVE OverStay
  BY <1>3 DEF Settles, Pending, OverStay, Final
<1>4. CASE ReceiptStep
  BY <1>3, <1>4, ReceiptSettles DEF ReceiptStep
<1>5. CASE \E c \in CallIds : TimeoutStep(c)
  BY <1>3, <1>5, TimeoutSettles DEF TimeoutStep
<1>6. CASE (\E a \in Accounts : Claim(a)) \/ UNCHANGED callVars \/ UNCHANGED vars
  BY <1>1, <1>6 DEF Claim, callVars, vars
<1> QED
  BY <1>2, <1>4, <1>5, <1>6 DEF Next, CallStep

-----------------------------------------------------------------------------
(* The window of a provider holds the calls an earlier claim has counted,  *)
(* by outcome.                                                             *)
Counted(p, status) == {c \in scored : calls[c].provider = p /\ calls[c].status = status}

Window == [completed : Nat, slashed : Nat, checkedAt : Nat]

UptimeTypes ==
  /\ uptimeConfig \in UptimeConfig
  /\ windows \in [Providers -> Window]
  /\ scored \subseteq {c \in CallIds : Final(c)}

WindowsExact ==
  \A p \in Providers :
    /\ windows[p].completed = Cardinality(Counted(p, "Completed"))
    /\ windows[p].slashed = Cardinality(Counted(p, "Slashed"))

(* The inductive invariant: the registry's counters are the calls that are *)
(* over, the window's are those already charged for, so that their         *)
(* difference is what is left.                                             *)
UptimeInv ==
  /\ Inv /\ OpenCountExact /\ OutcomesCounted
  /\ UptimeTypes /\ WindowsExact
  /\ balance[SLAUptimeAddress] = 0

LEMMA UptimePlace ==
  /\ SLAUptimeAddress \in Contracts \ {Registry, PPC} /\ SLAUptimeAddress \in Addresses
  /\ SLAUptimeAddress \notin Accounts /\ SLAUptimeAddress # Registry
  /\ Registry \in Addresses /\ Accounts \subseteq Addresses
  /\ UptimeTreasuries \subseteq Addresses \ {SLAUptimeAddress}
BY RegistryAssumption, UptimeAssumption

LEMMA CountedFinite ==
  ASSUME UptimeTypes, NEW p, NEW status
  PROVE  IsFiniteSet(Counted(p, status)) /\ Cardinality(Counted(p, status)) \in Nat
BY IdsFinite DEF Counted, UptimeTypes

(* Settlements below add to what is over and leave what was counted alone. *)
LEMMA SettlementKeepsWindows ==
  ASSUME UptimeInv, [Next]_vars, UNCHANGED uptimeVars,
         balance'[SLAUptimeAddress] = balance[SLAUptimeAddress]
  PROVE  UptimeInv'
<1>1. Inv' /\ OpenCountExact' /\ OutcomesCounted'
  BY StepInv, CountersStep DEF UptimeInv
<1>2. OverStay
  BY NextOverStay DEF UptimeInv
<1>3. UptimeTypes'
  BY <1>2 DEF UptimeInv, UptimeTypes, uptimeVars, OverStay, Final
<1>4. \A p \in Providers, s \in {"Completed", "Slashed"} : Counted(p, s)' = Counted(p, s)
  BY <1>2 DEF UptimeInv, UptimeTypes, uptimeVars, OverStay, Counted
<1>5. WindowsExact'
  BY <1>4 DEF UptimeInv, WindowsExact, uptimeVars
<1> QED
  BY <1>1, <1>3, <1>5 DEF UptimeInv

-----------------------------------------------------------------------------
(* A claim that is paid.                                                   *)

(* The slash is within the stake; the two parts of it add up to it and     *)
(* leave in the transaction that brought it in.                            *)
LEMMA PaidOutLeavesNothing ==
  ASSUME NEW ledger \in [Addresses -> Nat], NEW sender \in Accounts, NEW amount \in Nat,
         uptimeConfig \in UptimeConfig, ledger[SLAUptimeAddress] = amount
  PROVE  /\ PaidOut(ledger, amount, sender) \in [Addresses -> Nat]
         /\ PaidOut(ledger, amount, sender)[SLAUptimeAddress] = 0
<1> DEFINE bounty == Share(amount, uptimeConfig.bountyBps)
           rest == amount - bounty
           here == SLAUptimeAddress
           treasury == uptimeConfig.treasury
           first == Transfer(ledger, here, sender, bounty)
<1>1. uptimeConfig.bountyBps \in 0..Bps /\ treasury \in Addresses /\ treasury # here
      /\ sender \in Addresses /\ sender # here /\ here \in Addresses
  BY UptimePlace, UptimeAssumption DEF UptimeConfig
<1>2. bounty \in Nat /\ bounty <= amount /\ rest \in Nat
  BY <1>1, ShareBounded
<1> HIDE DEF bounty, rest, here, treasury, Addresses
<1>3. CanPay(ledger, here, bounty)
  BY <1>2 DEF CanPay, here
<1>4. first \in [Addresses -> Nat]
  BY <1>1, <1>2, <1>3, TransferType
<1>5. first[here] = amount - bounty
  BY <1>1, Moves DEF here
<1> HIDE DEF first
<1>6. CanPay(first, here, rest)
  BY <1>2, <1>5 DEF CanPay, rest
<1>7. Transfer(first, here, treasury, rest) \in [Addresses -> Nat]
  BY <1>1, <1>2, <1>4, <1>6, TransferType
<1>8. Transfer(first, here, treasury, rest)[here] = first[here] - rest
  BY <1>1, <1>4, Moves
<1>9. first[here] - rest = 0
  BY <1>2, <1>5 DEF rest
<1>10. PaidOut(ledger, amount, sender) = Transfer(first, here, treasury, rest)
  BY DEF PaidOut, first, here, treasury, rest, bounty
<1> QED
  BY <1>7, <1>8, <1>9, <1>10 DEF here

(* After a claim the window counts all that is over.                       *)
LEMMA ClaimTakesAll ==
  ASSUME UptimeInv, NEW p \in Providers, UNCHANGED calls, Inv,
         windows' = [windows EXCEPT ![p] = WindowAt(p)], scored' = scored \cup Over(p),
         UNCHANGED uptimeConfig
  PROVE  UptimeTypes' /\ WindowsExact'
<1>1. WindowAt(p) \in Window
  BY DEF UptimeInv, Inv, TypeOK, RegistryTypeOK, Provider, WindowAt, Window
<1>2. UptimeTypes'
  BY <1>1 DEF UptimeInv, UptimeTypes, Over, Final
<1>3. WindowsExact'
  <2> SUFFICES ASSUME NEW q \in Providers
               PROVE  /\ windows'[q].completed = Cardinality(Counted(q, "Completed")')
                      /\ windows'[q].slashed = Cardinality(Counted(q, "Slashed")')
    BY DEF WindowsExact
  <2>1. windows \in [Providers -> Window]
    BY DEF UptimeInv, UptimeTypes
  <2>2. CASE q = p
    <3>1. \A s \in {"Completed", "Slashed"} : Counted(p, s)' = OutcomeOf(p, s)
      BY DEF UptimeInv, UptimeTypes, Counted, OutcomeOf, Over
    <3>2. windows'[p] = WindowAt(p)
      BY <2>1
    <3>3. /\ WindowAt(p).completed = Cardinality(OutcomeOf(p, "Completed"))
          /\ WindowAt(p).slashed = Cardinality(OutcomeOf(p, "Slashed"))
      BY DEF UptimeInv, OutcomesCounted, OutcomeOf, WindowAt
    <3> QED
      BY <2>2, <3>1, <3>2, <3>3
  <2>3. CASE q # p
    <3>1. \A s \in {"Completed", "Slashed"} : Counted(q, s)' = Counted(q, s)
      BY <2>3 DEF Counted, Over
    <3>2. windows'[q] = windows[q]
      BY <2>1, <2>3
    <3> QED
      BY <3>1, <3>2 DEF UptimeInv, WindowsExact
  <2> QED
    BY <2>2, <2>3
<1> QED
  BY <1>2, <1>3

LEMMA ClaimAvailabilityKeeps ==
  ASSUME UptimeInv, NEW p \in Providers, NEW sender \in Accounts, ClaimAvailability(p, sender)
  PROVE  UptimeInv'
<1> DEFINE slash == AvailabilitySlash(p)
           taken == Transfer(balance, Registry, SLAUptimeAddress, slash)
<1>1. /\ balance \in [Addresses -> Nat] /\ providers \in [Providers -> Provider]
      /\ providers[p].stake \in Nat /\ uptimeConfig \in UptimeConfig
      /\ balance[SLAUptimeAddress] = 0
  BY DEF UptimeInv, Inv, TypeOK, RegistryTypeOK, Provider, UptimeTypes
<1>2. uptimeConfig.slashBps \in 0..Bps
  BY <1>1, UptimeAssumption DEF UptimeConfig
<1>3. slash \in Nat /\ slash <= providers[p].stake
  BY <1>1, <1>2, ShareBounded DEF AvailabilitySlash
<1>4. /\ CanPay(balance, Registry, slash) /\ providers[p].registered
      /\ providers' = Slashed(providers, p, slash) /\ balance' = PaidOut(taken, slash, sender)
      /\ UNCHANGED <<termsVars, adminVars, now, callVars>>
      /\ windows' = [windows EXCEPT ![p] = WindowAt(p)] /\ scored' = scored \cup Over(p)
      /\ UNCHANGED uptimeConfig
  BY DEF ClaimAvailability, SlashAccepted
<1> HIDE DEF slash
<1>5. taken \in [Addresses -> Nat] /\ taken[SLAUptimeAddress] = slash
  <2>1. taken \in [Addresses -> Nat]
    BY <1>1, <1>3, <1>4, UptimePlace, TransferType
  <2>2. taken[SLAUptimeAddress] = balance[SLAUptimeAddress] + slash
    <3>1. Registry # SLAUptimeAddress /\ SLAUptimeAddress \in DOMAIN balance
      BY <1>1, UptimePlace
    <3> QED
      BY <3>1, Moves
  <2> QED
    BY <1>1, <1>3, <2>1, <2>2
<1> HIDE DEF taken
<1>6. balance' \in [Addresses -> Nat] /\ balance'[SLAUptimeAddress] = 0
  BY <1>1, <1>3, <1>4, <1>5, PaidOutLeavesNothing
<1>7. Inv'
  BY <1>3, <1>4, <1>6, StakeCut DEF UptimeInv
<1>8. UNCHANGED <<calls, openCallsPerCaller>>
  BY <1>4 DEF callVars
<1>9. OpenCountExact'
  BY <1>8 DEF UptimeInv, OpenCountExact, OpenOf, PendingOf, Pending
<1>10. OutcomesCounted'
  <2>1. \A q \in Providers : OutcomesUnchanged(q)
    BY <1>1, <1>4 DEF Slashed, OutcomesUnchanged, Provider
  <2>2. \A q \in Providers, s \in {"Completed", "Slashed"} : OutcomeOf(q, s)' = OutcomeOf(q, s)
    BY <1>8 DEF OutcomeOf
  <2>3. \A q \in Providers :
          /\ providers'[q].completedCalls = Cardinality(OutcomeOf(q, "Completed"))
          /\ providers'[q].slashedCalls = Cardinality(OutcomeOf(q, "Slashed"))
    BY <2>1 DEF UptimeInv, OutcomesCounted, OutcomeOf, OutcomesUnchanged
  <2>4. \A q \in Providers :
          /\ providers'[q].completedCalls = Cardinality(OutcomeOf(q, "Completed")')
          /\ providers'[q].slashedCalls = Cardinality(OutcomeOf(q, "Slashed")')
    BY <2>2, <2>3
  <2> QED
    BY <2>4 DEF OutcomesCounted, OutcomeOf
<1>11. UptimeTypes' /\ WindowsExact'
  BY <1>4, <1>8, ClaimTakesAll DEF UptimeInv
<1> QED
  BY <1>6, <1>7, <1>9, <1>10, <1>11 DEF UptimeInv

(* The arbiter's levers touch nothing that is counted.                     *)
LEMMA ConfigureKeeps ==
  ASSUME UptimeInv, NEW new \in UptimeConfig, Configure(new)
  PROVE  UptimeInv'
<1>1. UptimeTypes' /\ WindowsExact'
  BY DEF UptimeInv, UptimeTypes, WindowsExact, Configure, Counted, Final, vars, callVars
<1>2. UNCHANGED vars
  BY DEF Configure
<1>3. Inv' /\ OpenCountExact' /\ OutcomesCounted'
  BY <1>2, StepInv, CountersStep DEF UptimeInv
<1> QED
  BY <1>1, <1>2, <1>3 DEF UptimeInv, vars, registryVars

LEMMA UptimeStepKeeps ==
  ASSUME UptimeInv, [UptimeNext]_<<vars, uptimeVars>>
  PROVE  UptimeInv'
<1>1. CASE SettlementStep /\ UNCHANGED uptimeVars
  <2>1. Next
    BY <1>1 DEF SettlementStep, Next, RegistryStep
  <2>2. balance'[SLAUptimeAddress] = balance[SLAUptimeAddress]
    BY <1>1, UptimePlace, OthersBalance DEF UptimeInv, SettlementStep
  <2> QED
    BY <1>1, <2>1, <2>2, SettlementKeepsWindows
<1>2. ASSUME NEW p \in Providers, NEW a \in Accounts, ClaimAvailability(p, a)
      PROVE  UptimeInv'
  BY <1>2, ClaimAvailabilityKeeps
<1>3. ASSUME \/ \E a \in UptimeArbiters : SetUptimeArbiter(a)
             \/ \E t \in UptimeTreasuries : SetUptimeTreasury(t)
             \/ \E bps \in AvailabilitySlashes : SetAvailabilitySlashBps(bps)
             \/ \E bps \in UptimeBounties : SetBountyBps(bps)
             \/ \E c \in Cooldowns : SetCooldown(c)
             \/ \E n \in SampleMinimums : SetMinSamples(n)
      PROVE  UptimeInv'
  <2>1. uptimeConfig \in UptimeConfig
    BY DEF UptimeInv, UptimeTypes
  <2>2. \E new \in UptimeConfig : Configure(new)
    BY <1>3, <2>1 DEF SetUptimeArbiter, SetUptimeTreasury, SetAvailabilitySlashBps, SetBountyBps,
                      SetCooldown, SetMinSamples, UptimeConfig
  <2> QED
    BY <2>2, ConfigureKeeps
<1>4. CASE UNCHANGED <<vars, uptimeVars>>
  <2>1. balance'[SLAUptimeAddress] = balance[SLAUptimeAddress]
    BY <1>4 DEF vars, registryVars
  <2> QED
    BY <1>4, <2>1, SettlementKeepsWindows
<1> QED
  BY <1>1, <1>2, <1>3, <1>4 DEF UptimeNext, UptimeStep

LEMMA UptimeInitKeeps == Init /\ UptimeInit => UptimeInv
<1> SUFFICES ASSUME Init, UptimeInit PROVE UptimeInv
  OBVIOUS
<1>1. Inv /\ OpenCountExact /\ OutcomesCounted
  BY InitInv, CountersInit
<1>2. UptimeTypes
  BY DEF UptimeInit, UptimeTypes, NeverChecked, Window
<1>3. WindowsExact
  <2>1. \A p \in Providers, s \in {"Completed", "Slashed"} : Counted(p, s) = {}
    BY DEF UptimeInit, Counted
  <2> QED
    BY <2>1, FS_EmptySet DEF UptimeInit, WindowsExact, NeverChecked
<1>4. balance[SLAUptimeAddress] = 0
  BY UptimePlace DEF Init, RegistryInit
<1> QED
  BY <1>1, <1>2, <1>3, <1>4 DEF UptimeInv

-----------------------------------------------------------------------------
(* What is over and not yet counted, by outcome: the difference of the     *)
(* registry's counter and the window's.                                    *)
LEMMA FreshOutcomes ==
  ASSUME UptimeInv, NEW p \in Providers, NEW status \in {"Completed", "Slashed"}
  PROVE  LET fresh == {c \in Over(p) \ scored : calls[c].status = status} IN
         /\ IsFiniteSet(fresh) /\ Cardinality(fresh) \in Nat
         /\ Cardinality(fresh)
              = Cardinality(OutcomeOf(p, status)) - Cardinality(Counted(p, status))
<1> DEFINE S == OutcomeOf(p, status)
           T == Counted(p, status)
           fresh == {c \in Over(p) \ scored : calls[c].status = status}
<1>1. fresh = S \ T /\ S \cap T = T
  BY DEF OutcomeOf, Counted, Over, UptimeInv, UptimeTypes
<1>2. IsFiniteSet(S)
  BY IdsFinite DEF OutcomeOf
<1> HIDE DEF S, T, fresh
<1>3. IsFiniteSet(S \ T) /\ Cardinality(S \ T) = Cardinality(S) - Cardinality(S \cap T)
  BY <1>2, FS_Difference
<1>4. Cardinality(S \ T) \in Nat
  BY <1>3, FS_CardinalityType
<1>5. /\ IsFiniteSet(fresh) /\ Cardinality(fresh) \in Nat
      /\ Cardinality(fresh) = Cardinality(S) - Cardinality(T)
  BY <1>1, <1>3, <1>4
<1> QED
  BY <1>5 DEF S, T, fresh

LEMMA MeasureIsFresh ==
  ASSUME UptimeInv, NEW p \in Providers
  PROVE  LET fresh == Over(p) \ scored
             answered == {c \in fresh : calls[c].status = "Completed"}
         IN /\ Measure(p).samples = Cardinality(fresh)
            /\ fresh # {} => Measure(p).availabilityBps =
                               (Cardinality(answered) * Bps) \div Cardinality(fresh)
<1> DEFINE fresh == Over(p) \ scored
           answered == {c \in fresh : calls[c].status = "Completed"}
           missed == {c \in fresh : calls[c].status = "Slashed"}
           done == providers[p].completedCalls - windows[p].completed
           late == providers[p].slashedCalls - windows[p].slashed
<1>1. /\ IsFiniteSet(answered) /\ Cardinality(answered) \in Nat /\ Cardinality(answered) = done
      /\ IsFiniteSet(missed) /\ Cardinality(missed) \in Nat /\ Cardinality(missed) = late
  BY FreshOutcomes DEF UptimeInv, OutcomesCounted, OutcomeOf, WindowsExact
<1>2. fresh = answered \cup missed /\ answered \cap missed = {}
  BY DEF Over
<1>3. Measure(p) = [samples |-> done + late,
                    availabilityBps |-> IF done + late = 0 THEN 0
                                        ELSE (done * Bps) \div (done + late)]
  BY DEF Measure
<1> HIDE DEF fresh, answered, missed, done, late
<1>4. IsFiniteSet(fresh) /\ Cardinality(fresh) = done + late
  BY <1>1, <1>2, FS_Union, FS_EmptySet
<1>5. fresh # {} => Cardinality(fresh) # 0
  BY <1>4, FS_EmptySet
<1>6. Measure(p).samples = Cardinality(fresh)
  BY <1>3, <1>4
<1>7. fresh # {} => Measure(p).availabilityBps = (Cardinality(answered) * Bps) \div Cardinality(fresh)
  BY <1>1, <1>3, <1>4, <1>5
<1> QED
  BY <1>6, <1>7 DEF fresh, answered

(* A call is held against its provider once, however calls end, claims are *)
(* refused or repeated, and the arbiter moves the levers in between; and   *)
(* of the stake it took the contract keeps nothing.                        *)
THEOREM OutcomesChargedOnce == UptimeSpec => []EachOutcomeChargedOnce
<1>1. UptimeInv /\ [UptimeNext]_<<vars, uptimeVars>> => UptimeInv'
  BY UptimeStepKeeps
<1>2. UptimeInv => EachOutcomeChargedOnce
  <2> SUFFICES ASSUME UptimeInv PROVE EachOutcomeChargedOnce
    OBVIOUS
  <2> QED
    BY MeasureIsFresh DEF EachOutcomeChargedOnce, UptimeInv
<1> QED
  BY UptimeInitKeeps, <1>1, <1>2, PTL DEF UptimeSpec

-----------------------------------------------------------------------------
(* A batch of timeouts is a fold from left to right: the function it is    *)
(* defined by exists, and what every step keeps holds at its end.          *)
Runs(ids, S, g) ==
  g = [s \in SUBSET S |->
         IF s = {} THEN Books ELSE BatchStep(g[s \ {Max(s)}], ids[Max(s)])]

LEMMA AfterBatchIsRun ==
  ASSUME NEW ids
  PROVE  AfterBatch(ids) = (CHOOSE g : Runs(ids, DOMAIN ids, g))[DOMAIN ids]
BY DEF AfterBatch, FoldLeft, MapThenFoldSet, Runs

LEMMA MaxIn ==
  ASSUME NEW S, IsFiniteSet(S), S \subseteq Nat, NEW s \in SUBSET S, s # {}
  PROVE  Max(s) \in s
<1>1. IsFiniteSet(s) /\ s \subseteq Nat
  BY FS_Subset
<1>2. PICK m \in s : \A n \in s : n <= m
  BY <1>1, LargestExists
<1>3. \A n \in s : m >= n
  BY <1>1, <1>2
<1> QED
  BY <1>3 DEF Max

LEMMA RunsUnique ==
  ASSUME NEW ids, NEW S, IsFiniteSet(S), S \subseteq Nat, NEW g, NEW h,
         Runs(ids, S, g), Runs(ids, S, h)
  PROVE  g = h
<1> DEFINE W == {s \in SUBSET S : g[s] # h[s]}
<1>1. ASSUME W # {} PROVE FALSE
  <2>1. PICK T \in W : \A U \in W : U \subseteq T => U = T
    <3>1. W \in SUBSET SUBSET S
      OBVIOUS
    <3>2. IsFiniteSet(S) /\ W # {}
      BY <1>1
    <3> HIDE DEF W
    <3> QED
      BY ONLY <3>1, <3>2, MinimalSet
  <2>2. T # {}
    BY <2>1 DEF Runs
  <2>3. Max(T) \in T
    BY <2>1, <2>2, MaxIn
  <2>4. T \ {Max(T)} \notin W
    BY <2>1, <2>3
  <2>5. g[T \ {Max(T)}] = h[T \ {Max(T)}]
    BY <2>1, <2>4
  <2> QED
    BY <2>1, <2>2, <2>5 DEF Runs
<1>2. DOMAIN g = SUBSET S /\ DOMAIN h = SUBSET S
  BY DEF Runs
<1> QED
  BY <1>1, <1>2 DEF Runs

LEMMA RunsRestricted ==
  ASSUME NEW ids, NEW S, NEW g, Runs(ids, S, g), NEW T \in SUBSET S
  PROVE  Runs(ids, T, [s \in SUBSET T |-> g[s]])
<1> DEFINE h == [s \in SUBSET T |-> g[s]]
<1>1. ASSUME NEW s \in SUBSET T
      PROVE  h[s] = IF s = {} THEN Books ELSE BatchStep(h[s \ {Max(s)}], ids[Max(s)])
  <2>1. s \in SUBSET S /\ s \ {Max(s)} \in SUBSET T
    OBVIOUS
  <2>2. g[s] = IF s = {} THEN Books ELSE BatchStep(g[s \ {Max(s)}], ids[Max(s)])
    BY <2>1 DEF Runs
  <2> QED
    BY <2>1, <2>2
<1> QED
  BY <1>1 DEF Runs

LEMMA RunsExist ==
  ASSUME NEW ids, NEW S, IsFiniteSet(S), S \subseteq Nat
  PROVE  \E g : Runs(ids, S, g)
<1> DEFINE sol(U) == CHOOSE g : Runs(ids, U, g)
           W == {U \in SUBSET S : ~ \E g : Runs(ids, U, g)}
<1>1. ASSUME W # {} PROVE FALSE
  <2>1. PICK T \in W : \A U \in W : U \subseteq T => U = T
    <3>1. W \in SUBSET SUBSET S
      OBVIOUS
    <3>2. IsFiniteSet(S) /\ W # {}
      BY <1>1
    <3> HIDE DEF W
    <3> QED
      BY ONLY <3>1, <3>2, MinimalSet
  <2>2. \A U \in SUBSET T : U # T => Runs(ids, U, sol(U))
    BY <2>1
  <2>3. ASSUME NEW U \in SUBSET T, U # T, NEW V \in SUBSET U
        PROVE  sol(U)[V] = sol(V)[V]
    <3> DEFINE h == [s \in SUBSET V |-> sol(U)[s]]
    <3>1. V # T /\ V \in SUBSET T /\ IsFiniteSet(V) /\ V \subseteq Nat
      BY <2>1, <2>3, FS_Subset
    <3>2. Runs(ids, V, h)
      BY <2>2, <2>3, RunsRestricted
    <3>3. Runs(ids, V, sol(V))
      BY <2>2, <3>1
    <3> HIDE DEF sol, h
    <3>4. h = sol(V)
      BY <3>1, <3>2, <3>3, RunsUnique
    <3> QED
      BY <3>4 DEF h
  <2> DEFINE rest(s) == s \ {Max(s)}
             g == [s \in SUBSET T |->
                     IF s = {} THEN Books ELSE BatchStep(sol(rest(s))[rest(s)], ids[Max(s)])]
  <2>4. ASSUME NEW s \in SUBSET T, s # {}
        PROVE  g[rest(s)] = sol(rest(s))[rest(s)]
    <3> DEFINE U == rest(s)
    <3>1. Max(s) \in s /\ U \in SUBSET T /\ U # T
      BY <2>1, <2>4, MaxIn
    <3>2. sol(U)[U] = IF U = {} THEN Books ELSE BatchStep(sol(U)[rest(U)], ids[Max(U)])
      <4>1. Runs(ids, U, sol(U))
        BY <2>2, <3>1
      <4> HIDE DEF sol, U
      <4> QED
        BY <4>1 DEF Runs
    <3>3. sol(U)[rest(U)] = sol(rest(U))[rest(U)]
      BY <2>3, <3>1
    <3> HIDE DEF U, sol
    <3> QED
      BY <3>1, <3>2, <3>3 DEF U
  <2>5. Runs(ids, T, g)
    <3> HIDE DEF sol
    <3>1. \A s \in SUBSET T : g[s] = IF s = {} THEN Books ELSE BatchStep(g[rest(s)], ids[Max(s)])
      BY <2>4
    <3> HIDE DEF g
    <3>2. DOMAIN g = SUBSET T /\ g = [s \in SUBSET T |-> g[s]]
      BY DEF g
    <3> QED
      BY <3>1, <3>2 DEF Runs
  <2> QED
    BY <2>1, <2>5
<1>2. S \notin W
  BY <1>1
<1> QED
  BY <1>2

-----------------------------------------------------------------------------
(* A transaction part of the way through a batch.                          *)
PendingIn(b) == {c \in CallIds : b.calls[c].status = "Pending"}
PendingAt(b, p) == {c \in PendingIn(b) : b.calls[c].provider = p}
TimedOut(b, a) == {c \in CallIds : /\ Pending(c) /\ calls[c].caller = a
                                   /\ b.calls[c].status = "Slashed"}
StakesIn(b) == [p \in Owners |-> b.providers[p].stake]

BookTypes(b) ==
  /\ b.providers \in [Providers -> Provider] /\ b.calls \in [CallIds -> Call]
  /\ b.open \in [Providers -> [Addresses -> Nat]]
  /\ b.claimable \in [Addresses -> Nat] /\ b.balance \in [Addresses -> Nat]

(* A call is as it was, or was open and timed out in this transaction.     *)
BookCalls(b) ==
  \A c \in CallIds :
    \/ b.calls[c] = calls[c]
    \/ Pending(c) /\ b.calls[c] = [calls[c] EXCEPT !.status = "Slashed"]

BookProviders(b) ==
  \A p \in Providers :
    /\ b.providers[p].registered = Registered(p)
    /\ ~Registered(p) => b.providers[p] = NoProvider
    /\ b.providers[p].pendingCalls = Cardinality(PendingAt(b, p))

BookMoney(b) ==
  /\ b.balance[Registry] = Total(StakesIn(b), Owners)
  /\ b.balance[PPC] = Total(Escrowed, PendingIn(b)) + Total(b.claimable, Addresses)
  /\ \A a \in Addresses \ {Registry, PPC} : b.balance[a] = balance[a]

(* Every caller has been credited the price of each of its calls that      *)
(* timed out.                                                              *)
BookRefunds(b) ==
  \A a \in Addresses \ {SLAKeeperAddress} :
    b.claimable[a] >= claimable[a] + Total(Escrowed, TimedOut(b, a))

NotForKeeper == \A c \in CallIds : calls[c].caller # SLAKeeperAddress

(* What the batch has earned is among what the keeper is credited.         *)
BountyCredited(s) ==
  /\ s.bounty \in Nat
  /\ s.book.claimable[SLAKeeperAddress] >= claimable[SLAKeeperAddress] + s.bounty
  /\ NotForKeeper =>
       s.book.claimable[SLAKeeperAddress] = claimable[SLAKeeperAddress] + s.bounty

Underway(s) ==
  /\ BookTypes(s.book) /\ BookCalls(s.book) /\ BookProviders(s.book)
  /\ BookMoney(s.book) /\ BookRefunds(s.book) /\ BountyCredited(s)

(* Between two transactions.                                               *)
SettledInv == Inv /\ TermsInv /\ SnapshotIntact /\ StakeBacked /\ Funded

LEMMA KeeperPlace ==
  /\ SLAKeeperAddress \in Contracts \ {Registry, PPC} /\ SLAKeeperAddress \in Addresses
  /\ SLAKeeperAddress \notin Accounts /\ SLAKeeperAddress \notin Slashers
  /\ Registry \in Addresses /\ PPC \in Addresses /\ Registry # PPC
  /\ Accounts \subseteq Addresses /\ Keepers \subseteq Accounts
  /\ \A a \in Accounts : a # Registry /\ a # PPC /\ a # SLAKeeperAddress
  /\ IsFiniteSet(Accounts)
BY RegistryAssumption, SLAKeeperAssumption, PayPerCallAssumption

LEMMA StartsUnderway ==
  ASSUME SettledInv
  PROVE  Underway(Books)
<1>1. Books.book = Book /\ Books.bounty = 0
  BY DEF Books
<1>2. /\ Book.providers = providers /\ Book.calls = calls /\ Book.open = openCallsPerCaller
      /\ Book.claimable = claimable /\ Book.balance = balance
  BY DEF Book
<1>3. BookTypes(Book)
  BY <1>2 DEF BookTypes, SettledInv, Inv, TypeOK, RegistryTypeOK
<1>4. BookCalls(Book)
  BY <1>2 DEF BookCalls
<1>5. PendingIn(Book) = PendingCalls /\ \A p \in Providers : PendingAt(Book, p) = PendingOf(p)
  BY <1>2 DEF PendingIn, PendingAt, PendingCalls, PendingOf, Pending
<1>6. BookProviders(Book)
  BY <1>2, <1>5
     DEF BookProviders, SettledInv, Inv, PendingCountExact, ProvidersWellFormed, Registered
<1>7. BookMoney(Book)
  BY <1>2, <1>5
     DEF BookMoney, StakesIn, SettledInv, StakeBacked, StakeOf, Funded, EscrowTotal, CreditTotals
<1>8. BookRefunds(Book)
  <2>1. \A a : TimedOut(Book, a) = {}
    BY <1>2 DEF TimedOut, Pending
  <2>2. \A a \in Addresses : claimable[a] \in Nat
    BY DEF SettledInv, Inv, TypeOK
  <2> QED
    BY <1>2, <2>1, <2>2, TotalEmpty DEF BookRefunds
<1>9. BountyCredited(Books)
  <2>1. claimable[SLAKeeperAddress] \in Nat
    BY KeeperPlace DEF SettledInv, Inv, TypeOK
  <2> QED
    BY <1>1, <1>2, <2>1 DEF BountyCredited
<1> QED
  BY <1>1, <1>3, <1>4, <1>6, <1>7, <1>8, <1>9 DEF Underway

(* What a claim in the middle of a batch takes is within the stake that is *)
(* left, whatever earlier ones took, and the registry pays it.             *)
LEMMA AcceptedUnderway ==
  ASSUME SettledInv, NEW s, Underway(s), NEW c \in CallIds, IsClaimable(s.book, c)
  PROVE  LET p == calls[c].provider
             slash == SlashAmount(s.book, c)
         IN
         /\ s.book.calls[c] = calls[c] /\ Pending(c) /\ calls[c] \in Call
         /\ p \in Providers /\ calls[c].caller \in Addresses /\ calls[c].amount \in Nat
         /\ s.book.providers[p] \in Provider /\ s.book.providers[p].registered
         /\ s.book.providers[p].pendingCalls # 0
         /\ slash \in Nat /\ slash <= s.book.providers[p].stake
         /\ KeeperBounty(slash) \in Nat /\ KeeperBounty(slash) <= slash
         /\ CanPay(s.book.balance, Registry, slash)
         /\ RegistryAcceptsTimeout(s.book, c)
<1> DEFINE b == s.book
           p == calls[c].provider
           v == calls[c].termsVersion
           slash == SlashAmount(b, c)
<1>1. /\ BookTypes(b) /\ BookCalls(b) /\ BookProviders(b) /\ BookMoney(b)
      /\ b.calls[c].status = "Pending"
  BY DEF Underway, IsClaimable
<1>2. b.calls[c] = calls[c] /\ Pending(c) /\ calls[c] \in Call
  <2>1. calls[c] \in Call
    BY DEF SettledInv, Inv, TypeOK
  <2>2. [calls[c] EXCEPT !.status = "Slashed"].status = "Slashed"
    BY <2>1 DEF Call
  <2> QED
    BY <1>1, <2>1, <2>2 DEF BookCalls, Pending
<1>3. /\ p \in Providers /\ calls[c].caller \in Addresses /\ calls[c].amount \in Nat
      /\ v \in Versions
  BY <1>2, PendingCallFacts DEF SettledInv
<1>4. b.providers[p] \in Provider /\ b.providers[p].stake \in Nat
  BY <1>1, <1>3 DEF BookTypes, Provider
<1>5. b.providers[p].pendingCalls # 0
  <2>1. c \in PendingAt(b, p) /\ IsFiniteSet(PendingAt(b, p))
    BY <1>1, <1>2, IdsFinite DEF PendingAt, PendingIn
  <2>2. Cardinality(PendingAt(b, p)) # 0
    BY <2>1, FS_EmptySet
  <2> QED
    BY <1>1, <1>3, <2>2 DEF BookProviders
<1>6. b.providers[p].registered
  BY <1>1, <1>3, <1>5 DEF BookProviders, NoProvider
<1>7. TermsPublished(p, v)
  BY <1>2, <1>3 DEF SettledInv, SnapshotIntact, Pending
<1>8. terms[p][v].slashBps \in 0..Bps
  <2>1. ValidTerms(terms[p][v])
    BY <1>3, <1>7 DEF SettledInv, TermsInv, VersionsContiguous, TermsPublished
  <2>2. terms[p][v] \in Terms
    BY <1>3 DEF SettledInv, Inv, TypeOK, RegistryTypeOK
  <2>3. terms[p][v].slashBps \in Nat
    BY <2>2, RegistryAssumption DEF Terms, NoTerms
  <2> QED
    BY <2>1, <2>3, RegistryAssumption DEF ValidTerms
<1>9. slash \in Nat /\ slash <= b.providers[p].stake
  <2>1. slash = Share(b.providers[p].stake, terms[p][v].slashBps)
    BY <1>2 DEF SlashAmount
  <2> HIDE DEF slash, p, v, b
  <2> QED
    BY <1>4, <1>8, <2>1, ShareBounded
<1>10. CanPay(b.balance, Registry, slash)
  <2> DEFINE f == StakesIn(b)
  <2>1. \A q \in Owners : f[q] \in Nat
    BY <1>1 DEF StakesIn, BookTypes, Provider
  <2>2. IsFiniteSet(Owners) /\ p \in Owners /\ f[p] = b.providers[p].stake
    BY <1>3, SetsFinite DEF StakesIn
  <2>3. b.balance[Registry] = Total(f, Owners)
    BY <1>1 DEF BookMoney
  <2> HIDE DEF f, p, b
  <2>4. f[p] <= Total(f, Owners) /\ Total(f, Owners) \in Nat
    BY <2>1, <2>2, TotalBounds, TotalNat
  <2> HIDE DEF slash
  <2> QED
    BY <1>4, <1>9, <2>2, <2>3, <2>4 DEF CanPay
<1>11. KeeperBounty(slash) \in Nat /\ KeeperBounty(slash) <= slash
  BY <1>9, BountyBounded
<1> HIDE DEF slash
<1>12. slash > 0 => SlashAccepted(b.providers, p, slash)
  BY <1>6, <1>9 DEF SlashAccepted
<1>13. RegistryAcceptsTimeout(b, c)
  BY <1>2, <1>5, <1>6, <1>7, <1>10, <1>12 DEF RegistryAcceptsTimeout, FinishAccepted, slash
<1> QED
  BY <1>2, <1>3, <1>4, <1>5, <1>6, <1>9, <1>10, <1>11, <1>13 DEF slash

(* What one claim does to the transaction it is part of.                   *)
LEMMA ClaimsUnderway ==
  ASSUME SettledInv, NEW s, Underway(s), NEW c \in CallIds, IsClaimable(s.book, c)
  PROVE  Underway(BatchStep(s, c))
<1> DEFINE b == s.book
           p == calls[c].provider
           caller == calls[c].caller
           amount == calls[c].amount
           slash == SlashAmount(b, c)
           bounty == KeeperBounty(slash)
           keeper == SLAKeeperAddress
           credit == amount + (slash - bounty)
           refunded == Credit(b.claimable, caller, credit)
           after == AfterTimeout(b, c, keeper)
<1>1. /\ b.calls[c] = calls[c] /\ Pending(c) /\ calls[c] \in Call
      /\ p \in Providers /\ caller \in Addresses /\ amount \in Nat
      /\ b.providers[p] \in Provider /\ b.providers[p].registered
      /\ b.providers[p].pendingCalls # 0
      /\ slash \in Nat /\ slash <= b.providers[p].stake
      /\ bounty \in Nat /\ bounty <= slash
      /\ CanPay(b.balance, Registry, slash)
  BY AcceptedUnderway
<1>2. /\ BookTypes(b) /\ BookCalls(b) /\ BookProviders(b) /\ BookMoney(b) /\ BookRefunds(b)
      /\ BountyCredited(s)
  BY DEF Underway
<1>3. BatchStep(s, c).book = after /\ BatchStep(s, c).bounty = s.bounty + bounty
  BY DEF BatchStep
<1>4. /\ after.providers = Slashed(IncSlashed(CallFinished(b.providers, p), p), p, slash)
      /\ after.calls = [b.calls EXCEPT ![c].status = "Slashed"]
      /\ after.open = OpenCallsDecremented(b.open, p, caller)
      /\ after.claimable = Credit(refunded, keeper, bounty)
      /\ after.balance = Transfer(b.balance, Registry, PPC, slash)
  BY <1>1 DEF AfterTimeout
<1>5. /\ b.providers \in [Providers -> Provider] /\ b.calls \in [CallIds -> Call]
      /\ b.open \in [Providers -> [Addresses -> Nat]]
      /\ b.claimable \in [Addresses -> Nat] /\ b.balance \in [Addresses -> Nat]
  BY <1>2 DEF BookTypes
<1>6. keeper \in Addresses /\ Registry \in Addresses /\ PPC \in Addresses /\ Registry # PPC
      /\ keeper # Registry /\ keeper # PPC
  BY KeeperPlace
<1>7. credit \in Nat /\ credit >= amount /\ credit + bounty = amount + slash
  BY <1>1
<1> HIDE DEF slash, bounty, amount, credit, keeper
<1> HIDE DEF b, after, p, caller
(* calls *)
<1>8. /\ \A d \in CallIds \ {c} : after.calls[d] = b.calls[d]
      /\ after.calls[c] = [calls[c] EXCEPT !.status = "Slashed"]
      /\ after.calls[c].status = "Slashed" /\ after.calls[c].provider = p
      /\ after.calls \in [CallIds -> Call]
  <2>1. [calls[c] EXCEPT !.status = "Slashed"] \in Call
    BY <1>1 DEF Call
  <2>2. [calls[c] EXCEPT !.status = "Slashed"].status = "Slashed"
        /\ [calls[c] EXCEPT !.status = "Slashed"].provider = p
    BY <1>1 DEF Call, p
  <2>3. after.calls = [b.calls EXCEPT ![c] = [calls[c] EXCEPT !.status = "Slashed"]]
    BY <1>1, <1>4, <1>5
  <2> QED
    BY <1>5, <2>1, <2>2, <2>3
<1>9. BookCalls(after)
  BY <1>1, <1>2, <1>8 DEF BookCalls
<1>10. /\ PendingIn(after) = PendingIn(b) \ {c} /\ c \in PendingIn(b)
       /\ PendingAt(after, p) = PendingAt(b, p) \ {c} /\ c \in PendingAt(b, p)
       /\ \A q \in Providers \ {p} : PendingAt(after, q) = PendingAt(b, q)
  <2>1. PendingIn(after) = PendingIn(b) \ {c} /\ c \in PendingIn(b)
    <3>1. c \in PendingIn(b)
      BY <1>1 DEF PendingIn, Pending
    <3>2. \A d \in CallIds \ {c} : d \in PendingIn(after) <=> d \in PendingIn(b)
      BY <1>8 DEF PendingIn
    <3>3. c \notin PendingIn(after)
      BY <1>8 DEF PendingIn
    <3>4. PendingIn(after) \subseteq CallIds /\ PendingIn(b) \subseteq CallIds
      BY DEF PendingIn
    <3> QED
      BY <3>1, <3>2, <3>3, <3>4
  <2>2. b.calls[c].provider = p
    BY <1>1 DEF p
  <2>3. \A q : PendingAt(after, q) = {d \in PendingIn(b) \ {c} : b.calls[d].provider = q}
    <3>1. \A d \in PendingIn(b) \ {c} : after.calls[d] = b.calls[d]
      BY <1>8 DEF PendingIn
    <3>2. PendingIn(after) = PendingIn(b) \ {c}
      BY <2>1
    <3> QED
      BY ONLY <3>1, <3>2 DEF PendingAt
  <2>4. PendingAt(after, p) = PendingAt(b, p) \ {c} /\ c \in PendingAt(b, p)
    <3>1. c \in PendingIn(b)
      BY <2>1
    <3> QED
      BY ONLY <2>2, <2>3, <3>1 DEF PendingAt
  <2>5. \A q \in Providers \ {p} : PendingAt(after, q) = PendingAt(b, q)
    BY ONLY <2>2, <2>3 DEF PendingAt
  <2> QED
    BY <2>1, <2>4, <2>5
(* providers *)
<1>11. /\ \A q \in Providers \ {p} : after.providers[q] = b.providers[q]
       /\ after.providers[p].stake = b.providers[p].stake - slash
       /\ after.providers[p].pendingCalls = b.providers[p].pendingCalls - 1
       /\ after.providers[p].registered = b.providers[p].registered
       /\ after.providers \in [Providers -> Provider]
  <2> DEFINE cut == [b.providers[p] EXCEPT !.pendingCalls = @ - 1, !.slashedCalls = @ + 1,
                                           !.stake = @ - slash]
  <2>1. after.providers = [b.providers EXCEPT ![p] = cut]
    BY <1>1, <1>4, <1>5 DEF Slashed, IncSlashed, CallFinished, Provider
  <2>2. /\ b.providers[p].pendingCalls - 1 \in Nat
        /\ b.providers[p].slashedCalls + 1 \in Nat
        /\ b.providers[p].stake - slash \in Nat
    BY <1>1 DEF Provider
  <2>3. /\ cut \in Provider /\ cut.stake = b.providers[p].stake - slash
        /\ cut.pendingCalls = b.providers[p].pendingCalls - 1
        /\ cut.registered = b.providers[p].registered
    BY <1>1, <2>2 DEF Provider
  <2> HIDE DEF cut
  <2> QED
    BY <1>1, <1>5, <2>1, <2>3
<1>12. BookProviders(after)
  <2>1. \A q \in Providers \ {p} :
          /\ after.providers[q].registered = Registered(q)
          /\ ~Registered(q) => after.providers[q] = NoProvider
          /\ after.providers[q].pendingCalls = Cardinality(PendingAt(after, q))
    BY <1>2, <1>10, <1>11 DEF BookProviders
  <2>2. IsFiniteSet(PendingAt(b, p))
    BY IdsFinite DEF PendingAt, PendingIn
  <2>3. Cardinality(PendingAt(after, p)) = Cardinality(PendingAt(b, p)) - 1
    BY <1>10, <2>2, FS_RemoveElement
  <2>4. /\ after.providers[p].registered = Registered(p) /\ Registered(p)
        /\ after.providers[p].pendingCalls = Cardinality(PendingAt(after, p))
    BY <1>1, <1>2, <1>11, <2>3 DEF BookProviders
  <2> QED
    BY <2>1, <2>4 DEF BookProviders
(* money *)
<1>13. /\ refunded \in [Addresses -> Nat] /\ after.claimable \in [Addresses -> Nat]
       /\ Total(after.claimable, Addresses) = Total(b.claimable, Addresses) + credit + bounty
  <2>1. refunded \in [Addresses -> Nat]
    BY <1>1, <1>5, <1>7, CreditType
  <2>2. Total(refunded, Addresses) = Total(b.claimable, Addresses) + credit
    BY <1>1, <1>5, <1>7, CreditTotal
  <2> HIDE DEF refunded
  <2>3. after.claimable \in [Addresses -> Nat]
    <3>1. keeper \in Addresses /\ bounty \in Nat /\ after.claimable = Credit(refunded, keeper, bounty)
      BY <1>1, <1>4, <1>6
    <3> QED
      BY ONLY <2>1, <3>1, CreditType
  <2>4. Total(after.claimable, Addresses) = Total(refunded, Addresses) + bounty
    BY <1>1, <1>4, <1>6, <2>1, CreditTotal
  <2> QED
    BY <2>1, <2>2, <2>3, <2>4
<1>14. /\ after.balance \in [Addresses -> Nat]
       /\ after.balance[Registry] = b.balance[Registry] - slash
       /\ after.balance[PPC] = b.balance[PPC] + slash
       /\ \A a \in Addresses \ {Registry, PPC} : after.balance[a] = b.balance[a]
  <2> DEFINE ledger == b.balance
  <2>1. /\ ledger \in [Addresses -> Nat] /\ Registry \in Addresses /\ PPC \in Addresses
        /\ Registry # PPC /\ slash \in Nat /\ CanPay(ledger, Registry, slash)
        /\ after.balance = Transfer(ledger, Registry, PPC, slash)
    BY <1>1, <1>4, <1>5, <1>6
  <2> HIDE DEF ledger
  <2>2. after.balance \in [Addresses -> Nat]
    BY ONLY <2>1, TransferType
  <2>3. /\ after.balance[Registry] = ledger[Registry] - slash
        /\ after.balance[PPC] = ledger[PPC] + slash
        /\ \A a \in Addresses \ {Registry, PPC} : after.balance[a] = ledger[a]
    BY ONLY <2>1, TransferMoves
  <2> QED
    BY <2>2, <2>3 DEF ledger
<1>15. after.balance[Registry] = Total(StakesIn(after), Owners)
  <2> DEFINE f == StakesIn(b)
             h == StakesIn(after)
  <2>1. /\ \A q \in Owners : f[q] \in Nat /\ h[q] \in Nat
        /\ \A q \in Owners \ {p} : h[q] = f[q]
        /\ p \in Owners /\ h[p] = f[p] - slash
    BY <1>1, <1>5, <1>11 DEF StakesIn, Provider
  <2>2. IsFiniteSet(Owners) /\ b.balance[Registry] = Total(f, Owners)
    BY <1>2, SetsFinite DEF BookMoney
  <2> HIDE DEF f, h
  <2>3. Total(h, Owners) = Total(f, Owners) - f[p] + h[p] /\ Total(f, Owners) \in Nat
    BY <2>1, <2>2, TotalChange, TotalNat
  <2>4. Total(h, Owners) = Total(f, Owners) - slash
    BY <1>1, <2>1, <2>3
  <2> QED
    BY <1>14, <2>2, <2>4 DEF h
<1>16. after.balance[PPC] = Total(Escrowed, PendingIn(after)) + Total(after.claimable, Addresses)
  <2> DEFINE S == PendingIn(b)
  <2>1. c \in S /\ IsFiniteSet(S) /\ \A d \in S : Escrowed[d] \in Nat
    BY <1>10, IdsFinite, EscrowedNat DEF PendingIn, SettledInv
  <2>2. Escrowed[c] = amount
    BY DEF Escrowed, amount
  <2>3. b.balance[PPC] = Total(Escrowed, S) + Total(b.claimable, Addresses)
    BY <1>2 DEF BookMoney
  <2>4. Total(b.claimable, Addresses) \in Nat
    BY <1>5, SetsFinite, TotalNat
  <2> HIDE DEF S
  <2>5. Total(Escrowed, S) = Escrowed[c] + Total(Escrowed, S \ {c})
    <3> DEFINE price == Escrowed
    <3>1. IsFiniteSet(S) /\ \A d \in S : price[d] \in Nat
      BY <2>1
    <3>2. c \in S
      BY <2>1
    <3> HIDE DEF price
    <3>3. Total(price, S) = price[c] + Total(price, S \ {c})
      BY ONLY <3>1, <3>2, TotalTakeOut, ZenonT(60)
    <3> QED
      BY <3>3 DEF price
  <2>6. Total(Escrowed, S \ {c}) \in Nat
    <3>1. IsFiniteSet(S \ {c}) /\ \A d \in S \ {c} : Escrowed[d] \in Nat
      <4>1. S \ {c} \subseteq S
        OBVIOUS
      <4>2. IsFiniteSet(S \ {c})
        BY ONLY <2>1, <4>1, FS_Subset
      <4> QED
        BY ONLY <2>1, <4>1, <4>2
    <3> QED
      BY ONLY <3>1, TotalNat
  <2>7. PendingIn(after) = S \ {c}
    BY <1>10 DEF S
  <2> DEFINE x == Total(Escrowed, S \ {c})
             y == Total(b.claimable, Addresses)
             z == Total(after.claimable, Addresses)
  <2>8. b.balance[PPC] = amount + x + y /\ x \in Nat /\ y \in Nat
    BY <2>2, <2>3, <2>4, <2>5, <2>6
  <2>9. z = y + credit + bounty
    BY <1>13
  <2> HIDE DEF x, y, z
  <2>10. after.balance[PPC] = x + z
    BY <1>1, <1>7, <1>14, <2>8, <2>9
  <2> QED
    BY <2>7, <2>10 DEF x, z
<1>17. BookMoney(after)
  BY <1>2, <1>14, <1>15, <1>16 DEF BookMoney
<1>18. after.open \in [Providers -> [Addresses -> Nat]]
  <2> DEFINE open == b.open
  <2>1. /\ open \in [Providers -> [Addresses -> Nat]] /\ p \in Providers /\ caller \in Addresses
        /\ after.open = OpenCallsDecremented(open, p, caller)
    BY <1>1, <1>4, <1>5
  <2> HIDE DEF open
  <2>2. OpenCallsDecremented(open, p, caller) \in [Providers -> [Addresses -> Nat]]
    BY <2>1, OpenCallsType
  <2> QED
    BY <2>1, <2>2
<1>19. BookTypes(after)
  BY <1>8, <1>11, <1>13, <1>14, <1>18 DEF BookTypes
(* refunds and the bounty *)
<1>20. /\ refunded[caller] = b.claimable[caller] + credit
       /\ \A a \in Addresses \ {caller} : refunded[a] = b.claimable[a]
       /\ after.claimable[keeper] = refunded[keeper] + bounty
       /\ \A a \in Addresses \ {keeper} : after.claimable[a] = refunded[a]
  BY <1>1, <1>4, <1>5, <1>6, <1>13 DEF Credit
<1> HIDE DEF refunded
<1>21. BookRefunds(after)
  <2> SUFFICES ASSUME NEW a \in Addresses \ {keeper}
               PROVE  after.claimable[a] >= claimable[a] + Total(Escrowed, TimedOut(after, a))
    BY DEF BookRefunds, keeper
  <2> DEFINE T == TimedOut(b, a)
  <2>1. /\ IsFiniteSet(T) /\ \A d \in T \cup {c} : Escrowed[d] \in Nat
    BY IdsFinite, EscrowedNat DEF TimedOut, SettledInv
  <2>2. b.claimable[a] >= claimable[a] + Total(Escrowed, T) /\ b.claimable[a] \in Nat
        /\ claimable[a] \in Nat
    BY <1>2, <1>5 DEF BookRefunds, keeper, SettledInv, Inv, TypeOK
  <2>3. c \notin T
    BY <1>1 DEF TimedOut, Pending
  <2>4. Total(Escrowed, T) \in Nat
    <3>1. \A d \in T : Escrowed[d] \in Nat
      BY <2>1
    <3> HIDE DEF T
    <3> QED
      BY ONLY <2>1, <3>1, TotalNat
  <2>5. CASE a = caller
    <3>1. TimedOut(after, a) = T \cup {c}
      BY <1>1, <1>8, <2>5 DEF TimedOut, caller
    <3>2. Escrowed[c] = amount
      BY DEF Escrowed, amount
    <3> HIDE DEF T
    <3>3. Total(Escrowed, T \cup {c}) = Escrowed[c] + Total(Escrowed, T)
      BY ONLY <2>1, <2>3, TotalAdd
    <3>4. after.claimable[a] = b.claimable[a] + credit
      BY <1>20, <2>5
    <3> QED
      BY <1>1, <1>7, <2>2, <2>4, <3>1, <3>2, <3>3, <3>4
  <2>6. CASE a # caller
    <3>1. TimedOut(after, a) = T
      BY <1>8, <2>6 DEF TimedOut, caller
    <3>2. after.claimable[a] = b.claimable[a]
      BY <1>20, <2>6
    <3> QED
      BY <2>2, <3>1, <3>2
  <2> QED
    BY <2>5, <2>6
<1>22. BountyCredited(BatchStep(s, c))
  <2>1. /\ s.bounty \in Nat /\ b.claimable[keeper] \in Nat /\ claimable[keeper] \in Nat
        /\ b.claimable[keeper] >= claimable[keeper] + s.bounty
        /\ NotForKeeper => b.claimable[keeper] = claimable[keeper] + s.bounty
    BY <1>2, <1>5, <1>6 DEF BountyCredited, SettledInv, Inv, TypeOK, keeper, b
  <2>2. refunded[keeper] \in Nat /\ refunded[keeper] >= b.claimable[keeper]
        /\ (NotForKeeper => refunded[keeper] = b.claimable[keeper])
    <3>1. CASE keeper = caller
      <4>1. ~NotForKeeper
        BY <3>1 DEF NotForKeeper, keeper, caller
      <4> QED
        BY <1>7, <1>20, <2>1, <3>1, <4>1
    <3>2. CASE keeper # caller
      BY <1>6, <1>20, <2>1, <3>2
    <3> QED
      BY <3>1, <3>2
  <2>3. /\ s.bounty + bounty \in Nat
        /\ after.claimable[keeper] >= claimable[keeper] + (s.bounty + bounty)
        /\ NotForKeeper => after.claimable[keeper] = claimable[keeper] + (s.bounty + bounty)
    BY <1>1, <1>20, <2>1, <2>2
  <2> QED
    BY <1>3, <2>3 DEF BountyCredited, keeper
<1> QED
  BY <1>3, <1>9, <1>12, <1>17, <1>19, <1>21, <1>22 DEF Underway

LEMMA StepsUnderway ==
  ASSUME SettledInv, NEW s, Underway(s), NEW c \in CallIds
  PROVE  Underway(BatchStep(s, c))
<1>1. CASE IsClaimable(s.book, c)
  BY <1>1, ClaimsUnderway
<1>2. CASE ~IsClaimable(s.book, c)
  BY <1>2 DEF BatchStep
<1> QED
  BY <1>1, <1>2

LEMMA BatchUnderway ==
  ASSUME SettledInv, NEW n \in Nat, NEW ids \in [1..n -> CallIds]
  PROVE  Underway(AfterBatch(ids))
<1> DEFINE S == 1..n
           g == CHOOSE g : Runs(ids, S, g)
           W == {s \in SUBSET S : ~Underway(g[s])}
<1>1. IsFiniteSet(S) /\ S \subseteq Nat /\ DOMAIN ids = S /\ \A i \in S : ids[i] \in CallIds
  <2>1. IsFiniteSet(1..n)
    BY FS_Interval
  <2>2. S \subseteq Nat /\ DOMAIN ids = S /\ \A i \in S : ids[i] \in CallIds
    OBVIOUS
  <2> QED
    BY <2>1, <2>2
<1>2. Runs(ids, S, g)
  BY <1>1, RunsExist
<1>3. AfterBatch(ids) = g[S]
  BY <1>1, AfterBatchIsRun
<1> HIDE DEF S, g, CallIds
<1>4. ASSUME W # {} PROVE FALSE
  <2>1. PICK T \in W : \A U \in W : U \subseteq T => U = T
    <3>1. W \in SUBSET SUBSET S
      OBVIOUS
    <3>2. IsFiniteSet(S) /\ W # {}
      BY <1>1, <1>4
    <3> HIDE DEF W
    <3> QED
      BY ONLY <3>1, <3>2, MinimalSet
  <2>2. T \in SUBSET S /\ ~Underway(g[T])
    BY <2>1
  <2>3. T # {}
    BY <1>2, <2>2, StartsUnderway DEF Runs
  <2>4. Max(T) \in T
    BY <1>1, <2>2, <2>3, MaxIn
  <2>5. Underway(g[T \ {Max(T)}]) /\ ids[Max(T)] \in CallIds
    <3> DEFINE U == T \ {Max(T)}
    <3>1. U \subseteq T /\ U # T /\ U \in SUBSET S /\ Max(T) \in S
      BY <2>2, <2>4
    <3>2. U \notin W
      BY <2>1, <3>1
    <3>3. Underway(g[U])
      BY <3>1, <3>2
    <3> QED
      BY <1>1, <3>1, <3>3
  <2>6. g[T] = BatchStep(g[T \ {Max(T)}], ids[Max(T)])
    BY <1>2, <2>2, <2>3 DEF Runs
  <2> QED
    BY <2>2, <2>5, <2>6, StepsUnderway
<1>5. S \in SUBSET S /\ S \notin W
  BY <1>4
<1> QED
  BY <1>3, <1>5

(* The end of the transaction: what was earned is pulled, and nothing else *)
(* of what is owed or held moves.                                          *)
LEMMA Pulling ==
  ASSUME SettledInv, NEW s, Underway(s), NEW sender \in Accounts, Settle(s, sender)
  PROVE  /\ providers' = s.book.providers /\ calls' = s.book.calls
         /\ openCallsPerCaller' = s.book.open
         /\ claimable' \in [Addresses -> Nat] /\ balance' \in [Addresses -> Nat]
         /\ balance'[Registry] = s.book.balance[Registry]
         /\ balance'[PPC] = Total(Escrowed, PendingIn(s.book)) + Total(claimable', Addresses)
         /\ \A a \in Addresses \ {SLAKeeperAddress} : claimable'[a] = s.book.claimable[a]
         /\ s.bounty = 0 => /\ balance'[SLAKeeperAddress] = balance[SLAKeeperAddress]
                            /\ claimable'[SLAKeeperAddress] = s.book.claimable[SLAKeeperAddress]
         /\ s.bounty > 0 => /\ balance'[SLAKeeperAddress] =
                                 balance[SLAKeeperAddress] + s.book.claimable[SLAKeeperAddress]
                            /\ claimable'[SLAKeeperAddress] = 0
<1> DEFINE b == s.book
           keeper == SLAKeeperAddress
           m == b.claimable[keeper]
           owing == Total(Escrowed, PendingIn(b))
<1>1. /\ BookTypes(b) /\ BookMoney(b) /\ BountyCredited(s)
  BY DEF Underway
<1>2. /\ b.claimable \in [Addresses -> Nat] /\ b.balance \in [Addresses -> Nat]
      /\ s.bounty \in Nat
  BY <1>1 DEF BookTypes, BountyCredited
<1>3. /\ keeper \in Addresses /\ Registry \in Addresses /\ PPC \in Addresses
      /\ Registry # PPC /\ keeper # Registry /\ keeper # PPC
  BY KeeperPlace
<1>4. /\ b.balance[PPC] = owing + Total(b.claimable, Addresses)
      /\ b.balance[keeper] = balance[keeper]
  BY <1>1, <1>3 DEF BookMoney
<1>5. providers' = b.providers /\ calls' = b.calls /\ openCallsPerCaller' = b.open
  BY DEF Settle, Pulled
<1>6. CASE s.bounty = 0
  <2>1. claimable' = b.claimable /\ balance' = b.balance
    BY <1>6 DEF Settle
  <2> QED
    BY <1>2, <1>4, <1>5, <1>6, <2>1
<1>7. CASE s.bounty > 0
  <2> DEFINE f == b.claimable
             h == [f EXCEPT ![keeper] = 0]
             ledger == b.balance
             after == Transfer(ledger, PPC, keeper, m)
  <2>1. claimable' = h /\ balance' = after
    BY <1>7 DEF Settle, Pulled
  <2>2. /\ f \in [Addresses -> Nat] /\ h \in [Addresses -> Nat] /\ m \in Nat
        /\ f[keeper] = m /\ h[keeper] = 0
        /\ \A a \in Addresses \ {keeper} : h[a] = f[a]
        /\ \A a \in Addresses : f[a] \in Nat /\ h[a] \in Nat
    BY <1>2, <1>3
  <2>3. owing \in Nat
    <3> DEFINE S == PendingIn(b)
    <3>1. IsFiniteSet(S) /\ \A d \in S : Escrowed[d] \in Nat
      BY IdsFinite, EscrowedNat DEF PendingIn, SettledInv
    <3> HIDE DEF S
    <3>2. Total(Escrowed, S) \in Nat
      BY ONLY <3>1, TotalNat
    <3> QED
      BY <3>2 DEF S
  <2>4. IsFiniteSet(Addresses)
    BY SetsFinite
  <2>5. ledger \in [Addresses -> Nat] /\ ledger[PPC] = owing + Total(f, Addresses)
        /\ ledger[keeper] = balance[keeper]
    BY <1>2, <1>4
  <2> DEFINE A == Addresses
  <2>6. keeper \in A /\ PPC \in A /\ Registry \in A
    BY <1>3
  <2>7. /\ f \in [A -> Nat] /\ IsFiniteSet(A) /\ ledger \in [A -> Nat]
        /\ ledger[PPC] = owing + Total(f, A)
        /\ \A a \in A : f[a] \in Nat /\ h[a] \in Nat
        /\ \A a \in A \ {keeper} : h[a] = f[a]
    BY <2>2, <2>4, <2>5
  <2> HIDE DEF A, f, h, ledger, m, owing, keeper
  <2>8. Total(h, A) = Total(f, A) - m /\ Total(f, A) \in Nat /\ m <= Total(f, A)
    <3>1. Total(h, A) = Total(f, A) - f[keeper] + h[keeper]
      BY ONLY <2>6, <2>7, TotalChange
    <3>2. Total(f, A) \in Nat
      BY ONLY <2>7, TotalNat
    <3>3. f[keeper] <= Total(f, A)
      BY ONLY <2>6, <2>7, TotalBounds
    <3> QED
      BY <2>2, <3>1, <3>2, <3>3
  <2>9. CanPay(ledger, PPC, m)
    BY <2>2, <2>3, <2>7, <2>8 DEF CanPay
  <2>10. after \in [A -> Nat]
    BY <1>3, <2>2, <2>5, <2>9, TransferType DEF A
  <2>11. /\ after[PPC] = ledger[PPC] - m /\ after[keeper] = ledger[keeper] + m
         /\ after[Registry] = ledger[Registry]
    <3>1. /\ ledger \in [Addresses -> Nat] /\ PPC \in Addresses /\ keeper \in Addresses
          /\ PPC # keeper /\ m \in Nat
      BY <1>3, <2>2, <2>5
    <3>2. /\ after[PPC] = ledger[PPC] - m /\ after[keeper] = ledger[keeper] + m
          /\ \A x \in Addresses \ {PPC, keeper} : after[x] = ledger[x]
      BY ONLY <3>1, TransferMoves DEF after
    <3> QED
      BY <1>3, <3>2
  <2> HIDE DEF after
  <2>12. after[PPC] = owing + Total(h, A)
    BY <2>2, <2>3, <2>7, <2>8, <2>11
  <2>13. /\ balance'[PPC] = owing + Total(claimable', Addresses)
         /\ balance' \in [Addresses -> Nat] /\ claimable' \in [Addresses -> Nat]
    BY <2>1, <2>2, <2>10, <2>12 DEF A
  <2>14. /\ balance'[Registry] = b.balance[Registry]
         /\ balance'[keeper] = balance[keeper] + m /\ claimable'[keeper] = 0
         /\ \A a \in Addresses \ {keeper} : claimable'[a] = b.claimable[a]
    BY <2>1, <2>2, <2>5, <2>11 DEF ledger, f
  <2> QED
    BY <1>5, <1>7, <2>13, <2>14 DEF owing, m, keeper
<1> QED
  BY <1>2, <1>6, <1>7

(* What was true between two transactions is so after a batch.             *)
LEMMA SettleKeeps ==
  ASSUME SettledInv, NEW s, Underway(s), NEW sender \in Accounts, Settle(s, sender)
  PROVE  SettledInv'
<1> DEFINE b == s.book
<1>1. /\ BookTypes(b) /\ BookCalls(b) /\ BookProviders(b) /\ BookMoney(b)
  BY DEF Underway
<1>2. /\ providers' = b.providers /\ calls' = b.calls /\ openCallsPerCaller' = b.open
      /\ claimable' \in [Addresses -> Nat] /\ balance' \in [Addresses -> Nat]
      /\ balance'[Registry] = b.balance[Registry]
      /\ balance'[PPC] = Total(Escrowed, PendingIn(b)) + Total(claimable', Addresses)
  BY Pulling
<1>3. UNCHANGED <<termsVars, adminVars, now, nonce, usedReceipts, usedAuthorizations>>
  BY DEF Settle
<1> HIDE DEF b
<1>4. TypeOK'
  BY <1>1, <1>2, <1>3
     DEF SettledInv, Inv, TypeOK, RegistryTypeOK, BookTypes, termsVars, adminVars
<1>5. \A p \in Providers : Registered(p)' = Registered(p)
  BY <1>1, <1>2 DEF BookProviders, Registered
<1>6. ProvidersWellFormed'
  BY <1>1, <1>2, <1>5 DEF BookProviders, ProvidersWellFormed
<1>7. ASSUME NEW c \in CallIds
      PROVE  /\ calls[c] \in Call /\ (calls'[c] # calls[c] => calls[c].status = "Pending")
             /\ calls'[c].provider = calls[c].provider /\ calls'[c].caller = calls[c].caller
             /\ calls'[c].amount = calls[c].amount /\ calls'[c].startedAt = calls[c].startedAt
             /\ calls'[c].deadline = calls[c].deadline
             /\ calls'[c].termsVersion = calls[c].termsVersion
             /\ calls'[c].termsHash = calls[c].termsHash
             /\ calls'[c].status # "None" => calls[c].status # "None"
  <2>1. calls[c] \in Call
    BY DEF SettledInv, Inv, TypeOK
  <2> QED
    BY <1>1, <1>2, <2>1 DEF BookCalls, Call, Pending
<1>8. CallsWellFormed'
  <2>1. \A c \in CallIds : c >= nonce => calls'[c] = NoCall
    BY <1>7 DEF SettledInv, Inv, CallsWellFormed, NoCall
  <2>2. \A c \in CallIds : calls'[c].status # "None" =>
          /\ calls'[c].provider \in Providers /\ calls'[c].caller \in Addresses
          /\ calls'[c].termsVersion \in Versions
    BY <1>7 DEF SettledInv, Inv, CallsWellFormed
  <2> QED
    BY <1>3, <2>1, <2>2 DEF CallsWellFormed
<1>9. PendingCalls' = PendingIn(b) /\ \A p : PendingOf(p)' = PendingAt(b, p)
  BY <1>2 DEF PendingCalls, PendingOf, PendingIn, PendingAt, Pending
<1>10. PendingCountExact'
  BY <1>1, <1>2, <1>9 DEF PendingCountExact, BookProviders
<1>11. TermsInv'
  <2>1. RegistryTypeOK /\ TermsInv /\ UNCHANGED termsVars
    BY <1>3 DEF SettledInv, Inv, TypeOK
  <2> QED
    BY <1>5, <2>1, TermsUntouched
<1>12. SnapshotIntact'
  BY <1>3, <1>7 DEF SettledInv, SnapshotIntact, TermsPublished, termsVars
<1>13. StakeBacked'
  <2>1. StakeOf' = StakesIn(b)
    BY <1>2 DEF StakeOf, StakesIn
  <2> QED
    BY <1>1, <1>2, <2>1 DEF StakeBacked, BookMoney
<1>14. Funded'
  <2>1. Escrowed' = Escrowed
    BY <1>7 DEF Escrowed
  <2> QED
    BY <1>2, <1>9, <2>1 DEF Funded, EscrowTotal, CreditTotals
<1> QED
  BY <1>4, <1>6, <1>8, <1>10, <1>11, <1>12, <1>13, <1>14 DEF SettledInv, Inv

-----------------------------------------------------------------------------
(* The keeper contract between two transactions: what it holds covers the  *)
(* bounties booked, and it is credited only for calls opened for itself.   *)
BountyBooks ==
  /\ bountyClaimable \in [Accounts -> Nat]
  /\ balance[SLAKeeperAddress] >= Total(bountyClaimable, Accounts)
  /\ NotForKeeper => /\ claimable[SLAKeeperAddress] = 0
                     /\ balance[SLAKeeperAddress] = Total(bountyClaimable, Accounts)

KeeperInv == SettledInv /\ BountyBooks

LEMMA BookedNat ==
  ASSUME BountyBooks
  PROVE  Total(bountyClaimable, Accounts) \in Nat /\ \A a \in Accounts : bountyClaimable[a] \in Nat
<1>1. IsFiniteSet(Accounts) /\ \A a \in Accounts : bountyClaimable[a] \in Nat
  BY KeeperPlace DEF BountyBooks
<1> QED
  BY <1>1, TotalNat

LEMMA SettleBooks ==
  ASSUME KeeperInv, NEW s, Underway(s), NEW sender \in Accounts, Settle(s, sender)
  PROVE  KeeperInv'
<1> DEFINE keeper == SLAKeeperAddress
           m == s.book.claimable[keeper]
           f == bountyClaimable
<1>1. SettledInv /\ BountyBooks
  BY DEF KeeperInv
<1>2. SettledInv'
  BY <1>1, SettleKeeps
<1>3. /\ calls' = s.book.calls
      /\ s.bounty = 0 => balance'[keeper] = balance[keeper] /\ claimable'[keeper] = m
      /\ s.bounty > 0 => balance'[keeper] = balance[keeper] + m /\ claimable'[keeper] = 0
  BY <1>1, Pulling
<1>4. /\ s.bounty \in Nat /\ m >= claimable[keeper] + s.bounty
      /\ NotForKeeper => m = claimable[keeper] + s.bounty
  BY DEF Underway, BountyCredited
<1>5. m \in Nat /\ claimable[keeper] \in Nat /\ balance[keeper] \in Nat
  BY <1>1, KeeperPlace DEF Underway, BookTypes, SettledInv, Inv, TypeOK, RegistryTypeOK
<1>6. NotForKeeper' => NotForKeeper
  <2>1. \A c \in CallIds : calls'[c].caller = calls[c].caller
    <3>1. BookCalls(s.book) /\ \A c \in CallIds : calls[c] \in Call
      BY <1>1 DEF Underway, SettledInv, Inv, TypeOK
    <3> QED
      BY <1>3, <3>1 DEF BookCalls, Call
  <2> QED
    BY <2>1 DEF NotForKeeper
<1>7. f' = [f EXCEPT ![sender] = @ + s.bounty]
  BY DEF Settle
<1> DEFINE h == [f EXCEPT ![sender] = @ + s.bounty]
<1>8. /\ f \in [Accounts -> Nat] /\ h \in [Accounts -> Nat] /\ IsFiniteSet(Accounts)
      /\ \A a \in Accounts : f[a] \in Nat /\ h[a] \in Nat
      /\ \A a \in Accounts \ {sender} : h[a] = f[a]
      /\ h[sender] = f[sender] + s.bounty
  <2>1. f \in [Accounts -> Nat] /\ IsFiniteSet(Accounts)
    BY <1>1, KeeperPlace DEF BountyBooks
  <2> QED
    BY <1>4, <2>1
<1>9. Total(f, Accounts) \in Nat
  BY <1>1, BookedNat
<1> HIDE DEF h
<1>10. Total(h, Accounts) = Total(f, Accounts) + s.bounty
  <2>1. Total(h, Accounts) = Total(f, Accounts) - f[sender] + h[sender]
    BY <1>8, TotalChange
  <2> QED
    BY <1>4, <1>8, <1>9, <2>1
<1>11. /\ balance[keeper] >= Total(f, Accounts)
       /\ NotForKeeper => claimable[keeper] = 0 /\ balance[keeper] = Total(f, Accounts)
  BY <1>1 DEF BountyBooks
<1> HIDE DEF m, keeper
<1>12. balance'[keeper] >= Total(h, Accounts)
  BY <1>3, <1>4, <1>5, <1>9, <1>10, <1>11
<1>13. NotForKeeper => claimable'[keeper] = 0 /\ balance'[keeper] = Total(h, Accounts)
  BY <1>3, <1>4, <1>5, <1>9, <1>10, <1>11
<1>14. bountyClaimable' = h
  BY <1>7 DEF h
<1> QED
  BY <1>2, <1>6, <1>8, <1>12, <1>13, <1>14 DEF KeeperInv, BountyBooks, keeper

(* The other contracts neither pay the keeper contract nor credit it,      *)
(* except for calls opened for it.                                         *)
LEMMA OthersKeepBooks ==
  ASSUME KeeperInv, [Next]_vars, UNCHANGED bountyClaimable
  PROVE  KeeperInv'
<1> DEFINE keeper == SLAKeeperAddress
<1>1. SettledInv /\ BountyBooks /\ Inv
  BY DEF KeeperInv, SettledInv
<1>2. SettledInv'
  BY <1>1, StepInv, TermsStepInv, MoneyStep DEF SettledInv
<1>3. balance'[keeper] = balance[keeper]
  <2>1. CASE UNCHANGED vars
    BY <2>1 DEF vars, registryVars
  <2>2. CASE Next
    <3>1. keeper \in Contracts \ {Registry, PPC} /\ Slashers \ {keeper} = Slashers
      BY KeeperPlace
    <3>2. \/ AdminStep \/ Tick \/ CallStep
          \/ \E p \in Providers : OwnerStep(p)
          \/ \E s \in Slashers \ {keeper}, p \in Providers, amount \in SlashAmounts :
               Slash(s, p, amount)
      BY <2>2, <3>1 DEF Next, RegistryStep
    <3> HIDE DEF keeper
    <3> QED
      BY <1>1, <3>1, <3>2, OthersBalance
  <2> QED
    BY <2>1, <2>2
<1>4. /\ calls \in [CallIds -> Call] /\ claimable \in [Addresses -> Nat]
      /\ keeper \in Addresses /\ keeper \notin Accounts /\ keeper # NoAddress
  BY <1>1, KeeperPlace, RegistryAssumption DEF Inv, TypeOK
<1>5. NotForKeeper' => NotForKeeper /\ claimable'[keeper] = claimable[keeper]
  <2> SUFFICES ASSUME NotForKeeper'
               PROVE  NotForKeeper /\ claimable'[keeper] = claimable[keeper]
    OBVIOUS
  <2>1. CASE UNCHANGED <<calls, claimable>>
    BY <2>1 DEF NotForKeeper
  <2>2. CASE OpenStep
    <3>1. PICK p \in Providers, caller \in Addresses, payer \in Accounts :
            CreateCall(p, caller, payer)
      BY <2>2, OpenStepCreates
    <3>2. /\ nonce \in CallIds /\ calls[nonce] = NoCall
          /\ \A d \in CallIds \ {nonce} : calls'[d] = calls[d]
      <4>1. calls[nonce] = NoCall
        BY <1>1, <3>1, PayPerCallAssumption DEF Inv, CallsWellFormed, CreateCall
      <4> QED
        BY <1>1, <3>1, <4>1, CreateCallCreates DEF Creates
    <3>3. UNCHANGED claimable
      BY <3>1 DEF CreateCall
    <3> QED
      BY <1>4, <3>2, <3>3 DEF NotForKeeper, NoCall
  <2>3. ASSUME NEW c \in CallIds, NEW t, NEW v, NEW key, SubmitReceipt(c, t, v, key)
        PROVE  NotForKeeper /\ claimable'[keeper] = claimable[keeper]
    <3>1. Settles(c, "Completed")
      BY <1>1, <2>3, ReceiptSettles
    <3>2. NotForKeeper
      BY <3>1 DEF NotForKeeper, Settles
    <3>3. calls[c].provider \in Accounts
      BY <1>1, <3>1, PendingCallFacts, RegistryAssumption DEF Settles
    <3>4. claimable' = Credit(claimable, calls[c].provider, calls[c].amount)
      BY <2>3 DEF SubmitReceipt
    <3> QED
      BY <1>4, <3>2, <3>3, <3>4 DEF Credit
  <2>4. ASSUME NEW c \in CallIds, NEW k \in Keepers, ClaimTimeout(c, k)
        PROVE  NotForKeeper /\ claimable'[keeper] = claimable[keeper]
    <3>1. Settles(c, "Slashed")
      BY <1>1, <2>4, TimeoutSettles
    <3>2. NotForKeeper
      BY <3>1 DEF NotForKeeper, Settles
    <3>3. calls[c].caller \in Addresses /\ calls[c].caller # keeper /\ k \in Addresses /\ k # keeper
      BY <1>1, <3>1, <3>2, PendingCallFacts, KeeperPlace DEF Settles, NotForKeeper
    <3>4. PICK x, y : claimable' = Credit(Credit(claimable, calls[c].caller, x), k, y)
      BY <2>4 DEF ClaimTimeout, AfterTimeout, Book
    <3> QED
      BY <1>4, <3>2, <3>3, <3>4 DEF Credit
  <2>5. ASSUME NEW a \in Accounts, Claim(a)
        PROVE  NotForKeeper /\ claimable'[keeper] = claimable[keeper]
    <3>1. UNCHANGED calls /\ claimable' = [claimable EXCEPT ![a] = 0]
      BY <2>5 DEF Claim
    <3> QED
      BY <1>4, <3>1 DEF NotForKeeper
  <2> QED
    BY <2>1, <2>2, <2>3, <2>4, <2>5
       DEF Next, CallStep, ReceiptStep, TimeoutStep, vars, callVars
<1> QED
  BY <1>1, <1>2, <1>3, <1>5 DEF KeeperInv, BountyBooks

LEMMA WithdrawKeeps ==
  ASSUME KeeperInv, NEW k \in Keepers, WithdrawBounty(k)
  PROVE  KeeperInv'
<1> DEFINE keeper == SLAKeeperAddress
           m == bountyClaimable[k]
           f == bountyClaimable
           h == [f EXCEPT ![k] = 0]
           after == Transfer(balance, keeper, k, m)
<1>1. SettledInv /\ BountyBooks /\ Inv
  BY DEF KeeperInv, SettledInv
<1>2. /\ CanPay(balance, keeper, m) /\ bountyClaimable' = h /\ balance' = after
      /\ UNCHANGED <<providers, termsVars, adminVars, now, callVars>>
  BY DEF WithdrawBounty
<1>3. /\ keeper \in Addresses /\ k \in Addresses /\ k \in Accounts /\ keeper # k
      /\ keeper # Registry /\ keeper # PPC /\ k # Registry /\ k # PPC
      /\ Registry \in Addresses /\ PPC \in Addresses /\ IsFiniteSet(Accounts)
      /\ balance \in [Addresses -> Nat]
  BY <1>1, KeeperPlace DEF Inv, TypeOK, RegistryTypeOK
<1>4. /\ f \in [Accounts -> Nat] /\ h \in [Accounts -> Nat] /\ f[k] = m /\ h[k] = 0 /\ m \in Nat
      /\ \A a \in Accounts : f[a] \in Nat /\ h[a] \in Nat
      /\ \A a \in Accounts \ {k} : h[a] = f[a]
  BY <1>1, <1>3 DEF BountyBooks
<1> HIDE DEF h, m
<1>5. after \in [Addresses -> Nat]
  BY <1>2, <1>3, <1>4, TransferType
<1>6. /\ after[keeper] = balance[keeper] - m
      /\ after[Registry] = balance[Registry] /\ after[PPC] = balance[PPC]
  <2>1. /\ balance \in [Addresses -> Nat] /\ keeper \in Addresses /\ k \in Addresses
        /\ keeper # k /\ m \in Nat
    BY <1>3, <1>4
  <2>2. /\ after[keeper] = balance[keeper] - m
        /\ \A x \in Addresses \ {keeper, k} : after[x] = balance[x]
    BY ONLY <2>1, TransferMoves DEF after
  <2> QED
    BY <1>3, <2>2
<1> HIDE DEF after
<1>7. Inv'
  BY <1>1, <1>2, <1>5, PayoutPreserves
<1>8. TermsInv' /\ SnapshotIntact'
  BY <1>1, <1>2
     DEF SettledInv, TermsInv, VersionsContiguous, NoTermsBefore, Registered, SnapshotIntact,
         TermsPublished, termsVars, callVars
<1>9. StakeBacked'
  BY <1>1, <1>2, <1>6, StakeStays DEF SettledInv
<1>10. Funded'
  BY <1>1, <1>2, <1>6
     DEF SettledInv, Funded, EscrowTotal, Escrowed, PendingCalls, Pending, CreditTotals, callVars
<1>11. Total(f, Accounts) \in Nat
  BY <1>1, BookedNat
<1>12. Total(h, Accounts) = Total(f, Accounts) - m
  <2>1. Total(h, Accounts) = Total(f, Accounts) - f[k] + h[k]
    BY <1>3, <1>4, TotalChange
  <2> QED
    BY <1>4, <1>11, <2>1
<1>13. balance[keeper] \in Nat /\ UNCHANGED <<calls, claimable>>
  BY <1>2, <1>3 DEF callVars
<1>14. /\ balance[keeper] >= Total(f, Accounts)
       /\ NotForKeeper => claimable[keeper] = 0 /\ balance[keeper] = Total(f, Accounts)
  BY <1>1 DEF BountyBooks
<1>15. balance'[keeper] >= Total(h, Accounts)
  BY <1>2, <1>4, <1>6, <1>11, <1>12, <1>13, <1>14
<1>16. NotForKeeper' => claimable'[keeper] = 0 /\ balance'[keeper] = Total(h, Accounts)
  <2>1. NotForKeeper' = NotForKeeper
    BY <1>13 DEF NotForKeeper
  <2> QED
    BY <1>2, <1>4, <1>6, <1>11, <1>12, <1>13, <1>14, <2>1
<1>17. BountyBooks'
  BY <1>2, <1>4, <1>15, <1>16 DEF BountyBooks, keeper
<1> QED
  BY <1>7, <1>8, <1>9, <1>10, <1>17 DEF KeeperInv, SettledInv

(* Every transaction of the keeper contract that times calls out.          *)
LEMMA KeeperSettles ==
  ASSUME SettledInv,
         NEW k \in Keepers,
         \/ \E c \in CallIds : KeeperClaim(c, k)
         \/ \E ids \in Batches : ClaimBatch(ids, k)
  PROVE  \E s : Underway(s) /\ Settle(s, k) /\ k \in Accounts
<1>1. k \in Accounts
  BY KeeperPlace
<1>2. ASSUME NEW c \in CallIds, KeeperClaim(c, k)
      PROVE  \E s : Underway(s) /\ Settle(s, k)
  <2>1. <<c>> \in [1..1 -> CallIds] /\ 1 \in Nat
    OBVIOUS
  <2>2. Underway(AfterBatch(<<c>>))
    BY <2>1, BatchUnderway
  <2> QED
    BY <1>2, <2>2 DEF KeeperClaim
<1>3. ASSUME NEW ids \in Batches, ClaimBatch(ids, k)
      PROVE  \E s : Underway(s) /\ Settle(s, k)
  <2>1. PICK n \in Nat : ids \in [1..n -> CallIds]
    BY SLAKeeperAssumption DEF Batches, SeqOf
  <2>2. Underway(AfterBatch(ids))
    BY <2>1, BatchUnderway
  <2> QED
    BY <1>3, <2>2 DEF ClaimBatch
<1> QED
  BY <1>1, <1>2, <1>3

LEMMA KeeperStepKeeps ==
  ASSUME KeeperInv, [KeeperNext]_keeperVars
  PROVE  KeeperInv'
<1>1. CASE Next /\ UNCHANGED bountyClaimable
  BY <1>1, OthersKeepBooks
<1>2. ASSUME NEW k \in Keepers,
             \/ \E c \in CallIds : KeeperClaim(c, k)
             \/ \E ids \in Batches : ClaimBatch(ids, k)
      PROVE  KeeperInv'
  BY <1>2, KeeperSettles, SettleBooks DEF KeeperInv
<1>3. ASSUME NEW k \in Keepers, WithdrawBounty(k) PROVE KeeperInv'
  BY <1>3, WithdrawKeeps
<1>4. CASE UNCHANGED keeperVars
  <2>1. UNCHANGED vars /\ UNCHANGED bountyClaimable
    BY <1>4 DEF keeperVars
  <2> QED
    BY <2>1, OthersKeepBooks
<1> QED
  BY <1>1, <1>2, <1>3, <1>4 DEF KeeperNext, KeeperStep

LEMMA KeeperInitInv == KeeperInit => KeeperInv
<1> SUFFICES ASSUME KeeperInit PROVE KeeperInv
  OBVIOUS
<1>1. SettledInv
  BY InitInv, TermsInitInv, MoneyInit DEF KeeperInit, SettledInv
<1>2. BountyBooks
  <2>1. /\ bountyClaimable \in [Accounts -> Nat] /\ \A a \in Accounts : bountyClaimable[a] = 0
        /\ IsFiniteSet(Accounts)
    BY KeeperPlace DEF KeeperInit
  <2>2. Total(bountyClaimable, Accounts) = 0
    BY <2>1, TotalZero
  <2>3. balance[SLAKeeperAddress] = 0 /\ claimable[SLAKeeperAddress] = 0
    BY KeeperPlace DEF KeeperInit, Init, RegistryInit, CallInit
  <2> QED
    BY <2>1, <2>2, <2>3 DEF BountyBooks
<1> QED
  BY <1>1, <1>2 DEF KeeperInv

(* A prefix of a batch is a batch, and what it leads to is accepted.       *)
LEMMA BatchesAccepted ==
  ASSUME SettledInv, NEW ids \in Batches
  PROVE  BatchAccepted(ids)
<1>1. PICK n \in Nat : ids \in [1..n -> CallIds]
  BY SLAKeeperAssumption DEF Batches, SeqOf
<1> SUFFICES ASSUME NEW i \in DOMAIN ids,
                    IsClaimable(AfterBatch(SubSeq(ids, 1, i - 1)).book, ids[i])
             PROVE  /\ AfterBatch(SubSeq(ids, 1, i - 1)).book.calls[ids[i]].status = "Pending"
                    /\ RegistryAcceptsTimeout(AfterBatch(SubSeq(ids, 1, i - 1)).book, ids[i])
  BY DEF BatchAccepted
<1>2. i \in 1..n /\ i - 1 \in Nat /\ ids[i] \in CallIds
  <2>1. DOMAIN ids = 1..n
    BY <1>1
  <2>2. i \in 1..n
    BY <2>1
  <2>3. ids[i] \in CallIds
    BY ONLY <1>1, <2>2
  <2> QED
    BY <2>2, <2>3
<1>3. SubSeq(ids, 1, i - 1) \in [1..(i - 1) -> CallIds]
  <2>1. SubSeq(ids, 1, i - 1) = [j \in 1..(i - 1) |-> ids[j]]
    BY <1>1, <1>2
  <2> QED
    <3>1. ASSUME NEW j \in 1..(i - 1) PROVE ids[j] \in CallIds
      <4>1. j \in 1..n
        BY <1>2
      <4> QED
        BY ONLY <1>1, <4>1
    <3> QED
      BY <2>1, <3>1
<1> DEFINE s == AfterBatch(SubSeq(ids, 1, i - 1))
<1>4. Underway(s)
  BY <1>2, <1>3, BatchUnderway
<1>5. IsClaimable(s.book, ids[i])
  OBVIOUS
<1> HIDE DEF s
<1>6. RegistryAcceptsTimeout(s.book, ids[i])
  BY <1>2, <1>4, <1>5, AcceptedUnderway
<1> QED
  BY <1>5, <1>6 DEF IsClaimable, s

(* A keeper can count on the contract for any number of providers, calls,  *)
(* keepers and ids in a batch: no claim of a batch reverts, for whatever   *)
(* the earlier ones did to the stake, and every bounty that was booked is  *)
(* there to be paid.                                                       *)
THEOREM KeepersArePaid == KeeperSpec => []KeepersPaid
<1>1. KeeperInv /\ [KeeperNext]_keeperVars => KeeperInv'
  BY KeeperStepKeeps
<1>2. KeeperInv => KeepersPaid
  <2> SUFFICES ASSUME KeeperInv PROVE KeepersPaid
    OBVIOUS
  <2>1. KeeperSolvent
    BY DEF KeeperInv, BountyBooks, NotForKeeper, KeeperSolvent
  <2>2. BatchNeverReverts
    BY BatchesAccepted DEF KeeperInv, BatchNeverReverts
  <2> QED
    BY <2>1, <2>2 DEF KeepersPaid
<1> QED
  BY KeeperInitInv, <1>1, <1>2, PTL DEF KeeperSpec

-----------------------------------------------------------------------------
(* What one transaction does for a caller.                                 *)
SlashedNow(a) == {c \in CallIds : /\ Pending(c) /\ calls[c].caller = a
                             /\ calls'[c].status = "Slashed"}
MadeWhole(a) == claimable'[a] >= claimable[a] + Total(Escrowed, SlashedNow(a))

LEMMA NextMakesWhole ==
  ASSUME SettledInv, Next, NEW a \in Addresses \ {SLAKeeperAddress}, calls' # calls
  PROVE  MadeWhole(a)
<1>1. Inv /\ claimable \in [Addresses -> Nat] /\ claimable[a] \in Nat
  BY DEF SettledInv, Inv, TypeOK
<1>2. CASE OpenStep
  <2>1. PICK p \in Providers, caller \in Addresses, payer \in Accounts :
          CreateCall(p, caller, payer)
    BY <1>2, OpenStepCreates
  <2>2. Creates(p, caller) /\ UNCHANGED claimable
    BY <1>1, <2>1, CreateCallCreates DEF CreateCall
  <2>3. SlashedNow(a) = {}
    BY <2>2 DEF SlashedNow, Pending, Creates
  <2> QED
    BY <1>1, <2>2, <2>3, TotalEmpty DEF MadeWhole
<1>3. ASSUME NEW c \in CallIds, NEW t, NEW v, NEW key, SubmitReceipt(c, t, v, key)
      PROVE  MadeWhole(a)
  <2>1. Settles(c, "Completed")
    BY <1>1, <1>3, ReceiptSettles
  <2>2. SlashedNow(a) = {}
    BY <2>1 DEF SlashedNow, Settles, Pending
  <2>3. calls[c].amount \in Nat
    BY <1>1, <2>1, PendingCallFacts DEF Settles
  <2>4. claimable' = Credit(claimable, calls[c].provider, calls[c].amount)
    BY <1>3 DEF SubmitReceipt
  <2>5. claimable'[a] >= claimable[a]
    BY <1>1, <2>3, <2>4 DEF Credit
  <2> QED
    BY <1>1, <2>2, <2>5, TotalEmpty DEF MadeWhole
<1>4. ASSUME NEW c \in CallIds, NEW k \in Keepers, ClaimTimeout(c, k)
      PROVE  MadeWhole(a)
  <2> DEFINE slash == SlashAmount(Book, c)
             bounty == KeeperBounty(slash)
             amount == calls[c].amount
             caller == calls[c].caller
             credit == amount + (slash - bounty)
             f == Credit(claimable, caller, credit)
  <2>1. Settles(c, "Slashed") /\ RegistryAcceptsTimeout(Book, c)
    BY <1>1, <1>4, TimeoutSettles DEF ClaimTimeout
  <2>2. amount \in Nat /\ caller \in Addresses
    BY <1>1, <2>1, PendingCallFacts DEF Settles
  <2>3. slash \in Nat /\ bounty \in Nat /\ bounty <= slash
    BY <1>1, <2>1, SlashFacts DEF Settles
  <2>4. claimable' = Credit(f, k, bounty)
    BY <1>4 DEF ClaimTimeout, AfterTimeout, Book
  <2>5. Escrowed[c] = amount
    BY DEF Escrowed
  <2> HIDE DEF slash, bounty, amount
  <2>6. credit \in Nat /\ credit >= amount
    BY <2>2, <2>3
  <2> HIDE DEF credit
  <2>7. /\ f \in [Addresses -> Nat] /\ f[a] >= claimable[a]
        /\ a = caller => f[a] = claimable[a] + credit
    BY <1>1, <2>2, <2>6 DEF Credit
  <2> HIDE DEF f
  <2>8. claimable'[a] >= f[a] /\ claimable'[a] \in Nat /\ f[a] \in Nat
    BY <2>3, <2>4, <2>7 DEF Credit
  <2>9. CASE a = caller
    <3>1. SlashedNow(a) = {c}
      BY <2>1, <2>9 DEF SlashedNow, Settles, Pending
    <3>2. Total(Escrowed, {c}) = amount
      BY <2>2, <2>5, TotalSingle
    <3> QED
      BY <1>1, <2>2, <2>6, <2>7, <2>8, <2>9, <3>1, <3>2 DEF MadeWhole
  <2>10. CASE a # caller
    <3>1. SlashedNow(a) = {}
      BY <2>1, <2>10 DEF SlashedNow, Settles, Pending
    <3> QED
      BY <1>1, <2>7, <2>8, <3>1, TotalEmpty DEF MadeWhole
  <2> QED
    BY <2>9, <2>10
<1>5. ASSUME (\E x \in Accounts : Claim(x)) \/ UNCHANGED callVars PROVE FALSE
  BY <1>5 DEF Claim, callVars
<1> QED
  BY <1>2, <1>3, <1>4, <1>5 DEF Next, CallStep, ReceiptStep, TimeoutStep

LEMMA KeeperMakesWhole ==
  ASSUME SettledInv, KeeperNext, NEW a \in Addresses \ {SLAKeeperAddress}, calls' # calls
  PROVE  MadeWhole(a)
<1>1. CASE Next
  BY <1>1, NextMakesWhole
<1>2. ASSUME NEW k \in Keepers, WithdrawBounty(k) PROVE FALSE
  BY <1>2 DEF WithdrawBounty, callVars
<1>3. ASSUME NEW k \in Keepers,
             \/ \E c \in CallIds : KeeperClaim(c, k)
             \/ \E ids \in Batches : ClaimBatch(ids, k)
      PROVE  MadeWhole(a)
  <2>1. PICK s : Underway(s) /\ Settle(s, k) /\ k \in Accounts
    BY <1>3, KeeperSettles
  <2>2. calls' = s.book.calls /\ claimable'[a] = s.book.claimable[a]
    BY <2>1, Pulling
  <2>3. TimedOut(s.book, a) = SlashedNow(a)
    BY <2>2 DEF TimedOut, SlashedNow
  <2> QED
    BY <2>1, <2>2, <2>3 DEF Underway, BookRefunds, MadeWhole
<1> QED
  BY <1>1, <1>2, <1>3 DEF KeeperNext, KeeperStep

(* No caller pays for being one of many: whatever a transaction times out, *)
(* one call or a batch over one shrinking stake, the caller of each is     *)
(* credited its price at the least.                                        *)
THEOREM CallersMadeWhole == KeeperSpec => BatchMakesCallersWhole
<1>1. KeeperInv /\ [KeeperNext]_keeperVars => KeeperInv'
  BY KeeperStepKeeps
<1>2. KeeperInv /\ [KeeperNext]_keeperVars =>
        [\A a \in Addresses \ {SLAKeeperAddress} : MadeWhole(a)]_<<calls>>
  <2>1. ASSUME KeeperInv, [KeeperNext]_keeperVars, calls' # calls
        PROVE  \A a \in Addresses \ {SLAKeeperAddress} : MadeWhole(a)
    <3>1. KeeperNext
      BY <2>1 DEF keeperVars, vars, callVars
    <3> QED
      BY <2>1, <3>1, KeeperMakesWhole DEF KeeperInv
  <2> QED
    BY <2>1
<1>3. [\A a \in Addresses \ {SLAKeeperAddress} : MadeWhole(a)]_<<calls>> =>
      [\A a \in Addresses \ {SLAKeeperAddress} :
         LET over == {c \in CallIds : /\ Pending(c) /\ calls[c].caller = a
                                      /\ calls'[c].status = "Slashed"}
         IN claimable'[a] >= claimable[a] + Total(Escrowed, over)]_<<calls>>
  BY DEF MadeWhole, SlashedNow
<1> QED
  BY KeeperInitInv, <1>1, <1>2, <1>3, PTL DEF KeeperSpec, BatchMakesCallersWhole
=============================================================================
