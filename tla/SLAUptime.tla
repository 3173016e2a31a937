------------------------------ MODULE SLAUptime -----------------------------
(***************************************************************************)
(* contracts/SLAUptime.sol on top of PayPerCallV8: anyone may claim that a *)
(* provider missed the availability it published.  The availability is     *)
(* that of the calls that ended since the last successful claim, read off  *)
(* the registry's counters; a miss takes a share of the stake, split       *)
(* between the claimer and the treasury.                                   *)
(***************************************************************************)
EXTENDS PayPerCallV8

CONSTANTS
  SLAUptimeAddress,    \* the address of this contract
  UptimeArbiters,      \* addresses the arbiter role may be handed to
  UptimeTreasuries,    \* addresses the treasury may be set to
  AvailabilitySlashes, \* availabilitySlashBps the arbiter may set
  UptimeBounties,      \* bountyBps the arbiter may set
  Cooldowns,           \* cooldowns the arbiter may set (at most 30 days)
  SampleMinimums       \* minSamples the arbiter may set

ASSUME UptimeAssumption ==
  /\ SLAUptimeAddress \in Slashers
  /\ UptimeTreasuries \subseteq Addresses \ {SLAUptimeAddress}
  /\ AvailabilitySlashes \subseteq 0..Bps /\ UptimeBounties \subseteq 0..Bps
  /\ Cooldowns \subseteq Nat /\ SampleMinimums \subseteq Nat \ {0}

VARIABLES
  uptimeConfig,  \* arbiter, treasury, availabilitySlashBps, bountyBps, cooldown, minSamples
  windows,       \* the counters captured by the last successful claim
  lastClaimAt,
  scored         \* history: the calls a successful claim has counted

uptimeVars == <<uptimeConfig, windows, lastClaimAt, scored>>

NeverChecked == [completed |-> 0, slashed |-> 0, checkedAt |-> 0]

UptimeConfig ==
  [arbiter : UptimeArbiters, treasury : UptimeTreasuries, slashBps : AvailabilitySlashes,
   bountyBps : UptimeBounties, cooldown : Cooldowns, minSamples : SampleMinimums]

UptimeInit ==
  /\ uptimeConfig \in UptimeConfig
  /\ windows = [p \in Providers |-> NeverChecked]
  /\ lastClaimAt = [p \in Providers |-> 0]
  /\ scored = {}

-----------------------------------------------------------------------------
Over(p) == {c \in CallIds : calls[c].provider = p /\ calls[c].status \in {"Completed", "Slashed"}}

(* _targetBps: 0 when no terms, or no target, were published.              *)
TargetBps(p) ==
  IF latestTermsVersion[p] = 0 THEN 0 ELSE LatestTerms(p).availabilityTargetBps

(* _measure: what ended since the last check; no sample reads as 0 bps.    *)
Measure(p) ==
  LET completed == providers[p].completedCalls - windows[p].completed
      samples == completed + (providers[p].slashedCalls - windows[p].slashed)
  IN [samples |-> samples,
      availabilityBps |-> IF samples = 0 THEN 0 ELSE (completed * Bps) \div samples]

AvailabilitySlash(p) == Share(providers[p].stake, uptimeConfig.slashBps)

\* Mutant: the window forgets the timeouts it has charged for.
WindowAt_CompletedOnly(p) ==
  [completed |-> providers[p].completedCalls, slashed |-> windows[p].slashed, checkedAt |-> now]

(* The window a successful claim leaves behind.                            *)
WindowAt(p) ==
  [completed |-> providers[p].completedCalls, slashed |-> providers[p].slashedCalls,
   checkedAt |-> now]

(* The slash leaves the contract in the transaction that brought it in.    *)
PaidOut(ledger, amount, sender) ==
  LET bounty == Share(amount, uptimeConfig.bountyBps) IN
  Transfer(Transfer(ledger, SLAUptimeAddress, sender, bounty),
           SLAUptimeAddress, uptimeConfig.treasury, amount - bounty)

ClaimAvailability(p, sender) ==
  LET slash == AvailabilitySlash(p) IN
  /\ Registered(p)
  /\ TargetBps(p) # 0
  /\ Measure(p).samples >= uptimeConfig.minSamples
  /\ Measure(p).availabilityBps < TargetBps(p)
  /\ lastClaimAt[p] # 0 => now >= lastClaimAt[p] + uptimeConfig.cooldown
  /\ MaySlash(SLAUptimeAddress)
  /\ SlashAccepted(providers, p, slash)
  /\ CanPay(balance, Registry, slash)
  /\ windows' = [windows EXCEPT ![p] = WindowAt(p)]
  /\ lastClaimAt' = [lastClaimAt EXCEPT ![p] = now]
  /\ scored' = scored \cup Over(p)
  /\ providers' = Slashed(providers, p, slash)
  /\ balance' = PaidOut(Transfer(balance, Registry, SLAUptimeAddress, slash), slash, sender)
  /\ UNCHANGED <<uptimeConfig, termsVars, adminVars, now, callVars>>

-----------------------------------------------------------------------------
(* The arbiter's setters.                                                  *)

Configure(new) ==
  /\ uptimeConfig' = new
  /\ UNCHANGED <<vars, windows, lastClaimAt, scored>>

SetUptimeArbiter(a) == Configure([uptimeConfig EXCEPT !.arbiter = a])
SetUptimeTreasury(t) == Configure([uptimeConfig EXCEPT !.treasury = t])
SetAvailabilitySlashBps(bps) == Configure([uptimeConfig EXCEPT !.slashBps = bps])
SetBountyBps(bps) == Configure([uptimeConfig EXCEPT !.bountyBps = bps])
SetCooldown(c) == Configure([uptimeConfig EXCEPT !.cooldown = c])
SetMinSamples(n) == Configure([uptimeConfig EXCEPT !.minSamples = n])

UptimeStep ==
  \/ \E p \in Providers, a \in Accounts : ClaimAvailability(p, a)
  \/ \E a \in UptimeArbiters : SetUptimeArbiter(a)
  \/ \E t \in UptimeTreasuries : SetUptimeTreasury(t)
  \/ \E bps \in AvailabilitySlashes : SetAvailabilitySlashBps(bps)
  \/ \E bps \in UptimeBounties : SetBountyBps(bps)
  \/ \E c \in Cooldowns : SetCooldown(c)
  \/ \E n \in SampleMinimums : SetMinSamples(n)

(* The registry and PayPerCall run as before, except that the slashes of   *)
(* this contract are ClaimAvailability's and no action of their own.       *)
SettlementStep ==
  \/ /\ \/ AdminStep
        \/ \E p \in Providers : OwnerStep(p)
        \/ \E s \in Slashers \ {SLAUptimeAddress}, p \in Providers, amount \in SlashAmounts :
             Slash(s, p, amount)
        \/ Tick
     /\ UNCHANGED callVars
  \/ CallStep

UptimeNext == (SettlementStep /\ UNCHANGED uptimeVars) \/ UptimeStep

UptimeSpec == Init /\ UptimeInit /\ [][UptimeNext]_<<vars, uptimeVars>>

-----------------------------------------------------------------------------
(* A call is held against its provider once: what the contract would       *)
(* measure now are exactly the calls that ended and were not counted by an *)
(* earlier successful claim, so a reverted or early claim loses no sample  *)
(* and a paid one counts none twice; and of the stake it took nothing      *)
(* stays in the contract.                                                  *)
EachOutcomeChargedOnce ==
  /\ \A p \in Providers :
       LET fresh == Over(p) \ scored
           answered == {c \in fresh : calls[c].status = "Completed"}
       IN /\ Measure(p).samples = Cardinality(fresh)
          /\ fresh # {} => Measure(p).availabilityBps =
                             (Cardinality(answered) * Bps) \div Cardinality(fresh)
  /\ balance[SLAUptimeAddress] = 0

(* contracts/SLAUptime.sol:13-14: a provider that promises an availability *)
(* and misses it has a claim to answer.  Where every call not yet counted  *)
(* was opened under one target, and the calls miss that target, the target *)
(* the contract compares with is missed too.                               *)
PromiseHasConsequence ==
  \A p \in Providers, target \in {t.availabilityTargetBps : t \in TermsInputs} :
    /\ Over(p) \ scored # {}
    /\ \A c \in Over(p) \ scored : calls[c].termsHash.availabilityTargetBps = target
    /\ Measure(p).availabilityBps < target
    => Measure(p).availabilityBps < TargetBps(p)
=============================================================================
