------------------------------ MODULE DisputeV4 -----------------------------
(***************************************************************************)
(* contracts/DisputeV4.sol composed with PayPerCallV8, the registry it     *)
(* slashes and the evidence registry it reads; and the retiring DisputeV3  *)
(* next to it, whose money flow is the same ("a faithful port") but which  *)
(* neither looks at the other contract nor at evidence.                    *)
(*                                                                         *)
(* A dispute is identified by its call: disputeIdByCallId admits one per   *)
(* call.  Caller and provider of a dispute are those of the call, which    *)
(* never change once it is completed.  All receipts commit to the response *)
(* hash Committed: hashes of different calls are never compared.           *)
(***************************************************************************)
EXTENDS PayPerCallV8, SLAEvidenceRegistryV2

CONSTANTS
  Dispute,           \* the address of this contract
  LegacyDisputes,    \* the address of DisputeV3, or nothing
  Judges,            \* addresses that may be made arbiter or appeal arbiter
  Treasuries,        \* addresses the treasury may be set to
  DisputeBonds,      \* bonds the arbiter may set
  AppealBonds,
  DisputeSlashes,    \* disputeSlashBps the arbiter may set
  DisputeWindow, AppealWindow, ResolutionWindow,
  MaxEvidenceKinds,  \* MAX_EVIDENCE_KINDS
  Committed          \* the response hash a receipt commits to

DisputeContracts == {Dispute} \cup LegacyDisputes

ASSUME DisputeAssumption ==
  /\ DisputeContracts \subseteq Contracts \ {Registry, PPC}
  /\ Dispute \notin LegacyDisputes /\ \A d, e \in LegacyDisputes : d = e
  /\ Treasuries \subseteq Addresses \ DisputeContracts
  /\ Judges # {} /\ Treasuries # {} /\ DisputeBonds # {} /\ AppealBonds # {} /\ DisputeSlashes # {}
  /\ DisputeBonds \subseteq Nat /\ AppealBonds \subseteq Nat /\ DisputeSlashes \subseteq 0..Bps
  /\ DisputeWindow \in Nat /\ AppealWindow \in Nat /\ ResolutionWindow \in Nat
  /\ MaxEvidenceKinds \in Nat
  /\ CallIds \subseteq ClaimCalls /\ Committed \in Responses

VARIABLES
  config,         \* arbiter, appealArbiter, treasury, disputeBond, appealBond,
                  \* disputeSlashBps per contract
  disputes,       \* _disputes, heldSlash, settled, appealAppellant per contract and
                  \* call; slash is the amount the event SlashHeld announced
  evidenceKinds,  \* _evidenceKinds
  snapshots       \* _evidenceOf: per call, the rows written at openDispute

disputeVars == <<config, disputes, evidenceKinds, snapshots>>
allVars == <<vars, evidenceVars, disputeVars>>

NoDispute ==
  [status |-> "None", openedAt |-> 0, resolvedAt |-> 0, bond |-> 0, appealBond |-> 0,
   appellant |-> NoAddress, slash |-> 0, held |-> 0, settled |-> FALSE]

Config == [arbiter : Judges, appealArbiter : Judges,
           treasury : Treasuries, disputeBond : DisputeBonds,
           appealBond : AppealBonds, slashBps : DisputeSlashes]

DisputeInit ==
  /\ config \in [DisputeContracts -> Config]
  /\ disputes = [d \in DisputeContracts |-> [c \in CallIds |-> NoDispute]]
  /\ evidenceKinds = {}
  /\ snapshots = [c \in CallIds |-> {}]

Disputed(d, c) == disputes[d][c].status # "None"
Decided(d, c) == disputes[d][c].status \in {"Upheld", "Rejected"}
Caller(c) == calls[c].caller
ProviderOf(c) == calls[c].provider

ResolutionWindowOpen(d, c) == now <= disputes[d][c].openedAt + ResolutionWindow
AppealWindowOpen(d, c) == now <= disputes[d][c].resolvedAt + AppealWindow

(* What every function but openDispute leaves alone.                       *)
OnlyDisputes == UNCHANGED <<providers, termsVars, adminVars, now, callVars, evidenceVars,
                            config, evidenceKinds, snapshots>>

-----------------------------------------------------------------------------
(* Opening a dispute.                                                      *)

(* The first check that keeps a claim of kind k from binding; "None"       *)
(* exactly when it binds.                                                  *)
Reason(c, k) ==
  IF modeOf[k] = "None" THEN "NoVerifier"
  ELSE IF ~Anchored(c, k) THEN "NoAnchor"
  ELSE IF evidence[c][k].response # Committed THEN "WrongResponse"
  ELSE IF modeOf[k] = "Signature" THEN "ModeIsSignature"
  ELSE IF ~bindsResponse[k] THEN "VerifierNotBinding"
  ELSE "None"

(* A kind without a verifier shows nothing, even if a claim is anchored.   *)
Row(c, k) ==
  LET stored == IF modeOf[k] = "None" THEN NoEvidence ELSE evidence[c][k] IN
  [kind |-> k, mode |-> modeOf[k], stored |-> stored,
   present |-> stored # NoEvidence, bound |-> Reason(c, k) = "None",
   reason |-> Reason(c, k)]

Snapshot(c) == {Row(c, k) : k \in evidenceKinds}

CurrentDisputeSlash(d, p) == Share(providers[p].stake, config[d].slashBps)

\* Mutant: the guard that reads the other contract's index is missing.
DisputedElsewhere_Never(d, c) == FALSE

(* V4 asks V3; V3 asks nobody.                                             *)
DisputedElsewhere(d, c) ==
  d = Dispute /\ \E legacy \in LegacyDisputes : Disputed(legacy, c)

(* The caller of a completed call pays the bond; the penalty moves from    *)
(* the provider's stake into this contract; the evidence rows are written. *)
OpenDispute(d, c) ==
  LET p == ProviderOf(c)
      bond == config[d].disputeBond
      slash == CurrentDisputeSlash(d, p)
  IN
  /\ ~Disputed(d, c)
  /\ ~DisputedElsewhere(d, c)
  /\ calls[c].status = "Completed"
  /\ Caller(c) \in Accounts
  /\ now <= calls[c].completedAt + DisputeWindow
  /\ CanPay(balance, Caller(c), bond)
  /\ slash > 0 => MaySlash(d) /\ SlashAccepted(providers, p, slash)
  /\ CanPay(balance, Registry, slash)
  /\ providers' = Slashed(providers, p, slash)
  /\ balance' = Transfer(Transfer(balance, Caller(c), d, bond), Registry, d, slash)
  /\ disputes' = [disputes EXCEPT ![d][c] =
       [NoDispute EXCEPT !.status = "Pending", !.openedAt = now, !.bond = bond,
                         !.slash = slash, !.held = slash]]
  /\ snapshots' = IF d = Dispute THEN [snapshots EXCEPT ![c] = Snapshot(c)] ELSE snapshots
  /\ UNCHANGED <<termsVars, adminVars, now, callVars, evidenceVars, config, evidenceKinds>>

-----------------------------------------------------------------------------
(* First decision.                                                         *)

\* Mutant: the bond is paid back at its current size.
Resolve_CurrentBond(d, c, upheld) ==
  LET bond == config[d].disputeBond
      recipient == IF upheld THEN Caller(c) ELSE config[d].treasury
  IN
  /\ disputes[d][c].status = "Pending"
  /\ ResolutionWindowOpen(d, c)
  /\ CanPay(balance, d, bond)
  /\ disputes' = [disputes EXCEPT
       ![d][c].status = IF upheld THEN "Upheld" ELSE "Rejected",
       ![d][c].resolvedAt = now]
  /\ balance' = Transfer(balance, d, recipient, bond)
  /\ OnlyDisputes

Resolve(d, c, upheld) ==
  LET bond == disputes[d][c].bond
      recipient == IF upheld THEN Caller(c) ELSE config[d].treasury
  IN
  /\ disputes[d][c].status = "Pending"
  /\ ResolutionWindowOpen(d, c)
  /\ CanPay(balance, d, bond)
  /\ disputes' = [disputes EXCEPT
       ![d][c].status = IF upheld THEN "Upheld" ELSE "Rejected",
       ![d][c].resolvedAt = now]
  /\ balance' = Transfer(balance, d, recipient, bond)
  /\ OnlyDisputes

\* Mutant: the bond is returned but the escrow stays behind.
ReclaimExpiredBond_BondOnly(d, c) ==
  /\ disputes[d][c].status = "Pending"
  /\ ~ResolutionWindowOpen(d, c)
  /\ CanPay(balance, d, disputes[d][c].bond)
  /\ disputes' = [disputes EXCEPT
       ![d][c].status = "Rejected", ![d][c].resolvedAt = now,
       ![d][c].held = 0, ![d][c].settled = TRUE]
  /\ balance' = Transfer(balance, d, Caller(c), disputes[d][c].bond)
  /\ OnlyDisputes

\* Mutant: the dispute is left open to a second settlement.
ReclaimExpiredBond_NotSettled(d, c) ==
  LET bond == disputes[d][c].bond
      held == disputes[d][c].held
  IN
  /\ disputes[d][c].status = "Pending"
  /\ ~ResolutionWindowOpen(d, c)
  /\ CanPay(balance, d, bond + held)
  /\ disputes' = [disputes EXCEPT
       ![d][c].status = "Rejected", ![d][c].resolvedAt = now, ![d][c].held = 0]
  /\ balance' = Transfer(Transfer(balance, d, Caller(c), bond), d, ProviderOf(c), held)
  /\ OnlyDisputes

(* Anyone may close a dispute the arbiter let expire.                      *)
ReclaimExpiredBond(d, c) ==
  LET bond == disputes[d][c].bond
      held == disputes[d][c].held
  IN
  /\ disputes[d][c].status = "Pending"
  /\ ~ResolutionWindowOpen(d, c)
  /\ CanPay(balance, d, bond + held)
  /\ disputes' = [disputes EXCEPT
       ![d][c].status = "Rejected", ![d][c].resolvedAt = now,
       ![d][c].held = 0, ![d][c].settled = TRUE]
  /\ balance' = Transfer(Transfer(balance, d, Caller(c), bond), d, ProviderOf(c), held)
  /\ OnlyDisputes

-----------------------------------------------------------------------------
(* Appeal and settlement.                                                  *)

\* Mutant: a dispute that was reclaimed can still be appealed.
Appeal_Settled(d, c, party) ==
  /\ Decided(d, c)
  /\ AppealWindowOpen(d, c)
  /\ party \in {Caller(c), ProviderOf(c)} \cap Accounts
  /\ CanPay(balance, party, config[d].appealBond)
  /\ disputes' = [disputes EXCEPT
       ![d][c].status = "Appealed", ![d][c].appealBond = config[d].appealBond,
       ![d][c].appellant = party]
  /\ balance' = Transfer(balance, party, d, config[d].appealBond)
  /\ OnlyDisputes

Appeal(d, c, party) ==
  /\ ~disputes[d][c].settled
  /\ Decided(d, c)
  /\ AppealWindowOpen(d, c)
  /\ party \in {Caller(c), ProviderOf(c)} \cap Accounts
  /\ CanPay(balance, party, config[d].appealBond)
  /\ disputes' = [disputes EXCEPT
       ![d][c].status = "Appealed", ![d][c].appealBond = config[d].appealBond,
       ![d][c].appellant = party]
  /\ balance' = Transfer(balance, party, d, config[d].appealBond)
  /\ OnlyDisputes

\* Mutant: finalize pays the caller whatever was decided.
Finalize_PaysCaller(d, c) ==
  LET held == disputes[d][c].held IN
  /\ ~disputes[d][c].settled
  /\ Decided(d, c)
  /\ ~AppealWindowOpen(d, c)
  /\ CanPay(balance, d, held)
  /\ disputes' = [disputes EXCEPT ![d][c].held = 0, ![d][c].settled = TRUE]
  /\ balance' = Transfer(balance, d, Caller(c), held)
  /\ OnlyDisputes

\* Mutant: only an upheld dispute is finalized.
Finalize_Upheld(d, c) ==
  LET held == disputes[d][c].held IN
  /\ ~disputes[d][c].settled
  /\ disputes[d][c].status = "Upheld"
  /\ ~AppealWindowOpen(d, c)
  /\ CanPay(balance, d, held)
  /\ disputes' = [disputes EXCEPT ![d][c].held = 0, ![d][c].settled = TRUE]
  /\ balance' = Transfer(balance, d, Caller(c), held)
  /\ OnlyDisputes

Finalize(d, c) ==
  LET held == disputes[d][c].held
      winner == IF disputes[d][c].status = "Upheld" THEN Caller(c) ELSE ProviderOf(c)
  IN
  /\ ~disputes[d][c].settled
  /\ Decided(d, c)
  /\ ~AppealWindowOpen(d, c)
  /\ CanPay(balance, d, held)
  /\ disputes' = [disputes EXCEPT ![d][c].held = 0, ![d][c].settled = TRUE]
  /\ balance' = Transfer(balance, d, winner, held)
  /\ OnlyDisputes

\* Mutant: the appeal bond of a winning provider goes to the caller.
AppealBondTo_Caller(d, c, upheld) ==
  IF disputes[d][c].appellant = Caller(c)
  THEN IF upheld THEN Caller(c) ELSE config[d].treasury
  ELSE IF upheld THEN config[d].treasury ELSE Caller(c)

(* The appeal bond follows the appellant: back to a winner, to the         *)
(* treasury from a loser.                                                  *)
AppealBondTo(d, c, upheld) ==
  IF disputes[d][c].appellant = Caller(c)
  THEN IF upheld THEN Caller(c) ELSE config[d].treasury
  ELSE IF upheld THEN config[d].treasury ELSE ProviderOf(c)

ResolveAppeal(d, c, upheld) ==
  LET held == disputes[d][c].held
      winner == IF upheld THEN Caller(c) ELSE ProviderOf(c)
      bond == disputes[d][c].appealBond
  IN
  /\ ~disputes[d][c].settled
  /\ disputes[d][c].status = "Appealed"
  /\ CanPay(balance, d, held + bond)
  /\ disputes' = [disputes EXCEPT
       ![d][c].status = IF upheld THEN "AppealUpheld" ELSE "AppealRejected",
       ![d][c].resolvedAt = now, ![d][c].held = 0, ![d][c].settled = TRUE]
  /\ balance' = Transfer(Transfer(balance, d, winner, held),
                         d, AppealBondTo(d, c, upheld), bond)
  /\ OnlyDisputes

-----------------------------------------------------------------------------
(* The arbiter's levers.  Who holds the roles decides nothing but who may  *)
(* send these transactions and the two decisions above.                    *)

SetConfig(d, new) ==
  /\ config' = [config EXCEPT ![d] = new]
  /\ UNCHANGED <<vars, evidenceVars, disputes, evidenceKinds, snapshots>>

SetArbiter(d, j) == SetConfig(d, [config[d] EXCEPT !.arbiter = j])
SetAppealArbiter(d, j) == SetConfig(d, [config[d] EXCEPT !.appealArbiter = j])
SetTreasury(d, t) == SetConfig(d, [config[d] EXCEPT !.treasury = t])
SetDisputeBond(d, bond) == SetConfig(d, [config[d] EXCEPT !.disputeBond = bond])
SetAppealBond(d, bond) == SetConfig(d, [config[d] EXCEPT !.appealBond = bond])
SetDisputeSlashBps(d, bps) == SetConfig(d, [config[d] EXCEPT !.slashBps = bps])

SetEvidenceKinds(kinds) ==
  /\ Cardinality(kinds) <= MaxEvidenceKinds
  /\ evidenceKinds' = kinds
  /\ UNCHANGED <<vars, evidenceVars, config, disputes, snapshots>>

DisputeStep(d) ==
  \/ \E c \in CallIds :
       \/ OpenDispute(d, c)
       \/ \E upheld \in BOOLEAN : Resolve(d, c, upheld) \/ ResolveAppeal(d, c, upheld)
       \/ ReclaimExpiredBond(d, c)
       \/ \E party \in Accounts : Appeal(d, c, party)
       \/ Finalize(d, c)
  \/ \E j \in Judges : SetArbiter(d, j) \/ SetAppealArbiter(d, j)
  \/ \E t \in Treasuries : SetTreasury(d, t)
  \/ \E bond \in DisputeBonds : SetDisputeBond(d, bond)
  \/ \E bond \in AppealBonds : SetAppealBond(d, bond)
  \/ \E bps \in DisputeSlashes : SetDisputeSlashBps(d, bps)

DisputeSystemInit == Init /\ EvidenceInit /\ DisputeInit

(* The registry and PayPerCall run as before, except that the slashes of   *)
(* the dispute contracts are OpenDispute's and no action of their own.     *)
OtherSlash ==
  \E s \in Slashers \ DisputeContracts, p \in Providers, amount \in SlashAmounts :
    Slash(s, p, amount)

SettlementStep ==
  \/ /\ AdminStep \/ (\E p \in Providers : OwnerStep(p)) \/ OtherSlash \/ Tick
     /\ UNCHANGED callVars
  \/ CallStep

DisputeNext ==
  \/ SettlementStep /\ UNCHANGED <<evidenceVars, disputeVars>>
  \/ EvidenceStep /\ UNCHANGED <<vars, disputeVars>>
  \/ \E d \in DisputeContracts : DisputeStep(d)
  \/ \E kinds \in SUBSET Kinds : SetEvidenceKinds(kinds)

DisputeSpec == DisputeSystemInit /\ [][DisputeNext]_allVars

(* Time passes, and somebody closes what can be closed by anybody: the     *)
(* winner of the escrow is paid by doing so.  Arbiters owe nothing.        *)
DisputeFairness ==
  /\ WF_allVars(Tick /\ UNCHANGED <<callVars, evidenceVars, disputeVars>>)
  /\ \A d \in DisputeContracts, c \in CallIds :
       WF_allVars(ReclaimExpiredBond(d, c)) /\ WF_allVars(Finalize(d, c))

FairDisputeSpec == DisputeSpec /\ DisputeFairness

-----------------------------------------------------------------------------
(* What the contract owes on account of one dispute: the escrowed slash,   *)
(* the bond while no first decision was taken, the appeal bond while the   *)
(* appeal is undecided.                                                    *)
Owed(d, c) ==
  LET r == disputes[d][c] IN
  r.held + (IF r.status = "Pending" THEN r.bond ELSE 0)
         + (IF r.status = "Appealed" THEN r.appealBond ELSE 0)

(* A dispute contract holds exactly what its open disputes owe, so none of *)
(* them is ever paid with the money of another and nothing is stranded,    *)
(* whatever the order of decisions, appeals, expiries and changes of the   *)
(* bonds and the treasury in between.                                      *)
DisputeSolvent ==
  \A d \in DisputeContracts : balance[d] = Total([c \in CallIds |-> Owed(d, c)], CallIds)

(* The escrow is gone exactly when the dispute is over: a settled dispute  *)
(* holds nothing, an unsettled one still holds all of what was slashed.    *)
HeldUntilSettled ==
  \A d \in DisputeContracts, c \in CallIds :
    LET r == disputes[d][c] IN
    /\ r.held = IF r.settled THEN 0 ELSE r.slash
    /\ r.settled => r.status \notin {"None", "Pending", "Appealed"}
    /\ r.status \in {"AppealUpheld", "AppealRejected"} => r.settled
    /\ Disputed(d, c) => calls[c].status = "Completed" /\ Caller(c) \in Accounts

Winner(c, r) == IF r.status \in {"Upheld", "AppealUpheld"} THEN Caller(c) ELSE ProviderOf(c)

(* Settling pays the whole escrow to the side the last decision favoured,  *)
(* and no step but a settlement ever reduces an escrow: an upheld claim is *)
(* never paid to the provider nor a rejected one to the caller.            *)
EscrowToWinner ==
  [][\A d \in DisputeContracts, c \in CallIds :
       LET r == disputes[d][c]
           after == disputes'[d][c]
       IN r.held # after.held =>
            \/ ~Disputed(d, c) /\ after.status = "Pending"
            \/ /\ after.settled /\ ~r.settled /\ after.held = 0
               /\ balance'[Winner(c, after)] >= balance[Winner(c, after)] + r.held]_allVars

(* A settled dispute is over: no second decision, appeal or payment.       *)
SettledIsFinal ==
  [][\A d \in DisputeContracts, c \in CallIds :
       disputes[d][c].settled => disputes'[d][c] = disputes[d][c]]_allVars

(* A loser forfeits, a winner recovers: an appellant who wins gets back    *)
(* the appeal bond on top of what the decision gives, and the other party  *)
(* never gains from an appeal bond it did not pay.  An owner that calls    *)
(* its own service is both parties: the contract takes it for the caller,  *)
(* and keeps its bond when the provider wins.                              *)
AppealBondFollowsAppellant ==
  [][\A d \in DisputeContracts, c \in CallIds :
       LET r == disputes[d][c]
           after == disputes'[d][c]
           escrow == IF r.appellant = Winner(c, after) THEN r.held ELSE 0
           loser == IF Winner(c, after) = Caller(c) THEN ProviderOf(c) ELSE Caller(c)
       IN r.status = "Appealed" /\ after.settled /\ Caller(c) # ProviderOf(c) =>
            /\ r.appellant = Winner(c, after) =>
                 balance'[r.appellant] >= balance[r.appellant] + escrow + r.appealBond
            /\ loser # config[d].treasury => balance'[loser] = balance[loser]]_allVars

(* What a dispute shows as evidence can be checked against the registry at *)
(* any later time: the claim of a present row is still the one anchored,   *)
(* whatever was rewired, revoked or anchored since; and a row binds only   *)
(* under proof mode and for the response the call committed to.            *)
RowsTruthful ==
  \A c \in CallIds : \A row \in snapshots[c] :
    /\ row.present => evidence[c][row.kind] = row.stored
    /\ row.bound => /\ row.present /\ row.mode = "Proof"
                    /\ row.stored.response = Committed

(* contracts/DisputeV4.sol:93-95: a claim a key merely signed never binds. *)
BoundRowsAreProven ==
  \A c \in CallIds : \A row \in snapshots[c] :
    row.bound => row.stored.verifier \in ProofVerifiers

(* docs/V8_DEPLOYMENT.md 14.2, steps 5 and 6: V3 is revoked before V4 is   *)
(* authorized and never authorized again once V4 has taken a dispute.  V4  *)
(* looks at V3, but V3 does not look at V4: under this order no call ever  *)
(* costs its provider two slashes.                                         *)
RunbookFollowed ==
  /\ Dispute \in authorizedSlashers' => LegacyDisputes \cap authorizedSlashers' = {}
  /\ (\E c \in CallIds : Disputed(Dispute, c)) =>
       LegacyDisputes \cap authorizedSlashers' \subseteq authorizedSlashers

MigrationNext == DisputeNext /\ RunbookFollowed

MigrationSpec == DisputeSystemInit /\ [][MigrationNext]_allVars

NoDoubleSlash ==
  \A c \in CallIds : Cardinality({d \in DisputeContracts : disputes[d][c].slash > 0}) <= 1

(* README.md:151, docs/SLA_COVERAGE.md C8: a provider cannot serve,        *)
(* unstake and dodge the slash.  Where nothing else takes stake, a claim   *)
(* the arbiter upheld has an escrow to pay it from.                        *)
UpheldClaimHasEscrow ==
  \A d \in DisputeContracts, c \in CallIds :
    disputes[d][c].status = "Upheld" => disputes[d][c].slash > 0

(* Silence of the arbiter never locks the escrow: a dispute that nobody    *)
(* appeals is settled in the end, by a decision or without one.            *)
SilenceSettles ==
  \A d \in DisputeContracts, c \in CallIds :
    Disputed(d, c) ~> disputes[d][c].settled \/ disputes[d][c].status = "Appealed"
=============================================================================
