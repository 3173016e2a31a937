---------------------------- MODULE PaymentGate -----------------------------
(***************************************************************************)
(* What one browser tab remembers about payments it started: the three     *)
(* sessionStorage markers (pending transaction, cross-chain operation,     *)
(* x402 guards), which survive a reload, and the module state of           *)
(* paymentGate.ts (hash, untrusted flag, operation lock), which does not.  *)
(* Every operator maps the tab's state to the next one under a storage     *)
(* health: "ok", "full" (setItem throws) or "down" (every access throws).  *)
(***************************************************************************)
EXTENDS Integers, FiniteSets

CONSTANTS
  Attempts,   \* a provider and a request hash: what an x402 guard is keyed by
  Hashes,     \* transaction hashes
  None        \* no value

Healths == {"ok", "full", "down"}

(* The stages of a cross-chain operation and those of a guard.             *)
Stages == {"started", "approval-pending", "approval-confirmed", "burn-pending",
           "burn-confirmed", "mint-pending", "mint-confirmed"}
GuardStages == {"prepared", "uncertain", "submitted"}

ASSUME GateAssumption ==
  /\ None \notin Attempts \cup Hashes
  /\ None \notin Stages \cup GuardStages

(* A tab: the hash in cg_pending_tx, the stage of the cross-chain          *)
(* operation, the stage of each attempt's guard; then the module's hash,   *)
(* its distrust of the storage and the label of the lock.                  *)
EmptyTab == [pending |-> None, cctp |-> None, guards |-> [a \in Attempts |-> None],
             hash |-> None, untrusted |-> FALSE, op |-> None]

(* A reload keeps the storage and loses the module's memory.               *)
Reloaded(tab) == [tab EXCEPT !.hash = None, !.untrusted = FALSE, !.op = None]

-----------------------------------------------------------------------------
(* cg_pending_tx.                                                          *)
ReadPending(tab, health) == IF health = "down" THEN None ELSE tab.pending

\* Mutant: the hash is kept only where the reload finds it.
RecordSubmittedTx_StorageOnly(tab, health, h) ==
  [tab EXCEPT !.pending = IF health = "ok" THEN h ELSE @]
RecordSubmittedTx(tab, health, h) ==
  [tab EXCEPT !.pending = IF health = "ok" THEN h ELSE @,
              !.hash = h,
              !.untrusted = @ \/ health # "ok"]

(* Clears whatever hash is recorded: the caller does not name the one it   *)
(* resolved.                                                               *)
ResolvePendingTx(tab, health) ==
  IF health = "down" THEN tab
  ELSE [tab EXCEPT !.pending = None, !.hash = None, !.untrusted = FALSE]

-----------------------------------------------------------------------------
(* cg_cctp_operation: ALLOWED says which stage may follow which.           *)
Allowed(stage) ==
  CASE stage = "started"            -> {"approval-pending", "burn-pending"}
    [] stage = "approval-pending"   -> {"approval-confirmed", "approval-pending"}
    [] stage = "approval-confirmed" -> {"burn-pending"}
    [] stage = "burn-pending"       -> {"burn-confirmed", "burn-pending"}
    [] stage = "burn-confirmed"     -> {"mint-pending"}
    [] stage = "mint-pending"       -> {"mint-confirmed", "mint-pending"}
    [] stage = "mint-confirmed"     -> {}

CanStartCctp(tab, health) == health = "ok" /\ tab.cctp = None

StartCctpOperation(tab) == [tab EXCEPT !.cctp = "started"]

CanUpdateCctp(tab, health, stage) ==
  /\ health = "ok"
  /\ tab.cctp # None
  /\ stage \in Allowed(tab.cctp)

UpdateCctpOperation(tab, stage) == [tab EXCEPT !.cctp = stage]

ClearCctpOperation(tab, health) ==
  IF health = "down" THEN tab ELSE [tab EXCEPT !.cctp = None]

\* Mutant: a reverted mint closes the operation as the earlier stages do.
ProvenFailure_AnyStage(step, receipt) == receipt = "reverted"
(* cctpStageDecision: only a reverted approval or burn provably moved      *)
(* nothing; after a reverted mint the burnt USDC is still in flight.       *)
ProvenFailure(step, receipt) == receipt = "reverted" /\ step \in {"approve", "burn"}

-----------------------------------------------------------------------------
(* cg_facilitator_unsettled: a guard only moves forward.                   *)
StageRank(stage) == CASE stage = None -> 0
                      [] stage = "prepared" -> 0
                      [] stage = "uncertain" -> 1
                      [] stage = "submitted" -> 2

CanUpsertGuard(tab, health, a, stage) ==
  health = "ok" /\ StageRank(stage) >= StageRank(tab.guards[a])

UpsertGuard(tab, health, a, stage) ==
  IF CanUpsertGuard(tab, health, a, stage) THEN [tab EXCEPT !.guards[a] = stage] ELSE tab

(* The list is written back without the guard, so removal needs setItem.   *)
RemoveGuard(tab, health, a) ==
  IF health = "ok" THEN [tab EXCEPT !.guards[a] = None] ELSE tab

(* What a response of the facilitator can say: the kind of status, whether *)
(* it carries a valid hash and the reverted code, and whether it is clean: *)
(* the success flag its kind needs, known fields only, no error, demo or   *)
(* settled:false flag.                                                     *)
Responses == [status : {"none", "2xx", "402", "409", "other"}, hash : BOOLEAN,
              reverted : BOOLEAN, clean : BOOLEAN]

(* The complete report of a terminal revert.                               *)
ReportsRevert(r) == r.status = "409" /\ r.reverted /\ r.hash /\ r.clean

\* Mutant: a readable refusal before settlement is taken as proof of no payment.
Classify_TrustsRefusal(r) ==
  CASE r.status = "2xx" /\ r.hash /\ r.clean -> "settled"
    [] ReportsRevert(r) -> "reverted"
    [] r.status = "402" /\ r.clean -> "reverted"
    [] OTHER -> "uncertain"
(* classifyFacilitatorResult.                                              *)
Classify(r) ==
  CASE r.status = "2xx" /\ r.hash /\ r.clean -> "settled"
    [] ReportsRevert(r) -> "reverted"
    [] OTHER -> "uncertain"

-----------------------------------------------------------------------------
(* The lock: the same label may enter again.                               *)
MayBegin(tab, op) == tab.op \in {None, op}

BeginOperation(tab, op) == [tab EXCEPT !.op = op]

EndOperation(tab, op) == IF tab.op = op THEN [tab EXCEPT !.op = None] ELSE tab

(* checkPaymentStart: the decision before every payment-starting write.    *)
(* Flows without a provider and request pass no attempt.                   *)
CheckPaymentStart(tab, health, op, a) ==
  /\ MayBegin(tab, op)
  /\ tab.hash = None /\ ~tab.untrusted
  /\ health # "down"
  /\ tab.pending = None
  /\ tab.cctp = None
  /\ a # None => tab.guards[a] = None
=============================================================================
