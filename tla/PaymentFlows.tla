---------------------------- MODULE PaymentFlows ----------------------------
(***************************************************************************)
(* The payment flows of the panels as they share one tab: asynchronous     *)
(* handlers that ask the wallet, wait for receipts and keep running after  *)
(* their panel is unmounted, behind the gate of paymentGate.ts.  The       *)
(* wallet may refuse, fail, send and lose the hash; receipts may be        *)
(* unreadable; the storage may fail; the tab may be reloaded at any await. *)
(***************************************************************************)
EXTENDS PaymentGate

CONSTANTS
  Slots,      \* handlers that may run at once
  Ops,        \* labels of the flows this tab may start
  MaxStarts,  \* bound: handlers started
  MaxReloads, \* bound: reloads
  MaxFaults   \* bound: changes of the storage's health

Builder == {"call", "batch", "claim", "receipt", "x402", "cctp"}
Approving == {"call", "batch", "cctp", "bridge"}
Repeating == {"batch", "bulk", "overview-multi"}
Callback == {"requests-claim", "verify-receipt"}
CrossChain == {"cctp", "bridge"}
AllOps == Builder \cup Callback \cup {"bridge", "bulk", "overview-multi", "payments-send"}

Steps == {"approve", "pay", "burn", "mint"}

ASSUME FlowAssumption ==
  /\ Hashes \subseteq Nat /\ IsFiniteSet(Hashes) /\ IsFiniteSet(Slots)
  /\ Ops \subseteq AllOps
  /\ None \notin AllOps \cup Steps
  /\ {MaxStarts, MaxReloads, MaxFaults} \subseteq Nat

VARIABLES
  tab,      \* the tab's markers and the module's memory
  health,   \* of the tab's sessionStorage
  builder,  \* the Call Builder is the mounted panel
  shown,    \* the pending hash the mounted Call Builder holds in its state
  flows,    \* per slot: the running handler
  txs,      \* per hash: what the chain and the facilitator know
  owed,     \* hashes this tab recorded and has neither read nor discarded
  signed,   \* x402 transactions neither proven, acknowledged nor reported reverted
  overlap,  \* a second handler, or the Call Builder, joined a running handler
  budget    \* starts, reloads and storage faults left

flowVars == <<tab, health, builder, shown, flows, txs, owed, signed, overlap, budget>>

Idle == [op |-> None, pc |-> "idle", step |-> None, attempt |-> None, hash |-> None,
         mounted |-> FALSE, sent |-> FALSE]
Unsent == [step |-> None, status |-> "none", for |-> None]

Running(s) == flows[s].pc \notin {"idle", "orphan"}
Mounted(s) == Running(s) /\ flows[s].mounted

FlowInit ==
  /\ tab = EmptyTab /\ health = "ok"
  /\ builder = TRUE /\ shown = None
  /\ flows = [s \in Slots |-> Idle]
  /\ txs = [h \in Hashes |-> Unsent]
  /\ owed = {} /\ signed = {}
  /\ overlap = FALSE
  /\ budget = [starts |-> MaxStarts, reloads |-> MaxReloads, faults |-> MaxFaults]

-----------------------------------------------------------------------------
(* Hashes are reused once nothing refers to them any more.                 *)
Outstanding(h) == txs[h].step = "burn" /\ txs[h].status \in {"inflight", "confirmed"}

Free(h) ==
  /\ txs[h].status \in {"none", "offered", "confirmed", "reverted", "minted"}
  /\ ~Outstanding(h)
  /\ h \notin owed \cup signed \cup {tab.pending, tab.hash, shown}
  /\ \A s \in Slots : flows[s].hash # h
  /\ \A m \in Hashes : txs[m].step = "mint" /\ txs[m].status = "inflight" => txs[m].for # h

FreeHashes == {h \in Hashes : Free(h)}
NewHash == CHOOSE h \in FreeHashes : \A g \in FreeHashes : h <= g

Send(h, step, for, status) ==
  txs' = [txs EXCEPT ![h] = [step |-> step, status |-> status, for |-> for]]

-----------------------------------------------------------------------------
(* Where a handler goes next, with the tab it leaves behind.               *)
Goto(s, flow, t) == flows' = [flows EXCEPT ![s] = flow] /\ tab' = t

(* A mint is asked for while the handler holds the burn it completes.      *)
Ask(s, step, t) ==
  Goto(s, [flows[s] EXCEPT !.pc = "ask", !.step = step,
                           !.hash = IF step = "mint" THEN @ ELSE None], t)

(* Every handler ends in finally { endOperation(label) }.                  *)
End(s, t) == Goto(s, Idle, EndOperation(t, flows[s].op))

(* The handlers of the hook-based panels do not: the lock stays.           *)
Vanish(s, t) == Goto(s, Idle, t)

(* The gate again, immediately before the payment of a longer flow.        *)
AskPayment(s, t) ==
  IF CheckPaymentStart(t, health, flows[s].op, flows[s].attempt)
  THEN Ask(s, "pay", t) ELSE End(s, t)

(* updateCctpOperation, then the wallet; a marker that cannot move ends    *)
(* the flow with the operation still recorded.                             *)
AskCrossChain(s, stage, step, t) ==
  IF CanUpdateCctp(t, health, stage) THEN Ask(s, step, UpdateCctpOperation(t, stage))
  ELSE End(s, t)

SameWorld == UNCHANGED <<health, builder, budget>>

-----------------------------------------------------------------------------
(* Starting a flow: no handler of the mounted panel is running, the gate   *)
(* is open and the lock is free or held by the same label.                 *)
Start(s, op, a, flow, t) ==
  /\ op \in Ops
  /\ \A r \in Slots : ~Mounted(r)
  /\ flows[s].pc = "idle"
  /\ builder = (op \in Builder)
  /\ CheckPaymentStart(tab, health, op, a)
  /\ flows' = [flows EXCEPT ![s] = [Idle EXCEPT !.op = op, !.attempt = a, !.mounted = TRUE,
                                                !.pc = flow.pc, !.step = flow.step]]
  /\ tab' = BeginOperation(t, op)
  /\ overlap' = (overlap \/ \E r \in Slots : Running(r))
  /\ budget.starts > 0 /\ budget' = [budget EXCEPT !.starts = @ - 1]
  /\ UNCHANGED <<health, builder, shown, txs, owed, signed>>

Preparing == [pc |-> "prep", step |-> None]
Asking(step) == [pc |-> "ask", step |-> step]

(* The buttons of these flows are disabled while the panel shows a hash.   *)
HandleCall(s) == shown = None /\ \E a \in Attempts : Start(s, "call", a, Preparing, tab)
HandleBatch(s) == shown = None /\ \E a \in Attempts : Start(s, "batch", a, Preparing, tab)
HandleX402Call(s) ==
  shown = None /\ \E a \in Attempts : Start(s, "x402", a, [pc |-> "sign", step |-> None], tab)
(* paymentStartBlock passes the attempt on the panel for these as well.    *)
HandleClaimTimeout(s) == \E a \in Attempts : Start(s, "claim", a, Preparing, tab)
HandleSubmitReceipt(s) == \E a \in Attempts : Start(s, "receipt", a, Preparing, tab)

(* The operation marker is written in the same step as the lock is taken.  *)
HandleCCTPCall(s) ==
  /\ CanStartCctp(tab, health)
  /\ \E a \in Attempts : Start(s, "cctp", a, Preparing, StartCctpOperation(tab))
HandleBridge(s) ==
  /\ CanStartCctp(tab, health)
  /\ Start(s, "bridge", None, Asking("approve"),
           UpdateCctpOperation(StartCctpOperation(tab), "approval-pending"))

(* The loops of the other panels: the first item is gated on entry.        *)
RunBatch(s) == Start(s, "bulk", None, Asking("pay"), tab)
RunMultiCall(s) == Start(s, "overview-multi", None, Asking("pay"), tab)
HandleSend(s) == Start(s, "payments-send", None, Asking("pay"), tab)
RequestsClaim(s) == Start(s, "requests-claim", None, Asking("pay"), tab)
VerifyReceipt(s) == Start(s, "verify-receipt", None, Asking("pay"), tab)

(* A start that comes to nothing still lets go of its label: the loops     *)
(* take the lock before they ask the gate, and the hook-based handlers end *)
(* in a catch whether or not they took it.  The lock may be that of an     *)
(* earlier handler of the same label, which is still at work.              *)
RefusedStart(op) ==
  /\ op \in Ops /\ tab.op = op
  /\ \/ op \in Callback
     \/ /\ op \in {"bulk", "overview-multi"} /\ ~builder
        /\ \A r \in Slots : ~Mounted(r)
        /\ ~CheckPaymentStart(tab, health, op, None)
  /\ tab' = EndOperation(tab, op)
  /\ overlap' = (overlap \/ \E r \in Slots : Running(r))
  /\ SameWorld /\ UNCHANGED <<shown, flows, txs, owed, signed>>

-----------------------------------------------------------------------------
(* Between the start and the first wallet prompt: the chain switch, the    *)
(* allowance (which may already suffice) and the simulation may fail.      *)
(* ensureAllowance and runCall ask the gate again.                         *)
EnsureAllowance(s) ==
  /\ flows[s].pc = "prep" /\ flows[s].op \in {"call", "batch"}
  /\ \/ End(s, tab)
     \/ /\ CheckPaymentStart(tab, health, flows[s].op, flows[s].attempt)
        /\ Ask(s, "approve", tab) \/ Ask(s, "pay", tab)
  /\ SameWorld /\ UNCHANGED <<shown, txs, owed, signed, overlap>>

Simulate(s) ==
  /\ flows[s].pc = "prep" /\ flows[s].op \in {"claim", "receipt"}
  /\ End(s, tab) \/ Ask(s, "pay", tab)
  /\ SameWorld /\ UNCHANGED <<shown, txs, owed, signed, overlap>>

(* The switch to the source chain may be rejected (the marker goes) or     *)
(* fail together with the allowance read (it stays).                       *)
PrepareBurn(s) ==
  /\ flows[s].pc = "prep" /\ flows[s].op = "cctp"
  /\ \/ End(s, ClearCctpOperation(tab, health))
     \/ End(s, tab)
     \/ AskCrossChain(s, "approval-pending", "approve", tab)
     \/ AskCrossChain(s, "burn-pending", "burn", tab)
  /\ SameWorld /\ UNCHANGED <<shown, txs, owed, signed, overlap>>

-----------------------------------------------------------------------------
(* What a handler does with a hash.  Some flows stop when the marker could *)
(* not be saved; the cross-chain ones when the operation could not record  *)
(* the hash.                                                               *)
StopsUnsaved(s) ==
  \/ flows[s].op \in CrossChain \cup {"bulk", "overview-multi", "payments-send"}
  \/ flows[s].op = "batch" /\ flows[s].step = "pay"

Told(s, h) ==
  LET t == RecordSubmittedTx(tab, health, h)
  IN /\ IF health # "ok" /\ StopsUnsaved(s) THEN End(s, t)
        ELSE Goto(s, [flows[s] EXCEPT !.pc = "wait", !.hash = h, !.sent = TRUE], t)
     /\ owed' = owed \cup {h}
     /\ shown' = IF flows[s].op \in Builder /\ flows[s].mounted THEN h ELSE shown

(* The cross-chain operation is cleared when the wallet provably sent      *)
(* nothing of it: the Call Builder asks for an explicit rejection, the     *)
(* bridge only for an error of its first step.                             *)
NothingSent(s, error) ==
  CASE flows[s].op = "cctp" -> error = "rejected" /\ (flows[s].step = "approve" \/ ~flows[s].sent)
    [] flows[s].op = "bridge" -> flows[s].step = "approve"
    [] OTHER -> FALSE

NotTold(s, error) ==
  /\ End(s, IF NothingSent(s, error) THEN ClearCctpOperation(tab, health) ELSE tab)
  /\ UNCHANGED <<owed, shown>>

(* The wallet sends the transaction and the handler learns the hash.       *)
WalletSends(s) ==
  /\ flows[s].pc = "ask" /\ FreeHashes # {}
  /\ Send(NewHash, flows[s].step, flows[s].hash, "inflight")
  /\ Told(s, NewHash)
  /\ SameWorld /\ UNCHANGED <<signed, overlap>>

(* The transaction was sent although the handler gets an error, or is      *)
(* gone.  Only a burn or a mint is followed further.                       *)
SentUntold(s) ==
  IF flows[s].step \in {"burn", "mint"}
  THEN FreeHashes # {} /\ Send(NewHash, flows[s].step, flows[s].hash, "inflight")
  ELSE UNCHANGED txs

WalletLosesHash(s) ==
  /\ flows[s].pc = "ask"
  /\ SentUntold(s)
  /\ NotTold(s, "error")
  /\ SameWorld /\ UNCHANGED <<signed, overlap>>

WalletRefuses(s) ==
  /\ flows[s].pc = "ask"
  /\ \E error \in {"rejected", "error"} : NotTold(s, error)
  /\ SameWorld /\ UNCHANGED <<txs, signed, overlap>>

(* A prompt whose handler is gone (reload, or the panel of a hook-based    *)
(* flow unmounted): it may still be confirmed, and nobody learns the hash. *)
OrphanAnswered(s) ==
  /\ flows[s].pc = "orphan"
  /\ Vanish(s, tab)
  /\ UNCHANGED txs \/ SentUntold(s)
  /\ SameWorld /\ UNCHANGED <<shown, owed, signed, overlap>>

-----------------------------------------------------------------------------
(* The receipt of the transaction the handler waits for.  The chain's view *)
(* of it is kept only for a burn, which its mint completes, and for a hash *)
(* that a later mount of the panel still shows.                            *)
Forget(s, h) ==
  /\ txs' = [txs EXCEPT ![h] = IF @.step = "burn" \/ (shown = h /\ ~flows[s].mounted)
                               THEN @ ELSE Unsent]
  /\ shown' = IF flows[s].op \in Builder /\ flows[s].mounted THEN None ELSE shown
  /\ owed' = owed \ {h}
  /\ signed' = signed \ {h}

(* The receipt cannot be read within the wait: the markers stay.           *)
ReceiptUnknown(s) ==
  /\ flows[s].pc = "wait"
  /\ IF flows[s].op \in Callback THEN Vanish(s, tab) ELSE End(s, tab)
  /\ SameWorld /\ UNCHANGED <<shown, txs, owed, signed, overlap>>

(* The next item of a loop: the batch asks the gate at once, the other     *)
(* panels pause between items.                                             *)
NextItem(s, t) ==
  \/ End(s, t)
  \/ flows[s].op = "batch" /\ AskPayment(s, t)
  \/ flows[s].op \in Repeating \ {"batch"} /\ Goto(s, [flows[s] EXCEPT !.pc = "pause"], t)

ItemPause(s) ==
  /\ flows[s].pc = "pause"
  /\ AskPayment(s, tab)
  /\ SameWorld /\ UNCHANGED <<shown, txs, owed, signed, overlap>>

PaymentReceipt(s) ==
  LET f == flows[s]
      t == ResolvePendingTx(tab, health)
  IN /\ f.pc = "wait" /\ f.op \notin CrossChain
     /\ txs[f.hash].status \in {"confirmed", "reverted"}
     /\ IF f.step = "approve" /\ txs[f.hash].status = "confirmed" THEN AskPayment(s, t)
        ELSE IF f.op = "x402" THEN End(s, RemoveGuard(t, health, f.attempt))
        ELSE IF f.step = "pay" /\ f.op \in Repeating
                /\ (f.op = "batch" \/ txs[f.hash].status = "confirmed")
             THEN NextItem(s, t)
        ELSE End(s, t)
     /\ Forget(s, f.hash)
     /\ SameWorld /\ UNCHANGED overlap

(* A stage whose receipt is not the confirmation it needs: a proven        *)
(* failure closes the operation, anything else keeps every marker.         *)
Kept(s) == End(s, tab) /\ UNCHANGED <<shown, txs, owed, signed>>

StageFails(s, receipt) ==
  /\ receipt = "reverted"
  /\ IF ProvenFailure(flows[s].step, receipt)
     THEN /\ End(s, ClearCctpOperation(ResolvePendingTx(tab, health), health))
          /\ Forget(s, flows[s].hash)
     ELSE Kept(s)

ApprovalReceipt(s, receipt) ==
  /\ flows[s].step = "approve" /\ receipt = "confirmed"
  /\ IF CanUpdateCctp(tab, health, "approval-confirmed")
     THEN /\ AskCrossChain(s, "burn-pending", "burn",
               UpdateCctpOperation(ResolvePendingTx(tab, health), "approval-confirmed"))
          /\ Forget(s, flows[s].hash)
     ELSE Kept(s)

BurnReceipt(s, receipt) ==
  /\ flows[s].step = "burn" /\ receipt = "confirmed"
  /\ IF CanUpdateCctp(tab, health, "burn-confirmed")
     THEN /\ Goto(s, [flows[s] EXCEPT !.pc = "attest"],
               UpdateCctpOperation(ResolvePendingTx(tab, health), "burn-confirmed"))
          /\ Forget(s, flows[s].hash)
     ELSE Kept(s)

(* The bridge also wants to see the minted USDC in the balance.            *)
MintReceipt(s, receipt) ==
  /\ flows[s].step = "mint" /\ receipt = "confirmed"
  /\ \/ /\ End(s, ClearCctpOperation(ResolvePendingTx(tab, health), health))
        /\ Forget(s, flows[s].hash)
     \/ flows[s].op = "bridge" /\ Kept(s)

CrossChainReceipt(s) ==
  /\ flows[s].pc = "wait" /\ flows[s].op \in CrossChain
  /\ LET receipt == txs[flows[s].hash].status
     IN \/ StageFails(s, receipt) \/ ApprovalReceipt(s, receipt)
        \/ BurnReceipt(s, receipt) \/ MintReceipt(s, receipt)
  /\ SameWorld /\ UNCHANGED overlap

(* Circle's attestation, its validation and the switch to Arc.             *)
Attestation(s) ==
  /\ flows[s].pc = "attest"
  /\ End(s, tab) \/ AskCrossChain(s, "mint-pending", "mint", tab)
  /\ SameWorld /\ UNCHANGED <<shown, txs, owed, signed, overlap>>

-----------------------------------------------------------------------------
(* x402: the authorization is signed, the gate is asked again, the guard   *)
(* is saved and read back, and only then the facilitator is asked.         *)
SignAuthorization(s) ==
  /\ flows[s].pc = "sign"
  /\ \/ End(s, tab) /\ UNCHANGED <<txs, signed>>
     \/ /\ CheckPaymentStart(tab, health, "x402", flows[s].attempt)
        /\ CanUpsertGuard(tab, health, flows[s].attempt, "prepared")
        /\ FreeHashes # {}
        /\ Goto(s, [flows[s] EXCEPT !.pc = "request", !.hash = NewHash],
                UpsertGuard(tab, health, flows[s].attempt, "prepared"))
        /\ Send(NewHash, "pay", flows[s].attempt, "offered")
        /\ signed' = signed \cup {NewHash}
  /\ SameWorld /\ UNCHANGED <<shown, owed, overlap>>

(* The facilitator's answer, or none at all.  It is not authenticated: it  *)
(* may claim anything, whatever became of the transaction.  A hash in it   *)
(* is that of the transaction made from this authorization.                *)
Answers(s, kind) ==
  {r \in Responses : flows[s].pc = "request" /\ Classify(r) = kind}

AnswerUncertain(s) ==
  /\ Answers(s, "uncertain") # {}
  /\ End(s, UpsertGuard(tab, health, flows[s].attempt, "uncertain"))
  /\ SameWorld /\ UNCHANGED <<shown, txs, owed, signed, overlap>>

(* A terminal revert clears both markers on the answer alone: its receipt  *)
(* is not read.                                                            *)
AnswerReverted(s) ==
  /\ \E r \in Answers(s, "reverted") :
       signed' = IF ReportsRevert(r) THEN signed \ {flows[s].hash} ELSE signed
  /\ End(s, RemoveGuard(ResolvePendingTx(tab, health), health, flows[s].attempt))
  /\ shown' = IF flows[s].mounted THEN None ELSE shown
  /\ SameWorld /\ UNCHANGED <<txs, owed, overlap>>

(* recordFacilitatorSettlement: the guard and the pending marker.          *)
AnswerSettled(s) ==
  /\ Answers(s, "settled") # {}
  /\ Goto(s, [flows[s] EXCEPT !.pc = "wait"],
          RecordSubmittedTx(UpsertGuard(tab, health, flows[s].attempt, "submitted"), health,
                            flows[s].hash))
  /\ owed' = owed \cup {flows[s].hash}
  /\ shown' = IF flows[s].mounted THEN flows[s].hash ELSE shown
  /\ SameWorld /\ UNCHANGED <<txs, signed, overlap>>

-----------------------------------------------------------------------------
(* Recovery in the Call Builder.  Its guard is the panel's own submitting  *)
(* flag: a handler of an earlier mount does not stop it.                   *)
CanRecover == builder /\ shown # None /\ \A s \in Slots : ~Mounted(s)

HandleCheckPending ==
  /\ CanRecover
  /\ txs[shown].status \in {"confirmed", "reverted", "minted"}
  /\ tab' = ResolvePendingTx(tab, health)
  /\ shown' = None
  /\ owed' = owed \ {shown}
  /\ SameWorld /\ UNCHANGED <<flows, txs, signed, overlap>>

DiscardPendingMarker ==
  /\ CanRecover /\ tab.op = None
  /\ tab' = ResolvePendingTx(tab, health)
  /\ owed' = IF health = "down" THEN owed ELSE owed \ {shown}
  /\ shown' = None
  /\ SameWorld /\ UNCHANGED <<flows, txs, signed, overlap>>

(* The user acknowledges one attempt's warning.                            *)
DiscardFacGuard(a) ==
  /\ builder /\ tab.op = None /\ \A s \in Slots : ~Mounted(s)
  /\ health = "ok" /\ tab.guards[a] # None
  /\ tab' = RemoveGuard(tab, health, a)
  /\ signed' = {h \in signed : txs[h].for # a}
  /\ SameWorld /\ UNCHANGED <<shown, flows, txs, owed, overlap>>

-----------------------------------------------------------------------------
(* The panel is keyed by its name: leaving it unmounts it.  Its handlers   *)
(* run on, except the hook callbacks, which die with the panel.  Of the    *)
(* panels other than the Call Builder the mounted one is not told apart.   *)
Unmounted(f) ==
  IF f.op \in Callback /\ f.pc = "wait" THEN Idle
  ELSE IF f.op \in Callback /\ f.pc = "ask" THEN [f EXCEPT !.pc = "orphan", !.mounted = FALSE]
  ELSE [f EXCEPT !.mounted = FALSE]

Navigate ==
  /\ builder' \in {~builder, FALSE}
  /\ shown' = IF builder' THEN ReadPending(tab, health) ELSE None
  /\ flows' = [s \in Slots |-> Unmounted(flows[s])]
  /\ overlap' = (overlap \/ (builder' /\ \E s \in Slots : Running(s)))
  /\ UNCHANGED <<tab, health, txs, owed, signed, budget>>

(* A reload ends the handlers, but not the wallet prompts they opened.     *)
Reload ==
  /\ budget.reloads > 0
  /\ budget' = [budget EXCEPT !.reloads = @ - 1]
  /\ tab' = Reloaded(tab)
  /\ builder' = TRUE /\ shown' = ReadPending(tab, health)
  /\ flows' = [s \in Slots |->
                 IF flows[s].pc \in {"ask", "orphan"}
                 THEN [flows[s] EXCEPT !.pc = "orphan", !.mounted = FALSE]
                 ELSE Idle]
  /\ owed' = owed \cap {tab.pending}
  /\ UNCHANGED <<health, txs, signed, overlap>>

StorageFault ==
  /\ budget.faults > 0
  /\ budget' = [budget EXCEPT !.faults = @ - 1]
  /\ health' \in Healths \ {health}
  /\ UNCHANGED <<tab, builder, shown, flows, txs, owed, signed, overlap>>

(* The facilitator broadcasts what it was given; the chain mines.          *)
FacilitatorSettles(h) ==
  /\ txs[h].status = "offered"
  /\ txs' = [txs EXCEPT ![h].status = "inflight"]
  /\ UNCHANGED <<tab, health, builder, shown, flows, owed, signed, overlap, budget>>

Mine(h) ==
  /\ txs[h].status = "inflight"
  /\ \/ txs' = [txs EXCEPT ![h].status = "reverted"]
     \/ /\ txs[h].step # "mint" \/ txs[h].for = None
        /\ txs' = [txs EXCEPT ![h].status = "confirmed"]
     \/ /\ txs[h].step = "mint" /\ txs[h].for # None
        /\ txs' = [txs EXCEPT ![h].status = "confirmed", ![txs[h].for].status = "minted"]
  /\ UNCHANGED <<tab, health, builder, shown, flows, owed, signed, overlap, budget>>

-----------------------------------------------------------------------------
Handler(s) ==
  \/ HandleCall(s) \/ HandleBatch(s) \/ HandleX402Call(s) \/ HandleClaimTimeout(s)
  \/ HandleSubmitReceipt(s) \/ HandleCCTPCall(s) \/ HandleBridge(s) \/ RunBatch(s)
  \/ RunMultiCall(s) \/ HandleSend(s) \/ RequestsClaim(s) \/ VerifyReceipt(s)
  \/ EnsureAllowance(s) \/ Simulate(s) \/ PrepareBurn(s) \/ Attestation(s) \/ ItemPause(s)
  \/ PaymentReceipt(s) \/ CrossChainReceipt(s) \/ ReceiptUnknown(s)
  \/ SignAuthorization(s) \/ AnswerUncertain(s) \/ AnswerReverted(s) \/ AnswerSettled(s)

Wallet(s) ==
  WalletSends(s) \/ WalletLosesHash(s) \/ WalletRefuses(s) \/ OrphanAnswered(s)

FlowNext ==
  \/ \E s \in Slots : Handler(s) \/ Wallet(s)
  \/ HandleCheckPending \/ DiscardPendingMarker
  \/ \E a \in Attempts : DiscardFacGuard(a)
  \/ \E op \in Callback \cup {"bulk", "overview-multi"} : RefusedStart(op)
  \/ Navigate \/ Reload \/ StorageFault
  \/ \E h \in Hashes : FacilitatorSettles(h) \/ Mine(h)

FlowSpec == FlowInit /\ [][FlowNext]_flowVars

-----------------------------------------------------------------------------
(***************************************************************************)
(* A burn is never repeated: at most one burn is unreverted and unminted   *)
(* in this tab, through reloads, remounts, storage faults, lost hashes and *)
(* orphaned wallet prompts.                                                *)
(***************************************************************************)
BurnOnce == \A g, h \in Hashes : Outstanding(g) /\ Outstanding(h) => g = h

(***************************************************************************)
(* While handlers do not overlap, the facilitator is never given a second  *)
(* authorization for an attempt whose earlier one is neither proven by a   *)
(* receipt, nor acknowledged by the user, nor reported reverted by the     *)
(* facilitator, whatever else the answers claim, and through reloads and   *)
(* storage faults.  The report of a revert is taken at its word, as the    *)
(* handler takes it.  That is weaker than what the client's comments ask:  *)
(* facilitatorGuard.ts:13-16 and facilitatorOutcome.ts:14-16 want a receipt*)
(* read by this client, and a false report admits a second authorization.  *)
(***************************************************************************)
OneAuthorizationPerAttempt ==
  ~overlap => \A g, h \in signed : txs[g].for = txs[h].for => g = h

(***************************************************************************)
(* While no second handler was started, and nobody came back to the Call   *)
(* Builder, next to a running handler, the gate stays closed for every     *)
(* flow until each recorded hash has a receipt or is discarded, even when  *)
(* its marker could not be saved.  (A reload loses unsaved hashes.)        *)
(***************************************************************************)
UnresolvedBlocksEveryStart ==
  ~overlap /\ owed # {} =>
    \A op \in Ops, a \in Attempts \cup {None} : ~CheckPaymentStart(tab, health, op, a)

(***************************************************************************)
(* What the Call Builder says of its recovery: "It never sends anything,   *)
(* so checking cannot charge twice": reading the receipt of one hash does  *)
(* not open the gate while another is still unresolved.                    *)
(***************************************************************************)
CheckingCannotChargeTwice ==
  [][HandleCheckPending /\ owed' # {} =>
       \A a \in Attempts : ~CheckPaymentStart(tab', health', "call", a)]_flowVars
=============================================================================
