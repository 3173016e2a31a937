------------------------- MODULE PaymentFlows_proofs ------------------------
(***************************************************************************)
(* For any number of handlers, hashes, attempts, reloads and storage       *)
(* faults: a burn is never repeated; and while handlers do not overlap,    *)
(* an attempt has one unsettled authorization, and a recorded hash keeps   *)
(* the gate closed until it is read or discarded.                          *)
(***************************************************************************)
EXTENDS PaymentFlows, WellFoundedInduction, TLAPS

Tab == [pending : Hashes \cup {None}, cctp : Stages \cup {None},
        guards : [Attempts -> GuardStages \cup {None}],
        hash : Hashes \cup {None}, untrusted : BOOLEAN, op : AllOps \cup {None}]

Pcs == {"idle", "prep", "ask", "orphan", "wait", "pause", "attest", "sign", "request"}

Flow == [op : AllOps \cup {None}, pc : Pcs, step : Steps \cup {None},
         attempt : Attempts \cup {None}, hash : Hashes \cup {None},
         mounted : BOOLEAN, sent : BOOLEAN]

Statuses == {"none", "offered", "inflight", "confirmed", "reverted", "minted"}

Tx == [step : Steps \cup {None}, status : Statuses, for : Attempts \cup Hashes \cup {None}]

Types ==
  /\ tab \in Tab /\ health \in Healths /\ builder \in BOOLEAN /\ overlap \in BOOLEAN
  /\ shown \in Hashes \cup {None} /\ (~builder => shown = None)
  /\ flows \in [Slots -> Flow] /\ txs \in [Hashes -> Tx]
  /\ owed \in SUBSET Hashes /\ signed \in SUBSET Hashes

(* What a handler knows at each point.                                     *)
Shape(f) ==
  /\ f.pc = "idle" => f = Idle
  /\ f.pc # "idle" => f.op # None
  /\ f.step \in {"burn", "mint"} => f.op \in CrossChain
  /\ f.op \in CrossChain => f.pc \in {"prep", "ask", "orphan", "wait", "attest"}
  /\ f.pc = "prep" => f.step = None
  /\ f.pc \in {"ask", "orphan"} => f.step # None
  /\ f.step = "mint" => f.sent /\ f.hash # None
  /\ f.pc = "attest" => f.step = "burn" /\ f.sent /\ f.hash # None
  /\ f.pc = "wait" => f.hash # None /\ (f.op \in CrossChain => f.sent)
  /\ f.pc \in {"sign", "request"} => f.op = "x402"
  /\ f.pc = "request" => f.hash # None
  /\ f.op = "x402" => f.attempt \in Attempts /\ f.pc \in {"sign", "request", "wait"}
                         /\ f.step = None

(* The hash a handler holds is its own, and a handler that holds a burn    *)
(* still finds it among the transactions.                                  *)
HoldsBurn(f) == (f.step = "burn" /\ f.pc \in {"wait", "attest"})
                  \/ (f.step = "mint" /\ f.pc \in {"ask", "orphan"})

HandlersSound ==
  /\ \A s \in Slots : Shape(flows[s])
  /\ \A s \in Slots : flows[s].mounted /\ flows[s].op \in Builder => builder
  /\ \A r, s \in Slots : flows[r].hash = flows[s].hash /\ flows[s].hash # None => r = s
  /\ \A s \in Slots : HoldsBurn(flows[s]) => txs[flows[s].hash].step = "burn"
  /\ \A h \in Hashes : txs[h].status = "offered" => txs[h].step = "pay"
  /\ \A m \in Hashes : txs[m].step = "mint" /\ txs[m].status = "inflight" =>
       txs[m].for \in Hashes /\ txs[txs[m].for].step = "burn"

(* The outstanding burn a running operation knows of: the one it waits     *)
(* for or holds, or the one its mint completes.                            *)
Carries(f, h) ==
  \/ HoldsBurn(f) /\ f.hash = h
  \/ /\ f.step = "mint" /\ f.pc = "wait"
     /\ txs[f.hash].step = "mint" /\ txs[f.hash].for = h
     /\ txs[f.hash].status \in {"inflight", "reverted"}

OperationOpen ==
  /\ \A r, s \in Slots : flows[r].op \in CrossChain /\ flows[s].op \in CrossChain => r = s
  /\ \A s \in Slots : flows[s].op \in CrossChain => tab.cctp # None
  /\ \A h \in Hashes : Outstanding(h) => tab.cctp # None
  /\ \A s \in Slots, h \in Hashes :
       flows[s].op \in CrossChain /\ Outstanding(h) => Carries(flows[s], h)

BurnInv == Types /\ HandlersSound /\ OperationOpen /\ BurnOnce

(* One handler at a time.                                                  *)
Alone ==
  /\ \A r, s \in Slots : Running(r) /\ Running(s) => r = s
  /\ \A s \in Slots : Running(s) =>
       /\ tab.op = flows[s].op
       /\ builder => flows[s].mounted /\ flows[s].op \in Builder
       /\ flows[s].pc # "wait" => owed = {}
       /\ flows[s].pc \notin {"wait", "pause"} => tab.pending = None
       /\ flows[s].pc = "wait" => owed \subseteq {flows[s].hash}

(* What is recorded and not read keeps a marker of its own.                *)
Marked ==
  owed # {} =>
    /\ tab.hash # None \/ tab.pending # None
    /\ tab.pending # None => owed = {tab.pending}
    /\ shown # None => owed = {shown}

Guarded ==
  /\ \A h \in signed : txs[h].for \in Attempts /\ tab.guards[txs[h].for] # None
  /\ \A g, h \in signed : txs[g].for = txs[h].for => g = h
  /\ \A s \in Slots : flows[s].op = "x402" /\ flows[s].pc \in {"request", "wait"} =>
       flows[s].hash \in signed /\ txs[flows[s].hash].for = flows[s].attempt

SoloInv == ~overlap => Alone /\ Marked /\ Guarded

-----------------------------------------------------------------------------
(* Numbers and hashes.                                                     *)
LEMMA Least ==
  ASSUME NEW F \in SUBSET Nat, F # {}
  PROVE  \E h \in F : \A g \in F : h <= g
<1> DEFINE R == {p \in Nat \X Nat : p[1] < p[2]}
<1>1. IsWellFoundedOn(OpToRel(<, Nat), Nat)
  BY NatLessThanWellFounded
<1>2. OpToRel(<, Nat) = R
  BY DEF OpToRel
<1>3. PICK h \in F : \A g \in F : <<g, h>> \notin R
  <2> HIDE DEF R
  <2> QED
  BY <1>1, <1>2, WFMin
<1>4. ASSUME NEW g \in F PROVE h <= g
  <2>1. <<g, h>> \in Nat \X Nat /\ <<g, h>>[1] = g /\ <<g, h>>[2] = h
    OBVIOUS
  <2>2. ~ (g < h)
    BY <1>3, <2>1
  <2> QED
    BY <2>2
<1> QED
  BY <1>4

(* The hash of a new transaction is one that nothing refers to.            *)
LEMMA NewHashIsFree ==
  ASSUME FreeHashes # {}
  PROVE  NewHash \in Hashes /\ Free(NewHash)
<1>1. FreeHashes \in SUBSET Nat
  BY FlowAssumption DEF FreeHashes
<1>2. \E h \in FreeHashes : \A g \in FreeHashes : h <= g
  BY <1>1, Least
<1>3. NewHash \in FreeHashes
  BY <1>2 DEF NewHash
<1> QED
  BY <1>3 DEF FreeHashes

(* The gate's writes, field by field.                                      *)
LEMMA ResolveFacts ==
  ASSUME NEW t \in Tab, NEW h
  PROVE  LET u == ResolvePendingTx(t, h) IN
         /\ u \in Tab /\ u.cctp = t.cctp /\ u.guards = t.guards /\ u.op = t.op
         /\ u.pending \in {t.pending, None}
         /\ h # "down" => u.pending = None
BY DEF ResolvePendingTx, Tab

LEMMA RecordFacts ==
  ASSUME NEW t \in Tab, NEW h, NEW n \in Hashes
  PROVE  LET u == RecordSubmittedTx(t, h, n) IN
         /\ u \in Tab /\ u.cctp = t.cctp /\ u.guards = t.guards /\ u.op = t.op
         /\ u.pending \in {t.pending, n} /\ u.hash = n
BY DEF RecordSubmittedTx, Tab

LEMMA OperationFacts ==
  ASSUME NEW t \in Tab, NEW stage \in Stages
  PROVE  LET u == UpdateCctpOperation(t, stage) IN
         /\ u \in Tab /\ u.cctp # None /\ u.guards = t.guards /\ u.op = t.op
         /\ u.pending = t.pending /\ u.hash = t.hash
BY GateAssumption DEF UpdateCctpOperation, Tab

LEMMA ClearFacts ==
  ASSUME NEW t \in Tab, NEW h
  PROVE  LET u == ClearCctpOperation(t, h) IN
         /\ u \in Tab /\ u.guards = t.guards /\ u.op = t.op
         /\ u.pending = t.pending /\ u.hash = t.hash
BY DEF ClearCctpOperation, Tab

LEMMA EndFacts ==
  ASSUME NEW t \in Tab, NEW op
  PROVE  LET u == EndOperation(t, op) IN
         /\ u \in Tab /\ u.cctp = t.cctp /\ u.guards = t.guards
         /\ u.pending = t.pending /\ u.hash = t.hash
BY DEF EndOperation, Tab

LEMMA UpsertFacts ==
  ASSUME NEW t \in Tab, NEW h, NEW a \in Attempts, NEW stage \in GuardStages
  PROVE  LET u == UpsertGuard(t, h, a, stage) IN
         /\ u \in Tab /\ u.cctp = t.cctp /\ u.op = t.op
         /\ u.pending = t.pending /\ u.hash = t.hash
         /\ CanUpsertGuard(t, h, a, stage) => u.guards[a] # None
         /\ \A b \in Attempts : t.guards[b] # None => u.guards[b] # None
<1>1. [t EXCEPT !.guards[a] = stage] \in Tab
  BY DEF Tab
<1>2. stage # None
  BY GateAssumption
<1> QED
  BY <1>1, <1>2 DEF UpsertGuard, Tab

LEMMA RemoveFacts ==
  ASSUME NEW t \in Tab, NEW h, NEW a \in Attempts
  PROVE  LET u == RemoveGuard(t, h, a) IN
         /\ u \in Tab /\ u.cctp = t.cctp /\ u.op = t.op
         /\ u.pending = t.pending /\ u.hash = t.hash
         /\ \A b \in Attempts \ {a} : u.guards[b] = t.guards[b]
<1>1. [t EXCEPT !.guards[a] = None] \in Tab
  BY DEF Tab
<1> QED
  BY <1>1 DEF RemoveGuard, Tab

-----------------------------------------------------------------------------
(* What a step of one handler does to the transactions: those another      *)
(* handler holds stay, and so does the burn behind every mint.             *)
TxsKept(s) ==
  /\ txs' \in [Hashes -> Tx]
  /\ \A r \in Slots \ {s} : flows[r].hash # None =>
       txs'[flows[r].hash] = txs[flows[r].hash]
  /\ \A h \in Hashes : txs'[h].status = "offered" => txs'[h].step = "pay"
  /\ \A m \in Hashes : txs'[m].step = "mint" /\ txs'[m].status = "inflight" =>
       txs'[m].for \in Hashes /\ txs'[txs'[m].for].step = "burn"

NoNewBurn == \A h \in Hashes : Outstanding(h)' => Outstanding(h)

LEMMA SameTxs ==
  ASSUME Types, HandlersSound, UNCHANGED txs, NEW s \in Slots
  PROVE  TxsKept(s) /\ NoNewBurn
BY DEF Types, HandlersSound, TxsKept, NoNewBurn, Outstanding

(* A new transaction takes the place of one that nothing refers to.        *)
LEMMA SendTxs ==
  ASSUME Types, HandlersSound, FreeHashes # {}, NEW s \in Slots,
         NEW step \in Steps, NEW for \in Attempts \cup Hashes \cup {None},
         NEW status \in {"offered", "inflight"},
         Send(NewHash, step, for, status), status = "offered" => step = "pay",
         step = "mint" => for = flows[s].hash /\ for # None /\ txs[for].step = "burn"
  PROVE  /\ TxsKept(s)
         /\ \A h \in Hashes \ {NewHash} : txs'[h] = txs[h]
         /\ txs'[NewHash] = [step |-> step, status |-> status, for |-> for]
         /\ \A h \in Hashes : Outstanding(h)' => Outstanding(h) \/ (h = NewHash /\ step = "burn")
<1>1. NewHash \in Hashes /\ Free(NewHash)
  BY NewHashIsFree
<1> DEFINE n == NewHash
           new == [step |-> step, status |-> status, for |-> for]
<1>2. new \in Tx /\ new.step = step /\ new.status = status /\ new.for = for
  BY DEF Tx, Statuses
<1>3. txs' = [txs EXCEPT ![n] = new] /\ n \in Hashes /\ Free(n) /\ txs \in [Hashes -> Tx]
  BY <1>1 DEF Send, Types
<1> HIDE DEF n, new
<1>4. /\ txs' \in [Hashes -> Tx] /\ txs'[n] = new
      /\ \A h \in Hashes \ {n} : txs'[h] = txs[h]
  BY <1>2, <1>3
<1>5. \A r \in Slots : flows[r].hash # n
  BY <1>3 DEF Free
<1>6. \A r \in Slots : flows[r].hash # None => txs'[flows[r].hash] = txs[flows[r].hash]
  BY <1>4, <1>5 DEF Types, Flow
<1>7. \A h \in Hashes : txs'[h].status = "offered" => txs'[h].step = "pay"
  BY <1>2, <1>4 DEF HandlersSound
<1>8. ASSUME NEW m \in Hashes, txs'[m].step = "mint", txs'[m].status = "inflight"
      PROVE  txs'[m].for \in Hashes /\ txs'[txs'[m].for].step = "burn"
  <2>1. CASE m = n
    <3>1. step = "mint" /\ txs'[m].for = flows[s].hash /\ flows[s].hash # None
      BY <1>2, <1>4, <1>8, <2>1
    <3>2. flows[s].hash \in Hashes /\ txs[flows[s].hash].step = "burn"
      BY <3>1 DEF Types, Flow
    <3> QED
      BY <3>1, <3>2, <1>6
  <2>2. CASE m # n
    <3>1. txs'[m] = txs[m]
      BY <1>4, <2>2
    <3>2. txs[m].for \in Hashes /\ txs[txs[m].for].step = "burn" /\ txs[m].for # n
      BY <1>3, <1>8, <3>1 DEF HandlersSound, Free
    <3> QED
      BY <1>4, <3>1, <3>2
  <2> QED
    BY <2>1, <2>2
<1>9. TxsKept(s)
  BY <1>4, <1>6, <1>7, <1>8 DEF TxsKept
<1>10. \A h \in Hashes : Outstanding(h)' => Outstanding(h) \/ (h = n /\ step = "burn")
  BY <1>2, <1>4 DEF Outstanding
<1> QED
  BY <1>4, <1>9, <1>10 DEF n, new

(* A receipt that was read is forgotten, unless it is a burn's.            *)
LEMMA ForgetTxs ==
  ASSUME Types, HandlersSound, NEW s \in Slots, flows[s].hash # None,
         Forget(s, flows[s].hash)
  PROVE  /\ TxsKept(s) /\ NoNewBurn
         /\ \A h \in Hashes \ {flows[s].hash} : txs'[h] = txs[h]
         /\ txs[flows[s].hash].step = "burn" => txs'[flows[s].hash] = txs[flows[s].hash]
<1> DEFINE n == flows[s].hash
<1>1. n \in Hashes /\ txs \in [Hashes -> Tx] /\ Unsent \in Tx
  BY DEF Types, Flow, Tx, Unsent, Statuses
<1>2. \A r \in Slots \ {s} : flows[r].hash # n
  BY DEF HandlersSound
<1>3. PICK new \in Tx : /\ txs' = [txs EXCEPT ![n] = new] /\ new \in {txs[n], Unsent}
                        /\ txs[n].step = "burn" => new = txs[n]
  BY <1>1 DEF Forget
<1> HIDE DEF n
<1>4. /\ txs' \in [Hashes -> Tx] /\ txs'[n] = new
      /\ \A h \in Hashes \ {n} : txs'[h] = txs[h]
  BY <1>1, <1>3
<1>5. new = txs[n] \/ (new.step = None /\ new.status = "none")
  BY <1>3 DEF Unsent
<1>6. \A r \in Slots \ {s} : flows[r].hash # None => txs'[flows[r].hash] = txs[flows[r].hash]
  BY <1>2, <1>4 DEF Types, Flow
<1>7. \A h \in Hashes : txs'[h].status = "offered" => txs'[h].step = "pay"
  BY <1>4, <1>5 DEF HandlersSound
<1>8. ASSUME NEW m \in Hashes, txs'[m].step = "mint", txs'[m].status = "inflight"
      PROVE  txs'[m].for \in Hashes /\ txs'[txs'[m].for].step = "burn"
  <2>1. txs'[m] = txs[m]
    BY <1>4, <1>5, <1>8
  <2>2. txs[m].for \in Hashes /\ txs[txs[m].for].step = "burn"
    BY <1>8, <2>1 DEF HandlersSound
  <2> QED
    BY <1>3, <1>4, <2>1, <2>2
<1>9. TxsKept(s)
  BY <1>4, <1>6, <1>7, <1>8 DEF TxsKept
<1>10. NoNewBurn
  BY <1>4, <1>5 DEF NoNewBurn, Outstanding
<1> QED
  BY <1>3, <1>4, <1>9, <1>10 DEF n

-----------------------------------------------------------------------------
(* One handler moves, the others stay where they are.                      *)
Alters(s, f, t) ==
  /\ Goto(s, f, t) /\ f \in Flow /\ t \in Tab
  /\ flows[s].op # None /\ f.op \in {None, flows[s].op}
  /\ (f.mounted => flows[s].mounted /\ f.op = flows[s].op)
  /\ Shape(f) /\ (f.hash \in {None, flows[s].hash} \/ Free(f.hash))
  /\ UNCHANGED <<health, builder, overlap>>

LEMMA Moved ==
  ASSUME Types, NEW s \in Slots, NEW f, NEW t, Alters(s, f, t)
  PROVE  /\ flows' \in [Slots -> Flow] /\ flows'[s] = f /\ tab' = t
         /\ \A r \in Slots \ {s} : flows'[r] = flows[r]
BY DEF Types, Alters, Goto

LEMMA SoundMove ==
  ASSUME Types, HandlersSound, NEW s \in Slots, NEW f, NEW t, Alters(s, f, t), TxsKept(s),
         HoldsBurn(f) => txs'[f.hash].step = "burn"
  PROVE  HandlersSound'
<1>1. /\ flows' \in [Slots -> Flow] /\ flows'[s] = f
      /\ \A r \in Slots \ {s} : flows'[r] = flows[r]
  BY Moved
<1>0. \A r \in Slots : flows'[r].mounted /\ flows'[r].op \in Builder => builder'
  <2>1. \A r \in Slots : flows[r].mounted /\ flows[r].op \in Builder => builder'
    BY DEF HandlersSound, Alters
  <2> QED
    BY <1>1, <2>1 DEF Alters
<1>2. \A r \in Slots : Shape(flows[r])'
  <2>1. \A r \in Slots : Shape(flows'[r])
    BY <1>1 DEF HandlersSound, Alters
  <2> QED
    BY <2>1 DEF Shape
<1>3. \A r, q \in Slots : flows'[r].hash = flows'[q].hash /\ flows'[q].hash # None => r = q
  <2>1. \A r \in Slots \ {s} : flows[r].hash = f.hash => f.hash = None
    BY DEF Alters, HandlersSound, Free
  <2> QED
    BY <1>1, <2>1 DEF HandlersSound
<1>4. \A r \in Slots : HoldsBurn(flows[r])' => txs'[flows'[r].hash].step = "burn"
  <2> SUFFICES ASSUME NEW r \in Slots, HoldsBurn(flows[r])'
               PROVE  txs'[flows'[r].hash].step = "burn"
    OBVIOUS
  <2>1. CASE r = s
    BY <1>1, <2>1 DEF HoldsBurn
  <2>2. CASE r # s
    <3>1. flows'[r] = flows[r] /\ HoldsBurn(flows[r])
      BY <1>1, <2>2 DEF HoldsBurn
    <3>2. flows[r].hash # None
      BY <3>1 DEF HoldsBurn, HandlersSound, Shape
    <3>3. txs'[flows[r].hash] = txs[flows[r].hash]
      BY <2>2, <3>2 DEF TxsKept
    <3> QED
      BY <3>1, <3>3 DEF HandlersSound
  <2> QED
    BY <2>1, <2>2
<1> QED
  BY <1>0, <1>2, <1>3, <1>4 DEF HandlersSound, TxsKept

(* A handler outside the cross-chain flows neither opens nor closes an     *)
(* operation.                                                              *)
LEMMA PlainMove ==
  ASSUME Types, HandlersSound, OperationOpen, BurnOnce,
         NEW s \in Slots, NEW f, NEW t, Alters(s, f, t), TxsKept(s), NoNewBurn,
         flows[s].op \notin CrossChain, tab.cctp # None => t.cctp # None
  PROVE  OperationOpen' /\ BurnOnce'
<1>1. /\ flows'[s] = f /\ tab' = t
      /\ \A r \in Slots \ {s} : flows'[r] = flows[r]
  BY Moved
<1>2. None \notin CrossChain
  BY FlowAssumption DEF AllOps, Builder, CrossChain
<1>3. f.op \notin CrossChain
  BY <1>2 DEF Alters
<1>4. BurnOnce'
  BY DEF BurnOnce, NoNewBurn
<1>5. ASSUME NEW r \in Slots, NEW h \in Hashes, flows'[r].op \in CrossChain, Outstanding(h)'
      PROVE  Carries(flows[r], h)'
  <2>1. r # s /\ flows'[r] = flows[r] /\ Outstanding(h)
    BY <1>1, <1>3, <1>5 DEF NoNewBurn
  <2>2. Carries(flows[r], h)
    BY <1>5, <2>1 DEF OperationOpen
  <2>3. flows[r].hash # None
    BY <2>2 DEF Carries, HoldsBurn, HandlersSound, Shape
  <2>4. txs'[flows[r].hash] = txs[flows[r].hash]
    BY <2>1, <2>3 DEF TxsKept
  <2> QED
    BY <2>1, <2>2, <2>4 DEF Carries, HoldsBurn
<1>6. \A h \in Hashes : Outstanding(h)' => tab'.cctp # None
  BY <1>1 DEF NoNewBurn, OperationOpen
<1>7. \A r \in Slots : flows'[r].op \in CrossChain => r # s /\ flows'[r] = flows[r]
  BY <1>1, <1>3
<1>8. \A r, q \in Slots : flows'[r].op \in CrossChain /\ flows'[q].op \in CrossChain => r = q
  BY <1>7 DEF OperationOpen
<1>9. \A r \in Slots : flows'[r].op \in CrossChain => tab'.cctp # None
  BY <1>1, <1>7 DEF OperationOpen
<1> QED
  BY <1>4, <1>5, <1>6, <1>8, <1>9 DEF OperationOpen

(* A cross-chain handler is the only one.                                  *)
LEMMA CrossMove ==
  ASSUME Types, HandlersSound, OperationOpen,
         NEW s \in Slots, NEW f, NEW t, Alters(s, f, t),
         flows[s].op \in CrossChain, BurnOnce',
         f.op # None => t.cctp # None,
         \A h \in Hashes : Outstanding(h)' => t.cctp # None /\ (f.op # None => Carries(f, h)')
  PROVE  OperationOpen'
<1>1. /\ flows'[s] = f /\ tab' = t
      /\ \A r \in Slots \ {s} : flows'[r] = flows[r]
  BY Moved
<1>2. None \notin CrossChain
  BY FlowAssumption DEF AllOps, Builder, CrossChain
<1>3. \A r \in Slots : flows'[r].op \in CrossChain => r = s /\ f.op # None
  BY <1>1, <1>2 DEF OperationOpen
<1>4. \A r \in Slots, h \in Hashes :
        flows'[r].op \in CrossChain /\ Outstanding(h)' => Carries(flows[r], h)'
  <2> SUFFICES ASSUME NEW r \in Slots, NEW h \in Hashes, flows'[r].op \in CrossChain,
                      Outstanding(h)'
               PROVE  Carries(flows[r], h)'
    OBVIOUS
  <2>1. flows'[r] = f /\ Carries(f, h)'
    BY <1>1, <1>3
  <2> QED
    BY <2>1 DEF Carries, HoldsBurn
<1> QED
  BY <1>1, <1>3, <1>4 DEF OperationOpen

(* While handlers do not overlap, the one that moves is alone.             *)
LEMMA SoloMove ==
  ASSUME Types, HandlersSound, SoloInv, NEW s \in Slots, NEW f, NEW t, Alters(s, f, t),
         f.op # None /\ f.pc # "orphan" =>
           Running(s) /\ f.mounted = flows[s].mounted /\ t.op = tab.op,
         ~overlap =>
           /\ Marked'
           /\ f.pc \notin {"idle", "orphan", "wait"} => owed' = {}
           /\ f.pc \notin {"idle", "orphan", "wait", "pause"} => t.pending = None
           /\ f.pc = "wait" => owed' \subseteq {f.hash}
           /\ \A h \in signed' : txs'[h].for \in Attempts /\ t.guards[txs'[h].for] # None
           /\ \A g, h \in signed' : txs'[g].for = txs'[h].for => g = h
           /\ f.op = "x402" /\ f.pc \in {"request", "wait"} =>
                f.hash \in signed' /\ txs'[f.hash].for = f.attempt,
         Running(s) \/ (signed' = signed /\ owed' = owed /\ tab.op = t.op
                        /\ tab.pending = t.pending
                        /\ \A h \in signed : txs'[h] = txs[h])
  PROVE  SoloInv'
<1>1. /\ flows'[s] = f /\ tab' = t /\ overlap' = overlap /\ builder' = builder
      /\ \A r \in Slots \ {s} : flows'[r] = flows[r]
  BY Moved DEF Alters
<1>2. SUFFICES ASSUME ~overlap PROVE Alone' /\ Marked' /\ Guarded'
  BY <1>1 DEF SoloInv
<1>3. Alone /\ Guarded
  BY <1>2 DEF SoloInv
<1>4. (f.pc = "idle" <=> f.op = None) /\ Shape(flows[s])
  BY DEF Alters, HandlersSound, Shape, Idle
<1>5. \A r \in Slots \ {s} : Running(r)' <=> Running(r)
  BY <1>1 DEF Running
<1>6. Running(s)' <=> f.pc \notin {"idle", "orphan"}
  BY <1>1 DEF Running
<1>7. Running(s)' => Running(s)
  BY <1>4, <1>6
<1>8. \A r, q \in Slots : Running(r)' /\ Running(q)' => r = q
  BY <1>3, <1>5, <1>7 DEF Alone
<1>9. ASSUME NEW r \in Slots, Running(r)'
      PROVE  /\ tab'.op = flows'[r].op
             /\ builder' => flows'[r].mounted /\ flows'[r].op \in Builder
             /\ flows'[r].pc # "wait" => owed' = {}
             /\ flows'[r].pc \notin {"wait", "pause"} => tab'.pending = None
             /\ flows'[r].pc = "wait" => owed' \subseteq {flows'[r].hash}
  <2>1. CASE r = s
    <3>1. f.op # None /\ f.pc \notin {"idle", "orphan"} /\ f.op = flows[s].op
      BY <1>4, <1>6, <1>9, <2>1 DEF Alters
    <3>2. /\ tab.op = flows[s].op /\ t.op = tab.op /\ f.mounted = flows[s].mounted
          /\ builder => flows[s].mounted /\ flows[s].op \in Builder
      BY <1>3, <3>1 DEF Alone
    <3> QED
      BY <1>1, <1>2, <2>1, <3>1, <3>2
  <2>2. CASE r # s
    <3>1. Running(r) /\ flows'[r] = flows[r]
      BY <1>1, <1>5, <1>9, <2>2
    <3>2. ~Running(s)
      BY <1>3, <2>2, <3>1 DEF Alone
    <3>3. owed' = owed /\ t.op = tab.op /\ t.pending = tab.pending
      BY <3>2
    <3> QED
      BY <1>1, <1>3, <3>1, <3>3 DEF Alone
  <2> QED
    BY <2>1, <2>2
<1>10. Alone'
  BY <1>8, <1>9 DEF Alone
<1>11. ASSUME NEW r \in Slots, flows'[r].op = "x402", flows'[r].pc \in {"request", "wait"}
       PROVE  flows'[r].hash \in signed' /\ txs'[flows'[r].hash].for = flows'[r].attempt
  <2>1. CASE r = s
    BY <1>1, <1>2, <1>11, <2>1
  <2>2. CASE r # s
    <3>1. Running(r) /\ flows'[r] = flows[r]
      BY <1>1, <1>11, <2>2 DEF Running
    <3>2. ~Running(s)
      BY <1>3, <2>2, <3>1 DEF Alone
    <3>3. signed' = signed /\ \A h \in signed : txs'[h] = txs[h]
      BY <3>2
    <3> QED
      BY <1>3, <1>11, <3>1, <3>3 DEF Guarded
  <2> QED
    BY <2>1, <2>2
<1>12. Guarded'
  BY <1>1, <1>2, <1>11 DEF Guarded
<1> QED
  BY <1>2, <1>10, <1>12

-----------------------------------------------------------------------------
FlowInv == BurnInv /\ SoloInv

(* What a handler's step leaves of the world when it sends nothing.        *)
Settles(s) ==
  /\ TxsKept(s) /\ NoNewBurn
  /\ owed' \subseteq owed /\ signed' \subseteq signed
  /\ shown' \in Hashes \cup {None} /\ (~builder => shown' = None)
  /\ \A h \in signed' : txs'[h] = txs[h]
  /\ txs[flows[s].hash].step = "burn" => txs'[flows[s].hash] = txs[flows[s].hash]

LEMMA NothingSettles ==
  ASSUME FlowInv, UNCHANGED <<txs, owed, signed, shown>>, NEW s \in Slots
  PROVE  Settles(s)
BY SameTxs DEF Settles, FlowInv, BurnInv, Types

LEMMA ForgetSettles ==
  ASSUME FlowInv, NEW s \in Slots, flows[s].pc = "wait", Forget(s, flows[s].hash)
  PROVE  Settles(s) /\ (~overlap => owed' = {}) /\ signed' = signed \ {flows[s].hash}
<1>1. Types /\ HandlersSound /\ flows[s].hash # None
  BY DEF FlowInv, BurnInv, HandlersSound, Shape
<1>2. /\ TxsKept(s) /\ NoNewBurn
      /\ \A h \in Hashes \ {flows[s].hash} : txs'[h] = txs[h]
      /\ txs[flows[s].hash].step = "burn" => txs'[flows[s].hash] = txs[flows[s].hash]
  BY <1>1, ForgetTxs
<1>3. /\ owed' = owed \ {flows[s].hash} /\ signed' = signed \ {flows[s].hash}
      /\ shown' \in {None, shown}
  BY DEF Forget
<1>4. ~overlap => owed \subseteq {flows[s].hash}
  BY DEF FlowInv, SoloInv, Alone, Running
<1> QED
  BY <1>1, <1>2, <1>3, <1>4 DEF Settles, Types

LEMMA IdleFacts == /\ Idle \in Flow /\ Shape(Idle) /\ ~HoldsBurn(Idle) /\ ~Idle.mounted
                   /\ Idle.op = None /\ Idle.pc = "idle" /\ Idle.hash = None
BY FlowAssumption DEF Idle, Flow, Shape, HoldsBurn, Pcs, Steps, AllOps, Builder, CrossChain

LEMMA MoveTypes ==
  ASSUME Types, NEW s \in Slots, NEW f, NEW t, Alters(s, f, t), TxsKept(s),
         owed' \in SUBSET Hashes, signed' \in SUBSET Hashes,
         shown' \in Hashes \cup {None}, ~builder => shown' = None
  PROVE  Types'
<1>1. flows' \in [Slots -> Flow] /\ tab' = t
  BY Moved
<1> QED
  BY <1>1 DEF Types, Alters, TxsKept

(* A handler stops.                                                        *)
LEMMA StopMove ==
  ASSUME FlowInv, NEW s \in Slots, NEW t \in Tab, Goto(s, Idle, t), flows[s].op # None,
         UNCHANGED <<health, builder, overlap>>, Settles(s),
         ~overlap => Marked' /\ \A h \in signed' : t.guards[txs[h].for] # None,
         t.cctp = None =>
           tab.cctp = None \/ (flows[s].op \in CrossChain /\ \A h \in Hashes : ~Outstanding(h)),
         Running(s) \/ (signed' = signed /\ owed' = owed /\ tab.op = t.op
                        /\ tab.pending = t.pending)
  PROVE  FlowInv'
<1>1. Types /\ HandlersSound /\ OperationOpen /\ BurnOnce /\ SoloInv
  BY DEF FlowInv, BurnInv
<1> DEFINE f == Idle
<1>2. Alters(s, f, t) /\ ~HoldsBurn(f) /\ f.op = None /\ f.pc = "idle"
  <2>1. Idle.hash = None
    BY DEF Idle
  <2> QED
    BY <2>1, IdleFacts DEF Alters
<1> HIDE DEF f
<1>3. Types'
  BY <1>1, <1>2, MoveTypes DEF Settles, Types
<1>4. HandlersSound'
  BY <1>1, <1>2, SoundMove DEF Settles
<1>5. OperationOpen' /\ BurnOnce'
  <2>1. CASE flows[s].op \in CrossChain
    <3>1. BurnOnce'
      BY <1>1 DEF Settles, NoNewBurn, BurnOnce
    <3>2. \A h \in Hashes : Outstanding(h)' => t.cctp # None
      BY <1>1 DEF Settles, NoNewBurn, OperationOpen
    <3> QED
      BY <1>1, <1>2, <2>1, <3>1, <3>2, CrossMove
  <2>2. CASE flows[s].op \notin CrossChain
    BY <1>1, <1>2, <2>2, PlainMove DEF Settles
  <2> QED
    BY <2>1, <2>2
<1>6. SoloInv'
  <2>1. ~overlap =>
          /\ \A h \in signed' : txs'[h].for \in Attempts /\ t.guards[txs'[h].for] # None
          /\ \A g, h \in signed' : txs'[g].for = txs'[h].for => g = h
    BY <1>1 DEF Settles, SoloInv, Guarded
  <2>2. Running(s) \/ (signed' = signed /\ owed' = owed /\ tab.op = t.op
                        /\ tab.pending = t.pending
                        /\ \A h \in signed : txs'[h] = txs[h])
    BY DEF Settles
  <2>3. f.op # "x402"
    BY <1>2, FlowAssumption DEF AllOps, Builder
  <2> QED
    BY <1>1, <1>2, <2>1, <2>2, <2>3, SoloMove
<1> QED
  BY <1>3, <1>4, <1>5, <1>6 DEF FlowInv, BurnInv

(* A handler goes on to a prompt, a pause or the attestation.              *)
LEMMA GoMove ==
  ASSUME FlowInv, NEW s \in Slots, NEW f, NEW t, Alters(s, f, t), Running(s), Settles(s),
         f.pc \in {"ask", "pause", "attest"}, f.op = flows[s].op,
         f.mounted = flows[s].mounted, t.op = tab.op, f.hash \in {None, flows[s].hash},
         ~overlap => /\ owed' = {} /\ (f.pc # "pause" => t.pending = None)
                     /\ \A h \in signed' : t.guards[txs[h].for] # None,
         HoldsBurn(f) => HoldsBurn(flows[s]) /\ f.hash = flows[s].hash,
         flows[s].op \notin CrossChain /\ tab.cctp # None => t.cctp # None,
         flows[s].op \in CrossChain =>
           t.cctp # None /\ \A h \in Hashes : Outstanding(h) => HoldsBurn(f) /\ f.hash = h
  PROVE  FlowInv'
<1>1. Types /\ HandlersSound /\ OperationOpen /\ BurnOnce /\ SoloInv
  BY DEF FlowInv, BurnInv
<1>2. Types'
  BY <1>1, MoveTypes DEF Settles, Types
<1>3. HandlersSound'
  <2>1. HoldsBurn(f) => txs'[f.hash].step = "burn"
    BY <1>1 DEF HandlersSound, Settles
  <2> QED
    BY <1>1, <2>1, SoundMove DEF Settles
<1>4. OperationOpen' /\ BurnOnce'
  <2>1. CASE flows[s].op \in CrossChain
    <3>1. BurnOnce'
      BY <1>1 DEF Settles, NoNewBurn, BurnOnce
    <3>2. \A h \in Hashes : Outstanding(h)' => t.cctp # None /\ HoldsBurn(f) /\ f.hash = h
      BY <2>1 DEF Settles, NoNewBurn
    <3>3. \A h \in Hashes : Outstanding(h)' => t.cctp # None /\ (f.op # None => Carries(f, h)')
      BY <3>2 DEF Carries, HoldsBurn
    <3> QED
      BY <1>1, <2>1, <3>1, <3>3, CrossMove
  <2>2. CASE flows[s].op \notin CrossChain
    BY <1>1, <2>2, PlainMove DEF Settles
  <2> QED
    BY <2>1, <2>2
<1>5. SoloInv'
  <2>1. ~overlap =>
          /\ \A h \in signed' : txs'[h].for \in Attempts /\ t.guards[txs'[h].for] # None
          /\ \A g, h \in signed' : txs'[g].for = txs'[h].for => g = h
    BY <1>1 DEF Settles, SoloInv, Guarded
  <2>2. f.pc \notin {"request", "wait", "idle", "orphan"}
    OBVIOUS
  <2>3. ~overlap => Marked'
    BY DEF Marked
  <2> QED
    BY <1>1, <2>1, <2>2, <2>3, SoloMove
<1> QED
  BY <1>2, <1>3, <1>4, <1>5 DEF FlowInv, BurnInv

(* The two ways a step that sends nothing goes on: finally, and a prompt.  *)
Quiet(u) ==
  \/ owed' = {}
  \/ owed' = owed /\ shown' = shown /\ u.hash = tab.hash /\ u.pending = tab.pending

LEMMA EndMove ==
  ASSUME FlowInv, NEW s \in Slots, NEW u \in Tab, End(s, u) \/ Vanish(s, u), Running(s),
         UNCHANGED <<health, builder, overlap>>, Settles(s),
         ~overlap => Quiet(u) /\ \A h \in signed' : u.guards[txs[h].for] # None,
         u.cctp = None =>
           tab.cctp = None \/ (flows[s].op \in CrossChain /\ \A h \in Hashes : ~Outstanding(h))
  PROVE  FlowInv'
<1>1. PICK t \in Tab :
        /\ Goto(s, Idle, t) /\ t.cctp = u.cctp /\ t.guards = u.guards
        /\ t.hash = u.hash /\ t.pending = u.pending
  BY EndFacts DEF End, Vanish
<1>2. tab' = t
  BY <1>1 DEF Goto
<1>3. flows[s].op # None
  BY DEF FlowInv, BurnInv, HandlersSound, Shape, Running
<1>4. ~overlap => Marked'
  <2>1. ~overlap => Marked
    BY DEF FlowInv, SoloInv
  <2> QED
    BY <1>1, <1>2, <2>1 DEF Quiet, Marked
<1>5. ~overlap => \A h \in signed' : t.guards[txs[h].for] # None
  BY <1>1
<1> QED
  BY <1>1, <1>3, <1>4, <1>5, StopMove

LEMMA AskMove ==
  ASSUME FlowInv, NEW s \in Slots, NEW u \in Tab, NEW step \in Steps, Ask(s, step, u), Running(s),
         UNCHANGED <<health, builder, overlap>>, Settles(s), u.op = tab.op,
         ~overlap => /\ owed' = {} /\ u.pending = None
                     /\ \A h \in signed' : u.guards[txs[h].for] # None,
         step \in {"burn", "mint"} => flows[s].op \in CrossChain,
         step = "mint" => flows[s].pc = "attest",
         flows[s].op # "x402",
         flows[s].op \notin CrossChain /\ tab.cctp # None => u.cctp # None,
         flows[s].op \in CrossChain =>
           u.cctp # None /\ (step = "mint" \/ \A h \in Hashes : ~Outstanding(h))
  PROVE  FlowInv'
<1>1. Types /\ HandlersSound /\ OperationOpen
  BY DEF FlowInv, BurnInv
<1>2. flows[s] \in Flow /\ Shape(flows[s]) /\ flows[s].op # None /\ "ask" \in Pcs /\ step # None
  BY <1>1, FlowAssumption DEF Types, HandlersSound, Shape, Running, Pcs
<1>3. PICK f : f = [flows[s] EXCEPT !.pc = "ask", !.step = step,
                                    !.hash = IF step = "mint" THEN @ ELSE None]
  OBVIOUS
<1>4. /\ f \in Flow /\ f.pc = "ask" /\ f.step = step /\ f.op = flows[s].op
      /\ f.mounted = flows[s].mounted /\ f.sent = flows[s].sent /\ f.attempt = flows[s].attempt
      /\ f.hash = IF step = "mint" THEN flows[s].hash ELSE None
  BY <1>2, <1>3 DEF Flow
<1>5. Goto(s, f, u)
  BY <1>3 DEF Ask
<1> HIDE <1>3
<1>6. step = "mint" => /\ flows[s].step = "burn" /\ flows[s].sent /\ flows[s].hash # None
                       /\ HoldsBurn(flows[s])
  BY <1>2 DEF Shape, HoldsBurn
<1>7. Shape(f)
  BY <1>2, <1>4, <1>6 DEF Shape
<1>8. Alters(s, f, u)
  BY <1>2, <1>4, <1>5, <1>7 DEF Alters
<1>9. HoldsBurn(f) <=> step = "mint"
  BY <1>4 DEF HoldsBurn
<1>10. flows[s].op \in CrossChain =>
         u.cctp # None /\ \A h \in Hashes : Outstanding(h) => HoldsBurn(f) /\ f.hash = h
  <2> SUFFICES ASSUME flows[s].op \in CrossChain, NEW h \in Hashes, Outstanding(h)
               PROVE  HoldsBurn(f) /\ f.hash = h
    OBVIOUS
  <2>1. step = "mint" /\ Carries(flows[s], h)
    BY <1>1 DEF OperationOpen
  <2>2. flows[s].hash = h
    BY <1>6, <2>1 DEF Carries
  <2> QED
    BY <1>4, <1>9, <2>1, <2>2
<1> QED
  BY <1>4, <1>6, <1>8, <1>9, <1>10, GoMove

LEMMA CrossChainOps == /\ "x402" \notin CrossChain /\ None \notin CrossChain
                       /\ Callback \cap CrossChain = {} /\ Repeating \cap CrossChain = {}
BY FlowAssumption DEF AllOps, Builder, CrossChain, Callback, Repeating

LEMMA CrossAskMove ==
  ASSUME FlowInv, NEW s \in Slots, NEW u \in Tab, NEW stage \in Stages,
         NEW step \in {"approve", "burn", "mint"}, AskCrossChain(s, stage, step, u), Running(s),
         UNCHANGED <<health, builder, overlap>>, Settles(s), flows[s].op \in CrossChain,
         u.op = tab.op, u.cctp # None,
         ~overlap => /\ owed' = {} /\ u.pending = None
                     /\ \A h \in signed' : u.guards[txs[h].for] # None,
         step = "mint" => flows[s].pc = "attest",
         step = "mint" \/ \A h \in Hashes : ~Outstanding(h)
  PROVE  FlowInv'
<1>1. CASE Ask(s, step, UpdateCctpOperation(u, stage))
  <2>1. PICK t \in Tab : /\ Ask(s, step, t) /\ t.cctp # None /\ t.guards = u.guards
                         /\ t.op = u.op /\ t.pending = u.pending
    BY <1>1, OperationFacts
  <2>2. step \in Steps
    BY DEF Steps
  <2>3. flows[s].op # "x402"
    BY CrossChainOps
  <2> QED
    BY <2>1, <2>2, <2>3, AskMove
<1>2. CASE End(s, u)
  BY <1>2, EndMove DEF Quiet
<1> QED
  BY <1>1, <1>2 DEF AskCrossChain

LEMMA AskPaymentMove ==
  ASSUME FlowInv, NEW s \in Slots, NEW u \in Tab, AskPayment(s, u), Running(s),
         UNCHANGED <<health, builder, overlap>>, Settles(s), flows[s].op \notin CrossChain,
         flows[s].op # "x402", u.op = tab.op, u.cctp = tab.cctp,
         ~overlap => owed' = {} /\ \A h \in signed' : u.guards[txs[h].for] # None
  PROVE  FlowInv'
<1>1. CASE Ask(s, "pay", u) /\ CheckPaymentStart(u, health, flows[s].op, flows[s].attempt)
  <2>1. u.pending = None /\ "pay" \in Steps
    BY <1>1 DEF CheckPaymentStart, Steps
  <2> QED
    BY <1>1, <2>1, AskMove
<1>2. CASE End(s, u)
  BY <1>2, EndMove DEF Quiet
<1> QED
  BY <1>1, <1>2 DEF AskPayment

LEMMA GuardsStay ==
  ASSUME FlowInv, ~overlap, signed' \subseteq signed, NEW u,
         \A a \in Attempts : tab.guards[a] # None => u.guards[a] # None
  PROVE  \A h \in signed' : u.guards[txs[h].for] # None
BY DEF FlowInv, SoloInv, Guarded

LEMMA AloneFacts ==
  ASSUME FlowInv, NEW s \in Slots, flows[s].pc \notin {"idle", "orphan"}
  PROVE  /\ Running(s) /\ tab \in Tab /\ Shape(flows[s])
         /\ ~overlap => /\ flows[s].pc # "wait" => owed = {}
                        /\ flows[s].pc \notin {"wait", "pause"} => tab.pending = None
                        /\ \A h \in signed : tab.guards[txs[h].for] # None
BY DEF FlowInv, BurnInv, Types, HandlersSound, SoloInv, Alone, Guarded, Running

(* Before a burn is asked for, an operation has none outstanding.          *)
LEMMA NoneOutstanding ==
  ASSUME FlowInv, NEW s \in Slots, flows[s].op \in CrossChain,
         \/ flows[s].step \notin {"burn", "mint"}
         \/ flows[s].step = "burn" /\ flows[s].pc \in {"ask", "orphan"}
  PROVE  \A h \in Hashes : ~Outstanding(h)
BY DEF FlowInv, BurnInv, OperationOpen, Carries, HoldsBurn

LEMMA AllowanceStep ==
  ASSUME FlowInv, NEW s \in Slots, EnsureAllowance(s)
  PROVE  FlowInv'
<1>1. flows[s].pc = "prep" /\ flows[s].op \in {"call", "batch"}
  BY DEF EnsureAllowance
<1>2. /\ UNCHANGED <<health, builder, overlap>> /\ UNCHANGED <<txs, owed, signed, shown>>
      /\ flows[s].op \notin CrossChain /\ flows[s].op # "x402"
  BY <1>1 DEF EnsureAllowance, SameWorld, CrossChain
<1>3. Settles(s)
  BY <1>2, NothingSettles
<1>4. CASE End(s, tab)
  BY <1>1, <1>2, <1>3, <1>4, AloneFacts, EndMove DEF Quiet
<1>5. CASE Ask(s, "approve", tab) \/ Ask(s, "pay", tab)
  <2>1. "approve" \in Steps /\ "pay" \in Steps
    BY DEF Steps
  <2> QED
    BY <1>1, <1>2, <1>3, <1>5, <2>1, AloneFacts, AskMove
<1> QED
  BY <1>4, <1>5 DEF EnsureAllowance

LEMMA SimulateStep ==
  ASSUME FlowInv, NEW s \in Slots, Simulate(s)
  PROVE  FlowInv'
<1>1. flows[s].pc = "prep" /\ flows[s].op \in {"claim", "receipt"}
  BY DEF Simulate
<1>2. /\ UNCHANGED <<health, builder, overlap>> /\ UNCHANGED <<txs, owed, signed, shown>>
      /\ flows[s].op \notin CrossChain /\ flows[s].op # "x402"
  BY <1>1 DEF Simulate, SameWorld, CrossChain
<1>3. Settles(s)
  BY <1>2, NothingSettles
<1>4. CASE End(s, tab)
  BY <1>1, <1>2, <1>3, <1>4, AloneFacts, EndMove DEF Quiet
<1>5. CASE Ask(s, "pay", tab)
  <2>1. "pay" \in Steps
    BY DEF Steps
  <2> QED
    BY <1>1, <1>2, <1>3, <1>5, <2>1, AloneFacts, AskMove
<1> QED
  BY <1>4, <1>5 DEF Simulate

LEMMA PrepareBurnStep ==
  ASSUME FlowInv, NEW s \in Slots, PrepareBurn(s)
  PROVE  FlowInv'
<1>1. flows[s].pc = "prep" /\ flows[s].op \in CrossChain
  BY DEF PrepareBurn, CrossChain
<1>2. UNCHANGED <<health, builder, overlap>> /\ UNCHANGED <<txs, owed, signed, shown>>
  BY DEF PrepareBurn, SameWorld
<1>3. Settles(s)
  BY <1>2, NothingSettles
<1>4. Running(s) /\ tab \in Tab /\ flows[s].step = None
  BY <1>1, AloneFacts DEF Shape
<1>5. \A h \in Hashes : ~Outstanding(h)
  BY <1>1, <1>4, NoneOutstanding, FlowAssumption DEF Steps
<1>6. tab.cctp # None
  BY <1>1 DEF FlowInv, BurnInv, OperationOpen
<1>7. CASE End(s, tab)
  BY <1>1, <1>2, <1>3, <1>7, AloneFacts, EndMove DEF Quiet
<1>8. CASE End(s, ClearCctpOperation(tab, health))
  <2>1. PICK u \in Tab : /\ End(s, u) /\ u.guards = tab.guards
                         /\ u.pending = tab.pending /\ u.hash = tab.hash
    BY <1>4, <1>8, ClearFacts
  <2> QED
    BY <1>1, <1>2, <1>3, <1>5, <2>1, AloneFacts, EndMove DEF Quiet
<1>9. CASE \/ AskCrossChain(s, "approval-pending", "approve", tab)
           \/ AskCrossChain(s, "burn-pending", "burn", tab)
  <2>1. "approval-pending" \in Stages /\ "burn-pending" \in Stages
    BY DEF Stages
  <2> QED
    BY <1>1, <1>2, <1>3, <1>5, <1>6, <1>9, <2>1, AloneFacts, CrossAskMove
<1> QED
  BY <1>7, <1>8, <1>9 DEF PrepareBurn

LEMMA AttestationStep ==
  ASSUME FlowInv, NEW s \in Slots, Attestation(s)
  PROVE  FlowInv'
<1>1. flows[s].pc = "attest"
  BY DEF Attestation
<1>2. UNCHANGED <<health, builder, overlap>> /\ UNCHANGED <<txs, owed, signed, shown>>
  BY DEF Attestation, SameWorld
<1>3. Settles(s)
  BY <1>2, NothingSettles
<1>4. flows[s].op \in CrossChain /\ Running(s) /\ tab \in Tab
  BY <1>1, AloneFacts DEF Shape
<1>5. tab.cctp # None
  BY <1>4 DEF FlowInv, BurnInv, OperationOpen
<1>6. CASE End(s, tab)
  BY <1>1, <1>2, <1>3, <1>6, AloneFacts, EndMove DEF Quiet
<1>7. CASE AskCrossChain(s, "mint-pending", "mint", tab)
  <2>1. "mint-pending" \in Stages
    BY DEF Stages
  <2> QED
    BY <1>1, <1>2, <1>3, <1>4, <1>5, <1>7, <2>1, AloneFacts, CrossAskMove
<1> QED
  BY <1>6, <1>7 DEF Attestation

LEMMA PauseStep ==
  ASSUME FlowInv, NEW s \in Slots, ItemPause(s)
  PROVE  FlowInv'
<1>1. flows[s].pc = "pause"
  BY DEF ItemPause
<1>2. UNCHANGED <<health, builder, overlap>> /\ UNCHANGED <<txs, owed, signed, shown>>
  BY DEF ItemPause, SameWorld
<1>3. Settles(s)
  BY <1>2, NothingSettles
<1>4. flows[s].op \notin CrossChain /\ flows[s].op # "x402"
  BY <1>1, AloneFacts DEF Shape
<1> QED
  BY <1>1, <1>2, <1>3, <1>4, AloneFacts, AskPaymentMove DEF ItemPause

LEMMA UnknownStep ==
  ASSUME FlowInv, NEW s \in Slots, ReceiptUnknown(s)
  PROVE  FlowInv'
<1>1. flows[s].pc = "wait" /\ (End(s, tab) \/ Vanish(s, tab))
  BY DEF ReceiptUnknown
<1>2. UNCHANGED <<health, builder, overlap>> /\ UNCHANGED <<txs, owed, signed, shown>>
  BY DEF ReceiptUnknown, SameWorld
<1>3. Settles(s)
  BY <1>2, NothingSettles
<1> QED
  BY <1>1, <1>2, <1>3, AloneFacts, EndMove DEF Quiet

-----------------------------------------------------------------------------
(* Receipts.                                                               *)
LEMMA ReceiptSettles ==
  ASSUME FlowInv, NEW s \in Slots, flows[s].pc = "wait", Forget(s, flows[s].hash), SameWorld,
         UNCHANGED overlap
  PROVE  /\ Settles(s) /\ Running(s) /\ UNCHANGED <<health, builder, overlap>>
         /\ ~overlap => owed' = {} /\ \A h \in signed' : tab.guards[txs[h].for] # None
BY ForgetSettles, AloneFacts DEF SameWorld, Settles

LEMMA NextItemStep ==
  ASSUME FlowInv, NEW s \in Slots, flows[s].pc = "wait", Forget(s, flows[s].hash), SameWorld,
         UNCHANGED overlap, flows[s].op \in Repeating, flows[s].step = "pay",
         NextItem(s, ResolvePendingTx(tab, health))
  PROVE  FlowInv'
<1>1. PICK u \in Tab : /\ NextItem(s, u) /\ u.guards = tab.guards /\ u.op = tab.op
                       /\ u.cctp = tab.cctp
  BY AloneFacts, ResolveFacts
<1>2. flows[s].op \notin CrossChain /\ flows[s].op # "x402" /\ flows[s].op # None
  BY CrossChainOps, AloneFacts DEF Repeating, Shape
<1>3. /\ Settles(s) /\ Running(s) /\ UNCHANGED <<health, builder, overlap>>
      /\ ~overlap => owed' = {} /\ \A h \in signed' : u.guards[txs[h].for] # None
  BY <1>1, ReceiptSettles
<1>4. CASE End(s, u)
  BY <1>1, <1>3, <1>4, EndMove DEF Quiet
<1>5. CASE AskPayment(s, u)
  BY <1>1, <1>2, <1>3, <1>5, AskPaymentMove
<1>6. CASE Goto(s, [flows[s] EXCEPT !.pc = "pause"], u)
  <2>1. PICK f : f = [flows[s] EXCEPT !.pc = "pause"]
    OBVIOUS
  <2>2. flows[s] \in Flow /\ "pause" \in Pcs /\ Shape(flows[s])
    BY AloneFacts DEF FlowInv, BurnInv, Types, Pcs
  <2>3. /\ f \in Flow /\ f.pc = "pause" /\ f.op = flows[s].op /\ f.step = "pay"
        /\ f.mounted = flows[s].mounted /\ f.hash = flows[s].hash
    BY <2>1, <2>2 DEF Flow
  <2>4. Goto(s, f, u)
    BY <1>6, <2>1
  <2> HIDE <2>1
  <2>5. Alters(s, f, u) /\ ~HoldsBurn(f)
    BY <1>2, <1>3, <2>2, <2>3, <2>4 DEF Alters, Shape, HoldsBurn
  <2> QED
    BY <1>1, <1>2, <1>3, <2>3, <2>5, GoMove
<1> QED
  BY <1>1, <1>4, <1>5, <1>6 DEF NextItem

(* A settled x402 payment takes its attempt's guard with it.               *)
LEMMA SettledStep ==
  ASSUME FlowInv, NEW s \in Slots, flows[s].pc = "wait", Forget(s, flows[s].hash), SameWorld,
         UNCHANGED overlap, flows[s].op = "x402",
         End(s, RemoveGuard(ResolvePendingTx(tab, health), health, flows[s].attempt))
  PROVE  FlowInv'
<1>1. tab \in Tab /\ flows[s].attempt \in Attempts
  BY AloneFacts DEF Shape
<1>2. PICK u \in Tab : /\ u.guards = tab.guards /\ u.cctp = tab.cctp
                       /\ End(s, RemoveGuard(u, health, flows[s].attempt))
  BY <1>1, ResolveFacts
<1>3. PICK v \in Tab : /\ \A b \in Attempts \ {flows[s].attempt} : v.guards[b] = tab.guards[b]
                       /\ v.cctp = tab.cctp /\ End(s, v)
  BY <1>1, <1>2, RemoveFacts
<1>4. /\ Settles(s) /\ Running(s) /\ UNCHANGED <<health, builder, overlap>>
      /\ ~overlap => owed' = {} /\ \A h \in signed' : tab.guards[txs[h].for] # None
  BY ReceiptSettles
<1>5. ASSUME ~overlap, NEW h \in signed'
      PROVE  v.guards[txs[h].for] # None
  <2>1. h \in signed /\ h # flows[s].hash
    BY ForgetSettles
  <2>2. /\ flows[s].hash \in signed /\ txs[flows[s].hash].for = flows[s].attempt
        /\ txs[h].for \in Attempts /\ tab.guards[txs[h].for] # None
    BY <1>5, <2>1 DEF FlowInv, SoloInv, Guarded
  <2>3. txs[h].for # flows[s].attempt
    BY <1>5, <2>1, <2>2 DEF FlowInv, SoloInv, Guarded
  <2> QED
    BY <1>3, <2>2, <2>3
<1> QED
  BY <1>3, <1>4, <1>5, EndMove DEF Quiet

LEMMA PaymentReceiptStep ==
  ASSUME FlowInv, NEW s \in Slots, PaymentReceipt(s)
  PROVE  FlowInv'
<1>1. /\ flows[s].pc = "wait" /\ flows[s].op \notin CrossChain
      /\ Forget(s, flows[s].hash) /\ SameWorld /\ UNCHANGED overlap
  BY DEF PaymentReceipt
<1>2. PICK u \in Tab : /\ u = ResolvePendingTx(tab, health) /\ u.guards = tab.guards
                       /\ u.op = tab.op /\ u.cctp = tab.cctp
  BY <1>1, AloneFacts, ResolveFacts
<1>3. /\ Settles(s) /\ Running(s) /\ UNCHANGED <<health, builder, overlap>>
      /\ ~overlap => owed' = {} /\ \A h \in signed' : u.guards[txs[h].for] # None
  BY <1>1, <1>2, ReceiptSettles
<1>4. flows[s].op = "x402" => flows[s].step = None /\ None # "approve"
  BY <1>1, AloneFacts, FlowAssumption DEF Shape, Steps
<1>5. CASE flows[s].step = "approve" /\ AskPayment(s, u)
  BY <1>1, <1>2, <1>3, <1>4, <1>5, AskPaymentMove
<1>6. CASE flows[s].op = "x402" /\ End(s, RemoveGuard(u, health, flows[s].attempt))
  BY <1>1, <1>2, <1>6, SettledStep
<1>7. CASE flows[s].step = "pay" /\ flows[s].op \in Repeating /\ NextItem(s, u)
  BY <1>1, <1>2, <1>7, NextItemStep
<1>8. CASE End(s, u)
  BY <1>2, <1>3, <1>8, EndMove DEF Quiet
<1> QED
  BY <1>2, <1>5, <1>6, <1>7, <1>8 DEF PaymentReceipt

-----------------------------------------------------------------------------
(* The stages of a cross-chain operation.                                  *)
LEMMA KeptStep ==
  ASSUME FlowInv, NEW s \in Slots, flows[s].pc = "wait", Kept(s), SameWorld, UNCHANGED overlap
  PROVE  FlowInv'
<1>1. UNCHANGED <<health, builder, overlap>> /\ UNCHANGED <<txs, owed, signed, shown>>
  BY DEF Kept, SameWorld
<1>2. Settles(s)
  BY <1>1, NothingSettles
<1> QED
  BY <1>1, <1>2, AloneFacts, EndMove DEF Quiet, Kept

LEMMA ClosedStep ==
  ASSUME FlowInv, NEW s \in Slots, flows[s].pc = "wait", SameWorld, UNCHANGED overlap,
         flows[s].op \in CrossChain, Forget(s, flows[s].hash),
         End(s, ClearCctpOperation(ResolvePendingTx(tab, health), health)),
         \A h \in Hashes : ~Outstanding(h)
  PROVE  FlowInv'
<1>1. PICK u \in Tab : /\ u.guards = tab.guards /\ End(s, ClearCctpOperation(u, health))
  BY AloneFacts, ResolveFacts
<1>2. PICK v \in Tab : v.guards = tab.guards /\ End(s, v)
  BY <1>1, ClearFacts
<1>3. /\ Settles(s) /\ Running(s) /\ UNCHANGED <<health, builder, overlap>>
      /\ ~overlap => owed' = {} /\ \A h \in signed' : v.guards[txs[h].for] # None
  BY <1>2, ReceiptSettles
<1> QED
  BY <1>2, <1>3, EndMove DEF Quiet

LEMMA CrossChainReceiptStep ==
  ASSUME FlowInv, NEW s \in Slots, CrossChainReceipt(s)
  PROVE  FlowInv'
<1> DEFINE receipt == txs[flows[s].hash].status
<1>1. /\ flows[s].pc = "wait" /\ flows[s].op \in CrossChain /\ SameWorld /\ UNCHANGED overlap
      /\ Running(s) /\ tab \in Tab /\ Shape(flows[s])
  BY AloneFacts DEF CrossChainReceipt
<1>2. \/ StageFails(s, receipt) \/ ApprovalReceipt(s, receipt)
      \/ BurnReceipt(s, receipt) \/ MintReceipt(s, receipt)
  BY DEF CrossChainReceipt
<1> HIDE DEF receipt
<1>3. \A h \in Hashes : Outstanding(h) => Carries(flows[s], h) /\ txs[h].status # "reverted"
  BY <1>1 DEF FlowInv, BurnInv, OperationOpen, Outstanding
<1>4. CASE Kept(s)
  BY <1>1, <1>4, KeptStep
<1>5. CASE /\ receipt = "reverted" /\ flows[s].step \in {"approve", "burn"}
           /\ End(s, ClearCctpOperation(ResolvePendingTx(tab, health), health))
           /\ Forget(s, flows[s].hash)
  <2>1. \A h \in Hashes : ~Outstanding(h)
    BY <1>3, <1>5 DEF Carries, HoldsBurn, receipt
  <2> QED
    BY <1>1, <1>5, <2>1, ClosedStep
<1>6. CASE StageFails(s, receipt)
  BY <1>4, <1>5, <1>6 DEF StageFails, ProvenFailure
<1>7. CASE /\ flows[s].step = "mint" /\ receipt = "confirmed"
           /\ End(s, ClearCctpOperation(ResolvePendingTx(tab, health), health))
           /\ Forget(s, flows[s].hash)
  <2>1. \A h \in Hashes : ~Outstanding(h)
    BY <1>1, <1>3, <1>7 DEF Carries, HoldsBurn, receipt
  <2> QED
    BY <1>1, <1>7, <2>1, ClosedStep
<1>8. CASE MintReceipt(s, receipt)
  BY <1>4, <1>7, <1>8 DEF MintReceipt
<1>9. ASSUME Forget(s, flows[s].hash)
      PROVE  /\ Settles(s) /\ UNCHANGED <<health, builder, overlap>>
             /\ ~overlap => owed' = {} /\ \A h \in signed' : tab.guards[txs[h].for] # None
  BY <1>1, <1>9, ReceiptSettles
<1>10. CASE ApprovalReceipt(s, receipt)
  <2>1. CASE Kept(s)
    BY <1>4, <2>1
  <2>2. CASE /\ Forget(s, flows[s].hash) /\ health = "ok"
             /\ AskCrossChain(s, "burn-pending", "burn",
                  UpdateCctpOperation(ResolvePendingTx(tab, health), "approval-confirmed"))
    <3>1. PICK v \in Tab : /\ v.guards = tab.guards /\ v.pending = None /\ v.op = tab.op
                           /\ AskCrossChain(s, "burn-pending", "burn",
                                            UpdateCctpOperation(v, "approval-confirmed"))
      BY <1>1, <2>2, ResolveFacts
    <3>2. "approval-confirmed" \in Stages /\ "burn-pending" \in Stages
      BY DEF Stages
    <3>3. PICK u \in Tab : /\ u.guards = tab.guards /\ u.pending = None /\ u.op = tab.op
                           /\ u.cctp # None /\ AskCrossChain(s, "burn-pending", "burn", u)
      BY <3>1, <3>2, OperationFacts
    <3>4. \A h \in Hashes : ~Outstanding(h)
      BY <1>1, <1>10, NoneOutstanding DEF ApprovalReceipt
    <3> QED
      BY <1>1, <1>9, <2>2, <3>2, <3>3, <3>4, CrossAskMove
  <2> QED
    BY <1>10, <2>1, <2>2 DEF ApprovalReceipt, CanUpdateCctp
<1>11. CASE BurnReceipt(s, receipt)
  <2>1. CASE Kept(s)
    BY <1>4, <2>1
  <2>2. CASE /\ Forget(s, flows[s].hash) /\ health = "ok" /\ flows[s].step = "burn"
             /\ Goto(s, [flows[s] EXCEPT !.pc = "attest"],
                     UpdateCctpOperation(ResolvePendingTx(tab, health), "burn-confirmed"))
    <3>1. PICK f : f = [flows[s] EXCEPT !.pc = "attest"]
      OBVIOUS
    <3>2. flows[s] \in Flow /\ "attest" \in Pcs
      BY DEF FlowInv, BurnInv, Types, Pcs
    <3>3. /\ f \in Flow /\ f.pc = "attest" /\ f.op = flows[s].op /\ f.step = "burn"
          /\ f.mounted = flows[s].mounted /\ f.hash = flows[s].hash /\ f.sent = flows[s].sent
      BY <2>2, <3>1, <3>2 DEF Flow
    <3>4. Goto(s, f, UpdateCctpOperation(ResolvePendingTx(tab, health), "burn-confirmed"))
      BY <2>2, <3>1
    <3> HIDE <3>1
    <3>5. PICK v \in Tab : /\ v.guards = tab.guards /\ v.pending = None /\ v.op = tab.op
                           /\ Goto(s, f, UpdateCctpOperation(v, "burn-confirmed"))
      BY <1>1, <2>2, <3>4, ResolveFacts
    <3>6. PICK u \in Tab : /\ u.guards = tab.guards /\ u.pending = None /\ u.op = tab.op
                           /\ u.cctp # None /\ Goto(s, f, u)
      <4>1. "burn-confirmed" \in Stages
        BY DEF Stages
      <4> QED
        BY <3>5, <4>1, OperationFacts
    <3>7. Shape(f)
      BY <1>1, <2>2, <3>3, FlowAssumption, CrossChainOps DEF Shape
    <3>8. Alters(s, f, u)
      BY <1>1, <1>9, <2>2, <3>3, <3>6, <3>7, CrossChainOps DEF Alters
    <3>9. HoldsBurn(f) /\ HoldsBurn(flows[s])
      BY <1>1, <2>2, <3>3 DEF HoldsBurn
    <3>10. \A h \in Hashes : Outstanding(h) => f.hash = h
      BY <1>1, <1>3, <2>2, <3>3 DEF Carries
    <3> QED
      BY <1>1, <1>9, <2>2, <3>3, <3>6, <3>8, <3>9, <3>10, GoMove
  <2> QED
    BY <1>11, <2>1, <2>2 DEF BurnReceipt, CanUpdateCctp
<1> QED
  BY <1>2, <1>6, <1>8, <1>10, <1>11

-----------------------------------------------------------------------------
(* The wallet sends what it was asked for, whether the handler learns the  *)
(* hash and waits, or stops.                                               *)
LEMMA SendMove ==
  ASSUME FlowInv, NEW s \in Slots, flows[s].pc \in {"ask", "orphan"}, FreeHashes # {},
         Send(NewHash, flows[s].step, flows[s].hash, "inflight"),
         NEW f, NEW t, Alters(s, f, t), t.cctp = tab.cctp, t.guards = tab.guards,
         f.op = None \/ /\ f.pc = "wait" /\ f.hash = NewHash /\ f.step = flows[s].step
                        /\ f.mounted = flows[s].mounted /\ t.op = tab.op /\ Running(s),
         signed' = signed,
         owed' = owed \/ (owed' = owed \cup {NewHash} /\ Running(s)),
         shown' \in Hashes \cup {None}, ~builder => shown' = None, ~overlap => Marked',
         Running(s) \/ (tab.op = t.op /\ tab.pending = t.pending)
  PROVE  FlowInv'
<1>1. Types /\ HandlersSound /\ OperationOpen /\ BurnOnce /\ SoloInv
  BY DEF FlowInv, BurnInv
<1>2. NewHash \in Hashes /\ Free(NewHash)
  BY NewHashIsFree
<1>3. /\ flows[s].step \in Steps /\ Shape(flows[s])
      /\ flows[s].hash \in Attempts \cup Hashes \cup {None}
  BY <1>1 DEF Types, Flow, HandlersSound, Shape
<1>4. flows[s].step = "mint" =>
        /\ flows[s].hash # None /\ HoldsBurn(flows[s]) /\ txs[flows[s].hash].step = "burn"
  BY <1>1, <1>3 DEF Shape, HoldsBurn, HandlersSound
<1> DEFINE n == NewHash
<1>5. /\ TxsKept(s)
      /\ \A h \in Hashes \ {n} : txs'[h] = txs[h]
      /\ txs'[n] = [step |-> flows[s].step, status |-> "inflight", for |-> flows[s].hash]
      /\ \A h \in Hashes : Outstanding(h)' => Outstanding(h) \/ (h = n /\ flows[s].step = "burn")
  BY <1>1, <1>3, <1>4, SendTxs
<1>6. n \in Hashes /\ Free(n) /\ (f.op = None \/ f.hash = n) /\ (owed' = owed \/ owed' = owed \cup {n})
  BY <1>2
<1> HIDE DEF n
<1>7. Types'
  BY <1>1, <1>5, <1>6, MoveTypes DEF Types
<1>8. f.op = None => f.pc = "idle" /\ f = Idle
  BY DEF Alters, Shape
<1>9. HandlersSound'
  <2>1. HoldsBurn(f) => txs'[f.hash].step = "burn"
    BY <1>5, <1>6, <1>8, IdleFacts DEF HoldsBurn
  <2> QED
    BY <1>1, <1>5, <2>1, SoundMove
<1>10. OperationOpen' /\ BurnOnce'
  <2>1. CASE flows[s].op \notin CrossChain
    <3>1. flows[s].step # "burn"
      BY <1>3, <2>1 DEF Shape
    <3>2. NoNewBurn
      BY <1>5, <3>1 DEF NoNewBurn
    <3> QED
      BY <1>1, <1>5, <2>1, <3>2, PlainMove
  <2>2. CASE flows[s].op \in CrossChain
    <3>1. tab.cctp # None
      BY <1>1, <2>2 DEF OperationOpen
    <3>2. flows[s].step # "mint" => \A h \in Hashes : ~Outstanding(h)
      BY <2>2, NoneOutstanding
    <3>3. BurnOnce'
      BY <1>1, <1>5, <3>2 DEF BurnOnce
    <3>4. ASSUME NEW h \in Hashes, Outstanding(h)', f.op # None
          PROVE  Carries(f, h)'
      <4>1. CASE flows[s].step = "burn"
        BY <1>5, <3>2, <3>4, <4>1, <1>6 DEF Carries, HoldsBurn
      <4>2. CASE flows[s].step = "mint"
        <5>1. Carries(flows[s], h) /\ flows[s].pc # "wait"
          BY <1>1, <1>5, <2>2, <3>4, <4>2 DEF OperationOpen
        <5>2. flows[s].hash = h
          BY <5>1 DEF Carries
        <5> QED
          BY <1>5, <1>6, <3>4, <4>2, <5>2 DEF Carries
      <4> QED
        BY <1>5, <3>2, <3>4, <4>1, <4>2
    <3> QED
      BY <1>1, <2>2, <3>1, <3>3, <3>4, CrossMove
  <2> QED
    BY <2>1, <2>2
<1>11. SoloInv'
  <2>1. \A h \in signed : h \in Hashes /\ txs'[h] = txs[h]
    BY <1>1, <1>5, <1>6 DEF Free, Types
  <2>2. ~overlap =>
          /\ \A h \in signed' : txs'[h].for \in Attempts /\ t.guards[txs'[h].for] # None
          /\ \A g, h \in signed' : txs'[g].for = txs'[h].for => g = h
    BY <1>1, <2>1 DEF SoloInv, Guarded
  <2>3. f.op # "x402" /\ (f.op # None => f.pc = "wait")
    BY <1>3, <1>8, IdleFacts, FlowAssumption DEF Alters, Shape, AllOps, Builder
  <2>4. ~overlap /\ f.pc = "wait" => owed' \subseteq {f.hash}
    <3>1. ~overlap /\ Running(s) => owed = {}
      BY <1>1 DEF SoloInv, Alone, Running
    <3> QED
      BY <1>6, <1>8, <3>1
  <2>5. f.pc \in {"idle", "wait"}
    BY <1>8
  <2> QED
    BY <1>1, <2>1, <2>2, <2>3, <2>4, <2>5, SoloMove
<1> QED
  BY <1>7, <1>9, <1>10, <1>11 DEF FlowInv, BurnInv

LEMMA StopAlters ==
  ASSUME FlowInv, NEW s \in Slots, NEW t \in Tab, flows[s].op # None, Goto(s, Idle, t),
         UNCHANGED <<health, builder, overlap>>
  PROVE  Alters(s, Idle, t)
<1>1. Idle.hash = None
  BY DEF Idle
<1> QED
  BY <1>1, IdleFacts DEF Alters

LEMMA WalletSendsStep ==
  ASSUME FlowInv, NEW s \in Slots, WalletSends(s)
  PROVE  FlowInv'
<1>1. /\ flows[s].pc = "ask" /\ FreeHashes # {}
      /\ Send(NewHash, flows[s].step, flows[s].hash, "inflight")
      /\ Told(s, NewHash) /\ UNCHANGED <<health, builder, overlap>> /\ signed' = signed
  BY DEF WalletSends, SameWorld
<1>2. /\ Running(s) /\ tab \in Tab /\ Shape(flows[s])
      /\ ~overlap => owed = {} /\ tab.pending = None
  BY <1>1, AloneFacts
<1>3. NewHash \in Hashes /\ Free(NewHash) /\ None \notin Hashes
  BY <1>1, NewHashIsFree, GateAssumption
<1>4. PICK n \in Hashes : n = NewHash
  BY <1>3
<1>5. PICK u \in Tab : /\ u = RecordSubmittedTx(tab, health, n)
                       /\ u.cctp = tab.cctp /\ u.guards = tab.guards /\ u.op = tab.op
                       /\ u.pending \in {tab.pending, n} /\ u.hash = n
  BY <1>2, RecordFacts
<1>6. /\ owed' = owed \cup {n}
      /\ shown' = IF flows[s].op \in Builder /\ flows[s].mounted THEN n ELSE shown
      /\ \/ End(s, u)
         \/ Goto(s, [flows[s] EXCEPT !.pc = "wait", !.hash = n, !.sent = TRUE], u)
  BY <1>1, <1>4, <1>5 DEF Told
<1>7. /\ shown' \in Hashes \cup {None}
      /\ ~overlap => shown' \in {n, None}
    <2>1. ~overlap /\ builder => flows[s].op \in Builder /\ flows[s].mounted
      BY <1>2 DEF FlowInv, SoloInv, Alone
    <2>2. shown \in Hashes \cup {None} /\ (~builder => shown = None) /\ builder \in BOOLEAN
      BY DEF FlowInv, BurnInv, Types
    <2> QED
      BY <1>6, <2>1, <2>2
<1>8. ~builder => shown' = None
  BY <1>6 DEF FlowInv, BurnInv, HandlersSound, Types
<1>9. CASE End(s, u)
  <2>1. PICK t \in Tab : /\ Goto(s, Idle, t) /\ t.cctp = u.cctp /\ t.guards = u.guards
                         /\ t.hash = u.hash /\ t.pending = u.pending
    BY <1>9, EndFacts DEF End
  <2>2. Alters(s, Idle, t)
    BY <1>1, <1>2, <2>1, StopAlters DEF Shape
  <2>3. ~overlap => Marked'
    <3>1. tab' = t
      BY <2>1 DEF Goto
    <3> QED
      BY <1>2, <1>3, <1>5, <1>6, <1>7, <2>1, <3>1 DEF Marked
  <2>4. Idle.op = None
    BY IdleFacts
  <2> QED
    BY <1>1, <1>2, <1>4, <1>5, <1>6, <1>7, <1>8, <2>1, <2>2, <2>3, <2>4, SendMove
<1>10. CASE Goto(s, [flows[s] EXCEPT !.pc = "wait", !.hash = n, !.sent = TRUE], u)
  <2>1. PICK f : f = [flows[s] EXCEPT !.pc = "wait", !.hash = n, !.sent = TRUE]
    OBVIOUS
  <2>2. flows[s] \in Flow /\ "wait" \in Pcs
    BY DEF FlowInv, BurnInv, Types, Pcs
  <2>3. /\ f \in Flow /\ f.pc = "wait" /\ f.hash = n /\ f.sent /\ f.step = flows[s].step
        /\ f.op = flows[s].op /\ f.mounted = flows[s].mounted /\ f.attempt = flows[s].attempt
    BY <2>1, <2>2 DEF Flow
  <2>4. Goto(s, f, u)
    BY <1>10, <2>1
  <2> HIDE <2>1
  <2>5. Shape(f)
    BY <1>1, <1>2, <1>3, <2>3 DEF Shape
  <2>6. Alters(s, f, u)
    BY <1>1, <1>2, <1>3, <1>4, <2>3, <2>4, <2>5 DEF Alters, Shape
  <2>7. ~overlap => Marked'
    <3>1. tab' = u
      BY <2>4 DEF Goto
    <3> QED
      BY <1>2, <1>3, <1>5, <1>6, <1>7, <3>1 DEF Marked
  <2> QED
    BY <1>1, <1>2, <1>4, <1>5, <1>6, <1>7, <1>8, <2>3, <2>6, <2>7, SendMove
<1> QED
  BY <1>6, <1>9, <1>10

(* Only an operation with no burn in flight is closed without a receipt.   *)
LEMMA NothingSentIsNone ==
  ASSUME FlowInv, NEW s \in Slots, flows[s].pc = "ask", NEW error, NothingSent(s, error)
  PROVE  flows[s].op \in CrossChain /\ \A h \in Hashes : ~Outstanding(h)
<1>1. /\ flows[s].op \in CrossChain
      /\ flows[s].step = "approve" \/ ~flows[s].sent
  BY DEF NothingSent, CrossChain
<1>2. flows[s].step # "mint"
  BY <1>1, AloneFacts DEF Shape
<1> QED
  BY <1>1, <1>2, NoneOutstanding

LEMMA RefusesStep ==
  ASSUME FlowInv, NEW s \in Slots, flows[s].pc = "ask", NEW error, NotTold(s, error),
         UNCHANGED <<txs, signed, health, builder, overlap>>
  PROVE  FlowInv'
<1>1. Running(s) /\ tab \in Tab /\ (~overlap => \A h \in signed : tab.guards[txs[h].for] # None)
  BY AloneFacts
<1>2. PICK u \in Tab : /\ End(s, u) /\ u.guards = tab.guards
                       /\ u.hash = tab.hash /\ u.pending = tab.pending
                       /\ u.cctp = tab.cctp \/ NothingSent(s, error)
  BY <1>1, ClearFacts DEF NotTold
<1>3. /\ UNCHANGED <<txs, owed, signed, shown>> /\ Settles(s)
  BY NothingSettles DEF NotTold
<1> QED
  BY <1>1, <1>2, <1>3, NothingSentIsNone, EndMove DEF Quiet

LEMMA WalletRefusesStep ==
  ASSUME FlowInv, NEW s \in Slots, WalletRefuses(s)
  PROVE  FlowInv'
<1>1. PICK error \in {"rejected", "error"} : NotTold(s, error)
  BY DEF WalletRefuses
<1> QED
  BY <1>1, RefusesStep DEF WalletRefuses, SameWorld

LEMMA WalletLosesHashStep ==
  ASSUME FlowInv, NEW s \in Slots, WalletLosesHash(s)
  PROVE  FlowInv'
<1>1. /\ flows[s].pc = "ask" /\ NotTold(s, "error") /\ SentUntold(s)
      /\ UNCHANGED <<signed, health, builder, overlap>>
  BY DEF WalletLosesHash, SameWorld
<1>2. CASE UNCHANGED txs
  BY <1>1, <1>2, RefusesStep
<1>3. CASE /\ flows[s].step \in {"burn", "mint"} /\ FreeHashes # {}
           /\ Send(NewHash, flows[s].step, flows[s].hash, "inflight")
  <2>1. /\ Running(s) /\ tab \in Tab /\ flows[s].op # None
    BY <1>1, AloneFacts DEF Shape
  <2>2. ~NothingSent(s, "error")
    BY <1>3 DEF NothingSent
  <2>3. End(s, tab) /\ UNCHANGED <<owed, shown>>
    BY <1>1, <2>2 DEF NotTold
  <2>4. PICK t \in Tab : /\ Goto(s, Idle, t) /\ t.cctp = tab.cctp /\ t.guards = tab.guards
                         /\ t.hash = tab.hash /\ t.pending = tab.pending
    BY <2>1, <2>3, EndFacts DEF End
  <2>5. Alters(s, Idle, t)
    BY <1>1, <2>1, <2>4, StopAlters
  <2>6. ~overlap => Marked'
    <3>1. tab' = t
      BY <2>4 DEF Goto
    <3> QED
      BY <2>3, <2>4, <3>1 DEF FlowInv, SoloInv, Marked
  <2>7. Idle.op = None
    BY IdleFacts
  <2>8. shown' \in Hashes \cup {None} /\ (~builder => shown' = None)
    BY <2>3 DEF FlowInv, BurnInv, Types
  <2> QED
    BY <1>1, <1>3, <2>1, <2>3, <2>4, <2>5, <2>6, <2>7, <2>8, SendMove
<1> QED
  BY <1>1, <1>2, <1>3 DEF SentUntold

LEMMA OrphanStep ==
  ASSUME FlowInv, NEW s \in Slots, OrphanAnswered(s)
  PROVE  FlowInv'
<1>1. /\ flows[s].pc = "orphan" /\ Goto(s, Idle, tab)
      /\ UNCHANGED <<health, builder, overlap>> /\ UNCHANGED <<shown, owed, signed>>
      /\ UNCHANGED txs \/ SentUntold(s)
  BY DEF OrphanAnswered, SameWorld, Vanish
<1>2. /\ tab \in Tab /\ flows[s].op # None /\ tab' = tab
      /\ shown' \in Hashes \cup {None} /\ (~builder => shown' = None)
  BY <1>1 DEF FlowInv, BurnInv, Types, HandlersSound, Shape, Goto
<1>3. ~overlap => Marked'
  BY <1>1, <1>2 DEF FlowInv, SoloInv, Marked
<1>4. CASE UNCHANGED txs
  <2>1. Settles(s)
    BY <1>1, <1>4, NothingSettles
  <2>2. ~overlap => \A h \in signed' : tab.guards[txs[h].for] # None
    BY <1>1 DEF FlowInv, SoloInv, Guarded
  <2> QED
    BY <1>1, <1>2, <1>3, <2>1, <2>2, StopMove
<1>5. CASE /\ FreeHashes # {} /\ Send(NewHash, flows[s].step, flows[s].hash, "inflight")
  <2>1. Alters(s, Idle, tab)
    BY <1>1, <1>2, StopAlters
  <2>2. Idle.op = None
    BY IdleFacts
  <2> QED
    BY <1>1, <1>2, <1>3, <1>5, <2>1, <2>2, SendMove
<1> QED
  BY <1>1, <1>4, <1>5 DEF SentUntold

-----------------------------------------------------------------------------
(* x402.                                                                   *)
LEMMA UncertainStep ==
  ASSUME FlowInv, NEW s \in Slots, AnswerUncertain(s)
  PROVE  FlowInv'
<1>1. /\ flows[s].pc = "request" /\ UNCHANGED <<health, builder, overlap>>
      /\ UNCHANGED <<shown, txs, owed, signed>>
      /\ End(s, UpsertGuard(tab, health, flows[s].attempt, "uncertain"))
  BY DEF AnswerUncertain, SameWorld, Answers
<1>2. Running(s) /\ tab \in Tab /\ flows[s].attempt \in Attempts /\ "uncertain" \in GuardStages
  BY <1>1, AloneFacts DEF Shape, GuardStages
<1>3. PICK u \in Tab : /\ End(s, u) /\ u.cctp = tab.cctp
                       /\ u.hash = tab.hash /\ u.pending = tab.pending
                       /\ \A a \in Attempts : tab.guards[a] # None => u.guards[a] # None
  BY <1>1, <1>2, UpsertFacts
<1>4. Settles(s) /\ (~overlap => \A h \in signed' : u.guards[txs[h].for] # None)
  BY <1>1, <1>3, NothingSettles, GuardsStay
<1> QED
  BY <1>1, <1>2, <1>3, <1>4, EndMove DEF Quiet

(* A reported revert: whether or not it is true, the authorization is no   *)
(* longer counted, and its guard is the only one that goes.                *)
LEMMA RevertedStep ==
  ASSUME FlowInv, NEW s \in Slots, AnswerReverted(s)
  PROVE  FlowInv'
<1>1. /\ flows[s].pc = "request" /\ UNCHANGED <<health, builder, overlap>> /\ UNCHANGED <<txs, owed>>
      /\ End(s, RemoveGuard(ResolvePendingTx(tab, health), health, flows[s].attempt))
      /\ shown' \in {None, shown}
  BY DEF AnswerReverted, SameWorld, Answers
<1>2. signed' = signed \ {flows[s].hash}
  <2>1. PICK r \in Answers(s, "reverted") :
          signed' = IF ReportsRevert(r) THEN signed \ {flows[s].hash} ELSE signed
    BY DEF AnswerReverted
  <2>2. Classify(r) = "reverted"
    BY <2>1 DEF Answers
  <2>3. ReportsRevert(r)
    BY <2>2 DEF Classify
  <2> QED
    BY <2>1, <2>3
<1>3. /\ Running(s) /\ tab \in Tab /\ flows[s].attempt \in Attempts /\ flows[s].op = "x402"
      /\ ~overlap => owed = {}
  BY <1>1, AloneFacts DEF Shape
<1>4. PICK v \in Tab : /\ v.guards = tab.guards /\ v.cctp = tab.cctp
                       /\ End(s, RemoveGuard(v, health, flows[s].attempt))
  BY <1>1, <1>3, ResolveFacts
<1>5. PICK u \in Tab : /\ \A b \in Attempts \ {flows[s].attempt} : u.guards[b] = tab.guards[b]
                       /\ u.cctp = tab.cctp /\ End(s, u)
  BY <1>3, <1>4, RemoveFacts
<1>6. Settles(s)
  <2>1. TxsKept(s) /\ NoNewBurn
    BY <1>1, SameTxs DEF FlowInv, BurnInv
  <2> QED
    BY <1>1, <1>2, <2>1 DEF Settles, FlowInv, BurnInv, Types
<1>7. ASSUME ~overlap, NEW h \in signed'
      PROVE  u.guards[txs[h].for] # None
  <2>1. h \in signed /\ h # flows[s].hash
    BY <1>1, <1>2
  <2>2. /\ flows[s].hash \in signed /\ txs[flows[s].hash].for = flows[s].attempt
        /\ txs[h].for \in Attempts /\ tab.guards[txs[h].for] # None
    BY <1>1, <1>3, <1>7, <2>1 DEF FlowInv, SoloInv, Guarded
  <2>3. txs[h].for # flows[s].attempt
    BY <1>7, <2>1, <2>2 DEF FlowInv, SoloInv, Guarded
  <2> QED
    BY <1>5, <2>2, <2>3
<1> QED
  BY <1>1, <1>3, <1>5, <1>6, <1>7, EndMove DEF Quiet

LEMMA SettledAnswerStep ==
  ASSUME FlowInv, NEW s \in Slots, AnswerSettled(s)
  PROVE  FlowInv'
<1>1. /\ flows[s].pc = "request" /\ UNCHANGED <<health, builder, overlap>> /\ UNCHANGED <<txs, signed>>
      /\ owed' = owed \cup {flows[s].hash}
      /\ shown' = IF flows[s].mounted THEN flows[s].hash ELSE shown
      /\ Goto(s, [flows[s] EXCEPT !.pc = "wait"],
              RecordSubmittedTx(UpsertGuard(tab, health, flows[s].attempt, "submitted"), health,
                                flows[s].hash))
  BY DEF AnswerSettled, SameWorld, Answers
<1>2. Types /\ HandlersSound /\ OperationOpen /\ BurnOnce /\ SoloInv
  BY DEF FlowInv, BurnInv
<1>3. /\ Running(s) /\ tab \in Tab /\ flows[s].attempt \in Attempts /\ flows[s].op = "x402"
      /\ Shape(flows[s]) /\ flows[s].hash # None /\ flows[s].step = None
      /\ ~overlap => owed = {} /\ tab.pending = None
  BY <1>1, AloneFacts DEF Shape
<1>4. PICK n \in Hashes : n = flows[s].hash
  BY <1>2, <1>3 DEF Types, Flow
<1>5. n # None /\ "submitted" \in GuardStages
  BY GateAssumption DEF GuardStages
<1>6. PICK f : f = [flows[s] EXCEPT !.pc = "wait"]
  OBVIOUS
<1>7. flows[s] \in Flow /\ "wait" \in Pcs
  BY <1>2 DEF Types, Pcs
<1>8. /\ f \in Flow /\ f.pc = "wait" /\ f.hash = n /\ f.step = None /\ f.op = "x402"
      /\ f.mounted = flows[s].mounted /\ f.attempt = flows[s].attempt
  BY <1>3, <1>4, <1>6, <1>7 DEF Flow
<1>9. Goto(s, f, RecordSubmittedTx(UpsertGuard(tab, health, flows[s].attempt, "submitted"),
                                   health, n))
  BY <1>1, <1>4, <1>6
<1> HIDE <1>6
<1>10. PICK v \in Tab : /\ v.cctp = tab.cctp /\ v.op = tab.op /\ v.pending = tab.pending
                        /\ \A a \in Attempts : tab.guards[a] # None => v.guards[a] # None
                        /\ Goto(s, f, RecordSubmittedTx(v, health, n))
  BY <1>3, <1>5, <1>9, UpsertFacts
<1>11. PICK t \in Tab : /\ t.cctp = tab.cctp /\ t.op = tab.op /\ t.pending \in {tab.pending, n}
                        /\ t.hash = n /\ Goto(s, f, t)
                        /\ \A a \in Attempts : tab.guards[a] # None => t.guards[a] # None
  BY <1>10, RecordFacts
<1>12. Shape(f)
  BY <1>3, <1>5, <1>8, CrossChainOps, FlowAssumption DEF Shape, Steps
<1>13. Alters(s, f, t)
  BY <1>1, <1>3, <1>4, <1>8, <1>11, <1>12 DEF Alters, Shape
<1>14. TxsKept(s) /\ NoNewBurn
  BY <1>1, <1>2, SameTxs
<1>15. shown' \in Hashes \cup {None} /\ (~builder => shown' = None)
  <2>1. flows[s].mounted => builder
    BY <1>2, <1>3 DEF HandlersSound, Builder
  <2> QED
    BY <1>1, <1>2, <1>4, <2>1 DEF Types
<1>16. Types'
  BY <1>1, <1>2, <1>4, <1>13, <1>14, <1>15, MoveTypes DEF Types
<1>17. HandlersSound'
  <2>1. ~HoldsBurn(f)
    BY <1>8, FlowAssumption DEF HoldsBurn, Steps
  <2> QED
    BY <1>2, <1>13, <1>14, <2>1, SoundMove
<1>18. OperationOpen' /\ BurnOnce'
  BY <1>2, <1>3, <1>11, <1>13, <1>14, CrossChainOps, PlainMove
<1>19. SoloInv'
  <2>1. ~overlap => Marked'
    <3>1. tab' = t
      BY <1>11 DEF Goto
    <3>2. ~overlap => shown' \in {n, None}
      <4>1. ~overlap /\ builder => flows[s].mounted
        BY <1>2, <1>3 DEF SoloInv, Alone
      <4> QED
        BY <1>1, <1>2, <1>4, <4>1 DEF Types
    <3> QED
      BY <1>1, <1>3, <1>4, <1>5, <1>11, <3>1, <3>2 DEF Marked
  <2>2. ~overlap =>
          /\ \A h \in signed' : txs'[h].for \in Attempts /\ t.guards[txs'[h].for] # None
          /\ \A g, h \in signed' : txs'[g].for = txs'[h].for => g = h
          /\ f.hash \in signed' /\ txs'[f.hash].for = f.attempt
    BY <1>1, <1>2, <1>3, <1>4, <1>8, <1>11 DEF SoloInv, Guarded
  <2>3. ~overlap => owed' \subseteq {f.hash}
    BY <1>1, <1>3, <1>4, <1>8
  <2> QED
    BY <1>2, <1>3, <1>8, <1>11, <1>13, <2>1, <2>2, <2>3, SoloMove
<1> QED
  BY <1>16, <1>17, <1>18, <1>19 DEF FlowInv, BurnInv

(* The authorization is offered under a hash of its own, to an attempt     *)
(* that the gate found without a guard.                                    *)
LEMMA OfferStep ==
  ASSUME FlowInv, NEW s \in Slots, flows[s].pc = "sign",
         UNCHANGED <<health, builder, overlap>>, UNCHANGED <<shown, owed>>,
         CheckPaymentStart(tab, health, "x402", flows[s].attempt),
         CanUpsertGuard(tab, health, flows[s].attempt, "prepared"), FreeHashes # {},
         Goto(s, [flows[s] EXCEPT !.pc = "request", !.hash = NewHash],
              UpsertGuard(tab, health, flows[s].attempt, "prepared")),
         Send(NewHash, "pay", flows[s].attempt, "offered"), signed' = signed \cup {NewHash}
  PROVE  FlowInv'
<1>1. Types /\ HandlersSound /\ OperationOpen /\ BurnOnce /\ SoloInv
  BY DEF FlowInv, BurnInv
<1>2. /\ Running(s) /\ tab \in Tab /\ flows[s].attempt \in Attempts /\ flows[s].op = "x402"
      /\ Shape(flows[s]) /\ flows[s].step = None
      /\ ~overlap => owed = {} /\ tab.pending = None
  BY AloneFacts DEF Shape
<1>3. NewHash \in Hashes /\ Free(NewHash) /\ None \notin Hashes /\ None \notin Attempts
  BY NewHashIsFree, GateAssumption
<1> DEFINE n == NewHash
<1>4. /\ TxsKept(s)
      /\ \A h \in Hashes \ {n} : txs'[h] = txs[h]
      /\ txs'[n] = [step |-> "pay", status |-> "offered", for |-> flows[s].attempt]
      /\ \A h \in Hashes : Outstanding(h)' => Outstanding(h) \/ (h = n /\ "pay" = "burn")
  <2>1. "pay" \in Steps
    BY DEF Steps
  <2>2. flows[s].attempt \in Attempts \cup Hashes \cup {None}
    BY <1>2
  <2> QED
    BY <1>1, <2>1, <2>2, SendTxs
<1>5. NoNewBurn
  BY <1>4 DEF NoNewBurn
<1>6. "request" \in Pcs /\ "prepared" \in GuardStages /\ flows[s] \in Flow
  BY <1>1 DEF Pcs, GuardStages, Types
<1>7. PICK f : f = [flows[s] EXCEPT !.pc = "request", !.hash = n]
  OBVIOUS
<1>8. /\ f \in Flow /\ f.pc = "request" /\ f.hash = n /\ f.step = None /\ f.op = "x402"
      /\ f.mounted = flows[s].mounted /\ f.attempt = flows[s].attempt
  BY <1>2, <1>3, <1>6, <1>7 DEF Flow
<1>9. PICK t \in Tab : /\ t.cctp = tab.cctp /\ t.op = tab.op /\ t.pending = tab.pending
                       /\ t.hash = tab.hash
                       /\ t.guards[flows[s].attempt] # None /\ Goto(s, f, t)
                       /\ \A a \in Attempts : tab.guards[a] # None => t.guards[a] # None
  BY <1>2, <1>6, <1>7, UpsertFacts
<1> HIDE <1>7
<1>10. n \in Hashes /\ Free(n) /\ n # None /\ signed' = signed \cup {n}
  BY <1>3
<1> HIDE DEF n
<1>11. Shape(f)
  BY <1>2, <1>8, <1>10, CrossChainOps, FlowAssumption DEF Shape, Steps
<1>12. Alters(s, f, t)
  BY <1>2, <1>8, <1>9, <1>10, <1>11, FlowAssumption DEF Alters, AllOps, Builder
<1>13. Types'
  BY <1>1, <1>4, <1>10, <1>12, MoveTypes DEF Types
<1>14. HandlersSound'
  <2>1. ~HoldsBurn(f)
    BY <1>8 DEF HoldsBurn
  <2> QED
    BY <1>1, <1>4, <1>12, <2>1, SoundMove
<1>15. OperationOpen' /\ BurnOnce'
  BY <1>1, <1>2, <1>4, <1>5, <1>9, <1>12, CrossChainOps, PlainMove
<1>16. SoloInv'
  <2>1. ~overlap => Marked'
    BY <1>2 DEF Marked
  <2>2. n \notin signed /\ \A h \in signed : txs'[h] = txs[h]
    BY <1>1, <1>4, <1>10 DEF Free, Types
  <2>3. tab.guards[flows[s].attempt] = None
    BY <1>2, <1>3 DEF CheckPaymentStart
  <2>4. txs'[n].for = flows[s].attempt
    BY <1>4
  <2>5. ASSUME ~overlap
        PROVE  /\ \A h \in signed' : txs'[h].for \in Attempts /\ t.guards[txs'[h].for] # None
               /\ \A g, h \in signed' : txs'[g].for = txs'[h].for => g = h
               /\ f.hash \in signed' /\ txs'[f.hash].for = f.attempt
    <3>1. \A h \in signed : /\ txs[h].for \in Attempts /\ tab.guards[txs[h].for] # None
                            /\ txs[h].for # flows[s].attempt
      BY <1>1, <2>3, <2>5 DEF SoloInv, Guarded
    <3>2. \A g, h \in signed : txs[g].for = txs[h].for => g = h
      BY <1>1, <2>5 DEF SoloInv, Guarded
    <3>3. \A h \in signed' : h = n \/ (h \in signed /\ txs'[h].for = txs[h].for)
      BY <1>10, <2>2
    <3>4. \A h \in signed' : txs'[h].for \in Attempts /\ t.guards[txs'[h].for] # None
      BY <1>2, <1>9, <2>4, <3>1, <3>3
    <3>5. \A g, h \in signed' : txs'[g].for = txs'[h].for => g = h
      BY <2>4, <3>1, <3>2, <3>3
    <3> QED
      BY <1>8, <1>10, <2>4, <3>4, <3>5
  <2> QED
    BY <1>1, <1>2, <1>8, <1>9, <1>12, <2>1, <2>5, SoloMove
<1> QED
  BY <1>13, <1>14, <1>15, <1>16 DEF FlowInv, BurnInv

LEMMA SignStep ==
  ASSUME FlowInv, NEW s \in Slots, SignAuthorization(s)
  PROVE  FlowInv'
<1>1. flows[s].pc = "sign" /\ UNCHANGED <<health, builder, overlap>> /\ UNCHANGED <<shown, owed>>
  BY DEF SignAuthorization, SameWorld
<1>2. CASE End(s, tab) /\ UNCHANGED <<txs, signed>>
  BY <1>1, <1>2, NothingSettles, AloneFacts, EndMove DEF Quiet
<1> QED
  BY <1>1, <1>2, OfferStep DEF SignAuthorization

-----------------------------------------------------------------------------
(* Starts: the gate was open, so nothing is recorded and no operation is.  *)
LEMMA StartMove ==
  ASSUME FlowInv, NEW s \in Slots, NEW op, NEW a \in Attempts \cup {None}, NEW flow, NEW t \in Tab,
         Start(s, op, a, flow, t),
         t.pending = tab.pending, t.guards = tab.guards,
         op \in CrossChain => t.cctp # None, op \notin CrossChain => t.cctp = tab.cctp,
         \/ flow.pc = "prep" /\ flow.step = None /\ op # "x402"
         \/ flow.pc = "ask" /\ flow.step \in {"approve", "pay"} /\ op # "x402"
         \/ flow.pc = "sign" /\ flow.step = None /\ op = "x402" /\ a \in Attempts
  PROVE  FlowInv'
<1>1. Types /\ HandlersSound /\ OperationOpen /\ BurnOnce /\ SoloInv
  BY DEF FlowInv, BurnInv
<1>2. /\ op \in AllOps /\ op # None /\ flows[s].pc = "idle" /\ builder = (op \in Builder)
      /\ overlap' = (overlap \/ \E r \in Slots : Running(r))
      /\ UNCHANGED <<health, builder, shown, txs, owed, signed>>
  BY FlowAssumption DEF Start
<1>3. tab.hash = None /\ tab.pending = None /\ tab.cctp = None
  BY DEF Start, CheckPaymentStart
<1>4. \A h \in Hashes : ~Outstanding(h)
  BY <1>1, <1>3 DEF OperationOpen
<1>5. \A r \in Slots : flows[r].op \notin CrossChain
  BY <1>1, <1>3 DEF OperationOpen
<1>6. PICK f : f = [Idle EXCEPT !.op = op, !.attempt = a, !.mounted = TRUE,
                                !.pc = flow.pc, !.step = flow.step]
  OBVIOUS
<1>7. /\ f.op = op /\ f.attempt = a /\ f.mounted = TRUE /\ f.pc = flow.pc /\ f.step = flow.step
      /\ f.hash = None /\ f.sent = FALSE /\ f \in Flow
  BY <1>2, <1>6 DEF Idle, Flow, Pcs, Steps
<1>8. flows' = [flows EXCEPT ![s] = f]
  BY <1>6 DEF Start
<1> HIDE <1>6
<1>9. Shape(f)
  BY <1>2, <1>7, CrossChainOps, FlowAssumption DEF Shape, Steps
<1>10. /\ flows' \in [Slots -> Flow] /\ flows'[s] = f
       /\ \A r \in Slots \ {s} : flows'[r] = flows[r]
  BY <1>1, <1>7, <1>8 DEF Types
<1>11. /\ tab' \in Tab /\ tab'.op = op /\ tab'.pending = None /\ tab'.cctp = t.cctp
       /\ tab'.guards = tab.guards
  BY <1>2, <1>3 DEF Start, BeginOperation, Tab
<1>12. Types'
  <2>1. overlap' \in BOOLEAN
    BY <1>2
  <2> QED
    BY <1>1, <1>2, <1>10, <1>11, <2>1 DEF Types
<1>13. ~HoldsBurn(f)
  BY <1>7, FlowAssumption DEF HoldsBurn, Steps
<1>14. HandlersSound'
  <2>1. \A r \in Slots : Shape(flows'[r])
    BY <1>1, <1>9, <1>10 DEF HandlersSound
  <2>2. \A r \in Slots : Shape(flows[r])'
    BY <2>1 DEF Shape
  <2>3. \A r \in Slots : flows'[r].mounted /\ flows'[r].op \in Builder => builder'
    BY <1>1, <1>2, <1>7, <1>10 DEF HandlersSound
  <2>4. \A r, q \in Slots : flows'[r].hash = flows'[q].hash /\ flows'[q].hash # None => r = q
    BY <1>1, <1>7, <1>10 DEF HandlersSound
  <2>5. \A r \in Slots : HoldsBurn(flows[r])' => txs'[flows'[r].hash].step = "burn"
    <3>1. \A r \in Slots : HoldsBurn(flows'[r]) => txs[flows'[r].hash].step = "burn"
      BY <1>1, <1>10, <1>13 DEF HandlersSound
    <3> QED
      BY <1>2, <3>1 DEF HoldsBurn
  <2> QED
    BY <1>1, <1>2, <2>2, <2>3, <2>4, <2>5 DEF HandlersSound
<1>15. OperationOpen' /\ BurnOnce'
  <2>1. \A h \in Hashes : ~Outstanding(h)'
    BY <1>2, <1>4 DEF Outstanding
  <2>2. \A r \in Slots : flows'[r].op \in CrossChain => r = s /\ op \in CrossChain
    BY <1>5, <1>7, <1>10
  <2> QED
    BY <1>11, <2>1, <2>2 DEF OperationOpen, BurnOnce
<1>16. SoloInv'
  <2> SUFFICES ASSUME ~overlap' PROVE Alone' /\ Marked' /\ Guarded'
    BY DEF SoloInv
  <2>1. ~overlap /\ \A r \in Slots : flows[r].pc \in {"idle", "orphan"}
    BY <1>2 DEF Running
  <2>2. owed = {}
    BY <1>1, <1>3, <2>1 DEF SoloInv, Marked
  <2>3. \A r \in Slots : Running(r)' => r = s
    BY <1>10, <2>1 DEF Running
  <2>4. f.pc # "wait" /\ f.pc # "request"
    BY <1>7
  <2>5. Alone'
    BY <1>2, <1>7, <1>10, <1>11, <2>2, <2>3, <2>4 DEF Alone
  <2>6. Marked'
    BY <1>2, <2>2 DEF Marked
  <2>7. \A r \in Slots : flows'[r].pc \notin {"request", "wait"}
    BY <1>10, <2>1, <2>4
  <2>8. Guarded'
    BY <1>1, <1>2, <1>11, <2>1, <2>7 DEF SoloInv, Guarded
  <2> QED
    BY <2>5, <2>6, <2>8
<1> QED
  BY <1>12, <1>14, <1>15, <1>16 DEF FlowInv, BurnInv

StartsHere(s) ==
  \/ HandleCall(s) \/ HandleBatch(s) \/ HandleX402Call(s) \/ HandleClaimTimeout(s)
  \/ HandleSubmitReceipt(s) \/ HandleCCTPCall(s) \/ HandleBridge(s) \/ RunBatch(s)
  \/ RunMultiCall(s) \/ HandleSend(s) \/ RequestsClaim(s) \/ VerifyReceipt(s)

LEMMA StartStep ==
  ASSUME FlowInv, NEW s \in Slots, StartsHere(s)
  PROVE  FlowInv'
<1>1. tab \in Tab
  BY DEF FlowInv, BurnInv, Types
<1>2. \A op : op \in CrossChain <=> op \in {"cctp", "bridge"}
  BY DEF CrossChain
<1>3. ASSUME NEW op \in {"call", "batch", "claim", "receipt"}, NEW a \in Attempts,
             Start(s, op, a, Preparing, tab)
      PROVE  FlowInv'
  BY <1>1, <1>2, <1>3, StartMove DEF Preparing
<1>4. ASSUME NEW op \in {"bulk", "overview-multi", "payments-send", "requests-claim", "verify-receipt"},
             Start(s, op, None, Asking("pay"), tab)
      PROVE  FlowInv'
  BY <1>1, <1>2, <1>4, StartMove DEF Asking
<1>5. ASSUME NEW a \in Attempts, Start(s, "x402", a, [pc |-> "sign", step |-> None], tab)
      PROVE  FlowInv'
  BY <1>1, <1>2, <1>5, StartMove
<1>6. PICK u \in Tab : /\ u = StartCctpOperation(tab) /\ u.cctp # None
                       /\ u.pending = tab.pending /\ u.guards = tab.guards
  <2>1. "started" \in Stages
    BY DEF Stages
  <2>2. StartCctpOperation(tab) = UpdateCctpOperation(tab, "started")
    BY DEF StartCctpOperation, UpdateCctpOperation
  <2> QED
    BY <1>1, <2>1, <2>2, OperationFacts
<1>7. ASSUME NEW a \in Attempts, Start(s, "cctp", a, Preparing, u)
      PROVE  FlowInv'
  BY <1>2, <1>6, <1>7, StartMove DEF Preparing
<1>8. ASSUME Start(s, "bridge", None, Asking("approve"), UpdateCctpOperation(u, "approval-pending"))
      PROVE  FlowInv'
  <2>1. PICK v \in Tab : /\ v = UpdateCctpOperation(u, "approval-pending") /\ v.cctp # None
                         /\ v.pending = tab.pending /\ v.guards = tab.guards
    BY <1>6, OperationFacts DEF Stages
  <2> QED
    BY <1>2, <1>8, <2>1, StartMove DEF Asking
<1> QED
  BY <1>3, <1>4, <1>5, <1>6, <1>7, <1>8
    DEF StartsHere, HandleCall, HandleBatch, HandleX402Call, HandleClaimTimeout,
        HandleSubmitReceipt, HandleCCTPCall, HandleBridge, RunBatch, RunMultiCall, HandleSend,
        RequestsClaim, VerifyReceipt

-----------------------------------------------------------------------------
(* Recovery, the panel, the storage and the chain.                         *)

(* The handlers and the transactions stay as they are.                     *)
LEMMA SameFlows ==
  ASSUME FlowInv, UNCHANGED <<flows, txs, builder, health>>, tab' \in Tab,
         overlap' \in BOOLEAN,
         tab'.cctp = tab.cctp, owed' \in SUBSET Hashes, signed' \in SUBSET Hashes,
         shown' \in Hashes \cup {None}, ~builder => shown' = None
  PROVE  Types' /\ HandlersSound' /\ OperationOpen' /\ BurnOnce'
BY DEF FlowInv, BurnInv, Types, HandlersSound, OperationOpen, BurnOnce, Carries, HoldsBurn,
       Shape, Outstanding

LEMMA RecoverStep ==
  ASSUME FlowInv, CanRecover, UNCHANGED <<flows, txs, signed, overlap>>, SameWorld,
         tab' = ResolvePendingTx(tab, health), shown' = None,
         owed' = owed \ {shown} \/ (owed' = owed /\ health = "down")
  PROVE  FlowInv'
<1>1. /\ tab \in Tab /\ shown \in Hashes /\ owed' \in SUBSET Hashes /\ signed' \in SUBSET Hashes
      /\ UNCHANGED <<builder, health>> /\ overlap' \in BOOLEAN
  BY DEF FlowInv, BurnInv, Types, CanRecover, SameWorld
<1>2. /\ tab' \in Tab /\ tab'.cctp = tab.cctp /\ tab'.guards = tab.guards /\ tab'.op = tab.op
      /\ health = "down" => tab' = tab
  BY <1>1, ResolveFacts DEF ResolvePendingTx
<1>3. Types' /\ HandlersSound' /\ OperationOpen' /\ BurnOnce'
  BY <1>1, <1>2, SameFlows
<1>4. ASSUME ~overlap
      PROVE  Alone' /\ Marked' /\ Guarded'
  <2>1. Alone /\ Marked /\ Guarded
    BY <1>4 DEF FlowInv, SoloInv
  <2>2. \A r \in Slots : ~Running(r)
    BY <2>1 DEF CanRecover, Mounted, Alone
  <2>3. Alone'
    BY <2>2 DEF Alone, Running
  <2>4. Guarded'
    BY <1>2, <2>1 DEF Guarded
  <2>5. owed' = {} \/ (owed' = owed /\ tab' = tab)
    BY <1>2, <2>1 DEF Marked, CanRecover
  <2>6. Marked'
    BY <2>1, <2>5 DEF Marked
  <2> QED
    BY <2>3, <2>4, <2>6
<1> QED
  BY <1>3, <1>4 DEF FlowInv, BurnInv, SoloInv

LEMMA CheckPendingStep ==
  ASSUME FlowInv, HandleCheckPending
  PROVE  FlowInv'
BY RecoverStep DEF HandleCheckPending

LEMMA DiscardPendingStep ==
  ASSUME FlowInv, DiscardPendingMarker
  PROVE  FlowInv'
BY RecoverStep DEF DiscardPendingMarker

LEMMA DiscardGuardStep ==
  ASSUME FlowInv, NEW a \in Attempts, DiscardFacGuard(a)
  PROVE  FlowInv'
<1>1. /\ tab \in Tab /\ shown' \in Hashes \cup {None} /\ owed' \in SUBSET Hashes
      /\ signed' \in SUBSET Hashes /\ UNCHANGED <<builder, health>> /\ (~builder => shown' = None)
      /\ overlap' \in BOOLEAN
  BY DEF FlowInv, BurnInv, Types, DiscardFacGuard, SameWorld
<1>2. /\ tab' \in Tab /\ tab'.cctp = tab.cctp /\ tab'.op = tab.op
      /\ tab'.pending = tab.pending /\ tab'.hash = tab.hash
      /\ \A b \in Attempts \ {a} : tab'.guards[b] = tab.guards[b]
  BY <1>1, RemoveFacts DEF DiscardFacGuard
<1>3. Types' /\ HandlersSound' /\ OperationOpen' /\ BurnOnce'
  BY <1>1, <1>2, SameFlows DEF DiscardFacGuard
<1>4. ASSUME ~overlap
      PROVE  Alone' /\ Marked' /\ Guarded'
  <2>1. Alone /\ Marked /\ Guarded
    BY <1>4 DEF FlowInv, SoloInv
  <2>2. \A r \in Slots : ~Running(r)
    BY <2>1 DEF DiscardFacGuard, Mounted, Alone
  <2>3. Alone'
    BY <2>2 DEF Alone, Running, DiscardFacGuard
  <2>4. \A r \in Slots : flows[r].pc \notin {"request", "wait"}
    BY <2>2 DEF Running
  <2>5. Guarded'
    BY <1>2, <2>1, <2>4 DEF Guarded, DiscardFacGuard
  <2>6. Marked'
    BY <1>2, <2>1 DEF Marked, DiscardFacGuard
  <2> QED
    BY <2>3, <2>5, <2>6
<1> QED
  BY <1>3, <1>4 DEF FlowInv, BurnInv, SoloInv, DiscardFacGuard

(* A lock let go of: while handlers do not overlap, nobody was holding it. *)
LEMMA RefusedStep ==
  ASSUME FlowInv, NEW op, RefusedStart(op)
  PROVE  FlowInv'
<1>1. /\ tab \in Tab /\ shown' \in Hashes \cup {None} /\ owed' \in SUBSET Hashes
      /\ signed' \in SUBSET Hashes /\ UNCHANGED <<builder, health>> /\ (~builder => shown' = None)
      /\ overlap' \in BOOLEAN /\ UNCHANGED <<flows, txs, owed, signed, shown>>
      /\ tab' = EndOperation(tab, op)
      /\ overlap' = (overlap \/ \E r \in Slots : Running(r))
  BY DEF FlowInv, BurnInv, Types, RefusedStart, SameWorld
<1>2. /\ tab' \in Tab /\ tab'.cctp = tab.cctp /\ tab'.guards = tab.guards
      /\ tab'.pending = tab.pending /\ tab'.hash = tab.hash
  BY <1>1, EndFacts
<1>3. Types' /\ HandlersSound' /\ OperationOpen' /\ BurnOnce'
  BY <1>1, <1>2, SameFlows
<1>4. ASSUME ~overlap'
      PROVE  Alone' /\ Marked' /\ Guarded'
  <2>1. Alone /\ Marked /\ Guarded /\ \A r \in Slots : ~Running(r)
    BY <1>1, <1>4 DEF FlowInv, SoloInv
  <2>2. Alone'
    BY <1>1, <2>1 DEF Alone, Running
  <2>3. Marked'
    BY <1>1, <1>2, <2>1 DEF Marked
  <2>4. Guarded'
    BY <1>1, <1>2, <2>1 DEF Guarded
  <2> QED
    BY <2>2, <2>3, <2>4
<1> QED
  BY <1>3, <1>4 DEF FlowInv, BurnInv, SoloInv

LEMMA FaultStep ==
  ASSUME FlowInv, StorageFault
  PROVE  FlowInv'
BY DEF StorageFault, FlowInv, BurnInv, Types, HandlersSound, OperationOpen, BurnOnce, Carries,
       HoldsBurn, Shape, Outstanding, SoloInv, Alone, Marked, Guarded, Running

(* Handlers end, or lose their panel; prompts become orphans.              *)
Fades(r) ==
  \/ flows'[r] = Idle
  \/ /\ flows'[r] \in Flow /\ ~flows'[r].mounted
     /\ flows'[r].op = flows[r].op /\ flows'[r].step = flows[r].step
     /\ flows'[r].hash = flows[r].hash /\ flows'[r].sent = flows[r].sent
     /\ flows'[r].attempt = flows[r].attempt
     /\ \/ flows'[r].pc = flows[r].pc /\ (flows[r].pc = "idle" => flows[r] = flows'[r])
        \/ flows'[r].pc = "orphan" /\ flows[r].pc \in {"ask", "orphan"}

LEMMA FadeMove ==
  ASSUME FlowInv, \A r \in Slots : Fades(r), DOMAIN flows' = Slots,
         flows' = [r \in Slots |-> flows'[r]],
         UNCHANGED <<txs, signed, health>>, tab' \in Tab, tab'.cctp = tab.cctp,
         owed' \in SUBSET Hashes, builder' \in BOOLEAN, overlap' \in BOOLEAN,
         shown' \in Hashes \cup {None}, ~builder' => shown' = None
  PROVE  Types' /\ HandlersSound' /\ OperationOpen' /\ BurnOnce'
<1>1. Types /\ HandlersSound /\ OperationOpen /\ BurnOnce
  BY DEF FlowInv, BurnInv
<1>2. \A r \in Slots : flows'[r] \in Flow
  BY IdleFacts DEF Fades
<1>3. Types'
  BY <1>1, <1>2 DEF Types
<1>4. \A r \in Slots : Shape(flows'[r])
  <2> SUFFICES ASSUME NEW r \in Slots PROVE Shape(flows'[r])
    OBVIOUS
  <2>1. CASE flows'[r] = Idle
    BY <2>1, IdleFacts
  <2>2. CASE flows'[r].pc = "orphan" /\ flows[r].pc \in {"ask", "orphan"} /\ flows'[r] # Idle
    BY <1>1, <2>2 DEF Fades, HandlersSound, Shape
  <2>3. CASE flows'[r].pc = flows[r].pc /\ flows'[r] # Idle
    BY <1>1, <2>3 DEF Fades, HandlersSound, Shape
  <2> QED
    BY <2>1, <2>2, <2>3 DEF Fades
<1>5. \A r \in Slots : ~flows'[r].mounted
  BY IdleFacts DEF Fades
<1>6. \A r, q \in Slots : flows'[r].hash = flows'[q].hash /\ flows'[q].hash # None => r = q
  BY <1>1, IdleFacts DEF Fades, HandlersSound
<1>7. \A r \in Slots : HoldsBurn(flows'[r]) =>
        HoldsBurn(flows[r]) /\ flows'[r].hash = flows[r].hash
  BY IdleFacts DEF Fades, HoldsBurn
<1>8. HandlersSound'
  <2>1. \A r \in Slots : Shape(flows[r])'
    BY <1>4 DEF Shape
  <2>2. \A r \in Slots : HoldsBurn(flows[r])' => txs'[flows'[r].hash].step = "burn"
    <3>1. \A r \in Slots : HoldsBurn(flows'[r]) => txs[flows'[r].hash].step = "burn"
      BY <1>1, <1>7 DEF HandlersSound
    <3> QED
      BY <3>1 DEF HoldsBurn
  <2> QED
    BY <1>1, <1>5, <1>6, <2>1, <2>2 DEF HandlersSound
<1>9. \A r \in Slots : flows'[r].op \in CrossChain => flows'[r].op = flows[r].op /\ flows'[r] # Idle
  BY IdleFacts, CrossChainOps DEF Fades
<1>10. \A r \in Slots, h \in Hashes :
         flows'[r].op \in CrossChain /\ Outstanding(h) => Carries(flows'[r], h)
  <2> SUFFICES ASSUME NEW r \in Slots, NEW h \in Hashes, flows'[r].op \in CrossChain,
                      Outstanding(h)
               PROVE  Carries(flows'[r], h)
    OBVIOUS
  <2>1. Carries(flows[r], h)
    BY <1>1, <1>9 DEF OperationOpen
  <2> QED
    BY <1>9, <2>1 DEF Fades, Carries, HoldsBurn
<1>11. OperationOpen' /\ BurnOnce'
  <2>1. \A r \in Slots, h \in Hashes :
          flows'[r].op \in CrossChain /\ Outstanding(h)' => Carries(flows[r], h)'
    BY <1>10 DEF Carries, HoldsBurn, Outstanding
  <2>2. \A h \in Hashes : Outstanding(h)' <=> Outstanding(h)
    BY DEF Outstanding
  <2> QED
    BY <1>1, <1>9, <2>1, <2>2 DEF OperationOpen, BurnOnce
<1> QED
  BY <1>3, <1>8, <1>11

LEMMA UnmountedFades ==
  ASSUME FlowInv, NEW r \in Slots, flows'[r] = Unmounted(flows[r])
  PROVE  Fades(r) /\ (Running(r)' => Running(r))
<1>1. flows[r] \in Flow /\ Shape(flows[r]) /\ "orphan" \in Pcs
  <2>1. flows \in [Slots -> Flow] /\ \A q \in Slots : Shape(flows[q])
    BY DEF FlowInv, BurnInv, Types, HandlersSound
  <2>2. "orphan" \in Pcs
    BY DEF Pcs
  <2> QED
    BY <2>1, <2>2
<1>2. CASE flows[r].pc = "idle"
  <2>1. [Idle EXCEPT !.mounted = FALSE] = Idle /\ Idle.pc = "idle"
    <3>1. /\ DOMAIN Idle = {"op", "pc", "step", "attempt", "hash", "mounted", "sent"}
          /\ Idle = [x \in DOMAIN Idle |-> Idle[x]] /\ Idle["mounted"] = FALSE
      BY DEF Idle
    <3>2. [Idle EXCEPT !["mounted"] = FALSE] = Idle
      BY <3>1
    <3> QED
      BY <3>2, IdleFacts
  <2> QED
    BY <1>1, <1>2, <2>1 DEF Unmounted, Shape, Fades, Running
<1>3. CASE flows[r].pc # "idle"
  <2>1. CASE flows'[r] = Idle
    BY <2>1, IdleFacts DEF Fades, Running
  <2>2. CASE /\ flows'[r] = [flows[r] EXCEPT !.pc = "orphan", !.mounted = FALSE]
             /\ flows[r].pc = "ask"
    BY <1>1, <2>2 DEF Fades, Running, Flow
  <2>3. CASE flows'[r] = [flows[r] EXCEPT !.mounted = FALSE]
    BY <1>1, <1>3, <2>3 DEF Fades, Running, Flow
  <2> QED
    BY <2>1, <2>2, <2>3 DEF Unmounted
<1> QED
  BY <1>2, <1>3

LEMMA NavigateStep ==
  ASSUME FlowInv, Navigate
  PROVE  FlowInv'
<1>1. /\ builder' \in {~builder, FALSE} /\ UNCHANGED <<tab, health, txs, owed, signed>>
      /\ shown' = IF builder' THEN ReadPending(tab, health) ELSE None
      /\ overlap' = (overlap \/ (builder' /\ \E r \in Slots : Running(r)))
      /\ flows' = [r \in Slots |-> Unmounted(flows[r])]
  BY DEF Navigate
<1>2. Types
  BY DEF FlowInv, BurnInv
<1>3. \A r \in Slots : flows'[r] = Unmounted(flows[r])
  BY <1>1
<1>4. \A r \in Slots : Fades(r) /\ (Running(r)' => Running(r))
  BY <1>3, UnmountedFades
<1>5. shown' \in {None, tab.pending} /\ tab.pending \in Hashes \cup {None}
  BY <1>1, <1>2 DEF ReadPending, Types, Tab
<1>6. Types' /\ HandlersSound' /\ OperationOpen' /\ BurnOnce'
  <2>1. overlap' \in BOOLEAN /\ builder' \in BOOLEAN /\ (~builder' => shown' = None)
    BY <1>1, <1>2 DEF Types
  <2>2. DOMAIN flows' = Slots /\ flows' = [r \in Slots |-> flows'[r]]
    BY <1>1
  <2> QED
    BY <1>1, <1>2, <1>4, <1>5, <2>1, <2>2, FadeMove DEF Types
<1>7. ASSUME ~overlap'
      PROVE  Alone' /\ Marked' /\ Guarded'
  <2>1. Alone /\ Marked /\ Guarded
    BY <1>1, <1>7 DEF FlowInv, SoloInv
  <2>2. \A r \in Slots : Running(r)' =>
          /\ Running(r) /\ ~builder' /\ flows'[r].pc = flows[r].pc /\ flows'[r].op = flows[r].op
          /\ flows'[r].hash = flows[r].hash
    BY <1>1, <1>4, <1>7, IdleFacts DEF Fades, Running
  <2>3. Alone'
    BY <1>1, <2>1, <2>2 DEF Alone
  <2>4. Marked'
    BY <1>1, <1>5, <2>1 DEF Marked
  <2>5. \A r \in Slots : flows'[r].op = "x402" /\ flows'[r].pc \in {"request", "wait"} =>
          /\ flows[r].op = "x402" /\ flows[r].pc \in {"request", "wait"}
          /\ flows'[r].hash = flows[r].hash /\ flows'[r].attempt = flows[r].attempt
    BY <1>4, IdleFacts DEF Fades
  <2>6. Guarded'
    BY <1>1, <2>1, <2>5 DEF Guarded
  <2> QED
    BY <2>3, <2>4, <2>6
<1> QED
  BY <1>6, <1>7 DEF FlowInv, BurnInv, SoloInv

LEMMA ReloadStep ==
  ASSUME FlowInv, Reload
  PROVE  FlowInv'
<1>1. /\ tab' = Reloaded(tab) /\ builder' = TRUE /\ UNCHANGED <<health, txs, signed, overlap>>
      /\ shown' = ReadPending(tab, health) /\ owed' = owed \cap {tab.pending}
      /\ flows' = [r \in Slots |-> IF flows[r].pc \in {"ask", "orphan"}
                                  THEN [flows[r] EXCEPT !.pc = "orphan", !.mounted = FALSE]
                                  ELSE Idle]
  BY DEF Reload
<1>2. Types
  BY DEF FlowInv, BurnInv
<1>3. /\ tab' \in Tab /\ tab'.pending = tab.pending /\ tab'.cctp = tab.cctp
      /\ tab'.guards = tab.guards
  BY <1>1, <1>2 DEF Reloaded, Types, Tab
<1>4. \A r \in Slots : Fades(r) /\ flows'[r].pc \in {"idle", "orphan"}
  <2> SUFFICES ASSUME NEW r \in Slots PROVE Fades(r) /\ flows'[r].pc \in {"idle", "orphan"}
    OBVIOUS
  <2>1. flows[r] \in Flow /\ "orphan" \in Pcs
    BY <1>2 DEF Types, Pcs
  <2>2. CASE flows'[r] = Idle
    BY <2>2, IdleFacts DEF Fades
  <2>3. CASE /\ flows'[r] = [flows[r] EXCEPT !.pc = "orphan", !.mounted = FALSE]
             /\ flows[r].pc \in {"ask", "orphan"}
    BY <2>1, <2>3 DEF Fades, Flow
  <2> QED
    BY <1>1, <2>2, <2>3
<1>5. shown' \in {None, tab.pending} /\ tab.pending \in Hashes \cup {None}
  BY <1>1, <1>2 DEF ReadPending, Types, Tab
<1>6. Types' /\ HandlersSound' /\ OperationOpen' /\ BurnOnce'
  <2>1. DOMAIN flows' = Slots /\ flows' = [r \in Slots |-> flows'[r]]
    BY <1>1
  <2>2. overlap' \in BOOLEAN /\ builder' \in BOOLEAN /\ owed' \in SUBSET Hashes
    BY <1>1, <1>2 DEF Types
  <2> QED
    BY <1>1, <1>3, <1>4, <1>5, <2>1, <2>2, FadeMove
<1>7. ASSUME ~overlap
      PROVE  Alone' /\ Marked' /\ Guarded'
  <2>1. Alone /\ Marked /\ Guarded
    BY <1>7 DEF FlowInv, SoloInv
  <2>2. Alone'
    BY <1>4 DEF Alone, Running
  <2>3. None \notin Hashes /\ owed \subseteq Hashes
    BY <1>2, GateAssumption DEF Types
  <2>4. Marked'
    BY <1>1, <1>3, <1>5, <2>3 DEF Marked
  <2>5. Guarded'
    BY <1>1, <1>3, <1>4, <2>1 DEF Guarded
  <2> QED
    BY <2>2, <2>4, <2>5
<1> QED
  BY <1>1, <1>6, <1>7 DEF FlowInv, BurnInv, SoloInv

(* The chain changes the status of transactions and nothing else of them.  *)
LEMMA ChainMove ==
  ASSUME FlowInv, UNCHANGED <<tab, health, builder, shown, flows, owed, signed, overlap>>,
         txs' \in [Hashes -> Tx],
         \A h \in Hashes : txs'[h].step = txs[h].step /\ txs'[h].for = txs[h].for,
         \A h \in Hashes : txs'[h].status = "offered" => txs[h].status = "offered",
         \A h \in Hashes : txs'[h].status = "inflight" =>
           txs[h].status = "inflight" \/ txs[h].step = "pay",
         \A h \in Hashes : Outstanding(h)' => Outstanding(h),
         \A h \in Hashes : txs[h].step = "mint" /\ txs[h].status \in {"inflight", "reverted"} =>
           \/ txs'[h].status \in {"inflight", "reverted"}
           \/ txs'[txs[h].for].status = "minted"
  PROVE  FlowInv'
<1>1. Types /\ HandlersSound /\ OperationOpen /\ BurnOnce /\ SoloInv
  BY DEF FlowInv, BurnInv
<1>2. Types'
  BY <1>1 DEF Types
<1>3. \A r \in Slots : flows[r].hash # None => flows[r].hash \in Hashes
  BY <1>1 DEF Types, Flow
<1>4. HandlersSound'
  <2>1. \A r \in Slots : HoldsBurn(flows[r]) => txs'[flows[r].hash].step = "burn"
    BY <1>1, <1>3 DEF HandlersSound, Shape, HoldsBurn
  <2>2. \A r \in Slots : HoldsBurn(flows[r])' => txs'[flows'[r].hash].step = "burn"
    BY <2>1 DEF HoldsBurn
  <2>3. \A r \in Slots : Shape(flows[r])'
    BY <1>1 DEF HandlersSound, Shape
  <2>4. \A m \in Hashes : txs'[m].step = "mint" /\ txs'[m].status = "inflight" =>
          txs'[m].for \in Hashes /\ txs'[txs'[m].for].step = "burn"
    BY <1>1 DEF HandlersSound
  <2>5. \A r, q \in Slots : flows'[r].hash = flows'[q].hash /\ flows'[q].hash # None => r = q
    BY <1>1 DEF HandlersSound
  <2>6. \A r \in Slots : flows'[r].mounted /\ flows'[r].op \in Builder => builder'
    BY <1>1 DEF HandlersSound
  <2>7. \A h \in Hashes : txs'[h].status = "offered" => txs'[h].step = "pay"
    BY <1>1 DEF HandlersSound
  <2> QED
    BY <2>2, <2>3, <2>4, <2>5, <2>6, <2>7 DEF HandlersSound
<1>5. ASSUME NEW r \in Slots, NEW h \in Hashes, flows[r].op \in CrossChain, Outstanding(h)'
      PROVE  Carries(flows[r], h)'
  <2>1. Carries(flows[r], h)
    BY <1>1, <1>5 DEF OperationOpen
  <2>2. CASE HoldsBurn(flows[r]) /\ flows[r].hash = h
    BY <2>2 DEF Carries, HoldsBurn
  <2>3. CASE ~ (HoldsBurn(flows[r]) /\ flows[r].hash = h)
    <3>1. /\ flows[r].step = "mint" /\ flows[r].pc = "wait"
          /\ txs[flows[r].hash].step = "mint" /\ txs[flows[r].hash].for = h
          /\ txs[flows[r].hash].status \in {"inflight", "reverted"}
      BY <2>1, <2>3 DEF Carries
    <3>2. flows[r].hash \in Hashes
      BY <1>1, <1>3, <3>1 DEF HandlersSound, Shape
    <3>3. txs'[h].status # "minted"
      BY <1>5 DEF Outstanding
    <3> QED
      BY <3>1, <3>2, <3>3 DEF Carries
  <2> QED
    BY <2>2, <2>3
<1>6. OperationOpen' /\ BurnOnce'
  BY <1>1, <1>5 DEF OperationOpen, BurnOnce
<1>7. SoloInv'
  <2>1. ~overlap => Alone' /\ Marked'
    BY <1>1 DEF SoloInv, Alone, Marked, Running
  <2>2. \A h \in signed : txs'[h].for = txs[h].for
    BY <1>1 DEF Types
  <2>3. ASSUME ~overlap PROVE Guarded'
    BY <1>1, <2>2, <2>3 DEF SoloInv, Guarded
  <2> QED
    BY <2>1, <2>3 DEF SoloInv
<1> QED
  BY <1>2, <1>4, <1>6, <1>7 DEF FlowInv, BurnInv

LEMMA SettlesStep ==
  ASSUME FlowInv, NEW h \in Hashes, FacilitatorSettles(h)
  PROVE  FlowInv'
<1>1. /\ txs \in [Hashes -> Tx] /\ txs[h].status = "offered" /\ txs[h].step = "pay"
  BY DEF FacilitatorSettles, FlowInv, BurnInv, Types, HandlersSound
<1>2. PICK new : new = [txs[h] EXCEPT !.status = "inflight"]
  OBVIOUS
<1>3. /\ new \in Tx /\ new.status = "inflight" /\ new.step = "pay" /\ new.for = txs[h].for
  BY <1>1, <1>2 DEF Tx, Statuses
<1>4. txs' = [txs EXCEPT ![h] = new]
  BY <1>1, <1>2 DEF FacilitatorSettles
<1> HIDE <1>2
<1>5. /\ txs' \in [Hashes -> Tx] /\ txs'[h] = new
      /\ \A g \in Hashes \ {h} : txs'[g] = txs[g]
  BY <1>1, <1>3, <1>4
<1>6. \A g \in Hashes : Outstanding(g)' => Outstanding(g)
  BY <1>3, <1>5 DEF Outstanding
<1> QED
  BY <1>1, <1>3, <1>5, <1>6, ChainMove DEF FacilitatorSettles

LEMMA MineStep ==
  ASSUME FlowInv, NEW h \in Hashes, Mine(h)
  PROVE  FlowInv'
<1>1. /\ txs \in [Hashes -> Tx] /\ txs[h].status = "inflight"
      /\ UNCHANGED <<tab, health, builder, shown, flows, owed, signed, overlap>>
      /\ \A m \in Hashes : txs[m].step = "mint" /\ txs[m].status = "inflight" =>
           txs[m].for \in Hashes /\ txs[txs[m].for].step = "burn"
  BY DEF Mine, FlowInv, BurnInv, Types, HandlersSound
<1>2. None \notin Hashes
  BY GateAssumption
<1>3. ASSUME NEW status \in {"reverted", "confirmed"}, txs' = [txs EXCEPT ![h].status = status],
             status = "confirmed" => txs[h].step # "mint"
      PROVE  FlowInv'
  <2>1. PICK new : new = [txs[h] EXCEPT !.status = status]
    OBVIOUS
  <2>2. new \in Tx /\ new.status = status /\ new.step = txs[h].step /\ new.for = txs[h].for
    BY <1>1, <2>1 DEF Tx, Statuses
  <2>3. txs' = [txs EXCEPT ![h] = new]
    BY <1>1, <1>3, <2>1
  <2> HIDE <2>1
  <2>4. /\ txs' \in [Hashes -> Tx] /\ txs'[h] = new
        /\ \A g \in Hashes \ {h} : txs'[g] = txs[g]
    BY <1>1, <2>2, <2>3
  <2>5. \A g \in Hashes : Outstanding(g)' => Outstanding(g)
    BY <1>1, <2>2, <2>4 DEF Outstanding
  <2> QED
    BY <1>1, <1>3, <2>2, <2>4, <2>5, ChainMove
<1>4. ASSUME txs[h].step = "mint", txs[h].for # None,
             txs' = [txs EXCEPT ![h].status = "confirmed", ![txs[h].for].status = "minted"]
      PROVE  FlowInv'
  <2>1. PICK b \in Hashes : b = txs[h].for /\ txs[b].step = "burn" /\ b # h
    BY <1>1, <1>4
  <2>2. PICK new, done : /\ new = [txs[h] EXCEPT !.status = "confirmed"]
                         /\ done = [txs[b] EXCEPT !.status = "minted"]
    OBVIOUS
  <2>3. /\ new \in Tx /\ new.status = "confirmed" /\ new.step = "mint" /\ new.for = b
        /\ done \in Tx /\ done.status = "minted" /\ done.step = "burn" /\ done.for = txs[b].for
    BY <1>1, <1>4, <2>1, <2>2 DEF Tx, Statuses
  <2>4. txs' = [txs EXCEPT ![h] = new, ![b] = done]
    BY <1>1, <1>4, <2>1, <2>2
  <2> HIDE <2>2
  <2>5. /\ txs' \in [Hashes -> Tx] /\ txs'[h] = new /\ txs'[b] = done
        /\ \A g \in Hashes \ {h, b} : txs'[g] = txs[g]
    BY <1>1, <2>1, <2>3, <2>4
  <2>6. \A g \in Hashes : Outstanding(g)' => Outstanding(g)
    BY <1>1, <2>3, <2>5 DEF Outstanding
  <2> QED
    BY <1>1, <1>4, <2>1, <2>3, <2>5, <2>6, ChainMove
<1> QED
  <2>1. txs[h].step = "mint" => txs[h].for # None
    BY <1>1, <1>2
  <2> QED
    BY <1>3, <1>4, <2>1 DEF Mine

-----------------------------------------------------------------------------
LEMMA FlowInitInv == FlowInit => FlowInv
<1> SUFFICES ASSUME FlowInit PROVE FlowInv
  OBVIOUS
<1>1. /\ \A s \in Slots : flows[s] = Idle
      /\ \A h \in Hashes : txs[h].step = None /\ txs[h].status = "none" /\ txs[h] \in Tx
  BY DEF FlowInit, Unsent, Tx, Statuses
<1>2. EmptyTab \in Tab
  BY DEF EmptyTab, Tab
<1>3. Types
  BY <1>1, <1>2, IdleFacts DEF FlowInit, Types, Healths
<1>4. \A h \in Hashes : ~Outstanding(h)
  BY <1>1 DEF Outstanding
<1>5. None # "mint"
  BY FlowAssumption DEF Steps
<1>6. HandlersSound
  BY <1>1, <1>5, IdleFacts DEF HandlersSound
<1>7. OperationOpen /\ BurnOnce
  BY <1>1, <1>4, IdleFacts, CrossChainOps DEF OperationOpen, BurnOnce
<1>8. SoloInv
  BY <1>1, IdleFacts DEF FlowInit, SoloInv, Alone, Marked, Guarded, Running
<1> QED
  BY <1>3, <1>6, <1>7, <1>8 DEF FlowInv, BurnInv

LEMMA FlowStepInv == FlowInv /\ [FlowNext]_flowVars => FlowInv'
<1> SUFFICES ASSUME FlowInv, [FlowNext]_flowVars PROVE FlowInv'
  OBVIOUS
<1>1. ASSUME NEW s \in Slots, Handler(s) PROVE FlowInv'
  BY <1>1, StartStep, AllowanceStep, SimulateStep, PrepareBurnStep, AttestationStep, PauseStep,
     PaymentReceiptStep, CrossChainReceiptStep, UnknownStep, SignStep, UncertainStep,
     RevertedStep, SettledAnswerStep
    DEF Handler, StartsHere
<1>2. ASSUME NEW s \in Slots, Wallet(s) PROVE FlowInv'
  BY <1>2, WalletSendsStep, WalletLosesHashStep, WalletRefusesStep, OrphanStep DEF Wallet
<1>3. CASE UNCHANGED flowVars
  BY <1>3
    DEF flowVars, FlowInv, BurnInv, Types, HandlersSound, OperationOpen, BurnOnce, Carries,
        HoldsBurn, Shape, Outstanding, SoloInv, Alone, Marked, Guarded, Running
<1> QED
  BY <1>1, <1>2, <1>3, CheckPendingStep, DiscardPendingStep, DiscardGuardStep, NavigateStep,
     RefusedStep, ReloadStep, FaultStep, SettlesStep, MineStep
    DEF FlowNext

(* In every reachable state the marker, the browser's memory and what the  *)
(* chain has mined agree about each burn, and without overlapping handlers *)
(* about each authorization.                                               *)
THEOREM FlowInvariant == FlowSpec => []FlowInv
BY FlowInitInv, FlowStepInv, PTL DEF FlowSpec

(* A burn is never repeated, by any handlers, through reloads, remounts,   *)
(* storage faults, lost hashes and orphaned prompts.                       *)
THEOREM BurnsOnce == FlowSpec => []BurnOnce
<1>1. FlowInv => BurnOnce
  BY DEF FlowInv, BurnInv
<1> QED
  BY <1>1, FlowInvariant, PTL

(* Without overlapping handlers an attempt has at most one authorization   *)
(* that is neither proven by a receipt, acknowledged, nor reported         *)
(* reverted, for answers that may claim anything of any transaction.       *)
THEOREM AuthorizesOnce == FlowSpec => []OneAuthorizationPerAttempt
<1>1. FlowInv => OneAuthorizationPerAttempt
  BY DEF FlowInv, SoloInv, Guarded, OneAuthorizationPerAttempt
<1> QED
  BY <1>1, FlowInvariant, PTL

(* Without overlapping handlers a hash that was recorded and neither read  *)
(* nor discarded keeps the gate closed to every flow.                      *)
THEOREM UnresolvedCloses == FlowSpec => []UnresolvedBlocksEveryStart
<1>1. FlowInv => UnresolvedBlocksEveryStart
  BY DEF FlowInv, SoloInv, Marked, UnresolvedBlocksEveryStart, CheckPaymentStart
<1> QED
  BY <1>1, FlowInvariant, PTL
=============================================================================
