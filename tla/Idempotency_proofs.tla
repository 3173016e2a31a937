------------------------- MODULE Idempotency_proofs -------------------------
(***************************************************************************)
(* Proofs about the two idempotency mechanisms: the paid call's ledger of  *)
(* operations and keys (CallService), for any number of requests,          *)
(* authorizations and keys and for any limits the assumptions admit; and   *)
(* the leased records of the other operations (OperationRecords), for any  *)
(* number of records, workers, requests in flight and lease times.         *)
(***************************************************************************)
EXTENDS CallService, OperationRecords, TLAPS

-----------------------------------------------------------------------------
(* The inductive invariant.                                                *)

Outcomes == {"none", "confirmed", "reverted", "unknown", "abandoned"}

ReqRecord ==
  [pc : Awaits \cup {"idle", "done", "dead"}, payment : Payments \cup {Absent},
   start : Nat, seen : Operation \cup {Absent}, aliased : BOOLEAN, next : Outcomes,
   code : Codes, hash : Requests \cup {NoHash}]

SweepRecord ==
  [pc : {"pick", "receipt", "write"}, id : Auths \cup {Absent},
   seen : Operation \cup {Absent}, next : Outcomes]

Types ==
  /\ ops \in [Auths -> Operation \cup {Absent}]
  /\ aliases \in [Keys -> Alias \cup {Absent}]
  /\ now \in 0..MaxTime
  /\ req \in [Requests -> ReqRecord]
  /\ tx \in [Requests -> TxStates]
  /\ sweep \in SweepRecord

(* What a record of authorization a says about transactions t, sent by     *)
(* requests q, is true.                                                    *)
Truthful(t, q, a, record) ==
  /\ record.hash # NoHash =>
       /\ t[record.hash] # "none"
       /\ q[record.hash].payment.auth = a
       /\ q[record.hash].payment.intent = record.intent
  /\ record.state = "confirmed" =>
       record.hash # NoHash /\ t[record.hash] = "success"
  /\ record.state = "reverted" =>
       record.hash # NoHash /\ t[record.hash] = "reverted"

(* A record somebody read earlier: the stored one may have moved on.       *)
SeenOf(o, t, q, a, record) ==
  /\ record \in Operation
  /\ o[a] \in Operation
  /\ record.intent = o[a].intent
  /\ record.createdAt = o[a].createdAt
  /\ record.revision <= o[a].revision
  /\ record.revision = o[a].revision => record = o[a]
  /\ Truthful(t, q, a, record)

Holding == {"broadcast", "recordUnknown", "recordHash", "wait", "recordOutcome", "resolve",
            "createAliasOnReplay", "abandon"}

(* Where a request has sent nothing.                                       *)
Unsent == {"idle", "readAlias", "readOperation", "checkNonce", "checkProvider",
           "createAlias", "createAliasOnReplay", "createOperation", "broadcast",
           "resolve", "abandon"}

Sender(r) == req[r].pc = "broadcast" \/ tx[r] # "none"

(* A submitter that is still at work on the record it created.             *)
Working(r) ==
  \/ req[r].pc \in {"broadcast", "recordHash", "wait"}
  \/ req[r].pc = "recordOutcome" /\ tx[r] # "none"

(* A verdict on a record rests on what the chain says, or on its age.      *)
Justified(t, n, record, next) ==
  /\ record.state \notin Terminal
  /\ next = "confirmed" => record.hash # NoHash /\ t[record.hash] = "success"
  /\ next = "reverted" => record.hash # NoHash /\ t[record.hash] = "reverted"
  /\ next = "abandoned" => record.createdAt + PreparedTTL <= n

Payment(r) ==
  /\ req[r].pc = "idle" => tx[r] = "none"
  /\ req[r].pc # "idle" => req[r].payment \in Payments
  /\ req[r].pc \in Awaits \/ tx[r] # "none" => req[r].payment.signed
  /\ req[r].pc \in {"readAlias", "createAlias", "createAliasOnReplay"} => Key(r) \in Keys
  /\ req[r].pc \in Unsent => tx[r] = "none"

Held(r) ==
  /\ req[r].pc \in Holding =>
       /\ SeenOf(ops, tx, req, Auth(r), req[r].seen)
       /\ req[r].seen.intent = Intent(r)
  /\ req[r].pc \in {"broadcast", "recordUnknown", "recordHash"} =>
       req[r].seen.state = "prepared" /\ req[r].seen.hash = NoHash
  /\ req[r].pc = "recordHash" => tx[r] # "none"
  /\ req[r].pc = "wait" =>
       tx[r] # "none" /\ req[r].seen.state = "submitted" /\ req[r].seen.hash = r
  /\ req[r].pc = "recordOutcome" =>
       /\ req[r].next \in {"confirmed", "reverted", "unknown"}
       /\ req[r].seen.hash # NoHash
       /\ Justified(tx, now, req[r].seen, req[r].next)
  /\ req[r].pc = "abandon" => Justified(tx, now, req[r].seen, "abandoned")

Told(r) ==
  /\ req[r].code # "none" <=> req[r].pc = "done"
  /\ req[r].code \in {"settled", "reverted"} =>
       /\ req[r].payment.signed
       /\ req[r].hash # NoHash
       /\ tx[req[r].hash] = IF req[r].code = "settled" THEN "success" ELSE "reverted"
       /\ Auth(req[r].hash) = Auth(r) /\ Intent(req[r].hash) = Intent(r)

Reserved(r) ==
  /\ Sender(r) => ops[Auth(r)] \in Operation
  /\ /\ req[r].pc = "createOperation" \/ Sender(r)
     /\ Key(r) \in Keys
     => aliases[Key(r)] \in Alias /\ aliases[Key(r)].auth = Auth(r)

InTime(r) ==
  /\ Live(r) => req[r].start <= now /\ now <= req[r].start + MaxDuration
  /\ Working(r) => /\ ops[Auth(r)].state # "abandoned"
                   /\ ops[Auth(r)].createdAt >= req[r].start

RequestInv(r) == Payment(r) /\ Held(r) /\ Told(r) /\ Reserved(r) /\ InTime(r)

RecordsInv == \A a \in Auths : ops[a] \in Operation => Truthful(tx, req, a, ops[a])

OneSender ==
  \A r, s \in Requests : r # s /\ Sender(r) /\ Sender(s) => Auth(r) # Auth(s)

SweepInv ==
  /\ sweep.pc # "pick" =>
       /\ sweep.id \in Auths
       /\ SeenOf(ops, tx, req, sweep.id, sweep.seen)
       /\ sweep.seen.state \notin Terminal
       /\ sweep.next \in {"none", "abandoned", "confirmed", "reverted"}
       /\ Justified(tx, now, sweep.seen, sweep.next)
  /\ sweep.pc = "receipt" => sweep.seen.hash # NoHash
  /\ sweep.pc = "write" => sweep.next # "none"

IInv ==
  /\ Types
  /\ \A r \in Requests : RequestInv(r)
  /\ RecordsInv
  /\ OneSender
  /\ SweepInv

-----------------------------------------------------------------------------
(* What every step does to records, keys, payments and the chain: nothing  *)
(* is taken back, and a record is given up only when its window is over.   *)
Progress ==
  /\ \A a \in Auths : ops[a] \in Operation =>
       /\ ops'[a] \in Operation
       /\ ops'[a].intent = ops[a].intent /\ ops'[a].createdAt = ops[a].createdAt
       /\ ops'[a] # ops[a] =>
            /\ ops'[a].revision = ops[a].revision + 1
            /\ ops[a].state \notin Terminal
            /\ ops[a].hash # NoHash => ops'[a].hash = ops[a].hash
            /\ ops'[a].state = "abandoned" => ops[a].createdAt + PreparedTTL <= now
  /\ \A k \in Keys : aliases[k] \in Alias => aliases'[k] = aliases[k]
  /\ \A r \in Requests :
       /\ req[r].pc # "idle" => req'[r].pc # "idle" /\ req'[r].payment = req[r].payment
       /\ tx[r] # "none" => tx'[r] # "none"
       /\ tx[r] = "success" => tx'[r] = "success"
       /\ tx[r] = "reverted" => tx'[r] = "reverted"
  /\ now <= now'

LEMMA Assumptions ==
  /\ NoHash \notin Requests /\ NoKey \notin Keys
  /\ PreparedTTL \in Nat /\ SubmittedTTL \in Nat /\ MaxDuration \in Nat /\ MaxTime \in Nat
  /\ MaxDuration < PreparedTTL /\ PreparedTTL <= SubmittedTTL
  /\ Payments \subseteq [auth : Auths, intent : Intents, key : Keys \cup {NoKey},
                         signed : BOOLEAN]
BY StoreAssumption, CallServiceAssumption

(* What a record says stays true.                                          *)
LEMMA TruthStable ==
  ASSUME \A r \in Requests : Payment(r), Progress, NEW a, NEW record \in Operation,
         Truthful(tx, req, a, record)
  PROVE  Truthful(tx', req', a, record)
<1>1. record.hash \in Requests \cup {NoHash}
  BY DEF Operation
<1>2. CASE record.hash = NoHash
  BY <1>2 DEF Truthful
<1>3. CASE record.hash \in Requests
  <2>1. tx[record.hash] # "none" => req[record.hash].pc # "idle"
    BY <1>3 DEF Payment
  <2> QED
    BY <1>3, <2>1 DEF Truthful, Progress
<1> QED
  BY <1>1, <1>2, <1>3

(* A record somebody holds stays one that was once stored.                 *)
LEMMA SeenStable ==
  ASSUME \A r \in Requests : Payment(r), Progress, NEW a \in Auths, NEW record,
         SeenOf(ops, tx, req, a, record)
  PROVE  SeenOf(ops', tx', req', a, record)
<1>1. record \in Operation /\ ops[a] \in Operation /\ Truthful(tx, req, a, record)
  BY DEF SeenOf
<1>2. Truthful(tx', req', a, record)
  BY <1>1, TruthStable
<1>3. ops'[a] \in Operation
  BY <1>1 DEF Progress
<1>4. /\ record.revision \in Nat /\ ops[a].revision \in Nat /\ ops'[a].revision \in Nat
  BY <1>1, <1>3 DEF Operation
<1>5. CASE ops'[a] = ops[a]
  BY <1>2, <1>5 DEF SeenOf
<1>6. CASE ops'[a] # ops[a]
  <2>1. ops'[a].revision = ops[a].revision + 1
    BY <1>1, <1>6 DEF Progress
  <2>2. record.revision < ops'[a].revision
    BY <1>4, <2>1 DEF SeenOf
  <2>3. ops'[a].intent = ops[a].intent /\ ops'[a].createdAt = ops[a].createdAt
    BY <1>1 DEF Progress
  <2> QED
    BY <1>1, <1>2, <1>3, <1>4, <2>2, <2>3 DEF SeenOf
<1> QED
  BY <1>5, <1>6

LEMMA JustifiedStable ==
  ASSUME Types, now' \in Nat, Progress, NEW record \in Operation, NEW next,
         Justified(tx, now, record, next)
  PROVE  Justified(tx', now', record, next)
<1>1. /\ record.hash \in Requests \cup {NoHash} /\ record.createdAt \in Nat
  BY DEF Operation
<1>2. now \in Nat /\ now <= now'
  BY DEF Types, Progress
<1>3. record.createdAt + PreparedTTL <= now => record.createdAt + PreparedTTL <= now'
  BY <1>1, <1>2, Assumptions
<1> QED
  BY <1>1, <1>3 DEF Justified, Progress

(* Fields of a request, and what its payment is made of.                   *)
LEMMA RequestTypes ==
  ASSUME Types, NEW r \in Requests, Payment(r), req[r].pc # "idle"
  PROVE  /\ req[r] \in ReqRecord
         /\ Auth(r) \in Auths /\ Intent(r) \in Intents /\ Key(r) \in Keys \cup {NoKey}
         /\ req[r].payment.signed \in BOOLEAN
BY Assumptions DEF Types, Payment, Auth, Intent, Key

-----------------------------------------------------------------------------
(* A request a step does not touch keeps its invariant.                    *)
LEMMA OtherRequest ==
  ASSUME IInv, Progress, now' \in Nat, NEW s \in Requests, req'[s] = req[s],
         tx'[s] = "none" <=> tx[s] = "none",
         Live(s) => now' <= req[s].start + MaxDuration
  PROVE  RequestInv(s)'
<1>1. RequestInv(s) /\ Types /\ \A r \in Requests : Payment(r)
  BY DEF IInv, RequestInv
<1>2. Payment(s)'
  BY <1>1 DEF RequestInv, Payment, Key
<1>3. Held(s)'
  <2>1. ASSUME req[s].pc \in Holding
        PROVE  SeenOf(ops', tx', req', Auth(s), req[s].seen) /\ req[s].seen \in Operation
    <3>1. SeenOf(ops, tx, req, Auth(s), req[s].seen)
      BY <1>1, <2>1 DEF RequestInv, Held
    <3>2. Auth(s) \in Auths
      BY <1>1, <2>1, RequestTypes DEF Holding
    <3> QED
      BY <1>1, <3>1, <3>2, SeenStable DEF SeenOf
  <2>2. ASSUME req[s].pc = "recordOutcome"
        PROVE  Justified(tx', now', req[s].seen, req[s].next)
    BY <1>1, <2>1, <2>2, JustifiedStable DEF RequestInv, Held, Holding
  <2>3. ASSUME req[s].pc = "abandon"
        PROVE  Justified(tx', now', req[s].seen, "abandoned")
    BY <1>1, <2>1, <2>3, JustifiedStable DEF RequestInv, Held, Holding
  <2> QED
    BY <1>1, <2>1, <2>2, <2>3 DEF RequestInv, Held, Auth, Intent
<1>4. Told(s)'
  <2>1. ASSUME req[s].code \in {"settled", "reverted"}
        PROVE  /\ req[req[s].hash].pc # "idle" /\ req[s].hash \in Requests
    <3>1. req[s].hash \in Requests
      BY <1>1, <2>1 DEF RequestInv, Told, Types, ReqRecord
    <3>2. tx[req[s].hash] # "none"
      BY <1>1, <2>1 DEF RequestInv, Told
    <3> QED
      BY <1>1, <3>1, <3>2 DEF Payment
  <2> QED
    BY <1>1, <2>1 DEF RequestInv, Told, Auth, Intent, Progress
<1>5. Reserved(s)'
  <2>1. Sender(s)' <=> Sender(s)
    BY DEF Sender
  <2>2. Sender(s) \/ req[s].pc = "createOperation" => Auth(s) \in Auths
    BY <1>1, RequestTypes DEF RequestInv, Payment, Sender
  <2>3. Auth(s)' = Auth(s) /\ Key(s)' = Key(s)
    BY DEF Auth, Key
  <2>4. Sender(s)' => ops'[Auth(s)] \in Operation
    BY <1>1, <2>1, <2>2 DEF RequestInv, Reserved, Progress
  <2>5. (req[s].pc = "createOperation" \/ Sender(s)) /\ Key(s) \in Keys
        => aliases'[Key(s)] \in Alias /\ aliases'[Key(s)].auth = Auth(s)
    BY <1>1 DEF RequestInv, Reserved, Progress
  <2> QED
    BY <2>1, <2>3, <2>4, <2>5 DEF Reserved
<1>6. InTime(s)'
  <2>1. Live(s)' <=> Live(s)
    BY DEF Live
  <2>2. Working(s)' <=> Working(s)
    BY DEF Working
  <2>3. Auth(s)' = Auth(s)
    BY DEF Auth
  <2>4. Live(s) => req[s].start <= now' /\ now' <= req[s].start + MaxDuration
    <3>1. now \in Nat /\ now <= now' /\ req[s].start \in Nat
      BY <1>1 DEF Types, Progress, ReqRecord
    <3> QED
      BY <1>1, <3>1 DEF RequestInv, InTime
  <2>5. ASSUME Working(s)
        PROVE  ops'[Auth(s)].state # "abandoned" /\ ops'[Auth(s)].createdAt >= req[s].start
    <3>1. Live(s) /\ Sender(s) /\ Auth(s) \in Auths
      <4>1. Live(s) /\ Sender(s) /\ req[s].pc # "idle"
        BY <1>1, <2>5 DEF Working, Live, Awaits, Sender, RequestInv, Held
      <4> QED
        BY <1>1, <4>1, RequestTypes
    <3>2. ops[Auth(s)] \in Operation
      BY <1>1, <3>1 DEF RequestInv, Reserved
    <3>3. /\ now \in Nat /\ req[s].start \in Nat /\ ops[Auth(s)].createdAt \in Nat
          /\ now <= req[s].start + MaxDuration /\ ops[Auth(s)].createdAt >= req[s].start
          /\ ops[Auth(s)].state # "abandoned"
      BY <1>1, <2>5, <3>1, <3>2 DEF RequestInv, InTime, Types, ReqRecord, Operation
    <3>4. ~(ops[Auth(s)].createdAt + PreparedTTL <= now)
      BY <3>3, Assumptions
    <3> QED
      BY <3>1, <3>2, <3>3, <3>4 DEF Progress
  <2> QED
    BY <2>1, <2>2, <2>3, <2>4, <2>5 DEF InTime
<1> QED
  BY <1>2, <1>3, <1>4, <1>5, <1>6 DEF RequestInv

(* A step of one request, once what it does to that request is settled.    *)
LEMMA RequestFrame ==
  ASSUME IInv, Progress, Types', NEW r \in Requests,
         \A s \in Requests \ {r} : req'[s] = req[s] /\ tx'[s] = tx[s],
         now' = now, sweep' = sweep,
         RequestInv(r)', RecordsInv',
         OneSender'
  PROVE  IInv' /\ Progress
<1>1. \A s \in Requests : Payment(s) /\ RequestInv(s)
  BY DEF IInv, RequestInv
<1>2. now \in Nat
  BY DEF IInv, Types
<1>3. ASSUME NEW s \in Requests PROVE RequestInv(s)'
  <2>1. CASE s = r
    BY <2>1
  <2>2. CASE s # r
    <3>1. Live(s) => now' <= req[s].start + MaxDuration
      BY <1>1 DEF RequestInv, InTime
    <3> QED
      BY <1>2, <2>2, <3>1, OtherRequest
  <2> QED
    BY <2>1, <2>2
<1>4. SweepInv'
  <2>1. ASSUME sweep.pc # "pick"
        PROVE  /\ SeenOf(ops', tx', req', sweep.id, sweep.seen)
               /\ Justified(tx', now', sweep.seen, sweep.next)
    <3>1. /\ sweep.id \in Auths /\ SeenOf(ops, tx, req, sweep.id, sweep.seen)
          /\ Justified(tx, now, sweep.seen, sweep.next)
      BY <2>1 DEF IInv, SweepInv
    <3>2. sweep.seen \in Operation
      BY <3>1 DEF SeenOf
    <3> QED
      BY <1>1, <1>2, <3>1, <3>2, SeenStable, JustifiedStable DEF IInv
  <2> QED
    BY <2>1 DEF IInv, SweepInv
<1> QED
  BY <1>3, <1>4 DEF IInv

(* Nobody becomes a sender except at the gate.                             *)
LEMMA SendersStable ==
  ASSUME IInv, Progress, \A s \in Requests : Sender(s)' => Sender(s)
  PROVE  OneSender'
<1>1. ASSUME NEW s \in Requests, Sender(s)
      PROVE  Auth(s)' = Auth(s)
  BY <1>1 DEF IInv, RequestInv, Payment, Sender, Progress, Auth
<1> QED
  BY <1>1 DEF IInv, OneSender

(* Records nobody wrote are still true.                                    *)
LEMMA RecordsStable ==
  ASSUME IInv, Progress, ops' = ops
  PROVE  RecordsInv'
<1>1. \A r \in Requests : Payment(r)
  BY DEF IInv, RequestInv
<1>2. ASSUME NEW a \in Auths, ops[a] \in Operation
      PROVE  Truthful(tx', req', a, ops[a])
  BY <1>1, <1>2, TruthStable DEF IInv, RecordsInv
<1> QED
  BY <1>2 DEF RecordsInv

-----------------------------------------------------------------------------
(* What a request may do to the store: extend it truthfully.               *)
StoreStep ==
  /\ ops' \in [Auths -> Operation \cup {Absent}]
  /\ aliases' \in [Keys -> Alias \cup {Absent}]
  /\ \A a \in Auths : ops[a] \in Operation =>
       /\ ops'[a] \in Operation
       /\ ops'[a].intent = ops[a].intent /\ ops'[a].createdAt = ops[a].createdAt
       /\ ops'[a] # ops[a] =>
            /\ ops'[a].revision = ops[a].revision + 1
            /\ ops[a].state \notin Terminal
            /\ ops[a].hash # NoHash => ops'[a].hash = ops[a].hash
            /\ ops'[a].state = "abandoned" => ops[a].createdAt + PreparedTTL <= now
  /\ \A a \in Auths : ops'[a] \in Operation => Truthful(tx, req, a, ops'[a])
  /\ \A k \in Keys : aliases[k] \in Alias => aliases'[k] = aliases[k]

LEMMA NoStoreStep ==
  ASSUME IInv, UNCHANGED storeVars
  PROVE  StoreStep
BY DEF IInv, Types, RecordsInv, StoreStep, storeVars

(* A key reserved for a payment.                                           *)
LEMMA AliasStep ==
  ASSUME IInv, NEW k \in Keys, NEW a \in Auths, NEW i \in Intents, UNCHANGED ops,
         aliases' = AliasCreated(k, a, i)
  PROVE  /\ StoreStep
         /\ (aliases[k] # Absent => AliasMatches(k, a, i))
              => aliases'[k] \in Alias /\ aliases'[k].auth = a
<1>1. [auth |-> a, intent |-> i] \in Alias
  BY DEF Alias
<1>2. CASE aliases[k] # Absent
  BY <1>2 DEF IInv, Types, RecordsInv, StoreStep, AliasCreated, AliasMatches
<1>3. CASE aliases[k] = Absent
  <2>1. aliases' = [aliases EXCEPT ![k] = [auth |-> a, intent |-> i]]
    BY <1>3 DEF AliasCreated
  <2>2. \A l \in Keys : aliases[l] \in Alias => aliases'[l] = aliases[l]
    BY <1>3, <2>1, RecordAssumption DEF IInv, Types
  <2>3. aliases' \in [Keys -> Alias \cup {Absent}]
    BY <1>1, <2>1 DEF IInv, Types
  <2> QED
    BY <1>1, <2>1, <2>2, <2>3 DEF IInv, Types, RecordsInv, StoreStep
<1> QED
  BY <1>2, <1>3

(* The record of a payment nobody has sent yet.                            *)
LEMMA CreateStep ==
  ASSUME IInv, NEW a \in Auths, NEW i \in Intents, UNCHANGED aliases,
         ops' = Created(a, i)
  PROVE  /\ StoreStep
         /\ ~Exists(a) => /\ ops'[a] = NewOperation(i)
                          /\ SeenOf(ops', tx, req, a, NewOperation(i))
<1>1. NewOperation(i) \in Operation
  BY DEF IInv, Types, NewOperation, Operation, States
<1>2. Truthful(tx, req, a, NewOperation(i))
  BY DEF Truthful, NewOperation
<1>3. CASE Exists(a)
  BY <1>3 DEF IInv, Types, RecordsInv, StoreStep, Created
<1>4. CASE ~Exists(a)
  <2>1. ops' = [ops EXCEPT ![a] = NewOperation(i)]
    BY <1>4 DEF Created
  <2>2. ops[a] \notin Operation
    BY <1>4, RecordAssumption DEF Exists
  <2>3. /\ ops'[a] = NewOperation(i)
        /\ \A b \in Auths \ {a} : ops'[b] = ops[b]
        /\ ops' \in [Auths -> Operation \cup {Absent}]
    BY <1>1, <2>1 DEF IInv, Types
  <2>4. StoreStep
    BY <1>1, <1>2, <2>2, <2>3 DEF IInv, Types, RecordsInv, StoreStep
  <2>5. NewOperation(i).revision \in Nat
    BY <1>1 DEF Operation
  <2> QED
    BY <1>1, <1>2, <2>3, <2>4, <2>5 DEF SeenOf
<1> QED
  BY <1>3, <1>4

(* A transition of a record its caller has seen, with a justified verdict  *)
(* and a hash that is its own.                                             *)
LEMMA MoveStep ==
  ASSUME IInv, NEW a \in Auths, NEW record, NEW next \in States,
         NEW hash \in Requests \cup {NoHash}, NEW ok \in BOOLEAN,
         SeenOf(ops, tx, req, a, record),
         Justified(tx, now, record, next),
         \/ hash \in {NoHash, record.hash}
         \/ /\ record.hash = NoHash /\ next \notin {"confirmed", "reverted"}
            /\ tx[hash] # "none" /\ req[hash].payment.auth = a
            /\ req[hash].payment.intent = record.intent,
         Transition(a, record, next, hash, ok)
  PROVE  /\ StoreStep
         /\ ok => /\ ops'[a].state = next
                  /\ ops'[a].hash = IF hash = NoHash THEN record.hash ELSE hash
                  /\ ops'[a].intent = record.intent
                  /\ ops'[a].createdAt = record.createdAt
                  /\ SeenOf(ops', tx, req, a, ops'[a])
<1>1. /\ ok => CasHolds(a, record) /\ ops' = Moved(a, next, hash)
      /\ ops' = ops \/ (CasHolds(a, record) /\ ops' = Moved(a, next, hash))
      /\ UNCHANGED aliases
  BY DEF Transition
<1>2. CASE ops' = ops /\ ~ok
  BY <1>1, <1>2 DEF IInv, Types, RecordsInv, StoreStep
<1>3. CASE CasHolds(a, record) /\ ops' = Moved(a, next, hash)
  <2> DEFINE new == [state |-> next, revision |-> ops[a].revision + 1,
                     hash |-> IF hash = NoHash THEN ops[a].hash ELSE hash,
                     createdAt |-> ops[a].createdAt, intent |-> ops[a].intent]
  <2>1. record = ops[a] /\ ops[a] \in Operation
    BY <1>3 DEF CasHolds, SeenOf
  <2>2. ops' = [ops EXCEPT ![a] = new]
    BY <1>3 DEF Moved
  <2>3. new \in Operation
    BY <2>1 DEF Operation
  <2>4. /\ ops'[a] = new
        /\ \A b \in Auths \ {a} : ops'[b] = ops[b]
        /\ ops' \in [Auths -> Operation \cup {Absent}]
    BY <2>2, <2>3 DEF IInv, Types
  <2>5. Truthful(tx, req, a, new)
    <3>1. Truthful(tx, req, a, record)
      BY DEF SeenOf
    <3> QED
      BY <2>1, <3>1 DEF Truthful, Justified
  <2>6. /\ new.hash = IF hash = NoHash THEN record.hash ELSE hash
        /\ record.hash # NoHash => new.hash = record.hash
    BY <2>1
  <2>7. StoreStep
    <3>1. next = "abandoned" => ops[a].createdAt + PreparedTTL <= now
      BY <2>1 DEF Justified
    <3>2. ops[a].state \notin Terminal
      BY <2>1 DEF Justified
    <3> HIDE DEF new
    <3>3. /\ new.intent = ops[a].intent /\ new.createdAt = ops[a].createdAt
          /\ new.revision = ops[a].revision + 1 /\ new.state = next
      BY DEF new
    <3> QED
      BY <1>1, <2>1, <2>3, <2>4, <2>5, <2>6, <3>1, <3>2, <3>3
         DEF IInv, Types, RecordsInv, StoreStep
  <2>8. new.revision \in Nat
    BY <2>3 DEF Operation
  <2>9. SeenOf(ops', tx, req, a, ops'[a])
    BY <2>3, <2>4, <2>5, <2>8 DEF SeenOf
  <2> QED
    BY <2>1, <2>4, <2>6, <2>7, <2>9
<1> QED
  BY <1>1, <1>2, <1>3

(* A step of a request that keeps to the store's rules is progress.        *)
LEMMA RequestProgress ==
  ASSUME IInv, NEW r \in Requests, NEW record \in ReqRecord,
         req' = [req EXCEPT ![r] = record],
         req[r].pc # "idle" => record.pc # "idle" /\ record.payment = req[r].payment,
         StoreStep, UNCHANGED <<now, sweep>>,
         tx' = tx \/ (tx[r] = "none" /\ tx' = [tx EXCEPT ![r] = "pending"])
  PROVE  /\ Types' /\ Progress /\ RecordsInv'
         /\ req'[r] = record
         /\ \A s \in Requests \ {r} : req'[s] = req[s] /\ tx'[s] = tx[s]
<1>1. Types'
  BY DEF IInv, Types, StoreStep, TxStates
<1>2. /\ req'[r] = record
      /\ \A s \in Requests \ {r} : req'[s] = req[s] /\ tx'[s] = tx[s]
  BY DEF IInv, Types
<1>3. now \in Nat
  BY DEF IInv, Types
<1>4. \A s \in Requests :
        /\ req[s].pc # "idle" => req'[s].pc # "idle" /\ req'[s].payment = req[s].payment
        /\ tx[s] # "none" => tx'[s] = tx[s]
  BY <1>2 DEF IInv, Types
<1>5. Progress
  BY <1>3, <1>4 DEF StoreStep, Progress
<1>6. RecordsInv'
  <2>1. ASSUME NEW a \in Auths, ops'[a] \in Operation
        PROVE  Truthful(tx', req', a, ops'[a])
    <3>1. Truthful(tx, req, a, ops'[a])
      BY <2>1 DEF StoreStep
    <3>2. \A s \in Requests : Payment(s)
      BY DEF IInv, RequestInv
    <3> QED
      BY <1>5, <2>1, <3>1, <3>2, TruthStable
  <2> QED
    BY <2>1 DEF RecordsInv
<1> QED
  BY <1>1, <1>2, <1>5, <1>6

-----------------------------------------------------------------------------
(* The two ways a request moves: it ends, or it goes on to another await.  *)

LEMMA EndedStep ==
  ASSUME IInv, NEW r \in Requests, Live(r),
         NEW pc \in {"done", "dead"}, NEW code \in Codes, NEW hash \in Requests \cup {NoHash},
         Ended(r, pc, code, hash),
         code # "none" <=> pc = "done",
         code \in {"settled", "reverted"} =>
           /\ hash # NoHash
           /\ tx[hash] = IF code = "settled" THEN "success" ELSE "reverted"
           /\ req[hash].payment.auth = Auth(r) /\ req[hash].payment.intent = Intent(r),
         StoreStep, UNCHANGED <<tx, now, sweep>>
  PROVE  IInv' /\ Progress
<1> DEFINE record == [Idle EXCEPT !.pc = pc, !.payment = req[r].payment, !.code = code,
                                  !.hash = hash]
<1>1. /\ req' = [req EXCEPT ![r] = record]
      /\ record.pc = pc /\ record.payment = req[r].payment /\ record.code = code
      /\ record.hash = hash
  BY DEF Ended, Idle
<1>2. /\ RequestInv(r) /\ Types /\ req[r].pc # "idle" /\ req[r].payment \in Payments
      /\ req[r].payment.signed
  BY DEF IInv, RequestInv, Payment, Live, Awaits
<1>3. record \in ReqRecord
  BY <1>2 DEF ReqRecord, Idle, Outcomes
<1> HIDE DEF record
<1>4. /\ Types' /\ Progress /\ RecordsInv' /\ req'[r] = record
      /\ \A s \in Requests \ {r} : req'[s] = req[s] /\ tx'[s] = tx[s]
  BY <1>1, <1>2, <1>3, RequestProgress
<1>5. req'[r].pc \in {"done", "dead"} /\ tx'[r] = tx[r] /\ Auth(r)' = Auth(r) /\ Key(r)' = Key(r)
      /\ Intent(r)' = Intent(r)
  BY <1>1, <1>4 DEF Auth, Key, Intent
<1>6. Payment(r)' /\ Held(r)' /\ InTime(r)'
  BY <1>1, <1>2, <1>4, <1>5
     DEF Payment, Held, InTime, Unsent, Holding, Live, Awaits, Working
<1>7. Told(r)'
  <2>1. ASSUME code \in {"settled", "reverted"}
        PROVE  hash \in Requests /\ req'[hash].payment = req[hash].payment
    <3>1. hash \in Requests /\ tx[hash] # "none"
      BY <2>1
    <3>2. req[hash].pc # "idle"
      BY <3>1 DEF IInv, RequestInv, Payment
    <3> QED
      BY <1>4, <3>1, <3>2 DEF Progress
  <2> QED
    BY <1>1, <1>2, <1>4, <1>5, <2>1 DEF Told, Auth, Intent
<1>8. Sender(r)' => Sender(r)
  BY <1>5 DEF Sender
<1>9. Reserved(r)'
  <2>1. Sender(r) => Auth(r) \in Auths
    BY <1>2, RequestTypes DEF RequestInv
  <2> QED
    BY <1>2, <1>4, <1>5, <1>8, <2>1 DEF RequestInv, Reserved, Progress
<1>10. OneSender'
  <2>1. \A s \in Requests : Sender(s)' => Sender(s)
    BY <1>4, <1>8 DEF Sender
  <2> QED
    BY <1>4, <2>1, SendersStable
<1> QED
  BY <1>4, <1>6, <1>7, <1>9, <1>10, RequestFrame DEF RequestInv

LEMMA MoveOn ==
  ASSUME IInv, NEW r \in Requests, Live(r), NEW record \in ReqRecord,
         record.pc \in Awaits, record.payment = req[r].payment,
         record.start = req[r].start, record.code = "none",
         req' = [req EXCEPT ![r] = record],
         StoreStep, UNCHANGED <<now, sweep>>,
         tx' = tx \/ (tx[r] = "none" /\ tx' = [tx EXCEPT ![r] = "pending"]),
         record.pc \in {"readAlias", "createAlias", "createAliasOnReplay"} => Key(r) \in Keys,
         record.pc \in Unsent => tx'[r] = "none",
         Held(r)',
         record.pc = "createOperation" /\ Key(r) \in Keys =>
           aliases'[Key(r)] \in Alias /\ aliases'[Key(r)].auth = Auth(r),
         Sender(r)' =>
           \/ Sender(r)
           \/ /\ req[r].pc = "createOperation" /\ ops[Auth(r)] \notin Operation
              /\ ops'[Auth(r)] \in Operation,
         Working(r)' => /\ ops'[Auth(r)].state # "abandoned"
                        /\ ops'[Auth(r)].createdAt >= req[r].start
  PROVE  IInv' /\ Progress
<1>1. /\ RequestInv(r) /\ Types /\ req[r].pc # "idle" /\ req[r].payment \in Payments
      /\ req[r].payment.signed
  BY DEF IInv, RequestInv, Payment, Live, Awaits
<1>2. /\ Types' /\ Progress /\ RecordsInv' /\ req'[r] = record
      /\ \A s \in Requests \ {r} : req'[s] = req[s] /\ tx'[s] = tx[s]
  BY <1>1, RequestProgress DEF Awaits
<1>3. Auth(r)' = Auth(r) /\ Key(r)' = Key(r) /\ Auth(r) \in Auths
  BY <1>1, <1>2, RequestTypes DEF Auth, Key, RequestInv
<1>4. Payment(r)'
  BY <1>1, <1>2, <1>3 DEF Payment, Awaits
<1>5. Told(r)'
  BY <1>2 DEF Told, Awaits
<1>6. Reserved(r)'
  <2>1. Sender(r)' => ops'[Auth(r)] \in Operation
    BY <1>1, <1>2, <1>3 DEF RequestInv, Reserved, Progress
  <2>2. Sender(r)' /\ Key(r) \in Keys =>
          aliases'[Key(r)] \in Alias /\ aliases'[Key(r)].auth = Auth(r)
    BY <1>1, <1>2 DEF RequestInv, Reserved, Progress
  <2> QED
    BY <1>2, <1>3, <2>1, <2>2 DEF Reserved
<1>7. InTime(r)'
  BY <1>1, <1>2, <1>3 DEF RequestInv, InTime, Live
<1>8. OneSender'
  <2>1. ASSUME NEW s \in Requests \ {r}
        PROVE  /\ Sender(s)' <=> Sender(s)
               /\ Auth(s)' = Auth(s)
    BY <1>2 DEF Sender, Auth
  <2>2. ASSUME NEW s \in Requests \ {r}, Sender(s), Sender(r)'
        PROVE  Auth(s) # Auth(r)
    BY <2>2 DEF IInv, OneSender, RequestInv, Reserved
  <2>3. ASSUME NEW s \in Requests, NEW u \in Requests, s # u, Sender(s)', Sender(u)'
        PROVE  Auth(s)' # Auth(u)'
    <3>1. CASE s = r
      BY <1>3, <2>1, <2>2, <2>3, <3>1
    <3>2. CASE u = r
      BY <1>3, <2>1, <2>2, <2>3, <3>2
    <3>3. CASE s # r /\ u # r
      BY <2>1, <2>3, <3>3 DEF IInv, OneSender
    <3> QED
      BY <3>1, <3>2, <3>3
  <2> QED
    BY <2>3 DEF OneSender
<1> QED
  BY <1>2, <1>4, <1>5, <1>6, <1>7, <1>8, RequestFrame DEF RequestInv

(* Answers that claim nothing about the chain.                             *)
LEMMA Refuse ==
  ASSUME IInv, NEW r \in Requests, Live(r), NEW code \in Codes \ {"none", "settled", "reverted"},
         NEW hash \in Requests \cup {NoHash}, Answer(r, code, hash),
         StoreStep, UNCHANGED <<tx, now, sweep>>
  PROVE  IInv' /\ Progress
<1>1. Ended(r, "done", code, hash)
  BY DEF Answer
<1> QED
  BY <1>1, EndedStep

(* Answers from a terminal record repeat what the record says.             *)
LEMMA Replay ==
  ASSUME IInv, NEW r \in Requests, Live(r), NEW record \in Operation,
         record.state \in Terminal, Truthful(tx, req, Auth(r), record),
         record.intent = Intent(r), AnswerFrom(r, record),
         StoreStep, UNCHANGED <<tx, now, sweep>>
  PROVE  IInv' /\ Progress
<1>1. record.hash \in Requests \cup {NoHash}
  BY DEF Operation
<1>2. CASE record.state = "confirmed"
  <2>1. Ended(r, "done", "settled", record.hash)
    BY <1>2 DEF AnswerFrom, Answer
  <2> QED
    BY <1>1, <1>2, <2>1, EndedStep DEF Truthful, Codes
<1>3. CASE record.state = "reverted"
  <2>1. Ended(r, "done", "reverted", record.hash)
    BY <1>3 DEF AnswerFrom, Answer
  <2> QED
    BY <1>1, <1>3, <2>1, EndedStep DEF Truthful, Codes
<1>4. CASE record.state = "abandoned"
  <2>1. Ended(r, "done", "abandoned", record.hash)
    BY <1>4 DEF AnswerFrom, Answer
  <2> QED
    BY <1>1, <1>4, <2>1, EndedStep DEF Codes
<1> QED
  BY <1>2, <1>3, <1>4 DEF Terminal

(* A stored record is one somebody may hold.                               *)
LEMMA StoredSeen ==
  ASSUME IInv, NEW a \in Auths, ops[a] \in Operation
  PROVE  SeenOf(ops, tx, req, a, ops[a])
<1>1. ops[a].revision \in Nat
  BY DEF Operation
<1> QED
  BY <1>1 DEF SeenOf, IInv, RecordsInv

(* What a request holds across a step, whether it held it before or the    *)
(* step put it there.                                                      *)
LEMMA HoldOn ==
  ASSUME IInv, Progress, NEW r \in Requests, Live(r), NEW record,
         req'[r].seen = record, record.intent = Intent(r),
         SeenOf(ops, tx, req, Auth(r), record) \/ SeenOf(ops', tx, req, Auth(r), record)
  PROVE  /\ SeenOf(ops', tx', req', Auth(r)', req'[r].seen)
         /\ req'[r].seen.intent = Intent(r)'
<1>1. \A s \in Requests : Payment(s)
  BY DEF IInv, RequestInv
<1>2. req[r].pc # "idle" /\ Types /\ Payment(r)
  BY <1>1 DEF Live, Awaits, IInv
<1>3. Auth(r) \in Auths /\ Auth(r)' = Auth(r) /\ Intent(r)' = Intent(r)
  BY <1>2, RequestTypes DEF Progress, Auth, Intent
<1>4. SeenOf(ops', tx', req', Auth(r), record)
  <2>1. CASE SeenOf(ops, tx, req, Auth(r), record)
    BY <1>1, <1>3, <2>1, SeenStable
  <2>2. CASE SeenOf(ops', tx, req, Auth(r), record)
    BY <1>1, <2>2, TruthStable DEF SeenOf
  <2> QED
    BY <2>1, <2>2
<1> QED
  BY <1>3, <1>4

-----------------------------------------------------------------------------
(* Each step of a request preserves the invariant.                         *)

LEMMA ReceivePreserves ==
  ASSUME IInv, NEW r \in Requests, NEW p \in Payments, Receive(r, p), UNCHANGED <<now, sweep>>
  PROVE  IInv' /\ Progress
<1> DEFINE record ==
      IF p.signed
      THEN [Idle EXCEPT !.pc = IF p.key = NoKey THEN "readOperation" ELSE "readAlias",
                        !.payment = p, !.start = now]
      ELSE [Idle EXCEPT !.pc = "done", !.payment = p, !.code = "preSettlement"]
<1>1. /\ req' = [req EXCEPT ![r] = record] /\ req[r].pc = "idle" /\ tx' = tx
      /\ UNCHANGED storeVars
  BY DEF Receive
<1>2. /\ now \in Nat /\ MaxDuration \in Nat
      /\ p \in [auth : Auths, intent : Intents, key : Keys \cup {NoKey}, signed : BOOLEAN]
      /\ tx[r] = "none"
  BY <1>1, Assumptions DEF IInv, Types, RequestInv, Payment
<1>3. record \in ReqRecord
  BY <1>2 DEF ReqRecord, Idle, Awaits, Codes, Outcomes
<1>4. /\ record.payment = p /\ record.pc \in {"readOperation", "readAlias", "done"}
      /\ record.pc = "readAlias" => p.key \in Keys
      /\ record.pc \in {"readOperation", "readAlias"} =>
           p.signed /\ record.code = "none" /\ record.start = now
      /\ record.pc = "done" => record.code = "preSettlement"
  BY <1>2 DEF Idle
<1> HIDE DEF record
<1>5. StoreStep
  BY <1>1, NoStoreStep
<1>6. /\ Types' /\ Progress /\ RecordsInv' /\ req'[r] = record
      /\ \A s \in Requests \ {r} : req'[s] = req[s] /\ tx'[s] = tx[s]
  BY <1>1, <1>3, <1>5, RequestProgress
<1>7. RequestInv(r)'
  <2>1. Payment(r)' /\ Held(r)' /\ Told(r)' /\ Reserved(r)' /\ InTime(r)'
    BY <1>1, <1>2, <1>4, <1>6 DEF Payment, Held, Told, Reserved, InTime, Unsent, Holding,
       Awaits, Key, Sender, Live, Working
  <2> QED
    BY <2>1 DEF RequestInv
<1>8. OneSender'
  <2>1. \A s \in Requests : Sender(s)' => Sender(s)
    BY <1>1, <1>2, <1>4, <1>6 DEF Sender
  <2> QED
    BY <1>6, <2>1, SendersStable
<1> QED
  BY <1>6, <1>7, <1>8, RequestFrame

(* What is known of a request at work.                                     *)
LEMMA AtWork ==
  ASSUME IInv, NEW r \in Requests, Live(r)
  PROVE  /\ req[r] \in ReqRecord /\ RequestInv(r) /\ Types
         /\ req[r].pc # "idle" /\ req[r].payment \in Payments /\ req[r].code = "none"
         /\ Auth(r) \in Auths /\ Intent(r) \in Intents /\ Key(r) \in Keys \cup {NoKey}
         /\ NoHash \notin Requests /\ NoKey \notin Keys
<1>1. RequestInv(r) /\ Types /\ req[r].pc # "idle" /\ req[r].payment \in Payments
  BY DEF IInv, RequestInv, Payment, Live, Awaits
<1>2. req[r].code = "none"
  BY <1>1 DEF RequestInv, Told, Live, Awaits
<1> QED
  BY <1>1, <1>2, RequestTypes, Assumptions DEF RequestInv

(* A request that goes on holding nothing.                                 *)
LEMMA GoOn ==
  ASSUME IInv, NEW r \in Requests, Live(r), NEW record \in ReqRecord,
         record.pc \in {"readOperation", "checkNonce", "checkProvider", "createAlias",
                        "createOperation", "reread"},
         record.payment = req[r].payment, record.start = req[r].start, record.code = "none",
         req' = [req EXCEPT ![r] = record],
         StoreStep, UNCHANGED <<tx, now, sweep>>,
         record.pc = "createAlias" => Key(r) \in Keys,
         record.pc # "reread" => tx[r] = "none",
         record.pc = "createOperation" /\ Key(r) \in Keys =>
           aliases'[Key(r)] \in Alias /\ aliases'[Key(r)].auth = Auth(r)
  PROVE  IInv' /\ Progress
<1>1. req'[r] = record
  BY AtWork DEF Types
<1>2. ~Working(r)' /\ Held(r)' /\ (Sender(r)' => Sender(r))
  BY <1>1 DEF Sender, Working, Held, Holding
<1> QED
  BY <1>2, MoveOn DEF Awaits, Unsent

LEMMA ReadAliasPreserves ==
  ASSUME IInv, NEW r \in Requests, ReadAlias(r), UNCHANGED <<now, sweep>>
  PROVE  IInv' /\ Progress
<1>1. Live(r) /\ StoreStep /\ tx' = tx /\ req[r].pc = "readAlias"
  BY NoStoreStep DEF ReadAlias, Live, Awaits
<1>2. CASE Answer(r, "refused", NoHash)
  BY <1>1, <1>2, Refuse DEF Codes
<1>3. CASE req' = [req EXCEPT ![r].pc = "readOperation",
                              ![r].aliased = (aliases[Key(r)] # Absent)]
  <2> DEFINE record == [req[r] EXCEPT !.pc = "readOperation",
                                      !.aliased = (aliases[Key(r)] # Absent)]
  <2>1. record \in ReqRecord /\ tx[r] = "none" /\ req' = [req EXCEPT ![r] = record]
    BY <1>1, <1>3, AtWork DEF ReqRecord, Awaits, RequestInv, Payment, Unsent
  <2>2. /\ record.pc = "readOperation" /\ record.payment = req[r].payment
        /\ record.start = req[r].start /\ record.code = "none"
    BY <1>1, AtWork DEF ReqRecord
  <2> HIDE DEF record
  <2> QED
    BY <1>1, <2>1, <2>2, GoOn
<1> QED
  BY <1>2, <1>3 DEF ReadAlias

(* Goto, where nothing is held.                                            *)
LEMMA GotoPreserves ==
  ASSUME IInv, NEW r \in Requests, Live(r),
         NEW pc \in {"checkProvider", "createAlias", "createOperation"},
         Goto(r, pc), StoreStep, UNCHANGED <<tx, now, sweep>>,
         pc = "createAlias" => Key(r) \in Keys, tx[r] = "none",
         pc = "createOperation" /\ Key(r) \in Keys =>
           aliases'[Key(r)] \in Alias /\ aliases'[Key(r)].auth = Auth(r)
  PROVE  IInv' /\ Progress
<1> DEFINE record == [req[r] EXCEPT !.pc = pc]
<1>1. record \in ReqRecord /\ req' = [req EXCEPT ![r] = record]
  BY AtWork DEF ReqRecord, Awaits, Goto
<1>2. /\ record.pc = pc /\ record.payment = req[r].payment
      /\ record.start = req[r].start /\ record.code = "none"
  BY AtWork DEF ReqRecord
<1> HIDE DEF record
<1> QED
  BY <1>1, <1>2, GoOn

(* Hold, where there is a stored record to go on with.                     *)
LEMMA HoldPreserves ==
  ASSUME IInv, NEW r \in Requests, Live(r), NEW pc \in {"createAliasOnReplay", "resolve"},
         ops[Auth(r)] \in Operation, SameIntent(r),
         Hold(r, pc, ops[Auth(r)]), tx[r] = "none",
         pc = "createAliasOnReplay" => Key(r) \in Keys,
         UNCHANGED <<ops, aliases, tx, now, sweep>>
  PROVE  IInv' /\ Progress
<1> DEFINE record == [req[r] EXCEPT !.pc = pc, !.seen = ops[Auth(r)]]
<1>1. record \in ReqRecord /\ req' = [req EXCEPT ![r] = record]
  BY AtWork DEF ReqRecord, Awaits, Hold
<1>2. /\ record.pc = pc /\ record.payment = req[r].payment /\ record.seen = ops[Auth(r)]
      /\ record.start = req[r].start /\ record.code = "none"
  BY AtWork DEF ReqRecord
<1> HIDE DEF record
<1>3. StoreStep
  BY NoStoreStep DEF storeVars
<1>4. req'[r] = record /\ Progress
  BY <1>1, <1>2, <1>3, RequestProgress, AtWork
<1>5. SeenOf(ops, tx, req, Auth(r), ops[Auth(r)])
  BY StoredSeen, AtWork
<1>6. /\ SeenOf(ops', tx', req', Auth(r)', req'[r].seen)
      /\ req'[r].seen.intent = Intent(r)'
  BY <1>2, <1>4, <1>5, HoldOn DEF SameIntent
<1>7. Held(r)' /\ ~Sender(r)' /\ ~Working(r)'
  BY <1>2, <1>4, <1>6 DEF Held, Sender, Working
<1> QED
  BY <1>1, <1>2, <1>3, <1>7, MoveOn DEF Awaits

LEMMA ReadOperationPreserves ==
  ASSUME IInv, NEW r \in Requests, ReadOperation(r), UNCHANGED <<now, sweep>>
  PROVE  IInv' /\ Progress
<1>1. /\ Live(r) /\ StoreStep /\ UNCHANGED <<ops, aliases, tx>>
      /\ req[r].pc = "readOperation"
  BY NoStoreStep DEF ReadOperation, Live, Awaits, storeVars
<1>2. tx[r] = "none"
  BY <1>1, AtWork DEF RequestInv, Payment, Unsent
<1>3. CASE Answer(r, "refused", NoHash)
  BY <1>1, <1>3, Refuse DEF Codes
<1>4. CASE /\ Exists(Auth(r)) /\ SameIntent(r)
           /\ Hold(r, IF Key(r) # NoKey /\ ~req[r].aliased THEN "createAliasOnReplay"
                      ELSE "resolve", ops[Auth(r)])
  <2>1. ops[Auth(r)] \in Operation
    BY <1>1, <1>4, AtWork DEF Exists, Types
  <2>2. CASE Key(r) # NoKey /\ ~req[r].aliased
    BY <1>1, <1>2, <1>4, <2>1, <2>2, AtWork, HoldPreserves
  <2>3. CASE ~(Key(r) # NoKey /\ ~req[r].aliased)
    BY <1>1, <1>2, <1>4, <2>1, <2>3, AtWork, HoldPreserves
  <2> QED
    BY <2>2, <2>3
<1>5. CASE Hold(r, "checkNonce", Absent)
  <2> DEFINE record == [req[r] EXCEPT !.pc = "checkNonce", !.seen = Absent]
  <2>1. record \in ReqRecord /\ req' = [req EXCEPT ![r] = record]
    BY <1>1, <1>5, AtWork DEF ReqRecord, Awaits, Hold
  <2>2. /\ record.pc = "checkNonce" /\ record.payment = req[r].payment
        /\ record.start = req[r].start /\ record.code = "none"
    BY <1>1, AtWork DEF ReqRecord
  <2> HIDE DEF record
  <2> QED
    BY <1>1, <1>2, <2>1, <2>2, GoOn
<1> QED
  BY <1>3, <1>4, <1>5 DEF ReadOperation

LEMMA CheckNoncePreserves ==
  ASSUME IInv, NEW r \in Requests, CheckNonce(r), UNCHANGED <<now, sweep>>
  PROVE  IInv' /\ Progress
<1>1. Live(r) /\ StoreStep /\ tx' = tx /\ req[r].pc = "checkNonce"
  BY NoStoreStep DEF CheckNonce, Live, Awaits
<1>2. tx[r] = "none"
  BY <1>1, AtWork DEF RequestInv, Payment, Unsent
<1>3. CASE Answer(r, "refused", NoHash)
  BY <1>1, <1>3, Refuse DEF Codes
<1>4. CASE Answer(r, "alreadyUsed", NoHash)
  BY <1>1, <1>4, Refuse DEF Codes
<1>5. CASE Goto(r, "checkProvider")
  BY <1>1, <1>2, <1>5, GotoPreserves
<1> QED
  BY <1>3, <1>4, <1>5 DEF CheckNonce

LEMMA CheckProviderPreserves ==
  ASSUME IInv, NEW r \in Requests, CheckProvider(r), UNCHANGED <<now, sweep>>
  PROVE  IInv' /\ Progress
<1>1. Live(r) /\ StoreStep /\ tx' = tx /\ req[r].pc = "checkProvider"
  BY NoStoreStep DEF CheckProvider, Live, Awaits
<1>2. tx[r] = "none"
  BY <1>1, AtWork DEF RequestInv, Payment, Unsent
<1>3. CASE Answer(r, "preSettlement", NoHash)
  BY <1>1, <1>3, Refuse DEF Codes
<1>4. CASE Answer(r, "refused", NoHash)
  BY <1>1, <1>4, Refuse DEF Codes
<1>5. CASE Goto(r, IF Key(r) = NoKey THEN "createOperation" ELSE "createAlias")
  <2>1. CASE Key(r) = NoKey
    BY <1>1, <1>2, <1>5, <2>1, AtWork, GotoPreserves
  <2>2. CASE Key(r) # NoKey
    BY <1>1, <1>2, <1>5, <2>2, AtWork, GotoPreserves
  <2> QED
    BY <2>1, <2>2
<1> QED
  BY <1>3, <1>4, <1>5 DEF CheckProvider

LEMMA CreateAliasPreserves ==
  ASSUME IInv, NEW r \in Requests, CreateAlias(r), UNCHANGED <<now, sweep>>
  PROVE  IInv' /\ Progress
<1>1. /\ Live(r) /\ UNCHANGED <<ops, tx>>
      /\ req[r].pc \in {"createAlias", "createAliasOnReplay"}
  BY DEF CreateAlias, Live, Awaits
<1>2. tx[r] = "none" /\ Key(r) \in Keys
  BY <1>1, AtWork DEF RequestInv, Payment, Unsent
<1>3. CASE Answer(r, "refused", NoHash)
            /\ aliases' \in {aliases, AliasCreated(Key(r), Auth(r), Intent(r))}
  <2>1. StoreStep
    BY <1>1, <1>2, <1>3, NoStoreStep, AliasStep, AtWork DEF storeVars
  <2> QED
    BY <1>1, <1>3, <2>1, Refuse DEF Codes
<1>4. CASE Answer(r, "refused", NoHash) /\ UNCHANGED aliases
  BY <1>1, <1>4, NoStoreStep, Refuse DEF Codes, storeVars
<1>5. CASE /\ aliases[Key(r)] # Absent => AliasMatches(Key(r), Auth(r), Intent(r))
           /\ aliases' = AliasCreated(Key(r), Auth(r), Intent(r))
           /\ Goto(r, IF req[r].pc = "createAlias" THEN "createOperation" ELSE "resolve")
  <2>1. StoreStep /\ aliases'[Key(r)] \in Alias /\ aliases'[Key(r)].auth = Auth(r)
    BY <1>1, <1>2, <1>5, AliasStep, AtWork
  <2>2. CASE req[r].pc = "createAlias"
    BY <1>1, <1>2, <1>5, <2>1, <2>2, GotoPreserves
  <2>3. CASE req[r].pc = "createAliasOnReplay"
    <3> DEFINE record == [req[r] EXCEPT !.pc = "resolve"]
    <3>1. record \in ReqRecord /\ req' = [req EXCEPT ![r] = record]
      BY <1>1, <1>5, <2>3, AtWork DEF ReqRecord, Awaits, Goto
    <3>2. /\ record.pc = "resolve" /\ record.payment = req[r].payment
          /\ record.seen = req[r].seen /\ record.start = req[r].start /\ record.code = "none"
      BY <1>1, AtWork DEF ReqRecord
    <3> HIDE DEF record
    <3>3. req'[r] = record /\ Progress
      BY <1>1, <2>1, <3>1, <3>2, RequestProgress, AtWork
    <3>4. SeenOf(ops, tx, req, Auth(r), req[r].seen) /\ req[r].seen.intent = Intent(r)
      BY <1>1, <2>3, AtWork DEF RequestInv, Held, Holding
    <3>5. /\ SeenOf(ops', tx', req', Auth(r)', req'[r].seen)
          /\ req'[r].seen.intent = Intent(r)'
      BY <1>1, <3>2, <3>3, <3>4, HoldOn
    <3>6. Held(r)' /\ ~Sender(r)' /\ ~Working(r)'
      BY <1>1, <1>2, <3>2, <3>3, <3>5 DEF Held, Sender, Working
    <3> QED
      BY <1>1, <1>2, <2>1, <3>1, <3>2, <3>6, MoveOn DEF Awaits
  <2> QED
    BY <1>1, <2>2, <2>3
<1> QED
  BY <1>3, <1>4, <1>5 DEF CreateAlias

(* The single-submitter gate: the request that creates the record becomes  *)
(* the only sender of its authorization.                                   *)
LEMMA CreateOperationPreserves ==
  ASSUME IInv, NEW r \in Requests, CreateOperation(r), UNCHANGED <<now, sweep>>
  PROVE  IInv' /\ Progress
<1>1. Live(r) /\ UNCHANGED <<aliases, tx>> /\ req[r].pc = "createOperation"
  BY DEF CreateOperation, Live, Awaits
<1>2. tx[r] = "none"
  BY <1>1, AtWork DEF RequestInv, Payment, Unsent
<1>3. CASE Answer(r, "refused", NoHash) /\ ops' \in {ops, Created(Auth(r), Intent(r))}
  <2>1. StoreStep
    BY <1>1, <1>3, NoStoreStep, CreateStep, AtWork DEF storeVars
  <2> QED
    BY <1>1, <1>3, <2>1, Refuse DEF Codes
<1>4. CASE Exists(Auth(r)) /\ SameIntent(r) /\ Hold(r, "resolve", ops[Auth(r)]) /\ UNCHANGED ops
  <2>1. ops[Auth(r)] \in Operation
    BY <1>1, <1>4, AtWork DEF Exists, Types
  <2> QED
    BY <1>1, <1>2, <1>4, <2>1, HoldPreserves
<1>5. CASE /\ ~Exists(Auth(r))
           /\ ops' = Created(Auth(r), Intent(r))
           /\ Hold(r, "broadcast", NewOperation(Intent(r)))
  <2> DEFINE new == NewOperation(Intent(r))
  <2> DEFINE record == [req[r] EXCEPT !.pc = "broadcast", !.seen = new]
  <2>1. StoreStep /\ ops'[Auth(r)] = new /\ SeenOf(ops', tx, req, Auth(r), new)
    BY <1>1, <1>5, CreateStep, AtWork
  <2>2. new \in Operation /\ new.intent = Intent(r) /\ new.createdAt = now
        /\ new.state = "prepared" /\ new.hash = NoHash
    BY <2>1 DEF SeenOf, NewOperation
  <2> HIDE DEF new
  <2>3. record \in ReqRecord /\ req' = [req EXCEPT ![r] = record]
    BY <1>1, <1>5, <2>2, AtWork DEF ReqRecord, Awaits, Hold, new
  <2>4. /\ record.pc = "broadcast" /\ record.payment = req[r].payment
        /\ record.seen = new /\ record.start = req[r].start /\ record.code = "none"
    BY <1>1, AtWork DEF ReqRecord
  <2> HIDE DEF record
  <2>5. req'[r] = record /\ Progress
    BY <1>1, <2>1, <2>3, <2>4, RequestProgress, AtWork
  <2>6. /\ SeenOf(ops', tx', req', Auth(r)', req'[r].seen)
        /\ req'[r].seen.intent = Intent(r)'
    BY <1>1, <2>1, <2>2, <2>4, <2>5, HoldOn
  <2>7. Held(r)'
    BY <2>2, <2>4, <2>5, <2>6 DEF Held
  <2>8. ops[Auth(r)] \notin Operation /\ ops'[Auth(r)] \in Operation
    BY <1>5, <2>1, <2>2, RecordAssumption DEF Exists
  <2>9. ops'[Auth(r)].state # "abandoned" /\ ops'[Auth(r)].createdAt >= req[r].start
    BY <1>1, <2>1, <2>2, AtWork DEF RequestInv, InTime
  <2> QED
    BY <1>1, <1>2, <2>1, <2>3, <2>4, <2>7, <2>8, <2>9, MoveOn DEF Awaits
<1> QED
  BY <1>3, <1>4, <1>5 DEF CreateOperation

(* A transition that failed is followed by another look at the record.     *)
LEMMA RereadNext ==
  ASSUME IInv, NEW r \in Requests, Live(r), Hold(r, "reread", Absent),
         StoreStep, UNCHANGED <<tx, now, sweep>>
  PROVE  IInv' /\ Progress
<1> DEFINE record == [req[r] EXCEPT !.pc = "reread", !.seen = Absent]
<1>1. record \in ReqRecord /\ req' = [req EXCEPT ![r] = record]
  BY AtWork DEF ReqRecord, Awaits, Hold
<1>2. /\ record.pc = "reread" /\ record.payment = req[r].payment
      /\ record.start = req[r].start /\ record.code = "none"
  BY AtWork DEF ReqRecord
<1> HIDE DEF record
<1> QED
  BY <1>1, <1>2, GoOn

LEMMA BroadcastPreserves ==
  ASSUME IInv, NEW r \in Requests, Broadcast(r), UNCHANGED <<now, sweep>>
  PROVE  IInv' /\ Progress
<1>1. /\ Live(r) /\ UNCHANGED <<ops, aliases>> /\ StoreStep /\ req[r].pc = "broadcast"
  BY NoStoreStep DEF Broadcast, Live, Awaits, storeVars
<1>2. tx[r] = "none" /\ (tx' = tx \/ tx' = [tx EXCEPT ![r] = "pending"])
  BY <1>1, AtWork DEF Broadcast, RequestInv, Payment, Unsent
<1>3. PICK pc \in {"recordHash", "recordUnknown"} :
         Goto(r, pc) /\ (pc = "recordHash" => tx' = [tx EXCEPT ![r] = "pending"])
  BY DEF Broadcast
<1> DEFINE record == [req[r] EXCEPT !.pc = pc]
<1>4. record \in ReqRecord /\ req' = [req EXCEPT ![r] = record]
  BY <1>1, <1>3, AtWork DEF ReqRecord, Awaits, Goto
<1>5. /\ record.pc = pc /\ record.payment = req[r].payment
      /\ record.seen = req[r].seen /\ record.start = req[r].start /\ record.code = "none"
  BY <1>1, AtWork DEF ReqRecord
<1> HIDE DEF record
<1>6. tx[r] = "none"
  BY <1>1, AtWork DEF RequestInv, Payment, Unsent
<1>7. req'[r] = record /\ Progress
  BY <1>1, <1>2, <1>4, <1>5, <1>6, RequestProgress, AtWork
<1>8. /\ SeenOf(ops, tx, req, Auth(r), req[r].seen) /\ req[r].seen.intent = Intent(r)
      /\ req[r].seen.state = "prepared" /\ req[r].seen.hash = NoHash
  BY <1>1, AtWork DEF RequestInv, Held, Holding
<1>9. /\ SeenOf(ops', tx', req', Auth(r)', req'[r].seen)
      /\ req'[r].seen.intent = Intent(r)'
  BY <1>1, <1>5, <1>7, <1>8, HoldOn
<1>10. pc = "recordHash" => tx'[r] # "none"
  BY <1>1, <1>3, AtWork DEF Types
<1>11. Held(r)'
  BY <1>3, <1>5, <1>7, <1>8, <1>9, <1>10 DEF Held
<1>12. /\ Sender(r)
       /\ ops'[Auth(r)].state # "abandoned" /\ ops'[Auth(r)].createdAt >= req[r].start
  BY <1>1, AtWork DEF Sender, RequestInv, InTime, Working
<1> QED
  BY <1>1, <1>2, <1>3, <1>4, <1>5, <1>6, <1>11, <1>12, MoveOn DEF Awaits, Unsent

LEMMA RecordUnknownPreserves ==
  ASSUME IInv, NEW r \in Requests, RecordUnknown(r), UNCHANGED <<now, sweep>>
  PROVE  IInv' /\ Progress
<1>1. Live(r) /\ tx' = tx /\ req[r].pc = "recordUnknown" /\ Answer(r, "pending", NoHash)
  BY DEF RecordUnknown, Live, Awaits
<1>2. PICK ok \in BOOLEAN : Transition(Auth(r), req[r].seen, "unknown", NoHash, ok)
  BY DEF RecordUnknown
<1>3. /\ SeenOf(ops, tx, req, Auth(r), req[r].seen) /\ req[r].seen.state = "prepared"
  BY <1>1, AtWork DEF RequestInv, Held, Holding
<1>4. Justified(tx, now, req[r].seen, "unknown")
  BY <1>3 DEF Justified, Terminal
<1>5. StoreStep
  BY <1>1, <1>2, <1>3, <1>4, MoveStep, AtWork DEF States
<1> QED
  BY <1>1, <1>5, Refuse DEF Codes

LEMMA RecordHashPreserves ==
  ASSUME IInv, NEW r \in Requests, RecordHash(r), UNCHANGED <<now, sweep>>
  PROVE  IInv' /\ Progress
<1>1. Live(r) /\ tx' = tx /\ req[r].pc = "recordHash"
  BY DEF RecordHash, Live, Awaits
<1>2. /\ SeenOf(ops, tx, req, Auth(r), req[r].seen) /\ req[r].seen.intent = Intent(r)
      /\ req[r].seen.state = "prepared" /\ req[r].seen.hash = NoHash /\ tx[r] # "none"
  BY <1>1, AtWork DEF RequestInv, Held, Holding
<1>3. /\ Justified(tx, now, req[r].seen, "submitted")
      /\ req[r].payment.auth = Auth(r) /\ req[r].payment.intent = req[r].seen.intent
  BY <1>2 DEF Justified, Terminal, Auth, Intent
<1>4. CASE /\ Transition(Auth(r), req[r].seen, "submitted", r, TRUE)
           /\ Hold(r, "wait", ops'[Auth(r)])
  <2> DEFINE new == ops'[Auth(r)]
  <2> DEFINE record == [req[r] EXCEPT !.pc = "wait", !.seen = new]
  <2>1. /\ StoreStep /\ new.state = "submitted" /\ new.hash = r
        /\ new.intent = Intent(r) /\ new.createdAt = req[r].seen.createdAt
        /\ SeenOf(ops', tx, req, Auth(r), new)
    <3>1. Auth(r) \in Auths /\ r # NoHash /\ "submitted" \in States
      BY <1>1, AtWork DEF States
    <3>2. /\ StoreStep /\ new.state = "submitted"
          /\ new.hash = IF r = NoHash THEN req[r].seen.hash ELSE r
          /\ new.intent = req[r].seen.intent /\ new.createdAt = req[r].seen.createdAt
          /\ SeenOf(ops', tx, req, Auth(r), new)
      <4>1. PICK ok \in BOOLEAN :
               ok = TRUE /\ Transition(Auth(r), req[r].seen, "submitted", r, ok)
        BY <1>4
      <4>2. /\ req[r].seen.hash = NoHash /\ "submitted" \notin {"confirmed", "reverted"}
            /\ tx[r] # "none" /\ req[r].payment.auth = Auth(r)
            /\ req[r].payment.intent = req[r].seen.intent
        BY <1>2, <1>3
      <4>3. /\ StoreStep
            /\ ok => /\ ops'[Auth(r)].state = "submitted"
                     /\ ops'[Auth(r)].hash = IF r = NoHash THEN req[r].seen.hash ELSE r
                     /\ ops'[Auth(r)].intent = req[r].seen.intent
                     /\ ops'[Auth(r)].createdAt = req[r].seen.createdAt
                     /\ SeenOf(ops', tx, req, Auth(r), ops'[Auth(r)])
        BY <1>2, <1>3, <3>1, <4>1, <4>2, MoveStep
      <4> QED
        BY <4>1, <4>3
    <3> QED
      BY <1>2, <3>1, <3>2
  <2>2. new \in Operation
    BY <2>1 DEF SeenOf
  <2>3. new.createdAt >= req[r].start
    BY <1>1, <1>2, <2>1, AtWork DEF RequestInv, InTime, Working, SeenOf
  <2>4. req' = [req EXCEPT ![r] = record]
    BY <1>4 DEF Hold
  <2> HIDE DEF new
  <2>5. record \in ReqRecord
    BY <1>1, <2>2, AtWork DEF ReqRecord, Awaits
  <2>6. /\ record.pc = "wait" /\ record.payment = req[r].payment
        /\ record.seen = new /\ record.start = req[r].start /\ record.code = "none"
    BY <1>1, AtWork DEF ReqRecord
  <2> HIDE DEF record
  <2>7. req'[r] = record /\ Progress
    BY <1>1, <2>1, <2>4, <2>5, <2>6, RequestProgress, AtWork
  <2>8. /\ SeenOf(ops', tx', req', Auth(r)', req'[r].seen)
        /\ req'[r].seen.intent = Intent(r)'
    BY <1>1, <2>1, <2>6, <2>7, HoldOn
  <2>9. Held(r)'
    BY <1>1, <1>2, <2>1, <2>6, <2>7, <2>8 DEF Held
  <2>10. Sender(r)
    BY <1>2 DEF Sender
  <2>11. ops'[Auth(r)].state # "abandoned" /\ ops'[Auth(r)].createdAt >= req[r].start
    BY <2>1, <2>3 DEF new
  <2> QED
    BY <1>1, <2>1, <2>4, <2>5, <2>6, <2>9, <2>10, <2>11, MoveOn DEF Awaits, Unsent
<1>5. CASE /\ Transition(Auth(r), req[r].seen, "submitted", r, FALSE)
           /\ Hold(r, "reread", Absent)
  <2>1. StoreStep
    BY <1>1, <1>2, <1>3, <1>5, MoveStep, AtWork DEF States
  <2> QED
    BY <1>1, <1>5, <2>1, RereadNext
<1> QED
  BY <1>4, <1>5 DEF RecordHash

(* A record whose window is over is at least PreparedTTL old.              *)
LEMMA StaleJustifies ==
  ASSUME Types, NEW record \in Operation, Stale(record), record.state \notin Terminal
  PROVE  Justified(tx, now, record, "abandoned")
<1>1. now \in Nat /\ record.createdAt \in Nat
  BY DEF Types, Operation
<1>2. Window(record) \in {PreparedTTL, SubmittedTTL}
  BY DEF Window
<1>3. record.createdAt + PreparedTTL <= now
  BY <1>1, <1>2, Assumptions DEF Stale
<1> QED
  BY <1>3 DEF Justified

OutcomeNext(r, next) == req' = [req EXCEPT ![r].pc = "recordOutcome", ![r].next = next]

(* A request that learnt an outcome goes on to record it.                  *)
LEMMA OutcomeStep ==
  ASSUME IInv, NEW r \in Requests, Live(r),
         NEW next \in {"confirmed", "reverted", "unknown"}, OutcomeNext(r, next),
         UNCHANGED <<ops, aliases, tx, now, sweep>>,
         SeenOf(ops, tx, req, Auth(r), req[r].seen), req[r].seen.intent = Intent(r),
         req[r].seen.hash # NoHash, Justified(tx, now, req[r].seen, next),
         tx[r] # "none" => Working(r)
  PROVE  IInv' /\ Progress
<1> DEFINE record == [req[r] EXCEPT !.pc = "recordOutcome", !.next = next]
<1>1. req' = [req EXCEPT ![r] = record]
  BY AtWork DEF OutcomeNext
<1>2. record \in ReqRecord
  BY AtWork DEF ReqRecord, Awaits, Outcomes
<1>3. /\ record.pc = "recordOutcome" /\ record.payment = req[r].payment /\ record.next = next
      /\ record.seen = req[r].seen /\ record.start = req[r].start /\ record.code = "none"
  BY AtWork DEF ReqRecord
<1> HIDE DEF record
<1>4. StoreStep
  BY NoStoreStep DEF storeVars
<1>5. req'[r] = record /\ Progress
  BY <1>1, <1>2, <1>3, <1>4, RequestProgress, AtWork
<1>6. /\ SeenOf(ops', tx', req', Auth(r)', req'[r].seen)
      /\ req'[r].seen.intent = Intent(r)'
  BY <1>3, <1>5, HoldOn
<1>7. Held(r)'
  BY <1>3, <1>5, <1>6 DEF Held
<1>8. Sender(r)' => Sender(r)
  BY <1>3, <1>5 DEF Sender
<1>9. Working(r)' => Working(r)
  BY <1>3, <1>5 DEF Working
<1>10. Working(r) => /\ ops'[Auth(r)].state # "abandoned"
                     /\ ops'[Auth(r)].createdAt >= req[r].start
  BY AtWork DEF RequestInv, InTime
<1> QED
  BY <1>1, <1>2, <1>3, <1>4, <1>7, <1>8, <1>9, <1>10, MoveOn DEF Awaits, Unsent

LEMMA WaitPreserves ==
  ASSUME IInv, NEW r \in Requests, Wait(r), UNCHANGED <<now, sweep>>
  PROVE  IInv' /\ Progress
<1>1. /\ Live(r) /\ UNCHANGED <<ops, aliases, tx>> /\ StoreStep /\ req[r].pc = "wait"
  BY NoStoreStep DEF Wait, Live, Awaits, storeVars
<1>2. PICK next \in {Outcome(r), "unknown"} \ {"none"} :
         req' = [req EXCEPT ![r].pc = "recordOutcome", ![r].next = next]
  BY DEF Wait
<1>3. /\ SeenOf(ops, tx, req, Auth(r), req[r].seen) /\ req[r].seen.intent = Intent(r)
      /\ req[r].seen.state = "submitted" /\ req[r].seen.hash = r /\ tx[r] # "none"
      /\ req[r].seen \in Operation
  BY <1>1, AtWork DEF RequestInv, Held, Holding, SeenOf
<1>4. /\ next \in {"confirmed", "reverted", "unknown"}
      /\ Justified(tx, now, req[r].seen, next)
  BY <1>1, <1>2, <1>3, AtWork DEF Outcome, Justified, Terminal
<1>5. OutcomeNext(r, next)
  BY <1>2 DEF OutcomeNext
<1>6. Working(r)
  BY <1>1 DEF Working
<1> QED
  BY <1>1, <1>3, <1>4, <1>5, <1>6, OutcomeStep, AtWork

LEMMA ResolvePreserves ==
  ASSUME IInv, NEW r \in Requests, Resolve(r), UNCHANGED <<now, sweep>>
  PROVE  IInv' /\ Progress
<1> DEFINE held == req[r].seen
<1>1. /\ Live(r) /\ UNCHANGED <<ops, aliases, tx>> /\ StoreStep /\ req[r].pc = "resolve"
  BY NoStoreStep DEF Resolve, Live, Awaits, storeVars
<1>2. /\ SeenOf(ops, tx, req, Auth(r), held) /\ held.intent = Intent(r)
      /\ held \in Operation /\ Truthful(tx, req, Auth(r), held)
      /\ held.hash \in Requests \cup {NoHash} /\ tx[r] = "none"
  BY <1>1, AtWork DEF RequestInv, Held, Holding, SeenOf, Operation, Payment, Unsent
<1>3. CASE held.state \in Terminal /\ AnswerFrom(r, held)
  BY <1>1, <1>2, <1>3, Replay
<1>4. CASE Answer(r, "pending", held.hash)
  BY <1>1, <1>2, <1>4, Refuse DEF Codes
<1>5. CASE held.state \notin Terminal /\ Stale(held) /\ Goto(r, "abandon")
  <2> DEFINE record == [req[r] EXCEPT !.pc = "abandon"]
  <2>1. record \in ReqRecord /\ req' = [req EXCEPT ![r] = record]
    BY <1>1, <1>5, AtWork DEF ReqRecord, Awaits, Goto
  <2>2. /\ record.pc = "abandon" /\ record.payment = req[r].payment
        /\ record.seen = held /\ record.start = req[r].start /\ record.code = "none"
    BY <1>1, AtWork DEF ReqRecord
  <2> HIDE DEF record
  <2>3. req'[r] = record /\ Progress
    BY <1>1, <2>1, <2>2, RequestProgress, AtWork
  <2>4. /\ SeenOf(ops', tx', req', Auth(r)', req'[r].seen)
        /\ req'[r].seen.intent = Intent(r)'
    BY <1>1, <1>2, <2>2, <2>3, HoldOn
  <2>5. Justified(tx, now, held, "abandoned")
    BY <1>2, <1>5, StaleJustifies DEF IInv
  <2>6. Held(r)' /\ ~Sender(r)' /\ ~Working(r)'
    BY <1>1, <1>2, <2>2, <2>3, <2>4, <2>5 DEF Held, Sender, Working
  <2> QED
    BY <1>1, <1>2, <2>1, <2>2, <2>6, MoveOn DEF Awaits
<1>6. CASE /\ held.state \notin Terminal /\ held.hash # NoHash /\ Outcome(held.hash) # "none"
           /\ req' = [req EXCEPT ![r].pc = "recordOutcome", ![r].next = Outcome(held.hash)]
  <2>1. /\ Outcome(held.hash) \in {"confirmed", "reverted"}
        /\ Justified(tx, now, held, Outcome(held.hash))
    BY <1>6 DEF Outcome, Justified
  <2>2. OutcomeNext(r, Outcome(held.hash))
    BY <1>6 DEF OutcomeNext
  <2> QED
    BY <1>1, <1>2, <1>6, <2>1, <2>2, OutcomeStep
<1> QED
  BY <1>3, <1>4, <1>5, <1>6 DEF Resolve

LEMMA RecordOutcomePreserves ==
  ASSUME IInv, NEW r \in Requests, RecordOutcome(r), UNCHANGED <<now, sweep>>
  PROVE  IInv' /\ Progress
<1> DEFINE held == req[r].seen
<1> DEFINE next == req[r].next
<1>1. Live(r) /\ UNCHANGED tx /\ req[r].pc = "recordOutcome"
  BY DEF RecordOutcome, Live, Awaits
<1>2. /\ SeenOf(ops, tx, req, Auth(r), held) /\ held.intent = Intent(r)
      /\ held \in Operation /\ Truthful(tx, req, Auth(r), held)
      /\ next \in {"confirmed", "reverted", "unknown"}
      /\ Justified(tx, now, held, next)
      /\ held.hash \in Requests
  BY <1>1, AtWork DEF RequestInv, Held, Holding, SeenOf, Operation
<1> HIDE DEF held, next
<1>3. StoreStep
  <2>1. PICK ok \in BOOLEAN : Transition(Auth(r), held, next, held.hash, ok)
    BY DEF RecordOutcome, held, next
  <2>2. /\ Auth(r) \in Auths /\ next \in States
        /\ held.hash \in Requests \cup {NoHash} /\ held.hash \in {NoHash, held.hash}
    BY <1>1, <1>2, AtWork DEF States, Terminal
  <2> QED
    BY <1>2, <2>1, <2>2, MoveStep
<1>4. CASE Answer(r, CASE next = "confirmed" -> "settled"
                       [] next = "reverted" -> "reverted"
                       [] next = "unknown" -> "pending", held.hash)
  <2>1. req[held.hash].payment.auth = Auth(r) /\ req[held.hash].payment.intent = Intent(r)
    BY <1>1, <1>2, AtWork DEF Truthful
  <2>2. CASE next = "confirmed"
    <3>1. Ended(r, "done", "settled", held.hash) /\ tx[held.hash] = "success"
      BY <1>2, <1>4, <2>2 DEF Answer, Justified
    <3> QED
      BY <1>1, <1>2, <1>3, <2>1, <3>1, EndedStep, AtWork DEF Codes
  <2>3. CASE next = "reverted"
    <3>1. Ended(r, "done", "reverted", held.hash) /\ tx[held.hash] = "reverted"
      BY <1>2, <1>4, <2>3 DEF Answer, Justified
    <3> QED
      BY <1>1, <1>2, <1>3, <2>1, <3>1, EndedStep, AtWork DEF Codes
  <2>4. CASE next = "unknown"
    <3>1. Answer(r, "pending", held.hash)
      BY <1>4, <2>4
    <3> QED
      BY <1>1, <1>2, <1>3, <3>1, Refuse DEF Codes
  <2> QED
    BY <1>2, <2>2, <2>3, <2>4
<1>5. CASE Hold(r, "reread", Absent)
  BY <1>1, <1>3, <1>5, RereadNext
<1> QED
  BY <1>4, <1>5 DEF RecordOutcome, held, next

LEMMA AbandonPreserves ==
  ASSUME IInv, NEW r \in Requests, Abandon(r), UNCHANGED <<now, sweep>>
  PROVE  IInv' /\ Progress
<1> DEFINE held == req[r].seen
<1>1. Live(r) /\ UNCHANGED tx /\ req[r].pc = "abandon"
  BY DEF Abandon, Live, Awaits
<1>2. /\ SeenOf(ops, tx, req, Auth(r), held) /\ Justified(tx, now, held, "abandoned")
      /\ held.hash \in Requests \cup {NoHash}
  BY <1>1, AtWork DEF RequestInv, Held, Holding, SeenOf, Operation
<1>3. PICK ok \in BOOLEAN :
         /\ Transition(Auth(r), held, "abandoned", NoHash, ok)
         /\ Answer(r, IF ok THEN "abandoned" ELSE "pending", held.hash)
  BY DEF Abandon
<1> HIDE DEF held
<1>4. StoreStep
  BY <1>1, <1>2, <1>3, MoveStep, AtWork DEF States, Terminal
<1>5. PICK code \in {"abandoned", "pending"} : Answer(r, code, held.hash)
  BY <1>3
<1> QED
  BY <1>1, <1>2, <1>4, <1>5, Refuse DEF Codes

LEMMA RereadPreserves ==
  ASSUME IInv, NEW r \in Requests, Reread(r), UNCHANGED <<now, sweep>>
  PROVE  IInv' /\ Progress
<1>1. /\ Live(r) /\ UNCHANGED <<ops, aliases, tx>> /\ StoreStep
  BY NoStoreStep DEF Reread, Live, Awaits, storeVars
<1>2. CASE Answer(r, "pending", NoHash)
  BY <1>1, <1>2, Refuse DEF Codes
<1>3. CASE /\ Exists(Auth(r)) /\ SameIntent(r)
           /\ ops[Auth(r)].state \in {"confirmed", "reverted"}
           /\ AnswerFrom(r, ops[Auth(r)])
  <2>1. ops[Auth(r)] \in Operation /\ Auth(r) \in Auths
    BY <1>1, <1>3, AtWork DEF Exists, Types
  <2>2. Truthful(tx, req, Auth(r), ops[Auth(r)])
    BY <2>1 DEF IInv, RecordsInv
  <2> QED
    BY <1>1, <1>3, <2>1, <2>2, Replay DEF SameIntent, Terminal
<1> QED
  BY <1>2, <1>3 DEF Reread

LEMMA DiePreserves ==
  ASSUME IInv, NEW r \in Requests, Die(r), UNCHANGED <<now, sweep>>
  PROVE  IInv' /\ Progress
<1>1. StoreStep /\ tx' = tx /\ Live(r) /\ Ended(r, "dead", "none", NoHash)
  BY NoStoreStep DEF Die
<1> QED
  BY <1>1, EndedStep DEF Codes

LEMMA RequestPreserves ==
  ASSUME IInv, NEW r \in Requests, RequestStep(r), UNCHANGED <<now, sweep>>
  PROVE  IInv' /\ Progress
BY ReceivePreserves, ReadAliasPreserves, ReadOperationPreserves, CheckNoncePreserves,
   CheckProviderPreserves, CreateAliasPreserves, CreateOperationPreserves,
   BroadcastPreserves, RecordUnknownPreserves, RecordHashPreserves, WaitPreserves,
   ResolvePreserves, RecordOutcomePreserves, AbandonPreserves, RereadPreserves, DiePreserves
   DEF RequestStep

-----------------------------------------------------------------------------
(* The sweep, the chain and the clock.                                     *)

LEMMA EnvironmentFrame ==
  ASSUME IInv, Progress, Types', req' = req, now' \in Nat,
         \A s \in Requests : tx'[s] = "none" <=> tx[s] = "none",
         \A s \in Requests : Live(s) => now' <= req[s].start + MaxDuration,
         RecordsInv', SweepInv'
  PROVE  IInv' /\ Progress
<1>1. ASSUME NEW s \in Requests PROVE RequestInv(s)'
  BY OtherRequest
<1>2. OneSender'
  <2>1. \A s \in Requests : (Sender(s)' <=> Sender(s)) /\ Auth(s)' = Auth(s)
    BY DEF Sender, Auth
  <2> QED
    BY <2>1 DEF IInv, OneSender
<1> QED
  BY <1>1, <1>2 DEF IInv

(* The record in the sweep's hands is still one that was stored.           *)
LEMMA SweepCarries ==
  ASSUME IInv, Progress, now' \in Nat, sweep' = sweep
  PROVE  SweepInv'
<1>1. ASSUME sweep.pc # "pick"
      PROVE  /\ SeenOf(ops', tx', req', sweep.id, sweep.seen)
             /\ Justified(tx', now', sweep.seen, sweep.next)
  <2>1. /\ sweep.id \in Auths /\ SeenOf(ops, tx, req, sweep.id, sweep.seen)
        /\ Justified(tx, now, sweep.seen, sweep.next)
    BY <1>1 DEF IInv, SweepInv
  <2>2. sweep.seen \in Operation /\ \A s \in Requests : Payment(s)
    BY <2>1 DEF SeenOf, IInv, RequestInv
  <2> QED
    BY <2>1, <2>2, SeenStable, JustifiedStable DEF IInv
<1> QED
  BY <1>1 DEF IInv, SweepInv

LEMMA SweepProgress ==
  ASSUME IInv, StoreStep, UNCHANGED <<now, req, tx>>, sweep' \in SweepRecord, SweepInv'
  PROVE  IInv' /\ Progress
<1>1. now \in Nat /\ Types'
  BY DEF IInv, Types, StoreStep
<1>2. Progress /\ RecordsInv'
  BY <1>1 DEF StoreStep, Progress, RecordsInv
<1>3. \A s \in Requests : Live(s) => now' <= req[s].start + MaxDuration
  BY DEF IInv, RequestInv, InTime
<1> QED
  BY <1>1, <1>2, <1>3, EnvironmentFrame

LEMMA SkipPreserves ==
  ASSUME IInv, StoreStep, UNCHANGED <<now, req, tx>>, Skip
  PROVE  IInv' /\ Progress
<1>1. sweep' \in SweepRecord /\ SweepInv'
  BY DEF Skip, SweepRecord, Outcomes, SweepInv
<1> QED
  BY <1>1, SweepProgress

LEMMA SweepReadPreserves ==
  ASSUME IInv, NEW a \in Auths, SweepRead(a), UNCHANGED <<now, req>>
  PROVE  IInv' /\ Progress
<1>1. /\ UNCHANGED <<ops, aliases, tx>> /\ StoreStep
      /\ ops[a] \in Operation /\ ops[a].state \notin Terminal
  BY NoStoreStep DEF SweepRead, storeVars, IInv, Types, Exists
<1>2. PICK next \in {"none", "abandoned"} :
         /\ next = "abandoned" => Stale(ops[a])
         /\ ops[a].hash = NoHash => next = "abandoned"
         /\ sweep' = [sweep EXCEPT !.pc = IF ops[a].hash = NoHash THEN "write" ELSE "receipt",
                                   !.id = a, !.seen = ops[a], !.next = next]
  BY DEF SweepRead
<1>3. PICK pc \in {"write", "receipt"} :
         /\ pc = "write" <=> ops[a].hash = NoHash
         /\ sweep' = [sweep EXCEPT !.pc = pc, !.id = a, !.seen = ops[a], !.next = next]
  BY <1>2
<1>4. sweep \in SweepRecord
  BY DEF IInv, Types
<1>5. /\ sweep' \in SweepRecord
      /\ sweep'.pc = pc /\ sweep'.id = a /\ sweep'.seen = ops[a] /\ sweep'.next = next
  BY <1>1, <1>3, <1>4 DEF SweepRecord, Outcomes
<1>6. Justified(tx, now, ops[a], next)
  <2>1. CASE next = "none"
    BY <1>1, <2>1 DEF Justified
  <2>2. CASE next = "abandoned"
    BY <1>1, <1>2, <2>2, StaleJustifies DEF IInv
  <2> QED
    BY <2>1, <2>2
<1>7. SweepInv'
  BY <1>1, <1>2, <1>3, <1>5, <1>6, StoredSeen DEF SweepInv
<1> QED
  BY <1>1, <1>5, <1>7, SweepProgress

LEMMA SweepReceiptPreserves ==
  ASSUME IInv, NEW a \in Auths, SweepReceipt(a), UNCHANGED <<now, req>>
  PROVE  IInv' /\ Progress
<1>1. UNCHANGED <<ops, aliases, tx>> /\ StoreStep /\ sweep.pc = "receipt"
  BY NoStoreStep DEF SweepReceipt, storeVars
<1>2. PICK next \in {"abandoned", "confirmed", "reverted"} :
         /\ next = "abandoned" => sweep.next = "abandoned"
         /\ next # "abandoned" => next = Outcome(sweep.seen.hash)
         /\ sweep' = [sweep EXCEPT !.pc = "write", !.next = next]
  BY DEF SweepReceipt, Outcome
<1>3. sweep \in SweepRecord
  BY DEF IInv, Types
<1>4. /\ sweep' \in SweepRecord
      /\ sweep'.pc = "write" /\ sweep'.id = sweep.id /\ sweep'.seen = sweep.seen
      /\ sweep'.next = next
  BY <1>2, <1>3 DEF SweepRecord, Outcomes
<1>5. /\ sweep.id \in Auths /\ SeenOf(ops, tx, req, sweep.id, sweep.seen)
      /\ sweep.seen.state \notin Terminal /\ sweep.seen.hash # NoHash
      /\ Justified(tx, now, sweep.seen, sweep.next)
  BY <1>1 DEF IInv, SweepInv
<1>6. Justified(tx, now, sweep.seen, next)
  <2>1. CASE next = "abandoned"
    BY <1>2, <1>5, <2>1
  <2>2. CASE next # "abandoned"
    BY <1>2, <1>5, <2>2 DEF Justified, Outcome
  <2> QED
    BY <2>1, <2>2
<1>7. SweepInv'
  BY <1>1, <1>4, <1>5, <1>6 DEF SweepInv
<1> QED
  BY <1>1, <1>4, <1>7, SweepProgress

LEMMA SweepWritePreserves ==
  ASSUME IInv, NEW a \in Auths, NEW ok \in BOOLEAN, SweepWrite(a, ok), UNCHANGED <<now, req>>
  PROVE  IInv' /\ Progress
<1>1. /\ Transition(a, sweep.seen, sweep.next, sweep.seen.hash, ok) /\ Skip /\ tx' = tx
      /\ sweep.pc = "write" /\ sweep.id = a
  BY DEF SweepWrite
<1>2. /\ SeenOf(ops, tx, req, a, sweep.seen)
      /\ Justified(tx, now, sweep.seen, sweep.next)
      /\ sweep.next \in States /\ sweep.seen.hash \in Requests \cup {NoHash}
      /\ sweep.seen.hash \in {NoHash, sweep.seen.hash}
  BY <1>1 DEF IInv, SweepInv, States, Terminal, SeenOf, Operation
<1>3. StoreStep
  BY <1>1, <1>2, MoveStep
<1> QED
  BY <1>1, <1>3, SkipPreserves

LEMMA MinePreserves ==
  ASSUME IInv, NEW r \in Requests, Mine(r), UNCHANGED <<now, req, sweep>>
  PROVE  IInv' /\ Progress
<1>1. /\ tx[r] = "pending" /\ UNCHANGED <<ops, aliases>>
      /\ tx' = [tx EXCEPT ![r] = "success"] \/ tx' = [tx EXCEPT ![r] = "reverted"]
  BY DEF Mine, storeVars
<1>2. Types' /\ now \in Nat
  BY <1>1 DEF IInv, Types, TxStates
<1>3. /\ \A s \in Requests : tx'[s] = "none" <=> tx[s] = "none"
      /\ \A s \in Requests : tx[s] \in {"success", "reverted"} => tx'[s] = tx[s]
  BY <1>1 DEF IInv, Types
<1>4. Progress
  BY <1>1, <1>2, <1>3 DEF Progress
<1>5. SweepInv'
  BY <1>2, <1>4, SweepCarries
<1>6. RecordsInv'
  BY <1>1, <1>4, RecordsStable
<1>7. \A s \in Requests : Live(s) => now' <= req[s].start + MaxDuration
  BY DEF IInv, RequestInv, InTime
<1> QED
  BY <1>2, <1>3, <1>4, <1>5, <1>6, <1>7, EnvironmentFrame

(* Nobody outlives MaxDuration, which is shorter than any window.          *)
LEMMA TickPreserves ==
  ASSUME IInv, Tick, UNCHANGED <<storeVars, req, tx, sweep>>
  PROVE  IInv' /\ Progress
<1>1. UNCHANGED <<ops, aliases>> /\ now \in Nat /\ now < MaxTime /\ now' = now + 1
  BY DEF Tick, storeVars, IInv, Types
<1>2. Types' /\ now' \in Nat
  BY <1>1, Assumptions DEF IInv, Types
<1>3. Progress
  BY <1>1 DEF Progress
<1>4. SweepInv' /\ RecordsInv'
  BY <1>1, <1>2, <1>3, SweepCarries, RecordsStable
<1>5. ASSUME NEW s \in Requests, Live(s)
      PROVE  now' <= req[s].start + MaxDuration
  <2>1. now - req[s].start < MaxDuration /\ req[s].start \in Nat
    BY <1>5 DEF Tick, IInv, Types, ReqRecord
  <2> QED
    BY <1>1, <2>1, Assumptions
<1> QED
  BY <1>2, <1>3, <1>4, <1>5, EnvironmentFrame

-----------------------------------------------------------------------------
LEMMA InitInv ==
  ASSUME CallServiceInit
  PROVE  IInv
<1>1. Types
  BY Assumptions DEF CallServiceInit, StoreInit, Idle, Types, ReqRecord, SweepRecord, TxStates,
     Codes, Outcomes
<1>2. \A r \in Requests : req[r].pc = "idle" /\ req[r].code = "none" /\ tx[r] = "none"
  BY DEF CallServiceInit, Idle
<1>3. \A a \in Auths : ops[a] \notin Operation
  BY RecordAssumption DEF CallServiceInit, StoreInit
<1>4. ASSUME NEW r \in Requests PROVE RequestInv(r)
  BY <1>2 DEF RequestInv, Payment, Held, Told, Reserved, InTime, Awaits, Holding, Sender, Live,
     Working
<1>5. RecordsInv /\ OneSender /\ SweepInv
  BY <1>2, <1>3 DEF RecordsInv, OneSender, Sender, SweepInv, CallServiceInit
<1> QED
  BY <1>1, <1>4, <1>5 DEF IInv

LEMMA StepInv ==
  ASSUME IInv, [CallServiceNext]_callServiceVars
  PROVE  IInv' /\ Progress
<1>1. ASSUME NEW r \in Requests, RequestStep(r), UNCHANGED <<now, sweep>>
      PROVE  IInv' /\ Progress
  BY <1>1, RequestPreserves
<1>2. CASE SweepGivesUp /\ UNCHANGED <<now, req>>
  BY <1>2, NoStoreStep, SkipPreserves DEF SweepGivesUp
<1>3. ASSUME NEW a \in Auths, SweepStep(a), UNCHANGED <<now, req>>
      PROVE  IInv' /\ Progress
  BY <1>3, SweepReadPreserves, SweepReceiptPreserves, SweepWritePreserves DEF SweepStep
<1>4. ASSUME NEW r \in Requests, Mine(r), UNCHANGED <<now, req, sweep>>
      PROVE  IInv' /\ Progress
  BY <1>4, MinePreserves
<1>5. CASE Tick /\ UNCHANGED <<storeVars, req, tx, sweep>>
  BY <1>5, TickPreserves
<1>6. CASE UNCHANGED callServiceVars
  <2>1. UNCHANGED <<ops, aliases, now, req, tx, sweep>> /\ now \in Nat
    BY <1>6 DEF callServiceVars, storeVars, IInv, Types
  <2>2. StoreStep /\ sweep' \in SweepRecord
    BY <2>1, NoStoreStep DEF storeVars, IInv, Types
  <2>3. Progress
    BY <2>1 DEF Progress, IInv, Types
  <2>4. SweepInv'
    BY <2>1, <2>3, SweepCarries
  <2> QED
    BY <2>1, <2>2, <2>4, SweepProgress
<1> QED
  BY <1>1, <1>2, <1>3, <1>4, <1>5, <1>6 DEF CallServiceNext

(* What requests, the sweep and the store agree on in every reachable      *)
(* state: handles are the stored record or older, verdicts are justified,  *)
(* a broadcast is preceded by its record and its key.                      *)
THEOREM Invariant == CallServiceSpec => []IInv
<1>1. CallServiceInit => IInv
  BY InitInv
<1>2. IInv /\ [CallServiceNext]_callServiceVars => IInv'
  BY StepInv
<1> QED
  BY <1>1, <1>2, PTL DEF CallServiceSpec

(* Requests, records and the sweep keep their shapes, and exactly the      *)
(* requests that are done have an answer.                                  *)
THEOREM TypeCorrect == CallServiceSpec => []CallServiceTypeOK
<1>1. IInv => CallServiceTypeOK
  <2> SUFFICES ASSUME IInv PROVE CallServiceTypeOK
    OBVIOUS
  <2>1. ASSUME NEW r \in Requests
        PROVE  /\ req[r].pc \in Awaits \cup {"idle", "done", "dead"} /\ req[r].code \in Codes
               /\ req[r].seen \in Operation \cup {Absent}
               /\ req[r].code # "none" <=> req[r].pc = "done"
    BY DEF IInv, Types, ReqRecord, RequestInv, Told
  <2>2. sweep.pc # "pick" => sweep.seen \in Operation
    BY DEF IInv, SweepInv, SeenOf
  <2> QED
    BY <2>1, <2>2 DEF CallServiceTypeOK, IInv, Types
<1> QED
  BY <1>1, Invariant, PTL

(* Only one request ever broadcasts an authorization, whatever crashes,    *)
(* fails or times out (the create gate of createOperation).                *)
THEOREM OneRequestSubmits == CallServiceSpec => []SingleSubmitter
<1>1. IInv => SingleSubmitter
  BY DEF IInv, OneSender, Sender, SingleSubmitter
<1> QED
  BY <1>1, Invariant, PTL

(* A record names a transaction of its own payment, and its verdict is the *)
(* one on chain (recordOutcome, recoverOne).                               *)
THEOREM RecordsAreTruthful == CallServiceSpec => []RecordTruthful
<1>1. IInv => RecordTruthful
  BY DEF IInv, Types, RecordsInv, Truthful, RecordTruthful, Exists, Auth, Intent
<1> QED
  BY <1>1, Invariant, PTL

(* A request is told that a payment settled or reverted only when its own  *)
(* did (answers of resolveExistingOperation and of the submitter).         *)
THEOREM AnswersAreTruthful == CallServiceSpec => []AnswersTruthful
<1>1. IInv => AnswersTruthful
  BY DEF IInv, RequestInv, Told, AnswersTruthful
<1> QED
  BY <1>1, Invariant, PTL

(* An explicit Idempotency-Key pays for one authorization (createAlias     *)
(* before createOperation).                                                *)
THEOREM KeysPayOnce == CallServiceSpec => []KeyPaysOnce
<1>1. IInv => KeyPaysOnce
  <2> SUFFICES ASSUME IInv, NEW r \in Requests, NEW s \in Requests,
                      tx[r] # "none", tx[s] # "none", Key(r) # NoKey, Key(r) = Key(s)
               PROVE  Auth(r) = Auth(s)
    BY DEF KeyPaysOnce
  <2>1. Types /\ RequestInv(r) /\ RequestInv(s) /\ req[r].pc # "idle"
    BY DEF IInv, RequestInv, Payment
  <2>2. Key(r) \in Keys
    BY <2>1, RequestTypes DEF RequestInv
  <2> QED
    BY <2>1, <2>2 DEF RequestInv, Reserved, Sender
<1> QED
  BY <1>1, Invariant, PTL

(* A record is not given up while the request that submitted it is still   *)
(* at work on it, because MaxDuration < PREPARED_TTL_MS.                   *)
THEOREM SubmitterKeepsRecord == CallServiceSpec => []LiveSubmitterOwnsRecord
<1>1. IInv => LiveSubmitterOwnsRecord
  <2> SUFFICES ASSUME IInv, NEW r \in Requests, Submitting(r)
               PROVE  Exists(Auth(r)) /\ ops[Auth(r)].state # "abandoned"
    BY DEF LiveSubmitterOwnsRecord
  <2>1. Working(r) /\ Sender(r)
    BY DEF Submitting, Working, Sender
  <2> QED
    BY <2>1, RecordAssumption DEF IInv, RequestInv, Reserved, InTime, Exists
<1> QED
  BY <1>1, Invariant, PTL

(* A stored record is only ever moved on by one revision, never out of a   *)
(* terminal state, and never loses its hash (transition's compare).        *)
THEOREM RecordsOnlyMoveForward == CallServiceSpec => RecordOnlyMovesForward
<1>1. ASSUME IInv, [CallServiceNext]_callServiceVars
      PROVE  [\A a \in Auths :
                Exists(a) /\ ops'[a] # ops[a] =>
                  /\ ops'[a].revision = ops[a].revision + 1
                  /\ ops[a].state \notin Terminal
                  /\ ops[a].hash # NoHash => ops'[a].hash = ops[a].hash]_ops
  <2>1. Progress
    BY <1>1, StepInv
  <2> QED
    BY <1>1, <2>1 DEF Progress, IInv, Types, Exists
<1> QED
  BY <1>1, Invariant, PTL DEF CallServiceSpec, RecordOnlyMovesForward

-----------------------------------------------------------------------------
(* The operation records: a lease is exclusive, and no unresolved payment  *)
(* is lost sight of.                                                       *)

Ops == {"transition", "claim", "release"}

Write == [op : Ops, id : Ids, base : Nat, state : RecordStates, tx : Patches, lease : Lease \cup {None}]

(* Shapes: what a worker was told names a lease of its own.                *)
Shapes ==
  /\ DOMAIN records = Ids
  /\ \A id \in Ids : Stored(id) => records[id] \in Record
  /\ writes \subseteq Write
  /\ leases \in [Workers -> SUBSET [id : Ids, lease : Lease]]
  /\ \A w \in Workers : \A held \in leases[w] : held.lease.owner = w
  /\ drawn \in Nat /\ clock \in Nat

(* What a request was planned on still holds when it matches: requests     *)
(* that do not match any more never will, because revisions only grow.     *)
PlannedOn(write) ==
  LET record == records[write.id] IN
  /\ record.version = Current
  /\ write.op = "transition" =>
       /\ write.state \in Transitions(write.id, record.state)
       /\ write.state \in {"abandoned", "released"} => record.transaction = "none"
  /\ write.op = "claim" => write.lease \in Lease /\ ~Active(record.lease)
  /\ write.op = "release" =>
       \A w \in Workers : \A held \in leases[w] :
         held.id = write.id => held.lease # record.lease

WritesSound ==
  \A write \in writes : Stored(write.id) =>
    /\ write.base <= records[write.id].revision
    /\ Matches(write) => PlannedOn(write)

LeasesInv == Shapes /\ WritesSound /\ LeaseExclusive

-----------------------------------------------------------------------------
LEMMA LeasesInitInv == RecordsInit => LeasesInv
<1> SUFFICES ASSUME RecordsInit PROVE LeasesInv
  OBVIOUS
<1>1. PICK old \in [LegacyOperations -> {"prepared", "submitted", "confirmed"}] :
        records = [id \in Ids |-> IF id \in LegacyOperations THEN LegacyRecord(old[id]) ELSE None]
  BY DEF RecordsInit
<1>2. Shapes
  BY <1>1 DEF RecordsInit, Shapes, Record, Stored, LegacyRecord, Legacy, Current,
                   RecordStates, OperationStates, ReservationStates
<1> QED
  BY <1>2 DEF RecordsInit, LeasesInv, WritesSound, LeaseExclusive

(* A step that touches no record, sends nothing and tells nobody of a      *)
(* lease cannot hurt.                                                      *)
LEMMA QuietStep ==
  ASSUME LeasesInv, records' = records, writes' \subseteq writes, drawn' = drawn,
         leases' \in [Workers -> SUBSET [id : Ids, lease : Lease]],
         \A w \in Workers : leases'[w] \subseteq leases[w],
         clock' \in Nat, clock <= clock'
  PROVE  LeasesInv'
<1>1. Shapes'
  BY DEF LeasesInv, Shapes, Stored
<1>2. LeaseExclusive'
  <2> SUFFICES ASSUME NEW w \in Workers, NEW held \in leases'[w], clock' < held.lease.expiresAt
               PROVE  Stored(held.id)' /\ records'[held.id].lease = held.lease
    BY DEF LeaseExclusive
  <2>1. held \in leases[w] /\ held.lease.expiresAt \in Nat /\ clock \in Nat
    BY DEF LeasesInv, Shapes, Lease
  <2> QED
    BY <2>1 DEF LeasesInv, LeaseExclusive, Stored
<1>3. WritesSound'
  <2> SUFFICES ASSUME NEW write \in writes', Stored(write.id)'
               PROVE  /\ write.base <= records'[write.id].revision
                      /\ Matches(write)' => PlannedOn(write)'
    BY DEF WritesSound
  <2>1. /\ write \in writes /\ Stored(write.id) /\ write.id \in Ids
        /\ records[write.id].lease \in Lease \cup {None}
    BY DEF LeasesInv, Shapes, Record, Stored, Write
  <2>2. /\ write.base <= records[write.id].revision
        /\ Matches(write) => PlannedOn(write)
    BY <2>1 DEF LeasesInv, WritesSound
  <2>3. ~Active(records[write.id].lease) => ~Active(records[write.id].lease)'
    <3>1. records[write.id].lease # None => records[write.id].lease.expiresAt \in Nat
      BY <2>1 DEF Lease
    <3> QED
      BY <3>1 DEF Active, LeasesInv, Shapes
  <2> QED
    BY <2>2, <2>3 DEF Matches, PlannedOn, Stored
<1> QED
  BY <1>1, <1>2, <1>3 DEF LeasesInv

(* A request that is sound when it is sent keeps the rest sound.           *)
LEMMA SendStep ==
  ASSUME LeasesInv, NEW write \in Write, Send(write), records' = records, clock' = clock,
         drawn' \in Nat, leases' \in [Workers -> SUBSET [id : Ids, lease : Lease]],
         \A w \in Workers : leases'[w] \subseteq leases[w],
         Stored(write.id), write.base = records[write.id].revision, PlannedOn(write)'
  PROVE  LeasesInv'
<1>1. Shapes'
  BY DEF LeasesInv, Shapes, Stored, Send
<1>2. LeaseExclusive'
  BY DEF LeasesInv, LeaseExclusive, Stored
<1>3. WritesSound'
  <2> SUFFICES ASSUME NEW other \in writes', Stored(other.id)'
               PROVE  /\ other.base <= records'[other.id].revision
                      /\ Matches(other)' => PlannedOn(other)'
    BY DEF WritesSound
  <2>1. CASE other = write
    <3>1. records[write.id].revision \in Nat
      BY DEF LeasesInv, Shapes, Record, Write
    <3> QED
      BY <2>1, <3>1
  <2>2. CASE other \in writes
    BY <2>2 DEF LeasesInv, WritesSound, Stored, Matches, PlannedOn, Active
  <2> QED
    BY <2>1, <2>2 DEF Send
<1> QED
  BY <1>1, <1>2, <1>3 DEF LeasesInv

LEMMA TransitionStep ==
  ASSUME LeasesInv, NEW id \in Ids, NEW state \in OperationStates \cup ReservationStates,
         NEW patch \in Patches, PlanTransition(id, state, patch)
  PROVE  LeasesInv'
<1>0. PICK write : write = [op |-> "transition", id |-> id, base |-> records[id].revision,
                            state |-> state, tx |-> patch, lease |-> None]
  OBVIOUS
<1>1. /\ Stored(id) /\ records[id].version = Current /\ records[id].revision \in Nat
      /\ state \in Transitions(id, records[id].state) /\ state \in RecordStates
      /\ state \in {"abandoned", "released"} => records[id].transaction = "none"
  BY DEF LeasesInv, Shapes, Record, PlanTransition, Writable, HasSignedTransaction, RecordStates
<1>2. write \in Write
  BY <1>0, <1>1 DEF Write, Ops
<1>3. Send(write) /\ UNCHANGED <<records, leases, drawn, clock>>
  BY <1>0 DEF PlanTransition
<1>4. PlannedOn(write)'
  BY <1>0, <1>1, <1>3 DEF PlannedOn
<1>5. write.id = id /\ write.base = records[id].revision
  BY <1>0
<1>6. drawn' \in Nat /\ leases' \in [Workers -> SUBSET [id : Ids, lease : Lease]]
  BY <1>3 DEF LeasesInv, Shapes
<1> QED
  BY <1>1, <1>2, <1>3, <1>4, <1>5, <1>6, SendStep

LEMMA ClaimStep ==
  ASSUME LeasesInv, NEW w \in Workers, NEW id \in Ids, NEW ttl \in TTLs,
         PlanLeaseClaim(w, id, ttl)
  PROVE  LeasesInv'
<1>l. PICK lease : lease = [owner |-> w, token |-> drawn + 1, expiresAt |-> clock + ttl]
  OBVIOUS
<1>0. PICK write : write = [op |-> "claim", id |-> id, base |-> records[id].revision,
                            state |-> records[id].state, tx |-> "kept", lease |-> lease]
  OBVIOUS
<1>1. /\ Stored(id) /\ records[id].version = Current /\ records[id].revision \in Nat
      /\ records[id].state \in RecordStates /\ ~Active(records[id].lease)
  BY DEF LeasesInv, Shapes, Record, PlanLeaseClaim, CanClaim, Writable
<1>2. lease \in Lease /\ drawn' = drawn + 1 /\ drawn' \in Nat
  BY <1>l, RecordsAssumption DEF Lease, LeasesInv, Shapes, PlanLeaseClaim
<1>3. write \in Write
  BY <1>0, <1>1, <1>2 DEF Write, Ops, Patches
<1>4. Send(write) /\ UNCHANGED <<records, leases, clock>>
  BY <1>0, <1>l, <1>2 DEF PlanLeaseClaim
<1>5. PlannedOn(write)'
  BY <1>0, <1>1, <1>2, <1>4 DEF PlannedOn, Active
<1>6. write.id = id /\ write.base = records[id].revision
  BY <1>0
<1>7. leases' \in [Workers -> SUBSET [id : Ids, lease : Lease]]
  BY <1>4 DEF LeasesInv, Shapes
<1> QED
  BY <1>1, <1>2, <1>3, <1>4, <1>5, <1>6, <1>7, SendStep

(* Whoever relies on the lease that is given back is its owner, and drops  *)
(* it with the request.                                                    *)
LEMMA ReleaseStep ==
  ASSUME LeasesInv, NEW w \in Workers, NEW id \in Ids, NEW lease,
         PlanLeaseRelease(w, id, lease)
  PROVE  LeasesInv'
<1>0. PICK write : write = [op |-> "release", id |-> id, base |-> records[id].revision,
                            state |-> records[id].state, tx |-> "kept", lease |-> None]
  OBVIOUS
<1>1. /\ Stored(id) /\ records[id].version = Current /\ records[id].revision \in Nat
      /\ records[id].state \in RecordStates /\ records[id].lease.token = lease.token
      /\ records[id].lease.owner = lease.owner
      /\ [id |-> id, lease |-> lease] \in leases[w]
  BY DEF LeasesInv, Shapes, Record, PlanLeaseRelease, Writable
<1>2. lease.owner = w
  BY <1>1 DEF LeasesInv, Shapes
<1>3. /\ Send(write) /\ UNCHANGED <<records, drawn, clock>>
      /\ leases' = [leases EXCEPT ![w] =
                      {held \in leases[w] : held.id # id \/ held.lease.token # lease.token}]
  BY <1>0 DEF PlanLeaseRelease
<1>4. write \in Write
  BY <1>0, <1>1 DEF Write, Ops, Patches
<1>5. \A v \in Workers : leases'[v] \subseteq leases[v]
  BY <1>3 DEF LeasesInv, Shapes
<1>6. leases' \in [Workers -> SUBSET [id : Ids, lease : Lease]]
  BY <1>3 DEF LeasesInv, Shapes
<1>7. ASSUME NEW v \in Workers, NEW held \in leases'[v], held.id = id
      PROVE  held.lease # records[id].lease
  <2>1. held.lease.owner = v
    BY <1>5, <1>7 DEF LeasesInv, Shapes
  <2>2. CASE v = w
    BY <1>1, <1>3, <1>7, <2>2 DEF LeasesInv, Shapes
  <2>3. CASE v # w
    BY <1>1, <1>2, <2>1, <2>3
  <2> QED
    BY <2>2, <2>3
<1>8. PlannedOn(write)'
  BY <1>0, <1>1, <1>3, <1>7 DEF PlannedOn
<1>9. write.id = id /\ write.base = records[id].revision
  BY <1>0
<1>10. drawn' \in Nat
  BY <1>3 DEF LeasesInv, Shapes
<1> QED
  BY <1>1, <1>3, <1>4, <1>5, <1>6, <1>8, <1>9, <1>10, SendStep

LEMMA NewRecordStep ==
  ASSUME LeasesInv, NEW id \in Ids, Create(id)
  PROVE  LeasesInv'
<1>1. /\ records' = [records EXCEPT ![id] = NewRecord(id)] /\ ~Stored(id)
      /\ \A write \in writes : write.id # id
      /\ UNCHANGED <<writes, leases, drawn, clock>>
  BY DEF Create
<1>2. Shapes'
  BY <1>1 DEF LeasesInv, Shapes, Record, Stored, NewRecord, Current,
                   RecordStates, OperationStates, ReservationStates
<1>3. LeaseExclusive'
  BY <1>1 DEF LeasesInv, LeaseExclusive, Shapes, Stored
<1>4. WritesSound'
  BY <1>1 DEF LeasesInv, WritesSound, Shapes, Stored, Matches, PlannedOn, Active
<1> QED
  BY <1>2, <1>3, <1>4 DEF LeasesInv

LEMMA CleanupStep ==
  ASSUME LeasesInv, NEW id \in Ids, Cleanup(id)
  PROVE  LeasesInv'
<1>1. /\ records' = [records EXCEPT ![id] = None] /\ Stored(id) /\ ~Active(records[id].lease)
      /\ UNCHANGED <<writes, leases, drawn, clock>>
  BY DEF Cleanup, IsCleanupEligible, Writable
<1>2. Shapes'
  BY <1>1 DEF LeasesInv, Shapes, Stored
<1>3. ASSUME NEW w \in Workers, NEW held \in leases[w], clock < held.lease.expiresAt
      PROVE  held.id # id
  <2>1. held.lease # None
    BY <1>3, NoneAssumption DEF LeasesInv, Shapes
  <2> QED
    BY <1>1, <1>3, <2>1 DEF LeasesInv, LeaseExclusive, Active
<1>4. LeaseExclusive'
  BY <1>1, <1>3 DEF LeasesInv, LeaseExclusive, Shapes, Stored
<1>5. WritesSound'
  BY <1>1 DEF LeasesInv, WritesSound, Shapes, Stored, Matches, PlannedOn, Active
<1> QED
  BY <1>2, <1>4, <1>5 DEF LeasesInv

LEMMA PatchedRecord ==
  ASSUME NEW record \in Record, NEW write, write.op \in Ops, write.tx \in Patches, write.base \in Nat,
         write.state \in RecordStates, write.lease \in Lease \cup {None}
  PROVE  /\ Patched(record, write) \in Record
         /\ Patched(record, write).revision = write.base + 1
         /\ Patched(record, write).version = record.version
         /\ Patched(record, write).state =
              IF write.op = "transition" THEN write.state ELSE record.state
         /\ Patched(record, write).lease =
              IF write.op = "transition" THEN record.lease ELSE write.lease
<1>1. /\ Transitioned(record, write) \in Record
      /\ Transitioned(record, write).version = record.version
      /\ Transitioned(record, write).state = write.state
      /\ Transitioned(record, write).lease = record.lease
  <2>1. PICK sent \in {"none", "signed"} :
          sent = IF write.tx = "kept" THEN record.transaction ELSE write.tx
    BY DEF Record, Patches
  <2> DEFINE moved == [record EXCEPT !.state = write.state]
  <2>2. moved \in Record
    BY DEF Record
  <2>3. Transitioned(record, write) = [moved EXCEPT !.transaction = sent]
    BY <2>1 DEF Transitioned, Record
  <2>4. moved.version = record.version /\ moved.state = write.state /\ moved.lease = record.lease
    BY DEF Record
  <2> HIDE DEF moved
  <2> QED
    BY <2>2, <2>3, <2>4 DEF Record
<1>2. PICK patched : patched = IF write.op = "transition" THEN Transitioned(record, write)
                               ELSE [record EXCEPT !.lease = write.lease]
  OBVIOUS
<1>3. /\ patched \in Record /\ patched.version = record.version
      /\ patched.state = IF write.op = "transition" THEN write.state ELSE record.state
      /\ patched.lease = IF write.op = "transition" THEN record.lease ELSE write.lease
  <2>1. CASE write.op = "transition"
    BY <1>1, <1>2, <2>1
  <2>2. CASE write.op # "transition"
    BY <1>2, <2>2 DEF Record
  <2> QED
    BY <2>1, <2>2
<1>4. Patched(record, write) = [patched EXCEPT !.revision = write.base + 1]
  BY <1>2, Zenon DEF Patched
<1> QED
  BY <1>3, <1>4 DEF Record

(* The patch of a request that matches is applied to the record it was     *)
(* planned on.                                                             *)
LEMMA LandStep ==
  ASSUME LeasesInv, NEW write \in writes, NEW heard \in BOOLEAN, Land(write, heard)
  PROVE  LeasesInv'
<1> DEFINE id == write.id
           record == records[id]
<1>1. /\ Stored(id) /\ record.revision = write.base
      /\ records' = [records EXCEPT ![id] = Patched(record, write)]
      /\ UNCHANGED <<writes, drawn, clock>>
  BY DEF Land, Matches
<1>2. /\ id \in Ids /\ write.op \in Ops /\ write.tx \in Patches /\ write.base \in Nat /\ write.state \in RecordStates
      /\ write.lease \in Lease \cup {None}
      /\ record \in Record
  BY <1>1 DEF LeasesInv, Shapes, Write
<1>3. PlannedOn(write)
  BY <1>1 DEF LeasesInv, WritesSound, Matches
<1>4. /\ Patched(record, write) \in Record
      /\ Patched(record, write).revision = write.base + 1
      /\ write.op = "transition" => Patched(record, write).lease = record.lease
      /\ write.op # "transition" => Patched(record, write).lease = write.lease
  BY <1>2, PatchedRecord
<1>5. Patched(record, write) # None
  BY <1>4, NoneAssumption
<1>6. /\ records'[id] = Patched(record, write) /\ Stored(id)'
      /\ \A other \in Ids \ {id} : records'[other] = records[other]
  BY <1>1, <1>2, <1>5 DEF LeasesInv, Shapes, Stored
<1> HIDE DEF record
(* Only a claim that is heard adds to what a worker relies on.             *)
<1>7. /\ leases' \in [Workers -> SUBSET [id : Ids, lease : Lease]]
      /\ \A w \in Workers : \A held \in leases'[w] :
           \/ held \in leases[w]
           \/ /\ held = [id |-> id, lease |-> write.lease]
              /\ write.op = "claim" /\ write.lease.owner = w
  <2>1. CASE heard /\ write.op = "claim"
    <3>1. write.lease \in Lease
      BY <1>3, <2>1 DEF PlannedOn
    <3>2. leases' = [leases EXCEPT ![write.lease.owner] =
                       leases[write.lease.owner] \cup {[id |-> id, lease |-> write.lease]}]
      BY <2>1 DEF Land
    <3> QED
      BY <1>2, <2>1, <3>1, <3>2 DEF LeasesInv, Shapes, Lease
  <2>2. CASE ~(heard /\ write.op = "claim")
    BY <2>2 DEF Land, LeasesInv, Shapes
  <2> QED
    BY <2>1, <2>2
<1>8. Shapes'
  <2>1. DOMAIN records' = Ids
    BY <1>1 DEF LeasesInv, Shapes
  <2>2. \A other \in Ids : Stored(other)' => records'[other] \in Record
    BY <1>4, <1>6 DEF LeasesInv, Shapes, Stored
  <2>3. \A w \in Workers : \A held \in leases'[w] : held.lease.owner = w
    BY <1>7 DEF LeasesInv, Shapes
  <2> QED
    BY <1>1, <1>7, <2>1, <2>2, <2>3 DEF LeasesInv, Shapes
<1>9. LeaseExclusive'
  <2> SUFFICES ASSUME NEW w \in Workers, NEW held \in leases'[w], clock' < held.lease.expiresAt
               PROVE  Stored(held.id)' /\ records'[held.id].lease = held.lease
    BY DEF LeaseExclusive
  <2>1. CASE held \notin leases[w]
    BY <1>4, <1>6, <1>7, <2>1
  <2>2. CASE held \in leases[w]
    <3>1. /\ held.id \in Ids /\ held.lease # None
          /\ Stored(held.id) /\ records[held.id].lease = held.lease
      BY <1>1, <2>2, NoneAssumption DEF LeasesInv, Shapes, LeaseExclusive
    <3>2. CASE held.id # id
      BY <1>6, <3>1, <3>2 DEF Stored
    <3>3. CASE held.id = id
      <4>1. record.lease = held.lease /\ Active(record.lease)
        BY <1>1, <3>1, <3>3 DEF Active, record
      <4>2. write.op = "transition"
        BY <1>2, <1>3, <2>2, <3>3, <4>1 DEF PlannedOn, Ops, record
      <4> QED
        BY <1>4, <1>6, <3>3, <4>1, <4>2
    <3> QED
      BY <3>2, <3>3
  <2> QED
    BY <2>1, <2>2
<1>10. WritesSound'
  <2> SUFFICES ASSUME NEW other \in writes, Stored(other.id)'
               PROVE  /\ other.base <= records'[other.id].revision
                      /\ Matches(other)' => PlannedOn(other)'
    BY <1>1 DEF WritesSound
  <2>1. other.id \in Ids /\ other.base \in Nat
    BY DEF LeasesInv, Shapes, Write
  <2>2. CASE other.id = id
    <3>1. other.base <= write.base
      BY <1>1, <2>2 DEF LeasesInv, WritesSound, record
    <3> QED
      BY <1>2, <1>4, <1>6, <2>1, <2>2, <3>1 DEF Matches
  <2>3. CASE other.id # id
    <3>1. records'[other.id] = records[other.id] /\ Stored(other.id)
      BY <1>6, <2>1, <2>3 DEF Stored
    <3>2. \A w \in Workers : \A held \in leases'[w] :
            held.id = other.id => held \in leases[w]
      BY <1>7, <2>3
    <3>3. /\ other.base <= records[other.id].revision
          /\ Matches(other) => PlannedOn(other)
      BY <3>1 DEF LeasesInv, WritesSound
    <3> QED
      BY <1>1, <3>1, <3>2, <3>3 DEF Matches, PlannedOn, Active
  <2> QED
    BY <2>2, <2>3
<1> QED
  BY <1>8, <1>9, <1>10 DEF LeasesInv

LEMMA LeasesStepInv == LeasesInv /\ [RecordsNext]_recordsVars => LeasesInv'
<1> SUFFICES ASSUME LeasesInv, [RecordsNext]_recordsVars PROVE LeasesInv'
  OBVIOUS
<1>0. \A w \in Workers : leases[w] \subseteq leases[w]
  OBVIOUS
<1>t. /\ leases \in [Workers -> SUBSET [id : Ids, lease : Lease]]
      /\ drawn \in Nat /\ clock \in Nat
  BY DEF LeasesInv, Shapes
<1>1. ASSUME NEW id \in Operations \cup Reservations, Create(id) PROVE LeasesInv'
  BY <1>1, NewRecordStep DEF Ids
<1>2. ASSUME NEW id \in Ids, NEW state \in OperationStates \cup ReservationStates,
             NEW patch \in Patches, PlanTransition(id, state, patch)
      PROVE  LeasesInv'
  BY <1>2, TransitionStep
<1>3. ASSUME NEW w \in Workers, NEW id \in Ids, NEW ttl \in TTLs, PlanLeaseClaim(w, id, ttl)
      PROVE  LeasesInv'
  BY <1>3, ClaimStep
<1>4. ASSUME NEW w \in Workers, NEW id \in Ids, NEW held \in leases[w],
             PlanLeaseRelease(w, id, held.lease)
      PROVE  LeasesInv'
  <2>1. PICK lease : lease = held.lease
    OBVIOUS
  <2> QED
    BY <1>4, <2>1, ReleaseStep
<1>5. ASSUME NEW write \in writes, Lose(write) PROVE LeasesInv'
  BY <1>5, <1>t, QuietStep DEF Lose
<1>6. ASSUME NEW write \in writes, NEW heard \in BOOLEAN, Land(write, heard) PROVE LeasesInv'
  BY <1>6, LandStep
<1>7. ASSUME NEW id \in Ids, Cleanup(id) PROVE LeasesInv'
  BY <1>7, CleanupStep
<1>8. ASSUME NEW w \in Workers, Crash(w) PROVE LeasesInv'
  BY <1>8, <1>t, QuietStep DEF Crash
<1>9. CASE ClockTick
  BY <1>9, <1>t, QuietStep DEF ClockTick
<1>10. CASE UNCHANGED recordsVars
  BY <1>10, <1>t, QuietStep DEF recordsVars
<1> QED
  BY <1>1, <1>2, <1>3, <1>4, <1>5, <1>6, <1>7, <1>8, <1>9, <1>10 DEF RecordsNext

(* The inductive invariant: every request that can still take effect was   *)
(* planned on the record it will meet.                                     *)
THEOREM RecordsInvariant == RecordsSpec => []LeasesInv
BY LeasesInitInv, LeasesStepInv, PTL DEF RecordsSpec

(* A recovery lease is exclusive, however late, repeated or lost the       *)
(* requests are that claim, move or release a record.                      *)
THEOREM LeasesAreExclusive == RecordsSpec => []LeaseExclusive
<1>1. LeasesInv => LeaseExclusive
  BY DEF LeasesInv
<1> QED
  BY <1>1, RecordsInvariant, PTL

-----------------------------------------------------------------------------
(* Every planned transition goes further, and none leaves a settled state. *)
LEMMA TransitionsAdvance ==
  ASSUME NEW id \in Ids, NEW from, NEW to \in Transitions(id, from)
  PROVE  Rank(to) >= Rank(from) /\ ~IsTerminal(id, from)
BY DEF Transitions, OperationTransitions, ReservationTransitions, AfterSigning, Rank,
       IsTerminal, TerminalOperation, TerminalReservation

LEMMA RankReflexive == ASSUME NEW state PROVE Rank(state) >= Rank(state)
BY DEF Rank

Lossless ==
  \A id \in Ids : Stored(id) =>
    IF records'[id] = None THEN
      /\ records[id].version = Current
      /\ IsTerminal(id, records[id].state)
      /\ ~Active(records[id].lease)
    ELSE
      /\ IsTerminal(id, records[id].state) => records'[id].state = records[id].state
      /\ Rank(records'[id].state) >= Rank(records[id].state)
      /\ HasSignedTransaction(id) /\ records'[id].state # records[id].state =>
           records'[id].state \notin {"abandoned", "released"}
      /\ records[id].version = Legacy => records'[id] = records[id]

LEMMA LandLossless ==
  ASSUME LeasesInv, NEW write \in writes, NEW heard \in BOOLEAN, Land(write, heard)
  PROVE  Lossless
<1>1. /\ Stored(write.id) /\ records[write.id].revision = write.base
      /\ records' = [records EXCEPT ![write.id] = Patched(records[write.id], write)]
  BY DEF Land, Matches
<1>2. /\ write.id \in Ids /\ write.op \in Ops /\ write.tx \in Patches /\ write.base \in Nat /\ write.state \in RecordStates
      /\ write.lease \in Lease \cup {None} /\ records[write.id] \in Record
      /\ DOMAIN records = Ids
  BY <1>1 DEF LeasesInv, Shapes, Write
<1>3. PlannedOn(write)
  BY <1>1 DEF LeasesInv, WritesSound, Matches
<1>4. records'[write.id] = Patched(records[write.id], write)
      /\ \A id \in Ids \ {write.id} : records'[id] = records[id]
  BY <1>1, <1>2
<1>5. Patched(records[write.id], write) \in Record /\ Patched(records[write.id], write) # None
  <2>1. Patched(records[write.id], write) \in Record
    BY <1>2, PatchedRecord
  <2> QED
    BY <2>1, NoneAssumption
<1>6. records[write.id].version = Current /\ Current # Legacy
  BY <1>3 DEF PlannedOn, Current, Legacy
<1>7. CASE write.op = "transition"
  <2>1. records'[write.id].state = write.state
    BY <1>2, <1>4, <1>7, PatchedRecord
  <2>2. /\ Rank(write.state) >= Rank(records[write.id].state)
        /\ ~IsTerminal(write.id, records[write.id].state)
        /\ write.state \in {"abandoned", "released"} => records[write.id].transaction = "none"
    BY <1>2, <1>3, <1>7, TransitionsAdvance DEF PlannedOn
  <2> QED
    BY <1>4, <1>5, <1>6, <2>1, <2>2, RankReflexive DEF HasSignedTransaction, Lossless, Stored
<1>8. CASE write.op # "transition"
  <2>1. records'[write.id].state = records[write.id].state
    BY <1>2, <1>4, <1>8, PatchedRecord
  <2> QED
    BY <1>4, <1>5, <1>6, <2>1, RankReflexive DEF HasSignedTransaction, Lossless, Stored
<1> QED
  BY <1>7, <1>8

LEMMA StepLossless == LeasesInv /\ [RecordsNext]_recordsVars => Lossless
<1> SUFFICES ASSUME LeasesInv, [RecordsNext]_recordsVars PROVE Lossless
  OBVIOUS
<1>1. CASE records' = records
  BY <1>1, RankReflexive DEF HasSignedTransaction, Lossless, Stored
<1>2. ASSUME NEW id \in Ids, Create(id) PROVE Lossless
  BY <1>2, RankReflexive DEF HasSignedTransaction, Create, Lossless, Stored, LeasesInv, Shapes
<1>3. ASSUME NEW id \in Ids, Cleanup(id) PROVE Lossless
  BY <1>3, RankReflexive DEF HasSignedTransaction, Cleanup, IsCleanupEligible, Writable, Lossless, Stored, LeasesInv, Shapes
<1>4. ASSUME NEW write \in writes, NEW heard \in BOOLEAN, Land(write, heard) PROVE Lossless
  BY <1>4, LandLossless
<1> QED
  BY <1>1, <1>2, <1>3, <1>4
     DEF RecordsNext, recordsVars, Ids, PlanTransition, PlanLeaseClaim, PlanLeaseRelease, Lose,
         Crash, ClockTick

(* No step of a worker, a late request or the cleanup loses a payment that *)
(* is not settled, or changes one that is.                                 *)
THEOREM RecordsLoseNothing == RecordsSpec => NothingUnresolvedLost
<1>1. LeasesInv /\ [RecordsNext]_recordsVars => [Lossless]_recordsVars
  BY StepLossless
<1> QED
  BY <1>1, RecordsInvariant, PTL DEF RecordsSpec, NothingUnresolvedLost, Lossless
=============================================================================
