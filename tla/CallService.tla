----------------------------- MODULE CallService ----------------------------
(***************************************************************************)
(* api/call-service.js with the idempotency store enabled: requests that   *)
(* carry a signed payment authorization, the cron sweep that recovers      *)
(* records nobody asks about, and the chain as both see it.  Every await   *)
(* is a step of its own, so requests, sweep, chain and clock interleave    *)
(* between them.  A transaction is identified by the request that sent it. *)
(***************************************************************************)
EXTENDS IdempotencyStore

CONSTANTS
  NoKey,         \* a request without an Idempotency-Key
  Payments,      \* what clients may send
  MaxDuration,   \* the platform kills a request that runs longer
  PreparedTTL,   \* PREPARED_TTL_MS
  SubmittedTTL,  \* SUBMITTED_TTL_MS
  LastArrival    \* bound: no request arrives later

ASSUME CallServiceAssumption ==
  /\ NoKey \notin Keys
  /\ Payments \subseteq [auth : Auths, intent : Intents, key : Keys \cup {NoKey},
                         signed : BOOLEAN]
  /\ {MaxDuration, PreparedTTL, SubmittedTTL, LastArrival} \subseteq Nat
  /\ MaxDuration < PreparedTTL
  /\ PreparedTTL <= SubmittedTTL

VARIABLES
  req,    \* per request: where it is, what it holds across its awaits, its answer
  tx,     \* per request: the transaction it broadcast, as the chain knows it
  sweep   \* the recovery sweep: ids left on its page and the record in hand

callServiceVars == <<storeVars, now, req, tx, sweep>>

Awaits == {"readAlias", "readOperation", "checkNonce", "checkProvider", "createAlias",
           "createAliasOnReplay", "createOperation", "broadcast", "recordUnknown",
           "recordHash", "wait", "recordOutcome", "reread", "resolve", "abandon"}

(* Answers that only turn the request away (409, 500, 502, 503) are one.   *)
Codes == {"none", "refused", "preSettlement", "alreadyUsed", "pending", "settled",
          "reverted", "abandoned"}

Live(r) == req[r].pc \in Awaits
Submitting(r) == req[r].pc \in {"recordHash", "wait", "recordOutcome"} /\ tx[r] # "none"

(* authorizationState: a settled authorization cannot settle again.        *)
Used(a) == \E r \in Requests : tx[r] = "success" /\ req[r].payment.auth = a

Auth(r) == req[r].payment.auth
Intent(r) == req[r].payment.intent
Key(r) == req[r].payment.key

Idle == [pc |-> "idle", payment |-> Absent, start |-> 0, seen |-> Absent, aliased |-> FALSE,
         next |-> "none", code |-> "none", hash |-> NoHash]

-----------------------------------------------------------------------------
Goto(r, pc) == req' = [req EXCEPT ![r].pc = pc]

Hold(r, pc, record) == req' = [req EXCEPT ![r].pc = pc, ![r].seen = record]

(* A request that ended holds nothing any more.                            *)
Ended(r, pc, code, hash) ==
  req' = [req EXCEPT ![r] =
    [Idle EXCEPT !.pc = pc, !.payment = req[r].payment, !.code = code,
                 !.hash = hash]]

Answer(r, code, hash) == Ended(r, "done", code, hash)

(* What a terminal record says, with the hash it holds.                    *)
AnswerFrom(r, record) ==
  Answer(r, CASE record.state = "confirmed" -> "settled"
              [] record.state = "reverted" -> "reverted"
              [] record.state = "abandoned" -> "abandoned", record.hash)

(* recordTtl: without a hash there is nothing to observe.                  *)
Window(record) ==
  IF record.state = "prepared" \/ record.hash = NoHash THEN PreparedTTL ELSE SubmittedTTL

\* Mutant: a record is given up without waiting for its window.
Stale_Always(record) == TRUE

Stale(record) == now - record.createdAt >= Window(record)

-----------------------------------------------------------------------------
(* A request arrives.  With a store its signature is checked before        *)
(* anything else.                                                          *)
Receive(r, p) ==
  /\ req[r].pc = "idle"
  /\ now <= LastArrival
  /\ req' = [req EXCEPT ![r] =
       IF p.signed
       THEN [Idle EXCEPT !.pc = IF p.key = NoKey THEN "readOperation" ELSE "readAlias",
                         !.payment = p, !.start = now]
       ELSE [Idle EXCEPT !.pc = "done", !.payment = p, !.code = "preSettlement"]]
  /\ UNCHANGED <<storeVars, tx>>

ReadAlias(r) ==
  /\ req[r].pc = "readAlias"
  /\ \/ Answer(r, "refused", NoHash)
     \/ /\ aliases[Key(r)] # Absent
        /\ ~AliasMatches(Key(r), Auth(r), Intent(r))
        /\ Answer(r, "refused", NoHash)
     \/ /\ aliases[Key(r)] # Absent => AliasMatches(Key(r), Auth(r), Intent(r))
        /\ req' = [req EXCEPT ![r].pc = "readOperation",
                              ![r].aliased = (aliases[Key(r)] # Absent)]
  /\ UNCHANGED <<storeVars, tx>>

\* Mutant: the stored fingerprint is not compared with the request's.
SameIntent_Ignored(r) == TRUE

SameIntent(r) == ops[Auth(r)].intent = Intent(r)

(* operationRead: an existing record is answered from before any check     *)
(* that naturally fails once the payment has settled.                      *)
ReadOperation(r) ==
  /\ req[r].pc = "readOperation"
  /\ \/ Answer(r, "refused", NoHash)
     \/ Exists(Auth(r)) /\ ~SameIntent(r) /\ Answer(r, "refused", NoHash)
     \/ /\ Exists(Auth(r)) /\ SameIntent(r)
        /\ Hold(r, IF Key(r) # NoKey /\ ~req[r].aliased THEN "createAliasOnReplay"
                   ELSE "resolve", ops[Auth(r)])
     \/ ~Exists(Auth(r)) /\ Hold(r, "checkNonce", Absent)
  /\ UNCHANGED <<storeVars, tx>>

CheckNonce(r) ==
  /\ req[r].pc = "checkNonce"
  /\ \/ Answer(r, "refused", NoHash)
     \/ Used(Auth(r)) /\ Answer(r, "alreadyUsed", NoHash)
     \/ ~Used(Auth(r)) /\ Goto(r, "checkProvider")
  /\ UNCHANGED <<storeVars, tx>>

(* Validity window, provider and price, all of which may change at any     *)
(* time: the outcome is free.                                              *)
CheckProvider(r) ==
  /\ req[r].pc = "checkProvider"
  /\ \/ Answer(r, "preSettlement", NoHash)
     \/ Answer(r, "refused", NoHash)
     \/ Goto(r, IF Key(r) = NoKey THEN "createOperation" ELSE "createAlias")
  /\ UNCHANGED <<storeVars, tx>>

CreateAlias(r) ==
  /\ req[r].pc \in {"createAlias", "createAliasOnReplay"}
  /\ \/ /\ Answer(r, "refused", NoHash)
        /\ aliases' \in {aliases, AliasCreated(Key(r), Auth(r), Intent(r))}
     \/ /\ aliases[Key(r)] # Absent
        /\ ~AliasMatches(Key(r), Auth(r), Intent(r))
        /\ Answer(r, "refused", NoHash)
        /\ UNCHANGED aliases
     \/ /\ aliases[Key(r)] # Absent => AliasMatches(Key(r), Auth(r), Intent(r))
        /\ aliases' = AliasCreated(Key(r), Auth(r), Intent(r))
        /\ Goto(r, IF req[r].pc = "createAlias" THEN "createOperation" ELSE "resolve")
  /\ UNCHANGED <<ops, tx>>

\* Mutant: the loser of the create race submits as well.
CreateOperation_NoGate(r) ==
  /\ req[r].pc = "createOperation"
  /\ ops' = Created(Auth(r), Intent(r))
  /\ Hold(r, "broadcast", ops'[Auth(r)])
  /\ UNCHANGED <<aliases, tx>>

(* The single-submitter gate: only created:true may broadcast.             *)
CreateOperation(r) ==
  /\ req[r].pc = "createOperation"
  /\ \/ /\ Answer(r, "refused", NoHash)
        /\ ops' \in {ops, Created(Auth(r), Intent(r))}
     \/ Exists(Auth(r)) /\ ~SameIntent(r) /\ Answer(r, "refused", NoHash) /\ UNCHANGED ops
     \/ Exists(Auth(r)) /\ SameIntent(r) /\ Hold(r, "resolve", ops[Auth(r)]) /\ UNCHANGED ops
     \/ /\ ~Exists(Auth(r))
        /\ ops' = Created(Auth(r), Intent(r))
        /\ Hold(r, "broadcast", NewOperation(Intent(r)))
  /\ UNCHANGED <<aliases, tx>>

(* callServiceWithAuthorization.  A call that throws, or returns no hash,  *)
(* may have reached the mempool all the same.                              *)
Broadcast(r) ==
  /\ req[r].pc = "broadcast"
  /\ \/ /\ tx' = [tx EXCEPT ![r] = "pending"]
        /\ Goto(r, "recordHash")
     \/ /\ tx' = [tx EXCEPT ![r] = "pending"]
        /\ Goto(r, "recordUnknown")
     \/ /\ Goto(r, "recordUnknown")
        /\ UNCHANGED tx
  /\ UNCHANGED storeVars

RecordUnknown(r) ==
  /\ req[r].pc = "recordUnknown"
  /\ \E ok \in BOOLEAN : Transition(Auth(r), req[r].seen, "unknown", NoHash, ok)
  /\ Answer(r, "pending", NoHash)
  /\ UNCHANGED tx

(* The transition to submitted; on success the request's cursor advances.  *)
RecordHash(r) ==
  /\ req[r].pc = "recordHash"
  /\ \/ /\ Transition(Auth(r), req[r].seen, "submitted", r, TRUE)
        /\ Hold(r, "wait", ops'[Auth(r)])
     \/ /\ Transition(Auth(r), req[r].seen, "submitted", r, FALSE)
        /\ Hold(r, "reread", Absent)
  /\ UNCHANGED tx

\* Mutant: any receipt counts as a settlement.
Outcome_AnyReceipt(r) == IF tx[r] \in {"success", "reverted"} THEN "confirmed" ELSE "none"

(* The receipt of a transaction, if it is mined.                           *)
Outcome(r) == CASE tx[r] = "success" -> "confirmed"
                [] tx[r] = "reverted" -> "reverted"
                [] OTHER -> "none"

(* tx.wait(): the mined outcome, or unknown when it throws.                *)
Wait(r) ==
  /\ req[r].pc = "wait"
  /\ \E next \in {Outcome(r), "unknown"} \ {"none"} :
       req' = [req EXCEPT ![r].pc = "recordOutcome", ![r].next = next]
  /\ UNCHANGED <<storeVars, tx>>

(* resolveExistingOperation: terminal records answer for themselves, young *)
(* ones are pending, stale ones without a hash are given up, and a hash is *)
(* looked up on chain.                                                     *)
Resolve(r) ==
  LET record == req[r].seen IN
  /\ req[r].pc = "resolve"
  /\ \/ record.state \in Terminal /\ AnswerFrom(r, record)
     \/ /\ record.state \notin Terminal
        /\ \/ record.hash # NoHash \* the receipt could not be read
           \/ ~Stale(record) /\ (record.hash # NoHash => Outcome(record.hash) = "none")
        /\ Answer(r, "pending", record.hash)
     \/ /\ record.state \notin Terminal
        /\ record.hash # NoHash => Outcome(record.hash) = "none"
        /\ Stale(record)
        /\ Goto(r, "abandon")
     \/ /\ record.state \notin Terminal
        /\ record.hash # NoHash
        /\ Outcome(record.hash) # "none"
        /\ req' = [req EXCEPT ![r].pc = "recordOutcome", ![r].next = Outcome(record.hash)]
  /\ UNCHANGED <<storeVars, tx>>

(* The transition to the observed outcome, by the submitter or by a later  *)
(* request.                                                                *)
RecordOutcome(r) ==
  LET hash == req[r].seen.hash IN
  /\ req[r].pc = "recordOutcome"
  /\ \/ /\ Transition(Auth(r), req[r].seen, req[r].next, hash, TRUE)
        /\ Answer(r, CASE req[r].next = "confirmed" -> "settled"
                       [] req[r].next = "reverted" -> "reverted"
                       [] req[r].next = "unknown" -> "pending", hash)
     \/ /\ Transition(Auth(r), req[r].seen, req[r].next, hash, FALSE)
        /\ Hold(r, "reread", Absent)
  /\ UNCHANGED tx

(* abandonStale.                                                           *)
Abandon(r) ==
  LET hash == req[r].seen.hash IN
  /\ req[r].pc = "abandon"
  /\ \E ok \in BOOLEAN :
       /\ Transition(Auth(r), req[r].seen, "abandoned", NoHash, ok)
       /\ Answer(r, IF ok THEN "abandoned" ELSE "pending", hash)
  /\ UNCHANGED tx

(* resolveTransitionFailure: only a terminal record that is there is       *)
(* reported; otherwise the answer is pending (its hash is left out).         *)
Reread(r) ==
  /\ req[r].pc = "reread"
  /\ \/ Answer(r, "pending", NoHash)
     \/ /\ Exists(Auth(r)) /\ SameIntent(r)
        /\ ops[Auth(r)].state \in {"confirmed", "reverted"}
        /\ AnswerFrom(r, ops[Auth(r)])
  /\ UNCHANGED <<storeVars, tx>>

(* A crash, or the platform's limit: whatever the request held is gone.    *)
Die(r) ==
  /\ Live(r)
  /\ Ended(r, "dead", "none", NoHash)
  /\ UNCHANGED <<storeVars, tx>>

RequestStep(r) ==
  \/ \E p \in Payments : Receive(r, p)
  \/ ReadAlias(r) \/ ReadOperation(r) \/ CheckNonce(r) \/ CheckProvider(r)
  \/ CreateAlias(r) \/ CreateOperation(r) \/ Broadcast(r) \/ RecordUnknown(r)
  \/ RecordHash(r) \/ Wait(r) \/ Resolve(r) \/ RecordOutcome(r) \/ Abandon(r)
  \/ Reread(r) \/ Die(r)

-----------------------------------------------------------------------------
Skip == sweep' = [pc |-> "pick", id |-> Absent, seen |-> Absent, next |-> "none"]

(* recoverOperations and recoverOne: a record of the page is read and its  *)
(* age judged.  A failing read, a record that is terminal or gone, and one *)
(* to wait for are passed over.                                            *)
SweepRead(a) ==
  /\ sweep.pc = "pick" /\ a \in FirstPage
  /\ Exists(a) /\ ops[a].state \notin Terminal
  /\ ops[a].hash # NoHash \/ Stale(ops[a])
  /\ sweep' = [sweep EXCEPT !.pc = IF ops[a].hash = NoHash THEN "write" ELSE "receipt",
                            !.id = a, !.seen = ops[a],
                            !.next = IF Stale(ops[a]) THEN "abandoned" ELSE "none"]
  /\ UNCHANGED <<storeVars, tx>>

(* The receipt is read; without one, a stale record is given up.           *)
SweepReceipt(a) ==
  LET outcome == Outcome(sweep.seen.hash) IN
  /\ sweep.pc = "receipt" /\ sweep.id = a
  /\ outcome # "none" \/ sweep.next = "abandoned"
  /\ sweep' = [sweep EXCEPT !.pc = "write",
                            !.next = IF outcome = "none" THEN "abandoned" ELSE outcome]
  /\ UNCHANGED <<storeVars, tx>>

SweepWrite(a, ok) ==
  /\ sweep.pc = "write" /\ sweep.id = a
  /\ Transition(a, sweep.seen, sweep.next, sweep.seen.hash, ok)
  /\ Skip
  /\ UNCHANGED tx

(* A receipt that could not be read, or a run that was cut short.          *)
SweepGivesUp ==
  /\ sweep.pc # "pick"
  /\ Skip
  /\ UNCHANGED <<storeVars, tx>>

SweepStep(a) == SweepRead(a) \/ SweepReceipt(a) \/ (\E ok \in BOOLEAN : SweepWrite(a, ok))

-----------------------------------------------------------------------------
(* The chain: a broadcast transaction settles, unless its authorization    *)
(* already has; it may also revert, or stay unmined for ever.              *)
Mine(r) ==
  /\ tx[r] = "pending"
  /\ \/ ~Used(Auth(r)) /\ tx' = [tx EXCEPT ![r] = "success"]
     \/ tx' = [tx EXCEPT ![r] = "reverted"]
  /\ UNCHANGED storeVars

(* Nothing lives past MaxDuration.                                         *)
Tick ==
  /\ now < MaxTime
  /\ \A r \in Requests : Live(r) => now - req[r].start < MaxDuration
  /\ now' = now + 1

CallServiceInit ==
  /\ StoreInit
  /\ now = 0
  /\ req = [r \in Requests |-> Idle]
  /\ tx = [r \in Requests |-> "none"]
  /\ sweep = [pc |-> "pick", id |-> Absent, seen |-> Absent, next |-> "none"]

CallServiceNext ==
  \/ (\E r \in Requests : RequestStep(r)) /\ UNCHANGED <<now, sweep>>
  \/ (SweepGivesUp \/ \E a \in Auths : SweepStep(a)) /\ UNCHANGED <<now, req>>
  \/ (\E r \in Requests : Mine(r)) /\ UNCHANGED <<now, req, sweep>>
  \/ Tick /\ UNCHANGED <<storeVars, req, tx, sweep>>

CallServiceSpec == CallServiceInit /\ [][CallServiceNext]_callServiceVars

(* The clock runs, a request ends or is killed, the cron job keeps         *)
(* starting sweeps, and a sweep that visits a record for ever is not made  *)
(* to fail on it for ever.                                                 *)
FairCallServiceSpec ==
  /\ CallServiceSpec
  /\ WF_callServiceVars(Tick /\ UNCHANGED <<storeVars, req, tx, sweep>>)
  /\ \A r \in Requests : WF_callServiceVars(Die(r) /\ UNCHANGED <<now, sweep>>)
  /\ WF_callServiceVars(SweepGivesUp /\ UNCHANGED <<now, req>>)
  /\ \A a \in Auths :
       /\ SF_callServiceVars(SweepRead(a) /\ UNCHANGED <<now, req>>)
       /\ SF_callServiceVars(SweepReceipt(a) /\ UNCHANGED <<now, req>>)
       /\ SF_callServiceVars(SweepWrite(a, TRUE) /\ UNCHANGED <<now, req>>)

-----------------------------------------------------------------------------
TxStates == {"none", "pending", "success", "reverted"}

(* Shapes of the records, the requests and the sweep.                      *)
CallServiceTypeOK ==
  /\ ops \in [Auths -> Operation \cup {Absent}]
  /\ aliases \in [Keys -> Alias \cup {Absent}]
  /\ now \in 0..MaxTime
  /\ tx \in [Requests -> TxStates]
  /\ \A r \in Requests :
       /\ req[r].pc \in Awaits \cup {"idle", "done", "dead"}
       /\ req[r].code \in Codes
       /\ req[r].code # "none" <=> req[r].pc = "done"
       /\ req[r].seen \in Operation \cup {Absent}
  /\ sweep.pc # "pick" => sweep.seen \in Operation

(* However many requests carry one authorization, and whatever crashes or  *)
(* times out, only one of them ever broadcasts it.                         *)
SingleSubmitter ==
  \A r, s \in Requests :
    r # s /\ tx[r] # "none" /\ tx[s] # "none" => Auth(r) # Auth(s)

(* A record that says confirmed or reverted names a transaction of its own *)
(* authorization and payment with that outcome on chain.                   *)
RecordTruthful ==
  \A a \in Auths : Exists(a) =>
    /\ ops[a].state = "confirmed" => tx[ops[a].hash] = "success"
    /\ ops[a].state = "reverted" => tx[ops[a].hash] = "reverted"
    /\ ops[a].hash # NoHash =>
         Auth(ops[a].hash) = a /\ Intent(ops[a].hash) = ops[a].intent

(* No request is told that its payment settled or reverted unless a        *)
(* transaction for that same payment did, and an unsigned one learns       *)
(* nothing.                                                                *)
AnswersTruthful ==
  \A r \in Requests : req[r].code \in {"settled", "reverted"} =>
    LET s == req[r].hash IN
    /\ req[r].payment.signed
    /\ tx[s] = IF req[r].code = "settled" THEN "success" ELSE "reverted"
    /\ Auth(s) = Auth(r) /\ Intent(s) = Intent(r)

(* An explicit key never pays for two authorizations.                      *)
KeyPaysOnce ==
  \A r, s \in Requests :
    /\ tx[r] # "none" /\ tx[s] # "none"
    /\ Key(r) # NoKey /\ Key(r) = Key(s)
    => Auth(r) = Auth(s)

(* Neither a retry nor the sweep gives a record up while the request that  *)
(* submitted it is still at work on it: the platform's limit is shorter    *)
(* than the shortest window.                                               *)
LiveSubmitterOwnsRecord ==
  \A r \in Requests : Submitting(r) =>
    Exists(Auth(r)) /\ ops[Auth(r)].state # "abandoned"

(* A record, once there, only moves forward: its revision grows, a         *)
(* terminal state stays, a recorded hash is never lost or replaced.        *)
RecordOnlyMovesForward ==
  [][\A a \in Auths :
       Exists(a) /\ ops'[a] # ops[a] =>
         /\ ops'[a].revision = ops[a].revision + 1
         /\ ops[a].state \notin Terminal
         /\ ops[a].hash # NoHash => ops'[a].hash = ops[a].hash]_ops

(* docs/decisions.md:438-439: a record nobody retries is settled by the    *)
(* sweep, however large the keyspace.                                      *)
SweepResolvesEveryRecord ==
  \A a \in Auths :
    (Exists(a) /\ ops[a].state \notin Terminal) ~> (Exists(a) /\ ops[a].state \in Terminal)
=============================================================================
