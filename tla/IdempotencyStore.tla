-------------------------- MODULE IdempotencyStore --------------------------
(***************************************************************************)
(* api/_upstash_idempotency_store.js and the two record kinds of           *)
(* api/_idempotency.js: operations keyed by the payer's authorization and  *)
(* aliases keyed by an explicit Idempotency-Key.  Each script is atomic at *)
(* the server; the client's request may time out before or after it ran.   *)
(* A fingerprint is abstracted to the payment `intent` it hashes.  The     *)
(* clock stops long before the seven days after which a record expires.    *)
(***************************************************************************)
EXTENDS Naturals, Sequences, FiniteSets, SequencesExt

CONSTANTS
  Auths,      \* payer and nonce of the signed authorizations
  Intents,    \* providers, request hashes and amounts they can be sent with
  Keys,       \* explicit idempotency keys
  Requests,   \* HTTP requests; each broadcasts at most one transaction
  Absent,     \* no record
  NoHash,     \* a record without a transaction hash
  ScanOrder,  \* the order in which SCAN walks the keys
  PageSize,   \* COUNT of the recovery sweep's SCAN
  MaxTime     \* bound: the clock stops here

ASSUME StoreAssumption ==
  /\ {Absent, NoHash} \cap (Auths \cup Intents \cup Keys \cup Requests) = {}
  /\ ScanOrder \in Seq(Auths \cup Keys)
  /\ Range(ScanOrder) = Auths \cup Keys
  /\ Auths \cap Keys = {}
  /\ {PageSize, MaxTime} \subseteq Nat

VARIABLES ops, aliases, now

storeVars == <<ops, aliases>>

Terminal == {"confirmed", "reverted", "abandoned"}
States == {"prepared", "submitted", "unknown"} \cup Terminal

Operation == [state : States, revision : Nat, hash : Requests \cup {NoHash},
              createdAt : Nat, intent : Intents]

Alias == [auth : Auths, intent : Intents]

ASSUME RecordAssumption == Absent \notin Operation /\ Absent \notin Alias

StoreInit ==
  /\ ops = [a \in Auths |-> Absent]
  /\ aliases = [k \in Keys |-> Absent]

Exists(a) == ops[a] # Absent

-----------------------------------------------------------------------------
NewOperation(intent) ==
  [state |-> "prepared", revision |-> 0, hash |-> NoHash,
   createdAt |-> now, intent |-> intent]

(* create of an operation: a loser of the race leaves the winner's record. *)
Created(a, intent) ==
  IF Exists(a) THEN ops ELSE [ops EXCEPT ![a] = NewOperation(intent)]

(* create of an alias.                                                     *)
AliasCreated(k, a, intent) ==
  IF aliases[k] # Absent THEN aliases
  ELSE [aliases EXCEPT ![k] = [auth |-> a, intent |-> intent]]

\* Mutant: a key may be sent again with anything.
AliasMatches_Always(k, a, intent) == TRUE

(* aliasRecordStatus: the key names this authorization and this payment.   *)
AliasMatches(k, a, intent) == aliases[k].auth = a /\ aliases[k].intent = intent

\* Mutant: the record's state and revision are not compared.
CasHolds_Blind(a, handle) == Exists(a)

(* The compare of transition: state and revision are the ones the caller   *)
(* last saw.                                                               *)
CasHolds(a, handle) ==
  /\ Exists(a)
  /\ ops[a].state = handle.state
  /\ ops[a].revision = handle.revision

(* The set of transition: a patch without txHash keeps the recorded one.   *)
Moved(a, next, hash) ==
  [ops EXCEPT ![a] = [state |-> next, revision |-> ops[a].revision + 1,
                      hash |-> IF hash = NoHash THEN ops[a].hash ELSE hash,
                      createdAt |-> ops[a].createdAt,
                      intent |-> ops[a].intent]]

(* transition as its caller sees it: `ok` only if the compare held.  When  *)
(* it did not, or the request failed, the caller gets a failure, and a     *)
(* request that timed out may have been applied all the same.              *)
Transition(a, handle, next, hash, ok) ==
  /\ ok => CasHolds(a, handle)
  /\ \/ ok /\ ops' = Moved(a, next, hash)
     \/ ~ok /\ ops' = ops
     \/ ~ok /\ CasHolds(a, handle) /\ ops' = Moved(a, next, hash)
  /\ UNCHANGED aliases

(* One SCAN page from cursor 0: the first keys of the store's order.       *)
FirstPage ==
  LET stored == SelectSeq(ScanOrder, LAMBDA id :
                  IF id \in Auths THEN Exists(id) ELSE aliases[id] # Absent)
  IN {stored[i] : i \in 1..(IF Len(stored) < PageSize THEN Len(stored) ELSE PageSize)}
=============================================================================
