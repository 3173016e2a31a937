--------------------------- MODULE OperationRecords -------------------------
(***************************************************************************)
(* api/_idempotency_state.js: the second version of the operation records, *)
(* their nonce reservations and the recovery leases on both.  The module   *)
(* only plans: a worker reads a record, plans a patch for it and sends the *)
(* patch with the revision it read.  The store that applies it is not      *)
(* written yet; the file asks it for an atomic compare-and-set on the      *)
(* revision and for an atomic create, and that is all it has here: a       *)
(* request may be late, arrive twice or never, and its sender may have     *)
(* given up on it or died.  Workers' clocks agree.                         *)
(***************************************************************************)
EXTENDS Naturals, FiniteSets

CONSTANTS
  Operations,        \* ids of operation records
  Reservations,      \* ids of nonce reservations
  LegacyOperations,  \* ids of version-1 operation records
  Workers,           \* owners of leases
  None,              \* no record, no lease
  TTLs,              \* durations of a lease
  MaxWrites,         \* bound: requests in flight
  MaxTokens,         \* bound: lease tokens drawn
  MaxClock           \* bound: the clock stops here

ASSUME RecordsAssumption ==
  /\ Operations \cap Reservations = {}
  /\ LegacyOperations \cap (Operations \cup Reservations) = {}
  /\ TTLs \subseteq Nat \ {0}
  /\ {MaxWrites, MaxTokens, MaxClock} \subseteq Nat

VARIABLES
  records,  \* what the store holds under each id
  writes,   \* requests that may still reach the store
  leases,   \* the leases each worker was told it holds
  drawn,    \* tokens drawn so far
  clock

recordsVars == <<records, writes, leases, drawn, clock>>

Ids == Operations \cup Reservations \cup LegacyOperations
Current == 2
Legacy == 1

OperationStates == {"prepared", "nonce_reserved", "signed", "broadcast", "unknown",
                    "confirmed", "reverted", "abandoned"}
ReservationStates == {"reserved", "signed", "broadcast", "unknown",
                      "confirmed", "reverted", "released"}
RecordStates == OperationStates \cup ReservationStates \cup {"submitted"}

TerminalOperation == {"confirmed", "reverted", "abandoned"}
TerminalReservation == {"confirmed", "reverted", "released"}
RecoverableOperation == {"nonce_reserved", "signed", "broadcast", "unknown"}
RecoverableReservation == {"reserved", "signed", "broadcast", "unknown"}

(* The states after one that are the same for both kinds.                  *)
AfterSigning(state) ==
  CASE state = "signed"    -> {"broadcast", "unknown"}
    [] state = "broadcast" -> {"unknown", "confirmed", "reverted"}
    [] state = "unknown"   -> {"confirmed", "reverted"}
    [] OTHER               -> {}

OperationTransitions(state) ==
  CASE state = "prepared"       -> {"nonce_reserved", "abandoned"}
    [] state = "nonce_reserved" -> {"signed", "abandoned"}
    [] OTHER                    -> AfterSigning(state)

ReservationTransitions(state) ==
  IF state = "reserved" THEN {"signed", "released"} ELSE AfterSigning(state)

Transitions(id, state) ==
  IF id \in Reservations THEN ReservationTransitions(state) ELSE OperationTransitions(state)

IsTerminal(id, state) ==
  state \in IF id \in Reservations THEN TerminalReservation ELSE TerminalOperation

IsRecoverable(id, state) ==
  state \in IF id \in Reservations THEN RecoverableReservation ELSE RecoverableOperation

Lease == [owner : Workers, token : Nat, expiresAt : Nat]
Record == [version : {Current, Legacy}, state : RecordStates, revision : Nat,
           transaction : {"none", "signed"}, lease : Lease \cup {None}]

ASSUME NoneAssumption == None \notin Lease /\ None \notin Record

Stored(id) == records[id] # None
Writable(id) == Stored(id) /\ records[id].version = Current

(* A lease ends at its expiry, not after it.                               *)
Active(lease) == lease # None /\ clock < lease.expiresAt

NewRecord(id) ==
  [version |-> Current, state |-> IF id \in Reservations THEN "reserved" ELSE "prepared",
   revision |-> 0, transaction |-> "none", lease |-> None]

LegacyRecord(state) ==
  [version |-> Legacy, state |-> state, revision |-> 0,
   transaction |-> IF state = "prepared" THEN "none" ELSE "signed", lease |-> None]

RecordsInit ==
  /\ \E old \in [LegacyOperations -> {"prepared", "submitted", "confirmed"}] :
       records = [id \in Ids |-> IF id \in LegacyOperations THEN LegacyRecord(old[id]) ELSE None]
  /\ writes = {} /\ drawn = 0 /\ clock = 0
  /\ leases = [w \in Workers |-> {}]

-----------------------------------------------------------------------------
(* An id is used again only when no request for its earlier record can     *)
(* reach the store any more: revisions start again at zero.                *)
Create(id) ==
  /\ ~Stored(id)
  /\ \A write \in writes : write.id # id
  /\ records' = [records EXCEPT ![id] = NewRecord(id)]
  /\ UNCHANGED <<writes, leases, drawn, clock>>

Send(write) ==
  /\ Cardinality(writes) < MaxWrites
  /\ writes' = writes \cup {write}

(* A patch may set the transaction of a record, clear it or leave it.      *)
Patches == {"kept", "signed", "none"}

(* A raw transaction or its hash.                                          *)
HasSignedTransaction(id) == records[id].transaction # "none"

\* Mutant: a signed record may be given up.
PlanTransition_AnyRecord(id, state, tx) ==
  /\ Writable(id)
  /\ state \in Transitions(id, records[id].state)
  /\ Send([op |-> "transition", id |-> id, base |-> records[id].revision,
           state |-> state, tx |-> tx, lease |-> None])
  /\ UNCHANGED <<records, leases, drawn, clock>>

(* A record whose transaction is signed can be neither abandoned nor       *)
(* released.  The lease is not asked for.                                  *)
PlanTransition(id, state, tx) ==
  /\ Writable(id)
  /\ state \in Transitions(id, records[id].state)
  /\ state \in {"abandoned", "released"} => ~HasSignedTransaction(id)
  /\ Send([op |-> "transition", id |-> id, base |-> records[id].revision,
           state |-> state, tx |-> tx, lease |-> None])
  /\ UNCHANGED <<records, leases, drawn, clock>>

\* Mutant: a lease that still runs is taken over.
CanClaim_TakesOver(id) == Writable(id) /\ IsRecoverable(id, records[id].state)

CanClaim(id) ==
  /\ Writable(id)
  /\ ~IsTerminal(id, records[id].state)
  /\ IsRecoverable(id, records[id].state)
  /\ ~Active(records[id].lease)

PlanLeaseClaim(w, id, ttl) ==
  /\ CanClaim(id)
  /\ drawn < MaxTokens
  /\ drawn' = drawn + 1
  /\ Send([op |-> "claim", id |-> id, base |-> records[id].revision,
           state |-> records[id].state, tx |-> "kept",
           lease |-> [owner |-> w, token |-> drawn', expiresAt |-> clock + ttl]])
  /\ UNCHANGED <<records, leases, clock>>

(* A worker gives a lease back by owner and token, also after its expiry   *)
(* and on a record that is settled by now; it stops relying on it when it  *)
(* sends the request.                                                      *)
PlanLeaseRelease(w, id, lease) ==
  /\ [id |-> id, lease |-> lease] \in leases[w]
  /\ Writable(id)
  /\ records[id].lease # None
  /\ records[id].lease.owner = lease.owner /\ records[id].lease.token = lease.token
  /\ Send([op |-> "release", id |-> id, base |-> records[id].revision,
           state |-> records[id].state, tx |-> "kept", lease |-> None])
  /\ leases' = [leases EXCEPT ![w] = {held \in @ : held.id # id \/ held.lease.token # lease.token}]
  /\ UNCHANGED <<records, drawn, clock>>

Transitioned(record, write) ==
  [record EXCEPT !.state = write.state,
                 !.transaction = IF write.tx = "kept" THEN record.transaction ELSE write.tx]

Patched(record, write) ==
  LET patched == IF write.op = "transition" THEN Transitioned(record, write)
                 ELSE [record EXCEPT !.lease = write.lease]
  IN [patched EXCEPT !.revision = write.base + 1]

(* The store's compare-and-set.                                            *)
Matches(write) == Stored(write.id) /\ records[write.id].revision = write.base

(* A request reaches the store, for the first time or again; its sender    *)
(* hears the answer or not.                                                *)
Land(write, heard) ==
  /\ write \in writes
  /\ Matches(write)
  /\ records' = [records EXCEPT ![write.id] = Patched(records[write.id], write)]
  /\ leases' = IF heard /\ write.op = "claim"
                 THEN [leases EXCEPT ![write.lease.owner] = @ \cup {[id |-> write.id, lease |-> write.lease]}]
                 ELSE leases
  /\ UNCHANGED <<writes, drawn, clock>>

Lose(write) ==
  /\ write \in writes
  /\ writes' = writes \ {write}
  /\ UNCHANGED <<records, leases, drawn, clock>>

IsCleanupEligible(id) ==
  /\ Writable(id)
  /\ IsTerminal(id, records[id].state)
  /\ ~Active(records[id].lease)

Cleanup(id) ==
  /\ IsCleanupEligible(id)
  /\ records' = [records EXCEPT ![id] = None]
  /\ UNCHANGED <<writes, leases, drawn, clock>>

Crash(w) ==
  /\ leases[w] # {}
  /\ leases' = [leases EXCEPT ![w] = {}]
  /\ UNCHANGED <<records, writes, drawn, clock>>

ClockTick ==
  /\ clock < MaxClock
  /\ clock' = clock + 1
  /\ UNCHANGED <<records, writes, leases, drawn>>

RecordsNext ==
  \/ \E id \in Operations \cup Reservations : Create(id)
  \/ \E id \in Ids, state \in OperationStates \cup ReservationStates, tx \in Patches :
       PlanTransition(id, state, tx)
  \/ \E w \in Workers, id \in Ids :
       \/ \E ttl \in TTLs : PlanLeaseClaim(w, id, ttl)
       \/ \E held \in leases[w] : PlanLeaseRelease(w, id, held.lease)
  \/ \E write \in writes : Lose(write) \/ \E heard \in BOOLEAN : Land(write, heard)
  \/ \E id \in Ids : Cleanup(id)
  \/ \E w \in Workers : Crash(w)
  \/ ClockTick

RecordsSpec == RecordsInit /\ [][RecordsNext]_recordsVars

-----------------------------------------------------------------------------
(* While a worker may rely on a lease, the record is there and carries     *)
(* that very lease, so no other worker can rely on one: whatever requests  *)
(* were late, repeated or lost, and whoever died in between.               *)
LeaseExclusive ==
  \A w \in Workers : \A held \in leases[w] :
    clock < held.lease.expiresAt =>
      Stored(held.id) /\ records[held.id].lease = held.lease

(* How far a state is on the way to its end.                               *)
Rank(state) ==
  CASE state = "prepared" -> 0
    [] state \in {"nonce_reserved", "reserved"} -> 1
    [] state \in {"signed", "submitted"} -> 2
    [] state = "broadcast" -> 3
    [] state = "unknown" -> 4
    [] OTHER -> 5

(* No payment is lost sight of.  A record leaves the store only settled,   *)
(* of the current version and with no lease running; a settled record      *)
(* keeps its outcome and no record goes back on its way; one that had a    *)
(* signed transaction is never given up; and version-1 records stay as     *)
(* they were.                                                              *)
NothingUnresolvedLost ==
  [][\A id \in Ids : Stored(id) =>
       IF records'[id] = None THEN
         /\ records[id].version = Current
         /\ IsTerminal(id, records[id].state)
         /\ ~Active(records[id].lease)
       ELSE
         /\ IsTerminal(id, records[id].state) => records'[id].state = records[id].state
         /\ Rank(records'[id].state) >= Rank(records[id].state)
         /\ HasSignedTransaction(id) /\ records'[id].state # records[id].state =>
              records'[id].state \notin {"abandoned", "released"}
         /\ records[id].version = Legacy => records'[id] = records[id]]_recordsVars
=============================================================================
