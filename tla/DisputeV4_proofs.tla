-------------------------- MODULE DisputeV4_proofs --------------------------
(***************************************************************************)
(* Proofs about DisputeV4 next to DisputeV3, PayPerCallV8, the registry    *)
(* and the evidence registry: what the escrow of a dispute becomes, what a *)
(* dispute shows, and that no call costs two slashes during the migration. *)
(***************************************************************************)
EXTENDS DisputeV4, PayPerCallV8_proofs, TotalTheorems

USE DEF Providers, Addresses, Versions, Time, CallIds

Statuses == {"None", "Pending", "Upheld", "Rejected", "Appealed", "AppealUpheld", "AppealRejected"}

DisputeRecord ==
  [status : Statuses, openedAt : Nat, resolvedAt : Nat, bond : Nat, appealBond : Nat,
   appellant : Addresses \cup {NoAddress}, slash : Nat, held : Nat, settled : BOOLEAN]

DisputeTypes ==
  /\ config \in [DisputeContracts -> Config]
  /\ disputes \in [DisputeContracts -> [CallIds -> DisputeRecord]]

(* The inductive invariant: besides what a dispute's record says of        *)
(* itself, the registry's and the escrow's own, without which a payout     *)
(* could leave a ledger that is no ledger, and a completed call reopen.    *)
EscrowInv == Inv /\ DisputeTypes /\ HeldUntilSettled

LEMMA Places ==
  /\ Registry \in Addresses /\ Registry \notin DisputeContracts /\ Registry \notin Accounts
  /\ DisputeContracts \subseteq Addresses /\ DisputeContracts \cap Accounts = {}
  /\ Providers \subseteq Accounts /\ Accounts \subseteq Addresses
  /\ Treasuries \subseteq Addresses
  /\ DisputeBonds \subseteq Nat /\ AppealBonds \subseteq Nat /\ DisputeSlashes \subseteq 0..Bps
  /\ now \in Time => now \in Nat
BY RegistryAssumption, DisputeAssumption DEF DisputeContracts

-----------------------------------------------------------------------------
(* What the contracts below do to a call that is over: nothing.            *)
CompletedStay ==
  \A c \in CallIds : calls[c].status = "Completed" =>
    calls'[c].status = "Completed" /\ calls'[c].caller = calls[c].caller

LEMMA NextCompletedStay ==
  ASSUME Inv, [Next]_vars
  PROVE  CompletedStay
<1> USE DEF CompletedStay
<1>1. calls \in [CallIds -> Call] /\ \A c \in CallIds : c >= nonce => calls[c] = NoCall
  BY DEF Inv, TypeOK, CallsWellFormed
<1>2. ASSUME NEW p \in Providers, NEW caller, NEW payer, CreateCall(p, caller, payer)
      PROVE  CompletedStay
  <2>1. nonce \in CallIds /\ calls[nonce] = NoCall
    BY <1>1, <1>2 DEF CreateCall
  <2>2. calls[nonce].status = "None"
    BY <2>1 DEF NoCall
  <2>3. \A c \in CallIds : c # nonce => calls'[c] = calls[c]
    BY <1>1, <1>2, <2>1 DEF CreateCall
  <2> QED
    BY <2>2, <2>3
<1>3. ASSUME NEW c \in CallIds, NEW t, NEW v, NEW key, SubmitReceipt(c, t, v, key)
      PROVE  CompletedStay
  <2>1. calls[c].status = "Pending"
    BY <1>3 DEF SubmitReceipt, Pending
  <2>2. \A b \in CallIds : b # c => calls'[b] = calls[b]
    BY <1>1, <1>3 DEF SubmitReceipt
  <2> QED
    BY <2>1, <2>2
<1>4. ASSUME NEW c \in CallIds, NEW sender, ClaimTimeout(c, sender)
      PROVE  CompletedStay
  <2>1. calls[c].status = "Pending"
    BY <1>4 DEF ClaimTimeout, Pending
  <2>2. calls' = [calls EXCEPT ![c].status = "Slashed"]
    BY <1>4 DEF ClaimTimeout, AfterTimeout, Book
  <2>3. \A b \in CallIds : b # c => calls'[b] = calls[b]
    BY <1>1, <2>2
  <2> QED
    BY <2>1, <2>3
<1>5. ASSUME UNCHANGED calls PROVE CompletedStay
  BY <1>5
<1>6. CASE OpenStep
  BY <1>2, <1>6 DEF OpenStep, CallService, CallServiceFor, CallServiceWithAuthorization
<1>7. CASE ReceiptStep
  BY <1>3, <1>7 DEF ReceiptStep
<1>8. CASE \E c \in CallIds : TimeoutStep(c)
  BY <1>4, <1>8 DEF TimeoutStep
<1>9. CASE \E a \in Accounts : Claim(a)
  BY <1>5, <1>9 DEF Claim
<1>10. CASE (RegistryStep \/ Tick) /\ UNCHANGED callVars
  BY <1>5, <1>10 DEF callVars
<1>11. CASE UNCHANGED vars
  BY <1>5, <1>11 DEF vars, callVars
<1> QED
  BY <1>6, <1>7, <1>8, <1>9, <1>10, <1>11 DEF Next, CallStep

LEMMA SettlementIsNext == SettlementStep => [Next]_vars
BY DEF SettlementStep, OtherSlash, Next, RegistryStep

LEMMA SettlementPreserves ==
  ASSUME EscrowInv, [Next]_vars, UNCHANGED disputeVars
  PROVE  EscrowInv'
<1>1. Inv' /\ CompletedStay
  BY StepInv, NextCompletedStay DEF EscrowInv
<1>2. DisputeTypes'
  BY DEF EscrowInv, DisputeTypes, disputeVars
<1>3. HeldUntilSettled'
  BY <1>1 DEF EscrowInv, HeldUntilSettled, CompletedStay, Disputed, Caller, disputeVars
<1> QED
  BY <1>1, <1>2, <1>3 DEF EscrowInv

(* Steps of others that read none of this.                                 *)
LEMMA OthersPreserve ==
  ASSUME EscrowInv, UNCHANGED <<vars, disputes>>, DisputeTypes'
  PROVE  EscrowInv'
<1>1. Inv'
  BY StepInv DEF EscrowInv
<1>2. HeldUntilSettled'
  BY DEF EscrowInv, HeldUntilSettled, Disputed, Caller, vars, callVars
<1> QED
  BY <1>1, <1>2 DEF EscrowInv

-----------------------------------------------------------------------------
(* A dispute contract writes the record of one dispute at a time.          *)
Only(d, c) ==
  \A e \in DisputeContracts, b \in CallIds : e # d \/ b # c => disputes'[e][b] = disputes[e][b]

RecordOk(r) ==
  /\ r.held = IF r.settled THEN 0 ELSE r.slash
  /\ r.settled => r.status \notin {"None", "Pending", "Appealed"}
  /\ r.status \in {"AppealUpheld", "AppealRejected"} => r.settled

LEMMA RecordFacts ==
  ASSUME EscrowInv, NEW d \in DisputeContracts, NEW c \in CallIds
  PROVE  /\ disputes[d][c] \in DisputeRecord /\ RecordOk(disputes[d][c])
         /\ config[d] \in Config
         /\ d \in Addresses /\ d # Registry /\ d \notin Accounts
         /\ Disputed(d, c) =>
              /\ calls[c].status = "Completed"
              /\ Caller(c) \in Accounts /\ Caller(c) \in Addresses /\ Caller(c) # d
              /\ ProviderOf(c) \in Accounts /\ ProviderOf(c) \in Addresses
              /\ ProviderOf(c) # d /\ ProviderOf(c) \in Providers
<1>1. Disputed(d, c) => calls[c].status = "Completed" /\ Caller(c) \in Accounts
  BY DEF EscrowInv, HeldUntilSettled
<1>2. calls[c].status = "Completed" => ProviderOf(c) \in Providers
  BY DEF EscrowInv, Inv, CallsWellFormed, ProviderOf
<1>3. disputes[d][c] \in DisputeRecord /\ config[d] \in Config
  BY DEF EscrowInv, DisputeTypes
<1>4. RecordOk(disputes[d][c])
  BY DEF EscrowInv, HeldUntilSettled, RecordOk
<1> QED
  BY <1>1, <1>2, <1>3, <1>4, Places

(* Writing a record that is in order for a call that is over keeps the     *)
(* invariant of the disputes.                                              *)
LEMMA RecordWritten ==
  ASSUME EscrowInv, NEW d \in DisputeContracts, NEW c \in CallIds, NEW r \in DisputeRecord,
         disputes' = [disputes EXCEPT ![d] = [disputes[d] EXCEPT ![c] = r]], config' = config,
         RecordOk(r), UNCHANGED calls,
         calls[c].status = "Completed", Caller(c) \in Accounts
  PROVE  DisputeTypes' /\ HeldUntilSettled' /\ disputes'[d][c] = r /\ Only(d, c)
<1>1. disputes \in [DisputeContracts -> [CallIds -> DisputeRecord]]
  BY DEF EscrowInv, DisputeTypes
<1>2. disputes'[d][c] = r /\ Only(d, c)
  BY <1>1 DEF Only
<1>3. DisputeTypes'
  BY <1>1 DEF EscrowInv, DisputeTypes
<1>4. HeldUntilSettled'
  <2> SUFFICES ASSUME NEW e \in DisputeContracts, NEW b \in CallIds
               PROVE  /\ RecordOk(disputes'[e][b])
                      /\ disputes'[e][b].status # "None" =>
                            calls[b].status = "Completed" /\ Caller(b) \in Accounts
    BY DEF HeldUntilSettled, RecordOk, Disputed, Caller
  <2>1. CASE e = d /\ b = c
    BY <1>2, <2>1
  <2>2. CASE e # d \/ b # c
    BY <1>2, <2>2, RecordFacts DEF Only, Disputed
  <2> QED
    BY <2>1, <2>2
<1> QED
  BY <1>2, <1>3, <1>4

LEMMA TwoTransfers ==
  ASSUME NEW ledger \in [Addresses -> Nat], NEW from \in Addresses,
         NEW a \in Addresses, NEW b \in Addresses, NEW m \in Nat, NEW n \in Nat,
         a # from, CanPay(ledger, from, m + n)
  PROVE  /\ Transfer(Transfer(ledger, from, a, m), from, b, n) \in [Addresses -> Nat]
         /\ Transfer(Transfer(ledger, from, a, m), from, b, n)[a] >= ledger[a] + m
<1> DEFINE first == Transfer(ledger, from, a, m)
<1>1. ledger[from] >= m + n /\ ledger[from] \in Nat /\ ledger[a] \in Nat
  BY DEF CanPay
<1>2. first \in [Addresses -> Nat]
  BY <1>1, TransferType DEF CanPay
<1>3. first[from] = ledger[from] - m /\ first[a] = ledger[a] + m
  BY <1>1 DEF Transfer, Credit
<1>4. CanPay(first, from, n)
  BY <1>1, <1>3 DEF CanPay
<1> HIDE DEF first
<1>5. Transfer(first, from, b, n) \in [Addresses -> Nat]
  BY <1>2, <1>4, TransferType
<1>6. Transfer(first, from, b, n)[a] >= first[a]
  <2> DEFINE less == [first EXCEPT ![from] = first[from] - n]
  <2>1. first[a] \in Nat /\ less[a] = first[a] /\ less = [x \in Addresses |-> less[x]]
    BY <1>2
  <2>2. Transfer(first, from, b, n) = [less EXCEPT ![b] = less[b] + n]
    BY DEF Transfer, Credit
  <2> HIDE DEF less
  <2>3. [less EXCEPT ![b] = less[b] + n][a] = IF a = b THEN less[a] + n ELSE less[a]
    BY <2>1
  <2> QED
    BY <2>1, <2>2, <2>3
<1>7. Transfer(first, from, b, n)[a] >= ledger[a] + m
  BY <1>1, <1>2, <1>3, <1>5, <1>6
<1> QED
  BY <1>5, <1>7 DEF first

LEMMA OneTransfer ==
  ASSUME NEW ledger \in [Addresses -> Nat], NEW from \in Addresses,
         NEW a \in Addresses, NEW m \in Nat, a # from, CanPay(ledger, from, m)
  PROVE  /\ Transfer(ledger, from, a, m) \in [Addresses -> Nat]
         /\ Transfer(ledger, from, a, m)[a] >= ledger[a] + m
<1>1. ledger[from] >= m /\ ledger[from] \in Nat /\ ledger[a] \in Nat
  BY DEF CanPay
<1>2. Transfer(ledger, from, a, m)[a] = ledger[a] + m
  BY <1>1 DEF Transfer, Credit
<1>3. Transfer(ledger, from, a, m) \in [Addresses -> Nat]
  BY TransferType
<1>4. Transfer(ledger, from, a, m)[a] >= ledger[a] + m
  BY <1>1, <1>2
<1> QED
  BY <1>3, <1>4

LEMMA SecondPaid ==
  ASSUME NEW ledger \in [Addresses -> Nat], NEW from \in Addresses,
         NEW a \in Addresses, NEW b \in Addresses, NEW m \in Nat, NEW n \in Nat,
         a # from, b # from, CanPay(ledger, from, m + n)
  PROVE  Transfer(Transfer(ledger, from, a, m), from, b, n)[b] >= ledger[b] + n
<1> DEFINE first == Transfer(ledger, from, a, m)
<1>1. ledger[from] >= m + n /\ ledger[from] \in Nat /\ ledger[b] \in Nat
  BY DEF CanPay
<1>2. first \in [Addresses -> Nat] /\ first[from] = ledger[from] - m
  BY <1>1, TransferType DEF CanPay, Transfer, Credit
<1>3. first[b] >= ledger[b]
  BY <1>1 DEF Transfer, Credit
<1>4. CanPay(first, from, n)
  BY <1>1, <1>2 DEF CanPay
<1> HIDE DEF first
<1>5. Transfer(first, from, b, n)[b] >= first[b] + n
  BY <1>2, <1>4, OneTransfer
<1>6. Transfer(first, from, b, n) \in [Addresses -> Nat]
  BY <1>2, <1>4, TransferType
<1> DEFINE last == Transfer(first, from, b, n)[b]
<1>7. last \in Nat /\ first[b] \in Nat /\ last >= first[b] + n
  BY <1>2, <1>5, <1>6
<1> HIDE DEF last
<1>8. last >= ledger[b] + n
  BY <1>1, <1>3, <1>7
<1> QED
  BY <1>8 DEF first, last

-----------------------------------------------------------------------------
(* What a step about an open dispute leaves behind.                        *)
PaidToWinner(d, c) ==
  LET r == disputes[d][c]
      after == disputes'[d][c]
  IN r.held # after.held =>
       \/ ~Disputed(d, c) /\ after.status = "Pending"
       \/ /\ after.settled /\ ~r.settled /\ after.held = 0
          /\ balance'[Winner(c, after)] >= balance[Winner(c, after)] + r.held

After(d, c) ==
  /\ EscrowInv'
  /\ Only(d, c)
  /\ ~disputes[d][c].settled
  /\ PaidToWinner(d, c)

SlashKept(d, c) ==
  /\ Disputed(d, c) /\ disputes'[d][c].status # "None"
  /\ disputes'[d][c].slash = disputes[d][c].slash

LEMMA DisputeMoves ==
  ASSUME EscrowInv, NEW d \in DisputeContracts, NEW c \in CallIds, Disputed(d, c), OnlyDisputes,
         NEW r \in DisputeRecord, RecordOk(r), r.slash = disputes[d][c].slash, r.status # "None",
         disputes' = [disputes EXCEPT ![d] = [disputes[d] EXCEPT ![c] = r]],
         balance' \in [Addresses -> Nat],
         ~disputes[d][c].settled,
         r.settled => /\ r.held = 0
                      /\ balance'[Winner(c, r)] >= balance[Winner(c, r)] + disputes[d][c].held
  PROVE  After(d, c) /\ SlashKept(d, c)
<1>1. /\ calls[c].status = "Completed" /\ Caller(c) \in Accounts
      /\ RecordOk(disputes[d][c])
  BY RecordFacts
<1>2. config' = config /\ UNCHANGED <<providers, termsVars, adminVars, now, callVars>>
  BY DEF OnlyDisputes
<1>3. UNCHANGED calls
  BY <1>2 DEF callVars
<1>4. DisputeTypes' /\ HeldUntilSettled' /\ disputes'[d][c] = r /\ Only(d, c)
  BY <1>1, <1>2, <1>3, RecordWritten
<1>5. Inv'
  BY <1>2, PayoutPreserves DEF EscrowInv
<1>6. ~r.settled => r.held = disputes[d][c].held
  BY <1>1 DEF RecordOk
<1>7. PaidToWinner(d, c)
  BY <1>4, <1>6 DEF PaidToWinner
<1> QED
  BY <1>4, <1>5, <1>7 DEF After, SlashKept, EscrowInv

LEMMA ResolveAfter ==
  ASSUME EscrowInv, NEW d \in DisputeContracts, NEW c \in CallIds, NEW upheld \in BOOLEAN,
         Resolve(d, c, upheld)
  PROVE  After(d, c) /\ SlashKept(d, c)
<1> DEFINE old == disputes[d][c]
           r == [old EXCEPT !.status = IF upheld THEN "Upheld" ELSE "Rejected",
                            !.resolvedAt = now]
<1>1. old.status = "Pending" /\ Disputed(d, c)
  BY DEF Resolve, Disputed
<1>2. old \in DisputeRecord /\ RecordOk(old) /\ now \in Nat
  BY RecordFacts, Places DEF EscrowInv, Inv, TypeOK, RegistryTypeOK
<1>3. r \in DisputeRecord /\ r.slash = old.slash /\ r.held = old.held
      /\ r.settled = old.settled /\ r.status \in {"Upheld", "Rejected"}
  BY <1>2 DEF DisputeRecord, Statuses
<1>4. RecordOk(r) /\ ~old.settled /\ ~r.settled
  BY <1>1, <1>2, <1>3 DEF RecordOk
<1>5. disputes' = [disputes EXCEPT ![d] = [disputes[d] EXCEPT ![c] = r]]
  BY DEF Resolve
<1>6. balance' \in [Addresses -> Nat]
  <2> DEFINE recipient == IF upheld THEN Caller(c) ELSE config[d].treasury
  <2>1. recipient \in Addresses /\ d \in Addresses
    BY <1>1, RecordFacts, Places DEF Config
  <2>2. old.bond \in Nat /\ CanPay(balance, d, old.bond)
    BY <1>2 DEF DisputeRecord, Resolve
  <2>3. balance' = Transfer(balance, d, recipient, old.bond)
    BY DEF Resolve
  <2> QED
    BY <2>1, <2>2, <2>3, TransferType DEF EscrowInv, Inv, TypeOK, RegistryTypeOK
<1>7. OnlyDisputes
  BY DEF Resolve
<1> HIDE DEF r
<1> QED
  BY <1>1, <1>3, <1>4, <1>5, <1>6, <1>7, DisputeMoves

LEMMA ReclaimAfter ==
  ASSUME EscrowInv, NEW d \in DisputeContracts, NEW c \in CallIds, ReclaimExpiredBond(d, c)
  PROVE  After(d, c) /\ SlashKept(d, c)
<1> DEFINE old == disputes[d][c]
           r == [old EXCEPT !.status = "Rejected", !.resolvedAt = now,
                            !.held = 0, !.settled = TRUE]
<1>1. old.status = "Pending" /\ Disputed(d, c)
  BY DEF ReclaimExpiredBond, Disputed
<1>2. old \in DisputeRecord /\ RecordOk(old) /\ now \in Nat
  BY RecordFacts, Places DEF EscrowInv, Inv, TypeOK, RegistryTypeOK
<1>3. r \in DisputeRecord /\ r.slash = old.slash /\ r.held = 0 /\ r.settled
      /\ r.status = "Rejected"
  BY <1>2 DEF DisputeRecord, Statuses
<1>4. RecordOk(r) /\ ~old.settled
  BY <1>1, <1>2, <1>3 DEF RecordOk
<1>5. disputes' = [disputes EXCEPT ![d] = [disputes[d] EXCEPT ![c] = r]]
  BY DEF ReclaimExpiredBond
<1>6. /\ balance' \in [Addresses -> Nat]
      /\ balance'[Winner(c, r)] >= balance[Winner(c, r)] + old.held
  <2>1. old.bond \in Nat /\ old.held \in Nat /\ balance \in [Addresses -> Nat]
    BY <1>2 DEF DisputeRecord, EscrowInv, Inv, TypeOK, RegistryTypeOK
  <2>2. CanPay(balance, d, old.bond + old.held)
        /\ balance' = Transfer(Transfer(balance, d, Caller(c), old.bond), d, ProviderOf(c), old.held)
    BY DEF ReclaimExpiredBond
  <2>3. /\ d \in Addresses /\ Caller(c) \in Addresses /\ Caller(c) # d
        /\ ProviderOf(c) \in Addresses /\ ProviderOf(c) # d
    BY <1>1, RecordFacts
  <2>4. balance' \in [Addresses -> Nat]
    BY <2>1, <2>2, <2>3, TwoTransfers
  <2>5. balance'[ProviderOf(c)] >= balance[ProviderOf(c)] + old.held
    BY <2>1, <2>2, <2>3, SecondPaid
  <2> QED
    BY <1>3, <2>4, <2>5 DEF Winner
<1>7. OnlyDisputes
  BY DEF ReclaimExpiredBond
<1> HIDE DEF r
<1> QED
  BY <1>1, <1>3, <1>4, <1>5, <1>6, <1>7, DisputeMoves

LEMMA AppealAfter ==
  ASSUME EscrowInv, NEW d \in DisputeContracts, NEW c \in CallIds, NEW party \in Accounts,
         Appeal(d, c, party)
  PROVE  After(d, c) /\ SlashKept(d, c)
<1> DEFINE old == disputes[d][c]
           r == [old EXCEPT !.status = "Appealed", !.appealBond = config[d].appealBond,
                            !.appellant = party]
<1>1. old.status \in {"Upheld", "Rejected"} /\ Disputed(d, c) /\ ~old.settled
  BY DEF Appeal, Decided, Disputed
<1>2. old \in DisputeRecord /\ RecordOk(old) /\ config[d].appealBond \in Nat
  BY RecordFacts, Places DEF Config
<1>3. party \in Addresses /\ d \in Addresses
  BY Places
<1>4. r \in DisputeRecord /\ r.slash = old.slash /\ r.held = old.held
      /\ r.settled = old.settled /\ r.status = "Appealed"
  BY <1>2, <1>3 DEF DisputeRecord, Statuses
<1>5. RecordOk(r) /\ ~r.settled
  BY <1>1, <1>2, <1>4 DEF RecordOk
<1>6. disputes' = [disputes EXCEPT ![d] = [disputes[d] EXCEPT ![c] = r]]
  BY DEF Appeal
<1>7. balance' \in [Addresses -> Nat]
  <2>1. /\ CanPay(balance, party, config[d].appealBond)
        /\ balance' = Transfer(balance, party, d, config[d].appealBond)
    BY DEF Appeal
  <2> QED
    BY <1>2, <1>3, <2>1, TransferType DEF EscrowInv, Inv, TypeOK, RegistryTypeOK
<1>8. OnlyDisputes
  BY DEF Appeal
<1> HIDE DEF r
<1> QED
  BY <1>1, <1>4, <1>5, <1>6, <1>7, <1>8, DisputeMoves

LEMMA FinalizeAfter ==
  ASSUME EscrowInv, NEW d \in DisputeContracts, NEW c \in CallIds, Finalize(d, c)
  PROVE  After(d, c) /\ SlashKept(d, c)
<1> DEFINE old == disputes[d][c]
           r == [old EXCEPT !.held = 0, !.settled = TRUE]
<1>1. old.status \in {"Upheld", "Rejected"} /\ Disputed(d, c) /\ ~old.settled
  BY DEF Finalize, Decided, Disputed
<1>2. old \in DisputeRecord /\ RecordOk(old)
  BY RecordFacts
<1>3. r \in DisputeRecord /\ r.slash = old.slash /\ r.held = 0 /\ r.settled
      /\ r.status = old.status
  BY <1>2 DEF DisputeRecord
<1>4. RecordOk(r)
  BY <1>1, <1>3 DEF RecordOk
<1>5. disputes' = [disputes EXCEPT ![d] = [disputes[d] EXCEPT ![c] = r]]
  BY DEF Finalize
<1>6. /\ balance' \in [Addresses -> Nat]
      /\ balance'[Winner(c, r)] >= balance[Winner(c, r)] + old.held
  <2>1. old.held \in Nat /\ balance \in [Addresses -> Nat]
    BY <1>2 DEF DisputeRecord, EscrowInv, Inv, TypeOK, RegistryTypeOK
  <2>2. Winner(c, r) = IF old.status = "Upheld" THEN Caller(c) ELSE ProviderOf(c)
    BY <1>1, <1>3 DEF Winner
  <2>3. CanPay(balance, d, old.held) /\ balance' = Transfer(balance, d, Winner(c, r), old.held)
    BY <2>2 DEF Finalize
  <2>4. d \in Addresses /\ Winner(c, r) \in Addresses /\ Winner(c, r) # d
    BY <1>1, <2>2, RecordFacts
  <2> HIDE DEF r
  <2> QED
    BY <2>1, <2>3, <2>4, OneTransfer
<1>7. OnlyDisputes
  BY DEF Finalize
<1> HIDE DEF r
<1> QED
  BY <1>1, <1>3, <1>4, <1>5, <1>6, <1>7, DisputeMoves

LEMMA ResolveAppealAfter ==
  ASSUME EscrowInv, NEW d \in DisputeContracts, NEW c \in CallIds, NEW upheld \in BOOLEAN,
         ResolveAppeal(d, c, upheld)
  PROVE  After(d, c) /\ SlashKept(d, c)
<1> DEFINE old == disputes[d][c]
           r == [old EXCEPT !.status = IF upheld THEN "AppealUpheld" ELSE "AppealRejected",
                            !.resolvedAt = now, !.held = 0, !.settled = TRUE]
<1>1. old.status = "Appealed" /\ Disputed(d, c) /\ ~old.settled
  BY DEF ResolveAppeal, Disputed
<1>2. old \in DisputeRecord /\ RecordOk(old) /\ now \in Nat
  BY RecordFacts, Places DEF EscrowInv, Inv, TypeOK, RegistryTypeOK
<1>3. r \in DisputeRecord /\ r.slash = old.slash /\ r.held = 0 /\ r.settled
      /\ r.status = IF upheld THEN "AppealUpheld" ELSE "AppealRejected"
  BY <1>2 DEF DisputeRecord, Statuses
<1>4. RecordOk(r)
  BY <1>3 DEF RecordOk
<1>5. disputes' = [disputes EXCEPT ![d] = [disputes[d] EXCEPT ![c] = r]]
  BY DEF ResolveAppeal
<1>6. /\ balance' \in [Addresses -> Nat]
      /\ balance'[Winner(c, r)] >= balance[Winner(c, r)] + old.held
  <2> DEFINE bond == old.appealBond
             to == AppealBondTo(d, c, upheld)
  <2>1. old.held \in Nat /\ bond \in Nat /\ balance \in [Addresses -> Nat]
    BY <1>2 DEF DisputeRecord, EscrowInv, Inv, TypeOK, RegistryTypeOK
  <2>2. Winner(c, r) = IF upheld THEN Caller(c) ELSE ProviderOf(c)
    BY <1>3 DEF Winner
  <2>3. CanPay(balance, d, old.held + bond)
        /\ balance' = Transfer(Transfer(balance, d, Winner(c, r), old.held), d, to, bond)
    BY <2>2 DEF ResolveAppeal
  <2>4. d \in Addresses /\ Winner(c, r) \in Addresses /\ Winner(c, r) # d
    BY <1>1, <2>2, RecordFacts
  <2>5. to \in Addresses
    BY <1>1, RecordFacts, Places DEF AppealBondTo, Config
  <2> HIDE DEF r, bond, to
  <2> QED
    BY <2>1, <2>3, <2>4, <2>5, TwoTransfers
<1>7. OnlyDisputes
  BY DEF ResolveAppeal
<1> HIDE DEF r
<1> QED
  BY <1>1, <1>3, <1>4, <1>5, <1>6, <1>7, DisputeMoves

-----------------------------------------------------------------------------
(* Opening a dispute also takes the penalty from the stake.                *)
LEMMA TwoPayers ==
  ASSUME NEW ledger \in [Addresses -> Nat], NEW to \in Addresses,
         NEW a \in Addresses, NEW b \in Addresses, NEW m \in Nat, NEW n \in Nat,
         a # b, b # to, CanPay(ledger, a, m), CanPay(ledger, b, n)
  PROVE  Transfer(Transfer(ledger, a, to, m), b, to, n) \in [Addresses -> Nat]
<1> DEFINE first == Transfer(ledger, a, to, m)
<1>1. first \in [Addresses -> Nat] /\ first[b] = ledger[b]
  BY TransferType DEF Transfer, Credit
<1>2. CanPay(first, b, n)
  BY <1>1 DEF CanPay
<1> HIDE DEF first
<1> QED
  BY <1>1, <1>2, TransferType DEF first

LEMMA OpenAfter ==
  ASSUME EscrowInv, NEW d \in DisputeContracts, NEW c \in CallIds, OpenDispute(d, c)
  PROVE  /\ After(d, c) /\ ~Disputed(d, c) /\ disputes'[d][c].status = "Pending"
         /\ disputes'[d][c].slash = CurrentDisputeSlash(d, ProviderOf(c))
<1> DEFINE p == ProviderOf(c)
           bond == config[d].disputeBond
           slash == CurrentDisputeSlash(d, p)
           r == [NoDispute EXCEPT !.status = "Pending", !.openedAt = now, !.bond = bond,
                                  !.slash = slash, !.held = slash]
<1>1. /\ ~Disputed(d, c) /\ calls[c].status = "Completed" /\ Caller(c) \in Accounts
      /\ CanPay(balance, Caller(c), bond) /\ CanPay(balance, Registry, slash)
      /\ slash > 0 => providers[p].registered
      /\ providers' = Slashed(providers, p, slash)
      /\ balance' = Transfer(Transfer(balance, Caller(c), d, bond), Registry, d, slash)
      /\ UNCHANGED <<termsVars, adminVars, now, callVars>> /\ config' = config
  BY DEF OpenDispute, SlashAccepted
<1>2. p \in Providers /\ providers[p].stake \in Nat /\ now \in Nat
      /\ balance \in [Addresses -> Nat]
  BY <1>1, Places DEF EscrowInv, Inv, CallsWellFormed, TypeOK, RegistryTypeOK, Provider, ProviderOf
<1>3. config[d] \in Config /\ RecordOk(disputes[d][c]) /\ disputes[d][c] \in DisputeRecord
      /\ d \in Addresses /\ d # Registry /\ d \notin Accounts
  BY RecordFacts
<1>4. bond \in Nat /\ config[d].slashBps \in 0..Bps
  BY <1>3, Places DEF Config
<1>5. slash \in Nat /\ slash <= providers[p].stake
  BY <1>2, <1>4, ShareBounded DEF CurrentDisputeSlash
<1>6. balance' \in [Addresses -> Nat]
  <2>1. /\ Caller(c) \in Addresses /\ Registry \in Addresses
        /\ Caller(c) # Registry /\ Registry # d
    BY <1>1, <1>3, Places
  <2> HIDE DEF bond, slash
  <2> QED
    BY <1>1, <1>2, <1>3, <1>4, <1>5, <2>1, TwoPayers
<1>7. Inv'
  <2> HIDE DEF p, bond, slash
  <2> QED
    BY <1>1, <1>2, <1>5, <1>6, StakeCut DEF EscrowInv
<1>8. /\ r \in DisputeRecord /\ r.slash = slash /\ r.held = slash /\ ~r.settled
      /\ r.status = "Pending"
  BY <1>2, <1>4, <1>5 DEF DisputeRecord, Statuses, NoDispute
<1>9. RecordOk(r)
  BY <1>8 DEF RecordOk
<1>10. disputes' = [disputes EXCEPT ![d] = [disputes[d] EXCEPT ![c] = r]]
  BY DEF OpenDispute
<1>11. UNCHANGED calls
  BY <1>1 DEF callVars
<1>12. DisputeTypes' /\ HeldUntilSettled' /\ disputes'[d][c] = r /\ Only(d, c)
  <2> HIDE DEF r
  <2> QED
    BY <1>1, <1>8, <1>9, <1>10, <1>11, RecordWritten
<1>13. ~disputes[d][c].settled
  BY <1>1, <1>3 DEF RecordOk, Disputed
<1> QED
  BY <1>1, <1>7, <1>8, <1>12, <1>13 DEF After, PaidToWinner, EscrowInv

-----------------------------------------------------------------------------
(* Every step, and the theorems.                                           *)
Contested ==
  \E d \in DisputeContracts, c \in CallIds :
    After(d, c) /\ (SlashKept(d, c) \/ OpenDispute(d, c))

LEMMA ConfigKept ==
  ASSUME EscrowInv, NEW d \in DisputeContracts, NEW new \in Config, SetConfig(d, new)
  PROVE  EscrowInv' /\ UNCHANGED disputes
<1>1. DisputeTypes'
  BY DEF EscrowInv, DisputeTypes, SetConfig
<1>2. UNCHANGED <<vars, disputes>>
  BY DEF SetConfig
<1> QED
  BY <1>1, <1>2, OthersPreserve

LEMMA LeversKeep ==
  ASSUME EscrowInv, NEW d \in DisputeContracts,
         \/ \E j \in Judges : SetArbiter(d, j) \/ SetAppealArbiter(d, j)
         \/ \E t \in Treasuries : SetTreasury(d, t)
         \/ \E bond \in DisputeBonds : SetDisputeBond(d, bond)
         \/ \E bond \in AppealBonds : SetAppealBond(d, bond)
         \/ \E bps \in DisputeSlashes : SetDisputeSlashBps(d, bps)
  PROVE  EscrowInv' /\ UNCHANGED disputes
<1>1. config[d] \in Config
  BY DEF EscrowInv, DisputeTypes
<1>2. PICK new \in Config : SetConfig(d, new)
  BY <1>1 DEF Config, SetArbiter, SetAppealArbiter, SetTreasury, SetDisputeBond, SetAppealBond,
              SetDisputeSlashBps
<1> QED
  BY <1>2, ConfigKept

LEMMA EscrowSteps ==
  ASSUME EscrowInv, [DisputeNext]_allVars
  PROVE  EscrowInv' /\ (UNCHANGED disputes \/ Contested)
<1>1. CASE SettlementStep /\ UNCHANGED <<evidenceVars, disputeVars>>
  <2>1. UNCHANGED disputeVars /\ UNCHANGED disputes
    BY <1>1 DEF disputeVars
  <2> QED
    BY <1>1, <2>1, SettlementIsNext, SettlementPreserves
<1>2. CASE EvidenceStep /\ UNCHANGED <<vars, disputeVars>>
  BY <1>2, OthersPreserve DEF disputeVars, EscrowInv, DisputeTypes
<1>3. CASE \E kinds \in SUBSET Kinds : SetEvidenceKinds(kinds)
  BY <1>3, OthersPreserve DEF SetEvidenceKinds, EscrowInv, DisputeTypes
<1>4. ASSUME NEW d \in DisputeContracts, DisputeStep(d)
      PROVE  EscrowInv' /\ (UNCHANGED disputes \/ Contested)
  <2>1. ASSUME NEW c \in CallIds, OpenDispute(d, c) PROVE EscrowInv' /\ Contested
    BY <2>1, OpenAfter DEF After, Contested
  <2>2. ASSUME NEW c \in CallIds, After(d, c), SlashKept(d, c) PROVE EscrowInv' /\ Contested
    BY <2>2 DEF After, Contested
  <2>3. CASE \E c \in CallIds :
               \/ \E upheld \in BOOLEAN : Resolve(d, c, upheld) \/ ResolveAppeal(d, c, upheld)
               \/ ReclaimExpiredBond(d, c)
               \/ \E party \in Accounts : Appeal(d, c, party)
               \/ Finalize(d, c)
    BY <2>2, <2>3, ResolveAfter, ResolveAppealAfter, ReclaimAfter, AppealAfter, FinalizeAfter
  <2>4. CASE \/ \E j \in Judges : SetArbiter(d, j) \/ SetAppealArbiter(d, j)
             \/ \E t \in Treasuries : SetTreasury(d, t)
             \/ \E bond \in DisputeBonds : SetDisputeBond(d, bond)
             \/ \E bond \in AppealBonds : SetAppealBond(d, bond)
             \/ \E bps \in DisputeSlashes : SetDisputeSlashBps(d, bps)
    BY <2>4, LeversKeep
  <2> QED
    BY <1>4, <2>1, <2>3, <2>4 DEF DisputeStep
<1>5. CASE UNCHANGED allVars
  BY <1>5, OthersPreserve DEF allVars, disputeVars, EscrowInv, DisputeTypes
<1> QED
  BY <1>1, <1>2, <1>3, <1>4, <1>5 DEF DisputeNext

LEMMA EscrowInit == DisputeSystemInit => EscrowInv
<1> SUFFICES ASSUME DisputeSystemInit PROVE EscrowInv
  OBVIOUS
<1>1. Inv
  BY InitInv DEF DisputeSystemInit
<1>2. NoDispute \in DisputeRecord /\ RecordOk(NoDispute) /\ NoDispute.status = "None"
  BY DEF NoDispute, DisputeRecord, Statuses, RecordOk
<1>3. DisputeTypes
  BY <1>2 DEF DisputeSystemInit, DisputeInit, DisputeTypes
<1>4. HeldUntilSettled
  BY <1>2 DEF DisputeSystemInit, DisputeInit, HeldUntilSettled, RecordOk, Disputed
<1> QED
  BY <1>1, <1>3, <1>4 DEF EscrowInv

(* In every reachable state the records of all disputes are in order, next *)
(* to a registry and an escrow that are.                                   *)
THEOREM EscrowInvariant == DisputeSpec => []EscrowInv
<1>1. EscrowInv /\ [DisputeNext]_allVars => EscrowInv'
  BY EscrowSteps
<1> QED
  BY EscrowInit, <1>1, PTL DEF DisputeSpec

(* The escrow is whole until the dispute is settled and gone afterwards,   *)
(* and only completed calls are disputed.                                  *)
THEOREM EscrowHeld == DisputeSpec => []HeldUntilSettled
<1>1. EscrowInv => HeldUntilSettled
  BY DEF EscrowInv
<1> QED
  BY EscrowInvariant, <1>1, PTL

(* No step of any contract touches a dispute that is settled.              *)
THEOREM SettledStays == DisputeSpec => SettledIsFinal
<1>1. ASSUME EscrowInv, [DisputeNext]_allVars
      PROVE  [\A d \in DisputeContracts, c \in CallIds :
                disputes[d][c].settled => disputes'[d][c] = disputes[d][c]]_allVars
  BY <1>1, EscrowSteps DEF Contested, After, Only
<1> QED
  BY EscrowInvariant, <1>1, PTL DEF DisputeSpec, SettledIsFinal

(* Whatever an escrow loses goes, whole, to the side the last decision     *)
(* favoured.                                                               *)
THEOREM EscrowPaysWinner == DisputeSpec => EscrowToWinner
<1>1. ASSUME EscrowInv, [DisputeNext]_allVars
      PROVE  [\A d \in DisputeContracts, c \in CallIds : PaidToWinner(d, c)]_allVars
  <2>1. UNCHANGED disputes => \A d \in DisputeContracts, c \in CallIds : PaidToWinner(d, c)
    BY DEF PaidToWinner
  <2>2. Contested => \A d \in DisputeContracts, c \in CallIds : PaidToWinner(d, c)
    BY DEF Contested, After, Only, PaidToWinner
  <2> QED
    BY <1>1, <2>1, <2>2, EscrowSteps
<1> QED
  BY EscrowInvariant, <1>1, PTL DEF DisputeSpec, EscrowToWinner, PaidToWinner

-----------------------------------------------------------------------------
(* What a dispute shows as evidence.  A stored claim stays true because an *)
(* anchored entry is never written again; a binding row needs that its     *)
(* kind's mode, being neither unset nor a signature, is proof.             *)
Entry == [claim : Claims \cup {Unset}, response : Responses \cup {Unset},
          verifier : SignatureKeys \cup ProofVerifiers \cup {Unset}]

EvidenceTypes ==
  /\ modeOf \in [Kinds -> {"None", "Signature", "Proof"}]
  /\ signatureVerifier \in [Kinds -> SUBSET SignatureKeys]
  /\ proofVerifier \in [Kinds -> ProofVerifiers \cup {Unset}]
  /\ evidence \in [ClaimCalls -> [Kinds -> Entry]]
  /\ evidenceKinds \subseteq Kinds
  /\ DOMAIN snapshots = CallIds

RowTrue(c, row) ==
  /\ row.kind \in Kinds
  /\ row.present => row.stored # NoEvidence /\ evidence[c][row.kind] = row.stored
  /\ row.bound => row.present /\ row.mode = "Proof" /\ row.stored.response = Committed

RowsInv == EvidenceTypes /\ \A c \in CallIds : \A row \in snapshots[c] : RowTrue(c, row)

LEMMA RowWritten ==
  ASSUME EvidenceTypes, NEW c \in CallIds, NEW k \in evidenceKinds
  PROVE  RowTrue(c, Row(c, k))
<1>1. k \in Kinds /\ modeOf[k] \in {"None", "Signature", "Proof"}
  BY DEF EvidenceTypes
<1>2. Row(c, k).present =>
        Row(c, k).stored # NoEvidence /\ evidence[c][Row(c, k).kind] = Row(c, k).stored
  BY DEF Row
<1>3. Reason(c, k) = "None" =>
        /\ modeOf[k] = "Proof" /\ evidence[c][k] # NoEvidence
        /\ evidence[c][k].response = Committed
  BY <1>1 DEF Reason, Anchored
<1>4. Row(c, k).bound =>
        Row(c, k).present /\ Row(c, k).mode = "Proof" /\ Row(c, k).stored.response = Committed
  BY <1>3 DEF Row
<1> QED
  BY <1>1, <1>2, <1>4 DEF RowTrue, Row

(* No step of the evidence registry changes a claim that is anchored.      *)
LEMMA AnchoredStay ==
  ASSUME EvidenceTypes, EvidenceStep
  PROVE  \A c \in ClaimCalls, k \in Kinds :
           evidence[c][k] # NoEvidence => evidence'[c][k] = evidence[c][k]
BY DEF EvidenceTypes, EvidenceStep, WiringStep, SetOwner, AllowSigner, RevokeSigner,
       SetProofVerifier, AnchorStep, Anchor, Anchored

LEMMA EvidenceTyped ==
  ASSUME EvidenceTypes, EvidenceStep, UNCHANGED <<evidenceKinds, snapshots>>
  PROVE  EvidenceTypes'
<1>1. CASE WiringStep
  BY <1>1 DEF EvidenceTypes, WiringStep, SetOwner, AllowSigner, RevokeSigner, SetProofVerifier
<1>2. ASSUME NEW c \in ClaimCalls, NEW k \in Kinds, NEW claim \in Claims,
             NEW response \in Responses, NEW verifier \in Vouchers(k),
             Anchor(c, k, claim, response, verifier)
      PROVE  EvidenceTypes'
  <2> DEFINE entry == [claim |-> claim, response |-> response, verifier |-> verifier]
  <2>1. verifier \in SignatureKeys \cup ProofVerifiers \cup {Unset}
    BY DEF Vouchers, EvidenceTypes
  <2>2. entry \in Entry
    BY <2>1 DEF Entry
  <2>3. evidence' = [evidence EXCEPT ![c] = [evidence[c] EXCEPT ![k] = entry]]
    BY <1>2 DEF Anchor
  <2> HIDE DEF entry
  <2>4. evidence' \in [ClaimCalls -> [Kinds -> Entry]]
    BY <2>2, <2>3 DEF EvidenceTypes
  <2> QED
    BY <1>2, <2>4 DEF EvidenceTypes, Anchor
<1> QED
  BY <1>1, <1>2 DEF EvidenceStep, AnchorStep

LEMMA RowsStep ==
  ASSUME RowsInv, [DisputeNext]_allVars
  PROVE  RowsInv'
<1>1. CASE UNCHANGED <<evidenceVars, evidenceKinds, snapshots>>
  BY <1>1 DEF RowsInv, EvidenceTypes, RowTrue, evidenceVars
<1>2. CASE EvidenceStep /\ UNCHANGED <<vars, disputeVars>>
  <2>1. UNCHANGED <<evidenceKinds, snapshots>>
    BY <1>2 DEF disputeVars
  <2>2. EvidenceTypes'
    BY <1>2, <2>1, EvidenceTyped DEF RowsInv
  <2>3. ASSUME NEW c \in CallIds, NEW row \in snapshots'[c]
        PROVE  RowTrue(c, row)'
    <3>1. RowTrue(c, row) /\ c \in ClaimCalls
      BY <2>1, DisputeAssumption DEF RowsInv
    <3> QED
      BY <1>2, <3>1, AnchoredStay DEF RowsInv, RowTrue
  <2> QED
    BY <2>2, <2>3 DEF RowsInv
<1>3. ASSUME NEW kinds \in SUBSET Kinds, SetEvidenceKinds(kinds)
      PROVE  RowsInv'
  BY <1>3 DEF SetEvidenceKinds, RowsInv, EvidenceTypes, RowTrue, evidenceVars
<1>4. ASSUME NEW d \in DisputeContracts, NEW c \in CallIds, OpenDispute(d, c)
      PROVE  RowsInv'
  <2>1. /\ UNCHANGED <<evidenceVars, evidenceKinds>>
        /\ snapshots' = IF d = Dispute THEN [snapshots EXCEPT ![c] = Snapshot(c)] ELSE snapshots
    BY <1>4 DEF OpenDispute
  <2>2. EvidenceTypes' /\ UNCHANGED evidence
    BY <2>1 DEF RowsInv, EvidenceTypes, evidenceVars
  <2>3. ASSUME NEW b \in CallIds, NEW row \in snapshots'[b]
        PROVE  RowTrue(b, row)
    <3>1. row \in snapshots[b] \/ (b = c /\ row \in Snapshot(c))
      BY <2>1, <2>3 DEF RowsInv, EvidenceTypes
    <3> QED
      BY <3>1, RowWritten DEF RowsInv, Snapshot
  <2> QED
    BY <2>2, <2>3 DEF RowsInv, RowTrue
<1>5. ASSUME NEW d \in DisputeContracts, DisputeStep(d),
             ~\E c \in CallIds : OpenDispute(d, c)
      PROVE  UNCHANGED <<evidenceVars, evidenceKinds, snapshots>>
  <2>1. OnlyDisputes => UNCHANGED <<evidenceVars, evidenceKinds, snapshots>>
    BY DEF OnlyDisputes
  <2>2. \A new : SetConfig(d, new) => UNCHANGED <<evidenceVars, evidenceKinds, snapshots>>
    BY DEF SetConfig
  <2>3. CASE \E c \in CallIds :
               \/ \E upheld \in BOOLEAN : Resolve(d, c, upheld) \/ ResolveAppeal(d, c, upheld)
               \/ ReclaimExpiredBond(d, c)
               \/ \E party \in Accounts : Appeal(d, c, party)
               \/ Finalize(d, c)
    <3>1. \A c, upheld : Resolve(d, c, upheld) => OnlyDisputes
      BY ZenonT(20) DEF Resolve
    <3>2. \A c, upheld : ResolveAppeal(d, c, upheld) => OnlyDisputes
      BY ZenonT(20) DEF ResolveAppeal
    <3>3. \A c : ReclaimExpiredBond(d, c) => OnlyDisputes
      BY ZenonT(20) DEF ReclaimExpiredBond
    <3>4. \A c, party : Appeal(d, c, party) => OnlyDisputes
      BY ZenonT(20) DEF Appeal
    <3>5. \A c : Finalize(d, c) => OnlyDisputes
      BY ZenonT(20) DEF Finalize
    <3> QED
      BY <2>1, <2>3, <3>1, <3>2, <3>3, <3>4, <3>5
  <2>4. CASE ~\E c \in CallIds :
               \/ \E upheld \in BOOLEAN : Resolve(d, c, upheld) \/ ResolveAppeal(d, c, upheld)
               \/ ReclaimExpiredBond(d, c)
               \/ \E party \in Accounts : Appeal(d, c, party)
               \/ Finalize(d, c)
    <3>1. \E new : SetConfig(d, new)
      BY <1>5, <2>4 DEF DisputeStep, SetArbiter, SetAppealArbiter, SetTreasury, SetDisputeBond,
                       SetAppealBond, SetDisputeSlashBps
    <3> QED
      BY <2>2, <3>1
  <2> QED
    BY <2>3, <2>4
<1>6. CASE SettlementStep /\ UNCHANGED <<evidenceVars, disputeVars>>
  BY <1>1, <1>6 DEF disputeVars
<1>7. CASE UNCHANGED allVars
  BY <1>1, <1>7 DEF allVars, disputeVars
<1> QED
  BY <1>1, <1>2, <1>3, <1>4, <1>5, <1>6, <1>7 DEF DisputeNext

(* Whatever is rewired, revoked or anchored after a dispute was opened,    *)
(* what it shows is what the registry holds, and binds only on a proof     *)
(* naming the response the receipt committed to.                           *)
THEOREM ShownEvidenceIsTrue == DisputeSpec => []RowsTruthful
<1>1. ASSUME DisputeSystemInit PROVE RowsInv
  <2>1. NoEvidence \in Entry
    BY DEF NoEvidence, Entry
  <2> QED
    BY <1>1, <2>1 DEF DisputeSystemInit, DisputeInit, EvidenceInit, RowsInv, EvidenceTypes
<1>2. RowsInv /\ [DisputeNext]_allVars => RowsInv'
  BY RowsStep
<1>3. RowsInv => RowsTruthful
  BY DEF RowsInv, RowTrue, RowsTruthful
<1> QED
  BY <1>1, <1>2, <1>3, PTL DEF DisputeSpec

-----------------------------------------------------------------------------
(* The migration.  V4 takes a penalty only while it may slash, so that the *)
(* runbook has V3 revoked; and V3, once V4 has a dispute, stays revoked.   *)
LegacyMuted == LegacyDisputes \cap authorizedSlashers = {}

MigrationInv ==
  /\ EscrowInv
  /\ Dispute \in authorizedSlashers => LegacyMuted
  /\ (\E c \in CallIds : disputes[Dispute][c].slash > 0) => LegacyMuted
  /\ \A d \in DisputeContracts, c \in CallIds : ~Disputed(d, c) => disputes[d][c].slash = 0
  /\ \A c \in CallIds, legacy \in LegacyDisputes :
       ~(disputes[Dispute][c].slash > 0 /\ disputes[legacy][c].slash > 0)

LEMMA NeedsAuthority ==
  ASSUME MigrationInv, NEW d \in DisputeContracts, NEW c \in CallIds, OpenDispute(d, c),
         CurrentDisputeSlash(d, ProviderOf(c)) > 0
  PROVE  d \in authorizedSlashers /\ authorizedSlashers' = authorizedSlashers
<1>1. MaySlash(d) /\ UNCHANGED adminVars
  BY DEF OpenDispute
<1>2. payPerCall \in {NoAddress, PPC}
  BY DEF MigrationInv, EscrowInv, Inv, TypeOK, RegistryTypeOK
<1>3. d # NoAddress /\ d # PPC
  BY Places, RegistryAssumption, DisputeAssumption
<1> QED
  BY <1>1, <1>2, <1>3 DEF MaySlash, adminVars

LEMMA MigrationStep ==
  ASSUME MigrationInv, [MigrationNext]_allVars
  PROVE  MigrationInv'
<1>1. EscrowInv' /\ (UNCHANGED disputes \/ Contested)
  BY EscrowSteps DEF MigrationInv, MigrationNext
<1>2. RunbookFollowed \/ (authorizedSlashers' = authorizedSlashers /\ UNCHANGED disputes)
  BY DEF MigrationNext, allVars, disputeVars, vars, adminVars, registryVars
<1>3. (Dispute \in authorizedSlashers => LegacyMuted)'
  BY <1>2 DEF RunbookFollowed, LegacyMuted, MigrationInv
<1>4. Dispute \in DisputeContracts /\ LegacyDisputes \subseteq DisputeContracts
      /\ Dispute \notin LegacyDisputes
  BY DisputeAssumption DEF DisputeContracts
<1>5. ASSUME \E c \in CallIds : disputes[Dispute][c].slash > 0
      PROVE  LegacyMuted /\ LegacyMuted'
  <2>1. LegacyMuted
    BY <1>5 DEF MigrationInv
  <2>2. \E c \in CallIds : Disputed(Dispute, c)
    BY <1>4, <1>5 DEF MigrationInv
  <2> QED
    BY <1>2, <2>1, <2>2 DEF RunbookFollowed, LegacyMuted
<1>6. CASE UNCHANGED disputes
  BY <1>1, <1>3, <1>5, <1>6 DEF MigrationInv, Disputed
<1>7. ASSUME NEW d \in DisputeContracts, NEW c \in CallIds, After(d, c), SlashKept(d, c)
      PROVE  MigrationInv'
  <2>1. \A e \in DisputeContracts, b \in CallIds :
          /\ disputes'[e][b].slash = disputes[e][b].slash
          /\ Disputed(e, b) => disputes'[e][b].status # "None"
    BY <1>7 DEF After, Only, SlashKept, Disputed
  <2>2. (\E b \in CallIds : disputes[Dispute][b].slash > 0)' => LegacyMuted'
    BY <1>4, <1>5, <2>1
  <2> QED
    BY <1>1, <1>3, <1>4, <2>1, <2>2 DEF MigrationInv, Disputed
<1>8. ASSUME NEW d \in DisputeContracts, NEW c \in CallIds, After(d, c), OpenDispute(d, c)
      PROVE  MigrationInv'
  <2> DEFINE slash == CurrentDisputeSlash(d, ProviderOf(c))
  <2>1. /\ ~Disputed(d, c) /\ ~DisputedElsewhere(d, c)
        /\ disputes'[d][c].slash = slash /\ disputes'[d][c].status = "Pending"
    BY <1>8, OpenAfter DEF MigrationInv, OpenDispute
  <2>2. \A e \in DisputeContracts, b \in CallIds : e # d \/ b # c => disputes'[e][b] = disputes[e][b]
    BY <1>8 DEF After, Only
  <2>3. slash > 0 => d \in authorizedSlashers /\ authorizedSlashers' = authorizedSlashers
    BY <1>8, NeedsAuthority
  <2> HIDE DEF slash
  <2>4. ASSUME \E b \in CallIds : disputes'[Dispute][b].slash > 0
        PROVE  LegacyMuted'
    <3>1. CASE \E b \in CallIds : disputes[Dispute][b].slash > 0
      BY <1>5, <3>1
    <3>2. CASE d = Dispute /\ slash > 0
      BY <2>3, <3>2 DEF MigrationInv, LegacyMuted
    <3> QED
      BY <1>4, <2>1, <2>2, <2>4, <3>1, <3>2
  <2>5. \A e \in DisputeContracts, b \in CallIds :
          disputes'[e][b].status = "None" => disputes'[e][b].slash = 0
    BY <2>1, <2>2 DEF MigrationInv, Disputed
  <2>6. ASSUME NEW b \in CallIds, NEW legacy \in LegacyDisputes,
               disputes'[Dispute][b].slash > 0, disputes'[legacy][b].slash > 0
        PROVE  FALSE
    <3>1. CASE b = c /\ d = Dispute
      <4>1. ~Disputed(legacy, c) /\ legacy # d
        BY <1>4, <2>1, <3>1 DEF DisputedElsewhere
      <4>2. disputes'[legacy][c] = disputes[legacy][c] /\ disputes[legacy][c].slash = 0
        BY <1>4, <2>2, <4>1 DEF MigrationInv
      <4> QED
        BY <2>6, <3>1, <4>2
    <3>2. CASE b = c /\ d = legacy
      <4>1. slash > 0 /\ legacy \in authorizedSlashers
        BY <2>1, <2>3, <2>6, <3>2
      <4>2. disputes[Dispute][c].slash > 0
        BY <1>4, <2>2, <2>6, <3>2
      <4> QED
        BY <1>5, <4>1, <4>2 DEF LegacyMuted
    <3>3. CASE b # c \/ (d # Dispute /\ d # legacy)
      BY <1>4, <2>2, <2>6, <3>3 DEF MigrationInv
    <3> QED
      BY <3>1, <3>2, <3>3
  <2> QED
    BY <1>1, <1>3, <2>4, <2>5, <2>6 DEF MigrationInv, Disputed
<1> QED
  BY <1>1, <1>6, <1>7, <1>8 DEF Contested

LEMMA AtMostOne ==
  ASSUME NEW S, \A x, y \in S : x = y
  PROVE  Cardinality(S) <= 1
<1>1. CASE S = {}
  BY <1>1, FS_EmptySet
<1>2. ASSUME NEW x \in S PROVE Cardinality(S) <= 1
  <2>1. S = {x}
    BY <1>2
  <2> QED
    BY <2>1, FS_Singleton
<1> QED
  BY <1>1, <1>2

(* Under the runbook's order no call ever costs its provider two slashes,  *)
(* although V3 never looks at V4: whatever calls, rates and decisions.     *)
THEOREM MigrationSlashesOnce == MigrationSpec => []NoDoubleSlash
<1>1. ASSUME DisputeSystemInit PROVE MigrationInv
  <2>1. disputes = [d \in DisputeContracts |-> [c \in CallIds |-> NoDispute]]
        /\ authorizedSlashers = {}
    BY <1>1 DEF DisputeSystemInit, DisputeInit, Init, RegistryInit
  <2>2. NoDispute.slash = 0
    BY DEF NoDispute
  <2>3. Dispute \in DisputeContracts /\ LegacyDisputes \subseteq DisputeContracts
    BY DEF DisputeContracts
  <2> QED
    BY <1>1, <2>1, <2>2, <2>3, EscrowInit DEF MigrationInv, LegacyMuted
<1>2. MigrationInv /\ [MigrationNext]_allVars => MigrationInv'
  BY MigrationStep
<1>3. ASSUME MigrationInv PROVE NoDoubleSlash
  <2> SUFFICES ASSUME NEW c \in CallIds
               PROVE  Cardinality({d \in DisputeContracts : disputes[d][c].slash > 0}) <= 1
    BY DEF NoDoubleSlash
  <2> DEFINE S == {d \in DisputeContracts : disputes[d][c].slash > 0}
  <2>1. \A x, y \in S : x = y
    BY <1>3, DisputeAssumption DEF MigrationInv, DisputeContracts
  <2> HIDE DEF S
  <2>2. Cardinality(S) <= 1
    BY <2>1, AtMostOne
  <2> QED
    BY <2>2 DEF S
<1> QED
  BY <1>1, <1>2, <1>3, PTL DEF MigrationSpec

-----------------------------------------------------------------------------
(* A dispute contract holds exactly what its disputes owe: a transaction   *)
(* moves the contract's balance by as much as it changes what one dispute  *)
(* is owed, and no transaction of the contracts below touches that balance. *)


(* What the contract owes on account of a record.                          *)
OwedOn(r) ==
  r.held + (IF r.status = "Pending" THEN r.bond ELSE 0)
         + (IF r.status = "Appealed" THEN r.appealBond ELSE 0)

Account(d) == [c \in CallIds |-> OwedOn(disputes[d][c])]

LEMMA SolventAccounts ==
  DisputeSolvent <=> \A d \in DisputeContracts : balance[d] = Total(Account(d), CallIds)
BY DEF DisputeSolvent, Account, Owed, OwedOn

(* Nothing is held for a call nobody disputed.                             *)
NothingHeld ==
  \A d \in DisputeContracts, c \in CallIds : ~Disputed(d, c) => disputes[d][c].held = 0

LEMMA NothingHeldStep ==
  ASSUME EscrowInv, NothingHeld, UNCHANGED disputes \/ Contested
  PROVE  NothingHeld'
<1>1. CASE UNCHANGED disputes
  BY <1>1 DEF NothingHeld, Disputed
<1>2. ASSUME NEW d \in DisputeContracts, NEW c \in CallIds, Only(d, c),
             disputes'[d][c].status # "None"
      PROVE  NothingHeld'
  <2> SUFFICES ASSUME NEW e \in DisputeContracts, NEW b \in CallIds,
                      disputes'[e][b].status = "None"
               PROVE  disputes'[e][b].held = 0
    BY DEF NothingHeld, Disputed
  <2>1. disputes'[e][b] = disputes[e][b]
    BY <1>2 DEF Only
  <2> QED
    BY <2>1 DEF NothingHeld, Disputed
<1>3. ASSUME NEW d \in DisputeContracts, NEW c \in CallIds, OpenDispute(d, c)
      PROVE  disputes'[d][c].status # "None"
  BY <1>3, OpenAfter
<1> QED
  BY <1>1, <1>2, <1>3 DEF Contested, After, SlashKept

-----------------------------------------------------------------------------
(* One dispute and the contract's balance move together.                   *)
LEMMA OwedNat ==
  ASSUME NEW r \in DisputeRecord
  PROVE  OwedOn(r) \in Nat
BY DEF OwedOn, DisputeRecord

LEMMA AccountMoves ==
  ASSUME EscrowInv, EscrowInv', DisputeSolvent, NEW d \in DisputeContracts, NEW c \in CallIds,
         Only(d, c),
         balance'[d] = balance[d] - OwedOn(disputes[d][c]) + OwedOn(disputes'[d][c]),
         \A e \in DisputeContracts \ {d} : balance'[e] = balance[e]
  PROVE  DisputeSolvent'
<1> DEFINE f == Account(d)
           h == [b \in CallIds |-> OwedOn(disputes'[d][b])]
           S == CallIds
<1>1. Account(d)' = h
  BY DEF Account
<1>2. \A b \in S : f[b] = OwedOn(disputes[d][b]) /\ h[b] = OwedOn(disputes'[d][b])
  BY DEF Account
<1>3. \A b \in S : disputes[d][b] \in DisputeRecord /\ disputes'[d][b] \in DisputeRecord
  BY DEF EscrowInv, DisputeTypes
<1>4. \A b \in S : f[b] \in Nat /\ h[b] \in Nat
  <2> HIDE DEF f, h, S
  <2> QED
    BY <1>2, <1>3, OwedNat
<1>5. \A b \in S \ {c} : h[b] = f[b]
  BY <1>2 DEF Only
<1>6. IsFiniteSet(S) /\ c \in S
  BY FS_Interval, PayPerCallAssumption
<1>7. balance[d] = Total(f, S)
  BY SolventAccounts
<1>8. f[c] = OwedOn(disputes[d][c]) /\ h[c] = OwedOn(disputes'[d][c])
  BY <1>2, <1>6
<1> HIDE DEF f, h, S
<1>9. Total(h, S) = Total(f, S) - f[c] + h[c]
  <2>1. \A b \in S : f[b] \in Nat /\ h[b] \in Nat
    BY <1>4
  <2>2. \A b \in S \ {c} : h[b] = f[b]
    BY <1>5
  <2>3. IsFiniteSet(S) /\ c \in S
    BY <1>6
  <2> HIDE DEF CallIds
  <2> QED
    BY <2>1, <2>2, <2>3, TotalChange
<1>10. balance'[d] = Total(h, S)
  BY <1>7, <1>8, <1>9
<1>11. ASSUME NEW e \in DisputeContracts
       PROVE  balance'[e] = Total([b \in CallIds |-> Owed(e, b)'], CallIds)
  <2>1. [b \in CallIds |-> Owed(e, b)'] = [b \in CallIds |-> OwedOn(disputes'[e][b])]
    BY DEF Owed, OwedOn
  <2>2. CASE e = d
    BY <1>10, <2>1, <2>2 DEF h, S
  <2>3. CASE e # d
    <3>1. [b \in CallIds |-> OwedOn(disputes'[e][b])] = Account(e)
      BY <2>3 DEF Account, Only
    <3>2. balance[e] = Total(Account(e), CallIds)
      BY SolventAccounts
    <3> QED
      BY <2>1, <2>3, <3>1, <3>2
  <2> QED
    BY <2>2, <2>3
<1> QED
  BY <1>11 DEF DisputeSolvent

LEMMA AccountsStay ==
  ASSUME DisputeSolvent, UNCHANGED disputes, \A d \in DisputeContracts : balance'[d] = balance[d]
  PROVE  DisputeSolvent'
<1>1. \A d \in DisputeContracts : [c \in CallIds |-> Owed(d, c)]' = [c \in CallIds |-> Owed(d, c)]
  BY DEF Owed
<1> QED
  BY <1>1 DEF DisputeSolvent

(* The contract pays out what it no longer owes on a dispute.              *)
LEMMA PaysOut ==
  ASSUME EscrowInv, EscrowInv', DisputeSolvent, NEW d \in DisputeContracts, NEW c \in CallIds,
         Only(d, c), NEW a \in Addresses \ DisputeContracts, NEW m \in Nat,
         balance' = Transfer(balance, d, a, m),
         OwedOn(disputes'[d][c]) = OwedOn(disputes[d][c]) - m
  PROVE  DisputeSolvent'
<1>1. DOMAIN balance = Addresses /\ DisputeContracts \subseteq Addresses /\ a # d
      /\ balance[d] \in Nat /\ OwedOn(disputes[d][c]) \in Nat
  <2>1. disputes[d][c] \in DisputeRecord
    BY RecordFacts
  <2> QED
    BY <2>1, OwedNat, Places DEF EscrowInv, Inv, TypeOK, RegistryTypeOK
<1>2. balance'[d] = balance[d] - m
  BY <1>1, Moves
<1>3. \A e \in DisputeContracts \ {d} : balance'[e] = balance[e]
  BY <1>1, Moves
<1>4. balance'[d] = balance[d] - OwedOn(disputes[d][c]) + OwedOn(disputes'[d][c])
  BY <1>1, <1>2
<1> QED
  BY <1>3, <1>4, AccountMoves

LEMMA PaysOutTwice ==
  ASSUME EscrowInv, EscrowInv', DisputeSolvent, NEW d \in DisputeContracts, NEW c \in CallIds,
         Only(d, c), NEW a \in Addresses \ DisputeContracts, NEW m \in Nat,
         NEW b \in Addresses \ DisputeContracts, NEW n \in Nat,
         balance' = Transfer(Transfer(balance, d, a, m), d, b, n),
         OwedOn(disputes'[d][c]) = OwedOn(disputes[d][c]) - (m + n)
  PROVE  DisputeSolvent'
<1> DEFINE first == Transfer(balance, d, a, m)
<1>1. DOMAIN balance = Addresses /\ DisputeContracts \subseteq Addresses /\ a # d /\ b # d
      /\ balance[d] \in Nat /\ OwedOn(disputes[d][c]) \in Nat
  <2>1. disputes[d][c] \in DisputeRecord
    BY RecordFacts
  <2> QED
    BY <2>1, OwedNat, Places DEF EscrowInv, Inv, TypeOK, RegistryTypeOK
<1>2. DOMAIN first = Addresses /\ first[d] = balance[d] - m
      /\ \A e \in DisputeContracts \ {d} : first[e] = balance[e]
  BY <1>1, Moves
<1>3. balance' = Transfer(first, d, b, n)
  OBVIOUS
<1> HIDE DEF first
<1>4. balance'[d] = first[d] - n
  BY <1>1, <1>2, <1>3, Moves
<1>5. \A e \in DisputeContracts \ {d} : balance'[e] = balance[e]
  BY <1>1, <1>2, <1>3, Moves
<1>6. balance'[d] = balance[d] - OwedOn(disputes[d][c]) + OwedOn(disputes'[d][c])
  BY <1>1, <1>2, <1>4
<1> QED
  BY <1>5, <1>6, AccountMoves

-----------------------------------------------------------------------------
(* The transactions about one dispute.                                     *)
LEMMA Parties ==
  ASSUME EscrowInv, NEW d \in DisputeContracts, NEW c \in CallIds, Disputed(d, c)
  PROVE  /\ Caller(c) \in Addresses \ DisputeContracts
         /\ ProviderOf(c) \in Addresses \ DisputeContracts
         /\ config[d].treasury \in Addresses \ DisputeContracts
         /\ disputes[d][c] \in DisputeRecord /\ c \in DOMAIN disputes[d] /\ d \in DOMAIN disputes
<1>1. config[d].treasury \in Addresses \ DisputeContracts
  BY RecordFacts, DisputeAssumption DEF Config
<1> QED
  BY <1>1, RecordFacts, Places DEF EscrowInv, DisputeTypes

LEMMA ResolveMoney ==
  ASSUME EscrowInv, DisputeSolvent, NEW d \in DisputeContracts, NEW c \in CallIds,
         NEW upheld \in BOOLEAN, Resolve(d, c, upheld)
  PROVE  DisputeSolvent'
<1> DEFINE old == disputes[d][c]
           recipient == IF upheld THEN Caller(c) ELSE config[d].treasury
<1>1. old.status = "Pending" /\ Disputed(d, c)
  BY DEF Resolve, Disputed
<1>2. EscrowInv' /\ Only(d, c)
  BY ResolveAfter DEF After
<1>3. recipient \in Addresses \ DisputeContracts /\ old.bond \in Nat /\ old.held \in Nat
  BY <1>1, Parties DEF DisputeRecord
<1>4. disputes'[d][c] = [old EXCEPT !.status = IF upheld THEN "Upheld" ELSE "Rejected",
                                   !.resolvedAt = now]
  BY <1>1, Parties DEF Resolve
<1>5. OwedOn(disputes'[d][c]) = old.held
  BY <1>1, <1>3, <1>4, Parties DEF OwedOn, DisputeRecord
<1>6. OwedOn(old) = old.held + old.bond
  BY <1>1, <1>3 DEF OwedOn
<1>7. balance' = Transfer(balance, d, recipient, old.bond)
  BY DEF Resolve
<1>8. OwedOn(disputes'[d][c]) = OwedOn(disputes[d][c]) - old.bond
  BY <1>3, <1>5, <1>6
<1> HIDE DEF recipient
<1> QED
  BY <1>2, <1>3, <1>7, <1>8, PaysOut

LEMMA ReclaimMoney ==
  ASSUME EscrowInv, DisputeSolvent, NEW d \in DisputeContracts, NEW c \in CallIds,
         ReclaimExpiredBond(d, c)
  PROVE  DisputeSolvent'
<1> DEFINE old == disputes[d][c]
<1>1. old.status = "Pending" /\ Disputed(d, c)
  BY DEF ReclaimExpiredBond, Disputed
<1>2. EscrowInv' /\ Only(d, c)
  BY ReclaimAfter DEF After
<1>3. old.bond \in Nat /\ old.held \in Nat
  BY <1>1, Parties DEF DisputeRecord
<1>4. disputes'[d][c] = [old EXCEPT !.status = "Rejected", !.resolvedAt = now,
                                   !.held = 0, !.settled = TRUE]
  BY <1>1, Parties DEF ReclaimExpiredBond
<1>5. OwedOn(disputes'[d][c]) = 0
  BY <1>1, <1>4, Parties DEF OwedOn, DisputeRecord
<1>6. OwedOn(old) = old.held + old.bond
  BY <1>1, <1>3 DEF OwedOn
<1>7. balance' = Transfer(Transfer(balance, d, Caller(c), old.bond), d, ProviderOf(c), old.held)
  BY DEF ReclaimExpiredBond
<1>8. OwedOn(disputes'[d][c]) = OwedOn(disputes[d][c]) - (old.bond + old.held)
  BY <1>3, <1>5, <1>6
<1>9. Caller(c) \in Addresses \ DisputeContracts /\ ProviderOf(c) \in Addresses \ DisputeContracts
  BY <1>1, Parties
<1> QED
  BY <1>2, <1>3, <1>7, <1>8, <1>9, PaysOutTwice

LEMMA FinalizeMoney ==
  ASSUME EscrowInv, DisputeSolvent, NEW d \in DisputeContracts, NEW c \in CallIds, Finalize(d, c)
  PROVE  DisputeSolvent'
<1> DEFINE old == disputes[d][c]
           winner == IF old.status = "Upheld" THEN Caller(c) ELSE ProviderOf(c)
<1>1. old.status \in {"Upheld", "Rejected"} /\ Disputed(d, c)
  BY DEF Finalize, Disputed, Decided
<1>2. EscrowInv' /\ Only(d, c)
  BY FinalizeAfter DEF After
<1>3. winner \in Addresses \ DisputeContracts /\ old.held \in Nat
  BY <1>1, Parties DEF DisputeRecord
<1>4. disputes'[d][c] = [old EXCEPT !.held = 0, !.settled = TRUE]
  BY <1>1, Parties DEF Finalize
<1>5. OwedOn(disputes'[d][c]) = 0
  BY <1>1, <1>4, Parties DEF OwedOn, DisputeRecord
<1>6. OwedOn(old) = old.held
  BY <1>1, <1>3 DEF OwedOn
<1>7. balance' = Transfer(balance, d, winner, old.held)
  BY DEF Finalize
<1>8. OwedOn(disputes'[d][c]) = OwedOn(disputes[d][c]) - old.held
  BY <1>3, <1>5, <1>6
<1> HIDE DEF winner
<1> QED
  BY <1>2, <1>3, <1>7, <1>8, PaysOut

LEMMA ResolveAppealMoney ==
  ASSUME EscrowInv, DisputeSolvent, NEW d \in DisputeContracts, NEW c \in CallIds,
         NEW upheld \in BOOLEAN, ResolveAppeal(d, c, upheld)
  PROVE  DisputeSolvent'
<1> DEFINE old == disputes[d][c]
           winner == IF upheld THEN Caller(c) ELSE ProviderOf(c)
           other == AppealBondTo(d, c, upheld)
<1>1. old.status = "Appealed" /\ Disputed(d, c)
  BY DEF ResolveAppeal, Disputed
<1>2. EscrowInv' /\ Only(d, c)
  BY ResolveAppealAfter DEF After
<1>3. /\ winner \in Addresses \ DisputeContracts /\ other \in Addresses \ DisputeContracts
      /\ old.appealBond \in Nat /\ old.held \in Nat
  BY <1>1, Parties DEF DisputeRecord, AppealBondTo
<1>4. disputes'[d][c] = [old EXCEPT !.status = IF upheld THEN "AppealUpheld" ELSE "AppealRejected",
                                   !.resolvedAt = now, !.held = 0, !.settled = TRUE]
  BY <1>1, Parties DEF ResolveAppeal
<1>5. OwedOn(disputes'[d][c]) = 0
  BY <1>1, <1>4, Parties DEF OwedOn, DisputeRecord
<1>6. OwedOn(old) = old.held + old.appealBond
  BY <1>1, <1>3 DEF OwedOn
<1>7. balance' = Transfer(Transfer(balance, d, winner, old.held), d, other, old.appealBond)
  BY DEF ResolveAppeal
<1>8. OwedOn(disputes'[d][c]) = OwedOn(disputes[d][c]) - (old.held + old.appealBond)
  BY <1>3, <1>5, <1>6
<1> HIDE DEF winner, other
<1> QED
  BY <1>2, <1>3, <1>7, <1>8, PaysOutTwice

LEMMA AppealMoney ==
  ASSUME EscrowInv, DisputeSolvent, NEW d \in DisputeContracts, NEW c \in CallIds,
         NEW party \in Accounts, Appeal(d, c, party)
  PROVE  DisputeSolvent'
<1> DEFINE old == disputes[d][c]
           bond == config[d].appealBond
<1>1. old.status \in {"Upheld", "Rejected"} /\ Disputed(d, c)
  BY DEF Appeal, Disputed, Decided
<1>2. EscrowInv' /\ Only(d, c)
  BY AppealAfter DEF After
<1>3. bond \in Nat /\ old.held \in Nat
  BY <1>1, Parties, RecordFacts, Places DEF DisputeRecord, Config
<1>4. disputes'[d][c] = [old EXCEPT !.status = "Appealed", !.appealBond = bond,
                                   !.appellant = party]
  BY <1>1, Parties DEF Appeal
<1>5. OwedOn(disputes'[d][c]) = old.held + bond
  BY <1>1, <1>3, <1>4, Parties DEF OwedOn, DisputeRecord
<1>6. OwedOn(old) = old.held
  BY <1>1, <1>3 DEF OwedOn
<1>7. balance' = Transfer(balance, party, d, bond)
  BY DEF Appeal
<1>8. DOMAIN balance = Addresses /\ DisputeContracts \subseteq Addresses /\ party \in Addresses
      /\ party \notin DisputeContracts /\ balance[d] \in Nat
  BY Places DEF EscrowInv, Inv, TypeOK, RegistryTypeOK
<1> HIDE DEF bond
<1>9. balance'[d] = balance[d] + bond /\ \A e \in DisputeContracts \ {d} : balance'[e] = balance[e]
  BY <1>7, <1>8, Moves
<1>10. balance'[d] = balance[d] - OwedOn(disputes[d][c]) + OwedOn(disputes'[d][c])
  BY <1>3, <1>5, <1>6, <1>8, <1>9
<1> QED
  BY <1>2, <1>9, <1>10, AccountMoves

LEMMA OpenMoney ==
  ASSUME EscrowInv, DisputeSolvent, NothingHeld, NEW d \in DisputeContracts, NEW c \in CallIds,
         OpenDispute(d, c)
  PROVE  DisputeSolvent'
<1> DEFINE bond == config[d].disputeBond
           slash == CurrentDisputeSlash(d, ProviderOf(c))
           first == Transfer(balance, Caller(c), d, bond)
<1>1. /\ ~Disputed(d, c) /\ Caller(c) \in Accounts /\ calls[c].status = "Completed"
      /\ balance' = Transfer(first, Registry, d, slash)
  BY DEF OpenDispute
<1>2. EscrowInv' /\ Only(d, c)
  BY OpenAfter DEF After
<1>3. disputes'[d][c] = [NoDispute EXCEPT !.status = "Pending", !.openedAt = now, !.bond = bond,
                                         !.slash = slash, !.held = slash]
  BY DEF OpenDispute, EscrowInv, DisputeTypes
<1>4. bond \in Nat /\ slash \in Nat
  <2>1. config[d] \in Config /\ config[d].slashBps \in 0..Bps
    BY RecordFacts, Places DEF Config
  <2>2. ProviderOf(c) \in Providers
    BY <1>1 DEF EscrowInv, Inv, CallsWellFormed, ProviderOf
  <2>3. providers[ProviderOf(c)].stake \in Nat
    BY <2>2 DEF EscrowInv, Inv, TypeOK, RegistryTypeOK, Provider
  <2> QED
    BY <2>1, <2>3, ShareBounded, Places DEF CurrentDisputeSlash, Config
<1>5. OwedOn(disputes[d][c]) = 0
  BY <1>1 DEF OwedOn, NothingHeld, Disputed
<1>6. OwedOn(disputes'[d][c]) = slash + bond
  BY <1>3, <1>4 DEF OwedOn, NoDispute
<1>7. /\ DOMAIN balance = Addresses /\ DisputeContracts \subseteq Addresses
      /\ Caller(c) \in Addresses /\ Caller(c) \notin DisputeContracts
      /\ Registry \notin DisputeContracts /\ balance[d] \in Nat
  BY <1>1, Places DEF EscrowInv, Inv, TypeOK, RegistryTypeOK
<1> HIDE DEF bond, slash
<1>8. DOMAIN first = Addresses /\ first[d] = balance[d] + bond
      /\ \A e \in DisputeContracts \ {d} : first[e] = balance[e]
  BY <1>7, Moves
<1> HIDE DEF first
<1>9. balance'[d] = first[d] + slash /\ \A e \in DisputeContracts \ {d} : balance'[e] = balance[e]
  BY <1>1, <1>7, <1>8, Moves
<1>10. balance'[d] = balance[d] - OwedOn(disputes[d][c]) + OwedOn(disputes'[d][c])
  BY <1>4, <1>5, <1>6, <1>7, <1>8, <1>9
<1> QED
  BY <1>2, <1>9, <1>10, AccountMoves

-----------------------------------------------------------------------------
LEMMA SolventStep ==
  ASSUME EscrowInv, DisputeSolvent, NothingHeld, [DisputeNext]_allVars
  PROVE  DisputeSolvent'
<1>1. CASE SettlementStep /\ UNCHANGED <<evidenceVars, disputeVars>>
  <2>1. \A d \in DisputeContracts : balance'[d] = balance[d]
    <3>1. Inv /\ DisputeContracts \subseteq Contracts \ {Registry, PPC}
      BY Places, DisputeAssumption, RegistryAssumption DEF EscrowInv, DisputeContracts
    <3>2. \A d \in DisputeContracts, s \in Slashers \ DisputeContracts : s # d
      OBVIOUS
    <3> QED
      BY <1>1, <3>1, <3>2, OthersBalance DEF SettlementStep, OtherSlash
  <2> QED
    BY <1>1, <2>1, AccountsStay DEF disputeVars
<1>2. ASSUME UNCHANGED <<vars, disputes>> PROVE DisputeSolvent'
  BY <1>2, AccountsStay DEF vars, registryVars
<1>3. CASE EvidenceStep /\ UNCHANGED <<vars, disputeVars>>
  BY <1>2, <1>3 DEF disputeVars
<1>4. CASE \E kinds \in SUBSET Kinds : SetEvidenceKinds(kinds)
  BY <1>2, <1>4 DEF SetEvidenceKinds
<1>5. ASSUME NEW d \in DisputeContracts, DisputeStep(d)
      PROVE  DisputeSolvent'
  <2>1. CASE \E c \in CallIds :
               \/ OpenDispute(d, c)
               \/ \E upheld \in BOOLEAN : Resolve(d, c, upheld) \/ ResolveAppeal(d, c, upheld)
               \/ ReclaimExpiredBond(d, c)
               \/ \E party \in Accounts : Appeal(d, c, party)
               \/ Finalize(d, c)
    BY <2>1, OpenMoney, ResolveMoney, ResolveAppealMoney, ReclaimMoney, AppealMoney, FinalizeMoney
  <2>2. CASE \/ \E j \in Judges : SetArbiter(d, j) \/ SetAppealArbiter(d, j)
             \/ \E t \in Treasuries : SetTreasury(d, t)
             \/ \E bond \in DisputeBonds : SetDisputeBond(d, bond)
             \/ \E bond \in AppealBonds : SetAppealBond(d, bond)
             \/ \E bps \in DisputeSlashes : SetDisputeSlashBps(d, bps)
    BY <1>2, <2>2 DEF SetConfig, SetArbiter, SetAppealArbiter, SetTreasury, SetDisputeBond,
                      SetAppealBond, SetDisputeSlashBps
  <2> QED
    BY <1>5, <2>1, <2>2 DEF DisputeStep
<1>6. CASE UNCHANGED allVars
  BY <1>2, <1>6 DEF allVars, disputeVars
<1> QED
  BY <1>1, <1>3, <1>4, <1>5, <1>6 DEF DisputeNext

LEMMA SolventInit == DisputeSystemInit => DisputeSolvent /\ NothingHeld
<1> SUFFICES ASSUME DisputeSystemInit PROVE DisputeSolvent /\ NothingHeld
  OBVIOUS
<1>1. \A d \in DisputeContracts, c \in CallIds :
        disputes[d][c] = NoDispute /\ Owed(d, c) = 0
  BY DEF DisputeSystemInit, DisputeInit, Owed, NoDispute
<1>2. NothingHeld
  BY <1>1 DEF NothingHeld, NoDispute
<1>3. ASSUME NEW d \in DisputeContracts
      PROVE  balance[d] = Total([c \in CallIds |-> Owed(d, c)], CallIds)
  <2> DEFINE f == [c \in CallIds |-> Owed(d, c)]
  <2>1. \A c \in CallIds : f[c] = 0
    BY <1>1
  <2>2. IsFiniteSet(CallIds)
    BY FS_Interval, PayPerCallAssumption
  <2> HIDE DEF f, CallIds
  <2>3. Total(f, CallIds) = 0
    BY <2>1, <2>2, TotalZero
  <2>4. balance[d] = 0
    BY Places DEF DisputeSystemInit, Init, RegistryInit
  <2> QED
    BY <2>3, <2>4 DEF f
<1> QED
  BY <1>2, <1>3 DEF DisputeSolvent

(* Every dispute contract holds exactly what its disputes owe, at any time *)
(* and however many there are: none is paid with the money of another, and *)
(* nothing is left behind when all are settled.                            *)
THEOREM DisputesAreCovered == DisputeSpec => []DisputeSolvent
<1>1. EscrowInv /\ (DisputeSolvent /\ NothingHeld) /\ [DisputeNext]_allVars
        => (DisputeSolvent /\ NothingHeld)'
  <2> SUFFICES ASSUME EscrowInv, DisputeSolvent, NothingHeld, [DisputeNext]_allVars
               PROVE  DisputeSolvent' /\ NothingHeld'
    OBVIOUS
  <2> QED
    BY SolventStep, EscrowSteps, NothingHeldStep
<1> QED
  BY EscrowInvariant, SolventInit, <1>1, PTL DEF DisputeSpec

-----------------------------------------------------------------------------
(* The bond of an appeal.                                                  *)

(* Only the decision of the appeal settles a dispute under appeal.         *)
LEMMA AppealDecided ==
  ASSUME EscrowInv, [DisputeNext]_allVars, NEW d \in DisputeContracts, NEW c \in CallIds,
         disputes[d][c].status = "Appealed", disputes'[d][c].settled
  PROVE  \E upheld \in BOOLEAN : ResolveAppeal(d, c, upheld)
<1>1. ~disputes[d][c].settled /\ c \in DOMAIN disputes[d] /\ d \in DOMAIN disputes
  BY RecordFacts DEF RecordOk, EscrowInv, DisputeTypes
<1>2. ASSUME UNCHANGED disputes PROVE FALSE
  BY <1>1, <1>2
<1>3. CASE SettlementStep /\ UNCHANGED <<evidenceVars, disputeVars>>
  BY <1>2, <1>3 DEF disputeVars
<1>4. CASE EvidenceStep /\ UNCHANGED <<vars, disputeVars>>
  BY <1>2, <1>4 DEF disputeVars
<1>5. CASE \E kinds \in SUBSET Kinds : SetEvidenceKinds(kinds)
  BY <1>2, <1>5 DEF SetEvidenceKinds
<1>6. CASE UNCHANGED allVars
  BY <1>2, <1>6 DEF allVars, disputeVars
<1>7. ASSUME NEW e \in DisputeContracts, DisputeStep(e)
      PROVE  \E upheld \in BOOLEAN : ResolveAppeal(d, c, upheld)
  <2>1. ASSUME NEW b \in CallIds, Only(e, b) PROVE e = d /\ b = c
    BY <1>1, <2>1 DEF Only
  <2>2. ASSUME NEW b \in CallIds, OpenDispute(e, b) PROVE FALSE
    BY <1>7, <2>1, <2>2, OpenAfter DEF After, Disputed
  <2>3. ASSUME NEW b \in CallIds, NEW upheld \in BOOLEAN, Resolve(e, b, upheld) PROVE FALSE
    <3>1. e = d /\ b = c
      BY <2>1, <2>3, ResolveAfter DEF After
    <3> QED
      BY <2>3, <3>1 DEF Resolve
  <2>4. ASSUME NEW b \in CallIds, ReclaimExpiredBond(e, b) PROVE FALSE
    <3>1. e = d /\ b = c
      BY <2>1, <2>4, ReclaimAfter DEF After
    <3> QED
      BY <2>4, <3>1 DEF ReclaimExpiredBond
  <2>5. ASSUME NEW b \in CallIds, NEW party \in Accounts, Appeal(e, b, party) PROVE FALSE
    <3>1. e = d /\ b = c
      BY <2>1, <2>5, AppealAfter DEF After
    <3> QED
      BY <2>5, <3>1 DEF Appeal, Decided
  <2>6. ASSUME NEW b \in CallIds, Finalize(e, b) PROVE FALSE
    <3>1. e = d /\ b = c
      BY <2>1, <2>6, FinalizeAfter DEF After
    <3> QED
      BY <2>6, <3>1 DEF Finalize, Decided
  <2>7. ASSUME NEW b \in CallIds, NEW upheld \in BOOLEAN, ResolveAppeal(e, b, upheld)
        PROVE  ResolveAppeal(d, c, upheld)
    BY <2>1, <2>7, ResolveAppealAfter DEF After
  <2>8. CASE \/ \E j \in Judges : SetArbiter(e, j) \/ SetAppealArbiter(e, j)
             \/ \E t \in Treasuries : SetTreasury(e, t)
             \/ \E bond \in DisputeBonds : SetDisputeBond(e, bond)
             \/ \E bond \in AppealBonds : SetAppealBond(e, bond)
             \/ \E bps \in DisputeSlashes : SetDisputeSlashBps(e, bps)
    BY <1>2, <2>8 DEF SetConfig, SetArbiter, SetAppealArbiter, SetTreasury, SetDisputeBond,
                      SetAppealBond, SetDisputeSlashBps
  <2> QED
    BY <1>7, <2>2, <2>3, <2>4, <2>5, <2>6, <2>7, <2>8 DEF DisputeStep
<1> QED
  BY <1>3, <1>4, <1>5, <1>6, <1>7 DEF DisputeNext

(* What the two transfers of a decision leave to the two parties.          *)
LEMMA BondMoves ==
  ASSUME EscrowInv, NEW d \in DisputeContracts, NEW c \in CallIds, NEW upheld \in BOOLEAN,
         ResolveAppeal(d, c, upheld), Caller(c) # ProviderOf(c)
  PROVE  LET r == disputes[d][c]
             winner == IF upheld THEN Caller(c) ELSE ProviderOf(c)
             loser == IF upheld THEN ProviderOf(c) ELSE Caller(c)
         IN /\ r.appellant = winner =>
                 balance'[winner] = balance[winner] + r.held + r.appealBond
            /\ loser # config[d].treasury => balance'[loser] = balance[loser]
<1> DEFINE r == disputes[d][c]
           winner == IF upheld THEN Caller(c) ELSE ProviderOf(c)
           loser == IF upheld THEN ProviderOf(c) ELSE Caller(c)
           to == AppealBondTo(d, c, upheld)
           first == Transfer(balance, d, winner, r.held)
<1>1. Disputed(d, c) /\ balance' = Transfer(first, d, to, r.appealBond)
  BY DEF ResolveAppeal, Disputed
<1>2. /\ DOMAIN balance = Addresses /\ d \in Addresses
      /\ winner \in Addresses /\ winner # d /\ loser \in Addresses /\ loser # d
      /\ config[d].treasury # d /\ loser # winner
  <2>1. DOMAIN balance = Addresses
    BY DEF EscrowInv, Inv, TypeOK, RegistryTypeOK
  <2>2. d \in Addresses
    BY Places
  <2>3. \A x \in {Caller(c), ProviderOf(c), config[d].treasury} : x \in Addresses /\ x # d
    BY <1>1, Parties
  <2> QED
    BY <2>1, <2>2, <2>3
<1>3. /\ to \in {winner, config[d].treasury} /\ to # d
      /\ r.appellant = winner => to = winner
  BY <1>2 DEF AppealBondTo
<1>4. /\ balance[winner] \in Nat /\ r.held \in Nat /\ r.appealBond \in Nat
  BY <1>2, RecordFacts DEF EscrowInv, Inv, TypeOK, RegistryTypeOK, DisputeRecord
<1> HIDE DEF r, winner, loser, to, Addresses
<1>5. /\ DOMAIN first = Addresses /\ first[winner] = balance[winner] + r.held
      /\ first[loser] = balance[loser]
  BY <1>2, Moves
<1> HIDE DEF first
<1>6. to = winner => balance'[winner] = first[winner] + r.appealBond
  BY <1>1, <1>2, <1>5, Moves
<1>7. loser # config[d].treasury => balance'[loser] = first[loser]
  <2>1. loser # config[d].treasury => loser # to
    BY <1>2, <1>3
  <2> QED
    BY <1>1, <1>2, <1>3, <1>5, <2>1, Moves
<1>8. r.appellant = winner => balance'[winner] = balance[winner] + r.held + r.appealBond
  BY <1>3, <1>5, <1>6
<1>9. loser # config[d].treasury => balance'[loser] = balance[loser]
  BY <1>5, <1>7
<1> QED
  BY <1>8, <1>9 DEF r, winner, loser

LEMMA AppealOutcome ==
  ASSUME EscrowInv, NEW d \in DisputeContracts, NEW c \in CallIds, NEW upheld \in BOOLEAN,
         ResolveAppeal(d, c, upheld)
  PROVE  disputes'[d][c].status = IF upheld THEN "AppealUpheld" ELSE "AppealRejected"
<1> DEFINE old == disputes[d][c]
           r == [old EXCEPT !.status = IF upheld THEN "AppealUpheld" ELSE "AppealRejected",
                            !.resolvedAt = now, !.held = 0, !.settled = TRUE]
<1>1. disputes' = [disputes EXCEPT ![d] = [disputes[d] EXCEPT ![c] = r]]
  BY DEF ResolveAppeal
<1>2. old \in DisputeRecord /\ disputes \in [DisputeContracts -> [CallIds -> DisputeRecord]]
  BY DEF EscrowInv, DisputeTypes
<1>3. r.status = IF upheld THEN "AppealUpheld" ELSE "AppealRejected"
  BY <1>2 DEF DisputeRecord
<1> HIDE DEF r
<1>4. disputes'[d][c] = r
  BY <1>1, <1>2
<1> QED
  BY <1>3, <1>4

(* AppealBondFollowsAppellant for one dispute.                             *)
BondFollows(d, c) ==
  LET r == disputes[d][c]
      after == disputes'[d][c]
      escrow == IF r.appellant = Winner(c, after) THEN r.held ELSE 0
      loser == IF Winner(c, after) = Caller(c) THEN ProviderOf(c) ELSE Caller(c)
  IN r.status = "Appealed" /\ after.settled /\ Caller(c) # ProviderOf(c) =>
       /\ r.appellant = Winner(c, after) =>
            balance'[r.appellant] >= balance[r.appellant] + escrow + r.appealBond
       /\ loser # config[d].treasury => balance'[loser] = balance[loser]

LEMMA BondStep ==
  ASSUME EscrowInv, [DisputeNext]_allVars, NEW d \in DisputeContracts, NEW c \in CallIds
  PROVE  BondFollows(d, c)
<1> DEFINE r == disputes[d][c]
           after == disputes'[d][c]
<1> SUFFICES ASSUME r.status = "Appealed", after.settled, Caller(c) # ProviderOf(c)
             PROVE  BondFollows(d, c)
  BY DEF BondFollows
<1>1. PICK upheld \in BOOLEAN : ResolveAppeal(d, c, upheld)
  BY AppealDecided
<1>2. after.status = IF upheld THEN "AppealUpheld" ELSE "AppealRejected"
  BY <1>1, AppealOutcome
<1>3. Winner(c, after) = IF upheld THEN Caller(c) ELSE ProviderOf(c)
  BY <1>2 DEF Winner
<1>4. /\ r.appellant = Winner(c, after) =>
           balance'[r.appellant] = balance[r.appellant] + r.held + r.appealBond
      /\ LET loser == IF upheld THEN ProviderOf(c) ELSE Caller(c)
         IN loser # config[d].treasury => balance'[loser] = balance[loser]
  BY <1>1, <1>3, BondMoves
<1>5. r.appellant = Winner(c, after) =>
        balance[r.appellant] \in Nat /\ r.held \in Nat /\ r.appealBond \in Nat
  <2>1. Disputed(d, c)
    BY DEF Disputed
  <2>2. r \in DisputeRecord /\ Winner(c, after) \in Addresses
    BY <1>3, <2>1, Parties
  <2>3. balance \in [Addresses -> Nat]
    BY DEF EscrowInv, Inv, TypeOK, RegistryTypeOK
  <2> QED
    BY <2>2, <2>3 DEF DisputeRecord
<1> QED
  BY <1>3, <1>4, <1>5 DEF BondFollows

(* Whoever appeals and wins has the bond back on top of what the decision  *)
(* gives, and nobody gains from the other side's bond.                     *)
THEOREM AppealBondReturns == DisputeSpec => AppealBondFollowsAppellant
<1>1. EscrowInv /\ [DisputeNext]_allVars
        => [\A d \in DisputeContracts, c \in CallIds : BondFollows(d, c)]_allVars
  BY BondStep
<1> QED
  BY EscrowInvariant, <1>1, PTL DEF DisputeSpec, AppealBondFollowsAppellant, BondFollows

-----------------------------------------------------------------------------
(* The evidence registry by itself.                                        *)
WiringInv ==
  /\ modeOf \in [Kinds -> {"None", "Signature", "Proof"}]
  /\ signatureVerifier \in [Kinds -> SUBSET SignatureKeys]
  /\ proofVerifier \in [Kinds -> ProofVerifiers \cup {Unset}]
  /\ bindsResponse \in [Kinds -> BOOLEAN]
  /\ \A k \in Kinds :
       /\ modeOf[k] = "Signature" => bindsResponse[k]
       /\ modeOf[k] = "Proof" => proofVerifier[k] # Unset
       /\ modeOf[k] = "None" => ~bindsResponse[k]

RevokedKeepsFlag ==
  \A k \in Kinds : \A key \in signatureVerifier[k] \ signatureVerifier'[k] :
    bindsResponse'[k] = bindsResponse[k]

LEMMA WiringKept ==
  ASSUME WiringInv, [EvidenceStep]_evidenceVars
  PROVE  WiringInv' /\ RevokedKeepsFlag
<1>1. ASSUME UNCHANGED <<modeOf, signatureVerifier, proofVerifier, bindsResponse>>
      PROVE  WiringInv' /\ RevokedKeepsFlag
  BY <1>1 DEF WiringInv, RevokedKeepsFlag
<1>2. CASE AnchorStep \/ (\E o \in EvidenceOwners : SetOwner(o)) \/ UNCHANGED evidenceVars
  BY <1>1, <1>2 DEF AnchorStep, Anchor, SetOwner, evidenceVars
<1>3. ASSUME NEW k \in Kinds, NEW key \in SignatureKeys, AllowSigner(k, key)
      PROVE  WiringInv' /\ RevokedKeepsFlag
  BY <1>3 DEF AllowSigner, WiringInv, RevokedKeepsFlag
<1>4. ASSUME NEW k \in Kinds, NEW key \in SignatureKeys, RevokeSigner(k, key)
      PROVE  WiringInv' /\ RevokedKeepsFlag
  BY <1>4 DEF RevokeSigner, WiringInv, RevokedKeepsFlag
<1>5. ASSUME NEW k \in Kinds, NEW v \in ProofVerifiers, NEW binds \in BOOLEAN,
             SetProofVerifier(k, v, binds)
      PROVE  WiringInv' /\ RevokedKeepsFlag
  BY <1>5, EvidenceAssumption DEF SetProofVerifier, WiringInv, RevokedKeepsFlag
<1> QED
  BY <1>2, <1>3, <1>4, <1>5 DEF EvidenceStep, WiringStep

(* A kind's flag says what its wiring makes of it, for ever, and revoking  *)
(* a key never restamps it.                                                *)
THEOREM WiringIsFollowed == EvidenceSpec => FlagFollowsWiring
<1>1. EvidenceInit => WiringInv
  BY DEF EvidenceInit, WiringInv
<1>2. WiringInv /\ [EvidenceStep]_evidenceVars => WiringInv'
  BY WiringKept
<1>3. WiringInv /\ [EvidenceStep]_evidenceVars => [RevokedKeepsFlag]_evidenceVars
  BY WiringKept
<1>4. WiringInv => \A k \in Kinds :
        /\ modeOf[k] = "Signature" => bindsResponse[k]
        /\ modeOf[k] = "Proof" => proofVerifier[k] # Unset
        /\ modeOf[k] = "None" => ~bindsResponse[k]
  BY DEF WiringInv
<1> QED
  BY <1>1, <1>2, <1>3, <1>4, PTL DEF EvidenceSpec, FlagFollowsWiring, RevokedKeepsFlag

(* Whatever disputes are opened, decided and appealed, the registry of     *)
(* evidence behaves as it does without them: a dispute only reads it.      *)
THEOREM DisputesOnlyReadEvidence == DisputeSpec => EvidenceSpec
<1>1. DisputeSystemInit => EvidenceInit
  BY DEF DisputeSystemInit
<1>2. [DisputeNext]_allVars => [EvidenceStep]_evidenceVars
  <2> SUFFICES ASSUME [DisputeNext]_allVars PROVE [EvidenceStep]_evidenceVars
    OBVIOUS
  <2>1. ASSUME NEW d \in DisputeContracts, DisputeStep(d) PROVE UNCHANGED evidenceVars
    <3>1. OnlyDisputes => UNCHANGED evidenceVars
      BY DEF OnlyDisputes
    <3>2. \A new : SetConfig(d, new) => UNCHANGED evidenceVars
      BY DEF SetConfig
    <3>3. \A c : OpenDispute(d, c) => UNCHANGED evidenceVars
      BY DEF OpenDispute
    <3>4. \A c, upheld : Resolve(d, c, upheld) => OnlyDisputes
      BY DEF Resolve
    <3>5. \A c, upheld : ResolveAppeal(d, c, upheld) => OnlyDisputes
      BY DEF ResolveAppeal
    <3>6. \A c : ReclaimExpiredBond(d, c) => OnlyDisputes
      BY DEF ReclaimExpiredBond
    <3>7. \A c, party : Appeal(d, c, party) => OnlyDisputes
      BY DEF Appeal
    <3>8. \A c : Finalize(d, c) => OnlyDisputes
      BY DEF Finalize
    <3> QED
      BY <2>1, <3>1, <3>2, <3>3, <3>4, <3>5, <3>6, <3>7, <3>8
        DEF DisputeStep, SetArbiter, SetAppealArbiter, SetTreasury, SetDisputeBond,
            SetAppealBond, SetDisputeSlashBps
  <2>2. ASSUME UNCHANGED allVars PROVE UNCHANGED evidenceVars
    BY <2>2 DEF allVars
  <2>3. ASSUME NEW kinds \in SUBSET Kinds, SetEvidenceKinds(kinds) PROVE UNCHANGED evidenceVars
    BY <2>3 DEF SetEvidenceKinds
  <2>4. CASE DisputeNext
    BY <2>1, <2>3, <2>4 DEF DisputeNext
  <2> QED
    BY <2>2, <2>4
<1> QED
  BY <1>1, <1>2, PTL DEF DisputeSpec, EvidenceSpec
=============================================================================
