------------------------------ MODULE PayPerCall ----------------------------
(***************************************************************************)
(* contracts/PayPerCall.sol: the v7 escrow, which AgentWallet calls and    *)
(* whose outcome counters ReputationLoan reads.  It differs from v8 in     *)
(* that the slash terms are read from the provider when a call times out,  *)
(* there is no bounty, and every hook reverts once the registry's          *)
(* payPerCall was replaced.  Hooks, announcements and the reputation       *)
(* registry are best effort and change no state here.                      *)
(***************************************************************************)
EXTENDS ServiceRegistry

CONSTANTS
  PPC,                   \* the address of this contract
  Payers,                \* accounts that pay for calls
  Beneficiaries,         \* addresses calls are opened for
  MaxCalls,              \* bound: calls opened
  Authorizations,        \* signed EIP-3009 authorizations [from, value, validAfter, validBefore, nonce]
  DefaultMaxConcurrent,  \* DEFAULT_MAX_CONCURRENT
  SubmitGrace            \* SUBMIT_GRACE

CallIds == 0..(MaxCalls - 1)

ASSUME PayPerCallAssumption ==
  /\ PPC \in PayPerCalls
  /\ Payers \subseteq Accounts /\ Beneficiaries \subseteq Addresses
  /\ MaxCalls \in Nat /\ DefaultMaxConcurrent \in Nat \ {0} /\ SubmitGrace \in Nat
  /\ \A auth \in Authorizations : auth.from \in Accounts

VARIABLES
  calls,                \* _calls; an id is its call's nonce
  nonce,
  openCallsPerCaller,
  claimable,
  usedAuthorizations    \* the token's authorizationState

callVars == <<calls, nonce, openCallsPerCaller, claimable, usedAuthorizations>>

NoCall == [provider |-> NoAddress, caller |-> NoAddress, amount |-> 0,
           deadline |-> 0, status |-> "None"]

CallInit ==
  /\ calls = [c \in CallIds |-> NoCall]
  /\ nonce = 0
  /\ openCallsPerCaller = [p \in Providers |-> [a \in Addresses |-> 0]]
  /\ claimable = [a \in Addresses |-> 0]
  /\ usedAuthorizations = {}

SlashShare(p) == (providers[p].stake * providers[p].slashBps) \div Bps

(* zkML tier 2 doubles the cap.                                            *)
ConcurrencyCap(p) ==
  LET base == IF providers[p].cap = 0 THEN DefaultMaxConcurrent ELSE providers[p].cap
  IN IF providers[p].zkTier >= 2 THEN 2 * base ELSE base

MayOpen(p, caller) ==
  /\ providers[p].active
  /\ SlashShare(p) >= providers[p].price
  /\ openCallsPerCaller[p][caller] < ConcurrencyCap(p)

(* _callServiceFor, and the body callServiceWithAuthorization repeats:     *)
(* callServiceStealth is the same with a one-time address as beneficiary.  *)
(* A contract may call it in the transaction that brought it the money.    *)
CreateCall(ledger, p, caller, payer) ==
  /\ nonce \in CallIds
  /\ MayOpen(p, caller)
  /\ CanPay(ledger, payer, providers[p].price)
  /\ IsPayPerCall(PPC)
  /\ calls' = [calls EXCEPT ![nonce] =
       [provider |-> p, caller |-> caller, amount |-> providers[p].price,
        deadline |-> now + providers[p].maxResponseTime, status |-> "Pending"]]
  /\ nonce' = nonce + 1
  /\ openCallsPerCaller' = [openCallsPerCaller EXCEPT ![p][caller] = @ + 1]
  /\ usdc' = Transfer(ledger, payer, PPC, providers[p].price)
  /\ providers' = CallStarted(providers, p)
  /\ UNCHANGED <<wiring, authorizedSlashers, now, claimable>>

CallServiceFor(payer, beneficiary, p) ==
  CreateCall(usdc, p, beneficiary, payer) /\ UNCHANGED usedAuthorizations

CallServiceWithAuthorization(auth, p) ==
  /\ auth.validAfter <= now /\ now <= auth.validBefore
  /\ <<auth.from, auth.nonce>> \notin usedAuthorizations
  /\ auth.value = providers[p].price
  /\ CreateCall(usdc, p, auth.from, auth.from)
  /\ usedAuthorizations' = usedAuthorizations \cup {<<auth.from, auth.nonce>>}

Pending(c) == calls[c].status = "Pending"

OpenCallsDecremented(p, a) ==
  [openCallsPerCaller EXCEPT ![p][a] = IF @ > 0 THEN @ - 1 ELSE 0]

HooksAccept(p) == IsPayPerCall(PPC) /\ providers[p].pendingCalls > 0

(* Anyone may relay a receipt the provider's key signed.                   *)
SubmitReceipt(c) ==
  LET p == calls[c].provider IN
  /\ Pending(c)
  /\ now <= calls[c].deadline + SubmitGrace
  /\ HooksAccept(p)
  /\ calls' = [calls EXCEPT ![c].status = "Completed"]
  /\ openCallsPerCaller' = OpenCallsDecremented(p, calls[c].caller)
  /\ providers' = IncCompleted(CallFinished(providers, p), p)
  /\ claimable' = Credit(claimable, p, calls[c].amount)
  /\ UNCHANGED <<wiring, authorizedSlashers, usdc, now, nonce, usedAuthorizations>>

ClaimTimeout(c) ==
  LET p == calls[c].provider
      slash == SlashShare(p)
  IN
  /\ Pending(c)
  /\ now > calls[c].deadline + SubmitGrace
  /\ HooksAccept(p)
  /\ CanPay(usdc, Registry, slash)
  /\ calls' = [calls EXCEPT ![c].status = "Slashed"]
  /\ openCallsPerCaller' = OpenCallsDecremented(p, calls[c].caller)
  /\ providers' = Slashed(IncSlashed(CallFinished(providers, p), p), p, slash)
  /\ claimable' = Credit(claimable, calls[c].caller, calls[c].amount + slash)
  /\ usdc' = Transfer(usdc, Registry, PPC, slash)
  /\ UNCHANGED <<wiring, authorizedSlashers, now, nonce, usedAuthorizations>>

(* Only the sender's own credit: an account signs this transaction itself, *)
(* a contract has no credit unless its code calls claim.                   *)
Claim(a) ==
  /\ claimable[a] > 0
  /\ CanPay(usdc, PPC, claimable[a])
  /\ usdc' = Transfer(usdc, PPC, a, claimable[a])
  /\ claimable' = [claimable EXCEPT ![a] = 0]
  /\ UNCHANGED <<providers, wiring, authorizedSlashers, now, calls, nonce,
                 openCallsPerCaller, usedAuthorizations>>

SettlementStep ==
  \/ \E p \in Providers, payer \in Payers, beneficiary \in Beneficiaries :
       CallServiceFor(payer, beneficiary, p)
  \/ \E p \in Providers, auth \in Authorizations : CallServiceWithAuthorization(auth, p)
  \/ \E c \in CallIds : SubmitReceipt(c) \/ ClaimTimeout(c)
  \/ \E a \in Accounts : Claim(a)

-----------------------------------------------------------------------------
(* The v7 books: the escrow holds the open calls and the credits, the      *)
(* registry every stake it records, and unstake waits for exactly the      *)
(* calls that are open.                                                    *)
EscrowCovered ==
  /\ usdc[PPC]
       = SumFunctionOnSet([c \in CallIds |-> IF Pending(c) THEN calls[c].amount ELSE 0], CallIds)
         + Total(claimable, Addresses)
  /\ usdc[Registry] = Total([p \in Providers |-> providers[p].stake], Providers)
  /\ \A p \in Providers :
       providers[p].pendingCalls
         = Cardinality({c \in CallIds : calls[c].provider = p /\ Pending(c)})
=============================================================================
