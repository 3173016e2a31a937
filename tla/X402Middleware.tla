---------------------------- MODULE X402Middleware --------------------------
(***************************************************************************)
(* contracts/X402Middleware.sol: the payTo of a 402 answer.  It pulls an   *)
(* agent's payment and opens a call with it in one transaction, once per   *)
(* provider, request and agent, and remembers the call under the request.  *)
(***************************************************************************)
EXTENDS PayPerCall

CONSTANTS
  MiddlewareAddress,  \* the address of this contract
  Agents,
  RequestHashes,
  Payments            \* amounts an agent may send

ASSUME MiddlewareAssumption ==
  /\ MiddlewareAddress \in Contracts
  /\ Agents \subseteq Accounts /\ Payments \subseteq Nat

VARIABLES
  middlewareChecksPrice,  \* registry # address(0)
  callIdByRequest,        \* per request hash: {} or the call last opened with it
  callIdByScopedRequest,  \* the same per <<provider, request hash, agent>>
  paymentOf               \* per call: what its agent sent (history; callerByCallId)

middlewareVars == <<middlewareChecksPrice, callIdByRequest, callIdByScopedRequest, paymentOf>>

Scopes == Providers \X RequestHashes \X Agents

MiddlewareInit ==
  /\ middlewareChecksPrice = FALSE
  /\ callIdByRequest = [h \in RequestHashes |-> {}]
  /\ callIdByScopedRequest = [s \in Scopes |-> {}]
  /\ paymentOf = [c \in CallIds |-> [agent |-> NoAddress, amount |-> 0]]

\* Mutant: a request is known by its hash alone.
Scope_HashOnly(p, h, agent) == <<CHOOSE q \in Providers : TRUE, h, CHOOSE a \in Agents : TRUE>>

Scope(p, h, agent) == <<p, h, agent>>

(* The approval lets PayPerCall draw no more than the amount just pulled.  *)
ExecutePayment(agent, p, h, amount) ==
  LET scope == Scope(p, h, agent) IN
  /\ callIdByScopedRequest[scope] = {}
  /\ middlewareChecksPrice => amount = providers[p].price
  /\ CanPay(usdc, agent, amount)
  /\ providers[p].price <= amount
  /\ CreateCall(Transfer(usdc, agent, MiddlewareAddress, amount), p, agent, MiddlewareAddress)
  /\ callIdByRequest' = [callIdByRequest EXCEPT ![h] = {nonce}]
  /\ callIdByScopedRequest' = [callIdByScopedRequest EXCEPT ![scope] = {nonce}]
  /\ paymentOf' = [paymentOf EXCEPT ![nonce] = [agent |-> agent, amount |-> amount]]
  /\ UNCHANGED <<usedAuthorizations, middlewareChecksPrice>>

MiddlewareSetRegistry(wired) ==
  /\ middlewareChecksPrice' = wired
  /\ UNCHANGED <<registryVars, callVars, callIdByRequest, callIdByScopedRequest, paymentOf>>

MiddlewareRecoverTokens(amount, to) ==
  /\ CanPay(usdc, MiddlewareAddress, amount)
  /\ usdc' = Transfer(usdc, MiddlewareAddress, to, amount)
  /\ UNCHANGED <<providers, wiring, authorizedSlashers, now, callVars, middlewareVars>>

MiddlewareStep ==
  \/ \E agent \in Agents, p \in Providers, h \in RequestHashes, amount \in Payments :
       ExecutePayment(agent, p, h, amount)
  \/ \E wired \in BOOLEAN : MiddlewareSetRegistry(wired)
  \/ \E amount \in Payments, to \in Accounts : MiddlewareRecoverTokens(amount, to)

-----------------------------------------------------------------------------
(* An agent gets its one call for a request whatever other agents sent     *)
(* with the same hash: the scoped look-up leads to a call of that very     *)
(* provider and agent, paid for by the agent's own payment, also when the  *)
(* price changed and others' change is still in the contract; and a refund *)
(* goes to the agent, never to this contract.                              *)
RequestsOpenTheirOwnCall ==
  /\ \A p \in Providers, h \in RequestHashes, agent \in Agents :
       \A c \in callIdByScopedRequest[<<p, h, agent>>] :
         /\ calls[c].provider = p /\ calls[c].caller = agent
         /\ paymentOf[c].agent = agent /\ calls[c].amount <= paymentOf[c].amount
  /\ \A c \in CallIds :
       paymentOf[c].agent # NoAddress =>
         Cardinality({s \in Scopes : c \in callIdByScopedRequest[s]}) = 1
  /\ claimable[MiddlewareAddress] = 0
=============================================================================
