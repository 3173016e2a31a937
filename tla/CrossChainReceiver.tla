-------------------------- MODULE CrossChainReceiver ------------------------
(***************************************************************************)
(* contracts/CrossChainReceiver.sol: CCTP mints USDC to this contract and  *)
(* its transmitter then calls it once or more with what the burn carried;  *)
(* the contract opens a call with that money, for the account that burned  *)
(* it.  A message with unreadable hook data, or one another contract sent, *)
(* reverts for ever and is left out.                                       *)
(***************************************************************************)
EXTENDS PayPerCall

CONSTANTS
  ReceiverAddress,  \* the address of this contract
  MessageIds,
  Messages,         \* what a message may carry: [provider, caller, amount]
  RecoverAmounts    \* amounts the owner may take out

ASSUME ReceiverAssumption ==
  /\ ReceiverAddress \in Contracts
  /\ IsFiniteSet(MessageIds)
  /\ \A m \in Messages : m.provider \in Providers /\ m.caller \in Accounts /\ m.amount \in Nat
  /\ RecoverAmounts \subseteq Nat

VARIABLES
  minted,              \* the message behind each mint, NoMessage before it
  processedMessages,
  receiverChecksPrice, \* registry # address(0)
  delivered,           \* the call each message opened (history)
  recovered            \* what the owner took out (history)

receiverVars == <<minted, processedMessages, receiverChecksPrice, delivered, recovered>>

NoMessage == [provider |-> NoAddress, caller |-> NoAddress, amount |-> 0]

ReceiverInit ==
  /\ minted = [m \in MessageIds |-> NoMessage]
  /\ processedMessages = {}
  /\ receiverChecksPrice = FALSE
  /\ delivered = [m \in MessageIds |-> {}]
  /\ recovered = 0

Arrived(m) == minted[m] # NoMessage

(* The burned amount leaves its account on the other chain.                *)
CctpMint(m, message) ==
  /\ ~Arrived(m)
  /\ CanPay(usdc, message.caller, message.amount)
  /\ usdc' = Transfer(usdc, message.caller, ReceiverAddress, message.amount)
  /\ minted' = [minted EXCEPT ![m] = message]
  /\ UNCHANGED <<providers, wiring, authorizedSlashers, now, callVars, processedMessages,
                 receiverChecksPrice, delivered, recovered>>

\* Mutant: PayPerCall may draw on everything the contract holds.
Allows_Everything(m) == TRUE

(* forceApprove leaves PayPerCall exactly the message's amount to draw on, *)
(* whatever else the contract holds.                                       *)
Allows(m) == providers[minted[m].provider].price <= minted[m].amount

HandleReceiveFinalizedTransfer(m) ==
  LET p == minted[m].provider IN
  /\ Arrived(m) /\ m \notin processedMessages
  /\ receiverChecksPrice => minted[m].amount = providers[p].price
  /\ Allows(m)
  /\ CallServiceFor(ReceiverAddress, minted[m].caller, p)
  /\ processedMessages' = processedMessages \cup {m}
  /\ delivered' = [delivered EXCEPT ![m] = @ \cup {nonce}]
  /\ UNCHANGED <<minted, receiverChecksPrice, recovered>>

ReceiverSetRegistry(wired) ==
  /\ receiverChecksPrice' = wired
  /\ UNCHANGED <<registryVars, callVars, minted, processedMessages, delivered, recovered>>

ReceiverRecoverTokens(amount, to) ==
  /\ CanPay(usdc, ReceiverAddress, amount)
  /\ usdc' = Transfer(usdc, ReceiverAddress, to, amount)
  /\ recovered' = recovered + amount
  /\ UNCHANGED <<providers, wiring, authorizedSlashers, now, callVars, minted,
                 processedMessages, receiverChecksPrice, delivered>>

ReceiverStep ==
  \/ \E m \in MessageIds : HandleReceiveFinalizedTransfer(m)
                            \/ \E message \in Messages : CctpMint(m, message)
  \/ \E wired \in BOOLEAN : ReceiverSetRegistry(wired)
  \/ \E amount \in RecoverAmounts, to \in Accounts : ReceiverRecoverTokens(amount, to)

-----------------------------------------------------------------------------
(* However often it is delivered, and whatever happened to the price in    *)
(* between, a message opens at most one call, for its own caller and with  *)
(* its own money; what other messages brought in stays until they are      *)
(* delivered too, as long as the owner takes out no more than the change   *)
(* that is left over.                                                      *)
MessagesPayTheirOwn ==
  LET waiting == {m \in MessageIds : Arrived(m) /\ m \notin processedMessages}
      change(m) == minted[m].amount - Total([c \in CallIds |-> calls[c].amount], delivered[m])
      left == SumFunctionOnSet([m \in MessageIds |-> change(m)], processedMessages)
  IN
  /\ \A m \in MessageIds :
       /\ Cardinality(delivered[m]) = IF m \in processedMessages THEN 1 ELSE 0
       /\ \A c \in delivered[m] :
            calls[c].caller = minted[m].caller /\ calls[c].amount <= minted[m].amount
  /\ \A m, n \in MessageIds : m # n => delivered[m] \cap delivered[n] = {}
  /\ recovered <= left =>
       usdc[ReceiverAddress]
         >= SumFunctionOnSet([m \in MessageIds |-> minted[m].amount], waiting) + left - recovered
=============================================================================
