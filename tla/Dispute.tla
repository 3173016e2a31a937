------------------------------- MODULE Dispute ------------------------------
(***************************************************************************)
(* contracts/Dispute.sol: the v7 dispute about a settled call.  One        *)
(* arbiter decides, and the slash is taken from the stake the provider has *)
(* at that moment.                                                         *)
(***************************************************************************)
EXTENDS PayPerCall

CONSTANTS
  DisputeAddress,   \* the address of this contract
  DisputeTreasury,  \* treasury
  DisputeBonds,     \* values of disputeBond
  DisputeSlashBps,  \* disputeSlashBps
  DisputeWindow     \* disputeWindow

ASSUME DisputeAssumption ==
  /\ DisputeAddress \in Contracts /\ DisputeAddress \in Slashers \ OtherSlashers
  /\ DisputeTreasury \in Addresses \ {DisputeAddress}
  /\ DisputeBonds \subseteq Nat /\ DisputeSlashBps \in 0..Bps /\ DisputeWindow \in Nat

VARIABLES
  disputes,     \* per call: disputes, disputeIdByCallId
  arbitration   \* [bond, wired]: disputeBond, and whether payPerCall is set

disputeVars == <<disputes, arbitration>>

NoDispute == [bond |-> 0, status |-> "None"]

DisputeInit ==
  /\ disputes = [c \in CallIds |-> NoDispute]
  /\ arbitration \in [bond : DisputeBonds, wired : {FALSE}]

(* By the call's caller.  The settlement time is what the caller says it   *)
(* is, up to now, so that the window never closes to a caller who says     *)
(* now.  It is not stored, so the code's lower bound, the start of the     *)
(* call, refuses no dispute.                                               *)
OpenDispute(c, settledAt) ==
  LET caller == calls[c].caller IN
  /\ settledAt <= now /\ now <= settledAt + DisputeWindow
  /\ disputes[c].status = "None"
  /\ arbitration.wired
  /\ calls[c].status \in {"Completed", "Slashed"}
  /\ caller \in Accounts
  /\ CanPay(usdc, caller, arbitration.bond)
  /\ disputes' = [disputes EXCEPT ![c] = [bond |-> arbitration.bond, status |-> "Pending"]]
  /\ usdc' = Transfer(usdc, caller, DisputeAddress, arbitration.bond)
  /\ UNCHANGED <<providers, wiring, authorizedSlashers, now, callVars, arbitration>>

(* The bond goes back and the provider is slashed to the caller, or the    *)
(* bond goes to the treasury.                                              *)
Resolve(c, upheld) ==
  LET p == calls[c].provider
      caller == calls[c].caller
      bond == disputes[c].bond
      slash == (providers[p].stake * DisputeSlashBps) \div Bps
  IN
  /\ disputes[c].status = "Pending"
  /\ CanPay(usdc, DisputeAddress, bond)
  /\ \/ /\ upheld
        /\ slash > 0 => DisputeAddress \in authorizedSlashers /\ CanPay(usdc, Registry, slash)
        /\ providers' = Slashed(providers, p, slash)
        /\ usdc' = Transfer(Transfer(usdc, DisputeAddress, caller, bond), Registry, caller, slash)
        /\ disputes' = [disputes EXCEPT ![c].status = "Upheld"]
     \/ /\ ~upheld
        /\ usdc' = Transfer(usdc, DisputeAddress, DisputeTreasury, bond)
        /\ disputes' = [disputes EXCEPT ![c].status = "Rejected"]
        /\ UNCHANGED providers
  /\ UNCHANGED <<wiring, authorizedSlashers, now, callVars, arbitration>>

SetDisputeBond(bond) ==
  /\ arbitration' = [arbitration EXCEPT !.bond = bond]
  /\ UNCHANGED <<registryVars, callVars, disputes>>

WirePayPerCall ==
  /\ ~arbitration.wired
  /\ arbitration' = [arbitration EXCEPT !.wired = TRUE]
  /\ UNCHANGED <<registryVars, callVars, disputes>>

DisputeStep ==
  \/ \E c \in CallIds :
       \/ \E settledAt \in Time : OpenDispute(c, settledAt)
       \/ \E upheld \in BOOLEAN : Resolve(c, upheld)
  \/ \E bond \in DisputeBonds : SetDisputeBond(bond)
  \/ WirePayPerCall

-----------------------------------------------------------------------------
(* The contract holds exactly the bonds of the disputes nobody decided     *)
(* yet, each at the value it was paid in at, however the bond was changed  *)
(* since.                                                                  *)
BondsCovered ==
  usdc[DisputeAddress]
    = SumFunctionOnSet([c \in CallIds |->
        IF disputes[c].status = "Pending" THEN disputes[c].bond ELSE 0], CallIds)
=============================================================================
