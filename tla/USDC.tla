-------------------------------- MODULE USDC --------------------------------
(***************************************************************************)
(* The USDC ledger the contracts hold their money in.  The token itself is *)
(* not part of this repository: these operators are what the contracts     *)
(* rely on when they call safeTransfer, safeTransferFrom and               *)
(* transferWithAuthorization (an exact transfer, or a revert when the      *)
(* payer does not have the amount).                                        *)
(***************************************************************************)
EXTENDS Integers, FiniteSets, Functions

(* An account credited with an amount.                                     *)
Credit(ledger, who, amount) == [ledger EXCEPT ![who] = @ + amount]

(* The ledger after `amount` moved from one address to another.            *)
Transfer(ledger, from, to, amount) ==
  Credit([ledger EXCEPT ![from] = @ - amount], to, amount)

(* A transfer reverts, and with it the whole transaction, unless the payer *)
(* has the amount.                                                         *)
CanPay(ledger, from, amount) == ledger[from] >= amount

(* The sum of f over a finite set of its arguments.                        *)
Total(f, S) == SumFunctionOnSet(f, S)
=============================================================================
