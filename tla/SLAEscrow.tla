------------------------------ MODULE SLAEscrow -----------------------------
(***************************************************************************)
(* What the escrow promises the two parties of a paid call, without stake, *)
(* terms, time or custody: a call is agreed once, ends once, and its end   *)
(* credits either the provider with the price or the caller with at least  *)
(* the price.  A credit only grows until its holder withdraws it.          *)
(* PayPerCallV8 implements this module.                                    *)
(***************************************************************************)
EXTENDS Integers

CONSTANTS Calls, Parties, Providers, Nobody

VARIABLES
  phase,  \* where each call is
  deal,   \* the provider, caller and price agreed when the call was opened
  due     \* what each party may withdraw

escrowVars == <<phase, deal, due>>

NoDeal == [provider |-> Nobody, caller |-> Nobody, amount |-> 0]

Init ==
  /\ phase = [c \in Calls |-> "None"]
  /\ deal = [c \in Calls |-> NoDeal]
  /\ due = [a \in Parties |-> 0]

Open(c) ==
  /\ phase[c] = "None"
  /\ phase' = [phase EXCEPT ![c] = "Pending"]
  /\ deal' = [deal EXCEPT ![c] = deal'[c]]
  /\ deal'[c].provider \in Providers /\ deal'[c].caller \in Parties
  /\ deal'[c].amount \in Nat
  /\ UNCHANGED due

Pay(c) ==
  /\ phase[c] = "Pending"
  /\ phase' = [phase EXCEPT ![c] = "Completed"]
  /\ due' = [due EXCEPT ![deal[c].provider] = @ + deal[c].amount]
  /\ UNCHANGED deal

(* The caller gets the price back and whatever the provider was slashed;   *)
(* at most one other party, the keeper, gets a bounty.                     *)
Refund(c) ==
  /\ phase[c] = "Pending"
  /\ phase' = [phase EXCEPT ![c] = "Slashed"]
  /\ due'[deal[c].caller] >= due[deal[c].caller] + deal[c].amount
  /\ \E keeper \in Parties :
       /\ due'[keeper] >= due[keeper]
       /\ due' = [due EXCEPT ![deal[c].caller] = due'[deal[c].caller],
                             ![keeper] = due'[keeper]]
  /\ UNCHANGED deal

Withdraw(a) ==
  /\ due[a] > 0
  /\ due' = [due EXCEPT ![a] = 0]
  /\ UNCHANGED <<phase, deal>>

Next ==
  \/ \E c \in Calls : Open(c) \/ Pay(c) \/ Refund(c)
  \/ \E a \in Parties : Withdraw(a)

Spec == Init /\ [][Next]_escrowVars
=============================================================================
