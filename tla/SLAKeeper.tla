------------------------------ MODULE SLAKeeper -----------------------------
(***************************************************************************)
(* contracts/SLAKeeper.sol on top of PayPerCallV8: a permissionless crank  *)
(* that claims one timeout or a batch of them in a single transaction,     *)
(* pulls what PayPerCall credited it and books the bounty of the keeper    *)
(* that called.                                                            *)
(***************************************************************************)
EXTENDS PayPerCallV8, Sequences, SequencesExt

CONSTANTS
  SLAKeeperAddress,  \* the address of this contract
  MaxBatch           \* bound: length of the callIds of one claimBatch

ASSUME SLAKeeperAssumption ==
  /\ SLAKeeperAddress \in Contracts \ {Registry, PPC}
  /\ SLAKeeperAddress \notin Slashers  \* the contract has no call that slashes
  /\ MaxBatch \in Nat

VARIABLE bountyClaimable

keeperVars == <<vars, bountyClaimable>>

-----------------------------------------------------------------------------
Books == [book |-> Book, bounty |-> 0]

\* Mutant: claimability is looked up once, before the first claim.
IsClaimable_AtStart(book, c) == Pending(c) /\ TimeoutWindow(c)

(* isClaimable, as it reads in the middle of a batch.                      *)
IsClaimable(book, c) == book.calls[c].status = "Pending" /\ TimeoutWindow(c)

(* One iteration of claimBatch: an id that is not claimable (any more) is  *)
(* skipped.                                                                *)
BatchStep(s, c) ==
  IF IsClaimable(s.book, c)
  THEN [book |-> AfterTimeout(s.book, c, SLAKeeperAddress),
        bounty |-> s.bounty + KeeperBounty(SlashAmount(s.book, c))]
  ELSE s

AfterBatch(ids) == FoldLeft(BatchStep, Books, ids)

(* Every claim of the batch is accepted by PayPerCall and by the registry, *)
(* at its turn.                                                            *)
BatchAccepted(ids) ==
  \A i \in DOMAIN ids :
    LET book == AfterBatch(SubSeq(ids, 1, i - 1)).book IN
    IsClaimable(book, ids[i]) =>
      /\ book.calls[ids[i]].status = "Pending"
      /\ RegistryAcceptsTimeout(book, ids[i])

\* Mutant: the credit is paid out but not zeroed.
Pulled_KeepsCredit(book) ==
  [book EXCEPT !.balance = Transfer(@, PPC, SLAKeeperAddress,
                                    book.claimable[SLAKeeperAddress])]

(* PayPerCall.claim(): everything credited to this contract is pulled.     *)
Pulled(book) ==
  [book EXCEPT !.claimable = [@ EXCEPT ![SLAKeeperAddress] = 0],
               !.balance = Transfer(@, PPC, SLAKeeperAddress,
                                    book.claimable[SLAKeeperAddress])]

(* The transaction's outcome `s` written back, bounty pulled and booked.   *)
Settle(s, sender) ==
  LET book == IF s.bounty > 0 THEN Pulled(s.book) ELSE s.book IN
  /\ providers' = book.providers
  /\ calls' = book.calls
  /\ openCallsPerCaller' = book.open
  /\ claimable' = book.claimable
  /\ balance' = book.balance
  /\ bountyClaimable' = [bountyClaimable EXCEPT ![sender] = @ + s.bounty]
  /\ UNCHANGED <<termsVars, adminVars, now, nonce, usedReceipts, usedAuthorizations>>

KeeperClaim(c, sender) ==
  /\ payPerCall = PPC
  /\ IsClaimable(Book, c)
  /\ RegistryAcceptsTimeout(Book, c)
  /\ Settle(AfterBatch(<<c>>), sender)

ClaimBatch(ids, sender) ==
  /\ payPerCall = PPC
  /\ BatchAccepted(ids)
  /\ Settle(AfterBatch(ids), sender)

WithdrawBounty(sender) ==
  /\ bountyClaimable[sender] # 0
  /\ CanPay(balance, SLAKeeperAddress, bountyClaimable[sender])
  /\ bountyClaimable' = [bountyClaimable EXCEPT ![sender] = 0]
  /\ balance' = Transfer(balance, SLAKeeperAddress, sender, bountyClaimable[sender])
  /\ UNCHANGED <<providers, termsVars, adminVars, now, callVars>>

Batches == SeqOf(CallIds, MaxBatch)

KeeperInit == Init /\ bountyClaimable = [a \in Accounts |-> 0]

KeeperStep ==
  \E k \in Keepers :
    \/ \E c \in CallIds : KeeperClaim(c, k)
    \/ \E ids \in Batches : ClaimBatch(ids, k)
    \/ WithdrawBounty(k)

KeeperNext == (Next /\ UNCHANGED bountyClaimable) \/ KeeperStep

KeeperSpec == KeeperInit /\ [][KeeperNext]_keeperVars

-----------------------------------------------------------------------------
(* The contract can always pay every bounty it has booked.  It holds       *)
(* exactly those bounties, and never a caller's refund, unless a call was  *)
(* opened for the contract itself.                                         *)
KeeperSolvent ==
  LET booked == Total(bountyClaimable, Accounts) IN
  /\ balance[SLAKeeperAddress] >= booked
  /\ (\A c \in CallIds : calls[c].caller # SLAKeeperAddress) =>
       balance[SLAKeeperAddress] = booked

(* No claim inside a batch can revert and take the others with it: not for *)
(* a repeated id, and not because an earlier claim of the batch shrank the *)
(* stake.                                                                  *)
BatchNeverReverts == \A ids \in Batches : BatchAccepted(ids)

(* A keeper can count on the contract: its batches go through and its      *)
(* bounties are paid.                                                      *)
KeepersPaid == KeeperSolvent /\ BatchNeverReverts

(* However many of its calls one transaction times out, a caller is        *)
(* credited at least the price of each of them.                            *)
BatchMakesCallersWhole ==
  [][\A a \in Addresses \ {SLAKeeperAddress} :
       LET over == {c \in CallIds : /\ Pending(c) /\ calls[c].caller = a
                                    /\ calls'[c].status = "Slashed"}
       IN claimable'[a] >= claimable[a] + Total(Escrowed, over)]_<<calls>>
=============================================================================
