---------------------------- MODULE DisputeQuality --------------------------
(***************************************************************************)
(* contracts/DisputeQuality.sol: a quality dispute decided by the stake of *)
(* the providers that vote.  Opener and voters lock bonds; the winning     *)
(* side shares the bonds of the losing side by weight, together with a     *)
(* slash of the provider or the opener's bond.  The contract does not look *)
(* the call up: call, provider and settlement time are what the opener     *)
(* says.                                                                   *)
(***************************************************************************)
EXTENDS ServiceRegistry, Sequences

CONSTANTS
  QualityAddress,   \* the address of this contract
  QualityIds,       \* the calls disputes are opened about, one dispute each
  Openers,          \* accounts that open disputes
  Voters,           \* accounts that vote
  QualityBond,      \* disputeBond
  VoterBond,        \* voterBond
  MinVoterStake,    \* minVoterStake
  QualitySlashBps,  \* disputeSlashBps
  QualityWindows    \* values of disputeWindow and votingWindow

ASSUME QualityAssumption ==
  /\ QualityAddress \in Contracts /\ QualityAddress \in Slashers \ OtherSlashers
  /\ Openers \cup Voters \subseteq Accounts /\ IsFiniteSet(QualityIds)
  /\ {QualityBond, VoterBond, MinVoterStake} \subseteq Nat /\ QualitySlashBps \in 0..Bps
  /\ QualityWindows \subseteq Nat

VARIABLES
  quality,             \* disputes, disputeIdByCallId
  ballots,             \* _disputeVoters with votes, voterBonds and voteWeight, in order
  pendingWithdrawals,
  qualityWindows       \* disputeWindow, votingWindow

qualityVars == <<quality, ballots, pendingWithdrawals, qualityWindows>>

Sides == {"caller", "provider"}
NoQuality == [caller |-> NoAddress, provider |-> NoAddress, votingEndsAt |-> 0, outcome |-> "None"]

QualityInit ==
  /\ quality = [q \in QualityIds |-> NoQuality]
  /\ ballots = [q \in QualityIds |-> <<>>]
  /\ pendingWithdrawals = [a \in Accounts |-> 0]
  /\ qualityWindows \in [dispute : QualityWindows, voting : QualityWindows]

(* Everything but the registry's table and the ledger.                     *)
OutsideQuality == <<wiring, authorizedSlashers, now>>

OpenQualityDispute(a, q, p, settledAt) ==
  /\ quality[q].outcome = "None"
  /\ settledAt <= now /\ now <= settledAt + qualityWindows.dispute
  /\ CanPay(usdc, a, QualityBond)
  /\ quality' = [quality EXCEPT ![q] =
       [caller |-> a, provider |-> p, votingEndsAt |-> now + qualityWindows.voting,
        outcome |-> "Pending"]]
  /\ usdc' = Transfer(usdc, a, QualityAddress, QualityBond)
  /\ UNCHANGED <<providers, OutsideQuality, ballots, pendingWithdrawals, qualityWindows>>

Voted(q, v) == \E i \in DOMAIN ballots[q] : ballots[q][i].voter = v

VoterStake(v) == IF v \in Providers /\ providers[v].active THEN providers[v].stake ELSE 0

(* The last second of the voting window is the first one of finalize.      *)
CastVote(v, q, side) ==
  /\ quality[q].outcome = "Pending"
  /\ now <= quality[q].votingEndsAt
  /\ ~Voted(q, v)
  /\ VoterStake(v) >= MinVoterStake
  /\ CanPay(usdc, v, VoterBond)
  /\ ballots' = [ballots EXCEPT ![q] =
       Append(@, [voter |-> v, side |-> side, weight |-> VoterStake(v)])]
  /\ usdc' = Transfer(usdc, v, QualityAddress, VoterBond)
  /\ UNCHANGED <<providers, OutsideQuality, quality, pendingWithdrawals, qualityWindows>>

-----------------------------------------------------------------------------
BallotsFor(q, side) == {i \in DOMAIN ballots[q] : ballots[q][i].side = side}

WeightFor(q, side) == SumFunctionOnSet([i \in BallotsFor(q, side) |-> ballots[q][i].weight],
                                       BallotsFor(q, side))

Verdict(q) ==
  IF Len(ballots[q]) < 3 \/ WeightFor(q, "caller") = WeightFor(q, "provider") THEN "tied"
  ELSE IF WeightFor(q, "caller") > WeightFor(q, "provider") THEN "caller" ELSE "provider"

(* Spoils are shared by weight, rounded down.                              *)
Reward(q, side, spoils, i) == (spoils * ballots[q][i].weight) \div WeightFor(q, side)

\* Mutant: what rounding leaves over stays in the contract.
Remainder_Lost(q, side, spoils) == 0

(* What rounding leaves over, which goes to the last winner.               *)
Remainder(q, side, spoils) ==
  spoils - SumFunctionOnSet([i \in BallotsFor(q, side) |-> Reward(q, side, spoils, i)],
                            BallotsFor(q, side))

(* _payoutWinningVoters: what ballot i gets.                               *)
Payout(q, side, spoils, i) ==
  LET winners == BallotsFor(q, side)
      last == CHOOSE j \in winners : \A k \in winners : k <= j
  IN
  IF i \notin winners THEN 0
  ELSE VoterBond + Reward(q, side, spoils, i) + IF i = last THEN Remainder(q, side, spoils) ELSE 0

(* Credits for the voters by ballot, and for the opener.                   *)
Paid(q, payout, opener) ==
  [a \in Accounts |->
     pendingWithdrawals[a] + (IF a = quality[q].caller THEN opener ELSE 0)
       + SumFunctionOnSet([i \in {j \in DOMAIN ballots[q] : ballots[q][j].voter = a} |-> payout[i]],
                          {j \in DOMAIN ballots[q] : ballots[q][j].voter = a})]

QualitySlash(q) == (providers[quality[q].provider].stake * QualitySlashBps) \div Bps

(* _refundCallerAndAllVoters.                                              *)
FinalizeTied(q) ==
  LET refund == [i \in DOMAIN ballots[q] |-> VoterBond] IN
  /\ Verdict(q) = "tied"
  /\ pendingWithdrawals' = Paid(q, refund, QualityBond)
  /\ UNCHANGED <<providers, usdc>>

FinalizeForCaller(q) ==
  LET slash == QualitySlash(q)
      spoils == VoterBond * Cardinality(BallotsFor(q, "provider")) + slash
      payout == [i \in DOMAIN ballots[q] |-> Payout(q, "caller", spoils, i)]
  IN
  /\ Verdict(q) = "caller"
  /\ slash > 0 => QualityAddress \in authorizedSlashers
  /\ pendingWithdrawals' = Paid(q, payout, QualityBond)
  /\ providers' = Slashed(providers, quality[q].provider, slash)
  /\ usdc' = Transfer(usdc, Registry, QualityAddress, slash)

FinalizeForProvider(q) ==
  LET spoils == QualityBond + VoterBond * Cardinality(BallotsFor(q, "caller"))
      payout == [i \in DOMAIN ballots[q] |-> Payout(q, "provider", spoils, i)]
  IN
  /\ Verdict(q) = "provider"
  /\ pendingWithdrawals' = Paid(q, payout, 0)
  /\ UNCHANGED <<providers, usdc>>

FinalizeQuality(q) ==
  /\ quality[q].outcome = "Pending"
  /\ now >= quality[q].votingEndsAt
  /\ FinalizeTied(q) \/ FinalizeForCaller(q) \/ FinalizeForProvider(q)
  /\ quality' = [quality EXCEPT ![q].outcome = Verdict(q)]
  /\ UNCHANGED <<OutsideQuality, ballots, qualityWindows>>

WithdrawPayout(a) ==
  /\ pendingWithdrawals[a] > 0
  /\ CanPay(usdc, QualityAddress, pendingWithdrawals[a])
  /\ pendingWithdrawals' = [pendingWithdrawals EXCEPT ![a] = 0]
  /\ usdc' = Transfer(usdc, QualityAddress, a, pendingWithdrawals[a])
  /\ UNCHANGED <<providers, OutsideQuality, quality, ballots, qualityWindows>>

ChangeWindow(w) ==
  /\ qualityWindows' = [qualityWindows EXCEPT !.dispute = w]
  /\ UNCHANGED <<registryVars, quality, ballots, pendingWithdrawals>>

ChangeVotingWindow(w) ==
  /\ qualityWindows' = [qualityWindows EXCEPT !.voting = w]
  /\ UNCHANGED <<registryVars, quality, ballots, pendingWithdrawals>>

QualityStep ==
  \/ \E q \in QualityIds :
       \/ \E a \in Openers, p \in Providers, settledAt \in Time :
            OpenQualityDispute(a, q, p, settledAt)
       \/ \E v \in Voters, side \in Sides : CastVote(v, q, side)
       \/ FinalizeQuality(q)
  \/ \E a \in Accounts : WithdrawPayout(a)
  \/ \E w \in QualityWindows : ChangeWindow(w) \/ ChangeVotingWindow(w)

-----------------------------------------------------------------------------
(* The contract holds exactly the bonds of the disputes that are open and  *)
(* the payouts nobody fetched yet: whatever the outcome, the losers' bonds *)
(* and the slash are shared out to the last unit.                          *)
QualitySolvent ==
  usdc[QualityAddress]
    = Total(pendingWithdrawals, Accounts)
      + SumFunctionOnSet([q \in QualityIds |->
          IF quality[q].outcome = "Pending" THEN QualityBond + VoterBond * Len(ballots[q]) ELSE 0],
          QualityIds)
=============================================================================
