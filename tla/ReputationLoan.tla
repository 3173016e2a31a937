---------------------------- MODULE ReputationLoan --------------------------
(***************************************************************************)
(* contracts/ReputationLoan.sol: liquidity providers pool USDC for shares, *)
(* provider owners borrow against their reputation and stake.  A loan is   *)
(* repaid with interest or, once matured and no longer covered by the      *)
(* provider's stake, written off.  Idle USDC may sit in an ERC-4626 vault, *)
(* which is outside this repository: it is modelled as serving this pool   *)
(* only and growing by itself.                                             *)
(***************************************************************************)
EXTENDS ServiceRegistry

CONSTANTS
  LoanAddress,     \* the address of this contract
  LPs,             \* accounts that deposit
  Deposits,        \* amounts deposited at once
  ShareAmounts,    \* shares withdrawn at once
  MaxLoans,        \* bound: loans opened
  LoanAmounts,     \* amounts asked for
  LoanTerms,       \* [minHonorRate, minCallCount, maxLoanBps, interestRateBps, loanDuration]
  Vaults,          \* ERC-4626 vaults the owner may set
  MaxYield,        \* bound: what the vaults earn
  Year             \* 365 days

LoanIds == 1..MaxLoans

ASSUME LoanAssumption ==
  /\ LoanAddress \in Contracts /\ Vaults \subseteq Contracts \ {LoanAddress}
  /\ LPs \subseteq Accounts /\ Deposits \subseteq Nat \ {0}
  /\ ShareAmounts \subseteq Nat /\ MaxLoans \in Nat
  /\ LoanAmounts \subseteq Nat \ {0} /\ MaxYield \in Nat /\ Year \in Nat \ {0}
  /\ LoanTerms \subseteq [minHonorRate : 0..Bps, minCallCount : Nat, maxLoanBps : 0..Bps,
                          interestRateBps : 0..Bps, loanDuration : Nat \ {0}]

VARIABLES
  shares,                 \* lpPositions
  totalShares, totalAssets, totalLoaned,
  loans, loanCount, activeLoan,
  loanTerms,              \* the five settings of the owner
  yieldVault, vaultShares,
  vaultHeld,              \* the vaults' own record of the shares this contract holds
  yieldPaid               \* what the vaults have earned

poolVars == <<shares, totalShares, totalAssets>>
debtVars == <<totalLoaned, loans, loanCount, activeLoan>>
vaultVars == <<yieldVault, vaultShares, vaultHeld, yieldPaid>>
loanVars == <<poolVars, debtVars, vaultVars, loanTerms>>

NoLoan == [provider |-> NoAddress, principal |-> 0, startTime |-> 0, duration |-> 0,
           active |-> FALSE]

LoanInit ==
  /\ shares = [a \in LPs |-> 0]
  /\ totalShares = 0 /\ totalAssets = 0 /\ totalLoaned = 0
  /\ loans = [l \in LoanIds |-> NoLoan]
  /\ loanCount = 0
  /\ activeLoan = [p \in Providers |-> 0]
  /\ loanTerms \in LoanTerms
  /\ yieldVault = NoAddress /\ vaultShares = 0
  /\ vaultHeld = [v \in Vaults |-> 0]
  /\ yieldPaid = 0

(* The five setters: one field of the settings at a time.                  *)
SetLoanTerm(field, t) ==
  /\ loanTerms' = [loanTerms EXCEPT ![field] = t[field]]
  /\ UNCHANGED <<registryVars, poolVars, debtVars, vaultVars>>

(* Shares of the vault set before stay behind in it and in vaultShares.    *)
SetYieldVault(v) ==
  /\ yieldVault' = v
  /\ UNCHANGED <<registryVars, poolVars, debtVars, vaultShares, vaultHeld, yieldPaid, loanTerms>>

-----------------------------------------------------------------------------
(* The vault: assets of its shares, and the shares of a deposit.           *)

VaultAssets(v, s) == IF vaultHeld[v] = 0 THEN s ELSE (s * usdc[v]) \div vaultHeld[v]

VaultIssued(v, amount) ==
  IF vaultHeld[v] = 0 THEN amount ELSE (amount * vaultHeld[v]) \div usdc[v]

Earn(v, payer) ==
  /\ vaultHeld[v] > 0
  /\ yieldPaid < MaxYield
  /\ CanPay(usdc, payer, 1)
  /\ yieldPaid' = yieldPaid + 1
  /\ usdc' = Transfer(usdc, payer, v, 1)
  /\ UNCHANGED <<providers, wiring, authorizedSlashers, now, poolVars, debtVars,
                 yieldVault, vaultShares, vaultHeld, loanTerms>>

(* _ensureLiquidity: the vault shares redeemed before `needed` USDC are    *)
(* paid out, in proportion to what is missing, at most all of them.        *)
SharesToRedeem(needed) ==
  LET deficit == needed - usdc[LoanAddress]
      redeemable == VaultAssets(yieldVault, vaultShares)
      proportional == (deficit * vaultShares) \div redeemable + 1
  IN
  IF yieldVault = NoAddress \/ deficit <= 0 THEN 0
  ELSE IF redeemable > deficit /\ proportional < vaultShares THEN proportional
  ELSE vaultShares

(* The ledger after the redemption.                                        *)
Liquid(needed) ==
  IF SharesToRedeem(needed) = 0 THEN usdc
  ELSE Transfer(usdc, yieldVault, LoanAddress, VaultAssets(yieldVault, SharesToRedeem(needed)))

(* `needed` USDC redeemed where necessary and paid to `to`.                *)
PayOut(needed, to) ==
  LET redeemed == SharesToRedeem(needed) IN
  /\ redeemed > 0 => redeemed <= vaultHeld[yieldVault]
  /\ CanPay(Liquid(needed), LoanAddress, needed)
  /\ usdc' = Transfer(Liquid(needed), LoanAddress, to, needed)
  /\ vaultShares' = vaultShares - redeemed
  /\ vaultHeld' = [v \in Vaults |-> vaultHeld[v] - IF v = yieldVault THEN redeemed ELSE 0]
  /\ UNCHANGED <<yieldVault, yieldPaid>>

-----------------------------------------------------------------------------
(* The pool.                                                               *)

\* Mutant: one share per unit of USDC, whatever the shares are worth by now.
SharesFor_OneToOne(amount) == amount

SharesFor(amount) ==
  IF totalShares = 0 \/ totalAssets = 0 THEN amount
  ELSE (amount * totalShares) \div totalAssets

Deposit(a, amount) ==
  /\ SharesFor(amount) > 0
  /\ CanPay(usdc, a, amount)
  /\ shares' = [shares EXCEPT ![a] = @ + SharesFor(amount)]
  /\ totalShares' = totalShares + SharesFor(amount)
  /\ totalAssets' = totalAssets + amount
  /\ IF yieldVault = NoAddress
     THEN /\ usdc' = Transfer(usdc, a, LoanAddress, amount)
          /\ UNCHANGED <<vaultShares, vaultHeld>>
     ELSE /\ usdc' = Transfer(usdc, a, yieldVault, amount)
          /\ vaultShares' = vaultShares + VaultIssued(yieldVault, amount)
          /\ vaultHeld' = [vaultHeld EXCEPT ![yieldVault] = @ + VaultIssued(yieldVault, amount)]
  /\ UNCHANGED <<providers, wiring, authorizedSlashers, now, debtVars, yieldVault, yieldPaid,
                 loanTerms>>

Withdraw(a, s) ==
  LET amount == (s * totalAssets) \div totalShares IN
  /\ 0 < s /\ s <= shares[a]
  /\ amount > 0
  /\ PayOut(amount, a)
  /\ shares' = [shares EXCEPT ![a] = @ - s]
  /\ totalShares' = totalShares - s
  /\ totalAssets' = totalAssets - amount
  /\ UNCHANGED <<providers, wiring, authorizedSlashers, now, debtVars, loanTerms>>

-----------------------------------------------------------------------------
(* Loans.                                                                  *)

Reputable(p) ==
  LET completed == providers[p].completedCalls
      total == completed + providers[p].slashedCalls
  IN
  /\ completed >= loanTerms.minCallCount
  /\ (IF total = 0 THEN 0 ELSE (completed * Bps) \div total) >= loanTerms.minHonorRate

Borrow(p, amount) ==
  /\ activeLoan[p] = 0
  /\ loanCount + 1 \in LoanIds
  /\ Registered(p) /\ providers[p].active
  /\ Reputable(p)
  /\ amount <= (totalAssets * loanTerms.maxLoanBps) \div Bps
  /\ amount <= (providers[p].stake * loanTerms.maxLoanBps) \div Bps
  /\ PayOut(amount, p)
  /\ loanCount' = loanCount + 1
  /\ loans' = [loans EXCEPT ![loanCount + 1] =
       [provider |-> p, principal |-> amount, startTime |-> now,
        duration |-> loanTerms.loanDuration, active |-> TRUE]]
  /\ activeLoan' = [activeLoan EXCEPT ![p] = loanCount + 1]
  /\ totalLoaned' = totalLoaned + amount
  /\ UNCHANGED <<providers, wiring, authorizedSlashers, now, poolVars, loanTerms>>

(* The loan's part of a repayment and of a liquidation.                    *)
Close(l) ==
  /\ loans[l].active
  /\ loans' = [loans EXCEPT ![l].active = FALSE]
  /\ activeLoan' = [activeLoan EXCEPT ![loans[l].provider] = 0]
  /\ totalLoaned' = totalLoaned - loans[l].principal
  /\ UNCHANGED <<loanCount, shares, totalShares, vaultVars, loanTerms>>

(* At the rate of the moment of repayment; the time stops at maturity.     *)
Interest(l) ==
  LET elapsed == IF now - loans[l].startTime > loans[l].duration THEN loans[l].duration
                 ELSE now - loans[l].startTime
  IN (loans[l].principal * loanTerms.interestRateBps * elapsed) \div (Year * Bps)

\* Mutant: the principal is counted as if it had left the pool's assets.
AssetsRepaid_WithPrincipal(l) == totalAssets + loans[l].principal + Interest(l)

AssetsRepaid(l) == totalAssets + Interest(l)

(* By the borrower, in one payment.                                        *)
Repay(l) ==
  LET due == loans[l].principal + Interest(l)
      p == loans[l].provider
  IN
  /\ Close(l)
  /\ CanPay(usdc, p, due)
  /\ usdc' = Transfer(usdc, p, LoanAddress, due)
  /\ totalAssets' = AssetsRepaid(l)
  /\ UNCHANGED <<providers, wiring, authorizedSlashers, now>>

Matured(l) == now > loans[l].startTime + loans[l].duration

Uncovered(l) == providers[loans[l].provider].stake < loans[l].principal

(* Checked subtraction of the principal from the pool's assets.            *)
Liquidate(l) ==
  /\ Close(l)
  /\ Matured(l) /\ Uncovered(l)
  /\ loans[l].principal <= totalAssets
  /\ totalAssets' = totalAssets - loans[l].principal
  /\ UNCHANGED registryVars

LoanStep ==
  \/ \E t \in LoanTerms : \E field \in DOMAIN t : SetLoanTerm(field, t)
  \/ \E v \in Vaults \cup {NoAddress} : SetYieldVault(v)
  \/ \E v \in Vaults, payer \in Owners : Earn(v, payer)
  \/ \E a \in LPs :
       \/ \E amount \in Deposits : Deposit(a, amount)
       \/ \E s \in ShareAmounts : Withdraw(a, s)
  \/ \E p \in Providers, amount \in LoanAmounts : Borrow(p, amount)
  \/ \E l \in LoanIds : Repay(l) \/ Liquidate(l)

-----------------------------------------------------------------------------
(* The pool has, in cash and in every vault it was ever given, at least    *)
(* what its books say is not lent out; what is lent out is the principal   *)
(* of the open loans; and each share belongs to somebody.                  *)
PoolCovered ==
  /\ usdc[LoanAddress] + SumFunctionOnSet([v \in Vaults |-> usdc[v]], Vaults)
       >= totalAssets - totalLoaned
  /\ totalLoaned = SumFunctionOnSet([l \in LoanIds |->
       IF loans[l].active THEN loans[l].principal ELSE 0], LoanIds)
  /\ totalShares = Total(shares, LPs)

(* As long as there are shares, what one of them is worth never falls: not *)
(* through the rounding of deposits and withdrawals, not by a loan taken   *)
(* or repaid.  The one exception is the write-off of a matured loan which  *)
(* the provider's stake does not cover, and it costs the pool the          *)
(* principal.  (Without shares there may be assets, when what the vault    *)
(* earned paid out the last share before a loan came back with interest:   *)
(* they go to the next depositor.)                                         *)
SharePriceNeverFalls ==
  [][ \/ totalShares = 0
      \/ totalAssets' * totalShares >= totalAssets * totalShares'
      \/ \E l \in LoanIds :
           /\ loans[l].active /\ ~loans'[l].active
           /\ Matured(l) /\ Uncovered(l)
           /\ totalShares' = totalShares
           /\ totalAssets' = totalAssets - loans[l].principal
    ]_<<poolVars, loans>>
=============================================================================
