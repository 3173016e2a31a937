----------------------------- MODULE AgentWallet ----------------------------
(***************************************************************************)
(* contracts/AgentWallet.sol: a wallet its owner funds and an agent spends *)
(* from, one PayPerCall call at a time, within a limit per call and per    *)
(* day.  The day starts with the first call made after the last one        *)
(* ended.  The wallet is the caller of the calls it opens.                 *)
(***************************************************************************)
EXTENDS PayPerCall

CONSTANTS
  WalletAddress,   \* the address of this contract
  WalletOwner,
  TopUps,         \* amounts the owner deposits or withdraws
  Limits,          \* values of dailyLimit and maxPerCall
  Day              \* 1 days

ASSUME WalletAssumption ==
  /\ WalletAddress \in Contracts /\ WalletOwner \in Accounts
  /\ TopUps \subseteq Nat /\ Limits \subseteq Nat /\ Day \in Nat \ {0}

VARIABLES
  wallet,      \* [dailyLimit, maxPerCall, spentToday, lastResetTime, paused]
  whitelist,   \* whitelistedProviders, whitelistIds
  spendings    \* every call the agent made: when it was and what it cost (history)

walletVars == <<wallet, whitelist, spendings>>

WalletInit ==
  /\ \E daily \in Limits, perCall \in Limits :
       wallet = [dailyLimit |-> daily, maxPerCall |-> perCall, spentToday |-> 0,
                 lastResetTime |-> now, paused |-> FALSE]
  /\ whitelist = {}
  /\ spendings = {}

WalletDeposit(amount) ==
  /\ CanPay(usdc, WalletOwner, amount)
  /\ usdc' = Transfer(usdc, WalletOwner, WalletAddress, amount)
  /\ UNCHANGED <<providers, wiring, authorizedSlashers, now, callVars, walletVars>>

WalletWithdraw(amount) ==
  /\ CanPay(usdc, WalletAddress, amount)
  /\ usdc' = Transfer(usdc, WalletAddress, WalletOwner, amount)
  /\ UNCHANGED <<providers, wiring, authorizedSlashers, now, callVars, walletVars>>

\* Mutant: the day's spending is cleared without starting a new day.
ResetDailyIfNeeded_SameDay(w) ==
  IF now >= w.lastResetTime + Day THEN [w EXCEPT !.spentToday = 0] ELSE w

ResetDailyIfNeeded(w) ==
  IF now >= w.lastResetTime + Day
  THEN [w EXCEPT !.spentToday = 0, !.lastResetTime = now]
  ELSE w

(* The agent names the amount it expects: the call reverts unless that is  *)
(* what PayPerCall takes, which is the provider's price.                   *)
AgentCall(p, amount) ==
  LET today == ResetDailyIfNeeded(wallet) IN
  /\ ~wallet.paused
  /\ amount <= wallet.maxPerCall
  /\ today.spentToday + amount <= wallet.dailyLimit
  /\ whitelist = {} \/ p \in whitelist
  /\ amount = providers[p].price
  /\ CallServiceFor(WalletAddress, WalletAddress, p)
  /\ wallet' = [today EXCEPT !.spentToday = @ + amount]
  /\ spendings' = spendings \cup {[call |-> nonce, at |-> now, amount |-> amount,
                                   limit |-> wallet.dailyLimit]}
  /\ UNCHANGED whitelist

SetDailyLimit(limit) ==
  /\ wallet' = [wallet EXCEPT !.dailyLimit = limit]
  /\ UNCHANGED <<registryVars, callVars, whitelist, spendings>>

SetMaxPerCall(max) ==
  /\ wallet' = [wallet EXCEPT !.maxPerCall = max]
  /\ UNCHANGED <<registryVars, callVars, whitelist, spendings>>

AddToWhitelist(p) ==
  /\ p \notin whitelist
  /\ whitelist' = whitelist \cup {p}
  /\ UNCHANGED <<registryVars, callVars, wallet, spendings>>

RemoveFromWhitelist(p) ==
  /\ p \in whitelist
  /\ whitelist' = whitelist \ {p}
  /\ UNCHANGED <<registryVars, callVars, wallet, spendings>>

Pause(paused) ==
  /\ wallet' = [wallet EXCEPT !.paused = paused]
  /\ UNCHANGED <<registryVars, callVars, whitelist, spendings>>

WalletStep ==
  \/ \E amount \in TopUps : WalletDeposit(amount) \/ WalletWithdraw(amount)
  \/ \E p \in Providers, amount \in Prices : AgentCall(p, amount)
  \/ \E limit \in Limits : SetDailyLimit(limit) \/ SetMaxPerCall(limit)
  \/ \E p \in Providers : AddToWhitelist(p) \/ RemoveFromWhitelist(p)
  \/ \E paused \in BOOLEAN : Pause(paused)

-----------------------------------------------------------------------------
(* The limit bounds what is spent between two restarts of the day, and a   *)
(* restart may fall anywhere: whatever stretch of time one looks at, as    *)
(* long as it is shorter than a day, no more than two daily limits were    *)
(* spent in it, and two only around a restart.  A limit counts with the    *)
(* highest value it had when one of the calls was made.                    *)
SpendWithinTwoLimits ==
  \A t \in Time :
    LET window == {s \in spendings : t <= s.at /\ s.at < t + Day} IN
    \A highest \in Limits :
      (\A s \in window : s.limit <= highest) =>
        SumFunctionOnSet([s \in window |-> s.amount], window) <= 2 * highest
=============================================================================
