---------------------------- MODULE LockRewards -----------------------------
(***************************************************************************)
(* The LockRewards contract: users lock one token for a number of epochs   *)
(* and share, in proportion to what they locked, the rewards that the      *)
(* epoch setter attaches to each epoch.                                    *)
(*                                                                         *)
(* One action is one transaction.  A transaction that reverts, whether by  *)
(* a custom error, a failed token transfer or a panic of checked           *)
(* arithmetic, changes nothing: its action is not enabled.  Transactions   *)
(* of different callers interleave in any order and at any block time;     *)
(* who may call the restricted ones is not modelled here.                  *)
(*                                                                         *)
(* Operators named Mutant... are wrong variants of the definition after    *)
(* them; nothing uses them but the runs that show a property can fail.     *)
(*                                                                         *)
(* Lists of tokens keep no order except rewardTokens, whose positions the  *)
(* code uses: an account's rewardTokens is a bag, the parallel arrays      *)
(* tokens and rewards of an epoch are a set and a function.                *)
(***************************************************************************)
EXTENDS Sums, Sequences

CONSTANTS
  Users,                \* the callers of the unrestricted functions
  Tokens,               \* the ERC20 tokens around, LockToken among them
  LockToken,            \* lockToken
  InitialRewardTokens,  \* the constructor's _rewards
  DefaultDuration,      \* defaultEpochDurationInDays
  InitialLockDuration,  \* the constructor's _lockDuration, in epochs
  Day,                  \* clock units in a day: 86400 in the code
  Scale,                \* fixed-point unit of a share: 1e18 in the code
  \* What callers choose from
  Amounts,              \* deposits and withdrawals
  RewardValues,         \* rewards of an epoch, per token
  Durations,            \* epoch lengths in days
  StartDelays,          \* epochStart - block.timestamp
  LockDurations,        \* arguments of setLockDuration
  FundAmounts,          \* transfers of a token to the contract or to the owner
  \* Bounds
  MaxEpoch,             \* epochs 1..MaxEpoch can be set
  MaxTime,              \* the clock stops here, no epoch finishes later
  MaxHeld               \* the most the contract ever holds of each token

EpochId == 1 .. MaxEpoch + 1

ASSUME LockRewardsAssumption ==
  /\ IsFiniteSet(Users) /\ IsFiniteSet(Tokens)
  /\ LockToken \in Tokens
  /\ InitialRewardTokens \in Seq(Tokens)
  /\ \A i, j \in DOMAIN InitialRewardTokens :
       InitialRewardTokens[i] = InitialRewardTokens[j] => i = j
  /\ DefaultDuration \in Nat /\ InitialLockDuration \in Nat
  /\ Day \in Nat \ {0} /\ Scale \in Nat \ {0}
  /\ Amounts \subseteq Nat /\ RewardValues \subseteq Nat
  /\ Durations \subseteq Nat /\ StartDelays \subseteq Nat
  /\ LockDurations \subseteq Nat /\ FundAmounts \subseteq Nat
  /\ MaxEpoch \in Nat \ {0} /\ MaxTime \in Nat /\ MaxHeld \in [Tokens -> Nat]

VARIABLES
  now,                    \* block.timestamp
  accounts, totalAssets,
  rewardTokens, rewards, rewardsPaid,
  enforceTime,
  epochs, currentEpoch, nextUnsetEpoch,
  lockDuration,
  whitelistRecoverERC20,
  paused,
  held                    \* held[t]: IERC20(t).balanceOf(address(this))

calendarVars == <<currentEpoch, nextUnsetEpoch>>
tokenVars == <<rewardTokens, rewards, rewardsPaid>>
settingVars == <<enforceTime, lockDuration, whitelistRecoverERC20, paused>>
vars == <<now, accounts, totalAssets, tokenVars, epochs, calendarVars,
          settingVars, held>>

NoTokens == [t \in Tokens |-> 0]

Account ==
  [balance : Nat, lockStart : Nat, lockEpochs : Nat, lastEpochPaid : Nat,
   rewards : [Tokens -> Nat], rewardTokens : [Tokens -> Nat]]

Epoch ==
  [balanceLocked : [Users -> Nat], start : Nat, finish : Nat,
   totalLocked : Nat, tokens : SUBSET Tokens, rewards : [Tokens -> Nat],
   isSet : BOOLEAN]

Init ==
  /\ now = 0
  /\ accounts = [u \in Users |->
       [balance |-> 0, lockStart |-> 0, lockEpochs |-> 0, lastEpochPaid |-> 0,
        rewards |-> NoTokens, rewardTokens |-> NoTokens]]
  /\ totalAssets = 0
  /\ rewardTokens = InitialRewardTokens
  /\ rewards = NoTokens
  /\ rewardsPaid = NoTokens
  /\ enforceTime = TRUE
  /\ epochs = [e \in EpochId |->
       [balanceLocked |-> [u \in Users |-> 0], start |-> 0, finish |-> 0,
        totalLocked |-> 0, tokens |-> {}, rewards |-> NoTokens,
        isSet |-> FALSE]]
  /\ currentEpoch = 1
  /\ nextUnsetEpoch = 1
  /\ lockDuration = InitialLockDuration
  /\ whitelistRecoverERC20 = [t \in Tokens |-> FALSE]
  /\ paused = FALSE
  /\ held = NoTokens

RewardTokenSet == {rewardTokens[i] : i \in DOMAIN rewardTokens}

IndexOf(t) == CHOOSE i \in DOMAIN rewardTokens : rewardTokens[i] = t

-----------------------------------------------------------------------------
(* Modifier updateEpoch: currentEpoch moves past every set epoch that has  *)
(* finished, and stops at the first that is unset or has not finished.     *)

Elapsed(e) == epochs[e].isSet /\ epochs[e].finish <= now

MutantSyncedEpoch == currentEpoch      \* the modifier left out

SyncedEpoch ==
  CHOOSE e \in EpochId :
    /\ e >= currentEpoch
    /\ ~Elapsed(e)
    /\ \A k \in currentEpoch .. e - 1 : Elapsed(k)

(* Modifier updateReward, for user u when the calendar is at epoch cur.    *)

(* Epochs start at 1, a fresh account says 0.                              *)
PaidFrom(u) ==
  IF accounts[u].lastEpochPaid = 0 THEN 1 ELSE accounts[u].lastEpochPaid

(* The finished epochs the modifier pays: lockEpochs epochs are looked at, *)
(* those where u has nothing locked are skipped.                           *)
Payable(u, cur) ==
  {e \in EpochId : /\ PaidFrom(u) <= e
                   /\ e < PaidFrom(u) + accounts[u].lockEpochs
                   /\ e < cur
                   /\ epochs[e].balanceLocked[u] # 0}

ShareValue(u, e, t) ==
  LET ep    == epochs[e]
      share == (ep.balanceLocked[u] * Scale) \div ep.totalLocked
  IN  IF ep.balanceLocked[u] = 0 THEN 0 ELSE (share * ep.rewards[t]) \div Scale

(* What the modifier adds to rewardsPaid[t] and to the claimable rewards.  *)
Granted(u, cur, t) == SumOver([e \in Payable(u, cur) |-> ShareValue(u, e, t)])

(* How often the modifier pushes t on the account's list: once for every   *)
(* paid epoch that finds the claimable amount still at zero.               *)
Pushes(u, cur, t) ==
  IF accounts[u].rewards[t] > 0 THEN 0
  ELSE Cardinality({e \in Payable(u, cur) :
         /\ t \in epochs[e].tokens
         /\ \A k \in Payable(u, cur) : k < e => ShareValue(u, k, t) = 0})

MutantUpdatedAccount(u) ==             \* lastEpochPaid is not stored
  LET cur == SyncedEpoch
  IN  [accounts[u] EXCEPT
         !.lockEpochs = @ - Cardinality(Payable(u, cur)),
         !.rewards = [t \in Tokens |-> @[t] + Granted(u, cur, t)],
         !.rewardTokens = [t \in Tokens |-> @[t] + Pushes(u, cur, t)]]

MutantUpdatedAccountPassed(u) ==       \* epochs passed count, not those paid
  LET cur == SyncedEpoch
  IN  [accounts[u] EXCEPT
         !.lockEpochs = @ - (cur - PaidFrom(u)),
         !.lastEpochPaid = cur,
         !.rewards = [t \in Tokens |-> @[t] + Granted(u, cur, t)],
         !.rewardTokens = [t \in Tokens |-> @[t] + Pushes(u, cur, t)]]

UpdatedAccount(u) ==
  LET cur == SyncedEpoch
  IN  [accounts[u] EXCEPT
         !.lockEpochs = @ - Cardinality(Payable(u, cur)),
         !.lastEpochPaid = cur,
         !.rewards = [t \in Tokens |-> @[t] + Granted(u, cur, t)],
         !.rewardTokens = [t \in Tokens |-> @[t] + Pushes(u, cur, t)]]

(* The two modifiers, whatever the body then does with the account: the    *)
(* calendar and rewardsPaid.  The division by totalLocked must not panic.  *)
UpdateEpochAndReward(u) ==
  LET cur == SyncedEpoch
  IN  /\ \A e \in Payable(u, cur) : epochs[e].totalLocked > 0
      /\ currentEpoch' = cur
      /\ rewardsPaid' = [t \in Tokens |-> rewardsPaid[t] + Granted(u, cur, t)]
      /\ UNCHANGED <<now, nextUnsetEpoch, rewardTokens, rewards, settingVars>>

(* Modifier updateEpoch alone, on the restricted functions.                *)
UpdateEpoch == currentEpoch' = SyncedEpoch

-----------------------------------------------------------------------------
(* getAccount copies the account's list into an array as long as the       *)
(* contract's: it panics when the list is longer.                          *)
AccountReadable(a) == SumOver(a.rewardTokens) <= Len(rewardTokens)

-----------------------------------------------------------------------------
(* The outside world: blocks, and plain ERC20 transfers to the contract,   *)
(* of one token by anybody or of several at once by FutureRewardsVault.    *)

Tick ==
  /\ now < MaxTime
  /\ now' = now + 1
  /\ UNCHANGED <<accounts, totalAssets, tokenVars, epochs, calendarVars,
                 settingVars, held>>

Fund(amounts) ==
  /\ \A t \in Tokens : held[t] + amounts[t] <= MaxHeld[t]
  /\ held' = [t \in Tokens |-> held[t] + amounts[t]]
  /\ UNCHANGED <<now, accounts, totalAssets, tokenVars, epochs, calendarVars,
                 settingVars>>

(* Tokens out[t] leave the contract; a transfer beyond its balance reverts. *)
Pay(out) ==
  /\ \A t \in Tokens : out[t] <= held[t]
  /\ held' = [t \in Tokens |-> held[t] - out[t]]

-----------------------------------------------------------------------------
(* The functions any user may call.                                        *)

UpdateAccount(u) ==
  LET a == UpdatedAccount(u)
  IN  /\ ~paused
      /\ UpdateEpochAndReward(u)
      /\ accounts' = [accounts EXCEPT ![u] = a]
      /\ AccountReadable(a)
      /\ UNCHANGED <<totalAssets, epochs, held>>

(* The epochs whose stake a deposit sets to the whole new balance: from    *)
(* the next one if cur is set, else from cur, for as long as the account   *)
(* is then locked; one less when it was locked already and cur is set,     *)
(* because its lock then includes cur.                                     *)
RelockedEpochs(cur, oldLockEpochs, lockEpochs) ==
  LET next == IF epochs[cur].isSet THEN cur + 1 ELSE cur
      lockBoundary == IF ~epochs[cur].isSet \/ oldLockEpochs = 0
                      THEN lockEpochs
                      ELSE lockEpochs - 1
  IN  next .. next + lockBoundary - 1

MutantRestaked(ep, u, newBalance) ==   \* the old stake stays in the total
  [ep EXCEPT !.totalLocked = @ + newBalance, !.balanceLocked[u] = newBalance]

Restaked(ep, u, newBalance) ==
  [ep EXCEPT !.totalLocked = @ + (newBalance - ep.balanceLocked[u]),
             !.balanceLocked[u] = newBalance]

(* _deposit; the checked subtraction panics if an epoch already holds a    *)
(* larger stake of the user.                                               *)
DepositFor(u, amount, lock) ==
  LET a == UpdatedAccount(u)
      newBalance == a.balance + amount
      relocked == RelockedEpochs(SyncedEpoch, a.lockEpochs, a.lockEpochs + lock)
  IN  /\ ~paused
      /\ held[LockToken] + amount <= MaxHeld[LockToken]
      /\ relocked \subseteq EpochId
      /\ \A e \in relocked : epochs[e].balanceLocked[u] <= newBalance
      /\ UpdateEpochAndReward(u)
      /\ accounts' = [accounts EXCEPT ![u] =
           [a EXCEPT !.balance = newBalance,
                     !.lockEpochs = @ + lock,
                     !.lockStart = now]]
      /\ totalAssets' = totalAssets + amount
      /\ epochs' = [e \in EpochId |->
           IF e \in relocked THEN Restaked(epochs[e], u, newBalance)
           ELSE epochs[e]]
      /\ held' = [held EXCEPT ![LockToken] = @ + amount]

Deposit(u, amount) == DepositFor(u, amount, lockDuration)

Redeposit(u, amount) ==
  /\ accounts[u].balance # 0
  /\ DepositFor(u, amount, 0)

(* What _withdraw checks and takes.  The subtraction from totalAssets is   *)
(* checked by the compiler.                                                *)
Withdrawable(a, amount) ==
  /\ amount # 0
  /\ amount <= a.balance
  /\ amount <= totalAssets
  /\ a.lockEpochs > 0 => ~enforceTime

WithdrawFrom(a, amount) == [a EXCEPT !.balance = @ - amount]

Withdrawal(amount) == [NoTokens EXCEPT ![LockToken] = amount]

(* What _claim pays: the claimable rewards of the tokens on the list.      *)
Claimed(a) ==
  [t \in Tokens |-> IF a.rewardTokens[t] > 0 THEN a.rewards[t] ELSE 0]

MutantClaimFrom(a) ==                  \* only the list is reset
  [a EXCEPT !.rewardTokens = NoTokens]

ClaimFrom(a) ==
  [a EXCEPT !.rewards = [t \in Tokens |-> @[t] - Claimed(a)[t]],
            !.rewardTokens = NoTokens]

Withdraw(u, amount) ==
  LET a == UpdatedAccount(u)
  IN  /\ ~paused
      /\ Withdrawable(a, amount)
      /\ UpdateEpochAndReward(u)
      /\ accounts' = [accounts EXCEPT ![u] = WithdrawFrom(a, amount)]
      /\ totalAssets' = totalAssets - amount
      /\ Pay(Withdrawal(amount))
      /\ UNCHANGED epochs

ClaimRewards(u) ==
  LET a == UpdatedAccount(u)
  IN  /\ ~paused
      /\ UpdateEpochAndReward(u)
      /\ accounts' = [accounts EXCEPT ![u] = ClaimFrom(a)]
      /\ Pay(Claimed(a))
      /\ UNCHANGED <<totalAssets, epochs>>

(* The single-token claim leaves the account's list as it is.              *)
MutantClaimReward(u, t) ==             \* the single claim resets the list too
  LET a == UpdatedAccount(u)
  IN  /\ ~paused
      /\ UpdateEpochAndReward(u)
      /\ accounts' = [accounts EXCEPT ![u] =
           [a EXCEPT !.rewards[t] = 0, !.rewardTokens = NoTokens]]
      /\ Pay([NoTokens EXCEPT ![t] = a.rewards[t]])
      /\ UNCHANGED <<totalAssets, epochs>>

ClaimReward(u, t) ==
  LET a == UpdatedAccount(u)
  IN  /\ ~paused
      /\ UpdateEpochAndReward(u)
      /\ accounts' = [accounts EXCEPT ![u] = [a EXCEPT !.rewards[t] = 0]]
      /\ Pay([NoTokens EXCEPT ![t] = a.rewards[t]])
      /\ UNCHANGED <<totalAssets, epochs>>

(* _withdraw of the whole balance of a, then _claim.                       *)
Leave(u, a) ==
  /\ Withdrawable(a, a.balance)
  /\ accounts' = [accounts EXCEPT ![u] = ClaimFrom(WithdrawFrom(a, a.balance))]
  /\ totalAssets' = totalAssets - a.balance
  /\ Pay([t \in Tokens |-> Withdrawal(a.balance)[t] + Claimed(a)[t]])

Exit(u) ==
  /\ ~paused
  /\ Leave(u, UpdatedAccount(u))
  /\ UpdateEpochAndReward(u)
  /\ UNCHANGED epochs

(* The stakes _emergencyUnlock removes: lockEpochs epochs from the current *)
(* one.  Epochs beyond the bound hold no stake.  The subtraction from      *)
(* totalLocked is checked.                                                 *)
MutantUnlockedEpochs(cur, lockEpochs) ==   \* stops one epoch early
  {e \in EpochId : cur <= e /\ e + 1 < cur + lockEpochs}

UnlockedEpochs(cur, lockEpochs) ==
  {e \in EpochId : cur <= e /\ e < cur + lockEpochs}

MutantEmergencyExit(u) ==              \* the account is not unlocked first
  LET a == UpdatedAccount(u)
      unlocked == UnlockedEpochs(a.lastEpochPaid, a.lockEpochs)
  IN  /\ ~paused
      /\ a.lockStart + lockDuration * DefaultDuration * Day * 2 <= now
      /\ Leave(u, a)
      /\ \A e \in unlocked : epochs[e].balanceLocked[u] <= epochs[e].totalLocked
      /\ epochs' = [e \in EpochId |->
           IF e \in unlocked THEN Restaked(epochs[e], u, 0) ELSE epochs[e]]
      /\ UpdateEpochAndReward(u)

EmergencyExit(u) ==
  LET a == UpdatedAccount(u)
      unlocked == UnlockedEpochs(a.lastEpochPaid, a.lockEpochs)
  IN  /\ ~paused
      /\ a.lockStart + lockDuration * DefaultDuration * Day * 2 <= now
      /\ Leave(u, [a EXCEPT !.lockEpochs = 0])
      /\ \A e \in unlocked : epochs[e].balanceLocked[u] <= epochs[e].totalLocked
      /\ epochs' = [e \in EpochId |->
           IF e \in unlocked THEN Restaked(epochs[e], u, 0) ELSE epochs[e]]
      /\ UpdateEpochAndReward(u)

-----------------------------------------------------------------------------
(* The restricted functions.                                               *)

Pause ==
  /\ ~paused
  /\ paused' = TRUE
  /\ UNCHANGED <<now, accounts, totalAssets, tokenVars, epochs, calendarVars,
                 enforceTime, lockDuration, whitelistRecoverERC20, held>>

Unpause ==
  /\ paused
  /\ paused' = FALSE
  /\ UNCHANGED <<now, accounts, totalAssets, tokenVars, epochs, calendarVars,
                 enforceTime, lockDuration, whitelistRecoverERC20, held>>

SetLockDuration(duration) ==
  /\ duration # lockDuration
  /\ UpdateEpoch
  /\ lockDuration' = duration
  /\ UNCHANGED <<now, accounts, totalAssets, tokenVars, epochs, nextUnsetEpoch,
                 enforceTime, whitelistRecoverERC20, paused, held>>

SetReward(t) ==
  /\ t # LockToken
  /\ t \notin RewardTokenSet
  /\ UpdateEpoch
  /\ rewardTokens' = Append(rewardTokens, t)
  /\ UNCHANGED <<now, accounts, totalAssets, rewards, rewardsPaid, epochs,
                 nextUnsetEpoch, settingVars, held>>

(* The last token takes the place of the removed one.                      *)
MutantRemoveReward(t) ==               \* forgets what was announced in t
  LET last == Len(rewardTokens)
  IN  /\ t \in RewardTokenSet
      /\ UpdateEpoch
      /\ rewardTokens' =
           SubSeq([rewardTokens EXCEPT ![IndexOf(t)] = rewardTokens[last]],
                  1, last - 1)
      /\ rewards' = [rewards EXCEPT ![t] = 0]
      /\ UNCHANGED <<now, accounts, totalAssets, rewardsPaid, epochs,
                     nextUnsetEpoch, settingVars, held>>

RemoveReward(t) ==
  LET last == Len(rewardTokens)
  IN  /\ t \in RewardTokenSet
      /\ UpdateEpoch
      /\ rewardTokens' =
           SubSeq([rewardTokens EXCEPT ![IndexOf(t)] = rewardTokens[last]],
                  1, last - 1)
      /\ UNCHANGED <<now, accounts, totalAssets, rewards, rewardsPaid, epochs,
                     nextUnsetEpoch, settingVars, held>>

(* Rewards granted and not yet counted as paid, which _setEpoch keeps out  *)
(* of the funding of a new epoch.                                          *)
Unclaimed(t) == rewards[t] - rewardsPaid[t]

(* An epoch that follows another starts after it, unless a later start is  *)
(* asked for.                                                              *)
MutantStartOf(cur, epochStart) == epochStart   \* overlaps the last epoch

StartOf(cur, epochStart) ==
  LET next == nextUnsetEpoch
  IN  IF cur = next \/ epochStart > epochs[next - 1].finish + 1
      THEN epochStart
      ELSE epochs[next - 1].finish + 1

(* The three overloads of setNextEpoch: the two short ones start now, the  *)
(* first also takes the default duration.                                  *)
SetNextEpoch(values, days, delay) ==
  LET cur == SyncedEpoch
      next == nextUnsetEpoch
      from == StartOf(cur, now + delay)
      funding == [t \in Tokens |->
        IF t \in RewardTokenSet THEN values[IndexOf(t)] ELSE 0]
  IN  /\ UpdateEpoch
      /\ next - cur <= 1
      /\ next <= MaxEpoch
      /\ from + days * Day <= MaxTime
      /\ \A t \in RewardTokenSet :
           /\ 0 <= Unclaimed(t) /\ Unclaimed(t) <= held[t]
           /\ held[t] - Unclaimed(t) >= funding[t]
      /\ rewards' = [t \in Tokens |-> rewards[t] + funding[t]]
      /\ epochs' = [epochs EXCEPT ![next] =
           [@ EXCEPT !.start = from, !.finish = from + days * Day,
                     !.tokens = RewardTokenSet, !.rewards = funding,
                     !.isSet = TRUE]]
      /\ nextUnsetEpoch' = next + 1
      /\ UNCHANGED <<now, accounts, totalAssets, rewardTokens, rewardsPaid,
                     settingVars, held>>

RecoverERC20(t, amount) ==
  /\ whitelistRecoverERC20[t]
  /\ amount <= held[t]
  /\ held' = [held EXCEPT ![t] = @ - amount]
  /\ UNCHANGED <<now, accounts, totalAssets, tokenVars, epochs, calendarVars,
                 settingVars>>

(* Panics when there is no reward token to compare with.                   *)
MutantChangeRecoverWhitelist(t, flag) ==   \* the lock token is not refused
  /\ Len(rewardTokens) > 0
  /\ t # rewardTokens[1]
  /\ whitelistRecoverERC20' = [whitelistRecoverERC20 EXCEPT ![t] = flag]
  /\ UNCHANGED <<now, accounts, totalAssets, tokenVars, epochs, calendarVars,
                 enforceTime, lockDuration, paused, held>>

ChangeRecoverWhitelist(t, flag) ==
  /\ t # LockToken
  /\ Len(rewardTokens) > 0
  /\ t # rewardTokens[1]
  /\ whitelistRecoverERC20' = [whitelistRecoverERC20 EXCEPT ![t] = flag]
  /\ UNCHANGED <<now, accounts, totalAssets, tokenVars, epochs, calendarVars,
                 enforceTime, lockDuration, paused, held>>

ChangeEnforceTime(flag) ==
  /\ enforceTime' = flag
  /\ UNCHANGED <<now, accounts, totalAssets, tokenVars, epochs, calendarVars,
                 lockDuration, whitelistRecoverERC20, paused, held>>

-----------------------------------------------------------------------------
UserNext(u) ==
  \/ UpdateAccount(u)
  \/ \E amount \in Amounts :
       Deposit(u, amount) \/ Redeposit(u, amount) \/ Withdraw(u, amount)
  \/ ClaimRewards(u)
  \/ \E t \in Tokens : ClaimReward(u, t)
  \/ Exit(u)
  \/ EmergencyExit(u)

EpochSetterNext ==
  \E values \in [DOMAIN rewardTokens -> RewardValues],
     days \in Durations, delay \in StartDelays : SetNextEpoch(values, days, delay)

PauseSetterNext == Pause \/ Unpause

OwnerNext ==
  \/ \E duration \in LockDurations : SetLockDuration(duration)
  \/ \E t \in Tokens : SetReward(t) \/ RemoveReward(t)
  \/ \E t \in Tokens, amount \in FundAmounts : RecoverERC20(t, amount)
  \/ \E t \in Tokens, flag \in BOOLEAN : ChangeRecoverWhitelist(t, flag)
  \/ \E flag \in BOOLEAN : ChangeEnforceTime(flag)

WorldNext ==
  \/ Tick
  \/ \E amounts \in [Tokens -> FundAmounts \cup {0}] : Fund(amounts)

Next ==
  \/ WorldNext
  \/ \E u \in Users : UserNext(u)
  \/ EpochSetterNext
  \/ PauseSetterNext
  \/ OwnerNext

Spec == Init /\ [][Next]_vars

(* Blocks keep coming, and a user who wants to leave keeps trying the      *)
(* emergency exit.  Nothing is asked of the epoch setter, of the owner or  *)
(* of the other users.                                                     *)
Patience == WF_vars(Tick) /\ \A u \in Users : WF_vars(EmergencyExit(u))

-----------------------------------------------------------------------------
TypeOK ==
  /\ now \in Nat
  /\ accounts \in [Users -> Account]
  /\ totalAssets \in Nat
  /\ rewardTokens \in Seq(Tokens)
  /\ rewards \in [Tokens -> Nat]
  /\ rewardsPaid \in [Tokens -> Nat]
  /\ enforceTime \in BOOLEAN
  /\ epochs \in [EpochId -> Epoch]
  /\ currentEpoch \in EpochId
  /\ nextUnsetEpoch \in EpochId
  /\ lockDuration \in Nat
  /\ whitelistRecoverERC20 \in [Tokens -> BOOLEAN]
  /\ paused \in BOOLEAN
  /\ held \in [Tokens -> Nat]

(* The denominator of every share is the sum of the stakes, through every  *)
(* deposit, relock and emergency exit: no epoch pays out more, or less,    *)
(* than its stakes stand for.                                              *)
LockedSums ==
  \A e \in EpochId :
    epochs[e].totalLocked = SumOver(epochs[e].balanceLocked)

(* The rewards of the set epochs that u has not been granted yet, whether  *)
(* or not the modifier will ever look at them.                             *)
UngrantedEpochs(u) == {e \in EpochId : epochs[e].isSet /\ PaidFrom(u) <= e}

Owed(u, t) == SumOver([e \in UngrantedEpochs(u) |-> ShareValue(u, e, t)])

(* No epoch is paid out twice or beyond its rewards: what was granted so   *)
(* far and all that can still be granted for set epochs stays within what  *)
(* setNextEpoch announced.  Hence the subtraction rewards - rewardsPaid in *)
(* _setEpoch never panics.                                                 *)
OwedWithinFunding ==
  \A t \in Tokens :
    rewardsPaid[t] + SumOver([u \in Users |-> Owed(u, t)]) <= rewards[t]

(* Rewards are for funds locked before the epoch starts, and a finished    *)
(* epoch is settled (LockRewards.sol:20-22): once an epoch has started no  *)
(* stake in it grows, once it has finished none changes, even while        *)
(* currentEpoch still lags behind the clock.                               *)
StakesSettle ==
  [][\A e \in EpochId : epochs[e].isSet =>
       /\ epochs[e].finish <= now =>
            /\ epochs'[e].balanceLocked = epochs[e].balanceLocked
            /\ epochs'[e].totalLocked = epochs[e].totalLocked
       /\ epochs[e].start <= now => \A u \in Users :
            epochs'[e].balanceLocked[u] <= epochs[e].balanceLocked[u]]_vars

(* claimRewards, exit and emergencyExit pay the tokens on the account's    *)
(* list only: no claimable reward is ever missing from it, although the    *)
(* list is appended to by one function and not cleaned by another.         *)
ClaimListComplete ==
  \A u \in Users, t \in Tokens :
    accounts[u].rewards[t] > 0 => accounts[u].rewardTokens[t] > 0

(* Deposits stay in the contract: totalAssets is the sum of the balances,  *)
(* and no withdrawal, claim or recovery eats into it.  The comment on      *)
(* changeRecoverWhitelist (LockRewards.sol:472-476) says that the owner    *)
(* can whitelist the lock token and take the deposits; the code (480)      *)
(* refuses that token, and this states what the code does.  It is for      *)
(* contracts whose lock token is not also a reward token: the constructor  *)
(* accepts it as one, and _setEpoch (562-564) then counts deposits as      *)
(* funding of an epoch.                                                    *)
DepositsInCustody ==
  /\ totalAssets = SumOver([u \in Users |-> accounts[u].balance])
  /\ totalAssets <= held[LockToken]

(* What setNextEpoch announced of a token is what the epochs still hold,   *)
(* whatever happens to the list of reward tokens in between: a token that  *)
(* is removed, moved or added again keeps its accounts.                    *)
AnnouncedTotals ==
  \A t \in Tokens : rewards[t] = SumOver([e \in EpochId |-> epochs[e].rewards[t]])

(* The tokens of t the contract holds beyond what it owes: deposits,       *)
(* rewards of set epochs not granted yet, and granted rewards not claimed. *)
Surplus(t) ==
  held[t] - (IF t = LockToken THEN totalAssets ELSE 0)
          - Unclaimed(t)
          - SumOver([u \in Users |-> accounts[u].rewards[t]])

(* User calls move claims, they never create them: whatever users deposit, *)
(* withdraw, get granted and claim, in whatever order, the surplus of a    *)
(* token falls only when a new epoch is set or the owner recovers it.      *)
ClaimsConserved ==
  [][\A t \in Tokens :
       nextUnsetEpoch' = nextUnsetEpoch /\ ~whitelistRecoverERC20[t]
         => Surplus(t)' >= Surplus(t)]_vars

(* Nobody earns on funds that left: a stake in an epoch not yet over is at *)
(* most the balance still deposited, and the account stays locked as long  *)
(* as it has such a stake, emergency exits included.  This is for runs     *)
(* in which enforceTime stays on, and epochs are no longer than the delay  *)
(* of emergencyExit (with longer ones EmergencyRemovesAll fails).          *)
StakesBacked ==
  \A u \in Users :
    LET ahead == {e \in EpochId :
          SyncedEpoch <= e /\ epochs[e].balanceLocked[u] > 0}
    IN  /\ \A e \in ahead : epochs[e].balanceLocked[u] <= accounts[u].balance
        /\ Cardinality(ahead) <= UpdatedAccount(u).lockEpochs

(* The contract could not pay user u all that leaving would have to pay.   *)
Short(u) ==
  LET a == UpdatedAccount(u)
  IN  \E t \in Tokens : held[t] < Withdrawal(a.balance)[t] + Claimed(a)[t]

(* A deposit is not locked in for good by an epoch setter who stops        *)
(* setting epochs, nor by an owner who changes enforceTime or moves the    *)
(* lock duration up and down: a user who keeps trying the emergency exit   *)
(* (LockRewards.sol:297-298) leaves with the whole balance, unless the     *)
(* contract stays paused or short of reward tokens this user may claim.    *)
(* It assumes that there is a longest duration the owner ever sets, the    *)
(* maximum of LockDurations, and a clock that goes that far.  The code has *)
(* no such limit: setLockDuration takes any number (335-341), and the      *)
(* check at 667 applies it to deposits made before, so an owner who keeps  *)
(* raising it keeps the emergency exit shut.                               *)
EveryoneCanLeave ==
  \A u \in Users :
    <>[]~paused /\ <>[]~Short(u) => []<>(accounts[u].balance = 0)

(* The contract's calendar is the abstract one: no handler moves an epoch, *)
(* skips one or sets one but as EpochSchedule allows.                      *)
Schedule == INSTANCE EpochSchedule WITH
  Lengths <- {days * Day : days \in Durations},
  start <- [e \in EpochId |-> epochs[e].start],
  finish <- [e \in EpochId |-> epochs[e].finish],
  isSet <- [e \in EpochId |-> epochs[e].isSet]

ScheduleRefined == Schedule!Spec
=============================================================================
