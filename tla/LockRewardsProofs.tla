-------------------------- MODULE LockRewardsProofs --------------------------
(***************************************************************************)
(* Type correctness of LockRewards and its refinement of the epoch         *)
(* calendar, for all constants.                                            *)
(*                                                                         *)
(* The two need each other: the contract's SyncedEpoch exists because the  *)
(* calendar's invariant holds of the contract's epochs, and a step is a    *)
(* step of the calendar because SyncedEpoch is the calendar's.  So the     *)
(* inductive invariant is TypeOK with the calendar's invariant, which is   *)
(* taken over from EpochScheduleProofs.                                    *)
(***************************************************************************)
EXTENDS LockRewards, NumberTheorems, SequenceTheorems

Calendar == INSTANCE EpochScheduleProofs WITH
  Lengths <- {days * Day : days \in Durations},
  start <- [e \in EpochId |-> epochs[e].start],
  finish <- [e \in EpochId |-> epochs[e].finish],
  isSet <- [e \in EpochId |-> epochs[e].isSet]

IInv == TypeOK /\ Calendar!Inv

-----------------------------------------------------------------------------
(* Arithmetic of shares: products and quotients of naturals.               *)
LEMMA ProductNat == \A a, b \in Nat : a * b \in Nat
OBVIOUS

LEMMA QuotientNat == \A a \in Nat, b \in Nat \ {0} : a \div b \in Nat
OBVIOUS

(* A loop from first over n values runs n times.                           *)
LEMMA WindowSize ==
  ASSUME NEW first \in Nat, NEW n \in Nat
  PROVE  /\ IsFiniteSet(first .. first + n - 1)
         /\ Cardinality(first .. first + n - 1) = n
<1> DEFINE last == first + n - 1
<1>1. last \in Int
  OBVIOUS
<1>2. IsFiniteSet(first .. last) /\
      Cardinality(first .. last) = IF first > last THEN 0 ELSE last - first + 1
  <2> HIDE DEF last
  <2> QED BY <1>1, FS_Interval
<1> QED BY <1>2

(* The constants fit the calendar's.                                       *)
LEMMA CalendarAssumption == Calendar!ScheduleAssumption
<1>1. \A days \in Durations : days * Day \in Nat
  BY LockRewardsAssumption, ProductNat
<1> QED BY <1>1, LockRewardsAssumption DEF Calendar!ScheduleAssumption

(* The contract and the calendar stop at the same epoch.                   *)
LEMMA SyncedEpochStops ==
  ASSUME IInv
  PROVE  /\ SyncedEpoch \in EpochId
         /\ SyncedEpoch = Calendar!SyncedEpoch
<1> DEFINE Stops(e) == /\ e >= currentEpoch
                       /\ ~Elapsed(e)
                       /\ \A k \in currentEpoch .. e - 1 : Elapsed(k)
           s == Calendar!SyncedEpoch
<1>1. /\ EpochId = Calendar!EpochId /\ EpochId \subseteq Int
      /\ currentEpoch \in EpochId
      /\ \A e \in EpochId : currentEpoch .. e - 1 \subseteq EpochId
  BY LockRewardsAssumption DEF EpochId, Calendar!EpochId, IInv, TypeOK
<1>2. /\ s \in EpochId /\ s >= currentEpoch
      /\ ~Calendar!Elapsed(s)
      /\ \A k \in currentEpoch .. s - 1 : Calendar!Elapsed(k)
  BY <1>1, CalendarAssumption, Calendar!SyncedEpochStops DEF IInv, Calendar!Inv
<1>3. \A e \in EpochId : Calendar!Elapsed(e) <=> Elapsed(e)
  BY DEF Calendar!Elapsed, Elapsed
<1> HIDE DEF s
<1>4. Stops(s)
  BY <1>1, <1>2, <1>3
<1>5. SyncedEpoch \in EpochId /\ Stops(SyncedEpoch)
  BY <1>2, <1>4 DEF SyncedEpoch
<1>6. \A e \in EpochId : Stops(e) => ~(e < s) /\ ~(s < e)
  BY <1>1, <1>2, <1>4
<1> QED BY <1>1, <1>2, <1>5, <1>6 DEF s

-----------------------------------------------------------------------------
(* What each handler does to the calendar.                                 *)

EpochDatesSame ==
  \A e \in EpochId : /\ epochs'[e].start = epochs[e].start
                     /\ epochs'[e].finish = epochs[e].finish
                     /\ epochs'[e].isSet = epochs[e].isSet

(* A stake is changed and its total with it; the dates are not.            *)
LEMMA RestakedEpoch ==
  ASSUME NEW ep \in Epoch, NEW u \in Users, NEW newBalance \in Nat
  PROVE  LET new == Restaked(ep, u, newBalance)
             total == ep.totalLocked + (newBalance - ep.balanceLocked[u])
         IN  /\ new.start = ep.start /\ new.finish = ep.finish
             /\ new.isSet = ep.isSet
             /\ new.totalLocked = total
             /\ new.balanceLocked = [ep.balanceLocked EXCEPT ![u] = newBalance]
             /\ total \in Nat => new \in Epoch
BY DEF Restaked, Epoch

(* User calls only synchronize the calendar.                               *)
LEMMA UserCalendar ==
  ASSUME TypeOK, NEW u \in Users, UserNext(u)
  PROVE  /\ EpochDatesSame
         /\ UNCHANGED <<now, nextUnsetEpoch>>
         /\ currentEpoch' = SyncedEpoch
<1>1. UpdateEpochAndReward(u)
  BY DEF UserNext, UpdateAccount, Deposit, Redeposit, DepositFor, Withdraw,
         ClaimRewards, ClaimReward, Exit, EmergencyExit
<1>2. \/ UNCHANGED epochs
      \/ \E amount, lock \in Nat : DepositFor(u, amount, lock)
      \/ EmergencyExit(u)
  BY LockRewardsAssumption DEF UserNext, UpdateAccount, Deposit, Redeposit,
         Withdraw, ClaimRewards, ClaimReward, Exit, TypeOK
<1>3. ASSUME UNCHANGED epochs PROVE EpochDatesSame
  BY <1>3 DEF EpochDatesSame
<1>4. ASSUME NEW amount \in Nat, NEW lock \in Nat, DepositFor(u, amount, lock)
      PROVE  EpochDatesSame
  <2>1. PICK relocked, newBalance : epochs' = [e \in EpochId |->
           IF e \in relocked THEN Restaked(epochs[e], u, newBalance)
           ELSE epochs[e]]
    BY <1>4 DEF DepositFor
  <2> QED BY <2>1 DEF Restaked, TypeOK, Epoch, EpochDatesSame
<1>5. ASSUME EmergencyExit(u) PROVE EpochDatesSame
  <2>1. PICK unlocked : epochs' = [e \in EpochId |->
           IF e \in unlocked THEN Restaked(epochs[e], u, 0) ELSE epochs[e]]
    BY <1>5, Zenon DEF EmergencyExit
  <2> QED BY <2>1 DEF Restaked, TypeOK, Epoch, EpochDatesSame
<1> QED BY <1>1, <1>2, <1>3, <1>4, <1>5 DEF UpdateEpochAndReward

(* A new epoch is the one the calendar would set.                          *)
LEMMA SetNextEpochCalendar ==
  ASSUME IInv, NEW values, NEW days \in Nat, NEW delay,
         SetNextEpoch(values, days, delay)
  PROVE  Calendar!SetEpoch(delay, days * Day)
<1> DEFINE cur  == SyncedEpoch
           next == nextUnsetEpoch
           from == StartOf(cur, now + delay)
<1>1. /\ cur = Calendar!SyncedEpoch /\ cur \in EpochId
      /\ EpochId = Calendar!EpochId /\ EpochId = 1 .. MaxEpoch + 1
      /\ next \in EpochId /\ MaxEpoch \in Nat
  BY SyncedEpochStops, LockRewardsAssumption
     DEF EpochId, Calendar!EpochId, IInv, TypeOK
<1>2. /\ currentEpoch' = cur /\ next - cur <= 1 /\ next <= MaxEpoch
      /\ from + days * Day <= MaxTime
      /\ nextUnsetEpoch' = next + 1 /\ now' = now
  BY DEF SetNextEpoch, UpdateEpoch
<1>3. cur = next \/ next - 1 \in EpochId
  <2>1. cur <= next
    BY <1>1, CalendarAssumption, Calendar!SyncedEpochStops DEF IInv, Calendar!Inv
  <2> HIDE DEF cur, next
  <2> QED BY <1>1, <2>1
<1>4. from = Calendar!StartOf(cur, now + delay)
  BY <1>3 DEF StartOf, Calendar!StartOf
<1>5. PICK tokens, funding :
        epochs' = [epochs EXCEPT ![next] =
          [@ EXCEPT !.start = from, !.finish = from + days * Day,
                    !.tokens = tokens, !.rewards = funding, !.isSet = TRUE]]
  BY DEF SetNextEpoch
<1> HIDE DEF from, cur
<1>6. ASSUME NEW e \in EpochId
      PROVE  /\ epochs'[e].start = IF e = next THEN from ELSE epochs[e].start
             /\ epochs'[e].finish =
                  IF e = next THEN from + days * Day ELSE epochs[e].finish
             /\ epochs'[e].isSet = IF e = next THEN TRUE ELSE epochs[e].isSet
  <2>1. epochs[e] \in Epoch /\ epochs \in [EpochId -> Epoch]
    BY DEF IInv, TypeOK
  <2>2. CASE e = next
    BY <1>1, <1>5, <2>1, <2>2 DEF Epoch
  <2>3. CASE e # next
    BY <1>1, <1>5, <2>1, <2>3
  <2> QED BY <2>2, <2>3
<1>7. /\ [e \in EpochId |-> epochs'[e].start] =
           [[e \in EpochId |-> epochs[e].start] EXCEPT ![next] = from]
      /\ [e \in EpochId |-> epochs'[e].finish] =
           [[e \in EpochId |-> epochs[e].finish] EXCEPT ![next] = from + days * Day]
      /\ [e \in EpochId |-> epochs'[e].isSet] =
           [[e \in EpochId |-> epochs[e].isSet] EXCEPT ![next] = TRUE]
  BY <1>1, <1>6
<1> QED BY <1>1, <1>2, <1>4, <1>7 DEF Calendar!SetEpoch, EpochId

(* Unchanged dates are an unchanged calendar.                              *)
LEMMA SameDates ==
  ASSUME EpochDatesSame
  PROVE  /\ [e \in EpochId |-> epochs'[e].start] = [e \in EpochId |-> epochs[e].start]
         /\ [e \in EpochId |-> epochs'[e].finish] = [e \in EpochId |-> epochs[e].finish]
         /\ [e \in EpochId |-> epochs'[e].isSet] = [e \in EpochId |-> epochs[e].isSet]
BY DEF EpochDatesSame

(* Every transaction is a step of the calendar or leaves it alone.         *)
LEMMA StepCalendar ==
  ASSUME IInv, [Next]_vars
  PROVE  [Calendar!Next]_Calendar!vars
<1> DEFINE Sync == /\ EpochDatesSame
                   /\ UNCHANGED <<now, nextUnsetEpoch>>
                   /\ currentEpoch' = SyncedEpoch
           Still == /\ EpochDatesSame
                    /\ UNCHANGED <<now, nextUnsetEpoch, currentEpoch>>
<1>1. ASSUME Sync PROVE Calendar!UpdateEpoch
  <2>1. SyncedEpoch = Calendar!SyncedEpoch
    BY SyncedEpochStops
  <2> QED BY <1>1, <2>1, SameDates DEF Calendar!UpdateEpoch, EpochId
<1>2. ASSUME Still PROVE UNCHANGED Calendar!vars
  BY <1>2, SameDates DEF Calendar!vars, EpochId
<1>3. ASSUME UNCHANGED epochs PROVE EpochDatesSame
  BY <1>3 DEF EpochDatesSame
<1>4. CASE WorldNext
  <2>1. CASE Tick
    BY <1>3, <2>1, SameDates DEF Tick, calendarVars, Calendar!Next, Calendar!Tick
  <2>2. CASE \E amounts \in [Tokens -> FundAmounts \cup {0}] : Fund(amounts)
    BY <1>2, <1>3, <2>2 DEF Fund, calendarVars
  <2> QED BY <1>4, <2>1, <2>2 DEF WorldNext
<1>5. ASSUME NEW u \in Users, UserNext(u) PROVE Calendar!Next
  BY <1>1, <1>5, UserCalendar DEF IInv, Calendar!Next
<1>6. CASE EpochSetterNext
  <2>1. PICK values \in [DOMAIN rewardTokens -> RewardValues],
             days \in Durations, delay \in StartDelays :
               SetNextEpoch(values, days, delay)
    BY <1>6 DEF EpochSetterNext
  <2>2. Calendar!SetEpoch(delay, days * Day)
    BY <2>1, SetNextEpochCalendar, LockRewardsAssumption
  <2> QED BY <2>2 DEF Calendar!Next
<1>7. CASE PauseSetterNext
  BY <1>2, <1>3, <1>7 DEF PauseSetterNext, Pause, Unpause, calendarVars
<1>8. CASE OwnerNext
  <2>1. CASE \E duration \in LockDurations : SetLockDuration(duration)
    BY <1>1, <1>3, <2>1 DEF SetLockDuration, UpdateEpoch, Calendar!Next
  <2>2. CASE \E t \in Tokens : SetReward(t) \/ RemoveReward(t)
    BY <1>1, <1>3, <2>2 DEF SetReward, RemoveReward, UpdateEpoch, Calendar!Next
  <2>3. CASE \/ \E t \in Tokens, amount \in FundAmounts : RecoverERC20(t, amount)
             \/ \E t \in Tokens, flag \in BOOLEAN : ChangeRecoverWhitelist(t, flag)
             \/ \E flag \in BOOLEAN : ChangeEnforceTime(flag)
    BY <1>2, <1>3, <2>3
       DEF RecoverERC20, ChangeRecoverWhitelist, ChangeEnforceTime, calendarVars
  <2> QED BY <1>8, <2>1, <2>2, <2>3 DEF OwnerNext
<1>9. CASE UNCHANGED vars
  BY <1>2, <1>3, <1>9 DEF vars, calendarVars
<1> QED BY <1>4, <1>5, <1>6, <1>7, <1>8, <1>9 DEF Next

-----------------------------------------------------------------------------
(* What the modifiers leave of an account is an account: at most           *)
(* lockEpochs epochs are paid, so lockEpochs does not wrap, and every      *)
(* share is a natural number.                                              *)
LEMMA UpdatedAccountType ==
  ASSUME IInv, NEW u \in Users,
         \A e \in Payable(u, SyncedEpoch) : epochs[e].totalLocked > 0
  PROVE  /\ UpdatedAccount(u) \in Account
         /\ \A t \in Tokens : Granted(u, SyncedEpoch, t) \in Nat
<1> DEFINE cur == SyncedEpoch
           paid == Payable(u, cur)
           a == accounts[u]
<1>1. /\ a \in Account /\ PaidFrom(u) \in Nat /\ cur \in Nat
      /\ EpochId \subseteq Nat /\ Scale \in Nat \ {0}
      /\ \A e \in EpochId : epochs[e] \in Epoch
  <2>1. a \in Account /\ \A e \in EpochId : epochs[e] \in Epoch
    BY DEF IInv, TypeOK
  <2>2. EpochId \subseteq Nat /\ Scale \in Nat \ {0}
    BY LockRewardsAssumption DEF EpochId
  <2>3. cur \in Nat
    BY <2>2, SyncedEpochStops
  <2>4. PaidFrom(u) \in Nat
    BY <2>1 DEF PaidFrom, Account
  <2> QED BY <2>1, <2>2, <2>3, <2>4
<1>2. /\ IsFiniteSet(paid) /\ Cardinality(paid) \in Nat
      /\ Cardinality(paid) <= a.lockEpochs
  <2> DEFINE first == PaidFrom(u)
             n == a.lockEpochs
             window == first .. first + n - 1
  <2>1. n \in Nat /\ first \in Nat
    BY <1>1 DEF Account
  <2>2. \A e \in paid : e \in Nat /\ first <= e /\ e < first + n
    BY <1>1 DEF Payable
  <2> HIDE DEF first, n, paid
  <2>3. paid \in SUBSET window
    BY <2>1, <2>2
  <2>4. IsFiniteSet(window) /\ Cardinality(window) = n
    BY <2>1, WindowSize
  <2> HIDE DEF window
  <2>5. IsFiniteSet(paid) /\ Cardinality(paid) <= Cardinality(window)
    BY <2>3, <2>4, FS_Subset
  <2>6. Cardinality(paid) \in Nat
    BY <2>5, FS_CardinalityType
  <2> QED BY <2>4, <2>5, <2>6 DEF n
<1>3. ASSUME NEW t \in Tokens, NEW e \in paid PROVE ShareValue(u, e, t) \in Nat
  <2> DEFINE stake == epochs[e].balanceLocked[u]
             share == (stake * Scale) \div epochs[e].totalLocked
             reward == epochs[e].rewards[t]
  <2>1. /\ stake \in Nat /\ reward \in Nat
        /\ epochs[e].totalLocked \in Nat \ {0}
    BY <1>1 DEF Payable, Epoch
  <2>2. ShareValue(u, e, t) = IF stake = 0 THEN 0 ELSE (share * reward) \div Scale
    BY DEF ShareValue
  <2>3. share \in Nat
    <3> HIDE DEF stake
    <3> QED BY <1>1, <2>1, ProductNat, QuotientNat
  <2>4. (share * reward) \div Scale \in Nat
    <3> HIDE DEF share, reward
    <3> QED BY <1>1, <2>1, <2>3, ProductNat, QuotientNat
  <2> QED BY <2>2, <2>4
<1>4. ASSUME NEW t \in Tokens PROVE Granted(u, cur, t) \in Nat
  <2> DEFINE f == [e \in paid |-> ShareValue(u, e, t)]
  <2>1. DOMAIN f = paid /\ \A e \in DOMAIN f : f[e] \in Nat
    BY <1>3
  <2>2. SumOver(f) \in Nat
    <3> HIDE DEF f, paid
    <3> QED BY <1>2, <2>1, SumType
  <2> QED BY <2>2 DEF Granted
<1>5. ASSUME NEW t \in Tokens PROVE Pushes(u, cur, t) \in Nat
  <2> DEFINE pushing == {e \in paid :
         /\ t \in epochs[e].tokens
         /\ \A k \in paid : k < e => ShareValue(u, k, t) = 0}
  <2>1. IsFiniteSet(pushing) /\ Cardinality(pushing) \in Nat
    <3>1. pushing \in SUBSET paid
      OBVIOUS
    <3> HIDE DEF pushing, paid
    <3> QED BY <1>2, <3>1, FS_Subset, FS_CardinalityType
  <2> HIDE DEF cur
  <2> QED BY <2>1 DEF Pushes
<1>6. UpdatedAccount(u) \in Account
  <2> DEFINE granted == [t \in Tokens |-> a.rewards[t] + Granted(u, cur, t)]
             pushed == [t \in Tokens |-> a.rewardTokens[t] + Pushes(u, cur, t)]
             epochsLeft == a.lockEpochs - Cardinality(paid)
  <2>1. /\ granted \in [Tokens -> Nat] /\ pushed \in [Tokens -> Nat]
        /\ epochsLeft \in Nat
    <3>1. /\ a.lockEpochs \in Nat
          /\ \A t \in Tokens : a.rewards[t] \in Nat /\ a.rewardTokens[t] \in Nat
      BY <1>1 DEF Account
    <3> HIDE DEF cur, a, paid
    <3> QED BY <1>2, <1>4, <1>5, <3>1
  <2>2. UpdatedAccount(u) =
          [a EXCEPT !.lockEpochs = epochsLeft, !.lastEpochPaid = cur,
                    !.rewards = granted, !.rewardTokens = pushed]
    BY DEF UpdatedAccount
  <2> HIDE DEF a, granted, pushed, epochsLeft, cur
  <2> QED BY <1>1, <2>1, <2>2 DEF Account
<1> QED BY <1>4, <1>6

(* Withdrawals and claims leave accounts accounts, and take natural        *)
(* amounts of each token.                                                  *)
LEMMA AccountOperators ==
  ASSUME NEW a \in Account, NEW amount \in Nat
  PROVE  /\ amount <= a.balance => WithdrawFrom(a, amount) \in Account
         /\ ClaimFrom(a) \in Account
         /\ Claimed(a) \in [Tokens -> Nat]
         /\ Withdrawal(amount) \in [Tokens -> Nat]
         /\ \A t \in Tokens : [a EXCEPT !.rewards[t] = 0] \in Account
<1>1. amount <= a.balance => WithdrawFrom(a, amount) \in Account
  BY DEF WithdrawFrom, Account
<1>2. Claimed(a) \in [Tokens -> Nat]
  BY DEF Claimed, Account
<1>3. ClaimFrom(a) \in Account
  <2> DEFINE left == [t \in Tokens |-> a.rewards[t] - Claimed(a)[t]]
  <2>1. left \in [Tokens -> Nat] /\ NoTokens \in [Tokens -> Nat]
    BY DEF Claimed, NoTokens, Account
  <2>2. ClaimFrom(a) = [a EXCEPT !.rewards = left, !.rewardTokens = NoTokens]
    BY DEF ClaimFrom
  <2> HIDE DEF left
  <2> QED BY <2>1, <2>2 DEF Account
<1>4. Withdrawal(amount) \in [Tokens -> Nat]
  BY DEF Withdrawal, NoTokens
<1>5. \A t \in Tokens : [a EXCEPT !.rewards[t] = 0] \in Account
  BY DEF Account
<1> QED BY <1>1, <1>2, <1>3, <1>4, <1>5

(* A payment cannot overdraw the contract.                                 *)
LEMMA PayType ==
  ASSUME TypeOK, NEW out \in [Tokens -> Nat], Pay(out)
  PROVE  held' \in [Tokens -> Nat]
BY DEF TypeOK, Pay

(* The variables the modifiers write, or leave, for every user call.       *)
UserFrameOK ==
  /\ now' \in Nat /\ currentEpoch' \in EpochId /\ nextUnsetEpoch' \in EpochId
  /\ rewardsPaid' \in [Tokens -> Nat]
  /\ rewardTokens' \in Seq(Tokens) /\ rewards' \in [Tokens -> Nat]
  /\ enforceTime' \in BOOLEAN /\ lockDuration' \in Nat /\ paused' \in BOOLEAN
  /\ whitelistRecoverERC20' \in [Tokens -> BOOLEAN]

(* They keep their types, and the account handed to the body has its own.  *)
LEMMA UserFrame ==
  ASSUME IInv, NEW u \in Users, UpdateEpochAndReward(u)
  PROVE  UserFrameOK /\ UpdatedAccount(u) \in Account
<1>1. /\ UpdatedAccount(u) \in Account
      /\ \A t \in Tokens : Granted(u, SyncedEpoch, t) \in Nat
  BY UpdatedAccountType DEF UpdateEpochAndReward
<1>2. rewardsPaid' = [t \in Tokens |-> rewardsPaid[t] + Granted(u, SyncedEpoch, t)]
  BY DEF UpdateEpochAndReward
<1>3. rewardsPaid' \in [Tokens -> Nat]
  BY <1>1, <1>2 DEF IInv, TypeOK
<1>4. currentEpoch' \in EpochId
  BY SyncedEpochStops DEF UpdateEpochAndReward
<1>5. UserFrameOK
  BY <1>3, <1>4 DEF UserFrameOK, UpdateEpochAndReward, IInv, TypeOK, settingVars
<1> QED BY <1>1, <1>5

(* What is left for each body to show.                                     *)
LEMMA UserTypeOK ==
  ASSUME UserFrameOK,
         accounts' \in [Users -> Account], totalAssets' \in Nat,
         epochs' \in [EpochId -> Epoch], held' \in [Tokens -> Nat]
  PROVE  TypeOK'
BY DEF UserFrameOK, TypeOK, EpochId, Account, Epoch

(* Deposits, relocks and redeposits keep the types.                        *)
LEMMA DepositType ==
  ASSUME IInv, NEW u \in Users, NEW amount \in Nat, NEW lock \in Nat,
         DepositFor(u, amount, lock)
  PROVE  TypeOK'
<1> DEFINE a == UpdatedAccount(u)
           newBalance == a.balance + amount
           relocked == RelockedEpochs(SyncedEpoch, a.lockEpochs, a.lockEpochs + lock)
<1>1. a \in Account /\ UserFrameOK
  BY UserFrame DEF DepositFor
<1>2. /\ \A e \in relocked : epochs[e].balanceLocked[u] <= newBalance
      /\ accounts' = [accounts EXCEPT ![u] =
           [a EXCEPT !.balance = newBalance, !.lockEpochs = @ + lock,
                     !.lockStart = now]]
      /\ totalAssets' = totalAssets + amount
      /\ epochs' = [e \in EpochId |->
           IF e \in relocked THEN Restaked(epochs[e], u, newBalance)
           ELSE epochs[e]]
      /\ held' = [held EXCEPT ![LockToken] = @ + amount]
  BY DEF DepositFor
<1> HIDE DEF a, relocked
<1>3. newBalance \in Nat /\ now \in Nat
  BY <1>1 DEF Account, IInv, TypeOK
<1>4. accounts' \in [Users -> Account]
  <2>1. [a EXCEPT !.balance = newBalance, !.lockEpochs = @ + lock,
                  !.lockStart = now] \in Account
    <3> DEFINE newLock == a.lockEpochs + lock
    <3>1. newLock \in Nat
      BY <1>1 DEF Account
    <3> HIDE DEF newBalance, newLock
    <3>2. [a EXCEPT !.balance = newBalance, !.lockEpochs = newLock,
                    !.lockStart = now] \in Account
      BY <1>1, <1>3, <3>1 DEF Account
    <3> QED BY <3>2 DEF newLock
  <2> QED BY <1>2, <2>1 DEF IInv, TypeOK
<1> HIDE DEF newBalance
<1>5. epochs' \in [EpochId -> Epoch]
  <2>1. ASSUME NEW e \in relocked, e \in EpochId
        PROVE  Restaked(epochs[e], u, newBalance) \in Epoch
    <3>1. /\ epochs[e] \in Epoch /\ epochs[e].totalLocked \in Nat
          /\ epochs[e].balanceLocked[u] \in Nat
      BY <2>1 DEF IInv, TypeOK, Epoch
    <3>2. epochs[e].totalLocked + (newBalance - epochs[e].balanceLocked[u]) \in Nat
      BY <1>2, <1>3, <3>1
    <3> QED BY <1>3, <3>1, <3>2, RestakedEpoch
  <2> QED BY <1>2, <2>1 DEF IInv, TypeOK
<1>6. totalAssets' \in Nat /\ held' \in [Tokens -> Nat]
  <2>1. totalAssets \in Nat /\ held \in [Tokens -> Nat]
    BY DEF IInv, TypeOK
  <2>2. held[LockToken] + amount \in Nat
    BY <2>1, LockRewardsAssumption
  <2>3. totalAssets' = totalAssets + amount
    BY <1>2
  <2>4. held' = [held EXCEPT ![LockToken] = held[LockToken] + amount]
    BY <1>2
  <2>5. totalAssets' \in Nat
    BY <2>1, <2>3
  <2> QED BY <2>1, <2>2, <2>4, <2>5
<1> QED BY <1>1, <1>4, <1>5, <1>6, UserTypeOK

(* exit and emergencyExit pay out what the account has.                    *)
LEMMA LeaveType ==
  ASSUME IInv, NEW u \in Users, NEW a \in Account, Leave(u, a)
  PROVE  /\ accounts' \in [Users -> Account]
         /\ totalAssets' \in Nat
         /\ held' \in [Tokens -> Nat]
<1> DEFINE out == [t \in Tokens |-> Withdrawal(a.balance)[t] + Claimed(a)[t]]
<1>1. a.balance \in Nat
  BY DEF Account
<1>2. WithdrawFrom(a, a.balance) \in Account
  BY <1>1, AccountOperators
<1>3. ClaimFrom(WithdrawFrom(a, a.balance)) \in Account
  BY <1>1, <1>2, AccountOperators
<1>4. out \in [Tokens -> Nat]
  BY <1>1, AccountOperators
<1>5. held' \in [Tokens -> Nat]
  <2>1. Pay(out)
    BY DEF Leave
  <2> HIDE DEF out
  <2> QED BY <1>4, <2>1, PayType DEF IInv
<1>6. totalAssets' \in Nat
  BY <1>1 DEF Leave, Withdrawable, IInv, TypeOK
<1>7. accounts' \in [Users -> Account]
  BY <1>3 DEF Leave, IInv, TypeOK
<1> QED BY <1>5, <1>6, <1>7

(* Every call of a user keeps the types.                                   *)
LEMMA UserType ==
  ASSUME IInv, NEW u \in Users, UserNext(u)
  PROVE  TypeOK'
<1> DEFINE a == UpdatedAccount(u)
<1>0. /\ totalAssets \in Nat /\ epochs \in [EpochId -> Epoch]
      /\ accounts \in [Users -> Account] /\ held \in [Tokens -> Nat]
      /\ lockDuration \in Nat
  BY DEF IInv, TypeOK
<1>1. CASE UpdateAccount(u)
  <2>1. a \in Account /\ UserFrameOK
    BY <1>1, UserFrame DEF UpdateAccount
  <2> QED BY <1>0, <1>1, <2>1, UserTypeOK DEF UpdateAccount
<1>2. ASSUME NEW amount \in Amounts, Deposit(u, amount) \/ Redeposit(u, amount)
      PROVE  TypeOK'
  <2>1. amount \in Nat /\ 0 \in Nat
    BY LockRewardsAssumption
  <2> QED BY <1>0, <1>2, <2>1, DepositType DEF Deposit, Redeposit
<1>3. ASSUME NEW amount \in Amounts, Withdraw(u, amount) PROVE TypeOK'
  <2>1. a \in Account /\ UserFrameOK /\ amount \in Nat
    BY <1>3, UserFrame, LockRewardsAssumption DEF Withdraw
  <2>2. /\ amount <= a.balance /\ amount <= totalAssets
        /\ accounts' = [accounts EXCEPT ![u] = WithdrawFrom(a, amount)]
        /\ totalAssets' = totalAssets - amount
        /\ Pay(Withdrawal(amount)) /\ UNCHANGED epochs
    BY <1>3 DEF Withdraw, Withdrawable
  <2> HIDE DEF a
  <2>3. /\ WithdrawFrom(a, amount) \in Account
        /\ Withdrawal(amount) \in [Tokens -> Nat]
    BY <2>1, <2>2, AccountOperators
  <2>4. held' \in [Tokens -> Nat]
    BY <2>2, <2>3, PayType DEF IInv
  <2>5. totalAssets' \in Nat /\ accounts' \in [Users -> Account]
    BY <1>0, <2>1, <2>2, <2>3
  <2> QED BY <1>0, <2>1, <2>2, <2>4, <2>5, UserTypeOK
<1>4. CASE ClaimRewards(u)
  <2>1. a \in Account /\ UserFrameOK
    BY <1>4, UserFrame DEF ClaimRewards
  <2>2. /\ accounts' = [accounts EXCEPT ![u] = ClaimFrom(a)]
        /\ Pay(Claimed(a)) /\ UNCHANGED <<totalAssets, epochs>>
    BY <1>4 DEF ClaimRewards
  <2> HIDE DEF a
  <2>3. ClaimFrom(a) \in Account /\ Claimed(a) \in [Tokens -> Nat]
    BY <2>1, AccountOperators
  <2>4. held' \in [Tokens -> Nat]
    BY <2>2, <2>3, PayType DEF IInv
  <2> QED BY <1>0, <2>1, <2>2, <2>3, <2>4, UserTypeOK
<1>5. ASSUME NEW t \in Tokens, ClaimReward(u, t) PROVE TypeOK'
  <2>1. a \in Account /\ UserFrameOK
    BY <1>5, UserFrame DEF ClaimReward
  <2>2. /\ accounts' = [accounts EXCEPT ![u] = [a EXCEPT !.rewards[t] = 0]]
        /\ Pay([NoTokens EXCEPT ![t] = a.rewards[t]])
        /\ UNCHANGED <<totalAssets, epochs>>
    BY <1>5 DEF ClaimReward
  <2> HIDE DEF a
  <2>3. [a EXCEPT !.rewards[t] = 0] \in Account
    BY <2>1, AccountOperators
  <2>4. [NoTokens EXCEPT ![t] = a.rewards[t]] \in [Tokens -> Nat]
    BY <2>1 DEF NoTokens, Account
  <2>5. held' \in [Tokens -> Nat]
    BY <2>2, <2>4, PayType DEF IInv
  <2> QED BY <1>0, <2>1, <2>2, <2>3, <2>5, UserTypeOK
<1>6. CASE Exit(u)
  <2>1. a \in Account /\ UserFrameOK
    BY <1>6, UserFrame DEF Exit
  <2>2. Leave(u, a) /\ UNCHANGED epochs
    BY <1>6 DEF Exit
  <2> QED BY <1>0, <2>1, <2>2, LeaveType, UserTypeOK
<1>7. CASE EmergencyExit(u)
  <2>1. a \in Account /\ UserFrameOK
    BY <1>7, Zenon, UserFrame DEF EmergencyExit
  <2>2. PICK unlocked :
          /\ \A e \in unlocked : epochs[e].balanceLocked[u] <= epochs[e].totalLocked
          /\ epochs' = [e \in EpochId |->
               IF e \in unlocked THEN Restaked(epochs[e], u, 0) ELSE epochs[e]]
    BY <1>7, Zenon DEF EmergencyExit
  <2>3. Leave(u, [a EXCEPT !.lockEpochs = 0])
    BY <1>7, Zenon DEF EmergencyExit
  <2> HIDE DEF a
  <2>4. [a EXCEPT !.lockEpochs = 0] \in Account
    BY <2>1 DEF Account
  <2>5. ASSUME NEW e \in unlocked, e \in EpochId
        PROVE  Restaked(epochs[e], u, 0) \in Epoch
    <3>1. /\ epochs[e] \in Epoch /\ epochs[e].totalLocked \in Nat
          /\ epochs[e].balanceLocked[u] \in Nat
      BY <1>0, <2>5 DEF Epoch
    <3>2. epochs[e].totalLocked + (0 - epochs[e].balanceLocked[u]) \in Nat
      BY <2>2, <3>1
    <3> QED BY <3>1, <3>2, RestakedEpoch
  <2>6. epochs' \in [EpochId -> Epoch]
    BY <1>0, <2>2, <2>5
  <2> QED BY <2>1, <2>3, <2>4, <2>6, LeaveType, UserTypeOK
<1> QED BY <1>1, <1>2, <1>3, <1>4, <1>5, <1>6, <1>7 DEF UserNext

(* A removal leaves a list of tokens.                                      *)
LEMMA RemovedList ==
  ASSUME NEW list \in Seq(Tokens), NEW i \in DOMAIN list
  PROVE  SubSeq([list EXCEPT ![i] = list[Len(list)]], 1, Len(list) - 1)
           \in Seq(Tokens)
<1> DEFINE moved == [list EXCEPT ![i] = list[Len(list)]]
<1>1. i \in 1 .. Len(list) /\ Len(list) \in Nat /\ Len(list) >= 1
  OBVIOUS
<1>2. list[Len(list)] \in Tokens
  BY <1>1
<1>3. moved \in Seq(Tokens) /\ Len(moved) = Len(list)
  BY <1>1, <1>2, ExceptSeq
<1> HIDE DEF moved
<1>4. SubSeq(moved, 1, Len(list) - 1) \in Seq(Tokens)
  BY <1>1, <1>3, SubSeqProperties
<1> QED BY <1>4 DEF moved

(* A new epoch is an epoch: it starts at a natural time and holds a        *)
(* natural reward for every token.                                         *)
LEMMA SetNextEpochType ==
  ASSUME IInv, NEW values \in [DOMAIN rewardTokens -> RewardValues],
         NEW days \in Durations, NEW delay \in StartDelays,
         SetNextEpoch(values, days, delay)
  PROVE  TypeOK'
<1> DEFINE cur  == SyncedEpoch
           next == nextUnsetEpoch
           from == StartOf(cur, now + delay)
           finish == from + days * Day
           funding == [t \in Tokens |->
             IF t \in RewardTokenSet THEN values[IndexOf(t)] ELSE 0]
<1>1. /\ currentEpoch' = cur /\ next <= MaxEpoch /\ nextUnsetEpoch' = next + 1
      /\ rewards' = [t \in Tokens |-> rewards[t] + funding[t]]
      /\ epochs' = [epochs EXCEPT ![next] =
           [@ EXCEPT !.start = from, !.finish = finish,
                     !.tokens = RewardTokenSet, !.rewards = funding,
                     !.isSet = TRUE]]
      /\ UNCHANGED <<now, accounts, totalAssets, rewardTokens, rewardsPaid,
                     settingVars, held>>
  BY DEF SetNextEpoch, UpdateEpoch
<1>2. /\ now + delay \in Nat /\ days * Day \in Nat
      /\ RewardValues \subseteq Nat /\ MaxEpoch \in Nat
      /\ next \in EpochId /\ EpochId = 1 .. MaxEpoch + 1
      /\ cur \in EpochId /\ epochs \in [EpochId -> Epoch]
      /\ rewardTokens \in Seq(Tokens) /\ rewards \in [Tokens -> Nat]
  BY SyncedEpochStops, ProductNat, LockRewardsAssumption DEF IInv, TypeOK, EpochId
<1>3. cur <= next
  BY CalendarAssumption, SyncedEpochStops, Calendar!SyncedEpochStops
     DEF IInv, Calendar!Inv
<1>4. from \in Nat
  <2>1. cur = next \/ next - 1 \in EpochId
    <3> HIDE DEF cur, next
    <3> QED BY <1>2, <1>3
  <2>2. next - 1 \in EpochId => epochs[next - 1].finish \in Nat
    BY <1>2 DEF Epoch
  <2> QED BY <1>2, <2>1, <2>2 DEF StartOf
<1>5. RewardTokenSet \in SUBSET Tokens
  BY <1>2 DEF RewardTokenSet
<1>6. funding \in [Tokens -> Nat]
  <2>1. ASSUME NEW t \in RewardTokenSet PROVE IndexOf(t) \in DOMAIN rewardTokens
    BY DEF RewardTokenSet, IndexOf
  <2> QED BY <1>2, <2>1
<1> HIDE DEF cur, from, funding
<1>7. finish \in Nat
  BY <1>2, <1>4
<1> HIDE DEF finish
<1>8. epochs' \in [EpochId -> Epoch]
  <2>1. [epochs[next] EXCEPT !.start = from, !.finish = finish,
                     !.tokens = RewardTokenSet, !.rewards = funding,
                     !.isSet = TRUE] \in Epoch
    BY <1>2, <1>4, <1>5, <1>6, <1>7 DEF Epoch
  <2> QED BY <1>1, <1>2, <2>1
<1>9. rewards' \in [Tokens -> Nat]
  BY <1>1, <1>2, <1>6
<1>10. currentEpoch' \in EpochId /\ nextUnsetEpoch' \in EpochId
  BY <1>1, <1>2
<1> QED BY <1>1, <1>8, <1>9, <1>10
        DEF IInv, TypeOK, settingVars, EpochId, Account, Epoch

(* The restricted functions and the outside world keep the types.          *)
LEMMA RestrictedType ==
  ASSUME IInv, WorldNext \/ PauseSetterNext \/ OwnerNext
  PROVE  TypeOK'
<1> USE DEF IInv
<1>1. SyncedEpoch \in EpochId
  BY SyncedEpochStops
<1> USE LockRewardsAssumption
        DEF calendarVars, tokenVars, settingVars, EpochId, Account, Epoch
<1>2. CASE Tick
  <2>1. now' \in Nat
    BY <1>2 DEF Tick, TypeOK
  <2>2. UNCHANGED <<accounts, totalAssets, tokenVars, epochs, calendarVars,
                    settingVars, held>>
    BY <1>2 DEF Tick
  <2> QED BY <2>1, <2>2 DEF TypeOK
<1>3. ASSUME NEW amounts \in [Tokens -> FundAmounts \cup {0}], Fund(amounts)
      PROVE  TypeOK'
  <2>0. FundAmounts \cup {0} \in SUBSET Nat
    BY LockRewardsAssumption
  <2>1. \A t \in Tokens : amounts[t] \in Nat /\ held[t] \in Nat
    <3>1. \A t \in Tokens : amounts[t] \in Nat
      BY <2>0
    <3>2. held \in [Tokens -> Nat]
      BY DEF TypeOK
    <3> QED BY <3>1, <3>2
  <2>2. held' \in [Tokens -> Nat]
    BY <1>3, <2>1 DEF Fund
  <2>3. UNCHANGED <<now, accounts, totalAssets, tokenVars, epochs,
                    calendarVars, settingVars>>
    BY <1>3 DEF Fund
  <2> QED BY <2>2, <2>3 DEF TypeOK
<1>4. CASE PauseSetterNext
  BY <1>4 DEF PauseSetterNext, Pause, Unpause, TypeOK
<1>5. ASSUME NEW duration \in LockDurations, SetLockDuration(duration)
      PROVE  TypeOK'
  BY <1>1, <1>5 DEF SetLockDuration, UpdateEpoch, TypeOK
<1>6. ASSUME NEW t \in Tokens, SetReward(t) PROVE TypeOK'
  <2>1. rewardTokens \in Seq(Tokens)
    BY DEF TypeOK
  <2>2. rewardTokens' \in Seq(Tokens)
    BY <1>6, <2>1 DEF SetReward
  <2>3. currentEpoch' \in EpochId
    BY <1>1, <1>6 DEF SetReward, UpdateEpoch
  <2>4. UNCHANGED <<now, accounts, totalAssets, rewards, rewardsPaid, epochs,
                    nextUnsetEpoch, settingVars, held>>
    BY <1>6 DEF SetReward
  <2> QED BY <2>2, <2>3, <2>4 DEF TypeOK
<1>7. ASSUME NEW t \in Tokens, RemoveReward(t) PROVE TypeOK'
  <2>1. rewardTokens \in Seq(Tokens) /\ IndexOf(t) \in DOMAIN rewardTokens
    BY <1>7 DEF RemoveReward, RewardTokenSet, IndexOf, TypeOK
  <2>2. rewardTokens' \in Seq(Tokens)
    BY <1>7, <2>1, RemovedList DEF RemoveReward
  <2> QED BY <1>1, <1>7, <2>2 DEF RemoveReward, UpdateEpoch, TypeOK
<1>8. ASSUME NEW t \in Tokens, NEW amount \in FundAmounts,
             RecoverERC20(t, amount)
      PROVE  TypeOK'
  <2>1. amount \in Nat /\ held \in [Tokens -> Nat]
    BY DEF TypeOK
  <2>2. held' = [held EXCEPT ![t] = @ - amount] /\ amount <= held[t]
    BY <1>8 DEF RecoverERC20
  <2>3. held' \in [Tokens -> Nat]
    BY <2>1, <2>2
  <2>4. UNCHANGED <<now, accounts, totalAssets, tokenVars, epochs,
                    calendarVars, settingVars>>
    BY <1>8 DEF RecoverERC20
  <2> QED BY <2>3, <2>4 DEF TypeOK
<1>9. ASSUME NEW t \in Tokens, NEW flag \in BOOLEAN,
             ChangeRecoverWhitelist(t, flag)
      PROVE  TypeOK'
  BY <1>9 DEF ChangeRecoverWhitelist, TypeOK
<1>10. ASSUME NEW flag \in BOOLEAN, ChangeEnforceTime(flag) PROVE TypeOK'
  BY <1>10 DEF ChangeEnforceTime, TypeOK
<1> QED BY <1>2, <1>3, <1>4, <1>5, <1>6, <1>7, <1>8, <1>9, <1>10
        DEF WorldNext, OwnerNext

-----------------------------------------------------------------------------
(* The constructor establishes the invariant.                              *)
LEMMA InitIInv == Init => IInv
<1> SUFFICES ASSUME Init PROVE IInv
  OBVIOUS
<1>1. TypeOK
  <2>1. NoTokens \in [Tokens -> Nat]
    BY DEF NoTokens
  <2>2. 1 \in EpochId
    BY LockRewardsAssumption DEF EpochId
  <2>3. [balance |-> 0, lockStart |-> 0, lockEpochs |-> 0, lastEpochPaid |-> 0,
         rewards |-> NoTokens, rewardTokens |-> NoTokens] \in Account
    BY <2>1 DEF Account
  <2>4. [balanceLocked |-> [u \in Users |-> 0], start |-> 0, finish |-> 0,
         totalLocked |-> 0, tokens |-> {}, rewards |-> NoTokens,
         isSet |-> FALSE] \in Epoch
    BY <2>1 DEF Epoch
  <2>5. accounts \in [Users -> Account] /\ epochs \in [EpochId -> Epoch]
    BY <2>3, <2>4 DEF Init
  <2>6. /\ now \in Nat /\ totalAssets \in Nat /\ rewardTokens \in Seq(Tokens)
        /\ rewards \in [Tokens -> Nat] /\ rewardsPaid \in [Tokens -> Nat]
        /\ enforceTime \in BOOLEAN /\ currentEpoch \in EpochId
        /\ nextUnsetEpoch \in EpochId /\ lockDuration \in Nat
        /\ whitelistRecoverERC20 \in [Tokens -> BOOLEAN]
        /\ paused \in BOOLEAN /\ held \in [Tokens -> Nat]
    BY <2>1, <2>2, LockRewardsAssumption DEF Init
  <2> QED BY <2>5, <2>6 DEF TypeOK
<1>2. Calendar!Init
  BY DEF Init, Calendar!Init, EpochId, Calendar!EpochId
<1> QED BY <1>1, <1>2, CalendarAssumption, Calendar!InitInv DEF IInv

(* Every transaction preserves it.                                         *)
LEMMA NextIInv == IInv /\ [Next]_vars => IInv'
<1> SUFFICES ASSUME IInv, [Next]_vars PROVE IInv'
  OBVIOUS
<1>1. Calendar!Inv'
  BY StepCalendar, CalendarAssumption, Calendar!NextInv DEF IInv
<1>2. ASSUME EpochSetterNext PROVE TypeOK'
  <2>1. PICK values \in [DOMAIN rewardTokens -> RewardValues],
             days \in Durations, delay \in StartDelays :
               SetNextEpoch(values, days, delay)
    BY <1>2 DEF EpochSetterNext
  <2> QED BY <2>1, SetNextEpochType
<1>3. ASSUME UNCHANGED vars PROVE TypeOK'
  BY <1>3 DEF IInv, TypeOK, vars, tokenVars, calendarVars, settingVars,
              EpochId, Account, Epoch
<1>4. TypeOK'
  BY <1>2, <1>3, UserType, RestrictedType DEF Next
<1> QED BY <1>1, <1>4 DEF IInv

(* The inductive invariant holds throughout.                               *)
THEOREM Safety == Spec => []IInv
<1>1. Init => IInv
  BY InitIInv
<1>2. IInv /\ [Next]_vars => IInv'
  BY NextIInv
<1> QED BY <1>1, <1>2, PTL DEF Spec

(* The state stays well-formed: no unsigned subtraction in the modifiers,  *)
(* in _deposit, _withdraw, _emergencyUnlock or _claim yields a negative    *)
(* value, and updateEpoch always finds the epoch where it stops.           *)
THEOREM TypeCorrect == Spec => []TypeOK
<1>1. IInv => TypeOK
  BY DEF IInv
<1> QED BY <1>1, Safety, PTL

(* The contract implements the epoch calendar: what EpochScheduleProofs    *)
(* shows of the calendar holds of the contract's.                          *)
THEOREM Refinement == Spec => ScheduleRefined
<1>1. Init => Schedule!Init
  BY DEF Init, Schedule!Init, EpochId, Schedule!EpochId
<1>2. IInv /\ [Next]_vars => [Schedule!Next]_Schedule!vars
  <2> SUFFICES ASSUME IInv, [Next]_vars PROVE [Schedule!Next]_Schedule!vars
    OBVIOUS
  <2>1. [Calendar!Next]_Calendar!vars
    BY StepCalendar
  <2> QED BY <2>1
        DEF Calendar!Next, Calendar!vars, Calendar!Tick, Calendar!UpdateEpoch,
            Calendar!SetEpoch, Calendar!SyncedEpoch, Calendar!StartOf,
            Calendar!Elapsed, Calendar!EpochId,
            Schedule!Next, Schedule!vars, Schedule!Tick, Schedule!UpdateEpoch,
            Schedule!SetEpoch, Schedule!SyncedEpoch, Schedule!StartOf,
            Schedule!Elapsed, Schedule!EpochId
<1> QED BY <1>1, <1>2, Safety, PTL DEF Spec, ScheduleRefined, Schedule!Spec

-----------------------------------------------------------------------------
(* Moving a stake keeps the total of its epoch the sum of the stakes.      *)
LEMMA RestakedSum ==
  ASSUME NEW ep \in Epoch, NEW u \in Users, NEW newBalance \in Nat,
         ep.totalLocked = SumOver(ep.balanceLocked)
  PROVE  Restaked(ep, u, newBalance).totalLocked
           = SumOver(Restaked(ep, u, newBalance).balanceLocked)
<1> DEFINE stakes == ep.balanceLocked
<1>1. /\ stakes \in [Users -> Nat] /\ IsFiniteSet(Users)
      /\ ep.totalLocked \in Nat /\ stakes[u] \in Nat
  BY LockRewardsAssumption DEF Epoch
<1>2. SumOver([stakes EXCEPT ![u] = newBalance]) =
        SumOver(stakes) - stakes[u] + newBalance
  <2> DEFINE new == [stakes EXCEPT ![u] = newBalance]
  <2>1. /\ new \in [Users -> Nat] /\ new[u] = newBalance
        /\ \A v \in Users : v # u => new[v] = stakes[v]
    BY <1>1
  <2>2. SumOver(new) = SumOver(stakes) - stakes[u] + new[u]
    <3> HIDE DEF stakes, new
    <3> QED BY <1>1, <2>1, SumUpdate
  <2> QED BY <2>1, <2>2
<1>3. /\ Restaked(ep, u, newBalance).totalLocked =
           ep.totalLocked + (newBalance - stakes[u])
      /\ Restaked(ep, u, newBalance).balanceLocked =
           [stakes EXCEPT ![u] = newBalance]
  BY RestakedEpoch
<1> QED BY <1>1, <1>2, <1>3

(* A call that restakes some epochs of one user keeps all sums.            *)
LEMMA RestakedSums ==
  ASSUME TypeOK, LockedSums, NEW u \in Users, NEW newBalance \in Nat,
         NEW moved,
         epochs' = [e \in EpochId |->
           IF e \in moved THEN Restaked(epochs[e], u, newBalance) ELSE epochs[e]]
  PROVE  LockedSums'
<1> SUFFICES ASSUME NEW e \in EpochId
             PROVE  epochs'[e].totalLocked = SumOver(epochs'[e].balanceLocked)
  BY DEF LockedSums, EpochId
<1>1. /\ epochs[e] \in Epoch
      /\ epochs[e].totalLocked = SumOver(epochs[e].balanceLocked)
  BY DEF TypeOK, LockedSums
<1>2. epochs'[e] = IF e \in moved THEN Restaked(epochs[e], u, newBalance)
                   ELSE epochs[e]
  OBVIOUS
<1> QED BY <1>1, <1>2, RestakedSum

(* Every transaction keeps all sums: deposits and emergency exits restake, *)
(* a new epoch keeps the stakes it finds, the rest leaves epochs alone.    *)
LEMMA NextLockedSums ==
  ASSUME IInv, LockedSums, [Next]_vars
  PROVE  LockedSums'
<1>1. ASSUME UNCHANGED epochs PROVE LockedSums'
  BY <1>1 DEF LockedSums, EpochId
<1>2. ASSUME NEW u \in Users, NEW amount \in Nat, NEW lock \in Nat,
             DepositFor(u, amount, lock)
      PROVE  LockedSums'
  <2> DEFINE newBalance == UpdatedAccount(u).balance + amount
  <2>1. PICK moved : epochs' = [e \in EpochId |->
           IF e \in moved THEN Restaked(epochs[e], u, newBalance)
           ELSE epochs[e]]
    BY <1>2 DEF DepositFor
  <2>2. UpdatedAccount(u) \in Account
    BY <1>2, UserFrame DEF DepositFor
  <2>3. newBalance \in Nat
    BY <1>2, <2>2 DEF Account
  <2> HIDE DEF newBalance
  <2> QED BY <2>1, <2>3, RestakedSums DEF IInv
<1>3. ASSUME NEW u \in Users, EmergencyExit(u) PROVE LockedSums'
  <2>1. PICK moved : epochs' = [e \in EpochId |->
           IF e \in moved THEN Restaked(epochs[e], u, 0) ELSE epochs[e]]
    BY <1>3, Zenon DEF EmergencyExit
  <2> QED BY <2>1, RestakedSums DEF IInv
<1>4. ASSUME NEW u \in Users, UserNext(u) PROVE LockedSums'
  <2>1. \/ UNCHANGED epochs
        \/ \E amount, lock \in Nat : DepositFor(u, amount, lock)
        \/ EmergencyExit(u)
    BY <1>4, LockRewardsAssumption DEF UserNext, UpdateAccount, Deposit,
       Redeposit, Withdraw, ClaimRewards, ClaimReward, Exit, IInv, TypeOK
  <2> QED BY <1>1, <1>2, <1>3, <2>1
<1>5. ASSUME EpochSetterNext PROVE LockedSums'
  <2>0. PICK values \in [DOMAIN rewardTokens -> RewardValues],
             days \in Durations, delay \in StartDelays :
               SetNextEpoch(values, days, delay)
    BY <1>5 DEF EpochSetterNext
  <2>1. PICK from, finish, tokens, funding :
          epochs' = [epochs EXCEPT ![nextUnsetEpoch] =
            [@ EXCEPT !.start = from, !.finish = finish, !.tokens = tokens,
                      !.rewards = funding, !.isSet = TRUE]]
    BY <2>0 DEF SetNextEpoch
  <2>2. \A e \in EpochId :
          /\ epochs'[e].totalLocked = epochs[e].totalLocked
          /\ epochs'[e].balanceLocked = epochs[e].balanceLocked
    BY <2>1 DEF IInv, TypeOK, Epoch
  <2> QED BY <2>2 DEF LockedSums, EpochId
<1>6. ASSUME WorldNext \/ PauseSetterNext \/ OwnerNext PROVE UNCHANGED epochs
  BY <1>6 DEF WorldNext, Tick, Fund, PauseSetterNext, Pause, Unpause,
     OwnerNext, SetLockDuration, SetReward, RemoveReward, RecoverERC20,
     ChangeRecoverWhitelist, ChangeEnforceTime
<1>7. ASSUME UNCHANGED vars PROVE UNCHANGED epochs
  BY <1>7 DEF vars
<1> QED BY <1>1, <1>4, <1>5, <1>6, <1>7 DEF Next

(* The denominator of every share is the sum of the stakes it divides      *)
(* among, through every deposit, relock and emergency exit.                *)
THEOREM TotalsMatchStakes == Spec => []LockedSums
<1>1. Init => LockedSums
  <2> SUFFICES ASSUME Init, NEW e \in EpochId
               PROVE  epochs[e].totalLocked = SumOver(epochs[e].balanceLocked)
    BY DEF LockedSums
  <2>1. /\ epochs[e].totalLocked = 0
        /\ epochs[e].balanceLocked = [u \in Users |-> 0]
    BY DEF Init
  <2>2. SumOver([u \in Users |-> 0]) = 0
    BY SumZero
  <2> QED BY <2>1, <2>2
<1>2. IInv /\ LockedSums /\ [Next]_vars => LockedSums'
  BY NextLockedSums
<1> QED BY <1>1, <1>2, Safety, PTL DEF Spec
=============================================================================
