----------------------- MODULE LockRewardsLedgerProofs -----------------------
(***************************************************************************)
(* The books of LockRewards, for all constants: what was announced is what *)
(* the epochs hold, a claimable reward is on the list that is paid,        *)
(* deposits are in custody, a stake is settled once its epoch started, and *)
(* every stake to come is backed by a deposit that is still locked.        *)
(* Each is made inductive by what the code keeps silently: epochs that are *)
(* not set hold no rewards, an epoch has rewards of its own tokens only,   *)
(* no reward is ever paid in lockToken, and a lock counts from the current *)
(* epoch or, until that is over, from the next.                            *)
(***************************************************************************)
EXTENDS LockRewardsProofs, LockRewardsClaims

(* What the calendar's invariant says of the contract's epochs.            *)
LEMMA CalendarFacts ==
  ASSUME IInv
  PROVE  /\ SyncedEpoch \in EpochId /\ currentEpoch <= SyncedEpoch
         /\ SyncedEpoch <= nextUnsetEpoch /\ ~Elapsed(SyncedEpoch)
         /\ \A e \in EpochId : epochs[e].isSet <=> e < nextUnsetEpoch
         /\ \A e \in EpochId : epochs[e].isSet => epochs[e].start <= epochs[e].finish
         /\ \A d, e \in EpochId :
              epochs[e].isSet /\ d < e => epochs[d].finish <= epochs[e].start
<1>1. EpochId = Calendar!EpochId
  BY DEF EpochId, Calendar!EpochId
<1>2. /\ SyncedEpoch = Calendar!SyncedEpoch /\ SyncedEpoch \in EpochId
      /\ currentEpoch <= Calendar!SyncedEpoch
      /\ Calendar!SyncedEpoch <= nextUnsetEpoch
      /\ ~Calendar!Elapsed(Calendar!SyncedEpoch)
  BY SyncedEpochStops, CalendarAssumption, Calendar!SyncedEpochStops
     DEF IInv, Calendar!Inv
<1>3. ~Elapsed(SyncedEpoch)
  BY <1>2 DEF Elapsed, Calendar!Elapsed
<1>4. Calendar!WindowOK /\ Calendar!Consecutive
  BY DEF IInv, Calendar!Inv
<1>5. \A e \in EpochId : epochs[e].isSet <=> e < nextUnsetEpoch
  BY <1>1, <1>4, Zenon DEF Calendar!WindowOK
<1>6. \A e \in EpochId : epochs[e].isSet => epochs[e].start <= epochs[e].finish
  BY <1>1, <1>4 DEF Calendar!Consecutive
<1>7. ASSUME NEW d \in EpochId, NEW e \in EpochId, epochs[e].isSet, d < e
      PROVE  epochs[d].finish <= epochs[e].start
  BY <1>1, <1>4, <1>7 DEF Calendar!Consecutive
<1>8. currentEpoch <= SyncedEpoch /\ SyncedEpoch <= nextUnsetEpoch
  BY <1>2
<1> QED BY <1>2, <1>3, <1>5, <1>6, <1>7, <1>8, Zenon

-----------------------------------------------------------------------------
(* Only SetNextEpoch touches the rewards of an epoch.                      *)

EpochRewardsSame ==
  \A e \in EpochId : /\ epochs'[e].rewards = epochs[e].rewards
                     /\ epochs'[e].tokens = epochs[e].tokens
                     /\ epochs'[e].isSet = epochs[e].isSet

(* Restaking changes stakes, never rewards.                                *)
LEMMA RestakingKeepsRewards ==
  ASSUME TypeOK, NEW u \in Users, NEW moved, NEW newBalance,
         epochs' = [e \in EpochId |->
           IF e \in moved THEN Restaked(epochs[e], u, newBalance) ELSE epochs[e]]
  PROVE  EpochRewardsSame
BY DEF Restaked, TypeOK, Epoch, EpochRewardsSame

(* Nor does any user call, or touch the list of reward tokens.             *)
LEMMA UserKeepsRewards ==
  ASSUME TypeOK, NEW u \in Users, UserNext(u)
  PROVE  EpochRewardsSame /\ UNCHANGED <<rewards, rewardTokens>>
<1>1. UpdateEpochAndReward(u)
  BY DEF UserNext, UpdateAccount, Deposit, Redeposit, DepositFor, Withdraw,
         ClaimRewards, ClaimReward, Exit, EmergencyExit
<1>2. \/ UNCHANGED epochs
      \/ \E amount, lock \in Nat : DepositFor(u, amount, lock)
      \/ EmergencyExit(u)
  BY LockRewardsAssumption DEF UserNext, UpdateAccount, Deposit, Redeposit,
         Withdraw, ClaimRewards, ClaimReward, Exit, TypeOK
<1>3. CASE UNCHANGED epochs
  BY <1>1, <1>3 DEF EpochRewardsSame, UpdateEpochAndReward
<1>4. ASSUME NEW amount \in Nat, NEW lock \in Nat, DepositFor(u, amount, lock)
      PROVE  EpochRewardsSame
  <2>1. PICK moved, newBalance : epochs' = [e \in EpochId |->
           IF e \in moved THEN Restaked(epochs[e], u, newBalance)
           ELSE epochs[e]]
    BY <1>4 DEF DepositFor
  <2> QED BY <2>1, RestakingKeepsRewards
<1>5. CASE EmergencyExit(u)
  <2>1. PICK moved : epochs' = [e \in EpochId |->
           IF e \in moved THEN Restaked(epochs[e], u, 0) ELSE epochs[e]]
    BY <1>5, Zenon DEF EmergencyExit
  <2>2. EpochRewardsSame
    BY <2>1, RestakingKeepsRewards
  <2> QED BY <1>1, <2>2 DEF UpdateEpochAndReward
<1> QED BY <1>1, <1>2, <1>3, <1>4, <1>5 DEF UpdateEpochAndReward

(* Nor do the owner and the pause setter.                                  *)
LEMMA RestrictedKeepsRewards ==
  ASSUME WorldNext \/ PauseSetterNext \/ OwnerNext \/ UNCHANGED vars
  PROVE  EpochRewardsSame /\ UNCHANGED <<epochs, rewards>>
<1>1. UNCHANGED <<epochs, rewards>>
  BY DEF WorldNext, Tick, Fund, PauseSetterNext, Pause, Unpause, OwnerNext,
     SetLockDuration, SetReward, RemoveReward, RecoverERC20,
     ChangeRecoverWhitelist, ChangeEnforceTime, vars, tokenVars
<1> QED BY <1>1 DEF EpochRewardsSame

(* What a new epoch is given of each token.                                *)
NewRewards(values) ==
  [t \in Tokens |-> IF t \in RewardTokenSet THEN values[IndexOf(t)] ELSE 0]

(* Setting an epoch announces what it is given and changes no other.       *)
LEMMA NewEpochRewards ==
  ASSUME IInv, NEW values \in [DOMAIN rewardTokens -> RewardValues],
         NEW days \in Durations, NEW delay \in StartDelays,
         SetNextEpoch(values, days, delay)
  PROVE  /\ NewRewards(values) \in [Tokens -> Nat]
         /\ rewards' = [t \in Tokens |-> rewards[t] + NewRewards(values)[t]]
         /\ nextUnsetEpoch \in EpochId /\ ~epochs[nextUnsetEpoch].isSet
         /\ epochs'[nextUnsetEpoch].isSet
         /\ epochs'[nextUnsetEpoch].rewards = NewRewards(values)
         /\ epochs'[nextUnsetEpoch].tokens = RewardTokenSet
         /\ \A e \in EpochId : e # nextUnsetEpoch => epochs'[e] = epochs[e]
         /\ UNCHANGED <<now, accounts, totalAssets, rewardTokens, rewardsPaid,
                        settingVars, held>>
<1>1. /\ rewardTokens \in Seq(Tokens) /\ RewardValues \subseteq Nat
      /\ nextUnsetEpoch \in EpochId /\ epochs \in [EpochId -> Epoch]
      /\ EpochId \subseteq Int
  BY LockRewardsAssumption DEF IInv, TypeOK, EpochId
<1>2. NewRewards(values) \in [Tokens -> Nat]
  <2>1. ASSUME NEW t \in RewardTokenSet PROVE IndexOf(t) \in DOMAIN rewardTokens
    BY DEF RewardTokenSet, IndexOf
  <2> QED BY <1>1, <2>1 DEF NewRewards
<1>3. ~epochs[nextUnsetEpoch].isSet
  BY <1>1, CalendarFacts
<1>4. PICK from, finish :
        epochs' = [epochs EXCEPT ![nextUnsetEpoch] =
          [@ EXCEPT !.start = from, !.finish = finish,
                    !.tokens = RewardTokenSet, !.rewards = NewRewards(values),
                    !.isSet = TRUE]]
  BY DEF SetNextEpoch, NewRewards
<1>5. rewards' = [t \in Tokens |-> rewards[t] + NewRewards(values)[t]]
  BY DEF SetNextEpoch, NewRewards
<1>6. /\ epochs'[nextUnsetEpoch].isSet
      /\ epochs'[nextUnsetEpoch].rewards = NewRewards(values)
      /\ epochs'[nextUnsetEpoch].tokens = RewardTokenSet
  BY <1>1, <1>4 DEF Epoch
<1>7. \A e \in EpochId : e # nextUnsetEpoch => epochs'[e] = epochs[e]
  BY <1>1, <1>4
<1> QED BY <1>1, <1>2, <1>3, <1>5, <1>6, <1>7 DEF SetNextEpoch

-----------------------------------------------------------------------------
(* Epochs that are not set hold no rewards, so the ones a new epoch is     *)
(* given are all that changes in the sum.                                  *)

UnsetEmpty ==
  \A e \in EpochId : ~epochs[e].isSet => \A t \in Tokens : epochs[e].rewards[t] = 0

(* Every step keeps what is announced equal to what the epochs hold.       *)
LEMMA NextAnnounced ==
  ASSUME IInv, UnsetEmpty, AnnouncedTotals, [Next]_vars
  PROVE  UnsetEmpty' /\ AnnouncedTotals'
<1>1. ASSUME EpochRewardsSame, UNCHANGED rewards
      PROVE  UnsetEmpty' /\ AnnouncedTotals'
  <2>1. \A t \in Tokens :
          [e \in EpochId |-> epochs'[e].rewards[t]] =
          [e \in EpochId |-> epochs[e].rewards[t]]
    BY <1>1 DEF EpochRewardsSame
  <2>2. AnnouncedTotals'
    BY <1>1, <2>1 DEF AnnouncedTotals, EpochId
  <2> QED BY <1>1, <2>2 DEF UnsetEmpty, EpochRewardsSame, EpochId
<1>2. CASE EpochSetterNext
  <2>1. PICK values \in [DOMAIN rewardTokens -> RewardValues],
             days \in Durations, delay \in StartDelays :
               SetNextEpoch(values, days, delay)
    BY <1>2 DEF EpochSetterNext
  <2> DEFINE new == NewRewards(values)
             next == nextUnsetEpoch
  <2>2. /\ new \in [Tokens -> Nat] /\ next \in EpochId
        /\ rewards' = [t \in Tokens |-> rewards[t] + new[t]]
        /\ ~epochs[next].isSet /\ epochs'[next].isSet
        /\ epochs'[next].rewards = new
        /\ \A e \in EpochId : e # next => epochs'[e] = epochs[e]
    BY <2>1, NewEpochRewards
  <2> HIDE DEF new, next
  <2>3. UnsetEmpty'
    BY <2>2 DEF UnsetEmpty, EpochId
  <2>4. ASSUME NEW t \in Tokens
        PROVE  rewards'[t] = SumOver([e \in EpochId |-> epochs'[e].rewards[t]])
    <3> DEFINE f == [e \in EpochId |-> epochs[e].rewards[t]]
               g == [e \in EpochId |-> epochs'[e].rewards[t]]
    <3>1. IsFiniteSet(EpochId)
      BY LockRewardsAssumption, FS_Interval DEF EpochId
    <3>2. f \in [EpochId -> Nat]
      BY DEF IInv, TypeOK, Epoch
    <3>3. /\ f[next] = 0 /\ g[next] = new[t] /\ new[t] \in Nat
          /\ \A e \in EpochId : e # next => g[e] = f[e]
      BY <2>2 DEF UnsetEmpty
    <3>4. g \in [EpochId -> Nat]
      BY <3>2, <3>3
    <3>5. rewards[t] = SumOver(f)
      BY DEF AnnouncedTotals
    <3>6. SumOver(f) \in Nat
      <4>1. rewards[t] \in Nat
        BY DEF IInv, TypeOK
      <4> QED BY <3>5, <4>1
    <3> HIDE DEF f, g
    <3>7. SumOver(g) = SumOver(f) - f[next] + g[next]
      BY <2>2, <3>1, <3>2, <3>3, <3>4, SumUpdate
    <3>8. rewards'[t] = rewards[t] + new[t]
      BY <2>2
    <3>9. rewards'[t] = SumOver(g)
      BY <3>3, <3>5, <3>6, <3>7, <3>8
    <3> QED BY <3>9 DEF g
  <2>5. AnnouncedTotals'
    BY <2>4 DEF AnnouncedTotals, EpochId
  <2> QED BY <2>3, <2>5
<1> QED BY <1>1, <1>2, UserKeepsRewards, RestrictedKeepsRewards DEF Next, IInv

(* What setNextEpoch announced of a token is what the epochs hold of it,   *)
(* through every removal, move and re-adding of reward tokens.             *)
THEOREM AnnouncedIsHeld == Spec => []AnnouncedTotals
<1>1. Init => UnsetEmpty /\ AnnouncedTotals
  <2> SUFFICES ASSUME Init PROVE UnsetEmpty /\ AnnouncedTotals
    OBVIOUS
  <2>1. \A e \in EpochId, t \in Tokens : epochs[e].rewards[t] = 0
    BY DEF Init, NoTokens
  <2>2. ASSUME NEW t \in Tokens
        PROVE  SumOver([e \in EpochId |-> epochs[e].rewards[t]]) = 0
    BY <2>1, SumZero
  <2> QED BY <2>1, <2>2 DEF Init, NoTokens, UnsetEmpty, AnnouncedTotals
<1>2. IInv /\ UnsetEmpty /\ AnnouncedTotals /\ [Next]_vars
        => UnsetEmpty' /\ AnnouncedTotals'
  BY NextAnnounced
<1> QED BY <1>1, <1>2, Safety, PTL DEF Spec

-----------------------------------------------------------------------------
(* A claimable reward comes from an epoch that names its token, and the    *)
(* first epoch that grants any of it puts the token on the list.           *)

OwnTokensOnly ==
  \A e \in EpochId, t \in Tokens :
    epochs[e].rewards[t] # 0 => t \in epochs[e].tokens

OnList(a) == \A t \in Tokens : a.rewards[t] > 0 => a.rewardTokens[t] > 0

(* The modifier pays finitely many epochs.                                 *)
LEMMA PaidEpochs ==
  ASSUME NEW u, NEW cur
  PROVE  /\ Payable(u, cur) \subseteq EpochId /\ EpochId \subseteq Nat
         /\ IsFiniteSet(Payable(u, cur))
<1>1. IsFiniteSet(EpochId) /\ EpochId \subseteq Nat
  <2>1. MaxEpoch \in Nat /\ EpochId \subseteq Nat
    BY LockRewardsAssumption DEF EpochId
  <2>2. IsFiniteSet(EpochId)
    BY <2>1, FS_Interval DEF EpochId
  <2> QED BY <2>1, <2>2
<1>2. Payable(u, cur) \in SUBSET EpochId
  BY DEF Payable
<1> QED BY <1>1, <1>2, FS_Subset

(* A share of no rewards is nothing.                                       *)
LEMMA ShareOfNothing ==
  ASSUME TypeOK, NEW u \in Users, NEW e \in EpochId, NEW t \in Tokens,
         epochs[e].totalLocked > 0, epochs[e].rewards[t] = 0
  PROVE  ShareValue(u, e, t) = 0
<1> DEFINE stake == epochs[e].balanceLocked[u]
           total == epochs[e].totalLocked
           share == (stake * Scale) \div total
<1>1. stake \in Nat /\ total \in Nat \ {0} /\ Scale \in Nat \ {0}
  <2>1. epochs[e] \in Epoch
    BY DEF TypeOK
  <2> QED BY <2>1, LockRewardsAssumption DEF Epoch
<1>2. ShareValue(u, e, t) = IF stake = 0 THEN 0 ELSE (share * 0) \div Scale
  BY DEF ShareValue
<1>3. share \in Nat
  <2> HIDE DEF stake, total
  <2> QED BY <1>1, ProductNat, QuotientNat
<1> HIDE DEF stake, share
<1> QED BY <1>1, <1>2, <1>3

(* If the modifier grants some of t to an account that could claim none,   *)
(* it pushes t on the account's list.                                      *)
LEMMA GrantedIsPushed ==
  ASSUME IInv, OwnTokensOnly, NEW u \in Users, NEW t \in Tokens, NEW cur,
         \A e \in Payable(u, cur) : epochs[e].totalLocked > 0,
         accounts[u].rewards[t] = 0, Granted(u, cur, t) # 0
  PROVE  Pushes(u, cur, t) > 0
<1> DEFINE paid == Payable(u, cur)
           granting == {e \in paid : ShareValue(u, e, t) # 0}
           pushing == {e \in paid :
             /\ t \in epochs[e].tokens
             /\ \A k \in paid : k < e => ShareValue(u, k, t) = 0}
<1>1. paid \subseteq EpochId /\ EpochId \subseteq Nat /\ IsFiniteSet(paid)
  BY PaidEpochs
<1>2. granting # {}
  <2> DEFINE f == [e \in paid |-> ShareValue(u, e, t)]
  <2>1. SUFFICES ASSUME \A e \in DOMAIN f : f[e] = 0 PROVE FALSE
    OBVIOUS
  <2>2. SumOver(f) = 0
    <3> HIDE DEF f
    <3> QED BY <2>1, SumZero
  <2> QED BY <2>2 DEF Granted
<1>3. PICK e \in granting : \A k \in granting : ~(k < e)
  <2>1. granting \in SUBSET Nat
    BY <1>1
  <2> HIDE DEF granting
  <2>2. PICK e \in granting : \A k \in granting : e <= k
    BY <1>2, <2>1, LeastNumber
  <2>3. \A k \in granting : ~(k < e)
    BY <2>1, <2>2
  <2> QED BY <2>3
<1>4. epochs[e].rewards[t] # 0
  BY <1>1, <1>3, ShareOfNothing DEF IInv
<1>5. e \in pushing
  BY <1>1, <1>3, <1>4 DEF OwnTokensOnly
<1>6. Cardinality(pushing) \in Nat /\ Cardinality(pushing) # 0
  <2>1. pushing \in SUBSET paid
    OBVIOUS
  <2> HIDE DEF pushing, paid
  <2> QED BY <1>1, <1>5, <2>1, FS_Subset, FS_CardinalityType, FS_EmptySet
<1> QED BY <1>6 DEF Pushes

(* The modifier leaves an account complete.                                *)
LEMMA UpdatedOnList ==
  ASSUME IInv, OwnTokensOnly, ClaimListComplete, NEW u \in Users,
         UpdateEpochAndReward(u)
  PROVE  OnList(UpdatedAccount(u)) /\ UpdatedAccount(u) \in Account
<1> DEFINE a == UpdatedAccount(u)
           old == accounts[u]
           cur == SyncedEpoch
<1>1. a \in Account /\ old \in Account
  BY UserFrame DEF IInv, TypeOK
<1>2. ASSUME NEW t \in Tokens, a.rewards[t] > 0 PROVE a.rewardTokens[t] > 0
  <2>1. /\ a.rewards[t] = old.rewards[t] + Granted(u, cur, t)
        /\ a.rewardTokens[t] = old.rewardTokens[t] + Pushes(u, cur, t)
    BY <1>1 DEF UpdatedAccount, Account
  <2>2. /\ old.rewards[t] \in Nat /\ old.rewardTokens[t] \in Nat
        /\ a.rewardTokens[t] \in Nat
    BY <1>1 DEF Account
  <2>3. \A e \in Payable(u, cur) : epochs[e].totalLocked > 0
    BY DEF UpdateEpochAndReward
  <2>4. Granted(u, cur, t) \in Nat
    BY <2>3, UpdatedAccountType
  <2>5. CASE old.rewards[t] > 0
    <3>1. Pushes(u, cur, t) = 0
      BY <2>5 DEF Pushes
    <3>2. old.rewardTokens[t] > 0
      BY <2>5 DEF ClaimListComplete
    <3> HIDE DEF a, old, cur
    <3> QED BY <2>1, <2>2, <3>1, <3>2
  <2>6. CASE old.rewards[t] = 0
    <3>1. Granted(u, cur, t) # 0
      <4> HIDE DEF a, old, cur
      <4> QED BY <1>2, <2>1, <2>4, <2>6
    <3>2. Pushes(u, cur, t) > 0
      BY <2>3, <2>6, <3>1, GrantedIsPushed
    <3>3. Pushes(u, cur, t) \in Int
      <4>1. IsFiniteSet(Payable(u, cur))
        BY PaidEpochs
      <4> DEFINE pushing == {e \in Payable(u, cur) :
             /\ t \in epochs[e].tokens
             /\ \A k \in Payable(u, cur) : k < e => ShareValue(u, k, t) = 0}
      <4>2. pushing \in SUBSET Payable(u, cur)
        OBVIOUS
      <4>3. Cardinality(pushing) \in Nat
        <5> HIDE DEF pushing
        <5> QED BY <4>1, <4>2, FS_Subset, FS_CardinalityType
      <4> QED BY <4>3 DEF Pushes
    <3> HIDE DEF a, old, cur
    <3> QED BY <2>1, <2>2, <3>2, <3>3
  <2> QED BY <2>2, <2>5, <2>6
<1> QED BY <1>1, <1>2 DEF OnList

(* A claim of the whole list leaves nothing claimable behind.              *)
LEMMA ClaimedOnList ==
  ASSUME NEW a \in Account, OnList(a)
  PROVE  OnList(ClaimFrom(a)) /\ \A t \in Tokens : ClaimFrom(a).rewards[t] = 0
<1>1. ASSUME NEW t \in Tokens PROVE ClaimFrom(a).rewards[t] = 0
  <2>1. ClaimFrom(a).rewards[t] = a.rewards[t] - Claimed(a)[t]
    BY DEF ClaimFrom, Account
  <2>2. a.rewards[t] \in Nat /\ a.rewardTokens[t] \in Nat
    BY DEF Account
  <2>3. Claimed(a)[t] = a.rewards[t]
    BY <2>2 DEF Claimed, OnList
  <2> QED BY <2>1, <2>2, <2>3
<1> QED BY <1>1 DEF OnList

(* Every user call stores a complete account.                              *)
LEMMA UserOnList ==
  ASSUME IInv, OwnTokensOnly, ClaimListComplete, NEW u \in Users, UserNext(u)
  PROVE  \E b : accounts' = [accounts EXCEPT ![u] = b] /\ OnList(b)
<1> DEFINE a == UpdatedAccount(u)
<1>1. UpdateEpochAndReward(u)
  BY DEF UserNext, UpdateAccount, Deposit, Redeposit, DepositFor, Withdraw,
         ClaimRewards, ClaimReward, Exit, EmergencyExit
<1>2. OnList(a) /\ a \in Account
  BY <1>1, UpdatedOnList
<1>3. CASE UpdateAccount(u)
  BY <1>2, <1>3 DEF UpdateAccount
<1>4. ASSUME NEW amount \in Nat, NEW lock \in Nat, DepositFor(u, amount, lock)
      PROVE  \E b : accounts' = [accounts EXCEPT ![u] = b] /\ OnList(b)
  <2> DEFINE b == [a EXCEPT !.balance = a.balance + amount, !.lockEpochs = @ + lock,
                            !.lockStart = now]
  <2>1. accounts' = [accounts EXCEPT ![u] = b]
    BY <1>4 DEF DepositFor
  <2>2. b.rewards = a.rewards /\ b.rewardTokens = a.rewardTokens
    <3> HIDE DEF a
    <3> QED BY <1>2 DEF Account
  <2>3. OnList(b)
    BY <1>2, <2>2 DEF OnList
  <2> QED BY <2>1, <2>3
<1>5. ASSUME NEW amount \in Amounts, Withdraw(u, amount)
      PROVE  \E b : accounts' = [accounts EXCEPT ![u] = b] /\ OnList(b)
  <2>1. accounts' = [accounts EXCEPT ![u] = WithdrawFrom(a, amount)]
    BY <1>5 DEF Withdraw
  <2> HIDE DEF a
  <2>2. OnList(WithdrawFrom(a, amount))
    BY <1>2 DEF OnList, WithdrawFrom, Account
  <2> QED BY <2>1, <2>2
<1>6. CASE ClaimRewards(u)
  BY <1>2, <1>6, ClaimedOnList DEF ClaimRewards
<1>7. ASSUME NEW t \in Tokens, ClaimReward(u, t)
      PROVE  \E b : accounts' = [accounts EXCEPT ![u] = b] /\ OnList(b)
  <2>1. accounts' = [accounts EXCEPT ![u] = [a EXCEPT !.rewards[t] = 0]]
    BY <1>7 DEF ClaimReward
  <2> HIDE DEF a
  <2>2. OnList([a EXCEPT !.rewards[t] = 0])
    BY <1>2 DEF OnList, Account
  <2> QED BY <2>1, <2>2
<1>8. ASSUME NEW b \in Account, OnList(b), Leave(u, b)
      PROVE  \E c : accounts' = [accounts EXCEPT ![u] = c] /\ OnList(c)
  <2>1. /\ accounts' = [accounts EXCEPT ![u] = ClaimFrom(WithdrawFrom(b, b.balance))]
        /\ b.balance \in Nat
    BY <1>8 DEF Leave, Account
  <2>2. WithdrawFrom(b, b.balance) \in Account
    BY <2>1, AccountOperators
  <2>3. OnList(WithdrawFrom(b, b.balance))
    BY <1>8 DEF OnList, WithdrawFrom, Account
  <2> QED BY <2>1, <2>2, <2>3, ClaimedOnList
<1>9. CASE Exit(u)
  BY <1>2, <1>8, <1>9 DEF Exit
<1>10. CASE EmergencyExit(u)
  <2>1. Leave(u, [a EXCEPT !.lockEpochs = 0])
    BY <1>10, Zenon DEF EmergencyExit
  <2> HIDE DEF a
  <2>2. [a EXCEPT !.lockEpochs = 0] \in Account /\ OnList([a EXCEPT !.lockEpochs = 0])
    BY <1>2 DEF OnList, Account
  <2> QED BY <1>8, <2>1, <2>2
<1>11. CASE \E amount \in Amounts : Deposit(u, amount) \/ Redeposit(u, amount)
  <2>1. Amounts \subseteq Nat /\ lockDuration \in Nat /\ 0 \in Nat
    BY LockRewardsAssumption DEF IInv, TypeOK
  <2> QED BY <1>4, <1>11, <2>1 DEF Deposit, Redeposit
<1> QED BY <1>3, <1>5, <1>6, <1>7, <1>9, <1>10, <1>11 DEF UserNext

(* Every transaction keeps the lists complete.                             *)
LEMMA NextOnList ==
  ASSUME IInv, OwnTokensOnly, ClaimListComplete, [Next]_vars
  PROVE  OwnTokensOnly' /\ ClaimListComplete'
<1>1. ASSUME EpochRewardsSame PROVE OwnTokensOnly'
  BY <1>1 DEF EpochRewardsSame, OwnTokensOnly, EpochId
<1>2. ASSUME UNCHANGED accounts PROVE ClaimListComplete'
  BY <1>2 DEF ClaimListComplete
<1>3. ASSUME NEW u \in Users, UserNext(u) PROVE ClaimListComplete'
  <2>1. PICK b : accounts' = [accounts EXCEPT ![u] = b] /\ OnList(b)
    BY <1>3, UserOnList
  <2>2. accounts \in [Users -> Account]
    BY DEF IInv, TypeOK
  <2> QED BY <2>1, <2>2 DEF ClaimListComplete, OnList
<1>4. CASE EpochSetterNext
  <2>1. PICK values \in [DOMAIN rewardTokens -> RewardValues],
             days \in Durations, delay \in StartDelays :
               SetNextEpoch(values, days, delay)
    BY <1>4 DEF EpochSetterNext
  <2>2. /\ epochs'[nextUnsetEpoch].rewards = NewRewards(values)
        /\ epochs'[nextUnsetEpoch].tokens = RewardTokenSet
        /\ \A e \in EpochId : e # nextUnsetEpoch => epochs'[e] = epochs[e]
        /\ UNCHANGED accounts
    BY <2>1, NewEpochRewards
  <2>3. \A t \in Tokens : NewRewards(values)[t] # 0 => t \in RewardTokenSet
    BY DEF NewRewards
  <2> QED BY <1>2, <2>2, <2>3 DEF OwnTokensOnly, EpochId
<1>5. ASSUME WorldNext \/ PauseSetterNext \/ OwnerNext \/ UNCHANGED vars
      PROVE  UNCHANGED accounts
  BY <1>5 DEF WorldNext, Tick, Fund, PauseSetterNext, Pause, Unpause,
     OwnerNext, SetLockDuration, SetReward, RemoveReward, RecoverERC20,
     ChangeRecoverWhitelist, ChangeEnforceTime, vars
<1> QED BY <1>1, <1>2, <1>3, <1>4, <1>5, UserKeepsRewards, RestrictedKeepsRewards
        DEF Next, IInv

(* claimRewards, exit and emergencyExit pay everything that is claimable:  *)
(* no claimable reward is ever missing from the list they go through.      *)
THEOREM ListsStayComplete == Spec => []ClaimListComplete
<1>1. Init => OwnTokensOnly /\ ClaimListComplete
  BY DEF Init, NoTokens, OwnTokensOnly, ClaimListComplete
<1>2. IInv /\ OwnTokensOnly /\ ClaimListComplete /\ [Next]_vars
        => OwnTokensOnly' /\ ClaimListComplete'
  BY NextOnList
<1> QED BY <1>1, <1>2, Safety, PTL DEF Spec

-----------------------------------------------------------------------------
(* If the constructor names no reward in lockToken, none is ever announced *)
(* or granted in it, and it can never be recovered: all that moves it are  *)
(* deposits, withdrawals and gifts.                                        *)

NoRewardInLockToken ==
  \A i \in DOMAIN InitialRewardTokens : InitialRewardTokens[i] # LockToken

LockTokenApart ==
  /\ LockToken \notin RewardTokenSet
  /\ ~whitelistRecoverERC20[LockToken]
  /\ \A e \in EpochId : epochs[e].rewards[LockToken] = 0
  /\ \A u \in Users : accounts[u].rewards[LockToken] = 0

(* A call of u leaves the account b: what the balance gains or loses, the  *)
(* total and the contract's lockTokens gain or lose.                       *)
MoneyMoved(u, b) ==
  /\ accounts' = [accounts EXCEPT ![u] = b]
  /\ b \in Account /\ b.rewards[LockToken] = 0
  /\ totalAssets' = totalAssets + (b.balance - accounts[u].balance)
  /\ held'[LockToken] = held[LockToken] + (b.balance - accounts[u].balance)

(* The modifier grants no lockToken and leaves the balance alone.          *)
LEMMA UpdatedMoney ==
  ASSUME IInv, LockTokenApart, NEW u \in Users, UpdateEpochAndReward(u)
  PROVE  /\ UpdatedAccount(u) \in Account
         /\ UpdatedAccount(u).balance = accounts[u].balance
         /\ UpdatedAccount(u).rewards[LockToken] = 0
<1> DEFINE cur == SyncedEpoch
           f == [e \in Payable(u, cur) |-> ShareValue(u, e, LockToken)]
<1>1. UpdatedAccount(u) \in Account /\ accounts[u] \in Account
  BY UserFrame DEF IInv, TypeOK
<1>2. LockToken \in Tokens
  BY LockRewardsAssumption
<1>3. \A e \in DOMAIN f : f[e] = 0
  <2>1. \A e \in Payable(u, cur) : epochs[e].totalLocked > 0
    BY DEF UpdateEpochAndReward
  <2> QED BY <1>2, <2>1, PaidEpochs, ShareOfNothing DEF LockTokenApart, IInv
<1>4. Granted(u, cur, LockToken) = 0
  <2>1. SumOver(f) = 0
    <3> HIDE DEF f
    <3> QED BY <1>3, SumZero
  <2> QED BY <2>1 DEF Granted
<1>5. /\ UpdatedAccount(u).balance = accounts[u].balance
      /\ UpdatedAccount(u).rewards[LockToken] =
           accounts[u].rewards[LockToken] + Granted(u, cur, LockToken)
  BY <1>1, <1>2 DEF UpdatedAccount, Account
<1> QED BY <1>1, <1>4, <1>5 DEF LockTokenApart

(* Leaving pays the balance and no other lockToken.                        *)
LEMMA LeaveMoney ==
  ASSUME TypeOK, NEW u \in Users, NEW a \in Account, Leave(u, a),
         a.rewards[LockToken] = 0, a.balance = accounts[u].balance
  PROVE  \E b : MoneyMoved(u, b)
<1> DEFINE w == WithdrawFrom(a, a.balance)
           out == [t \in Tokens |-> Withdrawal(a.balance)[t] + Claimed(a)[t]]
<1>1. /\ a.balance \in Nat /\ LockToken \in Tokens
      /\ held \in [Tokens -> Nat] /\ totalAssets \in Nat
  BY LockRewardsAssumption DEF Account, TypeOK
<1>2. w \in Account /\ w.balance = 0 /\ w.rewards = a.rewards
  <2>1. w \in Account
    BY <1>1, AccountOperators
  <2> QED BY <1>1, <2>1 DEF WithdrawFrom, Account
<1>3. /\ ClaimFrom(w) \in Account /\ ClaimFrom(w).balance = 0
      /\ ClaimFrom(w).rewards[LockToken] = 0
  <2>1. ClaimFrom(w) \in Account
    BY <1>1, <1>2, AccountOperators
  <2>2. Claimed(w)[LockToken] = 0
    BY <1>1, <1>2 DEF Claimed
  <2> HIDE DEF w
  <2>3. ClaimFrom(w).rewards[LockToken] = w.rewards[LockToken] - Claimed(w)[LockToken]
    BY <1>1, <1>2 DEF ClaimFrom, Account
  <2>4. ClaimFrom(w).balance = w.balance
    BY <1>2 DEF ClaimFrom, Account
  <2> QED BY <1>2, <2>1, <2>2, <2>3, <2>4
<1>4. /\ accounts' = [accounts EXCEPT ![u] = ClaimFrom(w)]
      /\ totalAssets' = totalAssets - a.balance
      /\ held' = [t \in Tokens |-> held[t] - out[t]]
  BY DEF Leave, Pay
<1>5. out[LockToken] = a.balance
  BY <1>1 DEF Claimed, Withdrawal, NoTokens
<1>6. held'[LockToken] = held[LockToken] - a.balance
  BY <1>1, <1>4, <1>5
<1> HIDE DEF w, out
<1>7. held[LockToken] \in Nat
  BY <1>1
<1> DEFINE b == ClaimFrom(w)
<1>8. /\ b \in Account /\ b.balance = 0 /\ b.rewards[LockToken] = 0
      /\ accounts' = [accounts EXCEPT ![u] = b]
  BY <1>3, <1>4
<1> HIDE DEF b
<1>9. /\ totalAssets' = totalAssets + (b.balance - accounts[u].balance)
      /\ held'[LockToken] = held[LockToken] + (b.balance - accounts[u].balance)
  <2>1. totalAssets' = totalAssets - a.balance
    BY <1>4
  <2> QED BY <1>1, <1>6, <1>7, <1>8, <2>1
<1>10. MoneyMoved(u, b)
  BY <1>8, <1>9 DEF MoneyMoved
<1> QED BY <1>10

(* Every user call moves money from one place to the other two.            *)
LEMMA UserMoney ==
  ASSUME IInv, LockTokenApart, NEW u \in Users, UserNext(u)
  PROVE  \E b : MoneyMoved(u, b)
<1> DEFINE a == UpdatedAccount(u)
<1>1. UpdateEpochAndReward(u)
  BY DEF UserNext, UpdateAccount, Deposit, Redeposit, DepositFor, Withdraw,
         ClaimRewards, ClaimReward, Exit, EmergencyExit
<1>2. /\ a \in Account /\ a.balance = accounts[u].balance
      /\ a.rewards[LockToken] = 0
  BY <1>1, UpdatedMoney
<1>3. /\ LockToken \in Tokens /\ held \in [Tokens -> Nat] /\ totalAssets \in Nat
      /\ accounts[u].balance \in Nat /\ a.balance \in Nat
      /\ held[LockToken] \in Nat
  BY <1>2, LockRewardsAssumption DEF IInv, TypeOK, Account
<1> HIDE DEF a
<1>4. CASE UpdateAccount(u)
  <2>1. MoneyMoved(u, a)
    BY <1>2, <1>3, <1>4 DEF UpdateAccount, MoneyMoved, a
  <2> QED BY <2>1
<1>5. ASSUME NEW amount \in Nat, NEW lock \in Nat, DepositFor(u, amount, lock)
      PROVE  \E b : MoneyMoved(u, b)
  <2> DEFINE lockLeft == a.lockEpochs + lock
             b == [a EXCEPT !.balance = a.balance + amount,
                            !.lockEpochs = lockLeft, !.lockStart = now]
  <2>1. /\ accounts' = [accounts EXCEPT ![u] = b]
        /\ totalAssets' = totalAssets + amount
        /\ held' = [held EXCEPT ![LockToken] = @ + amount]
    BY <1>5 DEF DepositFor, a
  <2>2. lockLeft \in Nat /\ a.balance + amount \in Nat /\ now \in Nat
    <3>1. a.lockEpochs \in Nat /\ now \in Nat
      BY <1>2 DEF Account, IInv, TypeOK
    <3> QED BY <1>3, <1>5, <3>1
  <2> HIDE DEF lockLeft
  <2>3. b \in Account /\ b.balance = a.balance + amount /\ b.rewards = a.rewards
    BY <1>2, <2>2 DEF Account
  <2>4. held'[LockToken] = held[LockToken] + amount
    BY <1>3, <2>1
  <2> HIDE DEF b
  <2>5. MoneyMoved(u, b)
    BY <1>2, <1>3, <2>1, <2>3, <2>4 DEF MoneyMoved
  <2> QED BY <2>5
<1>6. ASSUME NEW amount \in Amounts, Withdraw(u, amount)
      PROVE  \E b : MoneyMoved(u, b)
  <2> DEFINE b == WithdrawFrom(a, amount)
  <2>1. /\ accounts' = [accounts EXCEPT ![u] = b]
        /\ totalAssets' = totalAssets - amount
        /\ held' = [t \in Tokens |-> held[t] - Withdrawal(amount)[t]]
        /\ amount \in Nat /\ amount <= a.balance
    BY <1>6, LockRewardsAssumption DEF Withdraw, Withdrawable, Pay, a
  <2>2. b \in Account
    BY <1>2, <2>1, AccountOperators
  <2>3. b.balance = a.balance - amount /\ b.rewards = a.rewards
    BY <1>2 DEF WithdrawFrom, Account
  <2>4. held'[LockToken] = held[LockToken] - amount
    BY <1>3, <2>1 DEF Withdrawal, NoTokens
  <2> HIDE DEF b
  <2>5. MoneyMoved(u, b)
    BY <1>2, <1>3, <2>1, <2>2, <2>3, <2>4 DEF MoneyMoved
  <2> QED BY <2>5
<1>7. CASE ClaimRewards(u)
  <2> DEFINE b == ClaimFrom(a)
  <2>1. /\ accounts' = [accounts EXCEPT ![u] = b]
        /\ totalAssets' = totalAssets
        /\ held' = [t \in Tokens |-> held[t] - Claimed(a)[t]]
    BY <1>7 DEF ClaimRewards, Pay, a
  <2>2. Claimed(a)[LockToken] = 0
    BY <1>2, <1>3 DEF Claimed
  <2>3. b \in Account
    BY <1>2, <1>3, AccountOperators
  <2>4. b.rewards[LockToken] = a.rewards[LockToken] - Claimed(a)[LockToken]
    BY <1>2, <1>3 DEF ClaimFrom, Account
  <2>5. b.balance = a.balance
    BY <1>2 DEF ClaimFrom, Account
  <2>6. held'[LockToken] = held[LockToken]
    BY <1>3, <2>1, <2>2
  <2> HIDE DEF b
  <2>7. MoneyMoved(u, b)
    BY <1>2, <1>3, <2>1, <2>2, <2>3, <2>4, <2>5, <2>6 DEF MoneyMoved
  <2> QED BY <2>7
<1>8. ASSUME NEW t \in Tokens, ClaimReward(u, t) PROVE \E b : MoneyMoved(u, b)
  <2> DEFINE b == [a EXCEPT !.rewards[t] = 0]
             out == [NoTokens EXCEPT ![t] = a.rewards[t]]
  <2>1. /\ accounts' = [accounts EXCEPT ![u] = b]
        /\ totalAssets' = totalAssets
        /\ held' = [s \in Tokens |-> held[s] - out[s]]
    BY <1>8 DEF ClaimReward, Pay, a
  <2>2. /\ b \in Account /\ b.balance = a.balance /\ b.rewards[LockToken] = 0
    BY <1>2, <1>3 DEF Account
  <2>3. out[LockToken] = 0
    BY <1>2, <1>3 DEF NoTokens
  <2>4. held'[LockToken] = held[LockToken]
    BY <1>3, <2>1, <2>3
  <2> HIDE DEF b, out
  <2>5. MoneyMoved(u, b)
    BY <1>2, <1>3, <2>1, <2>2, <2>4 DEF MoneyMoved
  <2> QED BY <2>5
<1>9. CASE Exit(u)
  <2>1. Leave(u, a)
    BY <1>9 DEF Exit, a
  <2> QED BY <1>2, <2>1, LeaveMoney DEF IInv
<1>10. CASE EmergencyExit(u)
  <2>1. Leave(u, [a EXCEPT !.lockEpochs = 0])
    <3> USE DEF a
    <3> QED BY <1>10, Zenon DEF EmergencyExit
  <2>2. /\ [a EXCEPT !.lockEpochs = 0] \in Account
        /\ [a EXCEPT !.lockEpochs = 0].balance = a.balance
        /\ [a EXCEPT !.lockEpochs = 0].rewards = a.rewards
    BY <1>2 DEF Account
  <2> DEFINE free == [a EXCEPT !.lockEpochs = 0]
  <2> HIDE DEF free
  <2>3. /\ free \in Account /\ free.balance = accounts[u].balance
        /\ free.rewards[LockToken] = 0 /\ Leave(u, free)
    BY <1>2, <2>1, <2>2 DEF free
  <2> QED BY <2>3, LeaveMoney DEF IInv
<1>11. CASE \E amount \in Amounts : Deposit(u, amount) \/ Redeposit(u, amount)
  <2>1. Amounts \subseteq Nat /\ lockDuration \in Nat /\ 0 \in Nat
    BY LockRewardsAssumption DEF IInv, TypeOK
  <2> QED BY <1>5, <1>11, <2>1 DEF Deposit, Redeposit
<1> QED BY <1>4, <1>6, <1>7, <1>8, <1>9, <1>10, <1>11 DEF UserNext

(* A removal adds no token to the list.                                    *)
LEMMA RemovedTokens ==
  ASSUME IInv, NEW t \in Tokens, RemoveReward(t)
  PROVE  RewardTokenSet' \subseteq RewardTokenSet
<1> DEFINE last == Len(rewardTokens)
           moved == [rewardTokens EXCEPT ![IndexOf(t)] = rewardTokens[last]]
<1>1. rewardTokens \in Seq(Tokens) /\ IndexOf(t) \in 1 .. last /\ last \in Nat \ {0}
  BY DEF RemoveReward, RewardTokenSet, IndexOf, IInv, TypeOK
<1>2. /\ moved \in Seq(Tokens) /\ Len(moved) = last
      /\ \A i \in 1 .. last : moved[i] \in RewardTokenSet
  <2>1. rewardTokens[last] \in Tokens /\ rewardTokens[last] \in RewardTokenSet
    BY <1>1 DEF RewardTokenSet
  <2>2. moved \in Seq(Tokens) /\ Len(moved) = last
    BY <1>1, <2>1, ExceptSeq
  <2> QED BY <1>1, <2>1, <2>2 DEF RewardTokenSet
<1>3. rewardTokens' = SubSeq(moved, 1, last - 1)
  BY DEF RemoveReward
<1> HIDE DEF moved
<1>4. /\ Len(rewardTokens') = last - 1 /\ DOMAIN rewardTokens' = 1 .. last - 1
      /\ \A i \in 1 .. last - 1 : rewardTokens'[i] = moved[i]
  BY <1>1, <1>2, <1>3, SubSeqProperties
<1> QED BY <1>1, <1>2, <1>4 DEF RewardTokenSet

(* Moving money keeps the balances' sum the total, and the total covered.  *)
LEMMA MovedCustody ==
  ASSUME IInv, LockTokenApart, DepositsInCustody, NEW u \in Users, NEW b,
         MoneyMoved(u, b)
  PROVE  /\ DepositsInCustody'
         /\ \A v \in Users : accounts'[v].rewards[LockToken] = 0
<1> DEFINE f == [v \in Users |-> accounts[v].balance]
           g == [v \in Users |-> accounts'[v].balance]
<1>1. /\ accounts \in [Users -> Account] /\ IsFiniteSet(Users)
      /\ totalAssets \in Nat /\ held[LockToken] \in Nat
  BY LockRewardsAssumption DEF IInv, TypeOK
<1>2. /\ accounts' = [accounts EXCEPT ![u] = b] /\ b \in Account
      /\ b.rewards[LockToken] = 0
  BY DEF MoneyMoved
<1>3. /\ f \in [Users -> Nat] /\ g \in [Users -> Nat]
      /\ f[u] = accounts[u].balance /\ g[u] = b.balance
      /\ \A v \in Users : v # u => g[v] = f[v]
  BY <1>1, <1>2 DEF Account
<1>4. SumOver(f) = totalAssets /\ totalAssets <= held[LockToken]
  BY DEF DepositsInCustody
<1>5. SumOver(g) = SumOver(f) - f[u] + g[u]
  <2> HIDE DEF f, g
  <2> QED BY <1>1, <1>3, SumUpdate
<1>6. /\ totalAssets' = totalAssets + (b.balance - accounts[u].balance)
      /\ held'[LockToken] = held[LockToken] + (b.balance - accounts[u].balance)
  BY DEF MoneyMoved
<1>7. f[u] \in Nat /\ g[u] \in Nat
  BY <1>3
<1>8. totalAssets' = SumOver(g) /\ totalAssets' <= held'[LockToken]
  <2> HIDE DEF f, g
  <2> QED BY <1>1, <1>3, <1>4, <1>5, <1>6, <1>7
<1>9. \A v \in Users : accounts'[v].rewards[LockToken] = 0
  BY <1>1, <1>2 DEF LockTokenApart
<1> QED BY <1>8, <1>9 DEF DepositsInCustody

(* Every transaction keeps deposits in custody and lockToken apart.        *)
LEMMA NextCustody ==
  ASSUME IInv, LockTokenApart, DepositsInCustody, [Next]_vars
  PROVE  LockTokenApart' /\ DepositsInCustody'
<1>1. /\ LockToken \in Tokens /\ held \in [Tokens -> Nat]
      /\ totalAssets \in Nat /\ rewardTokens \in Seq(Tokens)
  BY LockRewardsAssumption DEF IInv, TypeOK
<1>2. ASSUME EpochRewardsSame, UNCHANGED <<rewardTokens, whitelistRecoverERC20>>,
             \A v \in Users : accounts'[v].rewards[LockToken] = 0
      PROVE  LockTokenApart'
  BY <1>2 DEF LockTokenApart, EpochRewardsSame, RewardTokenSet, EpochId
<1>3. ASSUME UNCHANGED <<accounts, totalAssets>>, held'[LockToken] >= held[LockToken],
             held'[LockToken] \in Nat
      PROVE  /\ DepositsInCustody'
             /\ \A v \in Users : accounts'[v].rewards[LockToken] = 0
  <2>1. held[LockToken] \in Nat
    BY <1>1
  <2> QED BY <1>1, <1>3, <2>1 DEF DepositsInCustody, LockTokenApart
<1>4. ASSUME NEW u \in Users, UserNext(u) PROVE LockTokenApart' /\ DepositsInCustody'
  <2>1. UNCHANGED whitelistRecoverERC20
    BY <1>4 DEF UserNext, UpdateAccount, Deposit, Redeposit, DepositFor, Withdraw,
       ClaimRewards, ClaimReward, Exit, EmergencyExit, UpdateEpochAndReward, settingVars
  <2>2. PICK b : MoneyMoved(u, b)
    BY <1>4, UserMoney
  <2> QED BY <1>2, <1>4, <2>1, <2>2, MovedCustody, UserKeepsRewards DEF IInv
<1>5. CASE EpochSetterNext
  <2>1. PICK values \in [DOMAIN rewardTokens -> RewardValues],
             days \in Durations, delay \in StartDelays :
               SetNextEpoch(values, days, delay)
    BY <1>5 DEF EpochSetterNext
  <2>2. /\ epochs'[nextUnsetEpoch].rewards = NewRewards(values)
        /\ \A e \in EpochId : e # nextUnsetEpoch => epochs'[e] = epochs[e]
        /\ UNCHANGED <<accounts, totalAssets, rewardTokens, settingVars, held>>
    BY <2>1, NewEpochRewards
  <2>3. NewRewards(values)[LockToken] = 0
    BY <1>1 DEF NewRewards, LockTokenApart
  <2>4. LockTokenApart'
    BY <2>2, <2>3 DEF LockTokenApart, RewardTokenSet, settingVars, EpochId
  <2> QED BY <1>1, <1>3, <2>2, <2>4
<1>6. CASE Tick \/ PauseSetterNext \/ UNCHANGED vars
  <2>1. UNCHANGED <<accounts, totalAssets, epochs, held, rewardTokens,
                    whitelistRecoverERC20>>
    BY <1>6 DEF Tick, PauseSetterNext, Pause, Unpause, vars, tokenVars, settingVars
  <2>2. EpochRewardsSame
    BY <2>1 DEF EpochRewardsSame
  <2> QED BY <1>1, <1>2, <1>3, <2>1, <2>2
<1>7. ASSUME NEW amounts \in [Tokens -> FundAmounts \cup {0}], Fund(amounts)
      PROVE  LockTokenApart' /\ DepositsInCustody'
  <2>1. /\ UNCHANGED <<accounts, totalAssets, epochs, rewardTokens,
                       whitelistRecoverERC20>>
        /\ held'[LockToken] = held[LockToken] + amounts[LockToken]
    BY <1>1, <1>7 DEF Fund, tokenVars, settingVars
  <2>2. amounts[LockToken] \in Nat /\ held[LockToken] \in Nat
    <3>1. FundAmounts \cup {0} \in SUBSET Nat
      BY LockRewardsAssumption
    <3> QED BY <1>1, <3>1
  <2>3. EpochRewardsSame
    BY <2>1 DEF EpochRewardsSame
  <2> QED BY <1>2, <1>3, <2>1, <2>2, <2>3
<1>8. CASE OwnerNext
  <2>1. EpochRewardsSame /\ UNCHANGED <<accounts, totalAssets>>
    <3>1. UNCHANGED <<accounts, totalAssets>>
      BY <1>8 DEF OwnerNext, SetLockDuration, SetReward, RemoveReward,
         RecoverERC20, ChangeRecoverWhitelist, ChangeEnforceTime
    <3> QED BY <1>8, <3>1, RestrictedKeepsRewards
  <2>2. held'[LockToken] = held[LockToken]
    <3>1. ASSUME NEW t \in Tokens, NEW amount \in FundAmounts, RecoverERC20(t, amount)
          PROVE  held'[LockToken] = held[LockToken]
      BY <1>1, <3>1 DEF RecoverERC20, LockTokenApart
    <3>2. CASE UNCHANGED held
      BY <3>2
    <3> QED BY <1>8, <3>1, <3>2 DEF OwnerNext, SetLockDuration, SetReward,
               RemoveReward, ChangeRecoverWhitelist, ChangeEnforceTime
  <2>3. ~whitelistRecoverERC20'[LockToken]
    <3>1. ASSUME NEW t \in Tokens, NEW flag \in BOOLEAN, ChangeRecoverWhitelist(t, flag)
          PROVE  ~whitelistRecoverERC20'[LockToken]
      BY <1>1, <3>1 DEF ChangeRecoverWhitelist, LockTokenApart, IInv, TypeOK
    <3>2. CASE UNCHANGED whitelistRecoverERC20
      BY <3>2 DEF LockTokenApart
    <3> QED BY <1>8, <3>1, <3>2 DEF OwnerNext, SetLockDuration, SetReward,
               RemoveReward, RecoverERC20, ChangeEnforceTime, settingVars
  <2>4. LockToken \notin RewardTokenSet'
    <3>1. ASSUME NEW t \in Tokens, SetReward(t) PROVE LockToken \notin RewardTokenSet'
      BY <1>1, <3>1 DEF SetReward, RewardTokenSet, LockTokenApart
    <3>2. ASSUME NEW t \in Tokens, RemoveReward(t) PROVE LockToken \notin RewardTokenSet'
      BY <1>1, <3>2, RemovedTokens DEF RewardTokenSet, LockTokenApart
    <3>3. CASE UNCHANGED rewardTokens
      BY <3>3 DEF RewardTokenSet, LockTokenApart
    <3> QED BY <1>8, <3>1, <3>2, <3>3 DEF OwnerNext, SetLockDuration,
               RecoverERC20, ChangeRecoverWhitelist, ChangeEnforceTime, tokenVars
  <2>5. LockTokenApart'
    BY <2>1, <2>3, <2>4 DEF LockTokenApart, EpochRewardsSame, EpochId
  <2> QED BY <1>1, <1>3, <2>1, <2>2, <2>5
<1> QED BY <1>4, <1>5, <1>6, <1>7, <1>8 DEF Next, WorldNext

(* Deposits stay in the contract, whatever users, owner and setter do, as  *)
(* long as the constructor names no reward in lockToken (if it does, the   *)
(* deposits count as funding of rewards and are paid out as such).         *)
THEOREM DepositsSafe ==
  ASSUME NoRewardInLockToken
  PROVE  Spec => []DepositsInCustody
<1>1. Init => LockTokenApart /\ DepositsInCustody
  <2> SUFFICES ASSUME Init PROVE LockTokenApart /\ DepositsInCustody
    OBVIOUS
  <2>1. LockTokenApart
    BY LockRewardsAssumption
       DEF Init, NoTokens, LockTokenApart, RewardTokenSet, NoRewardInLockToken
  <2>2. \A u \in Users : accounts[u].balance = 0
    BY DEF Init
  <2>3. SumOver([u \in Users |-> accounts[u].balance]) = 0
    BY <2>2, SumZero
  <2>4. totalAssets = 0 /\ held[LockToken] = 0
    BY LockRewardsAssumption DEF Init, NoTokens
  <2> QED BY <2>1, <2>3, <2>4 DEF DepositsInCustody
<1>2. IInv /\ LockTokenApart /\ DepositsInCustody /\ [Next]_vars
        => LockTokenApart' /\ DepositsInCustody'
  BY NextCustody
<1> QED BY <1>1, <1>2, Safety, PTL DEF Spec
-----------------------------------------------------------------------------
(* Stakes of epochs that have started or finished.                         *)

(* What a step may do to the stakes of the set epochs.                     *)
StakeStep ==
  \A e \in EpochId : epochs[e].isSet =>
    /\ epochs[e].finish <= now =>
         /\ epochs'[e].balanceLocked = epochs[e].balanceLocked
         /\ epochs'[e].totalLocked = epochs[e].totalLocked
    /\ epochs[e].start <= now => \A u \in Users :
         epochs'[e].balanceLocked[u] <= epochs[e].balanceLocked[u]

(* From the epoch the calendar stops at on, no set epoch has finished, and *)
(* those after it have not started: what a handler finds once the modifier *)
(* has run, however far currentEpoch lagged behind before.                 *)
LEMMA EpochsAhead ==
  ASSUME IInv, NEW e \in EpochId, epochs[e].isSet, SyncedEpoch <= e
  PROVE  /\ now < epochs[e].finish
         /\ SyncedEpoch < e => now < epochs[e].start
         /\ epochs[SyncedEpoch].isSet
<1>1. /\ SyncedEpoch \in EpochId /\ EpochId \subseteq Nat
      /\ now \in Nat /\ nextUnsetEpoch \in Nat
      /\ \A k \in EpochId : epochs[k].start \in Nat /\ epochs[k].finish \in Nat
  <2>1. /\ SyncedEpoch \in EpochId /\ EpochId \subseteq Nat
        /\ now \in Nat /\ nextUnsetEpoch \in EpochId
    BY CalendarFacts, LockRewardsAssumption DEF IInv, TypeOK, EpochId
  <2>2. ASSUME NEW k \in EpochId
        PROVE  epochs[k].start \in Nat /\ epochs[k].finish \in Nat
    <3>1. epochs[k] \in Epoch
      BY DEF IInv, TypeOK
    <3> QED BY <3>1 DEF Epoch
  <2> QED BY <2>1, <2>2
<1>2. e < nextUnsetEpoch
  BY CalendarFacts
<1>3. SyncedEpoch < nextUnsetEpoch
  BY <1>1, <1>2
<1>4. epochs[SyncedEpoch].isSet
  BY <1>1, <1>3, CalendarFacts
<1>5. now < epochs[SyncedEpoch].finish
  <2>1. ~(epochs[SyncedEpoch].finish <= now)
    BY <1>4, CalendarFacts DEF Elapsed
  <2> QED BY <1>1, <2>1
<1>6. ASSUME SyncedEpoch < e
      PROVE  now < epochs[e].start /\ now < epochs[e].finish
  <2>1. /\ epochs[SyncedEpoch].finish <= epochs[e].start
        /\ epochs[e].start <= epochs[e].finish
    BY <1>1, <1>6, CalendarFacts
  <2> QED BY <1>1, <1>5, <2>1
<1>7. SyncedEpoch = e \/ SyncedEpoch < e
  BY <1>1
<1> QED BY <1>4, <1>5, <1>6, <1>7

(* A deposit restakes epochs that have not started.                        *)
LEMMA DepositStakes ==
  ASSUME IInv, NEW u \in Users, NEW amount, NEW lock, DepositFor(u, amount, lock)
  PROVE  StakeStep
<1> DEFINE a == UpdatedAccount(u)
           relocked == RelockedEpochs(SyncedEpoch, a.lockEpochs,
                                      a.lockEpochs + lock)
<1>1. epochs' = [e \in EpochId |->
        IF e \in relocked THEN Restaked(epochs[e], u, a.balance + amount)
        ELSE epochs[e]]
  BY DEF DepositFor
<1>2. ASSUME NEW e \in EpochId, epochs[e].isSet, e \in relocked
      PROVE  now < epochs[e].start /\ now < epochs[e].finish
  <2>1. /\ SyncedEpoch <= e
        /\ epochs[SyncedEpoch].isSet => SyncedEpoch < e
    BY <1>2, CalendarFacts, LockRewardsAssumption DEF RelockedEpochs, EpochId
  <2> QED BY <1>2, <2>1, EpochsAhead
<1> HIDE DEF relocked, a
<1>3. ASSUME NEW e \in EpochId
      PROVE  /\ now \in Nat
             /\ epochs[e].start \in Nat /\ epochs[e].finish \in Nat
             /\ epochs[e].balanceLocked \in [Users -> Nat]
  <2>1. epochs[e] \in Epoch /\ now \in Nat
    BY DEF IInv, TypeOK
  <2> QED BY <2>1 DEF Epoch
<1>4. ASSUME NEW e \in EpochId, epochs[e].isSet
      PROVE  \/ epochs'[e] = epochs[e]
             \/ now < epochs[e].start /\ now < epochs[e].finish
  BY <1>1, <1>2, <1>4
<1> QED BY <1>3, <1>4 DEF StakeStep

(* An emergency exit takes stakes away, from epochs that have not finished.*)
LEMMA EmergencyStakes ==
  ASSUME IInv, NEW u \in Users, EmergencyExit(u)
  PROVE  StakeStep
<1> DEFINE a == UpdatedAccount(u)
           unlocked == UnlockedEpochs(SyncedEpoch, a.lockEpochs)
<1>1. a.lastEpochPaid = SyncedEpoch
  <2>1. accounts[u] \in Account
    BY DEF IInv, TypeOK
  <2> QED BY <2>1 DEF UpdatedAccount, Account
<1>2. epochs' = [e \in EpochId |->
        IF e \in unlocked THEN Restaked(epochs[e], u, 0) ELSE epochs[e]]
  BY <1>1 DEF EmergencyExit
<1>3. ASSUME NEW e \in EpochId, epochs[e].isSet, e \in unlocked
      PROVE  now < epochs[e].finish
  BY <1>3, EpochsAhead DEF UnlockedEpochs
<1> HIDE DEF unlocked, a
<1>4. ASSUME NEW e \in EpochId
      PROVE  /\ now \in Nat /\ epochs[e].finish \in Nat
             /\ epochs[e].balanceLocked \in [Users -> Nat]
             /\ Restaked(epochs[e], u, 0).balanceLocked =
                  [epochs[e].balanceLocked EXCEPT ![u] = 0]
  <2>1. epochs[e] \in Epoch /\ now \in Nat
    BY DEF IInv, TypeOK
  <2> QED BY <2>1, RestakedEpoch DEF Epoch
<1>5. ASSUME NEW e \in EpochId, epochs[e].isSet
      PROVE  \/ epochs'[e] = epochs[e]
             \/ /\ now < epochs[e].finish
                /\ epochs'[e].balanceLocked =
                     [epochs[e].balanceLocked EXCEPT ![u] = 0]
  BY <1>2, <1>3, <1>4, <1>5
<1>6. ASSUME NEW e \in EpochId, epochs[e].isSet, NEW v \in Users
      PROVE  epochs'[e].balanceLocked[v] <= epochs[e].balanceLocked[v]
  <2> DEFINE stakes == epochs[e].balanceLocked
             left == epochs'[e].balanceLocked
  <2>1. stakes \in [Users -> Nat]
    BY <1>4
  <2>2. left = stakes \/ left = [stakes EXCEPT ![u] = 0]
    BY <1>5, <1>6
  <2> HIDE DEF stakes, left
  <2>3. stakes[v] \in Nat /\ (left[v] = stakes[v] \/ left[v] = 0)
    BY <1>6, <2>1, <2>2
  <2>4. left[v] <= stakes[v]
    BY <2>3
  <2> QED BY <2>4 DEF stakes, left
<1>7. ASSUME NEW e \in EpochId, epochs[e].isSet, epochs[e].finish <= now
      PROVE  epochs'[e] = epochs[e]
  <2>1. now \in Nat /\ epochs[e].finish \in Nat
    BY <1>4
  <2>2. ~(now < epochs[e].finish)
    BY <1>7, <2>1
  <2> QED BY <1>5, <1>7, <2>2
<1> QED BY <1>6, <1>7 DEF StakeStep

(* Every step leaves started epochs to settle.                             *)
LEMMA NextStakes ==
  ASSUME IInv, [Next]_vars
  PROVE  StakeStep
<1>1. ASSUME NEW e \in EpochId PROVE epochs[e].balanceLocked \in [Users -> Nat]
  <2>1. epochs[e] \in Epoch
    BY DEF IInv, TypeOK
  <2> QED BY <2>1 DEF Epoch
<1>2. ASSUME UNCHANGED epochs PROVE StakeStep
  BY <1>1, <1>2 DEF StakeStep
<1>3. ASSUME NEW u \in Users, UserNext(u) PROVE StakeStep
  <2>1. \/ UNCHANGED epochs
        \/ \E amount, lock \in Nat : DepositFor(u, amount, lock)
        \/ EmergencyExit(u)
    BY <1>3, LockRewardsAssumption DEF UserNext, UpdateAccount, Deposit,
       Redeposit, Withdraw, ClaimRewards, ClaimReward, Exit, IInv, TypeOK
  <2> QED BY <1>2, <2>1, DepositStakes, EmergencyStakes
<1>4. ASSUME EpochSetterNext PROVE StakeStep
  <2>1. PICK values \in [DOMAIN rewardTokens -> RewardValues],
             days \in Durations, delay \in StartDelays :
               SetNextEpoch(values, days, delay)
    BY <1>4 DEF EpochSetterNext
  <2>2. /\ ~epochs[nextUnsetEpoch].isSet
        /\ \A e \in EpochId : e # nextUnsetEpoch => epochs'[e] = epochs[e]
    BY <2>1, NewEpochRewards
  <2> QED BY <1>1, <2>2 DEF StakeStep
<1>5. ASSUME WorldNext \/ PauseSetterNext \/ OwnerNext PROVE UNCHANGED epochs
  BY <1>5 DEF WorldNext, Tick, Fund, PauseSetterNext, Pause, Unpause,
     OwnerNext, SetLockDuration, SetReward, RemoveReward, RecoverERC20,
     ChangeRecoverWhitelist, ChangeEnforceTime
<1>6. ASSUME UNCHANGED vars PROVE UNCHANGED epochs
  BY <1>6 DEF vars
<1> QED BY <1>2, <1>3, <1>4, <1>5, <1>6 DEF Next

(* A started epoch gains no stake and a finished one changes none, however *)
(* far currentEpoch lags behind the clock when a transaction arrives.      *)
THEOREM StartedEpochsSettle == Spec => StakesSettle
<1>1. IInv /\ [Next]_vars =>
        [\A e \in EpochId : epochs[e].isSet =>
           /\ epochs[e].finish <= now =>
                /\ epochs'[e].balanceLocked = epochs[e].balanceLocked
                /\ epochs'[e].totalLocked = epochs[e].totalLocked
           /\ epochs[e].start <= now => \A u \in Users :
                epochs'[e].balanceLocked[u] <= epochs[e].balanceLocked[u]]_vars
  BY NextStakes DEF StakeStep
<1> QED BY <1>1, Safety, PTL DEF Spec, StakesSettle
-----------------------------------------------------------------------------
(* Stakes are backed: while enforceTime is on, and if no epoch finishes    *)
(* later than the delay of emergencyExit allows.                           *)
(*                                                                         *)
(* What has to be carried along is when a lock may reach one epoch too     *)
(* far.  A deposit that finds the current epoch set and no lock starts in  *)
(* the next epoch, so its last stake is lockEpochs epochs from the current *)
(* one, and emergencyExit, which looks at lockEpochs epochs including the  *)
(* current one, would miss it.  Until the current epoch is over, though,   *)
(* the delay since lockStart is not.                                       *)

EmergencyDelay(duration) == duration * DefaultDuration * Day * 2

LockChoices == LockDurations \cup {InitialLockDuration}

(* An epoch, with the wait for its start, is no longer than the delay.     *)
EpochsWithinDelay ==
  \A days \in Durations, delay \in StartDelays \cup {1}, d \in LockChoices :
    delay + days * Day <= EmergencyDelay(d)

(* A set epoch finishes within the delay from now, or from the end of the  *)
(* epoch before it.                                                        *)
FinishInTime ==
  \A e \in EpochId, d \in LockChoices : epochs[e].isSet =>
    \/ epochs[e].finish <= now + EmergencyDelay(d)
    \/ /\ e - 1 \in EpochId
       /\ epochs[e].finish <= epochs[e - 1].finish + EmergencyDelay(d)

(* The stakes of u from epoch first on are within the lock of account a:   *)
(* it counts from first, or from the epoch after it, and then nobody can   *)
(* use emergencyExit before first is over.                                 *)
CountsFrom(eps, u, a, first) ==
  \A e \in EpochId :
    first <= e /\ eps[e].balanceLocked[u] > 0 => e < first + a.lockEpochs

CountsFromNext(eps, u, a, first) ==
  /\ eps[first].isSet
  /\ \A d \in LockChoices : eps[first].finish <= a.lockStart + EmergencyDelay(d)
  /\ \A e \in EpochId :
       first <= e /\ eps[e].balanceLocked[u] > 0
         => first < e /\ e <= first + a.lockEpochs

Covers(eps, u, a, first) ==
  /\ \A e \in EpochId : first <= e => eps[e].balanceLocked[u] <= a.balance
  /\ CountsFrom(eps, u, a, first) \/ CountsFromNext(eps, u, a, first)

LocksCover ==
  /\ lockDuration \in LockChoices
  /\ FinishInTime
  /\ \A u \in Users :
       PaidFrom(u) <= currentEpoch /\ Covers(epochs, u, accounts[u], PaidFrom(u))

(* The delays are natural numbers.                                         *)
LEMMA DelayType == \A d \in LockChoices : EmergencyDelay(d) \in Nat
<1>1. /\ LockChoices \subseteq Nat /\ DefaultDuration \in Nat
      /\ Day \in Nat /\ 2 \in Nat
  BY LockRewardsAssumption DEF LockChoices
<1> QED BY <1>1, ProductNat DEF EmergencyDelay

(* The types of what the lemmas below compare.                             *)
LEMMA StakeTypes ==
  ASSUME IInv, NEW u \in Users
  PROVE  /\ accounts[u] \in Account /\ now \in Nat
         /\ EpochId \subseteq Nat \ {0} /\ SyncedEpoch \in EpochId
         /\ PaidFrom(u) \in Nat \ {0}
         /\ \A e \in EpochId : /\ epochs[e].finish \in Nat
                               /\ epochs[e].balanceLocked \in [Users -> Nat]
<1>1. accounts[u] \in Account /\ now \in Nat
  BY DEF IInv, TypeOK
<1>2. EpochId \subseteq Nat \ {0} /\ SyncedEpoch \in EpochId
  BY CalendarFacts, LockRewardsAssumption DEF EpochId
<1>3. PaidFrom(u) \in Nat \ {0}
  BY <1>1 DEF PaidFrom, Account
<1>4. \A e \in EpochId : epochs[e] \in Epoch
  BY DEF IInv, TypeOK
<1> QED BY <1>1, <1>2, <1>3, <1>4 DEF Epoch

(* How many epochs the modifier pays for: no more than the lock counts,    *)
(* no more than have passed, and not the first if it holds no stake.       *)
LEMMA PaidCount ==
  ASSUME IInv, NEW u \in Users, PaidFrom(u) <= SyncedEpoch
  PROVE  LET n == Cardinality(Payable(u, SyncedEpoch)) IN
         /\ n \in Nat /\ n <= accounts[u].lockEpochs
         /\ n <= SyncedEpoch - PaidFrom(u)
         /\ PaidFrom(u) < SyncedEpoch /\ epochs[PaidFrom(u)].balanceLocked[u] = 0
              => n <= SyncedEpoch - PaidFrom(u) - 1
<1> DEFINE cur == SyncedEpoch
           p == PaidFrom(u)
           k == accounts[u].lockEpochs
           paid == Payable(u, cur)
<1>1. cur \in Nat /\ p \in Nat /\ k \in Nat /\ p <= cur
  BY StakeTypes DEF Account
<1>2. \A e \in paid : /\ e \in Nat /\ p <= e /\ e < p + k /\ e < cur
                      /\ epochs[e].balanceLocked[u] # 0
  BY StakeTypes DEF Payable
<1> HIDE DEF cur, p, k, paid
<1>3. ASSUME NEW first \in Nat, NEW n \in Nat, paid \subseteq first .. first + n - 1
      PROVE  Cardinality(paid) \in Nat /\ Cardinality(paid) <= n
  <2>1. /\ IsFiniteSet(first .. first + n - 1)
        /\ Cardinality(first .. first + n - 1) = n
    BY WindowSize
  <2>2. IsFiniteSet(paid) /\ Cardinality(paid) <= n
    BY <1>3, <2>1, FS_Subset
  <2> QED BY <2>2, FS_CardinalityType
<1>4. Cardinality(paid) \in Nat /\ Cardinality(paid) <= k
  <2>1. paid \subseteq p .. p + k - 1
    BY <1>1, <1>2
  <2> QED BY <1>1, <1>3, <2>1
<1>5. Cardinality(paid) <= cur - p
  <2>1. paid \subseteq p .. p + (cur - p) - 1 /\ cur - p \in Nat
    BY <1>1, <1>2
  <2> QED BY <1>1, <1>3, <2>1
<1>6. ASSUME p < cur, epochs[p].balanceLocked[u] = 0
      PROVE  Cardinality(paid) <= cur - p - 1
  <2>1. /\ paid \subseteq (p + 1) .. (p + 1) + (cur - p - 1) - 1
        /\ p + 1 \in Nat /\ cur - p - 1 \in Nat
    BY <1>1, <1>2, <1>6
  <2> QED BY <1>3, <2>1
<1> QED BY <1>4, <1>5, <1>6 DEF cur, p, k, paid

(* The modifier keeps the stakes that are left within the lock that is     *)
(* left: it takes from lockEpochs no more than the epochs it passes.       *)
LEMMA UpdatedCovers ==
  ASSUME IInv, NEW u \in Users, PaidFrom(u) <= SyncedEpoch,
         Covers(epochs, u, accounts[u], PaidFrom(u))
  PROVE  /\ Covers(epochs, u, UpdatedAccount(u), SyncedEpoch)
         /\ UpdatedAccount(u).balance = accounts[u].balance
         /\ UpdatedAccount(u).lockEpochs \in Nat
         /\ UpdatedAccount(u).lastEpochPaid = SyncedEpoch
<1> DEFINE cur == SyncedEpoch
           p == PaidFrom(u)
           a == accounts[u]
           b == UpdatedAccount(u)
           n == Cardinality(Payable(u, cur))
<1>1. /\ a \in Account /\ a.lockEpochs \in Nat /\ a.lockStart \in Nat
      /\ cur \in EpochId /\ cur \in Nat /\ p \in Nat /\ EpochId \subseteq Nat
      /\ p <= cur /\ p \in EpochId
      /\ \A e \in EpochId : epochs[e].balanceLocked[u] \in Nat
  <2>1. /\ a \in Account /\ cur \in EpochId /\ cur \in Nat /\ p \in Nat
        /\ EpochId \subseteq Nat /\ p <= cur
        /\ \A e \in EpochId : epochs[e].balanceLocked[u] \in Nat
    BY StakeTypes
  <2>2. p \in EpochId
    <3>1. p # 0
      BY StakeTypes
    <3> HIDE DEF p, cur
    <3> QED BY <2>1, <3>1, LockRewardsAssumption DEF EpochId
  <2> QED BY <2>1, <2>2 DEF Account
<1>2. /\ n \in Nat /\ n <= a.lockEpochs /\ n <= cur - p
      /\ p < cur /\ epochs[p].balanceLocked[u] = 0 => n <= cur - p - 1
  BY PaidCount
<1>3. /\ b.balance = a.balance /\ b.lockStart = a.lockStart
      /\ b.lockEpochs = a.lockEpochs - n /\ b.lastEpochPaid = cur
  BY <1>1 DEF UpdatedAccount, Account
<1>4. /\ \A e \in EpochId : p <= e => epochs[e].balanceLocked[u] <= a.balance
      /\ CountsFrom(epochs, u, a, p) \/ CountsFromNext(epochs, u, a, p)
  BY DEF Covers
<1> HIDE DEF cur, p, a, b, n
<1>5. \A e \in EpochId : cur <= e => epochs[e].balanceLocked[u] <= b.balance
  BY <1>1, <1>3, <1>4
<1>6. CASE CountsFrom(epochs, u, a, p)
  <2>1. CountsFrom(epochs, u, b, cur)
    BY <1>1, <1>2, <1>3, <1>6 DEF CountsFrom
  <2> QED BY <1>1, <1>2, <1>3, <1>5, <2>1 DEF Covers, cur, a, b
<1>7. CASE CountsFromNext(epochs, u, a, p) /\ p = cur
  <2>1. n = 0
    BY <1>1, <1>2, <1>7
  <2>2. b.lockEpochs = a.lockEpochs
    BY <1>1, <1>3, <2>1
  <2>3. CountsFromNext(epochs, u, b, cur)
    BY <1>3, <1>7, <2>2 DEF CountsFromNext
  <2> QED BY <1>1, <1>2, <1>3, <1>5, <2>3 DEF Covers, cur, a, b
<1>8. CASE CountsFromNext(epochs, u, a, p) /\ p < cur
  <2>1. epochs[p].balanceLocked[u] = 0
    BY <1>1, <1>8 DEF CountsFromNext
  <2>2. n <= cur - p - 1
    BY <1>2, <1>8, <2>1
  <2>3. CountsFrom(epochs, u, b, cur)
    BY <1>1, <1>2, <1>3, <1>8, <2>2 DEF CountsFrom, CountsFromNext
  <2> QED BY <1>1, <1>2, <1>3, <1>5, <2>3 DEF Covers, cur, a, b
<1> QED BY <1>1, <1>4, <1>6, <1>7, <1>8

(* The epochs a user call leaves behind are over.                          *)
LEMMA PassedIsOver ==
  ASSUME IInv, SyncedEpoch - 1 \in EpochId
  PROVE  epochs[SyncedEpoch - 1].finish <= now
<1> DEFINE k == SyncedEpoch - 1
<1>1. EpochId = Calendar!EpochId /\ EpochId \subseteq Nat
  BY LockRewardsAssumption DEF EpochId, Calendar!EpochId
<1>2. /\ SyncedEpoch = Calendar!SyncedEpoch /\ SyncedEpoch \in EpochId
      /\ \A e \in currentEpoch .. SyncedEpoch - 1 : Calendar!Elapsed(e)
      /\ currentEpoch \in Nat
  BY <1>1, SyncedEpochStops, CalendarAssumption, Calendar!SyncedEpochStops
     DEF IInv, Calendar!Inv, TypeOK
<1>3. Calendar!PassedAreOver
  BY DEF IInv, Calendar!Inv
<1>4. CASE k < currentEpoch
  BY <1>1, <1>3, <1>4 DEF Calendar!PassedAreOver
<1>5. CASE ~(k < currentEpoch)
  <2>1. k \in currentEpoch .. SyncedEpoch - 1
    BY <1>1, <1>2, <1>5
  <2>2. Calendar!Elapsed(k)
    BY <1>2, <2>1
  <2> QED BY <1>1, <2>2 DEF Calendar!Elapsed
<1> QED BY <1>4, <1>5

(* So the current epoch, once set, finishes within the delay from now.     *)
LEMMA CurrentInTime ==
  ASSUME IInv, FinishInTime, NEW d \in LockChoices, epochs[SyncedEpoch].isSet
  PROVE  epochs[SyncedEpoch].finish <= now + EmergencyDelay(d)
<1> DEFINE cur == SyncedEpoch
<1>1. /\ cur \in EpochId /\ now \in Nat /\ EmergencyDelay(d) \in Nat
      /\ \A e \in EpochId : epochs[e].finish \in Nat
  <2>1. cur \in EpochId
    BY CalendarFacts
  <2>2. now \in Nat /\ \A e \in EpochId : epochs[e] \in Epoch
    BY DEF IInv, TypeOK
  <2> QED BY <2>1, <2>2, DelayType DEF Epoch
<1>2. \/ epochs[cur].finish <= now + EmergencyDelay(d)
      \/ /\ cur - 1 \in EpochId
         /\ epochs[cur].finish <= epochs[cur - 1].finish + EmergencyDelay(d)
  BY <1>1 DEF FinishInTime
<1>3. CASE /\ cur - 1 \in EpochId
           /\ epochs[cur].finish <= epochs[cur - 1].finish + EmergencyDelay(d)
  <2>1. epochs[cur - 1].finish <= now
    BY <1>3, PassedIsOver
  <2> HIDE DEF cur
  <2> QED BY <1>1, <1>3, <2>1 DEF cur
<1> QED BY <1>2, <1>3

(* An account that is locked no more has no stake ahead, unless it left    *)
(* them behind: leaving takes enforceTime off, or lockEpochs down to zero. *)
LEMMA NothingAhead ==
  ASSUME NEW u, NEW a, NEW cur \in Nat, EpochId \subseteq Nat,
         \A e \in EpochId : epochs[e].balanceLocked[u] \in Nat,
         Covers(epochs, u, a, cur), a.lockEpochs = 0
  PROVE  \A e \in EpochId : cur <= e => epochs[e].balanceLocked[u] = 0
BY DEF Covers, CountsFrom, CountsFromNext

(* With no stake ahead any account covers.                                 *)
LEMMA NothingToCover ==
  ASSUME NEW eps, NEW u, NEW a \in Account, NEW cur,
         \A e \in EpochId : cur <= e => eps[e].balanceLocked[u] = 0
  PROVE  Covers(eps, u, a, cur)
BY DEF Covers, CountsFrom, Account

(* A deposit locks what it restakes.                                       *)
LEMMA DepositCovers ==
  ASSUME IInv, FinishInTime, NEW u \in Users, NEW amount \in Nat, NEW lock \in Nat,
         NEW a \in Account, NEW b, DepositFor(u, amount, lock),
         a = UpdatedAccount(u), Covers(epochs, u, a, SyncedEpoch),
         b.balance = a.balance + amount, b.lockStart = now,
         b.lockEpochs = a.lockEpochs + lock
  PROVE  Covers(epochs', u, b, SyncedEpoch)
<1> DEFINE cur == SyncedEpoch
           relocked == RelockedEpochs(cur, a.lockEpochs, b.lockEpochs)
           stake(e) == epochs[e].balanceLocked[u]
           after(e) == epochs'[e].balanceLocked[u]
<1>1. /\ a.balance \in Nat /\ a.lockEpochs \in Nat /\ b.lockEpochs \in Nat
      /\ b.balance \in Nat /\ a.balance <= b.balance
      /\ a.lockEpochs <= b.lockEpochs
      /\ cur \in EpochId /\ EpochId \subseteq Nat
      /\ \A e \in EpochId : epochs[e] \in Epoch /\ stake(e) \in Nat
  <2>1. /\ cur \in EpochId /\ EpochId \subseteq Nat
        /\ \A e \in EpochId : stake(e) \in Nat
    BY StakeTypes
  <2>2. \A e \in EpochId : epochs[e] \in Epoch
    BY DEF IInv, TypeOK
  <2> QED BY <2>1, <2>2 DEF Account
<1>2. epochs' = [e \in EpochId |->
        IF e \in relocked THEN Restaked(epochs[e], u, b.balance) ELSE epochs[e]]
  BY DEF DepositFor
<1>3. ASSUME NEW e \in EpochId
      PROVE  /\ epochs'[e].isSet = epochs[e].isSet
             /\ epochs'[e].finish = epochs[e].finish
             /\ after(e) = IF e \in relocked THEN b.balance ELSE stake(e)
  <2>1. epochs[e] \in Epoch
    BY <1>1
  <2>2. CASE e \in relocked
    <3>1. epochs'[e] = Restaked(epochs[e], u, b.balance)
      BY <1>2, <2>2
    <3> HIDE DEF relocked
    <3>2. /\ epochs'[e].isSet = epochs[e].isSet
          /\ epochs'[e].finish = epochs[e].finish
          /\ epochs'[e].balanceLocked = [epochs[e].balanceLocked EXCEPT ![u] = b.balance]
      BY <1>1, <2>1, <3>1, RestakedEpoch
    <3> QED BY <2>1, <2>2, <3>2 DEF Epoch
  <2>3. CASE e \notin relocked
    BY <1>2, <2>3
  <2> QED BY <2>2, <2>3
<1>4. \A e \in EpochId : cur <= e => stake(e) <= a.balance
  BY DEF Covers
<1>5. \A e \in EpochId : cur <= e => after(e) <= b.balance
  <2> HIDE DEF cur, relocked
  <2> SUFFICES ASSUME NEW e \in EpochId, cur <= e PROVE after(e) <= b.balance
    OBVIOUS
  <2>1. after(e) = b.balance \/ after(e) = stake(e)
    BY <1>3
  <2>2. stake(e) <= a.balance /\ stake(e) \in Nat
    BY <1>1, <1>4
  <2> HIDE DEF stake, after
  <2> QED BY <1>1, <2>1, <2>2
<1>6. \A e \in EpochId : after(e) > 0 => e \in relocked \/ stake(e) > 0
  BY <1>3
<1>7. CountsFrom(epochs, u, a, cur) \/ CountsFromNext(epochs, u, a, cur)
  BY DEF Covers
<1>8. CASE ~epochs[cur].isSet
  <2>1. relocked = cur .. cur + b.lockEpochs - 1
    BY <1>8 DEF RelockedEpochs
  <2>2. CountsFrom(epochs, u, a, cur)
    BY <1>7, <1>8 DEF CountsFromNext
  <2> HIDE DEF cur, relocked
  <2>3. /\ cur \in Nat /\ EpochId \subseteq Nat
        /\ a.lockEpochs \in Nat /\ b.lockEpochs \in Nat /\ a.lockEpochs <= b.lockEpochs
    BY <1>1
  <2>4. ASSUME NEW e \in EpochId, cur <= e, after(e) > 0
        PROVE  e < cur + b.lockEpochs
    <3>1. e \in cur .. cur + b.lockEpochs - 1 \/ e < cur + a.lockEpochs
      BY <1>6, <2>1, <2>2, <2>4 DEF CountsFrom
    <3> QED BY <2>3, <3>1
  <2>5. CountsFrom(epochs', u, b, cur)
    BY <2>4 DEF CountsFrom
  <2> QED BY <1>5, <2>5 DEF Covers, cur
<1>9. CASE epochs[cur].isSet /\ a.lockEpochs = 0
  <2>1. relocked = cur + 1 .. cur + 1 + b.lockEpochs - 1
    BY <1>9 DEF RelockedEpochs
  <2>2. \A d \in LockChoices : epochs[cur].finish <= b.lockStart + EmergencyDelay(d)
    BY <1>9, CurrentInTime
  <2>3. \A e \in EpochId : cur <= e => stake(e) = 0
    BY <1>1, <1>9, NothingAhead
  <2>4. epochs'[cur].isSet /\ epochs'[cur].finish = epochs[cur].finish
    BY <1>1, <1>3, <1>9
  <2>5. \A e \in EpochId : cur <= e /\ after(e) > 0 => e \in relocked
    BY <1>6, <2>3
  <2> HIDE DEF cur, relocked
  <2>6. cur \in Nat /\ b.lockEpochs \in Nat /\ EpochId \subseteq Nat
    BY <1>1
  <2>7. ASSUME NEW e \in EpochId, cur <= e, after(e) > 0
        PROVE  cur < e /\ e <= cur + b.lockEpochs
    <3>1. e \in cur + 1 .. cur + 1 + b.lockEpochs - 1
      BY <2>1, <2>5, <2>7
    <3> QED BY <2>6, <3>1
  <2>8. CountsFromNext(epochs', u, b, cur)
    BY <2>2, <2>4, <2>7 DEF CountsFromNext
  <2> QED BY <1>5, <2>8 DEF Covers, cur
<1>10. CASE epochs[cur].isSet /\ a.lockEpochs # 0
  <2>1. relocked = cur + 1 .. cur + 1 + (b.lockEpochs - 1) - 1
    BY <1>10 DEF RelockedEpochs
  <2>2. \A d \in LockChoices : epochs[cur].finish <= b.lockStart + EmergencyDelay(d)
    BY <1>10, CurrentInTime
  <2>3. epochs'[cur].isSet /\ epochs'[cur].finish = epochs[cur].finish
    BY <1>1, <1>3, <1>10
  <2> HIDE DEF cur, relocked
  <2>0. /\ cur \in Nat /\ EpochId \subseteq Nat
        /\ a.lockEpochs \in Nat /\ b.lockEpochs \in Nat /\ a.lockEpochs <= b.lockEpochs
        /\ \A e \in EpochId : stake(e) \in Nat
    BY <1>1
  <2>4. ASSUME NEW e \in EpochId, e \in relocked
        PROVE  cur < e /\ e < cur + b.lockEpochs
    <3>1. e \in cur + 1 .. cur + 1 + (b.lockEpochs - 1) - 1
      BY <2>1, <2>4
    <3> QED BY <2>0, <3>1
  <2>5. CASE CountsFrom(epochs, u, a, cur)
    <3>1. ASSUME NEW e \in EpochId, cur <= e, after(e) > 0
          PROVE  e < cur + b.lockEpochs
      <4>1. e \in relocked \/ e < cur + a.lockEpochs
        BY <1>6, <2>5, <3>1 DEF CountsFrom
      <4> QED BY <2>0, <2>4, <4>1
    <3>2. CountsFrom(epochs', u, b, cur)
      BY <3>1 DEF CountsFrom
    <3> QED BY <1>5, <3>2 DEF Covers, cur
  <2>6. CASE CountsFromNext(epochs, u, a, cur)
    <3>1. ASSUME NEW e \in EpochId, cur <= e, after(e) > 0
          PROVE  cur < e /\ e <= cur + b.lockEpochs
      <4>1. e \in relocked \/ (cur < e /\ e <= cur + a.lockEpochs)
        BY <1>6, <2>6, <3>1 DEF CountsFromNext
      <4> QED BY <2>0, <2>4, <4>1
    <3>2. CountsFromNext(epochs', u, b, cur)
      BY <2>2, <2>3, <3>1 DEF CountsFromNext
    <3> QED BY <1>5, <3>2 DEF Covers, cur
  <2> QED BY <1>7, <2>5, <2>6
<1> QED BY <1>8, <1>9, <1>10

(* What a user call leaves of the account, and of the stakes it covers.    *)
CoveredBy(u, b) ==
  /\ accounts' = [accounts EXCEPT ![u] = b]
  /\ b.lastEpochPaid = SyncedEpoch
  /\ Covers(epochs', u, b, SyncedEpoch)

(* A call that leaves balance and lock alone: the modifier's work counts.  *)
LEMMA SameLockCovers ==
  ASSUME NEW eps, NEW u, NEW a, NEW b, NEW cur, Covers(eps, u, a, cur),
         b.balance = a.balance, b.lockStart = a.lockStart,
         b.lockEpochs = a.lockEpochs
  PROVE  Covers(eps, u, b, cur)
BY DEF Covers, CountsFrom, CountsFromNext

(* Leaving empties the lock and touches neither of its neighbours.         *)
LEMMA LeaveFields ==
  ASSUME NEW u, NEW a \in Account, Leave(u, a)
  PROVE  \E b \in Account : /\ accounts' = [accounts EXCEPT ![u] = b]
                            /\ b.lastEpochPaid = a.lastEpochPaid
<1> DEFINE w == WithdrawFrom(a, a.balance)
<1>1. a.balance \in Nat
  BY DEF Account
<1>2. w \in Account /\ ClaimFrom(w) \in Account
  BY <1>1, AccountOperators
<1>3. w.lastEpochPaid = a.lastEpochPaid
  BY DEF WithdrawFrom, Account
<1> HIDE DEF w
<1>4. ClaimFrom(w).lastEpochPaid = w.lastEpochPaid
  BY <1>2 DEF ClaimFrom, Account
<1>5. accounts' = [accounts EXCEPT ![u] = ClaimFrom(w)]
  BY DEF Leave, w
<1> QED BY <1>2, <1>3, <1>4, <1>5

(* The emergency exit leaves no stake behind.                              *)
LEMMA EmergencyCovers ==
  ASSUME IInv, NEW u \in Users, NEW a \in Account, EmergencyExit(u),
         lockDuration \in LockChoices, a = UpdatedAccount(u),
         a.lastEpochPaid = SyncedEpoch, Covers(epochs, u, a, SyncedEpoch)
  PROVE  \A e \in EpochId : SyncedEpoch <= e => epochs'[e].balanceLocked[u] = 0
<1> DEFINE cur == SyncedEpoch
           unlocked == UnlockedEpochs(cur, a.lockEpochs)
<1>1. /\ a.lockEpochs \in Nat /\ a.lockStart \in Nat /\ now \in Nat
      /\ cur \in EpochId /\ EpochId \subseteq Nat
      /\ EmergencyDelay(lockDuration) \in Nat
      /\ \A e \in EpochId : /\ epochs[e].finish \in Nat
                            /\ epochs[e].balanceLocked \in [Users -> Nat]
  BY StakeTypes, DelayType DEF Account
<1>2. epochs' = [e \in EpochId |->
        IF e \in unlocked THEN Restaked(epochs[e], u, 0) ELSE epochs[e]]
  BY DEF EmergencyExit
<1>3. a.lockStart + EmergencyDelay(lockDuration) <= now
  BY DEF EmergencyExit, EmergencyDelay
<1>4. ~CountsFromNext(epochs, u, a, cur)
  <2> SUFFICES ASSUME CountsFromNext(epochs, u, a, cur) PROVE FALSE
    OBVIOUS
  <2>1. /\ epochs[cur].isSet
        /\ epochs[cur].finish <= a.lockStart + EmergencyDelay(lockDuration)
    BY DEF CountsFromNext
  <2>2. now < epochs[cur].finish
    BY <1>1, <2>1, EpochsAhead
  <2> HIDE DEF cur
  <2> QED BY <1>1, <1>3, <2>1, <2>2
<1>5. \A e \in EpochId : cur <= e /\ epochs[e].balanceLocked[u] > 0 => e \in unlocked
  BY <1>4 DEF Covers, CountsFrom, UnlockedEpochs
<1> SUFFICES ASSUME NEW e \in EpochId, cur <= e
             PROVE  epochs'[e].balanceLocked[u] = 0
  OBVIOUS
<1> HIDE DEF cur, unlocked
<1>6. CASE e \in unlocked
  <2>1. epochs[e] \in Epoch
    BY DEF IInv, TypeOK
  <2>2. epochs'[e].balanceLocked = [epochs[e].balanceLocked EXCEPT ![u] = 0]
    BY <1>2, <1>6, <2>1, RestakedEpoch
  <2> QED BY <1>1, <2>2
<1>7. CASE e \notin unlocked
  BY <1>1, <1>2, <1>5, <1>7
<1> QED BY <1>6, <1>7

(* Nobody is paid beyond the epoch the calendar stops at.                  *)
LEMMA PaidBehind ==
  ASSUME IInv, LocksCover, NEW u \in Users
  PROVE  PaidFrom(u) <= SyncedEpoch /\ SyncedEpoch \in Nat
<1> DEFINE cur == SyncedEpoch
<1>1. /\ PaidFrom(u) <= currentEpoch /\ currentEpoch <= cur
      /\ PaidFrom(u) \in Nat /\ currentEpoch \in Nat /\ cur \in Nat
  BY StakeTypes, CalendarFacts DEF LocksCover, IInv, TypeOK
<1> HIDE DEF cur
<1>2. PaidFrom(u) <= cur /\ cur \in Nat
  BY <1>1
<1> QED BY <1>2 DEF cur

(* What the body of a call finds once the modifiers have run.              *)
LEMMA ModifierCovers ==
  ASSUME IInv, LocksCover, NEW u \in Users, UpdateEpochAndReward(u)
  PROVE  /\ UpdatedAccount(u) \in Account
         /\ UpdatedAccount(u).lastEpochPaid = SyncedEpoch
         /\ Covers(epochs, u, UpdatedAccount(u), SyncedEpoch)
<1>1. UpdatedAccount(u) \in Account
  BY UserFrame
<1> QED BY <1>1, PaidBehind, UpdatedCovers DEF LocksCover

(* Every user call leaves its stakes within its lock.                      *)
LEMMA UserCovers ==
  ASSUME IInv, LocksCover, enforceTime, NEW u \in Users, UserNext(u)
  PROVE  \E b : CoveredBy(u, b)
<1> DEFINE a == UpdatedAccount(u)
           cur == SyncedEpoch
<1>1. UpdateEpochAndReward(u)
  BY DEF UserNext, UpdateAccount, Deposit, Redeposit, DepositFor, Withdraw,
         ClaimRewards, ClaimReward, Exit, EmergencyExit
<1>2. /\ a \in Account /\ a.lastEpochPaid = cur
      /\ Covers(epochs, u, a, cur)
      /\ a.balance \in Nat /\ a.lockEpochs \in Nat
  BY <1>1, ModifierCovers DEF Account
<1>3. /\ cur \in Nat /\ EpochId \subseteq Nat
      /\ \A e \in EpochId : epochs[e].balanceLocked[u] \in Nat
  BY StakeTypes
<1> HIDE DEF a, cur
<1>4. ASSUME UNCHANGED epochs, NEW b, accounts' = [accounts EXCEPT ![u] = b],
             b.balance = a.balance, b.lockStart = a.lockStart,
             b.lockEpochs = a.lockEpochs, b.lastEpochPaid = a.lastEpochPaid
      PROVE  CoveredBy(u, b)
  <2>1. Covers(epochs', u, b, cur)
    BY <1>2, <1>4, SameLockCovers
  <2> QED BY <1>2, <1>4, <2>1 DEF CoveredBy, cur
<1>5. ASSUME NEW b \in Account, accounts' = [accounts EXCEPT ![u] = b],
             b.lastEpochPaid = a.lastEpochPaid,
             \A e \in EpochId : cur <= e => epochs'[e].balanceLocked[u] = 0
      PROVE  CoveredBy(u, b)
  <2>1. Covers(epochs', u, b, cur)
    BY <1>5, NothingToCover
  <2> QED BY <1>2, <1>5, <2>1 DEF CoveredBy, cur
<1>6. ASSUME a.lockEpochs = 0
      PROVE  \A e \in EpochId : cur <= e => epochs[e].balanceLocked[u] = 0
  BY <1>2, <1>3, <1>6, NothingAhead
<1>7. CASE UpdateAccount(u)
  BY <1>4, <1>7 DEF UpdateAccount, a
<1>8. ASSUME NEW amount \in Nat, NEW lock \in Nat, DepositFor(u, amount, lock)
      PROVE  \E b : CoveredBy(u, b)
  <2> DEFINE b == [a EXCEPT !.balance = a.balance + amount, !.lockEpochs = @ + lock,
                            !.lockStart = now]
  <2>1. accounts' = [accounts EXCEPT ![u] = b]
    BY <1>8 DEF DepositFor, a
  <2>2. /\ b.balance = a.balance + amount /\ b.lockStart = now
        /\ b.lockEpochs = a.lockEpochs + lock /\ b.lastEpochPaid = a.lastEpochPaid
    BY <1>2 DEF Account
  <2> HIDE DEF b
  <2>3. Covers(epochs', u, b, cur)
    BY <1>2, <1>8, <2>2, DepositCovers DEF LocksCover, a, cur
  <2> QED BY <1>2, <2>1, <2>2, <2>3 DEF CoveredBy, cur
<1>9. CASE \E amount \in Amounts : Deposit(u, amount) \/ Redeposit(u, amount)
  <2>1. Amounts \subseteq Nat /\ lockDuration \in Nat /\ 0 \in Nat
    BY LockRewardsAssumption DEF IInv, TypeOK
  <2> QED BY <1>8, <1>9, <2>1 DEF Deposit, Redeposit
<1>10. ASSUME NEW amount \in Amounts, Withdraw(u, amount)
       PROVE  \E b : CoveredBy(u, b)
  <2> DEFINE b == WithdrawFrom(a, amount)
  <2>1. /\ accounts' = [accounts EXCEPT ![u] = b] /\ UNCHANGED epochs
        /\ Withdrawable(a, amount) /\ amount \in Nat
    BY <1>10, LockRewardsAssumption DEF Withdraw, a
  <2>2. a.lockEpochs = 0 /\ amount <= a.balance
    BY <1>2, <2>1 DEF Withdrawable
  <2>3. b.lastEpochPaid = a.lastEpochPaid /\ b \in Account
    BY <1>2, <2>1, <2>2 DEF WithdrawFrom, Account
  <2> HIDE DEF b
  <2>4. \A e \in EpochId : cur <= e => epochs'[e].balanceLocked[u] = 0
    BY <1>6, <2>1, <2>2
  <2> QED BY <1>5, <2>1, <2>3, <2>4
<1>11. CASE ClaimRewards(u)
  <2>1. accounts' = [accounts EXCEPT ![u] = ClaimFrom(a)] /\ UNCHANGED epochs
    BY <1>11 DEF ClaimRewards, a
  <2>2. /\ ClaimFrom(a).balance = a.balance /\ ClaimFrom(a).lockStart = a.lockStart
        /\ ClaimFrom(a).lockEpochs = a.lockEpochs
        /\ ClaimFrom(a).lastEpochPaid = a.lastEpochPaid
    BY <1>2 DEF ClaimFrom, Account
  <2> QED BY <1>4, <2>1, <2>2
<1>12. ASSUME NEW t \in Tokens, ClaimReward(u, t)
       PROVE  \E b : CoveredBy(u, b)
  <2> DEFINE b == [a EXCEPT !.rewards[t] = 0]
  <2>1. accounts' = [accounts EXCEPT ![u] = b] /\ UNCHANGED epochs
    BY <1>12 DEF ClaimReward, a
  <2>2. /\ b.balance = a.balance /\ b.lockStart = a.lockStart
        /\ b.lockEpochs = a.lockEpochs /\ b.lastEpochPaid = a.lastEpochPaid
    BY <1>2 DEF Account
  <2> HIDE DEF b
  <2> QED BY <1>4, <2>1, <2>2
<1>13. CASE Exit(u)
  <2>1. Leave(u, a) /\ UNCHANGED epochs
    BY <1>13 DEF Exit, a
  <2>2. a.lockEpochs = 0
    BY <1>2, <2>1 DEF Leave, Withdrawable
  <2>3. PICK b \in Account : /\ accounts' = [accounts EXCEPT ![u] = b]
                             /\ b.lastEpochPaid = a.lastEpochPaid
    BY <1>2, <2>1, LeaveFields
  <2>4. \A e \in EpochId : cur <= e => epochs'[e].balanceLocked[u] = 0
    BY <1>6, <2>1, <2>2
  <2> QED BY <1>5, <2>3, <2>4
<1>14. CASE EmergencyExit(u)
  <2> DEFINE unlockedAccount == [a EXCEPT !.lockEpochs = 0]
  <2>1. Leave(u, unlockedAccount)
    BY <1>14, Zenon DEF EmergencyExit, a
  <2>2. /\ unlockedAccount \in Account
        /\ unlockedAccount.lastEpochPaid = a.lastEpochPaid
    BY <1>2 DEF Account
  <2> HIDE DEF unlockedAccount
  <2>3. PICK b \in Account : /\ accounts' = [accounts EXCEPT ![u] = b]
                             /\ b.lastEpochPaid = a.lastEpochPaid
    BY <2>1, <2>2, LeaveFields
  <2>4. \A e \in EpochId : cur <= e => epochs'[e].balanceLocked[u] = 0
    BY <1>2, <1>14, EmergencyCovers DEF LocksCover, a, cur
  <2> QED BY <1>5, <2>3, <2>4
<1> QED BY <1>7, <1>9, <1>10, <1>11, <1>12, <1>13, <1>14 DEF UserNext

(* Cover depends on the user's stakes and on the dates of the set epochs.  *)
LEMMA SameStakesCover ==
  ASSUME NEW eps, NEW new, NEW u, NEW a, NEW first \in EpochId,
         Covers(eps, u, a, first),
         \A e \in EpochId :
           /\ new[e].balanceLocked[u] = eps[e].balanceLocked[u]
           /\ eps[e].isSet => new[e].isSet /\ new[e].finish = eps[e].finish
  PROVE  Covers(new, u, a, first)
BY DEF Covers, CountsFrom, CountsFromNext

(* A user call restakes for its caller only.                               *)
LEMMA OthersKeepStakes ==
  ASSUME IInv, NEW u \in Users, UserNext(u), NEW v \in Users, v # u
  PROVE  \A e \in EpochId : epochs'[e].balanceLocked[v] = epochs[e].balanceLocked[v]
<1>1. \A e \in EpochId : epochs[e] \in Epoch
  BY DEF IInv, TypeOK
<1>2. ASSUME NEW moved, NEW newBalance,
             epochs' = [e \in EpochId |->
               IF e \in moved THEN Restaked(epochs[e], u, newBalance) ELSE epochs[e]]
      PROVE  \A e \in EpochId :
               epochs'[e].balanceLocked[v] = epochs[e].balanceLocked[v]
  BY <1>1, <1>2 DEF Restaked, Epoch
<1>3. ASSUME NEW amount, NEW lock, DepositFor(u, amount, lock)
      PROVE  \A e \in EpochId :
               epochs'[e].balanceLocked[v] = epochs[e].balanceLocked[v]
  <2>1. PICK moved, newBalance : epochs' = [e \in EpochId |->
          IF e \in moved THEN Restaked(epochs[e], u, newBalance) ELSE epochs[e]]
    BY <1>3 DEF DepositFor
  <2> QED BY <1>2, <2>1
<1>4. ASSUME EmergencyExit(u)
      PROVE  \A e \in EpochId :
               epochs'[e].balanceLocked[v] = epochs[e].balanceLocked[v]
  <2>1. PICK moved : epochs' = [e \in EpochId |->
          IF e \in moved THEN Restaked(epochs[e], u, 0) ELSE epochs[e]]
    BY <1>4, Zenon DEF EmergencyExit
  <2> QED BY <1>2, <2>1
<1>5. \/ UNCHANGED epochs
      \/ \E amount, lock : DepositFor(u, amount, lock)
      \/ EmergencyExit(u)
  BY DEF UserNext, UpdateAccount, Deposit, Redeposit, Withdraw, ClaimRewards,
         ClaimReward, Exit
<1> QED BY <1>3, <1>4, <1>5

(* The clock and unchanged dates keep every epoch in time.                 *)
LEMMA TimePasses ==
  ASSUME IInv, FinishInTime, EpochDatesSame, now' \in Nat, now <= now'
  PROVE  FinishInTime'
<1>1. ASSUME NEW e \in EpochId, NEW d \in LockChoices, epochs'[e].isSet
      PROVE  \/ epochs'[e].finish <= now' + EmergencyDelay(d)
             \/ /\ e - 1 \in EpochId
                /\ epochs'[e].finish <= epochs'[e - 1].finish + EmergencyDelay(d)
  <2>1. /\ EmergencyDelay(d) \in Nat /\ now \in Nat
        /\ epochs[e].finish \in Nat
    <3>1. epochs[e] \in Epoch /\ now \in Nat
      BY DEF IInv, TypeOK
    <3> QED BY <3>1, DelayType DEF Epoch
  <2>2. /\ epochs'[e].finish = epochs[e].finish /\ epochs[e].isSet
        /\ e - 1 \in EpochId => epochs'[e - 1].finish = epochs[e - 1].finish
    BY <1>1 DEF EpochDatesSame
  <2>3. \/ epochs[e].finish <= now + EmergencyDelay(d)
        \/ /\ e - 1 \in EpochId
           /\ epochs[e].finish <= epochs[e - 1].finish + EmergencyDelay(d)
    BY <2>2 DEF FinishInTime
  <2> QED BY <2>1, <2>2, <2>3
<1> QED BY <1>1 DEF FinishInTime, EpochId, LockChoices, EmergencyDelay

(* A new epoch is no longer than the delay, from now or from the last one. *)
LEMMA NewEpochInTime ==
  ASSUME EpochsWithinDelay, IInv, FinishInTime, NEW values,
         NEW days \in Durations, NEW delay \in StartDelays,
         SetNextEpoch(values, days, delay)
  PROVE  FinishInTime'
<1> DEFINE next == nextUnsetEpoch
           from == StartOf(SyncedEpoch, now + delay)
<1>1. /\ next \in EpochId /\ EpochId \subseteq Nat \ {0} /\ now \in Nat
      /\ epochs \in [EpochId -> Epoch]
      /\ \A e \in EpochId : epochs[e].finish \in Nat
      /\ SyncedEpoch \in EpochId /\ SyncedEpoch <= next
      /\ delay \in Nat /\ days * Day \in Nat
  <2>1. /\ EpochId \subseteq Nat \ {0} /\ delay \in Nat /\ days \in Nat /\ Day \in Nat
    BY LockRewardsAssumption DEF EpochId
  <2>2. /\ next \in EpochId /\ now \in Nat /\ epochs \in [EpochId -> Epoch]
    BY DEF IInv, TypeOK
  <2>3. \A e \in EpochId : epochs[e].finish \in Nat
    BY <2>2 DEF Epoch
  <2> QED BY <2>1, <2>2, <2>3, ProductNat, CalendarFacts
<1>2. PICK tokens, funding :
        epochs' = [epochs EXCEPT ![next] =
          [@ EXCEPT !.start = from, !.finish = from + days * Day,
                    !.tokens = tokens, !.rewards = funding, !.isSet = TRUE]]
  BY DEF SetNextEpoch
<1>3. now' = now
  BY DEF SetNextEpoch
<1>4. \/ from = now + delay
      \/ next - 1 \in EpochId /\ from = epochs[next - 1].finish + 1
  <2>1. SyncedEpoch = next \/ next - 1 \in EpochId
    BY <1>1, LockRewardsAssumption DEF EpochId
  <2> QED BY <2>1 DEF StartOf
<1> HIDE DEF next, from
<1>5. /\ epochs'[next].finish = from + days * Day
      /\ \A e \in EpochId : e # next => epochs'[e] = epochs[e]
  BY <1>1, <1>2 DEF Epoch
<1>6. ASSUME NEW e \in EpochId, NEW d \in LockChoices, epochs'[e].isSet
      PROVE  \/ epochs'[e].finish <= now' + EmergencyDelay(d)
             \/ /\ e - 1 \in EpochId
                /\ epochs'[e].finish <= epochs'[e - 1].finish + EmergencyDelay(d)
  <2>1. /\ EmergencyDelay(d) \in Nat
        /\ delay + days * Day <= EmergencyDelay(d)
        /\ 1 + days * Day <= EmergencyDelay(d)
    BY DelayType DEF EpochsWithinDelay
  <2>2. CASE e = next
    <3>1. next - 1 # next
      BY <1>1
    <3> DEFINE length == days * Day
    <3>2. length \in Nat
      BY <1>1
    <3>3. epochs'[next].finish = from + length
      BY <1>5
    <3>4. delay + length <= EmergencyDelay(d) /\ 1 + length <= EmergencyDelay(d)
      BY <2>1
    <3> HIDE DEF length
    <3>5. CASE from = now + delay
      BY <1>1, <1>3, <2>1, <2>2, <3>2, <3>3, <3>4, <3>5
    <3>6. CASE next - 1 \in EpochId /\ from = epochs[next - 1].finish + 1
      <4>1. epochs'[next - 1].finish = epochs[next - 1].finish
        BY <1>5, <3>1, <3>6
      <4> QED BY <1>1, <2>1, <2>2, <3>2, <3>3, <3>4, <3>6, <4>1
    <3> QED BY <1>4, <3>5, <3>6
  <2>3. CASE e # next
    <3>1. epochs[e].isSet /\ epochs'[e] = epochs[e]
      BY <1>5, <1>6, <2>3
    <3>2. e < next
      BY <3>1, CalendarFacts DEF next
    <3>3. e - 1 # next
      BY <1>1, <3>2
    <3> QED BY <1>3, <1>5, <3>1, <3>3 DEF FinishInTime
  <2> QED BY <2>2, <2>3
<1> QED BY <1>6 DEF FinishInTime, EpochId, LockChoices, EmergencyDelay

(* Every step keeps the stakes within the locks.                           *)
LEMMA NextCovers ==
  ASSUME EpochsWithinDelay, IInv, LocksCover, enforceTime, [Next]_vars
  PROVE  LocksCover'
<1>1. /\ \A u \in Users : PaidFrom(u) \in EpochId /\ accounts[u] \in Account
      /\ currentEpoch \in Nat /\ SyncedEpoch \in Nat /\ SyncedEpoch # 0
      /\ currentEpoch <= SyncedEpoch
      /\ accounts \in [Users -> Account] /\ now \in Nat
  <2>1. /\ SyncedEpoch \in Nat /\ SyncedEpoch # 0 /\ currentEpoch <= SyncedEpoch
    BY CalendarFacts, LockRewardsAssumption DEF EpochId
  <2>2. /\ accounts \in [Users -> Account] /\ now \in Nat
        /\ currentEpoch \in EpochId
    BY DEF IInv, TypeOK
  <2>3. ASSUME NEW u \in Users PROVE PaidFrom(u) \in EpochId
    <3>1. PaidFrom(u) \in Nat \ {0} /\ PaidFrom(u) <= currentEpoch
      BY StakeTypes DEF LocksCover
    <3> QED BY <2>2, <3>1, LockRewardsAssumption DEF EpochId
  <2> QED BY <2>1, <2>2, <2>3, LockRewardsAssumption DEF EpochId
<1>2. ASSUME UNCHANGED accounts,
             \/ UNCHANGED currentEpoch
             \/ currentEpoch' = SyncedEpoch,
             \A e \in EpochId :
               /\ epochs'[e].balanceLocked = epochs[e].balanceLocked
               /\ epochs[e].isSet => /\ epochs'[e].isSet
                                     /\ epochs'[e].finish = epochs[e].finish,
             FinishInTime', lockDuration' \in LockChoices
      PROVE  LocksCover'
  <2>1. ASSUME NEW u \in Users
        PROVE  /\ PaidFrom(u)' <= currentEpoch'
               /\ Covers(epochs', u, accounts'[u], PaidFrom(u)')
    <3>1. PaidFrom(u)' = PaidFrom(u) /\ accounts'[u] = accounts[u]
      BY <1>2 DEF PaidFrom
    <3>2. PaidFrom(u) <= currentEpoch /\ Covers(epochs, u, accounts[u], PaidFrom(u))
      BY DEF LocksCover
    <3>3. Covers(epochs', u, accounts[u], PaidFrom(u))
      BY <1>1, <1>2, <3>2, SameStakesCover
    <3>4. PaidFrom(u) \in Nat
      BY StakeTypes
    <3>5. PaidFrom(u) <= currentEpoch'
      BY <1>1, <1>2, <3>2, <3>4
    <3> QED BY <3>1, <3>3, <3>5
  <2> QED BY <1>2, <2>1 DEF LocksCover, LockChoices
<1>3. ASSUME NEW u \in Users, UserNext(u) PROVE LocksCover'
  <2>1. EpochDatesSame /\ UNCHANGED now /\ currentEpoch' = SyncedEpoch
    BY <1>3, UserCalendar DEF IInv
  <2>2. UpdateEpochAndReward(u)
    BY <1>3 DEF UserNext, UpdateAccount, Deposit, Redeposit, DepositFor, Withdraw,
         ClaimRewards, ClaimReward, Exit, EmergencyExit
  <2>3. lockDuration' \in LockChoices
    BY <2>2 DEF UpdateEpochAndReward, settingVars, LocksCover
  <2>4. FinishInTime'
    BY <1>1, <2>1, TimePasses DEF LocksCover
  <2>5. PICK b : CoveredBy(u, b)
    BY <1>3, UserCovers
  <2>6. ASSUME NEW v \in Users
        PROVE  /\ PaidFrom(v)' <= currentEpoch'
               /\ Covers(epochs', v, accounts'[v], PaidFrom(v)')
    <3>1. CASE v = u
      <4>1. accounts'[v] = b
        BY <1>1, <2>5, <3>1 DEF CoveredBy
      <4>2. PaidFrom(v)' = SyncedEpoch
        BY <1>1, <2>5, <4>1 DEF PaidFrom, CoveredBy
      <4> QED BY <1>1, <2>1, <2>5, <3>1, <4>1, <4>2 DEF CoveredBy
    <3>2. CASE v # u
      <4>1. accounts'[v] = accounts[v]
        BY <1>1, <2>5, <3>2 DEF CoveredBy
      <4>2. PaidFrom(v)' = PaidFrom(v)
        BY <4>1 DEF PaidFrom
      <4>3. /\ PaidFrom(v) <= currentEpoch /\ PaidFrom(v) \in Nat
            /\ Covers(epochs, v, accounts[v], PaidFrom(v))
        BY StakeTypes DEF LocksCover
      <4>4. Covers(epochs', v, accounts[v], PaidFrom(v))
        BY <1>1, <1>3, <2>1, <3>2, <4>3, OthersKeepStakes, SameStakesCover
           DEF EpochDatesSame
      <4>5. PaidFrom(v) <= currentEpoch'
        BY <1>1, <2>1, <4>3
      <4> QED BY <4>1, <4>2, <4>4, <4>5
    <3> QED BY <3>1, <3>2
  <2> QED BY <2>3, <2>4, <2>6 DEF LocksCover, LockChoices
<1>4. CASE EpochSetterNext
  <2>1. PICK values \in [DOMAIN rewardTokens -> RewardValues],
             days \in Durations, delay \in StartDelays :
               SetNextEpoch(values, days, delay)
    BY <1>4 DEF EpochSetterNext
  <2>2. FinishInTime'
    BY <2>1, NewEpochInTime DEF LocksCover
  <2>3. /\ currentEpoch' = SyncedEpoch /\ UNCHANGED <<accounts, lockDuration>>
    BY <2>1 DEF SetNextEpoch, UpdateEpoch, settingVars
  <2>4. ASSUME NEW e \in EpochId
        PROVE  /\ epochs'[e].balanceLocked = epochs[e].balanceLocked
               /\ epochs[e].isSet => /\ epochs'[e].isSet
                                     /\ epochs'[e].finish = epochs[e].finish
    <3>1. /\ ~epochs[nextUnsetEpoch].isSet
          /\ \A k \in EpochId : k # nextUnsetEpoch => epochs'[k] = epochs[k]
      BY <2>1, NewEpochRewards
    <3>2. epochs'[nextUnsetEpoch].balanceLocked = epochs[nextUnsetEpoch].balanceLocked
      <4>1. epochs \in [EpochId -> Epoch] /\ nextUnsetEpoch \in EpochId
        BY DEF IInv, TypeOK
      <4>2. PICK from, finish, tokens, funding :
              epochs' = [epochs EXCEPT ![nextUnsetEpoch] =
                [@ EXCEPT !.start = from, !.finish = finish, !.tokens = tokens,
                          !.rewards = funding, !.isSet = TRUE]]
        BY <2>1 DEF SetNextEpoch
      <4> QED BY <4>1, <4>2 DEF Epoch
    <3> QED BY <3>1, <3>2
  <2>5. lockDuration' \in LockChoices
    BY <2>3 DEF LocksCover
  <2> QED BY <1>2, <2>2, <2>3, <2>4, <2>5
<1>5. ASSUME UNCHANGED <<accounts, epochs>>, lockDuration' \in LockChoices,
             UNCHANGED currentEpoch \/ currentEpoch' = SyncedEpoch,
             now' \in Nat, now <= now'
      PROVE  LocksCover'
  <2>1. FinishInTime'
    BY <1>5, TimePasses DEF EpochDatesSame, LocksCover
  <2> QED BY <1>2, <1>5, <2>1
<1>6. CASE WorldNext
  <2>1. /\ UNCHANGED <<accounts, epochs, lockDuration, currentEpoch>>
        /\ now' = now + 1 \/ now' = now
    BY <1>6 DEF WorldNext, Tick, Fund, calendarVars, settingVars
  <2>2. lockDuration' \in LockChoices
    BY <2>1 DEF LocksCover
  <2>3. now' \in Nat /\ now <= now'
    BY <1>1, <2>1
  <2> QED BY <1>5, <2>1, <2>2, <2>3
<1>7. CASE PauseSetterNext
  <2>1. UNCHANGED <<accounts, epochs, lockDuration, currentEpoch, now>>
    BY <1>7 DEF PauseSetterNext, Pause, Unpause, calendarVars
  <2>2. lockDuration' \in LockChoices
    BY <2>1 DEF LocksCover
  <2> QED BY <1>1, <1>5, <2>1, <2>2
<1>8. CASE OwnerNext
  <2>1. /\ UNCHANGED <<accounts, epochs, now>>
        /\ UNCHANGED currentEpoch \/ currentEpoch' = SyncedEpoch
        /\ UNCHANGED lockDuration \/ lockDuration' \in LockDurations
    BY <1>8 DEF OwnerNext, SetLockDuration, SetReward, RemoveReward, RecoverERC20,
         ChangeRecoverWhitelist, ChangeEnforceTime, UpdateEpoch, calendarVars,
         settingVars
  <2>2. lockDuration' \in LockChoices
    BY <2>1 DEF LocksCover, LockChoices
  <2> QED BY <1>1, <1>5, <2>1, <2>2
<1>9. CASE UNCHANGED vars
  <2>1. UNCHANGED <<accounts, epochs, lockDuration, currentEpoch, now>>
    BY <1>9 DEF vars, calendarVars, settingVars
  <2>2. lockDuration' \in LockChoices
    BY <2>1 DEF LocksCover
  <2> QED BY <1>1, <1>5, <2>1, <2>2
<1> QED BY <1>3, <1>4, <1>6, <1>7, <1>8, <1>9 DEF Next

(* Within its lock every stake is backed.                                  *)
LEMMA CoveredIsBacked ==
  ASSUME IInv, LocksCover
  PROVE  StakesBacked
<1> SUFFICES ASSUME NEW u \in Users
             PROVE  LET ahead == {e \in EpochId : SyncedEpoch <= e /\ epochs[e].balanceLocked[u] > 0}
                    IN  /\ \A e \in ahead : epochs[e].balanceLocked[u] <= accounts[u].balance
                        /\ Cardinality(ahead) <= UpdatedAccount(u).lockEpochs
  BY DEF StakesBacked
<1> DEFINE a == UpdatedAccount(u)
           cur == SyncedEpoch
           n == a.lockEpochs
           ahead == {e \in EpochId : cur <= e /\ epochs[e].balanceLocked[u] > 0}
<1>1. PaidFrom(u) <= cur /\ cur \in Nat
  BY PaidBehind
<1>2. /\ Covers(epochs, u, a, cur) /\ n \in Nat
      /\ a.balance = accounts[u].balance
  BY <1>1, UpdatedCovers DEF LocksCover
<1>3. \A e \in ahead : epochs[e].balanceLocked[u] <= accounts[u].balance
  BY <1>2 DEF Covers
<1>4. \/ \A e \in ahead : cur <= e /\ e < cur + n
      \/ \A e \in ahead : cur < e /\ e <= cur + n
  BY <1>2 DEF Covers, CountsFrom, CountsFromNext
<1>5. ahead \subseteq Nat
  BY StakeTypes
<1> HIDE DEF n, cur, ahead
<1>6. PICK first \in Nat : ahead \subseteq first .. first + n - 1
  <2>1. \/ ahead \subseteq cur .. cur + n - 1
        \/ ahead \subseteq (cur + 1) .. (cur + 1) + n - 1
    BY <1>1, <1>2, <1>4, <1>5
  <2> QED BY <1>1, <2>1
<1>7. Cardinality(ahead) <= n
  <2>1. /\ IsFiniteSet(first .. first + n - 1)
        /\ Cardinality(first .. first + n - 1) = n
    BY <1>2, WindowSize
  <2> QED BY <1>6, <2>1, FS_Subset
<1> QED BY <1>3, <1>7 DEF n, cur, ahead

(* The locks cover the stakes as long as enforceTime stays on.             *)
LEMMA InitCovers == Init => LocksCover
<1> SUFFICES ASSUME Init PROVE LocksCover
  OBVIOUS
<1>1. lockDuration \in LockChoices
  BY DEF Init, LockChoices
<1>2. FinishInTime
  BY DEF Init, FinishInTime
<1>3. ASSUME NEW u \in Users
      PROVE  /\ PaidFrom(u) <= currentEpoch
             /\ Covers(epochs, u, accounts[u], PaidFrom(u))
  <2>1. PaidFrom(u) = 1 /\ currentEpoch = 1 /\ accounts[u] \in Account
    BY InitIInv DEF Init, PaidFrom, IInv, TypeOK
  <2>2. \A e \in EpochId : epochs[e].balanceLocked[u] = 0
    BY DEF Init
  <2>3. Covers(epochs, u, accounts[u], PaidFrom(u))
    BY <2>1, <2>2, NothingToCover
  <2> QED BY <2>1, <2>3
<1> QED BY <1>1, <1>2, <1>3 DEF LocksCover

LEMMA AlwaysCovers ==
  ASSUME EpochsWithinDelay
  PROVE  Spec /\ []enforceTime => []LocksCover
<1>1. IInv /\ LocksCover /\ enforceTime /\ [Next]_vars => LocksCover'
  BY NextCovers
<1> QED BY <1>1, InitCovers, Safety, PTL DEF Spec

(* Nobody earns on funds that left, and an account stays locked as long as *)
(* it has a stake ahead: while enforceTime stays on, whatever the owner    *)
(* does to the lock duration, if epochs are no longer than the delay of    *)
(* emergencyExit.                                                          *)
THEOREM StakesStayBacked ==
  ASSUME EpochsWithinDelay
  PROVE  Spec /\ []enforceTime => []StakesBacked
<1>1. IInv /\ LocksCover => StakesBacked
  BY CoveredIsBacked
<1> QED BY <1>1, AlwaysCovers, Safety, PTL

(* Under the same conditions the comments of emergencyExit hold: it leaves *)
(* no stake behind in an epoch to come.  Epochs longer than the delay are  *)
(* the only way, with enforceTime on, to the behaviour that contradicts    *)
(* them.                                                                   *)
THEOREM EmergencyLeavesNoStake ==
  ASSUME EpochsWithinDelay
  PROVE  Spec /\ []enforceTime => EmergencyRemovesAll
<1>1. ASSUME IInv, LocksCover, NEW u \in Users, EmergencyExit(u),
             NEW e \in EpochId, e >= currentEpoch'
      PROVE  epochs'[e].balanceLocked[u] = 0
  <2>1. UpdateEpochAndReward(u)
    BY <1>1 DEF EmergencyExit
  <2>2. currentEpoch' = SyncedEpoch /\ SyncedEpoch \in Nat /\ e \in Nat
    BY <1>1, <2>1, StakeTypes DEF UpdateEpochAndReward
  <2> DEFINE a == UpdatedAccount(u)
  <2>3. /\ a \in Account /\ a.lastEpochPaid = SyncedEpoch
        /\ Covers(epochs, u, a, SyncedEpoch)
    BY <1>1, <2>1, ModifierCovers
  <2>4. \A k \in EpochId : SyncedEpoch <= k => epochs'[k].balanceLocked[u] = 0
    BY <1>1, <2>3, EmergencyCovers DEF LocksCover
  <2> QED BY <1>1, <2>2, <2>4
<1>2. IInv /\ LocksCover =>
        [\A u \in Users : EmergencyExit(u) =>
           \A e \in EpochId :
             e >= currentEpoch' => epochs'[e].balanceLocked[u] = 0]_vars
  BY <1>1
<1> QED BY <1>2, AlwaysCovers, Safety, PTL DEF EmergencyRemovesAll
=============================================================================
