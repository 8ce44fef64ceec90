----------------------- MODULE LockRewardsFundingProofs -----------------------
(***************************************************************************)
(* What users are granted stays within what setNextEpoch announced, and    *)
(* what they are paid within what they were granted.                       *)
(*                                                                         *)
(* The sums run over users in rewardsPaid and over epochs in rewards, so   *)
(* the argument counts the same table of shares twice: the row of a user   *)
(* splits at PaidFrom into epochs paid, each at most once, and epochs      *)
(* still owed; the column of an epoch cannot exceed its rewards, because   *)
(* both divisions round down and the stakes sum to the denominator.  The   *)
(* inductive part is GrantsWithinPast: the epochs before PaidFrom cover    *)
(* rewardsPaid, and no call changes a stake in them any more.              *)
(***************************************************************************)
EXTENDS LockRewardsLedgerProofs

(* Rounding down.                                                          *)
LEMMA DivisionBound == \A a \in Nat, n \in Nat \ {0} : (a \div n) * n <= a
OBVIOUS

(* A common factor cancels in an inequality.                               *)
LEMMA CancelFactor ==
  \A a, b \in Nat, n \in Nat \ {0} : a * n <= b * n => a <= b
OBVIOUS

(* Multiplying keeps an inequality.                                        *)
LEMMA ProductMonotone ==
  \A a, b, n \in Nat : a <= b => a * n <= b * n
OBVIOUS

(* The part k/n of every value, rounded down.                              *)
Portions(D, f, k, n) == [x \in D |-> (f[x] * k) \div n]

(* Together the parts are at most k/n of the sum.                          *)
LEMMA Apportioned ==
  ASSUME NEW D, IsFiniteSet(D), NEW f \in [D -> Nat],
         NEW k \in Nat, NEW n \in Nat \ {0}
  PROVE  /\ Portions(D, f, k, n) \in [D -> Nat]
         /\ SumOver(Portions(D, f, k, n)) * n <= SumOver(f) * k
<1> DEFINE part == [x \in D |-> (f[x] * k) \div n]
           back == [x \in D |-> part[x] * n]
           whole == [x \in D |-> f[x] * k]
<1>1. \A x \in D : f[x] * k \in Nat
  BY ProductNat
<1>2. ASSUME NEW x \in D
      PROVE  /\ part[x] \in Nat /\ back[x] \in Nat /\ whole[x] \in Nat
             /\ back[x] <= whole[x]
  <2> DEFINE m == f[x] * k
  <2>1. m \in Nat
    BY <1>1
  <2> HIDE DEF m
  <2>2. m \div n \in Nat
    BY <2>1, QuotientNat
  <2>3. (m \div n) * n \in Nat /\ (m \div n) * n <= m
    BY <2>1, <2>2, ProductNat, DivisionBound
  <2> QED BY <2>1, <2>2, <2>3 DEF m
<1>3. part \in [D -> Nat] /\ back \in [D -> Nat] /\ whole \in [D -> Nat]
  BY <1>2
<1>4. \A x \in D : back[x] <= whole[x]
  BY <1>2
<1>5. SumOver(whole) = SumOver(f) * k
  BY SumScale
<1> HIDE DEF part
<1>6. SumOver(back) = SumOver(part) * n
  BY <1>3, SumScale
<1> HIDE DEF back, whole
<1>7. SumOver(back) <= SumOver(whole)
  BY <1>3, <1>4, SumMonotone
<1>8. part \in [D -> Nat] /\ SumOver(part) * n <= SumOver(f) * k
  BY <1>3, <1>5, <1>6, <1>7
<1> QED BY <1>8 DEF part, Portions

(* Shares are portions of the unit, rewards portions of the shares: the    *)
(* two roundings together pay no more than the reward.                     *)
LEMMA SharesWithin ==
  ASSUME NEW D, IsFiniteSet(D), NEW stake \in [D -> Nat],
         NEW total \in Nat \ {0}, total = SumOver(stake),
         NEW scale \in Nat \ {0}, NEW reward \in Nat
  PROVE  LET value == Portions(D, Portions(D, stake, scale, total), reward, scale)
         IN  value \in [D -> Nat] /\ SumOver(value) <= reward
<1> DEFINE share == Portions(D, stake, scale, total)
           value == Portions(D, share, reward, scale)
<1>1. share \in [D -> Nat] /\ SumOver(share) * total <= total * scale
  BY Apportioned
<1> HIDE DEF share
<1>2. value \in [D -> Nat] /\ SumOver(value) * scale <= SumOver(share) * reward
  BY <1>1, Apportioned
<1> HIDE DEF value
<1>3. SumOver(share) \in Nat /\ SumOver(value) \in Nat
  BY <1>1, <1>2, SumType
<1>4. SumOver(share) <= scale
  <2>1. SumOver(share) * total <= scale * total
    BY <1>1, <1>3
  <2> QED BY <1>3, <2>1, CancelFactor
<1>5. SumOver(value) * scale <= reward * scale
  <2>1. SumOver(share) * reward <= scale * reward
    BY <1>3, <1>4, ProductMonotone
  <2>2. /\ SumOver(value) * scale \in Nat /\ SumOver(share) * reward \in Nat
        /\ scale * reward \in Nat /\ scale * reward = reward * scale
    BY <1>3, ProductNat
  <2> QED BY <1>2, <2>1, <2>2
<1>6. SumOver(value) <= reward
  BY <1>3, <1>5, CancelFactor
<1> QED BY <1>2, <1>6 DEF share, value
-----------------------------------------------------------------------------
(* The value of a stake in an epoch, for the users together.               *)

(* There are finitely many epochs.                                         *)
LEMMA EpochIds == IsFiniteSet(EpochId) /\ EpochId \subseteq Nat
<1>1. MaxEpoch \in Nat /\ EpochId \subseteq Nat
  BY LockRewardsAssumption DEF EpochId
<1>2. IsFiniteSet(EpochId)
  BY <1>1, FS_Interval DEF EpochId
<1> QED BY <1>1, <1>2

(* No epoch is worth more to its users than what it was given.             *)
LEMMA EpochPaysWithin ==
  ASSUME TypeOK, LockedSums, NEW e \in EpochId, NEW t \in Tokens
  PROVE  /\ \A u \in Users : ShareValue(u, e, t) \in Nat
         /\ SumOver([u \in Users |-> ShareValue(u, e, t)]) <= epochs[e].rewards[t]
<1> DEFINE stake == epochs[e].balanceLocked
           total == epochs[e].totalLocked
           reward == epochs[e].rewards[t]
           worth == [u \in Users |-> ShareValue(u, e, t)]
<1>1. /\ stake \in [Users -> Nat] /\ total \in Nat /\ reward \in Nat
      /\ total = SumOver(stake) /\ Scale \in Nat \ {0} /\ IsFiniteSet(Users)
  <2>1. epochs[e] \in Epoch
    BY DEF TypeOK
  <2> QED BY <2>1, LockRewardsAssumption DEF Epoch, LockedSums
<1>2. \A u \in Users : worth[u] =
        IF stake[u] = 0 THEN 0
        ELSE (((stake[u] * Scale) \div total) * reward) \div Scale
  BY DEF ShareValue
<1>3. CASE total = 0
  <2>1. \A u \in Users : stake[u] = 0
    <3> SUFFICES ASSUME NEW u \in Users PROVE stake[u] = 0
      OBVIOUS
    <3> HIDE DEF stake, total
    <3>1. stake[u] <= SumOver(stake)
      BY <1>1, SumTerm
    <3>2. stake[u] \in Nat
      BY <1>1
    <3> QED BY <1>1, <1>3, <3>1, <3>2
  <2>2. \A u \in Users : worth[u] = 0
    <3> HIDE DEF worth, stake, total, reward
    <3> QED BY <1>2, <2>1
  <2>3. SumOver(worth) = 0
    <3> HIDE DEF stake, total, reward
    <3> QED BY <2>2, SumZero
  <2>4. \A u \in Users : ShareValue(u, e, t) = 0
    BY <2>2
  <2>5. SumOver(worth) <= reward
    <3> HIDE DEF worth, total, stake, reward
    <3> QED BY <1>1, <2>3
  <2> QED BY <2>4, <2>5
<1>4. CASE total # 0
  <2> DEFINE value == Portions(Users, Portions(Users, stake, Scale, total),
                               reward, Scale)
  <2>1. value \in [Users -> Nat] /\ SumOver(value) <= reward
    <3> HIDE DEF stake, total, reward
    <3> QED BY <1>1, <1>4, SharesWithin
  <2>2. \A u \in Users : worth[u] = IF stake[u] = 0 THEN 0 ELSE value[u]
    <3> HIDE DEF worth, stake, total, reward
    <3> QED BY <1>2 DEF Portions
  <2>3. DOMAIN worth = Users /\ worth = [u \in Users |-> worth[u]]
    OBVIOUS
  <2> HIDE DEF worth, stake, total, reward, value
  <2>4. worth \in [Users -> Nat] /\ \A u \in Users : worth[u] <= value[u]
    BY <1>1, <2>1, <2>2, <2>3
  <2>5. SumOver(worth) <= SumOver(value)
    BY <1>1, <2>1, <2>4, SumMonotone
  <2>6. SumOver(worth) \in Nat /\ SumOver(value) \in Nat
    BY <1>1, <2>1, <2>4, SumType
  <2>7. SumOver(worth) <= reward
    BY <1>1, <2>1, <2>5, <2>6
  <2> QED BY <2>4, <2>7 DEF worth, reward
<1> QED BY <1>3, <1>4

-----------------------------------------------------------------------------
(* What each user was granted comes from epochs before PaidFrom, at most   *)
(* once each.                                                              *)

Before(last) == {e \in EpochId : e < last}

(* A later limit leaves more epochs before it.                             *)
LEMMA BeforeGrows ==
  ASSUME NEW first \in Nat, NEW last \in Nat, first <= last
  PROVE  Before(first) \in SUBSET Before(last) /\ last \notin Before(first)
<1>1. ASSUME NEW e \in EpochId, e < first PROVE e < last
  <2>1. e \in Nat
    BY EpochIds
  <2> QED BY <1>1, <2>1
<1>2. ~(last < first)
  OBVIOUS
<1> QED BY <1>1, <1>2 DEF Before

PaidOut(u, t) == SumOver([e \in Before(PaidFrom(u)) |-> ShareValue(u, e, t)])

GrantsWithinPast ==
  /\ \A u \in Users : PaidFrom(u) <= currentEpoch
  /\ \A t \in Tokens :
       rewardsPaid[t] <= SumOver([u \in Users |-> PaidOut(u, t)])

(* The parts of a user's epochs have sums, and disjoint ones do not exceed *)
(* the whole.                                                              *)
LEMMA PartsOfWorth ==
  ASSUME TypeOK, LockedSums, NEW u \in Users, NEW t \in Tokens,
         NEW D \in SUBSET EpochId
  PROVE  /\ SumOver([e \in D |-> ShareValue(u, e, t)]) \in Nat
         /\ \A P, Q \in SUBSET D : P \cap Q = {} =>
              SumOver([e \in P |-> ShareValue(u, e, t)]) +
              SumOver([e \in Q |-> ShareValue(u, e, t)]) <=
              SumOver([e \in D |-> ShareValue(u, e, t)])
<1> DEFINE f == [e \in D |-> ShareValue(u, e, t)]
<1>1. IsFiniteSet(D)
  BY EpochIds, FS_Subset
<1>2. f \in [D -> Nat]
  BY EpochPaysWithin
<1>3. ASSUME NEW P \in SUBSET D, NEW Q \in SUBSET D, P \cap Q = {}
      PROVE  SumOver([e \in P |-> ShareValue(u, e, t)]) +
             SumOver([e \in Q |-> ShareValue(u, e, t)]) <= SumOver(f)
  <2>1. /\ [e \in P |-> ShareValue(u, e, t)] = [e \in P |-> f[e]]
        /\ [e \in Q |-> ShareValue(u, e, t)] = [e \in Q |-> f[e]]
    OBVIOUS
  <2> HIDE DEF f
  <2>2. SumOver([e \in P |-> f[e]]) + SumOver([e \in Q |-> f[e]]) <= SumOver(f)
    BY <1>1, <1>2, <1>3, SumSplit
  <2> QED BY <2>1, <2>2
<1>4. SumOver(f) \in Nat
  <2> HIDE DEF f
  <2> QED BY <1>1, <1>2, SumType
<1> QED BY <1>3, <1>4

(* By rows the table is at least what was paid and is owed, by columns at  *)
(* most what was announced.                                                *)
LEMMA WithinFunding ==
  ASSUME TypeOK, LockedSums, AnnouncedTotals, GrantsWithinPast
  PROVE  OwedWithinFunding
<1> SUFFICES ASSUME NEW t \in Tokens
             PROVE  rewardsPaid[t] + SumOver([u \in Users |-> Owed(u, t)])
                      <= rewards[t]
  BY DEF OwedWithinFunding
<1> DEFINE paid == [u \in Users |-> PaidOut(u, t)]
           owed == [u \in Users |-> Owed(u, t)]
           both == [u \in Users |-> paid[u] + owed[u]]
           worth == [u \in Users |->
             SumOver([e \in EpochId |-> ShareValue(u, e, t)])]
           spent == [e \in EpochId |->
             SumOver([u \in Users |-> ShareValue(u, e, t)])]
           given == [e \in EpochId |-> epochs[e].rewards[t]]
<1>1. IsFiniteSet(Users) /\ IsFiniteSet(EpochId)
  BY EpochIds, LockRewardsAssumption
<1>2. ASSUME NEW u \in Users
      PROVE  /\ paid[u] \in Nat /\ owed[u] \in Nat /\ worth[u] \in Nat
             /\ paid[u] + owed[u] <= worth[u]
  <2> DEFINE P == Before(PaidFrom(u))
             Q == UngrantedEpochs(u)
  <2>1. P \in SUBSET EpochId /\ Q \in SUBSET EpochId /\ P \cap Q = {}
    <3>1. accounts[u] \in Account
      BY DEF TypeOK
    <3>2. PaidFrom(u) \in Nat
      BY <3>1 DEF PaidFrom, Account
    <3>3. ASSUME NEW e \in P, e \in Q PROVE FALSE
      <4>1. e \in Nat /\ e < PaidFrom(u) /\ PaidFrom(u) <= e
        BY <3>3, EpochIds DEF Before, UngrantedEpochs
      <4> QED BY <3>2, <4>1
    <3>4. P \in SUBSET EpochId /\ Q \in SUBSET EpochId
      BY DEF Before, UngrantedEpochs
    <3> HIDE DEF P, Q
    <3> QED BY <3>3, <3>4
  <2>2. /\ paid[u] = SumOver([e \in P |-> ShareValue(u, e, t)])
        /\ owed[u] = SumOver([e \in Q |-> ShareValue(u, e, t)])
        /\ worth[u] = SumOver([e \in EpochId |-> ShareValue(u, e, t)])
    BY DEF PaidOut, Owed
  <2> HIDE DEF P, Q, paid, owed, worth
  <2>3. paid[u] \in Nat /\ owed[u] \in Nat /\ worth[u] \in Nat
    BY <2>1, <2>2, PartsOfWorth
  <2>4. paid[u] + owed[u] <= worth[u]
    BY <2>1, <2>2, PartsOfWorth
  <2> QED BY <2>3, <2>4
<1>3. /\ paid \in [Users -> Nat] /\ owed \in [Users -> Nat]
      /\ worth \in [Users -> Nat] /\ both \in [Users -> Nat]
      /\ \A u \in Users : both[u] <= worth[u]
  <2>1. /\ paid = [u \in Users |-> paid[u]] /\ owed = [u \in Users |-> owed[u]]
        /\ worth = [u \in Users |-> worth[u]]
    OBVIOUS
  <2> HIDE DEF paid, owed, worth
  <2>2. /\ paid \in [Users -> Nat] /\ owed \in [Users -> Nat]
        /\ worth \in [Users -> Nat]
    BY <1>2, <2>1
  <2>3. both \in [Users -> Nat] /\ \A u \in Users : both[u] <= worth[u]
    BY <1>2
  <2> QED BY <2>2, <2>3
<1>4. ASSUME NEW e \in EpochId
      PROVE  /\ spent[e] \in Nat /\ given[e] \in Nat /\ spent[e] <= given[e]
             /\ \A u \in Users : ShareValue(u, e, t) \in Nat
  <2>1. \A u \in Users : ShareValue(u, e, t) \in Nat
    BY EpochPaysWithin
  <2>2. SumOver([u \in Users |-> ShareValue(u, e, t)]) \in Nat
    BY <1>1, <2>1, SumType
  <2>3. epochs[e].rewards[t] \in Nat
    <3>1. epochs[e] \in Epoch
      BY DEF TypeOK
    <3> QED BY <3>1 DEF Epoch
  <2> QED BY <2>1, <2>2, <2>3, EpochPaysWithin
<1>5. spent \in [EpochId -> Nat] /\ given \in [EpochId -> Nat]
  BY <1>4
<1>6. SumOver(worth) = SumOver(spent)
  <2> DEFINE w == [z \in Users \X EpochId |-> ShareValue(z[1], z[2], t)]
  <2>1. w \in [Users \X EpochId -> Nat]
    BY <1>4
  <2>2. \A u \in Users, e \in EpochId : w[<<u, e>>] = ShareValue(u, e, t)
    OBVIOUS
  <2> HIDE DEF w
  <2>3. SumOver(RowSums(Users, EpochId, w)) = SumOver(ColumnSums(Users, EpochId, w))
    BY <1>1, <2>1, SumTable
  <2>4. worth = RowSums(Users, EpochId, w)
    <3>1. \A u \in Users : [e \in EpochId |-> ShareValue(u, e, t)] =
                           [e \in EpochId |-> w[<<u, e>>]]
      BY <2>2
    <3> QED BY <3>1 DEF RowSums
  <2>5. spent = ColumnSums(Users, EpochId, w)
    <3>1. \A e \in EpochId : [u \in Users |-> ShareValue(u, e, t)] =
                             [u \in Users |-> w[<<u, e>>]]
      BY <2>2
    <3> QED BY <3>1 DEF ColumnSums
  <2> HIDE DEF worth, spent
  <2> QED BY <2>3, <2>4, <2>5
<1>7. SumOver(given) = rewards[t]
  BY DEF AnnouncedTotals
<1>8. rewardsPaid[t] <= SumOver(paid) /\ rewardsPaid[t] \in Nat
  BY DEF GrantsWithinPast, TypeOK
<1>9. SumOver(both) = SumOver(paid) + SumOver(owed)
  <2> HIDE DEF paid, owed
  <2> QED BY <1>1, <1>3, SumAdd
<1> HIDE DEF paid, owed, both, worth, spent, given
<1>10. SumOver(both) <= SumOver(worth) /\ SumOver(spent) <= SumOver(given)
  <2>1. SumOver(both) <= SumOver(worth)
    BY <1>1, <1>3, SumMonotone
  <2>2. SumOver(spent) <= SumOver(given)
    BY <1>1, <1>4, <1>5, SumMonotone
  <2> QED BY <2>1, <2>2
<1>11. /\ SumOver(paid) \in Nat /\ SumOver(owed) \in Nat /\ SumOver(both) \in Nat
       /\ SumOver(worth) \in Nat /\ SumOver(given) \in Nat
  BY <1>1, <1>3, <1>5, SumType
<1>12. rewardsPaid[t] + SumOver(owed) <= rewards[t]
  BY <1>6, <1>7, <1>8, <1>9, <1>10, <1>11
<1> QED BY <1>12 DEF owed

-----------------------------------------------------------------------------
(* A step that leaves a user's past alone leaves what it paid alone.       *)
LEMMA PastKept ==
  ASSUME NEW u \in Users, NEW t \in Tokens,
         PaidFrom(u)' = PaidFrom(u),
         \A e \in Before(PaidFrom(u)) : epochs'[e] = epochs[e]
  PROVE  PaidOut(u, t)' = PaidOut(u, t)
<1>1. Before(PaidFrom(u))' = Before(PaidFrom(u))
  BY DEF Before, EpochId
<1>2. \A e \in Before(PaidFrom(u)) : ShareValue(u, e, t)' = ShareValue(u, e, t)
  BY DEF ShareValue
<1>3. [e \in Before(PaidFrom(u)) |-> ShareValue(u, e, t)]' =
      [e \in Before(PaidFrom(u)) |-> ShareValue(u, e, t)]
  BY <1>1, <1>2
<1> QED BY <1>3 DEF PaidOut

(* Every user call stores the epoch its modifier stopped at, and no body   *)
(* changes it afterwards.                                                  *)
PaidUpTo(b) == b.lastEpochPaid = SyncedEpoch

(* The account a call leaves is paid up to the epoch it stopped at.        *)
LEMMA UserPaidUp ==
  ASSUME IInv, NEW u \in Users, UserNext(u), UpdateEpochAndReward(u)
  PROVE  \E b : accounts' = [accounts EXCEPT ![u] = b] /\ PaidUpTo(b)
<1> DEFINE a == UpdatedAccount(u)
<1>1. a \in Account /\ accounts[u] \in Account
  BY UserFrame DEF IInv, TypeOK
<1>2. PaidUpTo(a)
  BY <1>1 DEF UpdatedAccount, Account, PaidUpTo
<1>3. CASE UpdateAccount(u)
  BY <1>2, <1>3 DEF UpdateAccount
<1>4. ASSUME NEW amount \in Nat, NEW lock \in Nat, DepositFor(u, amount, lock)
      PROVE  \E b : accounts' = [accounts EXCEPT ![u] = b] /\ PaidUpTo(b)
  <2> DEFINE b == [a EXCEPT !.balance = a.balance + amount, !.lockEpochs = @ + lock,
                            !.lockStart = now]
  <2>1. accounts' = [accounts EXCEPT ![u] = b]
    BY <1>4 DEF DepositFor
  <2>2. PaidUpTo(b)
    <3> HIDE DEF a
    <3> QED BY <1>1, <1>2 DEF Account, PaidUpTo
  <2> QED BY <2>1, <2>2
<1>5. ASSUME NEW amount \in Amounts, Withdraw(u, amount)
      PROVE  \E b : accounts' = [accounts EXCEPT ![u] = b] /\ PaidUpTo(b)
  <2>1. accounts' = [accounts EXCEPT ![u] = WithdrawFrom(a, amount)]
    BY <1>5 DEF Withdraw
  <2> HIDE DEF a
  <2>2. PaidUpTo(WithdrawFrom(a, amount))
    BY <1>1, <1>2 DEF WithdrawFrom, Account, PaidUpTo
  <2> QED BY <2>1, <2>2
<1>6. CASE ClaimRewards(u)
  <2>1. accounts' = [accounts EXCEPT ![u] = ClaimFrom(a)]
    BY <1>6 DEF ClaimRewards
  <2> HIDE DEF a
  <2>2. PaidUpTo(ClaimFrom(a))
    BY <1>1, <1>2 DEF ClaimFrom, Account, PaidUpTo
  <2> QED BY <2>1, <2>2
<1>7. ASSUME NEW t \in Tokens, ClaimReward(u, t)
      PROVE  \E b : accounts' = [accounts EXCEPT ![u] = b] /\ PaidUpTo(b)
  <2>1. accounts' = [accounts EXCEPT ![u] = [a EXCEPT !.rewards[t] = 0]]
    BY <1>7 DEF ClaimReward
  <2> HIDE DEF a
  <2>2. PaidUpTo([a EXCEPT !.rewards[t] = 0])
    BY <1>1, <1>2 DEF Account, PaidUpTo
  <2> QED BY <2>1, <2>2
<1>8. ASSUME NEW b \in Account, PaidUpTo(b), Leave(u, b)
      PROVE  \E c : accounts' = [accounts EXCEPT ![u] = c] /\ PaidUpTo(c)
  <2> DEFINE w == WithdrawFrom(b, b.balance)
  <2>1. accounts' = [accounts EXCEPT ![u] = ClaimFrom(w)]
    BY <1>8 DEF Leave
  <2>2. w = [b EXCEPT !.balance = b.balance - b.balance]
    BY DEF WithdrawFrom
  <2>3. PaidUpTo(w)
    BY <1>8, <2>2 DEF Account, PaidUpTo
  <2>4. b.balance \in Nat
    BY DEF Account
  <2>5. w \in Account
    BY <2>4, AccountOperators
  <2> HIDE DEF w
  <2>6. PaidUpTo(ClaimFrom(w))
    BY <2>3, <2>5 DEF ClaimFrom, Account, PaidUpTo
  <2> QED BY <2>1, <2>6
<1>9. CASE Exit(u)
  BY <1>1, <1>2, <1>8, <1>9 DEF Exit
<1>10. CASE EmergencyExit(u)
  <2>1. Leave(u, [a EXCEPT !.lockEpochs = 0])
    BY <1>10, Zenon DEF EmergencyExit
  <2> HIDE DEF a
  <2>2. [a EXCEPT !.lockEpochs = 0] \in Account /\ PaidUpTo([a EXCEPT !.lockEpochs = 0])
    BY <1>1, <1>2 DEF PaidUpTo, Account
  <2> QED BY <1>8, <2>1, <2>2
<1>11. CASE \E amount \in Amounts : Deposit(u, amount) \/ Redeposit(u, amount)
  <2>1. Amounts \subseteq Nat /\ lockDuration \in Nat /\ 0 \in Nat
    BY LockRewardsAssumption DEF IInv, TypeOK
  <2> QED BY <1>4, <1>11, <2>1 DEF Deposit, Redeposit
<1> QED BY <1>3, <1>5, <1>6, <1>7, <1>9, <1>10, <1>11 DEF UserNext

(* Deposits and emergency exits restake from the current epoch on.         *)
LEMMA UserKeepsPast ==
  ASSUME IInv, NEW u \in Users, UserNext(u), UpdateEpochAndReward(u)
  PROVE  \A e \in Before(SyncedEpoch) : epochs'[e] = epochs[e]
<1> DEFINE a == UpdatedAccount(u)
<1>1. SyncedEpoch \in Nat
  BY CalendarFacts, EpochIds
<1>2. a.lastEpochPaid = SyncedEpoch
  <2>1. accounts[u] \in Account
    BY DEF IInv, TypeOK
  <2> QED BY <2>1 DEF UpdatedAccount, Account
<1>3. ASSUME NEW amount \in Nat, NEW lock \in Nat, DepositFor(u, amount, lock),
             NEW e \in Before(SyncedEpoch)
      PROVE  epochs'[e] = epochs[e]
  <2> DEFINE relocked == RelockedEpochs(SyncedEpoch, a.lockEpochs,
                                        a.lockEpochs + lock)
  <2>1. e \in EpochId /\ e \in Nat /\ e < SyncedEpoch
    BY EpochIds DEF Before
  <2>2. e \notin relocked
    BY <1>1, <2>1 DEF RelockedEpochs
  <2>3. epochs' = [k \in EpochId |->
          IF k \in relocked THEN Restaked(epochs[k], u, a.balance + amount)
          ELSE epochs[k]]
    BY <1>3 DEF DepositFor
  <2> HIDE DEF relocked
  <2> QED BY <2>1, <2>2, <2>3
<1>4. ASSUME EmergencyExit(u), NEW e \in Before(SyncedEpoch)
      PROVE  epochs'[e] = epochs[e]
  <2> DEFINE unlocked == UnlockedEpochs(SyncedEpoch, a.lockEpochs)
  <2>1. e \in EpochId /\ e \in Nat /\ e < SyncedEpoch
    BY EpochIds DEF Before
  <2>2. e \notin unlocked
    BY <1>1, <2>1 DEF UnlockedEpochs
  <2>3. epochs' = [k \in EpochId |->
          IF k \in unlocked THEN Restaked(epochs[k], u, 0) ELSE epochs[k]]
    BY <1>2, <1>4 DEF EmergencyExit
  <2> HIDE DEF unlocked
  <2> QED BY <2>1, <2>2, <2>3
<1>5. \/ UNCHANGED epochs
      \/ \E amount, lock \in Nat : DepositFor(u, amount, lock)
      \/ EmergencyExit(u)
  BY LockRewardsAssumption DEF UserNext, UpdateAccount, Deposit, Redeposit,
         Withdraw, ClaimRewards, ClaimReward, Exit, IInv, TypeOK
<1> QED BY <1>3, <1>4, <1>5

(* Hence a user call pays for epochs that it moves to the user's past.     *)
LEMMA UserGrants ==
  ASSUME IInv, LockedSums, GrantsWithinPast, NEW u \in Users, UserNext(u)
  PROVE  GrantsWithinPast'
<1> DEFINE cur == SyncedEpoch
<1>1. UpdateEpochAndReward(u)
  BY DEF UserNext, UpdateAccount, Deposit, Redeposit, DepositFor, Withdraw,
         ClaimRewards, ClaimReward, Exit, EmergencyExit
<1>2. /\ cur \in EpochId /\ cur \in Nat /\ cur # 0
      /\ currentEpoch \in Nat /\ currentEpoch <= cur
      /\ currentEpoch' = cur
  <2>1. EpochId \subseteq Nat \ {0}
    BY LockRewardsAssumption DEF EpochId
  <2> QED BY <1>1, <2>1, CalendarFacts DEF IInv, TypeOK, UpdateEpochAndReward
<1>3. \A v \in Users : PaidFrom(v) \in Nat /\ PaidFrom(v) <= cur
  <2> SUFFICES ASSUME NEW v \in Users PROVE PaidFrom(v) \in Nat /\ PaidFrom(v) <= cur
    OBVIOUS
  <2>1. accounts[v] \in Account
    BY DEF IInv, TypeOK
  <2>2. PaidFrom(v) \in Nat
    BY <2>1 DEF PaidFrom, Account
  <2> HIDE DEF cur
  <2> QED BY <1>2, <2>2 DEF GrantsWithinPast
<1>4. \A e \in Before(cur) : epochs'[e] = epochs[e]
  BY <1>1, UserKeepsPast
<1>5. PaidFrom(u)' = cur /\ \A v \in Users : v # u => PaidFrom(v)' = PaidFrom(v)
  <2>1. PICK b : accounts' = [accounts EXCEPT ![u] = b] /\ PaidUpTo(b)
    BY <1>1, UserPaidUp
  <2>2. DOMAIN accounts = Users
    BY DEF IInv, TypeOK
  <2>3. accounts'[u].lastEpochPaid = cur
    BY <2>1, <2>2 DEF PaidUpTo
  <2>4. \A v \in Users : v # u => accounts'[v] = accounts[v]
    BY <2>1, <2>2
  <2> HIDE DEF cur
  <2> QED BY <1>2, <2>3, <2>4 DEF PaidFrom
<1> HIDE DEF cur
<1>6. ASSUME NEW t \in Tokens
      PROVE  rewardsPaid'[t] <= SumOver([v \in Users |-> PaidOut(v, t)'])
  <2> DEFINE old == [v \in Users |-> PaidOut(v, t)]
             new == [v \in Users |-> PaidOut(v, t)']
             past == SumOver([e \in Before(cur) |-> ShareValue(u, e, t)])
  <2>1. \A v \in Users : PaidOut(v, t) \in Nat
    <3>1. \A v \in Users : Before(PaidFrom(v)) \in SUBSET EpochId
      BY DEF Before
    <3> QED BY <3>1, PartsOfWorth DEF PaidOut, IInv
  <2>2. ASSUME NEW v \in Users, v # u PROVE PaidOut(v, t)' = PaidOut(v, t)
    <3>1. \A e \in Before(PaidFrom(v)) : epochs'[e] = epochs[e]
      <4>1. Before(PaidFrom(v)) \subseteq Before(cur)
        BY <1>2, <1>3, BeforeGrows
      <4> QED BY <1>4, <4>1
    <3> QED BY <1>5, <2>2, <3>1, PastKept
  <2>3. PaidOut(u, t)' = past
    <3>1. Before(PaidFrom(u))' = Before(cur)
      BY <1>5 DEF Before, EpochId
    <3>2. \A e \in Before(cur) : ShareValue(u, e, t)' = ShareValue(u, e, t)
      BY <1>4 DEF ShareValue
    <3>3. [e \in Before(PaidFrom(u)) |-> ShareValue(u, e, t)]' =
          [e \in Before(cur) |-> ShareValue(u, e, t)]
      BY <3>1, <3>2
    <3> QED BY <3>3 DEF PaidOut
  <2>4. PaidOut(u, t) + Granted(u, cur, t) <= past /\ past \in Nat
    <3>1. /\ Before(cur) \in SUBSET EpochId
          /\ Before(PaidFrom(u)) \in SUBSET Before(cur)
          /\ Payable(u, cur) \in SUBSET Before(cur)
          /\ Before(PaidFrom(u)) \cap Payable(u, cur) = {}
      <4>1. Before(cur) \in SUBSET EpochId /\ Payable(u, cur) \in SUBSET Before(cur)
        BY DEF Before, Payable
      <4>2. Before(PaidFrom(u)) \in SUBSET Before(cur)
        BY <1>2, <1>3, BeforeGrows
      <4>3. ASSUME NEW e \in Before(PaidFrom(u)), e \in Payable(u, cur) PROVE FALSE
        <5>1. e \in Nat /\ e < PaidFrom(u) /\ PaidFrom(u) <= e
          BY <4>3, EpochIds DEF Before, Payable
        <5>2. PaidFrom(u) \in Nat
          BY <1>3
        <5> QED BY <5>1, <5>2
      <4> QED BY <4>1, <4>2, <4>3
    <3>2. PaidOut(u, t) + Granted(u, cur, t) =
            SumOver([e \in Before(PaidFrom(u)) |-> ShareValue(u, e, t)]) +
            SumOver([e \in Payable(u, cur) |-> ShareValue(u, e, t)])
      BY DEF PaidOut, Granted
    <3>3. past \in Nat
      BY <3>1, PartsOfWorth DEF IInv
    <3>4. SumOver([e \in Before(PaidFrom(u)) |-> ShareValue(u, e, t)]) +
          SumOver([e \in Payable(u, cur) |-> ShareValue(u, e, t)]) <= past
      BY <3>1, PartsOfWorth DEF IInv
    <3> QED BY <3>2, <3>3, <3>4
  <2>5. Granted(u, cur, t) \in Nat
    <3>1. Payable(u, cur) \in SUBSET EpochId
      BY DEF Payable
    <3> QED BY <3>1, PartsOfWorth DEF Granted, IInv
  <2>6. rewardsPaid'[t] = rewardsPaid[t] + Granted(u, cur, t)
    BY <1>1 DEF UpdateEpochAndReward, cur
  <2>7. rewardsPaid[t] <= SumOver(old) /\ rewardsPaid[t] \in Nat
    BY DEF GrantsWithinPast, IInv, TypeOK
  <2>8. /\ old \in [Users -> Nat] /\ old[u] = PaidOut(u, t)
        /\ new[u] = past /\ \A v \in Users : v # u => new[v] = old[v]
    BY <2>1, <2>2, <2>3
  <2>9. new = [v \in Users |-> new[v]]
    OBVIOUS
  <2> HIDE DEF old, new, past
  <2>10. new \in [Users -> Nat]
    BY <2>4, <2>8, <2>9
  <2>11. SumOver(new) = SumOver(old) - old[u] + new[u]
    <3>1. old \in [Users -> Nat] /\ IsFiniteSet(Users)
      BY <2>8, LockRewardsAssumption
    <3>2. \A v \in Users : v # u => new[v] = old[v]
      BY <2>8
    <3> QED BY <2>10, <3>1, <3>2, SumUpdate
  <2>12. SumOver(old) \in Nat
    BY <2>8, LockRewardsAssumption, SumType
  <2>13. PaidOut(u, t) \in Nat
    BY <2>1
  <2>14. rewardsPaid'[t] <= SumOver(new)
    BY <2>4, <2>5, <2>6, <2>7, <2>8, <2>11, <2>12, <2>13
  <2> QED BY <2>14 DEF new
<1>7. \A v \in Users : PaidFrom(v)' <= currentEpoch'
  BY <1>2, <1>3, <1>5
<1> QED BY <1>6, <1>7 DEF GrantsWithinPast

(* Nobody else pays, and a new epoch is in nobody's past.                  *)
LEMMA NextGrants ==
  ASSUME IInv, LockedSums, GrantsWithinPast, [Next]_vars
  PROVE  GrantsWithinPast'
<1>1. currentEpoch \in Nat /\ nextUnsetEpoch \in Nat /\ currentEpoch <= nextUnsetEpoch
  <2>1. /\ currentEpoch \in Nat /\ nextUnsetEpoch \in Nat /\ SyncedEpoch \in Nat
        /\ currentEpoch <= SyncedEpoch /\ SyncedEpoch <= nextUnsetEpoch
    BY EpochIds, CalendarFacts DEF IInv, TypeOK
  <2> QED BY <2>1
<1>2. ASSUME UNCHANGED <<accounts, rewardsPaid>>,
             currentEpoch' \in Nat, currentEpoch <= currentEpoch',
             \A e \in EpochId : e # nextUnsetEpoch => epochs'[e] = epochs[e]
      PROVE  GrantsWithinPast'
  <2>1. ASSUME NEW u \in Users
        PROVE  /\ PaidFrom(u)' = PaidFrom(u) /\ PaidFrom(u) \in Nat
               /\ PaidFrom(u) <= currentEpoch
    <3>1. accounts[u] \in Account
      BY DEF IInv, TypeOK
    <3> QED BY <1>2, <3>1 DEF PaidFrom, Account, GrantsWithinPast
  <2>2. ASSUME NEW u \in Users, NEW t \in Tokens
        PROVE  PaidOut(u, t)' = PaidOut(u, t)
    <3>1. \A e \in Before(PaidFrom(u)) : epochs'[e] = epochs[e]
      <4>1. PaidFrom(u) <= nextUnsetEpoch /\ PaidFrom(u) \in Nat
        BY <1>1, <2>1
      <4>2. nextUnsetEpoch \notin Before(PaidFrom(u))
        BY <1>1, <4>1, BeforeGrows
      <4> QED BY <1>2, <4>2 DEF Before
    <3> QED BY <2>1, <3>1, PastKept
  <2>3. ASSUME NEW t \in Tokens
        PROVE  rewardsPaid'[t] <= SumOver([u \in Users |-> PaidOut(u, t)'])
    <3>1. [u \in Users |-> PaidOut(u, t)'] = [u \in Users |-> PaidOut(u, t)]
      BY <2>2
    <3> QED BY <1>2, <3>1 DEF GrantsWithinPast
  <2>4. \A u \in Users : PaidFrom(u)' <= currentEpoch'
    BY <1>1, <1>2, <2>1
  <2> QED BY <2>3, <2>4 DEF GrantsWithinPast
<1>3. CASE EpochSetterNext
  <2>1. PICK values \in [DOMAIN rewardTokens -> RewardValues],
             days \in Durations, delay \in StartDelays :
               SetNextEpoch(values, days, delay)
    BY <1>3 DEF EpochSetterNext
  <2>2. /\ UNCHANGED <<accounts, rewardsPaid>>
        /\ \A e \in EpochId : e # nextUnsetEpoch => epochs'[e] = epochs[e]
    BY <2>1, NewEpochRewards
  <2>3. currentEpoch' = SyncedEpoch
    BY <2>1 DEF SetNextEpoch, UpdateEpoch
  <2>4. SyncedEpoch \in Nat /\ currentEpoch <= SyncedEpoch
    BY EpochIds, CalendarFacts
  <2> QED BY <1>2, <2>2, <2>3, <2>4
<1>4. CASE WorldNext \/ PauseSetterNext \/ OwnerNext \/ UNCHANGED vars
  <2>1. UNCHANGED <<accounts, rewardsPaid, epochs>>
    BY <1>4 DEF WorldNext, Tick, Fund, PauseSetterNext, Pause, Unpause,
       OwnerNext, SetLockDuration, SetReward, RemoveReward, RecoverERC20,
       ChangeRecoverWhitelist, ChangeEnforceTime, vars, tokenVars
  <2>2. currentEpoch' = currentEpoch \/ currentEpoch' = SyncedEpoch
    BY <1>4 DEF WorldNext, Tick, Fund, PauseSetterNext, Pause, Unpause,
       OwnerNext, SetLockDuration, SetReward, RemoveReward, RecoverERC20,
       ChangeRecoverWhitelist, ChangeEnforceTime, vars, calendarVars, UpdateEpoch
  <2>3. SyncedEpoch \in Nat /\ currentEpoch <= SyncedEpoch
    BY EpochIds, CalendarFacts
  <2>4. currentEpoch' \in Nat /\ currentEpoch <= currentEpoch'
    BY <1>1, <2>2, <2>3
  <2> QED BY <1>2, <2>1, <2>4
<1> QED BY <1>3, <1>4, UserGrants DEF Next

(* No epoch is paid out twice or beyond its rewards, for any number of     *)
(* users and epochs and any rounding of the shares.                        *)
THEOREM PaidWithinFunding == Spec => []OwedWithinFunding
<1>1. Init => GrantsWithinPast
  <2> SUFFICES ASSUME Init PROVE GrantsWithinPast
    OBVIOUS
  <2>1. \A u \in Users : PaidFrom(u) = 1
    BY DEF Init, PaidFrom
  <2>2. currentEpoch = 1
    BY DEF Init
  <2>3. ASSUME NEW t \in Tokens
        PROVE  rewardsPaid[t] <= SumOver([u \in Users |-> PaidOut(u, t)])
    <3>1. rewardsPaid[t] = 0
      BY DEF Init, NoTokens
    <3>2. Before(1) = {}
      BY EpochIds, LockRewardsAssumption DEF Before, EpochId
    <3>3. ASSUME NEW u \in Users PROVE PaidOut(u, t) = 0
      <4> DEFINE f == [e \in Before(1) |-> ShareValue(u, e, t)]
      <4>1. \A e \in DOMAIN f : f[e] = 0
        BY <3>2
      <4>2. PaidOut(u, t) = SumOver(f)
        BY <2>1 DEF PaidOut
      <4> HIDE DEF f
      <4> QED BY <4>1, <4>2, SumZero
    <3>4. SumOver([u \in Users |-> PaidOut(u, t)]) = 0
      <4> DEFINE g == [u \in Users |-> PaidOut(u, t)]
      <4>1. \A u \in DOMAIN g : g[u] = 0
        BY <3>3
      <4> HIDE DEF g
      <4>2. SumOver(g) = 0
        BY <4>1, SumZero
      <4> QED BY <4>2 DEF g
    <3> QED BY <3>1, <3>4
  <2> QED BY <2>1, <2>2, <2>3 DEF GrantsWithinPast
<1>2. IInv /\ LockedSums /\ GrantsWithinPast /\ [Next]_vars => GrantsWithinPast'
  BY NextGrants
<1>3. IInv /\ LockedSums /\ AnnouncedTotals /\ GrantsWithinPast => OwedWithinFunding
  BY WithinFunding DEF IInv
<1> QED BY <1>1, <1>2, <1>3, Safety, TotalsMatchStakes, AnnouncedIsHeld, PTL DEF Spec

-----------------------------------------------------------------------------
(* User calls move claims, they never create them.                         *)

Deposits(t) == IF t = LockToken THEN totalAssets ELSE 0

(* The body leaves the account b: what leaves the contract, deposits aside, *)
(* is what is taken off the claimable rewards the modifier left.           *)
ClaimsPaid(u, b) ==
  /\ accounts' = [accounts EXCEPT ![u] = b] /\ b \in Account
  /\ \A t \in Tokens :
       held'[t] - Deposits(t)' =
         held[t] - Deposits(t) + (b.rewards[t] - UpdatedAccount(u).rewards[t])

(* Leaving pays the balance and the claims on the list.                    *)
LEMMA LeaveClaims ==
  ASSUME TypeOK, NEW u \in Users, NEW a \in Account, Leave(u, a),
         UpdatedAccount(u) \in Account, a.rewards = UpdatedAccount(u).rewards
  PROVE  \E b : ClaimsPaid(u, b)
<1> DEFINE w == WithdrawFrom(a, a.balance)
           b == ClaimFrom(w)
<1>1. /\ a.balance \in Nat /\ held \in [Tokens -> Nat] /\ totalAssets \in Nat
      /\ a.rewards \in [Tokens -> Nat] /\ a.rewardTokens \in [Tokens -> Nat]
  BY DEF Account, TypeOK
<1>2. w \in Account /\ w.rewards = a.rewards /\ w.rewardTokens = a.rewardTokens
  <2>1. w \in Account
    BY <1>1, AccountOperators
  <2> QED BY <1>1, <2>1 DEF WithdrawFrom, Account
<1>3. Claimed(w) = Claimed(a) /\ Claimed(a) \in [Tokens -> Nat]
  <2> HIDE DEF w
  <2> QED BY <1>1, <1>2 DEF Claimed
<1>4. b \in Account
  BY <1>1, <1>2, AccountOperators
<1>5. \A t \in Tokens : b.rewards[t] = a.rewards[t] - Claimed(a)[t]
  <2> HIDE DEF w
  <2> QED BY <1>1, <1>2, <1>3 DEF ClaimFrom, Account
<1>6. /\ accounts' = [accounts EXCEPT ![u] = b]
      /\ totalAssets' = totalAssets - a.balance
      /\ \A t \in Tokens :
           held'[t] = held[t] - (Withdrawal(a.balance)[t] + Claimed(a)[t])
  BY DEF Leave, Pay
<1>7. \A t \in Tokens :
        Withdrawal(a.balance)[t] = IF t = LockToken THEN a.balance ELSE 0
  BY DEF Withdrawal, NoTokens
<1> HIDE DEF w, b
<1>8. ASSUME NEW t \in Tokens
      PROVE  held'[t] - Deposits(t)' =
               held[t] - Deposits(t) + (b.rewards[t] - a.rewards[t])
  <2> DEFINE h == held[t]
             c == Claimed(a)[t]
             r == a.rewards[t]
  <2>1. h \in Nat /\ c \in Nat /\ r \in Nat
    BY <1>1, <1>3
  <2>2. b.rewards[t] = r - c
    BY <1>5
  <2>3. held'[t] = h - (Withdrawal(a.balance)[t] + c)
    BY <1>6
  <2> HIDE DEF h, c, r
  <2>4. CASE t = LockToken
    <3>1. Withdrawal(a.balance)[t] = a.balance
      BY <1>7, <2>4
    <3>2. held'[t] - totalAssets' = h - totalAssets + (b.rewards[t] - r)
      BY <1>1, <1>6, <2>1, <2>2, <2>3, <3>1
    <3> QED BY <2>4, <3>2 DEF Deposits, h, r
  <2>5. CASE t # LockToken
    <3>1. Withdrawal(a.balance)[t] = 0
      BY <1>7, <2>5
    <3>2. held'[t] - 0 = h - 0 + (b.rewards[t] - r)
      BY <2>1, <2>2, <2>3, <3>1
    <3> QED BY <2>5, <3>2 DEF Deposits, h, r
  <2> QED BY <2>4, <2>5
<1>9. ClaimsPaid(u, b)
  BY <1>4, <1>6, <1>8 DEF ClaimsPaid
<1> QED BY <1>9

(* Every user call does, whatever it pays.                                 *)
LEMMA UserClaims ==
  ASSUME IInv, NEW u \in Users, UserNext(u)
  PROVE  \E b : ClaimsPaid(u, b)
<1> DEFINE a == UpdatedAccount(u)
<1>1. UpdateEpochAndReward(u)
  BY DEF UserNext, UpdateAccount, Deposit, Redeposit, DepositFor, Withdraw,
         ClaimRewards, ClaimReward, Exit, EmergencyExit
<1>2. /\ a \in Account /\ a.balance \in Nat
      /\ a.rewards \in [Tokens -> Nat] /\ a.rewardTokens \in [Tokens -> Nat]
      /\ held \in [Tokens -> Nat] /\ totalAssets \in Nat /\ LockToken \in Tokens
  <2>1. a \in Account
    BY <1>1, UserFrame
  <2> HIDE DEF a
  <2> QED BY <2>1, LockRewardsAssumption DEF IInv, TypeOK, Account
<1> HIDE DEF a
<1>3. CASE UpdateAccount(u)
  <2>1. ClaimsPaid(u, a)
    BY <1>2, <1>3 DEF UpdateAccount, ClaimsPaid, Deposits, a
  <2> QED BY <2>1
<1>4. ASSUME NEW amount \in Nat, NEW lock \in Nat, DepositFor(u, amount, lock)
      PROVE  \E b : ClaimsPaid(u, b)
  <2> DEFINE lockLeft == a.lockEpochs + lock
             b == [a EXCEPT !.balance = a.balance + amount,
                            !.lockEpochs = lockLeft, !.lockStart = now]
  <2>1. /\ accounts' = [accounts EXCEPT ![u] = b]
        /\ totalAssets' = totalAssets + amount
        /\ held' = [held EXCEPT ![LockToken] = @ + amount]
    BY <1>4 DEF DepositFor, a
  <2>2. lockLeft \in Nat /\ a.balance + amount \in Nat /\ now \in Nat
    <3>1. a.lockEpochs \in Nat /\ now \in Nat
      BY <1>2 DEF Account, IInv, TypeOK
    <3> QED BY <1>2, <1>4, <3>1
  <2> HIDE DEF lockLeft
  <2>3. b \in Account /\ b.rewards = a.rewards
    BY <1>2, <2>2 DEF Account
  <2> HIDE DEF b
  <2>4. ASSUME NEW t \in Tokens
        PROVE  held'[t] - Deposits(t)' =
                 held[t] - Deposits(t) + (b.rewards[t] - a.rewards[t])
    BY <1>2, <2>1, <2>3 DEF Deposits
  <2>5. ClaimsPaid(u, b)
    BY <2>1, <2>3, <2>4 DEF ClaimsPaid, a
  <2> QED BY <2>5
<1>5. ASSUME NEW amount \in Amounts, Withdraw(u, amount)
      PROVE  \E b : ClaimsPaid(u, b)
  <2> DEFINE b == WithdrawFrom(a, amount)
  <2>1. /\ accounts' = [accounts EXCEPT ![u] = b]
        /\ totalAssets' = totalAssets - amount
        /\ held' = [t \in Tokens |-> held[t] - Withdrawal(amount)[t]]
        /\ amount \in Nat /\ amount <= a.balance
    BY <1>5, LockRewardsAssumption DEF Withdraw, Withdrawable, Pay, a
  <2>2. b \in Account
    BY <1>2, <2>1, AccountOperators
  <2>3. b.rewards = a.rewards
    BY <1>2 DEF WithdrawFrom, Account
  <2>4. \A t \in Tokens :
          Withdrawal(amount)[t] = IF t = LockToken THEN amount ELSE 0
    BY DEF Withdrawal, NoTokens
  <2> HIDE DEF b
  <2>5. ASSUME NEW t \in Tokens
        PROVE  held'[t] - Deposits(t)' =
                 held[t] - Deposits(t) + (b.rewards[t] - a.rewards[t])
    BY <1>2, <2>1, <2>3, <2>4 DEF Deposits
  <2>6. ClaimsPaid(u, b)
    BY <2>1, <2>2, <2>5 DEF ClaimsPaid, a
  <2> QED BY <2>6
<1>6. CASE ClaimRewards(u)
  <2> DEFINE b == ClaimFrom(a)
  <2>1. /\ accounts' = [accounts EXCEPT ![u] = b]
        /\ totalAssets' = totalAssets
        /\ held' = [t \in Tokens |-> held[t] - Claimed(a)[t]]
    BY <1>6 DEF ClaimRewards, Pay, a
  <2>2. b \in Account
    BY <1>2, AccountOperators
  <2>3. Claimed(a) \in [Tokens -> Nat]
    BY <1>2 DEF Claimed
  <2>4. \A t \in Tokens : b.rewards[t] = a.rewards[t] - Claimed(a)[t]
    BY <1>2 DEF ClaimFrom, Account
  <2> HIDE DEF b
  <2>5. ASSUME NEW t \in Tokens
        PROVE  held'[t] - Deposits(t)' =
                 held[t] - Deposits(t) + (b.rewards[t] - a.rewards[t])
    BY <1>2, <2>1, <2>3, <2>4 DEF Deposits
  <2>6. ClaimsPaid(u, b)
    BY <2>1, <2>2, <2>5 DEF ClaimsPaid, a
  <2> QED BY <2>6
<1>7. ASSUME NEW s \in Tokens, ClaimReward(u, s) PROVE \E b : ClaimsPaid(u, b)
  <2> DEFINE b == [a EXCEPT !.rewards[s] = 0]
             out == [NoTokens EXCEPT ![s] = a.rewards[s]]
  <2>1. /\ accounts' = [accounts EXCEPT ![u] = b]
        /\ totalAssets' = totalAssets
        /\ held' = [t \in Tokens |-> held[t] - out[t]]
    BY <1>7 DEF ClaimReward, Pay, a
  <2>2. b \in Account /\ b.rewards = [a.rewards EXCEPT ![s] = 0]
    BY <1>2 DEF Account
  <2>3. \A t \in Tokens : out[t] = IF t = s THEN a.rewards[t] ELSE 0
    BY DEF NoTokens
  <2> HIDE DEF b, out
  <2>4. ASSUME NEW t \in Tokens
        PROVE  held'[t] - Deposits(t)' =
                 held[t] - Deposits(t) + (b.rewards[t] - a.rewards[t])
    BY <1>2, <2>1, <2>2, <2>3 DEF Deposits
  <2>5. ClaimsPaid(u, b)
    BY <2>1, <2>2, <2>4 DEF ClaimsPaid, a
  <2> QED BY <2>5
<1>8. CASE Exit(u)
  <2>1. Leave(u, a)
    BY <1>8 DEF Exit, a
  <2> QED BY <1>2, <2>1, LeaveClaims DEF IInv, a
<1>9. CASE EmergencyExit(u)
  <2> DEFINE free == [a EXCEPT !.lockEpochs = 0]
  <2>1. Leave(u, free)
    <3> USE DEF a
    <3> QED BY <1>9, Zenon DEF EmergencyExit
  <2>2. free \in Account /\ free.rewards = a.rewards
    BY <1>2 DEF Account
  <2> HIDE DEF free
  <2> QED BY <1>2, <2>1, <2>2, LeaveClaims DEF IInv, a
<1>10. CASE \E amount \in Amounts : Deposit(u, amount) \/ Redeposit(u, amount)
  <2>1. Amounts \subseteq Nat /\ lockDuration \in Nat /\ 0 \in Nat
    BY LockRewardsAssumption DEF IInv, TypeOK
  <2> QED BY <1>4, <1>10, <2>1 DEF Deposit, Redeposit
<1> QED BY <1>3, <1>5, <1>6, <1>7, <1>8, <1>9, <1>10 DEF UserNext

(* Hence the surplus stays: what the modifier grants is no longer          *)
(* unclaimed but claimable, and the rest is paid.                          *)
LEMMA UserSurplus ==
  ASSUME IInv, NEW u \in Users, UserNext(u), NEW t \in Tokens
  PROVE  Surplus(t)' = Surplus(t)
<1> DEFINE f == [v \in Users |-> accounts[v].rewards[t]]
           g == [v \in Users |-> accounts'[v].rewards[t]]
           granted == Granted(u, SyncedEpoch, t)
           a == UpdatedAccount(u)
<1>1. UpdateEpochAndReward(u)
  BY DEF UserNext, UpdateAccount, Deposit, Redeposit, DepositFor, Withdraw,
         ClaimRewards, ClaimReward, Exit, EmergencyExit
<1>2. PICK b : ClaimsPaid(u, b)
  BY UserClaims
<1>3. /\ a \in Account /\ granted \in Nat
      /\ accounts \in [Users -> Account] /\ held \in [Tokens -> Nat]
      /\ totalAssets \in Nat /\ rewards[t] \in Nat /\ rewardsPaid[t] \in Nat
  BY <1>1, UpdatedAccountType DEF IInv, TypeOK, UpdateEpochAndReward
<1>4. a.rewards[t] = f[u] + granted /\ f[u] \in Nat
  <2>1. accounts[u] \in Account
    BY <1>3
  <2> QED BY <2>1 DEF UpdatedAccount, Account
<1>5. /\ rewards' = rewards /\ rewardsPaid'[t] = rewardsPaid[t] + granted
  BY <1>1 DEF UpdateEpochAndReward
<1>6. f \in [Users -> Nat]
  BY <1>3 DEF Account
<1>7. g[u] = b.rewards[t] /\ g[u] \in Nat /\ \A v \in Users : v # u => g[v] = f[v]
  BY <1>2, <1>3 DEF ClaimsPaid, Account
<1>8. held'[t] - Deposits(t)' = held[t] - Deposits(t) + (g[u] - a.rewards[t])
  BY <1>2, <1>7 DEF ClaimsPaid
<1>9. g = [v \in Users |-> g[v]]
  OBVIOUS
<1>10. /\ Surplus(t) = held[t] - Deposits(t) - Unclaimed(t) - SumOver(f)
       /\ Surplus(t)' = held'[t] - Deposits(t)' - Unclaimed(t)' - SumOver(g)
       /\ Unclaimed(t) = rewards[t] - rewardsPaid[t]
       /\ Unclaimed(t)' = rewards'[t] - rewardsPaid'[t]
  BY DEF Surplus, Deposits, Unclaimed
<1> HIDE DEF f, g, granted, a
<1>11. g \in [Users -> Nat]
  BY <1>6, <1>7, <1>9
<1>12. SumOver(g) = SumOver(f) - f[u] + g[u]
  <2>1. IsFiniteSet(Users)
    BY LockRewardsAssumption
  <2>2. \A v \in Users : v # u => g[v] = f[v]
    BY <1>7
  <2> QED BY <1>6, <1>11, <2>1, <2>2, SumUpdate
<1>13. SumOver(f) \in Nat /\ SumOver(g) \in Nat
  BY <1>6, <1>11, LockRewardsAssumption, SumType
<1> DEFINE cash == held[t] - Deposits(t)
           cashLeft == held'[t] - Deposits(t)'
<1>14. cash \in Int
  BY <1>3 DEF Deposits
<1>15. cashLeft = cash + (g[u] - a.rewards[t])
  BY <1>8
<1>16. /\ Surplus(t) = cash - Unclaimed(t) - SumOver(f)
       /\ Surplus(t)' = cashLeft - Unclaimed(t)' - SumOver(g)
  BY <1>10
<1> HIDE DEF cash, cashLeft
<1>17. Unclaimed(t)' = Unclaimed(t) - granted /\ Unclaimed(t) \in Int
  BY <1>3, <1>5, <1>10
<1> QED BY <1>3, <1>4, <1>7, <1>12, <1>13, <1>14, <1>15, <1>16, <1>17

(* What a step may do to the surplus of a token.                           *)
LEMMA NextSurplus ==
  ASSUME IInv, [Next]_vars, NEW t \in Tokens,
         nextUnsetEpoch' = nextUnsetEpoch, ~whitelistRecoverERC20[t]
  PROVE  Surplus(t)' >= Surplus(t)
<1>1. Surplus(t) \in Int
  <2> DEFINE f == [v \in Users |-> accounts[v].rewards[t]]
  <2>1. f \in [Users -> Nat]
    BY DEF IInv, TypeOK, Account
  <2>2. SumOver(f) \in Nat
    <3> HIDE DEF f
    <3> QED BY <2>1, LockRewardsAssumption, SumType
  <2>3. /\ held[t] \in Nat /\ totalAssets \in Nat
        /\ rewards[t] \in Nat /\ rewardsPaid[t] \in Nat
    BY DEF IInv, TypeOK
  <2>4. Surplus(t) = held[t] - Deposits(t) - Unclaimed(t) - SumOver(f)
    BY DEF Surplus, Deposits
  <2> HIDE DEF f
  <2>5. Deposits(t) \in Int /\ Unclaimed(t) \in Int
    BY <2>3 DEF Deposits, Unclaimed
  <2> QED BY <2>2, <2>3, <2>4, <2>5
<1>2. ASSUME UNCHANGED <<accounts, totalAssets, rewards, rewardsPaid>>,
             held'[t] \in Nat, held'[t] >= held[t]
      PROVE  Surplus(t)' >= Surplus(t)
  <2> DEFINE owed == SumOver([v \in Users |-> accounts[v].rewards[t]])
             rest == (IF t = LockToken THEN totalAssets ELSE 0)
  <2>1. /\ Surplus(t) = held[t] - rest - Unclaimed(t) - owed
        /\ Surplus(t)' = held'[t] - rest - Unclaimed(t) - owed
    BY <1>2 DEF Surplus, Unclaimed
  <2>2. rest \in Int /\ Unclaimed(t) \in Int /\ owed \in Int /\ held[t] \in Nat
    <3> DEFINE f == [v \in Users |-> accounts[v].rewards[t]]
    <3>1. f \in [Users -> Nat]
      BY DEF IInv, TypeOK, Account
    <3>2. SumOver(f) \in Nat
      <4> HIDE DEF f
      <4> QED BY <3>1, LockRewardsAssumption, SumType
    <3>3. rest \in Int /\ Unclaimed(t) \in Int /\ held[t] \in Nat
      BY DEF IInv, TypeOK, Unclaimed
    <3> QED BY <3>2, <3>3
  <2> HIDE DEF owed, rest
  <2> QED BY <1>2, <2>1, <2>2
<1>3. held[t] \in Nat /\ held \in [Tokens -> Nat]
  BY DEF IInv, TypeOK
<1>4. ASSUME NEW u \in Users, UserNext(u) PROVE Surplus(t)' >= Surplus(t)
  <2>1. Surplus(t)' = Surplus(t)
    BY <1>4, UserSurplus
  <2> QED BY <1>1, <2>1
<1>5. CASE EpochSetterNext
  <2>1. nextUnsetEpoch' = nextUnsetEpoch + 1 /\ nextUnsetEpoch \in Nat
    BY <1>5, EpochIds DEF EpochSetterNext, SetNextEpoch, IInv, TypeOK
  <2> QED BY <2>1
<1>6. CASE WorldNext
  <2>1. UNCHANGED <<accounts, totalAssets, rewards, rewardsPaid>>
    BY <1>6 DEF WorldNext, Tick, Fund, tokenVars
  <2>2. held'[t] \in Nat /\ held'[t] >= held[t]
    <3>1. CASE Tick
      BY <1>3, <3>1 DEF Tick
    <3>2. ASSUME NEW amounts \in [Tokens -> FundAmounts \cup {0}], Fund(amounts)
          PROVE  held'[t] \in Nat /\ held'[t] >= held[t]
      <4>1. held'[t] = held[t] + amounts[t]
        BY <3>2 DEF Fund
      <4>2. amounts[t] \in Nat
        <5>1. amounts[t] \in FundAmounts \/ amounts[t] = 0
          OBVIOUS
        <5>2. FundAmounts \subseteq Nat
          BY LockRewardsAssumption
        <5>3. CASE amounts[t] \in FundAmounts
          BY <5>2, <5>3, Zenon
        <5>4. CASE amounts[t] = 0
          BY <5>4
        <5> QED BY <5>1, <5>3, <5>4
      <4> QED BY <1>3, <4>1, <4>2
    <3> QED BY <1>6, <3>1, <3>2 DEF WorldNext
  <2> QED BY <1>2, <2>1, <2>2
<1>7. CASE PauseSetterNext \/ OwnerNext \/ UNCHANGED vars
  <2>1. UNCHANGED <<accounts, totalAssets, rewards, rewardsPaid>>
    BY <1>7 DEF PauseSetterNext, Pause, Unpause, OwnerNext, SetLockDuration,
       SetReward, RemoveReward, RecoverERC20, ChangeRecoverWhitelist,
       ChangeEnforceTime, vars, tokenVars
  <2>2. held'[t] = held[t]
    <3>1. ASSUME NEW s \in Tokens, NEW amount \in FundAmounts, RecoverERC20(s, amount)
          PROVE  held'[t] = held[t]
      BY <1>3, <3>1 DEF RecoverERC20
    <3>2. CASE UNCHANGED held
      BY <3>2
    <3> QED BY <1>7, <3>1, <3>2 DEF PauseSetterNext, Pause, Unpause, OwnerNext,
               SetLockDuration, SetReward, RemoveReward,
               ChangeRecoverWhitelist, ChangeEnforceTime, vars
  <2> QED BY <1>2, <1>3, <2>1, <2>2
<1> QED BY <1>4, <1>5, <1>6, <1>7 DEF Next

(* Whatever users deposit, withdraw, get granted and claim, in whatever    *)
(* order, the surplus of a token falls only when an epoch is set or the    *)
(* owner recovers the token.                                               *)
THEOREM ClaimsNeverCreated == Spec => ClaimsConserved
<1>1. IInv /\ [Next]_vars =>
        [\A t \in Tokens :
           nextUnsetEpoch' = nextUnsetEpoch /\ ~whitelistRecoverERC20[t]
             => Surplus(t)' >= Surplus(t)]_vars
  BY NextSurplus
<1> QED BY <1>1, Safety, PTL DEF Spec, ClaimsConserved
=============================================================================
