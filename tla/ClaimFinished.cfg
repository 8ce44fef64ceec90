SPECIFICATION EarnSpec
CONSTANTS
  u1 = u1
  u2 = u2
  lock = lock
  gov = gov
  extra = extra
  Users = {u1}
  Tokens = {lock, gov}
  LockToken = lock
  InitialRewardTokens <- GovOnly
  DefaultDuration = 1
  InitialLockDuration = 2
  Day = 1
  Scale = 10
  Amounts = {1}
  RewardValues = {1}
  Durations = {1}
  StartDelays = {0, 1}
  LockDurations = {1}
  FundAmounts = {3}
  MaxEpoch = 3
  MaxTime = 5
  MaxHeld <- AtMost_2_6
INVARIANTS
  FinishedEpochsClaimable
