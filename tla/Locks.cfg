SPECIFICATION LockSpec
CONSTANTS
  u1 = u1
  u2 = u2
  lock = lock
  gov = gov
  extra = extra
  Users = {u1}
  Tokens = {lock, gov}
  LockToken = lock
  InitialRewardTokens <- GovOnly
  DefaultDuration = 1
  InitialLockDuration = 1
  Day = 1
  Scale = 10
  Amounts = {1}
  RewardValues = {1}
  Durations = {1}
  StartDelays = {0}
  LockDurations = {1, 2}
  FundAmounts = {1}
  MaxEpoch = 2
  MaxTime = 5
  MaxHeld <- AtMost_1_1
INVARIANTS
  TypeOK
PROPERTIES
  EveryoneCanLeave
