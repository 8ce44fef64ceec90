SPECIFICATION SmallSpec
CONSTANTS
  u1 = u1
  p = p
  q = q
  lock = lock
  gov = gov
  extra = extra
  Users = {u1}
  Tokens = {lock, gov, extra}
  LockToken = lock
  InitialRewardTokens <- GovOnly
  DefaultDuration = 1
  InitialLockDuration = 1
  Day = 1
  Scale = 10
  Amounts = {1}
  RewardValues = {1}
  Durations = {0}
  StartDelays = {0}
  LockDurations = {0}
  FundAmounts = {1}
  MaxEpoch = 1
  MaxTime = 0
  MaxHeld <- AtMost_1_1
  Principals = {p, q}
  NoOwner = NoOwner
  Deployer = p
  Admin = p
  EpochSetter = p
  PauseSetter = p
  VaultAdmin = p
INVARIANTS
  GovernedTypeOK
PROPERTIES
  GivenUpForGood
  PauseFreezes
  VaultOneWay
