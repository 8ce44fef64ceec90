SPECIFICATION SmallSpec
CONSTANTS
  Words = 4
  Addresses = 2
  MaxMapped = 1
  WordBits = 6
  HistorySize = 3
  TraceSizes = {2, 3}
  FirstBlock = 1
  MaxBlock = 8
  PushedValues = {1, 2, 8}
  MaxLatest = 2
  TraceKeys = {0, 1, 2, 3, 5}
  TraceValues = {1, 2}
INVARIANTS
  SetTypeOK
  SetIndexed
  MapTypeOK
  NoResidue
  LookupsAgree
  CheckpointsTypeOK
  KeysIncrease
  LookupsFindValue
  CastsExact
  SqrtRoundsDown
PROPERTIES
  SetRefined
  MapRefined
  PastIsFixed
  HistoryRefined
CHECK_DEADLOCK FALSE
