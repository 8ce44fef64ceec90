SPECIFICATION FairSpec
CONSTANTS
  StartDelays = {0, 1, 3}
  Lengths = {0, 1, 3}
  MaxEpoch = 4
  MaxTime = 9
INVARIANTS
  TypeOK
  WindowOK
  PassedAreOver
  Consecutive
PROPERTIES
  CalendarIsFinal
  EpochsEnd
