SPECIFICATION FairSpec
CONSTANTS
  Picker = {r1, r2}
  Nobody = Nobody
  N = 3
  Weight <- TwoOneOne
  Half = 3
  MaxPicks = 5
CHECK_DEADLOCK FALSE
INVARIANTS
  TypeOK
  NilSound
  InRangeBeforeHalf
  WeightsBalanced
  FairShare
PROPERTIES
  PickReturns
  NotStarved
