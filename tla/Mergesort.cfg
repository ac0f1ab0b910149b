CONSTANTS
  quick_size = 3
  merge_size = 1
  Lens = {3, 4, 6, 7}
  Vals = {0, 1}
  OutVals = {9}
SPECIFICATION FairSpec
INVARIANTS RaceFree InBounds AssertionHolds Deterministic
PROPERTIES EffectsChecked EndsSorted
CHECK_DEADLOCK FALSE
