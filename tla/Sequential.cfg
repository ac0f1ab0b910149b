CONSTANTS
  Lens = {1, 2, 3, 4, 5}
  Base = 1
  Sizes = {1, 2, 3, 4, 5}
  Garbage = Garbage
  Letter = Letter
  None = None
  GlobalLocs = {"B"}
  Locs <- MCLocs
  Functions <- MCFunctions
SPECIFICATION MCSpec
INVARIANTS InBounds FieldsAreTheLine StructuresKept OtherContractsKept LocationsStable GreatestNotAliased
PROPERTIES ImplementsQueue RunsEnd
CHECK_DEADLOCK FALSE
