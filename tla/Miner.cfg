SPECIFICATION LiveSpec
CONSTANTS
  Call = {c1, c2, c3}
  update = update
INVARIANTS MiningIsReal
PROPERTIES ResumesAfterSync StartsAfterFirstSync
