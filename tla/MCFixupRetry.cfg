SPECIFICATION Spec
CONSTANTS
  Dirs <- MCDirs
  Sites <- MCSites
  Supplied = {"c"}
  MaxRuns = 2
INVARIANT CopiedAreFixedUp
CHECK_DEADLOCK FALSE
