SPECIFICATION FairSpec
CONSTANTS
  Dirs <- MCDirs
  Sites <- MCSites
  Supplied = {"c"}
  MaxRuns = 2
INVARIANTS
  TypeOK
  GapsAreLeftByFailures
PROPERTIES
  SecondInstallIsQuiet
  InstallsEnd
CHECK_DEADLOCK FALSE
