\* expat: the copy of the sources is below the source directory.
SPECIFICATION Spec
CONSTANTS
  NumCommits = 4
  Broken = {2}
  Flaky = {3}
  InSourceDir = TRUE
  IgnoresInstallErrors = TRUE
  TestSharesDir = TRUE
  MaxStarts = 3
INVARIANTS
  OwnSources
  LoggedComplete
  IncompleteOnlyIfInterrupted
  SoundBuilt
\* The calls are bounded.
CHECK_DEADLOCK FALSE
