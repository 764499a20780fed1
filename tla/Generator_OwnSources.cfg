\* A claim of README.md, refuted for zlib and libxcrypt.
SPECIFICATION Spec
CONSTANTS
  NumCommits = 4
  Broken = {2}
  Flaky = {3}
  InSourceDir = FALSE
  IgnoresInstallErrors = FALSE
  TestSharesDir = TRUE
  MaxStarts = 3
INVARIANT OwnSources
\* The calls are bounded.
CHECK_DEADLOCK FALSE
