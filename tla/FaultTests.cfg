SPECIFICATION FairSpec
CONSTANTS
  Versions <- MCVersions
  Suites <- MCSuites
  MaxAttempts = 3
  Blocks = {b1, b2}
  Entries = {e1, e2}
  Null = Null
INVARIANTS
  GuardsHold
  FixtureNeverStarved
  OnlyFailuresLoseParsers
  PassMeansExercised
  FreshEvidence
  LeakNeverForgiven
  CrashOnlyAfterLeak
PROPERTIES
  FailuresExplained
  RoundsEnd
CHECK_DEADLOCK FALSE
