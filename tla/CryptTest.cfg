SPECIFICATION FairSpec
CONSTANTS
  NumTests = 2
  MaxTotal = 2
INVARIANTS
  FailsOnlyOnFaults
  ExitIsTruthful
  TimesOfEndedRuns
PROPERTIES
  Termination
\* The application ends.
CHECK_DEADLOCK FALSE
