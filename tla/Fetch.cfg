\* Two versions, three calls.
SPECIFICATION Spec
CONSTANTS
  a = a
  b1 = b1
  b2 = b2
  b3 = b3
  None = None
  NumVersions = 2
  Names <- MCNames
  Entries <- MCEntries
  MaxCalls = 3
INVARIANTS
  NoTornExtracted
  SuccessIsComplete
  PartialExplained
\* The calls are bounded.
CHECK_DEADLOCK FALSE
