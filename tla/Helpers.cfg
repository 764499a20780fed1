SPECIFICATION HelpersSpec
CONSTANTS
  Blocks = {b1, b2, b3}
  Entries = {e1, e2, e3}
  Foreign = {b3}
  Null = Null
  MaxChars = 4
  MaxText = 7
  ExtensionCount = 2
  MaxItems = 5
  MaxBytes = 6
INVARIANTS
  TracksHeap
  ChecksWholeText
  OverrunOnlyAfterDisposal
  PiecesHashAlike
  TrimsToComplete
  PrintsApart
\* The tracker and the records end with a crash.
CHECK_DEADLOCK FALSE
