SPECIFICATION Spec
CONSTANTS
  Blocks = {b1, b2, b3}
  Entries = {e1, e2, e3}
  Foreign = {b3}
  Null = Null
INVARIANT NeverCrashes
\* After the crash nothing happens any more.
CHECK_DEADLOCK FALSE
