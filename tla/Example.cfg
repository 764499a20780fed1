SPECIFICATION Spec
INVARIANTS
  FailsOnlyOnFaults
  LostOnlyByFailure
  StaleOnlyAfterFailure
\* The application ends if it is out of memory.
CHECK_DEADLOCK FALSE
