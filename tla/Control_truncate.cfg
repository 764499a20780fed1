\* Luci starts every instance with an empty status.info and announces the library.
SPECIFICATION Spec
CONSTANTS
  NumVersions = 4
  TruncatesInfo = TRUE
  AnnouncesLoad = TRUE
  DetectsOutdated = TRUE
INVARIANTS
  LostOnlyAfterFailure
  AtMostAllUpdated
  AbortsOnlyAfterCrash
PROPERTIES
  AllVersionsTried
  FailureLeadsToReplacement
  ImplementsExperiment
\* The script ends.
CHECK_DEADLOCK FALSE
