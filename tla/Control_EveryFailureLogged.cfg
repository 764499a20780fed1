\* A claim of README.md, refuted.
SPECIFICATION Spec
CONSTANTS
  NumVersions = 3
  TruncatesInfo = TRUE
  AnnouncesLoad = TRUE
  DetectsOutdated = TRUE
INVARIANT EveryFailureLogged
CHECK_DEADLOCK FALSE
