\* Five versions with four to six files each.
SPECIFICATION Spec
CONSTANTS
  so = so
  header = header
  so_old = so_old
  so_new = so_new
  page = page
  extra = extra
  NumVersions = 5
  Names <- MCNames
  Files <- MCFiles
  Library = so
INVARIANTS
  RunSeesOneVersion
PROPERTIES
  ImplementsLoop
\* The script goes on to stop().
CHECK_DEADLOCK FALSE
