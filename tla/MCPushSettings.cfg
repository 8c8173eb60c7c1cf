\* One stored subscription with a replaced key and four endpoints to come.
\* The page may come to rest: nothing runs, no alert, and no button is left.
CONSTANTS
  Endpoints = {old, e1, e2, e3, e4}
  OldKey = {old}
  None = None
SPECIFICATION FairSpec
INVARIANTS TypeOK RegisteredIsTrue OffIsTrue
PROPERTIES RepairsEndUnlessStuck
CHECK_DEADLOCK FALSE
