SPECIFICATION FairSpec
CONSTANTS
  Results = {a1, a2}
  StatusRetryLimit = 3
  RetrieveLimit = 2
  MaxRetrieves = 2
INVARIANTS
  TypeOK
  WatchEndsComplete
  GivesUpOnlyBackToBack
  FinalNameIsWhole
  RetrievedIsComplete
PROPERTIES
  PollerEnds
  RetrieveEnds
CHECK_DEADLOCK FALSE
