SPECIFICATION SpecPublished
CONSTANTS
  t1 = t1
  t2 = t2
  Tests = {t1, t2}
  KnownFailures = {t2}
  Archives <- MCArchives
  Summaries <- MCSummaries
  MaxItems = 2
  MaxRuns = 2
INVARIANTS
  TypeOK
  ReviewListIsUnexplained
  FailuresAreConserved
  PassIsExplained
  BaselineInheritsNothing
CHECK_DEADLOCK FALSE
