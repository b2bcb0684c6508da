SPECIFICATION Spec
CONSTANTS
  t1 = t1
  t2 = t2
  Tests = {t1, t2}
  KnownFailures = {t2}
  Archives <- MCArchives
  Summaries <- MCSummaries
  MaxItems = 2
INVARIANT UnexplainedFailureIsReviewed
CHECK_DEADLOCK FALSE
