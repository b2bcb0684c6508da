SPECIFICATION FairSpecReport
CONSTANTS
  l1 = l1
  l2 = l2
  l3 = l3
  l4 = l4
  Logs = {l1, l2, l3, l4}
  LogsInError = {l1, l2, l3}
  EtcdLogs = {l1, l2}
  RotatedLogs = {l3}
  Lines <- MCLines
  RawFiles = {r1}
  EventFiles = {e1}
  Save = TRUE
  BufferSize = 1
  BucketSize = 1
  CommonErrorPatterns = {"failed", "error"}
  EtcdLogErrorPatterns = {"took", "error"}
  Hours = {1, 2, 3}
  AllHours = 9
  MaxPastHour = 3
INVARIANTS
  TypeOK
  ReturnsWithEveryLogParsed
  SlowRequestsOfAllPods
  NewestHoursOfAllPods
  TotalsAddUp
  ParseEtcdLogsAgrees
  PartialLogsPassNothing
PROPERTIES
  AggregatesStableFindings
  ExtractReturns
  ImplementsLogBatch
CHECK_DEADLOCK FALSE
