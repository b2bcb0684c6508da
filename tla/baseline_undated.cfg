SPECIFICATION Spec
CONSTANTS
  Admins = {a1}
  Targets = {1}
  MaxDate = 2
  NewYears = {2}
  PageSize = 1000
  MaxCommands = 2
  Undated = TRUE
  Leftovers = {}
  BaseName <- MCBaseName
  Absent = Absent
INVARIANT IndexerNeverPanics
CHECK_DEADLOCK FALSE
