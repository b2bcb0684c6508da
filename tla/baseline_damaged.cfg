SPECIFICATION Spec
CONSTANTS
  Admins = {a1}
  Targets = {1}
  MaxDate = 2
  NewYears = {}
  PageSize = 1000
  MaxCommands = 3
  Undated = FALSE
  Leftovers <- Cut
  BaseName <- MCBaseName
  Absent = Absent
INVARIANT DamagedIsNotLatest
CHECK_DEADLOCK FALSE
