SPECIFICATION Spec
CONSTANTS
  Admins = {a1}
  Targets = {1}
  MaxDate = 2
  NewYears = {2}
  PageSize = 1
  MaxCommands = 3
  Undated = FALSE
  Leftovers = {}
  BaseName <- MCBaseName
  Absent = Absent
PROPERTY ListingIsComplete
CHECK_DEADLOCK FALSE
