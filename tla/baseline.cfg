SPECIFICATION Spec
CONSTANTS
  Admins = {a1, a2}
  Targets = {1}
  MaxDate = 2
  NewYears = {2}
  PageSize = 1000
  MaxCommands = 4
  Undated = FALSE
  Leftovers <- CutOrOlder
  BaseName <- MCBaseName
  Absent = Absent
SYMMETRY AdminsAreAlike
INVARIANTS
  TypeOK
  IndexCoversPublished
  ReportsReadPublished
  SummaryHasArchive
PROPERTIES
  LatestNeverGoesBack
CHECK_DEADLOCK FALSE
