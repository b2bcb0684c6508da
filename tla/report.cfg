SPECIFICATION Spec
CONSTANTS
  Archives <- MCArchives
  Content <- MCContent
  EarlierArchives <- MCEarlier
  Missing = Missing
  Damaged = Damaged
  MaxCommands = 2
INVARIANTS
  TypeOK
  DamageNeverImproves
  WorseIsNotGradedBetter
  SavedReportIsCurrent
  GateIsSound
  PublishesOwnSummary
CHECK_DEADLOCK FALSE
