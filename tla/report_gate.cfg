SPECIFICATION Spec
CONSTANTS
  Archives <- MCArchives
  Content <- MCContent
  EarlierArchives <- MCEarlier
  Missing = Missing
  Damaged = Damaged
  MaxCommands = 1
INVARIANT PublishedKubeConformancePasses
CHECK_DEADLOCK FALSE
