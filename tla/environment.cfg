SPECIFICATION SpecNode
CONSTANTS
  Cli = {c1, c2}
  n1 = n1
  n2 = n2
  n3 = n3
  Nodes = {n1, n2, n3}
  TestNamespaces = {t1}
  RunOptions <- MCRunOptions
  ClusterSetups <- MCClusterSetups
  MaxStarts = 4
  Admins = {a1}
  NoNode = NoNode
SYMMETRY CliSymmetry
INVARIANTS
  TypeOK
  SetupIsExclusive
  ScheduledEnvironmentIsComplete
  QuietDestroyLeavesNothing
  DedicatedRunHasNode
PROPERTY SetupNodeUndoesNothing
CHECK_DEADLOCK FALSE
