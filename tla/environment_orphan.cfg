SPECIFICATION Spec
CONSTANTS
  Cli = {c1}
  n1 = n1
  n2 = n2
  n3 = n3
  Nodes = {n1, n2, n3}
  TestNamespaces = {t1}
  RunOptions <- MCRunOptions
  ClusterSetups <- MCClusterSetups
  MaxStarts = 3
INVARIANT DestroyRemovesBinding
CHECK_DEADLOCK FALSE
