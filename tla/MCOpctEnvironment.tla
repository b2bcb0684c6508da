-------------------------- MODULE MCOpctEnvironment --------------------------
EXTENDS OpctEnvironment, TLC

CONSTANTS n1, n2, n3

\* A plain run, and an upgrade on a dedicated node.
MCRunOptions == {[mode |-> "regular", dedicated |-> FALSE, skip |-> TRUE],
                 [mode |-> "upgrade", dedicated |-> TRUE, skip |-> FALSE]}

\* A cluster whose node lacks the taint, one with its pool not paused, and one
\* with too many nodes and no pool.
MCClusterSetups ==
  {[pool |-> "paused", labelled |-> {n1}, tainted |-> {}],
   [pool |-> "unpaused", labelled |-> {n1, n2}, tainted |-> {n1}],
   [pool |-> "missing", labelled |-> {n1, n2, n3}, tainted |-> {n1, n2, n3}]}

CliSymmetry == Permutations(Cli)
=============================================================================
