-------------------------- MODULE DedicatedNodeProofs --------------------------
(***************************************************************************)
(* For any number of administrators and nodes: setup-node undoes nothing   *)
(* that others wrote, a dedicated run has its node, and what is proved of  *)
(* the environment alone holds beside setup-node.                          *)
(***************************************************************************)
EXTENDS DedicatedNode, OpctEnvironmentProofs

\* The commands of OpctEnvironment read what the administrator prepared and
\* write nothing of it.
LEMMA CommandsKeepSetup == Next => setup' = setup
<1> SUFFICES ASSUME Next PROVE setup' = setup
  OBVIOUS
<1>1. ASSUME NEW p \in Cli, RunStep(p) PROVE setup' = setup
  <2>1. CASE CheckCluster(p) \/ CheckNodes(p) \/ CheckNamespace(p) \/ CheckPool(p)
             \/ Preflight(p) \/ LoadPlugins(p)
    BY <2>1 DEF CheckCluster, CheckNodes, CheckNamespace, CheckPool, Preflight, LoadPlugins,
                clusterVars
  <2>2. CASE CreateNamespace(p) \/ UpdateRole(p) \/ UpdateBinding(p)
    BY <2>2 DEF CreateNamespace, UpdateRole, UpdateBinding
  <2>3. CASE CreateServiceAccount(p) \/ CreateVersion(p) \/ CreatePluginsConfig(p)
             \/ SonobuoyRun(p)
    BY <2>3 DEF CreateServiceAccount, CreateVersion, CreatePluginsConfig, SonobuoyRun,
                CreateObject
  <2> QED
    BY <1>1, <2>1, <2>2, <2>3 DEF RunStep
<1>2. ASSUME NEW p \in Cli, DestroyStep(p) PROVE setup' = setup
  BY <1>2 DEF DestroyStep, DeleteEnv, WaitEnv, ListNamespaces, DeleteNamespaces,
              DeleteRole, DeleteBinding, clusterVars
<1>3. ASSUME NEW p \in Cli, (\E o \in RunOptions : StartRun(p, o)) \/ StartDestroy(p)
                            \/ Crash(p)
      PROVE setup' = setup
  BY <1>3 DEF StartRun, StartDestroy, Crash, clusterVars
<1>4. CASE NamespaceGone \/ \E n \in TestNamespaces : TestsCreateNamespace(n)
  BY <1>4 DEF NamespaceGone, TestsCreateNamespace
<1> QED
  BY <1>1, <1>2, <1>3, <1>4 DEF Next, RunNext, DestroyNext, RunStep, DestroyStep

\* A run keeps its flags until the next one starts.
LEMMA RunsKeepOptions ==
  ASSUME NEW p \in Cli, RunStep(p) \/ DestroyStep(p) \/ StartDestroy(p) \/ Crash(p)
  PROVE  option' = option
<1>1. CASE RunStep(p)
  <2>1. CASE CheckCluster(p) \/ CheckNodes(p) \/ CheckNamespace(p) \/ CheckPool(p)
             \/ Preflight(p) \/ LoadPlugins(p)
    BY <2>1 DEF CheckCluster, CheckNodes, CheckNamespace, CheckPool, Preflight, LoadPlugins
  <2>2. CASE CreateNamespace(p) \/ UpdateRole(p) \/ UpdateBinding(p)
    BY <2>2 DEF CreateNamespace, UpdateRole, UpdateBinding
  <2>3. CASE CreateServiceAccount(p) \/ CreateVersion(p) \/ CreatePluginsConfig(p)
             \/ SonobuoyRun(p)
    BY <2>3 DEF CreateServiceAccount, CreateVersion, CreatePluginsConfig, SonobuoyRun,
                CreateObject
  <2> QED
    BY <1>1, <2>1, <2>2, <2>3 DEF RunStep
<1>2. CASE DestroyStep(p)
  BY <1>2 DEF DestroyStep, DeleteEnv, WaitEnv, ListNamespaces, DeleteNamespaces,
              DeleteRole, DeleteBinding
<1>3. CASE StartDestroy(p) \/ Crash(p)
  BY <1>3 DEF StartDestroy, Crash
<1> QED
  BY <1>1, <1>2, <1>3

-----------------------------------------------------------------------------
(* What setup-node knows.                                                  *)

NodeObject == [labelled : BOOLEAN, tainted : BOOLEAN, marked : BOOLEAN]

TypeOKNode ==
  /\ step \in [Admins -> {"idle", "get", "confirm"}]
  /\ target \in [Admins -> Nodes \cup {NoNode}]
  /\ \A a \in Admins : step[a] # "idle" => target[a] \in Nodes
  /\ snapshot \in [Admins -> NodeObject]
  /\ setup \in ClusterSetup

\* What an administrator is asked about is the node as it is, unless the node
\* was written since, which the API server remembers.
Known ==
  \A a \in Admins \ stale : step[a] = "confirm" => snapshot[a] = NodeOf(target[a])

NodeInvariant == TypeOKNode /\ Known

LEMMA NodeInvariantInit == InitNode => NodeInvariant
<1>1. Init => setup \in ClusterSetup
  BY TypeInit DEF TypeOK
<1>2. Unread \in NodeObject
  BY DEF Unread, NodeObject
<1> QED
  BY <1>1, <1>2 DEF InitNode, NodeInvariant, TypeOKNode, Known

LEMMA NodeOfType == ASSUME NEW n PROVE NodeOf(n) \in NodeObject
  BY DEF NodeOf, NodeObject

\* A write of a node changes this node and no other, and all who wait with an
\* older version of it are stale.
LEMMA PutWrites ==
  ASSUME TypeOKNode, NEW n \in Nodes, NEW o \in NodeObject, NEW except, Put(n, o, except)
  PROVE  /\ setup' \in ClusterSetup
         /\ \A m \in Nodes : m # n => NodeOf(m)' = NodeOf(m)
         /\ setup.labelled \ {n} \subseteq setup'.labelled
         /\ setup.tainted \ {n} \subseteq setup'.tainted
         /\ marked \ {n} \subseteq marked'
         /\ o.labelled => n \in setup'.labelled
         /\ o.tainted => n \in setup'.tainted
         /\ o.marked => n \in marked'
<1>1. setup.labelled \subseteq Nodes /\ setup.tainted \subseteq Nodes
      /\ setup.pool \in {"missing", "unpaused", "paused"}
  BY DEF TypeOKNode, ClusterSetup
<1>2. setup' = [pool |-> setup.pool, labelled |-> Set(setup.labelled, n, o.labelled),
                tainted |-> Set(setup.tainted, n, o.tainted)]
      /\ marked' = Set(marked, n, o.marked)
  BY DEF Put, TypeOKNode, ClusterSetup
<1>3. /\ Set(setup.labelled, n, o.labelled) \subseteq Nodes
      /\ Set(setup.tainted, n, o.tainted) \subseteq Nodes
  BY <1>1 DEF Set
<1>4. setup' \in ClusterSetup
  BY <1>1, <1>2, <1>3 DEF ClusterSetup
<1>5. \A m \in Nodes : m # n => NodeOf(m)' = NodeOf(m)
  BY <1>2 DEF NodeOf, Set
<1> QED
  BY <1>2, <1>4, <1>5 DEF Set

\* Whoever it is that writes, those who waited with the node as it was know, from
\* the version, that it is no more.
LEMMA PutKeepsKnown ==
  ASSUME NodeInvariant, NEW n \in Nodes, NEW o \in NodeObject, NEW except,
         Put(n, o, except),
         \A a \in Admins : step'[a] = "confirm" =>
           /\ step[a] = "confirm" /\ a \notin except
           /\ target'[a] = target[a] /\ snapshot'[a] = snapshot[a]
  PROVE  Known'
<1> SUFFICES ASSUME NEW a \in Admins, a \notin stale', step'[a] = "confirm"
             PROVE  snapshot'[a] = NodeOf(target[a])'
  BY DEF Known
<1>1. /\ step[a] = "confirm" /\ target'[a] = target[a] /\ snapshot'[a] = snapshot[a]
      /\ a \notin stale /\ target[a] # n
  BY DEF Put
<1>2. target[a] \in Nodes /\ snapshot[a] = NodeOf(target[a])
  BY <1>1 DEF NodeInvariant, TypeOKNode, Known
<1>3. NodeOf(target[a])' = NodeOf(target[a])
  BY <1>1 DEF Put, Set, NodeOf
<1> QED
  BY <1>1, <1>2, <1>3 DEF NodeOf

\* Each way a node is written: by setup-node, which read it as it is, or by
\* someone else, who reads and writes it at once.
LEMMA Writes ==
  ASSUME NodeInvariant, NEW n \in Nodes, NEW except,
         NEW o \in {Marked(NodeOf(n)), Dedicated(NodeOf(n))},
         Put(n, o, except)
  PROVE  /\ o \in NodeObject
         /\ setup' \in ClusterSetup
         /\ setup.labelled \subseteq setup'.labelled
         /\ setup.tainted \subseteq setup'.tainted
         /\ marked \subseteq marked'
<1>1. CASE o = Marked(NodeOf(n))
  <2>1. o = [labelled |-> n \in setup.labelled, tainted |-> n \in setup.tainted,
             marked |-> TRUE]
    BY <1>1 DEF NodeOf, Marked
  <2>2. o \in NodeObject
    BY <2>1 DEF NodeObject
  <2> QED
    BY <2>1, <2>2, PutWrites DEF NodeInvariant
<1>2. CASE o = Dedicated(NodeOf(n))
  <2>1. o = [labelled |-> TRUE, tainted |-> TRUE, marked |-> n \in marked]
    BY <1>2 DEF NodeOf, Dedicated
  <2>2. o \in NodeObject
    BY <2>1 DEF NodeObject
  <2> QED
    BY <2>1, <2>2, PutWrites DEF NodeInvariant
<1> QED
  BY <1>1, <1>2

\* UpdateNode writes the node as it is, with the label and the taint, or nothing.
LEMMA UpdateWrites ==
  ASSUME NodeInvariant, NEW a \in Admins, UpdateNode(a)
  PROVE  \/ target[a] \in Nodes /\ Put(target[a], Dedicated(NodeOf(target[a])), {a})
         \/ UNCHANGED <<vars, marked>> /\ stale' = stale \ {a}
<1>1. CASE a \notin stale /\ Put(target[a], Dedicated(snapshot[a]), {a})
  <2>1. step[a] = "confirm" /\ target[a] \in Nodes
    BY DEF UpdateNode, NodeInvariant, TypeOKNode
  <2>2. snapshot[a] = NodeOf(target[a])
    BY <1>1, <2>1 DEF NodeInvariant, Known
  <2> QED
    BY <1>1, <2>1, <2>2
<1> QED
  BY <1>1 DEF UpdateNode, Refused

\* An administrator whose command ends waits for no answer.
LEMMA EndsTypes ==
  ASSUME TypeOKNode, NEW a \in Admins, Ends(a)
  PROVE  /\ step' \in [Admins -> {"idle", "get", "confirm"}]
         /\ target' \in [Admins -> Nodes \cup {NoNode}]
         /\ \A b \in Admins : step'[b] # "idle" => target'[b] \in Nodes
         /\ snapshot' \in [Admins -> NodeObject]
         /\ \A b \in Admins : step'[b] = "confirm" =>
              /\ step[b] = "confirm" /\ b \notin {a}
              /\ target'[b] = target[b] /\ snapshot'[b] = snapshot[b]
<1>1. Unread \in NodeObject
  BY DEF Unread, NodeObject
<1> QED
  BY <1>1 DEF Ends, TypeOKNode

\* No step undoes what is written, and none misleads an administrator who waits.
LEMMA NodeInvariantStep ==
  NodeInvariant /\ [NextNode]_varsNode =>
    /\ NodeInvariant'
    /\ setup.labelled \subseteq setup'.labelled /\ setup.tainted \subseteq setup'.tainted
    /\ marked \subseteq marked'
<1> DEFINE Grows == /\ setup.labelled \subseteq setup'.labelled
                    /\ setup.tainted \subseteq setup'.tainted /\ marked \subseteq marked'
<1> SUFFICES ASSUME NodeInvariant, [NextNode]_varsNode PROVE NodeInvariant' /\ Grows
  OBVIOUS
<1>1. ASSUME setup' = setup, UNCHANGED nodeVars PROVE NodeInvariant' /\ Grows
  BY <1>1 DEF NodeInvariant, TypeOKNode, Known, NodeOf, nodeVars, processVars
<1>2. ASSUME NEW a \in Admins, Discover(a) PROVE NodeInvariant' /\ Grows
  <2>1. \E n \in Nodes : target' = [target EXCEPT ![a] = n]
    BY <1>2 DEF Discover
  <2>2. UNCHANGED <<setup, snapshot, stale, marked>> /\ step' = [step EXCEPT ![a] = "get"]
    BY <1>2 DEF Discover, clusterVars
  <2> QED
    BY <2>1, <2>2 DEF NodeInvariant, TypeOKNode, Known, NodeOf
<1>3. ASSUME NEW a \in Admins, GetNode(a) PROVE NodeInvariant' /\ Grows
  <2>1. UNCHANGED <<setup, stale, marked>>
    BY <1>3 DEF GetNode, vars, clusterVars
  <2>2. CASE step[a] = "get" /\ step' = [step EXCEPT ![a] = "confirm"] /\ target' = target
             /\ snapshot' = [snapshot EXCEPT ![a] = NodeOf(target[a])]
    <3>1. NodeOf(target[a]) \in NodeObject
      BY NodeOfType
    <3>2. TypeOKNode'
      BY <2>1, <2>2, <3>1 DEF NodeInvariant, TypeOKNode
    <3>3. Known'
      BY <2>1, <2>2 DEF NodeInvariant, TypeOKNode, Known, NodeOf
    <3> QED
      BY <2>1, <3>2, <3>3 DEF NodeInvariant
  <2>3. CASE Ends(a)
    <3>1. TypeOKNode'
      BY <2>1, <2>3, EndsTypes DEF NodeInvariant, TypeOKNode
    <3>2. Known'
      BY <2>1, <2>3, EndsTypes DEF NodeInvariant, Known, NodeOf
    <3> QED
      BY <2>1, <3>1, <3>2 DEF NodeInvariant
  <2> QED
    BY <1>3, <2>2, <2>3 DEF GetNode
<1>4. ASSUME NEW a \in Admins, UpdateNode(a) PROVE NodeInvariant' /\ Grows
  <2>1. Ends(a)
    BY <1>4 DEF UpdateNode
  <2>2. CASE target[a] \in Nodes /\ Put(target[a], Dedicated(NodeOf(target[a])), {a})
    <3> DEFINE n == target[a]
               o == Dedicated(NodeOf(target[a]))
    <3>1. o \in NodeObject /\ setup' \in ClusterSetup /\ Grows
      BY <2>2, Writes
    <3>2. TypeOKNode'
      BY <2>1, <3>1, EndsTypes DEF NodeInvariant, TypeOKNode
    <3>3. Known'
      BY <2>1, <2>2, <3>1, EndsTypes, PutKeepsKnown DEF NodeInvariant
    <3> QED
      BY <3>1, <3>2, <3>3 DEF NodeInvariant
  <2>3. CASE UNCHANGED <<vars, marked>> /\ stale' = stale \ {a}
    <3>1. UNCHANGED <<setup, marked>>
      BY <2>3 DEF vars, clusterVars
    <3>2. TypeOKNode'
      BY <2>1, <3>1, EndsTypes DEF NodeInvariant, TypeOKNode
    <3>3. Known'
      BY <2>1, <2>3, <3>1, EndsTypes DEF NodeInvariant, Known, NodeOf
    <3> QED
      BY <3>1, <3>2, <3>3 DEF NodeInvariant
  <2> QED
    BY <1>4, <2>2, <2>3, UpdateWrites
<1>5. ASSUME NEW n \in Nodes, OthersWrite(n) PROVE NodeInvariant' /\ Grows
  <2>1. PICK o \in {Marked(NodeOf(n)), Dedicated(NodeOf(n))} : Put(n, o, {})
    BY <1>5 DEF OthersWrite
  <2>2. UNCHANGED <<step, target, snapshot>>
    BY <1>5 DEF OthersWrite, processVars
  <2>3. o \in NodeObject /\ setup' \in ClusterSetup /\ Grows
    BY <2>1, Writes
  <2>4. TypeOKNode'
    BY <2>2, <2>3 DEF NodeInvariant, TypeOKNode
  <2>5. Known'
    BY <2>1, <2>2, <2>3, PutKeepsKnown
  <2> QED
    BY <2>3, <2>4, <2>5 DEF NodeInvariant
<1>6. CASE UNCHANGED varsNode
  BY <1>1, <1>6 DEF varsNode, vars, clusterVars
<1> QED
  BY <1>1, <1>2, <1>3, <1>4, <1>5, <1>6, CommandsKeepSetup DEF NextNode

\* However many administrators set up nodes at once, and whoever else writes
\* them: setup-node undoes nothing.
THEOREM UndoesNothing == SpecNode => SetupNodeUndoesNothing
<1>1. NodeInvariant /\ [NextNode]_varsNode =>
        [/\ setup.labelled \subseteq setup'.labelled /\ setup.tainted \subseteq setup'.tainted
         /\ marked \subseteq marked']_varsNode
  BY NodeInvariantStep
<1> QED
  BY <1>1, NodeInvariantInit, NodeInvariantStep, PTL DEF SpecNode, SetupNodeUndoesNothing

-----------------------------------------------------------------------------
(* Dedicated runs: the node that a run checked stays what it was.           *)

\* A run past its check of the nodes.
PastNodes == (RunSteps \ {"checkCluster", "checkNodes"}) \cup {"scheduled"}

HasNode ==
  \A p \in Cli : pc[p] \in PastNodes /\ option[p].dedicated =>
    setup.labelled \cap setup.tainted # {}

\* Only CheckNodes brings a run past the check.
LEMMA OnlyCheckNodesPasses ==
  ASSUME TypeOK, NEW p \in Cli, RunStep(p), ~CheckNodes(p), pc'[p] \in PastNodes
  PROVE  pc[p] \in PastNodes
<1> USE DEF TypeOK, PastNodes, RunSteps, Checks, Provisioning, Goto, Fail, Answered
<1>1. CASE CheckCluster(p) \/ CheckNamespace(p) \/ CheckPool(p)
  BY <1>1 DEF CheckCluster, CheckNamespace, CheckPool
<1>2. CASE Preflight(p) \/ LoadPlugins(p)
  BY <1>2 DEF Preflight, LoadPlugins
<1>3. CASE CreateNamespace(p) \/ UpdateRole(p) \/ UpdateBinding(p)
  BY <1>3 DEF CreateNamespace, UpdateRole, UpdateBinding
<1>4. CASE CreateServiceAccount(p) \/ CreateVersion(p) \/ CreatePluginsConfig(p)
           \/ SonobuoyRun(p)
  BY <1>4 DEF CreateServiceAccount, CreateVersion, CreatePluginsConfig, SonobuoyRun
<1> QED
  BY <1>1, <1>2, <1>3, <1>4 DEF RunStep

LEMMA CheckNodesFinds ==
  ASSUME NEW p \in Cli, TypeOK, CheckNodes(p), pc'[p] \in PastNodes, option[p].dedicated
  PROVE  setup.labelled \cap setup.tainted # {}
  BY DEF CheckNodes, DedicatedNodeFound, PastNodes, RunSteps, Checks, Provisioning, Goto,
         Fail, TypeOK

\* The commands of the other terminals change neither a run's step nor its flags.
LEMMA HasNodeStep ==
  TypeOK /\ HasNode /\ NodeInvariant /\ [NextNode]_varsNode => HasNode'
<1> SUFFICES ASSUME TypeOK, HasNode, NodeInvariant, [NextNode]_varsNode,
                    NEW p \in Cli, pc'[p] \in PastNodes, option'[p].dedicated
             PROVE  setup'.labelled \cap setup'.tainted # {}
  BY DEF HasNode
<1>1. setup.labelled \subseteq setup'.labelled /\ setup.tainted \subseteq setup'.tainted
  BY NodeInvariantStep
<1>2. ASSUME pc[p] \in PastNodes, option'[p] = option[p]
      PROVE  setup'.labelled \cap setup'.tainted # {}
  BY <1>1, <1>2 DEF HasNode
<1>3. CASE UNCHANGED <<pc, option>>
  BY <1>2, <1>3
<1>4. ASSUME NEW q \in Cli, RunStep(q) PROVE setup'.labelled \cap setup'.tainted # {}
  <2>1. option' = option /\ \E s : pc' = [pc EXCEPT ![q] = s]
    BY <1>4, RunMoves, RunsKeepOptions
  <2>2. CASE p # q
    BY <1>2, <2>1, <2>2 DEF TypeOK
  <2>3. CASE p = q /\ CheckNodes(q)
    BY <1>1, <2>1, <2>3, CheckNodesFinds
  <2>4. CASE p = q /\ ~CheckNodes(q)
    BY <1>2, <1>4, <2>1, <2>4, OnlyCheckNodesPasses
  <2> QED
    BY <2>2, <2>3, <2>4
<1>5. ASSUME NEW q \in Cli, DestroyStep(q) \/ StartDestroy(q) \/ Crash(q)
      PROVE  setup'.labelled \cap setup'.tainted # {}
  <2>1. option' = option
    BY <1>5, RunsKeepOptions
  <2>2. \E s \in DestroySteps \cup {"destroyed", "crashed"} : pc' = [pc EXCEPT ![q] = s]
    BY <1>5, DestroyMoves DEF StartDestroy, Crash, Goto, DestroySteps
  <2>3. p # q
    BY <2>2 DEF TypeOK, PastNodes, RunSteps, Checks, Provisioning, DestroySteps
  <2> QED
    BY <1>2, <2>1, <2>2, <2>3 DEF TypeOK
<1>6. ASSUME NEW q \in Cli, NEW o \in RunOptions, StartRun(q, o)
      PROVE  setup'.labelled \cap setup'.tainted # {}
  <2>1. p # q
    BY <1>6 DEF StartRun, Goto, TypeOK, PastNodes, RunSteps, Checks, Provisioning
  <2> QED
    BY <1>2, <1>6, <2>1 DEF StartRun, Goto, TypeOK
<1>7. CASE Next
  BY <1>3, <1>4, <1>5, <1>6, <1>7, NextSteps
     DEF NamespaceGone, TestsCreateNamespace, vars, cliVars
<1>8. ASSUME NEW a \in Admins, Discover(a) \/ GetNode(a) \/ UpdateNode(a)
      PROVE  UNCHANGED <<pc, option>>
  BY <1>8 DEF Discover, GetNode, UpdateNode, Put, Refused, vars, cliVars
<1>9. ASSUME NEW n \in Nodes, OthersWrite(n) PROVE UNCHANGED <<pc, option>>
  BY <1>9 DEF OthersWrite, Put, cliVars
<1>10. CASE UNCHANGED varsNode
  BY <1>3, <1>10 DEF varsNode, vars, cliVars
<1> QED
  BY <1>3, <1>7, <1>8, <1>9, <1>10 DEF NextNode

-----------------------------------------------------------------------------
(* The environment beside setup-node.                                      *)

\* What is inductive of the environment alone.
Environment ==
  /\ TypeOK /\ RunAlone /\ DestroyAlone /\ RunProgress /\ SetupIsExclusive
  /\ AbsentIsEmpty /\ DestroyProgress

LEMMA EnvironmentInit == Init => Environment
<1> SUFFICES ASSUME Init PROVE Environment
  OBVIOUS
<1>1. TypeOK
  BY TypeInit
<1>2. RunAlone /\ DestroyAlone
  BY DEF Init, RunAlone, DestroyAlone, RunSteps, DestroySteps, Checks, Provisioning
<1>3. RunProgress /\ SetupIsExclusive
  BY DEF Init, RunProgress, SetupIsExclusive, Holds, Provisioning
<1>4. AbsentIsEmpty /\ DestroyProgress
  BY DEF Init, AbsentIsEmpty, DestroyProgress
<1> QED
  BY <1>1, <1>2, <1>3, <1>4 DEF Environment

\* A step of setup-node, or of who else writes nodes, is none of the environment.
LEMMA OtherStep ==
  ASSUME NodeInvariant, TypeOK, [NextNode]_varsNode, ~[Next]_vars
  PROVE  /\ UNCHANGED <<cliVars, ns, objs, role, binding, testNs, overlapped>>
         /\ started' \in Nat
<1>1. ASSUME NEW a \in Admins, Discover(a)
      PROVE  /\ UNCHANGED <<cliVars, ns, objs, role, binding, testNs, overlapped>>
             /\ started' \in Nat
  BY <1>1 DEF Discover, clusterVars, TypeOK
<1>2. ASSUME NEW a \in Admins, UpdateNode(a)
      PROVE  /\ UNCHANGED <<cliVars, ns, objs, role, binding, testNs, overlapped>>
             /\ started' \in Nat
  BY <1>2 DEF UpdateNode, Put, Refused, vars, clusterVars, TypeOK
<1>3. ASSUME NEW n \in Nodes, OthersWrite(n)
      PROVE  /\ UNCHANGED <<cliVars, ns, objs, role, binding, testNs, overlapped>>
             /\ started' \in Nat
  BY <1>3 DEF OthersWrite, Put, TypeOK
<1> QED
  BY <1>1, <1>2, <1>3 DEF NextNode, GetNode, varsNode

LEMMA EnvironmentStep ==
  Environment /\ NodeInvariant /\ [NextNode]_varsNode => Environment'
<1> SUFFICES ASSUME Environment, NodeInvariant, [NextNode]_varsNode PROVE Environment'
  OBVIOUS
<1>1. CASE [Next]_vars
  BY <1>1, TypeStep, AloneStep, RunProgressStep, ExclusiveStep, AbsentStep,
     DestroyProgressStep DEF Environment
<1>2. CASE ~[Next]_vars
  <2>1. /\ UNCHANGED <<cliVars, ns, objs, role, binding, testNs, overlapped>>
        /\ started' \in Nat
    BY <1>2, OtherStep DEF Environment
  <2>2. setup' \in ClusterSetup
    BY NodeInvariantStep DEF NodeInvariant, TypeOKNode
  <2>3. TypeOK'
    BY <2>1, <2>2 DEF Environment, TypeOK, cliVars
  <2>4. RunAlone' /\ DestroyAlone'
    BY <2>1 DEF Environment, RunAlone, DestroyAlone, DestroyInFlight, RunInFlight, cliVars
  <2>5. RunProgress' /\ SetupIsExclusive'
    BY <2>1 DEF Environment, RunProgress, SetupIsExclusive, Holds, cliVars
  <2>6. AbsentIsEmpty' /\ DestroyProgress'
    BY <2>1 DEF Environment, AbsentIsEmpty, DestroyProgress, Quiet, cliVars
  <2> QED
    BY <2>3, <2>4, <2>5, <2>6 DEF Environment
<1> QED
  BY <1>1, <1>2

\* Whatever setup-node and others write to the nodes, what is proved of the
\* environment alone holds: one builder, a complete environment when the jobs
\* are scheduled, nothing left by a destroy without warnings.
THEOREM EnvironmentBesideSetupNode ==
  SpecNode => [](/\ TypeOK /\ SetupIsExclusive
                 /\ ScheduledEnvironmentIsComplete /\ QuietDestroyLeavesNothing)
<1>1. InitNode => Environment /\ NodeInvariant
  BY EnvironmentInit, NodeInvariantInit DEF InitNode
<1>2. Environment =>
        /\ TypeOK /\ SetupIsExclusive
        /\ ScheduledEnvironmentIsComplete /\ QuietDestroyLeavesNothing
  BY ProgressIsComplete, ProgressLeavesNothing DEF Environment
<1> QED
  BY <1>1, <1>2, EnvironmentStep, NodeInvariantStep, PTL DEF SpecNode

\* Whoever labels and taints nodes, and whenever: a dedicated run is scheduled
\* only where a node has both the label and the taint.
THEOREM DedicatedRuns == SpecNode => []DedicatedRunHasNode
<1>1. InitNode => Environment /\ NodeInvariant /\ HasNode
  <2>1. Init => HasNode
    BY DEF Init, HasNode, PastNodes, RunSteps, Checks, Provisioning
  <2> QED
    BY <2>1, EnvironmentInit, NodeInvariantInit DEF InitNode
<1>2. Environment => TypeOK
  BY DEF Environment
<1>3. HasNode => DedicatedRunHasNode
  BY DEF HasNode, DedicatedRunHasNode, PastNodes
<1> QED
  BY <1>1, <1>2, <1>3, EnvironmentStep, NodeInvariantStep, HasNodeStep, PTL DEF SpecNode
=============================================================================
