--------------------------- MODULE OpctEnvironment ---------------------------
(***************************************************************************)
(* The validation environment `opct run` builds in a cluster and           *)
(* `opct destroy` takes down: one namespace with the objects in it, a      *)
(* cluster role and its binding, and the namespaces the e2e tests leave    *)
(* behind.  Nothing but the cluster API relates two invocations of the     *)
(* CLI: each is a sequence of API calls that any other invocation, a       *)
(* failing call or the death of the process can come between.              *)
(***************************************************************************)
EXTENDS Naturals, FiniteSets

CONSTANTS
  Cli,             \* the terminals from which the CLI is started
  RunOptions,      \* the flags `opct run` may be given: records of RunOption
  TestNamespaces,  \* the namespaces matching NonOpenShiftNamespace ("e2e-.*")
  Nodes,           \* the worker nodes
  ClusterSetups,   \* what an administrator prepared: records of ClusterSetup
  MaxStarts        \* bound: how many commands are started in a behaviour

\* --mode, --dedicated and --devel-skip-checks of `opct run`.
RunOption == [mode : {"regular", "upgrade"}, dedicated : BOOLEAN, skip : BOOLEAN]

\* The MachineConfigPool "opct", and the nodes with the dedicated-node label and taint.
ClusterSetup == [pool : {"missing", "unpaused", "paused"},
                 labelled : SUBSET Nodes, tainted : SUBSET Nodes]

ASSUME SetupAssumption == /\ RunOptions \subseteq RunOption
                          /\ ClusterSetups \subseteq ClusterSetup
                          /\ MaxStarts \in Nat

VARIABLES
  pc,          \* pc[p]: the API call p makes next, or how its last command ended
  option,      \* option[p]: the flags of the last `opct run` of p
  found,       \* found[p]: the test namespaces p's destroy listed and has yet to delete
  trouble,     \* trouble[p]: what p's destroy warned about ("fault", "notfound")
  ns,          \* the phase of the namespace "opct"
  objs,        \* the OPCT objects in that namespace
  role,        \* whether the ClusterRole exists
  binding,     \* whether the ClusterRoleBinding exists
  testNs,      \* the test namespaces that exist
  setup,       \* what the administrator prepared
  started,     \* how many commands were started
  overlapped   \* history: who had a command of the other kind run alongside theirs

cliVars == <<pc, option, found, trouble>>
clusterVars == <<ns, objs, role, binding, testNs, setup>>
vars == <<cliVars, clusterVars, started, overlapped>>

Checks == {"checkCluster", "checkNodes", "checkNamespace", "checkPool", "createNamespace"}

\* The steps of a run that has created the namespace, in their order.
Provisioning == {"createServiceAccount", "updateRole", "updateBinding", "preflight",
                 "createVersion", "createPluginsConfig", "loadPlugins", "sonobuoyRun"}

RunSteps == Checks \cup Provisioning

DestroySteps == {"deleteEnv", "waitEnv", "listNamespaces", "deleteNamespaces",
                 "deleteRole", "deleteBinding"}

Ended == {"idle", "failed", "crashed", "scheduled", "destroyed"}

Objects == {"serviceAccount", "version", "pluginsConfig", "aggregator"}

NoOption == [mode |-> "regular", dedicated |-> FALSE, skip |-> FALSE]

DestroyInFlight == \E p \in Cli : pc[p] \in DestroySteps
RunInFlight == \E p \in Cli : pc[p] \in RunSteps

Goto(p, step) == pc' = [pc EXCEPT ![p] = step]
Fail(p) == Goto(p, "failed")

-----------------------------------------------------------------------------
(* The cluster as an administrator hands it over, possibly with what an    *)
(* earlier use left.                                                       *)
Init ==
  /\ pc = [p \in Cli |-> "idle"]
  /\ option = [p \in Cli |-> NoOption]
  /\ found = [p \in Cli |-> {}]
  /\ trouble = [p \in Cli |-> {}]
  /\ ns = "absent" /\ objs = {} /\ testNs = {}
  /\ role = FALSE /\ binding = FALSE
  /\ setup \in ClusterSetups
  /\ started = 0
  /\ overlapped = {}

-----------------------------------------------------------------------------
(* opct run: PreRunCheck.  Any read may also fail, which ends the command. *)

StartRun(p, o) ==
  /\ pc[p] \in Ended
  /\ started < MaxStarts
  /\ started' = started + 1
  /\ Goto(p, "checkCluster")
  /\ option' = [option EXCEPT ![p] = o]
  /\ overlapped' = (overlapped \ {p})
                     \cup {q \in Cli : pc[q] \in DestroySteps \cup {"destroyed"}}
                     \cup {q \in {p} : DestroyInFlight}
  /\ UNCHANGED <<found, trouble, clusterVars>>

\* Every ClusterOperator is stable and the image registry is managed, or the
\* developer asked to skip both checks.
CheckCluster(p) ==
  /\ pc[p] = "checkCluster"
  /\ \E ready \in BOOLEAN :
       IF ready \/ option[p].skip THEN Goto(p, "checkNodes") ELSE Fail(p)
  /\ UNCHANGED <<option, found, trouble, clusterVars, started, overlapped>>

\* Mutant of DedicatedNodeFound: the taint is not looked for.
LabelledNodeFound == Cardinality(setup.labelled) \in 1..2

\* One or two nodes carry the label, and the first one listed carries the taint.
DedicatedNodeFound ==
  /\ Cardinality(setup.labelled) \in 1..2
  /\ \E first \in setup.labelled : first \in setup.tainted

CheckNodes(p) ==
  /\ pc[p] = "checkNodes"
  /\ \/ /\ option[p].dedicated => DedicatedNodeFound
        /\ Goto(p, "checkNamespace")
     \/ /\ option[p].dedicated
        /\ Fail(p)
  /\ UNCHANGED <<option, found, trouble, clusterVars, started, overlapped>>

\* A namespace being deleted is still found.
CheckNamespace(p) ==
  /\ pc[p] = "checkNamespace"
  /\ \/ ns = "absent" /\ Goto(p, "checkPool")
     \/ Fail(p)
  /\ UNCHANGED <<option, found, trouble, clusterVars, started, overlapped>>

\* isPaused is set for every pool found: an unpaused one is only logged.
PoolAccepted == setup.pool # "missing"

CheckPool(p) ==
  /\ pc[p] = "checkPool"
  /\ \/ /\ option[p].mode = "upgrade" => PoolAccepted
        /\ Goto(p, "createNamespace")
     \/ /\ option[p].mode = "upgrade"
        /\ Fail(p)
  /\ UNCHANGED <<option, found, trouble, clusterVars, started, overlapped>>

-----------------------------------------------------------------------------
(* opct run: PreRunSetup and Run.  A call takes effect and is answered,    *)
(* takes effect and its answer is lost, or is refused or fails without     *)
(* effect.  Without an answer the command ends with an error and leaves    *)
(* everything as it is.                                                    *)

Answered(p, step) == Goto(p, step) \/ Fail(p)

\* Mutant of CreateNamespace: an existing namespace is reused.
CreateNamespaceTolerant(p) ==
  /\ pc[p] = "createNamespace"
  /\ \/ ns # "terminating" /\ ns' = "active" /\ Answered(p, "createServiceAccount")
     \/ UNCHANGED ns /\ Fail(p)
  /\ UNCHANGED <<option, found, trouble, objs, role, binding, testNs, setup, started,
                 overlapped>>

CreateNamespace(p) ==
  /\ pc[p] = "createNamespace"
  /\ \/ ns = "absent" /\ ns' = "active" /\ Answered(p, "createServiceAccount")
     \/ UNCHANGED ns /\ Fail(p)
  /\ UNCHANGED <<option, found, trouble, objs, role, binding, testNs, setup, started,
                 overlapped>>

\* Create in the namespace: refused when it is not there, is being deleted, or
\* has the object already.
CreateObject(p, obj, next) ==
  /\ \/ /\ ns = "active" /\ obj \notin objs
        /\ objs' = objs \cup {obj}
        /\ Answered(p, next)
     \/ UNCHANGED objs /\ Fail(p)
  /\ UNCHANGED <<option, found, trouble, ns, role, binding, testNs, setup, started,
                 overlapped>>

CreateServiceAccount(p) ==
  /\ pc[p] = "createServiceAccount"
  /\ CreateObject(p, "serviceAccount", "updateRole")

\* The API server creates RBAC objects on update: the call is an upsert.
UpdateRole(p) ==
  /\ pc[p] = "updateRole"
  /\ \/ role' = TRUE /\ Answered(p, "updateBinding")
     \/ UNCHANGED role /\ Fail(p)
  /\ UNCHANGED <<option, found, trouble, ns, objs, binding, testNs, setup, started,
                 overlapped>>

\* Mutant of UpdateBinding: its error is dropped.
UpdateBindingUnchecked(p) ==
  /\ pc[p] = "updateBinding"
  /\ binding' \in {TRUE, binding}
  /\ Goto(p, "preflight")
  /\ UNCHANGED <<option, found, trouble, ns, objs, role, testNs, setup, started,
                 overlapped>>

UpdateBinding(p) ==
  /\ pc[p] = "updateBinding"
  /\ \/ binding' = TRUE /\ Answered(p, "preflight")
     \/ UNCHANGED binding /\ Fail(p)
  /\ UNCHANGED <<option, found, trouble, ns, objs, role, testNs, setup, started,
                 overlapped>>

\* The image overrides are compatible, and Sonobuoy's own checks pass or are skipped.
Preflight(p) ==
  /\ pc[p] = "preflight"
  /\ \E imagesOk \in BOOLEAN, passed \in BOOLEAN :
       IF imagesOk /\ (passed \/ option[p].skip) THEN Goto(p, "createVersion") ELSE Fail(p)
  /\ UNCHANGED <<option, found, trouble, clusterVars, started, overlapped>>

\* Mutant of CreateVersion: an object the environment does not know.
CreateVersionMisnamed(p) ==
  /\ pc[p] = "createVersion"
  /\ CreateObject(p, "opct-versions", "createPluginsConfig")

CreateVersion(p) ==
  /\ pc[p] = "createVersion"
  /\ CreateObject(p, "version", "createPluginsConfig")

CreatePluginsConfig(p) ==
  /\ pc[p] = "createPluginsConfig"
  /\ CreateObject(p, "pluginsConfig", "loadPlugins")

\* A plugin that does not load, or no plugin at all, ends the command.
LoadPlugins(p) ==
  /\ pc[p] = "loadPlugins"
  /\ Answered(p, "sonobuoyRun")
  /\ UNCHANGED <<option, found, trouble, clusterVars, started, overlapped>>

\* Sonobuoy creates the aggregator and its configuration in the namespace.  It
\* brings back a namespace deleted in the meantime, but not the service account,
\* without which there is no aggregator.
SonobuoyRun(p) ==
  /\ pc[p] = "sonobuoyRun"
  /\ \/ CreateObject(p, "aggregator", "scheduled")
     \/ /\ ns = "absent" /\ ns' = "active" /\ Fail(p)
        /\ UNCHANGED <<option, found, trouble, objs, role, binding, testNs, setup, started,
                       overlapped>>

-----------------------------------------------------------------------------
(* opct destroy.  No failure ends it but that of one phase: a warning is   *)
(* logged, and the command reports success.                                *)

StartDestroy(p) ==
  /\ pc[p] \in Ended
  /\ started < MaxStarts
  /\ started' = started + 1
  /\ Goto(p, "deleteEnv")
  /\ trouble' = [trouble EXCEPT ![p] = {}]
  /\ overlapped' = (overlapped \ {p})
                     \cup {q \in Cli : pc[q] \in RunSteps \cup {"scheduled"}}
                     \cup {q \in {p} : RunInFlight}
  /\ UNCHANGED <<option, found, clusterVars>>

Warn(p, what) == trouble' = [trouble EXCEPT ![p] = @ \cup {what}]

\* Sonobuoy takes a missing or terminating namespace for one it deleted.
DeleteEnv(p) ==
  /\ pc[p] = "deleteEnv"
  /\ \/ /\ ns' = IF ns = "active" THEN "terminating" ELSE ns
        /\ \/ Goto(p, "waitEnv") /\ UNCHANGED trouble
           \/ Goto(p, "listNamespaces") /\ Warn(p, "fault")
     \/ UNCHANGED ns /\ Goto(p, "listNamespaces") /\ Warn(p, "fault")
  /\ UNCHANGED <<option, found, objs, role, binding, testNs, setup, started, overlapped>>

\* Mutant of WaitEnv: Wait left at its zero value.
WaitEnvNot(p) ==
  /\ pc[p] = "waitEnv"
  /\ Goto(p, "listNamespaces")
  /\ UNCHANGED <<option, found, trouble, clusterVars, started, overlapped>>

\* Wait until the namespace is gone, or for DeleteSonobuoyEnvWaitTime.
WaitEnv(p) ==
  /\ pc[p] = "waitEnv"
  /\ Goto(p, "listNamespaces")
  /\ \/ ns = "absent" /\ UNCHANGED trouble
     \/ Warn(p, "fault")
  /\ UNCHANGED <<option, found, clusterVars, started, overlapped>>

ListNamespaces(p) ==
  /\ pc[p] = "listNamespaces"
  /\ \/ /\ found' = [found EXCEPT ![p] = testNs]
        /\ Goto(p, "deleteNamespaces")
        /\ UNCHANGED trouble
     \/ Goto(p, "deleteRole") /\ Warn(p, "fault") /\ UNCHANGED found
  /\ UNCHANGED <<option, clusterVars, started, overlapped>>

\* The error of one namespace is logged, and the next one is deleted.
DeleteNamespaces(p) ==
  /\ pc[p] = "deleteNamespaces"
  /\ \/ /\ found[p] = {}
        /\ Goto(p, "deleteRole")
        /\ UNCHANGED <<found, trouble, testNs>>
     \/ \E n \in found[p] :
          /\ found' = [found EXCEPT ![p] = @ \ {n}]
          /\ \/ testNs' = testNs \ {n} /\ UNCHANGED trouble
             \/ UNCHANGED testNs /\ Warn(p, "fault")
          /\ UNCHANGED pc
  /\ UNCHANGED <<option, ns, objs, role, binding, setup, started, overlapped>>

\* RestoreSCC returns at the first error, and a missing object is one.
DeleteRole(p) ==
  /\ pc[p] = "deleteRole"
  /\ \/ /\ role /\ role' = FALSE
        /\ \/ Goto(p, "deleteBinding") /\ UNCHANGED trouble
           \/ Goto(p, "destroyed") /\ Warn(p, "fault")
     \/ ~role /\ UNCHANGED role /\ Goto(p, "destroyed") /\ Warn(p, "notfound")
     \/ UNCHANGED role /\ Goto(p, "destroyed") /\ Warn(p, "fault")
  /\ UNCHANGED <<option, found, ns, objs, binding, testNs, setup, started, overlapped>>

DeleteBinding(p) ==
  /\ pc[p] = "deleteBinding"
  /\ Goto(p, "destroyed")
  /\ \/ /\ binding /\ binding' = FALSE
        /\ UNCHANGED trouble \/ Warn(p, "fault")
     \/ ~binding /\ UNCHANGED binding /\ Warn(p, "notfound")
     \/ UNCHANGED binding /\ Warn(p, "fault")
  /\ UNCHANGED <<option, found, ns, objs, role, testNs, setup, started, overlapped>>

-----------------------------------------------------------------------------
(* The rest of the world.                                                  *)

\* The process is killed: what it did stays, and it does nothing more.
Crash(p) ==
  /\ pc[p] \in RunSteps \cup DestroySteps
  /\ Goto(p, "crashed")
  /\ UNCHANGED <<option, found, trouble, clusterVars, started, overlapped>>

\* The namespace controller finishes a deletion.
NamespaceGone ==
  /\ ns = "terminating"
  /\ ns' = "absent" /\ objs' = {}
  /\ UNCHANGED <<cliVars, role, binding, testNs, setup, started, overlapped>>

\* The e2e tests of a running environment create and delete their namespaces;
\* they go on until their pods are gone.
TestsCreateNamespace(n) ==
  /\ "aggregator" \in objs
  /\ testNs' = testNs \cup {n}
  /\ UNCHANGED <<cliVars, ns, objs, role, binding, setup, started, overlapped>>

RunNext(p) ==
  \/ \E o \in RunOptions : StartRun(p, o)
  \/ CheckCluster(p) \/ CheckNodes(p) \/ CheckNamespace(p) \/ CheckPool(p)
  \/ CreateNamespace(p) \/ CreateServiceAccount(p) \/ UpdateRole(p) \/ UpdateBinding(p)
  \/ Preflight(p) \/ CreateVersion(p) \/ CreatePluginsConfig(p)
  \/ LoadPlugins(p) \/ SonobuoyRun(p)

DestroyNext(p) ==
  \/ StartDestroy(p)
  \/ DeleteEnv(p) \/ WaitEnv(p) \/ ListNamespaces(p) \/ DeleteNamespaces(p)
  \/ DeleteRole(p) \/ DeleteBinding(p)

Next ==
  \/ \E p \in Cli : RunNext(p) \/ DestroyNext(p) \/ Crash(p)
  \/ NamespaceGone
  \/ \E n \in TestNamespaces : TestsCreateNamespace(n)

Spec == Init /\ [][Next]_vars

-----------------------------------------------------------------------------
(* Properties.                                                             *)

\* Types of the variables.
TypeOK ==
  /\ pc \in [Cli -> RunSteps \cup DestroySteps \cup Ended]
  /\ option \in [Cli -> RunOption]
  /\ found \in [Cli -> SUBSET TestNamespaces]
  /\ trouble \in [Cli -> SUBSET {"fault", "notfound"}]
  /\ ns \in {"absent", "active", "terminating"}
  /\ objs \subseteq Objects
  /\ role \in BOOLEAN /\ binding \in BOOLEAN
  /\ testNs \subseteq TestNamespaces
  /\ setup \in ClusterSetup
  /\ started \in Nat
  /\ overlapped \subseteq Cli

Holds(p) == pc[p] \in Provisioning \cup {"scheduled"}

\* Of two runs that raced, however their reads and their creations of the
\* namespace interleaved, only one goes on to build the environment: the
\* namespace is the lock (run.go: the check at 272-283 decides nothing, the
\* Create at 376 does).
SetupIsExclusive ==
  \A p, q \in Cli \ overlapped : Holds(p) /\ Holds(q) => p = q

\* A run that reports its jobs scheduled, with no destroy alongside, left the
\* whole environment: the aggregator never runs without its service account,
\* its two config maps and the privileges (run.go: every failing call of
\* PreRunSetup and Run returns).
ScheduledEnvironmentIsComplete ==
  \A p \in Cli \ overlapped :
    pc[p] = "scheduled" => ns = "active" /\ objs = Objects /\ role /\ binding

\* A destroy that warned of nothing, with no run alongside, left nothing: not
\* the namespace, nor the privileges, nor a test namespace (destroy.go: the
\* namespaces are listed only once the pods that create them are gone).
QuietDestroyLeavesNothing ==
  \A p \in Cli \ overlapped :
    pc[p] = "destroyed" /\ trouble[p] = {} =>
      ns = "absent" /\ ~role /\ ~binding /\ testNs = {}

\* A destroy every call of which reached the API server and was answered, with
\* no other command alongside, leaves no binding of privileges behind:
\* "Destroys resources used for conformance testing" (destroy.go:36).
DestroyRemovesBinding ==
  \A p \in Cli \ overlapped :
    pc[p] = "destroyed" /\ "fault" \notin trouble[p] /\ ~DestroyInFlight => ~binding
=============================================================================
