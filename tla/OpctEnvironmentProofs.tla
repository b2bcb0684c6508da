------------------------ MODULE OpctEnvironmentProofs ------------------------
(***************************************************************************)
(* For any number of terminals, nodes and commands: the environment has    *)
(* one builder, a scheduled environment is complete, and a destroy without *)
(* warnings leaves nothing.                                                *)
(***************************************************************************)
EXTENDS OpctEnvironment, TLAPS

\* The variables start with their types.
LEMMA TypeInit == Init => TypeOK
<1>1. NoOption \in RunOption
  BY DEF NoOption, RunOption
<1>2. Init => role \in BOOLEAN /\ binding \in BOOLEAN
  BY DEF Init
<1>3. Init => /\ setup \in ClusterSetup /\ started \in Nat
              /\ pc \in [Cli -> RunSteps \cup DestroySteps \cup Ended]
  BY SetupAssumption DEF SetupAssumption, Init, Ended
<1> QED
  BY <1>1, <1>2, <1>3 DEF Init, TypeOK

\* No step changes a type.
LEMMA TypeStep == TypeOK /\ [Next]_vars => TypeOK'
<1> SUFFICES ASSUME TypeOK, [Next]_vars PROVE TypeOK'
  OBVIOUS
<1> USE DEF TypeOK, Goto, Fail, RunSteps, Checks, Provisioning, DestroySteps, Ended
<1>1. ASSUME NEW p \in Cli, NEW o \in RunOptions, StartRun(p, o) PROVE TypeOK'
  <2>1. o \in RunOption
    BY SetupAssumption DEF SetupAssumption
  <2> QED
    BY <1>1, <2>1 DEF StartRun, clusterVars
<1>2. ASSUME NEW p \in Cli, CheckCluster(p) \/ CheckNodes(p) \/ CheckNamespace(p)
                            \/ CheckPool(p) \/ Preflight(p) \/ LoadPlugins(p)
      PROVE TypeOK'
  BY <1>2 DEF CheckCluster, CheckNodes, CheckNamespace, CheckPool, Preflight, LoadPlugins,
              Answered, clusterVars
<1>3. ASSUME NEW p \in Cli, CreateNamespace(p) PROVE TypeOK'
  BY <1>3 DEF CreateNamespace, Answered
<1>4. ASSUME NEW p \in Cli, CreateServiceAccount(p) \/ CreateVersion(p)
                            \/ CreatePluginsConfig(p) \/ SonobuoyRun(p)
      PROVE TypeOK'
  BY <1>4 DEF CreateServiceAccount, CreateVersion, CreatePluginsConfig, SonobuoyRun,
              CreateObject, Answered, Objects
<1>5. ASSUME NEW p \in Cli, UpdateRole(p) \/ UpdateBinding(p) PROVE TypeOK'
  BY <1>5 DEF UpdateRole, UpdateBinding, Answered
<1>6. ASSUME NEW p \in Cli, StartDestroy(p) PROVE TypeOK'
  BY <1>6 DEF StartDestroy, clusterVars
<1>7. ASSUME NEW p \in Cli, DeleteEnv(p) \/ WaitEnv(p) PROVE TypeOK'
  BY <1>7 DEF DeleteEnv, WaitEnv, Warn, clusterVars
<1>8. ASSUME NEW p \in Cli, ListNamespaces(p) \/ DeleteNamespaces(p) PROVE TypeOK'
  BY <1>8 DEF ListNamespaces, DeleteNamespaces, Warn, clusterVars
<1>9. ASSUME NEW p \in Cli, DeleteRole(p) PROVE TypeOK'
  <2>1. role' \in BOOLEAN
    BY <1>9 DEF DeleteRole
  <2> QED
    BY <1>9, <2>1 DEF DeleteRole, Warn
<1>10. ASSUME NEW p \in Cli, DeleteBinding(p) PROVE TypeOK'
  <2>1. binding' \in BOOLEAN
    BY <1>10 DEF DeleteBinding
  <2> QED
    BY <1>10, <2>1 DEF DeleteBinding, Warn
<1>11. ASSUME NEW p \in Cli, Crash(p) PROVE TypeOK'
  BY <1>11 DEF Crash, clusterVars
<1>12. CASE NamespaceGone
  BY <1>12 DEF NamespaceGone, cliVars
<1>13. ASSUME NEW n \in TestNamespaces, TestsCreateNamespace(n) PROVE TypeOK'
  BY <1>13 DEF TestsCreateNamespace, cliVars
<1>14. CASE UNCHANGED vars
  BY <1>14 DEF vars, cliVars, clusterVars
<1> QED
  BY <1>1, <1>2, <1>3, <1>4, <1>5, <1>6, <1>7, <1>8, <1>9, <1>10, <1>11, <1>12, <1>13, <1>14
     DEF Next, RunNext, DestroyNext

\* Every variable keeps its type, whatever the terminals do and in whatever
\* order their API calls reach the cluster.
THEOREM Typing == Spec => []TypeOK
  BY TypeInit, TypeStep, PTL DEF Spec

-----------------------------------------------------------------------------
(* Which commands go on alongside: the history variable does its work.     *)

\* The steps of a run that has started, but those that start it.
RunStep(p) ==
  \/ CheckCluster(p) \/ CheckNodes(p) \/ CheckNamespace(p) \/ CheckPool(p)
  \/ CreateNamespace(p) \/ CreateServiceAccount(p) \/ UpdateRole(p) \/ UpdateBinding(p)
  \/ Preflight(p) \/ CreateVersion(p) \/ CreatePluginsConfig(p)
  \/ LoadPlugins(p) \/ SonobuoyRun(p)

DestroyStep(p) ==
  \/ DeleteEnv(p) \/ WaitEnv(p) \/ ListNamespaces(p) \/ DeleteNamespaces(p)
  \/ DeleteRole(p) \/ DeleteBinding(p)

\* A step of a run is taken by a run in flight, moves it to another step of a run or
\* to one of its ends, and neither marks an overlap nor warns.
LEMMA RunMoves ==
  ASSUME TypeOK, NEW p \in Cli, RunStep(p)
  PROVE  /\ pc[p] \in RunSteps
         /\ \E s \in RunSteps \cup {"scheduled", "failed"} : pc' = [pc EXCEPT ![p] = s]
         /\ overlapped' = overlapped /\ trouble' = trouble
<1> USE DEF Goto, Fail, Answered, RunSteps, Checks, Provisioning
<1>1. ASSUME CheckCluster(p) \/ CheckNodes(p) \/ CheckNamespace(p) \/ CheckPool(p)
             \/ Preflight(p) \/ LoadPlugins(p)
      PROVE  /\ pc[p] \in RunSteps
             /\ \E s \in RunSteps \cup {"scheduled", "failed"} : pc' = [pc EXCEPT ![p] = s]
             /\ overlapped' = overlapped /\ trouble' = trouble
  BY <1>1 DEF CheckCluster, CheckNodes, CheckNamespace, CheckPool, Preflight, LoadPlugins
<1>2. ASSUME CreateNamespace(p) \/ UpdateRole(p) \/ UpdateBinding(p)
      PROVE  /\ pc[p] \in RunSteps
             /\ \E s \in RunSteps \cup {"scheduled", "failed"} : pc' = [pc EXCEPT ![p] = s]
             /\ overlapped' = overlapped /\ trouble' = trouble
  BY <1>2 DEF CreateNamespace, UpdateRole, UpdateBinding
<1>3. ASSUME CreateServiceAccount(p) \/ CreateVersion(p) \/ CreatePluginsConfig(p)
             \/ SonobuoyRun(p)
      PROVE  /\ pc[p] \in RunSteps
             /\ \E s \in RunSteps \cup {"scheduled", "failed"} : pc' = [pc EXCEPT ![p] = s]
             /\ overlapped' = overlapped /\ trouble' = trouble
  BY <1>3 DEF CreateServiceAccount, CreateVersion, CreatePluginsConfig, SonobuoyRun,
              CreateObject
<1> QED
  BY <1>1, <1>2, <1>3 DEF RunStep

\* A step of a destroy is taken by a destroy in flight, and moves it to another
\* step of a destroy or to its end: no error ends a destroy early.
LEMMA DestroyMoves ==
  ASSUME TypeOK, NEW p \in Cli, DestroyStep(p)
  PROVE  /\ pc[p] \in DestroySteps
         /\ \E s \in DestroySteps \cup {"destroyed"} : pc' = [pc EXCEPT ![p] = s]
         /\ overlapped' = overlapped
<1> USE DEF TypeOK, Goto, DestroySteps
<1>1. ASSUME DeleteEnv(p) \/ WaitEnv(p) \/ ListNamespaces(p)
      PROVE  /\ pc[p] \in DestroySteps
             /\ \E s \in DestroySteps \cup {"destroyed"} : pc' = [pc EXCEPT ![p] = s]
             /\ overlapped' = overlapped
  BY <1>1 DEF DeleteEnv, WaitEnv, ListNamespaces
<1>2. ASSUME DeleteNamespaces(p)
      PROVE  /\ pc[p] \in DestroySteps
             /\ \E s \in DestroySteps \cup {"destroyed"} : pc' = [pc EXCEPT ![p] = s]
             /\ overlapped' = overlapped
  <2>1. pc' = [pc EXCEPT ![p] = "deleteRole"] \/ pc' = [pc EXCEPT ![p] = "deleteNamespaces"]
    BY <1>2 DEF DeleteNamespaces
  <2> QED
    BY <1>2, <2>1 DEF DeleteNamespaces
<1>3. ASSUME DeleteRole(p) \/ DeleteBinding(p)
      PROVE  /\ pc[p] \in DestroySteps
             /\ \E s \in DestroySteps \cup {"destroyed"} : pc' = [pc EXCEPT ![p] = s]
             /\ overlapped' = overlapped
  BY <1>3 DEF DeleteRole, DeleteBinding
<1> QED
  BY <1>1, <1>2, <1>3 DEF DestroyStep

\* Every step starts a command, is a step of one, ends one, or is the cluster's own.
LEMMA NextSteps ==
  ASSUME [Next]_vars
  PROVE  \/ \E p \in Cli : \/ \E o \in RunOptions : StartRun(p, o)
                          \/ StartDestroy(p) \/ RunStep(p) \/ DestroyStep(p) \/ Crash(p)
         \/ NamespaceGone
         \/ \E n \in TestNamespaces : TestsCreateNamespace(n)
         \/ UNCHANGED vars
BY DEF Next, RunNext, DestroyNext, RunStep, DestroyStep

\* While a command that nothing overlapped goes on, and after it until another
\* starts, no command of the other kind is in flight.
RunAlone ==
  \A p \in Cli \ overlapped : pc[p] \in RunSteps \cup {"scheduled"} => ~DestroyInFlight

DestroyAlone ==
  \A p \in Cli \ overlapped : pc[p] \in DestroySteps \cup {"destroyed"} => ~RunInFlight

\* No step lets a command go on alongside one of the other kind unmarked.
LEMMA AloneStep ==
  TypeOK /\ RunAlone /\ DestroyAlone /\ [Next]_vars => RunAlone' /\ DestroyAlone'
<1> USE DEF RunAlone, DestroyAlone, DestroyInFlight, RunInFlight
<1> SUFFICES ASSUME TypeOK, RunAlone, DestroyAlone, [Next]_vars
             PROVE  RunAlone' /\ DestroyAlone'
  OBVIOUS
<1>0. DestroySteps \cap (RunSteps \cup {"scheduled", "failed"}) = {}
      /\ RunSteps \cap (DestroySteps \cup {"destroyed"}) = {}
      /\ "crashed" \notin RunSteps \cup DestroySteps
      /\ "checkCluster" \in RunSteps /\ "deleteEnv" \in DestroySteps
      /\ RunSteps \cap Ended = {} /\ DestroySteps \cap Ended = {}
  BY DEF RunSteps, DestroySteps, Checks, Provisioning, Ended
<1> USE <1>0 DEF TypeOK
<1>1. ASSUME NEW p \in Cli, NEW o \in RunOptions, StartRun(p, o)
      PROVE  RunAlone' /\ DestroyAlone'
  BY <1>1 DEF StartRun, Goto
<1>2. ASSUME NEW p \in Cli, StartDestroy(p) PROVE RunAlone' /\ DestroyAlone'
  BY <1>2 DEF StartDestroy, Goto
<1>3. ASSUME NEW p \in Cli, RunStep(p) PROVE RunAlone' /\ DestroyAlone'
  BY <1>3, RunMoves
<1>4. ASSUME NEW p \in Cli, DestroyStep(p) PROVE RunAlone' /\ DestroyAlone'
  BY <1>4, DestroyMoves
<1>5. ASSUME NEW p \in Cli, Crash(p) PROVE RunAlone' /\ DestroyAlone'
  BY <1>5 DEF Crash, Goto
<1>6. ASSUME UNCHANGED <<pc, overlapped>> PROVE RunAlone' /\ DestroyAlone'
  BY <1>6
<1> QED
  BY <1>1, <1>2, <1>3, <1>4, <1>5, <1>6, NextSteps
     DEF NamespaceGone, TestsCreateNamespace, vars, cliVars

\* The history variable does what it is for: of two commands of different kinds,
\* the one that starts later marks the other and itself.
THEOREM Alone == Spec => [](RunAlone /\ DestroyAlone)
<1> USE DEF RunAlone, DestroyAlone, DestroyInFlight, RunInFlight
<1>1. Init => RunAlone /\ DestroyAlone
  BY DEF Init, RunSteps, DestroySteps, Checks, Provisioning
<1> QED
  BY <1>1, AloneStep, Typing, PTL DEF Spec

-----------------------------------------------------------------------------
(* Runs: what the steps behind a run have made is still there.             *)

Made(step) ==
  {o \in Objects :
     \/ o = "serviceAccount" /\ step # "createServiceAccount"
     \/ o = "version" /\ step \in {"createPluginsConfig", "loadPlugins", "sonobuoyRun",
                                  "scheduled"}
     \/ o = "pluginsConfig" /\ step \in {"loadPlugins", "sonobuoyRun", "scheduled"}
     \/ o = "aggregator" /\ step = "scheduled"}

\* The inductive invariant of runs.  That the objects are exactly those made
\* is not invariant: a run that a destroy overtook may still add its own.
RunProgress ==
  \A p \in Cli \ overlapped :
    Holds(p) =>
      /\ ns = "active"
      /\ Made(pc[p]) \subseteq objs
      /\ pc[p] \notin {"createServiceAccount", "updateRole"} => role
      /\ pc[p] \notin {"createServiceAccount", "updateRole", "updateBinding"} => binding

\* While a run that nothing overlapped holds the namespace, its state is
\* untouched by every other step.
LEMMA HolderIsUndisturbed ==
  ASSUME TypeOK, RunAlone, NEW p \in Cli \ overlapped, Holds(p), ns = "active",
         NEW q \in Cli, DestroyStep(q)
  PROVE  FALSE
<1>1. pc[q] \in DestroySteps
  BY DestroyMoves
<1>2. pc[p] \in RunSteps \cup {"scheduled"}
  BY DEF Holds, RunSteps
<1> QED
  BY <1>1, <1>2 DEF RunAlone, DestroyInFlight

\* Creating an object takes nothing away, and the command that goes on has its object.
LEMMA CreateObjectKeeps ==
  ASSUME NEW q \in Cli, NEW o, NEW next, CreateObject(q, o, next)
  PROVE  /\ objs \subseteq objs' /\ ns' = ns /\ role' = role /\ binding' = binding
         /\ \/ pc' = [pc EXCEPT ![q] = next] /\ o \in objs'
            \/ pc' = [pc EXCEPT ![q] = "failed"]
BY DEF CreateObject, Answered, Goto, Fail

\* No step of another run takes away what a run has made, and the next step of
\* the run itself adds to it.
LEMMA RunStepProgress ==
  ASSUME TypeOK, RunProgress, NEW q \in Cli, RunStep(q)
  PROVE  RunProgress'
<1> USE DEF TypeOK, RunProgress, Holds, Provisioning
<1>1. overlapped' = overlapped
  BY RunMoves
<1>2. CASE CheckCluster(q) \/ CheckNodes(q) \/ CheckNamespace(q) \/ CheckPool(q)
  <2>1. /\ UNCHANGED <<ns, objs, role, binding>>
        /\ \E s : pc' = [pc EXCEPT ![q] = s] /\ s \notin Provisioning \cup {"scheduled"}
    BY <1>2 DEF CheckCluster, CheckNodes, CheckNamespace, CheckPool, Goto, Fail, clusterVars
  <2> QED
    BY <1>1, <2>1
<1>3. CASE CreateNamespace(q)
  <2>1. /\ UNCHANGED <<objs, role, binding>> /\ (ns = "active" => ns' = "active")
        /\ \/ pc' = [pc EXCEPT ![q] = "createServiceAccount"] /\ ns' = "active"
           \/ pc' = [pc EXCEPT ![q] = "failed"]
    BY <1>3 DEF CreateNamespace, Answered, Goto, Fail
  <2>2. Made("createServiceAccount") = {}
    BY DEF Made, Objects
  <2> QED
    BY <1>1, <2>1, <2>2
<1>4. CASE UpdateRole(q)
  <2>1. /\ UNCHANGED <<ns, objs, binding>> /\ (role => role')
        /\ \/ pc' = [pc EXCEPT ![q] = "updateBinding"] /\ role'
           \/ pc' = [pc EXCEPT ![q] = "failed"]
        /\ pc[q] = "updateRole"
    BY <1>4 DEF UpdateRole, Answered, Goto, Fail
  <2>2. Made("updateBinding") = Made("updateRole")
    BY DEF Made, Objects
  <2> QED
    BY <1>1, <2>1, <2>2
<1>5. CASE UpdateBinding(q)
  <2>1. /\ UNCHANGED <<ns, objs, role>> /\ (binding => binding')
        /\ \/ pc' = [pc EXCEPT ![q] = "preflight"] /\ binding'
           \/ pc' = [pc EXCEPT ![q] = "failed"]
        /\ pc[q] = "updateBinding"
    BY <1>5 DEF UpdateBinding, Answered, Goto, Fail
  <2>2. Made("preflight") = Made("updateBinding")
    BY DEF Made, Objects
  <2> QED
    BY <1>1, <2>1, <2>2
<1>6. CASE Preflight(q) \/ LoadPlugins(q)
  <2>1. /\ UNCHANGED <<ns, objs, role, binding>>
        /\ \/ pc' = [pc EXCEPT ![q] = "failed"]
           \/ pc[q] = "preflight" /\ pc' = [pc EXCEPT ![q] = "createVersion"]
           \/ pc[q] = "loadPlugins" /\ pc' = [pc EXCEPT ![q] = "sonobuoyRun"]
    BY <1>6 DEF Preflight, LoadPlugins, Answered, Goto, Fail, clusterVars
  <2>2. Made("createVersion") = Made("preflight") /\ Made("sonobuoyRun") = Made("loadPlugins")
    BY DEF Made, Objects
  <2> QED
    BY <1>1, <2>1, <2>2
<1>7. CASE CreateServiceAccount(q)
  <2>1. Made("updateRole") = {"serviceAccount"}
    BY DEF Made, Objects
  <2>2. /\ pc[q] = "createServiceAccount"
        /\ objs \subseteq objs' /\ UNCHANGED <<ns, role, binding>>
        /\ \/ pc' = [pc EXCEPT ![q] = "updateRole"] /\ "serviceAccount" \in objs'
           \/ pc' = [pc EXCEPT ![q] = "failed"]
    BY <1>7, CreateObjectKeeps DEF CreateServiceAccount
  <2> QED
    BY <1>1, <2>1, <2>2
<1>8. CASE CreateVersion(q)
  <2>1. Made("createPluginsConfig") = Made("createVersion") \cup {"version"}
    BY DEF Made, Objects
  <2>2. /\ pc[q] = "createVersion"
        /\ objs \subseteq objs' /\ UNCHANGED <<ns, role, binding>>
        /\ \/ pc' = [pc EXCEPT ![q] = "createPluginsConfig"] /\ "version" \in objs'
           \/ pc' = [pc EXCEPT ![q] = "failed"]
    BY <1>8, CreateObjectKeeps DEF CreateVersion
  <2> QED
    BY <1>1, <2>1, <2>2
<1>9. CASE CreatePluginsConfig(q)
  <2>1. Made("loadPlugins") = Made("createPluginsConfig") \cup {"pluginsConfig"}
    BY DEF Made, Objects
  <2>2. /\ pc[q] = "createPluginsConfig"
        /\ objs \subseteq objs' /\ UNCHANGED <<ns, role, binding>>
        /\ \/ pc' = [pc EXCEPT ![q] = "loadPlugins"] /\ "pluginsConfig" \in objs'
           \/ pc' = [pc EXCEPT ![q] = "failed"]
    BY <1>9, CreateObjectKeeps DEF CreatePluginsConfig
  <2> QED
    BY <1>1, <2>1, <2>2
<1>10. CASE SonobuoyRun(q)
  <2>1. Made("scheduled") = Made("sonobuoyRun") \cup {"aggregator"}
    BY DEF Made, Objects
  <2>2. /\ pc[q] = "sonobuoyRun"
        /\ objs \subseteq objs' /\ UNCHANGED <<role, binding>>
        /\ ns = "active" => ns' = "active"
        /\ \/ pc' = [pc EXCEPT ![q] = "scheduled"] /\ "aggregator" \in objs'
           \/ pc' = [pc EXCEPT ![q] = "failed"]
    BY <1>10, CreateObjectKeeps DEF SonobuoyRun, Fail, Goto
  <2> QED
    BY <1>1, <2>1, <2>2
<1> QED
  BY <1>2, <1>3, <1>4, <1>5, <1>6, <1>7, <1>8, <1>9, <1>10 DEF RunStep

\* No step takes from an undisturbed run what its earlier calls made.
LEMMA RunProgressStep ==
  TypeOK /\ RunAlone /\ RunProgress /\ [Next]_vars => RunProgress'
<1> SUFFICES ASSUME TypeOK, RunAlone, RunProgress, [Next]_vars PROVE RunProgress'
  OBVIOUS
<1>1. ASSUME NEW q \in Cli, NEW o \in RunOptions, StartRun(q, o) PROVE RunProgress'
  <2>1. /\ UNCHANGED clusterVars /\ pc' = [pc EXCEPT ![q] = "checkCluster"]
        /\ \A p \in Cli \ overlapped' : p \notin overlapped \/ p = q
    BY <1>1 DEF StartRun, Goto
  <2> QED
    BY <2>1 DEF TypeOK, RunProgress, Holds, Provisioning, clusterVars
<1>2. ASSUME NEW q \in Cli, StartDestroy(q) PROVE RunProgress'
  <2>1. /\ UNCHANGED clusterVars /\ pc' = [pc EXCEPT ![q] = "deleteEnv"]
        /\ \A p \in Cli \ overlapped' : p \notin overlapped \/ p = q
    BY <1>2 DEF StartDestroy, Goto
  <2> QED
    BY <2>1 DEF TypeOK, RunProgress, Holds, Provisioning, clusterVars
<1>3. ASSUME NEW q \in Cli, RunStep(q) PROVE RunProgress'
  BY <1>3, RunStepProgress
<1>4. ASSUME NEW q \in Cli, DestroyStep(q) PROVE RunProgress'
  <2> SUFFICES ASSUME NEW p \in Cli \ overlapped', Holds(p)' PROVE FALSE
    BY DEF RunProgress
  <2>1. p \in Cli \ overlapped /\ Holds(p)
    BY <1>4, DestroyMoves DEF TypeOK, Holds, Provisioning, DestroySteps
  <2> QED
    BY <1>4, <2>1, HolderIsUndisturbed DEF RunProgress
<1>5. ASSUME NEW q \in Cli, Crash(q) PROVE RunProgress'
  BY <1>5 DEF Crash, Goto, TypeOK, RunProgress, Holds, Provisioning, clusterVars
<1>6. CASE NamespaceGone
  BY <1>6 DEF NamespaceGone, RunProgress, Holds, cliVars
<1>7. ASSUME NEW n \in TestNamespaces, TestsCreateNamespace(n) PROVE RunProgress'
  BY <1>7 DEF TestsCreateNamespace, RunProgress, Holds, cliVars
<1>8. CASE UNCHANGED vars
  BY <1>8 DEF RunProgress, Holds, vars, cliVars, clusterVars
<1> QED
  BY <1>1, <1>2, <1>3, <1>4, <1>5, <1>6, <1>7, <1>8, NextSteps

\* The inductive invariant of runs holds: whatever the other terminals do, a run
\* that no destroy overlapped finds what its earlier calls made.
THEOREM RunsProgress == Spec => []RunProgress
<1>1. Init => RunProgress
  BY DEF Init, RunProgress, Holds, Provisioning
<1> QED
  BY <1>1, RunProgressStep, Typing, Alone, PTL DEF Spec

\* A run at its end has made every object.
LEMMA ProgressIsComplete == TypeOK /\ RunProgress => ScheduledEnvironmentIsComplete
<1>1. Made("scheduled") = Objects
  BY DEF Made, Objects
<1> QED
  BY <1>1 DEF TypeOK, RunProgress, Holds, Provisioning, ScheduledEnvironmentIsComplete

\* A run that reports its jobs scheduled, with no destroy alongside, has the
\* whole environment.
THEOREM ScheduledIsComplete == Spec => []ScheduledEnvironmentIsComplete
  BY Typing, RunsProgress, ProgressIsComplete, PTL

\* Who enters the section the namespace guards enters it by creating the namespace.
LEMMA OnlyCreationHolds ==
  ASSUME TypeOK, NEW q \in Cli, RunStep(q), Holds(q)', ~Holds(q)
  PROVE  ns = "absent"
<1> USE DEF TypeOK, Holds, Provisioning, Goto, Fail, Answered
<1>1. CASE CheckCluster(q) \/ CheckNodes(q) \/ CheckNamespace(q) \/ CheckPool(q)
  BY <1>1 DEF CheckCluster, CheckNodes, CheckNamespace, CheckPool
<1>2. CASE CreateNamespace(q)
  BY <1>2 DEF CreateNamespace
<1>3. CASE UpdateRole(q) \/ UpdateBinding(q) \/ Preflight(q) \/ LoadPlugins(q)
  BY <1>3 DEF UpdateRole, UpdateBinding, Preflight, LoadPlugins
<1>4. CASE CreateServiceAccount(q) \/ CreateVersion(q) \/ CreatePluginsConfig(q)
           \/ SonobuoyRun(q)
  BY <1>4 DEF CreateServiceAccount, CreateVersion, CreatePluginsConfig, SonobuoyRun
<1> QED
  BY <1>1, <1>2, <1>3, <1>4 DEF RunStep

\* No step makes a second builder.
LEMMA ExclusiveStep ==
  TypeOK /\ RunProgress /\ SetupIsExclusive /\ [Next]_vars => SetupIsExclusive'
<1> SUFFICES ASSUME TypeOK, RunProgress, SetupIsExclusive, [Next]_vars,
                    NEW p \in Cli \ overlapped', NEW q \in Cli \ overlapped',
                    Holds(p)', Holds(q)'
             PROVE  p = q
  BY DEF SetupIsExclusive
<1>1. ASSUME NEW r \in Cli, RunStep(r) PROVE p = q
  <2>1. /\ overlapped' = overlapped
        /\ \A x \in Cli : x # r => pc'[x] = pc[x]
    BY <1>1, RunMoves DEF TypeOK
  <2>2. \A x \in Cli : x # r /\ Holds(x)' => Holds(x)
    BY <2>1 DEF Holds
  <2>3. CASE Holds(p) /\ Holds(q)
    BY <2>1, <2>3 DEF SetupIsExclusive
  <2>4. CASE ~Holds(p)
    <3>1. p = r /\ ns = "absent"
      BY <1>1, <2>2, <2>4, OnlyCreationHolds
    <3> QED
      BY <2>1, <2>2, <3>1 DEF RunProgress
  <2>5. CASE ~Holds(q)
    <3>1. q = r /\ ns = "absent"
      BY <1>1, <2>2, <2>5, OnlyCreationHolds
    <3> QED
      BY <2>1, <2>2, <3>1 DEF RunProgress
  <2> QED
    BY <2>3, <2>4, <2>5
<1>2. ASSUME NEW r \in Cli,
             \/ \E o \in RunOptions : StartRun(r, o)
             \/ StartDestroy(r) \/ DestroyStep(r) \/ Crash(r)
      PROVE  p = q
  <2>1. /\ \A x \in Cli \ overlapped' : x \notin overlapped \/ x = r
        /\ \E s : pc' = [pc EXCEPT ![r] = s] /\ s \notin Provisioning \cup {"scheduled"}
    BY <1>2, DestroyMoves DEF StartRun, StartDestroy, Crash, Goto, Provisioning, DestroySteps
  <2>2. p # r /\ q # r
    BY <2>1 DEF TypeOK, Holds
  <2> QED
    BY <2>1, <2>2 DEF TypeOK, Holds, SetupIsExclusive
<1>3. ASSUME UNCHANGED <<pc, overlapped>> PROVE p = q
  BY <1>3 DEF SetupIsExclusive, Holds
<1> QED
  BY <1>1, <1>2, <1>3, NextSteps DEF NamespaceGone, TestsCreateNamespace, vars, cliVars

\* However many runs race for it, one builds the environment at a time.
THEOREM Exclusive == Spec => []SetupIsExclusive
<1>1. Init => SetupIsExclusive
  BY DEF Init, SetupIsExclusive, Holds, Provisioning
<1> QED
  BY <1>1, ExclusiveStep, Typing, RunsProgress, PTL DEF Spec

-----------------------------------------------------------------------------
(* Destroys: what a destroy without warnings has removed stays removed.    *)

AbsentIsEmpty == ns = "absent" => objs = {}

\* No step makes an object in a namespace that does not exist.
LEMMA AbsentStep ==
  AbsentIsEmpty /\ [Next]_vars => AbsentIsEmpty'
<1> SUFFICES ASSUME AbsentIsEmpty, [Next]_vars PROVE AbsentIsEmpty'
  OBVIOUS
<1>1. ASSUME NEW p \in Cli, RunStep(p) PROVE AbsentIsEmpty'
  <2>1. CASE CreateServiceAccount(p) \/ CreateVersion(p) \/ CreatePluginsConfig(p)
             \/ SonobuoyRun(p)
    BY <2>1 DEF AbsentIsEmpty, CreateServiceAccount, CreateVersion, CreatePluginsConfig,
                SonobuoyRun, CreateObject
  <2>2. CASE CreateNamespace(p)
    BY <2>2 DEF AbsentIsEmpty, CreateNamespace
  <2>3. CASE CheckCluster(p) \/ CheckNodes(p) \/ CheckNamespace(p) \/ CheckPool(p)
             \/ UpdateRole(p) \/ UpdateBinding(p) \/ Preflight(p) \/ LoadPlugins(p)
    BY <2>3 DEF AbsentIsEmpty, CheckCluster, CheckNodes, CheckNamespace, CheckPool, UpdateRole,
                UpdateBinding, Preflight, LoadPlugins, clusterVars
  <2> QED
    BY <1>1, <2>1, <2>2, <2>3 DEF RunStep
<1>2. ASSUME NEW p \in Cli, DestroyStep(p) PROVE AbsentIsEmpty'
  BY <1>2 DEF AbsentIsEmpty, DestroyStep, DeleteEnv, WaitEnv, ListNamespaces, DeleteNamespaces,
              DeleteRole, DeleteBinding, clusterVars
<1>3. ASSUME NEW p \in Cli,
             (\E o \in RunOptions : StartRun(p, o)) \/ StartDestroy(p) \/ Crash(p)
      PROVE  AbsentIsEmpty'
  BY <1>3 DEF AbsentIsEmpty, StartRun, StartDestroy, Crash, clusterVars
<1>4. CASE NamespaceGone
  BY <1>4 DEF AbsentIsEmpty, NamespaceGone
<1>5. ASSUME (\E n \in TestNamespaces : TestsCreateNamespace(n)) \/ UNCHANGED vars
      PROVE  AbsentIsEmpty'
  BY <1>5 DEF AbsentIsEmpty, TestsCreateNamespace, vars, clusterVars
<1> QED
  BY <1>1, <1>2, <1>3, <1>4, <1>5, NextSteps

\* A namespace that does not exist has no objects: objects are only created in
\* an active one.
LEMMA AbsentEmpty == Spec => []AbsentIsEmpty
<1>1. Init => AbsentIsEmpty
  BY DEF Init, AbsentIsEmpty
<1> QED
  BY <1>1, AbsentStep, PTL DEF Spec

Quiet(p) == p \in Cli \ overlapped /\ trouble[p] = {}

\* The inductive invariant of destroys: each step finds what the steps before it
\* removed still gone.  That nothing is running matters twice: no run builds
\* again, and without an aggregator no test makes a namespace.
DestroyProgress ==
  \A p \in Cli :
    Quiet(p) =>
      /\ pc[p] = "waitEnv" => ns # "active"
      /\ pc[p] \in {"listNamespaces", "deleteNamespaces", "deleteRole", "deleteBinding",
                   "destroyed"} => ns = "absent"
      /\ pc[p] = "deleteNamespaces" => testNs \subseteq found[p]
      /\ pc[p] \in {"deleteRole", "deleteBinding", "destroyed"} => testNs = {}
      /\ pc[p] \in {"deleteBinding", "destroyed"} => ~role
      /\ pc[p] = "destroyed" => ~binding

\* A destroy step leaves the invariant true of every other destroy: it only
\* removes, and two destroys never hinder each other.
LEMMA DestroyStepRemoves ==
  ASSUME TypeOK, NEW q \in Cli, DestroyStep(q)
  PROVE  /\ ns # "active" => ns' = ns
         /\ testNs' \subseteq testNs
         /\ role' => role
         /\ binding' => binding
         /\ \A p \in Cli : p # q => /\ pc'[p] = pc[p] /\ found'[p] = found[p]
                                   /\ trouble'[p] = trouble[p]
<1> USE DEF TypeOK, Goto, Warn
<1>1. CASE DeleteEnv(q) \/ WaitEnv(q)
  BY <1>1 DEF DeleteEnv, WaitEnv, clusterVars
<1>2. CASE ListNamespaces(q) \/ DeleteNamespaces(q)
  BY <1>2 DEF ListNamespaces, DeleteNamespaces, clusterVars
<1>3. CASE DeleteRole(q)
  BY <1>3 DEF DeleteRole
<1>4. CASE DeleteBinding(q)
  BY <1>4 DEF DeleteBinding
<1> QED
  BY <1>1, <1>2, <1>3, <1>4 DEF DestroyStep

\* The step of a destroy establishes what the invariant says of the next one.
LEMMA DestroyStepProgress ==
  ASSUME TypeOK, DestroyProgress, NEW q \in Cli, DestroyStep(q)
  PROVE  DestroyProgress'
<1> USE DEF TypeOK, Goto, Warn
<1>1. overlapped' = overlapped
  BY DestroyMoves
<1>2. ASSUME NEW p \in Cli, p # q, Quiet(p)'
      PROVE  /\ pc'[p] = "waitEnv" => ns' # "active"
             /\ pc'[p] \in {"listNamespaces", "deleteNamespaces", "deleteRole",
                            "deleteBinding", "destroyed"} => ns' = "absent"
             /\ pc'[p] = "deleteNamespaces" => testNs' \subseteq found'[p]
             /\ pc'[p] \in {"deleteRole", "deleteBinding", "destroyed"} => testNs' = {}
             /\ pc'[p] \in {"deleteBinding", "destroyed"} => ~role'
             /\ pc'[p] = "destroyed" => ~binding'
  <2>1. Quiet(p) /\ pc'[p] = pc[p] /\ found'[p] = found[p]
    BY <1>1, <1>2, DestroyStepRemoves DEF Quiet
  <2>2. ns # "active" => ns' = ns
    BY DestroyStepRemoves
  <2>3. testNs' \subseteq testNs /\ (role' => role) /\ (binding' => binding)
    BY DestroyStepRemoves
  <2> QED
    BY <2>1, <2>2, <2>3 DEF DestroyProgress
<1>3. ASSUME Quiet(q)'
      PROVE  /\ pc'[q] = "waitEnv" => ns' # "active"
             /\ pc'[q] \in {"listNamespaces", "deleteNamespaces", "deleteRole",
                            "deleteBinding", "destroyed"} => ns' = "absent"
             /\ pc'[q] = "deleteNamespaces" => testNs' \subseteq found'[q]
             /\ pc'[q] \in {"deleteRole", "deleteBinding", "destroyed"} => testNs' = {}
             /\ pc'[q] \in {"deleteBinding", "destroyed"} => ~role'
             /\ pc'[q] = "destroyed" => ~binding'
  <2>1. CASE DeleteEnv(q)
    BY <1>3, <2>1 DEF DeleteEnv, Quiet
  <2>2. CASE WaitEnv(q)
    BY <1>3, <2>2 DEF WaitEnv, Quiet, clusterVars
  <2>3. CASE ListNamespaces(q)
    <3>1. Quiet(q) /\ pc[q] = "listNamespaces"
      BY <1>1, <1>3, <2>3 DEF ListNamespaces, Quiet
    <3> QED
      BY <1>3, <2>3, <3>1 DEF ListNamespaces, Quiet, DestroyProgress, clusterVars
  <2>4. CASE DeleteNamespaces(q)
    <3>1. Quiet(q) /\ pc[q] = "deleteNamespaces"
      BY <1>1, <1>3, <2>4 DEF DeleteNamespaces, Quiet
    <3>2. ns = "absent" /\ testNs \subseteq found[q] /\ ns' = ns
      BY <2>4, <3>1 DEF DeleteNamespaces, DestroyProgress
    <3>3. CASE found[q] = {} /\ pc' = [pc EXCEPT ![q] = "deleteRole"] /\ testNs' = testNs
      BY <3>2, <3>3
    <3>4. ASSUME NEW n \in found[q], testNs' = testNs \ {n},
                 found' = [found EXCEPT ![q] = @ \ {n}], pc' = pc
          PROVE  testNs' \subseteq found'[q] /\ pc'[q] = "deleteNamespaces"
      BY <3>1, <3>2, <3>4
    <3> QED
      BY <1>3, <2>4, <3>2, <3>3, <3>4 DEF DeleteNamespaces, Quiet
  <2>5. CASE DeleteRole(q)
    <3>1. Quiet(q) /\ pc[q] = "deleteRole"
      BY <1>1, <1>3, <2>5 DEF DeleteRole, Quiet
    <3>2. pc'[q] = "deleteBinding" /\ ~role'
      BY <1>3, <2>5 DEF DeleteRole, Quiet
    <3> QED
      BY <2>5, <3>1, <3>2 DEF DeleteRole, DestroyProgress
  <2>6. CASE DeleteBinding(q)
    <3>1. Quiet(q) /\ pc[q] = "deleteBinding"
      BY <1>1, <1>3, <2>6 DEF DeleteBinding, Quiet
    <3>2. pc'[q] = "destroyed" /\ ~binding'
      BY <1>3, <2>6 DEF DeleteBinding, Quiet
    <3> QED
      BY <2>6, <3>1, <3>2 DEF DeleteBinding, DestroyProgress
  <2> QED
    BY <2>1, <2>2, <2>3, <2>4, <2>5, <2>6 DEF DestroyStep
<1> QED
  BY <1>2, <1>3 DEF DestroyProgress

\* No step brings back what an undisturbed destroy removed.
LEMMA DestroyProgressStep ==
  TypeOK /\ DestroyAlone /\ AbsentIsEmpty /\ DestroyProgress /\ [Next]_vars
        => DestroyProgress'
<1> USE DEF TypeOK
<1> SUFFICES ASSUME TypeOK, DestroyAlone, AbsentIsEmpty, DestroyProgress, [Next]_vars
             PROVE  DestroyProgress'
  OBVIOUS
<1>1. ASSUME NEW q \in Cli, NEW o \in RunOptions, StartRun(q, o) PROVE DestroyProgress'
  <2>1. /\ UNCHANGED <<found, trouble, clusterVars>>
        /\ pc' = [pc EXCEPT ![q] = "checkCluster"]
        /\ \A p \in Cli \ overlapped' : p \notin overlapped \/ p = q
    BY <1>1 DEF StartRun, Goto
  <2> QED
    BY <2>1 DEF Quiet, DestroyProgress, clusterVars
<1>2. ASSUME NEW q \in Cli, StartDestroy(q) PROVE DestroyProgress'
  <2>1. /\ UNCHANGED <<found, clusterVars>>
        /\ pc' = [pc EXCEPT ![q] = "deleteEnv"] /\ trouble' = [trouble EXCEPT ![q] = {}]
        /\ \A p \in Cli \ overlapped' : p \notin overlapped \/ p = q
    BY <1>2 DEF StartDestroy, Goto
  <2> QED
    BY <2>1 DEF Quiet, DestroyProgress, clusterVars
<1>3. ASSUME NEW q \in Cli, RunStep(q) PROVE DestroyProgress'
  <2> SUFFICES ASSUME NEW p \in Cli, Quiet(p)', pc'[p] \in DestroySteps \cup {"destroyed"}
               PROVE  FALSE
    BY DEF DestroyProgress, DestroySteps
  <2>1. p \in Cli \ overlapped /\ pc[p] \in DestroySteps \cup {"destroyed"}
    BY <1>3, RunMoves DEF Quiet, RunSteps, Checks, Provisioning, DestroySteps
  <2> QED
    BY <1>3, <2>1, RunMoves DEF DestroyAlone, RunInFlight
<1>4. ASSUME NEW q \in Cli, DestroyStep(q) PROVE DestroyProgress'
  BY <1>4, DestroyStepProgress
<1>5. ASSUME NEW q \in Cli, Crash(q) PROVE DestroyProgress'
  BY <1>5 DEF Crash, Goto, Quiet, DestroyProgress, clusterVars
<1>6. CASE NamespaceGone
  BY <1>6 DEF NamespaceGone, Quiet, DestroyProgress, cliVars
<1>7. ASSUME NEW n \in TestNamespaces, TestsCreateNamespace(n) PROVE DestroyProgress'
  <2>1. ns # "absent"
    BY <1>7 DEF TestsCreateNamespace, AbsentIsEmpty
  <2> QED
    BY <1>7, <2>1 DEF TestsCreateNamespace, Quiet, DestroyProgress, cliVars
<1>8. CASE UNCHANGED vars
  BY <1>8 DEF Quiet, DestroyProgress, vars, cliVars, clusterVars
<1> QED
  BY <1>1, <1>2, <1>3, <1>4, <1>5, <1>6, <1>7, <1>8, NextSteps

\* The inductive invariant of destroys holds: whatever the other destroys do, a
\* destroy that no run overlapped finds what its earlier calls removed still gone.
THEOREM DestroysProgress == Spec => []DestroyProgress
<1> USE DEF TypeOK
<1>1. Init => DestroyProgress
  BY DEF Init, DestroyProgress
<1> QED
  BY <1>1, DestroyProgressStep, Typing, Alone, AbsentEmpty, PTL DEF Spec

\* A destroy at its end has removed everything.
LEMMA ProgressLeavesNothing == DestroyProgress => QuietDestroyLeavesNothing
  BY DEF DestroyProgress, Quiet, QuietDestroyLeavesNothing

\* A destroy without warnings, with no run alongside, leaves neither the
\* namespace, nor the privileges, nor a namespace of the tests.
THEOREM QuietDestroy == Spec => []QuietDestroyLeavesNothing
  BY DestroysProgress, ProgressLeavesNothing, PTL
=============================================================================
