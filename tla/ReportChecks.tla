----------------------------- MODULE ReportChecks -----------------------------
(***************************************************************************)
(* The checks of a report (NewCheckSummary), each a function of the        *)
(* populated report s to its grade.  A document that may be missing is a   *)
(* set with what was read of it, empty without it.                         *)
(***************************************************************************)
EXTENDS Naturals, Sequences, FiniteSets

Conformance == {"kube", "ocp"}
Grades == {"pass", "warn", "fail", "skip"}

Verdict(ok) == IF ok THEN "pass" ELSE "fail"

-----------------------------------------------------------------------------
(* The health of the cluster.                                              *)

Percent(part) == (100 * part.healthy) \div part.total

NodesHealthy(s) == Verdict(Percent(s.health.nodes) = 100)
PodsHealthy(s) == Verdict(Percent(s.health.pods) >= 98)

-----------------------------------------------------------------------------
(* The results of the plugins.                                             *)

NothingRan(s, p) == s.total[p] = s.failed[p]
Above(n, permille, total) == 1000 * n > permille * total

KubeConformance(s) == Verdict(~NothingRan(s, "kube") /\ s.review["kube"] = 0)

OcpPassRatio(s) ==
  Verdict(~NothingRan(s, "ocp") /\ ~Above(s.failed["ocp"], 15, s.total["ocp"]))

OcpPriority(s) ==
  Verdict(~NothingRan(s, "ocp") /\ ~Above(s.priority["ocp"], 5, s.total["ocp"]))

OcpReview(s) ==
  IF NothingRan(s, "ocp") \/ Above(s.review["ocp"], 5, s.total["ocp"]) THEN "fail"
  ELSE IF s.review["ocp"] > 0 THEN "warn" ELSE "pass"

\* Mutant of Collector: the status of the plugin is taken for the grade.
CollectorStatus(s) ==
  IF ~NothingRan(s, "collector") /\ s.passed["collector"] THEN "passed" ELSE "fail"

Collector(s) == Verdict(~NothingRan(s, "collector") /\ s.passed["collector"])
Upgrade(s) == Verdict(s.passed["upgrade"])
PluginsRan(s) == Verdict(\A p \in Conformance \cup {"collector"} : ~NothingRan(s, p))
KubeSuite(s) == Verdict(s.total["kube"] > 300)
OcpSuite(s) == Verdict(s.total["ocp"] > 3000)

-----------------------------------------------------------------------------
(* The error counters and the slow requests of etcd.                       *)

\* No error at all is taken for counters that are missing.
SuiteErrors(s) ==
  LET total == s.errors["kube"] + s.errors["ocp"]
  IN  IF total > 300 \/ total = 0 THEN "fail" ELSE IF total > 150 THEN "warn" ELSE "pass"

\* Mutant of ClusterErrors: one more than the limit is needed to fail.
ClusterErrorsAbove(s) ==
  IF \E n \in s.mustGather.total : n > 30000 /\ n < 100000 THEN "warn"
  ELSE Verdict(\E n \in s.mustGather.total : n # 0 /\ ~(n > 100000))

ClusterErrors(s) ==
  IF \E n \in s.mustGather.total : n > 30000 /\ n < 100000 THEN "warn"
  ELSE Verdict(\E n \in s.mustGather.total : n # 0 /\ ~(n >= 100000))

\* The mean and the maximum of the group "all".
SlowMean(s) == Verdict(\E st \in s.mustGather.slow : st.sum < 500 * st.count)
SlowMax(s) == Verdict(\E st \in s.mustGather.slow : st.max < 1000)

-----------------------------------------------------------------------------
(* The infrastructure and the version.                                     *)

Zones(s) == {n.zone : n \in {m \in s.nodes : m.controlPlane /\ m.zone # "none"}}

Topology(s) ==
  IF s.infrastructure.controlPlane # "HighlyAvailable" \/ s.infrastructure.platform = "None"
  THEN "skip"
  ELSE Verdict(Cardinality(s.nodes) >= 3 /\ Cardinality(Zones(s)) >= 2)

Platform(s) == Verdict(s.infrastructure.platform \in {"None", "External", "AWS", "Azure"})
InfraTopology(s) == Verdict(s.infrastructure.topology = "HighlyAvailable")
ControlPlane(s) == Verdict(s.infrastructure.controlPlane = "HighlyAvailable")

\* The conditions of the cluster version, of those that are set.
VersionAvailable(s) == Verdict(s.version.available = "True")
VersionFailing(s) == Verdict(s.version.failing = "False")
VersionProgressing(s) == Verdict(s.version.progressing = "False")
ReleaseAccepted(s) == Verdict(s.version.accepted = "True")

-----------------------------------------------------------------------------

Checks == {"OPCT-001", "OPCT-002", "OPCT-003", "OPCT-004", "OPCT-005", "OPCT-005B",
           "OPCT-010", "OPCT-010A", "OPCT-010B", "OPCT-011", "OPCT-020", "OPCT-021",
           "OPCT-022", "OPCT-023A", "OPCT-023B", "OPCT-030", "Platform", "Available",
           "Failing", "Progressing", "Accepted", "Topology", "ControlPlaneTopology"}

\* The grade of the check c.
GradeOf(s, c) ==
  CASE c = "OPCT-001" -> KubeConformance(s)
    [] c = "OPCT-002" -> Upgrade(s)
    [] c = "OPCT-003" -> Collector(s)
    [] c = "OPCT-004" -> OcpPassRatio(s)
    [] c = "OPCT-005" -> OcpPriority(s)
    [] c = "OPCT-005B" -> OcpReview(s)
    [] c = "OPCT-010" -> ClusterErrors(s)
    [] c = "OPCT-010A" -> SlowMean(s)
    [] c = "OPCT-010B" -> SlowMax(s)
    [] c = "OPCT-011" -> SuiteErrors(s)
    [] c = "OPCT-020" -> NodesHealthy(s)
    [] c = "OPCT-021" -> PodsHealthy(s)
    [] c = "OPCT-022" -> PluginsRan(s)
    [] c = "OPCT-023A" -> KubeSuite(s)
    [] c = "OPCT-023B" -> OcpSuite(s)
    [] c = "OPCT-030" -> Topology(s)
    [] c = "Platform" -> Platform(s)
    [] c = "Available" -> VersionAvailable(s)
    [] c = "Failing" -> VersionFailing(s)
    [] c = "Progressing" -> VersionProgressing(s)
    [] c = "Accepted" -> ReleaseAccepted(s)
    [] c = "Topology" -> InfraTopology(s)
    [] c = "ControlPlaneTopology" -> ControlPlane(s)

CheckResults(s) == [c \in Checks |-> GradeOf(s, c)]
=============================================================================
