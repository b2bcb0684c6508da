--------------------------- MODULE MCArchiveReport ---------------------------
EXTENDS ArchiveReport

Master(n, z) == [name |-> n, controlPlane |-> TRUE, zone |-> z]
Slowest(sum, max) == [count |-> 2, sum |-> sum, max |-> max]

\* An archive by the counts of the conformance plugins: the failed tests and
\* those left to review, of the kube plugin out of k tests, of the ocp plugin
\* out of 3001.
Counted(k, kubeFailed, kubeReview, ocpFailed, ocpReview) ==
  [opens |-> TRUE, loaded |-> Plugins, unreadable |-> {},
   walk |-> <<"network", "nodes", "infrastructure", "version", "operators", "health",
              "mustGather">>,
   corrupt |-> {},
   total |-> [p \in Plugins |-> CASE p = "kube" -> k [] p = "ocp" -> 3001 [] OTHER -> 2],
   failed |-> [p \in Plugins |-> CASE p = "kube" -> kubeFailed [] p = "ocp" -> ocpFailed
                                   [] OTHER -> 0],
   passed |-> [p \in Plugins |-> TRUE],
   priority |-> [p \in Conformance |-> IF p = "kube" THEN kubeReview ELSE ocpReview],
   review |-> [p \in Conformance |-> IF p = "kube" THEN kubeReview ELSE ocpReview],
   errors |-> [p \in Conformance |-> IF p = "kube" THEN 150 ELSE 0],
   health |-> [nodes |-> [healthy |-> 6, total |-> 6], pods |-> [healthy |-> 196, total |-> 200]],
   infrastructure |-> [platform |-> "AWS", topology |-> "HighlyAvailable",
                       controlPlane |-> "HighlyAvailable"],
   version |-> [available |-> "True", failing |-> "False", progressing |-> "False",
                accepted |-> "True"],
   nodes |-> {Master(1, "a"), Master(2, "b"), Master(3, "c")},
   mustGather |-> [total |-> {30000}, slow |-> {Slowest(998, 999)}],
   metrics |-> TRUE, charts |-> {}]

Good == Counted(301, 1, 0, 45, 15)

Mapped(f(_), s) == [i \in DOMAIN s |-> f(s[i])]

\* With more in the archive than the walk of Counted reads.
With(a, more, charts) == [a EXCEPT !.walk = @ \o more, !.charts = charts]

\* What an earlier command may have left in the directory.
Earlier ==
  <<Good, Counted(300, 1, 1, 45, 0), [Good EXCEPT !.unreadable = {"kube"}],
    [Good EXCEPT !.walk = SelectSeq(@, LAMBDA d : d # "health")],
    With(Counted(300, 1, 1, 45, 0), <<"camgi">>, {}),
    With(Good, <<"metrics">>, {"wal"})>>

\* Around the limits of the checks: no test ran, one failure left to review,
\* 1.5% failures and 0.5% of them left.
Complete ==
  <<Counted(301, 0, 0, 45, 15), Counted(301, 1, 0, 46, 0), Counted(301, 1, 0, 45, 16),
    Counted(1, 1, 0, 45, 0), Counted(301, 0, 0, 3001, 0)>>

\* Around the limits of the checks on the documents, one document at a time.
Documented ==
  Mapped(LAMBDA n : [Good EXCEPT !.mustGather.total = {n}], <<0, 1, 30001, 99999, 100000>>)
    \o Mapped(LAMBDA st : [Good EXCEPT !.mustGather.slow = st],
              <<{}, {Slowest(1000, 999)}, {Slowest(1000, 1000)}>>)
    \o <<[Good EXCEPT !.errors["ocp"] = 1], [Good EXCEPT !.errors["ocp"] = 151],
         [Good EXCEPT !.errors["kube"] = 0],
         [Good EXCEPT !.health.nodes.healthy = 5], [Good EXCEPT !.health.pods.healthy = 195],
         [Good EXCEPT !.nodes = {Master(n, "a") : n \in 1..3}],
         [Good EXCEPT !.nodes = {Master(1, "a"), Master(2, "b")}],
         [Good EXCEPT !.infrastructure.platform = "None"],
         [Good EXCEPT !.infrastructure.platform = "Nutanix", !.infrastructure.topology = "Mixed",
                      !.infrastructure.controlPlane = "SingleReplica"],
         [Good EXCEPT !.version = [c \in DOMAIN @ |-> "Unknown"]]>>

\* Archives with documents or results that are missing or cannot be read.
Damage ==
  LET a == Counted(301, 1, 1, 45, 0)
      b == [a EXCEPT !.infrastructure.platform = "None", !.mustGather.total = {30001}]
  IN  <<[a EXCEPT !.opens = FALSE], [a EXCEPT !.loaded = {}],
        [a EXCEPT !.loaded = {"ocp", "collector"}],
        [b EXCEPT !.walk = <<"mustGather">> \o SubSeq(@, 1, 6), !.corrupt = {"mustGather"}],
        [b EXCEPT !.walk = <<"network", "infrastructure", "version", "operators", "health",
                             "nodes", "mustGather">>, !.corrupt = {"nodes"}],
        [a EXCEPT !.walk = SelectSeq(@, LAMBDA d : d # "mustGather")],
        [a EXCEPT !.passed["upgrade"] = FALSE, !.passed["collector"] = FALSE]>>
      \o <<With(a, <<"camgi", "installConfig">>, {}), With(a, <<"metrics">>, {"wal", "kas"}),
           [With(a, <<"metrics">>, {"wal"}) EXCEPT !.metrics = FALSE],
           [With(a, <<"camgi", "installConfig">>, {}) EXCEPT !.corrupt = {"installConfig"}]>>
      \o Mapped(LAMBDA p : [a EXCEPT !.unreadable = {p}],
                <<"kube", "ocp", "upgrade", "replay", "collector">>)
      \o Mapped(LAMBDA p : [Counted(301, 0, 0, 46, 0) EXCEPT !.unreadable = {p}],
                <<"kube", "ocp", "collector">>)

\* The archives are numbered, those of earlier commands first.
MCContent == Earlier \o Complete \o Documented \o Damage
MCArchives == 1..Len(MCContent)
MCEarlier == 1..Len(Earlier)
=============================================================================
