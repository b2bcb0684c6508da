--------------------------- MODULE MCFilterPipeline ---------------------------
EXTENDS FilterPipeline

CONSTANTS t1, t2

Listed(n, m) == [t \in Tests |-> IF t = t1 THEN n ELSE m]

\* The kube plugin failed t1 up to twice and the known failure t2, under every
\* combination of suite, replay and baseline, and with a test that passed or
\* without; the other plugins failed t1, the ocp plugin one of 1 or 200 tests.
MCArchives ==
  {[failed |-> [p \in Plugins |-> IF p = "kube" THEN Listed(n, m) ELSE Listed(1, 0)],
    total |-> [p \in Plugins |-> CASE p = "kube" -> n + m + x
                                 [] p = "ocp" -> 1 + 199 * x [] OTHER -> 3],
    suite |-> [p \in Conformance |-> IF p = "kube" THEN s ELSE {t1}],
    passed |-> r,
    baseline |-> [p \in Conformance |-> IF p = "kube" THEN b ELSE {}],
    disabled |-> d] :
      n \in 0..2, m, x \in 0..1, s \in {{}, {t1}, {t2}}, r \in SUBSET {t1},
      b \in SUBSET {t1}, d \in BOOLEAN}

\* A baseline with one failure of each plugin, and one of an earlier version.
Baseline(list, earlier) ==
  [p \in Plugins |-> [failedFiltered |-> list, failedPriority |-> earlier]]

MCSummaries == {Baseline({{t1}}, {}), Baseline({}, {{t1}})}
=============================================================================
