---------------------------- MODULE FilterPipeline ----------------------------
(***************************************************************************)
(* ConsolidatedSummary.Process: the failures of each conformance plugin go *)
(* through six filters, each reading the list that another one left in the *)
(* summary of the plugin, until the rest becomes the list of failures to   *)
(* review; the report then judges the plugin by that list.  Two filters    *)
(* ask a service, whose answers may be errors, empty or ambiguous.         *)
(*                                                                         *)
(* Every list of failures is sorted before it is read, so that a list is a *)
(* bag here: how often each test is in it.                                 *)
(***************************************************************************)
EXTENDS ReportChecks, FiniteSetsExt

CONSTANTS
  Tests,          \* the names of e2e tests
  KnownFailures,  \* those in TestSuiteKnownFailures
  Archives,       \* the results that may be processed: a set of records of Archive
  Summaries,      \* the baseline summaries that may be published already
  MaxItems        \* bound: the items in one answer of Sippy

Plugins == Conformance \cup {"upgrade", "replay"}

Bag == [Tests -> Nat]
NoFailures == [t \in Tests |-> 0]

\* What the archives given on the command line hold.
Archive == [failed   : [Plugins -> Bag],           \* FailedList
            total    : [Plugins -> Nat],           \* the number of results
            suite    : [Conformance -> SUBSET Tests],
            passed   : SUBSET Tests,               \* passed in the replay
            baseline : [Conformance -> SUBSET Tests],  \* failed in the archive of --diff
            disabled : BOOLEAN]                    \* OPCT_DISABLE_FILTER_BASELINE

\* A baseline summary has lists of failures under two names, the second one of
\* earlier versions; a list that is null or absent is the empty set.
Optional(S) == {{}} \cup {{x} : x \in S}
Entry == [failedFiltered : Optional(SUBSET Tests), failedPriority : Optional(SUBSET Tests)]
Summary == [Plugins -> Entry]

ASSUME PipelineAssumption == /\ IsFiniteSet(Tests) /\ KnownFailures \subseteq Tests
                             /\ Archives \subseteq Archive
                             /\ Summaries \subseteq Summary
                             /\ MaxItems \in Nat

Filters == {"suite", "known", "replay", "baseline", "flaky", "baselineAPI"}

VARIABLES
  served,     \* the summaries that the API may serve
  archive,    \* the results processed
  stage,      \* the filter that comes next, and then where the report is
  kept,       \* kept[f][p]: the list FailedFilter<f> of the plugin p
  excluded,   \* excluded[f][p]: the list FailedExcludedFilter<f> of p
  unasked,    \* unasked[p]: the failures Sippy has yet to be asked about
  priority,   \* priority[p]: the failures in the baseline summary
  filtered,   \* filtered[p]: the list FailedFiltered of p
  verdict,    \* verdict[p]: the result of the check of p, once the report is written
  ambiguous   \* history: the failures Sippy did not answer with one item

lists == <<kept, excluded>>
vars == <<served, archive, stage, kept, excluded, unasked, priority, filtered, verdict, ambiguous>>

NoLists == [f \in Filters |-> [p \in Plugins |-> NoFailures]]
NoPriority == [p \in Plugins |-> {}]
Unjudged == [p \in Conformance |-> "none"]

Init ==
  /\ served \in SUBSET Summaries /\ archive \in Archives
  /\ stage = "suite"
  /\ kept = NoLists /\ excluded = NoLists
  /\ unasked = [p \in Conformance |-> NoFailures]
  /\ priority = NoPriority
  /\ filtered = [p \in Plugins |-> NoFailures]
  /\ verdict = Unjudged
  /\ ambiguous = {}

-----------------------------------------------------------------------------
Only(bag, S) == [t \in Tests |-> IF t \in S THEN bag[t] ELSE 0]

\* Mutant of Add: the list is counted down.
Deduct(bag, t, n) == [bag EXCEPT ![t] = @ - n]

Add(bag, t, n) == [bag EXCEPT ![t] = @ + n]

Size(bag) == MapThenSumSet(LAMBDA t : bag[t], Tests)

\* Mutant of Previous: the replay filter is skipped.
PreviousBeforeReplay(f, p) ==
  CASE f = "suite" -> archive.failed[p]
    [] f = "known" -> kept["suite"][p]
    [] f \in {"replay", "baseline"} -> kept["known"][p]
    [] f = "baselineAPI" -> kept["flaky"][p]
    [] f = "copy" -> kept["baselineAPI"][p]

\* The list a filter starts from.
Previous(f, p) ==
  CASE f = "suite" -> archive.failed[p]
    [] f = "known" -> kept["suite"][p]
    [] f = "replay" -> kept["known"][p]
    [] f = "baseline" -> kept["replay"][p]
    [] f = "baselineAPI" -> kept["flaky"][p]
    [] f = "copy" -> kept["baselineAPI"][p]

\* Mutant of Split: the excluded failures are not saved.
SplitUnrecorded(f, pass) ==
  /\ kept' = [kept EXCEPT ![f] = [p \in Plugins |->
       IF p \in DOMAIN pass THEN Only(Previous(f, p), pass[p]) ELSE @[p]]]
  /\ UNCHANGED excluded

\* Filter f splits the lists of the plugins in the domain of pass.
Split(f, pass) ==
  /\ kept' = [kept EXCEPT ![f] = [p \in Plugins |->
       IF p \in DOMAIN pass THEN Only(Previous(f, p), pass[p]) ELSE @[p]]]
  /\ excluded' = [excluded EXCEPT ![f] = [p \in Plugins |->
       IF p \in DOMAIN pass THEN Only(Previous(f, p), Tests \ pass[p]) ELSE @[p]]]

Filter(f, pass, next) ==
  /\ stage = f
  /\ Split(f, pass)
  /\ stage' = next
  /\ UNCHANGED <<served, archive, unasked, priority, filtered, verdict, ambiguous>>

\* An empty suite, and the plugins without one, let everything through.
Suite(p) == IF p \in Conformance THEN archive.suite[p] ELSE {}

FilterSuite ==
  Filter("suite", [p \in Plugins |-> IF Suite(p) = {} THEN Tests ELSE Suite(p)], "known")

FilterKnownFailures ==
  Filter("known", [p \in Plugins |-> Tests \ KnownFailures], "replay")

\* A failure that passed when it was replayed is dropped.
FilterReplay ==
  Filter("replay", [p \in Conformance |-> Tests \ archive.passed], "baseline")

FilterBaseline ==
  /\ stage = "baseline"
  /\ Split("baseline", [p \in Plugins |->
       IF p \in Conformance THEN Tests \ archive.baseline[p] ELSE Tests])
  /\ \/ /\ stage' = "flaky"
        /\ unasked' = [p \in Conformance |-> kept'["baseline"][p]]
     \/ stage' = "panicked" /\ UNCHANGED unasked  \* the release of the cluster is unknown
  /\ UNCHANGED <<served, archive, priority, filtered, verdict, ambiguous>>

\* Sippy is asked about one failure, the kube plugin's first.  A failing call
\* keeps the failure; otherwise each item of the answer decides by itself.
QuerySippy(p, t) ==
  /\ stage = "flaky" /\ unasked[p][t] > 0
  /\ p = "ocp" => unasked["kube"] = NoFailures
  /\ unasked' = [unasked EXCEPT ![p][t] = @ - 1]
  /\ \/ /\ kept' = [kept EXCEPT !["flaky"][p] = Add(@, t, 1)]
        /\ UNCHANGED <<excluded, ambiguous>>
     \/ \E flakes, stable \in 0..MaxItems :
          /\ flakes + stable <= MaxItems
          /\ kept' = [kept EXCEPT !["flaky"][p] = Add(@, t, stable)]
          /\ excluded' = [excluded EXCEPT !["flaky"][p] = Add(@, t, flakes)]
          /\ ambiguous' = IF flakes + stable = 1 THEN ambiguous ELSE ambiguous \cup {<<p, t>>}
  /\ UNCHANGED <<served, archive, stage, priority, filtered, verdict>>

\* GetPriorityFailuresFromPlugin: with a list of the second name only, the list
\* of the first name, which is nil, is converted, and the report panics.
Unreadable(summary, p) == summary[p].failedFiltered = {} /\ summary[p].failedPriority # {}
PriorityFailures(summary, p) == UNION summary[p].failedFiltered

\* The summary of the platform, of "None" or of "AWS", whichever the service
\* answers first; one that cannot be decoded excludes nothing.
LoadBaselineFromAPI ==
  /\ stage = "flaky" /\ \A p \in Conformance : unasked[p] = NoFailures
  /\ \/ archive.disabled /\ stage' = "baselineAPI" /\ UNCHANGED priority
     \/ ~archive.disabled /\ stage' \in {"baselineAPI", "failed"} /\ UNCHANGED priority
     \/ /\ ~archive.disabled
        /\ \E summary \in served :
             IF \E p \in Plugins \ {"replay"} : Unreadable(summary, p)
             THEN stage' = "panicked" /\ UNCHANGED priority
             ELSE /\ stage' = "baselineAPI"
                  /\ priority' = [p \in Plugins |-> PriorityFailures(summary, p)]
  /\ UNCHANGED <<served, archive, lists, unasked, filtered, verdict, ambiguous>>

FilterBaselineAPI ==
  Filter("baselineAPI",
         [p \in Plugins |-> IF p = "replay" THEN Tests ELSE Tests \ priority[p]], "copy")

CopyPipeline ==
  /\ stage = "copy"
  /\ filtered' = [p \in Plugins |->
       IF p = "replay" THEN archive.failed[p] ELSE Previous("copy", p)]
  /\ stage' = "filtered"
  /\ UNCHANGED <<served, archive, lists, unasked, priority, verdict, ambiguous>>

\* Mutant of Judge: a plugin whose tests all failed is judged like another.
JudgeFailuresOnly(p) == IF filtered[p] = NoFailures THEN "pass" ELSE "fail"

\* What the checks of the report read of the pipeline.
Counts ==
  [total    |-> archive.total,
   failed   |-> [p \in Plugins |-> Size(archive.failed[p])],
   priority |-> [p \in Conformance |-> Size(kept["flaky"][p])],
   review   |-> [p \in Conformance |-> Size(filtered[p])]]

\* The check OPCT-001 of the kube plugin and OPCT-005B of the ocp plugin.
Judge(p) == IF p = "kube" THEN KubeConformance(Counts) ELSE OcpReview(Counts)

Report ==
  /\ stage = "filtered"
  /\ verdict' = [p \in Conformance |-> Judge(p)]
  /\ stage' = "reported"
  /\ UNCHANGED <<served, archive, lists, unasked, priority, filtered, ambiguous>>

Next ==
  \/ FilterSuite \/ FilterKnownFailures \/ FilterReplay \/ FilterBaseline
  \/ \E p \in Conformance, t \in Tests : QuerySippy(p, t)
  \/ LoadBaselineFromAPI \/ FilterBaselineAPI
  \/ CopyPipeline \/ Report

Spec == Init /\ [][Next]_vars

-----------------------------------------------------------------------------
(* Properties.                                                             *)

Lists == [Filters -> [Plugins -> Bag]]

\* Types of the variables.
TypeOK ==
  /\ served \subseteq Summary /\ archive \in Archive
  /\ stage \in Filters \cup {"copy", "filtered", "reported", "failed", "panicked", "published"}
  /\ kept \in Lists /\ excluded \in Lists
  /\ unasked \in [Conformance -> Bag]
  /\ priority \in [Plugins -> SUBSET Tests]
  /\ filtered \in [Plugins -> Bag]
  /\ verdict \in [Conformance -> {"none", "pass", "warn", "fail"}]
  /\ ambiguous \subseteq Conformance \X Tests

\* The filters a failure of plugin p is excluded by, whatever Sippy says.
Explained(p, t) ==
  \/ Suite(p) # {} /\ t \notin Suite(p)
  \/ t \in KnownFailures \cup archive.passed \cup archive.baseline[p] \cup priority[p]

\* How often a failure is in the lists of the filters that excluded it.
TimesExcluded(p, t) ==
  excluded["suite"][p][t] + excluded["known"][p][t] + excluded["replay"][p][t]
    + excluded["baseline"][p][t] + excluded["flaky"][p][t] + excluded["baselineAPI"][p][t]

Recorded(p, t) == \E f \in Filters : excluded[f][p][t] > 0

\* No failure to review is one that any of the six filters was to exclude,
\* although each filter sees only the list of another one, and none is
\* reviewed that did not fail (GetPreviousFailuresByFilterID wires the lists).
ReviewListIsUnexplained ==
  stage \in {"filtered", "reported"} =>
    \A p \in Conformance, t \in Tests :
      filtered[p][t] > 0 => archive.failed[p][t] > 0 /\ ~Explained(p, t)

\* Every failure Sippy gave one answer for is accounted for, as often as it
\* happened: it is to be reviewed, or in the list of one filter that excluded
\* it, and never in both or in two lists.
FailuresAreConserved ==
  stage \in {"filtered", "reported"} =>
    \A p \in Conformance, t \in Tests :
      <<p, t>> \notin ambiguous =>
        archive.failed[p][t] = filtered[p][t] + TimesExcluded(p, t)

\* A plugin passes only when it ran tests that did not fail and each of its
\* failures is in the list of a filter that excluded it.
PassIsExplained ==
  \A p \in Conformance :
    verdict[p] = "pass" =>
      /\ Size(archive.failed[p]) # archive.total[p]
      /\ \A t \in Tests :
           archive.failed[p][t] > 0 /\ <<p, t>> \notin ambiguous => Recorded(p, t)

\* A failure that no filter excluded, nor Sippy reported as a flake, makes the
\* plugin fail ("Those tests must raise attention and alerts", plugin.go:52).
UnexplainedFailureIsReviewed ==
  \A p \in Conformance, t \in Tests :
    verdict[p] # "none" /\ archive.failed[p][t] > 0 /\ ~Recorded(p, t) => filtered[p][t] > 0
=============================================================================
