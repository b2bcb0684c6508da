-------------------------- MODULE PublishedBaselines --------------------------
(***************************************************************************)
(* Baselines from one run of the tool to the next: a run that is processed *)
(* for a publication (`opct adm baseline publish`) puts its summary into   *)
(* the storage, and the pipelines of later runs, which know nothing else   *)
(* of it, exclude the failures that they read of it.                       *)
(***************************************************************************)
EXTENDS FilterPipeline

CONSTANT MaxRuns  \* bound: how many archives are processed

VARIABLES
  published,  \* history: the summaries published, each with the failures that
              \* the filters of its run left before the one of the baselines
  runs        \* bounded: the archives processed

varsPublished == <<vars, published, runs>>

InitPublished == Init /\ published = {} /\ runs = 1

\* The failures in the summary of the report; the plugin of the upgrade has none.
Summarize ==
  [p \in Plugins |->
    [failedFiltered |-> IF p = "upgrade" THEN {} ELSE {{t \in Tests : filtered[p][t] > 0}},
     failedPriority |-> {}]]

\* No check fails that rejects a baseline for its conformance results.
Accepted ==
  /\ verdict["kube"] # "fail" /\ OcpPassRatio(Counts) # "fail"
  /\ OcpPriority(Counts) # "fail"

Upload(summary) ==
  /\ served' = served \cup {summary}
  /\ published' = published \cup
       {[summary |-> summary,
         left |-> [p \in Conformance |-> {t \in Tests : kept["flaky"][p][t] > 0}]]}
  /\ stage' = "published"
  /\ UNCHANGED <<archive, lists, unasked, priority, filtered, verdict, ambiguous, runs>>

\* Mutant of Publish: the filter of the baselines is not disabled for it.
PublishFiltered == stage = "reported" /\ Accepted /\ Upload(Summarize)

\* The publication disables the filter of the baselines, processes the archive
\* and uploads the summary, that the next index may serve.
Publish == stage = "reported" /\ archive.disabled /\ Accepted /\ Upload(Summarize)

\* Another command processes an archive (one after a run that published nothing
\* starts as the first one does).
ProcessAnother ==
  /\ stage = "published" /\ runs < MaxRuns
  /\ archive' \in Archives /\ stage' = "suite"
  /\ kept' = NoLists /\ excluded' = NoLists /\ priority' = NoPriority
  /\ unasked' = [p \in Conformance |-> NoFailures]
  /\ filtered' = [p \in Plugins |-> NoFailures]
  /\ verdict' = Unjudged /\ ambiguous' = {}
  /\ runs' = runs + 1
  /\ UNCHANGED <<served, published>>

NextPublished ==
  \/ Next /\ UNCHANGED <<published, runs>>
  \/ Publish
  \/ ProcessAnother

SpecPublished == InitPublished /\ [][NextPublished]_varsPublished

\* Whatever baselines were served when a run was processed for its publication:
\* the summary it publishes gives a later report, that reads it with
\* GetPriorityFailuresFromPlugin, all the failures that its own filters and
\* Sippy left and no other one, and never makes that report panic.  Failures
\* that are excluded for a baseline would otherwise be missing in the next
\* baseline, and reviewed again in every other run.
BaselineInheritsNothing ==
  \A b \in published, p \in Conformance :
    ~Unreadable(b.summary, p) /\ PriorityFailures(b.summary, p) = b.left[p]
=============================================================================
