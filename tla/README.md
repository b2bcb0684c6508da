# TLA+ verification of OPCT

The OpenShift Provider Compatibility Tool (`opct`) schedules the conformance
tests in a cluster, follows them, retrieves their results, filters the failures
and reports on them. This directory holds TLA+ models of the parts where order,
failure and bounds matter, the TLC configurations that check them, and proofs
for TLAPS. Paths below are relative to the repository.

    tlc -workers 2 -config environment.cfg MCDedicatedNode
    tlapm OpctEnvironmentProofs.tla

| Modules | What they model | Runs |
|---|---|---|
| `OpctEnvironment` | `run` and `destroy` in one cluster | `environment_orphan` |
| `DedicatedNode` | `adm setup-node` beside them, in the same cluster | `environment` |
| `FollowRun` | `status`, `run --watch`, `retrieve` | `follow` |
| `MustGatherExtract`, `LogBatch` | the goroutines of the must-gather extraction, and what they promise | in `must_gather` |
| `EtcdLog` | error counters, slow requests of etcd, `adm parse-etcd-logs` | in `must_gather` |
| `MustGatherReport` | the extraction, its counters and the checks on them, together | `must_gather` |
| `FilterPipeline` | the failures through the six filters | `filters_unlisted` |
| `PublishedBaselines` | the filters from the publication of one run to the report of the next | `filters` |
| `ReportChecks` | the checks of a report, used by the four modules that grade something | in all of these |
| `ArchiveReport` | one archive from loading to saving or publishing | `report`, `report_gate` |
| `BaselineIndex` | the bucket of baselines, its index and its cache | `baseline`, `baseline_undated`, `baseline_page`, `baseline_damaged` |
| `OpctEnvironmentProofs`, `DedicatedNodeProofs`, `FollowRunProofs`, `MustGatherExtractProofs`, `MustGatherReportProofs`, `PublishedBaselinesProofs`, `ArchiveReportProofs`, `BaselineIndexProofs` | theorems and proofs | |

A module `MC<name>` gives a module constants that a .cfg cannot express. Operators
whose comment begins "Mutant of" are faulty versions of the definition named
there, used to see that a property notices; no specification reaches them.

## 1. Inventory of the system

| Component | Code | State | Operations | What is hard | What makes it correct |
|---|---|---|---|---|---|
| run | `pkg/run/` | none of its own: a namespace, its objects, a ClusterRole and a binding in the cluster | checks (operators, registry, nodes, namespace, pool), creations, upserts, Sonobuoy's run | check and creation are separate calls; every call may fail or lose its answer; a destroy may go on alongside | one builder at a time; a scheduled environment is whole; an upgrade runs on a paused pool |
| destroy | `pkg/destroy/` | the same | delete the environment and wait, list and delete test namespaces, delete the privileges | warns and goes on; must complete what an earlier destroy left | without a warning nothing is left; repeating it completes it |
| status | `pkg/status/`, `pkg/wait/` | the last status, progress counters | wait for the report, print, watch | retries, bounded; errors of the API | ends, and for the reason it gives |
| retrieve | `pkg/retrieve/` | files on disk | download with retries, rename | a stream read by a goroutine while its error comes from another | success means all archives, whole, under their names |
| must-gather extraction | `internal/openshift/mustgather/` | list of logs with errors, raw files, counters of the bucket | read the tarball, rate limit, queue, parse, aggregate | goroutines, three bounded channels, a WaitGroup, unlocked reads | returns, and only when every log was parsed once; no check passes on a part of them |
| etcd log parser | `internal/openshift/mustgather/etcd.go`, `internal/opct/archive/errorcounter.go`, `pkg/cmd/adm/parseetcdlogs.go` | counters of patterns, slow requests by hour and by bucket of duration | parse a line, bucket, merge pods, statistics, newest hours | logs come in any order; the report parses twice, the command line by line; durations as text; the command also takes the logs of containers that were restarted | the report is that of all pods, whatever their order, and the command finds the same in the same logs |
| results population | `internal/opct/summary/result.go`, `openshift.go` | summary of each plugin | walk the archive | missing plugins and documents | what could not be read never looks like success |
| filter pipeline | `internal/opct/summary/consolidated.go`, `internal/opct/plugin/plugin.go` | six lists of failures per plugin and what each excluded | six filters and a copy | each reads the list another one left; two services may fail or answer ambiguously | no failure lost, doubled, or excluded without a record |
| report and checks | `internal/report/data.go`, `slo.go`, `pkg/cmd/report/report.go` | the report document, results of checks, the saved files | populate, judge, save | empty lists that look like success; a directory that earlier commands used, with files that are replaced and files that are added to | a damaged archive grades no better than a whole one; the files that are replaced are of one report |
| baseline service | `internal/report/baseline/`, `pkg/cmd/adm/baseline/` | S3 bucket, index, "latest" copies, CloudFront cache | publish, index, read | several requests without a transaction; several administrators; summaries that cannot be decoded; a cache | only passing archives are published; the index and the copies follow what was published |
| setup-node | `pkg/cmd/adm/setupNode.go` | labels and taints of a node | select, read, ask, write back | the answer may take long, and others write the node | it undoes nobody's change; a dedicated run has its node |
| metrics charts | `internal/openshift/mustgathermetrics/` | a page and its charts beside the report | extract, plot, list | files of another report in the directory | the page lists charts of its own archive |
| CLI and HTML output, images | `internal/report/view/`, `pkg/cmd/get/` | none | printing | nothing a model adds to | |

The components interact in two ways. In a cluster: `run`, `destroy`, `status` and
`retrieve` are separate processes that share only the API server's state. On a
workstation: `report` (and `results`) reads the archive `retrieve` wrote,
extracts the must-gather in it, runs the filter pipeline, which asks Sippy and
the baseline service, and judges the outcome; `adm baseline publish` sends that
report to the bucket that later reports use as their baseline.

## 2. Plan

Ordered by what a mistake costs a user: the cluster first, then the evidence
collected from it, then the judgement, then the tools of the administrators.

| Step | Modules | State |
|---|---|---|
| 1. The environment: `run` against `destroy` | `OpctEnvironment` | modelled, checked, its invariants proved |
| 2. The goroutines of the must-gather extraction, against an abstract batch | `LogBatch`, `MustGatherExtract` | modelled, checked, safety and refinement proved |
| 3. The filters | `FilterPipeline` | modelled, checked, proved with step 9 |
| 4. The baseline bucket | `BaselineIndex` | modelled, checked, proved |
| 5. One archive, from loading to publishing | `ArchiveReport` | modelled, checked, proved |
| 6. The commands that follow a run | `FollowRun` | modelled, checked, safety proved |
| 7. The content of the logs: the etcd parser and its aggregation, composed with the extraction and the checks | `EtcdLog`, `ReportChecks`, `MustGatherReport` | modelled, checked, its safety and refinement proved |
| 8. `adm setup-node` beside `run` and `destroy` | `DedicatedNode` | modelled, checked, proved |
| 9. A baseline from its publication to the report that reads it | `PublishedBaselines` | modelled, checked, proved |
| 10. What is saved beside the report: CAMGI, the charts, the install config | `ArchiveReport` | modelled, checked, proved |
| 11. Proofs for the filters, with the sum over the tests, and for chains of publications | `PublishedBaselinesProofs` | done |
| 12. Proofs for the bucket, under the condition that `baseline_page` refutes | `BaselineIndexProofs` | done |
| 13. Proofs for the report, for what it makes of a must-gather, and for its totals | `ArchiveReportProofs`, `MustGatherReportProofs` | done |
| 14. The deprecated comparison with a second archive (`--diff`) in the report | `ArchiveReport` | to do |
| 15. Proofs for the slow requests: `SlowRequestsOfAllPods`, `NewestHoursOfAllPods`, `ParseEtcdLogsAgrees` | `MustGatherReportProofs` | done |

Three modules compose others. `MustGatherReport` runs every step of
`MustGatherExtract`, gives each log its lines and applies `EtcdLog` and the checks to
what the goroutines left. `DedicatedNode` adds `setup-node` to the cluster of
`OpctEnvironment`. `PublishedBaselines` lets the report of one run of
`FilterPipeline` be the baseline of the next. `ArchiveReport` abstracts the filters to
the counts they leave and the bucket to the set of uploads; `FilterPipeline` and
`BaselineIndex` are those two in detail. `FollowRun` takes the environment of
`OpctEnvironment` as the aggregator it follows, from its pod to a destroy at any
moment.

## 3. The modules and the code

### OpctEnvironment

Each terminal `p` of `Cli` runs one command after another; `pc[p]` is the API call
it makes next. All terminals share the cluster: the phase of the namespace `ns`,
the objects in it `objs`, the ClusterRole `role`, the ClusterRoleBinding `binding`,
the e2e namespaces `testNs`, and what the administrator prepared (`setup`: the pool,
the labelled and the tainted nodes).

- `StartRun` to `CheckPool` are `PreRunCheck` (`pkg/run/run.go`), one action per
  read that can change the course; a read that fails ends the command.
  `CheckPool` is what the code does: an unpaused pool is accepted.
- `CreateNamespace` to `SonobuoyRun` are `PreRunSetup` and `Run`. Every call has three
  outcomes: done and answered, done with the answer lost, not done. The last two end
  the command, which leaves what it made. RBAC objects are updated, which creates
  them; the objects of the namespace are created, which fails for one that exists.
- `StartDestroy` to `DeleteBinding` are `pkg/destroy/destroy.go`. `trouble[p]` is
  what the command warned about: `"notfound"` when the API server answered that the
  object is not there, `"fault"` for any other error.
- `Crash`, `NamespaceGone` (the namespace controller, which removes the objects)
  and `TestsCreateNamespace` (the tests, as long as their pods exist) are the rest.
- `overlapped` is a history variable: the terminals that had a command of the other
  kind go on alongside theirs. What is promised of a run is not promised when
  someone destroys the environment under it.

### DedicatedNode

`opct adm setup-node` (`pkg/cmd/adm/setupNode.go`) of each administrator `a`, call by call:
`Discover` picks a worker, `GetNode` reads it, and `UpdateNode` writes the object that was
read back, with the label and the taint, after a question that may stay open for any
time. The nodes' labels and taints are `setup` of `OpctEnvironment`, which `run --dedicated`
checks; `marked` stands for all else in a node. `stale` is what the resource version
tells the API server: the node was written since it was read. The command appends the
taint to one that is there, which the API server refuses. Others (`OthersWrite`) mark a node,
or set it up, while an administrator is asked about it; nobody removes a label or taint:
that is what the docs tell to do after the validation.

### FollowRun

The aggregator advances by itself (`Progress`), and may be destroyed at any moment.
The poller is `opct status` or the end of `opct run`: `PreRunCheck`,
`WaitForRequiredResources` (`pkg/wait/`), `WaitForStatusReport`, and `Print` with or without
`--watch` (`pkg/status/status.go`), with the two counters of retries the code has.
The retriever is `opct retrieve`: `RetrieveResults` starts a request, `CreateFile`,
`FillFile` and `EndOfTar` are Sonobuoy's `UntarAll` in one goroutine, `EndOfExec` is the
other goroutine, `Wait` the errgroup, `Rename` the loop in `retrieveResults`. A file of an
earlier attempt stays on disk (`raw`), the one under the final name is `final`. `UntarAll` fails
because the stream was cut (`"cut"`), which ends the request as well, or because the directory takes
no more (`"local"`): then nobody reads the pipe, and the request is lost or blocks for good. `Printed` is
`doPrint`: printing one of the known statuses may fail, which ends the command; for an unknown one it
prints nothing.

### MustGatherExtract and LogBatch

One action per step of a goroutine between two points where another one can come
in: channel operations, the WaitGroup, the list of findings. `stage[l]` is where the
log `l` is: `rate` (limiter), `semaphore`, `send` (to the queue), `queued`, `parsing`, `parsed`,
`done`. The rate limiter's channel is the number of its tokens; it starts full, as
in the code, and the ticker takes tokens out (`Leak`). The semaphore is given back
by a deferred receive, at any time after the send. `decrement` calls `Done` first and
counts `queueCount` afterwards; both are steps. `extract` returns early on an error
with goroutines in flight, and these go on. `LogBatch` says what the caller may
assume: take a log, parse a log, succeed with nothing left, or give up. `Batch` in
`MustGatherExtract` is the refinement mapping.

### EtcdLog and MustGatherReport

A line is what the parsers tell apart: how often each pattern matches, the duration of a
slow request in milliseconds, its hour. `Readable` and `Milliseconds` are what the two
regular expressions of `ProcessLine` make of Go's durations. `Bucket`, `BucketFilterStat`, `Latest`
and `GetStat` are `insertBucket` and `GetStat`; the mean is left as sum and count.
`NewErrorEtcdLogs` parses the log of one pod, `ParseEtcdLogs` is the command on the lines of the files it takes.
Counters are bags of the patterns, finitely many, and of `"total"`, which is none of them;
`MergedCounters` merges those of a sequence, for the report and for the command.

`MustGatherReport` extends `MustGatherExtract`: each step of it is a step of `ExtractStep`, with
`insertNamespaceErrors` appending the log, in the order in which the goroutines come, and
`Aggregated` (`AggregateCounters`, `calculateCountersEtcd`) at the step that returns without an
error: `Errors` and `EtcdErrors` are what one log adds to the two counters, as the loop does, which
looks at each log and asks whether it is one of etcd's. `GradeLogs` is the report's three checks on the outcome; after a failed `extract` it
may happen while goroutines still append. The module's assumption ties the logs in error
of `MustGatherExtract` to their lines. `EtcdLogs` are the current logs of the etcd containers, of which the
report parses the slow requests (`mustgather.go:330`); `RotatedLogs` are those of containers that
were restarted. The command's pattern of paths (`parseetcdlogs.go:63`) takes both (`EtcdFiles`), from whatever
part of the must-gather was extracted to the directory, in the order of a walk (`WalkedLines`).

### ReportChecks

One operator for each check of `NewCheckSummary`, a function of the populated report to a
grade. A document that may be missing (the counters, the etcd statistics, the nodes) is a set,
so that "missing" is a case of the same formula. A comparison of percentages is one of
integers. `CheckResults` is the whole table, one check of it `GradeOf`.

### FilterPipeline

`ConsolidatedSummary.Process`: one action per filter, with one step per answer of
Sippy. `kept[f][p]` and `excluded[f][p]` are `FailedFilter<f>` and
`FailedExcludedFilter<f>` of plugin `p`; every list is sorted before it is read, so
a list is a bag. `Previous` is `GetPreviousFailuresByFilterID` with the two filters
that do not use it. A filter that a plugin does not take leaves its list as it is.
`Judge` is the two checks that read the final list. A baseline summary has its lists under
the names of this and of earlier versions; `Unreadable` is the case in which
`GetPriorityFailuresFromPlugin` converts the shadowed, nil list.

### PublishedBaselines

`Publish` ends a run of the pipeline that `adm baseline publish` started: the filter of the
baselines is disabled, the checks that reject a baseline did not fail, and its
`Summarize` (`BuildFailedData`, kept by `SummaryBuilder`) joins the summaries that the service may
answer with. `ProcessAnother` starts the next run.

### ArchiveReport

One command at a time, `report` or `adm baseline publish`, on an archive of
`Archives`; the directory keeps what earlier commands left. `Read` is the walk over
the archive until the first document that cannot be decoded. `Failed` is the
difference between the commands: the report returns an error, the publication logs
it. Nil pointers and divisions by zero in the population are `End("panic")`. The
checks are those of `ReportChecks`, on the numbers of the archive. A file is replaced, left
as it was, or damaged. `WriteSides` is what the population itself writes beside the report:
CAMGI, the install config, the page of events (`AppendEvents`), and the page of metrics with its charts, which
`MetricsFiles` (`mustgathermetrics/main.go`) and `Rendered` (`plotly.go`) decide. `features` is what the
report then says it has: CAMGI only when it was written, the other two even when not. `appended` has
the archives with text in the files that are never truncated: the lists and the texts of failures
(`SaveLists`) and the page of events. `Upload` sends the summary that the directory has; `storage`
notes with each upload whether this command had written it (`written`).
Of an archive it is assumed that the failures are among the tests (`result.go:225` counts both
from one list), that no more operators are healthy than there are, and that the statistics of slow
requests count one at least, without which `insertBucket` makes no group.

### BaselineIndex

Each administrator runs one command after another, one request per action.
A summary is stored under a key (target, date); the copy of a target has a stamp that sorts
after all dates, as `_latest` sorts after the digits. What is stored under a key is a content of its own:
the target and the date in the tags of the document, either of which may be missing. A
publication uploads its own summary (`OwnContent`) or, where it failed to write it, what the directory
had (`Leftovers`): nothing that decodes (`NoTags`), or the summary of another archive. The archive goes to the base name of
its file (`BaseName`), which several summaries may share.

`ListObjects` returns one page; `ReadObject` reads the listed objects in their order. What
cannot be read is left out; what cannot be decoded is not: `TargetOf` and `Older` take the
target and the date from the name then. `Older` is the comparison of texts that the code makes: dates of
one form in order, and a date in a name (`20240601000000.json`) after all dates in
tags (`2024-06-01T00:00:00Z`) of its year, for which `NewYears` are the dates that begin one; the
`latest.json` of a copy comes after all of them. `Indexed` keeps the newest per target with `<`;
`CopyLatest` copies what is stored under its key by then, and S3 refuses a copy of an object to
itself. `Invalidate` only requests an invalidation (`invalidating`), or prints a hint;
`InvalidationTakesEffect` empties the cache of one copy, at any later time or never. `published` and
`trouble` are history: the keys in use when an index run began, and what went wrong in it:
another run alongside (`"overlap"`), a failed read (`"unread"`), an object that does not tell where it
belongs (`"mistagged"`), a summary replaced by another one (`"replaced"`), a failed copy
(`"uncopied"`) or invalidation (`"cached"`). A run is *sound* (`Sound`) without the first four.

`ReadLatestSummary` is one request of a report through the cache. The loop of the reader over
the platform, "None" and "AWS" is not in this module: whichever of them answers, or none, is an input of
`FilterPipeline`.

### External code, and what is assumed of it

- The API server: create fails for an existing object and in a terminating
  namespace; update of an RBAC object creates it; delete of a missing one is
  `NotFound`. The namespace controller removes a terminating namespace at some time.
- The API server, for nodes: an update with the version of an older read is refused, and so
  is one with the same taint twice.
- Sonobuoy: its delete takes a missing namespace for success; its run recreates a
  missing namespace; a pod without its service account is not made. `UntarAll` reports
  an empty tar and one cut in the middle of a file as errors, not one cut between two
  files; the exec request reports a stream that was cut, and blocks while nobody reads
  what it writes: between the two is an unbuffered pipe.
- The Go compiler: `return results, eg.Wait()` reads `results` after the call. The
  language leaves the order open; the compiler the project builds with has this one.
- S3: a request is atomic, at most `PageSize` keys in one listing, ordered by name.
- CloudFront: an invalidation is asynchronous; it takes effect for one path after another, in any
  order, at any time after it was requested or not at all, and one that is under way does not
  end with the command. The cache gets an object from the bucket in one step: a copy that was
  fetched before an invalidation takes effect is not stored after it. An object may expire at any time.
- Sippy: an error, or a list of any number of items, each above or below the limit.

## 4. The runs

### Passing runs

**environment** — two terminals and an administrator of nodes, up to four commands among
them, every interleaving with failing calls, lost answers and killed processes.
`SetupIsExclusive`: of two runs that raced past the check of the namespace only one
goes on, because creating the namespace is the lock.
`ScheduledEnvironmentIsComplete`: a run that reports success left the whole environment.
`QuietDestroyLeavesNothing`: a destroy that warned of nothing left nothing; the order
(wait for the namespace, then list the test namespaces) is what makes it true.
`SetupNodeUndoesNothing`: no write of `setup-node` takes back what others wrote to the node
while it waited for its answer; the version in the object it read is what makes it true.
`DedicatedRunHasNode`: a dedicated run has a node with both label and taint, although the
check looks at the first of two nodes only, reads them once, and others write them.

**must_gather** — four logs, two of etcd pods and one of an etcd container that was restarted, buffers of one place.
`ReturnsWithEveryLogParsed`, `AggregatesStableFindings` (the list is read without its lock
after the call, and nobody writes it then), `ExtractReturns` (no deadlock between
limiter, semaphore and queue) and `ImplementsLogBatch`, the refinement.
`SlowRequestsOfAllPods`, `NewestHoursOfAllPods`: in whichever order the logs came, the
statistics are those of the requests of all etcd pods, all together and by the newest hours of
any of them. They are compared with a definition that counts a set of requests.
`TotalsAddUp`: the total, merged like a pattern, stays the sum of the patterns.
`ParseEtcdLogsAgrees`: for every subset of the etcd logs, current and rotated, and every
order of them, the command, which parses line by line, counts each pattern as often as it
matches in those files and has the slow requests of those files by hour; on the logs that the
report parsed it has exactly the counters of the report, and the report's hours are the newest of its
own. On a whole must-gather with restarted containers the two differ, by the requests of the rotated logs
(section 7). `PartialLogsPassNothing`: when the archive cannot be read to its end the report is
graded while goroutines still work, and no check on the logs passes.

**filters** — every combination of suite, known failures, replay, second archive,
answers of Sippy and of the baseline service, for two tests and two runs.
`ReviewListIsUnexplained`: nothing to review that a filter was to exclude, although each
filter sees only the list of another. `FailuresAreConserved`: every failure is in
one list as often as it happened. `PassIsExplained`: a plugin that passes ran tests
that did not fail, and each failure is recorded by a filter. The last two exempt
the failures that Sippy does not answer with one item, which `filters_unlisted` is about.
`BaselineInheritsNothing`: a published summary has exactly the failures that its own run left
before the filter of the baselines, whatever baselines were served, and can be read.

**report** — two commands over 48 archives: at the limits of the checks, and with
results and documents that are missing or cannot be read.
`DamageNeverImproves`: a report never grades as passed what would not pass if all of
the archive could be read. `WorseIsNotGradedBetter`: over all pairs of archives, one that is
worse in some numbers and better in none gets no better grade of any check (limits with a
gap or an overlap would break it), but of the two that fail for a counter of zero.
`SavedReportIsCurrent`: of the files that are replaced, a report that ended well shows none of
another archive: its pages, what is copied beside them, and the charts its page of metrics
lists, whatever earlier commands left, except what it failed to write itself. The files that are added
to are not of these (section 7).
`GateIsSound`: what is uploaded passed the four
checks (for archives all of whose plugins can be read, see `report_gate`).
`PublishesOwnSummary`: a publication whose summary was written uploads that one or none, whatever
else failed. When writing it failed, which is only logged, it may be that of another (section 7).

**baseline** — two administrators, four commands, summaries that can be decoded, that cannot,
and that are of the other archive, failing requests, crashes, reports that fill the cache and invalidations that take
effect late. `LatestNeverGoesBack`: a copy goes back in date only by an index run that is not
sound. `IndexCoversPublished`: a sound run indexes all that was published before it, and its newest are the
newest of it. `ReportsReadPublished`: after a run without any trouble the copies are no
older than what was published before it, nor is what the cache gives once the invalidation took
effect. What unsound runs do is the matter of `baseline_damaged` and of section 7.
`SummaryHasArchive`: a publication that fails halfway leaves an archive, never a summary alone.

**follow** — a poller and a retriever beside an aggregator that may be destroyed.
`WatchEndsComplete`: a watch that ends well saw the aggregator complete.
`GivesUpOnlyBackToBack`: it gives up only after errors in a row.
`FinalNameIsWhole`: no part of an archive ever gets a final name.
`RetrievedIsComplete`: success means all archives. `PollerEnds`: the poller ends. `RetrieveEnds`: the
retrieval ends, or hangs in one state: its request is stuck behind a download that the directory
failed (section 7).

### Runs that end in a violation

Each of these checks one property that the repository states and the code does not keep.

| Run | The repository says | The code does |
|---|---|---|
| `environment_orphan` | "Destroys resources used for conformance testing" (`pkg/destroy/destroy.go:36`) | `RestoreSCC` stops at a ClusterRole that is already gone; a destroy killed between the two deletions can never be completed, and the privileged binding stays |
| `filters_unlisted` | the final list holds the failures that "must raise attention" (`internal/opct/plugin/plugin.go:51`) | a failure for which Sippy answers an empty list is in no list (`internal/opct/summary/consolidated.go:366`) |
| `baseline_undated` | a publication is to be indexed (`pkg/cmd/adm/baseline/publish.go:164`) | a summary without a finish time has the prefix for a key, and every later index run panics (`internal/report/baseline/indexer.go:97`) |
| `baseline_page` | "ListObjects lists all the objects in the bucket." (`internal/report/baseline/indexer.go:203`) | it returns the first page |
| `baseline_damaged` | the index run is to "extract metadata, and calculate the latest by release and platform type" (`internal/report/baseline/indexer.go:35`) | a summary that cannot be decoded is dated by its name, which sorts after the dates in tags of its year (`internal/report/baseline/indexer.go:104`), and becomes the latest |
| `report_gate` | rejects "OPCT-001 : kube conformance failing" (`pkg/cmd/adm/baseline/publish.go:108`) | the error of `Process` is logged, the filters have not run, and their empty lists pass |

### Bounds, and why they are enough

- `environment`: two terminals race, and a third would add only another loser of the
  same race; four commands allow run, destroy, run and destroy, and any two of
  them at once. The proofs need no bound. One test namespace: namespaces do not
  interact. The options and setups are those that take different branches; the
  terminals are symmetric, and only invariants are checked in that run.
- `environment`, the nodes: three, of which clusters have one to three labelled; one administrator,
  as others write the node like a second one would, once for each question. The proofs have
  any number of both.
- `must_gather`: with buffers of one place (50 and 100 in the code) four logs fill the
  limiter, the semaphore and the queue and leave one waiting, which is the case in
  question; larger buffers block later, in the same way. Safety is proved for any size.
  The newest three hours are kept (eight in the code) of four groups, so that one is cut; the
  durations are at the limits of the buckets and of the checks, one has minutes that get
  lost, two cannot be read, one has no hour. One rotated log is read beside two current ones, in every
  order and every choice of the three.
- `filters`: filters treat tests independently except in the order of Sippy's
  questions and in the counts of the checks; one test and a known failure meet all
  branches. Two items are the least ambiguous answer beside none. The ocp plugin has
  1 or 200 tests: one failure is above, or just not above, 0.5%. Two runs are one that publishes
  and one that reads; the summary of a third would depend on no other. The proofs have any finite
  set of tests, any answers and any number of runs.
- `baseline`: one target is copied independently of another; two dates give an older
  and a newer summary, the second at the turn of a year, so that a date in a name comes after those in tags
  of the same year and before those of the next; four commands allow two publications and two index
  runs. `Leftovers` are a summary that was cut off and that of the older archive. 1000
  keys in a page never fill; `baseline_page` takes one, so that a page is full early. The proofs need no
  bound. `baseline_damaged` has both dates in one year.
- `report`: the second command meets what the first left in the directory. The first one is on
  one of the archives that leave different files (`EarlierArchives`), the second on any. Counts
  are at and just past each limit (300 tests, 1.5 %, 0.5 %, 30000 and 100000 errors, and so
  on). Two of the five charts: one that a page lists and one that it does not. The proofs have any
  archives, with any numbers, and any number of commands.
- `follow`: two archives give a stream that ends between them; a limit of three for the
  status and two for the attempts (ten in the code) is met from both sides, and two
  retrievals give one that meets the files of another. The proofs need no bound.

Deadlock is not checked: all these systems are done at some time, or at their bound.

## 5. Fairness

Safety runs assume none. Two runs state liveness:

- `must_gather` (`FairSpecReport`, with the fairness of `MustGatherExtract`): weak fairness of the reader, of each log's goroutine, of
  the consumer and of the ticker. The Go scheduler runs every goroutine that is not
  blocked. Weak fairness is enough: a goroutine that loses a place in a channel to
  another one loses it to one of finitely many. No read has to fail.
- `follow` (`FairSpec`): weak fairness of the aggregator (it ends by a timeout of its own,
  which `pkg/run/run.go:586` sets), of the poller (a ticker wakes it, and each wait of it has a
  limit) and of the retriever. Starting a retrieval, killing it and destroying the
  environment are not fair: nobody has to. No read of the status needs to succeed.

## 6. Proofs

Every theorem holds for all values of the constants that satisfy the assumption
named in the module; nothing else is assumed.

### OpctEnvironmentProofs (from `SetupAssumption`)

`Typing` is the type invariant. The safety invariants are not inductive: that a run
scheduled an environment says nothing of the run a step before. Two invariants
over the steps make them so.

- `RunProgress` (theorem `RunsProgress`): as long as no destroy went alongside, what holds
  at a step of a run is the sum of the steps behind it: the namespace active,
  the objects of the earlier creations there, the role and the binding once their
  upserts are done. It does not say that nothing else is there: a run that a destroy
  overtook may still add an object of its own. `ScheduledIsComplete` follows at the last step.
- `Exclusive` adds that of two runs that both hold the namespace each would have had to
  create it while the other's was there (`OnlyCreationHolds` against `RunProgress`).
- `DestroyProgress` (theorem `DestroysProgress`): what the steps behind a destroy without
  warnings deleted stays deleted. It needs `AbsentEmpty` (an absent namespace has no
  aggregator, hence no tests that create namespaces) and `Alone` (the history
  variable `overlapped` really excludes the other command). `QuietDestroy` follows.

### DedicatedNodeProofs (from `SetupAssumption`)

The lemmas of `OpctEnvironmentProofs` are about one step and rest on no theorem of its
specification: they are cited again for the steps of `run` and `destroy` beside `setup-node`,
whose own steps leave alone what they speak of (`OtherStep`). So `EnvironmentBesideSetupNode` is
every invariant above for `SpecNode`.

- `UndoesNothing`: `NodeInvariant` says (`Known`) that the object an administrator holds is the
  node as it is, as long as nobody wrote it since, and that it is `stale` otherwise. So the
  write that is not refused only adds.
- `DedicatedRuns`: labels and taints are only added (`UndoesNothing` again), so that what a check
  found is there at the end; and a run is past the check only with a node (`HasNode`).

### FollowRunProofs (from `FollowAssumption`)

- `Typing`: no counter of retries passes its limit; the invariant has to say that an
  attempt that goes on is within the limit, since the last failure adds one.
- `WatchEnds` needs that the aggregator's completion is remembered; `GivesUp` that,
  while the watch goes on, the counter is one ahead of the errors in a row, which it
  enters with because the earlier wait resets it.
- `Downloads` is the inductive invariant of the download: while the goroutines run, the
  stream and the files on disk are together all the archives of a complete
  aggregator or none; the tar can end well only with its files filled, and the request
  only with nothing left in the stream; so past `Wait` every archive is whole, under
  one name or the other. `FinalNames` and `Retrieves` are two of its conjuncts.

### MustGatherExtractProofs (from `ExtractAssumption`)

- `Queueing`: a log is taken once, and is in the queue once while it waits there.
- `WaitGroup`: the counter is the cardinality of the logs in flight. With it `waiter = 0`
  means that none is, so that past its wait the reader left nothing behind.
- `Returns`: with `Queueing` each log is parsed at most once, which makes the
  findings exact; with `WaitGroup` each is parsed when the call returns.
- `StableFindings`: no parser is left that could add a finding.
- `Typing`: the WaitGroup never goes negative, which would be a panic; `queueCount` follows
  it, one behind while the consumer is between its two decrements.
- `Implements`: every step maps to one of `LogBatch` or to a stutter (the safety part of
  the refinement that the run `must_gather` checks as a whole).

### MustGatherReportProofs (from `ReportAssumption`, `EtcdLogAssumption`, `ExtractAssumption`)

- `ReportExtracts`: a step of the report is one of extract or leaves its variables alone. So
  `ReportTyping`, `ReportReturns` and `ReportStable` are the theorems of `MustGatherExtractProofs`,
  for `SpecReport`.
- `Listed` is the invariant the rest needs: the list has the logs with findings, each once, although
  a step appends whatever its goroutine found. Findings are
  never taken back (`FindingsGrow`) and come once for a log (`FindingsAreExact`).
- `PartialLogs`: what is aggregated is aggregated at the end (`AggregatedAtTheEnd`), and grades are
  those of what is aggregated (`GradedAtTheEnd`); the empty must-gather fails each check
  (`NothingFails`), and with a must-gather that is not empty `ReportReturns` says that all logs were parsed.
- `TotalsOfAllLogs`: counters are balanced (`Balanced`) when the total is the sum of the patterns.
  Those of one log are (`NewIsBalanced`), merging keeps it (`Merging`, for each of the cases of a
  pattern that only one side has), and so it holds of the fold over any list of logs.
- `SlowRequests`, `NewestHours`: what the report makes of the requests does not depend on how
  they are lined up. A *family* is any function of which only the values matter, and how often they
  come; two are `Alike` when a bijection of their indices keeps the values. Alike families have the
  same count, set of values and total (`AlikeCount`, `AlikeValues`, `AlikeTotals`), hence the same
  statistics (`StatsAreAlike`), group by group (`StatisticsAreAlike`). The buffer of all etcd pods is a
  flattened list of lists, and so alike to the pairs of list and index (`Flattened`, by induction on the
  length); a list that has each log once makes them the pairs of log and line (`ByLog`). This is
  where `Listed` and `ReportReturns` come in: the list has exactly the parsed logs of etcd
  (`ListIsComplete`). It remains that the statistics of a set are what `StatOf` says (`StatsOfRequests`, for the
  buckets a difference of two cardinalities) and that `Latest` shows as many groups as
  it should, none older than one it leaves out (`LatestAre`, removing the oldest).
- `CommandAgrees`: the lines that the command reads from any of the etcd logs, in any order, are alike to
  the pairs of log and line of those logs (`WalkIsOfFiles`, by `ByLog` again). So it has the requests of its
  files (`CommandFinds`), and its counters have of each pattern what the lines have (`CommandErrors`), the
  sum over the logs of their sums (`LinesCount`, `TotalOfJoin`). On the logs that the report parsed
  the lines are alike to those the report was given (`SameLines`), and counters are known by what they
  have of each pattern (`CountersByPattern`, since a counter is never zero), so that nothing differs
  (`CommandFindsTheReport`).

`EtcdLogAssumption` has `MaxPastHour` positive, as it is in the code (8): for 0 `Latest` shows every hour.

### PublishedBaselinesProofs (from `PipelineAssumption`)

The theorems are about `SpecPublished`, in which every run of `FilterPipeline` starts with the
baselines that earlier runs published; `FilterPipeline` alone is its first run.

- `Pipeline` is the inductive invariant. `Chained`: every list is what one filter made of the
  one before it, of those filters that ran. `Asked`: what Sippy was not asked about yet, what it kept and
  what it excluded are together the list before. `Judged`: the verdict is of the last list.
  `NoBaseline`: a run that publishes has none to look at.
- `Conservation` and `ReviewLists` follow along the chain (`ChainOf`). The sum over the filters is
  over a fixed set, that over the tests (the size of a list, which the checks read) is not.
- `Passes`: a plugin that passes has an empty last list (`PassedNothingLeft`: a sum of naturals is
  zero only when each of them is), so by the conservation each failure is in a list of a filter.
- `Baselines`: what is published is the list of the last filter, and without a baseline that one
  took nothing away.

### ArchiveReportProofs (from `ReportAssumption`)

- `Saving` says what the directory has at each step of a command: the files written so far are of
  its archive, or are noted as not written. `SavedReports` and `PublishedSummaries` are its last steps; the
  second is about publications whose summary is not among the noted ones.
- `Grading` says what the grades were computed from: the plugins and documents that were loaded,
  with the filters run unless a publication went on without them (`Considered`). `DamagedReports`
  compares that with the whole archive: a check either sees what it would have seen, or fails
  (`GradedWhole`, `DocumentsDecide`). `PublishedBaselinesPass` follows at the gate.
- `WorseReports` is about `CheckResults` alone, over any two archives: the checks of plugins,
  of the cluster and of the counters are monotonic in their numbers, with the arithmetic of a
  percentage and of a mean (`Division`, `Means`) that TLC has only at the limits it is given.

### BaselineIndexProofs (from `BaselineAssumption`)

- `NoSummaryAlone`: a publisher that is about to upload its summary has its archive in the bucket
  (`PublicationsInOrder`), and nothing is ever deleted.
- The invariant of types needs that what is listed, and what is the newest of a draft, is in the
  bucket (`Existing`): its content is read and copied at a later step, as it is then.
- `IndexCovers`, `ReportsAreCurrent` and `NeverBack` are about sound runs, and no other one goes on beside
  them (`RunsApart`). `IndexRuns` says what such a run has in its hands: what was published
  before it is listed or already in the draft, all that it read and all copies tell their date and target
  (`Reading`); the draft covers what is stored, and the copies made are its newest (`Covered`); once the
  invalidation took effect the cache gives no older one (`Served`). The damaged
  summaries that others publish meanwhile do not disturb it: a key in use keeps its content, or
  the run is marked (`"replaced"`).
- The three assume that every listing is complete (`ListingIsComplete`), which the code does
  not ensure: `baseline_page` is the run that shows it. `ListingsFit` proves when it does hold:
  as long as the bucket has at most `PageSize` objects, since the sets listed are finite and
  what is left out of a page is preceded by a full page.

### Sums and folds

The size of a list and the total of counters are folds of the community modules over sets. The
library's induction theorems take an operator for a parameter, which the provers cannot
instantiate. The two modules that need sums prove instead that the recursive function behind
the fold exists (`SumsExist`, `FoldsExist`), from a well-founded order on the subsets and a minimal
counterexample, and go on with its equation for one element taken out.

### What is only model-checked

- Liveness: `ExtractReturns`, `PollerEnds`, `RetrieveEnds`, and the fairness part of
  `ImplementsLogBatch`. The prover does not do fairness or ENABLED.
- The six disagreements of section 4: each is a behaviour TLC shows.

## 7. Divergences met without a run

Read from the code while modelling; each is in the model as the code has it, or in a detail
that the models leave out, and no run is about it.

In the models:

- `pkg/run/run.go:332` accepts a pool that is not paused, which `docs/user.md:143` and
  `pkg/run/run.go:340` require (`PoolAccepted`).
- `internal/report/baseline/indexer.go:69`: an object that cannot be read is left out, the latest copy
  goes back to an older one, and the command succeeds (`"unread"`).
- `internal/report/baseline/data.go:49`: the fallback to the earlier name of the list assigns to a second
  variable of the same name, and the conversion of the first, nil one panics (`Unreadable`). Line 55 would skip the plugin.
- `internal/opct/summary/consolidated.go:916`: the texts of failures, which the report links
  (`data/templates/report/report.html:553`), are opened with `O_APPEND`, and the page of events is not truncated
  (`internal/openshift/mustgather/mustgather.go:264`): in a directory that was in use they show the text of
  another archive (`appended`). The comment at `internal/opct/summary/consolidated.go:933` says that such a
  directory is an error; line 827 accepts it.
- `internal/report/data.go:742`: a failure to write the summary is only logged, and
  `internal/report/baseline/uploader.go:31` uploads, with the metadata of this archive, what an earlier
  command left (`written` in `storage`).
- `pkg/retrieve/retrieve.go:118`: when unpacking fails in the directory, nobody reads the pipe; the
  request blocks and the command hangs in the attempt (`exec = "blocked"`), although line 62 would retry it.

Elsewhere:

- `internal/openshift/mustgather/etcd.go:50` and `:57`: the parentheses of two patterns are
  not escaped, so that they never match the lines they are written after.
- `internal/openshift/mustgather/etcd.go:167`: the pattern of seconds reads "1m2.5s" as 2.5
  seconds and does not match "2s" (`Milliseconds`, `Readable`). A line without a timestamp before its
  JSON makes `split[1]` panic.
- `internal/report/slo.go` (OPCT-011): a run without any failed test has no errors, which is
  taken for missing counters and fails; the branch for missing counters cannot be reached.
- OPCT-030 says "W:>1,P:>2" and passes with two zones; it counts all nodes, not those of the
  control plane.
- `docs/review/rules.md:167` and `:221` describe as OPCT-010 and OPCT-011 the checks the code calls
  OPCT-010A and OPCT-010B.
- `pkg/cmd/adm/baseline/publish.go:110` lists OPCT-003 and OPCT-007 among the rejecting checks, and
  the code tests OPCT-005 and neither of them.
- `internal/opct/summary/openshift.go:303`: the old name of the ocp plugin is not replaced by the
  new one, as that of the kube plugin is.
- `internal/opct/summary/openshift.go:180`: `GetClusterVersionXY` indexes the match of an unknown version
  and panics; the fallback of its caller is never taken.
- `pkg/cmd/adm/parseetcdlogs.go:63` takes every log of an etcd container, `internal/openshift/mustgather/mustgather.go:330`
  only `current.log`: with restarted containers the command shows slow requests and errors that the
  report does not.
- `internal/openshift/mustgather/mustgather.go:317`: `mgItems[3]` panics for a log that lies directly
  under `pods/`, which the pattern of `utils.go:15` accepts; must-gather puts logs under pod and container.
- `internal/report/baseline/data.go:74`: the type assertions of `GetSetupTags` panic for a document without the
  setup; every summary that this code writes has it, and one that was cut off is not decoded.
- `internal/report/baseline/uploader.go:29` names an archive by the base name of its file: a file of the same name
  from another directory replaces it (`BaseName`). `pkg/cmd/adm/baseline/publish.go:156` has a TODO to check
  for what is there.
- `internal/opct/summary/result.go:513` and `:527`: metrics and install config are announced when
  they could not be written.

## 8. Not modelled

- `--diff` in the report: in the plan.
- The order of the platforms that a report asks the baseline service for, and its count of errors
  (`internal/report/baseline/baseline.go:154`): the filter is given any summary or none.
- What a run does with a destroy alongside, and what a destroy that warned leaves, is in `OpctEnvironment`,
  and no property speaks of it: the code has no protection and the documents promise none.
- Pod network checks, test tags and documentation: counting in one pass over a parsed
  document, without an order of steps.
- The parsers of Sonobuoy's run logs, configuration and of the tool's ConfigMaps: decoders of
  text, of which the characters are the content, and whose outcome is only printed.
- Median, deviation, percentiles and outliers of the slow requests: a library computes them and
  no check reads them.
- Tables, HTML pages, the points of the charts, the local HTTP server, images, logging: output only.
- The plugins themselves (what runs inside the cluster): other repositories. Their
  results are inputs, as is their progress in the status.
- The content of the plugin manifests that `run` renders; a manifest that does not load is
  a failing step.
