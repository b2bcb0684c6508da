---------------------------- MODULE ArchiveReport ----------------------------
(***************************************************************************)
(* What `opct report` and `opct adm baseline publish` make of one archive: *)
(* both load the results of the plugins and the documents of the cluster,  *)
(* run the filters, grade the checks and save the report in a directory;   *)
(* the report stops at the first error, the publication logs it, goes on,  *)
(* and uploads the archive when four of the checks did not fail.           *)
(*                                                                         *)
(* The filters are the subject of FilterPipeline and the bucket that of    *)
(* BaselineIndex: here a filter leaves the counts that the archive tells.  *)
(* The directory is the one of --save-to, or the one that archives of the  *)
(* same base name share.                                                   *)
(***************************************************************************)
EXTENDS ReportChecks

CONSTANTS
  Archives,         \* the archives there are
  Content,          \* Content[a]: what the archive a has, a record of Archive
  EarlierArchives,  \* bound: those of the commands before the last one
  Missing,          \* a file that was never written
  Damaged,          \* a file whose writing failed
  MaxCommands       \* bound: how many commands are started

Plugins == Conformance \cup {"upgrade", "replay", "collector"}

\* The report is populated from all of these without a test for nil or zero.
Required == {"health", "infrastructure", "version", "operators", "network"}

\* What is copied from the archive next to the report, and the pages of a few
\* of the charts that are made of the metrics.
Features == {"camgi", "metrics", "installConfig"}
Charts == {"wal", "kas"}
Documents == Required \cup {"nodes", "mustGather"} \cup Features
Files == {"json", "summary", "pages"} \cup Features \cup Charts

Part == {p \in [healthy : Nat, total : Nat \ {0}] : p.healthy <= p.total}
Node == [name : Nat, controlPlane : BOOLEAN, zone : {"none", "a", "b", "c"}]
Slow == [count : Nat \ {0}, sum : Nat, max : Nat]  \* a group has a request
Condition == {"True", "False", "Unknown", ""}

Archive == [opens      : BOOLEAN,
            loaded     : SUBSET Plugins,       \* LoadedPlugins of the run
            unreadable : SUBSET Plugins,       \* those without readable results
            walk       : Seq(Documents),       \* the documents, as they come
            corrupt    : SUBSET Documents,     \* those that cannot be decoded
            total      : [Plugins -> Nat],
            failed     : [Plugins -> Nat],
            passed     : [Plugins -> BOOLEAN], \* the status of the plugin
            priority   : [Conformance -> Nat], \* left by the filter of flakes
            review     : [Conformance -> Nat], \* left by all filters
            errors     : [Conformance -> Nat], \* errors in the failed tests
            health     : [nodes : Part, pods : Part],
            infrastructure : [platform : STRING, topology : STRING, controlPlane : STRING],
            version    : [available : Condition, failing : Condition,
                          progressing : Condition, accepted : Condition],
            nodes      : SUBSET Node,
            mustGather : [total : SUBSET Nat, slow : SUBSET Slow],
            metrics    : BOOLEAN,              \* the tarball can be read to its end
            charts     : SUBSET Charts]        \* those with a valid value

ASSUME ReportAssumption == /\ Content \in [Archives -> Archive]
                           /\ \A a \in Archives, p \in Plugins :
                                Content[a].failed[p] <= Content[a].total[p]
                           /\ EarlierArchives \subseteq Archives /\ MaxCommands \in Nat
                           /\ Missing \notin Archives /\ Damaged \notin Archives

VARIABLES
  cmd,       \* the command: "report" or "publish"
  saving,    \* whether it saves to the directory (--save-to)
  archive,   \* the archive it reads
  pc,        \* its next step
  outcome,   \* how it ended
  results,   \* the plugins whose results are loaded
  docs,      \* the documents that are loaded
  filtered,  \* whether the failures went through the filters
  grade,     \* the grade of each check
  appended,  \* the archives with text in the files that are never truncated
  files,     \* the archive that each file of the report is of
  listed,    \* the charts of the page of metrics
  features,  \* what the report of this command says it has
  unsaved,   \* the files this command should have written and could not
  storage,   \* the uploads, and whether their publication wrote its summary:
             \* [archive, summary, written]
  commands   \* bounded: how many commands were started

loading == <<results, docs, filtered, grade>>
sides == <<listed, features>>
directory == <<appended, files, sides, unsaved>>
command == <<cmd, saving, archive, commands>>
vars == <<cmd, saving, archive, pc, outcome, results, docs, filtered, grade,
          appended, files, listed, features, unsaved, storage, commands>>

Ungraded == [c \in Checks |-> "none"]

Init ==
  /\ cmd = "report" /\ saving = FALSE /\ archive \in EarlierArchives
  /\ pc = "ended" /\ outcome = "none"
  /\ results = {} /\ docs = {} /\ filtered = FALSE /\ grade = Ungraded
  /\ appended = {} /\ unsaved = {} /\ listed = {} /\ features = {}
  /\ files = [f \in Files |-> Missing]
  /\ storage = {}
  /\ commands = 0

-----------------------------------------------------------------------------
(* The populated report.                                                   *)

\* What Populate reads of archive a when these results and documents are
\* loaded: what is not loaded counts as zero or is empty.
Populated(a, rs, ds, fs) ==
  [total    |-> [p \in Plugins |-> IF p \in rs THEN a.total[p] ELSE 0],
   failed   |-> [p \in Plugins |-> IF p \in rs THEN a.failed[p] ELSE 0],
   passed   |-> [p \in Plugins |-> p \in rs /\ a.passed[p]],
   priority |-> [p \in Conformance |-> IF p \in rs /\ fs THEN a.priority[p] ELSE 0],
   review   |-> [p \in Conformance |-> IF p \in rs /\ fs THEN a.review[p] ELSE 0],
   errors   |-> [p \in Conformance |-> IF p \in rs THEN a.errors[p] ELSE 0],
   health   |-> a.health, infrastructure |-> a.infrastructure, version |-> a.version,
   nodes    |-> IF "nodes" \in ds THEN a.nodes ELSE {},
   mustGather |-> IF "mustGather" \in ds THEN a.mustGather ELSE [total |-> {}, slow |-> {}]]

-----------------------------------------------------------------------------
(* The steps of a command.                                                 *)

Start ==
  /\ pc = "ended" /\ commands < MaxCommands
  /\ \/ cmd' = "report" /\ saving' \in BOOLEAN
     \/ cmd' = "publish" /\ saving' = TRUE
  /\ archive' \in IF commands + 1 < MaxCommands THEN EarlierArchives ELSE Archives
  /\ pc' = "load" /\ outcome' = "none" /\ unsaved' = {} /\ features' = {}
  /\ results' = {} /\ docs' = {} /\ filtered' = FALSE /\ grade' = Ungraded
  /\ commands' = commands + 1
  /\ UNCHANGED <<appended, files, listed, storage>>

GoTo(step) == pc' = step /\ UNCHANGED outcome
End(how) == pc' = "ended" /\ outcome' = how

\* Mutant of Failed: the report logs an error and goes on, too.
FailedLogged(how, step) == how # "" /\ GoTo(step)

\* A step returned an error: the report ends, the publication goes on.
Failed(how, step) == IF cmd = "report" THEN End(how) ELSE GoTo(step)

\* The walk over the archive ends at the first document it cannot decode,
\* and what was read until then is used.
Read(a) ==
  {a.walk[i] : i \in {j \in 1..Len(a.walk) : \A k \in 1..j : a.walk[k] \notin a.corrupt}}

\* Mutant of WriteSides: the tab of CAMGI is there whenever the archive has it.
WriteSidesClaimed(a, ds) ==
  /\ \E ws \in SUBSET (ds \cap Features) :
       /\ files' = [f \in Files |-> IF f \in ws THEN archive ELSE files[f]]
       /\ unsaved' = (ds \cap Features) \ ws
  /\ features' = ds \cap Features /\ UNCHANGED listed

\* The page of metrics and its charts; nothing when their tarball cannot be read.
MetricsFiles(a) == IF a.metrics THEN {"metrics"} \cup a.charts ELSE {}

\* The page lists the charts that were written before it.
Rendered(written) == IF "metrics" \in written THEN written \cap Charts ELSE listed

\* The files beside the report: those of ws are written, those of ts damaged.
WriteSides(a, ds) ==
  LET made == (ds \cap {"camgi", "installConfig"})
                \cup (IF "metrics" \in ds THEN MetricsFiles(a) ELSE {})
  IN  \E ws \in SUBSET made : \E ts \in SUBSET (made \ ws) :
        /\ files' = [f \in Files |-> IF f \in ws THEN archive
                                     ELSE IF f \in ts THEN Damaged ELSE files[f]]
        /\ listed' = Rendered(ws)
        /\ features' = (ds \cap Features) \ (IF "camgi" \in ws THEN {} ELSE {"camgi"})
        /\ unsaved' = (ds \cap Features) \ ws

\* The page of the events of the must-gather is written over one that is there,
\* and what was longer in that one remains.
AppendEvents(ds) ==
  appended' \in {appended} \cup (IF "mustGather" \in ds THEN {appended \cup {archive}} ELSE {})

\* Populate: the results of the plugins first, one after another, then the
\* documents; an error of any plugin is returned after all that.
Load ==
  /\ pc = "load"
  /\ IF Content[archive].opens /\ Content[archive].loaded # {}
     THEN /\ results' = Content[archive].loaded \ Content[archive].unreadable
          /\ docs' = Read(Content[archive])
          /\ IF saving THEN WriteSides(Content[archive], docs') /\ AppendEvents(docs')
             ELSE UNCHANGED directory
          /\ IF Content[archive].loaded \cap Content[archive].unreadable = {}
             THEN GoTo("filter") ELSE Failed("process", "populate")
     ELSE UNCHANGED <<results, docs, directory>> /\ Failed("process", "populate")
  /\ UNCHANGED <<command, storage, filtered, grade>>

\* The pipeline reads the results of both conformance plugins and the version
\* unconditionally; a service it needs may fail, after the lists are built or,
\* unless the baseline is disabled as it is for a publication, before.
Filter ==
  /\ pc = "filter"
  /\ \/ /\ ~(Conformance \subseteq results /\ "version" \in docs)
        /\ End("panic") /\ UNCHANGED filtered
     \/ /\ Conformance \subseteq results /\ "version" \in docs
        /\ \/ filtered' = TRUE /\ GoTo("populate")
           \/ filtered' = TRUE /\ Failed("process", "populate")
           \/ cmd = "report" /\ UNCHANGED filtered /\ End("process")
  /\ UNCHANGED <<command, directory, storage, results, docs, grade>>

\* Populate the report and run the checks; a nil pointer, an index out of range
\* or a division by zero ends either command.
Populate ==
  /\ pc = "populate"
  /\ IF Conformance \subseteq results /\ Required \subseteq docs
     THEN /\ grade' = CheckResults(Populated(Content[archive], results, docs, filtered))
          /\ IF saving THEN GoTo("lists") ELSE End("done")
     ELSE End("panic") /\ UNCHANGED grade
  /\ UNCHANGED <<command, directory, storage, results, docs, filtered>>

\* ConsolidatedSummary.SaveResults: the failures are added to the text files
\* that are there, those the report links for each test among them; one that
\* cannot be opened ends either command.
SaveLists ==
  /\ pc = "lists"
  /\ \/ appended' = appended \cup {archive} /\ GoTo("json")
     \/ /\ appended' \in {appended, appended \cup {archive}}
        /\ Failed("save", "json") \/ End("fatal")
  /\ UNCHANGED <<command, loading, files, sides, unsaved, storage>>

\* Writing a file: it is replaced, left as it was or left damaged.
Written(f) == files' = [files EXCEPT ![f] = archive]
NotWritten(f) == files' \in {files, [files EXCEPT ![f] = Damaged]}

\* ReportData.SaveResults: when the report cannot be written the rest is not.
SaveJSON ==
  /\ pc = "json"
  /\ \/ Written("json") /\ GoTo("summary") /\ UNCHANGED unsaved
     \/ NotWritten("json") /\ Failed("save", "gate") /\ unsaved' = unsaved \cup {"summary"}
  /\ UNCHANGED <<command, loading, appended, sides, storage>>

\* Mutant of SaveSummary: a summary that is there is kept.
SaveSummaryOnce ==
  /\ pc = "summary"
  /\ \/ /\ IF files["summary"] = Missing THEN Written("summary") ELSE UNCHANGED files
        /\ UNCHANGED unsaved
     \/ NotWritten("summary") /\ unsaved' = unsaved \cup {"summary"}
  /\ GoTo("pages")
  /\ UNCHANGED <<command, loading, appended, sides, storage>>

\* A failure to write the summary is only logged.
SaveSummary ==
  /\ pc = "summary"
  /\ \/ Written("summary") /\ UNCHANGED unsaved
     \/ NotWritten("summary") /\ unsaved' = unsaved \cup {"summary"}
  /\ GoTo("pages")
  /\ UNCHANGED <<command, loading, appended, sides, storage>>

SavePages ==
  /\ pc = "pages"
  /\ \/ /\ Written("pages")
        /\ IF cmd = "report" THEN End("done") ELSE GoTo("gate")
     \/ NotWritten("pages") /\ Failed("save", "gate")
  /\ UNCHANGED <<command, loading, appended, sides, unsaved, storage>>

\* Mutant of Rejected: the failures of the ocp plugin are not considered.
RejectedByKube(g) == \E c \in {"OPCT-001", "OPCT-022"} : g[c] = "fail"

\* The checks that reject a baseline.
Rejected(g) == \E c \in {"OPCT-001", "OPCT-004", "OPCT-005", "OPCT-022"} : g[c] = "fail"

Gate ==
  /\ pc = "gate"
  /\ IF Rejected(grade) THEN End("rejected") ELSE GoTo("upload")
  /\ UNCHANGED <<command, loading, directory, storage>>

Sent(summary) == [archive |-> archive, summary |-> summary,
                  written |-> "summary" \notin unsaved]

\* UploadBaseline: the archive, then the summary of the directory if there is
\* one; each request may fail, done or not, and --dry-run makes none.
Upload ==
  /\ pc = "upload"
  /\ \/ (End("fatal") \/ End("dryRun")) /\ UNCHANGED storage
     \/ storage' = storage \cup {Sent(Missing)} /\ End("fatal")
     \/ /\ files["summary"] # Missing
        /\ storage' = storage \cup {Sent(files["summary"])}
        /\ End("done") \/ End("fatal")
  /\ UNCHANGED <<command, loading, directory>>

\* The process is killed; what it wrote stays.
Crash ==
  /\ pc # "ended"
  /\ End("killed")
  /\ UNCHANGED <<command, loading, directory, storage>>

Next == \/ Start \/ Load \/ Filter \/ Populate
        \/ SaveLists \/ SaveJSON \/ SaveSummary \/ SavePages
        \/ Gate \/ Upload \/ Crash

Spec == Init /\ [][Next]_vars

-----------------------------------------------------------------------------
(* Properties.                                                             *)

\* Types of the variables.
TypeOK ==
  /\ cmd \in {"report", "publish"} /\ saving \in BOOLEAN
  /\ archive \in Archives /\ appended \subseteq Archives
  /\ pc \in {"load", "filter", "populate", "lists", "json", "summary", "pages",
             "gate", "upload", "ended"}
  /\ outcome \in {"none", "process", "panic", "save", "fatal", "rejected", "killed",
                  "dryRun", "done"}
  /\ results \subseteq Plugins /\ docs \subseteq Documents
  /\ filtered \in BOOLEAN /\ unsaved \subseteq Files
  /\ listed \subseteq Charts /\ features \subseteq Features
  /\ grade \in [Checks -> Grades \cup {"none"}]
  /\ files \in [Files -> Archives \cup {Missing, Damaged}]
  /\ storage \subseteq [archive : Archives, summary : Archives \cup {Missing, Damaged},
                        written : BOOLEAN]
  /\ commands \in 0..MaxCommands

\* The grades of an archive all of whose results and documents can be read.
Whole(a) == Populated(Content[a], Content[a].loaded, Documents, TRUE)
WholeGrades == [a \in Archives |-> CheckResults(Whole(a))]

\* However an archive is damaged, a report grades no check as passed that would
\* not pass if all of it could be read: processResult stops, populateSource
\* panics, or the check fails by its default.
DamageNeverImproves ==
  cmd = "report" /\ grade # Ungraded =>
    \A c \in Checks : grade[c] = "pass" => WholeGrades[archive][c] = "pass"

\* The report b is in no number better than a, and of the same documents.
NoBetter(b, a) ==
  /\ b.total = a.total /\ b.infrastructure = a.infrastructure /\ b.version = a.version
  /\ b.nodes = a.nodes
  /\ \A p \in Plugins : b.failed[p] >= a.failed[p] /\ (b.passed[p] => a.passed[p])
  /\ \A p \in Conformance : /\ b.priority[p] >= a.priority[p] /\ b.review[p] >= a.review[p]
                            /\ b.errors[p] >= a.errors[p]
  /\ \A part \in {"nodes", "pods"} : /\ b.health[part].total = a.health[part].total
                                     /\ b.health[part].healthy <= a.health[part].healthy
  /\ (a.mustGather.total = {}) = (b.mustGather.total = {})
  /\ (a.mustGather.slow = {}) = (b.mustGather.slow = {})
  /\ \A n \in a.mustGather.total, m \in b.mustGather.total : m >= n
  /\ \A st \in a.mustGather.slow, sb \in b.mustGather.slow :
       sb.max >= st.max /\ sb.sum * st.count >= st.sum * sb.count

Worse == [a \in Archives |-> {b \in Archives : NoBetter(Whole(b), Whole(a))}]

\* Whatever the limits of the checks and the gaps between them: a cluster that is
\* worse in some numbers and better in none gets no better grade of any check,
\* but of those that take no error at all for a missing counter.
WorseIsNotGradedBetter ==
  LET rank == [pass |-> 0, skip |-> 0, warn |-> 1, fail |-> 2]
  IN  grade # Ungraded /\ filtered /\ Documents \ Features \subseteq docs /\ results = Content[archive].loaded =>
        \A b \in Worse[archive], c \in Checks :
          \/ rank[WholeGrades[b][c]] >= rank[grade[c]]
          \/ c = "OPCT-010" /\ Content[archive].mustGather.total = {0}
          \/ c = "OPCT-011" /\ \A p \in Conformance : Content[archive].errors[p] = 0

\* Of the files that are replaced, a report that ended well shows none of another
\* archive, whatever earlier commands left in the directory when they failed or
\* were killed: its data and pages, what was copied from the archive, and the
\* charts that its page of metrics lists.  Only what this very command failed to
\* write, which it logs, may be older, and the investigator's page is then not
\* shown.  The files that are added to (appended), which the report links as well,
\* are not of these: they may begin with the text of another archive.
SavedReportIsCurrent ==
  cmd = "report" /\ saving /\ outcome = "done" =>
    /\ files["json"] = archive /\ files["pages"] = archive
    /\ \A f \in features \cup {"summary"} :
         files[f] = archive \/ (f \in unsaved /\ f # "camgi")
    /\ "metrics" \in features \ unsaved => \A c \in listed : files[c] = archive

\* A baseline is in the storage only if none of the four checks that reject one
\* fails on it, unless the results of a plugin could not be read.
GateIsSound ==
  \A u \in storage : Content[u.archive].loaded \cap Content[u.archive].unreadable = {} =>
    \A c \in {"OPCT-001", "OPCT-004", "OPCT-005", "OPCT-022"} :
      WholeGrades[u.archive][c] # "fail"

\* No summary but its own is uploaded with an archive, unless its publication
\* failed to write that, whatever earlier commands left in the directory and
\* whichever of the steps before the upload failed and were only logged.
PublishesOwnSummary ==
  \A u \in storage : u.written => u.summary \in {u.archive, Missing}

\* The publication is rejected for "OPCT-001 : kube conformance failing"
\* (publish.go:108): no failure of the kube plugin is left to review.
PublishedKubeConformancePasses ==
  \A u \in storage : KubeConformance(Whole(u.archive)) = "pass"
=============================================================================
