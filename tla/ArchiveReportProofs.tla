------------------------- MODULE ArchiveReportProofs -------------------------
(***************************************************************************)
(* For any archives and any number of commands: what a report that ended   *)
(* well shows, what a baseline in the storage has passed, and how the      *)
(* grades of the checks follow the numbers they are made of.               *)
(***************************************************************************)
EXTENDS ArchiveReport, FiniteSetTheorems, TLAPS

-----------------------------------------------------------------------------
(* Types.                                                                  *)

\* The archive a command reads, of those there are.
LEMMA Contents == /\ Content \in [Archives -> Archive] /\ EarlierArchives \subseteq Archives
                  /\ Missing \notin Archives /\ Damaged \notin Archives /\ MaxCommands \in Nat
BY ReportAssumption DEF ReportAssumption

LEMMA ReadDocuments == ASSUME NEW a \in Archive PROVE Read(a) \subseteq Documents
BY DEF Read, Archive

\* The check behind each of the names.
LEMMA Graded ==
  ASSUME NEW s
  PROVE  /\ GradeOf(s, "OPCT-001") = KubeConformance(s)
         /\ GradeOf(s, "OPCT-002") = Upgrade(s)
         /\ GradeOf(s, "OPCT-003") = Collector(s)
         /\ GradeOf(s, "OPCT-004") = OcpPassRatio(s)
         /\ GradeOf(s, "OPCT-005") = OcpPriority(s)
         /\ GradeOf(s, "OPCT-005B") = OcpReview(s)
         /\ GradeOf(s, "OPCT-010") = ClusterErrors(s)
         /\ GradeOf(s, "OPCT-010A") = SlowMean(s)
         /\ GradeOf(s, "OPCT-010B") = SlowMax(s)
         /\ GradeOf(s, "OPCT-011") = SuiteErrors(s)
         /\ GradeOf(s, "OPCT-020") = NodesHealthy(s)
         /\ GradeOf(s, "OPCT-021") = PodsHealthy(s)
         /\ GradeOf(s, "OPCT-022") = PluginsRan(s)
         /\ GradeOf(s, "OPCT-023A") = KubeSuite(s)
         /\ GradeOf(s, "OPCT-023B") = OcpSuite(s)
         /\ GradeOf(s, "OPCT-030") = Topology(s)
         /\ GradeOf(s, "Platform") = Platform(s)
         /\ GradeOf(s, "Available") = VersionAvailable(s)
         /\ GradeOf(s, "Failing") = VersionFailing(s)
         /\ GradeOf(s, "Progressing") = VersionProgressing(s)
         /\ GradeOf(s, "Accepted") = ReleaseAccepted(s)
         /\ GradeOf(s, "Topology") = InfraTopology(s)
         /\ GradeOf(s, "ControlPlaneTopology") = ControlPlane(s)
BY Zenon DEF GradeOf

\* Every check grades whatever it is given.
LEMMA EveryCheckGrades == ASSUME NEW s PROVE CheckResults(s) \in [Checks -> Grades]
<1>1. \A b : Verdict(b) \in Grades
  BY DEF Verdict, Grades
<1>2. OcpReview(s) \in Grades
  BY DEF OcpReview, Grades
<1>3. ClusterErrors(s) \in Grades
  BY DEF ClusterErrors, Verdict, Grades
<1>4. SuiteErrors(s) \in Grades
  BY DEF SuiteErrors, Grades
<1>5. Topology(s) \in Grades
  BY <1>1 DEF Topology, Grades
<1>6. /\ KubeConformance(s) \in Grades /\ Upgrade(s) \in Grades /\ Collector(s) \in Grades
      /\ OcpPassRatio(s) \in Grades /\ OcpPriority(s) \in Grades
      /\ SlowMean(s) \in Grades /\ SlowMax(s) \in Grades
      /\ NodesHealthy(s) \in Grades /\ PodsHealthy(s) \in Grades /\ PluginsRan(s) \in Grades
      /\ KubeSuite(s) \in Grades /\ OcpSuite(s) \in Grades
  BY DEF Verdict, Grades, KubeConformance, Upgrade, Collector, OcpPassRatio, OcpPriority,
         SlowMean, SlowMax, NodesHealthy, PodsHealthy, PluginsRan, KubeSuite, OcpSuite
<1>7. /\ Platform(s) \in Grades /\ InfraTopology(s) \in Grades /\ ControlPlane(s) \in Grades
      /\ VersionAvailable(s) \in Grades /\ VersionFailing(s) \in Grades
      /\ VersionProgressing(s) \in Grades /\ ReleaseAccepted(s) \in Grades
  BY <1>1, Zenon DEF Platform, InfraTopology, ControlPlane, VersionAvailable, VersionFailing,
                     VersionProgressing, ReleaseAccepted
<1>8. ASSUME NEW c \in Checks PROVE GradeOf(s, c) \in Grades
  BY <1>2, <1>3, <1>4, <1>5, <1>6, <1>7, Graded DEF Checks
<1> QED
  BY <1>8 DEF CheckResults

\* The steps of a command, and how it ends.
Steps == {"load", "filter", "populate", "lists", "json", "summary", "pages", "gate", "upload",
          "ended"}
Outcomes == {"none", "process", "panic", "save", "fatal", "rejected", "killed", "dryRun", "done"}

\* Every variable keeps its type.
THEOREM Typing == Spec => []TypeOK
<1>1. Init => TypeOK
  <2> SUFFICES ASSUME Init PROVE TypeOK
    OBVIOUS
  <2>1. grade \in [Checks -> Grades \cup {"none"}]
    BY DEF Init, Ungraded
  <2>2. files \in [Files -> Archives \cup {Missing, Damaged}]
    BY DEF Init
  <2>3. archive \in Archives /\ commands \in 0..MaxCommands
    BY Contents DEF Init
  <2> QED
    BY <2>1, <2>2, <2>3 DEF Init, TypeOK
<1>2. TypeOK /\ [Next]_vars => TypeOK'
  <2> SUFFICES ASSUME TypeOK, [Next]_vars PROVE TypeOK'
    OBVIOUS
  <2> USE DEF TypeOK
  <2>0. pc \in Steps /\ outcome \in Outcomes
    BY DEF Steps, Outcomes
  <2>1. CASE Start
    <3>1. archive' \in Archives
      BY <2>1, Contents DEF Start
    <3>2. commands' \in 0..MaxCommands
      BY <2>1, Contents DEF Start
    <3>3. grade' \in [Checks -> Grades \cup {"none"}]
      BY <2>1 DEF Start, Ungraded
    <3> QED
      BY <2>1, <3>1, <3>2, <3>3 DEF Start
  <2>2. CASE Load
    <3>1. Content[archive] \in Archive /\ Read(Content[archive]) \subseteq Documents
      BY Contents, ReadDocuments
    <3>2. pc' \in Steps /\ outcome' \in Outcomes
      BY <2>0, <2>2 DEF Load, GoTo, Failed, End, Steps, Outcomes
    <3>3. results' \subseteq Plugins /\ docs' \subseteq Documents
      BY <2>2, <3>1 DEF Load, Archive
    <3>4. files' \in [Files -> Archives \cup {Missing, Damaged}]
      BY <2>2 DEF Load, WriteSides, directory
    <3>5. listed' \subseteq Charts /\ features' \subseteq Features /\ unsaved' \subseteq Files
      BY <2>2 DEF Load, WriteSides, Rendered, directory, sides, Features, Files
    <3>6. appended' \subseteq Archives
      BY <2>2 DEF Load, AppendEvents, directory
    <3> QED
      BY <2>2, <3>2, <3>3, <3>4, <3>5, <3>6 DEF Load, command, Steps, Outcomes
  <2>3. CASE Filter
    <3>1. pc' \in Steps /\ outcome' \in Outcomes
      BY <2>0, <2>3 DEF Filter, GoTo, Failed, End, Steps, Outcomes
    <3>2. filtered' \in BOOLEAN
      BY <2>3 DEF Filter
    <3> QED
      BY <2>3, <3>1, <3>2 DEF Filter, command, directory, sides, Steps, Outcomes
  <2>4. CASE Populate
    <3>1. pc' \in Steps /\ outcome' \in Outcomes
      BY <2>0, <2>4 DEF Populate, GoTo, End, Steps, Outcomes
    <3>2. grade' \in [Checks -> Grades \cup {"none"}]
      BY <2>4, EveryCheckGrades DEF Populate
    <3> QED
      BY <2>4, <3>1, <3>2 DEF Populate, command, directory, sides, Steps, Outcomes
  <2>5. CASE SaveLists
    <3>1. pc' \in Steps /\ outcome' \in Outcomes
      BY <2>0, <2>5 DEF SaveLists, GoTo, Failed, End, Steps, Outcomes
    <3>2. appended' \subseteq Archives
      BY <2>5 DEF SaveLists
    <3> QED
      BY <2>5, <3>1, <3>2 DEF SaveLists, command, loading, sides, Steps, Outcomes
  <2>6. CASE SaveJSON \/ SaveSummary \/ SavePages
    <3>1. pc' \in Steps /\ outcome' \in Outcomes
      BY <2>0, <2>6 DEF SaveJSON, SaveSummary, SavePages, GoTo, Failed, End, Steps, Outcomes
    <3>2. files' \in [Files -> Archives \cup {Missing, Damaged}]
      BY <2>6 DEF SaveJSON, SaveSummary, SavePages, Written, NotWritten
    <3>3. unsaved' \subseteq Files
      BY <2>6 DEF SaveJSON, SaveSummary, SavePages, Files
    <3> QED
      BY <2>6, <3>1, <3>2, <3>3
         DEF SaveJSON, SaveSummary, SavePages, command, loading, sides, Steps, Outcomes
  <2>7. CASE Gate \/ Crash
    BY <2>7 DEF Gate, Crash, GoTo, End, command, loading, directory, sides
  <2>8. CASE Upload
    <3>1. pc' \in Steps /\ outcome' \in Outcomes
      BY <2>0, <2>8 DEF Upload, End, Steps, Outcomes
    <3>2. files["summary"] \in Archives \cup {Missing, Damaged}
      BY DEF Files
    <3>3. storage' \subseteq [archive : Archives, summary : Archives \cup {Missing, Damaged},
                              written : BOOLEAN]
      <4>1. storage' \subseteq storage \cup {Sent(Missing), Sent(files["summary"])}
        BY <2>8 DEF Upload
      <4>2. \A x \in Archives \cup {Missing, Damaged} :
              Sent(x) \in [archive : Archives, summary : Archives \cup {Missing, Damaged},
                           written : BOOLEAN]
        BY DEF Sent
      <4> QED
        BY <3>2, <4>1, <4>2
    <3> QED
      BY <2>8, <3>1, <3>3 DEF Upload, command, loading, directory, sides, Steps, Outcomes
  <2>9. CASE UNCHANGED vars
    BY <2>9 DEF vars
  <2> QED
    BY <2>1, <2>2, <2>3, <2>4, <2>5, <2>6, <2>7, <2>8, <2>9 DEF Next
<1> QED
  BY <1>1, <1>2, PTL DEF Spec
-----------------------------------------------------------------------------
(* What a command has written, step by step.                               *)

\* Only a publication passes the gate, and it always has a directory.
Phases == /\ pc # "ended" => outcome = "none"
          /\ cmd = "publish" => saving
          /\ pc \in {"gate", "upload"} => cmd = "publish"

Done == pc = "ended" /\ outcome = "done"

\* The files beside a report are its own from the moment the archive is read.
SidesAreCurrent ==
  /\ \A f \in features : files[f] = archive \/ (f \in unsaved /\ f # "camgi")
  /\ "metrics" \in features \ unsaved => \A c \in listed : files[c] = archive

\* The report, the summary and the pages, in the order they are written.
ReportIsCurrent ==
  cmd = "report" /\ saving =>
    /\ pc \in {"filter", "populate", "lists", "json", "summary", "pages"} \/ Done
         => SidesAreCurrent
    /\ pc \in {"summary", "pages"} \/ Done => files["json"] = archive
    /\ pc = "pages" \/ Done => files["summary"] = archive \/ "summary" \in unsaved
    /\ Done => files["pages"] = archive

\* From the moment a publication could have written its summary, the directory
\* has that one, and what was uploaded as one was.
SummaryIsOwn ==
  /\ cmd = "publish" /\ "summary" \notin unsaved /\ pc \in {"pages", "gate", "upload"}
       => files["summary"] = archive
  /\ \A u \in storage : u.written => u.summary \in {u.archive, Missing}

Saving == Phases /\ ReportIsCurrent /\ SummaryIsOwn

\* The names of the files that are written one by one.
LEMMA DistinctFiles ==
  /\ {"json", "summary", "pages"} \subseteq Files
  /\ {"json", "summary", "pages"} \cap (Features \cup Charts) = {}
  /\ Features \cup Charts \subseteq Files
BY DEF Files, Features, Charts

\* Reading the archive writes the files beside the report.
LEMMA SidesWritten ==
  ASSUME TypeOK, NEW a, NEW ds, WriteSides(a, ds), archive' = archive
  PROVE  SidesAreCurrent'
<1> DEFINE made == (ds \cap {"camgi", "installConfig"})
                     \cup (IF "metrics" \in ds THEN MetricsFiles(a) ELSE {})
<1>1. PICK ws \in SUBSET made : \E ts \in SUBSET (made \ ws) :
        /\ files' = [f \in Files |-> IF f \in ws THEN archive
                                     ELSE IF f \in ts THEN Damaged ELSE files[f]]
        /\ listed' = Rendered(ws)
        /\ features' = (ds \cap Features) \ (IF "camgi" \in ws THEN {} ELSE {"camgi"})
        /\ unsaved' = (ds \cap Features) \ ws
  BY DEF WriteSides
<1> HIDE DEF made
<1>2. \A f \in ws \cap Files : files'[f] = archive'
  BY <1>1
<1>3. \A f \in features' : f \in Features /\ (f \in ws \/ (f \in unsaved' /\ f # "camgi"))
  BY <1>1
<1>4. "metrics" \in features' \ unsaved' => listed' \subseteq ws \cap Charts
  BY <1>1, <1>3 DEF Rendered
<1> QED
  BY <1>1, <1>2, <1>3, <1>4, DistinctFiles DEF SidesAreCurrent

LEMMA SavingStep == TypeOK /\ Saving /\ [Next]_vars => Saving'
<1> SUFFICES ASSUME TypeOK, Saving, [Next]_vars PROVE Saving'
  OBVIOUS
<1> USE DEF Saving, Phases, Done
<1>1. CASE Start
  <2>1. pc' = "load" /\ outcome' = "none" /\ (cmd' = "publish" => saving')
    BY <1>1 DEF Start
  <2> QED
    BY <1>1, <2>1 DEF Start, ReportIsCurrent, SummaryIsOwn
<1>2. CASE Load
  <2>1. /\ pc = "load" /\ archive' = archive /\ cmd' = cmd /\ saving' = saving
        /\ storage' = storage
    BY <1>2 DEF Load, command
  <2>2. \/ pc' \in {"filter", "populate"} /\ outcome' = outcome
        \/ pc' = "ended" /\ outcome' = "process"
    BY <1>2 DEF Load, GoTo, Failed, End
  <2>3. cmd = "report" /\ pc' # "ended" /\ saving => SidesAreCurrent'
    BY <1>2, <2>1, SidesWritten DEF Load, Failed, End
  <2> QED
    BY <2>1, <2>2, <2>3 DEF ReportIsCurrent, SummaryIsOwn
<1>3. CASE Filter \/ Populate \/ SaveLists
  <2>1. UNCHANGED <<cmd, saving, archive, files, listed, features, unsaved, storage>>
    BY <1>3 DEF Filter, Populate, SaveLists, command, directory, sides
  <2>2. pc \in {"filter", "populate", "lists"}
    BY <1>3 DEF Filter, Populate, SaveLists
  <2>3. \/ pc' \in {"populate", "lists", "json"} /\ outcome' = outcome
        \/ pc' = "ended" /\ outcome' # "done"
        \/ pc' = "ended" /\ ~saving
    BY <1>3 DEF Filter, Populate, SaveLists, GoTo, Failed, End
  <2>4. SidesAreCurrent' = SidesAreCurrent
    BY <2>1 DEF SidesAreCurrent
  <2> QED
    BY <2>1, <2>2, <2>3, <2>4 DEF ReportIsCurrent, SummaryIsOwn
<1>4. CASE SaveJSON \/ SaveSummary \/ SavePages
  <2>1. UNCHANGED <<cmd, saving, archive, storage, listed, features>> /\ unsaved \subseteq unsaved'
    BY <1>4 DEF SaveJSON, SaveSummary, SavePages, command, sides
  <2>2. \A f \in Features \cup Charts : files'[f] = files[f]
    BY <1>4, DistinctFiles DEF SaveJSON, SaveSummary, SavePages, Written, NotWritten, TypeOK
  <2>3. SidesAreCurrent => SidesAreCurrent'
    <3>1. features \subseteq Features /\ listed \subseteq Charts
      BY DEF TypeOK
    <3> QED
      BY <2>1, <2>2, <3>1 DEF SidesAreCurrent
  <2>4. CASE SaveJSON
    <3>1. \/ pc' = "summary" /\ outcome' = outcome /\ files'["json"] = archive
          \/ pc' = "ended" /\ outcome' = "save" /\ cmd = "report"
          \/ pc' = "gate" /\ outcome' = outcome /\ "summary" \in unsaved' /\ cmd # "report"
      BY <2>4, DistinctFiles DEF SaveJSON, Written, GoTo, Failed, End, TypeOK
    <3> QED
      BY <2>1, <2>3, <2>4, <3>1 DEF ReportIsCurrent, SummaryIsOwn, SaveJSON, TypeOK
  <2>5. CASE SaveSummary
    <3>1. /\ pc = "summary" /\ pc' = "pages" /\ outcome' = outcome
          /\ files'["json"] = files["json"]
          /\ files'["summary"] = archive \/ "summary" \in unsaved'
      BY <2>5, DistinctFiles DEF SaveSummary, Written, NotWritten, GoTo, TypeOK
    <3> QED
      BY <2>1, <2>3, <3>1 DEF ReportIsCurrent, SummaryIsOwn
  <2>6. CASE SavePages
    <3>1. /\ pc = "pages" /\ unsaved' = unsaved
          /\ \/ files'["pages"] = archive /\ pc' = "ended" /\ cmd = "report"
             \/ pc' = "gate" /\ outcome' = outcome /\ cmd # "report"
             \/ pc' = "ended" /\ outcome' = "save" /\ cmd = "report"
      BY <2>6, DistinctFiles DEF SavePages, Written, NotWritten, GoTo, Failed, End, TypeOK
    <3>2. files'["json"] = files["json"] /\ files'["summary"] = files["summary"]
      BY <2>6, DistinctFiles DEF SavePages, Written, NotWritten, TypeOK
    <3> QED
      BY <2>1, <2>3, <3>1, <3>2 DEF ReportIsCurrent, SummaryIsOwn, TypeOK
  <2> QED
    BY <1>4, <2>4, <2>5, <2>6
<1>5. CASE Gate \/ Upload \/ Crash
  <2>1. UNCHANGED <<cmd, saving, archive, files, listed, features, unsaved>>
    BY <1>5 DEF Gate, Upload, Crash, command, directory, sides
  <2>2. \/ pc = "gate" /\ pc' = "upload" /\ outcome' = outcome
        \/ pc' = "ended" /\ outcome' # "done"
        \/ pc = "upload" /\ pc' = "ended"
    BY <1>5 DEF Gate, Upload, Crash, GoTo, End
  <2>3. \A u \in storage' : u.written => u.summary \in {u.archive, Missing}
    <3>1. CASE Gate \/ Crash
      BY <1>5, <3>1 DEF Gate, Crash, SummaryIsOwn
    <3>2. CASE Upload
      <4>1. pc = "upload" /\ storage' \subseteq storage \cup {Sent(Missing), Sent(files["summary"])}
        BY <3>2 DEF Upload
      <4>2. "summary" \notin unsaved => files["summary"] = archive
        BY <4>1 DEF SummaryIsOwn
      <4>3. /\ Sent(Missing).summary = Missing
            /\ Sent(files["summary"]).archive = archive
            /\ Sent(files["summary"]).summary = files["summary"]
            /\ Sent(files["summary"]).written => "summary" \notin unsaved
        BY DEF Sent
      <4> QED
        BY <4>1, <4>2, <4>3 DEF SummaryIsOwn
    <3> QED
      BY <1>5, <3>1, <3>2
  <2> QED
    BY <2>1, <2>2, <2>3 DEF ReportIsCurrent, SummaryIsOwn
<1>6. CASE UNCHANGED vars
  BY <1>6 DEF vars, ReportIsCurrent, SummaryIsOwn, SidesAreCurrent
<1> QED
  BY <1>1, <1>2, <1>3, <1>4, <1>5, <1>6 DEF Next

LEMMA SavesInOrder == Spec => []Saving
<1>1. Init => Saving
  BY DEF Init, Saving, Phases, Done, ReportIsCurrent, SummaryIsOwn
<1> QED
  BY <1>1, SavingStep, Typing, PTL DEF Spec

\* Of the files that are replaced, a report that ended well shows those of its
\* archive only, but for those it noted it could not write.
THEOREM SavedReports == Spec => []SavedReportIsCurrent
<1>1. Saving => SavedReportIsCurrent
  BY DEF Saving, Phases, Done, ReportIsCurrent, SidesAreCurrent, SavedReportIsCurrent
<1> QED
  BY <1>1, SavesInOrder, PTL

\* A summary of another archive is uploaded by no publication that did not fail to
\* write its own.
THEOREM PublishedSummaries == Spec => []PublishesOwnSummary
<1>1. Saving => PublishesOwnSummary
  BY DEF Saving, SummaryIsOwn, PublishesOwnSummary
<1> QED
  BY <1>1, SavesInOrder, PTL
-----------------------------------------------------------------------------
(* What the checks are made of.                                            *)

\* The checks that need what is read of the must-gather or the nodes.
DocumentChecks == {"OPCT-010", "OPCT-010A", "OPCT-010B", "OPCT-030"}

\* The others depend on the results of the plugins, the health, the
\* infrastructure and the version only.
LEMMA OtherChecks ==
  ASSUME NEW s, NEW w, s.total = w.total, s.failed = w.failed, s.passed = w.passed,
         s.priority = w.priority, s.review = w.review, s.errors = w.errors,
         s.health = w.health, s.infrastructure = w.infrastructure, s.version = w.version,
         NEW c \in Checks \ DocumentChecks
  PROVE  GradeOf(s, c) = GradeOf(w, c)
<1>1. /\ KubeConformance(s) = KubeConformance(w) /\ Upgrade(s) = Upgrade(w)
      /\ Collector(s) = Collector(w) /\ OcpPassRatio(s) = OcpPassRatio(w)
      /\ OcpPriority(s) = OcpPriority(w) /\ OcpReview(s) = OcpReview(w)
      /\ SuiteErrors(s) = SuiteErrors(w) /\ PluginsRan(s) = PluginsRan(w)
      /\ KubeSuite(s) = KubeSuite(w) /\ OcpSuite(s) = OcpSuite(w)
  BY DEF KubeConformance, Upgrade, Collector, OcpPassRatio, OcpPriority, OcpReview, SuiteErrors,
         PluginsRan, KubeSuite, OcpSuite, NothingRan
<1>2. /\ NodesHealthy(s) = NodesHealthy(w) /\ PodsHealthy(s) = PodsHealthy(w)
      /\ Platform(s) = Platform(w) /\ InfraTopology(s) = InfraTopology(w)
      /\ ControlPlane(s) = ControlPlane(w) /\ VersionAvailable(s) = VersionAvailable(w)
      /\ VersionFailing(s) = VersionFailing(w) /\ VersionProgressing(s) = VersionProgressing(w)
      /\ ReleaseAccepted(s) = ReleaseAccepted(w)
  BY DEF NodesHealthy, PodsHealthy, Platform, InfraTopology, ControlPlane, VersionAvailable,
         VersionFailing, VersionProgressing, ReleaseAccepted
<1> QED
  BY <1>1, <1>2, Graded DEF Checks, DocumentChecks

\* Without its document a check of a document does not pass; with it, it is the same.
LEMMA DocumentsDecide ==
  ASSUME NEW s, NEW w, s.infrastructure = w.infrastructure,
         s.nodes \in {{}, w.nodes}, s.mustGather \in {[total |-> {}, slow |-> {}], w.mustGather},
         NEW c \in DocumentChecks, GradeOf(s, c) = "pass"
  PROVE  GradeOf(w, c) = "pass"
<1>1. CASE c = "OPCT-030"
  <2>1. Topology(s) = "pass"
    BY <1>1, Graded
  <2>2. s.nodes # {}
    <3>1. ASSUME s.nodes = {} PROVE FALSE
      <4>1. Cardinality(s.nodes) = 0
        BY <3>1, FS_EmptySet
      <4> QED
        BY <2>1, <4>1 DEF Topology, Verdict
    <3> QED
      BY <3>1
  <2>3. Topology(w) = "pass"
    BY <2>1, <2>2 DEF Topology, Zones
  <2> QED
    BY <1>1, <2>3, Graded
<1>2. CASE s.mustGather = w.mustGather /\ c # "OPCT-030"
  <2>1. /\ ClusterErrors(s) = ClusterErrors(w) /\ SlowMean(s) = SlowMean(w)
        /\ SlowMax(s) = SlowMax(w)
    BY <1>2 DEF ClusterErrors, SlowMean, SlowMax
  <2> QED
    BY <1>2, <2>1, Graded DEF DocumentChecks
<1>3. CASE s.mustGather = [total |-> {}, slow |-> {}] /\ c # "OPCT-030"
  <2>1. s.mustGather.total = {} /\ s.mustGather.slow = {}
    BY <1>3
  <2>2. ClusterErrors(s) = "fail" /\ SlowMean(s) = "fail" /\ SlowMax(s) = "fail"
    BY <2>1 DEF ClusterErrors, SlowMean, SlowMax, Verdict
  <2> QED
    BY <1>3, <2>2, Graded DEF DocumentChecks
<1> QED
  BY <1>1, <1>2, <1>3
-----------------------------------------------------------------------------
(* What the grades are made from.                                          *)

\* Whether all results in the archive of the command can be read.
AllReadable == Content[archive].loaded \cap Content[archive].unreadable = {}

\* Only a publication grades failures that did not go through the filters, and
\* only when the results of a plugin could not be read.
Considered == filtered \/ (cmd = "publish" /\ ~AllReadable)

\* The grades are those of the report populated from what was loaded.
GradedFrom == /\ Conformance \subseteq results
              /\ grade = CheckResults(Populated(Content[archive], results, docs, filtered))
              /\ Considered

\* What is loaded before the checks run.
Loaded == /\ results \in {{}, Content[archive].loaded \ Content[archive].unreadable}
          /\ pc = "load" => results = {}
          /\ pc = "filter" => AllReadable
          /\ pc = "populate" => results = {} \/ Considered

\* The filters run only when all results could be read.
FilteredAll == filtered => AllReadable

Grading == /\ Loaded /\ FilteredAll
           /\ pc \in {"load", "filter", "populate"} => grade = Ungraded
           /\ grade # Ungraded => GradedFrom
           /\ pc \in {"lists", "json", "summary", "pages", "gate", "upload"} => grade # Ungraded
           /\ pc = "upload" => ~Rejected(grade)

LEMMA GradingStep == TypeOK /\ Phases /\ Grading /\ [Next]_vars => Grading'
<1> SUFFICES ASSUME TypeOK, Phases, Grading, [Next]_vars PROVE Grading'
  OBVIOUS
<1>0. FilteredAll'
  <2>1. CASE Start
    BY <2>1 DEF Start, FilteredAll
  <2>2. CASE Filter
    BY <2>2 DEF Filter, Grading, Loaded, FilteredAll, AllReadable, command
  <2>3. CASE UNCHANGED <<archive, filtered>>
    BY <2>3, Zenon DEF Grading, FilteredAll, AllReadable
  <2>4. Next => Start \/ Filter \/ UNCHANGED <<archive, filtered>>
    BY DEF Next, Load, Populate, SaveLists, SaveJSON, SaveSummary, SavePages, Gate, Upload, Crash,
           command, loading
  <2> QED
    BY <2>1, <2>2, <2>3, <2>4 DEF vars
<1> USE <1>0 DEF Grading, Loaded
<1>1. CASE Start
  BY <1>1 DEF Start
<1>2. CASE Load
  <2>1. pc = "load" /\ grade = Ungraded /\ grade' = Ungraded /\ archive' = archive /\ cmd' = cmd
    BY <1>2 DEF Load, command
  <2>2. /\ results' \in {{}, Content[archive].loaded \ Content[archive].unreadable}
        /\ pc' \in {"filter", "populate", "ended"}
        /\ pc' = "filter" => AllReadable
        /\ pc' = "populate" /\ results' # {} => cmd = "publish" /\ ~AllReadable
    BY <1>2 DEF Load, GoTo, Failed, End, AllReadable, TypeOK
  <2> QED
    BY <2>1, <2>2 DEF AllReadable, Considered
<1>3. CASE Filter
  <2>1. UNCHANGED <<cmd, archive, results, grade>> /\ pc = "filter"
    BY <1>3 DEF Filter, command
  <2>2. pc' \in {"populate", "ended"} /\ (pc' = "populate" => filtered' = TRUE)
    BY <1>3 DEF Filter, GoTo, Failed, End
  <2> QED
    BY <2>1, <2>2 DEF AllReadable, Considered
<1>4. CASE Populate
  <2>1. UNCHANGED <<cmd, archive, results, docs, filtered>> /\ pc = "populate"
    BY <1>4 DEF Populate, command
  <2>2. CASE Conformance \subseteq results /\ Required \subseteq docs
    <3>1. grade' = CheckResults(Populated(Content[archive], results, docs, filtered))
      BY <1>4, <2>2 DEF Populate
    <3>2. grade' # Ungraded
      BY <3>1, EveryCheckGrades DEF Ungraded, Checks, Grades
    <3>3. Conformance \subseteq results /\ Considered
      BY <2>1, <2>2 DEF Conformance
    <3>4. pc' \in {"lists", "ended"}
      BY <1>4, <2>2 DEF Populate, GoTo, End
    <3> QED
      BY <2>1, <3>1, <3>2, <3>3, <3>4 DEF GradedFrom, Considered, AllReadable
  <2>3. CASE ~(Conformance \subseteq results /\ Required \subseteq docs)
    <3>1. pc' = "ended" /\ grade' = grade /\ grade = Ungraded
      BY <1>4, <2>3 DEF Populate, End
    <3> QED
      BY <2>1, <3>1
  <2> QED
    BY <2>2, <2>3
<1>5. CASE SaveLists \/ SaveJSON \/ SaveSummary \/ SavePages \/ Gate \/ Upload \/ Crash
  <2>1. UNCHANGED <<cmd, archive, results, docs, filtered, grade>>
    BY <1>5 DEF SaveLists, SaveJSON, SaveSummary, SavePages, Gate, Upload, Crash, command, loading
  <2>2. \/ /\ pc \in {"lists", "json", "summary", "pages"}
           /\ pc' \in {"json", "summary", "pages", "gate", "ended"}
        \/ pc = "gate" /\ ~Rejected(grade) /\ pc' = "upload"
        \/ pc' = "ended"
    BY <1>5 DEF SaveLists, SaveJSON, SaveSummary, SavePages, Gate, Upload, Crash,
                GoTo, Failed, End
  <2>3. Considered' = Considered /\ (GradedFrom => GradedFrom') /\ Rejected(grade)' = Rejected(grade)
    BY <2>1 DEF Considered, AllReadable, GradedFrom, Rejected
  <2> QED
    BY <2>1, <2>2, <2>3
<1>6. CASE UNCHANGED vars
  BY <1>6 DEF vars, Considered, AllReadable, GradedFrom, Rejected
<1> QED
  BY <1>1, <1>2, <1>3, <1>4, <1>5, <1>6 DEF Next

LEMMA GradesFollow == Spec => []Grading
<1>1. Init => Grading
  BY DEF Init, Grading, Loaded, FilteredAll
<1>2. Saving => Phases
  BY DEF Saving
<1> QED
  BY <1>1, <1>2, GradingStep, SavesInOrder, Typing, PTL DEF Spec

\* The checks that are not of a document are those of the whole archive when all
\* results can be read and went through the filters.
LEMMA GradedWhole ==
  ASSUME TypeOK, Grading, grade # Ungraded, AllReadable
  PROVE  /\ results = Content[archive].loaded /\ filtered
         /\ \A c \in Checks \ DocumentChecks : grade[c] = WholeGrades[archive][c]
         /\ \A c \in DocumentChecks : grade[c] = "pass" => WholeGrades[archive][c] = "pass"
<1> DEFINE s == Populated(Content[archive], results, docs, filtered)
           w == Whole(archive)
<1>1. results = Content[archive].loaded /\ filtered
  <2>1. GradedFrom
    BY DEF Grading
  <2>2. results # {}
    BY <2>1 DEF GradedFrom, Conformance
  <2> QED
    BY <2>1, <2>2 DEF GradedFrom, Considered, Grading, Loaded, AllReadable, TypeOK
<1>2. /\ s.total = w.total /\ s.failed = w.failed /\ s.passed = w.passed
      /\ s.priority = w.priority /\ s.review = w.review /\ s.errors = w.errors
  BY <1>1 DEF Populated, Whole
<1>3. s.health = w.health /\ s.infrastructure = w.infrastructure /\ s.version = w.version
  BY DEF Populated, Whole
<1>4. s.nodes \in {{}, w.nodes} /\ s.mustGather \in {[total |-> {}, slow |-> {}], w.mustGather}
  BY DEF Populated, Whole, Documents
<1>5. /\ DocumentChecks \subseteq Checks
      /\ \A c \in Checks : grade[c] = GradeOf(s, c) /\ WholeGrades[archive][c] = GradeOf(w, c)
  <2>1. grade = CheckResults(s) /\ archive \in Archives
    BY DEF Grading, GradedFrom, TypeOK
  <2>2. WholeGrades[archive] = CheckResults(w)
    BY <2>1 DEF WholeGrades
  <2> QED
    BY <2>1, <2>2 DEF CheckResults, DocumentChecks, Checks
<1> HIDE DEF s, w
<1> QED
  BY <1>1, <1>2, <1>3, <1>4, <1>5, OtherChecks, DocumentsDecide

\* What is damaged in an archive never makes a report better.
THEOREM DamagedReports == Spec => []DamageNeverImproves
<1>1. TypeOK /\ Grading => DamageNeverImproves
  <2> SUFFICES ASSUME TypeOK, Grading, cmd = "report", grade # Ungraded,
                      NEW c \in Checks, grade[c] = "pass"
               PROVE  WholeGrades[archive][c] = "pass"
    BY DEF DamageNeverImproves
  <2>1. AllReadable
    <3>1. cmd # "publish" /\ Considered
      BY DEF Grading, GradedFrom
    <3>2. filtered
      BY <3>1, Zenon DEF Considered
    <3> QED
      BY <3>2, Zenon DEF Grading, FilteredAll
  <2> QED
    BY <2>1, GradedWhole
<1> QED
  BY <1>1, Typing, GradesFollow, PTL
\* What the storage holds has passed the gate with the grades of the whole
\* archive, if all its results could be read.
LEMMA GateStep == TypeOK /\ Grading /\ GateIsSound /\ [Next]_vars => GateIsSound'
<1> SUFFICES ASSUME TypeOK, Grading, GateIsSound, [Next]_vars PROVE GateIsSound'
  OBVIOUS
<1>1. CASE Upload
  <2>1. /\ pc = "upload" /\ archive \in Archives
        /\ \A u \in storage' \ storage : u.archive = archive
    BY <1>1 DEF Upload, Sent, TypeOK
  <2>2. ASSUME AllReadable, NEW c \in {"OPCT-001", "OPCT-004", "OPCT-005", "OPCT-022"}
        PROVE  WholeGrades[archive][c] # "fail"
    <3>1. grade # Ungraded /\ grade[c] # "fail"
      BY <2>1, <2>2 DEF Grading, Rejected
    <3> QED
      BY <2>2, <3>1, GradedWhole DEF Checks, DocumentChecks
  <2> QED
    BY <2>1, <2>2 DEF GateIsSound, AllReadable
<1>2. CASE storage' = storage
  BY <1>2 DEF GateIsSound
<1>3. Next => Upload \/ storage' = storage
  BY DEF Next, Start, Load, Filter, Populate, SaveLists, SaveJSON, SaveSummary, SavePages, Gate,
         Crash
<1> QED
  BY <1>1, <1>2, <1>3 DEF vars

\* No baseline in the storage fails one of the four checks of the gate.
THEOREM PublishedBaselinesPass == Spec => []GateIsSound
<1>1. Init => GateIsSound
  BY DEF Init, GateIsSound
<1> QED
  BY <1>1, GateStep, Typing, GradesFollow, PTL DEF Spec
-----------------------------------------------------------------------------
(* The grades follow the numbers.                                          *)

\* The numbers of a populated report.
Numbers(s) ==
  /\ s.total \in [Plugins -> Nat] /\ s.failed \in [Plugins -> Nat]
  /\ \A p \in Plugins : s.failed[p] <= s.total[p]
  /\ s.priority \in [Conformance -> Nat] /\ s.review \in [Conformance -> Nat]
  /\ s.errors \in [Conformance -> Nat]
  /\ s.health \in [nodes : Part, pods : Part]
  /\ s.mustGather \in [total : SUBSET Nat, slow : SUBSET Slow]

LEMMA WholeNumbers == ASSUME NEW a \in Archives PROVE Numbers(Whole(a))
<1> DEFINE s == Whole(a)
<1>1. Content[a] \in Archive /\ \A p \in Plugins : Content[a].failed[p] <= Content[a].total[p]
  BY ReportAssumption DEF ReportAssumption
<1>2. /\ Content[a].total \in [Plugins -> Nat] /\ Content[a].failed \in [Plugins -> Nat]
      /\ Content[a].priority \in [Conformance -> Nat] /\ Content[a].review \in [Conformance -> Nat]
      /\ Content[a].errors \in [Conformance -> Nat]
      /\ Content[a].health \in [nodes : Part, pods : Part]
      /\ Content[a].mustGather \in [total : SUBSET Nat, slow : SUBSET Slow]
  BY <1>1 DEF Archive
<1> HIDE DEF Archive
<1>3. s.total \in [Plugins -> Nat] /\ s.failed \in [Plugins -> Nat]
  BY <1>2 DEF Whole, Populated
<1>4. \A p \in Plugins : s.failed[p] <= s.total[p]
  BY <1>1, <1>2 DEF Whole, Populated
<1>5. /\ s.priority \in [Conformance -> Nat] /\ s.review \in [Conformance -> Nat]
      /\ s.errors \in [Conformance -> Nat]
  BY <1>2 DEF Whole, Populated
<1>6. s.health = Content[a].health /\ s.mustGather = Content[a].mustGather
  BY DEF Whole, Populated, Documents
<1> QED
  BY <1>2, <1>3, <1>4, <1>5, <1>6 DEF Numbers

\* The order of the grades.
Rank == [pass |-> 0, skip |-> 0, warn |-> 1, fail |-> 2]
NotBelow(x, y) == Rank[x] >= Rank[y]

LEMMA Ordered ==
  /\ \A x \in Grades : NotBelow(x, x) /\ NotBelow(x, "pass") /\ NotBelow("fail", x)
  /\ NotBelow("warn", "warn") /\ NotBelow("fail", "warn")
BY DEF Grades, NotBelow, Rank

\* What is checked of the worse report holds of the better one.
LEMMA Verdicts ==
  ASSUME NEW x \in BOOLEAN, NEW y \in BOOLEAN, x => y PROVE NotBelow(Verdict(x), Verdict(y))
BY Ordered DEF Verdict, Grades

LEMMA Division ==
  ASSUME NEW t \in Nat \ {0}, NEW x \in Nat, NEW y \in Nat, x <= y
  PROVE  x \div t <= y \div t
OBVIOUS

\* A larger mean that is below a limit.
LEMMA Means ==
  ASSUME NEW s1 \in Nat, NEW c1 \in Nat \ {0}, NEW s2 \in Nat, NEW c2 \in Nat \ {0},
         s2 * c1 >= s1 * c2, s2 < 500 * c2
  PROVE  s1 < 500 * c1
OBVIOUS
LEMMA PluginNames == Conformance \cup {"collector", "upgrade"} \subseteq Plugins
BY DEF Plugins

\* A plugin that ran for the worse report ran for the better one.
LEMMA RanBefore ==
  ASSUME NEW a, NEW b, Numbers(a), Numbers(b), NoBetter(b, a),
         NEW p \in Plugins, ~NothingRan(b, p)
  PROVE  ~NothingRan(a, p)
<1>1. a.total[p] \in Nat /\ a.failed[p] \in Nat /\ b.failed[p] \in Nat
      /\ b.failed[p] <= b.total[p] /\ b.total[p] = a.total[p] /\ b.failed[p] >= a.failed[p]
  BY DEF Numbers, NoBetter
<1> QED
  BY <1>1 DEF NothingRan

\* The checks of the plugins.
LEMMA PluginChecks ==
  ASSUME NEW a, NEW b, Numbers(a), Numbers(b), NoBetter(b, a)
  PROVE  /\ NotBelow(KubeConformance(b), KubeConformance(a))
         /\ NotBelow(OcpPassRatio(b), OcpPassRatio(a))
         /\ NotBelow(OcpPriority(b), OcpPriority(a)) /\ NotBelow(OcpReview(b), OcpReview(a))
         /\ NotBelow(Collector(b), Collector(a)) /\ NotBelow(Upgrade(b), Upgrade(a))
         /\ NotBelow(PluginsRan(b), PluginsRan(a))
         /\ NotBelow(KubeSuite(b), KubeSuite(a)) /\ NotBelow(OcpSuite(b), OcpSuite(a))
<1>1. /\ a.review["kube"] \in Nat /\ b.review["kube"] \in Nat
      /\ a.review["ocp"] \in Nat /\ b.review["ocp"] \in Nat
      /\ a.priority["ocp"] \in Nat /\ b.priority["ocp"] \in Nat
      /\ a.failed["ocp"] \in Nat /\ b.failed["ocp"] \in Nat /\ a.total["ocp"] \in Nat
  BY PluginNames DEF Numbers, Conformance
<1>2. /\ b.review["kube"] >= a.review["kube"] /\ b.review["ocp"] >= a.review["ocp"]
      /\ b.priority["ocp"] >= a.priority["ocp"] /\ b.failed["ocp"] >= a.failed["ocp"]
      /\ b.total = a.total
      /\ b.passed["collector"] => a.passed["collector"]
      /\ b.passed["upgrade"] => a.passed["upgrade"]
  BY PluginNames DEF NoBetter, Conformance
<1>3. \A p \in Conformance \cup {"collector"} : NothingRan(a, p) => NothingRan(b, p)
  BY RanBefore, PluginNames
<1>4. NotBelow(KubeConformance(b), KubeConformance(a))
  <2>1. /\ KubeConformance(b) = Verdict(~NothingRan(b, "kube") /\ b.review["kube"] = 0)
        /\ KubeConformance(a) = Verdict(~NothingRan(a, "kube") /\ a.review["kube"] = 0)
    BY DEF KubeConformance
  <2>2. b.review["kube"] = 0 => a.review["kube"] = 0
    BY <1>1, <1>2
  <2> QED
    BY <1>3, <2>1, <2>2, Verdicts DEF Conformance
<1>5. /\ Above(a.failed["ocp"], 15, a.total["ocp"]) => Above(b.failed["ocp"], 15, b.total["ocp"])
      /\ Above(a.priority["ocp"], 5, a.total["ocp"]) => Above(b.priority["ocp"], 5, b.total["ocp"])
      /\ Above(a.review["ocp"], 5, a.total["ocp"]) => Above(b.review["ocp"], 5, b.total["ocp"])
  BY <1>1, <1>2 DEF Above
<1>6. NotBelow(OcpPassRatio(b), OcpPassRatio(a)) /\ NotBelow(OcpPriority(b), OcpPriority(a))
  BY <1>3, <1>5, Verdicts DEF OcpPassRatio, OcpPriority, Conformance
<1>7. NotBelow(OcpReview(b), OcpReview(a))
  <2>1. b.review["ocp"] > 0 \/ ~(a.review["ocp"] > 0)
    BY <1>1, <1>2
  <2> QED
    BY <1>3, <1>5, <2>1, Ordered DEF OcpReview, Conformance, Grades
<1>8. NotBelow(Collector(b), Collector(a)) /\ NotBelow(Upgrade(b), Upgrade(a))
  BY <1>2, <1>3, Ordered, Zenon DEF Collector, Upgrade, Verdict, Grades
<1>9. NotBelow(PluginsRan(b), PluginsRan(a))
  BY <1>3, Verdicts DEF PluginsRan
<1>10. NotBelow(KubeSuite(b), KubeSuite(a)) /\ NotBelow(OcpSuite(b), OcpSuite(a))
  <2>1. KubeSuite(b) = KubeSuite(a) /\ OcpSuite(b) = OcpSuite(a)
    BY <1>2 DEF KubeSuite, OcpSuite
  <2>2. KubeSuite(a) \in Grades /\ OcpSuite(a) \in Grades
    BY DEF KubeSuite, OcpSuite, Verdict, Grades
  <2> QED
    BY <2>1, <2>2, Ordered
<1> QED
  BY <1>4, <1>6, <1>7, <1>8, <1>9, <1>10

\* The checks of the health, of the nodes and of the version.
LEMMA ClusterChecks ==
  ASSUME NEW a, NEW b, Numbers(a), Numbers(b), NoBetter(b, a)
  PROVE  /\ NotBelow(NodesHealthy(b), NodesHealthy(a)) /\ NotBelow(PodsHealthy(b), PodsHealthy(a))
         /\ Topology(b) = Topology(a) /\ Platform(b) = Platform(a)
         /\ InfraTopology(b) = InfraTopology(a) /\ ControlPlane(b) = ControlPlane(a)
         /\ VersionAvailable(b) = VersionAvailable(a) /\ VersionFailing(b) = VersionFailing(a)
         /\ VersionProgressing(b) = VersionProgressing(a)
         /\ ReleaseAccepted(b) = ReleaseAccepted(a)
<1>1. /\ b.infrastructure = a.infrastructure /\ b.version = a.version /\ b.nodes = a.nodes
  BY DEF NoBetter
<1>2. ASSUME NEW x \in Part, NEW y \in Part, y.total = x.total, y.healthy <= x.healthy
      PROVE  Percent(y) <= Percent(x) /\ Percent(x) <= 100 /\ Percent(y) \in Nat /\ Percent(x) \in Nat
  <2>1. x.total \in Nat \ {0} /\ x.healthy \in Nat /\ y.healthy \in Nat /\ x.healthy <= x.total
    BY DEF Part
  <2>2. (100 * x.total) \div x.total = 100
    BY <2>1
  <2>3. 100 * y.healthy <= 100 * x.healthy /\ 100 * x.healthy <= 100 * x.total
    BY <1>2, <2>1
  <2>4. Percent(y) <= Percent(x) /\ Percent(x) <= 100
    <3> DEFINE t == x.total
               q == 100 * x.healthy
               r == 100 * y.healthy
    <3>1. t \in Nat \ {0} /\ q \in Nat /\ r \in Nat /\ r <= q /\ q <= 100 * t /\ 100 * t \in Nat
      BY <2>1, <2>3
    <3>2. Percent(y) = r \div t /\ Percent(x) = q \div t
      BY <1>2 DEF Percent
    <3> HIDE DEF t, q, r
    <3>3. r \div t <= q \div t /\ q \div t <= (100 * t) \div t
      BY <3>1, Division
    <3> QED
      BY <2>2, <3>2, <3>3 DEF t
  <2>5. Percent(y) \in Nat /\ Percent(x) \in Nat
    BY <1>2, <2>1 DEF Percent
  <2> QED
    BY <2>4, <2>5
<1>3. /\ a.health.nodes \in Part /\ b.health.nodes \in Part
      /\ a.health.pods \in Part /\ b.health.pods \in Part
      /\ b.health.nodes.total = a.health.nodes.total
      /\ b.health.nodes.healthy <= a.health.nodes.healthy
      /\ b.health.pods.total = a.health.pods.total
      /\ b.health.pods.healthy <= a.health.pods.healthy
  BY DEF Numbers, NoBetter
<1>4. /\ Percent(b.health.nodes) = 100 => Percent(a.health.nodes) = 100
      /\ Percent(b.health.pods) >= 98 => Percent(a.health.pods) >= 98
  BY <1>2, <1>3
<1>5. NotBelow(NodesHealthy(b), NodesHealthy(a)) /\ NotBelow(PodsHealthy(b), PodsHealthy(a))
  BY <1>4, Ordered, Zenon DEF NodesHealthy, PodsHealthy, Verdict, Grades
<1>6. Topology(b) = Topology(a)
  BY <1>1 DEF Topology, Zones
<1> QED
  BY <1>1, <1>5, <1>6 DEF Platform, InfraTopology, ControlPlane, VersionAvailable, VersionFailing,
                          VersionProgressing, ReleaseAccepted
\* The checks of the counters and of the slow requests.  Both grade a counter of
\* zero, and one that is not there, as a failure.
LEMMA CounterChecks ==
  ASSUME NEW a, NEW b, Numbers(a), Numbers(b), NoBetter(b, a)
  PROVE  /\ a.mustGather.total # {0} => NotBelow(ClusterErrors(b), ClusterErrors(a))
         /\ NotBelow(SlowMean(b), SlowMean(a)) /\ NotBelow(SlowMax(b), SlowMax(a))
         /\ (\E p \in Conformance : a.errors[p] # 0) => NotBelow(SuiteErrors(b), SuiteErrors(a))
<1> DEFINE n == a.mustGather.total
           m == b.mustGather.total
           High(t) == \E x \in t : x > 30000 /\ x < 100000
           Low(t) == \E x \in t : x # 0 /\ ~(x >= 100000)
<1>1. /\ n \subseteq Nat /\ m \subseteq Nat /\ (n = {}) = (m = {})
      /\ \A x \in n, y \in m : y >= x
  BY DEF Numbers, NoBetter
<1>2. /\ ClusterErrors(a) = IF High(n) THEN "warn" ELSE Verdict(Low(n))
      /\ ClusterErrors(b) = IF High(m) THEN "warn" ELSE Verdict(Low(m))
  BY DEF ClusterErrors
<1> HIDE DEF n, m
<1>3. ASSUME n # {0} PROVE NotBelow(ClusterErrors(b), ClusterErrors(a))
  <2>1. CASE High(n)
    <3>1. PICK x \in n : x > 30000 /\ x < 100000
      BY <2>1
    <3>2. High(m) \/ ~Low(m)
      BY <1>1, <3>1
    <3> QED
      BY <1>2, <2>1, <3>2, Ordered DEF Verdict
  <2>2. CASE ~High(n) /\ Low(n)
    <3>1. ClusterErrors(a) = "pass" /\ ClusterErrors(b) \in Grades
      BY <1>2, <2>2 DEF Verdict, Grades
    <3> QED
      BY <3>1, Ordered
  <2>3. CASE ~High(n) /\ ~Low(n)
    <3>1. ~High(m) /\ ~Low(m)
      <4>1. CASE n = {}
        BY <1>1, <4>1
      <4>2. CASE n # {}
        <5>1. PICK x \in n : x # 0
          BY <1>1, <1>3, <4>2
        <5>2. x >= 100000
          BY <1>1, <2>3, <5>1
        <5> QED
          BY <1>1, <5>2
      <4> QED
        BY <4>1, <4>2
    <3>2. ClusterErrors(b) = "fail" /\ ClusterErrors(a) \in Grades
      BY <1>2, <2>3, <3>1 DEF Verdict, Grades
    <3> QED
      BY <3>2, Ordered
  <2> QED
    BY <2>1, <2>2, <2>3
<1>4. /\ a.mustGather.slow \subseteq Slow /\ b.mustGather.slow \subseteq Slow
      /\ (a.mustGather.slow = {}) = (b.mustGather.slow = {})
      /\ \A st \in a.mustGather.slow, sb \in b.mustGather.slow :
           sb.max >= st.max /\ sb.sum * st.count >= st.sum * sb.count
  BY DEF Numbers, NoBetter
<1>5. NotBelow(SlowMean(b), SlowMean(a))
  <2>1. ASSUME NEW sb \in b.mustGather.slow, sb.sum < 500 * sb.count
        PROVE  \E st \in a.mustGather.slow : st.sum < 500 * st.count
    <3>1. PICK st \in a.mustGather.slow : TRUE
      BY <1>4, <2>1
    <3>2. /\ st.sum \in Nat /\ st.count \in Nat \ {0} /\ sb.sum \in Nat /\ sb.count \in Nat \ {0}
          /\ sb.sum * st.count >= st.sum * sb.count
      BY <1>4, <2>1 DEF Slow
    <3>3. st.sum < 500 * st.count
      BY <2>1, <3>2, Means
    <3> QED
      BY <3>3
  <2> QED
    BY <2>1, Verdicts DEF SlowMean
<1>6. NotBelow(SlowMax(b), SlowMax(a))
  <2>1. ASSUME NEW sb \in b.mustGather.slow, sb.max < 1000
        PROVE  \E st \in a.mustGather.slow : st.max < 1000
    <3>1. PICK st \in a.mustGather.slow : TRUE
      BY <1>4, <2>1
    <3>2. st.max \in Nat /\ sb.max \in Nat /\ sb.max >= st.max
      BY <1>4, <2>1 DEF Slow
    <3> QED
      BY <2>1, <3>1, <3>2
  <2> QED
    BY <2>1, Verdicts DEF SlowMax
<1>7. ASSUME \E p \in Conformance : a.errors[p] # 0
      PROVE  NotBelow(SuiteErrors(b), SuiteErrors(a))
  <2> DEFINE x == a.errors["kube"] + a.errors["ocp"]
             y == b.errors["kube"] + b.errors["ocp"]
  <2>1. /\ a.errors["kube"] \in Nat /\ b.errors["kube"] \in Nat
        /\ a.errors["ocp"] \in Nat /\ b.errors["ocp"] \in Nat
        /\ b.errors["kube"] >= a.errors["kube"] /\ b.errors["ocp"] >= a.errors["ocp"]
    BY DEF Numbers, NoBetter, Conformance
  <2>2. a.errors["kube"] # 0 \/ a.errors["ocp"] # 0
    BY <1>7 DEF Conformance
  <2>3. x \in Nat /\ y \in Nat /\ x # 0 /\ y >= x
    BY <2>1, <2>2
  <2>4. /\ SuiteErrors(a) = IF x > 300 \/ x = 0 THEN "fail" ELSE IF x > 150 THEN "warn" ELSE "pass"
        /\ SuiteErrors(b) = IF y > 300 \/ y = 0 THEN "fail" ELSE IF y > 150 THEN "warn" ELSE "pass"
    BY DEF SuiteErrors
  <2> HIDE DEF x, y
  <2> QED
    BY <2>3, <2>4, Ordered DEF Grades
<1> QED
  BY <1>3, <1>5, <1>6, <1>7 DEF n
\* Whatever the numbers: no check grades a worse report better, but those that
\* take zero for a counter that is missing.
LEMMA NoCheckGradesWorseBetter ==
  ASSUME NEW a, NEW b, Numbers(a), Numbers(b), NoBetter(b, a), NEW c \in Checks,
         c = "OPCT-010" => a.mustGather.total # {0},
         c = "OPCT-011" => \E p \in Conformance : a.errors[p] # 0
  PROVE  NotBelow(GradeOf(b, c), GradeOf(a, c))
<1>1. /\ Topology(a) \in Grades /\ Platform(a) \in Grades /\ InfraTopology(a) \in Grades
      /\ ControlPlane(a) \in Grades /\ VersionAvailable(a) \in Grades
      /\ VersionFailing(a) \in Grades /\ VersionProgressing(a) \in Grades
      /\ ReleaseAccepted(a) \in Grades
  <2>1. \A d \in Checks : GradeOf(a, d) \in Grades
    BY EveryCheckGrades DEF CheckResults
  <2> QED
    BY <2>1, Graded DEF Checks
<1>2. /\ NotBelow(Topology(b), Topology(a)) /\ NotBelow(Platform(b), Platform(a))
      /\ NotBelow(InfraTopology(b), InfraTopology(a)) /\ NotBelow(ControlPlane(b), ControlPlane(a))
      /\ NotBelow(VersionAvailable(b), VersionAvailable(a))
      /\ NotBelow(VersionFailing(b), VersionFailing(a))
      /\ NotBelow(VersionProgressing(b), VersionProgressing(a))
      /\ NotBelow(ReleaseAccepted(b), ReleaseAccepted(a))
  BY <1>1, ClusterChecks, Ordered
<1>3. CASE c \in {"OPCT-001", "OPCT-002", "OPCT-003", "OPCT-004", "OPCT-005", "OPCT-005B",
                  "OPCT-022", "OPCT-023A", "OPCT-023B"}
  BY <1>3, PluginChecks, Graded
<1>4. CASE c \in {"OPCT-010", "OPCT-010A", "OPCT-010B", "OPCT-011"}
  BY <1>4, CounterChecks, Graded
<1>5. CASE c \in {"OPCT-020", "OPCT-021", "OPCT-030", "Platform", "Available", "Failing",
                  "Progressing", "Accepted", "Topology", "ControlPlaneTopology"}
  BY <1>2, <1>5, ClusterChecks, Graded
<1> QED
  BY <1>3, <1>4, <1>5 DEF Checks

\* A cluster that is worse in some numbers and better in none gets no better grade.
THEOREM WorseReports == Spec => []WorseIsNotGradedBetter
<1>1. TypeOK /\ Grading => WorseIsNotGradedBetter
  <2> SUFFICES ASSUME TypeOK, Grading, grade # Ungraded, filtered,
                      Documents \ Features \subseteq docs, results = Content[archive].loaded,
                      NEW b \in Worse[archive], NEW c \in Checks,
                      ~(c = "OPCT-010" /\ Content[archive].mustGather.total = {0}),
                      ~(c = "OPCT-011" /\ \A p \in Conformance : Content[archive].errors[p] = 0)
               PROVE  NotBelow(WholeGrades[b][c], grade[c])
    BY DEF WorseIsNotGradedBetter, NotBelow, Rank
  <2> DEFINE s == Populated(Content[archive], results, docs, filtered)
             w == Whole(archive)
  <2>1. archive \in Archives /\ b \in Archives /\ NoBetter(Whole(b), w)
    BY DEF TypeOK, Worse
  <2>2. Conformance \subseteq results /\ grade = CheckResults(s)
    BY DEF Grading, GradedFrom
  <2>3. "nodes" \in docs /\ "mustGather" \in docs
    BY DEF Documents, Features
  <2>4. s = w
    BY <2>3 DEF Populated, Whole, Documents
  <2>5. w.mustGather.total = Content[archive].mustGather.total
    BY DEF Whole, Populated, Documents
  <2>6. \A p \in Conformance : w.errors[p] = Content[archive].errors[p]
    BY <2>2 DEF Whole, Populated
  <2>7. grade[c] = GradeOf(w, c) /\ WholeGrades[b][c] = GradeOf(Whole(b), c)
    BY <2>1, <2>2, <2>4 DEF WholeGrades, CheckResults
  <2>8. Numbers(w) /\ Numbers(Whole(b))
    BY <2>1, WholeNumbers
  <2> HIDE DEF s, w
  <2> QED
    BY <2>1, <2>5, <2>6, <2>7, <2>8, NoCheckGradesWorseBetter
<1> QED
  BY <1>1, Typing, GradesFollow, PTL
=============================================================================
