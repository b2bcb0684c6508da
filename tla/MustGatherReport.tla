--------------------------- MODULE MustGatherReport ---------------------------
(***************************************************************************)
(* The content of a must-gather on its way to the checks: the goroutines   *)
(* of MustGatherExtract append what they parsed to a list, in the order in *)
(* which they come; AggregateCounters adds up the counters of the list and *)
(* parses the slow requests of all etcd pods again, as one log; and the    *)
(* checks read the outcome, when extract failed as well as when it did not.*)
(***************************************************************************)
EXTENDS MustGatherExtract, EtcdLog, ReportChecks

CONSTANTS
  Lines,       \* Lines[l]: the lines of the log l
  EtcdLogs,    \* the current logs of the etcd containers
  RotatedLogs  \* their earlier logs, of containers that were restarted

ASSUME ReportAssumption ==
  /\ Lines \in [Logs -> Seq(Line)]
  /\ EtcdLogs \subseteq Logs /\ RotatedLogs \subseteq Logs \ EtcdLogs
  \* Processed: the log of etcd is kept without an error as well.
  /\ LogsInError =
       EtcdLogs \cup {l \in Logs : NewErrorCounter(Lines[l], CommonErrorPatterns) # EmptyBag}

VARIABLES
  namespaceErrors,  \* NamespaceErrors: the logs kept, as they came
  mustGather,       \* ErrorCounters and ErrorEtcdLogs of the MustGather
  grades            \* the grades of the checks that read it

reportVars == <<namespaceErrors, mustGather, grades>>
allVars == <<vars, reportVars>>

LogChecks == {"OPCT-010", "OPCT-010A", "OPCT-010B"}
Ungraded == [c \in LogChecks |-> "none"]

NewMustGather ==
  [errors |-> EmptyBag, etcdErrors |-> EmptyBag, hour |-> <<>>, all |-> <<>>]

\* Mutant of EtcdBuffer: the buffer is replaced by that of each pod.
EtcdBufferLast(logs) ==
  LET etcd == SelectSeq(logs, LAMBDA l : l \in EtcdLogs)
  IN  IF etcd = <<>> THEN <<>> ELSE NewErrorEtcdLogs(Lines[Last(etcd)]).buffer

EtcdBuffer(logs) ==
  LET buffer(l) == IF l \in EtcdLogs THEN NewErrorEtcdLogs(Lines[l]).buffer ELSE <<>>
  IN  FlattenSeq([i \in DOMAIN logs |-> buffer(logs[i])])

\* The counters of one log, and those of etcd if it is one of its logs.
Errors(l) == NewErrorCounter(Lines[l], CommonErrorPatterns)
EtcdErrors(l) == IF l \in EtcdLogs THEN NewErrorEtcdLogs(Lines[l]).errors ELSE EmptyBag

\* AggregateCounters and calculateCountersEtcd, for a list of logs.
Aggregated(logs) ==
  [errors     |-> MergedCounters([i \in DOMAIN logs |-> Errors(logs[i])]),
   etcdErrors |-> MergedCounters([i \in DOMAIN logs |-> EtcdErrors(logs[i])]),
   hour       |-> GetStat(EtcdBuffer(logs), "hour", MaxPastHour),
   all        |-> GetStat(EtcdBuffer(logs), "all", 1)]

InitReport ==
  /\ Init
  /\ namespaceErrors = <<>> /\ mustGather = NewMustGather /\ grades = Ungraded

\* Mutant of Aggregate: the counters are added up when extract fails as well.
AggregateAlways ==
  mustGather' = IF reader \in {"reading", "finished"} /\ reader' \in {"failed", "aggregated"}
                THEN Aggregated(namespaceErrors) ELSE mustGather

\* Only when extract returned without an error.
Aggregate ==
  mustGather' = IF reader = "finished" /\ reader' = "aggregated"
                THEN Aggregated(namespaceErrors) ELSE mustGather

\* A step of extract or of its goroutines; insertNamespaceErrors appends the log
\* that a parser found something in.
ExtractStep ==
  /\ Next
  /\ namespaceErrors' =
       namespaceErrors \o SetToSeq({l \in Logs : findings'[l] > findings[l]})
  /\ Aggregate
  /\ UNCHANGED grades

\* What the checks read of it.
MustGatherInfo ==
  [mustGather |-> [total |-> {mustGather.errors[t] : t \in DOMAIN mustGather.errors \cap {"total"}},
                   slow  |-> {mustGather.all[k] : k \in DOMAIN mustGather.all}]]

GradesOf(info) ==
  [c \in LogChecks |-> CASE c = "OPCT-010" -> ClusterErrors(info)
                         [] c = "OPCT-010A" -> SlowMean(info)
                         [] c = "OPCT-010B" -> SlowMax(info)]

\* The report is populated and graded, whatever the goroutines still do.
GradeLogs ==
  /\ reader \in {"aggregated", "failed"} /\ grades = Ungraded
  /\ grades' = GradesOf(MustGatherInfo)
  /\ UNCHANGED <<vars, namespaceErrors, mustGather>>

NextReport == ExtractStep \/ GradeLogs

SpecReport == InitReport /\ [][NextReport]_allVars
FairSpecReport == SpecReport /\ Fairness

-----------------------------------------------------------------------------
(* Properties.                                                             *)

\* The requests that can be read in some logs, by log and line.
Request(r) == Lines[r[1]][r[2]]
Requests(logs) == UNION {{l} \X DOMAIN Lines[l] : l \in logs}
ReadIn(logs) == {r \in Requests(logs) : Readable(Request(r))}

\* Those of the report: in the parsed current logs of etcd.
ParsedEtcdLogs == {e \in EtcdLogs : stage[e] = "done"}
Read == ReadIn(ParsedEtcdLogs)

\* The statistics of a set of requests, in whichever order they come.
StatOf(st, rs) ==
  LET slower(ms) == Cardinality({r \in rs : Milliseconds(Request(r)) >= ms})
  IN  /\ st.count = Cardinality(rs)
      /\ st.sum = SumFunction([r \in rs |-> Milliseconds(Request(r))])
      /\ st.max = Max({Milliseconds(Request(r)) : r \in rs})
      /\ st.higher500 = slower(500)
      /\ \A b \in 2..9 : st.buckets[b] = slower(100 * b) - slower(100 * b + 100)
      /\ st.buckets[10] = slower(1000)

\* The statistics of the report are those of the requests of all etcd pods,
\* in whichever order their logs were parsed (mustgather.go: the buffers of
\* the pods are parsed again as one).
SlowRequestsOfAllPods ==
  reader = "aggregated" =>
    IF Read = {} THEN mustGather.all = <<>>
    ELSE StatOf(mustGather.all[AllHours], Read)

\* The report by hour is of the newest hours of any pod, and each hour has the
\* requests of every pod (etcd.go:283-294, on the merged buffer).
NewestHoursOfAllPods ==
  reader = "aggregated" =>
    LET hours == {Request(r).hour : r \in Read}
        shown == DOMAIN mustGather.hour
    IN  /\ shown \subseteq hours
        /\ Cardinality(shown) = IF Cardinality(hours) < MaxPastHour
                                THEN Cardinality(hours) ELSE MaxPastHour
        /\ \A h \in shown, g \in hours \ shown : g < h
        /\ \A h \in shown : StatOf(mustGather.hour[h], {r \in Read : Request(r).hour = h})

\* The totals, which are merged like a pattern, stay the sums of the patterns,
\* and the counters are those of all parsed logs.
TotalsAddUp ==
  \A ec \in {mustGather.errors, mustGather.etcdErrors} :
    ec # EmptyBag =>
      /\ ec["total"] = BagCardinality(ec) - ec["total"]
      /\ reader = "aggregated"

\* The command takes whichever of these files the extracted directory has, in the
\* order of their names.
EtcdFiles == EtcdLogs \cup RotatedLogs
WalkedLines(walk) == FlattenSeq([i \in DOMAIN walk |-> Lines[walk[i]]])

TimesFound(errors, p) == IF p \in DOMAIN errors THEN errors[p] ELSE 0

\* The command that parses the extracted logs line by line finds the counters
\* and the slow requests of every file it takes, the rotated ones included, and
\* of the current logs alone what the report has, which parsed them pod by pod.
ParseEtcdLogsAgrees ==
  reader = "aggregated" =>
    \A files \in SUBSET EtcdFiles : \A walk \in SetToSeqs(files) :
      LET out == ParseEtcdLogs(WalkedLines(walk), "hour")
          read == ReadIn(files)
      IN  /\ \A p \in EtcdLogErrorPatterns :
               TimesFound(out.errors, p) = SumFunction([l \in files |-> Matches(Lines[l], p)])
          /\ DOMAIN out.stat = {Request(r).hour : r \in read}
          /\ \A h \in DOMAIN out.stat :
               StatOf(out.stat[h], {r \in read : Request(r).hour = h})
          /\ files = ParsedEtcdLogs =>
               /\ out.errors = mustGather.etcdErrors
               /\ DOMAIN mustGather.hour = Latest(DOMAIN out.stat, MaxPastHour)
               /\ \A h \in DOMAIN mustGather.hour : out.stat[h] = mustGather.hour[h]

\* No check passes on logs that were parsed in part: after an error in the
\* archive the counters are missing, and the checks on them fail.
PartialLogsPassNothing ==
  grades # Ungraded /\ (\E c \in LogChecks : grades[c] # "fail") =>
    \A l \in Logs : stage[l] \in {"skipped", "done"}
=============================================================================
