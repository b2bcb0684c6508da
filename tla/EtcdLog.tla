------------------------------- MODULE EtcdLog -------------------------------
(***************************************************************************)
(* What the parsers make of the lines of pod logs: the counters of error   *)
(* patterns, and for the logs of etcd the statistics of the requests that  *)
(* took too long, grouped by hour or all together.  Also the command       *)
(* `opct adm parse-etcd-logs`, which does the same line by line.           *)
(*                                                                         *)
(* Durations are whole milliseconds.  The hour of a line is AllHours when  *)
(* its timestamp does not parse: the key "all" then stands for it, which   *)
(* is sorted after the digits of the other keys.                           *)
(***************************************************************************)
EXTENDS Naturals, FiniteSets, Bags, SequencesExt

CONSTANTS
  CommonErrorPatterns,   \* the patterns of any pod log, with "error"
  EtcdLogErrorPatterns,  \* those of an etcd log, with "error"
  Hours,                 \* the hours of the timestamps, in their order
  AllHours,              \* the key "all"
  MaxPastHour            \* parserETCDLogsReqTTLMaxPastHour: 8 in the code

ErrorPatterns == CommonErrorPatterns \cup EtcdLogErrorPatterns

\* A line: how often each pattern matches in it and, for a request that took too
\* long, its duration, otherwise 0.
Line == [matches : [ErrorPatterns -> Nat], took : Nat, hour : Hours \cup {AllHours}]

ASSUME EtcdLogAssumption ==
  /\ IsFiniteSet(ErrorPatterns)
  /\ "total" \notin ErrorPatterns
  /\ Hours \subseteq Nat /\ AllHours \in Nat
  /\ \A h \in Hours : h < AllHours
  /\ MaxPastHour \in Nat \ {0}

-----------------------------------------------------------------------------
(* Error counters: a bag of the patterns and of "total".                   *)

\* How often a pattern matches in a log.
Matches(lines, p) == SumFunction([i \in DOMAIN lines |-> lines[i].matches[p]])

NewErrorCounter(lines, patterns) ==
  LET found == {p \in patterns : Matches(lines, p) > 0}
      counters == [p \in found |-> Matches(lines, p)]
  IN  IF found = {} THEN EmptyBag
      ELSE counters (+) [t \in {"total"} |-> BagCardinality(counters)]

\* Mutant of MergeErrorCounters: a total that is there is kept.
MergePatterns(ec1, ec2) ==
  LET both == ec1 (+) ec2
  IN  [e \in DOMAIN both |-> IF e = "total" /\ e \in DOMAIN ec1 THEN ec1[e] ELSE both[e]]

MergeErrorCounters(ec1, ec2) == ec1 (+) ec2

\* The counters of a sequence, merged one after another.
MergedCounters(counters) ==
  FoldSeq(LAMBDA ec, merged : MergeErrorCounters(merged, ec), EmptyBag, counters)

-----------------------------------------------------------------------------
(* Slow requests.                                                          *)

IsSlow(line) == line.took > 0

\* The duration is printed by Go ("231ms", "1.5s", "1m2.5s") and read by a
\* pattern of three characters at least before "ms" or "s": a whole number of
\* seconds is not read, nor one below 100ms, and the minutes get lost.
Readable(line) ==
  line.took \in 100..999 \/ (line.took > 999 /\ line.took % 1000 # 0)

Milliseconds(line) == IF line.took > 999 THEN line.took % 60000 ELSE line.took

\* ProcessLine keeps each slow request, and counts those it could read.
Slow(lines) ==
  FlattenSeq([i \in DOMAIN lines |-> IF IsSlow(lines[i]) THEN <<lines[i]>> ELSE <<>>])
Counted(lines) == {i \in DOMAIN lines : IsSlow(lines[i]) /\ Readable(lines[i])}

GroupBy(aggregator, line) == IF aggregator = "hour" THEN line.hour ELSE AllHours

\* insertBucket: 10 is the bucket "1000-inf", and k is k00 to k99; what is faster
\* than 200 ms only goes to "all".
Bucket(ms) == IF ms >= 1000 THEN 10 ELSE ms \div 100

Count(values, Test(_)) == Cardinality({i \in DOMAIN values : Test(values[i])})

\* The statistics of a group, by its lines; the mean is sum \div count.
BucketFilterStat(values) ==
  [count     |-> Cardinality(DOMAIN values),
   higher500 |-> Count(values, LAMBDA v : v >= 500),
   buckets   |-> [b \in 2..10 |-> Count(values, LAMBDA v : Bucket(v) = b)],
   sum       |-> SumFunction(values),
   max       |-> Max(Range(values))]

\* Mutant of Latest: the groups are cut at the wrong end.
Oldest(groups, latest) ==
  {g \in groups : latest = 0 \/ Cardinality({h \in groups : h < g}) < latest}

\* The newest of the groups; all of them for 0.
Latest(groups, latest) ==
  {g \in groups : latest = 0 \/ Cardinality({h \in groups : h > g}) < latest}

GetStat(lines, aggregator, latest) ==
  LET groups == {GroupBy(aggregator, lines[i]) : i \in Counted(lines)}
      own(g) == {i \in Counted(lines) : GroupBy(aggregator, lines[i]) = g}
  IN  [g \in Latest(groups, latest) |->
         BucketFilterStat([i \in own(g) |-> Milliseconds(lines[i])])]

\* The log of one etcd pod.
NewErrorEtcdLogs(lines) ==
  [errors |-> NewErrorCounter(lines, EtcdLogErrorPatterns),
   hour   |-> GetStat(lines, "hour", MaxPastHour),
   all    |-> GetStat(lines, "all", 1),
   buffer |-> Slow(lines)]

\* Mutant of ParseEtcdLogs: the counters of a line replace those before it.
ParseEtcdLogsOverwriting(lines, aggregator) ==
  [stat   |-> GetStat(lines, aggregator, 0),
   errors |-> IF lines = <<>> THEN EmptyBag
              ELSE NewErrorCounter(<<Last(lines)>>, EtcdLogErrorPatterns)]

\* The command, on the lines of all logs in a directory or of its input.
ParseEtcdLogs(lines, aggregator) ==
  LET errors(line) == NewErrorCounter(<<line>>, EtcdLogErrorPatterns)
  IN  [stat   |-> GetStat(lines, aggregator, 0),
       errors |-> MergedCounters([i \in DOMAIN lines |-> errors(lines[i])])]
=============================================================================
