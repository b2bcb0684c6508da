------------------------ MODULE MustGatherReportProofs ------------------------
(***************************************************************************)
(* For any logs, lines, patterns and sizes of the bucket: what the report  *)
(* makes of the logs of a must-gather, whatever the order in which they    *)
(* were parsed, and when only a part of them was.                          *)
(***************************************************************************)
EXTENDS MustGatherReport, MustGatherExtractProofs

-----------------------------------------------------------------------------
(* The report does to extract what its specification allows.               *)

LEMMA ReportStep == [NextReport]_allVars => [Next]_vars
BY DEF NextReport, ExtractStep, GradeLogs, allVars, vars

\* Every behaviour of the report is one of extract, so that all that was proved
\* of extract holds of it.
THEOREM ReportExtracts == SpecReport => Spec
<1>1. InitReport => Init
  BY DEF InitReport
<1> QED
  BY <1>1, ReportStep, PTL DEF SpecReport, Spec

\* Types of the variables of extract.
THEOREM ReportTyping == SpecReport => []TypeOK
BY ReportExtracts, Typing, PTL

\* When extract returned without an error, every log was parsed to the end.
THEOREM ReportReturns == SpecReport => []ReturnsWithEveryLogParsed
BY ReportExtracts, Returns, PTL

\* What was found does not change once extract returned without an error.
THEOREM ReportStable == SpecReport => AggregatesStableFindings
BY ReportExtracts, StableFindings

-----------------------------------------------------------------------------
(* The list of logs in error.                                              *)

\* It has each log that a parser found something in, once.
KeptOnce ==
  /\ namespaceErrors \in Seq(Logs)
  /\ ToSet(namespaceErrors) = {l \in Logs : findings[l] > 0}
  /\ IsInjective(namespaceErrors)

\* The elements of a finite set can be listed.
LEMMA Listing ==
  ASSUME NEW S, IsFiniteSet(S)
  PROVE  SetToSeq(S) \in Seq(S) /\ ToSet(SetToSeq(S)) = S /\ IsInjective(SetToSeq(S))
<1> DEFINE n == Cardinality(S)
<1>1. n \in Nat /\ ExistsBijection(1..n, S)
  BY FS_CardinalityType
<1>2. PICK g \in Bijection(1..n, S) : TRUE
  BY <1>1 DEF ExistsBijection
<1>3. g \in [1..n -> S] /\ IsInjective(g)
  BY <1>2 DEF Bijection, Injection, IsInjective
<1>4. SetToSeq(S) \in [1..n -> S] /\ IsInjective(SetToSeq(S))
  BY <1>3 DEF SetToSeq
<1> DEFINE f == SetToSeq(S)
<1>5. f \in Seq(S) /\ DOMAIN f = 1..n
  BY <1>1, <1>4
<1>6. f \in Bijection(1..n, ToSet(f))
  BY <1>4, <1>5 DEF Bijection, Injection, Surjection, IsInjective, ToSet
<1>7. IsFiniteSet(ToSet(f)) /\ Cardinality(ToSet(f)) = Cardinality(1..n)
  BY <1>1, <1>6, FS_Interval, FS_Bijection DEF ExistsBijection
<1>8. ToSet(f) = S
  <2>1. ToSet(f) \subseteq S
    BY <1>4, <1>5 DEF ToSet
  <2>2. Cardinality(ToSet(f)) = n
    BY <1>1, <1>7, FS_Interval
  <2> QED
    BY <2>1, <2>2, FS_Subset
<1> QED
  BY <1>4, <1>5, <1>8

\* Lists without duplicates that share nothing make one without duplicates.
LEMMA Appending ==
  ASSUME NEW S, NEW r \in Seq(S), NEW s \in Seq(S), IsInjective(r), IsInjective(s),
         ToSet(r) \cap ToSet(s) = {}
  PROVE  r \o s \in Seq(S) /\ ToSet(r \o s) = ToSet(r) \cup ToSet(s) /\ IsInjective(r \o s)
<1> DEFINE t == r \o s
<1>1. /\ t \in Seq(S) /\ DOMAIN t = 1..(Len(r) + Len(s))
      /\ DOMAIN r = 1..Len(r) /\ DOMAIN s = 1..Len(s) /\ Len(r) \in Nat /\ Len(s) \in Nat
  OBVIOUS
<1>2. \A i \in DOMAIN t : IF i <= Len(r) THEN i \in DOMAIN r /\ t[i] = r[i]
                          ELSE i - Len(r) \in DOMAIN s /\ t[i] = s[i - Len(r)]
  OBVIOUS
<1>3. \A i \in DOMAIN r : i \in DOMAIN t /\ t[i] = r[i]
  OBVIOUS
<1>4. \A i \in DOMAIN s : i + Len(r) \in DOMAIN t /\ t[i + Len(r)] = s[i]
  OBVIOUS
<1> HIDE DEF t
<1>5. ToSet(t) = ToSet(r) \cup ToSet(s)
  BY <1>2, <1>3, <1>4 DEF ToSet
<1>6. ASSUME NEW i \in DOMAIN t, NEW j \in DOMAIN t, t[i] = t[j]
      PROVE  i = j
  <2>1. CASE i <= Len(r) /\ j <= Len(r)
    BY <1>2, <1>6, <2>1 DEF IsInjective
  <2>2. CASE ~(i <= Len(r)) /\ ~(j <= Len(r))
    <3>1. i - Len(r) = j - Len(r)
      BY <1>2, <1>6, <2>2 DEF IsInjective
    <3> QED
      BY <1>1, <3>1
  <2>3. CASE (i <= Len(r)) # (j <= Len(r))
    <3>1. (t[i] \in ToSet(r) /\ t[j] \in ToSet(s)) \/ (t[j] \in ToSet(r) /\ t[i] \in ToSet(s))
      BY <1>2, <2>3 DEF ToSet
    <3> QED
      BY <1>6, <3>1
  <2> QED
    BY <2>1, <2>2, <2>3
<1>7. IsInjective(t)
  BY <1>6 DEF IsInjective
<1> QED
  BY <1>1, <1>5, <1>7 DEF t

\* A parser adds to the findings, and never takes one back.
LEMMA FindingsGrow ==
  ASSUME SharedTypes, [Next]_vars
  PROVE  \A l \in Logs : findings'[l] >= findings[l]
<1>1. ASSUME NEW l \in Logs, ProcessNamespaceErrors(l)
      PROVE  \A k \in Logs : findings'[k] >= findings[k]
  BY <1>1 DEF ProcessNamespaceErrors, SharedTypes
<1>2. (\E l \in Logs : ProcessNamespaceErrors(l)) \/ UNCHANGED findings
  BY DEF Next, ReaderNext, ReadPodLog, SkipPodLog, ReadRawFile, ReadEvents, ReadFails,
         EndOfArchive, WaitForLogs, AggregateCounters, SenderNext, PassRateLimiter,
         AcquireSemaphore, SendToQueue, ReleaseSemaphore, Leak, ConsumerNext,
         TakeFromQueue, MarkDone, DecrementCount, resultVars, vars
<1> QED
  BY <1>1, <1>2 DEF SharedTypes

LEMMA ListStep ==
  ASSUME SharedTypes, SharedTypes', FindingsAreExact', KeptOnce, [NextReport]_allVars
  PROVE  KeptOnce'
<1> DEFINE New == {l \in Logs : findings'[l] > findings[l]}
           Old == {l \in Logs : findings[l] > 0}
<1>1. CASE UNCHANGED <<namespaceErrors, findings>>
  BY <1>1 DEF KeptOnce
<1>2. CASE ExtractStep
  <2>1. namespaceErrors' = namespaceErrors \o SetToSeq(New) /\ [Next]_vars
    BY <1>2 DEF ExtractStep
  <2>2. IsFiniteSet(New)
    BY ExtractAssumption, FS_Subset DEF ExtractAssumption
  <2>3. SetToSeq(New) \in Seq(Logs) /\ ToSet(SetToSeq(New)) = New /\ IsInjective(SetToSeq(New))
    <3>1. New \subseteq Logs
      OBVIOUS
    <3> HIDE DEF New
    <3> QED
      BY <2>2, <3>1, Listing
  <2>4. Old \cap New = {}
    <3>1. \A l \in Logs : findings[l] \in Nat /\ findings'[l] \in {0, 1}
      BY DEF SharedTypes, FindingsAreExact
    <3> QED
      BY <3>1
  <2>5. {l \in Logs : findings'[l] > 0} = Old \cup New
    BY <2>1, FindingsGrow DEF SharedTypes
  <2> HIDE DEF New
  <2>6. ToSet(namespaceErrors) \cap ToSet(SetToSeq(New)) = {}
    BY <2>3, <2>4 DEF KeptOnce
  <2>7. /\ namespaceErrors' \in Seq(Logs) /\ IsInjective(namespaceErrors')
        /\ ToSet(namespaceErrors') = ToSet(namespaceErrors) \cup New
    BY <2>1, <2>3, <2>6, Appending DEF KeptOnce
  <2> QED
    BY <2>5, <2>7 DEF KeptOnce
<1>3. ExtractStep \/ UNCHANGED <<namespaceErrors, findings>>
  BY DEF NextReport, GradeLogs, allVars, reportVars, vars
<1> QED
  BY <1>1, <1>2, <1>3

\* The list has each log that was found in error, once, however the parsers
\* and the reader interleave.
THEOREM Listed == SpecReport => []KeptOnce
<1>1. InitReport => KeptOnce
  BY DEF InitReport, Init, KeptOnce, ToSet, IsInjective
<1>2. SharedTypes /\ SharedTypes' /\ FindingsAreExact' /\ KeptOnce /\ [NextReport]_allVars
        => KeptOnce'
  BY ListStep
<1> QED
  BY <1>1, <1>2, ReportExtracts, SharedTyping, Findings, PTL DEF SpecReport

-----------------------------------------------------------------------------
(* A must-gather that was read in part.                                    *)

\* Nothing is aggregated before extract returned without an error.
AggregatedAtTheEnd ==
  mustGather = IF reader = "aggregated" THEN Aggregated(namespaceErrors) ELSE NewMustGather

\* The grades are those of the must-gather, which does not change any more.
GradedAtTheEnd ==
  grades # Ungraded =>
    reader \in {"aggregated", "failed"} /\ grades = GradesOf(MustGatherInfo)

\* The outcome of extract is final.
LEMMA OutcomeIsFinal ==
  ASSUME [Next]_vars, reader \in {"aggregated", "failed"}
  PROVE  reader' = reader
BY DEF Next, ReaderNext, Reach, ReadPodLog, SkipPodLog, ReadRawFile, ReadEvents, ReadFails,
       EndOfArchive, WaitForLogs, AggregateCounters, SenderNext, PassRateLimiter,
       AcquireSemaphore, SendToQueue, ReleaseSemaphore, Leak, ConsumerNext,
       TakeFromQueue, ProcessNamespaceErrors, MarkDone, DecrementCount, vars

LEMMA AggregatedOnce ==
  ASSUME Next, reader' = "aggregated", reader # "aggregated"
  PROVE  reader = "finished"
BY DEF Next, ReaderNext, Reach, ReadPodLog, SkipPodLog, ReadRawFile, ReadEvents, ReadFails,
       EndOfArchive, WaitForLogs, AggregateCounters, SenderNext, PassRateLimiter,
       AcquireSemaphore, SendToQueue, ReleaseSemaphore, Leak, ConsumerNext,
       TakeFromQueue, ProcessNamespaceErrors, MarkDone, DecrementCount

\* Nothing is found any more once extract returned without an error.
LEMMA ReturnedStep ==
  ASSUME ReaderLeftNothing, Next, reader \in {"finished", "aggregated"}
  PROVE  UNCHANGED findings
<1>1. ASSUME NEW l \in Logs, ProcessNamespaceErrors(l) PROVE FALSE
  BY <1>1 DEF ProcessNamespaceErrors, ReaderLeftNothing, InFlight, InFlightStages
<1> QED
  BY <1>1 DEF Next, ReaderNext, ReadPodLog, SkipPodLog, ReadRawFile, ReadEvents, ReadFails,
              EndOfArchive, WaitForLogs, AggregateCounters, SenderNext, PassRateLimiter,
              AcquireSemaphore, SendToQueue, ReleaseSemaphore, Leak, ConsumerNext,
              TakeFromQueue, MarkDone, DecrementCount, resultVars

\* Without counters and without slow requests, every check on them fails.
LEMMA NothingFails ==
  ASSUME mustGather = NewMustGather
  PROVE  \A c \in LogChecks : GradesOf(MustGatherInfo)[c] = "fail"
<1>1. mustGather.errors = EmptyBag /\ mustGather.all = <<>>
  BY DEF NewMustGather
<1>2. DOMAIN EmptyBag = {} /\ DOMAIN <<>> = {}
  BY DEF EmptyBag, SetToBag
<1>3. MustGatherInfo.mustGather.total = {} /\ MustGatherInfo.mustGather.slow = {}
  BY <1>1, <1>2 DEF MustGatherInfo
<1>4. /\ ClusterErrors(MustGatherInfo) = "fail" /\ SlowMean(MustGatherInfo) = "fail"
      /\ SlowMax(MustGatherInfo) = "fail"
  BY <1>3 DEF ClusterErrors, SlowMean, SlowMax, Verdict
<1> QED
  BY <1>4, Zenon DEF GradesOf, LogChecks

LEMMA OutcomeStep ==
  ASSUME SharedTypes, ReaderLeftNothing, KeptOnce, AggregatedAtTheEnd, GradedAtTheEnd,
         [NextReport]_allVars
  PROVE  AggregatedAtTheEnd' /\ GradedAtTheEnd'
<1>1. CASE UNCHANGED allVars
  BY <1>1 DEF AggregatedAtTheEnd, GradedAtTheEnd, MustGatherInfo, allVars, reportVars, vars
<1>2. CASE GradeLogs
  BY <1>2 DEF AggregatedAtTheEnd, GradedAtTheEnd, MustGatherInfo, GradeLogs, vars
<1>3. CASE ExtractStep
  <2>1. Next /\ Aggregate /\ UNCHANGED grades
    BY <1>3 DEF ExtractStep
  <2>2. ASSUME reader \in {"finished", "aggregated"}
        PROVE  namespaceErrors' = namespaceErrors
    <3>1. UNCHANGED findings
      BY <2>1, <2>2, ReturnedStep
    <3>2. {l \in Logs : findings'[l] > findings[l]} = {}
      BY <3>1 DEF SharedTypes
    <3>3. SetToSeq({}) = <<>>
      BY Listing, FS_EmptySet
    <3>4. namespaceErrors' = namespaceErrors \o SetToSeq({})
      BY <1>3, <3>2 DEF ExtractStep
    <3> QED
      BY <3>3, <3>4 DEF KeptOnce
  <2>3. CASE reader = "finished" /\ reader' = "aggregated"
    BY <2>1, <2>2, <2>3 DEF Aggregate, AggregatedAtTheEnd, GradedAtTheEnd
  <2>4. CASE ~(reader = "finished" /\ reader' = "aggregated")
    <3>1. mustGather' = mustGather
      BY <2>1, <2>4 DEF Aggregate
    <3>2. reader \in {"aggregated", "failed"} => reader' = reader
      BY <2>1, OutcomeIsFinal
    <3>3. reader' = "aggregated" <=> reader = "aggregated"
      BY <2>1, <2>4, <3>2, AggregatedOnce
    <3>4. AggregatedAtTheEnd'
      BY <2>2, <3>1, <3>3 DEF AggregatedAtTheEnd
    <3> QED
      BY <2>1, <3>1, <3>2, <3>4 DEF GradedAtTheEnd, MustGatherInfo
  <2> QED
    BY <2>3, <2>4
<1> QED
  BY <1>1, <1>2, <1>3 DEF NextReport

LEMMA Outcome == SpecReport => [](AggregatedAtTheEnd /\ GradedAtTheEnd)
<1>1. InitReport => AggregatedAtTheEnd /\ GradedAtTheEnd
  BY DEF InitReport, Init, AggregatedAtTheEnd, GradedAtTheEnd
<1>2. SharedTypes /\ ReaderLeftNothing /\ KeptOnce /\ AggregatedAtTheEnd /\ GradedAtTheEnd
        /\ [NextReport]_allVars => AggregatedAtTheEnd' /\ GradedAtTheEnd'
  BY OutcomeStep
<1> QED
  BY <1>1, <1>2, ReportExtracts, SharedTyping, ReaderIsLast, Listed, PTL DEF SpecReport

\* No check passes on logs that were parsed in part: the must-gather is then the
\* empty one, and every check on it fails.
THEOREM PartialLogs == SpecReport => []PartialLogsPassNothing
<1>1. AggregatedAtTheEnd /\ GradedAtTheEnd /\ ReturnsWithEveryLogParsed
        => PartialLogsPassNothing
  <2> SUFFICES ASSUME AggregatedAtTheEnd, GradedAtTheEnd, ReturnsWithEveryLogParsed,
                      grades # Ungraded, NEW c \in LogChecks, grades[c] # "fail"
               PROVE  \A l \in Logs : stage[l] \in {"skipped", "done"}
    BY DEF PartialLogsPassNothing
  <2>1. mustGather # NewMustGather
    BY NothingFails DEF GradedAtTheEnd
  <2> QED
    BY <2>1 DEF AggregatedAtTheEnd, ReturnsWithEveryLogParsed
<1> QED
  BY <1>1, Outcome, ReportReturns, PTL

-----------------------------------------------------------------------------
(* Folds over finite sets.                                                 *)

\* The element that a fold takes out of a set.
Pick(s) == CHOOSE x \in s : TRUE

LEMMA PickOne ==
  ASSUME NEW S, IsFiniteSet(S), NEW s \in SUBSET S, s # {}
  PROVE  /\ Pick(s) \in s /\ s \ {Pick(s)} \in SUBSET S /\ IsFiniteSet(s)
         /\ Cardinality(s \ {Pick(s)}) = Cardinality(s) - 1
<1>1. Pick(s) \in s
  BY DEF Pick
<1> QED
  BY <1>1, FS_Subset, FS_RemoveElement

\* What holds of a set when it holds of its proper subsets, holds of all of them.
LEMMA SubsetInduction ==
  ASSUME NEW S, IsFiniteSet(S), NEW Good,
         \A s \in SUBSET S : (\A u \in SUBSET s : u # s => u \in Good) => s \in Good
  PROVE  SUBSET S \subseteq Good
<1> DEFINE Bad == (SUBSET S) \ Good
           Smaller == StrictSubsetOrdering(S)
<1>1. Bad = {}
  <2> SUFFICES ASSUME Bad # {} PROVE FALSE
    OBVIOUS
  <2>1. Bad \subseteq FiniteSubsetsOf(S)
    BY FS_Subset DEF FiniteSubsetsOf
  <2>2. IsWellFoundedOn(Smaller, FiniteSubsetsOf(S))
    BY FS_StrictSubsetOrderingWellFounded
  <2> HIDE DEF Bad, Smaller
  <2>3. PICK s \in Bad : \A u \in Bad : <<u, s>> \notin Smaller
    BY <2>1, <2>2, WFMin
  <2>4. s \in SUBSET S
    BY <2>3 DEF Bad
  <2>5. ASSUME NEW u \in SUBSET s, u # s PROVE u \in Good
    <3>1. <<u, s>> \in Smaller
      BY <2>4, <2>5 DEF Smaller, StrictSubsetOrdering
    <3> QED
      BY <2>3, <2>4, <3>1 DEF Bad
  <2> QED
    BY <2>3, <2>4, <2>5 DEF Bad
<1> QED
  BY <1>1

\* A set of numbers has a least one.
LEMMA LeastNumber ==
  ASSUME NEW N \in SUBSET Nat, N # {}
  PROVE  \E n \in N : n = 0 \/ n - 1 \notin N
<1> DEFINE Less == {x \in Nat \X Nat : x[1] < x[2]}
<1>1. IsWellFoundedOn(Less, Nat)
  BY NatLessThanWellFounded, Zenon DEF OpToRel
<1> HIDE DEF Less
<1>2. PICK n \in N : \A m \in N : <<m, n>> \notin Less
  BY <1>1, WFMin
<1>3. n - 1 \in N /\ n # 0 => <<n - 1, n>> \in Less
  BY DEF Less
<1> QED
  BY <1>2, <1>3

\* g has what a fold makes of each subset of S with the step H.
IsFold(g, S, base, H) ==
  \A s \in SUBSET S : g[s] = IF s = {} THEN base ELSE H[Pick(s)][g[s \ {Pick(s)}]]

\* A fold exists: it is made for the sets of at most n elements,
\* for one n after another.
LEMMA FoldsExist ==
  ASSUME NEW S, IsFiniteSet(S), NEW V, NEW base \in V, NEW H \in [S -> [V -> V]]
  PROVE  \E g \in [SUBSET S -> V] : IsFold(g, S, base, H)
<1> DEFINE D(n) == {s \in SUBSET S : Cardinality(s) <= n}
           At(s, g) == IF s = {} THEN base ELSE H[Pick(s)][g[s \ {Pick(s)}]]
           Known == {n \in Nat : \E g \in [D(n) -> V] : \A s \in D(n) : g[s] = At(s, g)}
<1>1. \A s \in SUBSET S : IsFiniteSet(s) /\ Cardinality(s) \in Nat /\ Cardinality(s) <= Cardinality(S)
  BY FS_Subset, FS_CardinalityType
<1>2. \A s \in SUBSET S : s # {} =>
        /\ Pick(s) \in S /\ s \ {Pick(s)} \in SUBSET S
        /\ Cardinality(s \ {Pick(s)}) = Cardinality(s) - 1
  BY PickOne
<1>3. 0 \in Known
  <2>1. \A s \in D(0) : s = {}
    BY <1>1, FS_EmptySet
  <2> DEFINE g == [s \in D(0) |-> base]
  <2>2. g \in [D(0) -> V] /\ \A s \in D(0) : g[s] = At(s, g)
    BY <2>1
  <2> QED
    BY <2>2
<1>4. ASSUME NEW n \in Nat, n \in Known PROVE n + 1 \in Known
  <2>1. PICK g \in [D(n) -> V] : \A s \in D(n) : g[s] = At(s, g)
    BY <1>4
  <2> DEFINE h == [s \in D(n + 1) |-> At(s, g)]
  <2>2. \A s \in D(n) : s \in D(n + 1)
    BY <1>1
  <2>3. \A s \in D(n) : h[s] = g[s]
    <3> HIDE DEF At, D
    <3> QED
      BY <2>1, <2>2
  <2>4. \A s \in D(n + 1) : s # {} => s \ {Pick(s)} \in D(n) /\ Pick(s) \in S
    <3> SUFFICES ASSUME NEW s \in D(n + 1), s # {}
                 PROVE  s \ {Pick(s)} \in D(n) /\ Pick(s) \in S
      OBVIOUS
    <3>1. s \in SUBSET S /\ Cardinality(s) \in Nat /\ Cardinality(s) <= n + 1
      BY <1>1
    <3>2. /\ Pick(s) \in S /\ s \ {Pick(s)} \in SUBSET S
          /\ Cardinality(s \ {Pick(s)}) = Cardinality(s) - 1
      BY <1>2, <3>1
    <3> QED
      BY <3>1, <3>2
  <2>5. \A s \in D(n + 1) : At(s, g) = At(s, h) /\ At(s, g) \in V
    <3> HIDE DEF D, h
    <3> QED
      BY <2>3, <2>4
  <2>6. h \in [D(n + 1) -> V] /\ \A s \in D(n + 1) : h[s] = At(s, h)
    <3> HIDE DEF At, D
    <3> QED
      BY <2>5
  <2> HIDE DEF h, At, D
  <2> QED
    BY <2>6
<1> HIDE DEF Known
<1>5. Nat \subseteq Known
  <2> SUFFICES ASSUME Nat \ Known # {} PROVE FALSE
    OBVIOUS
  <2>1. PICK n \in Nat \ Known : n = 0 \/ n - 1 \notin Nat \ Known
    BY LeastNumber
  <2>2. n # 0 /\ n - 1 \in Nat /\ n - 1 \in Known
    BY <1>3, <2>1
  <2>3. (n - 1) + 1 \in Known
    BY <1>4, <2>2
  <2> QED
    BY <2>1, <2>3
<1>6. PICK g \in [D(Cardinality(S)) -> V] : \A s \in D(Cardinality(S)) : g[s] = At(s, g)
  BY <1>1, <1>5 DEF Known
<1>7. D(Cardinality(S)) = SUBSET S
  BY <1>1
<1> HIDE DEF D
<1> QED
  BY <1>6, <1>7 DEF IsFold

-----------------------------------------------------------------------------
(* Sums.                                                                   *)

\* The sums of f over the subsets of its domain, and over all of it.
Sums(f) ==
  CHOOSE g : g = [s \in SUBSET DOMAIN f |->
                    IF s = {} THEN 0 ELSE f[Pick(s)] + g[s \ {Pick(s)}]]
Total(f) == Sums(f)[DOMAIN f]

\* The library's sums are these.
LEMMA Totals ==
  ASSUME NEW f
  PROVE  BagCardinality(f) = Total(f) /\ SumFunction(f) = Total(f)
BY DEF BagCardinality, SumFunction, SumFunctionOnSet, FoldFunctionOnSet, MapThenFoldSet,
       Total, Sums, Pick

LEMMA SumsAre ==
  ASSUME NEW S, IsFiniteSet(S), NEW f \in [S -> Nat]
  PROVE  /\ Sums(f) \in [SUBSET S -> Nat]
         /\ Sums(f)[{}] = 0
         /\ \A s \in SUBSET S : s # {} => Sums(f)[s] = f[Pick(s)] + Sums(f)[s \ {Pick(s)}]
<1> DEFINE Is(g) == g = [s \in SUBSET DOMAIN f |->
                           IF s = {} THEN 0 ELSE f[Pick(s)] + g[s \ {Pick(s)}]]
           H == [x \in S |-> [n \in Nat |-> f[x] + n]]
<1>1. H \in [S -> [Nat -> Nat]]
  OBVIOUS
<1>2. \A x \in S, n \in Nat : H[x][n] = f[x] + n
  OBVIOUS
<1> HIDE DEF H
<1>3. PICK g \in [SUBSET S -> Nat] : IsFold(g, S, 0, H)
  <2>1. 0 \in Nat
    OBVIOUS
  <2> QED
    BY <1>1, <2>1, FoldsExist, Zenon
<1>4. \A s \in SUBSET S : g[s] = IF s = {} THEN 0 ELSE f[Pick(s)] + g[s \ {Pick(s)}]
  <2> SUFFICES ASSUME NEW s \in SUBSET S, s # {}
               PROVE  g[s] = f[Pick(s)] + g[s \ {Pick(s)}]
    BY <1>3 DEF IsFold
  <2>1. Pick(s) \in S /\ s \ {Pick(s)} \in SUBSET S
    BY PickOne
  <2> QED
    BY <1>2, <1>3, <2>1 DEF IsFold
<1>5. Is(g)
  BY <1>4
<1>6. Is(Sums(f))
  BY <1>5 DEF Sums
<1>7. \A s \in SUBSET S :
        Sums(f)[s] = IF s = {} THEN 0 ELSE f[Pick(s)] + Sums(f)[s \ {Pick(s)}]
  BY <1>6
<1>8. DOMAIN Sums(f) = SUBSET S /\ Sums(f) = [s \in SUBSET S |-> Sums(f)[s]]
  BY <1>6
<1> HIDE DEF Is
<1> DEFINE Good == {s \in SUBSET S : Sums(f)[s] \in Nat}
<1> HIDE DEF Good
<1>9. ASSUME NEW s \in SUBSET S, \A u \in SUBSET s : u # s => u \in Good PROVE s \in Good
  <2>1. CASE s = {}
    BY <1>7, <2>1 DEF Good
  <2>2. CASE s # {}
    <3>1. Pick(s) \in S /\ s \ {Pick(s)} \in Good
      BY <1>9, <2>2, PickOne
    <3>2. Sums(f)[s \ {Pick(s)}] \in Nat
      BY <3>1 DEF Good
    <3>3. Sums(f)[s] = f[Pick(s)] + Sums(f)[s \ {Pick(s)}]
      BY <1>7, <2>2
    <3> QED
      BY <3>1, <3>2, <3>3 DEF Good
  <2> QED
    BY <2>1, <2>2
<1>11. SUBSET S \subseteq Good
  BY <1>9, SubsetInduction
<1>12. \A s \in SUBSET S : Sums(f)[s] \in Nat
  BY <1>11 DEF Good
<1>13. Sums(f) \in [SUBSET S -> Nat]
  BY <1>8, <1>12
<1> QED
  BY <1>7, <1>13

\* Any element can be taken out of a sum.
LEMMA TakeOut ==
  ASSUME NEW S, IsFiniteSet(S), NEW f \in [S -> Nat]
  PROVE  \A s \in SUBSET S : \A x \in s : Sums(f)[s] = f[x] + Sums(f)[s \ {x}]
<1> DEFINE Good == {s \in SUBSET S : \A x \in s : Sums(f)[s] = f[x] + Sums(f)[s \ {x}]}
<1>0. Sums(f) \in [SUBSET S -> Nat]
  BY SumsAre
<1>a. \A s \in SUBSET S : s # {} => Sums(f)[s] = f[Pick(s)] + Sums(f)[s \ {Pick(s)}]
  BY SumsAre, ZenonT(60)
<1>1. ASSUME NEW s \in SUBSET S, \A u \in SUBSET s : u # s => u \in Good PROVE s \in Good
  <2> SUFFICES ASSUME NEW x \in s
               PROVE  Sums(f)[s] = f[x] + Sums(f)[s \ {x}]
    OBVIOUS
  <2>1. PICK y \in s : y = Pick(s)
    BY PickOne
  <2>2. Sums(f)[s] = f[y] + Sums(f)[s \ {y}]
    BY <1>a, <2>1
  <2>3. CASE x = y
    BY <2>2, <2>3
  <2>4. CASE x # y
    <3>1. s \ {y} \in Good /\ s \ {x} \in Good
      BY <1>1
    <3>2. x \in s \ {y} /\ y \in s \ {x} /\ (s \ {y}) \ {x} = (s \ {x}) \ {y}
      BY <2>4
    <3>3. /\ Sums(f)[s \ {y}] = f[x] + Sums(f)[(s \ {y}) \ {x}]
          /\ Sums(f)[s \ {x}] = f[y] + Sums(f)[(s \ {x}) \ {y}]
      BY <3>1, <3>2
    <3>4. /\ f[x] \in Nat /\ f[y] \in Nat /\ Sums(f)[(s \ {y}) \ {x}] \in Nat
          /\ Sums(f)[s \ {y}] \in Nat /\ Sums(f)[s \ {x}] \in Nat
      BY <1>0
    <3>5. Sums(f)[(s \ {x}) \ {y}] = Sums(f)[(s \ {y}) \ {x}]
      BY <3>2
    <3> QED
      BY <2>2, <3>3, <3>4, <3>5
  <2> QED
    BY <2>3, <2>4
<1> HIDE DEF Good
<1>2. SUBSET S \subseteq Good
  BY <1>1, SubsetInduction
<1> QED
  BY <1>2 DEF Good

LEMMA TakeOneOut ==
  ASSUME NEW S, IsFiniteSet(S), NEW f, f \in [S -> Nat], NEW s, s \subseteq S, NEW x, x \in s
  PROVE  Sums(f)[s] = f[x] + Sums(f)[s \ {x}]
<1>1. ASSUME NEW t \in SUBSET S, NEW y \in t PROVE Sums(f)[t] = f[y] + Sums(f)[t \ {y}]
  BY TakeOut
<1> QED
  BY <1>1

\* A sum is that of the elements that are not zero.
LEMMA WithoutZeros ==
  ASSUME NEW S, IsFiniteSet(S), NEW f \in [S -> Nat], NEW u \in SUBSET S,
         \A x \in S : x \notin u => f[x] = 0
  PROVE  \A s \in SUBSET S : Sums(f)[s] = Sums(f)[s \cap u]
<1> DEFINE Good == {s \in SUBSET S : Sums(f)[s] = Sums(f)[s \cap u]}
<1>0. Sums(f) \in [SUBSET S -> Nat]
  BY SumsAre
<1>1. ASSUME NEW s \in SUBSET S, \A v \in SUBSET s : v # s => v \in Good PROVE s \in Good
  <2>1. CASE s \subseteq u
    <3>1. s \cap u = s
      BY <2>1
    <3> QED
      BY <3>1
  <2>2. ASSUME NEW x \in s \ u PROVE s \in Good
    <3>1. s \ {x} \in Good
      BY <1>1, <2>2
    <3>2. Sums(f)[s] = f[x] + Sums(f)[s \ {x}]
      BY TakeOut
    <3>3. f[x] = 0 /\ Sums(f)[s \ {x}] \in Nat
      BY <1>0
    <3>4. (s \ {x}) \cap u = s \cap u
      BY <2>2
    <3> QED
      BY <3>1, <3>2, <3>3, <3>4
  <2> QED
    BY <2>1, <2>2
<1> HIDE DEF Good
<1>2. SUBSET S \subseteq Good
  BY <1>1, SubsetInduction
<1> QED
  BY <1>2 DEF Good

\* Zeros add up to nothing.
LEMMA NothingToAdd ==
  ASSUME NEW S, IsFiniteSet(S)
  PROVE  Total([x \in S |-> 0]) = 0
<1> DEFINE f == [x \in S |-> 0]
           Good == {s \in SUBSET S : Sums(f)[s] = 0}
<1>1. f \in [S -> Nat] /\ DOMAIN f = S /\ \A x \in S : f[x] = 0
  OBVIOUS
<1> HIDE DEF f
<1>2. Sums(f)[{}] = 0
  BY <1>1, SumsAre
<1>3. ASSUME NEW s \in SUBSET S, \A u \in SUBSET s : u # s => u \in Good PROVE s \in Good
  <2>1. ASSUME NEW x \in s PROVE s \in Good
    <3>1. s \ {x} \in Good
      BY <1>3
    <3>2. Sums(f)[s] = f[x] + Sums(f)[s \ {x}]
      BY <1>1, TakeOneOut
    <3> QED
      BY <1>1, <3>1, <3>2
  <2> QED
    BY <1>2, <2>1
<1> HIDE DEF Good
<1>4. SUBSET S \subseteq Good
  BY <1>3, SubsetInduction
<1>5. Sums(f)[S] = 0
  BY <1>4 DEF Good
<1> QED
  BY <1>1, <1>5 DEF Total, f

\* The sum of a sum.
LEMMA SumsAdd ==
  ASSUME NEW S, IsFiniteSet(S), NEW f \in [S -> Nat], NEW g \in [S -> Nat],
         NEW h \in [S -> Nat], \A x \in S : h[x] = f[x] + g[x]
  PROVE  \A s \in SUBSET S : Sums(h)[s] = Sums(f)[s] + Sums(g)[s]
<1> DEFINE Good == {s \in SUBSET S : Sums(h)[s] = Sums(f)[s] + Sums(g)[s]}
<1>0. Sums(f) \in [SUBSET S -> Nat] /\ Sums(g) \in [SUBSET S -> Nat]
  BY SumsAre
<1>1. ASSUME NEW s \in SUBSET S, \A u \in SUBSET s : u # s => u \in Good PROVE s \in Good
  <2>1. CASE s = {}
    <3>1. Sums(h)[{}] = 0 /\ Sums(f)[{}] = 0 /\ Sums(g)[{}] = 0
      BY SumsAre
    <3> QED
      BY <2>1, <3>1
  <2>2. ASSUME NEW x \in s PROVE s \in Good
    <3>1. s \ {x} \in Good
      BY <1>1
    <3>2. Sums(f)[s] = f[x] + Sums(f)[s \ {x}]
      BY TakeOut
    <3>4. Sums(g)[s] = g[x] + Sums(g)[s \ {x}]
      BY TakeOut
    <3>5. Sums(h)[s] = h[x] + Sums(h)[s \ {x}]
      BY TakeOut
    <3>3. /\ f[x] \in Nat /\ g[x] \in Nat /\ h[x] = f[x] + g[x]
          /\ Sums(f)[s \ {x}] \in Nat /\ Sums(g)[s \ {x}] \in Nat
      BY <1>0
    <3> QED
      BY <3>1, <3>2, <3>3, <3>4, <3>5
  <2> QED
    BY <2>1, <2>2
<1> HIDE DEF Good
<1>2. SUBSET S \subseteq Good
  BY <1>1, SubsetInduction
<1> QED
  BY <1>2 DEF Good

\* A sum only depends on the elements that are added.
LEMMA SameSums ==
  ASSUME NEW S, IsFiniteSet(S), NEW f \in [S -> Nat], NEW R \in SUBSET S,
         NEW g \in [R -> Nat], \A x \in R : g[x] = f[x]
  PROVE  \A s \in SUBSET R : Sums(g)[s] = Sums(f)[s]
<1>1. IsFiniteSet(R)
  BY FS_Subset
<1> DEFINE Good == {s \in SUBSET R : Sums(g)[s] = Sums(f)[s]}
<1>2. ASSUME NEW s \in SUBSET R, \A u \in SUBSET s : u # s => u \in Good PROVE s \in Good
  <2>1. CASE s = {}
    <3>1. Sums(g)[{}] = 0 /\ Sums(f)[{}] = 0
      BY <1>1, SumsAre
    <3> QED
      BY <2>1, <3>1
  <2>2. ASSUME NEW x \in s PROVE s \in Good
    <3>1. s \ {x} \in Good
      BY <1>2
    <3>2. Sums(f)[s] = f[x] + Sums(f)[s \ {x}]
      BY TakeOut
    <3>3. Sums(g)[s] = g[x] + Sums(g)[s \ {x}]
      BY <1>1, TakeOut
    <3> QED
      BY <3>1, <3>2, <3>3
  <2> QED
    BY <2>1, <2>2
<1> HIDE DEF Good
<1>3. SUBSET R \subseteq Good
  BY <1>1, <1>2, SubsetInduction
<1> QED
  BY <1>3 DEF Good

-----------------------------------------------------------------------------
(* Error counters.                                                         *)

Keys == ErrorPatterns \cup {"total"}

\* What a counter has of each key.
Copies(ec) == [e \in Keys |-> IF e \in DOMAIN ec THEN ec[e] ELSE 0]

\* A counter whose total is the sum of its patterns, and the set of them.
Balanced(ec) ==
  /\ ec # EmptyBag => "total" \in DOMAIN ec
  /\ Copies(ec)["total"] = Sums(Copies(ec))[ErrorPatterns]

Counters == UNION {[D -> Nat \ {0}] : D \in SUBSET Keys}
BalancedCounters == {ec \in Counters : Balanced(ec)}

LEMMA KeysAre == IsFiniteSet(Keys) /\ IsFiniteSet(ErrorPatterns) /\ Keys \ {"total"} = ErrorPatterns
<1>1. IsFiniteSet(ErrorPatterns) /\ "total" \notin ErrorPatterns
  BY EtcdLogAssumption DEF EtcdLogAssumption
<1> QED
  BY <1>1, FS_AddElement DEF Keys

LEMMA CountersAre ==
  ASSUME NEW ec \in Counters
  PROVE  /\ DOMAIN ec \subseteq Keys /\ ec \in [DOMAIN ec -> Nat]
         /\ \A e \in DOMAIN ec : ec[e] > 0
         /\ Copies(ec) \in [Keys -> Nat]
         /\ \A e \in Keys : Copies(ec)[e] = IF e \in DOMAIN ec THEN ec[e] ELSE 0
<1>1. PICK D \in SUBSET Keys : ec \in [D -> Nat \ {0}]
  BY DEF Counters
<1> QED
  BY <1>1 DEF Copies

LEMMA NothingIsBalanced ==
  EmptyBag \in BalancedCounters /\ \A ec \in Counters : ec = EmptyBag <=> DOMAIN ec = {}
<1>1. EmptyBag \in [{} -> Nat \ {0}]
  BY DEF EmptyBag, SetToBag
<1>2. EmptyBag \in Counters /\ DOMAIN EmptyBag = {}
  BY <1>1 DEF Counters
<1>3. \A ec \in Counters : DOMAIN ec = {} => ec = EmptyBag
  BY <1>1, CountersAre
<1>4. Copies(EmptyBag) \in [Keys -> Nat] /\ \A e \in Keys : Copies(EmptyBag)[e] = 0
  BY <1>2, CountersAre
<1> DEFINE c == Copies(EmptyBag)
<1>5. Sums(c)[ErrorPatterns] = Sums(c)[ErrorPatterns \cap {}]
  <2>1. c \in [Keys -> Nat] /\ (\A x \in Keys : x \notin {} => c[x] = 0) /\ {} \in SUBSET Keys
        /\ ErrorPatterns \in SUBSET Keys
    BY <1>4 DEF Keys
  <2> HIDE DEF c
  <2> QED
    BY <2>1, KeysAre, WithoutZeros
<1>6. Sums(c)[{}] = 0
  <2> HIDE DEF c
  <2> QED
    BY <1>4, KeysAre, SumsAre DEF c
<1>7. Copies(EmptyBag)["total"] = 0
  BY <1>4 DEF Keys
<1>8. Balanced(EmptyBag)
  BY <1>5, <1>6, <1>7 DEF Balanced
<1> QED
  BY <1>2, <1>3, <1>8 DEF BalancedCounters

\* The counters of two logs, merged key by key, are those of both.
LEMMA Merging ==
  ASSUME NEW a \in BalancedCounters, NEW b \in BalancedCounters
  PROVE  /\ a (+) b \in BalancedCounters
         /\ \A e \in Keys : Copies(a (+) b)[e] = Copies(a)[e] + Copies(b)[e]
<1> DEFINE m == a (+) b
<1>1. /\ a \in Counters /\ Balanced(a) /\ b \in Counters /\ Balanced(b)
  BY DEF BalancedCounters
<1>2. /\ DOMAIN m = DOMAIN a \cup DOMAIN b
      /\ m = [e \in DOMAIN m |-> m[e]]
      /\ \A e \in DOMAIN m : m[e] = (IF e \in DOMAIN a THEN a[e] ELSE 0)
                                      + (IF e \in DOMAIN b THEN b[e] ELSE 0)
  BY DEF (+)
<1> HIDE DEF m
<1>3. /\ DOMAIN a \subseteq Keys /\ DOMAIN b \subseteq Keys
      /\ \A e \in DOMAIN a : a[e] \in Nat /\ a[e] > 0
      /\ \A e \in DOMAIN b : b[e] \in Nat /\ b[e] > 0
  BY <1>1, CountersAre
<1>4. m \in Counters
  <2>1. \A e \in DOMAIN m : m[e] \in Nat \ {0}
    BY <1>2, <1>3
  <2>2. m \in [DOMAIN m -> Nat \ {0}] /\ DOMAIN m \in SUBSET Keys
    BY <1>2, <1>3, <2>1
  <2> QED
    BY <2>2 DEF Counters
<1>5. /\ Copies(a) \in [Keys -> Nat] /\ Copies(b) \in [Keys -> Nat] /\ Copies(m) \in [Keys -> Nat]
  BY <1>1, <1>4, CountersAre
<1>6. \A e \in Keys : Copies(m)[e] = Copies(a)[e] + Copies(b)[e]
  BY <1>2, <1>3 DEF Copies
<1>7. Sums(Copies(m))[ErrorPatterns] = Sums(Copies(a))[ErrorPatterns] + Sums(Copies(b))[ErrorPatterns]
  <2>1. ErrorPatterns \in SUBSET Keys
    BY DEF Keys
  <2> QED
    BY <1>5, <1>6, <2>1, KeysAre, SumsAdd
<1>8. Copies(m)["total"] = Sums(Copies(m))[ErrorPatterns]
  BY <1>1, <1>6, <1>7 DEF Balanced, Keys
<1>9. m # EmptyBag => "total" \in DOMAIN m
  <2>1. m # EmptyBag => a # EmptyBag \/ b # EmptyBag
    BY <1>1, <1>2, <1>4, NothingIsBalanced
  <2> QED
    BY <1>1, <1>2, <2>1 DEF Balanced
<1> QED
  BY <1>4, <1>6, <1>8, <1>9 DEF BalancedCounters, Balanced, m

\* Only the patterns that were found make a sum.
LEMMA FoundPatterns ==
  ASSUME NEW c \in [Keys -> Nat], NEW found \in SUBSET ErrorPatterns,
         \A p \in ErrorPatterns \ found : c[p] = 0
  PROVE  Sums(c)[ErrorPatterns] = Sums(c)[found]
<1> DEFINE u == found \cup {"total"}
<1>1. /\ u \in SUBSET Keys /\ ErrorPatterns \in SUBSET Keys
      /\ IsFiniteSet(Keys) /\ ErrorPatterns \cap u = found
  BY KeysAre DEF Keys
<1>2. \A x \in Keys : x \notin u => c[x] = 0
  BY DEF Keys
<1> HIDE DEF u
<1>3. \A s \in SUBSET Keys : Sums(c)[s] = Sums(c)[s \cap u]
  BY <1>1, <1>2, WithoutZeros
<1> QED
  BY <1>1, <1>3

\* The counter of one log.
LEMMA NewIsBalanced ==
  ASSUME NEW lines \in Seq(Line), NEW patterns \in SUBSET ErrorPatterns
  PROVE  /\ NewErrorCounter(lines, patterns) \in BalancedCounters
         /\ \A p \in ErrorPatterns :
              Copies(NewErrorCounter(lines, patterns))[p] =
                IF p \in patterns THEN Matches(lines, p) ELSE 0
<1> DEFINE CountOf(p) == IF p \in patterns THEN Matches(lines, p) ELSE 0
           found == {p \in patterns : Matches(lines, p) > 0}
           counters == [p \in found |-> Matches(lines, p)]
           n == Total(counters)
           ec == counters (+) [t \in {"total"} |-> n]
<1>1. NewErrorCounter(lines, patterns) = IF found = {} THEN EmptyBag ELSE ec
  <2>1. NewErrorCounter(lines, patterns) =
          IF found = {} THEN EmptyBag ELSE counters (+) [t \in {"total"} |-> BagCardinality(counters)]
    BY Zenon DEF NewErrorCounter
  <2>2. BagCardinality(counters) = n
    BY Totals
  <2> HIDE DEF counters, n, found
  <2> QED
    BY <2>1, <2>2
<1>2. ASSUME NEW p \in ErrorPatterns PROVE Matches(lines, p) \in Nat
  <2> DEFINE f == [i \in DOMAIN lines |-> lines[i].matches[p]]
  <2>1. f \in [DOMAIN lines -> Nat] /\ IsFiniteSet(DOMAIN lines)
    <3>1. \A line \in Line : line.matches[p] \in Nat
      BY DEF Line
    <3>2. DOMAIN lines = 1..Len(lines) /\ Len(lines) \in Nat
      OBVIOUS
    <3>3. \A i \in DOMAIN lines : lines[i] \in Line
      OBVIOUS
    <3> QED
      BY <3>1, <3>2, <3>3, FS_Interval
  <2>2. Matches(lines, p) = Sums(f)[DOMAIN f]
    BY Totals DEF Matches, Total
  <2> HIDE DEF f
  <2>3. DOMAIN f = DOMAIN lines /\ Sums(f) \in [SUBSET DOMAIN lines -> Nat]
    BY <2>1, SumsAre
  <2> QED
    BY <2>2, <2>3
<1>3. /\ found \in SUBSET ErrorPatterns /\ counters \in [found -> Nat] /\ IsFiniteSet(found)
      /\ \A p \in found : counters[p] > 0 /\ counters[p] = Matches(lines, p)
      /\ \A p \in patterns \ found : Matches(lines, p) = 0
  BY <1>2, KeysAre, FS_Subset
<1> HIDE DEF found, counters
<1>4. n \in Nat /\ n = Sums(counters)[found] /\ (found # {} => n > 0)
  <2>1. DOMAIN counters = found /\ Sums(counters) \in [SUBSET found -> Nat]
    BY <1>3, SumsAre
  <2>2. ASSUME NEW p \in found PROVE Sums(counters)[found] > 0
    <3>1. Sums(counters)[found] = counters[p] + Sums(counters)[found \ {p}]
      <4>1. IsFiniteSet(found) /\ counters \in [found -> Nat] /\ found \subseteq found
        BY <1>3
      <4> QED
        BY <4>1, TakeOneOut
    <3>2. counters[p] \in Nat /\ counters[p] > 0
      BY <1>3
    <3>3. Sums(counters)[found \ {p}] \in Nat
      BY <2>1
    <3> QED
      BY <3>1, <3>2, <3>3
  <2> QED
    BY <2>1, <2>2 DEF Total
<1> HIDE DEF n
<1>5. /\ DOMAIN ec = found \cup {"total"}
      /\ \A e \in found : e # "total" /\ ec[e] = counters[e] /\ ec[e] \in Nat
      /\ ec["total"] = n
      /\ ec = [e \in DOMAIN ec |-> ec[e]]
  <2>1. "total" \notin found
    BY <1>3, KeysAre DEF Keys
  <2> QED
    BY <1>3, <1>4, <2>1 DEF (+)
<1> HIDE DEF ec
<1> SUFFICES ASSUME found # {}
             PROVE  /\ ec \in BalancedCounters
                    /\ \A p \in ErrorPatterns : Copies(ec)[p] = CountOf(p)
  <2>1. CASE found = {}
    <3>1. \A p \in ErrorPatterns : Copies(EmptyBag)[p] = 0
      BY NothingIsBalanced, CountersAre DEF BalancedCounters, Keys
    <3>2. \A p \in patterns : Matches(lines, p) = 0
      BY <1>3, <2>1
    <3>3. NewErrorCounter(lines, patterns) = EmptyBag
      BY <1>1, <2>1
    <3> QED
      BY <3>1, <3>2, <3>3, NothingIsBalanced
  <2>2. CASE found # {}
    BY <1>1, <2>2
  <2> QED
    BY <2>1, <2>2
<1>6. ec \in Counters
  <2>1. \A e \in found \cup {"total"} : ec[e] \in Nat \ {0}
    BY <1>3, <1>4, <1>5
  <2>2. ec \in [found \cup {"total"} -> Nat \ {0}]
    BY <1>5, <2>1
  <2> QED
    BY <1>3, <2>2 DEF Counters, Keys
<1> DEFINE c == Copies(ec)
<1>7. /\ c \in [Keys -> Nat] /\ c["total"] = n
      /\ \A p \in found : c[p] = counters[p]
      /\ \A p \in ErrorPatterns \ found : c[p] = 0
  <2>1. c \in [Keys -> Nat] /\ \A e \in Keys : c[e] = IF e \in DOMAIN ec THEN ec[e] ELSE 0
    BY <1>6, CountersAre
  <2> HIDE DEF c
  <2> QED
    BY <1>3, <1>5, <2>1, KeysAre DEF Keys
<1> HIDE DEF c
<1>8. Sums(c)[ErrorPatterns] = Sums(c)[found]
  BY <1>3, <1>7, FoundPatterns
<1>9. Sums(counters)[found] = Sums(c)[found]
  <2>1. found \in SUBSET Keys /\ IsFiniteSet(Keys)
    BY <1>3, KeysAre DEF Keys
  <2>2. \A s \in SUBSET found : Sums(counters)[s] = Sums(c)[s]
    <3>1. \A p \in found : counters[p] = c[p]
      BY <1>7
    <3>2. c \in [Keys -> Nat] /\ counters \in [found -> Nat]
      BY <1>3, <1>7
    <3>3. ASSUME NEW s \in SUBSET found PROVE Sums(counters)[s] = Sums(c)[s]
      BY <2>1, <3>1, <3>2, SameSums
    <3> QED
      BY <3>3
  <2> QED
    BY <2>2
<1>10. Balanced(ec)
  BY <1>4, <1>5, <1>7, <1>8, <1>9 DEF Balanced, c
<1>11. \A p \in ErrorPatterns : c[p] = CountOf(p)
  <2>1. ASSUME NEW p \in ErrorPatterns PROVE c[p] = CountOf(p)
    <3>1. CASE p \in found
      BY <1>3, <1>7, <3>1 DEF found
    <3>2. CASE p \notin found
      BY <1>3, <1>7, <3>2
    <3> QED
      BY <3>1, <3>2
  <2> QED
    BY <2>1
<1> QED
  BY <1>6, <1>10, <1>11 DEF BalancedCounters, c

\* The counters of a sequence, merged one after another.
LEMMA MergedIsBalanced ==
  ASSUME NEW ecs \in Seq(BalancedCounters)
  PROVE  /\ MergedCounters(ecs) \in BalancedCounters
         /\ \A e \in Keys :
              Copies(MergedCounters(ecs))[e] = Total([i \in DOMAIN ecs |-> Copies(ecs[i])[e]])
<1> DEFINE S == DOMAIN ecs
           Is(g) == g = [s \in SUBSET S |->
                           IF s = {} THEN EmptyBag ELSE g[s \ {Pick(s)}] (+) ecs[Pick(s)]]
           H == [i \in S |-> [ec \in BalancedCounters |-> ec (+) ecs[i]]]
<1>1. IsFiniteSet(S) /\ \A i \in S : ecs[i] \in BalancedCounters
  <2>1. S = 1..Len(ecs) /\ Len(ecs) \in Nat
    OBVIOUS
  <2> QED
    BY <2>1, FS_Interval
<1>2. H \in [S -> [BalancedCounters -> BalancedCounters]]
  BY <1>1, Merging
<1>3. \A i \in S, ec \in BalancedCounters : H[i][ec] = ec (+) ecs[i]
  OBVIOUS
<1> DEFINE all == CHOOSE g : Is(g)
<1>4. MergedCounters(ecs) = all[S]
  BY DEF MergedCounters, MergeErrorCounters, FoldSeq, FoldFunction, FoldFunctionOnSet,
         MapThenFoldSet, Pick
<1> HIDE DEF S, H
<1>5. PICK g \in [SUBSET S -> BalancedCounters] : IsFold(g, S, EmptyBag, H)
  BY <1>1, <1>2, NothingIsBalanced, FoldsExist, Zenon
<1>6. \A s \in SUBSET S : g[s] = IF s = {} THEN EmptyBag ELSE g[s \ {Pick(s)}] (+) ecs[Pick(s)]
  <2> SUFFICES ASSUME NEW s \in SUBSET S, s # {}
               PROVE  g[s] = g[s \ {Pick(s)}] (+) ecs[Pick(s)]
    BY <1>5 DEF IsFold
  <2>1. Pick(s) \in S /\ s \ {Pick(s)} \in SUBSET S
    BY <1>1, PickOne
  <2>2. g[s] = H[Pick(s)][g[s \ {Pick(s)}]]
    BY <1>5 DEF IsFold
  <2> QED
    BY <1>3, <1>5, <2>1, <2>2
<1>7. Is(g)
  BY <1>6
<1>8. Is(all)
  BY <1>7, Zenon
<1>9. \A s \in SUBSET S :
        all[s] = IF s = {} THEN EmptyBag ELSE all[s \ {Pick(s)}] (+) ecs[Pick(s)]
  BY <1>8
<1> HIDE DEF all, Is
<1> DEFINE F == [e \in Keys |-> [i \in S |-> Copies(ecs[i])[e]]]
           Good == {s \in SUBSET S : /\ all[s] \in BalancedCounters
                                     /\ \A e \in Keys : Copies(all[s])[e] = Sums(F[e])[s]}
<1>10. \A e \in Keys : /\ F[e] = [i \in S |-> Copies(ecs[i])[e]] /\ F[e] \in [S -> Nat]
                       /\ \A i \in S : F[e][i] = Copies(ecs[i])[e]
  BY <1>1, CountersAre DEF BalancedCounters
<1> HIDE DEF F
<1>11. ASSUME NEW s \in SUBSET S, \A u \in SUBSET s : u # s => u \in Good PROVE s \in Good
  <2>1. CASE s = {}
    <3>1. all[s] = EmptyBag /\ EmptyBag \in BalancedCounters
      BY <1>9, <2>1, NothingIsBalanced
    <3>2. \A e \in Keys : Copies(EmptyBag)[e] = 0
      <4>1. EmptyBag \in Counters /\ DOMAIN EmptyBag = {}
        BY NothingIsBalanced DEF BalancedCounters
      <4> QED
        BY <4>1, CountersAre
    <3>3. \A e \in Keys : Sums(F[e])[{}] = 0
      BY <1>1, <1>10, SumsAre
    <3> QED
      BY <2>1, <3>1, <3>2, <3>3
  <2>2. CASE s # {}
    <3> DEFINE i == Pick(s)
               r == s \ {i}
    <3>1. i \in s /\ i \in S /\ r \in SUBSET s /\ r # s
      BY <1>1, <2>2, PickOne
    <3>2. r \in Good
      BY <1>11, <3>1
    <3> HIDE DEF i
    <3>3. all[r] \in BalancedCounters /\ \A e \in Keys : Copies(all[r])[e] = Sums(F[e])[r]
      BY <3>2
    <3>4. ecs[i] \in BalancedCounters
      BY <1>1, <3>1
    <3>5. all[s] = all[r] (+) ecs[i]
      BY <1>9, <2>2 DEF i
    <3> HIDE DEF r
    <3>6. /\ all[s] \in BalancedCounters
          /\ \A e \in Keys : Copies(all[s])[e] = Copies(all[r])[e] + Copies(ecs[i])[e]
      BY <3>3, <3>4, <3>5, Merging
    <3>7. ASSUME NEW e \in Keys PROVE Copies(all[s])[e] = Sums(F[e])[s]
      <4>1. F[e] \in [S -> Nat] /\ F[e][i] = Copies(ecs[i])[e] /\ F[e][i] \in Nat
        BY <1>10, <3>1
      <4>2. Sums(F[e])[s] = F[e][i] + Sums(F[e])[s \ {i}]
        <5>1. IsFiniteSet(S) /\ F[e] \in [S -> Nat] /\ s \subseteq S /\ i \in s
          BY <1>1, <3>1, <4>1
        <5> QED
          BY <5>1, TakeOneOut
      <4>3. Sums(F[e])[r] \in Nat
        <5>1. Sums(F[e]) \in [SUBSET S -> Nat] /\ r \in SUBSET S
          BY <1>1, <3>1, <4>1, SumsAre
        <5> QED
          BY <5>1
      <4>4. Copies(all[s])[e] = Sums(F[e])[r] + F[e][i]
        BY <3>3, <3>6, <4>1
      <4> QED
        BY <4>1, <4>2, <4>3, <4>4 DEF r
    <3> QED
      BY <3>6, <3>7
  <2> QED
    BY <2>1, <2>2
<1> HIDE DEF Good
<1>12. SUBSET S \subseteq Good
  <2>1. IsFiniteSet(S)
    BY <1>1
  <2>2. \A s \in SUBSET S : (\A u \in SUBSET s : u # s => u \in Good) => s \in Good
    BY <1>11
  <2> QED
    BY <2>1, <2>2, SubsetInduction
<1>13. all[S] \in BalancedCounters /\ \A e \in Keys : Copies(all[S])[e] = Sums(F[e])[S]
  BY <1>12 DEF Good
<1>14. \A e \in Keys : Total([i \in S |-> Copies(ecs[i])[e]]) = Sums(F[e])[S]
  BY <1>10 DEF Total
<1> QED
  BY <1>4, <1>13, <1>14 DEF S

\* The total of a counter is the sum of the others.
LEMMA TotalIsSum ==
  ASSUME NEW ec \in BalancedCounters, ec # EmptyBag
  PROVE  ec["total"] = BagCardinality(ec) - ec["total"]
<1> DEFINE c == Copies(ec)
           D == DOMAIN ec
<1>1. /\ D \in SUBSET Keys /\ ec \in [D -> Nat] /\ c \in [Keys -> Nat]
      /\ \A e \in Keys : c[e] = IF e \in D THEN ec[e] ELSE 0
  BY CountersAre DEF BalancedCounters
<1>2. "total" \in D /\ c["total"] = Sums(c)[ErrorPatterns]
  BY DEF BalancedCounters, Balanced
<1> HIDE DEF c
<1>3. BagCardinality(ec) = Sums(ec)[D]
  BY Totals DEF Total
<1> HIDE DEF D
<1>4. Sums(ec)[D] = Sums(c)[D]
  BY <1>1, KeysAre, SameSums
<1>5. Sums(c)[Keys] = Sums(c)[D]
  <2>1. \A x \in Keys : x \notin D => c[x] = 0
    BY <1>1
  <2>2. Sums(c)[Keys] = Sums(c)[Keys \cap D]
    BY <1>1, <2>1, KeysAre, WithoutZeros
  <2> QED
    BY <1>1, <2>2
<1>6. Sums(c)[Keys] = c["total"] + Sums(c)[Keys \ {"total"}]
  <2>1. "total" \in Keys /\ Keys \in SUBSET Keys
    BY DEF Keys
  <2> QED
    BY <1>1, <2>1, KeysAre, TakeOut
<1>7. c["total"] = ec["total"] /\ ec["total"] \in Nat
  BY <1>1, <1>2
<1>8. Keys \ {"total"} = ErrorPatterns /\ Sums(ec)[D] \in Nat
  <2>1. IsFiniteSet(D)
    BY <1>1, KeysAre, FS_Subset
  <2>2. Sums(ec) \in [SUBSET D -> Nat]
    BY <1>1, <2>1, SumsAre
  <2> QED
    BY <2>2, KeysAre
<1>9. Sums(ec)[D] = ec["total"] + ec["total"]
  BY <1>2, <1>4, <1>5, <1>6, <1>7, <1>8
<1> QED
  BY <1>3, <1>7, <1>8, <1>9

\* The counters of the report.
LEMMA AggregatedIsBalanced ==
  ASSUME NEW logs \in Seq(Logs)
  PROVE  /\ Aggregated(logs).errors \in BalancedCounters
         /\ Aggregated(logs).etcdErrors \in BalancedCounters
<1>1. \A l \in Logs : Lines[l] \in Seq(Line)
  BY ReportAssumption DEF ReportAssumption
<1>2. /\ CommonErrorPatterns \in SUBSET ErrorPatterns
      /\ EtcdLogErrorPatterns \in SUBSET ErrorPatterns
  BY DEF ErrorPatterns
<1>3. \A l \in Logs : Errors(l) \in BalancedCounters
  BY <1>1, <1>2, NewIsBalanced DEF Errors
<1>4. \A l \in Logs : EtcdErrors(l) \in BalancedCounters
  <2> SUFFICES ASSUME NEW l \in Logs, l \in EtcdLogs
               PROVE  NewErrorEtcdLogs(Lines[l]).errors \in BalancedCounters
    BY NothingIsBalanced DEF EtcdErrors
  <2>1. NewErrorEtcdLogs(Lines[l]).errors = NewErrorCounter(Lines[l], EtcdLogErrorPatterns)
    BY DEF NewErrorEtcdLogs
  <2> QED
    BY <1>1, <1>2, <2>1, NewIsBalanced
<1> DEFINE ecs == [i \in DOMAIN logs |-> Errors(logs[i])]
           etcd == [i \in DOMAIN logs |-> EtcdErrors(logs[i])]
<1>5. ecs \in Seq(BalancedCounters) /\ etcd \in Seq(BalancedCounters)
  BY <1>3, <1>4
<1>6. /\ Aggregated(logs).errors = MergedCounters(ecs)
      /\ Aggregated(logs).etcdErrors = MergedCounters(etcd)
  BY DEF Aggregated
<1> HIDE DEF ecs, etcd
<1> QED
  BY <1>5, <1>6, MergedIsBalanced

\* The totals, which are merged like a pattern, are the sums of the patterns, for
\* any list of logs in any order; and there are none before all logs were parsed.
THEOREM TotalsOfAllLogs == SpecReport => []TotalsAddUp
<1>1. KeptOnce /\ AggregatedAtTheEnd => TotalsAddUp
  <2> SUFFICES ASSUME KeptOnce, AggregatedAtTheEnd,
                      NEW ec \in {mustGather.errors, mustGather.etcdErrors}, ec # EmptyBag
               PROVE  ec["total"] = BagCardinality(ec) - ec["total"] /\ reader = "aggregated"
    BY DEF TotalsAddUp
  <2>1. mustGather # NewMustGather
    BY DEF NewMustGather
  <2>2. reader = "aggregated" /\ mustGather = Aggregated(namespaceErrors)
    BY <2>1 DEF AggregatedAtTheEnd
  <2>3. ec \in BalancedCounters
    BY <2>2, AggregatedIsBalanced DEF KeptOnce
  <2> QED
    BY <2>2, <2>3, TotalIsSum
<1> QED
  BY <1>1, Listed, Outcome, PTL

-----------------------------------------------------------------------------
(* Families: functions of which only the values matter, and how often they  *)
(* come.  A sequence is one, and so are the requests by log and line.       *)

\* f and g take the indices of v and w to each other, with the same values.
Renames(f, g, v, w) ==
  /\ \A i \in DOMAIN v : g[f[i]] = i /\ w[f[i]] = v[i]
  /\ \A j \in DOMAIN w : f[g[j]] = j

Alike(v, w) ==
  \E f \in [DOMAIN v -> DOMAIN w], g \in [DOMAIN w -> DOMAIN v] : Renames(f, g, v, w)

LEMMA AlikeIsSymmetric == ASSUME NEW v, NEW w, Alike(v, w) PROVE Alike(w, v)
<1>1. PICK f \in [DOMAIN v -> DOMAIN w], g \in [DOMAIN w -> DOMAIN v] : Renames(f, g, v, w)
  BY DEF Alike
<1>2. Renames(g, f, w, v)
  BY <1>1 DEF Renames
<1> QED
  BY <1>2 DEF Alike

LEMMA AlikeIsTransitive ==
  ASSUME NEW u, NEW v, NEW w, Alike(u, v), Alike(v, w)
  PROVE  Alike(u, w)
<1>1. PICK f \in [DOMAIN u -> DOMAIN v], g \in [DOMAIN v -> DOMAIN u] : Renames(f, g, u, v)
  BY DEF Alike
<1>2. PICK h \in [DOMAIN v -> DOMAIN w], k \in [DOMAIN w -> DOMAIN v] : Renames(h, k, v, w)
  BY DEF Alike
<1> DEFINE fh == [i \in DOMAIN u |-> h[f[i]]]
           kg == [j \in DOMAIN w |-> g[k[j]]]
<1>3. fh \in [DOMAIN u -> DOMAIN w] /\ kg \in [DOMAIN w -> DOMAIN u]
  OBVIOUS
<1>4. Renames(fh, kg, u, w)
  BY <1>1, <1>2 DEF Renames
<1> QED
  BY <1>3, <1>4 DEF Alike

\* The part of a family with values of L, and its values under M.
Part(v, L) == [i \in {i \in DOMAIN v : v[i] \in L} |-> v[i]]
Under(M, v) == [i \in DOMAIN v |-> M[v[i]]]

LEMMA PartsAreAlike ==
  ASSUME NEW v, NEW w, Alike(v, w), NEW L
  PROVE  Alike(Part(v, L), Part(w, L))
<1>1. PICK f \in [DOMAIN v -> DOMAIN w], g \in [DOMAIN w -> DOMAIN v] : Renames(f, g, v, w)
  BY DEF Alike
<1> DEFINE I == {i \in DOMAIN v : v[i] \in L}
           J == {j \in DOMAIN w : w[j] \in L}
           fL == [i \in I |-> f[i]]
           gL == [j \in J |-> g[j]]
<1>2. \A i \in I : f[i] \in J
  BY <1>1 DEF Renames
<1>3. \A j \in J : g[j] \in I
  BY <1>1 DEF Renames
<1>4. fL \in [I -> J] /\ gL \in [J -> I]
  BY <1>2, <1>3
<1>5. DOMAIN Part(v, L) = I /\ DOMAIN Part(w, L) = J
  BY DEF Part
<1>6. Renames(fL, gL, Part(v, L), Part(w, L))
  BY <1>1, <1>2, <1>3 DEF Renames, Part
<1> HIDE DEF fL, gL, I, J
<1> QED
  BY <1>4, <1>5, <1>6 DEF Alike

LEMMA ImagesAreAlike ==
  ASSUME NEW v, NEW w, Alike(v, w), NEW M
  PROVE  Alike(Under(M, v), Under(M, w))
<1>1. PICK f \in [DOMAIN v -> DOMAIN w], g \in [DOMAIN w -> DOMAIN v] : Renames(f, g, v, w)
  BY DEF Alike
<1>2. Renames(f, g, Under(M, v), Under(M, w))
  BY <1>1 DEF Renames, Under
<1>3. DOMAIN Under(M, v) = DOMAIN v /\ DOMAIN Under(M, w) = DOMAIN w
  BY DEF Under
<1> QED
  BY <1>2, <1>3 DEF Alike

LEMMA AlikeCount ==
  ASSUME NEW v, NEW w, Alike(v, w), IsFiniteSet(DOMAIN v)
  PROVE  IsFiniteSet(DOMAIN w) /\ Cardinality(DOMAIN w) = Cardinality(DOMAIN v)
<1>1. PICK f \in [DOMAIN v -> DOMAIN w], g \in [DOMAIN w -> DOMAIN v] : Renames(f, g, v, w)
  BY DEF Alike
<1>2. f \in Bijection(DOMAIN v, DOMAIN w)
  BY <1>1 DEF Bijection, Injection, Surjection, IsInjective, Renames
<1> QED
  BY <1>2, FS_Bijection DEF ExistsBijection

LEMMA AlikeValues == ASSUME NEW v, NEW w, Alike(v, w) PROVE Range(v) = Range(w)
<1>1. PICK f \in [DOMAIN v -> DOMAIN w], g \in [DOMAIN w -> DOMAIN v] : Renames(f, g, v, w)
  BY DEF Alike
<1> QED
  BY <1>1 DEF Renames, Range

LEMMA AlikeTotals ==
  ASSUME NEW I, IsFiniteSet(I), NEW J, IsFiniteSet(J),
         NEW v \in [I -> Nat], NEW w \in [J -> Nat], Alike(v, w)
  PROVE  Total(v) = Total(w)
<1>0. \A t \in SUBSET J : \A x \in t : Sums(w)[t] = w[x] + Sums(w)[t \ {x}]
  <2> SUFFICES ASSUME NEW t \in SUBSET J, NEW x \in t
               PROVE  Sums(w)[t] = w[x] + Sums(w)[t \ {x}]
    OBVIOUS
  <2> QED
    BY TakeOut
<1>1. PICK f \in [I -> J], g \in [J -> I] : Renames(f, g, v, w)
  BY DEF Alike
<1> DEFINE Image(s) == {f[i] : i \in s}
           Good == {s \in SUBSET I : Sums(v)[s] = Sums(w)[Image(s)]}
<1>2. ASSUME NEW s \in SUBSET I, \A u \in SUBSET s : u # s => u \in Good PROVE s \in Good
  <2>1. CASE s = {}
    <3>1. Sums(v)[{}] = 0 /\ Sums(w)[{}] = 0
      BY SumsAre
    <3>2. Image(s) = {}
      BY <2>1
    <3> QED
      BY <2>1, <3>1, <3>2
  <2>2. ASSUME NEW i \in s PROVE s \in Good
    <3>1. s \ {i} \in Good
      BY <1>2
    <3>2. Sums(v)[s] = v[i] + Sums(v)[s \ {i}]
      BY TakeOut
    <3>3. Image(s) \in SUBSET J /\ f[i] \in Image(s)
      OBVIOUS
    <3>4. Image(s) \ {f[i]} = Image(s \ {i})
      BY <1>1 DEF Renames
    <3> HIDE DEF Image
    <3>5. Sums(w)[Image(s)] = w[f[i]] + Sums(w)[Image(s) \ {f[i]}]
      BY <1>0, <3>3
    <3>6. w[f[i]] = v[i]
      BY <1>1 DEF Renames
    <3> QED
      BY <3>1, <3>2, <3>4, <3>5, <3>6
  <2> QED
    BY <2>1, <2>2
<1>3. Image(I) = J
  BY <1>1 DEF Renames
<1> HIDE DEF Good
<1>4. SUBSET I \subseteq Good
  BY <1>2, SubsetInduction
<1>5. Sums(v)[I] = Sums(w)[J]
  BY <1>3, <1>4 DEF Good
<1> QED
  BY <1>5 DEF Total

-----------------------------------------------------------------------------
(* Families of families, and sequences of sequences.                       *)

\* The members of the families, each by its family and its index in it.
Pairs(u) == UNION {{i} \X DOMAIN u[i] : i \in DOMAIN u}
Joined(u) == [x \in Pairs(u) |-> u[x[1]][x[2]]]

LEMMA PairsAre ==
  ASSUME NEW u
  PROVE  /\ DOMAIN Joined(u) = Pairs(u)
         /\ \A x \in Pairs(u) : /\ x[1] \in DOMAIN u /\ x[2] \in DOMAIN u[x[1]]
                                /\ x = <<x[1], x[2]>> /\ Joined(u)[x] = u[x[1]][x[2]]
         /\ \A i \in DOMAIN u : \A j \in DOMAIN u[i] :
              <<i, j>> \in Pairs(u) /\ Joined(u)[<<i, j>>] = u[i][j]
<1>1. \A i \in DOMAIN u : \A j \in DOMAIN u[i] : <<i, j>> \in Pairs(u)
  BY DEF Pairs
<1>2. \A x \in Pairs(u) : x[1] \in DOMAIN u /\ x[2] \in DOMAIN u[x[1]] /\ x = <<x[1], x[2]>>
  BY DEF Pairs
<1> QED
  BY <1>1, <1>2 DEF Joined

LEMMA JoinsAreAlike ==
  ASSUME NEW u, NEW v, DOMAIN u = DOMAIN v, \A i \in DOMAIN u : Alike(u[i], v[i])
  PROVE  Alike(Joined(u), Joined(v))
<1> DEFINE I == DOMAIN u
           F == [i \in I |-> CHOOSE f \in [DOMAIN u[i] -> DOMAIN v[i]] :
                               \E g \in [DOMAIN v[i] -> DOMAIN u[i]] : Renames(f, g, u[i], v[i])]
           G == [i \in I |-> CHOOSE g \in [DOMAIN v[i] -> DOMAIN u[i]] :
                               Renames(F[i], g, u[i], v[i])]
<1>1. ASSUME NEW i \in I
      PROVE  /\ F[i] \in [DOMAIN u[i] -> DOMAIN v[i]] /\ G[i] \in [DOMAIN v[i] -> DOMAIN u[i]]
             /\ Renames(F[i], G[i], u[i], v[i])
  <2>1. \E f \in [DOMAIN u[i] -> DOMAIN v[i]] :
          \E g \in [DOMAIN v[i] -> DOMAIN u[i]] : Renames(f, g, u[i], v[i])
    BY DEF Alike
  <2>2. /\ F[i] \in [DOMAIN u[i] -> DOMAIN v[i]]
        /\ \E g \in [DOMAIN v[i] -> DOMAIN u[i]] : Renames(F[i], g, u[i], v[i])
    BY <2>1
  <2>3. G[i] = CHOOSE g \in [DOMAIN v[i] -> DOMAIN u[i]] : Renames(F[i], g, u[i], v[i])
    OBVIOUS
  <2> HIDE DEF F, G
  <2> QED
    BY <2>2, <2>3
<1> HIDE DEF F, G
<1> DEFINE f == [x \in Pairs(u) |-> <<x[1], F[x[1]][x[2]]>>]
           g == [x \in Pairs(v) |-> <<x[1], G[x[1]][x[2]]>>]
<1>2. ASSUME NEW x \in Pairs(u)
      PROVE  f[x] \in Pairs(v) /\ g[f[x]] = x /\ Joined(v)[f[x]] = Joined(u)[x]
  <2>1. x[1] \in I /\ x[2] \in DOMAIN u[x[1]] /\ x = <<x[1], x[2]>> /\ Joined(u)[x] = u[x[1]][x[2]]
    BY PairsAre
  <2> DEFINE i == x[1]
             j == x[2]
  <2>2. F[i][j] \in DOMAIN v[i] /\ G[i][F[i][j]] = j /\ v[i][F[i][j]] = u[i][j]
    BY <1>1, <2>1 DEF Renames
  <2>3. f[x] = <<i, F[i][j]>>
    OBVIOUS
  <2>4. f[x] \in Pairs(v) /\ Joined(v)[f[x]] = v[i][F[i][j]]
    BY <2>1, <2>2, <2>3, PairsAre
  <2>5. g[f[x]] = <<i, G[i][F[i][j]]>>
    BY <2>3, <2>4
  <2> QED
    BY <2>1, <2>2, <2>4, <2>5
<1>3. ASSUME NEW x \in Pairs(v) PROVE g[x] \in Pairs(u) /\ f[g[x]] = x
  <2>1. x[1] \in I /\ x[2] \in DOMAIN v[x[1]] /\ x = <<x[1], x[2]>>
    BY PairsAre
  <2> DEFINE i == x[1]
             j == x[2]
  <2>2. G[i][j] \in DOMAIN u[i] /\ F[i][G[i][j]] = j
    BY <1>1, <2>1 DEF Renames
  <2>3. g[x] = <<i, G[i][j]>>
    OBVIOUS
  <2>4. g[x] \in Pairs(u)
    BY <2>1, <2>2, <2>3, PairsAre
  <2>5. f[g[x]] = <<i, F[i][G[i][j]]>>
    BY <2>3, <2>4
  <2> QED
    BY <2>1, <2>2, <2>4, <2>5
<1>4. f \in [Pairs(u) -> Pairs(v)] /\ g \in [Pairs(v) -> Pairs(u)]
  BY <1>2, <1>3
<1>5. Renames(f, g, Joined(u), Joined(v))
  <2> HIDE DEF f, g
  <2> QED
    BY <1>2, <1>3, PairsAre DEF Renames
<1> HIDE DEF f, g
<1> QED
  BY <1>4, <1>5, PairsAre DEF Alike

\* Finitely many finite families have finitely many members.
LEMMA PairsAreFinite ==
  ASSUME NEW u, IsFiniteSet(DOMAIN u), \A i \in DOMAIN u : IsFiniteSet(DOMAIN u[i])
  PROVE  IsFiniteSet(Pairs(u))
<1> DEFINE I == DOMAIN u
           Fits(s) == UNION {{i} \X DOMAIN u[i] : i \in s}
           Good == {s \in SUBSET I : IsFiniteSet(Fits(s))}
<1>1. ASSUME NEW s \in SUBSET I, \A t \in SUBSET s : t # s => t \in Good PROVE s \in Good
  <2>1. CASE s = {}
    <3>1. Fits(s) = {}
      BY <2>1
    <3> QED
      BY <3>1, FS_EmptySet
  <2>2. ASSUME NEW i \in s PROVE s \in Good
    <3>1. s \ {i} \in Good
      BY <1>1
    <3>2. Fits(s) = Fits(s \ {i}) \cup ({i} \X DOMAIN u[i])
      OBVIOUS
    <3>3. IsFiniteSet({i} \X DOMAIN u[i])
      BY FS_Singleton, FS_Product
    <3>4. IsFiniteSet(Fits(s \ {i}))
      BY <3>1
    <3> HIDE DEF Fits
    <3>5. IsFiniteSet(Fits(s \ {i}) \cup ({i} \X DOMAIN u[i]))
      BY <3>3, <3>4, FS_Union, Zenon
    <3> QED
      BY <3>2, <3>5
  <2> QED
    BY <2>1, <2>2
<1> HIDE DEF Good
<1>2. SUBSET I \subseteq Good
  BY <1>1, SubsetInduction
<1>3. IsFiniteSet(Fits(I))
  BY <1>2 DEF Good
<1>4. Pairs(u) = Fits(I)
  BY DEF Pairs
<1> HIDE DEF Fits
<1> QED
  BY <1>3, <1>4

\* The total of the members is the total of the totals of the families.
LEMMA TotalOfJoin ==
  ASSUME NEW I, IsFiniteSet(I), NEW u, DOMAIN u = I,
         \A i \in I : IsFiniteSet(DOMAIN u[i]) /\ u[i] \in [DOMAIN u[i] -> Nat]
  PROVE  Total(Joined(u)) = Total([i \in I |-> Total(u[i])])
<1> DEFINE P == Pairs(u)
           J == Joined(u)
           T == [i \in I |-> Total(u[i])]
           Fits(s) == UNION {{i} \X DOMAIN u[i] : i \in s}
<1>1. IsFiniteSet(P)
  BY PairsAreFinite
<1>2. J \in [P -> Nat] /\ \A i \in I : \A j \in DOMAIN u[i] : <<i, j>> \in P /\ J[<<i, j>>] = u[i][j]
  <2>1. \A x \in P : x[1] \in I /\ x[2] \in DOMAIN u[x[1]] /\ J[x] = u[x[1]][x[2]]
    BY PairsAre
  <2>2. \A x \in P : J[x] \in Nat
    BY <2>1
  <2>3. \A i \in I : \A j \in DOMAIN u[i] : <<i, j>> \in P /\ J[<<i, j>>] = u[i][j]
    BY PairsAre
  <2>4. J = [x \in P |-> J[x]]
    BY DEF Joined
  <2> HIDE DEF J, P
  <2> QED
    BY <2>2, <2>3, <2>4
<1> HIDE DEF J
<1>3. \A i \in I : /\ Sums(u[i]) \in [SUBSET DOMAIN u[i] -> Nat] /\ Sums(u[i])[{}] = 0
                   /\ Total(u[i]) = Sums(u[i])[DOMAIN u[i]] /\ Total(u[i]) \in Nat
  <2> SUFFICES ASSUME NEW i \in I
               PROVE  /\ Sums(u[i]) \in [SUBSET DOMAIN u[i] -> Nat] /\ Sums(u[i])[{}] = 0
                      /\ Total(u[i]) = Sums(u[i])[DOMAIN u[i]] /\ Total(u[i]) \in Nat
    OBVIOUS
  <2>1. IsFiniteSet(DOMAIN u[i]) /\ u[i] \in [DOMAIN u[i] -> Nat]
    OBVIOUS
  <2>2. Sums(u[i]) \in [SUBSET DOMAIN u[i] -> Nat] /\ Sums(u[i])[{}] = 0
    BY <2>1, SumsAre
  <2>3. DOMAIN u[i] \in SUBSET DOMAIN u[i]
    OBVIOUS
  <2> QED
    BY <2>2, <2>3 DEF Total
<1>4. T \in [I -> Nat] /\ \A i \in I : T[i] = Total(u[i])
  BY <1>3
<1> HIDE DEF T
<1>5. Sums(J) \in [SUBSET P -> Nat] /\ Sums(J)[{}] = 0
  BY <1>1, <1>2, SumsAre
<1>6. Sums(T) \in [SUBSET I -> Nat] /\ Sums(T)[{}] = 0
  BY <1>4, SumsAre
<1>7. ASSUME NEW i \in I, NEW A \in SUBSET P, \A j \in DOMAIN u[i] : <<i, j>> \notin A
      PROVE  Sums(J)[A \cup ({i} \X DOMAIN u[i])] = Sums(J)[A] + T[i]
  <2> DEFINE D == DOMAIN u[i]
             With(t) == A \cup ({i} \X t)
             Good == {t \in SUBSET D : Sums(J)[With(t)] = Sums(J)[A] + Sums(u[i])[t]}
  <2>1. /\ IsFiniteSet(D) /\ u[i] \in [D -> Nat] /\ Sums(u[i]) \in [SUBSET D -> Nat]
        /\ Sums(u[i])[{}] = 0 /\ T[i] = Sums(u[i])[D] /\ Sums(J)[A] \in Nat
        /\ \A j \in D : <<i, j>> \in P /\ J[<<i, j>>] = u[i][j] /\ <<i, j>> \notin A
    BY <1>2, <1>3, <1>4, <1>5, <1>7
  <2> HIDE DEF D
  <2>2. ASSUME NEW t \in SUBSET D, \A v \in SUBSET t : v # t => v \in Good PROVE t \in Good
    <3>1. CASE t = {}
      <4>1. With(t) = A
        BY <3>1
      <4>2. Sums(u[i])[t] = 0 /\ Sums(J)[A] \in Nat
        BY <2>1, <3>1
      <4> HIDE DEF With
      <4>3. Sums(J)[With(t)] = Sums(J)[A] + Sums(u[i])[t]
        BY <4>1, <4>2
      <4> QED
        BY <4>3
    <3>2. ASSUME NEW j \in t PROVE t \in Good
      <4>1. t \ {j} \in Good
        BY <2>2
      <4>2. Sums(u[i])[t] = u[i][j] + Sums(u[i])[t \ {j}]
        BY <2>1, TakeOut
      <4>3. With(t) \in SUBSET P /\ <<i, j>> \in With(t)
        BY <2>1
      <4>4. With(t) \ {<<i, j>>} = With(t \ {j})
        BY <2>1
      <4>5. \A s \in SUBSET P : \A x \in s : Sums(J)[s] = J[x] + Sums(J)[s \ {x}]
        <5>1. J \in [P -> Nat] /\ IsFiniteSet(P)
          BY <1>1, <1>2
        <5> HIDE DEF P, With, Fits
        <5> SUFFICES ASSUME NEW s \in SUBSET P, NEW x \in s
                     PROVE  Sums(J)[s] = J[x] + Sums(J)[s \ {x}]
          OBVIOUS
        <5> QED
          BY <5>1, TakeOut
      <4>6. Sums(J)[With(t \ {j})] = Sums(J)[A] + Sums(u[i])[t \ {j}]
        BY <4>1
      <4> HIDE DEF With
      <4>7. Sums(J)[With(t)] = J[<<i, j>>] + Sums(J)[With(t \ {j})]
        BY <4>3, <4>4, <4>5
      <4>8. /\ J[<<i, j>>] = u[i][j] /\ u[i][j] \in Nat
            /\ Sums(u[i])[t \ {j}] \in Nat /\ Sums(J)[A] \in Nat
        BY <2>1
      <4> QED
        BY <4>2, <4>6, <4>7, <4>8
    <3> QED
      BY <3>1, <3>2
  <2> HIDE DEF Good
  <2>3. SUBSET D \subseteq Good
    <3>1. IsFiniteSet(D)
      BY <2>1
    <3> QED
      BY <2>2, <3>1, SubsetInduction
  <2>4. Sums(J)[With(D)] = Sums(J)[A] + Sums(u[i])[D]
    BY <2>3 DEF Good
  <2> QED
    BY <2>1, <2>4 DEF D
<1> DEFINE Good == {s \in SUBSET I : Sums(J)[Fits(s)] = Sums(T)[s]}
<1>8. ASSUME NEW s \in SUBSET I, \A t \in SUBSET s : t # s => t \in Good PROVE s \in Good
  <2>1. CASE s = {}
    <3>1. Fits(s) = {}
      BY <2>1
    <3> QED
      BY <1>5, <1>6, <2>1, <3>1
  <2>2. ASSUME NEW i \in s PROVE s \in Good
    <3>1. s \ {i} \in Good
      BY <1>8
    <3> DEFINE A == Fits(s \ {i})
    <3>2. Fits(s) = A \cup ({i} \X DOMAIN u[i])
      OBVIOUS
    <3>3. A \in SUBSET P /\ \A j \in DOMAIN u[i] : <<i, j>> \notin A
      BY DEF Pairs
    <3>4. Sums(J)[A] = Sums(T)[s \ {i}]
      BY <3>1
    <3> HIDE DEF A, Fits
    <3>5. Sums(J)[Fits(s)] = Sums(J)[A] + T[i]
      BY <1>7, <3>2, <3>3
    <3>6. Sums(T)[s] = T[i] + Sums(T)[s \ {i}]
      BY <1>4, TakeOut
    <3>7. T[i] \in Nat /\ Sums(T)[s \ {i}] \in Nat
      BY <1>4, <1>6
    <3> QED
      BY <3>4, <3>5, <3>6, <3>7
  <2> QED
    BY <2>1, <2>2
<1> HIDE DEF Good
<1>9. SUBSET I \subseteq Good
  BY <1>8, SubsetInduction
<1>10. Sums(J)[Fits(I)] = Sums(T)[I]
  BY <1>9 DEF Good
<1>11. Fits(I) = P /\ DOMAIN J = P /\ DOMAIN T = I
  BY <1>2, <1>4 DEF Pairs
<1> HIDE DEF Fits, P
<1> QED
  BY <1>10, <1>11 DEF Total, J, T

\* The first k sequences of a sequence of them, one after another.
Begins(f, ss, n) ==
  /\ DOMAIN f = 1..n
  /\ \A i \in 1..n : f[i] = IF i = 1 THEN ss[i] ELSE f[i - 1] \o ss[i]

LEMMA BeginningsExist ==
  ASSUME NEW T, NEW ss \in Seq(Seq(T)), NEW n \in Nat, n <= Len(ss)
  PROVE  \E f \in [1..n -> Seq(T)] : Begins(f, ss, n)
<1> DEFINE Known == {k \in Nat : k <= Len(ss) => \E f \in [1..k -> Seq(T)] : Begins(f, ss, k)}
<1>1. 0 \in Known
  <2> DEFINE f == [i \in 1..0 |-> <<>>]
  <2>1. f \in [1..0 -> Seq(T)] /\ Begins(f, ss, 0)
    BY DEF Begins
  <2> HIDE DEF f
  <2> QED
    BY <2>1
<1>2. ASSUME NEW k \in Nat, k \in Known PROVE k + 1 \in Known
  <2> SUFFICES ASSUME k + 1 <= Len(ss)
               PROVE  \E f \in [1..(k + 1) -> Seq(T)] : Begins(f, ss, k + 1)
    OBVIOUS
  <2>1. PICK f \in [1..k -> Seq(T)] : Begins(f, ss, k)
    BY <1>2
  <2> DEFINE h == [i \in 1..(k + 1) |-> IF i <= k THEN f[i]
                                         ELSE IF k = 0 THEN ss[1] ELSE f[k] \o ss[k + 1]]
  <2>2. k + 1 \in DOMAIN ss /\ ss[k + 1] \in Seq(T)
    OBVIOUS
  <2>3. h \in [1..(k + 1) -> Seq(T)]
    <3>1. \A i \in 1..k : f[i] \in Seq(T)
      OBVIOUS
    <3>2. k # 0 => f[k] \o ss[k + 1] \in Seq(T)
      <4>1. k # 0 => f[k] \in Seq(T)
        BY <3>1
      <4> QED
        BY <2>2, <4>1
    <3> QED
      BY <2>2, <3>1, <3>2
  <2>4. \A i \in 1..k : h[i] = f[i]
    OBVIOUS
  <2>5. h[k + 1] = IF k = 0 THEN ss[1] ELSE h[k] \o ss[k + 1]
    BY <2>4
  <2> HIDE DEF h
  <2>6. Begins(h, ss, k + 1)
    <3> SUFFICES ASSUME NEW i \in 1..(k + 1)
                 PROVE  h[i] = IF i = 1 THEN ss[i] ELSE h[i - 1] \o ss[i]
      BY <2>3 DEF Begins
    <3>1. CASE i = k + 1
      BY <2>5, <3>1
    <3>2. CASE i # k + 1
      <4>1. i \in 1..k /\ (i # 1 => i - 1 \in 1..k)
        BY <3>2
      <4>2. f[i] = IF i = 1 THEN ss[i] ELSE f[i - 1] \o ss[i]
        BY <2>1, <4>1 DEF Begins
      <4> QED
        BY <2>4, <4>1, <4>2
    <3> QED
      BY <3>1, <3>2
  <2> QED
    BY <2>3, <2>6
<1> HIDE DEF Known
<1>3. Nat \subseteq Known
  <2> SUFFICES ASSUME Nat \ Known # {} PROVE FALSE
    OBVIOUS
  <2>1. PICK k \in Nat \ Known : k = 0 \/ k - 1 \notin Nat \ Known
    BY LeastNumber
  <2>2. k # 0 /\ k - 1 \in Nat /\ k - 1 \in Known
    BY <1>1, <2>1
  <2>3. (k - 1) + 1 \in Known
    BY <1>2, <2>2
  <2> QED
    BY <2>1, <2>3
<1> QED
  BY <1>3 DEF Known

\* A sequence is a family of its members.
LEMMA Members ==
  ASSUME NEW T, NEW s \in Seq(T)
  PROVE  /\ DOMAIN s = 1..Len(s) /\ Len(s) \in Nat /\ IsFiniteSet(DOMAIN s)
         /\ \A i \in DOMAIN s : s[i] \in T
<1>1. DOMAIN s = 1..Len(s) /\ Len(s) \in Nat
  OBVIOUS
<1> QED
  BY <1>1, FS_Interval

LEMMA Concatenated ==
  ASSUME NEW T, NEW s \in Seq(T), NEW t \in Seq(T), NEW k \in Nat, NEW u, NEW v,
         DOMAIN u = 1..k, DOMAIN v = 1..(k + 1), \A i \in 1..k : v[i] = u[i], v[k + 1] = t,
         Alike(s, Joined(u))
  PROVE  Alike(s \o t, Joined(v))
<1>1. PICK f \in [DOMAIN s -> Pairs(u)], g \in [Pairs(u) -> DOMAIN s] : Renames(f, g, s, Joined(u))
  BY PairsAre DEF Alike
<1> DEFINE st == s \o t
           n == Len(s)
           h == [i \in DOMAIN st |-> IF i <= n THEN f[i] ELSE <<k + 1, i - n>>]
           m == [x \in Pairs(v) |-> IF x[1] = k + 1 THEN n + x[2] ELSE g[x]]
<1>2. /\ DOMAIN s = 1..n /\ n \in Nat /\ DOMAIN t = 1..Len(t) /\ Len(t) \in Nat
      /\ DOMAIN st = 1..(n + Len(t))
      /\ \A i \in 1..n : st[i] = s[i]
      /\ \A j \in 1..Len(t) : st[n + j] = t[j]
  OBVIOUS
<1> HIDE DEF st, n
<1>a. \A i \in DOMAIN v : \A j \in DOMAIN v[i] :
        <<i, j>> \in Pairs(v) /\ Joined(v)[<<i, j>>] = v[i][j]
  BY PairsAre
<1>3. \A x \in Pairs(u) : x \in Pairs(v) /\ x[1] # k + 1 /\ Joined(v)[x] = Joined(u)[x]
  <2> SUFFICES ASSUME NEW x \in Pairs(u)
               PROVE  x \in Pairs(v) /\ x[1] # k + 1 /\ Joined(v)[x] = Joined(u)[x]
    OBVIOUS
  <2>1. x[1] \in 1..k /\ x[2] \in DOMAIN u[x[1]] /\ x = <<x[1], x[2]>> /\ Joined(u)[x] = u[x[1]][x[2]]
    BY PairsAre
  <2>2. x[1] \in DOMAIN v /\ v[x[1]] = u[x[1]] /\ x[1] # k + 1
    BY <2>1
  <2>3. <<x[1], x[2]>> \in Pairs(v) /\ Joined(v)[<<x[1], x[2]>>] = v[x[1]][x[2]]
    BY <1>a, <2>1, <2>2
  <2> QED
    BY <2>1, <2>2, <2>3
<1>4. \A j \in 1..Len(t) : <<k + 1, j>> \in Pairs(v) /\ Joined(v)[<<k + 1, j>>] = t[j]
  <2>1. k + 1 \in DOMAIN v /\ DOMAIN v[k + 1] = 1..Len(t)
    BY <1>2
  <2> QED
    BY <1>a, <2>1
<1>5. \A x \in Pairs(v) : \/ x \in Pairs(u) /\ x[1] # k + 1
                          \/ x[1] = k + 1 /\ x[2] \in 1..Len(t) /\ x = <<k + 1, x[2]>>
  <2> SUFFICES ASSUME NEW x \in Pairs(v), x[1] # k + 1 \/ x[1] = k + 1
               PROVE  \/ x \in Pairs(u) /\ x[1] # k + 1
                      \/ x[1] = k + 1 /\ x[2] \in 1..Len(t) /\ x = <<k + 1, x[2]>>
    OBVIOUS
  <2>1. x[1] \in 1..(k + 1) /\ x[2] \in DOMAIN v[x[1]] /\ x = <<x[1], x[2]>>
    BY PairsAre
  <2>2. CASE x[1] = k + 1
    BY <1>2, <2>1, <2>2
  <2>3. CASE x[1] # k + 1
    <3>1. x[1] \in DOMAIN u /\ v[x[1]] = u[x[1]]
      BY <2>1, <2>3
    <3>2. <<x[1], x[2]>> \in Pairs(u)
      <4>1. x[2] \in DOMAIN u[x[1]]
        BY <2>1, <3>1
      <4> QED
        BY <3>1, <4>1, PairsAre
    <3> QED
      BY <2>1, <2>3, <3>2
  <2> QED
    BY <2>2, <2>3
<1>6. ASSUME NEW i \in DOMAIN st
      PROVE  h[i] \in Pairs(v) /\ m[h[i]] = i /\ Joined(v)[h[i]] = st[i]
  <2>1. CASE i <= n
    <3>1. i \in 1..n /\ h[i] = f[i]
      BY <1>2, <2>1
    <3>2. f[i] \in Pairs(u) /\ g[f[i]] = i /\ Joined(u)[f[i]] = s[i]
      BY <1>1, <1>2, <3>1 DEF Renames
    <3>3. h[i] \in Pairs(v) /\ h[i][1] # k + 1 /\ Joined(v)[h[i]] = s[i]
      BY <1>3, <3>1, <3>2
    <3>4. m[h[i]] = g[h[i]]
      BY <3>3
    <3> QED
      BY <1>2, <3>1, <3>2, <3>3, <3>4
  <2>2. CASE ~(i <= n)
    <3> DEFINE j == i - n
    <3>1. j \in 1..Len(t) /\ i = n + j /\ h[i] = <<k + 1, j>>
      BY <1>2, <2>2
    <3> HIDE DEF j
    <3>2. h[i] \in Pairs(v) /\ Joined(v)[h[i]] = t[j]
      BY <1>4, <3>1
    <3>3. m[h[i]] = n + j
      BY <3>1, <3>2
    <3> QED
      BY <1>2, <3>1, <3>2, <3>3
  <2> QED
    BY <2>1, <2>2
<1>7. ASSUME NEW x \in Pairs(v) PROVE m[x] \in DOMAIN st /\ h[m[x]] = x
  <2>1. CASE x \in Pairs(u) /\ x[1] # k + 1
    <3>1. m[x] = g[x] /\ g[x] \in 1..n /\ f[g[x]] = x
      BY <1>1, <1>2, <2>1, PairsAre DEF Renames
    <3>2. g[x] \in DOMAIN st /\ g[x] <= n
      BY <1>2, <3>1
    <3> QED
      BY <3>1, <3>2
  <2>2. CASE x[1] = k + 1 /\ x[2] \in 1..Len(t) /\ x = <<k + 1, x[2]>>
    <3> DEFINE j == x[2]
    <3>1. m[x] = n + j /\ j \in 1..Len(t) /\ x = <<k + 1, j>>
      BY <2>2
    <3> HIDE DEF j
    <3>2. n + j \in DOMAIN st /\ ~(n + j <= n) /\ (n + j) - n = j
      BY <1>2, <3>1
    <3>3. h[n + j] = <<k + 1, j>>
      BY <3>2
    <3> QED
      BY <3>1, <3>2, <3>3
  <2> QED
    BY <1>5, <2>1, <2>2
<1>8. h \in [DOMAIN st -> Pairs(v)] /\ m \in [Pairs(v) -> DOMAIN st]
  BY <1>6, <1>7
<1> HIDE DEF h, m
<1>9. Renames(h, m, st, Joined(v))
  BY <1>6, <1>7, PairsAre DEF Renames
<1>10. Alike(st, Joined(v))
  BY <1>8, <1>9, PairsAre DEF Alike
<1> QED
  BY <1>10 DEF st

\* What is flattened has the members of all sequences.
LEMMA Flattened ==
  ASSUME NEW T, NEW ss \in Seq(Seq(T))
  PROVE  FlattenSeq(ss) \in Seq(T) /\ Alike(FlattenSeq(ss), Joined(ss))
<1> DEFINE n == Len(ss)
           all == CHOOSE f : f = [i \in 1..n |-> IF i = 1 THEN ss[i] ELSE f[i - 1] \o ss[i]]
           first(k) == [i \in 1..k |-> ss[i]]
           Good == {k \in Nat : k <= n => \/ k = 0
                                          \/ all[k] \in Seq(T) /\ Alike(all[k], Joined(first(k)))}
<1>1. DOMAIN ss = 1..n /\ n \in Nat /\ \A i \in 1..n : ss[i] \in Seq(T)
  OBVIOUS
<1>2. FlattenSeq(ss) = IF n = 0 THEN ss ELSE all[n]
  BY DEF FlattenSeq
<1> HIDE DEF n
<1>3. Begins(all, ss, n)
  <2>1. PICK f \in [1..n -> Seq(T)] : Begins(f, ss, n)
    <3>1. n <= Len(ss)
      BY <1>1 DEF n
    <3> QED
      BY <1>1, <3>1, BeginningsExist
  <2>2. f = [i \in 1..n |-> IF i = 1 THEN ss[i] ELSE f[i - 1] \o ss[i]]
    BY <2>1 DEF Begins
  <2>3. all = [i \in 1..n |-> IF i = 1 THEN ss[i] ELSE all[i - 1] \o ss[i]]
    BY <2>2
  <2> HIDE DEF all
  <2> QED
    BY <2>3 DEF Begins
<1> HIDE DEF all
<1>4. <<>> \in Seq(T) /\ Alike(<<>>, Joined(first(0)))
  <2>1. DOMAIN first(0) = {}
    OBVIOUS
  <2> HIDE DEF first
  <2>2. DOMAIN Joined(first(0)) = {}
    BY <2>1 DEF Joined, Pairs
  <2> DEFINE e == [i \in {} |-> i]
             none == <<>>
             w == Joined(first(0))
  <2>3. none \in Seq(T) /\ DOMAIN none = {}
    OBVIOUS
  <2>4. e \in [{} -> {}] /\ DOMAIN w = {}
    BY <2>2
  <2> HIDE DEF e, none, w
  <2>5. Renames(e, e, none, w)
    BY <2>3, <2>4 DEF Renames
  <2>6. Alike(none, w)
    BY <2>3, <2>4, <2>5 DEF Alike
  <2> QED
    BY <2>3, <2>6 DEF none, w
<1>5. ASSUME NEW k \in Nat, k \in Good PROVE k + 1 \in Good
  <2> SUFFICES ASSUME k + 1 <= n
               PROVE  all[k + 1] \in Seq(T) /\ Alike(all[k + 1], Joined(first(k + 1)))
    OBVIOUS
  <2> DEFINE s == IF k = 0 THEN <<>> ELSE all[k]
  <2>1. s \in Seq(T) /\ Alike(s, Joined(first(k)))
    <3>1. k <= n
      BY <1>1
    <3> QED
      BY <1>4, <1>5, <3>1
  <2>2. k + 1 \in 1..n /\ ss[k + 1] \in Seq(T)
    BY <1>1
  <2>3. all[k + 1] = s \o ss[k + 1]
    <3>1. all[k + 1] = IF k + 1 = 1 THEN ss[k + 1] ELSE all[(k + 1) - 1] \o ss[k + 1]
      BY <1>3, <2>2 DEF Begins
    <3>2. <<>> \o ss[k + 1] = ss[k + 1]
      BY <2>2
    <3>3. (k + 1) - 1 = k /\ (k + 1 = 1 <=> k = 0)
      OBVIOUS
    <3> QED
      BY <3>1, <3>2, <3>3
  <2> HIDE DEF s
  <2>4. s \o ss[k + 1] \in Seq(T)
    BY <2>1, <2>2
  <2>5. /\ DOMAIN first(k) = 1..k /\ DOMAIN first(k + 1) = 1..(k + 1)
        /\ \A i \in 1..k : first(k + 1)[i] = first(k)[i]
        /\ first(k + 1)[k + 1] = ss[k + 1]
    OBVIOUS
  <2> DEFINE u == first(k)
             v == first(k + 1)
             t == ss[k + 1]
  <2> HIDE DEF first, Good
  <2>6. /\ DOMAIN u = 1..k /\ DOMAIN v = 1..(k + 1) /\ (\A i \in 1..k : v[i] = u[i])
        /\ v[k + 1] = t /\ Alike(s, Joined(u)) /\ t \in Seq(T)
    BY <2>1, <2>2, <2>5
  <2>7. Alike(s \o t, Joined(v))
    <3> HIDE DEF u, v, t
    <3> QED
      BY <2>1, <2>6, Concatenated
  <2> QED
    BY <2>3, <2>4, <2>7
<1>6. 0 \in Good
  OBVIOUS
<1> HIDE DEF Good
<1>7. Nat \subseteq Good
  <2> SUFFICES ASSUME Nat \ Good # {} PROVE FALSE
    OBVIOUS
  <2>1. PICK k \in Nat \ Good : k = 0 \/ k - 1 \notin Nat \ Good
    BY LeastNumber
  <2>2. k # 0 /\ k - 1 \in Nat /\ k - 1 \in Good
    BY <1>6, <2>1
  <2>3. (k - 1) + 1 \in Good
    BY <1>5, <2>2
  <2> QED
    BY <2>1, <2>3
<1>8. first(n) = ss
  BY <1>1
<1>9. CASE n = 0
  <2>1. ss = <<>> /\ FlattenSeq(ss) = <<>>
    BY <1>1, <1>2, <1>9
  <2>2. first(0) = ss
    BY <1>8, <1>9
  <2> HIDE DEF first
  <2> QED
    BY <1>4, <2>1, <2>2
<1>10. CASE n # 0
  <2>1. n \in Good /\ n <= n
    BY <1>1, <1>7
  <2> HIDE DEF first
  <2>2. all[n] \in Seq(T) /\ Alike(all[n], Joined(first(n)))
    BY <1>10, <2>1 DEF Good
  <2> QED
    BY <1>2, <1>8, <1>10, <2>2
<1> QED
  BY <1>9, <1>10

-----------------------------------------------------------------------------
(* The requests, by log and line, and what the report and the command read. *)

SlowLines == {x \in Line : IsSlow(x)}
ReadLines == {x \in Line : IsSlow(x) /\ Readable(x)}

\* All lines of some logs, by log and line.
LinesOf(E) == Joined([l \in E |-> Lines[l]])

LEMMA SlowIsPart ==
  ASSUME NEW lines \in Seq(Line)
  PROVE  Slow(lines) \in Seq(Line) /\ Alike(Slow(lines), Part(lines, SlowLines))
<1> DEFINE ss == [i \in DOMAIN lines |-> IF IsSlow(lines[i]) THEN <<lines[i]>> ELSE <<>>]
           I == {i \in DOMAIN lines : lines[i] \in SlowLines}
           f == [x \in Pairs(ss) |-> x[1]]
           g == [i \in I |-> <<i, 1>>]
<1>1. /\ DOMAIN lines = 1..Len(lines) /\ Len(lines) \in Nat
      /\ \A i \in DOMAIN lines : lines[i] \in Line /\ (i \in I <=> IsSlow(lines[i]))
  BY DEF SlowLines
<1>2. ss \in Seq(Seq(Line)) /\ DOMAIN ss = DOMAIN lines
  <2>1. \A i \in 1..Len(lines) : ss[i] \in Seq(Line)
    BY <1>1
  <2> QED
    BY <1>1, <2>1
<1>3. Slow(lines) = FlattenSeq(ss)
  BY DEF Slow
<1>4. \A i \in I : ss[i] = <<lines[i]>> /\ DOMAIN ss[i] = {1} /\ ss[i][1] = lines[i]
  BY <1>1
<1>5. \A i \in DOMAIN ss : i \notin I => DOMAIN ss[i] = {}
  BY <1>1
<1> HIDE DEF ss, I
<1>6. ASSUME NEW x \in Pairs(ss)
      PROVE  f[x] \in I /\ g[f[x]] = x /\ Part(lines, SlowLines)[f[x]] = Joined(ss)[x]
  <2>1. x[1] \in DOMAIN ss /\ x[2] \in DOMAIN ss[x[1]] /\ x = <<x[1], x[2]>>
        /\ Joined(ss)[x] = ss[x[1]][x[2]]
    BY PairsAre
  <2>2. x[1] \in I /\ x[2] = 1
    BY <1>4, <1>5, <2>1
  <2>3. Part(lines, SlowLines)[x[1]] = lines[x[1]]
    BY <2>2 DEF Part, I
  <2>4. f[x] = x[1] /\ g[x[1]] = <<x[1], 1>>
    BY <2>2
  <2>5. Joined(ss)[x] = lines[x[1]]
    BY <1>4, <2>1, <2>2
  <2> QED
    BY <2>1, <2>2, <2>3, <2>4, <2>5
<1>7. ASSUME NEW i \in I PROVE g[i] \in Pairs(ss) /\ f[g[i]] = i
  <2>1. i \in DOMAIN ss /\ 1 \in DOMAIN ss[i]
    BY <1>2, <1>4 DEF I
  <2>2. <<i, 1>> \in Pairs(ss)
    BY <2>1, PairsAre
  <2> QED
    BY <2>2
<1>8. f \in [Pairs(ss) -> I] /\ g \in [I -> Pairs(ss)]
  BY <1>6, <1>7
<1>9. DOMAIN Part(lines, SlowLines) = I /\ DOMAIN Joined(ss) = Pairs(ss)
  BY PairsAre DEF Part, I
<1> HIDE DEF f, g
<1>10. Renames(f, g, Joined(ss), Part(lines, SlowLines))
  BY <1>6, <1>7, <1>9 DEF Renames
<1>11. Alike(Joined(ss), Part(lines, SlowLines))
  BY <1>8, <1>9, <1>10 DEF Alike
<1>12. FlattenSeq(ss) \in Seq(Line) /\ Alike(FlattenSeq(ss), Joined(ss))
  BY <1>2, Flattened
<1> QED
  BY <1>3, <1>11, <1>12, AlikeIsTransitive

\* A list that has each log once has what those of F in it have.
LEMMA ByLog ==
  ASSUME NEW logs \in Seq(Logs), IsInjective(logs), NEW F, NEW U
  PROVE  Alike(Joined([i \in DOMAIN logs |-> IF logs[i] \in F THEN U[logs[i]] ELSE <<>>]),
               Joined([l \in ToSet(logs) \cap F |-> U[l]]))
<1> DEFINE u == [i \in DOMAIN logs |-> IF logs[i] \in F THEN U[logs[i]] ELSE <<>>]
           E == ToSet(logs) \cap F
           v == [l \in E |-> U[l]]
           at == [l \in E |-> CHOOSE i \in DOMAIN logs : logs[i] = l]
           f == [x \in Pairs(u) |-> <<logs[x[1]], x[2]>>]
           g == [x \in Pairs(v) |-> <<at[x[1]], x[2]>>]
<1>1. \A l \in E : at[l] \in DOMAIN logs /\ logs[at[l]] = l
  BY DEF ToSet
<1>2. \A i \in DOMAIN logs : logs[i] \in F => logs[i] \in E /\ at[logs[i]] = i
  <2>1. \A i \in DOMAIN logs : logs[i] \in ToSet(logs)
    BY DEF ToSet
  <2> HIDE DEF at
  <2> QED
    BY <1>1, <2>1 DEF IsInjective
<1>3. DOMAIN u = DOMAIN logs /\ DOMAIN v = E /\ \A l \in E : v[l] = U[l]
  OBVIOUS
<1>4. \A i \in DOMAIN u : IF logs[i] \in F THEN u[i] = U[logs[i]] ELSE DOMAIN u[i] = {}
  <2>1. DOMAIN <<>> = {}
    OBVIOUS
  <2> QED
    BY <2>1
<1> HIDE DEF at, E, u, v
<1>5. \A i \in DOMAIN u : \A j \in DOMAIN u[i] : <<i, j>> \in Pairs(u) /\ Joined(u)[<<i, j>>] = u[i][j]
  BY PairsAre
<1>6. \A l \in E : \A j \in DOMAIN v[l] : <<l, j>> \in Pairs(v) /\ Joined(v)[<<l, j>>] = v[l][j]
  BY <1>3, PairsAre
<1>7. ASSUME NEW x \in Pairs(u)
      PROVE  f[x] \in Pairs(v) /\ g[f[x]] = x /\ Joined(v)[f[x]] = Joined(u)[x]
  <2>1. x[1] \in DOMAIN u /\ x[2] \in DOMAIN u[x[1]] /\ x = <<x[1], x[2]>>
        /\ Joined(u)[x] = u[x[1]][x[2]]
    BY PairsAre
  <2> DEFINE i == x[1]
             j == x[2]
             l == logs[i]
  <2>2. i \in DOMAIN logs /\ l \in F /\ u[i] = U[l]
    BY <1>3, <1>4, <2>1
  <2>3. l \in E /\ at[l] = i
    BY <1>2, <2>2
  <2>4. j \in DOMAIN v[l] /\ v[l] = u[i]
    BY <1>3, <2>1, <2>2, <2>3
  <2>5. f[x] = <<l, j>>
    OBVIOUS
  <2>6. x = <<i, j>> /\ Joined(u)[x] = u[i][j]
    BY <2>1
  <2> HIDE DEF i, j, l, f
  <2>7. f[x] \in Pairs(v) /\ Joined(v)[f[x]] = v[l][j]
    BY <1>6, <2>3, <2>4, <2>5
  <2>8. g[f[x]] = <<at[l], j>>
    BY <2>5, <2>7
  <2> QED
    BY <2>3, <2>4, <2>6, <2>7, <2>8
<1>8. ASSUME NEW x \in Pairs(v) PROVE g[x] \in Pairs(u) /\ f[g[x]] = x
  <2>1. x[1] \in E /\ x[2] \in DOMAIN v[x[1]] /\ x = <<x[1], x[2]>>
    BY <1>3, PairsAre
  <2> DEFINE l == x[1]
             j == x[2]
             i == at[l]
  <2>2. i \in DOMAIN logs /\ logs[i] = l /\ l \in F
    BY <1>1, <2>1 DEF E
  <2>3. i \in DOMAIN u /\ j \in DOMAIN u[i]
    BY <1>3, <1>4, <2>1, <2>2
  <2>4. g[x] = <<i, j>> /\ x = <<l, j>>
    BY <2>1
  <2> HIDE DEF i, j, l, g
  <2>5. g[x] \in Pairs(u)
    BY <1>5, <2>3, <2>4
  <2>6. f[g[x]] = <<logs[i], j>>
    BY <2>4, <2>5
  <2> QED
    BY <2>2, <2>4, <2>5, <2>6
<1>9. f \in [Pairs(u) -> Pairs(v)] /\ g \in [Pairs(v) -> Pairs(u)]
  BY <1>7, <1>8
<1> HIDE DEF f, g
<1>10. Renames(f, g, Joined(u), Joined(v))
  BY <1>7, <1>8, PairsAre DEF Renames
<1>11. Alike(Joined(u), Joined(v))
  BY <1>9, <1>10, PairsAre DEF Alike
<1> QED
  BY <1>11 DEF u, v, E

LEMMA PartOfJoin ==
  ASSUME NEW E, NEW U, NEW L
  PROVE  Joined([l \in E |-> Part(U[l], L)]) = Part(Joined([l \in E |-> U[l]]), L)
<1> DEFINE u == [l \in E |-> U[l]]
           p == [l \in E |-> Part(U[l], L)]
           J == Joined(u)
           P == {x \in DOMAIN J : J[x] \in L}
<1>1. DOMAIN u = E /\ DOMAIN p = E /\ \A l \in E : u[l] = U[l] /\ p[l] = Part(U[l], L)
  OBVIOUS
<1>2. \A l \in E : /\ DOMAIN p[l] = {j \in DOMAIN u[l] : u[l][j] \in L}
                   /\ \A j \in DOMAIN p[l] : p[l][j] = u[l][j]
  BY <1>1 DEF Part
<1> HIDE DEF u, p
<1>3. ASSUME NEW x \in Pairs(p) PROVE x \in P /\ Joined(p)[x] = J[x]
  <2>1. x[1] \in DOMAIN p /\ x[2] \in DOMAIN p[x[1]] /\ x = <<x[1], x[2]>>
        /\ Joined(p)[x] = p[x[1]][x[2]]
    BY PairsAre
  <2>2. x[1] \in DOMAIN u /\ x[2] \in DOMAIN u[x[1]] /\ u[x[1]][x[2]] \in L
        /\ p[x[1]][x[2]] = u[x[1]][x[2]]
    BY <1>1, <1>2, <2>1
  <2>3. <<x[1], x[2]>> \in Pairs(u) /\ J[<<x[1], x[2]>>] = u[x[1]][x[2]]
    BY <2>2, PairsAre
  <2> QED
    BY <2>1, <2>2, <2>3, PairsAre
<1>4. ASSUME NEW x \in P PROVE x \in Pairs(p)
  <2>1. x \in Pairs(u) /\ J[x] \in L
    BY PairsAre
  <2>2. x[1] \in E /\ x[2] \in DOMAIN u[x[1]] /\ x = <<x[1], x[2]>> /\ u[x[1]][x[2]] \in L
    BY <1>1, <2>1, PairsAre
  <2>3. x[1] \in DOMAIN p /\ x[2] \in DOMAIN p[x[1]]
    BY <1>1, <1>2, <2>2
  <2> QED
    BY <2>2, <2>3, PairsAre
<1>5. Pairs(p) = P
  BY <1>3, <1>4
<1> HIDE DEF J, P
<1>6. Joined(p) = [x \in P |-> J[x]]
  BY <1>3, <1>5 DEF Joined
<1>7. Part(J, L) = [x \in P |-> J[x]]
  BY DEF Part, P
<1> QED
  BY <1>6, <1>7 DEF J, u, p

LEMMA PartOfPart ==
  ASSUME NEW v, NEW K, NEW L, L \subseteq K
  PROVE  Part(Part(v, K), L) = Part(v, L)
<1>1. {i \in DOMAIN Part(v, K) : Part(v, K)[i] \in L} = {i \in DOMAIN v : v[i] \in L}
  BY DEF Part
<1>2. \A i \in {i \in DOMAIN v : v[i] \in L} : Part(v, K)[i] = v[i]
  BY DEF Part
<1> QED
  BY <1>1, <1>2 DEF Part

\* The requests that both read are those of the logs of etcd in the list.
LEMMA SameRequests ==
  ASSUME NEW logs \in Seq(Logs), IsInjective(logs), NEW E, E = ToSet(logs) \cap EtcdLogs
  PROVE  /\ EtcdBuffer(logs) \in Seq(Line)
         /\ Alike(Part(EtcdBuffer(logs), ReadLines), Part(LinesOf(E), ReadLines))
<1> DEFINE U == [l \in Logs |-> Slow(Lines[l])]
           ss == [i \in DOMAIN logs |-> IF logs[i] \in EtcdLogs THEN U[logs[i]] ELSE <<>>]
           b == EtcdBuffer(logs)
           W == [l \in Logs |-> Part(Lines[l], SlowLines)]
           R == Joined([l \in E |-> W[l]])
<1>1. \A l \in Logs : U[l] \in Seq(Line) /\ Alike(U[l], W[l])
  <2>1. \A l \in Logs : Lines[l] \in Seq(Line)
    BY ReportAssumption DEF ReportAssumption
  <2> QED
    BY <2>1, SlowIsPart
<1>2. DOMAIN logs = 1..Len(logs) /\ Len(logs) \in Nat /\ \A i \in DOMAIN logs : logs[i] \in Logs
  OBVIOUS
<1>3. ss \in Seq(Seq(Line))
  <2>1. <<>> \in Seq(Line)
    OBVIOUS
  <2> HIDE DEF U
  <2>2. \A i \in 1..Len(logs) : ss[i] \in Seq(Line)
    BY <1>1, <1>2, <2>1
  <2> QED
    BY <1>2, <2>2
<1>4. b = FlattenSeq(ss)
  <2>1. \A l \in Logs : NewErrorEtcdLogs(Lines[l]).buffer = U[l]
    BY DEF NewErrorEtcdLogs
  <2>2. ss = [i \in DOMAIN logs |-> IF logs[i] \in EtcdLogs
                                    THEN NewErrorEtcdLogs(Lines[logs[i]]).buffer ELSE <<>>]
    BY <1>2, <2>1
  <2> HIDE DEF ss
  <2> QED
    BY <2>2 DEF EtcdBuffer
<1>5. Alike(Joined(ss), Joined([l \in E |-> U[l]]))
  <2> HIDE DEF U
  <2> QED
    BY ByLog
<1>6. Alike(Joined([l \in E |-> U[l]]), R)
  <2>1. E \subseteq Logs
    BY <1>2 DEF ToSet
  <2> DEFINE u == [l \in E |-> U[l]]
             w == [l \in E |-> W[l]]
  <2>2. DOMAIN u = DOMAIN w /\ \A l \in DOMAIN u : Alike(u[l], w[l])
    <3> HIDE DEF U, W
    <3> QED
      BY <1>1, <2>1
  <2> HIDE DEF u, w
  <2>3. Alike(Joined(u), Joined(w))
    BY <2>2, JoinsAreAlike
  <2> QED
    BY <2>3 DEF u, w
<1>7. R = Part(LinesOf(E), SlowLines)
  <2>1. [l \in E |-> W[l]] = [l \in E |-> Part(Lines[l], SlowLines)]
    <3>1. E \subseteq Logs
      BY <1>2 DEF ToSet
    <3> QED
      BY <3>1
  <2>2. Joined([l \in E |-> Part(Lines[l], SlowLines)]) = Part(Joined([l \in E |-> Lines[l]]), SlowLines)
    BY PartOfJoin
  <2> QED
    BY <2>1, <2>2 DEF LinesOf
<1> HIDE DEF ss, U, R, W, b
<1>8. FlattenSeq(ss) \in Seq(Line) /\ Alike(FlattenSeq(ss), Joined(ss))
  BY <1>3, Flattened
<1>9. Alike(b, R)
  BY <1>4, <1>5, <1>6, <1>8, AlikeIsTransitive
<1>10. Alike(Part(b, ReadLines), Part(R, ReadLines))
  BY <1>9, PartsAreAlike
<1>11. Part(R, ReadLines) = Part(LinesOf(E), ReadLines)
  BY <1>7, PartOfPart DEF ReadLines, SlowLines
<1> QED
  BY <1>4, <1>8, <1>10, <1>11 DEF b

\* The lines that the command is given.
GivenLines(logs) ==
  LET lines(l) == IF l \in EtcdLogs THEN Lines[l] ELSE <<>>
  IN  FlattenSeq([i \in DOMAIN logs |-> lines(logs[i])])

LEMMA GivenAreLines ==
  ASSUME NEW logs \in Seq(Logs)
  PROVE  GivenLines(logs) \in Seq(Line)
<1> DEFINE ss == [i \in DOMAIN logs |-> IF logs[i] \in EtcdLogs THEN Lines[logs[i]] ELSE <<>>]
<1>1. \A l \in Logs : Lines[l] \in Seq(Line)
  BY ReportAssumption DEF ReportAssumption
<1>2. DOMAIN logs = 1..Len(logs) /\ Len(logs) \in Nat /\ <<>> \in Seq(Line)
  OBVIOUS
<1>3. \A i \in 1..Len(logs) : ss[i] \in Seq(Line)
  BY <1>1, <1>2
<1>4. ss \in Seq(Seq(Line))
  BY <1>2, <1>3
<1>5. GivenLines(logs) = FlattenSeq(ss)
  BY DEF GivenLines
<1> HIDE DEF ss
<1> QED
  BY <1>4, <1>5, Flattened

\* They are the lines of the logs of etcd in the list.
LEMMA SameLines ==
  ASSUME NEW logs \in Seq(Logs), IsInjective(logs), NEW E, E = ToSet(logs) \cap EtcdLogs
  PROVE  /\ GivenLines(logs) \in Seq(Line)
         /\ Alike(GivenLines(logs), LinesOf(E))
<1> DEFINE ss == [i \in DOMAIN logs |-> IF logs[i] \in EtcdLogs THEN Lines[logs[i]] ELSE <<>>]
<1>1. DOMAIN logs = 1..Len(logs) /\ Len(logs) \in Nat /\ \A i \in DOMAIN logs : logs[i] \in Logs
  OBVIOUS
<1>2. ss \in Seq(Seq(Line))
  <2>1. <<>> \in Seq(Line)
    OBVIOUS
  <2>2. \A l \in Logs : Lines[l] \in Seq(Line)
    BY ReportAssumption DEF ReportAssumption
  <2>3. \A i \in 1..Len(logs) : ss[i] \in Seq(Line)
    BY <1>1, <2>1, <2>2
  <2> QED
    BY <1>1, <2>3
<1>3. GivenLines(logs) = FlattenSeq(ss)
  BY DEF GivenLines
<1>4. Alike(Joined(ss), LinesOf(E))
  BY ByLog DEF LinesOf
<1> HIDE DEF ss
<1>5. FlattenSeq(ss) \in Seq(Line) /\ Alike(FlattenSeq(ss), Joined(ss))
  BY <1>2, Flattened
<1> QED
  BY <1>3, <1>4, <1>5, AlikeIsTransitive

\* The lines of finitely many logs are finitely many.
LEMMA LinesAre ==
  ASSUME NEW E \in SUBSET Logs
  PROVE  /\ IsFiniteSet(DOMAIN LinesOf(E))
         /\ DOMAIN LinesOf(E) = UNION {{l} \X DOMAIN Lines[l] : l \in E}
         /\ \A r \in DOMAIN LinesOf(E) : /\ r[1] \in E /\ r[2] \in DOMAIN Lines[r[1]]
                                         /\ LinesOf(E)[r] = Request(r)
                                         /\ LinesOf(E)[r] \in Line
<1> DEFINE u == [l \in E |-> Lines[l]]
<1>1. \A l \in Logs : Lines[l] \in Seq(Line)
  BY ReportAssumption DEF ReportAssumption
<1>2. \A l \in E : u[l] = Lines[l] /\ u[l] \in Seq(Line)
  BY <1>1
<1>3. DOMAIN u = E
  OBVIOUS
<1> HIDE DEF u
<1>4. DOMAIN LinesOf(E) = Pairs(u) /\ LinesOf(E) = Joined(u)
  BY PairsAre DEF LinesOf, u
<1>5. \A r \in Pairs(u) : r[1] \in E /\ r[2] \in DOMAIN u[r[1]] /\ Joined(u)[r] = u[r[1]][r[2]]
  BY <1>3, PairsAre
<1>6. Pairs(u) = UNION {{l} \X DOMAIN Lines[l] : l \in E}
  BY <1>2, <1>3 DEF Pairs
<1>7. IsFiniteSet(Pairs(u))
  <2>1. IsFiniteSet(E)
    BY ExtractAssumption, FS_Subset DEF ExtractAssumption
  <2>2. \A l \in E : IsFiniteSet(DOMAIN u[l])
    <3> SUFFICES ASSUME NEW l \in E PROVE IsFiniteSet(DOMAIN u[l])
      OBVIOUS
    <3>1. u[l] \in Seq(Line)
      BY <1>2
    <3> QED
      BY <3>1, Members
  <2> QED
    BY <1>3, <2>1, <2>2, PairsAreFinite
<1>8. \A r \in Pairs(u) : Joined(u)[r] = Request(r) /\ Joined(u)[r] \in Line
  <2> SUFFICES ASSUME NEW r \in Pairs(u)
               PROVE  Joined(u)[r] = Request(r) /\ Joined(u)[r] \in Line
    OBVIOUS
  <2>1. r[1] \in E /\ r[2] \in DOMAIN u[r[1]] /\ Joined(u)[r] = u[r[1]][r[2]]
    BY <1>5
  <2>2. u[r[1]] = Lines[r[1]] /\ u[r[1]] \in Seq(Line)
    BY <1>2, <2>1
  <2>3. u[r[1]][r[2]] \in Line
    BY <2>1, <2>2
  <2> QED
    BY <2>1, <2>2, <2>3 DEF Request
<1>9. \A r \in Pairs(u) : r[2] \in DOMAIN Lines[r[1]]
  BY <1>2, <1>5
<1> QED
  BY <1>4, <1>5, <1>6, <1>7, <1>8, <1>9

-----------------------------------------------------------------------------
(* Statistics of a family of requests.                                     *)

LEMMA LinesHaveNumbers ==
  ASSUME NEW x \in Line, NEW aggregator
  PROVE  Milliseconds(x) \in Nat /\ GroupBy(aggregator, x) \in Nat
<1>1. x.took \in Nat /\ x.hour \in Nat /\ AllHours \in Nat
  BY EtcdLogAssumption DEF EtcdLogAssumption, Line
<1> QED
  BY <1>1 DEF Milliseconds, GroupBy

LEMMA StatsAreAlike ==
  ASSUME NEW I, IsFiniteSet(I), NEW J, NEW v \in [I -> Nat], NEW w \in [J -> Nat], Alike(v, w)
  PROVE  BucketFilterStat(v) = BucketFilterStat(w)
<1>1. IsFiniteSet(J) /\ Cardinality(J) = Cardinality(I)
  BY AlikeCount
<1>2. Range(v) = Range(w)
  BY AlikeValues
<1>3. SumFunction(v) = SumFunction(w)
  BY <1>1, AlikeTotals, Totals
<1>4. ASSUME NEW L \in SUBSET Nat
      PROVE  Cardinality({i \in I : v[i] \in L}) = Cardinality({j \in J : w[j] \in L})
  <2>1. DOMAIN Part(v, L) = {i \in I : v[i] \in L} /\ DOMAIN Part(w, L) = {j \in J : w[j] \in L}
    BY DEF Part
  <2>2. IsFiniteSet(DOMAIN Part(v, L))
    BY <2>1, FS_Subset
  <2>3. Alike(Part(v, L), Part(w, L))
    BY PartsAreAlike
  <2> QED
    BY <2>1, <2>2, <2>3, AlikeCount
<1>5. Count(v, LAMBDA n : n >= 500) = Count(w, LAMBDA n : n >= 500)
  <2> DEFINE L == {n \in Nat : n >= 500}
  <2>1. /\ {i \in I : v[i] \in L} = {i \in I : v[i] >= 500}
        /\ {j \in J : w[j] \in L} = {j \in J : w[j] >= 500}
    OBVIOUS
  <2>2. L \in SUBSET Nat
    OBVIOUS
  <2> HIDE DEF L
  <2>3. Cardinality({i \in I : v[i] >= 500}) = Cardinality({j \in J : w[j] >= 500})
    BY <1>4, <2>1, <2>2
  <2> QED
    BY <2>3 DEF Count
<1>6. ASSUME NEW b \in 2..10
      PROVE  Count(v, LAMBDA n : Bucket(n) = b) = Count(w, LAMBDA n : Bucket(n) = b)
  <2> DEFINE L == {n \in Nat : Bucket(n) = b}
  <2>1. /\ {i \in I : v[i] \in L} = {i \in I : Bucket(v[i]) = b}
        /\ {j \in J : w[j] \in L} = {j \in J : Bucket(w[j]) = b}
    OBVIOUS
  <2>2. L \in SUBSET Nat
    OBVIOUS
  <2> HIDE DEF L
  <2>3. Cardinality({i \in I : Bucket(v[i]) = b}) = Cardinality({j \in J : Bucket(w[j]) = b})
    BY <1>4, <2>1, <2>2
  <2> QED
    BY <2>3 DEF Count
<1> DEFINE bv == [b \in 2..10 |-> Count(v, LAMBDA n : Bucket(n) = b)]
           bw == [b \in 2..10 |-> Count(w, LAMBDA n : Bucket(n) = b)]
<1>7. bv = bw
  BY <1>6
<1>8. /\ BucketFilterStat(v) = [count |-> Cardinality(DOMAIN v),
                                higher500 |-> Count(v, LAMBDA n : n >= 500), buckets |-> bv,
                                sum |-> SumFunction(v), max |-> Max(Range(v))]
      /\ BucketFilterStat(w) = [count |-> Cardinality(DOMAIN w),
                                higher500 |-> Count(w, LAMBDA n : n >= 500), buckets |-> bw,
                                sum |-> SumFunction(w), max |-> Max(Range(w))]
  BY DEF BucketFilterStat
<1> HIDE DEF bv, bw
<1> QED
  BY <1>1, <1>2, <1>3, <1>5, <1>7, <1>8

\* The durations in a group, and the statistics of the groups.
InGroup(v, aggregator, g) == {i \in DOMAIN v : GroupBy(aggregator, v[i]) = g}
Durations(v, aggregator, g) == [i \in InGroup(v, aggregator, g) |-> Milliseconds(v[i])]
Groups(v, aggregator) == {GroupBy(aggregator, v[i]) : i \in DOMAIN v}
Statistics(v, aggregator, latest) ==
  [g \in Latest(Groups(v, aggregator), latest) |-> BucketFilterStat(Durations(v, aggregator, g))]

LEMMA StatIsOfPart ==
  ASSUME NEW lines \in Seq(Line), NEW aggregator, NEW latest
  PROVE  GetStat(lines, aggregator, latest) = Statistics(Part(lines, ReadLines), aggregator, latest)
<1> DEFINE v == Part(lines, ReadLines)
<1>1. \A i \in DOMAIN lines : lines[i] \in Line
  OBVIOUS
<1>2. DOMAIN v = Counted(lines) /\ \A i \in DOMAIN v : v[i] = lines[i]
  BY <1>1 DEF Part, Counted, ReadLines
<1> HIDE DEF v
<1>3. Groups(v, aggregator) = {GroupBy(aggregator, lines[i]) : i \in Counted(lines)}
  BY <1>2 DEF Groups
<1>4. \A g : InGroup(v, aggregator, g) = {i \in Counted(lines) : GroupBy(aggregator, lines[i]) = g}
  BY <1>2 DEF InGroup
<1>5. \A g : Durations(v, aggregator, g) =
               [i \in {i \in Counted(lines) : GroupBy(aggregator, lines[i]) = g}
                  |-> Milliseconds(lines[i])]
  BY <1>2, <1>4 DEF Durations
<1> QED
  BY <1>3, <1>5 DEF GetStat, Statistics, v

LEMMA StatisticsAreAlike ==
  ASSUME NEW v, NEW w, Alike(v, w), NEW aggregator, NEW latest, IsFiniteSet(DOMAIN v),
         \A i \in DOMAIN v : v[i] \in Line
  PROVE  Statistics(v, aggregator, latest) = Statistics(w, aggregator, latest)
<1>1. PICK f \in [DOMAIN v -> DOMAIN w], h \in [DOMAIN w -> DOMAIN v] : Renames(f, h, v, w)
  BY DEF Alike
<1>2. /\ \A i \in DOMAIN v : h[f[i]] = i /\ w[f[i]] = v[i]
      /\ \A j \in DOMAIN w : f[h[j]] = j /\ w[j] = v[h[j]] /\ w[j] \in Line
  BY <1>1 DEF Renames
<1>3. Groups(v, aggregator) = Groups(w, aggregator)
  BY <1>2 DEF Groups
<1>4. ASSUME NEW g
      PROVE  BucketFilterStat(Durations(v, aggregator, g)) =
               BucketFilterStat(Durations(w, aggregator, g))
  <2> DEFINE a == Durations(v, aggregator, g)
             b == Durations(w, aggregator, g)
             I == InGroup(v, aggregator, g)
             J == InGroup(w, aggregator, g)
             fI == [i \in I |-> f[i]]
             hJ == [j \in J |-> h[j]]
  <2>1. /\ \A i \in I : i \in DOMAIN v /\ f[i] \in J
        /\ \A j \in J : j \in DOMAIN w /\ h[j] \in I
    BY <1>2 DEF InGroup
  <2>2. /\ DOMAIN a = I /\ DOMAIN b = J
        /\ \A i \in I : a[i] = Milliseconds(v[i])
        /\ \A j \in J : b[j] = Milliseconds(w[j])
    BY DEF Durations
  <2>3. a = [i \in I |-> a[i]] /\ b = [j \in J |-> b[j]]
    BY DEF Durations
  <2> HIDE DEF a, b, I, J
  <2>4. fI \in [I -> J] /\ hJ \in [J -> I]
    BY <2>1
  <2>5. \A i \in I : fI[i] = f[i]
    OBVIOUS
  <2>6. \A j \in J : hJ[j] = h[j]
    OBVIOUS
  <2> HIDE DEF fI, hJ
  <2>7. Renames(fI, hJ, a, b)
    <3>1. ASSUME NEW i \in I PROVE hJ[fI[i]] = i /\ b[fI[i]] = a[i]
      BY <1>2, <2>1, <2>2, <2>5, <2>6
    <3>2. ASSUME NEW j \in J PROVE fI[hJ[j]] = j
      BY <1>2, <2>1, <2>5, <2>6
    <3> QED
      BY <2>2, <3>1, <3>2 DEF Renames
  <2>8. Alike(a, b)
    BY <2>2, <2>4, <2>7 DEF Alike
  <2>9. a \in [I -> Nat]
    <3>1. \A i \in I : a[i] \in Nat
      BY <2>1, <2>2, LinesHaveNumbers
    <3> QED
      BY <2>3, <3>1
  <2>10. b \in [J -> Nat]
    <3>1. \A j \in J : b[j] \in Nat
      BY <1>2, <2>1, <2>2, LinesHaveNumbers
    <3> QED
      BY <2>3, <3>1
  <2>11. IsFiniteSet(I)
    BY <2>1, FS_Subset
  <2>12. BucketFilterStat(a) = BucketFilterStat(b)
    BY <2>8, <2>9, <2>10, <2>11, StatsAreAlike
  <2> QED
    BY <2>12 DEF a, b
<1> QED
  BY <1>3, <1>4 DEF Statistics

-----------------------------------------------------------------------------
(* The report is made of the requests of the etcd logs that were parsed.    *)

\* The requests that can be read in some logs, and in the logs of etcd that were
\* parsed.
RequestsIn(E) == [r \in ReadIn(E) |-> Request(r)]
ReadRequests == RequestsIn(ParsedEtcdLogs)

LEMMA ReadableIsSlow == \A x \in Line : Readable(x) => IsSlow(x)
<1>1. \A x \in Line : x.took \in Nat
  BY DEF Line
<1> QED
  BY <1>1 DEF Readable, IsSlow

LEMMA ReadIsPart ==
  ASSUME NEW E \in SUBSET Logs
  PROVE  /\ RequestsIn(E) = Part(LinesOf(E), ReadLines)
         /\ IsFiniteSet(ReadIn(E))
         /\ \A r \in ReadIn(E) : Request(r) \in Line
<1> DEFINE v == LinesOf(E)
<1>1. /\ IsFiniteSet(DOMAIN v)
      /\ DOMAIN v = UNION {{l} \X DOMAIN Lines[l] : l \in E}
      /\ \A r \in DOMAIN v : v[r] = Request(r) /\ v[r] \in Line
  BY LinesAre
<1> HIDE DEF v
<1>2. DOMAIN v = Requests(E)
  BY <1>1 DEF Requests
<1>3. ReadIn(E) = {r \in DOMAIN v : v[r] \in ReadLines}
  BY <1>1, <1>2, ReadableIsSlow DEF ReadIn, ReadLines
<1>4. IsFiniteSet(ReadIn(E))
  BY <1>1, <1>3, FS_Subset
<1>5. Part(v, ReadLines) = [r \in ReadIn(E) |-> v[r]]
  BY <1>3 DEF Part
<1>6. \A r \in ReadIn(E) : v[r] = Request(r) /\ Request(r) \in Line
  BY <1>1, <1>3
<1> QED
  BY <1>4, <1>5, <1>6 DEF RequestsIn, v

LEMMA ParsedAreLogs == ParsedEtcdLogs \in SUBSET Logs
BY ReportAssumption DEF ReportAssumption, ParsedEtcdLogs

\* The list that was aggregated has each parsed log of etcd once.
AllParsed ==
  /\ namespaceErrors \in Seq(Logs) /\ IsInjective(namespaceErrors)
  /\ ToSet(namespaceErrors) \cap EtcdLogs = ParsedEtcdLogs
  /\ mustGather = Aggregated(namespaceErrors)

LEMMA ListIsComplete ==
  ASSUME KeptOnce, AggregatedAtTheEnd, ReturnsWithEveryLogParsed, reader = "aggregated"
  PROVE  AllParsed
<1>1. EtcdLogs \subseteq Logs /\ EtcdLogs \subseteq LogsInError
  BY ReportAssumption DEF ReportAssumption
<1>2. \A l \in EtcdLogs : findings[l] > 0 <=> stage[l] = "done"
  BY <1>1 DEF ReturnsWithEveryLogParsed
<1> QED
  BY <1>1, <1>2 DEF KeptOnce, AggregatedAtTheEnd, AllParsed, ParsedEtcdLogs

LEMMA ReportIsOfRequests ==
  ASSUME AllParsed
  PROVE  /\ mustGather.all = Statistics(ReadRequests, "all", 1)
         /\ mustGather.hour = Statistics(ReadRequests, "hour", MaxPastHour)
<1> DEFINE b == EtcdBuffer(namespaceErrors)
           p == Part(b, ReadLines)
<1>1. b \in Seq(Line) /\ Alike(p, Part(LinesOf(ParsedEtcdLogs), ReadLines))
  BY SameRequests DEF AllParsed
<1>2. ReadRequests = Part(LinesOf(ParsedEtcdLogs), ReadLines)
  BY ReadIsPart, ParsedAreLogs DEF ReadRequests
<1>3. /\ mustGather.all = GetStat(b, "all", 1)
      /\ mustGather.hour = GetStat(b, "hour", MaxPastHour)
  BY DEF AllParsed, Aggregated
<1>4. DOMAIN p \subseteq DOMAIN b /\ \A i \in DOMAIN p : p[i] = b[i]
  BY DEF Part
<1>5. \A aggregator, latest : GetStat(b, aggregator, latest) = Statistics(p, aggregator, latest)
  <2> HIDE DEF b
  <2> QED
    BY <1>1, StatIsOfPart
<1> HIDE DEF b, p
<1>6. IsFiniteSet(DOMAIN b) /\ \A i \in DOMAIN b : b[i] \in Line
  BY <1>1, Members
<1>7. IsFiniteSet(DOMAIN p) /\ \A i \in DOMAIN p : p[i] \in Line
  BY <1>4, <1>6, FS_Subset
<1>8. Alike(p, ReadRequests)
  BY <1>1, <1>2
<1>9. \A aggregator, latest :
        Statistics(p, aggregator, latest) = Statistics(ReadRequests, aggregator, latest)
  BY <1>7, <1>8, StatisticsAreAlike
<1> QED
  BY <1>3, <1>5, <1>9

\* The command reads the requests of the logs it is given the lines of.
LEMMA CommandIsOfRequests ==
  ASSUME NEW E \in SUBSET Logs, NEW b \in Seq(Line), Alike(b, LinesOf(E)), NEW aggregator
  PROVE  GetStat(b, aggregator, 0) = Statistics(RequestsIn(E), aggregator, 0)
<1> DEFINE p == Part(b, ReadLines)
<1>1. RequestsIn(E) = Part(LinesOf(E), ReadLines)
  BY ReadIsPart
<1>2. DOMAIN p \subseteq DOMAIN b /\ \A i \in DOMAIN p : p[i] = b[i]
  BY DEF Part
<1>3. GetStat(b, aggregator, 0) = Statistics(p, aggregator, 0)
  BY StatIsOfPart
<1>4. Alike(p, RequestsIn(E))
  BY <1>1, PartsAreAlike
<1> HIDE DEF p
<1>5. IsFiniteSet(DOMAIN b) /\ \A i \in DOMAIN b : b[i] \in Line
  BY Members
<1>6. IsFiniteSet(DOMAIN p) /\ \A i \in DOMAIN p : p[i] \in Line
  BY <1>2, <1>5, FS_Subset
<1>7. Statistics(p, aggregator, 0) = Statistics(RequestsIn(E), aggregator, 0)
  BY <1>4, <1>6, StatisticsAreAlike
<1> QED
  BY <1>3, <1>7

-----------------------------------------------------------------------------
(* What the statistics of a set of requests are, and which groups are shown. *)

\* The buckets below "1000-inf" are as wide as they are apart.
LEMMA BucketIs ==
  ASSUME NEW ms \in Nat
  PROVE  /\ Bucket(ms) = 10 <=> ms >= 1000
         /\ \A b \in 2..9 : Bucket(ms) = b <=> ms >= 100 * b /\ ~(ms >= 100 * b + 100)
<1>1. PICK q \in Nat : q = ms \div 100 /\ 100 * q <= ms /\ ms < 100 * q + 100
  OBVIOUS
<1> QED
  BY <1>1 DEF Bucket

LEMMA StatsOfRequests ==
  ASSUME NEW rs, IsFiniteSet(rs), \A r \in rs : Request(r) \in Line
  PROVE  StatOf(BucketFilterStat([r \in rs |-> Milliseconds(Request(r))]), rs)
<1> DEFINE d == [r \in rs |-> Milliseconds(Request(r))]
           slower(ms) == Cardinality({r \in rs : Milliseconds(Request(r)) >= ms})
           st == BucketFilterStat(d)
<1>1. \A r \in rs : d[r] = Milliseconds(Request(r)) /\ d[r] \in Nat
  BY LinesHaveNumbers
<1>2. DOMAIN d = rs
  OBVIOUS
<1>3. Range(d) = {Milliseconds(Request(r)) : r \in rs}
  BY DEF Range
<1>4. /\ st.count = Cardinality(DOMAIN d) /\ st.sum = SumFunction(d) /\ st.max = Max(Range(d))
      /\ st.higher500 = Cardinality({r \in DOMAIN d : d[r] >= 500})
      /\ \A b \in 2..10 : st.buckets[b] = Cardinality({r \in DOMAIN d : Bucket(d[r]) = b})
  <2> DEFINE bs == [b \in 2..10 |-> Cardinality({r \in DOMAIN d : Bucket(d[r]) = b})]
             h5 == Cardinality({r \in DOMAIN d : d[r] >= 500})
  <2> HIDE DEF d
  <2>1. st = [count |-> Cardinality(DOMAIN d), higher500 |-> h5, buckets |-> bs,
              sum |-> SumFunction(d), max |-> Max(Range(d))]
    BY Zenon DEF BucketFilterStat, Count
  <2> HIDE DEF st, h5
  <2>2. /\ st.count = Cardinality(DOMAIN d) /\ st.sum = SumFunction(d) /\ st.max = Max(Range(d))
        /\ st.higher500 = h5 /\ st.buckets = bs
    <3> HIDE DEF bs
    <3> QED
      BY <2>1
  <2> QED
    BY <2>2 DEF h5
<1>5. st.higher500 = slower(500)
  <2>1. {r \in DOMAIN d : d[r] >= 500} = {r \in rs : Milliseconds(Request(r)) >= 500}
    BY <1>1, <1>2
  <2> HIDE DEF d, st
  <2> QED
    BY <1>4, <2>1
<1>6. st.buckets[10] = slower(1000)
  <2>1. {r \in DOMAIN d : Bucket(d[r]) = 10} = {r \in rs : Milliseconds(Request(r)) >= 1000}
    <3> HIDE DEF d
    <3>1. \A r \in rs : Bucket(d[r]) = 10 <=> d[r] >= 1000
      BY <1>1, BucketIs
    <3> QED
      BY <1>1, <1>2, <3>1
  <2>2. st.buckets[10] = Cardinality({r \in DOMAIN d : Bucket(d[r]) = 10})
    <3> HIDE DEF d, st
    <3> QED
      BY <1>4
  <2> HIDE DEF d, st
  <2> QED
    BY <2>1, <2>2
<1>7. ASSUME NEW b \in 2..9
      PROVE  st.buckets[b] = slower(100 * b) - slower(100 * b + 100)
  <2> DEFINE A == {r \in rs : Milliseconds(Request(r)) >= 100 * b}
             B == {r \in rs : Milliseconds(Request(r)) >= 100 * b + 100}
             C == {r \in DOMAIN d : Bucket(d[r]) = b}
  <2>1. C = A \ B
    <3> HIDE DEF d
    <3>1. \A r \in rs : Bucket(d[r]) = b <=> d[r] >= 100 * b /\ ~(d[r] >= 100 * b + 100)
      BY <1>1, BucketIs
    <3> QED
      BY <1>1, <1>2, <3>1
  <2>2. B \subseteq A
    <3> HIDE DEF d
    <3>1. \A r \in rs : Milliseconds(Request(r)) \in Nat
      BY <1>1
    <3> QED
      BY <3>1
  <2>3. IsFiniteSet(A) /\ IsFiniteSet(B)
    BY FS_Subset
  <2>4. st.buckets[b] = Cardinality(C)
    <3>1. b \in 2..10
      OBVIOUS
    <3> HIDE DEF d, st
    <3> QED
      BY <1>4, <3>1
  <2> HIDE DEF A, B, C, st
  <2>5. Cardinality(A \ B) = Cardinality(A) - Cardinality(A \cap B)
    BY <2>3, FS_Difference
  <2>6. A \cap B = B
    BY <2>2
  <2> QED
    BY <2>1, <2>4, <2>5, <2>6 DEF A, B
<1>8. st.count = Cardinality(rs) /\ st.sum = SumFunction(d)
      /\ st.max = Max({Milliseconds(Request(r)) : r \in rs})
  BY <1>2, <1>3, <1>4
<1> HIDE DEF st
<1>9. /\ st.count = Cardinality(rs)
      /\ st.sum = SumFunction([r \in rs |-> Milliseconds(Request(r))])
      /\ st.max = Max({Milliseconds(Request(r)) : r \in rs})
      /\ st.higher500 = slower(500)
      /\ \A b \in 2..9 : st.buckets[b] = slower(100 * b) - slower(100 * b + 100)
      /\ st.buckets[10] = slower(1000)
  BY <1>5, <1>6, <1>7, <1>8
<1>10. StatOf(st, rs)
  BY <1>9, Zenon DEF StatOf
<1> QED
  BY <1>10 DEF st

\* The newest groups are as many as asked for, or all of them.
LEMMA LatestAre ==
  ASSUME NEW G \in SUBSET Nat, IsFiniteSet(G), NEW k \in Nat \ {0}
  PROVE  /\ Latest(G, k) \subseteq G
         /\ Cardinality(Latest(G, k)) = IF Cardinality(G) < k THEN Cardinality(G) ELSE k
         /\ \A h \in Latest(G, k), g \in G \ Latest(G, k) : g < h
<1> DEFINE Newer(s, g) == {h \in s : h > g}
           Newest(s) == {g \in s : Cardinality(Newer(s, g)) < k}
<1>1. \A s : Latest(s, k) = Newest(s)
  BY DEF Latest
<1>2. \A s \in SUBSET G : IsFiniteSet(s) /\ Cardinality(s) \in Nat
  BY FS_Subset, FS_CardinalityType
<1>3. ASSUME NEW h \in Newest(G), NEW g \in G \ Newest(G) PROVE g < h
  <2>1. g \in Nat /\ h \in Nat
    OBVIOUS
  <2>2. SUFFICES ASSUME h <= g PROVE FALSE
    BY <2>1
  <2>3. Newer(G, g) \subseteq Newer(G, h)
    <3>1. \A i \in G : i \in Nat
      OBVIOUS
    <3>2. \A i \in G : i > g => i > h
      BY <2>1, <2>2, <3>1
    <3> QED
      BY <3>2
  <2>4. Newer(G, g) \in SUBSET G /\ Newer(G, h) \in SUBSET G
    OBVIOUS
  <2>5. Cardinality(Newer(G, h)) < k /\ ~(Cardinality(Newer(G, g)) < k)
    OBVIOUS
  <2> HIDE DEF Newer, Newest
  <2>6. Cardinality(Newer(G, g)) <= Cardinality(Newer(G, h))
    BY <1>2, <2>3, <2>4, FS_Subset
  <2> QED
    BY <1>2, <2>4, <2>5, <2>6
<1> DEFINE Size(n) == IF n < k THEN n ELSE k
           Good == {s \in SUBSET G : Cardinality(Newest(s)) = Size(Cardinality(s))}
<1>4. ASSUME NEW s \in SUBSET G, \A u \in SUBSET s : u # s => u \in Good PROVE s \in Good
  <2>1. CASE s = {}
    <3>1. Newest(s) = {}
      BY <2>1
    <3> HIDE DEF Newest
    <3> QED
      BY <2>1, <3>1, FS_EmptySet
  <2>2. CASE s # {}
    <3>1. PICK m \in s : \A h \in s : h >= m
      <4> DEFINE Less == {x \in Nat \X Nat : x[1] < x[2]}
      <4>1. IsWellFoundedOn(Less, Nat)
        BY NatLessThanWellFounded, Zenon DEF OpToRel
      <4>2. s \subseteq Nat
        OBVIOUS
      <4> HIDE DEF Less
      <4>3. PICK m \in s : \A h \in s : <<h, m>> \notin Less
        BY <2>2, <4>1, <4>2, WFMin
      <4> QED
        <5>1. \A h \in s : h \in Nat /\ m \in Nat /\ ~(h < m)
          BY <4>2, <4>3 DEF Less
        <5> QED
          BY <5>1
    <3> DEFINE r == s \ {m}
    <3>2. /\ r \in SUBSET G /\ r \in Good
          /\ Cardinality(s) = Cardinality(r) + 1
      <4>1. r \in Good
        BY <1>4
      <4>2. Cardinality(r) = Cardinality(s) - 1
        BY <1>2, FS_RemoveElement
      <4>3. Cardinality(s) \in Nat
        BY <1>2
      <4> QED
        BY <4>1, <4>2, <4>3
    <3>3. Cardinality(Newest(r)) = Size(Cardinality(r)) /\ Cardinality(r) \in Nat
      BY <1>2, <3>2
    <3>4. m \in Nat /\ \A h \in s : h \in Nat
      OBVIOUS
    <3>5. Newer(s, m) = r
      <4>1. \A h \in s : h > m <=> h # m
        BY <3>1, <3>4
      <4> QED
        BY <4>1
    <3>6. \A g \in r : Newer(s, g) = Newer(r, g)
      BY <3>1, <3>4
    <3>7. Newest(s) = IF Cardinality(r) < k THEN Newest(r) \cup {m} ELSE Newest(r)
      <4> HIDE DEF Newer
      <4> QED
        BY <3>5, <3>6
    <3>8. Newest(r) \subseteq r /\ m \notin Newest(r) /\ IsFiniteSet(Newest(r))
      <4>1. Newest(r) \subseteq r
        OBVIOUS
      <4>2. IsFiniteSet(r)
        BY <1>2, <3>2
      <4> QED
        BY <4>1, <4>2, FS_Subset
    <3> HIDE DEF Newest, r, Newer
    <3>9. CASE Cardinality(r) < k
      <4>1. Newest(s) = Newest(r) \cup {m}
        BY <3>7, <3>9
      <4>2. Cardinality(Newest(r) \cup {m}) = Cardinality(Newest(r)) + 1
        BY <3>8, FS_AddElement
      <4> QED
        BY <3>2, <3>3, <3>9, <4>1, <4>2
    <3>10. CASE ~(Cardinality(r) < k)
      BY <3>2, <3>3, <3>7, <3>10
    <3> QED
      BY <3>9, <3>10
  <2> QED
    BY <2>1, <2>2
<1> HIDE DEF Good
<1>5. SUBSET G \subseteq Good
  BY <1>4, SubsetInduction
<1>6. Cardinality(Newest(G)) = Size(Cardinality(G))
  BY <1>5 DEF Good
<1>7. Newest(G) \subseteq G
  OBVIOUS
<1> HIDE DEF Newest
<1>8. \A h \in Newest(G), g \in G \ Newest(G) : g < h
  BY <1>3
<1> QED
  BY <1>1, <1>6, <1>7, <1>8

-----------------------------------------------------------------------------
(* The slow requests of the report.                                        *)

\* The groups of the requests that were read, and what is in them.
LEMMA GroupsAre ==
  ASSUME NEW E \in SUBSET Logs, NEW aggregator, NEW latest
  PROVE  LET st == Statistics(RequestsIn(E), aggregator, latest)
             groups == {GroupBy(aggregator, Request(r)) : r \in ReadIn(E)}
         IN  /\ DOMAIN st = Latest(groups, latest)
             /\ \A g \in DOMAIN st : StatOf(st[g], {r \in ReadIn(E) : GroupBy(aggregator, Request(r)) = g})
             /\ groups \in SUBSET Nat /\ IsFiniteSet(groups)
<1> DEFINE st == Statistics(RequestsIn(E), aggregator, latest)
           groups == {GroupBy(aggregator, Request(r)) : r \in ReadIn(E)}
           own(g) == {r \in ReadIn(E) : GroupBy(aggregator, Request(r)) = g}
<1>1. DOMAIN RequestsIn(E) = ReadIn(E) /\ \A r \in ReadIn(E) : RequestsIn(E)[r] = Request(r)
  BY DEF RequestsIn
<1>2. Groups(RequestsIn(E), aggregator) = groups
  BY <1>1 DEF Groups
<1>3. \A g : InGroup(RequestsIn(E), aggregator, g) = own(g)
  BY <1>1 DEF InGroup
<1>4. \A g : Durations(RequestsIn(E), aggregator, g) = [r \in own(g) |-> Milliseconds(Request(r))]
  BY <1>1, <1>3 DEF Durations
<1>5. IsFiniteSet(ReadIn(E)) /\ \A r \in ReadIn(E) : Request(r) \in Line
  BY ReadIsPart
<1>6. ASSUME NEW g
      PROVE  StatOf(BucketFilterStat(Durations(RequestsIn(E), aggregator, g)), own(g))
  <2>1. own(g) \subseteq ReadIn(E)
    OBVIOUS
  <2>2. IsFiniteSet(own(g)) /\ \A r \in own(g) : Request(r) \in Line
    BY <1>5, <2>1, FS_Subset
  <2> HIDE DEF own
  <2>3. StatOf(BucketFilterStat([r \in own(g) |-> Milliseconds(Request(r))]), own(g))
    BY <2>2, StatsOfRequests
  <2> QED
    BY <1>4, <2>3
<1>7. /\ DOMAIN st = Latest(groups, latest)
      /\ \A g \in DOMAIN st : st[g] = BucketFilterStat(Durations(RequestsIn(E), aggregator, g))
  BY <1>2 DEF Statistics
<1>8. groups \in SUBSET Nat
  BY <1>5, LinesHaveNumbers
<1>9. IsFiniteSet(groups)
  <2> DEFINE f == [r \in ReadIn(E) |-> GroupBy(aggregator, Request(r))]
  <2>1. f \in Surjection(ReadIn(E), groups)
    BY DEF Surjection
  <2> HIDE DEF f, groups
  <2> QED
    BY <1>5, <2>1, FS_Surjection
<1> HIDE DEF groups, st
<1>10. \A g \in DOMAIN st : StatOf(st[g], own(g))
  BY <1>6, <1>7
<1> QED
  BY <1>7, <1>8, <1>9, <1>10 DEF groups, st

LEMMA SlowRequestsAre ==
  ASSUME AllParsed
  PROVE  IF Read = {} THEN mustGather.all = <<>> ELSE StatOf(mustGather.all[AllHours], Read)
<1> DEFINE st == Statistics(ReadRequests, "all", 1)
           groups == {GroupBy("all", Request(r)) : r \in Read}
<1>1. /\ DOMAIN st = Latest(groups, 1)
      /\ \A g \in DOMAIN st : StatOf(st[g], {r \in Read : GroupBy("all", Request(r)) = g})
  BY GroupsAre, ParsedAreLogs DEF ReadRequests, Read
<1>2. mustGather.all = st
  BY ReportIsOfRequests
<1>3. st = [g \in DOMAIN st |-> st[g]]
  BY DEF Statistics
<1>4. \A r \in Read : GroupBy("all", Request(r)) = AllHours
  BY DEF GroupBy
<1>5. CASE Read = {}
  <2>1. DOMAIN st = {}
    BY <1>1, <1>5 DEF Latest
  <2>2. [g \in {} |-> st[g]] = <<>>
    OBVIOUS
  <2> HIDE DEF st
  <2> QED
    BY <1>2, <1>3, <1>5, <2>1, <2>2
<1>6. CASE Read # {}
  <2>1. groups = {AllHours}
    BY <1>4, <1>6
  <2>2. {r \in Read : GroupBy("all", Request(r)) = AllHours} = Read
    BY <1>4
  <2>3. {h \in {AllHours} : h > AllHours} = {}
    <3>1. AllHours \in Nat
      BY EtcdLogAssumption DEF EtcdLogAssumption
    <3> QED
      BY <3>1
  <2>4. Cardinality({}) = 0
    BY FS_EmptySet
  <2>5. AllHours \in Latest({AllHours}, 1)
    BY <2>3, <2>4 DEF Latest
  <2> HIDE DEF st, groups
  <2>6. AllHours \in DOMAIN st
    BY <1>1, <2>1, <2>5
  <2>7. StatOf(st[AllHours], Read)
    BY <1>1, <2>2, <2>6
  <2> QED
    BY <1>2, <1>6, <2>7
<1> QED
  BY <1>5, <1>6

LEMMA NewestHoursAre ==
  ASSUME AllParsed
  PROVE  LET hours == {Request(r).hour : r \in Read}
             shown == DOMAIN mustGather.hour
         IN  /\ shown \subseteq hours
             /\ Cardinality(shown) = IF Cardinality(hours) < MaxPastHour
                                     THEN Cardinality(hours) ELSE MaxPastHour
             /\ \A h \in shown, g \in hours \ shown : g < h
             /\ \A h \in shown : StatOf(mustGather.hour[h], {r \in Read : Request(r).hour = h})
<1> DEFINE st == Statistics(ReadRequests, "hour", MaxPastHour)
           groups == {GroupBy("hour", Request(r)) : r \in Read}
           hours == {Request(r).hour : r \in Read}
           shown == DOMAIN mustGather.hour
<1>1. /\ DOMAIN st = Latest(groups, MaxPastHour)
      /\ \A g \in DOMAIN st : StatOf(st[g], {r \in Read : GroupBy("hour", Request(r)) = g})
      /\ groups \in SUBSET Nat /\ IsFiniteSet(groups)
  BY GroupsAre, ParsedAreLogs DEF ReadRequests, Read
<1>2. mustGather.hour = st
  BY ReportIsOfRequests
<1>3. \A r : GroupBy("hour", Request(r)) = Request(r).hour
  BY DEF GroupBy
<1>4. groups = hours
  BY <1>3
<1>5. \A g : {r \in Read : GroupBy("hour", Request(r)) = g} = {r \in Read : Request(r).hour = g}
  BY <1>3
<1>6. MaxPastHour \in Nat \ {0}
  BY EtcdLogAssumption DEF EtcdLogAssumption
<1> HIDE DEF groups, hours, st
<1>7. /\ hours \in SUBSET Nat /\ IsFiniteSet(hours) /\ shown = Latest(hours, MaxPastHour)
  BY <1>1, <1>2, <1>4
<1>8. /\ Latest(hours, MaxPastHour) \subseteq hours
      /\ Cardinality(Latest(hours, MaxPastHour)) =
           IF Cardinality(hours) < MaxPastHour THEN Cardinality(hours) ELSE MaxPastHour
      /\ \A h \in Latest(hours, MaxPastHour), g \in hours \ Latest(hours, MaxPastHour) : g < h
  BY <1>6, <1>7, LatestAre
<1>9. \A h \in shown : StatOf(mustGather.hour[h], {r \in Read : Request(r).hour = h})
  BY <1>1, <1>2, <1>5
<1> HIDE DEF shown
<1>10. /\ shown \subseteq hours
       /\ Cardinality(shown) = IF Cardinality(hours) < MaxPastHour
                               THEN Cardinality(hours) ELSE MaxPastHour
       /\ \A h \in shown, g \in hours \ shown : g < h
  BY <1>7, <1>8
<1> QED
  BY <1>9, <1>10 DEF hours, shown

LEMMA Complete == SpecReport => [](reader = "aggregated" => AllParsed)
<1>1. KeptOnce /\ AggregatedAtTheEnd /\ ReturnsWithEveryLogParsed
        => (reader = "aggregated" => AllParsed)
  BY ListIsComplete
<1> QED
  BY <1>1, Listed, Outcome, ReportReturns, PTL

\* The report has the statistics of the requests of all etcd pods, for any logs
\* and in whichever order their parsers ended.
THEOREM SlowRequests == SpecReport => []SlowRequestsOfAllPods
<1>1. (reader = "aggregated" => AllParsed) => SlowRequestsOfAllPods
  BY SlowRequestsAre DEF SlowRequestsOfAllPods
<1> QED
  BY <1>1, Complete, PTL

\* The hours of the report are the newest of any pod, as many as it shows, and
\* each has the requests of every pod.
THEOREM NewestHours == SpecReport => []NewestHoursOfAllPods
<1>1. (reader = "aggregated" => AllParsed) => NewestHoursOfAllPods
  BY NewestHoursAre DEF NewestHoursOfAllPods
<1> QED
  BY <1>1, Complete, PTL

-----------------------------------------------------------------------------
(* The counters of the logs, by pod and by line.                           *)

\* A counter is known by what it has of each pattern.
LEMMA CountersByPattern ==
  ASSUME NEW a \in BalancedCounters, NEW b \in BalancedCounters,
         \A p \in ErrorPatterns : Copies(a)[p] = Copies(b)[p]
  PROVE  a = b
<1> DEFINE c == [p \in ErrorPatterns |-> Copies(a)[p]]
<1>1. a \in Counters /\ Balanced(a) /\ b \in Counters /\ Balanced(b)
  BY DEF BalancedCounters
<1>2. Copies(a) \in [Keys -> Nat] /\ Copies(b) \in [Keys -> Nat]
  BY <1>1, CountersAre
<1>3. ErrorPatterns \in SUBSET Keys /\ IsFiniteSet(Keys)
  BY KeysAre DEF Keys
<1>4. /\ c \in [ErrorPatterns -> Nat]
      /\ \A p \in ErrorPatterns : c[p] = Copies(a)[p]
      /\ \A p \in ErrorPatterns : c[p] = Copies(b)[p]
  BY <1>2, <1>3
<1> HIDE DEF c
<1>5. \A s \in SUBSET ErrorPatterns : Sums(c)[s] = Sums(Copies(a))[s]
  BY <1>2, <1>3, <1>4, SameSums
<1>6. \A s \in SUBSET ErrorPatterns : Sums(c)[s] = Sums(Copies(b))[s]
  BY <1>2, <1>3, <1>4, SameSums
<1>7. Copies(a)["total"] = Copies(b)["total"]
  BY <1>1, <1>5, <1>6 DEF Balanced
<1>8. \A e \in Keys : Copies(a)[e] = Copies(b)[e]
  BY <1>7 DEF Keys
<1>9. /\ DOMAIN a \subseteq Keys /\ a \in [DOMAIN a -> Nat] /\ \A e \in DOMAIN a : a[e] > 0
      /\ \A e \in Keys : Copies(a)[e] = IF e \in DOMAIN a THEN a[e] ELSE 0
  BY <1>1, CountersAre
<1>10. /\ DOMAIN b \subseteq Keys /\ b \in [DOMAIN b -> Nat] /\ \A e \in DOMAIN b : b[e] > 0
       /\ \A e \in Keys : Copies(b)[e] = IF e \in DOMAIN b THEN b[e] ELSE 0
  BY <1>1, CountersAre
<1>11. \A e \in Keys : (e \in DOMAIN a <=> e \in DOMAIN b) /\ (e \in DOMAIN a => a[e] = b[e])
  <2> SUFFICES ASSUME NEW e \in Keys
               PROVE  (e \in DOMAIN a <=> e \in DOMAIN b) /\ (e \in DOMAIN a => a[e] = b[e])
    OBVIOUS
  <2>1. (IF e \in DOMAIN a THEN a[e] ELSE 0) = (IF e \in DOMAIN b THEN b[e] ELSE 0)
    BY <1>8, <1>9, <1>10
  <2>2. /\ e \in DOMAIN a => a[e] \in Nat /\ a[e] > 0
        /\ e \in DOMAIN b => b[e] \in Nat /\ b[e] > 0
    BY <1>9, <1>10
  <2> QED
    BY <2>1, <2>2
<1>12. DOMAIN a = DOMAIN b /\ \A e \in DOMAIN a : a[e] = b[e]
  BY <1>9, <1>10, <1>11
<1> QED
  BY <1>9, <1>10, <1>12

\* How often a pattern matches in the lines.
Matching(p) == [x \in Line |-> x.matches[p]]

LEMMA MatchesAre ==
  ASSUME NEW lines \in Seq(Line), NEW p \in ErrorPatterns
  PROVE  /\ Matching(p) \in [Line -> Nat]
         /\ Under(Matching(p), lines) \in [DOMAIN lines -> Nat]
         /\ Matches(lines, p) = Total(Under(Matching(p), lines))
         /\ Matches(lines, p) \in Nat
<1>1. \A x \in Line : x.matches[p] \in Nat
  BY DEF Line
<1>2. Matching(p) \in [Line -> Nat]
  BY <1>1 DEF Matching
<1>3. IsFiniteSet(DOMAIN lines) /\ \A i \in DOMAIN lines : lines[i] \in Line
  BY Members
<1>4. /\ Under(Matching(p), lines) = [i \in DOMAIN lines |-> lines[i].matches[p]]
      /\ Under(Matching(p), lines) \in [DOMAIN lines -> Nat]
  BY <1>1, <1>3 DEF Under, Matching
<1>5. Matches(lines, p) = Total(Under(Matching(p), lines))
  BY <1>4, Totals DEF Matches
<1> DEFINE f == Under(Matching(p), lines)
<1>6. Total(f) \in Nat
  <2>1. f \in [DOMAIN lines -> Nat] /\ DOMAIN f = DOMAIN lines
    BY <1>4
  <2> HIDE DEF f
  <2>2. Sums(f) \in [SUBSET DOMAIN lines -> Nat]
    BY <1>3, <2>1, SumsAre
  <2> QED
    BY <2>1, <2>2 DEF Total
<1> QED
  BY <1>2, <1>4, <1>5, <1>6

LEMMA OneLineMatches ==
  ASSUME NEW x \in Line, NEW p \in ErrorPatterns
  PROVE  Matches(<<x>>, p) = x.matches[p]
<1> DEFINE f == [i \in {1} |-> x.matches[p]]
<1>1. x.matches[p] \in Nat
  BY DEF Line
<1>2. [i \in DOMAIN <<x>> |-> <<x>>[i].matches[p]] = f
  <2>1. DOMAIN <<x>> = {1} /\ <<x>>[1] = x
    OBVIOUS
  <2> QED
    BY <2>1
<1>3. Matches(<<x>>, p) = Total(f)
  BY <1>2, Totals DEF Matches
<1>4. f \in [{1} -> Nat] /\ f[1] = x.matches[p] /\ DOMAIN f = {1}
  BY <1>1
<1> HIDE DEF f
<1>5. IsFiniteSet({1})
  BY FS_Singleton
<1>6. Sums(f)[{1}] = f[1] + Sums(f)[{1} \ {1}]
  BY <1>4, <1>5, TakeOneOut
<1>7. Sums(f)[{}] = 0 /\ {1} \ {1} = {}
  BY <1>4, <1>5, SumsAre
<1> QED
  BY <1>1, <1>3, <1>4, <1>6, <1>7 DEF Total

\* The lines that are given have of a pattern what the logs have together.
LEMMA GivenMatches ==
  ASSUME NEW logs \in Seq(Logs), NEW p \in ErrorPatterns
  PROVE  /\ GivenLines(logs) \in Seq(Line)
         /\ Matches(GivenLines(logs), p) =
              Total([i \in DOMAIN logs |-> IF logs[i] \in EtcdLogs THEN Matches(Lines[logs[i]], p) ELSE 0])
<1> DEFINE ss == [i \in DOMAIN logs |-> IF logs[i] \in EtcdLogs THEN Lines[logs[i]] ELSE <<>>]
           M == Matching(p)
           given == GivenLines(logs)
           us == [i \in DOMAIN logs |-> Under(M, ss[i])]
           T == [i \in DOMAIN logs |-> IF logs[i] \in EtcdLogs THEN Matches(Lines[logs[i]], p) ELSE 0]
<1>1. DOMAIN logs = 1..Len(logs) /\ Len(logs) \in Nat /\ \A i \in DOMAIN logs : logs[i] \in Logs
  OBVIOUS
<1>2. \A l \in Logs : Lines[l] \in Seq(Line)
  BY ReportAssumption DEF ReportAssumption
<1>3. ss \in Seq(Seq(Line)) /\ DOMAIN ss = DOMAIN logs /\ \A i \in DOMAIN logs : ss[i] \in Seq(Line)
  <2>1. <<>> \in Seq(Line)
    OBVIOUS
  <2>2. \A i \in 1..Len(logs) : ss[i] \in Seq(Line)
    BY <1>1, <1>2, <2>1
  <2> QED
    BY <1>1, <2>2
<1>4. given = FlattenSeq(ss)
  BY DEF GivenLines
<1>5. \A i \in DOMAIN logs : T[i] = Matches(ss[i], p)
  <2>1. Matches(<<>>, p) = 0
    <3> DEFINE f == [i \in {} |-> 0]
    <3>1. [i \in DOMAIN <<>> |-> <<>>[i].matches[p]] = f
      OBVIOUS
    <3>2. Matches(<<>>, p) = Total(f)
      BY <3>1, Totals DEF Matches
    <3>3. f \in [{} -> Nat] /\ DOMAIN f = {} /\ IsFiniteSet({})
      BY FS_EmptySet
    <3> HIDE DEF f
    <3>4. Sums(f)[{}] = 0
      BY <3>3, SumsAre
    <3> QED
      BY <3>2, <3>3, <3>4 DEF Total
  <2> QED
    BY <2>1
<1> HIDE DEF ss, T
<1>6. FlattenSeq(ss) \in Seq(Line) /\ Alike(FlattenSeq(ss), Joined(ss))
  BY <1>3, Flattened
<1>7. given \in Seq(Line) /\ Alike(given, Joined(ss))
  BY <1>4, <1>6
<1> HIDE DEF given
<1>8. /\ Under(M, given) \in [DOMAIN given -> Nat]
      /\ Matches(given, p) = Total(Under(M, given))
      /\ IsFiniteSet(DOMAIN given)
  BY <1>7, MatchesAre, Members
<1>9. ASSUME NEW i \in DOMAIN logs
      PROVE  /\ us[i] = Under(M, ss[i]) /\ DOMAIN us[i] = DOMAIN ss[i]
             /\ us[i] \in [DOMAIN us[i] -> Nat] /\ IsFiniteSet(DOMAIN us[i])
             /\ T[i] = Total(us[i])
             /\ \A j \in DOMAIN ss[i] : us[i][j] = M[ss[i][j]]
  <2>1. ss[i] \in Seq(Line)
    BY <1>3
  <2>2. /\ Under(M, ss[i]) \in [DOMAIN ss[i] -> Nat] /\ Matches(ss[i], p) = Total(Under(M, ss[i]))
        /\ IsFiniteSet(DOMAIN ss[i])
    BY <2>1, MatchesAre, Members
  <2>3. us[i] = Under(M, ss[i])
    OBVIOUS
  <2> QED
    BY <1>5, <2>2, <2>3 DEF Under
<1>10. DOMAIN us = DOMAIN logs
  OBVIOUS
<1> HIDE DEF us, M
<1>11. IsFiniteSet(DOMAIN logs)
  BY Members
<1>12. Total(Joined(us)) = Total([i \in DOMAIN logs |-> Total(us[i])])
  <2>1. \A i \in DOMAIN logs : IsFiniteSet(DOMAIN us[i]) /\ us[i] \in [DOMAIN us[i] -> Nat]
    BY <1>9
  <2> QED
    BY <1>10, <1>11, <2>1, TotalOfJoin
<1>13. [i \in DOMAIN logs |-> Total(us[i])] = T
  <2>1. T = [i \in DOMAIN logs |-> T[i]]
    BY DEF T
  <2> QED
    BY <1>9, <2>1
<1>14. Joined(us) = Under(M, Joined(ss))
  <2>1. Pairs(us) = Pairs(ss)
    BY <1>3, <1>9, <1>10 DEF Pairs
  <2>2. \A x \in Pairs(ss) : /\ x[1] \in DOMAIN logs /\ x[2] \in DOMAIN ss[x[1]]
                             /\ Joined(ss)[x] = ss[x[1]][x[2]]
    BY <1>3, PairsAre
  <2>3. \A x \in Pairs(ss) : us[x[1]][x[2]] = M[Joined(ss)[x]]
    BY <1>9, <2>2
  <2>4. DOMAIN Joined(ss) = Pairs(ss)
    BY PairsAre
  <2>5. Joined(us) = [x \in Pairs(ss) |-> us[x[1]][x[2]]]
    BY <2>1 DEF Joined
  <2> QED
    BY <2>3, <2>4, <2>5 DEF Under
<1>15. Alike(Under(M, given), Under(M, Joined(ss)))
  BY <1>7, ImagesAreAlike
<1>16. IsFiniteSet(Pairs(us)) /\ Joined(us) \in [Pairs(us) -> Nat]
  <2>1. IsFiniteSet(Pairs(us))
    <3>1. IsFiniteSet(DOMAIN us) /\ \A i \in DOMAIN us : IsFiniteSet(DOMAIN us[i])
      BY <1>9, <1>10, <1>11
    <3> QED
      BY <3>1, PairsAreFinite
  <2>2. \A x \in Pairs(us) : x[1] \in DOMAIN logs /\ x[2] \in DOMAIN us[x[1]]
                             /\ Joined(us)[x] = us[x[1]][x[2]]
    BY <1>10, PairsAre
  <2>3. \A x \in Pairs(us) : Joined(us)[x] \in Nat
    BY <1>9, <2>2
  <2>4. Joined(us) = [x \in Pairs(us) |-> Joined(us)[x]]
    BY DEF Joined
  <2> QED
    BY <2>1, <2>3, <2>4
<1>17. Total(Under(M, given)) = Total(Joined(us))
  <2> DEFINE v == Under(M, given)
             w == Joined(us)
  <2>1. /\ v \in [DOMAIN given -> Nat] /\ w \in [Pairs(us) -> Nat] /\ Alike(v, w)
        /\ IsFiniteSet(DOMAIN given) /\ IsFiniteSet(Pairs(us))
    BY <1>8, <1>14, <1>15, <1>16
  <2> HIDE DEF v, w
  <2> QED
    BY <2>1, AlikeTotals DEF v, w
<1> QED
  BY <1>7, <1>8, <1>12, <1>13, <1>17 DEF given, T

LEMMA SameErrors ==
  ASSUME NEW logs \in Seq(Logs)
  PROVE  ParseEtcdLogs(GivenLines(logs), "hour").errors = Aggregated(logs).etcdErrors
<1> DEFINE P == EtcdLogErrorPatterns
           given == GivenLines(logs)
           byLine == [i \in DOMAIN given |-> NewErrorCounter(<<given[i]>>, P)]
           byLog == [i \in DOMAIN logs |-> EtcdErrors(logs[i])]
<1>1. P \in SUBSET ErrorPatterns /\ ErrorPatterns \subseteq Keys
  BY DEF ErrorPatterns, Keys
<1>2. \A l \in Logs : Lines[l] \in Seq(Line)
  BY ReportAssumption DEF ReportAssumption
<1>3. /\ ParseEtcdLogs(given, "hour").errors = MergedCounters(byLine)
      /\ Aggregated(logs).etcdErrors = MergedCounters(byLog)
  BY DEF ParseEtcdLogs, Aggregated
<1>4. given \in Seq(Line)
  BY GivenAreLines
<1> HIDE DEF given
<1>5. /\ DOMAIN given = 1..Len(given) /\ Len(given) \in Nat
      /\ \A i \in DOMAIN given : given[i] \in Line /\ <<given[i]>> \in Seq(Line)
  BY <1>4
<1>6. DOMAIN logs = 1..Len(logs) /\ Len(logs) \in Nat /\ \A i \in DOMAIN logs : logs[i] \in Logs
  OBVIOUS
<1>7. ASSUME NEW i \in DOMAIN given
      PROVE  /\ byLine[i] \in BalancedCounters
             /\ \A p \in ErrorPatterns :
                  Copies(byLine[i])[p] = IF p \in P THEN given[i].matches[p] ELSE 0
  <2>1. byLine[i] = NewErrorCounter(<<given[i]>>, P)
    OBVIOUS
  <2>2. /\ NewErrorCounter(<<given[i]>>, P) \in BalancedCounters
        /\ \A p \in ErrorPatterns :
             Copies(NewErrorCounter(<<given[i]>>, P))[p] =
               IF p \in P THEN Matches(<<given[i]>>, p) ELSE 0
    BY <1>1, <1>5, NewIsBalanced
  <2>3. \A p \in ErrorPatterns : Matches(<<given[i]>>, p) = given[i].matches[p]
    BY <1>5, OneLineMatches
  <2> QED
    BY <2>1, <2>2, <2>3
<1>8. ASSUME NEW i \in DOMAIN logs
      PROVE  /\ byLog[i] \in BalancedCounters
             /\ \A p \in ErrorPatterns :
                  Copies(byLog[i])[p] = IF p \in P /\ logs[i] \in EtcdLogs
                                        THEN Matches(Lines[logs[i]], p) ELSE 0
  <2> DEFINE l == logs[i]
  <2>1. l \in Logs /\ byLog[i] = EtcdErrors(l)
    BY <1>6
  <2> HIDE DEF l
  <2>2. CASE l \in EtcdLogs
    <3>1. EtcdErrors(l) = NewErrorCounter(Lines[l], P)
      BY <2>2 DEF EtcdErrors, NewErrorEtcdLogs
    <3>2. /\ NewErrorCounter(Lines[l], P) \in BalancedCounters
          /\ \A p \in ErrorPatterns :
               Copies(NewErrorCounter(Lines[l], P))[p] = IF p \in P THEN Matches(Lines[l], p) ELSE 0
      BY <1>1, <1>2, <2>1, NewIsBalanced
    <3> QED
      BY <2>1, <2>2, <3>1, <3>2 DEF l
  <2>3. CASE l \notin EtcdLogs
    <3>1. EtcdErrors(l) = EmptyBag
      BY <2>3 DEF EtcdErrors
    <3>2. EmptyBag \in BalancedCounters /\ EmptyBag \in Counters /\ DOMAIN EmptyBag = {}
      BY NothingIsBalanced DEF BalancedCounters
    <3>3. \A p \in ErrorPatterns : Copies(EmptyBag)[p] = 0
      BY <1>1, <3>2, CountersAre
    <3> QED
      BY <2>1, <2>3, <3>1, <3>2, <3>3 DEF l
  <2> QED
    BY <2>2, <2>3
<1>9. byLine \in Seq(BalancedCounters) /\ DOMAIN byLine = DOMAIN given
  BY <1>5, <1>7
<1>10. byLog \in Seq(BalancedCounters) /\ DOMAIN byLog = DOMAIN logs
  BY <1>6, <1>8
<1> HIDE DEF byLine, byLog
<1>11. /\ MergedCounters(byLine) \in BalancedCounters
       /\ \A e \in Keys : Copies(MergedCounters(byLine))[e] =
                            Total([i \in DOMAIN byLine |-> Copies(byLine[i])[e]])
  BY <1>9, MergedIsBalanced
<1>12. /\ MergedCounters(byLog) \in BalancedCounters
       /\ \A e \in Keys : Copies(MergedCounters(byLog))[e] =
                            Total([i \in DOMAIN byLog |-> Copies(byLog[i])[e]])
  BY <1>10, MergedIsBalanced
<1>13. ASSUME NEW p \in ErrorPatterns
       PROVE  Total([i \in DOMAIN byLine |-> Copies(byLine[i])[p]]) =
                Total([i \in DOMAIN byLog |-> Copies(byLog[i])[p]])
  <2>1. CASE p \in P
    <3>1. [i \in DOMAIN byLine |-> Copies(byLine[i])[p]] = [i \in DOMAIN given |-> given[i].matches[p]]
      BY <1>7, <1>9, <2>1
    <3>2. Matches(given, p) = Total([i \in DOMAIN given |-> given[i].matches[p]])
      BY Totals DEF Matches
    <3>3. [i \in DOMAIN byLog |-> Copies(byLog[i])[p]] =
            [i \in DOMAIN logs |-> IF logs[i] \in EtcdLogs THEN Matches(Lines[logs[i]], p) ELSE 0]
      BY <1>8, <1>10, <2>1
    <3>4. Matches(given, p) =
            Total([i \in DOMAIN logs |-> IF logs[i] \in EtcdLogs THEN Matches(Lines[logs[i]], p) ELSE 0])
      BY GivenMatches DEF given
    <3> QED
      BY <3>1, <3>2, <3>3, <3>4
  <2>2. CASE p \notin P
    <3> DEFINE f == [i \in DOMAIN byLine |-> 0]
               g == [i \in DOMAIN byLog |-> 0]
    <3>1. /\ [i \in DOMAIN byLine |-> Copies(byLine[i])[p]] = f
          /\ [i \in DOMAIN byLog |-> Copies(byLog[i])[p]] = g
      BY <1>7, <1>8, <1>9, <1>10, <2>2
    <3>2. IsFiniteSet(DOMAIN byLine) /\ IsFiniteSet(DOMAIN byLog)
      BY <1>9, <1>10, Members
    <3>3. Total(f) = 0
      BY <3>2, NothingToAdd
    <3>4. Total(g) = 0
      BY <3>2, NothingToAdd
    <3> HIDE DEF f, g
    <3> QED
      BY <3>1, <3>3, <3>4
  <2> QED
    BY <2>1, <2>2
<1>14. \A p \in ErrorPatterns : Copies(MergedCounters(byLine))[p] = Copies(MergedCounters(byLog))[p]
  BY <1>1, <1>11, <1>12, <1>13
<1> QED
  BY <1>3, <1>11, <1>12, <1>14, CountersByPattern DEF given

\* The counters of the command are those of the lines, whatever their order.
LEMMA CommandErrors ==
  ASSUME NEW lines \in Seq(Line)
  PROVE  LET errors == ParseEtcdLogs(lines, "hour").errors
         IN  /\ errors \in BalancedCounters
             /\ \A p \in ErrorPatterns :
                  Copies(errors)[p] = IF p \in EtcdLogErrorPatterns THEN Matches(lines, p) ELSE 0
<1> DEFINE P == EtcdLogErrorPatterns
           byLine == [i \in DOMAIN lines |-> NewErrorCounter(<<lines[i]>>, P)]
           errors == ParseEtcdLogs(lines, "hour").errors
<1>1. P \in SUBSET ErrorPatterns /\ ErrorPatterns \subseteq Keys
  BY DEF ErrorPatterns, Keys
<1>2. errors = MergedCounters(byLine)
  BY DEF ParseEtcdLogs
<1>3. /\ DOMAIN lines = 1..Len(lines) /\ Len(lines) \in Nat
      /\ \A i \in DOMAIN lines : lines[i] \in Line /\ <<lines[i]>> \in Seq(Line)
  OBVIOUS
<1>4. ASSUME NEW i \in DOMAIN lines
      PROVE  /\ byLine[i] \in BalancedCounters
             /\ \A p \in ErrorPatterns :
                  Copies(byLine[i])[p] = IF p \in P THEN lines[i].matches[p] ELSE 0
  <2>1. /\ NewErrorCounter(<<lines[i]>>, P) \in BalancedCounters
        /\ \A p \in ErrorPatterns :
             Copies(NewErrorCounter(<<lines[i]>>, P))[p] =
               IF p \in P THEN Matches(<<lines[i]>>, p) ELSE 0
    BY <1>1, <1>3, NewIsBalanced
  <2>2. \A p \in ErrorPatterns : Matches(<<lines[i]>>, p) = lines[i].matches[p]
    BY <1>3, OneLineMatches
  <2> QED
    BY <2>1, <2>2
<1>5. byLine \in Seq(BalancedCounters) /\ DOMAIN byLine = DOMAIN lines
  BY <1>3, <1>4
<1> HIDE DEF byLine
<1>6. /\ errors \in BalancedCounters
      /\ \A e \in Keys : Copies(errors)[e] = Total([i \in DOMAIN byLine |-> Copies(byLine[i])[e]])
  BY <1>2, <1>5, MergedIsBalanced
<1> HIDE DEF errors
<1>7. ASSUME NEW p \in ErrorPatterns
      PROVE  Copies(errors)[p] = IF p \in P THEN Matches(lines, p) ELSE 0
  <2>1. CASE p \in P
    <3>1. [i \in DOMAIN byLine |-> Copies(byLine[i])[p]] = [i \in DOMAIN lines |-> lines[i].matches[p]]
      BY <1>4, <1>5, <2>1
    <3>2. Matches(lines, p) = Total([i \in DOMAIN lines |-> lines[i].matches[p]])
      BY Totals DEF Matches
    <3> QED
      BY <1>1, <1>6, <2>1, <3>1, <3>2
  <2>2. CASE p \notin P
    <3>1. [i \in DOMAIN byLine |-> Copies(byLine[i])[p]] = [i \in DOMAIN byLine |-> 0]
      BY <1>4, <1>5, <2>2
    <3>2. IsFiniteSet(DOMAIN byLine)
      BY <1>5, Members
    <3>3. Total([i \in DOMAIN byLine |-> 0]) = 0
      BY <3>2, NothingToAdd
    <3> QED
      BY <1>1, <1>6, <2>2, <3>1, <3>3
  <2> QED
    BY <2>1, <2>2
<1> QED
  BY <1>6, <1>7 DEF errors

\* What a pattern matches in the lines of some logs is what it does in each of them.
LEMMA LinesCount ==
  ASSUME NEW E \in SUBSET Logs, NEW b \in Seq(Line), Alike(b, LinesOf(E)),
         NEW p \in ErrorPatterns
  PROVE  Matches(b, p) = Total([l \in E |-> Matches(Lines[l], p)])
<1> DEFINE M == Matching(p)
           ss == [l \in E |-> Lines[l]]
           us == [l \in E |-> Under(M, Lines[l])]
           T == [l \in E |-> Matches(Lines[l], p)]
<1>1. \A l \in E : Lines[l] \in Seq(Line)
  BY ReportAssumption DEF ReportAssumption
<1>2. IsFiniteSet(E)
  BY ExtractAssumption, FS_Subset DEF ExtractAssumption
<1>3. /\ Under(M, b) \in [DOMAIN b -> Nat] /\ Matches(b, p) = Total(Under(M, b))
      /\ IsFiniteSet(DOMAIN b)
  BY MatchesAre, Members
<1>4. ASSUME NEW l \in E
      PROVE  /\ us[l] = Under(M, ss[l]) /\ DOMAIN us[l] = DOMAIN ss[l]
             /\ us[l] \in [DOMAIN us[l] -> Nat] /\ IsFiniteSet(DOMAIN us[l])
             /\ T[l] = Total(us[l])
             /\ \A j \in DOMAIN ss[l] : us[l][j] = M[ss[l][j]]
  <2>1. /\ Under(M, Lines[l]) \in [DOMAIN Lines[l] -> Nat]
        /\ Matches(Lines[l], p) = Total(Under(M, Lines[l]))
        /\ IsFiniteSet(DOMAIN Lines[l])
    BY <1>1, MatchesAre, Members
  <2>2. us[l] = Under(M, Lines[l]) /\ ss[l] = Lines[l] /\ T[l] = Matches(Lines[l], p)
    OBVIOUS
  <2> QED
    BY <2>1, <2>2 DEF Under
<1>5. DOMAIN us = E /\ DOMAIN ss = E /\ T = [l \in E |-> T[l]] /\ LinesOf(E) = Joined(ss)
  BY DEF LinesOf
<1> HIDE DEF us, ss, T, M
<1>6. Total(Joined(us)) = Total(T)
  <2>1. Total(Joined(us)) = Total([l \in E |-> Total(us[l])])
    BY <1>2, <1>4, <1>5, TotalOfJoin
  <2>2. [l \in E |-> Total(us[l])] = T
    BY <1>4, <1>5
  <2> QED
    BY <2>1, <2>2
<1>7. Joined(us) = Under(M, Joined(ss))
  <2>1. Pairs(us) = Pairs(ss)
    BY <1>4, <1>5 DEF Pairs
  <2>2. \A x \in Pairs(ss) : /\ x[1] \in E /\ x[2] \in DOMAIN ss[x[1]]
                             /\ Joined(ss)[x] = ss[x[1]][x[2]]
    BY <1>5, PairsAre
  <2>3. \A x \in Pairs(ss) : us[x[1]][x[2]] = M[Joined(ss)[x]]
    BY <1>4, <2>2
  <2>4. DOMAIN Joined(ss) = Pairs(ss)
    BY PairsAre
  <2>5. Joined(us) = [x \in Pairs(ss) |-> us[x[1]][x[2]]]
    BY <2>1 DEF Joined
  <2> QED
    BY <2>3, <2>4, <2>5 DEF Under
<1>8. IsFiniteSet(Pairs(us)) /\ Joined(us) \in [Pairs(us) -> Nat]
  <2>1. IsFiniteSet(Pairs(us))
    BY <1>2, <1>4, <1>5, PairsAreFinite
  <2>2. \A x \in Pairs(us) : x[1] \in E /\ x[2] \in DOMAIN us[x[1]]
                             /\ Joined(us)[x] = us[x[1]][x[2]]
    BY <1>5, PairsAre
  <2>3. \A x \in Pairs(us) : Joined(us)[x] \in Nat
    BY <1>4, <2>2
  <2>4. Joined(us) = [x \in Pairs(us) |-> Joined(us)[x]]
    BY DEF Joined
  <2> QED
    BY <2>1, <2>3, <2>4
<1>9. Total(Under(M, b)) = Total(Joined(us))
  <2> DEFINE v == Under(M, b)
             w == Joined(us)
  <2>1. Alike(v, w)
    BY <1>5, <1>7, ImagesAreAlike
  <2>2. /\ v \in [DOMAIN b -> Nat] /\ w \in [Pairs(us) -> Nat]
        /\ IsFiniteSet(DOMAIN b) /\ IsFiniteSet(Pairs(us))
    BY <1>3, <1>8
  <2> HIDE DEF v, w
  <2> QED
    BY <2>1, <2>2, AlikeTotals DEF v, w
<1> QED
  BY <1>3, <1>6, <1>9 DEF T

\* The lines that the command takes from some files are those of the files.
LEMMA WalkIsOfFiles ==
  ASSUME NEW files \in SUBSET Logs, NEW walk \in SetToSeqs(files)
  PROVE  WalkedLines(walk) \in Seq(Line) /\ Alike(WalkedLines(walk), LinesOf(files))
<1> DEFINE n == Cardinality(files)
           ss == [i \in DOMAIN walk |-> Lines[walk[i]]]
<1>1. IsFiniteSet(files) /\ n \in Nat /\ IsFiniteSet(1..n) /\ Cardinality(1..n) = n
  <2>1. IsFiniteSet(files)
    BY ExtractAssumption, FS_Subset DEF ExtractAssumption
  <2>2. n \in Nat
    BY <2>1, FS_CardinalityType
  <2> HIDE DEF n
  <2>3. IsFiniteSet(1..n) /\ Cardinality(1..n) = n
    BY <2>2, FS_Interval
  <2> QED
    BY <2>1, <2>2, <2>3
<1>2. walk \in [1..n -> files] /\ \A i, j \in 1..n : i # j => walk[i] # walk[j]
  BY DEF SetToSeqs
<1> HIDE DEF n
<1>3. IsInjective(walk)
  BY <1>2 DEF IsInjective
<1>4. ToSet(walk) \cap Logs = files
  <2>1. walk \in Injection(1..n, files)
    BY <1>2 DEF Injection, IsInjective
  <2>2. walk \in Surjection(1..n, files)
    BY <1>1, <2>1, FS_Injection DEF n
  <2> QED
    BY <1>2, <2>2 DEF Surjection, ToSet
<1>5. walk \in Seq(Logs) /\ DOMAIN walk = 1..n /\ \A i \in 1..n : walk[i] \in Logs
  BY <1>1, <1>2
<1>6. ss \in Seq(Seq(Line))
  <2>1. \A i \in 1..n : ss[i] \in Seq(Line)
    BY <1>5, ReportAssumption DEF ReportAssumption
  <2> QED
    BY <1>1, <1>5, <2>1
<1>7. Alike(Joined(ss), LinesOf(files))
  <2>1. ss = [i \in DOMAIN walk |-> IF walk[i] \in Logs THEN Lines[walk[i]] ELSE <<>>]
    BY <1>5
  <2>2. Alike(Joined([i \in DOMAIN walk |-> IF walk[i] \in Logs THEN Lines[walk[i]] ELSE <<>>]),
              Joined([l \in ToSet(walk) \cap Logs |-> Lines[l]]))
    BY <1>3, <1>5, ByLog
  <2> HIDE DEF ss
  <2> QED
    BY <1>4, <2>1, <2>2 DEF LinesOf
<1>8. WalkedLines(walk) = FlattenSeq(ss)
  BY DEF WalkedLines
<1> HIDE DEF ss
<1>9. FlattenSeq(ss) \in Seq(Line) /\ Alike(FlattenSeq(ss), Joined(ss))
  BY <1>6, Flattened
<1> QED
  BY <1>7, <1>8, <1>9, AlikeIsTransitive

\* The command finds the counters and the slow requests of the files it takes.
LEMMA CommandFinds ==
  ASSUME NEW files \in SUBSET Logs, NEW walk \in SetToSeqs(files)
  PROVE  LET out == ParseEtcdLogs(WalkedLines(walk), "hour")
             read == ReadIn(files)
         IN  /\ \A p \in EtcdLogErrorPatterns :
                  TimesFound(out.errors, p) = SumFunction([l \in files |-> Matches(Lines[l], p)])
             /\ DOMAIN out.stat = {Request(r).hour : r \in read}
             /\ \A h \in DOMAIN out.stat :
                  StatOf(out.stat[h], {r \in read : Request(r).hour = h})
<1> DEFINE b == WalkedLines(walk)
           out == ParseEtcdLogs(b, "hour")
           read == ReadIn(files)
           st == Statistics(RequestsIn(files), "hour", 0)
           groups == {GroupBy("hour", Request(r)) : r \in read}
<1>1. b \in Seq(Line) /\ Alike(b, LinesOf(files))
  BY WalkIsOfFiles
<1> HIDE DEF b
<1>2. ASSUME NEW p \in EtcdLogErrorPatterns
      PROVE  TimesFound(out.errors, p) = SumFunction([l \in files |-> Matches(Lines[l], p)])
  <2>1. p \in ErrorPatterns /\ p \in Keys
    BY DEF ErrorPatterns, Keys
  <2>2. Copies(out.errors)[p] = Matches(b, p)
    BY <1>1, <2>1, CommandErrors
  <2>3. TimesFound(out.errors, p) = Copies(out.errors)[p]
    <3> HIDE DEF out
    <3> QED
      BY <2>1 DEF Copies, TimesFound
  <2>4. Matches(b, p) = Total([l \in files |-> Matches(Lines[l], p)])
    BY <1>1, <2>1, LinesCount
  <2> QED
    BY <2>2, <2>3, <2>4, Totals
<1>3. out.stat = st
  <2>1. out.stat = GetStat(b, "hour", 0)
    BY DEF ParseEtcdLogs
  <2> QED
    BY <1>1, <2>1, CommandIsOfRequests
<1>4. /\ DOMAIN st = Latest(groups, 0)
      /\ \A g \in DOMAIN st : StatOf(st[g], {r \in read : GroupBy("hour", Request(r)) = g})
  BY GroupsAre
<1>5. Latest(groups, 0) = groups
  BY DEF Latest
<1>6. \A r : GroupBy("hour", Request(r)) = Request(r).hour
  BY DEF GroupBy
<1>7. groups = {Request(r).hour : r \in read}
  BY <1>6
<1>8. \A g : {r \in read : GroupBy("hour", Request(r)) = g} = {r \in read : Request(r).hour = g}
  BY <1>6
<1> HIDE DEF out, st, groups, read
<1>9. /\ DOMAIN out.stat = {Request(r).hour : r \in read}
      /\ \A h \in DOMAIN out.stat : StatOf(out.stat[h], {r \in read : Request(r).hour = h})
  BY <1>3, <1>4, <1>5, <1>7, <1>8
<1> QED
  BY <1>2, <1>9 DEF out, read, b

\* On the logs that the report parsed it finds what the report has.
LEMMA CommandFindsTheReport ==
  ASSUME AllParsed, NEW walk \in SetToSeqs(ParsedEtcdLogs)
  PROVE  LET out == ParseEtcdLogs(WalkedLines(walk), "hour")
         IN  /\ out.errors = mustGather.etcdErrors
             /\ DOMAIN mustGather.hour = Latest(DOMAIN out.stat, MaxPastHour)
             /\ \A h \in DOMAIN mustGather.hour : out.stat[h] = mustGather.hour[h]
<1> DEFINE b == WalkedLines(walk)
           given == GivenLines(namespaceErrors)
           out == ParseEtcdLogs(b, "hour")
           same == ParseEtcdLogs(given, "hour")
           all == Statistics(ReadRequests, "hour", 0)
           newest == Statistics(ReadRequests, "hour", MaxPastHour)
           groups == Groups(ReadRequests, "hour")
<1>1. b \in Seq(Line) /\ Alike(b, LinesOf(ParsedEtcdLogs))
  BY WalkIsOfFiles, ParsedAreLogs
<1>2. given \in Seq(Line) /\ Alike(given, LinesOf(ParsedEtcdLogs))
  BY SameLines DEF AllParsed
<1> HIDE DEF b, given
<1>3. out.errors = same.errors
  <2>1. \A p \in ErrorPatterns : Matches(b, p) = Matches(given, p)
    BY <1>1, <1>2, ParsedAreLogs, LinesCount
  <2>2. /\ out.errors \in BalancedCounters
        /\ \A p \in ErrorPatterns :
             Copies(out.errors)[p] = IF p \in EtcdLogErrorPatterns THEN Matches(b, p) ELSE 0
    BY <1>1, CommandErrors
  <2>3. /\ same.errors \in BalancedCounters
        /\ \A p \in ErrorPatterns :
             Copies(same.errors)[p] = IF p \in EtcdLogErrorPatterns THEN Matches(given, p) ELSE 0
    BY <1>2, CommandErrors
  <2> HIDE DEF out, same
  <2> QED
    BY <2>1, <2>2, <2>3, CountersByPattern
<1>4. same.errors = mustGather.etcdErrors
  BY SameErrors DEF AllParsed, given
<1>5. out.stat = all
  <2>1. out.stat = GetStat(b, "hour", 0)
    BY DEF ParseEtcdLogs
  <2> QED
    BY <1>1, <2>1, ParsedAreLogs, CommandIsOfRequests DEF ReadRequests
<1>6. mustGather.hour = newest
  BY ReportIsOfRequests
<1>7. Latest(groups, 0) = groups /\ Latest(groups, MaxPastHour) \subseteq groups
  BY DEF Latest
<1>8. DOMAIN all = Latest(groups, 0) /\ DOMAIN newest = Latest(groups, MaxPastHour)
  BY DEF Statistics
<1>9. \A g \in Latest(groups, MaxPastHour) : all[g] = newest[g]
  BY <1>7 DEF Statistics
<1> HIDE DEF out, same, all, newest, groups
<1>10. /\ DOMAIN mustGather.hour = Latest(DOMAIN out.stat, MaxPastHour)
       /\ \A h \in DOMAIN mustGather.hour : out.stat[h] = mustGather.hour[h]
  BY <1>5, <1>6, <1>7, <1>8, <1>9
<1> QED
  BY <1>3, <1>4, <1>10 DEF out, b

\* The command that parses the logs line by line finds what is in the files it
\* takes, rotated ones or not, in any order; and of the logs that the report
\* parsed pod by pod, what the report has.
THEOREM CommandAgrees == SpecReport => []ParseEtcdLogsAgrees
<1>1. (reader = "aggregated" => AllParsed) => ParseEtcdLogsAgrees
  <2> SUFFICES ASSUME AllParsed, NEW files \in SUBSET EtcdFiles, NEW walk \in SetToSeqs(files)
               PROVE  LET out == ParseEtcdLogs(WalkedLines(walk), "hour")
                          read == ReadIn(files)
                      IN  /\ \A p \in EtcdLogErrorPatterns :
                               TimesFound(out.errors, p) =
                                 SumFunction([l \in files |-> Matches(Lines[l], p)])
                          /\ DOMAIN out.stat = {Request(r).hour : r \in read}
                          /\ \A h \in DOMAIN out.stat :
                               StatOf(out.stat[h], {r \in read : Request(r).hour = h})
                          /\ files = ParsedEtcdLogs =>
                               /\ out.errors = mustGather.etcdErrors
                               /\ DOMAIN mustGather.hour = Latest(DOMAIN out.stat, MaxPastHour)
                               /\ \A h \in DOMAIN mustGather.hour : out.stat[h] = mustGather.hour[h]
    BY Zenon DEF ParseEtcdLogsAgrees
  <2>1. files \in SUBSET Logs
    BY ReportAssumption DEF ReportAssumption, EtcdFiles
  <2> QED
    BY <2>1, CommandFinds, CommandFindsTheReport
<1> QED
  BY <1>1, Complete, PTL
=============================================================================
