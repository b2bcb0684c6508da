---------------------- MODULE PublishedBaselinesProofs ----------------------
(***************************************************************************)
(* For any tests, archives and summaries: what the filters leave, and what *)
(* becomes of each failure on the way to the verdicts and the baselines.   *)
(***************************************************************************)
EXTENDS PublishedBaselines, FiniteSetTheorems, TLAPS

\* An element of a set, the one that sums over sets take first.
Pick(s) == CHOOSE x \in s : TRUE

\* The partial sums of a bag over the subsets of S.
SumsOver(S, bag, g) ==
  g = [s \in SUBSET S |-> IF s = {} THEN 0 ELSE bag[Pick(s)] + g[s \ {Pick(s)}]]

LEMMA SizeIsSum ==
  ASSUME NEW bag
  PROVE  \E g : g = (CHOOSE h : SumsOver(Tests, bag, h)) /\ Size(bag) = g[Tests]
BY DEF Size, MapThenSumSet, MapThenFoldSet, SumsOver, Pick
\* A set of numbers has a least one.
LEMMA LeastNumber ==
  ASSUME NEW N \in SUBSET Nat, N # {}
  PROVE  \E n \in N : n = 0 \/ n - 1 \notin N
<1> DEFINE Less == {x \in Nat \X Nat : x[1] < x[2]}
<1>1. IsWellFoundedOn(Less, Nat)
  BY NatLessThanWellFounded, Zenon DEF OpToRel
<1> HIDE DEF Less
<1>2. PICK n \in N : \A m \in N : <<m, n>> \notin Less
  BY <1>1, WFMin
<1>3. n - 1 \in N /\ n # 0 => <<n - 1, n>> \in Less
  BY DEF Less
<1> QED
  BY <1>2, <1>3

\* The sums exist: over the sets of at most n elements, for one n after another.
LEMMA SumsExist ==
  ASSUME NEW S, IsFiniteSet(S), NEW bag
  PROVE  \E g : SumsOver(S, bag, g)
<1> DEFINE D(n) == {s \in SUBSET S : Cardinality(s) <= n}
           At(s, g) == IF s = {} THEN 0 ELSE bag[Pick(s)] + g[s \ {Pick(s)}]
           Known == {n \in Nat : \E g : g = [s \in D(n) |-> At(s, g)]}
<1>1. \A s \in SUBSET S : IsFiniteSet(s) /\ Cardinality(s) \in Nat /\ Cardinality(s) <= Cardinality(S)
  BY FS_Subset, FS_CardinalityType
<1>2. \A s \in SUBSET S : s # {} =>
        /\ Pick(s) \in s /\ s \ {Pick(s)} \in SUBSET S
        /\ Cardinality(s \ {Pick(s)}) = Cardinality(s) - 1
  <2> SUFFICES ASSUME NEW s \in SUBSET S, s # {}
               PROVE  Pick(s) \in s /\ Cardinality(s \ {Pick(s)}) = Cardinality(s) - 1
    OBVIOUS
  <2>1. Pick(s) \in s
    BY DEF Pick
  <2> QED
    BY <1>1, <2>1, FS_RemoveElement
<1>3. 0 \in Known
  <2>1. \A s \in D(0) : s = {}
    BY <1>1, FS_EmptySet
  <2> DEFINE g == [s \in D(0) |-> 0]
  <2>2. g = [s \in D(0) |-> At(s, g)]
    BY <2>1
  <2> QED
    BY <2>2
<1>4. ASSUME NEW n \in Nat, n \in Known PROVE n + 1 \in Known
  <2>1. PICK g : g = [s \in D(n) |-> At(s, g)]
    BY <1>4
  <2> DEFINE h == [s \in D(n + 1) |-> At(s, g)]
  <2>2. \A s \in D(n) : s \in D(n + 1) /\ h[s] = g[s]
    <3>1. \A s \in D(n) : s \in D(n + 1)
      BY <1>1
    <3>2. \A s \in D(n) : g[s] = At(s, g)
      BY <2>1
    <3> HIDE DEF At, D
    <3> QED
      BY <3>1, <3>2
  <2>3. \A s \in D(n + 1) : s # {} => s \ {Pick(s)} \in D(n)
    BY <1>1, <1>2
  <2>4. \A s \in D(n + 1) : At(s, g) = At(s, h)
    <3> HIDE DEF D, h
    <3> QED
      BY <2>2, <2>3
  <2>5. h = [s \in D(n + 1) |-> At(s, h)]
    <3> HIDE DEF At, D
    <3> QED
      BY <2>4, Zenon
  <2> HIDE DEF h, At, D
  <2> QED
    BY <2>5
<1> HIDE DEF Known
<1>5. Nat \subseteq Known
  <2> SUFFICES ASSUME Nat \ Known # {} PROVE FALSE
    OBVIOUS
  <2>1. PICK n \in Nat \ Known : n = 0 \/ n - 1 \notin Nat \ Known
    BY LeastNumber
  <2>2. n # 0 /\ n - 1 \in Nat /\ n - 1 \in Known
    BY <1>3, <2>1
  <2>3. (n - 1) + 1 \in Known
    BY <1>4, <2>2
  <2> QED
    BY <2>1, <2>3
<1>6. PICK g : g = [s \in D(Cardinality(S)) |-> At(s, g)]
  BY <1>1, <1>5 DEF Known
<1>7. D(Cardinality(S)) = SUBSET S
  BY <1>1
<1> HIDE DEF D
<1> QED
  BY <1>6, <1>7 DEF SumsOver
\* A sum of numbers is a number, and zero only if all of them are.
LEMMA SumsOfNumbers ==
  ASSUME NEW S, IsFiniteSet(S), NEW bag \in [S -> Nat], NEW g, SumsOver(S, bag, g),
         NEW s \in SUBSET S
  PROVE  g[s] \in Nat /\ (g[s] = 0 <=> \A x \in s : bag[x] = 0)
<1> DEFINE Good(u) == g[u] \in Nat /\ (g[u] = 0 <=> \A x \in u : bag[x] = 0)
           Bad == {u \in SUBSET S : ~Good(u)}
           Smaller == StrictSubsetOrdering(S)
<1>1. \A u \in SUBSET S : g[u] = IF u = {} THEN 0 ELSE bag[Pick(u)] + g[u \ {Pick(u)}]
  BY DEF SumsOver
<1>2. Bad = {}
  <2> SUFFICES ASSUME Bad # {} PROVE FALSE
    OBVIOUS
  <2>1. Bad \subseteq FiniteSubsetsOf(S)
    BY FS_Subset DEF FiniteSubsetsOf
  <2>2. IsWellFoundedOn(Smaller, FiniteSubsetsOf(S))
    BY FS_StrictSubsetOrderingWellFounded
  <2> HIDE DEF Bad, Smaller
  <2>3. PICK u \in Bad : \A v \in Bad : <<v, u>> \notin Smaller
    BY <2>1, <2>2, WFMin
  <2>4. u \in SUBSET S /\ ~Good(u)
    BY <2>3 DEF Bad
  <2>5. u # {}
    <3>1. g[{}] = 0
      BY <1>1
    <3>2. Good({})
      BY <3>1
    <3> QED
      BY <2>4, <3>2
  <2>6. Pick(u) \in u
    BY <2>5 DEF Pick
  <2> DEFINE v == u \ {Pick(u)}
  <2>7. v \in SUBSET S /\ <<v, u>> \in Smaller
    BY <2>4, <2>6 DEF Smaller, StrictSubsetOrdering
  <2>8. Good(v)
    BY <2>3, <2>7 DEF Bad
  <2>9. g[u] = bag[Pick(u)] + g[v] /\ bag[Pick(u)] \in Nat
    BY <1>1, <2>4, <2>5, <2>6
  <2>10. (\A x \in u : bag[x] = 0) <=> bag[Pick(u)] = 0 /\ \A x \in v : bag[x] = 0
    BY <2>6
  <2> HIDE DEF v
  <2> QED
    BY <2>4, <2>8, <2>9, <2>10
<1> QED
  BY <1>2

\* The size of a list of failures is zero only when the list is empty.
LEMMA SizeCounts ==
  ASSUME NEW bag \in Bag
  PROVE  Size(bag) \in Nat /\ (Size(bag) = 0 <=> bag = NoFailures)
<1>1. IsFiniteSet(Tests)
  BY PipelineAssumption DEF PipelineAssumption
<1>2. PICK g : SumsOver(Tests, bag, g) /\ Size(bag) = g[Tests]
  BY <1>1, SizeIsSum, SumsExist
<1>3. Size(bag) \in Nat /\ (Size(bag) = 0 <=> \A t \in Tests : bag[t] = 0)
  BY <1>1, <1>2, SumsOfNumbers DEF Bag
<1> QED
  BY <1>3 DEF Bag, NoFailures
-----------------------------------------------------------------------------
(* Types.                                                                  *)

\* The stages, with those in which a report ends for an error.
Stages == Filters \cup {"copy", "filtered", "reported", "failed", "panicked", "published"}

LEMMA Inputs ==
  /\ Archives \subseteq Archive /\ Summaries \subseteq Summary
  /\ KnownFailures \subseteq Tests /\ MaxItems \in Nat
BY PipelineAssumption DEF PipelineAssumption

\* A list of failures stays one when some of its tests are taken from it.
LEMMA OnlySome ==
  ASSUME NEW bag \in Bag, NEW S
  PROVE  /\ Only(bag, S) \in Bag
         /\ \A t \in Tests : Only(bag, S)[t] = IF t \in S THEN bag[t] ELSE 0
BY DEF Only, Bag

LEMMA AddOne ==
  ASSUME NEW bag \in Bag, NEW t \in Tests, NEW n \in Nat
  PROVE  /\ Add(bag, t, n) \in Bag
         /\ \A u \in Tests : Add(bag, t, n)[u] = IF u = t THEN bag[u] + n ELSE bag[u]
BY DEF Add, Bag

\* The list each filter reads.
LEMMA Wiring ==
  ASSUME NEW p
  PROVE  /\ Previous("suite", p) = archive.failed[p] /\ Previous("known", p) = kept["suite"][p]
         /\ Previous("replay", p) = kept["known"][p] /\ Previous("baseline", p) = kept["replay"][p]
         /\ Previous("baselineAPI", p) = kept["flaky"][p]
         /\ Previous("copy", p) = kept["baselineAPI"][p]
BY Zenon DEF Previous

LEMMA PreviousIsList ==
  ASSUME TypeOK, NEW f \in (Filters \ {"flaky"}) \cup {"copy"}, NEW p \in Plugins
  PROVE  Previous(f, p) \in Bag
<1>1. archive.failed[p] \in Bag
  BY DEF TypeOK, Archive
<1>2. \A g \in Filters : kept[g][p] \in Bag
  BY DEF TypeOK, Lists
<1> QED
  BY <1>1, <1>2, Wiring DEF Filters

\* A filter splits the lists that it reads, and leaves those of the others alone.
LEMMA SplitLists ==
  ASSUME TypeOK, NEW f \in Filters \ {"flaky"}, NEW pass, DOMAIN pass \subseteq Plugins,
         Split(f, pass)
  PROVE  /\ kept' \in Lists /\ excluded' \in Lists
         /\ \A g \in Filters \ {f} : kept'[g] = kept[g] /\ excluded'[g] = excluded[g]
         /\ \A p \in DOMAIN pass : /\ kept'[f][p] = Only(Previous(f, p), pass[p])
                                   /\ excluded'[f][p] = Only(Previous(f, p), Tests \ pass[p])
<1> DEFINE in == [p \in Plugins |-> IF p \in DOMAIN pass THEN Only(Previous(f, p), pass[p])
                                    ELSE kept[f][p]]
           out == [p \in Plugins |-> IF p \in DOMAIN pass
                                     THEN Only(Previous(f, p), Tests \ pass[p])
                                     ELSE excluded[f][p]]
<1>1. kept \in Lists /\ excluded \in Lists
  BY DEF TypeOK
<1>2. in \in [Plugins -> Bag] /\ out \in [Plugins -> Bag]
  <2>1. \A p \in Plugins : kept[f][p] \in Bag /\ excluded[f][p] \in Bag
    BY <1>1 DEF Lists
  <2>2. \A p \in Plugins : Previous(f, p) \in Bag
    BY PreviousIsList
  <2>3. \A p \in Plugins : /\ Only(Previous(f, p), pass[p]) \in Bag
                           /\ Only(Previous(f, p), Tests \ pass[p]) \in Bag
    BY <2>2, OnlySome
  <2> QED
    BY <2>1, <2>3
<1>3. kept' = [kept EXCEPT ![f] = in] /\ excluded' = [excluded EXCEPT ![f] = out]
  BY DEF Split
<1>4. \A p \in DOMAIN pass : /\ in[p] = Only(Previous(f, p), pass[p])
                             /\ out[p] = Only(Previous(f, p), Tests \ pass[p])
  OBVIOUS
<1> HIDE DEF in, out
<1> QED
  BY <1>1, <1>2, <1>3, <1>4 DEF Lists

\* What the filters of one stage write.
FilterStage == FilterSuite \/ FilterKnownFailures \/ FilterReplay \/ FilterBaselineAPI

LEMMA FilterStep ==
  ASSUME TypeOK, FilterStage
  PROVE  /\ kept' \in Lists /\ excluded' \in Lists /\ stage' \in Stages
         /\ UNCHANGED <<served, archive, unasked, priority, filtered, verdict, ambiguous>>
<1>1. ASSUME NEW f \in Filters \ {"flaky"}, NEW pass, DOMAIN pass \subseteq Plugins,
             NEW next \in Stages, Filter(f, pass, next)
      PROVE  kept' \in Lists /\ excluded' \in Lists /\ stage' \in Stages
  BY <1>1, SplitLists DEF Filter
<1>2. CASE FilterSuite
  BY <1>1, <1>2 DEF FilterSuite, Filter, Filters, Stages
<1>3. CASE FilterKnownFailures
  BY <1>1, <1>3 DEF FilterKnownFailures, Filter, Filters, Stages
<1>4. CASE FilterReplay
  BY <1>1, <1>4 DEF FilterReplay, Filter, Filters, Stages, Plugins
<1>5. CASE FilterBaselineAPI
  BY <1>1, <1>5 DEF FilterBaselineAPI, Filter, Filters, Stages
<1> QED
  BY <1>2, <1>3, <1>4, <1>5 DEF FilterStage

\* The pass of the baseline of --diff, which filters the conformance plugins only.
LEMMA BaselineStep ==
  ASSUME TypeOK, FilterBaseline
  PROVE  /\ kept' \in Lists /\ excluded' \in Lists
         /\ \A g \in Filters \ {"baseline"} : kept'[g] = kept[g] /\ excluded'[g] = excluded[g]
         /\ \A p \in Conformance :
              /\ kept'["baseline"][p] = Only(kept["replay"][p], Tests \ archive.baseline[p])
              /\ excluded'["baseline"][p] =
                   Only(kept["replay"][p], Tests \ (Tests \ archive.baseline[p]))
<1> DEFINE pass == [p \in Plugins |-> IF p \in Conformance THEN Tests \ archive.baseline[p]
                                      ELSE Tests]
<1>1. Split("baseline", pass) /\ "baseline" \in Filters \ {"flaky"} /\ DOMAIN pass \subseteq Plugins
  BY DEF FilterBaseline, Filters
<1>2. \A p \in Conformance : p \in Plugins /\ pass[p] = Tests \ archive.baseline[p]
  BY DEF Plugins
<1> HIDE DEF pass
<1>3. \A p \in Conformance : p \in DOMAIN pass
  BY <1>2 DEF pass
<1>4. \A p \in DOMAIN pass :
        /\ kept'["baseline"][p] = Only(Previous("baseline", p), pass[p])
        /\ excluded'["baseline"][p] = Only(Previous("baseline", p), Tests \ pass[p])
  BY <1>1, SplitLists
<1>5. /\ kept' \in Lists /\ excluded' \in Lists
      /\ \A g \in Filters \ {"baseline"} : kept'[g] = kept[g] /\ excluded'[g] = excluded[g]
  BY <1>1, SplitLists
<1> QED
  BY <1>2, <1>3, <1>4, <1>5, Wiring

\* What Sippy is asked about, and what becomes of it.
LEMMA SippyStep ==
  ASSUME TypeOK, NEW p \in Conformance, NEW t \in Tests, QuerySippy(p, t)
  PROVE  /\ unasked' \in [Conformance -> Bag] /\ kept' \in Lists /\ excluded' \in Lists
         /\ ambiguous' \subseteq Conformance \X Tests /\ ambiguous \subseteq ambiguous'
         /\ \A g \in Filters \ {"flaky"} : kept'[g] = kept[g] /\ excluded'[g] = excluded[g]
         /\ \A q \in Plugins \ {p} : /\ kept'["flaky"][q] = kept["flaky"][q]
                                     /\ excluded'["flaky"][q] = excluded["flaky"][q]
         /\ \A q \in Conformance \ {p} : unasked'[q] = unasked[q]
         /\ \A u \in Tests \ {t} : /\ unasked'[p][u] = unasked[p][u]
                                   /\ kept'["flaky"][p][u] = kept["flaky"][p][u]
                                   /\ excluded'["flaky"][p][u] = excluded["flaky"][p][u]
         /\ unasked[p][t] > 0 /\ unasked'[p][t] = unasked[p][t] - 1
         /\ <<p, t>> \notin ambiguous' =>
              kept'["flaky"][p][t] + excluded'["flaky"][p][t] =
                kept["flaky"][p][t] + excluded["flaky"][p][t] + 1
<1>1. /\ unasked \in [Conformance -> Bag] /\ kept \in Lists /\ excluded \in Lists
      /\ unasked[p] \in Bag /\ kept["flaky"][p] \in Bag /\ excluded["flaky"][p] \in Bag
      /\ p \in Plugins /\ "flaky" \in Filters
  BY DEF TypeOK, Lists, Plugins, Filters
<1>2. /\ unasked' = [unasked EXCEPT ![p] = [unasked[p] EXCEPT ![t] = unasked[p][t] - 1]]
      /\ unasked[p][t] > 0
  BY DEF QuerySippy
<1>3. /\ unasked' \in [Conformance -> Bag] /\ unasked'[p][t] = unasked[p][t] - 1
      /\ \A q \in Conformance \ {p} : unasked'[q] = unasked[q]
      /\ \A u \in Tests \ {t} : unasked'[p][u] = unasked[p][u]
  <2>1. [unasked[p] EXCEPT ![t] = unasked[p][t] - 1] \in Bag
    BY <1>1, <1>2 DEF Bag
  <2> QED
    BY <1>1, <1>2, <2>1 DEF Bag
<1>4. PICK k \in Bag, x \in Bag :
        /\ kept' = [kept EXCEPT !["flaky"] = [@ EXCEPT ![p] = k]]
        /\ excluded' = [excluded EXCEPT !["flaky"] = [@ EXCEPT ![p] = x]]
        /\ \A u \in Tests \ {t} : k[u] = kept["flaky"][p][u] /\ x[u] = excluded["flaky"][p][u]
        /\ ambiguous \subseteq ambiguous' /\ ambiguous' \subseteq ambiguous \cup {<<p, t>>}
        /\ <<p, t>> \notin ambiguous' =>
             k[t] + x[t] = kept["flaky"][p][t] + excluded["flaky"][p][t] + 1
  <2>1. kept["flaky"][p][t] \in Nat /\ excluded["flaky"][p][t] \in Nat
    BY <1>1 DEF Bag
  <2>2. CASE /\ kept' = [kept EXCEPT !["flaky"][p] = Add(@, t, 1)]
             /\ UNCHANGED <<excluded, ambiguous>>
    <3> DEFINE k == Add(kept["flaky"][p], t, 1)
               x == excluded["flaky"][p]
    <3>1. /\ k \in Bag /\ k[t] = kept["flaky"][p][t] + 1
          /\ \A u \in Tests \ {t} : k[u] = kept["flaky"][p][u]
      BY <1>1, AddOne
    <3>2. kept' = [kept EXCEPT !["flaky"] = [@ EXCEPT ![p] = k]]
      BY <2>2
    <3>3. excluded' = [excluded EXCEPT !["flaky"] = [@ EXCEPT ![p] = x]]
      BY <1>1, <2>2 DEF Lists
    <3>4. k[t] + x[t] = kept["flaky"][p][t] + excluded["flaky"][p][t] + 1
      BY <2>1, <3>1
    <3> HIDE DEF k, x
    <3> QED
      BY <1>1, <2>2, <3>1, <3>2, <3>3, <3>4 DEF x
  <2>3. CASE \E flakes, stable \in 0..MaxItems :
               /\ flakes + stable <= MaxItems
               /\ kept' = [kept EXCEPT !["flaky"][p] = Add(@, t, stable)]
               /\ excluded' = [excluded EXCEPT !["flaky"][p] = Add(@, t, flakes)]
               /\ ambiguous' = IF flakes + stable = 1 THEN ambiguous
                               ELSE ambiguous \cup {<<p, t>>}
    <3>1. PICK flakes \in 0..MaxItems, stable \in 0..MaxItems :
               /\ kept' = [kept EXCEPT !["flaky"][p] = Add(@, t, stable)]
               /\ excluded' = [excluded EXCEPT !["flaky"][p] = Add(@, t, flakes)]
               /\ ambiguous' = IF flakes + stable = 1 THEN ambiguous
                               ELSE ambiguous \cup {<<p, t>>}
      BY <2>3
    <3>2. flakes \in Nat /\ stable \in Nat
      BY <3>1, Inputs
    <3> DEFINE k == Add(kept["flaky"][p], t, stable)
               x == Add(excluded["flaky"][p], t, flakes)
    <3>3. /\ k \in Bag /\ k[t] = kept["flaky"][p][t] + stable
          /\ x \in Bag /\ x[t] = excluded["flaky"][p][t] + flakes
          /\ \A u \in Tests \ {t} : k[u] = kept["flaky"][p][u] /\ x[u] = excluded["flaky"][p][u]
      BY <1>1, <3>2, AddOne
    <3>4. /\ kept' = [kept EXCEPT !["flaky"] = [@ EXCEPT ![p] = k]]
          /\ excluded' = [excluded EXCEPT !["flaky"] = [@ EXCEPT ![p] = x]]
      BY <3>1
    <3>5. flakes + stable = 1 => k[t] + x[t] = kept["flaky"][p][t] + excluded["flaky"][p][t] + 1
      BY <2>1, <3>2, <3>3
    <3> HIDE DEF k, x
    <3>6. /\ ambiguous \subseteq ambiguous' /\ ambiguous' \subseteq ambiguous \cup {<<p, t>>}
          /\ <<p, t>> \notin ambiguous' =>
               k[t] + x[t] = kept["flaky"][p][t] + excluded["flaky"][p][t] + 1
      BY <3>1, <3>5
    <3> QED
      BY <3>3, <3>4, <3>6
  <2> QED
    BY <2>2, <2>3 DEF QuerySippy
<1>5. /\ kept' \in Lists /\ excluded' \in Lists
      /\ \A g \in Filters \ {"flaky"} : kept'[g] = kept[g] /\ excluded'[g] = excluded[g]
      /\ \A q \in Plugins \ {p} : /\ kept'["flaky"][q] = kept["flaky"][q]
                                  /\ excluded'["flaky"][q] = excluded["flaky"][q]
      /\ kept'["flaky"][p] = k /\ excluded'["flaky"][p] = x
  BY <1>1, <1>4 DEF Lists
<1>6. ambiguous' \subseteq Conformance \X Tests
  BY <1>4 DEF TypeOK
<1> QED
  BY <1>2, <1>3, <1>4, <1>5, <1>6

\* The failures that are read from a summary, and the summary that is made.
LEMMA Summarized ==
  ASSUME TypeOK
  PROVE  /\ Summarize \in Summary
         /\ \A summary \in Summary : [p \in Plugins |-> PriorityFailures(summary, p)]
                                       \in [Plugins -> SUBSET Tests]
<1>1. Summarize \in Summary
  <2>1. \A p \in Plugins : (IF p = "upgrade" THEN {} ELSE {{t \in Tests : filtered[p][t] > 0}})
                             \in Optional(SUBSET Tests)
    BY DEF Optional
  <2>2. {} \in Optional(SUBSET Tests)
    BY DEF Optional
  <2> QED
    BY <2>1, <2>2 DEF Summarize, Summary, Entry
<1>2. ASSUME NEW summary \in Summary, NEW p \in Plugins
      PROVE  PriorityFailures(summary, p) \in SUBSET Tests
  <2>1. summary[p].failedFiltered \in Optional(SUBSET Tests)
    BY DEF Summary, Entry
  <2> QED
    BY <2>1 DEF PriorityFailures, Optional
<1> QED
  BY <1>1, <1>2

\* Every variable keeps its type.
THEOREM Typing == SpecPublished => []TypeOK
<1>1. InitPublished => TypeOK
  <2> SUFFICES ASSUME InitPublished PROVE TypeOK
    OBVIOUS
  <2> USE DEF InitPublished, Init
  <2>1. NoFailures \in Bag
    BY DEF NoFailures, Bag
  <2>2. NoLists \in Lists
    BY <2>1 DEF NoLists, Lists
  <2>3. served \subseteq Summary /\ archive \in Archive
    BY Inputs
  <2> QED
    BY <2>1, <2>2, <2>3 DEF TypeOK, Filters, NoPriority, Unjudged
<1>2. TypeOK /\ [NextPublished]_varsPublished => TypeOK'
  <2> SUFFICES ASSUME TypeOK, [NextPublished]_varsPublished PROVE TypeOK'
    OBVIOUS
  <2>0. TypeOK' <=> /\ served' \subseteq Summary /\ archive' \in Archive /\ stage' \in Stages
                    /\ kept' \in Lists /\ excluded' \in Lists
                    /\ unasked' \in [Conformance -> Bag]
                    /\ priority' \in [Plugins -> SUBSET Tests]
                    /\ filtered' \in [Plugins -> Bag]
                    /\ verdict' \in [Conformance -> {"none", "pass", "warn", "fail"}]
                    /\ ambiguous' \subseteq Conformance \X Tests
    BY DEF TypeOK, Stages
  <2>1. CASE FilterStage
    BY <2>0, <2>1, FilterStep DEF TypeOK
  <2>2. CASE FilterBaseline
    <3>1. kept' \in Lists /\ excluded' \in Lists
      BY <2>2, BaselineStep
    <3>2. unasked' \in [Conformance -> Bag]
      <4>1. \A p \in Conformance : kept'["baseline"][p] \in Bag
        BY <3>1 DEF Lists, Filters, Plugins
      <4> QED
        BY <2>2, <4>1 DEF FilterBaseline, TypeOK
    <3> QED
      BY <2>0, <2>2, <3>1, <3>2 DEF FilterBaseline, TypeOK, Stages, Filters
  <2>3. CASE \E p \in Conformance, t \in Tests : QuerySippy(p, t)
    <3>1. PICK p \in Conformance, t \in Tests : QuerySippy(p, t)
      BY <2>3
    <3>2. UNCHANGED <<served, archive, stage, priority, filtered, verdict>>
      BY <3>1 DEF QuerySippy
    <3>3. /\ unasked' \in [Conformance -> Bag] /\ kept' \in Lists /\ excluded' \in Lists
          /\ ambiguous' \subseteq Conformance \X Tests
      BY <3>1, SippyStep
    <3> QED
      BY <2>0, <3>2, <3>3 DEF TypeOK, Stages
  <2>4. CASE LoadBaselineFromAPI
    <3>1. UNCHANGED <<served, archive, kept, excluded, unasked, filtered, verdict, ambiguous>>
      BY <2>4 DEF LoadBaselineFromAPI, lists
    <3>2. stage' \in Stages
      BY <2>4 DEF LoadBaselineFromAPI, Stages, Filters
    <3>3. priority' \in [Plugins -> SUBSET Tests]
      BY <2>4, Summarized DEF LoadBaselineFromAPI, TypeOK
    <3> QED
      BY <2>0, <3>1, <3>2, <3>3 DEF TypeOK
  <2>5. CASE CopyPipeline
    <3>1. UNCHANGED <<served, archive, kept, excluded, unasked, priority, verdict, ambiguous>>
      BY <2>5 DEF CopyPipeline, lists
    <3>2. stage' \in Stages
      BY <2>5 DEF CopyPipeline, Stages
    <3>3. filtered' \in [Plugins -> Bag]
      <4>1. \A p \in Plugins : archive.failed[p] \in Bag /\ Previous("copy", p) \in Bag
        BY PreviousIsList DEF TypeOK, Archive
      <4> QED
        BY <2>5, <4>1 DEF CopyPipeline
    <3> QED
      BY <2>0, <3>1, <3>2, <3>3 DEF TypeOK
  <2>6. CASE Report
    <3>1. UNCHANGED <<served, archive, kept, excluded, unasked, priority, filtered, ambiguous>>
      BY <2>6 DEF Report, lists
    <3>2. stage' \in Stages
      BY <2>6 DEF Report, Stages
    <3>3. verdict' \in [Conformance -> {"none", "pass", "warn", "fail"}]
      <4>1. \A p \in Conformance : Judge(p) \in {"none", "pass", "warn", "fail"}
        BY DEF Judge, KubeConformance, OcpReview, Verdict
      <4> QED
        BY <2>6, <4>1 DEF Report
    <3> QED
      BY <2>0, <3>1, <3>2, <3>3 DEF TypeOK
  <2>7. CASE Publish
    <3>1. /\ UNCHANGED <<archive, kept, excluded, unasked, priority, filtered, verdict, ambiguous>>
          /\ stage' \in Stages /\ served' = served \cup {Summarize}
      BY <2>7 DEF Publish, Upload, lists, Stages
    <3> QED
      BY <2>0, <3>1, Summarized DEF TypeOK
  <2>8. CASE ProcessAnother
    <3>1. NoFailures \in Bag
      BY DEF NoFailures, Bag
    <3>2. NoLists \in Lists
      BY <3>1 DEF NoLists, Lists
    <3>3. archive' \in Archive /\ stage' \in Stages
      BY <2>8, Inputs DEF ProcessAnother, Stages, Filters
    <3> QED
      BY <2>0, <2>8, <3>1, <3>2, <3>3 DEF ProcessAnother, TypeOK, NoPriority, Unjudged
  <2>9. CASE UNCHANGED varsPublished
    BY <2>0, <2>9 DEF varsPublished, vars, TypeOK, Stages
  <2> QED
    BY <2>1, <2>2, <2>3, <2>4, <2>5, <2>6, <2>7, <2>8, <2>9
       DEF NextPublished, Next, FilterStage
<1> QED
  BY <1>1, <1>2, PTL DEF SpecPublished

-----------------------------------------------------------------------------
(* The lists on their way through the filters.                             *)

\* The stages after each of the filters.
RanBaselineAPI == {"copy", "filtered", "reported", "published"}
RanFlaky == RanBaselineAPI \cup {"baselineAPI"}
RanBaseline == RanFlaky \cup {"flaky"}
RanReplay == RanBaseline \cup {"baseline"}
RanKnown == RanReplay \cup {"replay"}
RanSuite == RanKnown \cup {"known"}

\* Filter f let the failures of S through, of those in a list.
Passed(f, p, list, S) ==
  kept[f][p] = Only(list, S) /\ excluded[f][p] = Only(list, Tests \ S)

InSuite(p) == IF Suite(p) = {} THEN Tests ELSE Suite(p)

\* Each list is what its filter made of the one before it.
Chained(p) ==
  /\ stage \in RanSuite => Passed("suite", p, archive.failed[p], InSuite(p))
  /\ stage \in RanKnown => Passed("known", p, kept["suite"][p], Tests \ KnownFailures)
  /\ stage \in RanReplay => Passed("replay", p, kept["known"][p], Tests \ archive.passed)
  /\ stage \in RanBaseline => Passed("baseline", p, kept["replay"][p], Tests \ archive.baseline[p])
  /\ stage \in RanBaselineAPI =>
       Passed("baselineAPI", p, kept["flaky"][p], Tests \ priority[p])

\* A failure is asked about once, and answered with one item unless it is ambiguous.
Asked(p) ==
  /\ stage \in RanBaseline =>
       \A t \in Tests :
         /\ unasked[p][t] > 0 \/ kept["flaky"][p][t] > 0 => kept["baseline"][p][t] > 0
         /\ <<p, t>> \notin ambiguous =>
              kept["baseline"][p][t] =
                unasked[p][t] + kept["flaky"][p][t] + excluded["flaky"][p][t]
  /\ stage \in RanFlaky => unasked[p] = NoFailures
  /\ stage \in {"suite", "known", "replay", "baseline"} =>
       kept["flaky"][p] = NoFailures /\ excluded["flaky"][p] = NoFailures

\* The list to review and the verdict are read from the last list.
Judged(p) ==
  /\ stage \in {"filtered", "reported", "published"} => filtered[p] = kept["baselineAPI"][p]
  /\ verdict[p] # "none" => stage \in {"reported", "published"} /\ verdict[p] = Judge(p)

\* A run with the filter of the baselines disabled knows of no baseline.
NoBaseline == archive.disabled => priority = NoPriority

Pipeline == NoBaseline /\ \A p \in Conformance : Chained(p) /\ Asked(p) /\ Judged(p)

\* What one of the stages of filters does to the lists of the conformance plugins.
LEMMA FilterPasses ==
  ASSUME TypeOK, NEW p \in Conformance
  PROVE  /\ FilterSuite => stage = "suite" /\ stage' = "known"
                           /\ Passed("suite", p, archive.failed[p], InSuite(p))'
         /\ FilterKnownFailures => stage = "known" /\ stage' = "replay"
              /\ Passed("known", p, kept["suite"][p], Tests \ KnownFailures)'
         /\ FilterReplay => stage = "replay" /\ stage' = "baseline"
              /\ Passed("replay", p, kept["known"][p], Tests \ archive.passed)'
         /\ FilterBaselineAPI => stage = "baselineAPI" /\ stage' = "copy"
              /\ Passed("baselineAPI", p, kept["flaky"][p], Tests \ priority[p])'
         /\ \A f \in Filters :
              (FilterSuite /\ f # "suite") \/ (FilterKnownFailures /\ f # "known")
                \/ (FilterReplay /\ f # "replay") \/ (FilterBaselineAPI /\ f # "baselineAPI")
              => kept'[f] = kept[f] /\ excluded'[f] = excluded[f]
<1>1. ASSUME NEW f \in Filters \ {"flaky"}, NEW pass, DOMAIN pass \subseteq Plugins,
             p \in DOMAIN pass, NEW next, Filter(f, pass, next)
      PROVE  /\ stage = f /\ stage' = next /\ archive' = archive /\ priority' = priority
             /\ kept'[f][p] = Only(Previous(f, p), pass[p])
             /\ excluded'[f][p] = Only(Previous(f, p), Tests \ pass[p])
             /\ \A g \in Filters \ {f} : kept'[g] = kept[g] /\ excluded'[g] = excluded[g]
  BY <1>1, SplitLists DEF Filter
<1>2. p \in Plugins /\ p # "replay"
  BY DEF Plugins, Conformance
<1>3. ASSUME FilterSuite
      PROVE  /\ stage = "suite" /\ stage' = "known"
             /\ Passed("suite", p, archive.failed[p], InSuite(p))'
             /\ \A g \in Filters \ {"suite"} : kept'[g] = kept[g] /\ excluded'[g] = excluded[g]
  <2> DEFINE pass == [q \in Plugins |-> IF Suite(q) = {} THEN Tests ELSE Suite(q)]
  <2>1. Filter("suite", pass, "known") /\ pass[p] = InSuite(p)
        /\ DOMAIN pass = Plugins /\ "suite" \in Filters \ {"flaky"}
    BY <1>2, <1>3 DEF FilterSuite, InSuite, Filters
  <2> HIDE DEF pass
  <2>2. InSuite(p)' = InSuite(p)
    BY <1>1, <1>2, <2>1 DEF InSuite, Suite
  <2>3. /\ stage = "suite" /\ stage' = "known" /\ archive' = archive /\ priority' = priority
        /\ kept'["suite"][p] = Only(Previous("suite", p), pass[p])
        /\ excluded'["suite"][p] = Only(Previous("suite", p), Tests \ pass[p])
        /\ \A g \in Filters \ {"suite"} : kept'[g] = kept[g] /\ excluded'[g] = excluded[g]
    BY <1>1, <1>2, <2>1
  <2> QED
    BY <2>1, <2>2, <2>3, Wiring DEF Passed
<1>4. ASSUME FilterKnownFailures
      PROVE  /\ stage = "known" /\ stage' = "replay"
             /\ Passed("known", p, kept["suite"][p], Tests \ KnownFailures)'
             /\ \A g \in Filters \ {"known"} : kept'[g] = kept[g] /\ excluded'[g] = excluded[g]
  <2> DEFINE pass == [q \in Plugins |-> Tests \ KnownFailures]
  <2>1. Filter("known", pass, "replay") /\ pass[p] = Tests \ KnownFailures
        /\ DOMAIN pass = Plugins /\ {"known", "suite"} \subseteq Filters \ {"flaky"}
    BY <1>2, <1>4 DEF FilterKnownFailures, Filters
  <2> HIDE DEF pass
  <2>3. /\ stage = "known" /\ stage' = "replay" /\ archive' = archive /\ priority' = priority
        /\ kept'["known"][p] = Only(Previous("known", p), pass[p])
        /\ excluded'["known"][p] = Only(Previous("known", p), Tests \ pass[p])
        /\ \A g \in Filters \ {"known"} : kept'[g] = kept[g] /\ excluded'[g] = excluded[g]
    BY <1>1, <1>2, <2>1
  <2>4. kept'["suite"] = kept["suite"]
    BY <2>1, <2>3 DEF Filters
  <2> QED
    BY <2>1, <2>3, <2>4, Wiring DEF Passed
<1>5. ASSUME FilterReplay
      PROVE  /\ stage = "replay" /\ stage' = "baseline"
             /\ Passed("replay", p, kept["known"][p], Tests \ archive.passed)'
             /\ \A g \in Filters \ {"replay"} : kept'[g] = kept[g] /\ excluded'[g] = excluded[g]
  <2> DEFINE pass == [q \in Conformance |-> Tests \ archive.passed]
  <2>1. Filter("replay", pass, "baseline") /\ pass[p] = Tests \ archive.passed
        /\ p \in DOMAIN pass /\ DOMAIN pass \subseteq Plugins
        /\ {"replay", "known"} \subseteq Filters \ {"flaky"}
    BY <1>2, <1>5 DEF FilterReplay, Filters, Plugins
  <2> HIDE DEF pass
  <2>3. /\ stage = "replay" /\ stage' = "baseline" /\ archive' = archive /\ priority' = priority
        /\ kept'["replay"][p] = Only(Previous("replay", p), pass[p])
        /\ excluded'["replay"][p] = Only(Previous("replay", p), Tests \ pass[p])
        /\ \A g \in Filters \ {"replay"} : kept'[g] = kept[g] /\ excluded'[g] = excluded[g]
    BY <1>1, <1>2, <2>1
  <2>4. kept'["known"] = kept["known"]
    BY <2>1, <2>3 DEF Filters
  <2> QED
    BY <2>1, <2>3, <2>4, Wiring DEF Passed
<1>6. ASSUME FilterBaselineAPI
      PROVE  /\ stage = "baselineAPI" /\ stage' = "copy"
             /\ Passed("baselineAPI", p, kept["flaky"][p], Tests \ priority[p])'
             /\ \A g \in Filters \ {"baselineAPI"} :
                  kept'[g] = kept[g] /\ excluded'[g] = excluded[g]
  <2> DEFINE pass == [q \in Plugins |-> IF q = "replay" THEN Tests ELSE Tests \ priority[q]]
  <2>1. Filter("baselineAPI", pass, "copy") /\ pass[p] = Tests \ priority[p]
        /\ DOMAIN pass = Plugins /\ "baselineAPI" \in Filters \ {"flaky"}
        /\ "flaky" \in Filters \ {"baselineAPI"}
    BY <1>2, <1>6 DEF FilterBaselineAPI, Filters
  <2> HIDE DEF pass
  <2>3. /\ stage = "baselineAPI" /\ stage' = "copy" /\ archive' = archive /\ priority' = priority
        /\ kept'["baselineAPI"][p] = Only(Previous("baselineAPI", p), pass[p])
        /\ excluded'["baselineAPI"][p] = Only(Previous("baselineAPI", p), Tests \ pass[p])
        /\ \A g \in Filters \ {"baselineAPI"} : kept'[g] = kept[g] /\ excluded'[g] = excluded[g]
    BY <1>1, <1>2, <2>1
  <2>4. kept'["flaky"] = kept["flaky"]
    BY <2>1, <2>3 DEF Filters
  <2> QED
    BY <2>1, <2>3, <2>4, Wiring DEF Passed
<1> QED
  BY <1>3, <1>4, <1>5, <1>6
LEMMA NoBaselineStep ==
  TypeOK /\ NoBaseline /\ [NextPublished]_varsPublished => NoBaseline'
<1> SUFFICES ASSUME TypeOK, NoBaseline, [NextPublished]_varsPublished PROVE NoBaseline'
  OBVIOUS
<1>1. CASE LoadBaselineFromAPI
  <2>1. archive' = archive /\ (archive.disabled => priority' = priority)
    BY <1>1 DEF LoadBaselineFromAPI
  <2> QED
    BY <2>1, Zenon DEF NoBaseline
<1>2. CASE ProcessAnother
  BY <1>2 DEF ProcessAnother, NoBaseline
<1>3. CASE UNCHANGED <<archive, priority>>
  BY <1>3, Zenon DEF NoBaseline
<1>4. NextPublished =>
        LoadBaselineFromAPI \/ ProcessAnother \/ UNCHANGED <<archive, priority>>
  BY FilterStep DEF NextPublished, Next, FilterStage, FilterBaseline, QuerySippy, CopyPipeline,
                    Report, Publish, Upload
<1> QED
  BY <1>1, <1>2, <1>3, <1>4 DEF varsPublished, vars

LEMMA PipelineStep == TypeOK /\ Pipeline /\ [NextPublished]_varsPublished => Pipeline'
<1> SUFFICES ASSUME TypeOK, Pipeline, [NextPublished]_varsPublished PROVE Pipeline'
  OBVIOUS
<1>1. NoBaseline'
  BY NoBaselineStep DEF Pipeline
<1>2. ASSUME NEW p \in Conformance PROVE Chained(p)' /\ Asked(p)' /\ Judged(p)'
  <2>0. Chained(p) /\ Asked(p) /\ Judged(p)
    BY DEF Pipeline
  <2> USE DEF Chained, Asked, Judged, RanSuite, RanKnown, RanReplay, RanBaseline, RanFlaky,
              RanBaselineAPI
  <2>1. CASE FilterSuite
    <3>1. /\ stage = "suite" /\ stage' = "known"
          /\ Passed("suite", p, archive.failed[p], InSuite(p))'
          /\ kept'["flaky"] = kept["flaky"] /\ excluded'["flaky"] = excluded["flaky"]
          /\ verdict' = verdict
      BY <2>1, FilterPasses, FilterStep DEF Filters, FilterStage
    <3> QED
      BY <2>0, <3>1
  <2>2. CASE FilterKnownFailures
    <3>1. /\ stage = "known" /\ stage' = "replay"
          /\ Passed("known", p, kept["suite"][p], Tests \ KnownFailures)'
          /\ \A f \in {"suite", "flaky"} : kept'[f] = kept[f] /\ excluded'[f] = excluded[f]
          /\ verdict' = verdict /\ archive' = archive
      BY <2>2, FilterPasses, FilterStep DEF Filters, FilterStage
    <3> QED
      BY <2>0, <3>1 DEF Passed, InSuite, Suite
  <2>3. CASE FilterReplay
    <3>1. /\ stage = "replay" /\ stage' = "baseline"
          /\ Passed("replay", p, kept["known"][p], Tests \ archive.passed)'
          /\ \A f \in {"suite", "known", "flaky"} :
               kept'[f] = kept[f] /\ excluded'[f] = excluded[f]
          /\ verdict' = verdict /\ archive' = archive
      BY <2>3, FilterPasses, FilterStep DEF Filters, FilterStage
    <3> QED
      BY <2>0, <3>1 DEF Passed, InSuite, Suite
  <2>4. CASE FilterBaseline
    <3>1. /\ stage = "baseline" /\ stage' \in {"flaky", "panicked"}
          /\ stage' = "flaky" => unasked'[p] = kept'["baseline"][p]
          /\ verdict' = verdict /\ archive' = archive
      BY <2>4 DEF FilterBaseline
    <3>2. /\ Passed("baseline", p, kept["replay"][p], Tests \ archive.baseline[p])'
          /\ \A f \in {"suite", "known", "replay", "flaky"} :
               kept'[f] = kept[f] /\ excluded'[f] = excluded[f]
      BY <2>4, <3>1, BaselineStep DEF Filters, Passed
    <3>3. \A t \in Tests : /\ kept'["flaky"][p][t] = 0 /\ excluded'["flaky"][p][t] = 0
                           /\ kept'["baseline"][p][t] \in Nat
      <4>1. kept'["baseline"][p] \in Bag
        BY <2>4, BaselineStep DEF Lists, Filters, Plugins
      <4> QED
        BY <2>0, <3>1, <3>2, <4>1 DEF NoFailures, Bag
    <3>4. Chained(p)'
      BY <2>0, <3>1, <3>2 DEF Passed, InSuite, Suite
    <3>5. Asked(p)'
      BY <3>1, <3>3
    <3> QED
      BY <2>0, <3>1, <3>4, <3>5
  <2>5. CASE \E q \in Conformance, t \in Tests : QuerySippy(q, t)
    <3>1. PICK q \in Conformance, t \in Tests : QuerySippy(q, t)
      BY <2>5
    <3>2. stage = "flaky" /\ stage' = "flaky" /\ verdict' = verdict /\ archive' = archive
      BY <3>1 DEF QuerySippy
    <3>3. \A f \in {"suite", "known", "replay", "baseline"} :
            kept'[f] = kept[f] /\ excluded'[f] = excluded[f]
      BY <3>1, SippyStep DEF Filters
    <3>4. ASSUME NEW u \in Tests
          PROVE  /\ unasked'[p][u] > 0 \/ kept'["flaky"][p][u] > 0 => kept'["baseline"][p][u] > 0
                 /\ <<p, u>> \notin ambiguous' =>
                      kept'["baseline"][p][u] =
                        unasked'[p][u] + kept'["flaky"][p][u] + excluded'["flaky"][p][u]
      <4>1. /\ unasked[p][u] \in Nat /\ kept["flaky"][p][u] \in Nat
            /\ excluded["flaky"][p][u] \in Nat /\ kept["baseline"][p][u] \in Nat
        BY DEF TypeOK, Lists, Bag, Plugins, Filters
      <4>2. /\ unasked[p][u] > 0 \/ kept["flaky"][p][u] > 0 => kept["baseline"][p][u] > 0
            /\ <<p, u>> \notin ambiguous =>
                 kept["baseline"][p][u] =
                   unasked[p][u] + kept["flaky"][p][u] + excluded["flaky"][p][u]
        BY <2>0, <3>2
      <4>3. CASE p # q \/ u # t
        <5>1. /\ unasked'[p][u] = unasked[p][u] /\ kept'["flaky"][p][u] = kept["flaky"][p][u]
              /\ excluded'["flaky"][p][u] = excluded["flaky"][p][u]
              /\ ambiguous \subseteq ambiguous'
          <6>1. p \in Plugins
            BY DEF Plugins
          <6>2. /\ \A r \in Plugins \ {q} : /\ kept'["flaky"][r] = kept["flaky"][r]
                                            /\ excluded'["flaky"][r] = excluded["flaky"][r]
                /\ \A r \in Conformance \ {q} : unasked'[r] = unasked[r]
            BY <3>1, SippyStep
          <6>3. \A w \in Tests \ {t} : /\ unasked'[q][w] = unasked[q][w]
                                       /\ kept'["flaky"][q][w] = kept["flaky"][q][w]
                                       /\ excluded'["flaky"][q][w] = excluded["flaky"][q][w]
            BY <3>1, SippyStep
          <6>4. ambiguous \subseteq ambiguous'
            BY <3>1, SippyStep
          <6> QED
            BY <4>3, <6>1, <6>2, <6>3, <6>4
        <5> QED
          BY <3>3, <4>2, <5>1
      <4>4. CASE p = q /\ u = t
        <5>1. /\ unasked[p][u] > 0 /\ unasked'[p][u] = unasked[p][u] - 1
              /\ ambiguous \subseteq ambiguous'
              /\ <<p, u>> \notin ambiguous' =>
                   kept'["flaky"][p][u] + excluded'["flaky"][p][u] =
                     kept["flaky"][p][u] + excluded["flaky"][p][u] + 1
          BY <3>1, <4>4, SippyStep
        <5>2. kept'["flaky"][p][u] \in Nat /\ excluded'["flaky"][p][u] \in Nat
          <6>1. kept' \in Lists /\ excluded' \in Lists
            BY <3>1, SippyStep
          <6> QED
            BY <6>1 DEF Lists, Bag, Plugins, Filters
        <5> QED
          BY <3>3, <4>1, <4>2, <5>1, <5>2
      <4> QED
        BY <4>3, <4>4
    <3> QED
      BY <2>0, <3>2, <3>3, <3>4 DEF Passed, InSuite, Suite
  <2>6. CASE LoadBaselineFromAPI
    <3>1. /\ stage = "flaky" /\ stage' \in {"baselineAPI", "failed", "panicked"}
          /\ unasked[p] = NoFailures
          /\ UNCHANGED <<archive, kept, excluded, unasked, verdict, ambiguous>>
      BY <2>6 DEF LoadBaselineFromAPI, lists
    <3> QED
      BY <2>0, <3>1 DEF Passed, InSuite, Suite
  <2>7. CASE FilterBaselineAPI
    <3>1. /\ stage = "baselineAPI" /\ stage' = "copy"
          /\ Passed("baselineAPI", p, kept["flaky"][p], Tests \ priority[p])'
          /\ \A f \in {"suite", "known", "replay", "baseline", "flaky"} :
               kept'[f] = kept[f] /\ excluded'[f] = excluded[f]
          /\ UNCHANGED <<archive, unasked, verdict, ambiguous>>
      BY <2>7, FilterPasses, FilterStep DEF Filters, FilterStage
    <3> QED
      BY <2>0, <3>1 DEF Passed, InSuite, Suite
  <2>8. CASE CopyPipeline \/ Report \/ Publish
    <3>1. /\ \/ stage = "copy" /\ stage' = "filtered"
             \/ stage = "filtered" /\ stage' = "reported"
             \/ stage = "reported" /\ stage' = "published"
          /\ UNCHANGED <<archive, kept, excluded, unasked, priority, ambiguous>>
      BY <2>8 DEF CopyPipeline, Report, Publish, Upload, lists
    <3>2. Chained(p)' /\ Asked(p)'
      BY <2>0, <3>1 DEF Passed, InSuite, Suite
    <3>3. CASE CopyPipeline
      <4>1. filtered'[p] = kept["baselineAPI"][p] /\ verdict' = verdict /\ stage = "copy"
        BY <3>3, Wiring DEF CopyPipeline, Plugins, Conformance
      <4> QED
        BY <2>0, <3>1, <3>2, <4>1
    <3>4. CASE Report \/ Publish
      <4>1. filtered' = filtered /\ (Report => verdict'[p] = Judge(p)) /\ (Publish => verdict' = verdict)
            /\ stage \in {"filtered", "reported"} /\ stage' \in {"reported", "published"}
            /\ (Publish => stage = "reported")
        BY <3>4 DEF Report, Publish, Upload
      <4>2. Judge(p)' = Judge(p)
        BY <3>1, <4>1 DEF Judge, Counts
      <4> QED
        BY <2>0, <3>1, <3>2, <3>4, <4>1, <4>2
    <3> QED
      BY <2>8, <3>3, <3>4
  <2>9. CASE ProcessAnother
    <3>1. /\ stage' = "suite" /\ verdict'[p] = "none"
          /\ kept'["flaky"][p] = NoFailures /\ excluded'["flaky"][p] = NoFailures
      BY <2>9 DEF ProcessAnother, Unjudged, NoLists, Filters, Plugins
    <3> QED
      BY <3>1
  <2>10. CASE UNCHANGED varsPublished
    <3>1. UNCHANGED <<archive, stage, kept, excluded, unasked, priority, filtered, verdict, ambiguous>>
      BY <2>10 DEF varsPublished, vars
    <3>2. Judge(p)' = Judge(p)
      BY <3>1 DEF Judge, Counts
    <3> QED
      BY <2>0, <3>1, <3>2 DEF Passed, InSuite, Suite
  <2> QED
    BY <2>1, <2>2, <2>3, <2>4, <2>5, <2>6, <2>7, <2>8, <2>9, <2>10 DEF NextPublished, Next
<1> QED
  BY <1>1, <1>2 DEF Pipeline

LEMMA PipelineHolds == SpecPublished => []Pipeline
<1>1. InitPublished => Pipeline
  <2> SUFFICES ASSUME InitPublished PROVE Pipeline
    OBVIOUS
  <2>1. stage = "suite" /\ priority = NoPriority
    BY DEF InitPublished, Init
  <2>2. \A p \in Conformance : /\ verdict[p] = "none" /\ kept["flaky"][p] = NoFailures
                               /\ excluded["flaky"][p] = NoFailures
    BY DEF InitPublished, Init, Unjudged, NoLists, Filters, Plugins
  <2> QED
    BY <2>1, <2>2 DEF Pipeline, NoBaseline, Chained, Asked, Judged, RanSuite, RanKnown, RanReplay,
                      RanBaseline, RanFlaky, RanBaselineAPI
<1> QED
  BY <1>1, PipelineStep, Typing, PTL DEF SpecPublished
-----------------------------------------------------------------------------
(* What becomes of a failure.                                              *)

Complete == stage \in {"filtered", "reported", "published"}

\* The chain of the lists of a failure, once the last one is written.
LEMMA ChainOf ==
  ASSUME TypeOK, Pipeline, Complete, NEW p \in Conformance, NEW t \in Tests
  PROVE  /\ archive.failed[p][t] \in Nat
         /\ \A f \in Filters : kept[f][p][t] \in Nat /\ excluded[f][p][t] \in Nat
         /\ kept["suite"][p][t] = (IF t \in InSuite(p) THEN archive.failed[p][t] ELSE 0)
         /\ excluded["suite"][p][t] = (IF t \in InSuite(p) THEN 0 ELSE archive.failed[p][t])
         /\ kept["known"][p][t] = (IF t \in KnownFailures THEN 0 ELSE kept["suite"][p][t])
         /\ excluded["known"][p][t] = (IF t \in KnownFailures THEN kept["suite"][p][t] ELSE 0)
         /\ kept["replay"][p][t] = (IF t \in archive.passed THEN 0 ELSE kept["known"][p][t])
         /\ excluded["replay"][p][t] = (IF t \in archive.passed THEN kept["known"][p][t] ELSE 0)
         /\ kept["baseline"][p][t] = (IF t \in archive.baseline[p] THEN 0 ELSE kept["replay"][p][t])
         /\ excluded["baseline"][p][t] = (IF t \in archive.baseline[p] THEN kept["replay"][p][t] ELSE 0)
         /\ kept["flaky"][p][t] > 0 => kept["baseline"][p][t] > 0
         /\ <<p, t>> \notin ambiguous =>
                kept["baseline"][p][t] = kept["flaky"][p][t] + excluded["flaky"][p][t]
         /\ kept["baselineAPI"][p][t] = (IF t \in priority[p] THEN 0 ELSE kept["flaky"][p][t])
         /\ excluded["baselineAPI"][p][t] = (IF t \in priority[p] THEN kept["flaky"][p][t] ELSE 0)
         /\ filtered[p][t] = kept["baselineAPI"][p][t]
<1>1. /\ p \in Plugins
      /\ archive.failed[p] \in Bag /\ \A f \in Filters : kept[f][p] \in Bag /\ excluded[f][p] \in Bag
  BY DEF TypeOK, Archive, Lists, Plugins
<1>2. /\ archive.failed[p][t] \in Nat
      /\ \A f \in Filters : kept[f][p][t] \in Nat /\ excluded[f][p][t] \in Nat
  BY <1>1 DEF Bag
<1>3. /\ Passed("suite", p, archive.failed[p], InSuite(p))
      /\ Passed("known", p, kept["suite"][p], Tests \ KnownFailures)
      /\ Passed("replay", p, kept["known"][p], Tests \ archive.passed)
      /\ Passed("baseline", p, kept["replay"][p], Tests \ archive.baseline[p])
      /\ Passed("baselineAPI", p, kept["flaky"][p], Tests \ priority[p])
  BY DEF Complete, Pipeline, Chained, RanSuite, RanKnown, RanReplay, RanBaseline, RanFlaky,
         RanBaselineAPI
<1>4. /\ unasked[p][t] = 0 /\ (kept["flaky"][p][t] > 0 => kept["baseline"][p][t] > 0)
      /\ <<p, t>> \notin ambiguous =>
           kept["baseline"][p][t] = unasked[p][t] + kept["flaky"][p][t] + excluded["flaky"][p][t]
  BY DEF Complete, Pipeline, Asked, RanBaseline, RanFlaky, RanBaselineAPI, NoFailures
<1>5. filtered[p] = kept["baselineAPI"][p]
  BY DEF Complete, Pipeline, Judged
<1>6. ASSUME NEW f \in Filters, NEW list \in Bag, NEW S, Passed(f, p, list, S)
      PROVE  /\ kept[f][p][t] = IF t \in S THEN list[t] ELSE 0
             /\ excluded[f][p][t] = IF t \in S THEN 0 ELSE list[t]
  BY <1>6 DEF Passed, Only
<1>7. /\ kept["suite"][p][t] = (IF t \in InSuite(p) THEN archive.failed[p][t] ELSE 0)
      /\ excluded["suite"][p][t] = (IF t \in InSuite(p) THEN 0 ELSE archive.failed[p][t])
  BY <1>1, <1>3, <1>6 DEF Filters
<1>8. /\ kept["known"][p][t] = (IF t \in Tests \ KnownFailures THEN kept["suite"][p][t] ELSE 0)
      /\ excluded["known"][p][t] = (IF t \in Tests \ KnownFailures THEN 0 ELSE kept["suite"][p][t])
  BY <1>1, <1>3, <1>6 DEF Filters
<1>9. /\ kept["replay"][p][t] = (IF t \in Tests \ archive.passed THEN kept["known"][p][t] ELSE 0)
      /\ excluded["replay"][p][t] =
           (IF t \in Tests \ archive.passed THEN 0 ELSE kept["known"][p][t])
  BY <1>1, <1>3, <1>6 DEF Filters
<1>10. /\ kept["baseline"][p][t] =
            (IF t \in Tests \ archive.baseline[p] THEN kept["replay"][p][t] ELSE 0)
       /\ excluded["baseline"][p][t] =
            (IF t \in Tests \ archive.baseline[p] THEN 0 ELSE kept["replay"][p][t])
  BY <1>1, <1>3, <1>6 DEF Filters
<1>11. /\ kept["baselineAPI"][p][t] = (IF t \in Tests \ priority[p] THEN kept["flaky"][p][t] ELSE 0)
       /\ excluded["baselineAPI"][p][t] =
            (IF t \in Tests \ priority[p] THEN 0 ELSE kept["flaky"][p][t])
  BY <1>1, <1>3, <1>6 DEF Filters
<1>12. <<p, t>> \notin ambiguous =>
         kept["baseline"][p][t] = kept["flaky"][p][t] + excluded["flaky"][p][t]
  BY <1>2, <1>4 DEF Filters
<1> QED
  BY <1>2, <1>4, <1>5, <1>7, <1>8, <1>9, <1>10, <1>11, <1>12

\* The list to review holds nothing that a filter was to exclude.
LEMMA Unexplained == TypeOK /\ Pipeline => ReviewListIsUnexplained
<1> SUFFICES ASSUME TypeOK, Pipeline, Complete, NEW p \in Conformance, NEW t \in Tests,
                    filtered[p][t] > 0
             PROVE  archive.failed[p][t] > 0 /\ ~Explained(p, t)
  BY DEF ReviewListIsUnexplained, Complete
<1>1. /\ archive.failed[p][t] > 0 /\ t \in InSuite(p) /\ t \notin KnownFailures
      /\ t \notin archive.passed /\ t \notin archive.baseline[p] /\ t \notin priority[p]
  <2>0. \A f \in Filters : kept[f][p][t] \in Nat
    BY ChainOf
  <2>1. /\ filtered[p][t] = kept["baselineAPI"][p][t]
        /\ kept["baselineAPI"][p][t] = (IF t \in priority[p] THEN 0 ELSE kept["flaky"][p][t])
        /\ kept["flaky"][p][t] > 0 => kept["baseline"][p][t] > 0
    BY ChainOf
  <2>2. kept["baseline"][p][t] = (IF t \in archive.baseline[p] THEN 0 ELSE kept["replay"][p][t])
    BY ChainOf
  <2>3. kept["replay"][p][t] = (IF t \in archive.passed THEN 0 ELSE kept["known"][p][t])
    BY ChainOf
  <2>4. kept["known"][p][t] = (IF t \in KnownFailures THEN 0 ELSE kept["suite"][p][t])
    BY ChainOf
  <2>5. kept["suite"][p][t] = (IF t \in InSuite(p) THEN archive.failed[p][t] ELSE 0)
    BY ChainOf
  <2>6. kept["baseline"][p][t] > 0 /\ t \notin priority[p]
    BY <2>0, <2>1 DEF Filters
  <2>7. kept["known"][p][t] > 0 /\ t \notin archive.passed /\ t \notin archive.baseline[p]
    BY <2>0, <2>2, <2>3, <2>6 DEF Filters
  <2> QED
    BY <2>0, <2>4, <2>5, <2>6, <2>7 DEF Filters
<1> QED
  BY <1>1 DEF Explained, InSuite

\* Each failure is in one list, as often as it happened.
LEMMA Conserved ==
  ASSUME TypeOK, Pipeline, Complete, NEW p \in Conformance, NEW t \in Tests,
         <<p, t>> \notin ambiguous
  PROVE  archive.failed[p][t] = filtered[p][t] + TimesExcluded(p, t)
<1>1. \A f \in Filters : kept[f][p][t] \in Nat /\ excluded[f][p][t] \in Nat
  BY ChainOf
<1>2. archive.failed[p][t] = kept["suite"][p][t] + excluded["suite"][p][t]
  BY ChainOf
<1>3. kept["suite"][p][t] = kept["known"][p][t] + excluded["known"][p][t]
  BY <1>1, ChainOf DEF Filters
<1>4. kept["known"][p][t] = kept["replay"][p][t] + excluded["replay"][p][t]
  BY <1>1, ChainOf DEF Filters
<1>5. kept["replay"][p][t] = kept["baseline"][p][t] + excluded["baseline"][p][t]
  BY <1>1, ChainOf DEF Filters
<1>6. kept["baseline"][p][t] = kept["flaky"][p][t] + excluded["flaky"][p][t]
  BY ChainOf
<1>7. kept["flaky"][p][t] = kept["baselineAPI"][p][t] + excluded["baselineAPI"][p][t]
  BY <1>1, ChainOf DEF Filters
<1>8. filtered[p][t] = kept["baselineAPI"][p][t]
  BY ChainOf
<1> QED
  BY <1>1, <1>2, <1>3, <1>4, <1>5, <1>6, <1>7, <1>8 DEF TimesExcluded, Filters

\* A plugin passes only when nothing is left to review.
LEMMA PassedNothingLeft ==
  ASSUME TypeOK, Pipeline, NEW p \in Conformance, verdict[p] = "pass"
  PROVE  Complete /\ Size(archive.failed[p]) # archive.total[p] /\ filtered[p] = NoFailures
<1>1. Complete /\ Judge(p) = "pass"
  BY DEF Pipeline, Judged, Complete
<1>2. filtered[p] \in Bag /\ p \in Plugins
  BY DEF TypeOK, Plugins
<1>3. /\ Counts.review[p] = Size(filtered[p]) /\ Counts.total[p] = archive.total[p]
      /\ Counts.failed[p] = Size(archive.failed[p])
  BY <1>2 DEF Counts
<1>4. ~NothingRan(Counts, p) /\ ~(Counts.review[p] > 0 /\ Counts.review[p] # 0)
  BY <1>1 DEF Judge, KubeConformance, OcpReview, Verdict, Conformance
<1>5. Size(filtered[p]) = 0
  BY <1>2, <1>3, <1>4, SizeCounts
<1> QED
  BY <1>1, <1>2, <1>3, <1>4, <1>5, SizeCounts DEF NothingRan

LEMMA Explanations == TypeOK /\ Pipeline => PassIsExplained
<1> SUFFICES ASSUME TypeOK, Pipeline, NEW p \in Conformance, verdict[p] = "pass"
             PROVE  /\ Size(archive.failed[p]) # archive.total[p]
                    /\ \A t \in Tests :
                         archive.failed[p][t] > 0 /\ <<p, t>> \notin ambiguous => Recorded(p, t)
  BY DEF PassIsExplained
<1>1. ASSUME NEW t \in Tests, archive.failed[p][t] > 0, <<p, t>> \notin ambiguous
      PROVE  Recorded(p, t)
  <2>1. archive.failed[p][t] = filtered[p][t] + TimesExcluded(p, t) /\ filtered[p][t] = 0
    BY <1>1, Conserved, PassedNothingLeft DEF NoFailures
  <2>2. \A f \in Filters : excluded[f][p][t] \in Nat
    BY PassedNothingLeft, ChainOf
  <2> QED
    BY <1>1, <2>1, <2>2 DEF TimesExcluded, Recorded, Filters
<1> QED
  BY <1>1, PassedNothingLeft

\* No failure is reviewed that a filter was to exclude.
THEOREM ReviewLists == SpecPublished => []ReviewListIsUnexplained
BY Typing, PipelineHolds, Unexplained, PTL

\* No failure is lost or counted twice on its way through the filters.
THEOREM Conservation == SpecPublished => []FailuresAreConserved
<1>1. TypeOK /\ Pipeline => FailuresAreConserved
  BY Conserved DEF FailuresAreConserved, Complete
<1> QED
  BY <1>1, Typing, PipelineHolds, PTL

\* A plugin that passes ran, and each of its failures is in the list of a filter.
THEOREM Passes == SpecPublished => []PassIsExplained
BY Typing, PipelineHolds, Explanations, PTL

\* What a publication adds to the storage is what its own filters left.
LEMMA BaselineStored ==
  TypeOK /\ Pipeline /\ BaselineInheritsNothing /\ [NextPublished]_varsPublished
    => BaselineInheritsNothing'
<1> SUFFICES ASSUME TypeOK, Pipeline, BaselineInheritsNothing, [NextPublished]_varsPublished
             PROVE  BaselineInheritsNothing'
  OBVIOUS
<1>1. CASE Publish
  <2> DEFINE left == [p \in Conformance |-> {t \in Tests : kept["flaky"][p][t] > 0}]
  <2>1. stage = "reported" /\ archive.disabled
        /\ published' = published \cup {[summary |-> Summarize, left |-> left]}
    BY <1>1 DEF Publish, Upload
  <2>2. priority = NoPriority
    BY <2>1, Zenon DEF Pipeline, NoBaseline
  <2>3. ASSUME NEW p \in Conformance
        PROVE  ~Unreadable(Summarize, p) /\ PriorityFailures(Summarize, p) = left[p]
    <3>1. p \in Plugins /\ p # "upgrade"
      BY DEF Plugins, Conformance
    <3>2. Summarize[p].failedFiltered = {{t \in Tests : filtered[p][t] > 0}}
      BY <3>1 DEF Summarize
    <3>3. ASSUME NEW t \in Tests PROVE filtered[p][t] = kept["flaky"][p][t]
      <4>1. t \notin priority[p] /\ Complete
        BY <2>1, <2>2, <3>1 DEF Complete, NoPriority
      <4>2. /\ filtered[p][t] = kept["baselineAPI"][p][t]
            /\ kept["baselineAPI"][p][t] = (IF t \in priority[p] THEN 0 ELSE kept["flaky"][p][t])
        BY <4>1, ChainOf
      <4> QED
        BY <4>1, <4>2
    <3>4. ~Unreadable(Summarize, p)
      BY <3>2 DEF Unreadable
    <3> QED
      BY <3>2, <3>3, <3>4 DEF PriorityFailures
  <2> HIDE DEF left
  <2> QED
    BY <2>1, <2>3 DEF BaselineInheritsNothing
<1>2. CASE published' = published
  BY <1>2 DEF BaselineInheritsNothing
<1>3. NextPublished => Publish \/ published' = published
  BY DEF NextPublished, ProcessAnother
<1> QED
  BY <1>1, <1>2, <1>3 DEF varsPublished

\* A baseline holds the failures that the filters of its own run left, all of them.
THEOREM Baselines == SpecPublished => []BaselineInheritsNothing
<1>1. InitPublished => BaselineInheritsNothing
  BY DEF InitPublished, BaselineInheritsNothing
<1> QED
  BY <1>1, BaselineStored, Typing, PipelineHolds, PTL DEF SpecPublished
=============================================================================
