------------------------- MODULE BaselineIndexProofs -------------------------
(***************************************************************************)
(* For any number of administrators, targets, dates and commands: what a   *)
(* sound index run leaves in the bucket, one that went on alone, read all  *)
(* it listed, found a date in each and had no summary replaced, whatever   *)
(* was published, cached or killed meanwhile.                              *)
(***************************************************************************)
EXTENDS BaselineIndex, FiniteSetTheorems, TLAPS

-----------------------------------------------------------------------------
(* The inductive invariant: the objects a run goes by exist; the           *)
(* publications; the index runs that go on alone; and what a sound run has *)
(* in its hands at each of its steps.                                      *)

\* What is listed and what is the newest is in the bucket, and stays there.
Existing ==
  \A a \in Admins :
    /\ \A k \in unread[a] : objects[k] # Absent
    /\ \A t \in Targets :
         draft[a].newest[t] # NoEntry => objects[draft[a].newest[t].key] # Absent
    /\ pc[a] = "copy" => \A t \in uncopied[a] : draft[a].newest[t] # NoEntry

\* A publisher that asks for a summary has uploaded the archive before.
PublicationsInOrder ==
  /\ \A k \in Names : objects[k] # Absent => BaseName[k] \in archives
  /\ \A a \in Admins :
       /\ \A k \in published[a] : objects[k] # Absent
       /\ pc[a] = "uploadSummary" => BaseName[publishing[a].key] \in archives
       /\ pc[a] = "uploaded" => objects[publishing[a].key] # Absent

\* While an index run without an overlap goes on or is the last one, there is no other.
RunsApart ==
  \A a \in Admins : Running(a) /\ Lone(a) => \A b \in Admins \ {a} : pc[b] \notin IndexSteps

\* An object with a date, and a copy is of its own target.
Tagged(k) ==
  /\ objects[k] # Absent /\ objects[k].date # 0
  /\ k.stamp = LatestStamp => objects[k].target = k.target

\* What was published before, and the copies, are read or to be read; the newest
\* of what is read is known.
Reading(a) ==
  /\ published[a] \subseteq unread[a] \cup draft[a].results
  /\ \A t \in Targets :
       objects[CopyOf(t)] # Absent => CopyOf(t) \in unread[a] \cup draft[a].results
  /\ \A k \in draft[a].results :
       Tagged(k) /\ draft[a].newest[objects[k].target].date >= objects[k].date
  /\ \A t \in Targets : draft[a].newest[t] # NoEntry =>
       /\ draft[a].newest[t].key \in draft[a].results
       /\ objects[draft[a].newest[t].key] = [target |-> t, date |-> draft[a].newest[t].date]

\* The draft covers what was published before and what the copies are of; the
\* copies made are the newest, those to make will be.
Covered(a) ==
  /\ published[a] \subseteq draft[a].results
  /\ \A k \in published[a] :
       objects[k].target \in Targets /\ draft[a].newest[objects[k].target].date >= objects[k].date
  /\ \A t \in Targets : draft[a].newest[t].date >= CopyDate(t)
  /\ "uncopied" \notin trouble[a] =>
       \A t \in Targets \ uncopied[a] : draft[a].newest[t].date = CopyDate(t)
  /\ \A t \in uncopied[a] :
       /\ draft[a].newest[t].key \in Names \cup {CopyOf(t)}
       /\ objects[draft[a].newest[t].key] = [target |-> t, date |-> draft[a].newest[t].date]

\* Reports are given the copies this run made.
Served(a) ==
  \A k \in published[a] :
    LET t == objects[k].target
    IN  /\ t \in Targets /\ CopyDate(t) >= objects[k].date
        /\ t \notin invalidating[a] /\ cached[t] # Absent =>
             DateFor(t, cached[t]) >= objects[k].date

IndexRun(a) ==
  Sound(a) =>
    /\ pc[a] = "list" => draft[a] = NoIndex
    /\ pc[a] = "read" => Reading(a)
    /\ pc[a] \in {"copy", "putIndex", "invalidate"} => Covered(a)
    /\ pc[a] \in {"putIndex", "invalidate"} => uncopied[a] = {}
    /\ pc[a] = "invalidate" => index = draft[a]
    /\ pc[a] = "indexed" /\ trouble[a] = {} => Served(a)

IndexRuns == \A a \in Admins : IndexRun(a)
-----------------------------------------------------------------------------
(* Types.                                                                  *)

LEMMA Numbers == /\ MaxDate \in Nat /\ PageSize \in Nat /\ MaxCommands \in Nat
                 /\ Targets \subseteq Nat \ {0} /\ IsFiniteSet(Targets)
                 /\ Leftovers \subseteq Content /\ Absent \notin Content
BY BaselineAssumption DEF BaselineAssumption

\* A name is a key, and not that of a copy.
LEMMA NamesAreKeys == /\ Publishable \subseteq Names /\ Names \subseteq Keys
                      /\ NoName \notin Key /\ NoName \in Names
                      /\ \A t \in Targets : CopyOf(t) \in Key /\ CopyOf(t) \notin Names
                      /\ \A k \in Key : k \in Names \/ (k.stamp = LatestStamp /\ k = CopyOf(k.target))
                      /\ \A k \in Key : k.target \in Targets
BY Numbers DEF Publishable, Names, Keys, Key, Dates, LatestStamp, NoName, CopyOf

\* What is not the content of a summary with a target has no date.
LEMMA Contents ==
  /\ \A c \in Content : c.date \in Nat /\ c.date \in {0} \cup Dates
  /\ \A c \in Content : c.date # 0 => c.target \in Targets
  /\ \A c \in Content, k \in Key : TargetOf(k, c) \in Targets
  /\ \A c \in Content, k \in Key : c.date # 0 => TargetOf(k, c) = c.target
  /\ NoTags \in Content
  /\ \A k \in Names : OwnContent(k) \in Content
BY Numbers, NamesAreKeys DEF Content, NoTags, Dates, TargetOf, OwnContent, Names, NoName

\* The date of a copy is a number.
LEMMA CopyDates ==
  ASSUME TypeOK
  PROVE  /\ \A t \in Targets : CopyDate(t) \in Nat
         /\ \A t \in Targets, c \in Content \cup {Absent} : DateFor(t, c) \in Nat
BY Contents, NamesAreKeys DEF TypeOK, CopyDate, DateFor, Keys

\* The dates in an index are numbers, its keys those of objects.
LEMMA IndexEntries ==
  ASSUME NEW d \in Index, NEW t \in Targets
  PROVE  d.newest[t].date \in Nat /\ d.newest[t].date \in {0} \cup Dates /\ d.newest[t].key \in Keys
<1>1. d.newest[t] \in [key : Keys, date : {0} \cup Dates]
  BY DEF Index
<1> QED
  BY <1>1, Numbers DEF Dates

\* What is in an index after an object was read.
LEMMA IndexedObject ==
  ASSUME NEW d \in Index, NEW k \in Key, NEW c \in Content
  PROVE  /\ Indexed(d, k, c) \in Index
         /\ Indexed(d, k, c).results = d.results \cup {k}
         /\ \A t \in Targets :
              Indexed(d, k, c).newest[t] =
                IF t = TargetOf(k, c) /\ Newer([key |-> k, date |-> c.date], d.newest[t])
                THEN [key |-> k, date |-> c.date] ELSE d.newest[t]
<1> DEFINE entry == [key |-> k, date |-> c.date]
           t0 == TargetOf(k, c)
           Entries == [key : Keys, date : {0} \cup Dates]
<1>1. t0 \in Targets
  BY Contents
<1>2. entry \in Entries
  BY Contents DEF Keys
<1>3. d.results \subseteq Keys /\ d.newest \in [Targets -> Entries]
  BY DEF Index
<1>4. k \in Keys
  BY DEF Keys
<1> DEFINE n == IF Newer(entry, d.newest[t0]) THEN [d.newest EXCEPT ![t0] = entry] ELSE d.newest
<1>5. Indexed(d, k, c) = [results |-> d.results \cup {k}, newest |-> n]
  BY DEF Indexed
<1> HIDE DEF entry, t0
<1>6. n \in [Targets -> Entries]
  BY <1>1, <1>2, <1>3
<1>7. \A t \in Targets : n[t] = IF t = t0 /\ Newer(entry, d.newest[t]) THEN entry ELSE d.newest[t]
  BY <1>1, <1>3
<1> HIDE DEF n
<1>8. [results |-> d.results \cup {k}, newest |-> n] \in Index
  BY <1>3, <1>4, <1>6 DEF Index
<1> QED
  BY <1>5, <1>7, <1>8 DEF entry, t0

\* Among objects with a date the newest only gets newer.
LEMMA IndexedIsNewest ==
  ASSUME NEW d \in Index, NEW k \in Key, NEW c \in Content, c.date # 0,
         \A t \in Targets : d.newest[t] # NoEntry => d.newest[t].date # 0
  PROVE  /\ Indexed(d, k, c).newest[c.target].date >= c.date
         /\ \A t \in Targets : Indexed(d, k, c).newest[t].date >= d.newest[t].date
         /\ \A t \in Targets \ {c.target} : Indexed(d, k, c).newest[t] = d.newest[t]
         /\ Indexed(d, k, c).newest[c.target] \in {d.newest[c.target], [key |-> k, date |-> c.date]}
<1> DEFINE entry == [key |-> k, date |-> c.date]
<1>1. c.target \in Targets /\ TargetOf(k, c) = c.target /\ c.date \in Nat
  BY Contents
<1>2. \A t \in Targets : d.newest[t].date \in Nat
  BY IndexEntries
<1>3. ASSUME NEW t \in Targets
      PROVE  IF Newer(entry, d.newest[t]) THEN d.newest[t].date <= c.date
                                          ELSE d.newest[t].date >= c.date
  <2>1. CASE d.newest[t] = NoEntry
    BY <1>1, <2>1 DEF Newer, NoEntry
  <2>2. CASE d.newest[t] # NoEntry
    <3>1. d.newest[t].date # 0 /\ entry.date = c.date
      BY <2>2
    <3>2. Newer(entry, d.newest[t]) <=> d.newest[t].date < c.date
      BY <2>2, <3>1 DEF Newer, Older
    <3> QED
      BY <1>1, <1>2, <3>2
  <2> QED
    BY <2>1, <2>2
<1>4. \A t \in Targets :
        Indexed(d, k, c).newest[t] =
          IF t = c.target /\ Newer(entry, d.newest[t]) THEN entry ELSE d.newest[t]
  BY <1>1, IndexedObject
<1>5. entry.date = c.date
  OBVIOUS
<1> HIDE DEF entry
<1>6. ASSUME NEW t \in Targets PROVE Indexed(d, k, c).newest[t].date >= d.newest[t].date
  BY <1>1, <1>2, <1>3, <1>4, <1>5
<1>7. Indexed(d, k, c).newest[c.target].date >= c.date
  BY <1>1, <1>2, <1>3, <1>4, <1>5
<1> QED
  BY <1>1, <1>4, <1>6, <1>7 DEF entry

\* What a read is: the object that comes first is indexed, skipped, or has no name.
LEMMA AnyRead ==
  ASSUME NEW a \in Admins, ReadObject(a)
  PROVE  /\ pc[a] = "read"
         /\ UNCHANGED <<bucketVars, cacheVars, publishing, uncopied, commands, published>>
         /\ \E k \in unread[a] :
              \/ /\ k = NoName
                 /\ Goto(a, "panicked") /\ UNCHANGED <<unread, draft, trouble>>
              \/ /\ k # NoName
                 /\ unread' = [unread EXCEPT ![a] = @ \ {k}]
                 /\ draft' = [draft EXCEPT ![a] = Indexed(@, k, objects[k])]
                 /\ trouble' = [trouble EXCEPT ![a] =
                      @ \cup {x \in {"mistagged"} : Mistagged(k, objects[k])}]
                 /\ UNCHANGED pc
              \/ /\ unread' = [unread EXCEPT ![a] = @ \ {k}]
                 /\ Trouble(a, "unread")
                 /\ UNCHANGED <<pc, draft>>
BY DEF ReadObject

\* Every variable keeps its type, and what is listed is there, whatever a listing
\* leaves out.
LEMMA TypedStep == TypeOK /\ Existing /\ [Next]_vars => TypeOK'
<1> SUFFICES ASSUME TypeOK, Existing, [Next]_vars PROVE TypeOK'
  OBVIOUS
<1>0. NoIndex \in Index
  BY DEF NoIndex, NoEntry, Index, Keys
<1> USE Numbers DEF TypeOK, Goto, bucketVars, cacheVars, localVars, historyVars
<1>1. ASSUME NEW a \in Admins, NEW k \in Publishable,
             NEW c \in {OwnContent(k)} \cup Leftovers, StartPublish(a, k, c)
      PROVE  TypeOK'
  <2>1. [key |-> k, content |-> c] \in [key : Names, content : Content]
    BY NamesAreKeys, Contents
  <2> QED
    BY <1>1, <2>1 DEF StartPublish
<1>2. ASSUME NEW a \in Admins, UploadArchive(a) PROVE TypeOK'
  <2>1. publishing[a].key \in Names
    OBVIOUS
  <2>2. archives' \subseteq {BaseName[k] : k \in Names}
    BY <1>2, <2>1 DEF UploadArchive
  <2> QED
    BY <1>2, <2>2 DEF UploadArchive, Ended
<1>3. ASSUME NEW a \in Admins, UploadSummary(a) PROVE TypeOK'
  <2>1. publishing[a].key \in Keys /\ publishing[a].content \in Content
    BY NamesAreKeys
  <2>2. objects' \in [Keys -> Content \cup {Absent}] /\ trouble' \in
          [Admins -> SUBSET {"overlap", "unread", "mistagged", "replaced", "uncopied", "cached"}]
    BY <1>3, <2>1 DEF UploadSummary, StoreSummary
  <2> QED
    BY <1>3, <2>2 DEF UploadSummary, Ended
<1>4. ASSUME NEW a \in Admins, StartIndexer(a) PROVE TypeOK'
  BY <1>0, <1>4 DEF StartIndexer, IndexSteps
<1>5. ASSUME NEW a \in Admins, ListObjects(a) PROVE TypeOK'
  <2>1. Page \subseteq Keys
    BY DEF Page, Objects
  <2> QED
    BY <1>5, <2>1 DEF ListObjects, IndexSteps, Ended
<1>6. ASSUME NEW a \in Admins, ReadObject(a) PROVE TypeOK'
  <2>1. PICK k \in unread[a] :
          \/ /\ k = NoName
             /\ Goto(a, "panicked") /\ UNCHANGED <<unread, draft, trouble>>
          \/ /\ k # NoName
             /\ unread' = [unread EXCEPT ![a] = @ \ {k}]
             /\ draft' = [draft EXCEPT ![a] = Indexed(@, k, objects[k])]
             /\ trouble' = [trouble EXCEPT ![a] =
                  @ \cup {x \in {"mistagged"} : Mistagged(k, objects[k])}]
             /\ UNCHANGED pc
          \/ /\ unread' = [unread EXCEPT ![a] = @ \ {k}]
             /\ Trouble(a, "unread")
             /\ UNCHANGED <<pc, draft>>
    BY <1>6, AnyRead
  <2>2. objects[k] \in Content /\ k \in Keys /\ draft[a] \in Index
    BY DEF Existing
  <2>3. ASSUME k # NoName PROVE Indexed(draft[a], k, objects[k]) \in Index
    <3>1. k \in Key
      BY <2>2, <2>3 DEF Keys
    <3> QED
      BY <2>2, <3>1, IndexedObject
  <2>4. draft' \in [Admins -> Index]
    BY <2>1, <2>3
  <2>5. trouble' \in [Admins ->
          SUBSET {"overlap", "unread", "mistagged", "replaced", "uncopied", "cached"}]
    <3>1. {x \in {"mistagged"} : Mistagged(k, objects[k])} \subseteq {"mistagged"}
      OBVIOUS
    <3> HIDE DEF Mistagged
    <3> QED
      BY <2>1, <3>1 DEF Trouble
  <2>6. pc' \in [Admins -> IndexSteps \cup {"uploadArchive", "uploadSummary"} \cup Ended]
    BY <2>1 DEF Ended
  <2>7. unread' \in [Admins -> SUBSET Keys]
    BY <2>1
  <2>8. UNCHANGED <<archives, objects, index, cached, invalidating, publishing, uncopied, commands,
                    published>>
    BY <1>6, AnyRead
  <2> QED
    BY <2>4, <2>5, <2>6, <2>7, <2>8
<1>7. ASSUME NEW a \in Admins, EndOfObjects(a) PROVE TypeOK'
  BY <1>7 DEF EndOfObjects, IndexSteps
<1>8. ASSUME NEW a \in Admins, NEW t \in Targets, CopyLatest(a, t) PROVE TypeOK'
  <2>1. draft[a].newest[t].key \in Keys
    BY IndexEntries
  <2>2. objects' \in [Keys -> Content \cup {Absent}]
    BY <1>8, <2>1 DEF CopyLatest
  <2>3. trouble' \in [Admins ->
          SUBSET {"overlap", "unread", "mistagged", "replaced", "uncopied", "cached"}]
    <3>1. trouble' = trouble \/ trouble' = [trouble EXCEPT ![a] = @ \cup {"uncopied"}]
      BY ONLY <1>8 DEF CopyLatest, Trouble
    <3>2. trouble \in [Admins ->
            SUBSET {"overlap", "unread", "mistagged", "replaced", "uncopied", "cached"}]
      BY DEF TypeOK
    <3> QED
      BY ONLY <3>1, <3>2
  <2>4. /\ uncopied' \in [Admins -> SUBSET Targets]
        /\ UNCHANGED <<archives, index, cacheVars, pc, publishing, unread, draft, commands, published>>
    BY <1>8 DEF CopyLatest
  <2> QED
    BY <2>2, <2>3, <2>4
<1>9. ASSUME NEW a \in Admins, EndOfCopies(a) \/ PutIndex(a) PROVE TypeOK'
  BY <1>9 DEF EndOfCopies, PutIndex, IndexSteps, Ended
<1>10. ASSUME NEW a \in Admins, Invalidate(a) PROVE TypeOK'
  <2>1. trouble' = trouble \/ trouble' = [trouble EXCEPT ![a] = @ \cup {"cached"}]
    BY <1>10 DEF Invalidate, Trouble
  <2>2. trouble' \in [Admins ->
          SUBSET {"overlap", "unread", "mistagged", "replaced", "uncopied", "cached"}]
    BY <2>1
  <2>3. invalidating' \in [Admins -> SUBSET Targets]
    BY <1>10 DEF Invalidate
  <2> QED
    BY <1>10, <2>2, <2>3 DEF Invalidate, Ended
<1>11. ASSUME NEW a \in Admins, Crash(a) PROVE TypeOK'
  BY <1>11 DEF Crash, Ended
<1>12. ASSUME NEW t \in Targets, ReadLatestSummary(t) PROVE TypeOK'
  BY <1>12, NamesAreKeys DEF ReadLatestSummary, Keys
<1>13. ASSUME NEW t \in Targets, CacheExpires(t) PROVE TypeOK'
  BY <1>13 DEF CacheExpires
<1>14. ASSUME NEW t \in Targets, NEW a \in Admins, InvalidationTakesEffect(a, t) PROVE TypeOK'
  BY <1>14 DEF InvalidationTakesEffect
<1>15. CASE UNCHANGED vars
  BY <1>15 DEF vars
<1> QED
  BY <1>1, <1>2, <1>3, <1>4, <1>5, <1>6, <1>7, <1>8, <1>9, <1>10, <1>11, <1>12, <1>13, <1>14, <1>15
     DEF Next, PublishNext, IndexerNext

-----------------------------------------------------------------------------
(* What the steps of one administrator leave alone.                        *)

PublishSteps == {"uploadArchive", "uploadSummary"}

\* A publisher is in no index run, and replaces nothing without a mark on those
\* that go on.
LEMMA PublisherStep ==
  ASSUME TypeOK, NEW a \in Admins, PublishNext(a)
  PROVE  /\ pc[a] \notin IndexSteps /\ pc'[a] \in PublishSteps \cup {"uploaded", "failed"}
         /\ \A b \in Admins \ {a} : pc'[b] = pc[b] /\ publishing'[b] = publishing[b]
         /\ archives \subseteq archives'
         /\ \A k \in Keys : objects[k] # Absent => objects'[k] # Absent
         /\ \A k \in Key \ Names : objects'[k] = objects[k]
         /\ \A b \in Admins : /\ trouble'[b] \in {trouble[b], trouble[b] \cup {"replaced"}}
                              /\ Running(b) /\ "replaced" \notin trouble'[b] =>
                                   \A k \in Keys : objects[k] # Absent => objects'[k] = objects[k]
         /\ UNCHANGED <<index, cacheVars, unread, draft, uncopied, published>>
<1> USE DEF TypeOK, Goto, bucketVars, localVars, historyVars
<1>1. CASE (\E k \in Publishable : \E c \in {OwnContent(k)} \cup Leftovers : StartPublish(a, k, c))
           \/ UploadArchive(a)
  BY <1>1 DEF StartPublish, UploadArchive, IndexSteps, Ended, PublishSteps
<1>2. CASE UploadSummary(a)
  <2>1. /\ pc[a] = "uploadSummary" /\ pc'[a] \in {"uploaded", "failed"}
        /\ \A b \in Admins \ {a} : pc'[b] = pc[b]
        /\ UNCHANGED <<archives, index, cacheVars, localVars, commands, published>>
    BY <1>2 DEF UploadSummary
  <2>2. CASE UNCHANGED <<objects, trouble>>
    BY <2>1, <2>2 DEF IndexSteps, PublishSteps
  <2>3. CASE StoreSummary(a)
    <3> DEFINE k0 == publishing[a].key
               c0 == publishing[a].content
    <3>1. k0 \in Names /\ k0 \in Keys /\ c0 \in Content /\ c0 # Absent
      BY NamesAreKeys, Numbers
    <3>2. /\ objects' = [objects EXCEPT ![k0] = c0]
          /\ trouble' = [b \in Admins |-> trouble[b] \cup
               {x \in {"replaced"} : objects[k0] \notin {Absent, c0} /\ Running(b)}]
      BY <2>3 DEF StoreSummary
    <3> HIDE DEF k0, c0
    <3>3. \A k \in Keys : objects'[k] = IF k = k0 THEN c0 ELSE objects[k]
      BY <3>1, <3>2
    <3>4. ASSUME NEW b \in Admins
          PROVE  /\ trouble'[b] \in {trouble[b], trouble[b] \cup {"replaced"}}
                 /\ Running(b) /\ "replaced" \notin trouble'[b] => objects[k0] \in {Absent, c0}
      BY <3>2
    <3> QED
      BY <2>1, <3>1, <3>3, <3>4 DEF IndexSteps, PublishSteps, Key, Keys
  <2> QED
    BY <1>2, <2>2, <2>3 DEF UploadSummary
<1> QED
  BY <1>1, <1>2 DEF PublishNext

\* An indexer, and a process that dies, leaves the publications alone; a copy is
\* made of an object that is there.
LEMMA IndexerLeavesPublications ==
  ASSUME TypeOK, Existing, NEW a \in Admins, IndexerNext(a) \/ Crash(a)
  PROVE  /\ pc'[a] \in IndexSteps \cup {"failed", "panicked", "indexed", "crashed"}
         /\ \A b \in Admins \ {a} : pc'[b] = pc[b]
         /\ UNCHANGED <<archives, publishing>>
         /\ \A k \in Names : objects'[k] = objects[k]
         /\ \A k \in Keys : objects[k] # Absent => objects'[k] # Absent
         /\ \A b \in Admins : published'[b] \in {published[b], {k \in Names : objects[k] # Absent}}
<1>1. CASE StartIndexer(a)
  BY <1>1 DEF StartIndexer, Goto, TypeOK, IndexSteps, bucketVars
<1>2. CASE ListObjects(a) \/ EndOfObjects(a) \/ EndOfCopies(a) \/ PutIndex(a) \/ Crash(a)
  BY <1>2 DEF ListObjects, EndOfObjects, EndOfCopies, PutIndex, Crash, Goto, TypeOK, IndexSteps,
              bucketVars, localVars, historyVars
<1>3. CASE ReadObject(a)
  BY <1>3, AnyRead DEF Goto, TypeOK, IndexSteps, bucketVars
<1>4. ASSUME NEW t \in Targets, CopyLatest(a, t)
      PROVE  /\ \A k \in Names : objects'[k] = objects[k]
             /\ \A k \in Keys : objects[k] # Absent => objects'[k] # Absent
  <2>1. objects[draft[a].newest[t].key] # Absent
    BY <1>4 DEF CopyLatest, Existing
  <2>2. \/ objects' = [objects EXCEPT ![CopyOf(t)] = objects[draft[a].newest[t].key]]
        \/ objects' = objects
    BY <1>4 DEF CopyLatest
  <2> QED
    BY <2>1, <2>2, NamesAreKeys DEF TypeOK
<1>5. CASE \E t \in Targets : CopyLatest(a, t)
  <2>1. pc' = pc /\ pc[a] = "copy" /\ UNCHANGED <<archives, publishing, published>>
    BY <1>5 DEF CopyLatest
  <2> QED
    BY <1>4, <1>5, <2>1 DEF IndexSteps
<1>6. CASE Invalidate(a)
  BY <1>6 DEF Invalidate, Goto, TypeOK, bucketVars, localVars
<1> QED
  BY <1>1, <1>2, <1>3, <1>5, <1>6 DEF IndexerNext

\* An index run that goes on adds to its own troubles only.
LEMMA IndexerStep ==
  ASSUME TypeOK, NEW a \in Admins, IndexerNext(a), ~StartIndexer(a)
  PROVE  /\ pc[a] \in IndexSteps
         /\ trouble[a] \subseteq trouble'[a]
         /\ \A b \in Admins \ {a} : trouble'[b] = trouble[b]
<1>1. CASE ListObjects(a) \/ EndOfObjects(a) \/ EndOfCopies(a) \/ PutIndex(a)
  BY <1>1 DEF ListObjects, EndOfObjects, EndOfCopies, PutIndex, IndexSteps, historyVars
<1>2. CASE ReadObject(a)
  BY <1>2, AnyRead DEF Trouble, TypeOK, IndexSteps
<1>3. CASE (\E t \in Targets : CopyLatest(a, t)) \/ Invalidate(a)
  BY <1>3 DEF CopyLatest, Invalidate, Trouble, TypeOK, IndexSteps
<1> QED
  BY <1>1, <1>2, <1>3 DEF IndexerNext

\* A report, an expiry or an invalidation.
CacheStep(t) ==
  ReadLatestSummary(t) \/ CacheExpires(t) \/ \E b \in Admins : InvalidationTakesEffect(b, t)

\* It changes the cache only, to what the copy is or to nothing; an invalidation
\* that is no longer under way emptied it.
LEMMA CacheSteps ==
  ASSUME TypeOK, NEW t \in Targets, CacheStep(t)
  PROVE  /\ UNCHANGED <<bucketVars, pc, localVars, historyVars>>
         /\ \A u \in Targets : cached'[u] \in {cached[u], objects[CopyOf(u)], Absent}
         /\ \A a \in Admins, u \in Targets :
              u \notin invalidating'[a] => u \notin invalidating[a] \/ cached'[u] = Absent
<1>1. CASE ReadLatestSummary(t)
  BY <1>1 DEF ReadLatestSummary, TypeOK
<1>2. CASE CacheExpires(t)
  BY <1>2 DEF CacheExpires, TypeOK
<1>3. ASSUME NEW b \in Admins, InvalidationTakesEffect(b, t)
      PROVE  /\ UNCHANGED <<bucketVars, pc, localVars, historyVars>>
             /\ \A u \in Targets : cached'[u] \in {cached[u], Absent}
             /\ cached'[t] = Absent
             /\ \A a \in Admins, u \in Targets \ {t} : u \in invalidating'[a] <=> u \in invalidating[a]
  BY <1>3 DEF InvalidationTakesEffect, TypeOK
<1> QED
  BY <1>1, <1>2, <1>3 DEF CacheStep

\* The steps there are.
LEMMA Steps ==
  ASSUME [Next]_vars
  PROVE  \/ \E a \in Admins : PublishNext(a) \/ IndexerNext(a) \/ Crash(a)
         \/ \E t \in Targets : CacheStep(t)
         \/ UNCHANGED vars
BY DEF Next, CacheStep

\* Nothing is ever removed from the bucket.
LEMMA NothingVanishes ==
  ASSUME TypeOK, Existing, [Next]_vars, NEW k \in Keys, objects[k] # Absent
  PROVE  objects'[k] # Absent
<1>1. ASSUME NEW a \in Admins, PublishNext(a) PROVE objects'[k] # Absent
  BY <1>1, PublisherStep
<1>2. ASSUME NEW a \in Admins, IndexerNext(a) \/ Crash(a) PROVE objects'[k] # Absent
  BY <1>2, IndexerLeavesPublications
<1>3. CASE (\E t \in Targets : CacheStep(t)) \/ UNCHANGED vars
  BY <1>3, CacheSteps DEF vars, bucketVars
<1> QED
  BY <1>1, <1>2, <1>3, Steps

LEMMA ExistingStep == TypeOK /\ Existing /\ [Next]_vars => Existing'
<1> SUFFICES ASSUME TypeOK, Existing, [Next]_vars, NEW a \in Admins
             PROVE  /\ \A k \in unread'[a] : objects'[k] # Absent
                    /\ \A t \in Targets :
                         draft'[a].newest[t] # NoEntry => objects'[draft'[a].newest[t].key] # Absent
                    /\ pc'[a] = "copy" => \A t \in uncopied'[a] : draft'[a].newest[t] # NoEntry
  BY DEF Existing
<1>1. \A k \in Keys : objects[k] # Absent => objects'[k] # Absent
  BY NothingVanishes
<1>2. /\ unread[a] \subseteq Keys /\ \A t \in Targets : draft[a].newest[t].key \in Keys
      /\ uncopied[a] \subseteq Targets
  BY IndexEntries DEF TypeOK
<1>3. /\ \A k \in unread[a] : objects'[k] # Absent
      /\ \A t \in Targets : draft[a].newest[t] # NoEntry => objects'[draft[a].newest[t].key] # Absent
      /\ pc[a] = "copy" => \A t \in uncopied[a] : draft[a].newest[t] # NoEntry
  BY <1>1, <1>2 DEF Existing
<1>4. CASE /\ unread'[a] \subseteq unread[a] /\ draft'[a] = draft[a]
           /\ pc'[a] = "copy" => pc[a] = "copy" /\ uncopied'[a] \subseteq uncopied[a]
  BY <1>3, <1>4
<1>5. ASSUME NEW b \in Admins, PublishNext(b)
      PROVE  /\ unread'[a] \subseteq unread[a] /\ draft'[a] = draft[a]
             /\ pc'[a] = "copy" => pc[a] = "copy" /\ uncopied'[a] \subseteq uncopied[a]
  BY <1>5, PublisherStep DEF PublishSteps
<1>6. CASE (\E t \in Targets : CacheStep(t)) \/ UNCHANGED vars
  <2>1. UNCHANGED <<unread, draft, uncopied, pc>>
    BY <1>6, CacheSteps DEF vars, localVars
  <2> QED
    BY <1>4, <2>1
<1>7. ASSUME NEW b \in Admins \ {a}, IndexerNext(b) \/ Crash(b)
      PROVE  /\ unread'[a] = unread[a] /\ draft'[a] = draft[a]
             /\ pc'[a] = pc[a] /\ uncopied'[a] = uncopied[a]
  <2> USE DEF TypeOK, Goto, localVars
  <2>1. CASE StartIndexer(b) \/ ListObjects(b) \/ EndOfObjects(b) \/ EndOfCopies(b) \/ PutIndex(b)
             \/ Invalidate(b) \/ Crash(b)
    BY <1>7, <2>1 DEF StartIndexer, ListObjects, EndOfObjects, EndOfCopies, PutIndex, Invalidate, Crash
  <2>2. CASE ReadObject(b)
    BY <1>7, <2>2, AnyRead
  <2>3. CASE \E t \in Targets : CopyLatest(b, t)
    BY <1>7, <2>3 DEF CopyLatest
  <2> QED
    BY <1>7, <2>1, <2>2, <2>3 DEF IndexerNext
<1>8. CASE StartIndexer(a)
  <2>1. unread' = unread /\ draft'[a] = NoIndex /\ pc'[a] = "list"
    BY <1>8 DEF StartIndexer, Goto, TypeOK
  <2> QED
    BY <1>3, <2>1 DEF NoIndex
<1>9. CASE ListObjects(a)
  <2>1. /\ draft' = draft /\ pc'[a] \in {"read", "failed"} /\ objects' = objects
        /\ unread'[a] \in {Page, unread[a]}
    BY <1>9 DEF ListObjects, Goto, TypeOK, bucketVars
  <2>2. \A k \in Page : objects[k] # Absent
    BY DEF Page, Objects
  <2> QED
    BY <1>3, <2>1, <2>2
<1>10. CASE ReadObject(a)
  <2>1. pc[a] = "read" /\ pc'[a] \in {"read", "panicked"} /\ objects' = objects
    BY <1>10, AnyRead DEF Goto, TypeOK, bucketVars
  <2>2. PICK k \in unread[a] : \/ unread' = unread /\ draft' = draft
                               \/ /\ k # NoName
                                  /\ unread' = [unread EXCEPT ![a] = @ \ {k}]
                                  /\ draft' = [draft EXCEPT ![a] = Indexed(@, k, objects[k])]
                               \/ unread' = [unread EXCEPT ![a] = @ \ {k}] /\ draft' = draft
    BY <1>10, AnyRead
  <2>3. unread'[a] \subseteq unread[a]
    BY <2>2 DEF TypeOK
  <2>4. CASE draft' = draft
    BY <1>4, <2>1, <2>3, <2>4
  <2>5. CASE k # NoName /\ draft' = [draft EXCEPT ![a] = Indexed(@, k, objects[k])]
    <3>1. objects[k] \in Content /\ k \in Key /\ draft[a] \in Index /\ objects[k] # Absent
      BY <2>5 DEF TypeOK, Existing, Keys
    <3>2. \A t \in Targets : draft'[a].newest[t] \in
            {draft[a].newest[t], [key |-> k, date |-> objects[k].date]}
      BY <2>5, <3>1, IndexedObject DEF TypeOK
    <3> QED
      BY <1>3, <2>1, <2>3, <3>1, <3>2
  <2> QED
    BY <2>2, <2>4, <2>5
<1>11. CASE EndOfObjects(a)
  <2>1. /\ UNCHANGED <<unread, draft>>
        /\ uncopied'[a] = {t \in Targets : draft[a].newest[t] # NoEntry}
    BY <1>11 DEF EndOfObjects, TypeOK
  <2> QED
    BY <1>3, <2>1
<1>12. CASE \E t \in Targets : CopyLatest(a, t)
  <2>1. UNCHANGED <<pc, unread, draft>> /\ uncopied'[a] \subseteq uncopied[a]
    BY <1>12 DEF CopyLatest, TypeOK
  <2> QED
    BY <1>4, <2>1
<1>13. CASE EndOfCopies(a) \/ PutIndex(a) \/ Invalidate(a) \/ Crash(a)
  <2>1. UNCHANGED <<unread, draft>> /\ pc'[a] # "copy"
    BY <1>13 DEF EndOfCopies, PutIndex, Invalidate, Crash, Goto, TypeOK, localVars
  <2> QED
    BY <1>4, <2>1
<1> QED
  BY <1>4, <1>5, <1>6, <1>7, <1>8, <1>9, <1>10, <1>11, <1>12, <1>13, Steps DEF IndexerNext

LEMMA Base == Spec => [](TypeOK /\ Existing)
<1>1. Init => TypeOK
  <2> SUFFICES ASSUME Init PROVE TypeOK
    OBVIOUS
  <2>1. NoName \in Names /\ NoTags \in Content /\ NoIndex \in Index
    BY NamesAreKeys, Contents DEF NoIndex, NoEntry, Index, Keys
  <2>2. pc \in [Admins -> IndexSteps \cup {"uploadArchive", "uploadSummary"} \cup Ended]
    BY DEF Init, Ended
  <2> QED
    BY <2>1, <2>2, Numbers DEF Init, TypeOK
<1>2. Init => Existing
  BY DEF Init, Existing, NoIndex
<1> QED
  BY <1>1, <1>2, TypedStep, ExistingStep, PTL DEF Spec

\* Every variable keeps its type, whatever the summaries hold and a listing leaves out.
THEOREM Typing == Spec => []TypeOK
BY Base, PTL
-----------------------------------------------------------------------------
(* The publications.                                                       *)

LEMMA PublicationsStep ==
  TypeOK /\ Existing /\ PublicationsInOrder /\ [Next]_vars => PublicationsInOrder'
<1> SUFFICES ASSUME TypeOK, Existing, PublicationsInOrder, [Next]_vars PROVE PublicationsInOrder'
  OBVIOUS
<1>0. /\ \A k \in Keys : objects[k] # Absent => objects'[k] # Absent
      /\ \A a \in Admins : publishing[a].key \in Names /\ published[a] \subseteq Names
      /\ Names \subseteq Keys
  BY NothingVanishes, NamesAreKeys DEF TypeOK
<1> USE DEF PublicationsInOrder
<1>1. ASSUME NEW a \in Admins, PublishNext(a) PROVE PublicationsInOrder'
  <2>1. /\ published' = published /\ archives \subseteq archives'
        /\ \A b \in Admins \ {a} : pc'[b] = pc[b] /\ publishing'[b] = publishing[b]
    BY <1>1, PublisherStep
  <2>2. ASSUME NEW k \in Publishable, NEW c \in {OwnContent(k)} \cup Leftovers, StartPublish(a, k, c)
        PROVE  PublicationsInOrder'
    <3>1. pc'[a] = "uploadArchive" /\ UNCHANGED <<archives, objects>>
      BY <2>2 DEF StartPublish, Goto, TypeOK, bucketVars
    <3> QED
      BY <2>1, <3>1
  <2>3. CASE UploadArchive(a)
    <3>1. /\ pc'[a] \in {"uploadSummary", "failed"} /\ UNCHANGED <<objects, publishing>>
          /\ pc'[a] = "uploadSummary" => BaseName[publishing[a].key] \in archives'
      BY <2>3 DEF UploadArchive, Goto, TypeOK, localVars
    <3> QED
      BY <2>1, <3>1
  <2>4. CASE UploadSummary(a)
    <3>1. /\ pc'[a] \in {"uploaded", "failed"} /\ UNCHANGED <<archives, publishing>>
          /\ pc[a] = "uploadSummary"
      BY <2>4 DEF UploadSummary, Goto, TypeOK, localVars
    <3>2. \/ objects' = [objects EXCEPT ![publishing[a].key] = publishing[a].content]
          \/ objects' = objects /\ pc'[a] = "failed"
      BY <2>4 DEF UploadSummary, StoreSummary, Goto, TypeOK
    <3>3. publishing[a].content # Absent
      BY Numbers DEF TypeOK
    <3>4. pc'[a] = "uploaded" => objects'[publishing[a].key] # Absent
      BY <1>0, <3>2, <3>3 DEF TypeOK
    <3>5. \A k \in Names : objects'[k] # Absent => BaseName[k] \in archives
      BY <1>0, <3>1, <3>2 DEF TypeOK
    <3> QED
      BY <1>0, <2>1, <3>1, <3>4, <3>5
  <2> QED
    BY <1>1, <2>2, <2>3, <2>4 DEF PublishNext
<1>2. ASSUME NEW a \in Admins, IndexerNext(a) \/ Crash(a) PROVE PublicationsInOrder'
  BY <1>0, <1>2, IndexerLeavesPublications DEF IndexSteps
<1>3. ASSUME NEW t \in Targets, CacheStep(t) PROVE PublicationsInOrder'
  BY <1>3, CacheSteps DEF bucketVars, localVars, historyVars
<1>4. CASE UNCHANGED vars
  BY <1>4 DEF vars, bucketVars, localVars, historyVars
<1> QED
  BY <1>1, <1>2, <1>3, <1>4, Steps

LEMMA InOrder == Spec => []PublicationsInOrder
<1>1. Init => PublicationsInOrder
  BY NamesAreKeys DEF Init, PublicationsInOrder
<1> QED
  BY <1>1, PublicationsStep, Base, PTL DEF Spec

\* A publication that fails or is killed halfway never leaves a summary without
\* an archive of its name, and one that reports success is in the bucket.
THEOREM NoSummaryAlone == Spec => []SummaryHasArchive
<1>1. PublicationsInOrder => SummaryHasArchive
  BY DEF PublicationsInOrder, SummaryHasArchive
<1> QED
  BY <1>1, InOrder, PTL
-----------------------------------------------------------------------------
(* Index runs without an overlap.                                          *)

\* Beginning an index run marks all those that go on, and the last ones.
LEMMA StartMarksOthers ==
  ASSUME TypeOK, NEW a \in Admins, StartIndexer(a)
  PROVE  /\ Lone(a)' => \A b \in Admins \ {a} : pc[b] \notin IndexSteps
         /\ \A b \in Admins \ {a} : Running(b) => ~Lone(b)'
<1>1. \A b \in Admins : trouble'[b] =
        IF b = a THEN {x \in {"overlap"} : \E c \in Admins \ {a} : pc[c] \in IndexSteps}
        ELSE trouble[b] \cup {x \in {"overlap"} : Running(b)}
  BY DEF StartIndexer
<1> QED
  BY <1>1 DEF Lone

LEMMA RunsApartStep == TypeOK /\ Existing /\ RunsApart /\ [Next]_vars => RunsApart'
<1> SUFFICES ASSUME TypeOK, Existing, RunsApart, [Next]_vars PROVE RunsApart'
  OBVIOUS
<1> USE DEF RunsApart, Running
<1>1. ASSUME NEW a \in Admins, PublishNext(a) PROVE RunsApart'
  <2>1. pc'[a] \notin IndexSteps \cup {"indexed"} /\ \A b \in Admins \ {a} : pc'[b] = pc[b]
    BY <1>1, PublisherStep DEF IndexSteps, PublishSteps
  <2>2. \A b \in Admins : Lone(b)' => Lone(b)
    BY <1>1, PublisherStep DEF Lone
  <2> QED
    BY <2>1, <2>2
<1>2. ASSUME NEW a \in Admins, StartIndexer(a) PROVE RunsApart'
  <2>1. \A b \in Admins \ {a} : pc'[b] = pc[b]
    BY <1>2, IndexerLeavesPublications DEF IndexerNext
  <2> QED
    BY <1>2, <2>1, StartMarksOthers
<1>3. ASSUME NEW a \in Admins, IndexerNext(a), ~StartIndexer(a) PROVE RunsApart'
  <2>1. \A b \in Admins \ {a} : pc'[b] = pc[b] /\ Lone(b)' = Lone(b)
    BY <1>3, IndexerLeavesPublications, IndexerStep DEF Lone
  <2>2. pc[a] \in IndexSteps /\ (Lone(a)' => Lone(a))
    BY <1>3, IndexerStep DEF Lone
  <2> QED
    BY <2>1, <2>2
<1>4. ASSUME NEW a \in Admins, Crash(a) PROVE RunsApart'
  <2>1. pc'[a] \notin IndexSteps \cup {"indexed"} /\ \A b \in Admins \ {a} : pc'[b] = pc[b]
    BY <1>4 DEF Crash, Goto, TypeOK, IndexSteps
  <2>2. trouble' = trouble
    BY <1>4 DEF Crash, historyVars
  <2> QED
    BY <2>1, <2>2 DEF Lone
<1>5. ASSUME NEW t \in Targets, CacheStep(t) PROVE RunsApart'
  BY <1>5, CacheSteps DEF historyVars, Lone
<1>6. CASE UNCHANGED vars
  BY <1>6 DEF vars, historyVars, Lone
<1> QED
  BY <1>1, <1>2, <1>3, <1>4, <1>5, <1>6, Steps

\* An index run has no other one alongside unless it is marked for it.
LEMMA Apart == Spec => []RunsApart
<1>1. Init => RunsApart
  BY DEF Init, RunsApart, Running, IndexSteps
<1> QED
  BY <1>1, RunsApartStep, Base, PTL DEF Spec

-----------------------------------------------------------------------------
(* What a run has in its hands, step by step.                              *)

\* A listing that was complete, of objects the run has read nothing of.
LEMMA ListedIsReading ==
  ASSUME TypeOK, PublicationsInOrder, NEW a \in Admins,
         unread'[a] = Objects, draft[a] = NoIndex, UNCHANGED <<objects, published, draft>>
  PROVE  Reading(a)'
<1>1. /\ \A t \in Targets : objects[CopyOf(t)] # Absent => CopyOf(t) \in Objects
      /\ published[a] \subseteq Objects
  BY NamesAreKeys DEF Objects, PublicationsInOrder, Keys, TypeOK
<1>2. draft'[a].results = {} /\ \A t \in Targets : draft'[a].newest[t] = NoEntry
  BY DEF NoIndex
<1> QED
  BY <1>1, <1>2 DEF Reading, CopyOf

\* An object with a date that is read moves from those to be read to those in the
\* draft.
LEMMA ReadIsReading ==
  ASSUME TypeOK, Existing, NEW a \in Admins, Reading(a), NEW k \in unread[a], k # NoName,
         ~Mistagged(k, objects[k]),
         unread' = [unread EXCEPT ![a] = @ \ {k}],
         draft' = [draft EXCEPT ![a] = Indexed(@, k, objects[k])],
         UNCHANGED <<objects, published>>
  PROVE  Reading(a)'
<1> DEFINE c == objects[k]
           d == Indexed(draft[a], k, c)
<1>1. k \in Key /\ c \in Content /\ c # Absent /\ draft[a] \in Index
  BY DEF TypeOK, Existing, Keys
<1>2. c.date # 0 /\ (k.stamp = LatestStamp => c.target = k.target)
  BY DEF Mistagged
<1>3. c.target \in Targets /\ c.date \in Nat
  BY <1>1, <1>2, Contents
<1>4. draft'[a] = d /\ unread'[a] = unread[a] \ {k}
  BY DEF TypeOK
<1>5. /\ \A t \in Targets : draft[a].newest[t] # NoEntry => draft[a].newest[t].date # 0
      /\ \A l \in draft[a].results : objects[l] \in Content /\ objects[l].date # 0
  <2>1. \A l \in draft[a].results : l \in Keys /\ objects[l] \in Content /\ objects[l].date # 0
    BY <1>1 DEF Reading, Tagged, TypeOK, Index
  <2>2. ASSUME NEW t \in Targets, draft[a].newest[t] # NoEntry PROVE draft[a].newest[t].date # 0
    <3>1. /\ draft[a].newest[t].key \in draft[a].results
          /\ objects[draft[a].newest[t].key] = [target |-> t, date |-> draft[a].newest[t].date]
      BY <2>2 DEF Reading
    <3>2. objects[draft[a].newest[t].key].date = draft[a].newest[t].date
      <4> DEFINE o == objects[draft[a].newest[t].key]
                 n == draft[a].newest[t].date
      <4>1. o = [target |-> t, date |-> n]
        BY <3>1
      <4> HIDE DEF o, n
      <4>2. o.date = n
        BY <4>1
      <4> QED
        BY <4>2 DEF o, n
    <3> QED
      BY <2>1, <3>1, <3>2
  <2> QED
    BY <2>1, <2>2
<1>6. d.results = draft[a].results \cup {k}
  BY <1>1, IndexedObject
<1>7. /\ d.newest[c.target].date >= c.date
      /\ \A t \in Targets : d.newest[t].date >= draft[a].newest[t].date
      /\ \A t \in Targets \ {c.target} : d.newest[t] = draft[a].newest[t]
      /\ d.newest[c.target] \in {draft[a].newest[c.target], [key |-> k, date |-> c.date]}
  <2> HIDE DEF c, d
  <2> QED
    BY <1>1, <1>2, <1>5, IndexedIsNewest DEF d
<1>8. d \in Index
  BY <1>1, IndexedObject
<1> HIDE DEF d
<1>9. ASSUME NEW l \in d.results
      PROVE  Tagged(l) /\ d.newest[objects[l].target].date >= objects[l].date
  <2>1. CASE l = k
    BY <1>1, <1>2, <1>7, <2>1 DEF Tagged
  <2>2. CASE l \in draft[a].results
    <3>1. /\ objects[l].target \in Targets /\ objects[l].date \in Nat
          /\ Tagged(l) /\ draft[a].newest[objects[l].target].date >= objects[l].date
      BY <1>5, <2>2, Contents DEF Reading
    <3>2. /\ draft[a].newest[objects[l].target].date \in Nat
          /\ d.newest[objects[l].target].date \in Nat
      BY <1>1, <1>8, <3>1, IndexEntries
    <3>3. d.newest[objects[l].target].date >= draft[a].newest[objects[l].target].date
      BY <1>7, <3>1
    <3> QED
      BY <3>1, <3>2, <3>3
  <2> QED
    BY <1>6, <2>1, <2>2
<1>10. ASSUME NEW t \in Targets, d.newest[t] # NoEntry
       PROVE  /\ d.newest[t].key \in d.results
              /\ objects[d.newest[t].key] = [target |-> t, date |-> d.newest[t].date]
  <2>1. CASE d.newest[t] = draft[a].newest[t]
    BY <1>6, <1>10, <2>1 DEF Reading
  <2>2. CASE t = c.target /\ d.newest[t] = [key |-> k, date |-> c.date]
    <3>1. c = [target |-> c.target, date |-> c.date]
      BY <1>1 DEF Content, NoTags
    <3>2. d.newest[t].key = k /\ d.newest[t].date = c.date
      BY <2>2
    <3> QED
      BY <1>6, <2>2, <3>1, <3>2
  <2> QED
    BY <1>7, <2>1, <2>2
<1>11. published'[a] \subseteq unread'[a] \cup d.results
  BY <1>4, <1>6 DEF Reading
<1>12. \A t \in Targets : objects[CopyOf(t)] # Absent => CopyOf(t) \in unread'[a] \cup d.results
  BY <1>4, <1>6 DEF Reading
<1> HIDE DEF c
<1> QED
  BY <1>4, <1>9, <1>10, <1>11, <1>12 DEF Reading, Tagged, CopyOf

\* A draft of all that was listed covers it; the copies to make are of all targets.
LEMMA ReadIsCovered ==
  ASSUME TypeOK, Existing, NEW a \in Admins, Reading(a), EndOfObjects(a)
  PROVE  Covered(a)'
<1>1. /\ unread[a] = {} /\ UNCHANGED <<objects, draft, published, trouble>>
      /\ uncopied'[a] = {t \in Targets : draft[a].newest[t] # NoEntry}
  BY DEF EndOfObjects, TypeOK, bucketVars, historyVars
<1>2. draft[a] \in Index /\ draft[a].results \subseteq Keys
  BY DEF TypeOK, Index
<1>3. published[a] \subseteq draft[a].results
  BY <1>1 DEF Reading
<1>4. \A k \in draft[a].results : objects[k] \in Content /\ objects[k].date # 0
  BY <1>2 DEF Reading, Tagged, TypeOK
<1>5. ASSUME NEW k \in published[a]
      PROVE  /\ objects[k].target \in Targets
             /\ draft[a].newest[objects[k].target].date >= objects[k].date
  BY <1>3, <1>4, Contents DEF Reading
<1>6. ASSUME NEW t \in Targets PROVE draft[a].newest[t].date >= CopyDate(t)
  <2>1. draft[a].newest[t].date \in Nat
    BY <1>2, IndexEntries
  <2>2. CASE objects[CopyOf(t)] = Absent
    BY <2>1, <2>2 DEF CopyDate, DateFor
  <2>3. CASE objects[CopyOf(t)] # Absent
    <3>1. CopyOf(t) \in draft[a].results
      BY <1>1, <2>3 DEF Reading
    <3>2. CopyOf(t).stamp = LatestStamp /\ CopyOf(t).target = t
      BY DEF CopyOf
    <3>3. objects[CopyOf(t)].target = t
      BY <3>1, <3>2 DEF Reading, Tagged
    <3>4. CopyDate(t) = objects[CopyOf(t)].date
      BY <2>3, <3>3 DEF CopyDate, DateFor
    <3> QED
      BY <3>1, <3>3, <3>4 DEF Reading
  <2> QED
    BY <2>2, <2>3
<1>7. ASSUME NEW t \in Targets \ uncopied'[a] PROVE draft[a].newest[t].date = CopyDate(t)
  <2>1. draft[a].newest[t].date = 0
    BY <1>1 DEF NoEntry
  <2>2. CopyDate(t) \in Nat
    BY CopyDates
  <2> QED
    BY <1>6, <2>1, <2>2
<1>8. ASSUME NEW t \in uncopied'[a]
      PROVE  /\ draft[a].newest[t].key \in Names \cup {CopyOf(t)}
             /\ objects[draft[a].newest[t].key] = [target |-> t, date |-> draft[a].newest[t].date]
  <2> DEFINE k == draft[a].newest[t].key
  <2>1. /\ t \in Targets /\ k \in draft[a].results
        /\ objects[k] = [target |-> t, date |-> draft[a].newest[t].date]
    BY <1>1 DEF Reading
  <2>2. k \in Keys /\ objects[k].target = t /\ Tagged(k)
    BY <1>2, <2>1 DEF Reading
  <2> HIDE DEF k
  <2>3. k \in Names \cup {CopyOf(t)}
    <3>1. CASE k \in Names
      BY <3>1
    <3>2. CASE k \in Key /\ k.stamp = LatestStamp /\ k = CopyOf(k.target)
      BY <2>2, <3>2 DEF Tagged
    <3> QED
      BY <2>2, <3>1, <3>2, NamesAreKeys DEF Keys
  <2> QED
    BY <2>1, <2>3 DEF k
<1>9. \A t \in Targets : CopyDate(t)' = CopyDate(t)
  BY <1>1 DEF CopyDate, DateFor, CopyOf
<1> QED
  BY <1>1, <1>3, <1>5, <1>6, <1>7, <1>8, <1>9 DEF Covered, CopyOf

\* A copy that is made is the newest, and no other's; one that is not is noted.
LEMMA CopyIsCovered ==
  ASSUME TypeOK, PublicationsInOrder, NEW a \in Admins, Covered(a), NEW t \in Targets,
         CopyLatest(a, t)
  PROVE  /\ Covered(a)' /\ CopyDate(t)' >= CopyDate(t)
         /\ \A u \in Targets \ {t} : CopyDate(u)' = CopyDate(u)
<1> DEFINE k == draft[a].newest[t].key
           newest(u) == draft[a].newest[u]
<1>1. UNCHANGED <<draft, published>> /\ t \in uncopied[a] /\ uncopied'[a] = uncopied[a] \ {t}
  BY DEF CopyLatest, TypeOK
<1>2. /\ uncopied[a] \subseteq Targets /\ published[a] \subseteq Names
      /\ \A u \in Targets : /\ CopyOf(u) \in Keys /\ CopyOf(u) \notin Names
                            /\ newest(u).date \in Nat /\ CopyDate(u) \in Nat
      /\ \A u \in Targets \ {t} : CopyOf(u) # CopyOf(t)
  <2>1. draft[a] \in Index
    BY DEF TypeOK
  <2> QED
    BY <2>1, NamesAreKeys, IndexEntries, CopyDates DEF TypeOK, CopyOf, Keys
<1>3. CASE /\ objects' = [objects EXCEPT ![CopyOf(t)] = objects[k]] /\ trouble' = trouble
  <2>1. /\ objects'[CopyOf(t)] = objects[k]
        /\ \A l \in Keys \ {CopyOf(t)} : objects'[l] = objects[l]
    BY <1>2, <1>3 DEF TypeOK
  <2>2. objects[k] = [target |-> t, date |-> newest(t).date]
    BY <1>1 DEF Covered
  <2>3. [target |-> t, date |-> newest(t).date] # Absent
    <3>1. newest(t).date \in {0} \cup Dates
      BY IndexEntries DEF TypeOK
    <3> QED
      BY <3>1, Numbers DEF Content
  <2>4. CopyDate(t)' = newest(t).date
    <3>1. CopyDate(t)' = DateFor(t, objects'[CopyOf(t)])
      BY DEF CopyDate, DateFor, CopyOf
    <3> HIDE DEF newest
    <3> QED
      BY <2>1, <2>2, <2>3, <3>1 DEF DateFor
  <2>5. ASSUME NEW u \in Targets \ {t} PROVE CopyDate(u)' = CopyDate(u)
    <3>1. objects'[CopyOf(u)] = objects[CopyOf(u)]
      BY <1>2, <2>1
    <3> QED
      BY <3>1 DEF CopyDate, DateFor, CopyOf
  <2>6. \A u \in Targets : newest(u).date >= CopyDate(u)'
    BY <1>2, <2>4, <2>5 DEF Covered
  <2>7. "uncopied" \notin trouble[a] =>
          \A u \in Targets \ uncopied'[a] : newest(u).date = CopyDate(u)'
    BY <1>1, <2>4, <2>5 DEF Covered
  <2>8. \A l \in published[a] : objects'[l] = objects[l]
    BY <1>2, <2>1, NamesAreKeys
  <2>9. ASSUME NEW u \in uncopied'[a]
        PROVE  /\ newest(u).key \in Names \cup {CopyOf(u)}
               /\ objects'[newest(u).key] = [target |-> u, date |-> newest(u).date]
    <3>1. /\ u \in Targets \ {t} /\ newest(u).key \in Names \cup {CopyOf(u)}
          /\ objects[newest(u).key] = [target |-> u, date |-> newest(u).date]
      BY <1>1, <1>2 DEF Covered
    <3>2. newest(u).key \in Keys \ {CopyOf(t)}
      BY <1>2, <3>1, NamesAreKeys
    <3> QED
      BY <2>1, <3>1, <3>2
  <2>10. CopyDate(t)' >= CopyDate(t)
    BY <1>2, <2>4 DEF Covered
  <2> QED
    BY <1>1, <1>3, <2>5, <2>6, <2>7, <2>8, <2>9, <2>10 DEF Covered, CopyOf
<1>4. CASE objects' = objects /\ "uncopied" \in trouble'[a]
  <2>1. \A u \in Targets : CopyDate(u)' = CopyDate(u)
    BY <1>4 DEF CopyDate, DateFor, CopyOf
  <2> QED
    BY <1>1, <1>2, <1>4, <2>1 DEF Covered, CopyOf
<1> QED
  BY <1>3, <1>4 DEF CopyLatest, Trouble, TypeOK

\* The invalidation is requested when every copy was made.
LEMMA InvalidatedIsServed ==
  ASSUME TypeOK, NEW a \in Admins, Covered(a), uncopied[a] = {}, Invalidate(a),
         trouble'[a] = {}, pc'[a] = "indexed"
  PROVE  Served(a)'
<1>1. invalidating'[a] = Targets /\ trouble' = trouble /\ UNCHANGED <<objects, published>>
  BY DEF Invalidate, Goto, Trouble, TypeOK, bucketVars
<1>2. ASSUME NEW k \in published[a]
      PROVE  objects[k].target \in Targets /\ CopyDate(objects[k].target) >= objects[k].date
  BY <1>1 DEF Covered
<1>3. \A t \in Targets : CopyDate(t)' = CopyDate(t)
  BY <1>1 DEF CopyDate, DateFor, CopyOf
<1> QED
  BY <1>1, <1>2, <1>3 DEF Served

\* What reports are given does not depend on what they were given before.
LEMMA CacheKeepsServed ==
  ASSUME TypeOK, NEW a \in Admins, Served(a), NEW t \in Targets, CacheStep(t)
  PROVE  Served(a)'
<1>1. objects' = objects /\ published' = published
  BY CacheSteps DEF bucketVars, historyVars
<1>2. \A u \in Targets : CopyDate(u)' = CopyDate(u) /\ CopyDate(u) = DateFor(u, objects[CopyOf(u)])
  BY <1>1 DEF CopyDate, DateFor, CopyOf
<1>3. ASSUME NEW k \in published[a], NEW u \in Targets, u = objects[k].target,
             u \notin invalidating'[a], cached'[u] # Absent
      PROVE  DateFor(u, cached'[u]) >= objects[k].date
  <2>1. u \notin invalidating[a] /\ cached'[u] \in {cached[u], objects[CopyOf(u)]}
    BY <1>3, CacheSteps
  <2>2. CASE cached'[u] = cached[u]
    BY <1>3, <2>1, <2>2 DEF Served
  <2>3. CASE cached'[u] = objects[CopyOf(u)]
    BY <1>2, <1>3, <2>3 DEF Served
  <2> QED
    BY <2>1, <2>2, <2>3
<1> QED
  BY <1>1, <1>2, <1>3 DEF Served, DateFor
-----------------------------------------------------------------------------
(* The index runs.                                                         *)

\* Every listing of the step has all the objects that are in the bucket.
Listed == \A a \in Admins : pc[a] = "list" /\ pc'[a] = "read" => unread'[a] = Objects

\* What a run has is the same as long as these are, and the objects that were there.
LEMMA SameRun ==
  ASSUME TypeOK, Existing, PublicationsInOrder, NEW a \in Admins, IndexRun(a), pc'[a] = pc[a],
         Sound(a)' => Sound(a) /\ (trouble[a] = {} <=> trouble'[a] = {})
                      /\ ("uncopied" \in trouble[a] <=> "uncopied" \in trouble'[a]),
         Running(a) /\ Sound(a)' => \A k \in Keys : objects[k] # Absent => objects'[k] = objects[k],
         \A k \in Key \ Names : objects'[k] = objects[k],
         UNCHANGED <<index, cacheVars, unread, draft, uncopied, published>>
  PROVE  IndexRun(a)'
<1> SUFFICES ASSUME Sound(a)', Running(a) PROVE IndexRun(a)'
  BY DEF IndexRun, Running, IndexSteps
<1>1. Sound(a) /\ (trouble[a] = {} <=> trouble'[a] = {})
      /\ ("uncopied" \in trouble[a] <=> "uncopied" \in trouble'[a])
  OBVIOUS
<1>2. \A k \in Keys : objects[k] # Absent => objects'[k] = objects[k]
  OBVIOUS
<1>3. \A t \in Targets : objects'[CopyOf(t)] = objects[CopyOf(t)]
  BY NamesAreKeys
<1>4. \A t \in Targets : CopyDate(t)' = CopyDate(t)
  BY <1>3 DEF CopyDate, DateFor, CopyOf
<1>5. /\ published[a] \subseteq Keys /\ draft[a].results \subseteq Keys
      /\ uncopied[a] \subseteq Targets
      /\ \A t \in Targets : draft[a].newest[t].key \in Keys
      /\ \A k \in published[a] : objects'[k] = objects[k]
      /\ \A t \in Targets : draft[a].newest[t] # NoEntry =>
           objects'[draft[a].newest[t].key] = objects[draft[a].newest[t].key]
  <2>1. draft[a] \in Index
    BY DEF TypeOK
  <2> QED
    BY <1>2, <2>1, IndexEntries, NamesAreKeys DEF TypeOK, Index, PublicationsInOrder, Existing
<1>6. Reading(a) => Reading(a)'
  <2>1. ASSUME Reading(a) PROVE \A k \in draft[a].results : objects'[k] = objects[k]
    BY <1>2, <1>5, <2>1 DEF Reading, Tagged
  <2> QED
    BY <1>3, <1>5, <2>1 DEF Reading, Tagged, CopyOf
<1>7. pc[a] \in {"copy", "putIndex", "invalidate"} /\ Covered(a) => Covered(a)'
  <2>1. ASSUME Covered(a), pc[a] \in {"copy", "putIndex", "invalidate"}, NEW t \in uncopied[a]
        PROVE  objects'[draft[a].newest[t].key] = objects[draft[a].newest[t].key]
    <3>1. pc[a] = "copy"
      BY <1>1, <2>1 DEF IndexRun
    <3> QED
      BY <1>5, <2>1, <3>1 DEF Existing
  <2> QED
    BY <1>1, <1>4, <1>5, <2>1 DEF Covered, CopyOf
<1>8. Served(a) => Served(a)'
  BY <1>4, <1>5 DEF Served, cacheVars, DateFor
<1> QED
  BY <1>1, <1>6, <1>7, <1>8 DEF IndexRun

\* The steps of another administrator leave a sound run alone.
LEMMA OtherAdmin ==
  ASSUME TypeOK, Existing, PublicationsInOrder, RunsApart, NEW a \in Admins, IndexRun(a),
         NEW b \in Admins \ {a}, PublishNext(b) \/ IndexerNext(b) \/ Crash(b)
  PROVE  IndexRun(a)'
<1>1. CASE PublishNext(b)
  <2>1. /\ pc'[a] = pc[a] /\ trouble'[a] \in {trouble[a], trouble[a] \cup {"replaced"}}
        /\ Running(a) /\ "replaced" \notin trouble'[a] =>
             \A k \in Keys : objects[k] # Absent => objects'[k] = objects[k]
        /\ \A k \in Key \ Names : objects'[k] = objects[k]
        /\ UNCHANGED <<index, cacheVars, unread, draft, uncopied, published>>
    BY <1>1, PublisherStep
  <2>2. Sound(a)' => "replaced" \notin trouble'[a] /\ trouble'[a] = trouble[a] /\ Sound(a)
    BY <2>1 DEF Sound, Lone
  <2> QED
    BY <2>1, <2>2, SameRun
<1>2. CASE StartIndexer(b)
  <2>1. pc'[a] = pc[a] /\ (Running(a) => ~Lone(a)')
    BY <1>2, StartMarksOthers, IndexerLeavesPublications DEF IndexerNext
  <2> QED
    BY <2>1 DEF IndexRun, Sound, Running, IndexSteps
<1>3. CASE IndexerNext(b) /\ ~StartIndexer(b)
  <2>1. pc[b] \in IndexSteps /\ pc'[a] = pc[a] /\ trouble'[a] = trouble[a]
    BY <1>3, IndexerStep, IndexerLeavesPublications
  <2>2. Running(a) => ~Lone(a)
    BY <2>1 DEF RunsApart
  <2> QED
    BY <2>1, <2>2 DEF IndexRun, Sound, Lone, Running, IndexSteps
<1>4. CASE Crash(b)
  <2>1. pc'[a] = pc[a] /\ UNCHANGED <<bucketVars, cacheVars, localVars, historyVars>>
    BY <1>4 DEF Crash, Goto, TypeOK
  <2>2. Sound(a)' = Sound(a)
    BY <2>1 DEF Sound, Lone, historyVars
  <2> QED
    BY <2>1, <2>2, SameRun DEF bucketVars, localVars, historyVars
<1> QED
  BY <1>1, <1>2, <1>3, <1>4

\* The steps of an index run itself.
LEMMA OwnStep ==
  ASSUME TypeOK, Existing, PublicationsInOrder, NEW a \in Admins, IndexRun(a), Listed,
         IndexerNext(a)
  PROVE  IndexRun(a)'
<1> USE DEF IndexRun
<1>1. CASE StartIndexer(a)
  BY <1>1 DEF StartIndexer, Goto, TypeOK
<1> SUFFICES ASSUME ~StartIndexer(a) PROVE IndexRun(a)'
  BY <1>1
<1>2. Sound(a)' => Sound(a)
  BY IndexerStep DEF Sound, Lone
<1>3. CASE ListObjects(a)
  <2>1. pc[a] = "list" /\ pc'[a] \in {"read", "failed"} /\ UNCHANGED <<objects, published, draft>>
    BY <1>3 DEF ListObjects, Goto, TypeOK, bucketVars, historyVars
  <2>2. CASE pc'[a] = "read" /\ Sound(a)
    BY <2>1, <2>2, ListedIsReading DEF Listed
  <2> QED
    BY <1>2, <2>1, <2>2
<1>4. CASE ReadObject(a)
  <2>1. PICK k \in unread[a] :
          \/ /\ k = NoName
             /\ Goto(a, "panicked") /\ UNCHANGED <<unread, draft, trouble>>
          \/ /\ k # NoName
             /\ unread' = [unread EXCEPT ![a] = @ \ {k}]
             /\ draft' = [draft EXCEPT ![a] = Indexed(@, k, objects[k])]
             /\ trouble' = [trouble EXCEPT ![a] =
                  @ \cup {x \in {"mistagged"} : Mistagged(k, objects[k])}]
             /\ UNCHANGED pc
          \/ /\ unread' = [unread EXCEPT ![a] = @ \ {k}]
             /\ Trouble(a, "unread")
             /\ UNCHANGED <<pc, draft>>
    BY <1>4, AnyRead
  <2>2. pc[a] = "read" /\ UNCHANGED <<objects, published>>
    BY <1>4, AnyRead DEF bucketVars
  <2>3. CASE Goto(a, "panicked")
    BY <2>3 DEF Goto, TypeOK
  <2>4. CASE /\ k # NoName /\ unread' = [unread EXCEPT ![a] = @ \ {k}]
             /\ draft' = [draft EXCEPT ![a] = Indexed(@, k, objects[k])] /\ pc' = pc
             /\ trouble' = [trouble EXCEPT ![a] =
                  @ \cup {x \in {"mistagged"} : Mistagged(k, objects[k])}]
    <3>1. Sound(a)' => ~Mistagged(k, objects[k])
      <4>1. Mistagged(k, objects[k]) => "mistagged" \in trouble'[a]
        BY <2>4 DEF TypeOK
      <4> QED
        BY <4>1 DEF Sound
    <3>2. Sound(a)' => Reading(a)'
      BY <1>2, <2>2, <2>4, <3>1, ReadIsReading
    <3> QED
      BY <2>2, <2>4, <3>2
  <2>5. CASE Trouble(a, "unread")
    BY <2>5 DEF Trouble, TypeOK, Sound
  <2> QED
    BY <2>1, <2>3, <2>4, <2>5
<1>5. CASE EndOfObjects(a)
  <2>1. pc[a] = "read" /\ pc'[a] = "copy"
    BY <1>5 DEF EndOfObjects, Goto, TypeOK
  <2> QED
    BY <1>2, <1>5, <2>1, ReadIsCovered
<1>6. ASSUME NEW t \in Targets, CopyLatest(a, t) PROVE IndexRun(a)'
  <2>1. pc[a] = "copy" /\ pc'[a] = "copy"
    BY <1>6 DEF CopyLatest
  <2> QED
    BY <1>2, <1>6, <2>1, CopyIsCovered
<1>7. CASE EndOfCopies(a)
  <2>1. pc[a] = "copy" /\ uncopied[a] = {} /\ pc'[a] = "putIndex"
    BY <1>7 DEF EndOfCopies, Goto, TypeOK
  <2>2. Covered(a)' = Covered(a) /\ uncopied' = uncopied
    BY <1>7 DEF EndOfCopies, Covered, CopyDate, DateFor, CopyOf, bucketVars, localVars, historyVars
  <2> QED
    BY <1>2, <2>1, <2>2
<1>8. CASE PutIndex(a)
  <2>1. /\ pc[a] = "putIndex" /\ pc'[a] \in {"invalidate", "failed"}
        /\ pc'[a] = "invalidate" => index' = draft[a]
    BY <1>8 DEF PutIndex, Goto, TypeOK
  <2>2. Covered(a)' = Covered(a) /\ uncopied' = uncopied /\ draft' = draft
    BY <1>8 DEF PutIndex, Covered, CopyDate, DateFor, CopyOf, localVars, historyVars
  <2> QED
    BY <1>2, <2>1, <2>2
<1>9. CASE Invalidate(a)
  <2>1. pc[a] = "invalidate" /\ pc'[a] \in {"indexed", "failed"}
    BY <1>9 DEF Invalidate, Goto, TypeOK
  <2> QED
    BY <1>2, <1>9, <2>1, InvalidatedIsServed
<1> QED
  BY <1>3, <1>4, <1>5, <1>6, <1>7, <1>8, <1>9 DEF IndexerNext

LEMMA IndexRunsStep ==
  TypeOK /\ Existing /\ PublicationsInOrder /\ RunsApart /\ IndexRuns /\ [Next]_vars /\ [Listed]_vars
    => IndexRuns'
<1> SUFFICES ASSUME TypeOK, Existing, PublicationsInOrder, RunsApart, IndexRuns, [Next]_vars,
                    [Listed]_vars, NEW a \in Admins
             PROVE  IndexRun(a)'
  BY DEF IndexRuns
<1>1. IndexRun(a)
  BY DEF IndexRuns
<1>2. CASE UNCHANGED vars
  <2>1. Sound(a)' = Sound(a)
    BY <1>2 DEF Sound, Lone, vars, historyVars
  <2> QED
    BY <1>1, <1>2, <2>1, SameRun DEF vars, bucketVars, localVars, historyVars
<1>3. ASSUME NEW b \in Admins \ {a}, PublishNext(b) \/ IndexerNext(b) \/ Crash(b) PROVE IndexRun(a)'
  BY <1>1, <1>3, OtherAdmin
<1>4. CASE PublishNext(a) \/ Crash(a)
  <2>1. pc'[a] \notin IndexSteps \cup {"indexed"}
    BY <1>4, PublisherStep DEF IndexSteps, PublishSteps, Crash, Goto, TypeOK
  <2> QED
    BY <2>1 DEF IndexRun, IndexSteps
<1>5. CASE IndexerNext(a) /\ Listed
  BY <1>1, <1>5, OwnStep
<1>6. ASSUME NEW t \in Targets, CacheStep(t) PROVE IndexRun(a)'
  <2>1. UNCHANGED <<bucketVars, pc, localVars, historyVars>>
    BY <1>6, CacheSteps
  <2>2. UNCHANGED <<objects, index, pc, unread, draft, uncopied, published, trouble>>
    BY <2>1 DEF bucketVars, localVars, historyVars
  <2>3. Sound(a)' = Sound(a) /\ Reading(a)' = Reading(a) /\ Covered(a)' = Covered(a)
    BY <2>2 DEF Sound, Lone, Reading, Tagged, Covered, CopyDate, DateFor, CopyOf
  <2>4. Served(a) => Served(a)'
    BY <1>6, CacheKeepsServed
  <2> QED
    BY <1>1, <2>2, <2>3, <2>4 DEF IndexRun
<1> QED
  BY <1>2, <1>3, <1>4, <1>5, <1>6, Steps DEF IndexRuns

LEMMA RunsAreSound == Spec /\ ListingIsComplete => []IndexRuns
<1>1. Init => IndexRuns
  BY DEF Init, IndexRuns, IndexRun
<1>2. ListingIsComplete => [][Listed]_vars
  BY PTL DEF ListingIsComplete, Listed
<1> QED
  BY <1>1, <1>2, IndexRunsStep, Base, InOrder, Apart, PTL DEF Spec

\* Provided every listing is complete: the index that a sound run writes has all
\* the summaries published before the run began, none newer than the newest of the
\* target its tags tell, and the copies it made are those newest.
THEOREM IndexCovers == Spec /\ ListingIsComplete => []IndexCoversPublished
<1>1. IndexRuns => IndexCoversPublished
  BY DEF IndexRuns, IndexRun, Covered, IndexCoversPublished
<1> QED
  BY <1>1, RunsAreSound, PTL

\* Provided every listing is complete: after an index run in which nothing went
\* wrong, and once its invalidation took effect, no report is given a summary older
\* than one published before it.
THEOREM ReportsAreCurrent == Spec /\ ListingIsComplete => []ReportsReadPublished
<1>1. IndexRuns => ReportsReadPublished
  BY DEF IndexRuns, IndexRun, Sound, Lone, Served, ReportsReadPublished
<1> QED
  BY <1>1, RunsAreSound, PTL

\* Provided every listing is complete: only a run that is not sound takes a newer
\* copy back for an older one.
THEOREM NeverBack == Spec /\ ListingIsComplete => LatestNeverGoesBack
<1> DEFINE Forward == \A t \in Targets :
             CopyDate(t)' < CopyDate(t) => \E a \in Admins : pc[a] = "copy" /\ ~Sound(a)
<1>1. TypeOK /\ Existing /\ PublicationsInOrder /\ IndexRuns /\ [Next]_vars /\ TypeOK' => [Forward]_vars
  <2> SUFFICES ASSUME TypeOK, Existing, PublicationsInOrder, IndexRuns, Next, TypeOK',
                      NEW t \in Targets, CopyDate(t)' < CopyDate(t)
               PROVE  \E a \in Admins : pc[a] = "copy" /\ ~Sound(a)
    OBVIOUS
  <2>1. CopyDate(t) \in Nat
    BY CopyDates
  <2>2. objects'[CopyOf(t)] # objects[CopyOf(t)]
    <3>1. objects'[CopyOf(t)] = objects[CopyOf(t)] => CopyDate(t)' = CopyDate(t)
      BY DEF CopyDate, DateFor, CopyOf
    <3> QED
      BY <2>1, <3>1
  <2>3. PICK a \in Admins, u \in Targets : CopyLatest(a, u)
    <3>0. CopyOf(t) \in Key \ Names
      BY NamesAreKeys
    <3>1. ASSUME NEW a \in Admins, PublishNext(a) PROVE FALSE
      BY <2>2, <3>0, <3>1, PublisherStep
    <3>2. ASSUME NEW a \in Admins, Crash(a) PROVE FALSE
      BY <2>2, <3>2 DEF Crash, bucketVars
    <3>3. ASSUME NEW u \in Targets, CacheStep(u) PROVE FALSE
      BY <2>2, <3>3, CacheSteps DEF bucketVars
    <3>4. ASSUME NEW a \in Admins, IndexerNext(a)
          PROVE  \E u \in Targets : CopyLatest(a, u)
      BY <2>2, <3>4, AnyRead DEF IndexerNext, StartIndexer, ListObjects, EndOfObjects, EndOfCopies,
                  PutIndex, Invalidate, bucketVars
    <3> QED
      BY <3>1, <3>2, <3>3, <3>4 DEF Next, CacheStep
  <2>4. pc[a] = "copy"
    BY <2>3 DEF CopyLatest
  <2>5. ASSUME Sound(a) PROVE FALSE
    <3>1. Covered(a)
      BY <2>4, <2>5 DEF IndexRuns, IndexRun
    <3>2. CopyDate(t)' >= CopyDate(t)
      BY <2>1, <2>3, <3>1, CopyIsCovered
    <3>3. CopyDate(t)' \in Nat
      BY NamesAreKeys, Contents DEF TypeOK, CopyDate, DateFor, Keys, CopyOf
    <3> QED
      BY <2>1, <3>2, <3>3
  <2> QED
    BY <2>4, <2>5
<1>2. [][Forward]_vars => LatestNeverGoesBack
  BY PTL DEF LatestNeverGoesBack
<1> QED
  BY <1>1, <1>2, RunsAreSound, Base, InOrder, PTL DEF Spec
-----------------------------------------------------------------------------
(* When a listing is complete.                                             *)

\* There are finitely many keys.
LEMMA FinitelyManyObjects == IsFiniteSet(Objects)
<1> DEFINE stamps == Dates \cup {LatestStamp}
           key == [p \in Targets \X stamps |-> [target |-> p[1], stamp |-> p[2]]]
<1>1. IsFiniteSet(stamps)
  <2>1. IsFiniteSet(Dates)
    BY FS_Interval, Numbers DEF Dates
  <2> QED
    BY <2>1, FS_AddElement
<1>2. IsFiniteSet(Targets \X stamps)
  BY <1>1, FS_Product, Numbers
<1>3. key \in Surjection(Targets \X stamps, Key)
  <2>1. key \in [Targets \X stamps -> Key]
    BY DEF Key
  <2>2. ASSUME NEW k \in Key PROVE \E p \in Targets \X stamps : key[p] = k
    <3>1. <<k.target, k.stamp>> \in Targets \X stamps
      BY DEF Key
    <3>2. key[<<k.target, k.stamp>>] = k
      BY <3>1 DEF Key
    <3> QED
      BY <3>1, <3>2
  <2> QED
    BY <2>1, <2>2 DEF Surjection
<1>4. IsFiniteSet(Key)
  <2> HIDE DEF key, stamps
  <2> QED
    BY <1>2, <1>3, FS_Surjection
<1>5. IsFiniteSet(Keys)
  BY <1>4, FS_AddElement DEF Keys
<1> QED
  BY <1>5, FS_Subset DEF Objects

\* All the objects of a bucket that has no more than an answer are in the first page.
LEMMA OnePage ==
  ASSUME Cardinality(Objects) <= PageSize PROVE Page = Objects
<1>1. IsFiniteSet(Objects) /\ Objects \subseteq Keys
  BY FinitelyManyObjects DEF Objects
<1>2. ASSUME NEW k \in Objects PROVE Cardinality({l \in Objects : Before(l, k)}) < PageSize
  <2> DEFINE earlier == {l \in Objects : Before(l, k)}
  <2>1. ~Before(k, k)
    <3>1. k.target \in Nat /\ k.stamp \in Nat
      <4>1. CASE k \in Key
        <5>1. Dates \cup {LatestStamp} \subseteq Nat
          BY Numbers DEF Dates, LatestStamp
        <5> QED
          BY <4>1, <5>1, Numbers DEF Key
      <4>2. CASE k = NoName
        BY <4>2 DEF NoName
      <4> QED
        BY <1>1, <4>1, <4>2 DEF Keys
    <3> QED
      BY <3>1 DEF Before
  <2>2. earlier \subseteq Objects \ {k}
    BY <2>1
  <2>3. /\ IsFiniteSet(Objects \ {k})
        /\ Cardinality(Objects \ {k}) = Cardinality(Objects) - 1
    BY <1>1, FS_RemoveElement
  <2> HIDE DEF earlier
  <2>4. IsFiniteSet(earlier) /\ Cardinality(earlier) <= Cardinality(Objects \ {k})
    BY <2>2, <2>3, FS_Subset
  <2>5. Cardinality(Objects) \in Nat /\ Cardinality(earlier) \in Nat
    BY <1>1, <2>4, FS_CardinalityType
  <2> QED
    BY <2>3, <2>4, <2>5, Numbers DEF earlier
<1> QED
  BY <1>2 DEF Page

\* The listings are complete as long as the bucket has no more objects than S3
\* returns in one answer: the indexer asks for one page only (indexer.go:203).
THEOREM ListingsFit == Spec /\ [](Cardinality(Objects) <= PageSize) => ListingIsComplete
<1>1. TypeOK /\ Existing /\ Cardinality(Objects) <= PageSize /\ [Next]_vars => [Listed]_vars
  <2> SUFFICES ASSUME TypeOK, Existing, Cardinality(Objects) <= PageSize, Next,
                      NEW a \in Admins, pc[a] = "list", pc'[a] = "read"
               PROVE  unread'[a] = Objects
    BY DEF Listed
  <2>1. ListObjects(a)
    <3>1. ASSUME NEW b \in Admins, PublishNext(b) \/ Crash(b) PROVE FALSE
      BY <3>1, PublisherStep DEF IndexSteps, PublishSteps, Crash, Goto, TypeOK
    <3>2. ASSUME NEW b \in Admins \ {a}, IndexerNext(b) PROVE FALSE
      BY <3>2, IndexerLeavesPublications
    <3>3. ASSUME NEW t \in Targets, CacheStep(t) PROVE FALSE
      BY <3>3, CacheSteps
    <3>4. IndexerNext(a)
      BY <3>1, <3>2, <3>3 DEF Next, CacheStep
    <3> QED
      BY <3>4, AnyRead DEF IndexerNext, StartIndexer, EndOfObjects, CopyLatest, EndOfCopies,
                  PutIndex, Invalidate, Ended
  <2>2. unread'[a] = Page
    BY <2>1 DEF ListObjects, Goto, TypeOK
  <2> QED
    BY <2>2, OnePage
<1>2. [][Listed]_vars => ListingIsComplete
  BY PTL DEF ListingIsComplete, Listed
<1> QED
  BY <1>1, <1>2, Base, PTL DEF Spec
=============================================================================
