----------------------------- MODULE BaselineIndex -----------------------------
(***************************************************************************)
(* The bucket of baseline summaries behind the report service: `opct adm   *)
(* baseline publish` uploads an archive and its summary, `opct adm         *)
(* baseline indexer` lists the summaries, reads them one by one, copies    *)
(* the newest of each target to a "_latest" object and writes the index,   *)
(* and `opct report` reads the copies through a cache the indexer then     *)
(* invalidates.  Every call is one request: commands of several            *)
(* administrators, failing requests and the death of a process come in     *)
(* between.                                                                *)
(*                                                                         *)
(* A target is a release and a platform ("4.16_AWS"), in the order of      *)
(* their names.  A summary is named by its target and the date the         *)
(* validation finished; the copy has LatestStamp for a date, which sorts   *)
(* after all dates.  What is stored under a name need not be the summary   *)
(* the name is of: the tags in it are what the indexer goes by.            *)
(***************************************************************************)
EXTENDS Naturals, FiniteSets, FiniteSetsExt

CONSTANTS
  Admins,      \* the terminals of the administrators
  Targets,     \* the targets: numbers, as they sort
  MaxDate,     \* bound: the dates of summaries
  NewYears,    \* the dates that begin a year
  PageSize,    \* the objects S3 returns in one answer to a listing (1000)
  MaxCommands, \* bound: the commands started
  Undated,     \* whether archives without the time the server finished are published
  Leftovers,   \* what earlier commands left for a summary where publish failed to write its own
  BaseName,    \* BaseName[k]: the name of the file of the archive summarised under k
  Absent       \* the content of an object that does not exist

Dates == 1..MaxDate
LatestStamp == MaxDate + 1

\* The key of an object: the summary without a date is written to the prefix itself.
Key == [target : Targets, stamp : Dates \cup {LatestStamp}]
NoName == [target |-> 0, stamp |-> 0]
Keys == Key \cup {NoName}
Names == [target : Targets, stamp : Dates] \cup {NoName}
CopyOf(t) == [target |-> t, stamp |-> LatestStamp]

\* What the tags of a summary tell, 0 for a tag that is missing; a truncated
\* summary is not decoded and has none.
NoTags == [target |-> 0, date |-> 0]
Content == [target : Targets, date : {0} \cup Dates] \cup {NoTags}
OwnContent(k) == [target |-> k.target, date |-> k.stamp]

ASSUME BaselineAssumption == /\ Targets \subseteq Nat \ {0} /\ IsFiniteSet(Targets)
                             /\ MaxDate \in Nat /\ PageSize \in Nat /\ MaxCommands \in Nat
                             /\ NewYears \subseteq Dates /\ Undated \in BOOLEAN
                             /\ Leftovers \subseteq Content /\ Absent \notin Content

Before(k, l) == k.target < l.target \/ (k.target = l.target /\ k.stamp < l.stamp)

VARIABLES
  archives,     \* the names of the archives uploaded
  objects,      \* objects[k]: the content of the summary, or the copy, stored under k
  index,        \* index.json: the keys it lists, the newest of each target
  cached,       \* cached[t]: the content of the copy for t that the cache holds
  invalidating, \* invalidating[a]: the copies whose invalidation a requested is under way
  pc,           \* pc[a]: the request a makes next, or how its last command ended
  publishing,   \* publishing[a]: the key a publishes under, and the summary it found
  unread,       \* unread[a]: the objects listed and not read
  draft,        \* draft[a]: the index a builds
  uncopied,     \* uncopied[a]: the targets whose copy a has yet to make
  commands,     \* the number of commands started
  published,    \* history: published[a]: the summaries there were when a's index run began
  trouble       \* history: trouble[a]: what went wrong, or went on alongside, in a's index run

bucketVars == <<archives, objects, index>>
cacheVars == <<cached, invalidating>>
historyVars == <<commands, published, trouble>>
localVars == <<publishing, unread, draft, uncopied>>
vars == <<bucketVars, cacheVars, pc, localVars, historyVars>>

\* The newest object of a target: its key, and the date in its tags or 0.
NoEntry == [key |-> NoName, date |-> 0]
NoIndex == [results |-> {}, newest |-> [t \in Targets |-> NoEntry]]

IndexSteps == {"list", "read", "copy", "putIndex", "invalidate"}
Ended == {"idle", "failed", "panicked", "uploaded", "indexed", "crashed"}

Init ==
  /\ archives = {}
  /\ objects = [k \in Keys |-> Absent]
  /\ index = NoIndex
  /\ cached = [t \in Targets |-> Absent]
  /\ invalidating = [a \in Admins |-> {}]
  /\ pc = [a \in Admins |-> "idle"]
  /\ publishing = [a \in Admins |-> [key |-> NoName, content |-> NoTags]]
  /\ unread = [a \in Admins |-> {}]
  /\ draft = [a \in Admins |-> NoIndex]
  /\ uncopied = [a \in Admins |-> {}]
  /\ commands = 0
  /\ published = [a \in Admins |-> {}]
  /\ trouble = [a \in Admins |-> {}]

Goto(a, step) == pc' = [pc EXCEPT ![a] = step]
Trouble(a, what) == trouble' = [trouble EXCEPT ![a] = @ \cup {what}]

\* The index runs that go on, and the last ones.
Running(b) == pc[b] \in IndexSteps \cup {"indexed"}

-----------------------------------------------------------------------------
(* opct adm baseline publish.                                              *)

\* Mutant of StartPublish: with --force-latest the summary is published as the copy.
StartPublishLatest(a, k, content) ==
  /\ pc[a] \in Ended /\ commands < MaxCommands
  /\ commands' = commands + 1
  /\ publishing' = [publishing EXCEPT ![a] = [key |-> CopyOf(k.target), content |-> content]]
  /\ Goto(a, "uploadArchive")
  /\ UNCHANGED <<bucketVars, cacheVars, unread, draft, uncopied, published, trouble>>

StartPublish(a, k, content) ==
  /\ pc[a] \in Ended /\ commands < MaxCommands
  /\ commands' = commands + 1
  /\ publishing' = [publishing EXCEPT ![a] = [key |-> k, content |-> content]]
  /\ Goto(a, "uploadArchive")
  /\ UNCHANGED <<bucketVars, cacheVars, unread, draft, uncopied, published, trouble>>

UploadArchive(a) ==
  /\ pc[a] = "uploadArchive"
  /\ \/ archives' = archives \cup {BaseName[publishing[a].key]} /\ Goto(a, "uploadSummary")
     \/ UNCHANGED archives /\ Goto(a, "failed")
  /\ UNCHANGED <<objects, index, cacheVars, localVars, historyVars>>

\* The summary is stored, in place of one of the same name.
StoreSummary(a) ==
  LET k == publishing[a].key
      replaced == objects[k] \notin {Absent, publishing[a].content}
  IN  /\ objects' = [objects EXCEPT ![k] = publishing[a].content]
      /\ trouble' = [b \in Admins |-> trouble[b] \cup {x \in {"replaced"} : replaced /\ Running(b)}]

\* Mutant of UploadSummary: its failure is only logged.
UploadSummaryUnchecked(a) ==
  /\ pc[a] = "uploadSummary"
  /\ StoreSummary(a) \/ UNCHANGED <<objects, trouble>>
  /\ Goto(a, "uploaded")
  /\ UNCHANGED <<archives, index, cacheVars, localVars, commands, published>>

UploadSummary(a) ==
  /\ pc[a] = "uploadSummary"
  /\ \/ StoreSummary(a) /\ Goto(a, "uploaded")
     \/ UNCHANGED <<objects, trouble>> /\ Goto(a, "failed")
  /\ UNCHANGED <<archives, index, cacheVars, localVars, commands, published>>

-----------------------------------------------------------------------------
(* opct adm baseline indexer.                                              *)

StartIndexer(a) ==
  /\ pc[a] \in Ended /\ commands < MaxCommands
  /\ commands' = commands + 1
  /\ Goto(a, "list")
  /\ draft' = [draft EXCEPT ![a] = NoIndex]
  /\ published' = [published EXCEPT ![a] = {k \in Names : objects[k] # Absent}]
  /\ trouble' = [b \in Admins |->
       IF b = a THEN {x \in {"overlap"} : \E c \in Admins \ {a} : pc[c] \in IndexSteps}
       ELSE trouble[b] \cup {x \in {"overlap"} : Running(b)}]
  /\ UNCHANGED <<bucketVars, cacheVars, publishing, unread, uncopied>>

Objects == {k \in Keys : objects[k] # Absent}

\* One page, in the order of the keys.
Page == {k \in Objects : Cardinality({l \in Objects : Before(l, k)}) < PageSize}

ListObjects(a) ==
  /\ pc[a] = "list"
  /\ \/ unread' = [unread EXCEPT ![a] = Page] /\ Goto(a, "read")
     \/ UNCHANGED unread /\ Goto(a, "failed")
  /\ UNCHANGED <<bucketVars, cacheVars, publishing, draft, uncopied, historyVars>>

\* A missing target is that of the name.
TargetOf(k, content) == IF content.target = 0 THEN k.target ELSE content.target

\* A missing date is the one in the name.  Dates are compared as text: one in a
\* name (20240101000000.json) comes after all those in tags (2024-06-01T00:00:00Z)
\* of its year, and that of a copy (latest.json) after all others.
Older(e, f) ==
  LET newYear(d, g) == \E y \in NewYears : d < y /\ y <= g
  IN  \/ e.date # 0 /\ f.date # 0 /\ e.date < f.date
      \/ e.date = 0 /\ f.date = 0 /\ e.key.stamp < f.key.stamp
      \/ e.date # 0 /\ f.date = 0 /\ ~newYear(f.key.stamp, e.date)
      \/ e.date = 0 /\ f.date # 0 /\ newYear(e.key.stamp, f.date)

\* Mutant of Newer: the comparison of the dates is missing.
ListedFirst(entry, known) == known = NoEntry

\* The first object with the greatest date is the newest.
Newer(entry, known) == known = NoEntry \/ Older(known, entry)

\* The index d with the object read from k.
Indexed(d, k, content) ==
  LET t == TargetOf(k, content)
      entry == [key |-> k, date |-> content.date]
  IN  [results |-> d.results \cup {k},
       newest |-> IF Newer(entry, d.newest[t]) THEN [d.newest EXCEPT ![t] = entry] ELSE d.newest]

\* An object that does not tell where it belongs: no date, or the copy of a target
\* that is of another.
Mistagged(k, content) ==
  content.date = 0 \/ (k.stamp = LatestStamp /\ content.target # k.target)

\* The indexer keeps what it read, undecodable or not, and goes on when a read
\* fails.  The name without a date has no second part, and the index expression
\* panics.
ReadObject(a) ==
  /\ pc[a] = "read"
  /\ \E k \in unread[a] :
       /\ \A l \in unread[a] : ~Before(l, k)
       /\ \/ /\ k = NoName
             /\ Goto(a, "panicked") /\ UNCHANGED <<unread, draft, trouble>>
          \/ /\ k # NoName
             /\ unread' = [unread EXCEPT ![a] = @ \ {k}]
             /\ draft' = [draft EXCEPT ![a] = Indexed(@, k, objects[k])]
             /\ trouble' = [trouble EXCEPT ![a] =
                  @ \cup {x \in {"mistagged"} : Mistagged(k, objects[k])}]
             /\ UNCHANGED pc
          \/ /\ unread' = [unread EXCEPT ![a] = @ \ {k}]
             /\ Trouble(a, "unread")
             /\ UNCHANGED <<pc, draft>>
  /\ UNCHANGED <<bucketVars, cacheVars, publishing, uncopied, commands, published>>

EndOfObjects(a) ==
  /\ pc[a] = "read" /\ unread[a] = {}
  /\ uncopied' = [uncopied EXCEPT ![a] = {t \in Targets : draft[a].newest[t] # NoEntry}]
  /\ Goto(a, "copy")
  /\ UNCHANGED <<bucketVars, cacheVars, publishing, unread, draft, historyVars>>

\* The copy of each target, in the order of a map: of what is stored by then; an
\* error is logged.  S3 refuses to copy an object to itself.
CopyLatest(a, t) ==
  LET newest == draft[a].newest[t].key
  IN  /\ pc[a] = "copy" /\ t \in uncopied[a]
      /\ uncopied' = [uncopied EXCEPT ![a] = @ \ {t}]
      /\ \/ /\ newest # CopyOf(t)
            /\ objects' = [objects EXCEPT ![CopyOf(t)] = objects[newest]]
            /\ UNCHANGED trouble
         \/ UNCHANGED objects /\ Trouble(a, "uncopied")
      /\ UNCHANGED <<archives, index, cacheVars, pc, publishing, unread, draft, commands,
                     published>>

EndOfCopies(a) ==
  /\ pc[a] = "copy" /\ uncopied[a] = {}
  /\ Goto(a, "putIndex")
  /\ UNCHANGED <<bucketVars, cacheVars, localVars, historyVars>>

PutIndex(a) ==
  /\ pc[a] = "putIndex"
  /\ \/ index' = draft[a] /\ Goto(a, "invalidate")
     \/ UNCHANGED index /\ Goto(a, "failed")
  /\ UNCHANGED <<archives, objects, cacheVars, localVars, historyVars>>

\* Mutant of Invalidate: only the index is invalidated.
InvalidateIndex(a) ==
  /\ pc[a] = "invalidate"
  /\ Goto(a, "indexed")
  /\ UNCHANGED <<bucketVars, cacheVars, localVars, historyVars>>

\* The invalidation is requested, no more.  The command succeeds, even when it
\* could only print how to request it.
Invalidate(a) ==
  /\ pc[a] = "invalidate"
  /\ \/ /\ invalidating' = [invalidating EXCEPT ![a] = Targets]
        /\ UNCHANGED trouble /\ Goto(a, "indexed")
     \/ UNCHANGED invalidating /\ Trouble(a, "cached") /\ Goto(a, "indexed")
     \/ UNCHANGED <<invalidating, trouble>> /\ Goto(a, "failed")
  /\ UNCHANGED <<bucketVars, cached, localVars, commands, published>>

-----------------------------------------------------------------------------
(* The rest of the world.                                                  *)

Crash(a) ==
  /\ pc[a] \in IndexSteps \cup {"uploadArchive", "uploadSummary"}
  /\ Goto(a, "crashed")
  /\ UNCHANGED <<bucketVars, cacheVars, localVars, historyVars>>

\* A report asks for the copy of one target: the cache has none and gets the bucket's.
ReadLatestSummary(t) ==
  /\ cached[t] = Absent /\ objects[CopyOf(t)] # Absent
  /\ cached' = [cached EXCEPT ![t] = objects[CopyOf(t)]]
  /\ UNCHANGED <<bucketVars, invalidating, pc, localVars, historyVars>>

CacheExpires(t) ==
  /\ cached' = [cached EXCEPT ![t] = Absent]
  /\ UNCHANGED <<bucketVars, invalidating, pc, localVars, historyVars>>

\* An invalidation takes effect some time after it was requested.
InvalidationTakesEffect(a, t) ==
  /\ t \in invalidating[a]
  /\ invalidating' = [invalidating EXCEPT ![a] = @ \ {t}]
  /\ cached' = [cached EXCEPT ![t] = Absent]
  /\ UNCHANGED <<bucketVars, pc, localVars, historyVars>>

Publishable == [target : Targets, stamp : Dates] \cup {k \in {NoName} : Undated}

PublishNext(a) ==
  \/ \E k \in Publishable : \E content \in {OwnContent(k)} \cup Leftovers :
       StartPublish(a, k, content)
  \/ UploadArchive(a) \/ UploadSummary(a)

IndexerNext(a) ==
  \/ StartIndexer(a)
  \/ ListObjects(a) \/ ReadObject(a) \/ EndOfObjects(a)
  \/ \E t \in Targets : CopyLatest(a, t)
  \/ EndOfCopies(a) \/ PutIndex(a) \/ Invalidate(a)

Next ==
  \/ \E a \in Admins : PublishNext(a) \/ IndexerNext(a) \/ Crash(a)
  \/ \E t \in Targets : \/ ReadLatestSummary(t) \/ CacheExpires(t)
                        \/ \E a \in Admins : InvalidationTakesEffect(a, t)

Spec == Init /\ [][Next]_vars

-----------------------------------------------------------------------------
(* Properties.                                                             *)

Index == [results : SUBSET Keys,
          newest : [Targets -> [key : Keys, date : {0} \cup Dates]]]

\* Types of the variables; nothing but an index run writes a copy.
TypeOK ==
  /\ archives \subseteq {BaseName[k] : k \in Names}
  /\ objects \in [Keys -> Content \cup {Absent}]
  /\ index \in Index
  /\ cached \in [Targets -> Content \cup {Absent}]
  /\ invalidating \in [Admins -> SUBSET Targets]
  /\ pc \in [Admins -> IndexSteps \cup {"uploadArchive", "uploadSummary"} \cup Ended]
  /\ publishing \in [Admins -> [key : Names, content : Content]]
  /\ unread \in [Admins -> SUBSET Keys]
  /\ draft \in [Admins -> Index]
  /\ uncopied \in [Admins -> SUBSET Targets]
  /\ commands \in 0..MaxCommands
  /\ published \in [Admins -> SUBSET Names]
  /\ trouble \in [Admins ->
       SUBSET {"overlap", "unread", "mistagged", "replaced", "uncopied", "cached"}]

Lone(a) == "overlap" \notin trouble[a]

\* An index run that went on alone, read all it listed, found a date in each, and
\* had no summary replaced under its hands.
Sound(a) == Lone(a) /\ trouble[a] \cap {"unread", "mistagged", "replaced"} = {}

\* The date of what reports of the target t are given.
DateFor(t, content) == IF content # Absent /\ content.target = t THEN content.date ELSE 0
CopyDate(t) == DateFor(t, objects[CopyOf(t)])

\* Only an index run with another one alongside, a failed read, a summary without
\* a date or one replaced meanwhile takes a newer copy back for an older one; new
\* publications never matter, and neither does the copy that the listing contains
\* (indexer.go: `<` keeps the dated object before its equal copy).
LatestNeverGoesBack ==
  [][\A t \in Targets :
       CopyDate(t)' < CopyDate(t) => \E a \in Admins : pc[a] = "copy" /\ ~Sound(a)]_vars

\* When a sound index run writes the index, every summary published before it
\* began is in it, none newer than the newest of the target it is tagged with, and
\* the copies are those newest unless copying failed.
IndexCoversPublished ==
  \A a \in Admins :
    pc[a] = "invalidate" /\ Sound(a) =>
      /\ published[a] \subseteq index.results
      /\ \A k \in published[a] : index.newest[objects[k].target].date >= objects[k].date
      /\ "uncopied" \notin trouble[a] => \A t \in Targets : index.newest[t].date = CopyDate(t)

\* After the last index run, if nothing went wrong in it, no report is given a
\* baseline older than a summary published before that run, from the time its
\* invalidation took effect.
ReportsReadPublished ==
  \A a \in Admins :
    pc[a] = "indexed" /\ trouble[a] = {} =>
      \A k \in published[a] :
        LET t == objects[k].target
        IN  /\ CopyDate(t) >= objects[k].date
            /\ t \notin invalidating[a] /\ cached[t] # Absent =>
                 DateFor(t, cached[t]) >= objects[k].date

\* A summary a publisher reported as uploaded is in the bucket, and so is an
\* archive of its name: a publication that fails halfway leaves an archive, never a
\* summary alone.
SummaryHasArchive ==
  /\ \A k \in Names : objects[k] # Absent => BaseName[k] \in archives
  /\ \A a \in Admins : pc[a] = "uploaded" => objects[publishing[a].key] # Absent

\* The listing an indexer reads has all the objects in the bucket when it is
\* taken ("lists all the objects in the bucket", indexer.go:203).
ListingIsComplete ==
  [][\A a \in Admins :
       pc[a] = "list" /\ pc'[a] = "read" => unread'[a] = Objects]_vars

\* An index run ends without a panic, whatever was published before it: a
\* published baseline can be indexed ("You must re-index the storage to serve in
\* the result API", publish.go:164).
IndexerNeverPanics == \A a \in Admins : pc[a] # "panicked"

\* The copies that an index run makes are of the latest summaries, when no other
\* went on alongside and every read succeeded: "extract metadata, and calculate the
\* latest by release and platform type" (indexer.go:36).  That a summary cannot be
\* decoded is only logged, and the date in its name is not one to compare.
DamagedIsNotLatest ==
  \A a \in Admins : pc[a] = "indexed" /\ trouble[a] \subseteq {"mistagged"} =>
    \A k \in published[a] : CopyDate(TargetOf(k, objects[k])) >= objects[k].date
===============================================================================
