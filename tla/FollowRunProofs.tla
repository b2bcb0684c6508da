--------------------------- MODULE FollowRunProofs ---------------------------
(***************************************************************************)
(* For any number of archives and any limits of the retries: a watch ends  *)
(* for the reason it gives, and a file with its final name is whole.       *)
(***************************************************************************)
EXTENDS FollowRun, TLAPS

-----------------------------------------------------------------------------
(* Types, first what a command is at, then its counters.                   *)

PollerTypes ==
  /\ aggregator \in {"none", "pending", "started", "gone"} \cup Statuses
  /\ completed \in BOOLEAN /\ watch \in BOOLEAN /\ command \in {"status", "run"}
  /\ pc \in {"start", "ready", "report", "update", "print", "done", "failed", "gaveUp"}
  /\ latest \in Statuses \cup {""}

DownloadTypes ==
  /\ retrieve \in {"idle", "request", "stream", "rename", "done", "failed", "killed"}
  /\ stream \subseteq Results /\ toRename \subseteq Results
  /\ untar \in {"none", "running", "ok", "cut", "local"}
  /\ exec \in {"none", "running", "ok", "error", "blocked"}
  /\ raw \in Files /\ final \in Files

\* Each counter is within its limit, and an attempt that goes on is not one too many.
CountersWithinLimits ==
  /\ tries \in 1..StatusRetryLimit /\ streak \in 0..StatusRetryLimit
  /\ attempt \in 1..(RetrieveLimit + 1) /\ retrieves \in 0..MaxRetrieves
  /\ retrieve \in {"request", "stream", "rename"} => attempt \in 1..RetrieveLimit

\* The limits as numbers.
LEMMA Limits == /\ StatusRetryLimit \in Nat /\ 1 <= StatusRetryLimit
                /\ RetrieveLimit \in Nat /\ 1 <= RetrieveLimit
                /\ MaxRetrieves \in Nat
BY FollowAssumption DEF FollowAssumption

\* The commands that poll leave the download alone, and the other way round.
LEMMA Apart ==
  ASSUME [Next]_vars
  PROVE  \/ Progress \/ Destroyed
         \/ PollerNext /\ UNCHANGED <<environment, retriever>>
         \/ (RetrieverNext \/ StartRetrieve \/ Killed) /\ UNCHANGED <<environment, poller>>
         \/ UNCHANGED vars
<1>1. PollerNext => UNCHANGED <<environment, retriever>>
  BY DEF PollerNext, PreRunCheck, WaitForRequiredResources, WaitForStatusReport,
         UpdateOnce, PrintWatching, PrintOnce, Poll
<1>2. RetrieverNext \/ StartRetrieve \/ Killed => UNCHANGED <<environment, poller>>
  BY DEF RetrieverNext, StartRetrieve, Killed, RetrieveResults, EndOfTar, EndOfExec, Wait,
         Retrieved, CreateFile, FillFile, Rename, Retrieve
<1> QED
  BY <1>1, <1>2 DEF Next

LEMMA PollerTyping == Spec => []PollerTypes
<1>1. Init => PollerTypes
  <2>1. Init => completed \in BOOLEAN /\ watch \in BOOLEAN
    BY DEF Init
  <2> QED
    BY <2>1 DEF Init, PollerTypes, Statuses
<1>2. PollerTypes /\ [Next]_vars => PollerTypes'
  <2> SUFFICES ASSUME PollerTypes, [Next]_vars PROVE PollerTypes'
    OBVIOUS
  <2> USE DEF PollerTypes
  <2>1. CASE Progress \/ Destroyed
    BY <2>1 DEF Progress, Destroyed, Advance, Statuses, poller
  <2>2. CASE PollerNext /\ UNCHANGED <<environment, retriever>>
    <3>1. command' = command /\ watch' = watch
      BY <2>2 DEF PollerNext, PreRunCheck, WaitForRequiredResources, WaitForStatusReport,
                  UpdateOnce, PrintWatching, PrintOnce, Poll
    <3>2. latest' \in Statuses \cup {""}
      BY <2>2 DEF PollerNext, PreRunCheck, WaitForRequiredResources, WaitForStatusReport,
                  UpdateOnce, PrintWatching, PrintOnce, UpdateFails, UpdateReads
    <3>3. pc' \in {"start", "ready", "report", "update", "print", "done", "failed", "gaveUp"}
      BY <2>2 DEF PollerNext, PreRunCheck, WaitForRequiredResources, WaitForStatusReport,
                  UpdateOnce, PrintWatching, PrintOnce, Printed, PollGoes
    <3> QED
      BY <2>2, <3>1, <3>2, <3>3 DEF environment
  <2>3. CASE UNCHANGED <<environment, poller>>
    BY <2>3 DEF environment, poller
  <2>4. CASE UNCHANGED vars
    BY <2>4 DEF vars
  <2> QED
    BY <2>1, <2>2, <2>3, <2>4, Apart
<1> QED
  BY <1>1, <1>2, PTL DEF Spec

LEMMA DownloadTyping == Spec => []DownloadTypes
<1>1. Init => DownloadTypes
  <2>1. NoFile \in Files
    BY DEF NoFile, Files
  <2> QED
    BY <2>1 DEF Init, DownloadTypes
<1>2. DownloadTypes /\ [Next]_vars => DownloadTypes'
  <2> SUFFICES ASSUME DownloadTypes, [Next]_vars PROVE DownloadTypes'
    OBVIOUS
  <2> USE DEF DownloadTypes
  <2>1. CASE Progress \/ Destroyed
    BY <2>1 DEF Progress, Destroyed, Advance, retriever, download
  <2>2. CASE UNCHANGED <<environment, retriever>>
    BY <2>2 DEF retriever, download
  <2>3. CASE StartRetrieve \/ Killed \/ RetrieveResults
    BY <2>3 DEF StartRetrieve, Killed, RetrieveResults, AttemptFailed
  <2>4. ASSUME NEW a \in Results, CreateFile(a) \/ FillFile(a) PROVE DownloadTypes'
    BY <2>4 DEF CreateFile, FillFile, Files
  <2>5. CASE EndOfTar \/ EndOfExec \/ Wait \/ Retrieved
    BY <2>5 DEF EndOfTar, EndOfExec, Wait, AttemptFailed, Retrieved, download
  <2>6. ASSUME NEW a \in Results, Rename(a) PROVE DownloadTypes'
    BY <2>6 DEF Rename, AttemptFailed, Files
  <2>7. CASE UNCHANGED vars
    BY <2>7 DEF vars
  <2> QED
    BY <2>1, <2>2, <2>3, <2>4, <2>5, <2>6, <2>7, Apart DEF RetrieverNext
<1> QED
  BY <1>1, <1>2, PTL DEF Spec

LEMMA Counting == Spec => []CountersWithinLimits
<1>1. Init => CountersWithinLimits
  <2>1. Init => tries = 1 /\ streak = 0 /\ attempt = 1 /\ retrieves = 0
    BY DEF Init
  <2> QED
    BY <2>1, Limits DEF CountersWithinLimits
<1>2. CountersWithinLimits /\ [Next]_vars => CountersWithinLimits'
  <2> SUFFICES ASSUME CountersWithinLimits, [Next]_vars PROVE CountersWithinLimits'
    OBVIOUS
  <2> USE Limits DEF CountersWithinLimits
  <2>1. CASE Progress \/ Destroyed
    BY <2>1 DEF Progress, Destroyed, Advance, poller, retriever
  <2>2. CASE PollerNext /\ UNCHANGED <<environment, retriever>>
    <3>1. \/ tries' = tries
          \/ tries # StatusRetryLimit /\ tries' = tries + 1
          \/ tries' = 1
      BY <2>2 DEF PollerNext, PreRunCheck, WaitForRequiredResources, WaitForStatusReport,
                  UpdateOnce, PrintWatching, PrintOnce
    <3>2. UpdateFails \/ streak' = 0 \/ streak' = streak
      BY <2>2 DEF PollerNext, PreRunCheck, WaitForRequiredResources, WaitForStatusReport,
                  UpdateOnce, PrintWatching, PrintOnce, UpdateReads
    <3>3. tries' \in 1..StatusRetryLimit
      BY <3>1
    <3>4. streak' \in 0..StatusRetryLimit
      BY <3>2 DEF UpdateFails
    <3> QED
      BY <2>2, <3>3, <3>4 DEF retriever
  <2>3. CASE (RetrieverNext \/ StartRetrieve \/ Killed) /\ UNCHANGED <<environment, poller>>
    <3>1. ASSUME AttemptFailed, attempt \in 1..RetrieveLimit
          PROVE  /\ attempt' \in 1..(RetrieveLimit + 1)
                 /\ retrieve' \in {"request", "stream", "rename"} => attempt' \in 1..RetrieveLimit
      BY <3>1 DEF AttemptFailed
    <3>2. tries' = tries /\ streak' = streak
      BY <2>3 DEF poller
    <3>3. CASE StartRetrieve
      BY <3>2, <3>3 DEF StartRetrieve
    <3>4. CASE Killed
      BY <3>2, <3>4 DEF Killed
    <3>5. CASE RetrieveResults
      BY <3>1, <3>2, <3>5 DEF RetrieveResults
    <3>6. CASE EndOfTar \/ EndOfExec \/ (\E a \in Results : CreateFile(a) \/ FillFile(a))
      BY <3>2, <3>6 DEF EndOfTar, EndOfExec, CreateFile, FillFile
    <3>7. CASE Wait
      BY <3>1, <3>2, <3>7 DEF Wait
    <3>8. ASSUME NEW a \in Results, Rename(a) PROVE CountersWithinLimits'
      BY <3>1, <3>2, <3>8 DEF Rename
    <3>9. CASE Retrieved
      BY <3>2, <3>9 DEF Retrieved
    <3> QED
      BY <2>3, <3>3, <3>4, <3>5, <3>6, <3>7, <3>8, <3>9 DEF RetrieverNext
  <2>4. CASE UNCHANGED vars
    BY <2>4 DEF vars
  <2> QED
    BY <2>1, <2>2, <2>3, <2>4, Apart
<1> QED
  BY <1>1, <1>2, PTL DEF Spec

\* Every variable keeps its type; no counter of retries passes its limit.
THEOREM Typing == Spec => []TypeOK
<1>1. PollerTypes /\ DownloadTypes /\ CountersWithinLimits => TypeOK
  BY ZenonT(30) DEF PollerTypes, DownloadTypes, CountersWithinLimits, TypeOK
<1> QED
  BY <1>1, PollerTyping, DownloadTyping, Counting, PTL

-----------------------------------------------------------------------------
(* The watch.                                                              *)

\* A status read as complete is the aggregator's, now or before.
CompleteWasSeen ==
  /\ aggregator = "complete" => completed
  /\ watch /\ pc = "done" => completed

\* While it watches, the counter of retries is one ahead of the errors in a row.
RetriesAreErrors ==
  /\ pc = "update" => tries = 1
  /\ pc = "print" /\ watch => streak = tries - 1
  /\ pc = "gaveUp" => streak = StatusRetryLimit - 1

\* A watch that ends well has seen the aggregator complete (status.go: doPrint
\* returns true for CompleteStatus alone).
THEOREM WatchEnds == Spec => []WatchEndsComplete
<1>1. Init => CompleteWasSeen
  BY DEF Init, CompleteWasSeen
<1>2. CompleteWasSeen /\ [Next]_vars => CompleteWasSeen'
  <2> SUFFICES ASSUME CompleteWasSeen, [Next]_vars PROVE CompleteWasSeen'
    OBVIOUS
  <2> USE DEF CompleteWasSeen
  <2>1. CASE Progress \/ Destroyed
    <3>1. /\ watch' = watch /\ pc' = pc
          /\ completed' = (completed \/ aggregator' = "complete")
      BY <2>1 DEF Progress, Destroyed, Advance, poller
    <3> QED
      BY <3>1, Zenon
  <2>2. CASE PollerNext /\ UNCHANGED <<environment, retriever>>
    <3>1. watch' = watch /\ aggregator' = aggregator /\ completed' = completed
      BY <2>2 DEF PollerNext, PreRunCheck, WaitForRequiredResources, WaitForStatusReport,
                  UpdateOnce, PrintWatching, PrintOnce, Poll, environment
    <3>2. ASSUME watch, pc' = "done", pc # "done" PROVE aggregator = "complete"
      BY <2>2, <3>2 DEF PollerNext, PreRunCheck, WaitForRequiredResources,
                        WaitForStatusReport, UpdateOnce, PrintWatching, PrintOnce,
                        Printed, PollGoes, Complete, UpdateReads
    <3> QED
      BY <3>1, <3>2
  <2>3. CASE UNCHANGED <<environment, poller>>
    BY <2>3 DEF environment, poller
  <2>4. CASE UNCHANGED vars
    BY <2>4 DEF vars
  <2> QED
    BY <2>1, <2>2, <2>3, <2>4, Apart
<1>3. CompleteWasSeen => WatchEndsComplete
  BY DEF CompleteWasSeen, WatchEndsComplete
<1> QED
  BY <1>1, <1>2, <1>3, PTL DEF Spec

\* A watch gives up only after as many errors in a row as the limit allows
\* (status.go: tries = 1 after every read that succeeds).
THEOREM GivesUp == Spec => []GivesUpOnlyBackToBack
<1>1. Init => RetriesAreErrors
  BY DEF Init, RetriesAreErrors
<1>2. CountersWithinLimits /\ RetriesAreErrors /\ [Next]_vars => RetriesAreErrors'
  <2> SUFFICES ASSUME CountersWithinLimits, RetriesAreErrors, [Next]_vars
               PROVE  RetriesAreErrors'
    OBVIOUS
  <2>1. CASE Progress \/ Destroyed
    BY <2>1 DEF Progress, Destroyed, Advance, poller, RetriesAreErrors
  <2>2. CASE PollerNext /\ UNCHANGED <<environment, retriever>>
    <3>1. CASE PreRunCheck \/ WaitForRequiredResources \/ PrintOnce
      BY <3>1 DEF PreRunCheck, WaitForRequiredResources, PrintOnce, Printed, PollGoes, RetriesAreErrors
    <3>2. CASE WaitForStatusReport
      <4>1. \/ pc' \in {"report", "failed"}
            \/ streak' = 0 /\ tries' = 1 /\ pc' # "gaveUp"
        BY <3>2 DEF WaitForStatusReport, UpdateReads, PollGoes
      <4> QED
        BY <4>1 DEF RetriesAreErrors
    <3>3. CASE UpdateOnce
      <4>1. \/ pc' = "failed"
            \/ streak' = 0 /\ tries' = 1 /\ pc' = "print"
        BY <3>3 DEF UpdateOnce, UpdateReads, PollGoes, RetriesAreErrors
      <4> QED
        BY <4>1 DEF RetriesAreErrors
    <3>4. CASE PrintWatching
      <4>1. /\ streak = tries - 1 /\ tries \in 1..StatusRetryLimit
            /\ watch' = watch /\ pc' # "update"
        BY <3>4 DEF PrintWatching, Printed, PollGoes, Poll, RetriesAreErrors, CountersWithinLimits
      <4>2. CASE tries = StatusRetryLimit
        BY <3>4, <4>1, <4>2 DEF PrintWatching, PollGoes, RetriesAreErrors
      <4>3. CASE tries # StatusRetryLimit /\ UpdateFails /\ tries' = tries + 1 /\ UNCHANGED pc
        BY <3>4, <4>1, <4>3, Limits DEF PrintWatching, UpdateFails, RetriesAreErrors
      <4>4. CASE /\ tries # StatusRetryLimit /\ streak' = 0 /\ tries' = 1
                 /\ pc' \in {"done", "print", "failed"}
        BY <4>4 DEF RetriesAreErrors
      <4> QED
        BY <3>4, <4>2, <4>3, <4>4 DEF PrintWatching, Printed, UpdateReads, PollGoes
    <3> QED
      BY <2>2, <3>1, <3>2, <3>3, <3>4 DEF PollerNext
  <2>3. CASE UNCHANGED <<environment, poller>>
    BY <2>3 DEF poller, RetriesAreErrors
  <2>4. CASE UNCHANGED vars
    BY <2>4 DEF vars, RetriesAreErrors
  <2> QED
    BY <2>1, <2>2, <2>3, <2>4, Apart
<1>3. RetriesAreErrors => GivesUpOnlyBackToBack
  BY DEF RetriesAreErrors, GivesUpOnlyBackToBack
<1> QED
  BY <1>1, <1>2, <1>3, Counting, PTL DEF Spec

-----------------------------------------------------------------------------
(* The download.                                                           *)

\* While the goroutines run: what came is on disk, and nothing else is missing
\* from the archives of a complete aggregator; a tar that ended well filled
\* its files, and a request that ended well left nothing out.
StreamIsAccounted ==
  retrieve = "stream" =>
    /\ stream \cup toRename \in {{}, Results}
    /\ \A a \in toRename : raw[a] \in {"partial", "whole"}
    /\ untar = "ok" => toRename # {} /\ toRename \cap Unpacked = {}
    /\ exec = "ok" => untar = "ok" /\ stream = {}

\* Afterwards, each archive is whole under the one name or the other.
RenamesAreAccounted ==
  retrieve = "rename" =>
    \A a \in Results : IF a \in toRename THEN raw[a] = "whole" ELSE final[a] = "whole"

\* The inductive invariant of the downloads.
DownloadIsAccounted ==
  /\ retrieve = "request" => toRename = {}
  /\ StreamIsAccounted /\ RenamesAreAccounted
  /\ RetrievedIsComplete /\ FinalNameIsWhole

\* A step of a download that ends the attempt has no archives left to rename.
LEMMA AttemptEnds ==
  ASSUME AttemptFailed, toRename' = {}, FinalNameIsWhole, UNCHANGED final
  PROVE  DownloadIsAccounted'
BY DEF AttemptFailed, DownloadIsAccounted, StreamIsAccounted, RenamesAreAccounted,
       RetrievedIsComplete, FinalNameIsWhole

\* The goroutine that unpacks keeps the account of the stream.
LEMMA UnpackingIsAccounted ==
  ASSUME DownloadTypes, DownloadIsAccounted, NEW a \in Results, CreateFile(a) \/ FillFile(a)
  PROVE  DownloadIsAccounted'
<1>1. /\ retrieve = "stream" /\ retrieve' = "stream" /\ untar = "running"
      /\ exec' = exec /\ final' = final
  BY DEF CreateFile, FillFile
<1>2. exec # "ok" /\ StreamIsAccounted
  BY <1>1 DEF DownloadIsAccounted, StreamIsAccounted
<1>3. CASE CreateFile(a)
  <2>1. stream' \cup toRename' = stream \cup toRename
    BY <1>3 DEF CreateFile
  <2>2. \A b \in toRename' : raw'[b] \in {"partial", "whole"}
    BY <1>1, <1>2, <1>3 DEF CreateFile, StreamIsAccounted, DownloadTypes, Files
  <2>3. untar' # "ok"
    BY <1>1, <1>3 DEF CreateFile
  <2> QED
    BY <1>1, <1>2, <2>1, <2>2, <2>3
       DEF DownloadIsAccounted, StreamIsAccounted, RenamesAreAccounted, RetrievedIsComplete,
           FinalNameIsWhole
<1>4. CASE FillFile(a)
  <2>1. stream' = stream /\ toRename' = toRename
    BY <1>4 DEF FillFile
  <2>2. \A b \in toRename' : raw'[b] \in {"partial", "whole"}
    BY <1>1, <1>2, <1>4 DEF FillFile, StreamIsAccounted, DownloadTypes, Files
  <2>3. untar' # "ok"
    BY <1>1, <1>4 DEF FillFile
  <2> QED
    BY <1>1, <1>2, <2>1, <2>2, <2>3
       DEF DownloadIsAccounted, StreamIsAccounted, RenamesAreAccounted, RetrievedIsComplete,
           FinalNameIsWhole
<1> QED
  BY <1>3, <1>4

\* Only a download of which both goroutines ended well goes on to the names,
\* and then every archive has come whole.
LEMMA WaitIsAccounted ==
  ASSUME DownloadTypes, DownloadIsAccounted, Wait
  PROVE  DownloadIsAccounted'
<1>1. CASE untar = "ok" /\ exec = "ok"
  <2>1. toRename = Results /\ \A a \in toRename : raw[a] = "whole"
    BY <1>1 DEF Wait, DownloadIsAccounted, StreamIsAccounted, Unpacked, DownloadTypes
  <2>2. /\ retrieve' = "rename" /\ toRename' = toRename
        /\ raw' = raw /\ final' = final
    BY <1>1 DEF Wait
  <2> QED
    BY <2>1, <2>2 DEF DownloadIsAccounted, StreamIsAccounted, RenamesAreAccounted,
                      RetrievedIsComplete, FinalNameIsWhole
<1>2. CASE ~(untar = "ok" /\ exec = "ok")
  BY <1>2, AttemptEnds DEF Wait, DownloadIsAccounted
<1> QED
  BY <1>1, <1>2

\* A name that is given is that of a whole archive.
LEMMA RenameIsAccounted ==
  ASSUME DownloadTypes, DownloadIsAccounted, NEW a \in Results, Rename(a)
  PROVE  DownloadIsAccounted'
<1>1. CASE AttemptFailed /\ toRename' = {} /\ UNCHANGED <<raw, final>>
  BY <1>1, AttemptEnds DEF DownloadIsAccounted
<1>2. CASE /\ final' = [final EXCEPT ![a] = raw[a]] /\ raw' = [raw EXCEPT ![a] = "none"]
           /\ toRename' = toRename \ {a} /\ retrieve' = retrieve
  <2>1. retrieve = "rename" /\ raw[a] = "whole"
    BY DEF Rename, DownloadIsAccounted, RenamesAreAccounted
  <2>2. /\ final'[a] = "whole"
        /\ \A b \in Results \ {a} : final'[b] = final[b] /\ raw'[b] = raw[b]
    BY <1>2, <2>1 DEF DownloadTypes, Files
  <2> QED
    BY <1>2, <2>1, <2>2 DEF DownloadIsAccounted, StreamIsAccounted, RenamesAreAccounted,
                            RetrievedIsComplete, FinalNameIsWhole
<1> QED
  BY <1>1, <1>2 DEF Rename

\* Whatever breaks a download, and however often it is killed and repeated,
\* each archive is accounted for (retrieve.go: the list of files is empty when
\* the tar failed, and eg.Wait returns the error of the request).
THEOREM Downloads == Spec => []DownloadIsAccounted
<1>1. Init => DownloadIsAccounted
  BY DEF Init, NoFile, DownloadIsAccounted, StreamIsAccounted, RenamesAreAccounted,
         RetrievedIsComplete, FinalNameIsWhole
<1>2. DownloadTypes /\ DownloadIsAccounted /\ [Next]_vars => DownloadIsAccounted'
  <2> SUFFICES ASSUME DownloadTypes, DownloadIsAccounted, [Next]_vars
               PROVE  DownloadIsAccounted'
    OBVIOUS
  <2>1. CASE UNCHANGED retriever
    BY <2>1 DEF retriever, download, DownloadIsAccounted, StreamIsAccounted, Unpacked,
                RenamesAreAccounted, RetrievedIsComplete, FinalNameIsWhole
  <2>2. CASE StartRetrieve \/ Killed
    BY <2>2 DEF StartRetrieve, Killed, DownloadIsAccounted, StreamIsAccounted,
                RenamesAreAccounted, RetrievedIsComplete, FinalNameIsWhole
  <2>3. CASE RetrieveResults
    <3>1. toRename' = {} /\ final' = final /\ FinalNameIsWhole
      BY <2>3 DEF RetrieveResults, DownloadIsAccounted
    <3>2. CASE AttemptFailed
      BY <3>1, <3>2, AttemptEnds
    <3>3. CASE /\ retrieve' = "stream" /\ untar' = "running" /\ exec' = "running"
               /\ stream' \in {{}, Results}
      BY <3>1, <3>3 DEF DownloadIsAccounted, StreamIsAccounted, RenamesAreAccounted,
                        RetrievedIsComplete, FinalNameIsWhole
    <3> QED
      BY <2>3, <3>2, <3>3 DEF RetrieveResults
  <2>4. ASSUME NEW a \in Results, CreateFile(a) \/ FillFile(a) PROVE DownloadIsAccounted'
    BY <2>4, UnpackingIsAccounted
  <2>5. CASE EndOfTar
    BY <2>5 DEF EndOfTar, Unpacked, DownloadIsAccounted, StreamIsAccounted,
                RenamesAreAccounted, RetrievedIsComplete, FinalNameIsWhole
  <2>6. CASE EndOfExec
    BY <2>6 DEF EndOfExec, Unpacked, DownloadIsAccounted, StreamIsAccounted,
                RenamesAreAccounted, RetrievedIsComplete, FinalNameIsWhole
  <2>7. CASE Wait
    BY <2>7, WaitIsAccounted
  <2>8. ASSUME NEW a \in Results, Rename(a) PROVE DownloadIsAccounted'
    BY <2>8, RenameIsAccounted
  <2>9. CASE Retrieved
    BY <2>9 DEF Retrieved, download, DownloadIsAccounted, StreamIsAccounted,
                RenamesAreAccounted, RetrievedIsComplete, FinalNameIsWhole
  <2>10. Progress \/ Destroyed \/ UNCHANGED vars => UNCHANGED retriever
    BY DEF Progress, Destroyed, Advance, vars, retriever, download
  <2> QED
    BY <2>1, <2>2, <2>3, <2>4, <2>5, <2>6, <2>7, <2>8, <2>9, <2>10, Apart DEF RetrieverNext
<1> QED
  BY <1>1, <1>2, DownloadTyping, PTL DEF Spec

\* No file under its final name is a part of an archive.
THEOREM FinalNames == Spec => []FinalNameIsWhole
<1>1. DownloadIsAccounted => FinalNameIsWhole
  BY DEF DownloadIsAccounted
<1> QED
  BY <1>1, Downloads, PTL

\* A retrieve that reports success left every archive under its final name.
THEOREM Retrieves == Spec => []RetrievedIsComplete
<1>1. DownloadIsAccounted => RetrievedIsComplete
  BY DEF DownloadIsAccounted
<1> QED
  BY <1>1, Downloads, PTL
=============================================================================
