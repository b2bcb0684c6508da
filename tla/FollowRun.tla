------------------------------ MODULE FollowRun ------------------------------
(***************************************************************************)
(* The commands that follow a validation from outside the cluster: `opct   *)
(* status` and the end of `opct run` poll the status of the aggregator,    *)
(* and `opct retrieve` downloads its archives and gives them their final   *)
(* names.  The aggregator runs by itself, and the environment may be       *)
(* destroyed under them.                                                   *)
(***************************************************************************)
EXTENDS Naturals, FiniteSets

CONSTANTS
  Results,           \* the archives the aggregator ends with
  StatusRetryLimit,  \* tries of the status, 10 in the code
  RetrieveLimit,     \* attempts to retrieve, 10 in the code
  MaxRetrieves       \* bound: how often retrieve is started

ASSUME FollowAssumption == /\ IsFiniteSet(Results) /\ Results # {}
                           /\ StatusRetryLimit \in Nat \ {0}
                           /\ RetrieveLimit \in Nat \ {0} /\ MaxRetrieves \in Nat

VARIABLES
  aggregator,  \* the aggregator, from its pod to the end of the environment
  completed,   \* history: it has completed
  command,     \* what polls: "status" or "run"
  watch,       \* whether it has --watch
  pc,          \* its next step
  tries,       \* the counter of its retries
  latest,      \* the status it read last
  streak,      \* history: the reads that failed since one did not, up to the limit
  retrieve,    \* the next step of `retrieve`
  attempt,     \* the attempt it is at
  stream,      \* the archives still to come in this attempt
  untar,       \* how the goroutine that unpacks the stream is doing
  exec,        \* how the request behind the stream is doing
  toRename,    \* the files that are to get their final name
  raw,         \* raw[a]: the file under the aggregator's name for a
  final,       \* final[a]: the file under its opct_ name
  retrieves    \* bounded: how often retrieve was started

poller == <<command, watch, pc, tries, latest, streak>>
download == <<stream, untar, exec, toRename>>
retriever == <<retrieve, attempt, download, raw, final, retrieves>>
environment == <<aggregator, completed>>
vars == <<aggregator, completed, command, watch, pc, tries, latest, streak, retrieve,
          attempt, stream, untar, exec, toRename, raw, final, retrieves>>

Statuses == {"running", "post-processing", "complete"}
NoFile == [a \in Results |-> "none"]

Init ==
  /\ aggregator \in {"none", "pending", "running"} /\ completed = FALSE
  /\ command \in {"status", "run"} /\ watch \in BOOLEAN
  /\ pc = IF command = "status" THEN "start" ELSE "ready"
  /\ tries = 1 /\ latest = "" /\ streak = 0
  /\ retrieve = "idle" /\ attempt = 1 /\ retrieves = 0
  /\ stream = {} /\ untar = "none" /\ exec = "none" /\ toRename = {}
  /\ raw = NoFile /\ final = NoFile

-----------------------------------------------------------------------------
(* The aggregator: Sonobuoy, and whoever destroys the environment.         *)

Advance(from, to) ==
  /\ aggregator = from /\ aggregator' = to
  /\ completed' = (completed \/ to = "complete")
  /\ UNCHANGED <<poller, retriever>>

Progress == \/ Advance("pending", "started")          \* ready, without a status yet
            \/ Advance("started", "running")
            \/ Advance("running", "post-processing")
            \/ Advance("post-processing", "complete")

Destroyed == aggregator # "gone" /\ Advance(aggregator, "gone")

NamespaceFound == aggregator \notin {"none", "gone"}
PodReady == aggregator \in {"started"} \cup Statuses

-----------------------------------------------------------------------------
(* The status.                                                             *)

Poll == UNCHANGED <<environment, retriever, command, watch>>
PollGoes(step) == pc' = step

\* Only an answer that the namespace is not there ends the command: any other
\* error of the request is ignored.
PreRunCheck ==
  /\ pc = "start"
  /\ \/ PollGoes("ready")
     \/ ~NamespaceFound /\ PollGoes("failed")
  /\ Poll /\ UNCHANGED <<tries, latest, streak>>

\* The pod becomes ready, or it is deleted, an error comes or ten minutes pass.
WaitForRequiredResources ==
  /\ pc = "ready"
  /\ \/ PodReady /\ PollGoes("report")
     \/ PollGoes("failed")
  /\ Poll /\ UNCHANGED <<tries, latest, streak>>

UpdateFails ==
  /\ streak' = IF streak < StatusRetryLimit THEN streak + 1 ELSE streak
  /\ UNCHANGED latest
UpdateReads(s) ==
  /\ s = IF aggregator = "started" THEN "" ELSE aggregator
  /\ s \in Statuses \cup {""}
  /\ latest' = s /\ streak' = 0

\* Tries that read nothing or an empty status are counted; the counter of the
\* watch is another one, and starts again.
WaitForStatusReport ==
  /\ pc = "report"
  /\ \/ /\ tries = StatusRetryLimit
        /\ PollGoes("failed") /\ UNCHANGED <<tries, latest, streak>>
     \/ /\ tries # StatusRetryLimit
        /\ \/ (UpdateFails \/ UpdateReads("")) /\ tries' = tries + 1 /\ UNCHANGED pc
           \/ /\ \E s \in Statuses : UpdateReads(s)
              /\ tries' = 1
              /\ PollGoes(IF command = "run" THEN "update" ELSE "print")
  /\ Poll

\* `run` reads the status once more before it prints it.
UpdateOnce ==
  /\ pc = "update"
  /\ \/ UpdateFails /\ PollGoes("failed")
     \/ \E s \in Statuses \cup {""} : UpdateReads(s) /\ PollGoes("print")
  /\ Poll /\ UNCHANGED tries

\* Mutant of Complete: the aggregator's post-processing is taken for its end.
CompleteOrNearly(s) == s \in {"post-processing", "complete"}

\* Whether doPrint ends the watch.
Complete(s) == s = "complete"

\* What follows doPrint: the table may fail to be printed, in every status that
\* has one.
Printed(s, next) == PollGoes(next) \/ (s \in Statuses /\ PollGoes("failed"))

\* Mutant of PrintWatching: the counter is not reset when the status is read.
PrintWatchingNoReset ==
  /\ pc = "print" /\ watch
  /\ \/ /\ tries = StatusRetryLimit
        /\ PollGoes("gaveUp") /\ UNCHANGED <<tries, latest, streak>>
     \/ /\ tries # StatusRetryLimit
        /\ \/ UpdateFails /\ tries' = tries + 1 /\ UNCHANGED pc
           \/ \E s \in Statuses \cup {""} :
                /\ UpdateReads(s) /\ UNCHANGED tries
                /\ Printed(s, IF Complete(s) THEN "done" ELSE "print")
  /\ Poll

\* Mutant of PrintWatching: a read that fails is not counted.
PrintWatchingUncounted ==
  /\ pc = "print" /\ watch
  /\ \/ UpdateFails /\ UNCHANGED <<tries, pc>>
     \/ \E s \in Statuses \cup {""} :
          /\ UpdateReads(s) /\ tries' = 1
          /\ Printed(s, IF Complete(s) THEN "done" ELSE "print")
  /\ Poll

PrintWatching ==
  /\ pc = "print" /\ watch
  /\ \/ /\ tries = StatusRetryLimit
        /\ PollGoes("gaveUp") /\ UNCHANGED <<tries, latest, streak>>
     \/ /\ tries # StatusRetryLimit
        /\ \/ UpdateFails /\ tries' = tries + 1 /\ UNCHANGED pc
           \/ \E s \in Statuses \cup {""} :
                /\ UpdateReads(s) /\ tries' = 1
                /\ Printed(s, IF Complete(s) THEN "done" ELSE "print")
  /\ Poll

PrintOnce ==
  /\ pc = "print" /\ ~watch
  /\ Printed(latest, "done")
  /\ Poll /\ UNCHANGED <<tries, latest, streak>>

PollerNext == \/ PreRunCheck \/ WaitForRequiredResources \/ WaitForStatusReport
              \/ UpdateOnce \/ PrintWatching \/ PrintOnce

-----------------------------------------------------------------------------
(* The results.                                                            *)

Retrieve == UNCHANGED <<environment, poller>>

StartRetrieve ==
  /\ retrieve \in {"idle", "done", "failed", "killed"} /\ retrieves < MaxRetrieves
  /\ retrieves' = retrieves + 1
  /\ \/ retrieve' = "request"
     \/ ~NamespaceFound /\ retrieve' = "failed"
  /\ attempt' = 1 /\ toRename' = {}
  /\ Retrieve /\ UNCHANGED <<stream, untar, exec, raw, final>>

\* Mutant of AttemptFailed: the attempt is not counted.
AttemptRepeated == retrieve' = "request" /\ UNCHANGED attempt

\* Mutant of AttemptFailed: one attempt too many.
AttemptFailedLate ==
  /\ attempt' = attempt + 1
  /\ retrieve' = IF attempt <= RetrieveLimit THEN "request" ELSE "failed"

\* Ten attempts with a pause between them.
AttemptFailed ==
  /\ attempt' = attempt + 1
  /\ retrieve' = IF attempt < RetrieveLimit THEN "request" ELSE "failed"

\* The request starts the stream of the archives the aggregator has.
RetrieveResults ==
  /\ retrieve = "request"
  /\ \/ AttemptFailed /\ UNCHANGED <<stream, untar, exec>>
     \/ /\ aggregator \in {"started"} \cup Statuses
        /\ stream' = IF aggregator = "complete" THEN Results ELSE {}
        /\ untar' = "running" /\ exec' = "running" /\ retrieve' = "stream"
        /\ UNCHANGED attempt
  /\ Retrieve /\ UNCHANGED <<toRename, raw, final, retrieves>>

Unpacked == {a \in Results : raw[a] = "partial"}

\* UntarAll: each file is created, which empties one of an earlier attempt, and
\* then filled.  It ends with an error when the stream does so in the middle of
\* a file ("cut") and when the directory takes no more ("local").
CreateFile(a) ==
  /\ retrieve = "stream" /\ untar = "running" /\ toRename \cap Unpacked = {} /\ a \in stream
  /\ \/ /\ raw' = [raw EXCEPT ![a] = "partial"]
        /\ toRename' = toRename \cup {a} /\ stream' = stream \ {a} /\ UNCHANGED untar
     \/ untar' = "local" /\ UNCHANGED <<raw, toRename, stream>>
  /\ Retrieve /\ UNCHANGED <<retrieve, attempt, exec, final, retrieves>>

FillFile(a) ==
  /\ retrieve = "stream" /\ untar = "running" /\ a \in toRename \cap Unpacked
  /\ \/ raw' = [raw EXCEPT ![a] = "whole"] /\ UNCHANGED untar
     \/ untar' \in {"cut", "local"} /\ UNCHANGED raw
  /\ Retrieve /\ UNCHANGED <<retrieve, attempt, stream, exec, toRename, final, retrieves>>

\* The tar ends between two files; a tar without a file is an error.
EndOfTar ==
  /\ retrieve = "stream" /\ untar = "running" /\ toRename \cap Unpacked = {}
  /\ untar' = IF toRename = {} THEN "cut" ELSE "ok"
  /\ Retrieve /\ UNCHANGED <<retrieve, attempt, stream, exec, toRename, raw, final, retrieves>>

\* The request ends when the tar did, in an error if it was cut.  After a failure
\* of the directory nobody reads the pipe the request writes to, nor closes it:
\* the request is stuck in its next write, or was lost before it.
EndOfExec ==
  /\ retrieve = "stream" /\ exec = "running" /\ untar # "running"
  /\ \/ exec' = "error"
     \/ stream = {} /\ untar = "ok" /\ exec' = "ok"
     \/ untar = "local" /\ exec' = "blocked"
  /\ Retrieve /\ UNCHANGED <<retrieve, attempt, stream, untar, toRename, raw, final, retrieves>>

\* Mutant of Wait: the error of the request is not waited for.
WaitForTar ==
  /\ retrieve = "stream" /\ untar # "running"
  /\ IF untar = "ok"
     THEN retrieve' = "rename" /\ UNCHANGED <<attempt, toRename>>
     ELSE AttemptFailed /\ toRename' = {}
  /\ Retrieve /\ UNCHANGED <<stream, untar, exec, raw, final, retrieves>>

\* Mutant of Wait: the errors of both goroutines are dropped.
WaitOnly ==
  /\ retrieve = "stream" /\ untar # "running" /\ exec \in {"ok", "error"}
  /\ retrieve' = "rename"
  /\ Retrieve /\ UNCHANGED <<attempt, download, raw, final, retrieves>>

\* The group of goroutines, which waits for both; gc reads the list of files after the call of Wait in
\* `return results, eg.Wait()`.  The list is empty when the tar had an error.
Wait ==
  /\ retrieve = "stream" /\ untar # "running" /\ exec \in {"ok", "error"}
  /\ IF untar = "ok" /\ exec = "ok"
     THEN retrieve' = "rename" /\ UNCHANGED <<attempt, toRename>>
     ELSE AttemptFailed /\ toRename' = {}
  /\ Retrieve /\ UNCHANGED <<stream, untar, exec, raw, final, retrieves>>

\* The files get their final names, one after another; an error ends the
\* attempt, and the next one downloads everything again.
Rename(a) ==
  /\ retrieve = "rename" /\ a \in toRename
  /\ \/ /\ final' = [final EXCEPT ![a] = raw[a]] /\ raw' = [raw EXCEPT ![a] = "none"]
        /\ toRename' = toRename \ {a}
        /\ UNCHANGED <<retrieve, attempt>>
     \/ AttemptFailed /\ toRename' = {} /\ UNCHANGED <<raw, final>>
  /\ Retrieve /\ UNCHANGED <<stream, untar, exec, retrieves>>

Retrieved ==
  /\ retrieve = "rename" /\ toRename = {}
  /\ retrieve' = "done"
  /\ Retrieve /\ UNCHANGED <<attempt, download, raw, final, retrieves>>

\* The command is killed, with its goroutines.
Killed ==
  /\ retrieve \in {"request", "stream", "rename"}
  /\ retrieve' = "killed" /\ toRename' = {} /\ stream' = {}
  /\ untar' = "none" /\ exec' = "none"
  /\ Retrieve /\ UNCHANGED <<attempt, raw, final, retrieves>>

RetrieverNext ==
  \/ RetrieveResults \/ EndOfTar \/ EndOfExec \/ Wait \/ Retrieved
  \/ \E a \in Results : CreateFile(a) \/ FillFile(a) \/ Rename(a)

Next == Progress \/ Destroyed \/ PollerNext \/ RetrieverNext \/ StartRetrieve \/ Killed

Spec == Init /\ [][Next]_vars

\* The aggregator ends by its own timeout; the polls and the goroutines of a
\* command that is not killed go on; nobody has to retrieve.
FairSpec == Spec /\ WF_vars(Progress) /\ WF_vars(PollerNext) /\ WF_vars(RetrieverNext)

-----------------------------------------------------------------------------
(* Properties.                                                             *)

Files == [Results -> {"none", "partial", "whole"}]

\* Types of the variables.
TypeOK ==
  /\ aggregator \in {"none", "pending", "started", "gone"} \cup Statuses
  /\ completed \in BOOLEAN /\ watch \in BOOLEAN /\ command \in {"status", "run"}
  /\ pc \in {"start", "ready", "report", "update", "print", "done", "failed", "gaveUp"}
  /\ tries \in 1..StatusRetryLimit /\ streak \in 0..StatusRetryLimit
  /\ latest \in Statuses \cup {""}
  /\ retrieve \in {"idle", "request", "stream", "rename", "done", "failed", "killed"}
  /\ attempt \in 1..(RetrieveLimit + 1) /\ retrieves \in 0..MaxRetrieves
  /\ stream \subseteq Results /\ toRename \subseteq Results
  /\ untar \in {"none", "running", "ok", "cut", "local"}
  /\ exec \in {"none", "running", "ok", "error", "blocked"}
  /\ raw \in Files /\ final \in Files

\* A watch that ends well has seen the aggregator complete, through errors and
\* the states that come before (Print and doPrint, status.go:144).
WatchEndsComplete == watch /\ pc = "done" => completed

\* The watch gives up only when as many reads as the limit allows failed one
\* after another ("we hit back-to-back errors too many times", status.go:153).
GivesUpOnlyBackToBack == pc = "gaveUp" => streak = StatusRetryLimit - 1

\* No file under its final name is a part of an archive, whatever broke the
\* stream, and however often the command was killed and repeated.
FinalNameIsWhole == \A a \in Results : final[a] \in {"none", "whole"}

\* When `retrieve` reports success, every archive of the aggregator is there.
RetrievedIsComplete == retrieve = "done" => \A a \in Results : final[a] = "whole"

\* The command that follows the validation ends, one way or another.
PollerEnds == <>(pc \in {"done", "failed", "gaveUp"})

\* A request for the results leads to an end of the command, through at most so
\* many attempts, or to the one state in which it hangs: its request is stuck
\* behind a download that the directory failed.
RetrieveEnds ==
  retrieve = "request" ~> retrieve \in {"done", "failed", "killed"} \/ exec = "blocked"
=============================================================================
