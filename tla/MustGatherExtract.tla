-------------------------- MODULE MustGatherExtract --------------------------
(***************************************************************************)
(* MustGather.extract and its leaky bucket: the reader walks the tarball   *)
(* and starts a goroutine per pod log; the goroutine passes a rate limiter *)
(* and a semaphore before it queues the log; one consumer parses the       *)
(* queued logs; a ticker drains the rate limiter.  A WaitGroup tells the   *)
(* reader when every log was parsed, and the caller then aggregates the    *)
(* errors found.                                                           *)
(***************************************************************************)
EXTENDS Naturals, Sequences, FiniteSets

CONSTANTS
  Logs,         \* the pod logs of the archive
  LogsInError,  \* those in which the parser finds an error
  RawFiles,     \* the files the reader keeps by itself (etcd_info, network checks)
  EventFiles,   \* the event-filter files
  Save,         \* whether the report is saved to a directory
  BufferSize,   \* defaultBufferLeakyBucket
  BucketSize    \* defaultSizeLeakyBucket

ASSUME ExtractAssumption ==
  /\ IsFiniteSet(Logs)
  /\ LogsInError \subseteq Logs
  /\ Logs \cap (RawFiles \cup EventFiles) = {} /\ RawFiles \cap EventFiles = {}
  /\ Save \in BOOLEAN
  /\ BufferSize \in Nat \ {0} /\ BucketSize \in Nat \ {0}

VARIABLES
  reader,      \* where extract is, and then its caller
  unread,      \* the files of the archive not yet reached
  stage,       \* stage[l]: how far the log l has come
  rateLimiter, \* the number of tokens in the rate limiter's channel
  holders,     \* the goroutines that hold a place of the semaphore
  queue,       \* the channel of logs to be parsed
  consumer,    \* "idle", "busy" with a log, or "counting" it as done
  waiter,      \* the counter of the WaitGroup
  queueCount,  \* the counter the progress messages show
  findings,    \* findings[l]: how often NamespaceErrors has the log l
  rawFiles,    \* the raw files kept
  counted      \* the logs whose errors the aggregated counters include

vars == <<reader, unread, stage, rateLimiter, holders, queue, consumer, waiter,
          queueCount, findings, rawFiles, counted>>
poolVars == <<rateLimiter, holders, queue, consumer>>
resultVars == <<findings, rawFiles, counted>>

InFlightStages == {"rate", "semaphore", "send", "queued", "parsing", "parsed"}
Stages == {"unread", "skipped", "done"} \cup InFlightStages

InFlight == {l \in Logs : stage[l] \in InFlightStages}

MoveTo(l, s) == stage' = [stage EXCEPT ![l] = s]

Init ==
  /\ reader = "reading"
  /\ unread = Logs \cup RawFiles \cup EventFiles
  /\ stage = [l \in Logs |-> "unread"]
  /\ rateLimiter = BufferSize
  /\ holders = {} /\ queue = <<>> /\ consumer = "idle"
  /\ waiter = 0 /\ queueCount = 0
  /\ findings = [l \in Logs |-> 0]
  /\ rawFiles = {} /\ counted = {}

-----------------------------------------------------------------------------
(* The reader: the loop of extract.                                        *)

Reach(f) ==
  /\ reader = "reading" /\ f \in unread
  /\ unread' = unread \ {f}

\* Mutant of ReadPodLog: the log is never added to the WaitGroup.
ReadPodLogUncounted(l) ==
  /\ Reach(l)
  /\ MoveTo(l, "rate")
  /\ queueCount' = queueCount + 1
  /\ UNCHANGED <<reader, waiter, poolVars, resultVars>>

\* The counters go up before the goroutine starts.
ReadPodLog(l) ==
  /\ Reach(l)
  /\ MoveTo(l, "rate")
  /\ waiter' = waiter + 1 /\ queueCount' = queueCount + 1
  /\ UNCHANGED <<reader, poolVars, resultVars>>

\* A log that cannot be copied is logged and left out.
SkipPodLog(l) ==
  /\ Reach(l)
  /\ MoveTo(l, "skipped")
  /\ UNCHANGED <<reader, waiter, queueCount, poolVars, resultVars>>

\* A raw file is kept, or left out when it cannot be copied or parsed.
ReadRawFile(f) ==
  /\ Reach(f)
  /\ rawFiles' \in {rawFiles, rawFiles \cup {f}}
  /\ UNCHANGED <<reader, stage, waiter, queueCount, poolVars, findings, counted>>

\* The event file is written only when saving, and an error in that ends extract.
ReadEvents(f) ==
  /\ Reach(f)
  /\ reader' \in {"reading"} \cup {r \in {"failed"} : Save}
  /\ UNCHANGED <<stage, waiter, queueCount, poolVars, resultVars>>

\* An error reading the tarball ends extract at once, whatever is in flight.
ReadFails ==
  /\ reader = "reading"
  /\ reader' = "failed"
  /\ UNCHANGED <<unread, stage, waiter, queueCount, poolVars, resultVars>>

EndOfArchive ==
  /\ reader = "reading" /\ unread = {}
  /\ reader' = "waiting"
  /\ UNCHANGED <<unread, stage, waiter, queueCount, poolVars, resultVars>>

\* Mutant of WaitForLogs: it waits for the queue to drain.
WaitForQueue ==
  /\ reader = "waiting" /\ queue = <<>>
  /\ reader' = "finished"
  /\ UNCHANGED <<unread, stage, waiter, queueCount, poolVars, resultVars>>

\* waiter.Wait() returns, and activeReading becomes false.
WaitForLogs ==
  /\ reader = "waiting" /\ waiter = 0
  /\ reader' = "finished"
  /\ UNCHANGED <<unread, stage, waiter, queueCount, poolVars, resultVars>>

\* The caller aggregates only after extract returned without an error.
AggregateCounters ==
  /\ reader = "finished"
  /\ reader' = "aggregated"
  /\ counted' = {l \in Logs : findings[l] > 0}
  /\ UNCHANGED <<unread, stage, waiter, queueCount, poolVars, findings, rawFiles>>

-----------------------------------------------------------------------------
(* The goroutine of one log: AppendQueue.                                  *)

PassRateLimiter(l) ==
  /\ stage[l] = "rate" /\ rateLimiter < BufferSize
  /\ rateLimiter' = rateLimiter + 1
  /\ MoveTo(l, "semaphore")
  /\ UNCHANGED <<reader, unread, holders, queue, consumer, waiter, queueCount, resultVars>>

AcquireSemaphore(l) ==
  /\ stage[l] = "semaphore" /\ Cardinality(holders) < BufferSize
  /\ holders' = holders \cup {l}
  /\ MoveTo(l, "send")
  /\ UNCHANGED <<reader, unread, rateLimiter, queue, consumer, waiter, queueCount, resultVars>>

SendToQueue(l) ==
  /\ stage[l] = "send" /\ Len(queue) < BucketSize
  /\ queue' = Append(queue, l)
  /\ MoveTo(l, "queued")
  /\ UNCHANGED <<reader, unread, rateLimiter, holders, consumer, waiter, queueCount, resultVars>>

\* Mutant of ReleaseSemaphore: the deferred receive is missing.
ReleaseNothing(l) ==
  /\ l \in holders /\ stage[l] # "send"
  /\ UNCHANGED vars

\* The deferred receive, at any time after the send; the log has moved on by then.
ReleaseSemaphore(l) ==
  /\ l \in holders /\ stage[l] # "send"
  /\ holders' = holders \ {l}
  /\ UNCHANGED <<reader, unread, stage, rateLimiter, queue, consumer, waiter, queueCount,
                 resultVars>>

-----------------------------------------------------------------------------
(* The other goroutines of the bucket: they are never stopped.             *)

\* The ticker takes a token, as long as there is one.
Leak ==
  /\ rateLimiter > 0
  /\ rateLimiter' = rateLimiter - 1
  /\ UNCHANGED <<reader, unread, stage, holders, queue, consumer, waiter, queueCount,
                 resultVars>>

TakeFromQueue ==
  /\ consumer = "idle" /\ queue # <<>>
  /\ consumer' = "busy"
  /\ MoveTo(Head(queue), "parsing")
  /\ queue' = Tail(queue)
  /\ UNCHANGED <<reader, unread, rateLimiter, holders, waiter, queueCount, resultVars>>

\* processNamespaceErrors: a log without errors is not kept.
ProcessNamespaceErrors(l) ==
  /\ stage[l] = "parsing"
  /\ MoveTo(l, "parsed")
  /\ findings' = IF l \in LogsInError THEN [findings EXCEPT ![l] = @ + 1] ELSE findings
  /\ UNCHANGED <<reader, unread, poolVars, waiter, queueCount, rawFiles, counted>>

\* Mutant of MarkDone: the consumer stops at a log without errors.
MarkDoneInError(l) ==
  /\ stage[l] = "parsed" /\ l \in LogsInError
  /\ MoveTo(l, "done")
  /\ waiter' = waiter - 1 /\ consumer' = "counting"
  /\ UNCHANGED <<reader, unread, rateLimiter, holders, queue, queueCount, resultVars>>

\* decrement: the WaitGroup first, the counter of the messages after it.
MarkDone(l) ==
  /\ stage[l] = "parsed"
  /\ MoveTo(l, "done")
  /\ waiter' = waiter - 1 /\ consumer' = "counting"
  /\ UNCHANGED <<reader, unread, rateLimiter, holders, queue, queueCount, resultVars>>

DecrementCount ==
  /\ consumer = "counting"
  /\ consumer' = "idle" /\ queueCount' = queueCount - 1
  /\ UNCHANGED <<reader, unread, stage, rateLimiter, holders, queue, waiter, resultVars>>

ReaderNext ==
  \/ \E l \in Logs : ReadPodLog(l) \/ SkipPodLog(l)
  \/ \E f \in RawFiles : ReadRawFile(f)
  \/ \E f \in EventFiles : ReadEvents(f)
  \/ ReadFails \/ EndOfArchive \/ WaitForLogs \/ AggregateCounters

SenderNext(l) ==
  \/ PassRateLimiter(l) \/ AcquireSemaphore(l) \/ SendToQueue(l) \/ ReleaseSemaphore(l)

ConsumerNext ==
  \/ TakeFromQueue \/ DecrementCount
  \/ \E l \in Logs : ProcessNamespaceErrors(l) \/ MarkDone(l)

Next ==
  \/ ReaderNext
  \/ \E l \in Logs : SenderNext(l)
  \/ ConsumerNext
  \/ Leak

\* The Go scheduler runs every goroutine that is not blocked, and the ticker ticks.
Fairness ==
  /\ WF_vars(ReaderNext) /\ WF_vars(ConsumerNext) /\ WF_vars(Leak)
  /\ \A l \in Logs : WF_vars(SenderNext(l))

Spec == Init /\ [][Next]_vars
FairSpec == Spec /\ Fairness

-----------------------------------------------------------------------------
(* Properties.                                                             *)

\* Types of the variables.
TypeOK ==
  /\ reader \in {"reading", "waiting", "finished", "aggregated", "failed"}
  /\ unread \subseteq Logs \cup RawFiles \cup EventFiles
  /\ stage \in [Logs -> Stages]
  /\ rateLimiter \in 0..BufferSize
  /\ holders \subseteq Logs
  /\ queue \in Seq(Logs)
  /\ consumer \in {"idle", "busy", "counting"}
  /\ waiter \in Nat
  /\ queueCount \in Nat
  /\ findings \in [Logs -> Nat]
  /\ rawFiles \subseteq RawFiles
  /\ counted \subseteq Logs

\* When extract returns without an error, every log it took from the archive
\* was parsed to the end, the logs in error were recorded once and no other
\* was (log.go: Add before the goroutine, Done after the parser).
ReturnsWithEveryLogParsed ==
  reader \in {"finished", "aggregated"} =>
    \A l \in Logs :
      /\ stage[l] \in {"skipped", "done"}
      /\ findings[l] = IF stage[l] = "done" /\ l \in LogsInError THEN 1 ELSE 0

\* The counters aggregated after the call include each log in error, and the
\* list they were computed from does not change any more (mustgather.go:
\* NamespaceErrors is read without its lock once extract returned).
AggregatesStableFindings ==
  [][(reader \in {"finished", "aggregated"}) => UNCHANGED findings]_vars

\* The reader never waits for good: neither the semaphore, nor the rate
\* limiter, nor a full queue keeps a log from being parsed.
ExtractReturns == <>(reader \in {"aggregated", "failed"})

\* The goroutines together do what LogBatch promises.
Batch == INSTANCE LogBatch WITH
  unread  <- unread \cap Logs,
  pending <- {l \in Logs : stage[l] \in InFlightStages \ {"parsed"}},
  parsed  <- {l \in Logs : stage[l] \in {"parsed", "done"}},
  outcome <- CASE reader \in {"finished", "aggregated"} -> "success"
               [] reader = "failed" -> "error"
               [] OTHER -> "running"

ImplementsLogBatch == Batch!Spec
=============================================================================
