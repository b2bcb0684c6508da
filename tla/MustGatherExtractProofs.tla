----------------------- MODULE MustGatherExtractProofs -----------------------
(***************************************************************************)
(* For any number of logs and any size of the buffers: extract returns     *)
(* without an error only when every log it took was parsed, the errors     *)
(* aggregated after it do not change any more, and no step of the          *)
(* goroutines is one that LogBatch does not allow.                         *)
(***************************************************************************)
EXTENDS MustGatherExtract, FiniteSetTheorems, SequenceTheorems, TLAPS

-----------------------------------------------------------------------------
(* Types.                                                                  *)

\* The types of what the goroutines share, but for the two counters of logs.
SharedTypes ==
  /\ reader \in {"reading", "waiting", "finished", "aggregated", "failed"}
  /\ unread \subseteq Logs \cup RawFiles \cup EventFiles
  /\ stage \in [Logs -> Stages]
  /\ holders \subseteq Logs
  /\ queue \in Seq(Logs)
  /\ consumer \in {"idle", "busy", "counting"}
  /\ findings \in [Logs -> Nat]
  /\ rawFiles \subseteq RawFiles /\ counted \subseteq Logs

TokensWithinBuffer == rateLimiter \in 0..BufferSize

LEMMA SharedTyping == Spec => []SharedTypes
<1>1. Init => SharedTypes
  BY EmptySeq DEF Init, SharedTypes, Stages
<1>2. SharedTypes /\ [Next]_vars => SharedTypes'
  <2> SUFFICES ASSUME SharedTypes, [Next]_vars PROVE SharedTypes'
    OBVIOUS
  <2> USE DEF SharedTypes, Stages, InFlightStages
  <2>1. ASSUME NEW l \in Logs, ReadPodLog(l) \/ SkipPodLog(l) PROVE SharedTypes'
    BY <2>1 DEF ReadPodLog, SkipPodLog, Reach, MoveTo, poolVars, resultVars
  <2>2. ASSUME NEW f, ReadRawFile(f), f \in RawFiles PROVE SharedTypes'
    BY <2>2 DEF ReadRawFile, Reach, poolVars
  <2>3. ASSUME NEW f \in EventFiles, ReadEvents(f) PROVE SharedTypes'
    BY <2>3 DEF ReadEvents, Reach, poolVars, resultVars
  <2>4. CASE ReadFails \/ EndOfArchive \/ WaitForLogs
    BY <2>4 DEF ReadFails, EndOfArchive, WaitForLogs, poolVars, resultVars
  <2>5. CASE AggregateCounters
    BY <2>5 DEF AggregateCounters, poolVars
  <2>6. ASSUME NEW l \in Logs, PassRateLimiter(l) \/ AcquireSemaphore(l) PROVE SharedTypes'
    BY <2>6 DEF PassRateLimiter, AcquireSemaphore, MoveTo, resultVars
  <2>7. ASSUME NEW l \in Logs, SendToQueue(l) PROVE SharedTypes'
    BY <2>7 DEF SendToQueue, MoveTo, resultVars
  <2>8. ASSUME NEW l \in Logs, ReleaseSemaphore(l) PROVE SharedTypes'
    BY <2>8 DEF ReleaseSemaphore, resultVars
  <2>9. CASE Leak
    BY <2>9 DEF Leak, resultVars
  <2>10. CASE TakeFromQueue
    <3>1. Tail(queue) \in Seq(Logs)
      BY <2>10, HeadTailProperties DEF TakeFromQueue
    <3> QED
      BY <2>10, <3>1 DEF TakeFromQueue, MoveTo, resultVars
  <2>11. ASSUME NEW l \in Logs, ProcessNamespaceErrors(l) PROVE SharedTypes'
    BY <2>11 DEF ProcessNamespaceErrors, MoveTo, poolVars
  <2>12. ASSUME NEW l \in Logs, MarkDone(l) PROVE SharedTypes'
    BY <2>12 DEF MarkDone, MoveTo, resultVars
  <2>13. CASE DecrementCount
    BY <2>13 DEF DecrementCount, resultVars
  <2>14. CASE UNCHANGED vars
    BY <2>14 DEF vars
  <2> QED
    BY <2>1, <2>2, <2>3, <2>4, <2>5, <2>6, <2>7, <2>8, <2>9, <2>10, <2>11, <2>12, <2>13, <2>14
       DEF Next, ReaderNext, SenderNext, ConsumerNext
<1> QED
  BY <1>1, <1>2, PTL DEF Spec

LEMMA TokenTyping == Spec => []TokensWithinBuffer
<1>1. BufferSize \in Nat
  BY ExtractAssumption DEF ExtractAssumption
<1>2. Init => TokensWithinBuffer
  BY <1>1 DEF Init, TokensWithinBuffer
<1>3. ASSUME TokensWithinBuffer, [Next]_vars PROVE TokensWithinBuffer'
  <2>1. \/ rateLimiter' = rateLimiter
        \/ rateLimiter < BufferSize /\ rateLimiter' = rateLimiter + 1
        \/ rateLimiter > 0 /\ rateLimiter' = rateLimiter - 1
    BY <1>3 DEF Next, ReaderNext, ReadPodLog, SkipPodLog, ReadRawFile, ReadEvents, ReadFails,
                EndOfArchive, WaitForLogs, AggregateCounters, SenderNext, PassRateLimiter,
                AcquireSemaphore, SendToQueue, ReleaseSemaphore, Leak, ConsumerNext,
                TakeFromQueue, ProcessNamespaceErrors, MarkDone, DecrementCount, poolVars, vars
  <2> QED
    BY <1>1, <1>3, <2>1 DEF TokensWithinBuffer
<1> QED
  BY <1>2, <1>3, PTL DEF Spec

-----------------------------------------------------------------------------
(* The way of a log.                                                       *)

\* The queue holds each of its logs once, and these wait for the consumer.
QueueHoldsQueued ==
  /\ \A i \in 1..Len(queue) : stage[queue[i]] = "queued"
  /\ \A i, j \in 1..Len(queue) : queue[i] = queue[j] => i = j

\* A log is read from the archive once.
ReadOnce == \A l \in Logs : l \in unread <=> stage[l] = "unread"

\* The steps that move a log.
Moves(l) ==
  \/ ReadPodLog(l) \/ SkipPodLog(l) \/ PassRateLimiter(l) \/ AcquireSemaphore(l)
  \/ SendToQueue(l) \/ ProcessNamespaceErrors(l) \/ MarkDone(l)

\* Any other step, but that of the consumer that takes one, leaves all logs
\* where they are.
LEMMA OtherSteps ==
  ASSUME [Next]_vars
  PROVE  \/ \E l \in Logs : Moves(l)
         \/ TakeFromQueue
         \/ UNCHANGED <<stage, queue, findings, waiter>> /\ unread' \cap Logs = unread \cap Logs
<1>1. ASSUME NEW f \in RawFiles \cup EventFiles, ReadRawFile(f) \/ ReadEvents(f)
      PROVE  /\ UNCHANGED <<stage, queue, findings, waiter>>
             /\ unread' \cap Logs = unread \cap Logs
  <2>1. f \notin Logs
    BY ExtractAssumption DEF ExtractAssumption
  <2> QED
    BY <1>1, <2>1 DEF ReadRawFile, ReadEvents, Reach, poolVars, resultVars
<1>2. \/ ReadFails \/ EndOfArchive \/ WaitForLogs \/ AggregateCounters \/ Leak
      \/ DecrementCount \/ (\E l \in Logs : ReleaseSemaphore(l)) \/ UNCHANGED vars
      => UNCHANGED <<stage, queue, findings, waiter, unread>>
  BY DEF ReadFails, EndOfArchive, WaitForLogs, AggregateCounters, Leak, DecrementCount,
         ReleaseSemaphore, poolVars, resultVars, vars
<1> QED
  BY <1>1, <1>2 DEF Next, ReaderNext, SenderNext, ConsumerNext, Moves

LEMMA TakesQueued ==
  ASSUME SharedTypes, QueueHoldsQueued, TakeFromQueue
  PROVE  Head(queue) \in Logs /\ stage[Head(queue)] = "queued"
<1>1. queue # <<>> /\ queue \in Seq(Logs)
  BY DEF TakeFromQueue, SharedTypes
<1>2. Head(queue) = queue[1] /\ 1 \in 1..Len(queue)
  BY <1>1, EmptySeq
<1> QED
  BY <1>1, <1>2, HeadTailProperties DEF QueueHoldsQueued

\* Every log is taken from the archive once, and queued once.
THEOREM Queueing == Spec => [](QueueHoldsQueued /\ ReadOnce)
<1>1. Init => QueueHoldsQueued /\ ReadOnce
  BY DEF Init, QueueHoldsQueued, ReadOnce
<1>2. ASSUME SharedTypes, QueueHoldsQueued, ReadOnce, [Next]_vars
      PROVE  QueueHoldsQueued' /\ ReadOnce'
  <2>1. ASSUME NEW l \in Logs, Moves(l), ~SendToQueue(l)
        PROVE  QueueHoldsQueued' /\ ReadOnce'
    <3>1. /\ queue' = queue /\ stage[l] # "queued"
          /\ \E s \in Stages \ {"unread"} : stage' = [stage EXCEPT ![l] = s]
          /\ unread' = unread \ {l} \/ (unread' = unread /\ stage[l] # "unread")
      <4> USE DEF Stages, InFlightStages, MoveTo
      <4>1. CASE ReadPodLog(l) \/ SkipPodLog(l)
        <5>1. l \in unread /\ unread' = unread \ {l} /\ queue' = queue
          BY <4>1 DEF ReadPodLog, SkipPodLog, Reach, poolVars
        <5>2. stage[l] = "unread"
          BY <1>2, <5>1 DEF ReadOnce
        <5>3. \E s \in Stages \ {"unread"} : stage' = [stage EXCEPT ![l] = s]
          BY <4>1 DEF ReadPodLog, SkipPodLog
        <5> QED
          BY <5>1, <5>2, <5>3
      <4>2. CASE PassRateLimiter(l) \/ AcquireSemaphore(l)
        BY <4>2 DEF PassRateLimiter, AcquireSemaphore
      <4>3. CASE ProcessNamespaceErrors(l) \/ MarkDone(l)
        BY <4>3 DEF ProcessNamespaceErrors, MarkDone, poolVars
      <4> QED
        BY <2>1, <4>1, <4>2, <4>3 DEF Moves
    <3>2. QueueHoldsQueued'
      BY <1>2, <3>1, ElementOfSeq DEF SharedTypes, QueueHoldsQueued
    <3>3. ReadOnce'
      BY <1>2, <3>1 DEF SharedTypes, ReadOnce
    <3> QED
      BY <3>2, <3>3
  <2>2. ASSUME NEW l \in Logs, SendToQueue(l) PROVE QueueHoldsQueued' /\ ReadOnce'
    <3>1. /\ queue' = Append(queue, l) /\ stage' = [stage EXCEPT ![l] = "queued"]
          /\ stage[l] = "send" /\ unread' = unread
          /\ queue \in Seq(Logs) /\ stage \in [Logs -> Stages]
      BY <1>2, <2>2 DEF SendToQueue, MoveTo, SharedTypes
    <3>2. /\ Len(queue') = Len(queue) + 1 /\ queue'[Len(queue) + 1] = l
          /\ \A i \in 1..Len(queue) : queue'[i] = queue[i] /\ queue[i] \in Logs
          /\ Len(queue) \in Nat
      BY <3>1, ElementOfSeq, LenProperties
    <3>3. \A i \in 1..Len(queue) : queue[i] # l
      BY <1>2, <3>1 DEF QueueHoldsQueued
    <3>4. QueueHoldsQueued'
      BY <1>2, <3>1, <3>2, <3>3 DEF QueueHoldsQueued
    <3>5. ReadOnce'
      BY <1>2, <3>1 DEF ReadOnce
    <3> QED
      BY <3>4, <3>5
  <2>3. CASE TakeFromQueue
    <3>1. /\ queue \in Seq(Logs) /\ queue # <<>> /\ stage \in [Logs -> Stages]
          /\ queue' = Tail(queue) /\ stage' = [stage EXCEPT ![Head(queue)] = "parsing"]
          /\ unread' = unread
      BY <1>2, <2>3 DEF TakeFromQueue, MoveTo, SharedTypes
    <3>2. /\ Len(queue') = Len(queue) - 1 /\ Len(queue) \in Nat
          /\ \A i \in 1..Len(queue') : queue'[i] = queue[i + 1]
          /\ \A i \in 1..Len(queue) : queue[i] \in Logs
          /\ Head(queue) = queue[1]
      BY <3>1, HeadTailProperties, ElementOfSeq, LenProperties
    <3>3. \A i \in 1..Len(queue') : i + 1 \in 1..Len(queue) /\ queue'[i] # Head(queue)
      BY <1>2, <3>2 DEF QueueHoldsQueued
    <3>4. QueueHoldsQueued'
      <4>1. \A i \in 1..Len(queue') : stage'[queue'[i]] = "queued"
        BY <1>2, <3>1, <3>2, <3>3 DEF QueueHoldsQueued
      <4>2. \A i, j \in 1..Len(queue') : queue'[i] = queue'[j] => i = j
        BY <1>2, <3>2, <3>3 DEF QueueHoldsQueued
      <4> QED
        BY <4>1, <4>2 DEF QueueHoldsQueued
    <3>5. ReadOnce'
      BY <1>2, <2>3, <3>1, TakesQueued DEF ReadOnce
    <3> QED
      BY <3>4, <3>5
  <2>4. CASE UNCHANGED <<stage, queue>> /\ unread' \cap Logs = unread \cap Logs
    BY <1>2, <2>4 DEF QueueHoldsQueued, ReadOnce
  <2> QED
    BY <1>2, <2>1, <2>2, <2>3, <2>4, OtherSteps
<1> QED
  BY <1>1, <1>2, SharedTyping, PTL DEF Spec

-----------------------------------------------------------------------------
(* The WaitGroup and the findings.                                         *)

\* The WaitGroup counts the logs in flight.
InFlightIsCounted == waiter = Cardinality(InFlight)

\* The parser recorded the logs in error that it has parsed, each once.
FindingsAreExact ==
  \A l \in Logs :
    findings[l] = IF stage[l] \in {"parsed", "done"} /\ l \in LogsInError THEN 1 ELSE 0

\* Past its loop the reader has left no log in the archive, and past its wait
\* none in flight.
ReaderLeftNothing ==
  /\ reader \in {"waiting", "finished", "aggregated"} => unread = {}
  /\ reader \in {"finished", "aggregated"} => InFlight = {}

LEMMA InFlightIsFinite == IsFiniteSet(InFlight) /\ Cardinality(InFlight) \in Nat
<1>1. IsFiniteSet(Logs) /\ InFlight \in SUBSET Logs
  BY ExtractAssumption DEF ExtractAssumption, InFlight
<1> QED
  BY <1>1, FS_Subset, FS_CardinalityType

\* A log that is moved starts its flight, ends it or goes on with it.
LEMMA FlightOf ==
  ASSUME SharedTypes, NEW l \in Logs, NEW s \in Stages, stage' = [stage EXCEPT ![l] = s]
  PROVE  InFlight' = IF s \in InFlightStages THEN InFlight \cup {l} ELSE InFlight \ {l}
BY DEF SharedTypes, InFlight

LEMMA FlightGoesOn ==
  ASSUME SharedTypes, NEW l \in Logs, NEW s \in InFlightStages,
         stage[l] \in InFlightStages, stage' = [stage EXCEPT ![l] = s]
  PROVE  InFlight' = InFlight
BY FlightOf DEF InFlight, Stages

\* What each step does to the logs in flight.
LEMMA Flights ==
  ASSUME SharedTypes, QueueHoldsQueued, ReadOnce, [Next]_vars
  PROVE  \/ InFlight' = InFlight /\ waiter' = waiter
         \/ \E l \in Logs \ InFlight : /\ InFlight' = InFlight \cup {l} /\ waiter' = waiter + 1
                                       /\ reader = "reading" /\ reader' = reader
         \/ \E l \in InFlight : InFlight' = InFlight \ {l} /\ waiter' = waiter - 1
<1>1. ASSUME NEW l \in Logs, ReadPodLog(l) \/ SkipPodLog(l)
      PROVE  /\ reader = "reading" /\ reader' = reader /\ l \notin InFlight
             /\ \/ InFlight' = InFlight /\ waiter' = waiter
                \/ InFlight' = InFlight \cup {l} /\ waiter' = waiter + 1
  <2>1. stage[l] = "unread" /\ reader = "reading" /\ reader' = reader
    BY <1>1 DEF ReadPodLog, SkipPodLog, Reach, ReadOnce
  <2>2. l \notin InFlight
    BY <2>1 DEF InFlight, InFlightStages
  <2>3. CASE ReadPodLog(l)
    BY <2>1, <2>2, <2>3, FlightOf DEF ReadPodLog, MoveTo, Stages, InFlightStages
  <2>4. CASE SkipPodLog(l)
    <3>1. stage' = [stage EXCEPT ![l] = "skipped"] /\ waiter' = waiter
      BY <2>4 DEF SkipPodLog, MoveTo
    <3>2. "skipped" \in Stages /\ "skipped" \notin InFlightStages
      BY DEF Stages, InFlightStages
    <3> QED
      BY <2>1, <2>2, <3>1, <3>2, FlightOf
  <2> QED
    BY <1>1, <2>1, <2>2, <2>3, <2>4
<1>2. ASSUME NEW l \in Logs,
             PassRateLimiter(l) \/ AcquireSemaphore(l) \/ SendToQueue(l)
               \/ ProcessNamespaceErrors(l)
      PROVE  InFlight' = InFlight /\ waiter' = waiter
  BY <1>2, FlightGoesOn DEF PassRateLimiter, AcquireSemaphore, SendToQueue,
                            ProcessNamespaceErrors, MoveTo, InFlightStages
<1>3. ASSUME NEW l \in Logs, MarkDone(l)
      PROVE  l \in InFlight /\ InFlight' = InFlight \ {l} /\ waiter' = waiter - 1
  <2>1. /\ stage[l] = "parsed" /\ stage' = [stage EXCEPT ![l] = "done"]
        /\ waiter' = waiter - 1
    BY <1>3 DEF MarkDone, MoveTo
  <2>2. "done" \in Stages /\ "done" \notin InFlightStages /\ "parsed" \in InFlightStages
    BY DEF Stages, InFlightStages
  <2> QED
    BY <2>1, <2>2, FlightOf DEF InFlight
<1>4. CASE TakeFromQueue
  <2>1. /\ Head(queue) \in Logs /\ stage[Head(queue)] = "queued"
        /\ stage' = [stage EXCEPT ![Head(queue)] = "parsing"] /\ waiter' = waiter
    BY <1>4, TakesQueued DEF TakeFromQueue, MoveTo
  <2> QED
    BY <2>1, FlightGoesOn DEF InFlightStages
<1>5. CASE UNCHANGED <<stage, waiter>>
  BY <1>5 DEF InFlight
<1> QED
  BY <1>1, <1>2, <1>3, <1>4, <1>5, OtherSteps DEF Moves

\* waiter.Wait returns when no log is in flight, and not before.
THEOREM WaitGroup == Spec => []InFlightIsCounted
<1>1. Init => InFlightIsCounted
  <2>1. Init => InFlight = {} /\ waiter = 0
    BY DEF Init, InFlight, InFlightStages
  <2> QED
    BY <2>1, FS_EmptySet DEF InFlightIsCounted
<1>2. ASSUME SharedTypes, QueueHoldsQueued, ReadOnce, InFlightIsCounted, [Next]_vars
      PROVE  InFlightIsCounted'
  <2>1. ASSUME NEW l \in Logs \ InFlight, InFlight' = InFlight \cup {l}, waiter' = waiter + 1
        PROVE  InFlightIsCounted'
    BY <1>2, <2>1, InFlightIsFinite, FS_AddElement DEF InFlightIsCounted
  <2>2. ASSUME NEW l \in InFlight, InFlight' = InFlight \ {l}, waiter' = waiter - 1
        PROVE  InFlightIsCounted'
    BY <1>2, <2>2, InFlightIsFinite, FS_RemoveElement DEF InFlightIsCounted
  <2>3. CASE InFlight' = InFlight /\ waiter' = waiter
    BY <1>2, <2>3 DEF InFlightIsCounted
  <2> QED
    BY <1>2, <2>1, <2>2, <2>3, Flights
<1> QED
  BY <1>1, <1>2, SharedTyping, Queueing, PTL DEF Spec

LEMMA ReaderIsLast == Spec => []ReaderLeftNothing
<1>1. Init => ReaderLeftNothing
  BY DEF Init, ReaderLeftNothing
<1>2. ASSUME SharedTypes, QueueHoldsQueued, ReadOnce, InFlightIsCounted, ReaderLeftNothing,
             [Next]_vars
      PROVE  ReaderLeftNothing'
  <2>1. CASE EndOfArchive
    BY <2>1 DEF EndOfArchive, ReaderLeftNothing
  <2>2. CASE WaitForLogs
    <3>1. InFlight = {} /\ InFlight' = InFlight
      BY <1>2, <2>2, InFlightIsFinite, FS_EmptySet
         DEF WaitForLogs, InFlightIsCounted, InFlight
    <3> QED
      BY <1>2, <2>2, <3>1 DEF WaitForLogs, ReaderLeftNothing
  <2>3. CASE AggregateCounters
    BY <1>2, <2>3 DEF AggregateCounters, ReaderLeftNothing, InFlight
  <2>4. CASE reader' = reader \/ reader' \in {"reading", "failed"}
    <3>1. unread' \subseteq unread
      BY <1>2 DEF Next, ReaderNext, ReadPodLog, SkipPodLog, ReadRawFile, ReadEvents, Reach,
                  ReadFails, EndOfArchive, WaitForLogs, AggregateCounters, SenderNext,
                  PassRateLimiter, AcquireSemaphore, SendToQueue, ReleaseSemaphore, Leak,
                  ConsumerNext, TakeFromQueue, ProcessNamespaceErrors, MarkDone,
                  DecrementCount, vars
    <3>2. reader \in {"finished", "aggregated"} => InFlight' = {}
      BY <1>2, Flights DEF ReaderLeftNothing
    <3> QED
      BY <1>2, <2>4, <3>1, <3>2 DEF ReaderLeftNothing
  <2>5. \/ EndOfArchive \/ WaitForLogs \/ AggregateCounters
        \/ reader' = reader \/ reader' \in {"reading", "failed"}
    BY <1>2 DEF Next, ReaderNext, ReadPodLog, SkipPodLog, ReadRawFile, ReadEvents, Reach,
                ReadFails, SenderNext, PassRateLimiter, AcquireSemaphore, SendToQueue,
                ReleaseSemaphore, Leak, ConsumerNext, TakeFromQueue, ProcessNamespaceErrors,
                MarkDone, DecrementCount, vars
  <2> QED
    BY <2>1, <2>2, <2>3, <2>4, <2>5
<1> QED
  BY <1>1, <1>2, SharedTyping, Queueing, WaitGroup, PTL DEF Spec

LEMMA Findings == Spec => []FindingsAreExact
<1>1. Init => FindingsAreExact
  BY DEF Init, FindingsAreExact
<1>2. ASSUME SharedTypes, QueueHoldsQueued, ReadOnce, FindingsAreExact, [Next]_vars
      PROVE  FindingsAreExact'
  <2>1. ASSUME NEW l \in Logs, NEW s \in Stages \ {"parsed", "done"},
               stage' = [stage EXCEPT ![l] = s], stage[l] \notin {"parsed", "done"},
               UNCHANGED findings
        PROVE  FindingsAreExact'
    BY <1>2, <2>1 DEF SharedTypes, FindingsAreExact
  <2>2. ASSUME NEW l \in Logs, ReadPodLog(l) \/ SkipPodLog(l) PROVE FindingsAreExact'
    <3>1. stage[l] = "unread" /\ UNCHANGED findings
      BY <1>2, <2>2 DEF ReadPodLog, SkipPodLog, Reach, ReadOnce, resultVars
    <3>2. \E s \in Stages \ {"parsed", "done"} : stage' = [stage EXCEPT ![l] = s]
      BY <2>2 DEF ReadPodLog, SkipPodLog, MoveTo, Stages, InFlightStages
    <3> QED
      BY <2>1, <3>1, <3>2
  <2>3. ASSUME NEW l \in Logs, PassRateLimiter(l) \/ AcquireSemaphore(l) \/ SendToQueue(l)
        PROVE  FindingsAreExact'
    <3>1. stage[l] \notin {"parsed", "done"} /\ UNCHANGED findings
      BY <2>3 DEF PassRateLimiter, AcquireSemaphore, SendToQueue, resultVars
    <3>2. \E s \in Stages \ {"parsed", "done"} : stage' = [stage EXCEPT ![l] = s]
      BY <2>3 DEF PassRateLimiter, AcquireSemaphore, SendToQueue, MoveTo, Stages,
                  InFlightStages
    <3> QED
      BY <2>1, <3>1, <3>2
  <2>4. CASE TakeFromQueue
    <3>1. /\ Head(queue) \in Logs /\ stage[Head(queue)] = "queued" /\ UNCHANGED findings
          /\ stage' = [stage EXCEPT ![Head(queue)] = "parsing"]
      BY <1>2, <2>4, TakesQueued DEF TakeFromQueue, MoveTo, resultVars
    <3>2. "parsing" \in Stages \ {"parsed", "done"}
      BY DEF Stages, InFlightStages
    <3> QED
      BY <2>1, <3>1, <3>2
  <2>5. ASSUME NEW l \in Logs, ProcessNamespaceErrors(l) PROVE FindingsAreExact'
    <3>1. findings[l] = 0 /\ stage' = [stage EXCEPT ![l] = "parsed"]
      BY <1>2, <2>5 DEF ProcessNamespaceErrors, MoveTo, FindingsAreExact
    <3> QED
      BY <1>2, <2>5, <3>1 DEF ProcessNamespaceErrors, SharedTypes, FindingsAreExact
  <2>6. ASSUME NEW l \in Logs, MarkDone(l) PROVE FindingsAreExact'
    BY <1>2, <2>6 DEF MarkDone, MoveTo, resultVars, SharedTypes, FindingsAreExact
  <2>7. CASE UNCHANGED <<stage, findings>>
    BY <1>2, <2>7 DEF FindingsAreExact
  <2> QED
    BY <1>2, <2>2, <2>3, <2>4, <2>5, <2>6, <2>7, OtherSteps DEF Moves
<1> QED
  BY <1>1, <1>2, SharedTyping, Queueing, PTL DEF Spec

\* When extract returns without an error every log it took was parsed to the
\* end, and the findings are those of the logs in error.
THEOREM Returns == Spec => []ReturnsWithEveryLogParsed
<1>1. SharedTypes /\ ReadOnce /\ ReaderLeftNothing /\ FindingsAreExact
        => ReturnsWithEveryLogParsed
  BY DEF SharedTypes, ReadOnce, ReaderLeftNothing, FindingsAreExact,
         ReturnsWithEveryLogParsed, InFlight, Stages
<1> QED
  BY <1>1, SharedTyping, Queueing, ReaderIsLast, Findings, PTL

\* What is aggregated after extract returned does not change any more: no
\* parser is left that could add to it.
THEOREM StableFindings == Spec => AggregatesStableFindings
<1>1. ASSUME ReaderLeftNothing, [Next]_vars
      PROVE  [(reader \in {"finished", "aggregated"}) => UNCHANGED findings]_vars
  <2>1. ASSUME NEW l \in Logs, ProcessNamespaceErrors(l)
        PROVE  reader \notin {"finished", "aggregated"}
    BY <1>1, <2>1 DEF ProcessNamespaceErrors, ReaderLeftNothing, InFlight, InFlightStages
  <2>2. CASE UNCHANGED findings
    BY <2>2
  <2>3. (\E l \in Logs : ProcessNamespaceErrors(l)) \/ UNCHANGED findings
    BY <1>1 DEF Next, ReaderNext, ReadPodLog, SkipPodLog, ReadRawFile, ReadEvents, ReadFails,
                EndOfArchive, WaitForLogs, AggregateCounters, SenderNext, PassRateLimiter,
                AcquireSemaphore, SendToQueue, ReleaseSemaphore, Leak, ConsumerNext,
                TakeFromQueue, MarkDone, DecrementCount, resultVars, vars
  <2> QED
    BY <2>1, <2>2, <2>3
<1> QED
  BY <1>1, ReaderIsLast, PTL DEF Spec, AggregatesStableFindings

-----------------------------------------------------------------------------
(* The refinement.                                                         *)

\* The safety part of LogBatch, under the mapping of MustGatherExtract.
BatchSafety == Batch!Init /\ [][Batch!Next]_(Batch!vars)

Pending == {l \in Logs : stage[l] \in InFlightStages \ {"parsed"}}
Parsed == {l \in Logs : stage[l] \in {"parsed", "done"}}

\* A log on its way changes what is pending and parsed only where it is parsed.
LEMMA Advances ==
  ASSUME SharedTypes, NEW l \in Logs, NEW s \in Stages, stage' = [stage EXCEPT ![l] = s]
  PROVE  /\ Pending' = IF s \in InFlightStages \ {"parsed"} THEN Pending \cup {l} ELSE Pending \ {l}
         /\ Parsed' = IF s \in {"parsed", "done"} THEN Parsed \cup {l} ELSE Parsed \ {l}
BY DEF SharedTypes, Pending, Parsed

\* Each step of a goroutine is one of LogBatch or does not show there.
LEMMA StepImplements ==
  ASSUME SharedTypes, QueueHoldsQueued, ReadOnce, InFlightIsCounted, ReaderLeftNothing,
         [Next]_vars
  PROVE  [Batch!Next]_(Batch!vars)
<1> USE DEF Batch!Next, Batch!vars, Batch!TakeLog, Batch!ParseLog, Batch!Succeed, Batch!GiveUp
<1>1. ASSUME NEW l \in Logs, ReadPodLog(l) \/ SkipPodLog(l) PROVE Batch!TakeLog(l)
  <2>1. /\ l \in unread /\ stage[l] = "unread" /\ unread' = unread \ {l}
        /\ reader = "reading" /\ reader' = "reading"
    BY <1>1 DEF ReadPodLog, SkipPodLog, Reach, ReadOnce
  <2>2. stage' = [stage EXCEPT ![l] = "rate"] \/ stage' = [stage EXCEPT ![l] = "skipped"]
    BY <1>1 DEF ReadPodLog, SkipPodLog, MoveTo
  <2>3. Pending' \in {Pending, Pending \cup {l}} /\ Parsed' = Parsed
    BY <2>1, <2>2, Advances DEF Pending, Parsed, Stages, InFlightStages
  <2> QED
    BY <2>1, <2>3 DEF Pending, Parsed
<1>2. ASSUME NEW l \in Logs, ProcessNamespaceErrors(l) PROVE Batch!ParseLog(l)
  <2>1. /\ stage[l] = "parsing" /\ stage' = [stage EXCEPT ![l] = "parsed"]
        /\ unread' = unread /\ reader' = reader
    BY <1>2 DEF ProcessNamespaceErrors, MoveTo
  <2>2. l \in Pending /\ reader \notin {"finished", "aggregated"}
    BY <2>1 DEF Pending, ReaderLeftNothing, InFlight, InFlightStages
  <2>3. Pending' = Pending \ {l} /\ Parsed' = Parsed \cup {l}
    BY <2>1, Advances DEF Stages, InFlightStages
  <2> QED
    BY <2>1, <2>2, <2>3 DEF Pending, Parsed
<1>3. CASE WaitForLogs
  <2>1. InFlight = {}
    BY <1>3, InFlightIsFinite, FS_EmptySet DEF WaitForLogs, InFlightIsCounted
  <2>2. /\ reader = "waiting" /\ reader' = "finished" /\ unread = {}
        /\ unread' = unread /\ stage' = stage
    BY <1>3 DEF WaitForLogs, ReaderLeftNothing
  <2>3. Pending = {} /\ Pending' = Pending /\ Parsed' = Parsed
    BY <2>1, <2>2 DEF Pending, Parsed, InFlight
  <2>4. Batch!Succeed
    BY <2>2, <2>3 DEF Pending, Parsed
  <2> QED
    BY <2>4
<1>4. CASE ReadFails
  BY <1>4 DEF ReadFails
<1>5. ASSUME NEW f \in EventFiles, ReadEvents(f) PROVE [Batch!Next]_(Batch!vars)
  <2>1. /\ unread' \cap Logs = unread \cap Logs
    BY <1>5, ExtractAssumption DEF ReadEvents, Reach, ExtractAssumption
  <2> QED
    BY <1>5, <2>1 DEF ReadEvents, Reach
<1>6. CASE \E l \in Logs : PassRateLimiter(l) \/ AcquireSemaphore(l) \/ SendToQueue(l)
  <2>1. PICK l \in Logs : PassRateLimiter(l) \/ AcquireSemaphore(l) \/ SendToQueue(l)
    BY <1>6
  <2>2. /\ stage[l] \in {"rate", "semaphore", "send"} /\ unread' = unread /\ reader' = reader
        /\ \E s \in {"semaphore", "send", "queued"} : stage' = [stage EXCEPT ![l] = s]
    BY <2>1 DEF PassRateLimiter, AcquireSemaphore, SendToQueue, MoveTo
  <2>3. Pending' = Pending /\ Parsed' = Parsed
    BY <2>2, Advances DEF Pending, Parsed, Stages, InFlightStages
  <2> QED
    BY <2>2, <2>3 DEF Pending, Parsed
<1>7. CASE TakeFromQueue
  <2>1. \E l \in Logs : stage[l] = "queued" /\ stage' = [stage EXCEPT ![l] = "parsing"]
    BY <1>7, TakesQueued DEF TakeFromQueue, MoveTo
  <2>2. PICK l \in Logs : stage[l] = "queued" /\ stage' = [stage EXCEPT ![l] = "parsing"]
    BY <2>1
  <2>3. unread' = unread /\ reader' = reader
    BY <1>7 DEF TakeFromQueue
  <2>4. Pending' = Pending /\ Parsed' = Parsed
    BY <2>2, Advances DEF Pending, Parsed, Stages, InFlightStages
  <2> QED
    BY <2>3, <2>4 DEF Pending, Parsed
<1>8. ASSUME NEW l \in Logs, MarkDone(l) PROVE UNCHANGED Batch!vars
  <2>1. /\ stage[l] = "parsed" /\ stage' = [stage EXCEPT ![l] = "done"]
        /\ unread' = unread /\ reader' = reader
    BY <1>8 DEF MarkDone, MoveTo
  <2>2. Pending' = Pending /\ Parsed' = Parsed
    BY <2>1, Advances DEF Pending, Parsed, Stages, InFlightStages
  <2> QED
    BY <2>1, <2>2 DEF Pending, Parsed
<1>9. ASSUME stage' = stage, unread' \cap Logs = unread \cap Logs,
             \/ reader' = reader
             \/ reader = "reading" /\ reader' = "waiting"
             \/ reader = "finished" /\ reader' = "aggregated"
      PROVE  UNCHANGED Batch!vars
  BY <1>9
<1>10. ASSUME NEW f \in RawFiles, ReadRawFile(f) PROVE UNCHANGED Batch!vars
  BY <1>9, <1>10, ExtractAssumption DEF ReadRawFile, Reach, ExtractAssumption
<1>11. CASE EndOfArchive \/ AggregateCounters \/ Leak \/ DecrementCount \/ UNCHANGED vars
            \/ (\E l \in Logs : ReleaseSemaphore(l))
  BY <1>9, <1>11 DEF EndOfArchive, AggregateCounters, Leak, DecrementCount, ReleaseSemaphore,
                     vars
<1> QED
  BY <1>1, <1>2, <1>3, <1>4, <1>5, <1>6, <1>7, <1>8, <1>10, <1>11
     DEF Next, ReaderNext, SenderNext, ConsumerNext

\* The goroutines of the leaky bucket take no step that LogBatch forbids: a log
\* is parsed at most once, and the call succeeds only with nothing left.
THEOREM Implements == Spec => BatchSafety
<1>1. Init => Batch!Init
  BY DEF Init, Batch!Init, InFlightStages
<1> QED
  BY <1>1, StepImplements, SharedTyping, Queueing, WaitGroup, ReaderIsLast, PTL
     DEF Spec, BatchSafety

-----------------------------------------------------------------------------
(* The counter of the progress messages, and all the types.                *)

AtConsumer(l) == stage[l] \in {"parsing", "parsed"}

\* The consumer has one log, as long as it is busy.
ConsumerIsAlone ==
  /\ \A l \in Logs : AtConsumer(l) => consumer = "busy"
  /\ \A l, m \in Logs : AtConsumer(l) /\ AtConsumer(m) => l = m

\* The counter that the messages show is one behind the WaitGroup at times.
QueueCountFollows == queueCount = waiter + IF consumer = "counting" THEN 1 ELSE 0

LEMMA Consuming == Spec => []ConsumerIsAlone
<1>1. Init => ConsumerIsAlone
  BY DEF Init, ConsumerIsAlone, AtConsumer
<1>2. ASSUME SharedTypes, QueueHoldsQueued, ReadOnce, ConsumerIsAlone, [Next]_vars
      PROVE  ConsumerIsAlone'
  <2>1. ASSUME NEW l \in Logs, NEW s \in Stages \ {"parsing", "parsed"},
               stage' = [stage EXCEPT ![l] = s], UNCHANGED consumer
        PROVE  ConsumerIsAlone'
    BY <1>2, <2>1 DEF SharedTypes, ConsumerIsAlone, AtConsumer
  <2>2. ASSUME NEW l \in Logs,
               ReadPodLog(l) \/ SkipPodLog(l) \/ PassRateLimiter(l) \/ AcquireSemaphore(l)
                 \/ SendToQueue(l)
        PROVE  ConsumerIsAlone'
    <3>1. UNCHANGED consumer
      BY <2>2 DEF ReadPodLog, SkipPodLog, PassRateLimiter, AcquireSemaphore, SendToQueue,
                  poolVars
    <3>2. \E s \in Stages \ {"parsing", "parsed"} : stage' = [stage EXCEPT ![l] = s]
      BY <2>2 DEF ReadPodLog, SkipPodLog, PassRateLimiter, AcquireSemaphore, SendToQueue,
                  MoveTo, Stages, InFlightStages
    <3> QED
      BY <2>1, <3>1, <3>2
  <2>3. CASE TakeFromQueue
    <3>1. \A l \in Logs : ~AtConsumer(l)
      BY <1>2, <2>3 DEF TakeFromQueue, ConsumerIsAlone
    <3>2. Head(queue) \in Logs /\ consumer' = "busy"
          /\ stage' = [stage EXCEPT ![Head(queue)] = "parsing"]
      BY <1>2, <2>3, TakesQueued DEF TakeFromQueue, MoveTo
    <3> QED
      BY <1>2, <3>1, <3>2 DEF SharedTypes, ConsumerIsAlone, AtConsumer
  <2>4. ASSUME NEW l \in Logs, ProcessNamespaceErrors(l) PROVE ConsumerIsAlone'
    BY <1>2, <2>4 DEF ProcessNamespaceErrors, MoveTo, poolVars, SharedTypes, ConsumerIsAlone,
                      AtConsumer
  <2>5. ASSUME NEW l \in Logs, MarkDone(l) PROVE ConsumerIsAlone'
    BY <1>2, <2>5 DEF MarkDone, MoveTo, SharedTypes, ConsumerIsAlone, AtConsumer
  <2>6. CASE DecrementCount
    BY <1>2, <2>6 DEF DecrementCount, ConsumerIsAlone, AtConsumer
  <2>7. CASE UNCHANGED <<stage, consumer>>
    BY <1>2, <2>7 DEF ConsumerIsAlone, AtConsumer
  <2>8. \/ \E l \in Logs : Moves(l)
        \/ TakeFromQueue \/ DecrementCount \/ UNCHANGED <<stage, consumer>>
    BY <1>2 DEF Next, ReaderNext, ReadRawFile, ReadEvents, ReadFails, EndOfArchive, WaitForLogs,
                AggregateCounters, SenderNext, ReleaseSemaphore, Leak, ConsumerNext, Moves,
                poolVars, vars
  <2> QED
    BY <2>2, <2>3, <2>4, <2>5, <2>6, <2>7, <2>8 DEF Moves
<1> QED
  BY <1>1, <1>2, SharedTyping, Queueing, PTL DEF Spec

LEMMA CountFollows == Spec => []QueueCountFollows
<1>1. Init => QueueCountFollows
  BY DEF Init, QueueCountFollows
<1>2. ASSUME ConsumerIsAlone, InFlightIsCounted, QueueCountFollows, [Next]_vars
      PROVE  QueueCountFollows'
  <2>1. waiter \in Nat
    BY <1>2, InFlightIsFinite DEF InFlightIsCounted
  <2>2. CASE \E l \in Logs : ReadPodLog(l)
    BY <1>2, <2>1, <2>2 DEF ReadPodLog, poolVars, QueueCountFollows
  <2>3. ASSUME NEW l \in Logs, MarkDone(l) PROVE QueueCountFollows'
    <3>1. consumer = "busy"
      BY <1>2, <2>3 DEF MarkDone, ConsumerIsAlone, AtConsumer
    <3> QED
      BY <1>2, <2>1, <2>3, <3>1 DEF MarkDone, QueueCountFollows
  <2>4. CASE DecrementCount
    BY <1>2, <2>1, <2>4 DEF DecrementCount, QueueCountFollows
  <2>5. CASE TakeFromQueue
    BY <1>2, <2>5 DEF TakeFromQueue, QueueCountFollows
  <2>6. CASE UNCHANGED <<waiter, queueCount, consumer>>
    BY <1>2, <2>6 DEF QueueCountFollows
  <2>7. \/ \E l \in Logs : ReadPodLog(l) \/ MarkDone(l)
        \/ TakeFromQueue \/ DecrementCount \/ UNCHANGED <<waiter, queueCount, consumer>>
    BY <1>2 DEF Next, ReaderNext, SkipPodLog, ReadRawFile, ReadEvents, ReadFails, EndOfArchive,
                WaitForLogs, AggregateCounters, SenderNext, PassRateLimiter, AcquireSemaphore,
                SendToQueue, ReleaseSemaphore, Leak, ConsumerNext, ProcessNamespaceErrors,
                poolVars, vars
  <2> QED
    BY <2>2, <2>3, <2>4, <2>5, <2>6, <2>7
<1> QED
  BY <1>1, <1>2, Consuming, WaitGroup, PTL DEF Spec

\* Every variable keeps its type: neither counter of logs is ever negative,
\* which in the code is a panic of the WaitGroup.
THEOREM Typing == Spec => []TypeOK
<1>1. InFlightIsCounted /\ QueueCountFollows => waiter \in Nat /\ queueCount \in Nat
  <2>1. InFlightIsCounted => waiter \in Nat
    BY InFlightIsFinite DEF InFlightIsCounted
  <2> QED
    BY <2>1 DEF QueueCountFollows
<1>2. SharedTypes /\ TokensWithinBuffer /\ waiter \in Nat /\ queueCount \in Nat => TypeOK
  BY DEF SharedTypes, TokensWithinBuffer, TypeOK
<1> QED
  BY <1>1, <1>2, SharedTyping, TokenTyping, WaitGroup, CountFollows, PTL
=============================================================================
