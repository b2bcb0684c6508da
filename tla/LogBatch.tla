------------------------------- MODULE LogBatch -------------------------------
(***************************************************************************)
(* What MustGather.extract promises its caller about the pod logs of a     *)
(* must-gather archive, whatever the goroutines between do: each log is    *)
(* taken from the archive at most once, its errors are recorded once, and  *)
(* the call succeeds only when no log is left in between.                  *)
(***************************************************************************)
CONSTANT Logs        \* the pod logs of the archive

VARIABLES
  unread,     \* the logs not yet taken from the archive
  pending,    \* the logs taken and not yet parsed
  parsed,     \* the logs parsed
  outcome     \* "running", then "success" or "error"

vars == <<unread, pending, parsed, outcome>>

Init == unread = Logs /\ pending = {} /\ parsed = {} /\ outcome = "running"

\* A log is queued for parsing, or given up when it cannot be copied.
TakeLog(l) ==
  /\ outcome = "running" /\ l \in unread
  /\ unread' = unread \ {l}
  /\ pending' \in {pending, pending \cup {l}}
  /\ UNCHANGED <<parsed, outcome>>

\* Parsing goes on when the call gave up on the archive.
ParseLog(l) ==
  /\ outcome # "success" /\ l \in pending
  /\ pending' = pending \ {l} /\ parsed' = parsed \cup {l}
  /\ UNCHANGED <<unread, outcome>>

Succeed ==
  /\ outcome = "running" /\ unread = {} /\ pending = {}
  /\ outcome' = "success"
  /\ UNCHANGED <<unread, pending, parsed>>

GiveUp ==
  /\ outcome = "running" /\ outcome' = "error"
  /\ UNCHANGED <<unread, pending, parsed>>

Next == (\E l \in Logs : TakeLog(l) \/ ParseLog(l)) \/ Succeed \/ GiveUp

\* The process may end once the call gave up: only a running call goes on.
Spec == Init /\ [][Next]_vars /\ WF_vars(outcome = "running" /\ Next)
=============================================================================
