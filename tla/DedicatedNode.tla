---------------------------- MODULE DedicatedNode ----------------------------
(***************************************************************************)
(* `opct adm setup-node` beside the commands of OpctEnvironment: it reads a *)
(* node, asks for a confirmation for as long as the administrator takes,   *)
(* and writes the whole node back with the label and the taint that the    *)
(* checks of `opct run --dedicated` look for.  In the meantime others      *)
(* write the node: the kubelet, controllers, another administrator.        *)
(***************************************************************************)
EXTENDS OpctEnvironment

CONSTANTS
  Admins,  \* those who start the command
  NoNode   \* the target of one who runs nothing

VARIABLES
  step,      \* step[a]: the call that a makes next, "idle" when it runs nothing
  target,    \* target[a]: the node that a sets up
  snapshot,  \* snapshot[a]: what a read of it
  stale,     \* those whose node was written since they read it
  marked     \* the nodes with a change that others made

processVars == <<step, target, snapshot>>
nodeVars == <<processVars, stale, marked>>
varsNode == <<vars, nodeVars>>

NodeOf(n) == [labelled |-> n \in setup.labelled, tainted |-> n \in setup.tainted,
              marked |-> n \in marked]

Unread == [labelled |-> FALSE, tainted |-> FALSE, marked |-> FALSE]

InitNode ==
  /\ Init
  /\ step = [a \in Admins |-> "idle"]
  /\ target = [a \in Admins |-> NoNode]
  /\ snapshot = [a \in Admins |-> Unread]
  /\ stale = {} /\ marked = {}

\* The process ends, done or not, and what it knew is gone.
Ends(a) ==
  /\ step' = [step EXCEPT ![a] = "idle"]
  /\ target' = [target EXCEPT ![a] = NoNode]
  /\ snapshot' = [snapshot EXCEPT ![a] = Unread]

\* discoverNode: the first worker that does not run Prometheus, or the first
\* one when all do, unless --node names one.  When a read fails, or there is no
\* Prometheus, nothing is done.
Discover(a) ==
  /\ step[a] = "idle" /\ started < MaxStarts
  /\ started' = started + 1
  /\ \E prometheus \in SUBSET Nodes \ {{}}, n \in Nodes :
       /\ n \notin prometheus \/ prometheus = Nodes
       /\ target' = [target EXCEPT ![a] = n]
  /\ step' = [step EXCEPT ![a] = "get"]
  /\ UNCHANGED <<cliVars, clusterVars, overlapped, snapshot, stale, marked>>

GetNode(a) ==
  /\ step[a] = "get"
  /\ \/ /\ step' = [step EXCEPT ![a] = "confirm"]
        /\ snapshot' = [snapshot EXCEPT ![a] = NodeOf(target[a])]
        /\ UNCHANGED target
     \/ Ends(a)
  /\ UNCHANGED <<vars, stale, marked>>

Set(S, n, in) == IF in THEN S \cup {n} ELSE S \ {n}

\* The API server replaces the node n by the object o, which others than those
\* of except have read before.
Put(n, o, except) ==
  /\ setup' = [pool |-> setup.pool, labelled |-> Set(setup.labelled, n, o.labelled),
                tainted |-> Set(setup.tainted, n, o.tainted)]
  /\ marked' = Set(marked, n, o.marked)
  /\ stale' = (stale \cup {a \in Admins : target[a] = n /\ step[a] = "confirm"}) \ except
  /\ UNCHANGED <<cliVars, ns, objs, role, binding, testNs, started, overlapped>>

Dedicated(o) == [labelled |-> TRUE, tainted |-> TRUE, marked |-> o.marked]
Marked(o) == [labelled |-> o.labelled, tainted |-> o.tainted, marked |-> TRUE]

Refused(a) == stale' = stale \ {a} /\ UNCHANGED <<vars, marked>>

\* Mutant of UpdateNode: the object is written whatever its version.
UpdateNodeForced(a) ==
  /\ step[a] = "confirm" /\ Ends(a)
  /\ Put(target[a], Dedicated(snapshot[a]), {a}) \/ Refused(a)

\* After the confirmation.  The update is refused when the node was written
\* since it was read, and when it has the taint already, which the command
\* appends all the same; it may fail otherwise, or its answer be lost.
UpdateNode(a) ==
  /\ step[a] = "confirm" /\ Ends(a)
  /\ \/ /\ a \notin stale /\ ~snapshot[a].tainted
        /\ Put(target[a], Dedicated(snapshot[a]), {a})
     \/ Refused(a)

\* Someone writes the node that an administrator is asked about and takes neither
\* label nor taint away, as none does before the validation ends; bounded: once for
\* each question.
OthersWrite(n) ==
  /\ \E a \in Admins : step[a] = "confirm" /\ target[a] = n /\ a \notin stale
  /\ \E o \in {Marked(NodeOf(n)), Dedicated(NodeOf(n))} : o # NodeOf(n) /\ Put(n, o, {})
  /\ UNCHANGED processVars

NextNode ==
  \/ Next /\ UNCHANGED nodeVars
  \/ \E a \in Admins : Discover(a) \/ GetNode(a) \/ UpdateNode(a)
  \/ \E n \in Nodes : OthersWrite(n)

SpecNode == InitNode /\ [][NextNode]_varsNode

-----------------------------------------------------------------------------
(* Properties.                                                             *)

\* What others wrote to a node between the moment setup-node read it and the
\* answer to its question is not undone by the object it writes back: neither a
\* label, nor a taint, nor any other change (setupNode.go:83-110: the object
\* keeps the version it was read with).
SetupNodeUndoesNothing ==
  [][/\ setup.labelled \subseteq setup'.labelled /\ setup.tainted \subseteq setup'.tainted
     /\ marked \subseteq marked']_varsNode

\* Whoever labels and taints nodes before, during and after its checks (as long as
\* none is taken away): a dedicated run is scheduled only in a cluster with a node
\* that has both the label and the taint, so that there is one for its plugins and
\* no other pod on it (run.go:242-270 looks at the first labelled node only).
DedicatedRunHasNode ==
  \A p \in Cli : pc[p] = "scheduled" /\ option[p].dedicated =>
    setup.labelled \cap setup.tainted # {}
=============================================================================
