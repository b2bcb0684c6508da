-------------------------- MODULE MCMustGatherReport --------------------------
EXTENDS MustGatherReport

CONSTANTS l1, l2, l3, l4

Plain(p, n) == [q \in ErrorPatterns |-> IF q = p THEN n ELSE 0]
Took(ms, h) == [matches |-> Plain("took", 1), took |-> ms, hour |-> h]

\* Two etcd pods that share one hour of three, with requests at the limits of
\* the buckets, some that cannot be read or lose their minutes, and one without
\* an hour; an earlier log of one of them, with more requests and at the limit of
\* the error check; and a log without errors.
MCLines ==
  [l \in Logs |->
     CASE l = l1 -> <<Took(99, 1), Took(200, 1), Took(499, 2), Took(2000, 3), Took(999, 2)>>
       [] l = l2 -> <<Took(500, 2), Took(60150, 3), Took(1500, 3), Took(300, AllHours),
                      [matches |-> Plain("error", 2), took |-> 0, hour |-> 3]>>
       [] l = l3 -> <<[matches |-> Plain("failed", 30000), took |-> 0, hour |-> 1], Took(700, 2)>>
       [] OTHER -> <<[matches |-> Plain("none", 0), took |-> 0, hour |-> 1]>>]
=============================================================================
