---------------------------- MODULE MCBaselineIndex ----------------------------
(* Values for the model checker. *)
EXTENDS BaselineIndex, TLC

\* The archives of two dates are two files.
MCBaseName == [k \in Keys |-> k.stamp]

\* A summary that was cut off, and that of the older archive.
Cut == {NoTags}
CutOrOlder == {NoTags, [target |-> 1, date |-> 1]}

AdminsAreAlike == Permutations(Admins)
================================================================================
