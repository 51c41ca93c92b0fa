------------------------------- MODULE MCPoller -------------------------------
(* Poller on small instances. *)
EXTENDS Poller, TLC

CONSTANTS f1, f2, w1, w2, t1, t2

PowersOfTwo == [n \in 0 .. MaxShift |-> 2^n]
Symmetry == Permutations(Feeds) \cup Permutations(Workers)
=============================================================================
