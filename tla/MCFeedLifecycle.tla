--------------------------- MODULE MCFeedLifecycle ---------------------------
(* FeedLifecycle on small instances. *)
EXTENDS FeedLifecycle, TLC

CONSTANTS u1, u2, x, y, r1, r2, w1, g1

Symmetry == Permutations(Users) \cup Permutations(Urls) \cup Permutations(Requests)
=============================================================================
