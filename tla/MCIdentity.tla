------------------------------ MODULE MCIdentity ------------------------------
(* Identity on a small instance: two deliveries against a sign-in, two        *)
(* requests on two replicas.                                                  *)
EXTENDS Identity

CONSTANTS d1, d2, s1, p1, p2, r1, r2
=============================================================================
