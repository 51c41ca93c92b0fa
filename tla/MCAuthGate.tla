------------------------------ MODULE MCAuthGate ------------------------------
(* AuthGate and RateLimit on small instances.  They share no state, so a        *)
(* behaviour is one of either.                                                  *)
EXTENDS AuthGate, RateLimit, TLC

CONSTANTS q1, q2, q3, k1, k2

VARIABLE part

MCInit == part \in {"keys", "limits"} /\ Init /\ LimitInit

MCNext ==
  /\ UNCHANGED part
  /\ \/ part = "keys" /\ Next /\ UNCHANGED limitVars
     \/ part = "limits" /\ LimitNext /\ UNCHANGED vars

MCSpec == MCInit /\ [][MCNext]_<<part, vars, limitVars>>

Symmetric == Permutations(Requests)
=============================================================================
