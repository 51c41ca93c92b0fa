------------------------------ MODULE Politeness ------------------------------
(***************************************************************************)
(* What the worker promises the servers it polls: never more than Cap       *)
(* fetches at once, never more than Limit of them on one host, and, when    *)
(* Limit is one, at least Delay from the end of a fetch to the start of the *)
(* next one on that host.                                                   *)
(***************************************************************************)
EXTENDS Integers, FiniteSets

CONSTANTS Feeds, Hosts, Host, Limit, Cap, Delay

VARIABLES fetching,  \* the feeds being fetched
          quiet      \* host -> time since a fetch there ended, up to Delay

vars == <<fetching, quiet>>

OnHost(h) == {f \in fetching : Host[f] = h}

Init == fetching = {} /\ quiet = [h \in Hosts |-> Delay]

Start(f) ==
  /\ f \notin fetching
  /\ Cardinality(fetching) < Cap
  /\ Cardinality(OnHost(Host[f])) < Limit
  /\ Limit = 1 => quiet[Host[f]] = Delay
  /\ fetching' = fetching \cup {f}
  /\ UNCHANGED quiet

End(f) ==
  /\ f \in fetching
  /\ fetching' = fetching \ {f}
  /\ quiet' = [quiet EXCEPT ![Host[f]] = 0]

Pass ==
  /\ quiet' = [h \in Hosts |-> IF quiet[h] < Delay THEN quiet[h] + 1 ELSE Delay]
  /\ UNCHANGED fetching

Next == (\E f \in Feeds : Start(f) \/ End(f)) \/ Pass
Spec == Init /\ [][Next]_vars
=============================================================================
