------------------------------- MODULE MCWorker -------------------------------
(* Worker on a small instance: two feeds of a slow host, one of each of two others. *)
EXTENDS Worker

CONSTANTS f1, f2, f3, f4, slow, quick, other

HostOf == [f \in Feeds |-> IF f = f3 THEN quick ELSE IF f = f4 THEN other ELSE slow]
=============================================================================
