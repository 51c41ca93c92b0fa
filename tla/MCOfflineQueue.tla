--------------------------- MODULE MCOfflineQueue ---------------------------
(* OfflineQueue on a small instance: two tabs of one browser.               *)
EXTENDS OfflineQueue, TLC

CONSTANTS t1, t2, b1

MCBrowserOf == [t \in Tabs |-> b1]
\* A star set by the clock, and one taken off by a clock too far ahead; reads are
\* mark-all-read's.
MCActs ==
  {[tab |-> t1, flag |-> "star", val |-> TRUE, skew |-> 0],
   [tab |-> t1, flag |-> "star", val |-> FALSE, skew |-> 2]}
=============================================================================
