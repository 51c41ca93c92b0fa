------------------------------- MODULE Schedule -------------------------------
(***************************************************************************)
(* When a feed is polled next: the pure arithmetic of worker/schedule.py.   *)
(* Times are natural numbers of any unit; no Retry-After header is 0.       *)
(***************************************************************************)
EXTENDS Integers

CONSTANTS Floor,    \* worker_interval_floor_s
          Ceil,     \* worker_interval_ceil_s
          Base,     \* worker_backoff_base_s
          Cap,      \* worker_backoff_cap_s
          MaxShift, \* 32 in the code: the largest shift of the doubling
          Doublings \* n -> 1 << n

ASSUME ScheduleAssumption ==
  /\ Floor \in Nat \ {0} /\ Ceil \in Nat /\ Floor <= Ceil
  /\ Base \in Nat \ {0} /\ Cap \in Nat /\ Base <= Cap
  /\ MaxShift \in Nat
  /\ Doublings \in [0 .. MaxShift -> Nat] /\ Doublings[0] = 1
  /\ \A n \in 1 .. MaxShift : Doublings[n] = 2 * Doublings[n - 1]

Smaller(a, b) == IF a <= b THEN a ELSE b
Larger(a, b)  == IF a <= b THEN b ELSE a

\* Halve the interval of an active feed, grow a quiet one's by half, within bounds.
AdaptiveInterval(current, gotNewItems) ==
  LET next == IF gotNewItems THEN current \div 2 ELSE (current * 3) \div 2
  IN  Larger(Floor, Smaller(Ceil, next))

\* Base, doubled with every further error, up to Cap.
BackoffInterval(errorCount) ==
  IF errorCount <= 0 THEN Base
  ELSE Smaller(Cap, Base * Doublings[Smaller(errorCount - 1, MaxShift)])

ErrorDelay(errorCount, retryAfter) ==
  Smaller(Cap, Larger(BackoffInterval(errorCount), retryAfter))
=============================================================================
