------------------------------ MODULE RateLimit ------------------------------
(***************************************************************************)
(* auth/ratelimit.py: the token bucket of the middleware and the cooldown   *)
(* of refresh and discovery, each beside itself without the sweep of idle   *)
(* keys.  Time is in whole units.                                           *)
(***************************************************************************)
EXTENDS Integers, Sequences, FiniteSets, Functions

CONSTANTS Keys, Gaps, MaxCalls,   \* bounds: who calls, how long after the call before, how often
          Rate, Burst,            \* of the bucket
          Window,                 \* of the cooldown
          PruneInterval

ASSUME RateLimitAssumption ==
  /\ Rate \in Nat \ {0} /\ Burst \in Nat \ {0} /\ Window \in Nat
  /\ PruneInterval \in Nat \ {0} /\ MaxCalls \in Nat /\ Gaps \subseteq Nat

VARIABLES clock,     \* time.monotonic() at the last call
          calls,     \* since the process began: who called when, and what either limiter said
          bucket,    \* TokenBucket: what it has seen of a key, and when it was last swept
          cooldown,  \* Cooldown
          unpruned   \* what the two would have seen if they never forgot a key

limitVars == <<clock, calls, bucket, cooldown, unpruned>>

Limiter == [seen |-> [k \in {} |-> 0], pruned |-> 0]

LimitInit ==
  /\ clock = 0 /\ calls = << >>
  /\ bucket = Limiter /\ cooldown = Limiter
  /\ unpruned = [bucket |-> Limiter.seen, cooldown |-> Limiter.seen]

\* The sweep, if one is due, keeps the entries of the keys in "keep".
Swept(l, time, keep) ==
  IF time - l.pruned < PruneInterval THEN l
  ELSE [seen |-> Restrict(l.seen, keep), pruned |-> time]

Entered(seen, key, entry) ==
  [k \in DOMAIN seen \cup {key} |-> IF k = key THEN entry ELSE seen[k]]

-----------------------------------------------------------------------------
(* TokenBucket *)

Least(a, b) == IF a < b THEN a ELSE b

\* A bucket is full again, and can go, after _idle_ttl: burst / rate.
FillingMutant(age) == age * Rate * 2 < Burst
Filling(age) == age * Rate < Burst

BucketAt(time) ==
  Swept(bucket, time, {k \in DOMAIN bucket.seen : Filling(time - bucket.seen[k].last)})

Tokens(seen, key, time) ==
  IF key \in DOMAIN seen
  THEN Least(Burst, seen[key].tokens + (time - seen[key].last) * Rate)
  ELSE Burst

Allows(seen, key, time) == Tokens(seen, key, time) >= 1

Taken(seen, key, time) ==
  LET tokens == Tokens(seen, key, time)
  IN  Entered(seen, key, [tokens |-> IF Allows(seen, key, time) THEN tokens - 1 ELSE tokens,
                          last |-> time])

-----------------------------------------------------------------------------
(* Cooldown *)

CooldownAt(time) ==
  Swept(cooldown, time, {k \in DOMAIN cooldown.seen : time - cooldown.seen[k] < Window})

Ready(seen, key, time) == key \in DOMAIN seen => time - seen[key] >= Window

\* A refused call leaves the entry of the allowed one.
NotedMutant(seen, key, time) == Entered(seen, key, time)
Noted(seen, key, time) == IF Ready(seen, key, time) THEN Entered(seen, key, time) ELSE seen

-----------------------------------------------------------------------------

\* A call of either: it sweeps first, if that is due.
Call(key, gap) ==
  LET time == clock + gap
      b == BucketAt(time)
      c == CooldownAt(time)
  IN  /\ Len(calls) < MaxCalls
      /\ clock' = time
      /\ calls' = Append(calls, [key |-> key, at |-> time, allowed |-> Allows(b.seen, key, time),
                                 ready |-> Ready(c.seen, key, time)])
      /\ bucket' = [b EXCEPT !.seen = Taken(b.seen, key, time)]
      /\ cooldown' = [c EXCEPT !.seen = Noted(c.seen, key, time)]
      /\ unpruned' = [bucket |-> Taken(unpruned.bucket, key, time),
                      cooldown |-> Noted(unpruned.cooldown, key, time)]

\* What a limiter remembers is in its process.
Restart ==
  /\ Len(calls) = MaxCalls
  /\ clock' = 0 /\ calls' = << >> /\ bucket' = Limiter /\ cooldown' = Limiter
  /\ unpruned' = [bucket |-> Limiter.seen, cooldown |-> Limiter.seen]

LimitNext == Restart \/ \E key \in Keys, gap \in Gaps : Call(key, gap)

LimitSpec == LimitInit /\ [][LimitNext]_limitVars

-----------------------------------------------------------------------------
(* Properties *)

\* Forgetting full buckets changes no answer, however long after the last call the next one
\* comes; and between any two allowed calls of a key no more are allowed than the burst and
\* the refill meanwhile.
BucketHolds ==
  /\ \A k \in Keys, gap \in Gaps :
       LET time == clock + gap
       IN  Allows(BucketAt(time).seen, k, time) <=> Allows(unpruned.bucket, k, time)
  /\ \A k \in Keys :
       LET Allowed == {i \in DOMAIN calls : calls[i].key = k /\ calls[i].allowed} IN
       \A j \in Allowed : \A i \in Allowed \cap 1 .. j :
         Cardinality(Allowed \cap i .. j) <= Burst + Rate * (calls[j].at - calls[i].at)

\* Forgetting changes no answer of a cooldown either, and a call is refused exactly when one
\* less than a window before it was allowed: refused calls do not put the next one off.
CooldownHolds ==
  /\ \A k \in Keys, gap \in Gaps :
       LET time == clock + gap
       IN  Ready(CooldownAt(time).seen, k, time) <=> Ready(unpruned.cooldown, k, time)
  /\ \A j \in DOMAIN calls :
       ~calls[j].ready <=> \E i \in 1 .. j - 1 :
         /\ calls[i].key = calls[j].key /\ calls[i].ready
         /\ calls[j].at - calls[i].at < Window
=============================================================================
