-------------------------------- MODULE Poller --------------------------------
(***************************************************************************)
(* Workers poll feeds: each claims a batch of due feeds under a lease,      *)
(* fetches them concurrently, and records every result in a transaction of  *)
(* its own, which reschedules the feed and releases the lease.  A worker    *)
(* may die at any point, a request may ask for an immediate poll, and a     *)
(* poll may outlive its lease.                                              *)
(*                                                                          *)
(* next_check_at and claimed_until are relative to the database's now(), so *)
(* that the passage of time (Tick) leaves finitely many states.  Fetched    *)
(* content is left out (FeedLifecycle has the deletion of a feed under a    *)
(* poll); the feeds are fixed.                                              *)
(***************************************************************************)
EXTENDS Schedule, FiniteSets

CONSTANTS Feeds, Workers,
          Batch,            \* worker_claim_batch
          Lease,            \* worker_lease_s
          Drain,            \* the longest a worker is at work on one batch
          DefaultInterval,  \* feeds.check_interval_s of a new row
          RetryAfters,      \* Retry-After values servers send, 0 for none
          Refreshed,        \* feeds whose subscribers ask for an immediate poll
          Traces,           \* traceparents of requests that ask for a poll
          None,
          Window,           \* subscription_refresh_window_s
          Late,             \* bound: how long overdue is told apart
          MaxErrors,        \* bound: consecutive errors told apart
          MaxFaults         \* bound: crashes and failed transactions in a behaviour

ASSUME PollerAssumption ==
  /\ IsFiniteSet(Feeds)
  /\ Batch \in Nat \ {0} /\ Lease \in Nat \ {0} /\ Drain \in Nat
  /\ DefaultInterval \in Nat \ {0}
  /\ RetryAfters \subseteq Nat /\ Window \in Nat
  /\ None \notin Traces /\ Refreshed \subseteq Feeds
  /\ Late \in Nat /\ Cardinality(Feeds) <= Late /\ MaxFaults \in Nat
  /\ MaxErrors \in Nat \ {0} /\ BackoffInterval(MaxErrors) = Cap

VARIABLES next_check_at,     \* feeds.next_check_at - now()
          claimed_until,     \* feeds.claimed_until - now()
          check_interval_s,  \* the columns of the same names
          error_count,
          trace_ctx,
          task,              \* worker, feed -> the _run_one of its current batch
          cooldown,          \* how long until a feed may be refreshed again
          age,               \* worker -> how long ago it claimed its batch
          faults             \* crashes and failed transactions so far

row == <<next_check_at, claimed_until, check_interval_s, error_count, trace_ctx>>
vars == <<next_check_at, claimed_until, check_interval_s, error_count, trace_ctx,
          task, cooldown, age, faults>>

Released == -1
TraceCtx == Traces \cup {None}
Statuses == {"new_items", "no_new_items", "error"}

\* A task holds the row as the claim returned it and, once fetched, the result.
Tasks == [phase : {"none", "fetching", "fetched"},
          check_interval_s : Nat, error_count : Nat, trace_ctx : TraceCtx,
          status : Statuses \cup {None}, retry_after : RetryAfters \cup {0}]

NoTask == [phase |-> "none", check_interval_s |-> 0, error_count |-> 0, trace_ctx |-> None,
           status |-> None, retry_after |-> 0]

NewTask(f) ==
  [phase |-> "fetching", check_interval_s |-> check_interval_s[f],
   error_count |-> error_count[f], trace_ctx |-> trace_ctx[f],
   status |-> None, retry_after |-> 0]

Init ==
  /\ next_check_at = [f \in Feeds |-> 0]
  /\ claimed_until = [f \in Feeds |-> Released]
  /\ check_interval_s = [f \in Feeds |-> DefaultInterval]
  /\ error_count = [f \in Feeds |-> 0]
  /\ trace_ctx \in [Feeds -> TraceCtx]
  /\ task = [w \in Workers |-> [f \in Feeds |-> NoTask]]
  /\ cooldown = [f \in Feeds |-> 0]
  /\ age = [w \in Workers |-> 0]
  /\ faults = 0

Polling(w, f) == task[w][f].phase # "none"
Busy(w) == \E f \in Feeds : Polling(w, f)

ClaimableMutant(f) == next_check_at[f] <= 0 /\ claimed_until[f] <= 0
Claimable(f) == next_check_at[f] <= 0 /\ claimed_until[f] < 0

\* ORDER BY next_check_at LIMIT Batch.
DueBatchMutant(fs) ==
  LET due == {f \in Feeds : Claimable(f)} IN
  fs \subseteq due /\ Cardinality(fs) = Smaller(Batch, Cardinality(due))
DueBatch(fs) ==
  LET due == {f \in Feeds : Claimable(f)} IN
  /\ fs \subseteq due
  /\ Cardinality(fs) = Smaller(Batch, Cardinality(due))
  /\ \A f \in fs, g \in due \ fs : next_check_at[f] <= next_check_at[g]

\* poll_once claims when the batch before is done.  The claim is one UPDATE whose
\* subselect locks the rows, so two claims never take the same one.
Claim(w) ==
  /\ ~Busy(w)
  /\ \E fs \in SUBSET Feeds :
       /\ fs # {} /\ DueBatch(fs)
       /\ claimed_until' = [f \in Feeds |-> IF f \in fs THEN Lease ELSE claimed_until[f]]
       /\ task' = [task EXCEPT ![w] = [f \in Feeds |->
            IF f \in fs THEN NewTask(f) ELSE NoTask]]
  /\ age' = [age EXCEPT ![w] = 0]
  /\ UNCHANGED <<next_check_at, check_interval_s, error_count, trace_ctx, cooldown, faults>>

\* The fetch ends: with a body or a 304, or with an error and maybe a Retry-After.
Fetch(w, f) ==
  /\ task[w][f].phase = "fetching"
  /\ \E status \in Statuses, retryAfter \in RetryAfters \cup {0} :
       /\ status # "error" => retryAfter = 0
       /\ task' = [task EXCEPT ![w][f].phase = "fetched", ![w][f].status = status,
                               ![w][f].retry_after = retryAfter]
  /\ UNCHANGED <<row, cooldown, age, faults>>

Done(w, f) == task' = [task EXCEPT ![w][f] = NoTask] /\ UNCHANGED <<cooldown, age, faults>>

\* What every recorded poll does to the row besides its schedule.
Release(f) ==
  /\ claimed_until' = [claimed_until EXCEPT ![f] = Released]
  /\ trace_ctx' = [trace_ctx EXCEPT ![f] = None]

\* record_success and record_not_modified.  The interval is the one the claim returned.
RecordPoll(w, f) ==
  LET t == task[w][f]
      interval == AdaptiveInterval(t.check_interval_s, t.status = "new_items")
  IN  /\ t.phase = "fetched" /\ t.status \in {"new_items", "no_new_items"}
      /\ next_check_at' = [next_check_at EXCEPT ![f] = interval]
      /\ check_interval_s' = [check_interval_s EXCEPT ![f] = interval]
      /\ error_count' = [error_count EXCEPT ![f] = 0]
      /\ Release(f) /\ Done(w, f)

\* record_error.  The delay comes from the count the claim returned, the new count from
\* the row; counts past MaxErrors are not told apart (the delay is Cap from there on).
RecordErrorMutant(w, f) ==
  LET t == task[w][f] IN
  /\ t.phase = "fetched" /\ t.status = "error"
  /\ next_check_at' = [next_check_at EXCEPT ![f] = ErrorDelay(t.error_count, t.retry_after)]
  /\ error_count' = [error_count EXCEPT ![f] = Smaller(@ + 1, MaxErrors)]
  /\ Release(f) /\ Done(w, f)
  /\ UNCHANGED check_interval_s
RecordError(w, f) ==
  LET t == task[w][f] IN
  /\ t.phase = "fetched" /\ t.status = "error"
  /\ next_check_at' =
       [next_check_at EXCEPT ![f] = ErrorDelay(t.error_count + 1, t.retry_after)]
  /\ error_count' = [error_count EXCEPT ![f] = Smaller(@ + 1, MaxErrors)]
  /\ Release(f) /\ Done(w, f)
  /\ UNCHANGED check_interval_s

\* _run_one ends in an exception: nothing is recorded and the lease stays.
Fail(w, f) ==
  /\ Polling(w, f) /\ faults < MaxFaults
  /\ task' = [task EXCEPT ![w][f] = NoTask]
  /\ faults' = faults + 1
  /\ UNCHANGED <<row, cooldown, age>>

\* The worker process dies and is started again.
Crash(w) ==
  /\ Busy(w) /\ faults < MaxFaults
  /\ task' = [task EXCEPT ![w] = [f \in Feeds |-> NoTask]]
  /\ faults' = faults + 1
  /\ UNCHANGED <<row, cooldown, age>>

\* request_immediate_check, unless the feed was refreshed too recently, with the
\* request's traceparent, or without one when telemetry is off.  Window 0 stands for any
\* number of API processes: each has a cooldown of its own.
Refresh(f, trace) ==
  /\ cooldown[f] = 0
  /\ cooldown' = [cooldown EXCEPT ![f] = Window]
  /\ next_check_at' = [next_check_at EXCEPT ![f] = 0]
  /\ trace_ctx' = [trace_ctx EXCEPT ![f] = trace]
  /\ UNCHANGED <<claimed_until, check_interval_s, error_count, task, age, faults>>

\* Overdue feeds keep their order; how late they are is told apart up to Late.
Earlier(f) == Cardinality({g \in Feeds : next_check_at[g] < next_check_at[f]})

Tick ==
  /\ \A w \in Workers : Busy(w) => age[w] < Drain
  /\ next_check_at' = [f \in Feeds |-> Larger(next_check_at[f] - 1, Earlier(f) - Late)]
  /\ claimed_until' = [f \in Feeds |-> Larger(claimed_until[f] - 1, Released)]
  /\ cooldown' = [f \in Feeds |-> Larger(cooldown[f] - 1, 0)]
  /\ age' = [w \in Workers |-> IF Busy(w) THEN age[w] + 1 ELSE 0]
  /\ UNCHANGED <<check_interval_s, error_count, trace_ctx, task, faults>>

Persist(w, f) == RecordPoll(w, f) \/ RecordError(w, f)

Next ==
  \/ \E w \in Workers : \/ Claim(w) \/ Crash(w)
                        \/ \E f \in Feeds : Fetch(w, f) \/ Persist(w, f) \/ Fail(w, f)
  \/ \E f \in Refreshed, trace \in TraceCtx : Refresh(f, trace)
  \/ Tick

Spec == Init /\ [][Next]_vars

\* The claim loop never stops, a fetch ends by its timeout, and time passes.
Fairness ==
  /\ \A w \in Workers : WF_vars(Claim(w))
  /\ \A w \in Workers, f \in Feeds : WF_vars(Fetch(w, f)) /\ WF_vars(Persist(w, f))
  /\ WF_vars(Tick)
FairSpec == Spec /\ Fairness

-----------------------------------------------------------------------------
(* Properties *)

\* Every column and every task has a value of its type.
TypeOK ==
  /\ next_check_at \in [Feeds -> Int]
  /\ claimed_until \in [Feeds -> Released .. Lease]
  /\ check_interval_s \in [Feeds -> Nat]
  /\ error_count \in [Feeds -> 0 .. MaxErrors]
  /\ trace_ctx \in [Feeds -> TraceCtx]
  /\ task \in [Workers -> [Feeds -> Tasks]]
  /\ cooldown \in [Feeds -> 0 .. Window]
  /\ age \in [Workers -> Nat]
  /\ faults \in 0 .. MaxFaults

\* Two workers never poll one feed at the same time.
ClaimsDisjoint ==
  \A f \in Feeds, v, w \in Workers : Polling(v, f) /\ Polling(w, f) => v = w

\* What a poll read when it claimed the feed is what the row still has when it records:
\* no other poll has recorded in between.
SnapshotsCurrent ==
  \A w \in Workers, f \in Feeds : Polling(w, f) =>
    /\ task[w][f].error_count = error_count[f]
    /\ task[w][f].check_interval_s = check_interval_s[f]

\* The delay after an error is the backoff of the error count the row ends up with.
BackoffFollowsCount ==
  [][\A f \in Feeds : error_count'[f] > error_count[f] =>
       next_check_at'[f] >= BackoffInterval(error_count'[f])]_vars

\* A due feed that is not refreshed is polled and rescheduled, although workers die, transactions fail
\* and more feeds are due than a batch holds.
DueFeedsPolled == \A f \in Feeds \ Refreshed : next_check_at[f] <= 0 ~> next_check_at[f] > 0

-----------------------------------------------------------------------------
(* The inductive invariant behind ClaimsDisjoint, when no poll outlives its lease *)

\* A poll holds its lease until it records: the lease runs out Lease after the claim.
LeasesHeld ==
  \A w \in Workers, f \in Feeds : Polling(w, f) =>
    age[w] <= Drain /\ claimed_until[f] >= Lease - age[w]

IInv == TypeOK /\ ClaimsDisjoint /\ LeasesHeld /\ SnapshotsCurrent
=============================================================================
