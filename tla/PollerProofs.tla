----------------------------- MODULE PollerProofs -----------------------------
(***************************************************************************)
(* Bounds on the schedule, and: when every worker drains a batch within its *)
(* lease, no two workers poll one feed at the same time and no poll records *)
(* over another, for any number of feeds and workers.                       *)
(***************************************************************************)
EXTENDS Poller, FiniteSetTheorems, TLAPS

-----------------------------------------------------------------------------
(* The schedule *)

\* A successful poll schedules the next one within the bounds, whatever the interval was.
LEMMA AdaptiveBounds ==
  ASSUME NEW current \in Nat, NEW gotNewItems \in BOOLEAN
  PROVE  AdaptiveInterval(current, gotNewItems) \in Floor .. Ceil
BY ScheduleAssumption DEF AdaptiveInterval, Smaller, Larger

\* The backoff is a delay no longer than the cap.
LEMMA BackoffBounds ==
  ASSUME NEW errorCount \in Nat
  PROVE  BackoffInterval(errorCount) \in 0 .. Cap
<1>1. CASE errorCount = 0
  BY <1>1, ScheduleAssumption DEF BackoffInterval
<1>2. CASE errorCount > 0
  <2>1. Smaller(errorCount - 1, MaxShift) \in 0 .. MaxShift
    BY <1>2, ScheduleAssumption DEF Smaller
  <2>2. Doublings[Smaller(errorCount - 1, MaxShift)] \in Nat
    BY <2>1, ScheduleAssumption
  <2>3. \A d \in Nat : Base * d \in Nat
    BY ScheduleAssumption
  <2> QED BY <1>2, <2>2, <2>3, ScheduleAssumption DEF BackoffInterval, Smaller
<1> QED BY <1>1, <1>2

\* One error more at least doubles the delay, until the cap or the largest shift.
LEMMA BackoffDoubles ==
  ASSUME NEW errorCount \in 1 .. MaxShift
  PROVE  BackoffInterval(errorCount + 1) = Smaller(Cap, 2 * BackoffInterval(errorCount))
<1>1. Doublings[errorCount] = 2 * Doublings[errorCount - 1]
      /\ Doublings[errorCount - 1] \in Nat
  BY ScheduleAssumption
<1>2. /\ BackoffInterval(errorCount) = Smaller(Cap, Base * Doublings[errorCount - 1])
      /\ BackoffInterval(errorCount + 1) = Smaller(Cap, Base * Doublings[errorCount])
  BY ScheduleAssumption DEF BackoffInterval, Smaller
<1>3. \A d \in Nat : Base * (2 * d) = 2 * (Base * d) /\ Base * d \in Nat
  BY ScheduleAssumption
<1> QED BY <1>1, <1>2, <1>3, ScheduleAssumption, SMTT(30) DEF Smaller

\* A failed poll waits at least the backoff and no longer than the cap, and at least as
\* long as the server's Retry-After asks when that is within the cap.
THEOREM ErrorDelayBounds ==
  ASSUME NEW errorCount \in Nat, NEW retryAfter \in Nat
  PROVE  LET delay == ErrorDelay(errorCount, retryAfter) IN
         /\ delay \in BackoffInterval(errorCount) .. Cap
         /\ retryAfter <= Cap => delay >= retryAfter
<1>1. BackoffInterval(errorCount) \in 0 .. Cap
  BY BackoffBounds
<1>2. Cap \in Nat
  BY ScheduleAssumption
<1> QED BY <1>1, <1>2 DEF ErrorDelay, Smaller, Larger

-----------------------------------------------------------------------------
(* The inductive invariant *)

\* No Retry-After is a wait of 0.
LEMMA RetryAfterNat == \A r \in RetryAfters \cup {0} : r \in Nat
<1>1. RetryAfters \subseteq Nat
  BY PollerAssumption
<1> QED BY <1>1

\* A new deployment: no worker polls anything.
LEMMA InitInv == Init => IInv
<1> SUFFICES ASSUME Init PROVE IInv
  OBVIOUS
<1>1. NoTask \in Tasks
  BY DEF NoTask, Tasks, TraceCtx
<1>2. \A w \in Workers, f \in Feeds : ~Polling(w, f)
  BY DEF Init, Polling, NoTask
<1>3. TypeOK
  BY <1>1, PollerAssumption DEF Init, TypeOK, Released
<1> QED BY <1>2, <1>3 DEF IInv, ClaimsDisjoint, LeasesHeld, SnapshotsCurrent

\* The lease of a feed under a poll has not run out, so the feed is not claimable.
LEMMA LeasedNotClaimable ==
  ASSUME Drain <= Lease, IInv, NEW w \in Workers, NEW f \in Feeds, Polling(w, f)
  PROVE  ~Claimable(f)
<1>1. age[w] <= Drain /\ claimed_until[f] >= Lease - age[w]
  BY DEF IInv, LeasesHeld
<1>2. age[w] \in Nat /\ claimed_until[f] \in Int
  BY PollerAssumption DEF IInv, TypeOK, Released
<1> QED BY <1>1, <1>2, PollerAssumption DEF Claimable

\* The tasks a claim starts hold values of the right types.
LEMMA ClaimType ==
  ASSUME TypeOK, NEW w \in Workers, Claim(w)
  PROVE  TypeOK'
<1>1. PICK fs \in SUBSET Feeds :
        /\ claimed_until' = [f \in Feeds |-> IF f \in fs THEN Lease ELSE claimed_until[f]]
        /\ task' = [task EXCEPT ![w] = [f \in Feeds |-> IF f \in fs THEN NewTask(f) ELSE NoTask]]
  BY DEF Claim
<1>2. ASSUME NEW f \in Feeds
      PROVE  NewTask(f) \in Tasks
  BY PollerAssumption DEF TypeOK, Tasks, NewTask
<1>3. NoTask \in Tasks
  BY DEF NoTask, Tasks, TraceCtx
<1>4. task' \in [Workers -> [Feeds -> Tasks]]
  BY <1>1, <1>2, <1>3 DEF TypeOK
<1>5. claimed_until' \in [Feeds -> Released .. Lease]
  BY <1>1, PollerAssumption DEF TypeOK, Released
<1>6. age' \in [Workers -> Nat]
  BY DEF TypeOK, Claim
<1> QED BY <1>4, <1>5, <1>6 DEF TypeOK, Claim

\* A claim takes feeds no worker is polling.
LEMMA ClaimInv ==
  ASSUME Drain <= Lease, IInv, NEW w \in Workers, Claim(w)
  PROVE  IInv'
<1>1. PICK fs \in SUBSET Feeds :
        /\ DueBatch(fs)
        /\ claimed_until' = [f \in Feeds |-> IF f \in fs THEN Lease ELSE claimed_until[f]]
        /\ task' = [task EXCEPT ![w] = [f \in Feeds |-> IF f \in fs THEN NewTask(f) ELSE NoTask]]
  BY DEF Claim
<1>2. \A f \in fs : Claimable(f)
  BY <1>1 DEF DueBatch
<1>3. \A v \in Workers, f \in fs : ~Polling(v, f)
  BY <1>1, <1>2, LeasedNotClaimable
<1>4. TypeOK'
  BY ClaimType DEF IInv
<1>5. task \in [Workers -> [Feeds -> Tasks]]
  BY DEF IInv, TypeOK
<1>6. \A f \in Feeds : Polling(w, f)' <=> f \in fs
  <2>1. \A f \in Feeds : task'[w][f] = IF f \in fs THEN NewTask(f) ELSE NoTask
    BY <1>1, <1>5
  <2>2. \A f \in Feeds : NewTask(f).phase = "fetching" /\ NoTask.phase = "none"
    BY DEF NewTask, NoTask
  <2>3. \A f \in Feeds : Polling(w, f)' <=> task'[w][f].phase # "none"
    BY DEF Polling
  <2> QED BY <2>1, <2>2, <2>3
<1>7. \A v \in Workers \ {w}, f \in Feeds : task'[v][f] = task[v][f]
  BY <1>1, <1>5
<1>8. \A v \in Workers \ {w}, f \in Feeds :
        Polling(v, f)' => Polling(v, f) /\ f \notin fs
  BY <1>3, <1>7 DEF Polling
<1>9. ClaimsDisjoint'
  BY <1>6, <1>8 DEF ClaimsDisjoint, IInv
<1>10. age'[w] = 0 /\ \A v \in Workers \ {w} : age'[v] = age[v]
  BY DEF Claim, IInv, TypeOK
<1>11. LeasesHeld'
  <2> SUFFICES ASSUME NEW v \in Workers, NEW f \in Feeds, Polling(v, f)'
               PROVE  age'[v] <= Drain /\ claimed_until'[f] >= Lease - age'[v]
    BY DEF LeasesHeld
  <2>1. CASE v = w
    BY <2>1, <1>1, <1>6, <1>10, PollerAssumption
  <2>2. CASE v # w
    BY <2>2, <1>1, <1>8, <1>10 DEF IInv, LeasesHeld
  <2> QED BY <2>1, <2>2
<1>12. \A f \in fs : /\ task'[w][f].error_count = error_count[f]
                     /\ task'[w][f].check_interval_s = check_interval_s[f]
  BY <1>1, <1>5 DEF NewTask
<1>13. error_count' = error_count /\ check_interval_s' = check_interval_s
  BY DEF Claim
<1>14. SnapshotsCurrent'
  <2> SUFFICES ASSUME NEW v \in Workers, NEW f \in Feeds, Polling(v, f)'
               PROVE  /\ task'[v][f].error_count = error_count[f]
                      /\ task'[v][f].check_interval_s = check_interval_s[f]
    BY <1>13 DEF SnapshotsCurrent
  <2>1. CASE v = w
    BY <2>1, <1>6, <1>12
  <2>2. CASE v # w
    BY <2>2, <1>7, <1>8 DEF IInv, SnapshotsCurrent
  <2> QED BY <2>1, <2>2
<1> QED BY <1>4, <1>9, <1>11, <1>14 DEF IInv

\* The end of a task changes at most the row of its feed, which no other worker polls.
LEMMA TaskEnds ==
  ASSUME IInv, NEW w \in Workers, NEW f \in Feeds, Polling(w, f),
         task' = [task EXCEPT ![w][f] = NoTask], age' = age,
         \A g \in Feeds \ {f} : /\ claimed_until'[g] = claimed_until[g]
                                /\ error_count'[g] = error_count[g]
                                /\ check_interval_s'[g] = check_interval_s[g]
  PROVE  /\ task' \in [Workers -> [Feeds -> Tasks]]
         /\ ClaimsDisjoint' /\ LeasesHeld' /\ SnapshotsCurrent'
<1>1. task \in [Workers -> [Feeds -> Tasks]] /\ NoTask \in Tasks
  BY DEF IInv, TypeOK, NoTask, Tasks, TraceCtx
<1>2. task' \in [Workers -> [Feeds -> Tasks]]
  BY <1>1
<1>3. task'[w][f] = NoTask
  BY <1>1
<1>4. \A v \in Workers, g \in Feeds : v # w \/ g # f => task'[v][g] = task[v][g]
  BY <1>1
<1>5. \A v \in Workers, g \in Feeds : Polling(v, g)' <=> task'[v][g].phase # "none"
  BY DEF Polling
<1>6. ~Polling(w, f)'
  BY <1>3, <1>5 DEF NoTask
<1>7. \A v \in Workers, g \in Feeds :
        Polling(v, g)' => Polling(v, g) /\ task'[v][g] = task[v][g]
  BY <1>4, <1>5, <1>6 DEF Polling
<1>8. \A v \in Workers, g \in Feeds : Polling(v, g)' => g # f
  <2> SUFFICES ASSUME NEW v \in Workers, Polling(v, f)' PROVE FALSE
    OBVIOUS
  <2>1. v = w
    BY <1>7 DEF IInv, ClaimsDisjoint
  <2> QED BY <2>1, <1>6
<1>9. ClaimsDisjoint'
  BY <1>7 DEF IInv, ClaimsDisjoint
<1>10. LeasesHeld'
  BY <1>7, <1>8 DEF IInv, LeasesHeld
<1>11. SnapshotsCurrent'
  BY <1>7, <1>8 DEF IInv, SnapshotsCurrent
<1> QED BY <1>2, <1>9, <1>10, <1>11

\* A recorded poll releases a lease that only its own worker relied on.
LEMMA RecordPollInv ==
  ASSUME IInv, NEW w \in Workers, NEW f \in Feeds, RecordPoll(w, f)
  PROVE  IInv'
<1> DEFINE t == task[w][f]
           interval == AdaptiveInterval(t.check_interval_s, t.status = "new_items")
<1>1. TypeOK
  BY DEF IInv
<1>2. t \in Tasks
  BY <1>1 DEF TypeOK
<1>3. t.check_interval_s \in Nat
  BY <1>2 DEF Tasks
<1>4. (t.status = "new_items") \in BOOLEAN
  OBVIOUS
<1>5. interval \in Floor .. Ceil
  BY <1>3, <1>4, AdaptiveBounds
<1>6. /\ next_check_at' = [next_check_at EXCEPT ![f] = interval]
      /\ check_interval_s' = [check_interval_s EXCEPT ![f] = interval]
      /\ error_count' = [error_count EXCEPT ![f] = 0]
      /\ claimed_until' = [claimed_until EXCEPT ![f] = Released]
      /\ trace_ctx' = [trace_ctx EXCEPT ![f] = None]
      /\ task' = [task EXCEPT ![w][f] = NoTask]
      /\ age' = age /\ faults' = faults /\ cooldown' = cooldown
      /\ t.phase = "fetched"
  BY DEF RecordPoll, Release, Done
<1> HIDE DEF interval
<1>7. Polling(w, f)
  BY <1>6 DEF Polling
<1>8. /\ task' \in [Workers -> [Feeds -> Tasks]]
      /\ ClaimsDisjoint' /\ LeasesHeld' /\ SnapshotsCurrent'
  BY <1>1, <1>6, <1>7, TaskEnds DEF TypeOK
<1>9. TypeOK'
  <2>1. next_check_at' \in [Feeds -> Int] /\ check_interval_s' \in [Feeds -> Nat]
    BY <1>1, <1>5, <1>6, ScheduleAssumption DEF TypeOK
  <2>2. claimed_until' \in [Feeds -> Released .. Lease]
    BY <1>1, <1>6, PollerAssumption DEF TypeOK, Released
  <2>3. error_count' \in [Feeds -> 0 .. MaxErrors] /\ trace_ctx' \in [Feeds -> TraceCtx]
    BY <1>1, <1>6, PollerAssumption DEF TypeOK, TraceCtx
  <2> QED BY <1>1, <1>6, <1>8, <2>1, <2>2, <2>3 DEF TypeOK
<1> QED BY <1>8, <1>9 DEF IInv

\* So does a recorded error.
LEMMA RecordErrorInv ==
  ASSUME IInv, NEW w \in Workers, NEW f \in Feeds, RecordError(w, f)
  PROVE  IInv'
<1> DEFINE t == task[w][f]
           delay == ErrorDelay(t.error_count + 1, t.retry_after)
<1>1. TypeOK
  BY DEF IInv
<1>2. t \in Tasks
  BY <1>1 DEF TypeOK
<1>3. t.error_count \in Nat /\ t.retry_after \in RetryAfters \cup {0}
  BY <1>2 DEF Tasks
<1>4. delay \in Int
  <2>1. t.error_count + 1 \in Nat /\ t.retry_after \in Nat
    BY <1>3, RetryAfterNat
  <2>2. BackoffInterval(t.error_count + 1) \in 0 .. Cap
    BY <2>1, BackoffBounds
  <2>3. delay \in BackoffInterval(t.error_count + 1) .. Cap
    BY <2>1, ErrorDelayBounds
  <2> QED BY <2>2, <2>3, ScheduleAssumption
<1>5. /\ next_check_at' = [next_check_at EXCEPT ![f] = delay]
      /\ check_interval_s' = check_interval_s
      /\ error_count' = [error_count EXCEPT ![f] = Smaller(@ + 1, MaxErrors)]
      /\ claimed_until' = [claimed_until EXCEPT ![f] = Released]
      /\ trace_ctx' = [trace_ctx EXCEPT ![f] = None]
      /\ task' = [task EXCEPT ![w][f] = NoTask]
      /\ age' = age /\ faults' = faults /\ cooldown' = cooldown
      /\ t.phase = "fetched"
  BY DEF RecordError, Release, Done
<1> HIDE DEF delay
<1>6. Polling(w, f)
  BY <1>5 DEF Polling
<1>7. /\ task' \in [Workers -> [Feeds -> Tasks]]
      /\ ClaimsDisjoint' /\ LeasesHeld' /\ SnapshotsCurrent'
  BY <1>1, <1>5, <1>6, TaskEnds DEF TypeOK
<1>8. Smaller(error_count[f] + 1, MaxErrors) \in 0 .. MaxErrors
  BY <1>1, PollerAssumption DEF TypeOK, Smaller
<1>9. TypeOK'
  BY <1>1, <1>4, <1>5, <1>7, <1>8, PollerAssumption DEF TypeOK, Released, TraceCtx
<1> QED BY <1>7, <1>9 DEF IInv

\* A task that fails leaves the row alone.
LEMMA FailInv ==
  ASSUME IInv, NEW w \in Workers, NEW f \in Feeds, Fail(w, f)
  PROVE  IInv'
<1>1. TypeOK
  BY DEF IInv
<1>2. /\ task' = [task EXCEPT ![w][f] = NoTask] /\ Polling(w, f)
      /\ faults < MaxFaults /\ faults' = faults + 1
      /\ UNCHANGED <<row, cooldown, age>>
  BY DEF Fail
<1>3. /\ task' \in [Workers -> [Feeds -> Tasks]]
      /\ ClaimsDisjoint' /\ LeasesHeld' /\ SnapshotsCurrent'
  BY <1>2, TaskEnds DEF row, IInv
<1>4. TypeOK'
  BY <1>1, <1>2, <1>3, PollerAssumption DEF TypeOK, row
<1> QED BY <1>3, <1>4 DEF IInv

\* A crash ends every task of one worker.
LEMMA CrashInv ==
  ASSUME IInv, NEW w \in Workers, Crash(w)
  PROVE  IInv'
<1>1. TypeOK
  BY DEF IInv
<1>2. /\ task' = [task EXCEPT ![w] = [f \in Feeds |-> NoTask]]
      /\ faults < MaxFaults /\ faults' = faults + 1
      /\ UNCHANGED <<row, cooldown, age>>
  BY DEF Crash
<1>3. task \in [Workers -> [Feeds -> Tasks]] /\ NoTask \in Tasks
  BY <1>1 DEF TypeOK, NoTask, Tasks, TraceCtx
<1>4. TypeOK'
  BY <1>1, <1>2, <1>3, PollerAssumption DEF TypeOK, row
<1>5. \A f \in Feeds : task'[w][f] = NoTask
  BY <1>2, <1>3
<1>6. \A v \in Workers \ {w}, f \in Feeds : task'[v][f] = task[v][f]
  BY <1>2, <1>3
<1>7. \A v \in Workers, f \in Feeds : Polling(v, f)' <=> task'[v][f].phase # "none"
  BY DEF Polling
<1>8. \A v \in Workers, f \in Feeds :
        Polling(v, f)' => Polling(v, f) /\ task'[v][f] = task[v][f]
  BY <1>5, <1>6, <1>7 DEF Polling, NoTask
<1>9. /\ claimed_until' = claimed_until /\ age' = age
      /\ error_count' = error_count /\ check_interval_s' = check_interval_s
  BY <1>2 DEF row
<1> QED
  BY <1>4, <1>8, <1>9 DEF IInv, ClaimsDisjoint, LeasesHeld, SnapshotsCurrent

\* The end of a fetch keeps what the task read at its claim.
LEMMA FetchInv ==
  ASSUME IInv, NEW w \in Workers, NEW f \in Feeds, Fetch(w, f)
  PROVE  IInv'
<1>1. TypeOK
  BY DEF IInv
<1>2. PICK status \in Statuses, retryAfter \in RetryAfters \cup {0} :
        task' = [task EXCEPT ![w][f].phase = "fetched", ![w][f].status = status,
                             ![w][f].retry_after = retryAfter]
  BY DEF Fetch
<1>3. /\ task \in [Workers -> [Feeds -> Tasks]] /\ task[w][f] \in Tasks
      /\ task[w][f].phase = "fetching"
      /\ UNCHANGED <<row, cooldown, age, faults>>
  BY <1>1 DEF TypeOK, Fetch
<1> DEFINE new == [task[w][f] EXCEPT !.phase = "fetched", !.status = status,
                                     !.retry_after = retryAfter]
<1>4. new \in Tasks
  BY <1>3 DEF Tasks
<1>5. /\ new.error_count = task[w][f].error_count
      /\ new.check_interval_s = task[w][f].check_interval_s
  BY <1>3 DEF Tasks
<1>6. task' = [task EXCEPT ![w][f] = new]
  BY <1>2, <1>3
<1> HIDE DEF new
<1>7. TypeOK'
  <2>1. task' \in [Workers -> [Feeds -> Tasks]]
    BY <1>3, <1>4, <1>6
  <2> QED BY <1>1, <1>3, <2>1 DEF TypeOK, row
<1>8. \A v \in Workers, g \in Feeds : v # w \/ g # f => task'[v][g] = task[v][g]
  BY <1>3, <1>6
<1>9. task'[w][f] = new
  BY <1>3, <1>6
<1>10. \A v \in Workers, g \in Feeds : Polling(v, g)' <=> task'[v][g].phase # "none"
  BY DEF Polling
<1>11. \A v \in Workers, g \in Feeds : Polling(v, g)' =>
         /\ Polling(v, g)
         /\ task'[v][g].error_count = task[v][g].error_count
         /\ task'[v][g].check_interval_s = task[v][g].check_interval_s
  BY <1>3, <1>5, <1>8, <1>9, <1>10 DEF Polling
<1>12. /\ claimed_until' = claimed_until /\ age' = age
       /\ error_count' = error_count /\ check_interval_s' = check_interval_s
  BY <1>3 DEF row
<1> QED
  BY <1>7, <1>11, <1>12 DEF IInv, ClaimsDisjoint, LeasesHeld, SnapshotsCurrent

\* A refresh touches no lease and nothing a claim reads but the trace.
LEMMA RefreshInv ==
  ASSUME IInv, NEW f \in Refreshed, NEW trace \in TraceCtx, Refresh(f, trace)
  PROVE  IInv'
<1>1. /\ claimed_until' = claimed_until /\ age' = age /\ task' = task
      /\ error_count' = error_count /\ check_interval_s' = check_interval_s
      /\ faults' = faults /\ cooldown' = [cooldown EXCEPT ![f] = Window]
      /\ next_check_at' = [next_check_at EXCEPT ![f] = 0]
      /\ trace_ctx' = [trace_ctx EXCEPT ![f] = trace]
  BY DEF Refresh
<1>2. TypeOK'
  <2>1. next_check_at' \in [Feeds -> Int]
    <3>1. f \in Feeds /\ next_check_at \in [Feeds -> Int]
      BY PollerAssumption DEF IInv, TypeOK
    <3>2. \A i \in Feeds : next_check_at'[i] = 0 \/ next_check_at'[i] = next_check_at[i]
      BY <1>1, <3>1
    <3> QED BY <1>1, <3>1, <3>2
  <2>2. trace_ctx' \in [Feeds -> TraceCtx]
    BY <1>1 DEF IInv, TypeOK
  <2>3. cooldown' \in [Feeds -> 0 .. Window]
    BY <1>1, PollerAssumption DEF IInv, TypeOK
  <2> QED BY <1>1, <2>1, <2>2, <2>3 DEF IInv, TypeOK
<1>3. \A v \in Workers, g \in Feeds : Polling(v, g)' <=> Polling(v, g)
  BY <1>1 DEF Polling
<1> QED BY <1>1, <1>2, <1>3 DEF IInv, ClaimsDisjoint, LeasesHeld, SnapshotsCurrent

\* Time runs a lease down as fast as it ages the batch.
LEMMA TickInv ==
  ASSUME IInv, Drain <= Lease, Tick
  PROVE  IInv'
<1>1. TypeOK
  BY DEF IInv
<1>2. /\ \A w \in Workers : Busy(w) => age[w] < Drain
      /\ next_check_at' = [f \in Feeds |-> Larger(next_check_at[f] - 1, Earlier(f) - Late)]
      /\ claimed_until' = [f \in Feeds |-> Larger(claimed_until[f] - 1, Released)]
      /\ cooldown' = [f \in Feeds |-> Larger(cooldown[f] - 1, 0)]
      /\ age' = [w \in Workers |-> IF Busy(w) THEN age[w] + 1 ELSE 0]
      /\ UNCHANGED <<check_interval_s, error_count, trace_ctx, task, faults>>
  BY DEF Tick
<1>3. \A f \in Feeds : Earlier(f) \in Nat
  <2> SUFFICES ASSUME NEW f \in Feeds PROVE Earlier(f) \in Nat
    OBVIOUS
  <2>1. IsFiniteSet({g \in Feeds : next_check_at[g] < next_check_at[f]})
    BY PollerAssumption, FS_Subset
  <2> QED BY <2>1, FS_CardinalityType DEF Earlier
<1>4. TypeOK'
  <2>1. next_check_at' \in [Feeds -> Int]
    BY <1>1, <1>2, <1>3, PollerAssumption DEF TypeOK, Larger
  <2>2. claimed_until' \in [Feeds -> Released .. Lease]
    BY <1>1, <1>2, PollerAssumption DEF TypeOK, Larger, Released
  <2>3. age' \in [Workers -> Nat]
    BY <1>1, <1>2 DEF TypeOK
  <2>4. cooldown' \in [Feeds -> 0 .. Window]
    BY <1>1, <1>2, PollerAssumption DEF TypeOK, Larger
  <2> QED BY <1>1, <1>2, <2>1, <2>2, <2>3, <2>4 DEF TypeOK
<1>5. \A v \in Workers, f \in Feeds : Polling(v, f)' <=> Polling(v, f)
  BY <1>2 DEF Polling
<1>6. LeasesHeld'
  <2> SUFFICES ASSUME NEW w \in Workers, NEW f \in Feeds, Polling(w, f)
               PROVE  age'[w] <= Drain /\ claimed_until'[f] >= Lease - age'[w]
    BY <1>5 DEF LeasesHeld
  <2>1. age'[w] = age[w] + 1 /\ age[w] < Drain
    BY <1>2 DEF Busy
  <2>2. claimed_until[f] >= Lease - age[w]
    BY DEF IInv, LeasesHeld
  <2>3. claimed_until'[f] >= claimed_until[f] - 1
    BY <1>1, <1>2, PollerAssumption DEF TypeOK, Larger, Released
  <2>4. /\ age[w] \in Nat /\ claimed_until[f] \in Int /\ claimed_until'[f] \in Int
        /\ Lease \in Nat /\ Drain \in Nat
    BY <1>1, <1>4, PollerAssumption DEF TypeOK, Released
  <2> QED BY <2>1, <2>2, <2>3, <2>4
<1> QED BY <1>2, <1>4, <1>5, <1>6 DEF IInv, ClaimsDisjoint, SnapshotsCurrent

\* Every step keeps the invariant.
LEMMA NextInv ==
  ASSUME Drain <= Lease, IInv, [Next]_vars
  PROVE  IInv'
<1>1. CASE UNCHANGED vars
  <2>1. /\ UNCHANGED <<next_check_at, claimed_until, check_interval_s, error_count>>
        /\ UNCHANGED <<trace_ctx, task, cooldown, age, faults>>
    BY <1>1 DEF vars
  <2>2. \A v \in Workers, f \in Feeds : Polling(v, f)' <=> Polling(v, f)
    BY <2>1 DEF Polling
  <2> QED
    BY <2>1, <2>2 DEF IInv, TypeOK, ClaimsDisjoint, LeasesHeld, SnapshotsCurrent
<1>2. CASE \E w \in Workers : Claim(w)
  BY <1>2, ClaimInv
<1>3. CASE \E w \in Workers : Crash(w)
  BY <1>3, CrashInv
<1>4. CASE \E w \in Workers, f \in Feeds : Fetch(w, f)
  BY <1>4, FetchInv
<1>5. CASE \E w \in Workers, f \in Feeds : Persist(w, f)
  BY <1>5, RecordPollInv, RecordErrorInv DEF Persist
<1>6. CASE \E w \in Workers, f \in Feeds : Fail(w, f)
  BY <1>6, FailInv
<1>7. CASE \E f \in Refreshed, trace \in TraceCtx : Refresh(f, trace)
  BY <1>7, RefreshInv
<1>8. CASE Tick
  BY <1>8, TickInv
<1> QED BY <1>1, <1>2, <1>3, <1>4, <1>5, <1>6, <1>7, <1>8 DEF Next

-----------------------------------------------------------------------------
(* Theorems *)

\* When a lease outlasts the work on a batch, every feed is polled by one worker at a
\* time, under a lease that has not run out, and what a poll read at its claim is still
\* the row's when it records.
THEOREM Exclusive ==
  ASSUME Drain <= Lease
  PROVE  Spec => []IInv
<1>1. IInv /\ [Next]_vars => IInv'
  BY NextInv
<1> QED BY <1>1, InitInv, PTL DEF Spec

\* Then the delay after an error is at least the backoff of the count the row ends up with.
THEOREM BackoffFollowed ==
  ASSUME Drain <= Lease
  PROVE  Spec => BackoffFollowsCount
<1> DEFINE Step == \A f \in Feeds : error_count'[f] > error_count[f] =>
                     next_check_at'[f] >= BackoffInterval(error_count'[f])
<1>1. ASSUME IInv, Next PROVE Step
  <2> SUFFICES ASSUME NEW f \in Feeds, error_count'[f] > error_count[f]
               PROVE  next_check_at'[f] >= BackoffInterval(error_count'[f])
    OBVIOUS
  <2>1. /\ error_count \in [Feeds -> 0 .. MaxErrors] /\ error_count[f] \in 0 .. MaxErrors
        /\ next_check_at \in [Feeds -> Int] /\ MaxErrors \in Nat
    BY <1>1, PollerAssumption DEF IInv, TypeOK
  <2>2. error_count'[f] # error_count[f]
    BY <2>1
  <2>3. PICK w \in Workers, g \in Feeds : Persist(w, g)
    BY <1>1, <2>2 DEF Next, Claim, Crash, Fetch, Fail, Refresh, Tick, row
  <2>4. ~RecordPoll(w, g)
    <3> SUFFICES ASSUME RecordPoll(w, g) PROVE FALSE
      OBVIOUS
    <3>1. error_count' = [error_count EXCEPT ![g] = 0]
      BY DEF RecordPoll
    <3> QED BY <3>1, <2>1
  <2>5. RecordError(w, g)
    BY <2>3, <2>4 DEF Persist
  <2>6. g = f
    BY <2>5, <2>2, <2>1 DEF RecordError
  <2>7. Polling(w, f) /\ task[w][f] \in Tasks
    BY <1>1, <2>5, <2>6 DEF RecordError, Polling, IInv, TypeOK
  <2>8. task[w][f].error_count = error_count[f]
    BY <1>1, <2>7 DEF IInv, SnapshotsCurrent
  <2>9. error_count'[f] = error_count[f] + 1
    BY <2>5, <2>6, <2>1 DEF RecordError, Smaller
  <2>10. next_check_at'[f] = ErrorDelay(error_count[f] + 1, task[w][f].retry_after)
    BY <2>5, <2>6, <2>8, <2>1 DEF RecordError
  <2>11. error_count[f] + 1 \in Nat /\ task[w][f].retry_after \in Nat
    <3>1. task[w][f].retry_after \in RetryAfters \cup {0}
      BY <2>7 DEF Tasks
    <3> QED BY <3>1, <2>1, RetryAfterNat
  <2>12. BackoffInterval(error_count[f] + 1) \in 0 .. Cap
    BY <2>11, BackoffBounds
  <2>13. next_check_at'[f] \in BackoffInterval(error_count[f] + 1) .. Cap
    BY <2>10, <2>11, ErrorDelayBounds
  <2> QED BY <2>9, <2>12, <2>13, ScheduleAssumption
<1>2. IInv /\ [Next]_vars => [Step]_vars
  BY <1>1
<1> QED BY <1>2, Exclusive, PTL DEF Spec, BackoffFollowsCount
=============================================================================
