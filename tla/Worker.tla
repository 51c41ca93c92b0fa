------------------------------- MODULE Worker --------------------------------
(***************************************************************************)
(* The worker process: the claim loop, which works through one batch of     *)
(* feeds at a time behind the HostGate, and the maintenance loop, whose     *)
(* sweep runs three jobs in transactions of their own.  Both watch one stop *)
(* event, set by a signal and by the end of either loop.                    *)
(***************************************************************************)
EXTENDS HostGate

CONSTANTS Batch,    \* worker_claim_batch
          Backlog,  \* bound: full purge batches one sweep may find
          Slow      \* hosts that may never answer

ASSUME WorkerAssumption ==
  /\ Batch \in Nat \ {0} /\ Backlog \in Nat /\ Slow \subseteq Hosts
  /\ Cardinality(Slow) * PerHost < MaxConcurrency

VARIABLES claim_loop,  \* where each loop is
          sweep_loop,
          backlog,     \* the full batches the running purge still finds
          stop,        \* the stop event
          crashed,     \* a loop died of an exception
          exit_code    \* of the process, or -1 while it runs

loops == <<claim_loop, sweep_loop, backlog, stop, crashed, exit_code>>
vars == <<phase, sleep, permits, line, next_allowed, slots, slot_line, next_prune, loops>>

Init ==
  /\ GateInit
  /\ claim_loop = "ready" /\ sweep_loop = "asleep" /\ backlog = 0
  /\ stop = FALSE /\ crashed = FALSE /\ exit_code = -1

\* One claim: a batch, nothing due, or an error that the loop logs.
Poll ==
  /\ claim_loop = "ready" /\ ~stop
  /\ \/ \E fs \in SUBSET Feeds :
          /\ fs # {} /\ Cardinality(fs) <= Batch
          /\ phase' = [f \in Feeds |-> IF f \in fs THEN "created" ELSE phase[f]]
          /\ claim_loop' = "busy"
     \/ claim_loop' = "asleep" /\ UNCHANGED phase
  /\ UNCHANGED <<sleep, permits, line, next_allowed, slots, slot_line, next_prune,
                 sweep_loop, backlog, stop, crashed, exit_code>>

\* The TaskGroup ends with its last task.
BatchDone ==
  /\ claim_loop = "busy" /\ Running = {}
  /\ claim_loop' = "asleep"
  /\ UNCHANGED <<gate, sweep_loop, backlog, stop, crashed, exit_code>>

\* worker_poll_interval_s has passed.
PollAgain ==
  /\ claim_loop = "asleep" /\ ~stop
  /\ claim_loop' = "ready"
  /\ UNCHANGED <<gate, sweep_loop, backlog, stop, crashed, exit_code>>

\* maintenance_loop's wait is over: the orphan GC, then the purge.
Sweep ==
  /\ sweep_loop = "asleep" /\ ~stop
  /\ sweep_loop' = "purge"
  /\ backlog' \in 0 .. Backlog
  /\ UNCHANGED <<gate, claim_loop, stop, crashed, exit_code>>

\* A purge batch: a full one is followed by another unless the process is stopping; a
\* short one or an error ends the purge.
PurgeBatch ==
  /\ sweep_loop = "purge" /\ ~stop
  /\ \/ backlog > 0 /\ backlog' = backlog - 1 /\ UNCHANGED sweep_loop
     \/ backlog' = 0 /\ sweep_loop' = "tombstones"
  /\ UNCHANGED <<gate, claim_loop, stop, crashed, exit_code>>

PurgeCut ==
  /\ sweep_loop = "purge" /\ stop
  /\ backlog' = 0 /\ sweep_loop' = "tombstones"
  /\ UNCHANGED <<gate, claim_loop, stop, crashed, exit_code>>

PurgeTombstones ==
  /\ sweep_loop = "tombstones"
  /\ sweep_loop' = "asleep"
  /\ UNCHANGED <<gate, claim_loop, backlog, stop, crashed, exit_code>>

Signal ==
  /\ exit_code = -1 /\ stop' = TRUE
  /\ UNCHANGED <<gate, claim_loop, sweep_loop, backlog, crashed, exit_code>>

\* _supervise: however a loop ends, the other one is told to.
EndedMutant(broke) == stop' = stop /\ crashed' = (crashed \/ broke)
Ended(broke) == stop' = TRUE /\ crashed' = (crashed \/ broke)

\* A loop notices the stop event, or dies of an exception its own handlers do not catch.
ClaimLoopEnds ==
  /\ claim_loop \in {"ready", "asleep"}
  /\ claim_loop' = "ended"
  /\ (stop /\ Ended(FALSE)) \/ Ended(TRUE)
  /\ UNCHANGED <<gate, sweep_loop, backlog, exit_code>>

SweepLoopEnds ==
  /\ \/ sweep_loop = "asleep" /\ stop /\ Ended(FALSE)
     \/ sweep_loop \in {"asleep", "purge", "tombstones"} /\ Ended(TRUE)
  /\ sweep_loop' = "ended" /\ backlog' = 0
  /\ UNCHANGED <<gate, claim_loop, exit_code>>

\* gather is done: SystemExit(1) after a crash.
Exit ==
  /\ claim_loop = "ended" /\ sweep_loop = "ended" /\ exit_code = -1
  /\ exit_code' = IF crashed THEN 1 ELSE 0
  /\ UNCHANGED <<gate, claim_loop, sweep_loop, backlog, stop, crashed>>

ClaimLoop == Poll \/ BatchDone \/ PollAgain \/ ClaimLoopEnds
SweepLoop == Sweep \/ PurgeBatch \/ PurgeCut \/ PurgeTombstones \/ SweepLoopEnds
Tick == GateTick /\ UNCHANGED loops
Task(f) == Step(f) /\ UNCHANGED loops

Next ==
  \/ ClaimLoop \/ SweepLoop \/ Signal \/ Exit \/ Tick
  \/ \E f \in Feeds : Task(f)

Spec == Init /\ [][Next]_vars

\* The event loop runs what is ready and time passes; a fetch ends by its timeout,
\* except that nothing is assumed of the hosts in Slow.
Fairness ==
  /\ WF_vars(ClaimLoop) /\ WF_vars(SweepLoop) /\ WF_vars(Exit) /\ WF_vars(Tick)
  /\ \A f \in Feeds : /\ WF_vars(Task(f) /\ ~At(f, "fetching"))
                      /\ Host[f] \notin Slow => WF_vars(Task(f))
FairSpec == Spec /\ Fairness

-----------------------------------------------------------------------------
(* Properties *)

TypeOK ==
  /\ GateTypeOK
  /\ claim_loop \in {"ready", "busy", "asleep", "ended"}
  /\ sweep_loop \in {"asleep", "purge", "tombstones", "ended"}
  /\ backlog \in 0 .. Backlog
  /\ stop \in BOOLEAN /\ crashed \in BOOLEAN /\ exit_code \in {-1, 0, 1}

\* Between its slot and its line every permit of a semaphore is accounted for, so none is
\* lost when a task is handed one while others queue, fail or are forgotten (HostGate.slot);
\* and each variable keeps its type.
PermitsConserved ==
  /\ TypeOK
  /\ \A h \in Hosts :
       permits[h] + Cardinality({f \in Active(h) : ~At(f, "in_line")}) = PerHost
  /\ slots + Cardinality({f \in Feeds : phase[f] \in {"admitted", "fetching"}}) = MaxConcurrency

\* A feed on a host that answers is fetched although feeds of a host that never does
\* wait ahead of it in the batch (the order of the two semaphores in poll_once).
OthersFetched ==
  \A f \in Feeds : Host[f] \notin Slow => (~At(f, "idle") ~> At(f, "idle"))

\* Once asked to stop, or once one of its loops has died, the process ends, if the fetches
\* in flight do; the batch in flight is finished first and no task is left behind.
Stopping == stop \/ claim_loop = "ended" \/ sweep_loop = "ended"
Drained ==
  (\A f \in Feeds : []<>~At(f, "fetching")) => (Stopping ~> (exit_code # -1 /\ Running = {}))
=============================================================================
