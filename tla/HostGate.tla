------------------------------- MODULE HostGate -------------------------------
(***************************************************************************)
(* The tasks of one claimed batch on their way to a fetch.  A task enters   *)
(* its host's gate, a FIFO semaphore; then it sleeps out the spacing since  *)
(* the host's last fetch; then it waits for one of the slots all hosts      *)
(* share; then it fetches.  A released semaphore hands its permit to the    *)
(* first task in line.  What a task does between two awaits is one action.  *)
(*                                                                          *)
(* Times are relative to loop.time(): how long until a host may be fetched  *)
(* again, until a sleep ends, until the gate is pruned.                     *)
(***************************************************************************)
EXTENDS Integers, FiniteSets, Sequences

CONSTANTS Feeds, Hosts,
          Host,           \* feed -> the host of its feed_url
          PerHost,        \* worker_per_host_concurrency
          MaxConcurrency, \* worker_max_concurrency
          Delay,          \* worker_per_host_delay_s
          PruneInterval   \* _HOST_GATE_PRUNE_INTERVAL_S

ASSUME GateAssumption ==
  /\ IsFiniteSet(Feeds) /\ Host \in [Feeds -> Hosts]
  /\ PerHost \in Nat \ {0} /\ MaxConcurrency \in Nat \ {0}
  /\ Delay \in Nat /\ PruneInterval \in Nat

VARIABLES phase,         \* feed -> where its task is
          sleep,         \* feed -> what is left of its asyncio.sleep
          permits,       \* host -> the free permits of _sems[host]
          line,          \* host -> the tasks waiting for one, first come first served
          next_allowed,  \* host -> _next_allowed[host] - now, 0 once it has passed
          slots,         \* the free permits of global_sem
          slot_line,     \* the tasks waiting for one
          next_prune     \* when _prune sweeps next

gate == <<phase, sleep, permits, line, next_allowed, slots, slot_line, next_prune>>

Phases == {"idle", "created", "in_line", "granted", "spacing", "in_slot_line", "admitted",
           "fetching"}

GateInit ==
  /\ phase = [f \in Feeds |-> "idle"]
  /\ sleep = [f \in Feeds |-> 0]
  /\ permits = [h \in Hosts |-> PerHost]
  /\ line = [h \in Hosts |-> <<>>]
  /\ next_allowed = [h \in Hosts |-> 0]
  /\ slots = MaxConcurrency /\ slot_line = <<>>
  /\ next_prune = 0

At(f, p) == phase[f] = p
Running == {f \in Feeds : ~At(f, "idle")}
Fetching == {f \in Feeds : At(f, "fetching")}

\* The tasks _active counts: from entering the gate, in line or not, to leaving it.
Active(h) == {f \in Running : Host[f] = h /\ ~At(f, "created")}

\* global_sem.acquire(): a slot at once, or the end of the line.
AcquireSlot(f) ==
  \/ /\ slots > 0
     /\ slots' = slots - 1
     /\ phase' = [phase EXCEPT ![f] = "fetching"]
     /\ UNCHANGED slot_line
  \/ /\ slots = 0
     /\ slot_line' = Append(slot_line, f)
     /\ phase' = [phase EXCEPT ![f] = "in_slot_line"]
     /\ UNCHANGED slots

\* Past the host's semaphore: sleep until the host may be fetched again.
PassGate(f) ==
  \/ /\ next_allowed[Host[f]] > 0
     /\ sleep' = [sleep EXCEPT ![f] = next_allowed[Host[f]]]
     /\ phase' = [phase EXCEPT ![f] = "spacing"]
     /\ UNCHANGED <<slots, slot_line>>
  \/ /\ next_allowed[Host[f]] = 0
     /\ AcquireSlot(f)
     /\ UNCHANGED sleep

\* _run_one takes the host's permit before the shared slot: the mutant holds a slot in line.
EnterGateMutant(f) ==
  LET h == Host[f] IN
  /\ At(f, "created") /\ slots > 0
  /\ \/ /\ permits[h] > 0
        /\ permits' = [permits EXCEPT ![h] = @ - 1]
        /\ PassGate(f)
        /\ UNCHANGED line
     \/ /\ permits[h] = 0
        /\ line' = [line EXCEPT ![h] = Append(@, f)]
        /\ phase' = [phase EXCEPT ![f] = "in_line"]
        /\ slots' = slots - 1
        /\ UNCHANGED <<sleep, permits, slot_line>>
  /\ UNCHANGED <<next_allowed, next_prune>>

EnterGate(f) ==
  LET h == Host[f] IN
  /\ At(f, "created")
  /\ \/ /\ permits[h] > 0
        /\ permits' = [permits EXCEPT ![h] = @ - 1]
        /\ PassGate(f)
        /\ UNCHANGED line
     \/ /\ permits[h] = 0
        /\ line' = [line EXCEPT ![h] = Append(@, f)]
        /\ phase' = [phase EXCEPT ![f] = "in_line"]
        /\ UNCHANGED <<sleep, permits, slots, slot_line>>
  /\ UNCHANGED <<next_allowed, next_prune>>

\* The task resumes with the permit it was handed.
Resume(f) ==
  /\ At(f, "granted") /\ PassGate(f)
  /\ UNCHANGED <<permits, line, next_allowed, next_prune>>

EndSleep(f) ==
  /\ At(f, "spacing") /\ sleep[f] = 0
  /\ AcquireSlot(f)
  /\ UNCHANGED <<sleep, permits, line, next_allowed, next_prune>>

Admit(f) ==
  /\ At(f, "admitted")
  /\ phase' = [phase EXCEPT ![f] = "fetching"]
  /\ UNCHANGED <<sleep, permits, line, next_allowed, slots, slot_line, next_prune>>

\* Hosts without a task whose spacing has passed: forgetting them changes nothing.
IdleHostsMutant(h) == Active(h) = {}
IdleHosts(h) == Active(h) = {} /\ next_allowed[h] = 0

\* The fetch has ended, with a result or an exception: the shared slot goes to the first
\* in line, the spacing starts, the permit goes to the first in the host's line, and the
\* gate forgets idle hosts when it is time to.
Finish(f) ==
  LET h == Host[f]
      toHost == IF line[h] = <<>> THEN {} ELSE {Head(line[h])}
      toSlot == IF slot_line = <<>> THEN {} ELSE {Head(slot_line)}
      spaced == [next_allowed EXCEPT ![h] = Delay]
      given  == [permits EXCEPT ![h] = IF toHost = {} THEN @ + 1 ELSE @]
      others == {g \in Hosts : IdleHosts(g)} \ {h}
      stale  == IF Active(h) = {f} /\ Delay = 0 THEN others \cup {h} ELSE others
      prune  == next_prune = 0
  IN  /\ At(f, "fetching")
      /\ phase' = [g \in Feeds |-> IF g = f THEN "idle"
                                   ELSE IF g \in toSlot THEN "admitted"
                                   ELSE IF g \in toHost THEN "granted" ELSE phase[g]]
      /\ line' = [line EXCEPT ![h] = IF toHost = {} THEN @ ELSE Tail(@)]
      /\ slot_line' = IF toSlot = {} THEN slot_line ELSE Tail(slot_line)
      /\ slots' = IF toSlot = {} THEN slots + 1 ELSE slots
      /\ permits' = [g \in Hosts |-> IF prune /\ g \in stale THEN PerHost ELSE given[g]]
      /\ next_allowed' = [g \in Hosts |-> IF prune /\ g \in stale THEN 0 ELSE spaced[g]]
      /\ next_prune' = IF prune THEN PruneInterval ELSE next_prune
      /\ UNCHANGED sleep

Less(n) == IF n > 0 THEN n - 1 ELSE 0

GateTick ==
  /\ sleep' = [f \in Feeds |-> Less(sleep[f])]
  /\ next_allowed' = [h \in Hosts |-> Less(next_allowed[h])]
  /\ next_prune' = Less(next_prune)
  /\ UNCHANGED <<phase, permits, line, slots, slot_line>>

Step(f) == EnterGate(f) \/ Resume(f) \/ EndSleep(f) \/ Admit(f) \/ Finish(f)

-----------------------------------------------------------------------------
(* Properties *)

GateTypeOK ==
  /\ phase \in [Feeds -> Phases]
  /\ sleep \in [Feeds -> 0 .. Delay]
  /\ permits \in [Hosts -> 0 .. PerHost]
  /\ line \in [Hosts -> Seq(Feeds)]
  /\ next_allowed \in [Hosts -> 0 .. Delay]
  /\ slots \in 0 .. MaxConcurrency
  /\ slot_line \in Seq(Feeds)
  /\ next_prune \in 0 .. PruneInterval

Promise == INSTANCE Politeness
  WITH Limit <- PerHost, Cap <- MaxConcurrency, fetching <- Fetching,
       quiet <- [h \in Hosts |-> Delay - next_allowed[h]]

\* The gate and the cap implement the promise to servers, with spacing that survives
\* pruning and the time spent waiting for a shared slot.
PolitenessSpec == Promise!Spec
=============================================================================
