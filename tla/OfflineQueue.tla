---------------------------- MODULE OfflineQueue ----------------------------
(***************************************************************************)
(* Read and star changes on their way from the web client to entry_states. *)
(* A change is posted at once or, without a network, kept in the browser's *)
(* outbox (IndexedDB, shared by its tabs, surviving them) and replayed.    *)
(* Requests and answers get lost, arrive after the client gave up, and tabs *)
(* close between any two steps; the server merges by changed_at.           *)
(*                                                                         *)
(* One entry of one user: the rows of a batch are merged independently.    *)
(* The subscription, without which the server skips a change, stays.       *)
(***************************************************************************)
EXTENDS Integers, Sequences, FiniteSets, SequencesExt, FiniteSetsExt

CONSTANTS Tabs, Browsers,
          BrowserOf,  \* tab -> the browser whose outbox it shares
          MaxSkew,    \* _MAX_CLOCK_SKEW
          Acts,       \* bound: what the user does where, and how far ahead the clock is then
          MaxChanges, \* bound: changes the user makes
          MaxFaults,  \* bound: refusals, errors, lost requests, closed tabs
          MaxTime,    \* bound: the server's clock
          None

Flags == {"read", "star"}

VARIABLES now,      \* the server's clock
          row,      \* the entry_states row
          outbox,   \* browser -> the queued changes, oldest first
          online,   \* browser -> navigator.onLine
          tab,      \* what each tab is doing
          late,     \* requests still under way that no tab waits for
          made,     \* how many changes the user has made
          faults,   \* how many faults there were
          story     \* for the properties: queued changes the server has not answered for,
                    \* and the writes the row took

vars == <<now, row, outbox, online, tab, late, made, faults, story>>

Times == {t + act.skew : t \in 1 .. MaxTime, act \in Acts}
Changes == [id : 1 .. MaxChanges, flag : Flags, val : BOOLEAN, at : Times]

\* A request of a tab: waiting for an answer ("sent"), the server having taken the change
\* or not; "enqueue" and "delete" are the steps on the outbox that follow it.
Requests == [change : Changes, pc : {"sent", "taken", "enqueue", "delete"}]
Posts == Requests \cup {None}
TabVals == [open : BOOLEAN, count : Nat, direct : Posts, replay : Posts, todo : Seq(Changes)]
Writes == [flag : Flags, val : BOOLEAN, at : Nat]
Closed == [open |-> FALSE, count |-> 0, direct |-> None, replay |-> None, todo |-> <<>>]

ASSUME OfflineAssumption ==
  /\ BrowserOf \in [Tabs -> Browsers]
  /\ Acts \subseteq [tab : Tabs, flag : Flags, val : BOOLEAN, skew : Nat]
  /\ MaxSkew \in Nat /\ MaxFaults \in Nat /\ MaxChanges \in Nat /\ MaxTime \in Nat \ {0}
  /\ None \notin Requests

Init ==
  /\ now = 1
  /\ row = [read |-> FALSE, star |-> FALSE, at |-> 0]  \* no row: any change is newer
  /\ outbox = [b \in Browsers |-> <<>>]
  /\ online = [b \in Browsers |-> TRUE]
  /\ tab = [t \in Tabs |-> [Closed EXCEPT !.open = TRUE]]
  /\ late = {}
  /\ made = 0
  /\ faults = 0
  /\ story = [queued |-> {}, writes |-> {}]

Post(c) == [change |-> c, pc |-> "sent"]
Box(t) == outbox[BrowserOf[t]]

-----------------------------------------------------------------------------
(* The server *)

Clamp(at) == Min({at, now + MaxSkew})

\* apply_state_batch: newer overwrites, equal may only set, older is dropped.
MergedMutant(flag, val, at) == [row EXCEPT ![flag] = IF row.at # at THEN val ELSE @ \/ val, !.at = at]
Merged(flag, val, at) ==
  IF at < row.at THEN row
  ELSE [row EXCEPT ![flag] = IF row.at < at THEN val ELSE @ \/ val, !.at = at]

Deliver(c) ==
  /\ row' = Merged(c.flag, c.val, Clamp(c.at))
  /\ story' = [story EXCEPT !.queued = @ \ {c.id},
                 !.writes = @ \cup {[flag |-> c.flag, val |-> c.val, at |-> Clamp(c.at)]}]

\* mark_read_bounded writes now() into an unread row, also over a later changed_at of a
\* fast client's clock: the merge begins anew with it.
MarkAllRead ==
  /\ ~row.read
  /\ row' = [row EXCEPT !.read = TRUE, !.at = now]
  /\ story' = [story EXCEPT !.writes = {[flag |-> "read", val |-> TRUE, at |-> now]}]
  /\ UNCHANGED <<now, outbox, online, tab, late, made, faults>>

LateArrives(c) ==
  /\ late' = late \ {c} /\ Deliver(c)
  /\ UNCHANGED <<now, outbox, online, tab, made, faults>>

Tick == now < MaxTime /\ now' = now + 1 /\ UNCHANGED <<row, outbox, online, tab, late, made, faults, story>>

-----------------------------------------------------------------------------
(* A mutation: useSetEntryState *)

Change(t, flag, val, skew) ==
  LET c == [id |-> made + 1, flag |-> flag, val |-> val, at |-> now + skew]
  IN  /\ tab[t].open /\ tab[t].direct = None
      /\ made < MaxChanges /\ made' = made + 1
      /\ tab' = [tab EXCEPT ![t].direct =
                   [change |-> c, pc |-> IF online[BrowserOf[t]] THEN "sent" ELSE "enqueue"]]
      /\ UNCHANGED <<now, row, outbox, online, late, faults, story>>

EnqueueMutant(t) ==
  /\ tab[t].direct # None /\ tab[t].direct.pc = "enqueue"
  /\ outbox' = [outbox EXCEPT ![BrowserOf[t]] = <<tab[t].direct.change>>]
  /\ tab' = [tab EXCEPT ![t].direct = None, ![t].count = 1]
  /\ story' = [story EXCEPT !.queued = @ \cup {tab[t].direct.change.id}]
  /\ UNCHANGED <<now, row, online, late, made, faults>>
Enqueue(t) ==
  /\ tab[t].direct # None /\ tab[t].direct.pc = "enqueue"
  /\ outbox' = [outbox EXCEPT ![BrowserOf[t]] = Append(@, tab[t].direct.change)]
  /\ tab' = [tab EXCEPT ![t].direct = None, ![t].count = Len(Box(t)) + 1]
  /\ story' = [story EXCEPT !.queued = @ \cup {tab[t].direct.change.id}]
  /\ UNCHANGED <<now, row, online, late, made, faults>>

-----------------------------------------------------------------------------
(* The drain: replayQueue *)

Draining(t) == tab[t].replay # None

\* The tab posts the next of the changes it read when the drain began, if any is left.
Sending(s, todo) ==
  IF todo = <<>> THEN [s EXCEPT !.replay = None, !.todo = <<>>]
  ELSE [s EXCEPT !.replay = Post(Head(todo)), !.todo = Tail(todo)]

\* The timer of useOfflineReplay looks at the tab's own count.
RetryMutant(t) == FALSE /\ UNCHANGED vars
Retry(t) ==
  /\ tab[t].open /\ ~Draining(t)
  /\ tab[t].count > 0 /\ online[BrowserOf[t]] /\ Box(t) # <<>>
  /\ tab' = [tab EXCEPT ![t] = Sending(@, Box(t))]
  /\ UNCHANGED <<now, row, outbox, online, late, made, faults, story>>

\* The server's answer was an ok or a 4xx: the item leaves the outbox, if it is there still.
DeleteItem(t) ==
  LET rest == RemoveFirst(Box(t), tab[t].replay.change)
  IN  /\ Draining(t) /\ tab[t].replay.pc = "delete"
      /\ outbox' = [outbox EXCEPT ![BrowserOf[t]] = rest]
      /\ tab' = [tab EXCEPT ![t] = Sending([@ EXCEPT !.count = Len(rest)], @.todo)]
      /\ UNCHANGED <<now, row, online, late, made, faults, story>>

-----------------------------------------------------------------------------
(* Requests and answers, of a mutation (k = "direct") or a drain ("replay") *)

Kinds == {"direct", "replay"}
Waiting(t, k) == tab[t][k] # None /\ tab[t][k].pc \in {"sent", "taken"}

Arrive(t, k) ==
  /\ Waiting(t, k) /\ tab[t][k].pc = "sent"
  /\ Deliver(tab[t][k].change)
  /\ tab' = [tab EXCEPT ![t][k].pc = "taken"]
  /\ UNCHANGED <<now, outbox, online, late, made, faults>>

Answer(t, k) ==
  /\ Waiting(t, k) /\ tab[t][k].pc = "taken"
  /\ tab' = [tab EXCEPT ![t][k] = IF k = "direct" THEN None ELSE [@ EXCEPT !.pc = "delete"]]
  /\ UNCHANGED <<now, row, outbox, online, late, made, faults, story>>

Fault == faults < MaxFaults /\ faults' = faults + 1

\* A 4xx: the user is told, the optimistic update rolled back or the queued change dropped.
Refuse(t, k) ==
  /\ Fault
  /\ Waiting(t, k) /\ tab[t][k].pc = "sent"
  /\ tab' = [tab EXCEPT ![t][k] = IF k = "direct" THEN None ELSE [@ EXCEPT !.pc = "delete"]]
  /\ story' = [story EXCEPT !.queued = @ \ {tab[t][k].change.id}]
  /\ UNCHANGED <<now, row, outbox, online, late, made>>

\* A 5xx: the mutation is rolled back, the drain stops.
ServerError(t, k) ==
  /\ Fault
  /\ Waiting(t, k) /\ tab[t][k].pc = "sent"
  /\ tab' = [tab EXCEPT ![t][k] = None, ![t].todo = IF k = "direct" THEN @ ELSE <<>>]
  /\ UNCHANGED <<now, row, outbox, online, late, made, story>>

\* No answer: a request that has not arrived is lost, or arrives after all.
Abandoned(t) == {tab[t][k].change : k \in {k \in Kinds : Waiting(t, k) /\ tab[t][k].pc = "sent"}}

Leave(requests) ==
  \E S \in SUBSET requests : late' = late \cup S

NetworkError(t, k) ==
  /\ Fault
  /\ Waiting(t, k)
  /\ tab' = [tab EXCEPT ![t][k] = IF k = "direct" THEN [@ EXCEPT !.pc = "enqueue"] ELSE None,
                        ![t].todo = IF k = "direct" THEN @ ELSE <<>>]
  /\ Leave({tab[t][k].change} \cap Abandoned(t))
  /\ UNCHANGED <<now, row, outbox, online, made, story>>

Close(t) ==
  /\ Fault
  /\ tab[t].open
  /\ tab' = [tab EXCEPT ![t] = Closed]
  /\ Leave(Abandoned(t))
  /\ UNCHANGED <<now, row, outbox, online, made, story>>

Open(t) ==
  /\ ~tab[t].open
  /\ tab' = [tab EXCEPT ![t] =
               LET s == [Closed EXCEPT !.open = TRUE, !.count = Len(Box(t))]
               IN  IF online[BrowserOf[t]] THEN Sending(s, Box(t)) ELSE s]
  /\ UNCHANGED <<now, row, outbox, online, late, made, faults, story>>

GoOffline(b) ==
  /\ online[b] /\ online' = [online EXCEPT ![b] = FALSE]
  /\ UNCHANGED <<now, row, outbox, tab, late, made, faults, story>>

\* The online event starts a drain in every open tab that has none under way.
GoOnline(b) ==
  /\ ~online[b] /\ online' = [online EXCEPT ![b] = TRUE]
  /\ tab' = [t \in Tabs |-> IF BrowserOf[t] = b /\ tab[t].open /\ ~Draining(t)
                            THEN Sending(tab[t], outbox[b]) ELSE tab[t]]
  /\ UNCHANGED <<now, row, outbox, late, made, faults, story>>

Next ==
  \/ Tick \/ MarkAllRead
  \/ \E c \in late : LateArrives(c)
  \/ \E b \in Browsers : GoOffline(b) \/ GoOnline(b)
  \/ \E act \in Acts : Change(act.tab, act.flag, act.val, act.skew)
  \/ \E t \in Tabs :
       \/ Enqueue(t) \/ Retry(t) \/ DeleteItem(t) \/ Close(t) \/ Open(t)
       \/ \E k \in Kinds : \/ Arrive(t, k) \/ Answer(t, k) \/ Refuse(t, k)
                           \/ ServerError(t, k) \/ NetworkError(t, k)

Spec == Init /\ [][Next]_vars

\* A drain goes on, the timer retries, an offline browser comes online again; MaxFaults
\* stands for a network that does not fail for ever.
Drain(t) == Retry(t) \/ Arrive(t, "replay") \/ Answer(t, "replay") \/ DeleteItem(t)

Fairness ==
  /\ \A t \in Tabs : WF_vars(Drain(t))
  /\ \A b \in Browsers : WF_vars(GoOnline(b))

FairSpec == Spec /\ Fairness

-----------------------------------------------------------------------------
(* Properties *)

\* Each variable keeps its type.
TypeOK ==
  /\ now \in 1 .. MaxTime
  /\ row \in [read : BOOLEAN, star : BOOLEAN, at : Nat]
  /\ outbox \in [Browsers -> Seq(Changes)]
  /\ online \in [Browsers -> BOOLEAN]
  /\ tab \in [Tabs -> TabVals]
  /\ late \subseteq Changes
  /\ made \in 0 .. MaxChanges /\ faults \in 0 .. MaxFaults
  /\ story \in [queued : SUBSET (1 .. MaxChanges), writes : SUBSET Writes]

\* A queued change that has neither reached the server nor been refused by it is still in
\* the outbox: no lost request and no closed tab makes it disappear.
NothingLost ==
  story.queued \subseteq {c.id : c \in UNION {ToSet(outbox[b]) : b \in Browsers}}

\* The row is what its newest write made it, whatever order writes and their repetitions
\* arrived in; among equally new ones a TRUE wins.  No clock, however far ahead, pins it.
NewestWins ==
  /\ TypeOK /\ row.at <= now + MaxSkew
  /\ story.writes # {} =>
    LET newest == {w \in story.writes : \A v \in story.writes : v.at <= w.at}
    IN  \A w \in newest :
          /\ row.at = w.at
          /\ w.val => row[w.flag]
          /\ (\A v \in newest : v.flag = w.flag /\ ~v.val) => ~row[w.flag]

\* A tab whose badge counts queued changes sends them, as long as it stays open: the outbox
\* does not wait for an online event that may never come, nor stall behind one change.
QueueDrains ==
  \A t \in Tabs : tab[t].open /\ tab[t].count > 0 ~> ~tab[t].open \/ Box(t) = <<>>
=============================================================================
