---------------------------- MODULE FeedLifecycle ----------------------------
(***************************************************************************)
(* The life of a feed row: created by the first subscribe, shared by every  *)
(* subscriber, stamped orphaned_at by a trigger when the last one leaves,   *)
(* repointed by a permanent redirect, deleted by the last unsubscribe or by *)
(* the orphan GC.  Subscribes, OPML imports, unsubscribes, read/star writes *)
(* and account deletions run as concurrent transactions, one per request,   *)
(* against the polls and the maintenance sweep of the worker.               *)
(*                                                                          *)
(* Each action is one SQL statement (a trigger or a foreign-key action that *)
(* may wait for another transaction is a statement of its own).  tx[p].pc   *)
(* is the statement transaction p runs next; an action that has to wait for *)
(* a row lock is not enabled until the lock is free.                        *)
(*                                                                          *)
(* Abstracted: a feed's entries live and die with its row (ON DELETE        *)
(* CASCADE), the read and star flags one user has on one feed's entries are *)
(* one row, folders and titles are left out, and orphaned_at is one of      *)
(* "no" (NULL), "recent" or "expired" (older than the grace period).        *)
(***************************************************************************)
EXTENDS Integers, FiniteSets, RowVersions

CONSTANTS Users,     \* users.id
          Urls,      \* normalized feed URLs
          MaxFeeds,  \* feeds.id values the sequence may hand out
          Quota,     \* users.quota_subs
          Requests,  \* API requests in flight at once
          Pollers,   \* feed polls persisting at once
          Sweepers,  \* maintenance sweeps at once
          Ops,       \* the operations requests may perform
          None

FeedIds == 1 .. MaxFeeds
Procs == Requests \cup Pollers \cup Sweepers
RequestOps == {"subscribe", "import", "unsubscribe", "delete_user", "set_state"}

ASSUME ConstantsAssumption ==
  /\ MaxFeeds \in Nat
  /\ Quota \in Nat \ {0}
  /\ Ops \subseteq RequestOps
  /\ None \notin Urls \cup Users \cup FeedIds

VARIABLES feed,   \* feeds: id -> row
          sub,    \* subscriptions: user, feed -> row (present or not)
          state,  \* entry_states: user, feed -> row (present or not)
          user,   \* users: id -> row (present or not)
          tx      \* the transaction each process is running

tables == <<feed, sub, state, user>>
vars == <<feed, sub, state, user, tx>>

Unused == [status |-> "unused", url |-> None, orphan |-> "no"]
Gone   == [status |-> "gone", url |-> None, orphan |-> "no"]
FeedVals == {Unused, Gone} \cup [status : {"live"}, url : Urls, orphan : {"no", "recent", "expired"}]
NewFeed(url) == [status |-> "live", url |-> url, orphan |-> "recent"]

PCs == {"idle", "lock_row", "select", "upsert", "reselect", "insert_sub", "ins_trigger",
        "delete_sub", "del_trigger", "stamp", "count", "delete_states", "delete_feed",
        "delete_user", "cascade", "write_state", "gc_delete", "gc_check",
        "repoint", "insert_batch", "record", "commit", "conflict", "assert", "raise"}

Txs == [op : RequestOps \cup {"none", "persist", "gc"}, pc : PCs,
        u : Users \cup {None}, url : Urls \cup {None}, urls : SUBSET Urls,
        f : FeedIds \cup {None}, feeds : SUBSET FeedIds,
        count : Nat, share : SUBSET FeedIds]

Idle == [op |-> "none", pc |-> "idle", u |-> None, url |-> None, urls |-> {},
         f |-> None, feeds |-> {}, count |-> 0, share |-> {}]

Init ==
  /\ feed = [f \in FeedIds |-> Row(Unused)]
  /\ sub = [u \in Users |-> [f \in FeedIds |-> Row(FALSE)]]
  /\ state = [u \in Users |-> [f \in FeedIds |-> Row(FALSE)]]
  /\ user = [u \in Users |-> Row(TRUE)]
  /\ tx = [p \in Procs |-> Idle]

-----------------------------------------------------------------------------
(* Row locks and what a statement sees.  An operator XMutant is X with a    *)
(* fault: the README names the property that notices it.                    *)

At(p, pc) == tx[p].pc = pc

Live(v) == v.status = "live"
LiveAt(v, url) == Live(v) /\ v.url = url

\* Another transaction holds the feed row FOR UPDATE: it inserted the row, deleted
\* it or changed its unique feed_url.
KeyLocked(f, p) ==
  /\ ~Free(feed[f], p)
  /\ \/ feed[f].cur.status # feed[f].next.status
     \/ feed[f].cur.url # feed[f].next.url

\* The row can be deleted or its key changed: no other transaction wrote it, holds it
\* FOR KEY SHARE (inserted a subscription or an entry) or wrote state on its entries.
CanDeleteMutant(f, p) == Free(feed[f], p)
CanDelete(f, p) ==
  /\ Free(feed[f], p)
  /\ \A q \in Procs \ {p} : f \notin tx[q].share

CanCascade(f, p) == CanDelete(f, p) /\ \A u \in Users : Free(state[u][f], p)

\* The user row can be deleted or locked FOR UPDATE: no other transaction wrote it, or
\* holds it FOR KEY SHARE (inserted an entry_states row that references it).
UserLockableMutant(u, p) == TRUE
UserLockable(u, p) ==
  Free(user[u], p) /\ \A f \in FeedIds : state[u][f].cur \/ Free(state[u][f], p)

SubscribedByMutant(f, p) == {u \in Users : sub[u][f].cur}
SubscribedBy(f, p) == {u \in Users : Seen(sub[u][f], p)}
SubscriptionsOf(u, p) == {f \in FeedIds : Seen(sub[u][f], p)}
FeedsAt(url, p) == {f \in FeedIds : LiveAt(Seen(feed[f], p), url)}

\* An uncommitted write by another transaction decides whether url is taken.
UrlBusyMutant(url, p) == FALSE
UrlBusy(url, p) ==
  \E f \in FeedIds : /\ ~Free(feed[f], p)
                     /\ LiveAt(feed[f].cur, url) \/ LiveAt(feed[f].next, url)

\* The foreign-key check at the end of a DELETE on feeds: it fails on a committed
\* subscription and waits for one whose own delete has not committed.
Referenced(f, p)   == \E u \in Users : sub[u][f].cur /\ sub[u][f].by = {}
Unreferenced(f, p) == \A u \in Users : Free(sub[u][f], p) /\ ~Seen(sub[u][f], p)

Begin(p, t) == At(p, "idle") /\ tx' = [tx EXCEPT ![p] = t] /\ UNCHANGED tables

Goto(p, pc) == tx' = [tx EXCEPT ![p].pc = pc]

WriteFeed(f, p, v) == feed' = [feed EXCEPT ![f] = Written(feed[f], p, v)]

\* DELETE FROM feeds with its cascade to entries and entry_states.
RemoveFeedMutant(f, p) == WriteFeed(f, p, Gone) /\ UNCHANGED state
RemoveFeed(f, p) ==
  /\ WriteFeed(f, p, Gone)
  /\ state' = [u \in Users |->
                 [state[u] EXCEPT ![f] = Written(state[u][f], p, FALSE)]]

-----------------------------------------------------------------------------
(* Subscribe, and an OPML import as a run of subscribes in one transaction *)

BeginSubscribe(p, u, url) ==
  /\ "subscribe" \in Ops /\ user[u].cur
  /\ Begin(p, [Idle EXCEPT !.op = "subscribe", !.pc = "lock_row", !.u = u, !.urls = {url}])

BeginImport(p, u, urls) ==
  /\ "import" \in Ops /\ user[u].cur
  /\ Begin(p, [Idle EXCEPT !.op = "import", !.pc = "lock_row", !.u = u, !.urls = urls])

\* SELECT ... FOR UPDATE on the user's row, then the quota count.  The lock finds no
\* row when the account was deleted after the request authenticated.
LockRow(p) ==
  LET u == tx[p].u
      count == Cardinality(SubscriptionsOf(u, p))
  IN  /\ At(p, "lock_row")
      /\ UserLockable(u, p)
      /\ user' = IF user[u].cur THEN [user EXCEPT ![u] = Written(user[u], p, TRUE)] ELSE user
      /\ tx' = [tx EXCEPT ![p].count = count,
                          ![p].pc = IF tx[p].op = "subscribe" /\ count >= Quota
                                    THEN "raise" ELSE "select"]
      /\ UNCHANGED <<feed, sub, state>>

\* upsert_by_url: the first SELECT.
SelectFeed(p) ==
  /\ At(p, "select")
  /\ \E url \in tx[p].urls :
       \/ /\ FeedsAt(url, p) = {}
          /\ tx' = [tx EXCEPT ![p].pc = "upsert", ![p].url = url, ![p].urls = @ \ {url}]
       \/ \E f \in FeedsAt(url, p) :
            tx' = [tx EXCEPT ![p].pc = "insert_sub", ![p].f = f, ![p].urls = @ \ {url}]
  /\ UNCHANGED tables

\* upsert_by_url: INSERT ... ON CONFLICT (feed_url) DO NOTHING.
UpsertFeed(p) ==
  LET url == tx[p].url IN
  /\ At(p, "upsert")
  /\ ~UrlBusy(url, p)
  /\ \/ /\ FeedsAt(url, p) # {}
        /\ Goto(p, "reselect") /\ UNCHANGED tables
     \/ /\ FeedsAt(url, p) = {}
        /\ \E f \in FeedIds :
             /\ feed[f] = Row(Unused)
             /\ \A g \in FeedIds : g < f => feed[g] # Row(Unused)
             /\ WriteFeed(f, p, NewFeed(url))
             /\ tx' = [tx EXCEPT ![p].pc = "insert_sub", ![p].f = f, ![p].url = None]
        /\ UNCHANGED <<sub, state, user>>

\* upsert_by_url: the second SELECT, and the assertion that it finds a row.
ReselectFeed(p) ==
  LET found == FeedsAt(tx[p].url, p) IN
  /\ At(p, "reselect")
  /\ \/ found = {} /\ Goto(p, "assert")
     \/ \E f \in found : tx' = [tx EXCEPT ![p].pc = "insert_sub", ![p].f = f, ![p].url = None]
  /\ UNCHANGED tables

NextItem(p) == IF tx[p].urls = {} THEN "commit" ELSE "select"

\* get_by_feed, max_id_for_feed and the INSERT with its foreign-key checks.  A
\* duplicate is a 409 for a subscribe and a skipped item for an import; an import
\* checks its running count here.
InsertSubscription(p) ==
  LET t == tx[p] IN
  /\ At(p, "insert_sub")
  /\ \/ /\ Seen(sub[t.u][t.f], p)
        /\ Goto(p, IF t.op = "import" THEN NextItem(p) ELSE "raise")
        /\ UNCHANGED tables
     \/ /\ ~Seen(sub[t.u][t.f], p)
        /\ t.op = "import" /\ t.count >= Quota
        /\ Goto(p, NextItem(p)) /\ UNCHANGED tables
     \/ /\ ~Seen(sub[t.u][t.f], p)
        /\ t.op = "import" => t.count < Quota
        /\ ~KeyLocked(t.f, p) /\ Free(user[t.u], p) /\ Free(sub[t.u][t.f], p)
        /\ IF Live(Seen(feed[t.f], p)) /\ user[t.u].cur
           THEN /\ sub' = [sub EXCEPT ![t.u][t.f] = Written(sub[t.u][t.f], p, TRUE)]
                /\ tx' = [tx EXCEPT ![p].pc = "ins_trigger", ![p].count = @ + 1,
                                    ![p].share = @ \cup {t.f}]
                /\ UNCHANGED <<feed, state, user>>
           ELSE /\ Goto(p, IF t.op = "import" THEN "raise" ELSE "conflict")
                /\ UNCHANGED tables

\* feeds_track_orphan on INSERT: writes the feed row only to clear a stamp it sees.
InsertTrigger(p) ==
  LET f == tx[p].f
      row == Seen(feed[f], p)
  IN  /\ At(p, "ins_trigger")
      /\ \/ row.orphan = "no" /\ UNCHANGED feed
         \/ row.orphan # "no" /\ Free(feed[f], p) /\ WriteFeed(f, p, [row EXCEPT !.orphan = "no"])
      /\ tx' = [tx EXCEPT ![p].pc = NextItem(p), ![p].f = None]
      /\ UNCHANGED <<sub, state, user>>

-----------------------------------------------------------------------------
(* Unsubscribe *)

BeginUnsubscribe(p, u, f) ==
  /\ "unsubscribe" \in Ops /\ sub[u][f].cur
  /\ Begin(p, [Idle EXCEPT !.op = "unsubscribe", !.pc = "delete_sub", !.u = u, !.f = f])

\* DELETE FROM subscriptions: removes no row when another request already did.
DeleteSubscription(p) ==
  LET t == tx[p] IN
  /\ At(p, "delete_sub")
  /\ Free(sub[t.u][t.f], p)
  /\ \/ /\ sub[t.u][t.f].cur
        /\ sub' = [sub EXCEPT ![t.u][t.f] = Written(sub[t.u][t.f], p, FALSE)]
        /\ tx' = [tx EXCEPT ![p].pc = "del_trigger", ![p].feeds = {t.f}]
     \/ ~sub[t.u][t.f].cur /\ Goto(p, "count") /\ UNCHANGED sub
  /\ UNCHANGED <<feed, state, user>>

\* What follows the delete triggers of the feeds still to do.
AfterTriggers(p, rest) ==
  IF rest # {} THEN "del_trigger"
  ELSE IF tx[p].op = "unsubscribe" THEN "count" ELSE "commit"

\* feeds_track_orphan on DELETE: the UPDATE decides from its own snapshot whether
\* anyone is left, before it waits for the feed row.
DeleteTrigger(p) ==
  /\ At(p, "del_trigger")
  /\ \E f \in tx[p].feeds :
       LET rest == tx[p].feeds \ {f} IN
       IF SubscribedBy(f, p) # {}
       THEN tx' = [tx EXCEPT ![p].feeds = rest, ![p].pc = AfterTriggers(p, rest)]
       ELSE tx' = [tx EXCEPT ![p].feeds = rest, ![p].pc = "stamp", ![p].f = f]
  /\ UNCHANGED tables

Stamp(p) ==
  LET f == tx[p].f
      row == Seen(feed[f], p)
  IN  /\ At(p, "stamp")
      /\ Free(feed[f], p)
      /\ \/ Live(row) /\ WriteFeed(f, p, [row EXCEPT !.orphan = "recent"])
         \/ ~Live(row) /\ UNCHANGED feed
      /\ Goto(p, AfterTriggers(p, tx[p].feeds))
      /\ UNCHANGED <<sub, state, user>>

CountRemaining(p) ==
  /\ At(p, "count")
  /\ Goto(p, IF SubscribedBy(tx[p].f, p) # {} THEN "delete_states" ELSE "delete_feed")
  /\ UNCHANGED tables

\* DELETE FROM entry_states: only the rows its snapshot sees.
DeleteStates(p) ==
  LET t == tx[p] IN
  /\ At(p, "delete_states")
  /\ \/ ~Seen(state[t.u][t.f], p) /\ UNCHANGED state
     \/ /\ Seen(state[t.u][t.f], p) /\ Free(state[t.u][t.f], p)
        /\ state' = [state EXCEPT ![t.u][t.f] = Written(state[t.u][t.f], p, FALSE)]
  /\ Goto(p, "commit")
  /\ UNCHANGED <<feed, sub, user>>

\* DELETE FROM feeds inside a savepoint: a foreign-key failure leaves the row alone.
DeleteFeed(p) ==
  LET f == tx[p].f IN
  /\ At(p, "delete_feed")
  /\ \/ ~Live(Seen(feed[f], p)) /\ UNCHANGED <<feed, state>>
     \/ /\ Live(Seen(feed[f], p)) /\ CanCascade(f, p)
        /\ \/ Referenced(f, p) /\ UNCHANGED <<feed, state>>
           \/ Unreferenced(f, p) /\ RemoveFeed(f, p)
  /\ Goto(p, "commit")
  /\ UNCHANGED <<sub, user>>

-----------------------------------------------------------------------------
(* Account deletion (the user.deleted webhook) and read/star writes *)

BeginDeleteUser(p, u) ==
  /\ "delete_user" \in Ops /\ user[u].cur
  /\ Begin(p, [Idle EXCEPT !.op = "delete_user", !.pc = "delete_user", !.u = u])

\* DELETE FROM users waits for FOR UPDATE on the row, and for the FOR KEY SHARE of an
\* uncommitted insert that references it.
DeleteUser(p) ==
  LET u == tx[p].u IN
  /\ At(p, "delete_user")
  /\ UserLockable(u, p)
  /\ user' = IF user[u].cur THEN [user EXCEPT ![u] = Written(user[u], p, FALSE)] ELSE user
  /\ Goto(p, IF user[u].cur THEN "cascade" ELSE "commit")
  /\ UNCHANGED <<feed, sub, state>>

\* ON DELETE CASCADE from users to subscriptions (whose delete triggers then run) and
\* to entry_states.
CascadeUser(p) ==
  LET u == tx[p].u
      gone == {f \in FeedIds : sub[u][f].cur}
  IN  /\ At(p, "cascade")
      /\ \A f \in FeedIds : Free(sub[u][f], p) /\ Free(state[u][f], p)
      /\ sub' = [sub EXCEPT ![u] = [f \in FeedIds |->
                   IF f \in gone THEN Written(sub[u][f], p, FALSE) ELSE sub[u][f]]]
      /\ state' = [state EXCEPT ![u] = [f \in FeedIds |->
                   IF state[u][f].cur THEN Written(state[u][f], p, FALSE) ELSE state[u][f]]]
      /\ tx' = [tx EXCEPT ![p].feeds = gone, ![p].pc = AfterTriggers(p, gone)]
      /\ UNCHANGED <<feed, user>>

\* apply_state_batch: one INSERT ... SELECT whose snapshot holds the subscription.
BeginSetState(p, u, f) ==
  /\ "set_state" \in Ops /\ sub[u][f].cur /\ Live(feed[f].cur)
  /\ Begin(p, [Idle EXCEPT !.op = "set_state", !.pc = "write_state", !.u = u, !.f = f])

\* Its write: it waits for the state row, and for the FOR KEY SHARE of a new row on
\* the user and on the entry; either may be gone by then.
WriteState(p) ==
  LET t == tx[p]
      free == Free(user[t.u], p) /\ (Live(feed[t.f].next) \/ Free(feed[t.f], p))
  IN  /\ At(p, "write_state")
      /\ Free(state[t.u][t.f], p)
      /\ state[t.u][t.f].cur \/ free
      /\ IF state[t.u][t.f].cur \/ (user[t.u].cur /\ Live(feed[t.f].cur))
         THEN /\ state' = [state EXCEPT ![t.u][t.f] = Written(state[t.u][t.f], p, TRUE)]
              /\ Goto(p, "commit")
         ELSE Goto(p, "raise") /\ UNCHANGED state
      /\ UNCHANGED <<feed, sub, user>>

-----------------------------------------------------------------------------
(* The worker: persisting a poll, and the orphan GC *)

BeginPersist(p, f, url) ==
  /\ feed[f].cur.status # "unused"
  /\ Begin(p, [Idle EXCEPT !.op = "persist", !.pc = "repoint", !.f = f, !.url = url])

\* update_feed_url inside a savepoint, when the fetch was permanently redirected: a
\* taken URL makes the poll an error, a deleted feed matches no row.
Repoint(p) ==
  LET f == tx[p].f
      url == tx[p].url
      row == Seen(feed[f], p)
      taken == FeedsAt(url, p) # {}
  IN  /\ At(p, "repoint")
      /\ \/ url = None /\ Goto(p, "insert_batch") /\ UNCHANGED feed
         \/ url # None /\ ~Live(row) /\ Goto(p, "insert_batch") /\ UNCHANGED feed
         \/ /\ url = row.url /\ Live(row) /\ Free(feed[f], p)
            /\ Goto(p, "insert_batch") /\ WriteFeed(f, p, row)
         \/ /\ url \notin {None, row.url} /\ Live(row) /\ CanDelete(f, p) /\ ~UrlBusy(url, p)
            /\ \/ taken /\ Goto(p, "record") /\ UNCHANGED feed
               \/ ~taken /\ Goto(p, "insert_batch") /\ WriteFeed(f, p, [row EXCEPT !.url = url])
      /\ UNCHANGED <<sub, state, user>>

\* insert_batch: new entries hold the feed row FOR KEY SHARE; a deleted feed fails the
\* poll.  A 304, an error or a body without new entries inserts nothing.
InsertBatch(p) ==
  LET f == tx[p].f IN
  /\ At(p, "insert_batch")
  /\ \/ Goto(p, "record")
     \/ /\ ~KeyLocked(f, p)
        /\ IF Live(Seen(feed[f], p))
           THEN tx' = [tx EXCEPT ![p].pc = "record", ![p].share = {f}]
           ELSE Goto(p, "raise")
  /\ UNCHANGED tables

\* record_success, record_not_modified or record_error: an UPDATE of the feed row.
RecordPoll(p) ==
  LET f == tx[p].f
      row == Seen(feed[f], p)
  IN  /\ At(p, "record")
      /\ \/ ~Live(row) /\ UNCHANGED feed
         \/ Live(row) /\ Free(feed[f], p) /\ WriteFeed(f, p, row)
      /\ Goto(p, "commit")
      /\ UNCHANGED <<sub, state, user>>

Expired(v) == Live(v) /\ v.orphan = "expired"

\* delete_orphaned: one DELETE.  Its snapshot picks the rows ...
BeginSweep(p) ==
  LET expired == {f \in FeedIds : Expired(feed[f].cur)} IN
  /\ expired # {}
  /\ Begin(p, [Idle EXCEPT !.op = "gc", !.pc = "gc_delete", !.feeds = expired])

\* ... each is locked, checked again if it changed meanwhile, and deleted ...
SweepFeed(p) ==
  /\ At(p, "gc_delete")
  /\ \E f \in tx[p].feeds :
       LET rest == tx[p].feeds \ {f} IN
       /\ CanCascade(f, p)
       /\ \/ Expired(feed[f].cur) /\ RemoveFeed(f, p)
          \/ ~Expired(feed[f].cur) /\ UNCHANGED <<feed, state>>
       /\ tx' = [tx EXCEPT ![p].feeds = rest,
                           ![p].pc = IF rest = {} THEN "gc_check" ELSE "gc_delete"]
  /\ UNCHANGED <<sub, user>>

\* ... and the foreign-key checks run last: one failure undoes the whole sweep.
CheckSweep(p) ==
  LET deleted == {f \in FeedIds : p \in feed[f].by} IN
  /\ At(p, "gc_check")
  /\ \/ (\E f \in deleted : Referenced(f, p)) /\ Goto(p, "raise")
     \/ (\A f \in deleted : Unreferenced(f, p)) /\ Goto(p, "commit")
  /\ UNCHANGED tables

-----------------------------------------------------------------------------
(* The end of a transaction, and time *)

Commit(p) ==
  /\ At(p, "commit")
  /\ feed' = [f \in FeedIds |-> Committed(feed[f], p)]
  /\ sub' = [u \in Users |-> [f \in FeedIds |-> Committed(sub[u][f], p)]]
  /\ state' = [u \in Users |-> [f \in FeedIds |-> Committed(state[u][f], p)]]
  /\ user' = [u \in Users |-> Committed(user[u], p)]
  /\ tx' = [tx EXCEPT ![p] = Idle]

\* An exception leaves the session block: get_session and session.begin() roll back.
\* A transaction may fail at any statement: the statement timeout, a deadlock victim,
\* a lost connection, a killed process.
Rollback(p) ==
  /\ ~At(p, "idle")
  /\ feed' = [f \in FeedIds |-> RolledBack(feed[f], p)]
  /\ sub' = [u \in Users |-> [f \in FeedIds |-> RolledBack(sub[u][f], p)]]
  /\ state' = [u \in Users |-> [f \in FeedIds |-> RolledBack(state[u][f], p)]]
  /\ user' = [u \in Users |-> RolledBack(user[u], p)]
  /\ tx' = [tx EXCEPT ![p] = Idle]

\* A stamp grows older than the grace period.  Only the GC reads its age, so it is
\* enough to let that happen between transactions; a transaction that lasts as long as
\* the grace period is left out.
GracePasses(f) ==
  /\ \A p \in Procs : At(p, "idle")
  /\ Live(feed[f].cur) /\ feed[f].cur.orphan = "recent"
  /\ feed' = [feed EXCEPT ![f] = Row([feed[f].cur EXCEPT !.orphan = "expired"])]
  /\ UNCHANGED <<sub, state, user, tx>>

Begins(p) ==
  \/ /\ p \in Requests
     /\ \E u \in Users : \/ \E url \in Urls : BeginSubscribe(p, u, url)
                         \/ \E urls \in (SUBSET Urls) \ {{}} : BeginImport(p, u, urls)
                         \/ \E f \in FeedIds : BeginUnsubscribe(p, u, f) \/ BeginSetState(p, u, f)
                         \/ BeginDeleteUser(p, u)
  \/ p \in Pollers /\ \E f \in FeedIds, url \in Urls \cup {None} : BeginPersist(p, f, url)
  \/ p \in Sweepers /\ BeginSweep(p)

Statement(p) ==
  \/ LockRow(p) \/ SelectFeed(p) \/ UpsertFeed(p) \/ ReselectFeed(p)
  \/ InsertSubscription(p) \/ InsertTrigger(p)
  \/ DeleteSubscription(p) \/ DeleteTrigger(p) \/ Stamp(p) \/ CountRemaining(p)
  \/ DeleteStates(p) \/ DeleteFeed(p)
  \/ DeleteUser(p) \/ CascadeUser(p) \/ WriteState(p)
  \/ Repoint(p) \/ InsertBatch(p) \/ RecordPoll(p)
  \/ SweepFeed(p) \/ CheckSweep(p)

Next ==
  \/ \E p \in Procs : Begins(p) \/ Statement(p) \/ Commit(p) \/ Rollback(p)
  \/ \E f \in FeedIds : GracePasses(f)

Spec == Init /\ [][Next]_vars

\* Running transactions end (statement_timeout aborts one that waits too long), the
\* grace period passes, and the maintenance loop sweeps again and again: not every
\* sweep is cut short or starts while a request holds the rows it is after.
Quiet == \A q \in Requests \cup Pollers : At(q, "idle")
Fairness ==
  /\ \A p \in Procs : WF_vars(Statement(p) \/ Commit(p) \/ Rollback(p))
  /\ \A f \in FeedIds : SF_vars(GracePasses(f))
  /\ \A p \in Sweepers : /\ SF_vars(Quiet /\ BeginSweep(p))
                         /\ SF_vars(SweepFeed(p)) /\ SF_vars(CheckSweep(p)) /\ SF_vars(Commit(p))
FairSpec == Spec /\ Fairness

-----------------------------------------------------------------------------
(* Properties *)

\* Every variable has the shape its table, or a transaction, can have.
TypeOK ==
  /\ feed \in [FeedIds -> Rows(FeedVals, Procs)]
  /\ sub \in [Users -> [FeedIds -> Rows(BOOLEAN, Procs)]]
  /\ state \in [Users -> [FeedIds -> Rows(BOOLEAN, Procs)]]
  /\ user \in [Users -> Rows(BOOLEAN, Procs)]
  /\ tx \in [Procs -> Txs]

\* The committed rows are those of a catalog whose operations are atomic: however the
\* statements of requests, polls and sweeps interleave, nobody loses a subscription to
\* somebody else's request or to the GC, and a URL never has two feeds.
Catalog == INSTANCE FeedCatalog WITH
  members <- {u \in Users : user[u].cur},
  feeds <- {<<f, feed[f].cur.url>> : f \in {g \in FeedIds : Live(feed[g].cur)}},
  subs <- {s \in Users \X FeedIds : sub[s[1]][s[2]].cur}
CatalogSpec == Catalog!Spec

\* A committed subscription always has its feed and its user, and so has a committed
\* read/star row: the locks and cascades leave nothing dangling.
References ==
  \A u \in Users, f \in FeedIds :
    sub[u][f].cur \/ state[u][f].cur => Live(feed[f].cur) /\ user[u].cur

\* No interleaving of subscribes and imports takes a user over quota_subs (the count is
\* taken under a lock on the user's row).
QuotaRespected ==
  \A u \in Users : Cardinality({f \in FeedIds : sub[u][f].cur}) <= Quota

\* orphaned_at is NULL exactly while the feed has subscribers: what the orphan GC, and
\* models.py, take it to mean.
StampedIffOrphaned ==
  \A f \in FeedIds : Live(feed[f].cur) =>
    (feed[f].cur.orphan = "no" <=> \E u \in Users : sub[u][f].cur)

\* A feed with a subscriber is not stamped, so the GC does not try to delete it.
SubscribedNotStamped ==
  \A f \in FeedIds : Live(feed[f].cur) /\ feed[f].cur.orphan # "no" =>
    ~\E u \in Users : sub[u][f].cur

\* A feed nobody is subscribed to is eventually deleted, unless somebody subscribes.
OrphansCollected ==
  \A f \in FeedIds :
    (Live(feed[f].cur) /\ ~\E u \in Users : sub[u][f].cur)
      ~> (~Live(feed[f].cur) \/ \E u \in Users : sub[u][f].cur)

-----------------------------------------------------------------------------
(* The inductive invariant behind References: who may hold which row when *)

SubscribeOps == {"subscribe", "import"}
OpPCs(op) ==
  CASE op \in SubscribeOps -> {"lock_row", "select", "upsert", "reselect", "insert_sub",
                               "ins_trigger", "conflict", "assert", "raise", "commit"}
    [] op = "unsubscribe" -> {"delete_sub", "del_trigger", "stamp", "count",
                              "delete_states", "delete_feed", "commit"}
    [] op = "delete_user" -> {"delete_user", "cascade", "del_trigger", "stamp", "commit"}
    [] op = "set_state" -> {"write_state", "raise", "commit"}
    [] op = "persist" -> {"repoint", "insert_batch", "record", "raise", "commit"}
    [] op = "gc" -> {"gc_delete", "gc_check", "raise", "commit"}
    [] op = "none" -> {"idle"}

\* The fields the next statement of transaction t reads are set.
Fields(t) ==
  /\ t.pc \in OpPCs(t.op)
  /\ t.op = "none" => t = Idle
  /\ t.op \in RequestOps => t.u \in Users
  /\ t.op \in {"unsubscribe", "set_state", "persist"} => t.f \in FeedIds
  /\ t.pc \in {"insert_sub", "ins_trigger", "stamp", "conflict"} => t.f \in FeedIds
  /\ t.pc \in {"upsert", "reselect"} => t.url \in Urls
  /\ t.pc = "ins_trigger" => t.f \in t.share
  /\ t.share # {} => t.op \in SubscribeOps \cup {"persist"}
FieldsSet == \A p \in Procs : Fields(tx[p])

\* A process between transactions has no row written or locked.
IdleHoldsNothing ==
  \A p \in Procs : tx[p].op = "none" => \A f \in FeedIds :
    /\ p \notin feed[f].by
    /\ \A u \in Users : p \notin sub[u][f].by \cup state[u][f].by

\* A feed row held FOR KEY SHARE stays, under its URL, until the holder ends.
SharedFeedsStay ==
  \A p \in Procs : \A f \in tx[p].share : Live(Seen(feed[f], p)) /\ ~KeyLocked(f, p)

\* Only a subscribe or an account deletion holds a user row; a subscribe past its
\* first statement does, if the user is still there.
UserHolders ==
  /\ \A p \in Procs, u \in Users : p \in user[u].by =>
       /\ user[u].cur
       /\ tx[p].op \in SubscribeOps \cup {"delete_user"}
       /\ tx[p].op # "delete_user" => user[u].next
  /\ \A p \in Procs : tx[p].op \in SubscribeOps /\ tx[p].pc # "lock_row" =>
       (user[tx[p].u].cur => p \in user[tx[p].u].by)

\* A subscription being inserted pins its feed and its user.
InsertedSubs ==
  \A p \in Procs, u \in Users, f \in FeedIds :
    p \in sub[u][f].by /\ ~sub[u][f].cur /\ sub[u][f].next =>
      f \in tx[p].share /\ p \in user[u].by /\ tx[p].op \in SubscribeOps

\* A read/star row being inserted pins its user and its feed's entries.
InsertedStates ==
  \A p \in Procs, u \in Users, f \in FeedIds :
    p \in state[u][f].by /\ ~state[u][f].cur /\ state[u][f].next =>
      /\ tx[p].op = "set_state"
      /\ user[u].cur /\ user[u].next
      /\ Live(feed[f].cur) /\ Live(feed[f].next)

\* p is about to remove the row.
Removes(r, p) == p \in r.by /\ ~r.next

\* An account deletion past its cascade takes every row of the user with it.
UserDeletes ==
  \A p \in Procs, u \in Users : Removes(user[u], p) =>
    /\ tx[p].u = u
    /\ tx[p].pc \in {"cascade", "del_trigger", "stamp", "commit"}
    /\ tx[p].pc # "cascade" => \A f \in FeedIds :
         /\ sub[u][f].cur => Removes(sub[u][f], p)
         /\ state[u][f].cur => Removes(state[u][f], p)

\* A transaction that deletes a feed takes its read/star rows with it, and can only
\* commit if no subscription would be left.
FeedDeletes ==
  \A p \in Procs, f \in FeedIds : p \in feed[f].by =>
    /\ tx[p].op # "set_state"
    /\ ~Live(feed[f].next) =>
         /\ tx[p].pc \in {"gc_delete", "gc_check", "raise", "commit"}
         /\ \A u \in Users : state[u][f].cur => Removes(state[u][f], p)
         /\ tx[p].pc = "commit" => \A u \in Users : sub[u][f].cur => Removes(sub[u][f], p)

IInv ==
  /\ TypeOK /\ FieldsSet /\ IdleHoldsNothing /\ SharedFeedsStay /\ UserHolders
  /\ InsertedSubs /\ InsertedStates /\ UserDeletes /\ FeedDeletes /\ References
=============================================================================
