------------------------------ MODULE ClerkUser ------------------------------
(***************************************************************************)
(* The local row of one Clerk account: user.created, user.updated and       *)
(* user.deleted webhooks, retried until acknowledged and in any order,      *)
(* against sign-ins that provision the row before its webhook comes.  A     *)
(* delivery and a sign-in are transactions of a few SQL statements; each    *)
(* statement is an action.                                                  *)
(***************************************************************************)
EXTENDS Integers, RowVersions

CONSTANTS Deliveries,     \* webhook requests running at a time
          Signins,        \* authenticated requests running at a time
          RetryDays,      \* svix redelivers an unacknowledged event for this long
          TombstoneDays,  \* clerk_tombstone_days
          LastDay,        \* bound: days after the account's deletion
          MaxFaults,      \* bound: requests that fail, and acknowledgements that get lost
          None

VARIABLES row,      \* users: the email of the account's row, None while there is none
          tomb,     \* deleted_clerk_users: the day of the tombstone, or None
          tx,       \* slot -> its transaction, or None
          emitted,  \* events Clerk has sent
          acked,    \* events it knows answered with a 204
          erased,   \* a user.deleted has committed (for NoComeback)
          day,      \* days since the account was deleted
          faults

clerkVars == <<row, tomb, tx, emitted, acked, erased, day, faults>>

Slots == Deliveries \cup Signins
Events == {"created", "updated", "deleted"}
Emails == {"", "first", "second"}

\* The primary email an event carries.
Payload(e) == IF e = "created" THEN "first" ELSE "second"

Txs == [kind : Events \cup {"signin"},
        pc : {"get", "set", "check", "create", "mark", "delete", "insert", "conflict",
              "reread", "commit"},
        late : BOOLEAN,      \* it began after a user.deleted committed
        refused : BOOLEAN]   \* the sign-in is answered 401

\* Identity assumes it.
ClerkConstants ==
  /\ RetryDays \in Nat \ {0} /\ LastDay \in Nat /\ MaxFaults \in Nat
  /\ TombstoneDays \in Nat /\ TombstoneDays >= RetryDays
  /\ Deliveries \cap Signins = {}
  /\ None \notin Emails \cup Nat \cup Txs

Init ==
  /\ row = Row(None) /\ tomb = Row(None)
  /\ tx = [p \in Slots |-> None]
  /\ emitted = {"created"} /\ acked = {} /\ erased = FALSE
  /\ day = 0 /\ faults = 0

At(p, pc) == tx[p] # None /\ tx[p].pc = pc
Goto(p, pc) == tx' = [tx EXCEPT ![p].pc = pc]

\* A row that a transaction other than p is inserting, updating or deleting; the unique
\* index makes an INSERT of the same key wait for it, a row lock alone does not.
Changing(r, p) == ~Free(r, p) /\ r.cur # r.next

Keep == UNCHANGED <<emitted, acked, erased, day, faults>>

\* The request answers a 5xx: its transaction is gone, and a webhook will come again.
Abort(p) ==
  /\ row' = RolledBack(row, p) /\ tomb' = RolledBack(tomb, p)
  /\ tx' = [tx EXCEPT ![p] = None]

-----------------------------------------------------------------------------
(* Webhooks *)

Deliver(p, e) ==
  /\ tx[p] = None /\ p \in Deliveries
  /\ e \in emitted \ acked /\ day < RetryDays
  /\ tx' = [tx EXCEPT ![p] = [kind |-> e, pc |-> IF e = "deleted" THEN "mark" ELSE "get",
                              late |-> erased, refused |-> FALSE]]
  /\ UNCHANGED <<row, tomb>> /\ Keep

\* mark_clerk_deleted: on conflict, it keeps the tombstone that is there.
Mark(p) ==
  /\ At(p, "mark") /\ ~Changing(tomb, p)
  /\ tomb' = IF tomb.cur = None THEN Written(tomb, p, day) ELSE tomb
  /\ Goto(p, "get") /\ UNCHANGED row /\ Keep

\* get_by_clerk_id and what each caller goes on with.  An update that finds no row is
\* dropped, and one that changes nothing sends no UPDATE.
AfterGetMutant(kind, email) ==
  CASE kind = "deleted" -> IF email = None THEN "commit" ELSE "delete"
    [] kind = "signin" -> IF email = None THEN "insert" ELSE "commit"
    [] kind = "created" -> "check"
    [] kind = "updated" -> IF email \in {None, Payload(kind)} THEN "commit" ELSE "set"
AfterGet(kind, email) ==
  CASE kind = "deleted" -> IF email = None THEN "commit" ELSE "delete"
    [] kind = "signin" -> IF email = None THEN "insert" ELSE "commit"
    [] kind = "created" -> IF email = None THEN "check"
                           ELSE IF email = Payload(kind) THEN "commit" ELSE "set"
    [] kind = "updated" -> IF email \in {None, Payload(kind)} THEN "commit" ELSE "set"

Get(p) ==
  /\ At(p, "get")
  /\ Goto(p, AfterGet(tx[p].kind, Seen(row, p)))
  /\ UNCHANGED <<row, tomb>> /\ Keep

\* The UPDATE of the row that get loaded: SQLAlchemy raises when it matches none.
SetEmail(p) ==
  /\ At(p, "set") /\ Free(row, p)
  /\ IF row.cur = None THEN Abort(p)
     ELSE row' = Written(row, p, Payload(tx[p].kind)) /\ Goto(p, "commit") /\ UNCHANGED tomb
  /\ Keep

\* is_clerk_deleted
Check(p) ==
  /\ At(p, "check")
  /\ Goto(p, IF Seen(tomb, p) = None THEN "create" ELSE "commit")
  /\ UNCHANGED <<row, tomb>> /\ Keep

\* create: a plain INSERT, that fails on the unique clerk_user_id.
CreateMutant(p) ==
  /\ At(p, "create") /\ ~Changing(row, p)
  /\ row' = IF row.cur # None THEN row ELSE Written(row, p, Payload("created"))
  /\ Goto(p, "commit") /\ UNCHANGED tomb /\ Keep
Create(p) ==
  /\ At(p, "create") /\ ~Changing(row, p)
  /\ IF row.cur # None THEN Abort(p)
     ELSE row' = Written(row, p, Payload("created")) /\ Goto(p, "commit") /\ UNCHANGED tomb
  /\ Keep

Delete(p) ==
  /\ At(p, "delete") /\ Free(row, p)
  /\ row' = Written(row, p, None)
  /\ Goto(p, "commit") /\ UNCHANGED tomb /\ Keep

-----------------------------------------------------------------------------
(* Sign-ins: _local_user and get_or_create_by_clerk_id *)

\* A session token outlives the account by about a minute.
SignIn(p) ==
  /\ tx[p] = None /\ p \in Signins /\ day = 0
  /\ tx' = [tx EXCEPT ![p] = [kind |-> "signin", pc |-> "get", late |-> erased, refused |-> FALSE]]
  /\ UNCHANGED <<row, tomb>> /\ Keep

\* The INSERT reads the tombstone in its snapshot, and then meets the unique index.
Insert(p) ==
  /\ At(p, "insert")
  /\ Goto(p, IF Seen(tomb, p) = None THEN "conflict" ELSE "reread")
  /\ UNCHANGED <<row, tomb>> /\ Keep

\* ON CONFLICT DO NOTHING waits for an uncommitted row of the same key.
ConflictMutant(p) ==
  /\ At(p, "conflict")
  /\ row' = IF row.cur = None /\ ~Changing(row, p) THEN Written(row, p, "") ELSE row
  /\ Goto(p, "reread") /\ UNCHANGED tomb /\ Keep
Conflict(p) ==
  /\ At(p, "conflict") /\ ~Changing(row, p)
  /\ row' = IF row.cur = None THEN Written(row, p, "") ELSE row
  /\ Goto(p, "reread") /\ UNCHANGED tomb /\ Keep

Reread(p) ==
  /\ At(p, "reread")
  /\ tx' = [tx EXCEPT ![p].pc = "commit", ![p].refused = Seen(row, p) = None]
  /\ UNCHANGED <<row, tomb>> /\ Keep

-----------------------------------------------------------------------------
(* Ends of transactions, the sweep and the world *)

Commit(p) ==
  /\ At(p, "commit")
  /\ row' = Committed(row, p) /\ tomb' = Committed(tomb, p)
  /\ tx' = [tx EXCEPT ![p] = None]
  /\ erased' = (erased \/ tx[p].kind = "deleted")
  /\ \/ acked' = acked \cup ({tx[p].kind} \cap Events) /\ UNCHANGED faults
     \/ /\ p \in Deliveries /\ faults < MaxFaults   \* the 204 gets lost
        /\ faults' = faults + 1 /\ UNCHANGED acked
  /\ UNCHANGED <<emitted, day>>

Fail(p) ==
  /\ tx[p] # None /\ faults < MaxFaults /\ faults' = faults + 1
  /\ Abort(p) /\ UNCHANGED <<emitted, acked, erased, day>>

\* purge_deletion_tombstones drops what is older than clerk_tombstone_days.
OldMutant(stamp) == day - stamp < TombstoneDays
Old(stamp) == day - stamp > TombstoneDays

PurgeTombstone ==
  /\ tomb.cur # None /\ tomb.by = {} /\ Old(tomb.cur)
  /\ tomb' = Row(None)
  /\ UNCHANGED <<row, tx>> /\ Keep

\* Clerk changes the account's email, or deletes the account.
Emit(e) ==
  /\ e \in Events \ emitted /\ "deleted" \notin emitted
  /\ emitted' = emitted \cup {e}
  /\ UNCHANGED <<row, tomb, tx, acked, erased, day, faults>>

\* No transaction is open for a day.
Tick ==
  /\ "deleted" \in emitted /\ day < LastDay /\ \A p \in Slots : tx[p] = None
  /\ day' = day + 1
  /\ UNCHANGED <<row, tomb, tx, emitted, acked, erased, faults>>

Step(p) ==
  \/ Mark(p) \/ Get(p) \/ SetEmail(p) \/ Check(p) \/ Create(p) \/ Delete(p)
  \/ Insert(p) \/ Conflict(p) \/ Reread(p) \/ Commit(p)

Next ==
  \/ \E p \in Slots : Step(p) \/ SignIn(p) \/ Fail(p) \/ \E e \in Events : Deliver(p, e)
  \/ \E e \in Events : Emit(e)
  \/ PurgeTombstone \/ Tick

\* The database answers every statement, and svix delivers what is not acknowledged.
Fairness ==
  /\ \A p \in Slots : WF_clerkVars(Step(p))
  /\ \A e \in Events : WF_clerkVars(\E p \in Deliveries : Deliver(p, e))

Spec == Init /\ [][Next]_clerkVars /\ Fairness

-----------------------------------------------------------------------------
(* Properties *)

\* Each table keeps its type, and a row is held by a running transaction.
TypeOK ==
  /\ row \in Rows(Emails \cup {None}, Slots) /\ tomb \in Rows(0 .. LastDay \cup {None}, Slots)
  /\ tx \in [Slots -> Txs \cup {None}]
  /\ emitted \subseteq Events /\ acked \subseteq emitted /\ erased \in BOOLEAN
  /\ day \in 0 .. LastDay /\ faults \in 0 .. MaxFaults
  /\ \A p \in row.by \cup tomb.by : tx[p] # None

\* Once user.deleted has committed nothing that starts later brings the account's row back:
\* not a late or repeated webhook, not a session token that is still valid, not even after
\* the tombstone is purged.  A transaction already under way at that commit can.
NoComeback ==
  [][erased /\ row.cur = None /\ row'.cur # None => \E p \in row.by : ~tx[p].late]_clerkVars

\* A 204 to user.created means that the row is there with an email, whichever sign-in, retry
\* or update came before or with it; it stays so until the account is deleted.
AckedMeansSynced ==
  TypeOK /\
  ("created" \in acked /\ "deleted" \notin emitted => row.cur \in Emails \ {""})

\* A 401 for "no such user" goes only to accounts that Clerk has deleted: of sign-ins that
\* race to provision one row, none is refused.
RefusedOnlyDeleted ==
  \A p \in Slots : tx[p] # None /\ tx[p].refused => "deleted" \in emitted

\* Every event is applied, unless svix gives up: no sign-in that provisioned the row first
\* makes user.created fail for good, and no two transactions wait for each other.
EventsApplied ==
  \A e \in Events : e \in emitted ~> e \in acked \/ day >= RetryDays
=============================================================================
