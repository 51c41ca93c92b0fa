------------------------- MODULE FeedLifecycleProofs -------------------------
(***************************************************************************)
(* Proofs about FeedLifecycle, for any number of users, feeds, requests,    *)
(* polls and sweeps.                                                        *)
(***************************************************************************)
EXTENDS FeedLifecycle, FiniteSetTheorems, TLAPS

-----------------------------------------------------------------------------
(* Rows *)

\* Reading, writing, committing and rolling back keep a row's type.
LEMMA RowTypes ==
  ASSUME NEW V, NEW P, NEW p \in P, NEW v \in V, NEW r \in Rows(V, P)
  PROVE  /\ Row(v) \in Rows(V, P)
         /\ Written(r, p, v) \in Rows(V, P)
         /\ Committed(r, p) \in Rows(V, P)
         /\ RolledBack(r, p) \in Rows(V, P)
BY DEF Rows, Row, Seen, Written, Committed, RolledBack

\* A row has one writer at most, and an unwritten row has nothing pending.
LEMMA RowFacts ==
  ASSUME NEW V, NEW P, NEW r \in Rows(V, P)
  PROVE  /\ r.by = {} => r.next = r.cur
         /\ \A p, q \in r.by : p = q
         /\ r.by \subseteq P
         /\ r.cur \in V /\ r.next \in V
         /\ \A p : Seen(r, p) \in V
BY DEF Rows, Seen

\* A new, deleted, repointed or restamped feed is a feed row's contents, and the last two
\* are still live.
LEMMA FeedValTypes ==
  /\ Unused \in FeedVals /\ Gone \in FeedVals
  /\ \A url \in Urls : NewFeed(url) \in FeedVals
  /\ \A v \in FeedVals, url \in Urls : Live(v) =>
       [v EXCEPT !.url = url] \in FeedVals /\ Live([v EXCEPT !.url = url])
  /\ \A v \in FeedVals, o \in {"no", "recent", "expired"} : Live(v) =>
       /\ [v EXCEPT !.orphan = o] \in FeedVals /\ Live([v EXCEPT !.orphan = o])
       /\ [v EXCEPT !.orphan = o].url = v.url /\ [v EXCEPT !.orphan = o].status = v.status
BY DEF FeedVals, Unused, Gone, NewFeed, Live

\* The type of one feed row and of what a statement reads in it.
LEMMA FeedTypes ==
  ASSUME TypeOK, NEW f \in FeedIds
  PROVE  /\ feed[f] \in Rows(FeedVals, Procs)
         /\ feed[f].cur \in FeedVals /\ feed[f].next \in FeedVals
         /\ \A p : Seen(feed[f], p) \in FeedVals
<1>1. feed[f] \in Rows(FeedVals, Procs)
  BY DEF TypeOK
<1> QED BY <1>1, RowFacts

\* The quota count of users.lock_row's caller is a natural number.
LEMMA CountTypes ==
  ASSUME TypeOK, NEW u \in Users, NEW p \in Procs
  PROVE  Cardinality(SubscriptionsOf(u, p)) \in Nat
<1>1. IsFiniteSet(FeedIds)
  BY FS_Interval, ConstantsAssumption DEF FeedIds
<1>2. SubscriptionsOf(u, p) \subseteq FeedIds
  BY DEF SubscriptionsOf
<1> QED
  BY <1>1, <1>2, FS_Subset, FS_CardinalityType

\* A process between transactions has a transaction record.
LEMMA IdleType == Idle \in Txs
BY DEF Idle, Txs, PCs, RequestOps

\* The tables start out well typed.
LEMMA TypeInit == Init => TypeOK
<1>1. /\ Row(Unused) \in Rows(FeedVals, Procs)
      /\ Row(TRUE) \in Rows(BOOLEAN, Procs) /\ Row(FALSE) \in Rows(BOOLEAN, Procs)
  BY FeedValTypes DEF Rows, Row
<1>2. ASSUME Init PROVE TypeOK
  <2>1. feed \in [FeedIds -> Rows(FeedVals, Procs)]
    BY <1>1, <1>2 DEF Init
  <2>2. /\ sub \in [Users -> [FeedIds -> Rows(BOOLEAN, Procs)]]
        /\ state \in [Users -> [FeedIds -> Rows(BOOLEAN, Procs)]]
    BY <1>1, <1>2, Zenon DEF Init
  <2>3. user \in [Users -> Rows(BOOLEAN, Procs)]
    BY <1>1, <1>2, Zenon DEF Init
  <2>4. tx \in [Procs -> Txs]
    BY <1>2, IdleType DEF Init
  <2> QED BY <2>1, <2>2, <2>3, <2>4 DEF TypeOK
<1> QED BY <1>2

\* Writing contents of the right type to a feed row keeps the feeds table typed.
LEMMA WriteFeedType ==
  ASSUME TypeOK, NEW f \in FeedIds, NEW p \in Procs, NEW v \in FeedVals, WriteFeed(f, p, v)
  PROVE  feed' \in [FeedIds -> Rows(FeedVals, Procs)]
BY RowTypes DEF TypeOK, WriteFeed

\* DELETE FROM feeds with its cascade keeps feeds and entry_states typed.
LEMMA RemoveFeedType ==
  ASSUME TypeOK, NEW f \in FeedIds, NEW p \in Procs, RemoveFeed(f, p)
  PROVE  /\ feed' \in [FeedIds -> Rows(FeedVals, Procs)]
         /\ state' \in [Users -> [FeedIds -> Rows(BOOLEAN, Procs)]]
<1>1. feed' \in [FeedIds -> Rows(FeedVals, Procs)]
  BY WriteFeedType, FeedValTypes DEF RemoveFeed
<1>2. ASSUME NEW u \in Users
      PROVE  [state[u] EXCEPT ![f] = Written(state[u][f], p, FALSE)]
               \in [FeedIds -> Rows(BOOLEAN, Procs)]
  <2>1. state[u] \in [FeedIds -> Rows(BOOLEAN, Procs)]
    BY DEF TypeOK
  <2>2. Written(state[u][f], p, FALSE) \in Rows(BOOLEAN, Procs)
    BY <2>1, RowTypes
  <2> QED BY <2>1, <2>2
<1> QED BY <1>1, <1>2 DEF RemoveFeed

\* A transaction's record after some of its fields changed.
LEMMA TxTypes ==
  ASSUME NEW t \in Txs, NEW pc \in PCs
  PROVE  /\ [t EXCEPT !.pc = pc] \in Txs
         /\ \A url \in Urls \cup {None}, urls \in SUBSET Urls :
              [t EXCEPT !.pc = pc, !.url = url, !.urls = urls] \in Txs
         /\ \A f \in FeedIds \cup {None}, urls \in SUBSET Urls :
              [t EXCEPT !.pc = pc, !.f = f, !.urls = urls] \in Txs
         /\ \A f \in FeedIds, url \in Urls \cup {None} :
              [t EXCEPT !.pc = pc, !.f = f, !.url = url] \in Txs
         /\ \A f \in FeedIds \cup {None} : [t EXCEPT !.pc = pc, !.f = f] \in Txs
         /\ \A count \in Nat, share \in SUBSET FeedIds :
              [t EXCEPT !.pc = pc, !.count = count, !.share = share] \in Txs
         /\ \A count \in Nat : [t EXCEPT !.count = count, !.pc = pc] \in Txs
         /\ \A share \in SUBSET FeedIds : [t EXCEPT !.pc = pc, !.share = share] \in Txs
         /\ \A feeds \in SUBSET FeedIds : /\ [t EXCEPT !.pc = pc, !.feeds = feeds] \in Txs
                                          /\ [t EXCEPT !.feeds = feeds, !.pc = pc] \in Txs
         /\ \A feeds \in SUBSET FeedIds, f \in FeedIds :
              [t EXCEPT !.feeds = feeds, !.pc = pc, !.f = f] \in Txs
BY DEF Txs

\* Moving on to the next statement keeps the transactions typed.
LEMMA GotoType ==
  ASSUME TypeOK, NEW p \in Procs, NEW pc \in PCs, Goto(p, pc)
  PROVE  tx' \in [Procs -> Txs]
<1>1. [tx[p] EXCEPT !.pc = pc] \in Txs
  BY TxTypes DEF TypeOK
<1> QED BY <1>1 DEF TypeOK, Goto

\* Beginning a transaction leaves the tables alone and types its record.
LEMMA BeginType ==
  ASSUME TypeOK, NEW p \in Procs, Begins(p)
  PROVE  TypeOK'
<1>1. ASSUME NEW t \in Txs, Begin(p, t) PROVE TypeOK'
  BY <1>1 DEF Begin, TypeOK, tables
<1>2. ASSUME NEW u \in Users, NEW url \in Urls, BeginSubscribe(p, u, url) PROVE TypeOK'
  BY <1>1, <1>2, IdleType DEF BeginSubscribe, Txs, PCs, RequestOps
<1>3. ASSUME NEW u \in Users, NEW urls \in SUBSET Urls, BeginImport(p, u, urls) PROVE TypeOK'
  BY <1>1, <1>3, IdleType DEF BeginImport, Txs, PCs, RequestOps
<1>4. ASSUME NEW u \in Users, NEW f \in FeedIds, BeginUnsubscribe(p, u, f) PROVE TypeOK'
  BY <1>1, <1>4, IdleType DEF BeginUnsubscribe, Txs, PCs, RequestOps
<1>5. ASSUME NEW u \in Users, NEW f \in FeedIds, BeginSetState(p, u, f) PROVE TypeOK'
  BY <1>1, <1>5, IdleType DEF BeginSetState, Txs, PCs, RequestOps
<1>6. ASSUME NEW u \in Users, BeginDeleteUser(p, u) PROVE TypeOK'
  BY <1>1, <1>6, IdleType DEF BeginDeleteUser, Txs, PCs, RequestOps
<1>7. ASSUME NEW f \in FeedIds, NEW url \in Urls \cup {None}, BeginPersist(p, f, url) PROVE TypeOK'
  BY <1>1, <1>7, IdleType DEF BeginPersist, Txs, PCs, RequestOps
<1>8. ASSUME BeginSweep(p) PROVE TypeOK'
  BY <1>1, <1>8, IdleType DEF BeginSweep, Txs, PCs, RequestOps
<1> QED
  BY <1>2, <1>3, <1>4, <1>5, <1>6, <1>7, <1>8 DEF Begins

\* Committing or rolling back every row of a transaction.
LEMMA EndType ==
  ASSUME TypeOK, NEW p \in Procs, Commit(p) \/ Rollback(p)
  PROVE  TypeOK'
<1>1. /\ \A f \in FeedIds : feed[f] \in Rows(FeedVals, Procs)
      /\ \A u \in Users, f \in FeedIds : /\ sub[u][f] \in Rows(BOOLEAN, Procs)
                                         /\ state[u][f] \in Rows(BOOLEAN, Procs)
      /\ \A u \in Users : user[u] \in Rows(BOOLEAN, Procs)
  BY DEF TypeOK
<1>2. CASE Commit(p)
  <2>1. /\ \A f \in FeedIds : Committed(feed[f], p) \in Rows(FeedVals, Procs)
        /\ \A u \in Users, f \in FeedIds : /\ Committed(sub[u][f], p) \in Rows(BOOLEAN, Procs)
                                           /\ Committed(state[u][f], p) \in Rows(BOOLEAN, Procs)
        /\ \A u \in Users : Committed(user[u], p) \in Rows(BOOLEAN, Procs)
    BY <1>1 DEF Committed, Rows, Row
  <2> QED BY <1>2, <2>1, IdleType DEF Commit, TypeOK
<1>3. CASE Rollback(p)
  <2>1. /\ \A f \in FeedIds : RolledBack(feed[f], p) \in Rows(FeedVals, Procs)
        /\ \A u \in Users, f \in FeedIds : /\ RolledBack(sub[u][f], p) \in Rows(BOOLEAN, Procs)
                                           /\ RolledBack(state[u][f], p) \in Rows(BOOLEAN, Procs)
        /\ \A u \in Users : RolledBack(user[u], p) \in Rows(BOOLEAN, Procs)
    BY <1>1 DEF RolledBack, Rows, Row
  <2> QED BY <1>3, <2>1, IdleType DEF Rollback, TypeOK
<1> QED BY <1>2, <1>3

(* The statements of a transaction, by the tables they write. *)

\* The statement a transaction runs next says which operation it is, and which of its
\* fields are set.
LEMMA PcFacts ==
  ASSUME TypeOK, FieldsSet, NEW p \in Procs
  PROVE  LET t == tx[p] IN
         /\ t \in Txs /\ Fields(t)
         /\ t.pc \in {"lock_row", "select", "upsert", "reselect", "insert_sub", "ins_trigger",
                      "conflict", "assert"} => t.op \in SubscribeOps /\ t.u \in Users
         /\ t.pc \in {"insert_sub", "ins_trigger", "stamp", "conflict"} => t.f \in FeedIds
         /\ t.pc \in {"upsert", "reselect"} => t.url \in Urls
         /\ t.pc \in {"delete_sub", "count", "delete_states", "delete_feed"} =>
              t.op = "unsubscribe" /\ t.u \in Users /\ t.f \in FeedIds
         /\ t.pc \in {"del_trigger", "stamp"} => t.op \in {"unsubscribe", "delete_user"} /\ t.u \in Users
         /\ t.pc \in {"delete_user", "cascade"} => t.op = "delete_user" /\ t.u \in Users
         /\ t.pc = "write_state" => t.op = "set_state" /\ t.u \in Users /\ t.f \in FeedIds
         /\ t.pc \in {"repoint", "insert_batch", "record"} => t.op = "persist" /\ t.f \in FeedIds
         /\ t.pc \in {"gc_delete", "gc_check"} => t.op = "gc"
         /\ t.pc = "idle" <=> t.op = "none"
<1>1. tx[p] \in Txs /\ Fields(tx[p])
  BY DEF TypeOK, FieldsSet
<1> QED BY <1>1 DEF Fields, OpPCs, Txs, SubscribeOps, RequestOps

\* Writing one row of subscriptions or entry_states keeps the table typed.
LEMMA WriteRowType ==
  ASSUME NEW T \in [Users -> [FeedIds -> Rows(BOOLEAN, Procs)]], NEW p \in Procs,
         NEW u \in Users, NEW f \in FeedIds, NEW v \in BOOLEAN
  PROVE  [T EXCEPT ![u][f] = Written(T[u][f], p, v)] \in [Users -> [FeedIds -> Rows(BOOLEAN, Procs)]]
<1>1. Written(T[u][f], p, v) \in Rows(BOOLEAN, Procs)
  BY RowTypes
<1> QED BY <1>1

\* The statements of a subscribe or an import keep the type invariant.
LEMMA SubscribeType ==
  ASSUME TypeOK, FieldsSet, SharedFeedsStay, NEW p \in Procs,
         LockRow(p) \/ SelectFeed(p) \/ UpsertFeed(p) \/ ReselectFeed(p)
           \/ InsertSubscription(p) \/ InsertTrigger(p)
  PROVE  TypeOK'
<1>1. /\ tx[p] \in Txs /\ tx \in [Procs -> Txs]
      /\ NextItem(p) \in PCs
  BY DEF TypeOK, NextItem, PCs
<1>2. CASE LockRow(p)
  <2>1. tx[p].u \in Users
    BY <1>1, <1>2, PcFacts DEF LockRow, At
  <2>2. Cardinality(SubscriptionsOf(tx[p].u, p)) \in Nat
    BY <2>1, CountTypes
  <2>3. tx' \in [Procs -> Txs]
    BY <1>1, <1>2, <2>2 DEF LockRow, Txs, PCs
  <2>4. Written(user[tx[p].u], p, TRUE) \in Rows(BOOLEAN, Procs)
    BY <2>1, RowTypes DEF TypeOK
  <2> QED BY <1>2, <2>1, <2>3, <2>4 DEF LockRow, TypeOK
<1>3. CASE SelectFeed(p)
  <2>1. PICK url \in tx[p].urls :
          \/ tx' = [tx EXCEPT ![p].pc = "upsert", ![p].url = url, ![p].urls = @ \ {url}]
          \/ \E f \in FeedIds :
               tx' = [tx EXCEPT ![p].pc = "insert_sub", ![p].f = f, ![p].urls = @ \ {url}]
    BY <1>3 DEF SelectFeed, FeedsAt
  <2>2. url \in Urls /\ tx[p].urls \ {url} \in SUBSET Urls
    BY <1>1, <2>1 DEF Txs
  <2>3. tx' \in [Procs -> Txs]
    <3>1. CASE tx' = [tx EXCEPT ![p].pc = "upsert", ![p].url = url, ![p].urls = @ \ {url}]
      BY <1>1, <2>2, <3>1 DEF Txs, PCs
    <3>2. ASSUME NEW f \in FeedIds,
                 tx' = [tx EXCEPT ![p].pc = "insert_sub", ![p].f = f, ![p].urls = @ \ {url}]
          PROVE  tx' \in [Procs -> Txs]
      BY <1>1, <2>2, <3>2 DEF Txs, PCs
    <3> QED BY <2>1, <3>1, <3>2
  <2> QED BY <1>3, <2>3 DEF SelectFeed, TypeOK, tables
<1>4. CASE UpsertFeed(p)
  <2>1. CASE Goto(p, "reselect") /\ UNCHANGED tables
    BY <2>1, GotoType DEF TypeOK, PCs, tables
  <2>2. CASE /\ \E f \in FeedIds : /\ WriteFeed(f, p, NewFeed(tx[p].url))
                                   /\ tx' = [tx EXCEPT ![p].pc = "insert_sub", ![p].f = f, ![p].url = None]
             /\ UNCHANGED <<sub, state, user>>
    <3>1. PICK f \in FeedIds : /\ WriteFeed(f, p, NewFeed(tx[p].url))
                               /\ tx' = [tx EXCEPT ![p].pc = "insert_sub", ![p].f = f, ![p].url = None]
      BY <2>2
    <3>2. tx' \in [Procs -> Txs]
      BY <1>1, <3>1 DEF Txs, PCs
    <3>3. tx[p].url \in Urls
      BY <1>4, PcFacts DEF UpsertFeed, At
    <3>4. feed' \in [FeedIds -> Rows(FeedVals, Procs)]
      BY <3>1, <3>3, WriteFeedType, FeedValTypes
    <3> QED BY <2>2, <3>2, <3>4 DEF TypeOK
  <2> QED BY <1>4, <2>1, <2>2 DEF UpsertFeed
<1>5. CASE ReselectFeed(p)
  <2>1. CASE Goto(p, "assert")
    BY <1>5, <2>1, GotoType DEF ReselectFeed, TypeOK, PCs, tables
  <2>2. CASE \E f \in FeedIds : tx' = [tx EXCEPT ![p].pc = "insert_sub", ![p].f = f, ![p].url = None]
    <3>1. tx' \in [Procs -> Txs]
      <4>1. PICK f \in FeedIds :
              tx' = [tx EXCEPT ![p].pc = "insert_sub", ![p].f = f, ![p].url = None]
        BY <2>2
      <4> QED BY <1>1, <4>1 DEF Txs, PCs
    <3> QED BY <1>5, <3>1 DEF ReselectFeed, TypeOK, tables
  <2> QED BY <1>5, <2>1, <2>2 DEF ReselectFeed, FeedsAt
<1>6. CASE InsertSubscription(p)
  <2>1. tx[p].u \in Users /\ tx[p].f \in FeedIds
    BY <1>1, <1>6, PcFacts DEF InsertSubscription, At
  <2>2. CASE UNCHANGED tables /\ \E pc \in PCs : Goto(p, pc)
    BY <2>2, GotoType DEF TypeOK, tables
  <2>3. CASE /\ sub' = [sub EXCEPT ![tx[p].u][tx[p].f] = Written(sub[tx[p].u][tx[p].f], p, TRUE)]
             /\ tx' = [tx EXCEPT ![p].pc = "ins_trigger", ![p].count = @ + 1,
                                    ![p].share = @ \cup {tx[p].f}]
             /\ UNCHANGED <<feed, state, user>>
    <3>1. tx' \in [Procs -> Txs]
      BY <1>1, <2>1, <2>3 DEF Txs, PCs
    <3>2. sub' \in [Users -> [FeedIds -> Rows(BOOLEAN, Procs)]]
      BY <2>1, <2>3, WriteRowType DEF TypeOK
    <3> QED BY <2>3, <3>1, <3>2 DEF TypeOK
  <2>4. "raise" \in PCs /\ "conflict" \in PCs
    BY DEF PCs
  <2> QED BY <1>1, <1>6, <2>2, <2>3, <2>4 DEF InsertSubscription
<1>7. CASE InsertTrigger(p)
  <2>1. tx[p].f \in FeedIds
    BY <1>7, PcFacts DEF InsertTrigger, At
  <2>2. tx' \in [Procs -> Txs]
    BY <1>1, <1>7 DEF InsertTrigger, Txs
  <2>3. [Seen(feed[tx[p].f], p) EXCEPT !.orphan = "no"] \in FeedVals
    <3>1. tx[p].f \in tx[p].share
      BY <1>7, PcFacts DEF InsertTrigger, At, Fields
    <3>2. Live(Seen(feed[tx[p].f], p))
      BY <3>1 DEF SharedFeedsStay
    <3> QED BY <2>1, <3>2, FeedTypes, FeedValTypes
  <2>4. feed' \in [FeedIds -> Rows(FeedVals, Procs)]
    BY <1>7, <2>1, <2>3, WriteFeedType DEF InsertTrigger, TypeOK
  <2> QED BY <1>7, <2>2, <2>4 DEF InsertTrigger, TypeOK
<1> QED BY <1>2, <1>3, <1>4, <1>5, <1>6, <1>7

\* The statements of an unsubscribe keep the type invariant.
LEMMA UnsubscribeType ==
  ASSUME TypeOK, FieldsSet, NEW p \in Procs,
         DeleteSubscription(p) \/ DeleteTrigger(p) \/ Stamp(p) \/ CountRemaining(p)
           \/ DeleteStates(p) \/ DeleteFeed(p)
  PROVE  TypeOK'
<1>1. /\ tx[p] \in Txs /\ tx \in [Procs -> Txs]
      /\ \A rest : AfterTriggers(p, rest) \in PCs
  BY DEF TypeOK, AfterTriggers, PCs
<1>2. /\ "count" \in PCs /\ "delete_states" \in PCs /\ "delete_feed" \in PCs /\ "commit" \in PCs
  BY DEF PCs
<1>3. CASE DeleteSubscription(p)
  <2>1. tx[p].u \in Users /\ tx[p].f \in FeedIds
    BY <1>1, <1>3, PcFacts DEF DeleteSubscription, At
  <2>2. sub' \in [Users -> [FeedIds -> Rows(BOOLEAN, Procs)]]
    <3>1. [sub EXCEPT ![tx[p].u][tx[p].f] = Written(sub[tx[p].u][tx[p].f], p, FALSE)]
            \in [Users -> [FeedIds -> Rows(BOOLEAN, Procs)]]
      <4>1. sub \in [Users -> [FeedIds -> Rows(BOOLEAN, Procs)]] /\ FALSE \in BOOLEAN
        BY DEF TypeOK
      <4> QED BY <2>1, <4>1, WriteRowType, Zenon
    <3>2. \/ sub' = [sub EXCEPT ![tx[p].u][tx[p].f] = Written(sub[tx[p].u][tx[p].f], p, FALSE)]
          \/ sub' = sub
      BY <1>3 DEF DeleteSubscription
    <3> QED BY <3>1, <3>2 DEF TypeOK
  <2>3. tx' \in [Procs -> Txs]
    <3>1. CASE tx' = [tx EXCEPT ![p].pc = "del_trigger", ![p].feeds = {tx[p].f}]
      <4>1. {tx[p].f} \in SUBSET FeedIds /\ "del_trigger" \in PCs
        BY <2>1 DEF PCs
      <4> QED BY <1>1, <3>1, <4>1 DEF Txs
    <3>2. CASE Goto(p, "count")
      BY <1>2, <3>2, GotoType
    <3> QED BY <1>3, <3>1, <3>2 DEF DeleteSubscription
  <2> QED BY <1>3, <2>2, <2>3 DEF DeleteSubscription, TypeOK
<1>4. CASE DeleteTrigger(p)
  <2>1. PICK f \in tx[p].feeds :
          LET rest == tx[p].feeds \ {f} IN
          \/ tx' = [tx EXCEPT ![p].feeds = rest, ![p].pc = AfterTriggers(p, rest)]
          \/ tx' = [tx EXCEPT ![p].feeds = rest, ![p].pc = "stamp", ![p].f = f]
    BY <1>4 DEF DeleteTrigger
  <2>2. f \in FeedIds /\ tx[p].feeds \ {f} \in SUBSET FeedIds /\ "stamp" \in PCs
    BY <1>1, <2>1 DEF Txs, PCs
  <2>3. tx' \in [Procs -> Txs]
    <3>1. CASE tx' = [tx EXCEPT ![p].feeds = tx[p].feeds \ {f},
                                ![p].pc = AfterTriggers(p, tx[p].feeds \ {f})]
      BY <1>1, <2>2, <3>1 DEF Txs
    <3>2. CASE tx' = [tx EXCEPT ![p].feeds = tx[p].feeds \ {f}, ![p].pc = "stamp", ![p].f = f]
      BY <1>1, <2>2, <3>2 DEF Txs
    <3> QED BY <2>1, <3>1, <3>2
  <2> QED BY <1>4, <2>3 DEF DeleteTrigger, TypeOK, tables
<1>5. CASE Stamp(p)
  <2>1. tx[p].f \in FeedIds
    BY <1>5, PcFacts DEF Stamp, At
  <2>2. tx' \in [Procs -> Txs]
    BY <1>1, <1>5, GotoType DEF Stamp
  <2>3. Live(Seen(feed[tx[p].f], p)) => [Seen(feed[tx[p].f], p) EXCEPT !.orphan = "recent"] \in FeedVals
    BY <2>1, FeedTypes, FeedValTypes
  <2>4. feed' \in [FeedIds -> Rows(FeedVals, Procs)]
    BY <1>5, <2>1, <2>3, WriteFeedType DEF Stamp, TypeOK
  <2> QED BY <1>5, <2>2, <2>4 DEF Stamp, TypeOK
<1>6. CASE CountRemaining(p)
  BY <1>2, <1>6, GotoType DEF CountRemaining, TypeOK, tables
<1>7. CASE DeleteStates(p)
  <2>1. tx[p].u \in Users /\ tx[p].f \in FeedIds
    BY <1>1, <1>7, PcFacts DEF DeleteStates, At
  <2>2. state' \in [Users -> [FeedIds -> Rows(BOOLEAN, Procs)]]
    <3>1. [state EXCEPT ![tx[p].u][tx[p].f] = Written(state[tx[p].u][tx[p].f], p, FALSE)]
            \in [Users -> [FeedIds -> Rows(BOOLEAN, Procs)]]
      <4>1. state \in [Users -> [FeedIds -> Rows(BOOLEAN, Procs)]] /\ FALSE \in BOOLEAN
        BY DEF TypeOK
      <4> QED BY <2>1, <4>1, WriteRowType, Zenon
    <3>2. \/ state' = [state EXCEPT ![tx[p].u][tx[p].f] = Written(state[tx[p].u][tx[p].f], p, FALSE)]
          \/ state' = state
      BY <1>7 DEF DeleteStates
    <3> QED BY <3>1, <3>2 DEF TypeOK
  <2>3. tx' \in [Procs -> Txs]
    BY <1>2, <1>7, GotoType DEF DeleteStates
  <2> QED BY <1>7, <2>2, <2>3 DEF DeleteStates, TypeOK
<1>8. CASE DeleteFeed(p)
  <2>1. tx[p].f \in FeedIds
    BY <1>1, <1>8, PcFacts DEF DeleteFeed, At
  <2>2. /\ feed' \in [FeedIds -> Rows(FeedVals, Procs)]
        /\ state' \in [Users -> [FeedIds -> Rows(BOOLEAN, Procs)]]
    BY <1>8, <2>1, RemoveFeedType DEF DeleteFeed, TypeOK
  <2>3. tx' \in [Procs -> Txs]
    BY <1>2, <1>8, GotoType DEF DeleteFeed
  <2> QED BY <1>8, <2>2, <2>3 DEF DeleteFeed, TypeOK
<1> QED BY <1>3, <1>4, <1>5, <1>6, <1>7, <1>8

\* The statements of an account deletion and of a read/star write keep the type invariant.
LEMMA UserType ==
  ASSUME TypeOK, FieldsSet, NEW p \in Procs, DeleteUser(p) \/ CascadeUser(p) \/ WriteState(p)
  PROVE  TypeOK'
<1>1. /\ tx[p] \in Txs /\ tx \in [Procs -> Txs]
      /\ \A rest : AfterTriggers(p, rest) \in PCs
      /\ "cascade" \in PCs /\ "commit" \in PCs /\ "raise" \in PCs
  BY DEF TypeOK, AfterTriggers, PCs
<1>2. tx[p].u \in Users
  BY <1>1, PcFacts DEF DeleteUser, CascadeUser, WriteState, At
<1>3. CASE DeleteUser(p)
  <2>1. Written(user[tx[p].u], p, FALSE) \in Rows(BOOLEAN, Procs)
    BY <1>2, RowTypes DEF TypeOK
  <2>2. tx' \in [Procs -> Txs]
    BY <1>1, <1>3, GotoType DEF DeleteUser
  <2> QED BY <1>2, <1>3, <2>1, <2>2 DEF DeleteUser, TypeOK
<1>4. CASE CascadeUser(p)
  <2>1. \A f \in FeedIds : /\ Written(sub[tx[p].u][f], p, FALSE) \in Rows(BOOLEAN, Procs)
                           /\ Written(state[tx[p].u][f], p, FALSE) \in Rows(BOOLEAN, Procs)
    <3>1. /\ \A f \in FeedIds : sub[tx[p].u][f] \in Rows(BOOLEAN, Procs)
          /\ \A f \in FeedIds : state[tx[p].u][f] \in Rows(BOOLEAN, Procs)
          /\ FALSE \in BOOLEAN
      BY <1>2 DEF TypeOK
    <3> QED BY <3>1, RowTypes, Zenon
  <2>2. tx' \in [Procs -> Txs]
    BY <1>1, <1>4 DEF CascadeUser, Txs
  <2>3. sub' \in [Users -> [FeedIds -> Rows(BOOLEAN, Procs)]]
    BY <1>2, <1>4, <2>1 DEF CascadeUser, TypeOK
  <2>4. state' \in [Users -> [FeedIds -> Rows(BOOLEAN, Procs)]]
    BY <1>2, <1>4, <2>1 DEF CascadeUser, TypeOK
  <2> QED BY <1>4, <2>2, <2>3, <2>4 DEF CascadeUser, TypeOK
<1>5. CASE WriteState(p)
  <2>1. tx[p].f \in FeedIds
    BY <1>1, <1>5, PcFacts DEF WriteState, At
  <2>2. state' \in [Users -> [FeedIds -> Rows(BOOLEAN, Procs)]]
    <3>1. [state EXCEPT ![tx[p].u][tx[p].f] = Written(state[tx[p].u][tx[p].f], p, TRUE)]
            \in [Users -> [FeedIds -> Rows(BOOLEAN, Procs)]]
      <4>1. state \in [Users -> [FeedIds -> Rows(BOOLEAN, Procs)]] /\ TRUE \in BOOLEAN
        BY DEF TypeOK
      <4> QED BY <1>2, <2>1, <4>1, WriteRowType, Zenon
    <3>2. \/ state' = [state EXCEPT ![tx[p].u][tx[p].f] = Written(state[tx[p].u][tx[p].f], p, TRUE)]
          \/ state' = state
      BY <1>5 DEF WriteState
    <3> QED BY <3>1, <3>2 DEF TypeOK
  <2>3. tx' \in [Procs -> Txs]
    BY <1>1, <1>5, GotoType DEF WriteState
  <2> QED BY <1>5, <2>2, <2>3 DEF WriteState, TypeOK
<1> QED BY <1>3, <1>4, <1>5

\* The statements of a poll and of the orphan GC keep the type invariant.
LEMMA WorkerType ==
  ASSUME TypeOK, FieldsSet, NEW p \in Procs,
         Repoint(p) \/ InsertBatch(p) \/ RecordPoll(p) \/ SweepFeed(p) \/ CheckSweep(p)
  PROVE  TypeOK'
<1>1. /\ tx[p] \in Txs /\ tx \in [Procs -> Txs]
      /\ "insert_batch" \in PCs /\ "record" \in PCs /\ "commit" \in PCs /\ "raise" \in PCs
  BY DEF TypeOK, PCs
<1>2. CASE Repoint(p)
  <2>1. tx[p].f \in FeedIds
    BY <1>1, <1>2, PcFacts DEF Repoint, At
  <2>2. /\ Seen(feed[tx[p].f], p) \in FeedVals
        /\ tx[p].url # None /\ Live(Seen(feed[tx[p].f], p)) =>
             [Seen(feed[tx[p].f], p) EXCEPT !.url = tx[p].url] \in FeedVals
    BY <1>1, <2>1, FeedTypes, FeedValTypes DEF Txs
  <2>3. feed' \in [FeedIds -> Rows(FeedVals, Procs)]
    BY <1>2, <2>1, <2>2, WriteFeedType DEF Repoint, TypeOK
  <2>4. tx' \in [Procs -> Txs]
    BY <1>1, <1>2, GotoType DEF Repoint
  <2> QED BY <1>2, <2>3, <2>4 DEF Repoint, TypeOK
<1>3. CASE InsertBatch(p)
  <2>1. tx[p].f \in FeedIds
    BY <1>1, <1>3, PcFacts DEF InsertBatch, At
  <2>2. tx' \in [Procs -> Txs]
    BY <1>1, <1>3, <2>1, GotoType DEF InsertBatch, Txs
  <2> QED BY <1>3, <2>2 DEF InsertBatch, TypeOK, tables
<1>4. CASE RecordPoll(p)
  <2>1. tx[p].f \in FeedIds
    BY <1>1, <1>4, PcFacts DEF RecordPoll, At
  <2>2. feed' \in [FeedIds -> Rows(FeedVals, Procs)]
    <3>1. Seen(feed[tx[p].f], p) \in FeedVals
      BY <2>1, FeedTypes
    <3> QED BY <1>4, <2>1, <3>1, WriteFeedType DEF RecordPoll, TypeOK
  <2>3. tx' \in [Procs -> Txs]
    BY <1>1, <1>4, GotoType DEF RecordPoll
  <2> QED BY <1>4, <2>2, <2>3 DEF RecordPoll, TypeOK
<1>5. CASE SweepFeed(p)
  <2>1. PICK f \in tx[p].feeds :
          /\ RemoveFeed(f, p) \/ UNCHANGED <<feed, state>>
          /\ tx' = [tx EXCEPT ![p].feeds = tx[p].feeds \ {f},
                              ![p].pc = IF tx[p].feeds \ {f} = {} THEN "gc_check" ELSE "gc_delete"]
    BY <1>5 DEF SweepFeed
  <2>2. f \in FeedIds /\ tx[p].feeds \ {f} \in SUBSET FeedIds
    BY <1>1, <2>1 DEF Txs
  <2>3. tx' \in [Procs -> Txs]
    BY <1>1, <2>1, <2>2 DEF Txs, PCs
  <2>4. /\ feed' \in [FeedIds -> Rows(FeedVals, Procs)]
        /\ state' \in [Users -> [FeedIds -> Rows(BOOLEAN, Procs)]]
    BY <2>1, <2>2, RemoveFeedType DEF TypeOK
  <2> QED BY <1>5, <2>3, <2>4 DEF SweepFeed, TypeOK
<1>6. CASE CheckSweep(p)
  BY <1>1, <1>6, GotoType DEF CheckSweep, TypeOK, tables
<1> QED BY <1>2, <1>3, <1>4, <1>5, <1>6

\* The passing of the grace period keeps the type invariant.
LEMMA GraceType ==
  ASSUME TypeOK, NEW f \in FeedIds, GracePasses(f)
  PROVE  TypeOK'
<1>1. Row([feed[f].cur EXCEPT !.orphan = "expired"]) \in Rows(FeedVals, Procs)
  <2>1. feed[f].cur \in FeedVals
    BY FeedTypes
  <2>2. [feed[f].cur EXCEPT !.orphan = "expired"] \in FeedVals
    BY <2>1, FeedValTypes DEF GracePasses
  <2> QED BY <2>2 DEF Rows, Row
<1> QED BY <1>1 DEF GracePasses, TypeOK

-----------------------------------------------------------------------------
(* What one statement does to each row, whichever statement it is *)

FeedEffect(p, f) ==
  \/ feed'[f] = feed[f]
  \/ \E v \in FeedVals :
       /\ Live(v) /\ Free(feed[f], p) /\ feed'[f] = Written(feed[f], p, v)
       /\ tx[p].op \notin {"none", "set_state"}
       /\ \/ feed[f] = Row(Unused)
          \/ CanDelete(f, p)
          \/ v.status = Seen(feed[f], p).status /\ v.url = Seen(feed[f], p).url
  \/ /\ CanCascade(f, p) /\ feed'[f] = Written(feed[f], p, Gone)
     /\ \A u \in Users : state'[u][f] = Written(state[u][f], p, FALSE)
     /\ \/ tx[p].op = "gc" /\ tx'[p].pc \in {"gc_delete", "gc_check"}
        \/ /\ tx[p].op = "unsubscribe" /\ tx'[p].pc = "commit"
           /\ Unreferenced(f, p) /\ UNCHANGED sub

SubEffect(p, u, f) ==
  \/ sub'[u][f] = sub[u][f]
  \/ /\ Free(sub[u][f], p) /\ sub'[u][f] = Written(sub[u][f], p, FALSE)
     /\ tx[p].op \in {"unsubscribe", "delete_user"}
  \/ /\ Free(sub[u][f], p) /\ sub'[u][f] = Written(sub[u][f], p, TRUE)
     /\ tx[p].pc = "insert_sub" /\ tx[p].op \in SubscribeOps
     /\ u = tx[p].u /\ user[u].cur /\ f \in tx'[p].share

StateEffect(p, u, f) ==
  \/ state'[u][f] = state[u][f]
  \/ /\ Free(state[u][f], p) /\ state'[u][f] = Written(state[u][f], p, FALSE)
     /\ tx[p].op # "none"
  \/ /\ Free(state[u][f], p) /\ state'[u][f] = Written(state[u][f], p, TRUE)
     /\ tx[p].op = "set_state"
     /\ ~state[u][f].cur =>
          /\ user[u].cur /\ Free(user[u], p) /\ UNCHANGED <<feed, user>>
          /\ Live(feed[f].cur) /\ (Live(feed[f].next) \/ Free(feed[f], p))

UserEffect(p, u) ==
  \/ user'[u] = user[u]
  \/ /\ Free(user[u], p) /\ user[u].cur /\ user'[u] = Written(user[u], p, TRUE)
     /\ tx[p].op \in SubscribeOps
  \/ /\ UserLockable(u, p) /\ user[u].cur /\ user'[u] = Written(user[u], p, FALSE)
     /\ tx[p].op = "delete_user" /\ u = tx[p].u /\ tx'[p].pc = "cascade"
     /\ UNCHANGED state

TxEffect(p) ==
  LET old == tx[p]
      new == tx'[p]
  IN  /\ \A q \in Procs \ {p} : tx'[q] = tx[q]
      /\ new \in Txs /\ Fields(new) /\ new.op = old.op /\ new.u = old.u
      /\ old.pc \notin {"idle", "raise", "commit"} /\ new.pc # "lock_row"
      /\ \A f \in new.share \ old.share :
           feed'[f] = feed[f] /\ Live(Seen(feed[f], p)) /\ ~KeyLocked(f, p)
      /\ old.op \in SubscribeOps => old.share \subseteq new.share
      /\ old.pc = "lock_row" /\ user[old.u].cur => p \in user'[old.u].by
      /\ old.op = "delete_user" /\ old.pc # "delete_user" =>
           /\ new.pc \in {"del_trigger", "stamp", "commit"}
           /\ \A f \in FeedIds :
                \/ /\ old.pc # "cascade"
                   /\ sub'[old.u][f] = sub[old.u][f] /\ state'[old.u][f] = state[old.u][f]
                \/ /\ sub[old.u][f].cur => sub'[old.u][f] = Written(sub[old.u][f], p, FALSE)
                   /\ state[old.u][f].cur => state'[old.u][f] = Written(state[old.u][f], p, FALSE)
      /\ old.op = "gc" => /\ UNCHANGED sub
                          /\ new.pc = "commit" =>
                               \A f \in FeedIds : p \in feed[f].by => Unreferenced(f, p)

Effects(p) ==
  /\ TxEffect(p)
  /\ \A f \in FeedIds : FeedEffect(p, f)
  /\ \A u \in Users : UserEffect(p, u)
  /\ \A u \in Users, f \in FeedIds : SubEffect(p, u, f) /\ StateEffect(p, u, f)

\* A table no statement writes has no effect to account for.
LEMMA UnchangedRows ==
  ASSUME NEW p
  PROVE  /\ UNCHANGED feed => \A f \in FeedIds : FeedEffect(p, f)
         /\ UNCHANGED user => \A u \in Users : UserEffect(p, u)
         /\ UNCHANGED sub => \A u \in Users, f \in FeedIds : SubEffect(p, u, f)
         /\ UNCHANGED state => \A u \in Users, f \in FeedIds : StateEffect(p, u, f)
BY DEF FeedEffect, UserEffect, SubEffect, StateEffect

\* A statement of a subscribe or an import that locks nothing new.
LEMMA SubscribeTx ==
  ASSUME TypeOK, NEW p \in Procs, tx' \in [Procs -> Txs],
         \A q \in Procs \ {p} : tx'[q] = tx[q],
         Fields(tx[p]), tx[p].op \in SubscribeOps,
         tx[p].pc \in {"select", "upsert", "reselect", "insert_sub", "ins_trigger"},
         tx'[p].op = tx[p].op, tx'[p].u = tx[p].u, tx'[p].share = tx[p].share,
         \/ tx'[p].pc \in {"select", "commit", "raise", "assert"}
         \/ tx'[p].pc \in {"insert_sub", "conflict"} /\ tx'[p].f \in FeedIds
         \/ tx'[p].pc \in {"upsert", "reselect"} /\ tx'[p].url \in Urls
  PROVE  TxEffect(p)
<1>1. Fields(tx'[p])
  BY DEF Fields, OpPCs, SubscribeOps, RequestOps
<1> QED BY <1>1 DEF TxEffect, SubscribeOps

\* What a statement of a subscribe or an import may do to the tables and to its record.
LEMMA SubscribeEffects ==
  ASSUME TypeOK, FieldsSet, SharedFeedsStay, NEW p \in Procs,
         LockRow(p) \/ SelectFeed(p) \/ UpsertFeed(p) \/ ReselectFeed(p)
           \/ InsertSubscription(p) \/ InsertTrigger(p)
  PROVE  Effects(p)
<1>1. /\ tx[p] \in Txs /\ tx \in [Procs -> Txs] /\ Fields(tx[p])
      /\ tx' \in [Procs -> Txs]
      /\ tx[p].op \in SubscribeOps /\ tx[p].u \in Users
      /\ NextItem(p) \in {"commit", "select"}
  BY PcFacts, SubscribeType DEF TypeOK, NextItem, LockRow, SelectFeed, UpsertFeed, ReselectFeed,
     InsertSubscription, InsertTrigger, At
<1>2. CASE LockRow(p)
  <2>1. TxEffect(p)
    BY <1>1, <1>2 DEF TxEffect, LockRow, At, Fields, OpPCs, SubscribeOps, TypeOK, Written
  <2>2. \A u \in Users : UserEffect(p, u)
    BY <1>1, <1>2 DEF UserEffect, LockRow, UserLockable, TypeOK
  <2> QED BY <1>2, <2>1, <2>2, UnchangedRows DEF LockRow, Effects
<1>3. CASE SelectFeed(p)
  <2>1. TxEffect(p)
    <3>1. PICK url \in tx[p].urls :
            \/ tx' = [tx EXCEPT ![p].pc = "upsert", ![p].url = url, ![p].urls = @ \ {url}]
            \/ \E f \in FeedIds :
                 tx' = [tx EXCEPT ![p].pc = "insert_sub", ![p].f = f, ![p].urls = @ \ {url}]
      BY <1>3 DEF SelectFeed, FeedsAt
    <3>2. url \in Urls
      BY <1>1, <3>1 DEF Txs
    <3>3. CASE tx' = [tx EXCEPT ![p].pc = "upsert", ![p].url = url, ![p].urls = @ \ {url}]
      BY <1>1, <1>3, <3>2, <3>3, SubscribeTx DEF SelectFeed, At, Txs
    <3>4. ASSUME NEW f \in FeedIds,
                 tx' = [tx EXCEPT ![p].pc = "insert_sub", ![p].f = f, ![p].urls = @ \ {url}]
          PROVE  TxEffect(p)
      BY <1>1, <1>3, <3>4, SubscribeTx DEF SelectFeed, At, Txs
    <3> QED BY <3>1, <3>3, <3>4
  <2> QED BY <1>3, <2>1, UnchangedRows DEF SelectFeed, Effects, tables
<1>4. CASE UpsertFeed(p)
  <2>1. TxEffect(p)
    <3>1. CASE Goto(p, "reselect")
      BY <1>1, <1>4, <3>1, PcFacts, SubscribeTx DEF UpsertFeed, Goto, At, Txs
    <3>2. ASSUME NEW f \in FeedIds,
                 tx' = [tx EXCEPT ![p].pc = "insert_sub", ![p].f = f, ![p].url = None]
          PROVE  TxEffect(p)
      BY <1>1, <1>4, <3>2, SubscribeTx DEF UpsertFeed, At, Txs
    <3> QED BY <1>4, <3>1, <3>2 DEF UpsertFeed
  <2>2. \A f \in FeedIds : FeedEffect(p, f)
    <3>1. CASE UNCHANGED feed
      BY <3>1, UnchangedRows
    <3>2. ASSUME NEW g \in FeedIds, feed[g] = Row(Unused), WriteFeed(g, p, NewFeed(tx[p].url))
          PROVE  \A f \in FeedIds : FeedEffect(p, f)
      <4>1. NewFeed(tx[p].url) \in FeedVals /\ Live(NewFeed(tx[p].url))
        BY <1>4, PcFacts, FeedValTypes DEF UpsertFeed, At, NewFeed, Live
      <4>2. Free(feed[g], p)
        BY <3>2 DEF Free, Row
      <4> QED BY <1>1, <3>2, <4>1, <4>2 DEF FeedEffect, WriteFeed, TypeOK, SubscribeOps
    <3> QED BY <1>4, <3>1, <3>2 DEF UpsertFeed, tables
  <2> QED BY <1>4, <2>1, <2>2, UnchangedRows DEF UpsertFeed, Effects, tables
<1>5. CASE ReselectFeed(p)
  <2>1. TxEffect(p)
    <3>1. CASE Goto(p, "assert")
      BY <1>1, <1>5, <3>1, SubscribeTx DEF ReselectFeed, Goto, At, Txs
    <3>2. ASSUME NEW f \in FeedIds,
                 tx' = [tx EXCEPT ![p].pc = "insert_sub", ![p].f = f, ![p].url = None]
          PROVE  TxEffect(p)
      BY <1>1, <1>5, <3>2, SubscribeTx DEF ReselectFeed, At, Txs
    <3> QED BY <1>5, <3>1, <3>2 DEF ReselectFeed, FeedsAt
  <2> QED BY <1>5, <2>1, UnchangedRows DEF ReselectFeed, Effects, tables
<1>6. CASE InsertSubscription(p)
  <2>1. tx[p].f \in FeedIds
    BY <1>6, PcFacts DEF InsertSubscription, At
  <2>2. TxEffect(p)
    <3>1. ASSUME NEW pc \in {"commit", "select", "raise", "conflict"}, Goto(p, pc)
          PROVE  TxEffect(p)
      BY <1>1, <1>6, <2>1, <3>1, SubscribeTx DEF InsertSubscription, Goto, At, Txs
    <3>2. CASE /\ tx' = [tx EXCEPT ![p].pc = "ins_trigger", ![p].count = @ + 1,
                                   ![p].share = @ \cup {tx[p].f}]
               /\ UNCHANGED <<feed, state, user>>
               /\ Live(Seen(feed[tx[p].f], p)) /\ ~KeyLocked(tx[p].f, p)
      <4>1. /\ tx'[p].op = tx[p].op /\ tx'[p].u = tx[p].u /\ tx'[p].f = tx[p].f
            /\ tx'[p].pc = "ins_trigger" /\ tx'[p].share = tx[p].share \cup {tx[p].f}
            /\ \A q \in Procs \ {p} : tx'[q] = tx[q]
        BY <1>1, <3>2 DEF Txs
      <4>2. Fields(tx'[p])
        BY <1>1, <2>1, <4>1 DEF Fields, OpPCs, SubscribeOps, RequestOps
      <4> QED BY <1>1, <1>6, <2>1, <3>2, <4>1, <4>2 DEF TxEffect, InsertSubscription, At, SubscribeOps
    <3> QED BY <1>1, <1>6, <3>1, <3>2 DEF InsertSubscription
  <2>3. \A u \in Users, f \in FeedIds : SubEffect(p, u, f)
    <3>1. CASE UNCHANGED sub
      BY <3>1, UnchangedRows
    <3>2. CASE /\ sub' = [sub EXCEPT ![tx[p].u][tx[p].f] = Written(sub[tx[p].u][tx[p].f], p, TRUE)]
               /\ tx' = [tx EXCEPT ![p].pc = "ins_trigger", ![p].count = @ + 1,
                                   ![p].share = @ \cup {tx[p].f}]
               /\ Free(sub[tx[p].u][tx[p].f], p) /\ user[tx[p].u].cur
      <4>1. tx[p].f \in tx'[p].share
        BY <1>1, <3>2 DEF Txs
      <4> QED BY <1>1, <1>6, <2>1, <3>2, <4>1 DEF SubEffect, InsertSubscription, At, TypeOK
    <3> QED BY <1>6, <3>1, <3>2 DEF InsertSubscription, tables
  <2> QED BY <1>6, <2>2, <2>3, UnchangedRows DEF InsertSubscription, Effects, tables
<1>7. CASE InsertTrigger(p)
  <2>1. tx[p].f \in FeedIds /\ tx[p].f \in tx[p].share
    BY <1>7, PcFacts DEF InsertTrigger, At, Fields
  <2>2. TxEffect(p)
    BY <1>1, <1>7, <2>1 DEF TxEffect, InsertTrigger, At, Fields, OpPCs, SubscribeOps
  <2>3. \A f \in FeedIds : FeedEffect(p, f)
    <3>1. CASE UNCHANGED feed
      BY <3>1, UnchangedRows
    <3>2. ASSUME Free(feed[tx[p].f], p),
                 WriteFeed(tx[p].f, p, [Seen(feed[tx[p].f], p) EXCEPT !.orphan = "no"])
          PROVE  \A f \in FeedIds : FeedEffect(p, f)
      <4> DEFINE row == Seen(feed[tx[p].f], p)
                 v == [row EXCEPT !.orphan = "no"]
      <4>1. /\ row \in FeedVals /\ Live(row) /\ v \in FeedVals
        BY <2>1, FeedTypes, FeedValTypes DEF SharedFeedsStay
      <4>2. Live(v) /\ v.status = row.status /\ v.url = row.url
        BY <4>1 DEF FeedVals, Live
      <4> QED BY <1>1, <2>1, <3>2, <4>1, <4>2 DEF FeedEffect, WriteFeed, TypeOK, SubscribeOps
    <3> QED BY <1>7, <3>1, <3>2 DEF InsertTrigger
  <2> QED BY <1>7, <2>2, <2>3, UnchangedRows DEF InsertTrigger, Effects
<1> QED BY <1>2, <1>3, <1>4, <1>5, <1>6, <1>7

\* A statement of another request or of a poll that locks no feed FOR KEY SHARE.
LEMMA OtherTx ==
  ASSUME TypeOK, NEW p \in Procs, tx' \in [Procs -> Txs],
         \A q \in Procs \ {p} : tx'[q] = tx[q],
         Fields(tx[p]), tx[p].op \in {"unsubscribe", "delete_user", "set_state", "persist"},
         tx[p].pc \notin {"idle", "raise", "commit"},
         tx'[p].op = tx[p].op, tx'[p].u = tx[p].u, tx'[p].share = tx[p].share,
         tx'[p].pc \in OpPCs(tx[p].op),
         tx[p].op # "delete_user" \/ tx'[p].pc = "stamp" => tx'[p].f \in FeedIds,
         tx[p].op = "delete_user" /\ tx[p].pc # "delete_user" =>
           /\ tx'[p].pc \in {"del_trigger", "stamp", "commit"}
           /\ tx[p].pc # "cascade" /\ UNCHANGED <<sub, state>>
  PROVE  TxEffect(p)
<1>1. Fields(tx'[p])
  BY DEF Fields, OpPCs, SubscribeOps, RequestOps
<1>2. tx[p].pc # "lock_row" /\ tx'[p].pc # "lock_row"
  BY DEF Fields, OpPCs, SubscribeOps
<1> QED BY <1>1, <1>2 DEF TxEffect, SubscribeOps

\* What a statement of an unsubscribe may do, and the delete triggers it shares with an
\* account deletion.
LEMMA UnsubscribeEffects ==
  ASSUME TypeOK, FieldsSet, NEW p \in Procs,
         DeleteSubscription(p) \/ DeleteTrigger(p) \/ Stamp(p) \/ CountRemaining(p)
           \/ DeleteStates(p) \/ DeleteFeed(p)
  PROVE  Effects(p)
<1>1. /\ tx[p] \in Txs /\ tx \in [Procs -> Txs] /\ Fields(tx[p])
      /\ tx' \in [Procs -> Txs]
      /\ tx[p].op \in {"unsubscribe", "delete_user"} /\ tx[p].u \in Users
      /\ tx[p].pc \notin {"del_trigger", "stamp"} => tx[p].op = "unsubscribe"
      /\ tx[p].op = "unsubscribe" => tx[p].f \in FeedIds
      /\ tx[p].pc \notin {"idle", "raise", "commit"}
      /\ tx[p].pc = "stamp" => tx[p].f \in FeedIds
  BY PcFacts, UnsubscribeType DEF TypeOK, DeleteSubscription, DeleteTrigger, Stamp, CountRemaining,
     DeleteStates, DeleteFeed, At, Fields
<1>2. ASSUME NEW pc \in OpPCs(tx[p].op), Goto(p, pc), tx[p].op = "unsubscribe"
      PROVE  TxEffect(p)
  BY <1>1, <1>2, OtherTx DEF Goto, Txs
<1>3. {"delete_sub", "del_trigger", "stamp", "count", "delete_states", "delete_feed", "commit"}
        = OpPCs("unsubscribe")
  BY DEF OpPCs, SubscribeOps
<1>4. CASE DeleteSubscription(p)
  <2>1. tx[p].op = "unsubscribe" /\ tx[p].f \in FeedIds
    BY <1>1, <1>4 DEF DeleteSubscription, At
  <2>2. TxEffect(p)
    <3>1. CASE tx' = [tx EXCEPT ![p].pc = "del_trigger", ![p].feeds = {tx[p].f}]
      BY <1>1, <1>3, <2>1, <3>1, OtherTx DEF Txs
    <3> QED BY <1>2, <1>3, <1>4, <2>1, <3>1 DEF DeleteSubscription
  <2>3. \A u \in Users, f \in FeedIds : SubEffect(p, u, f)
    <3>1. CASE UNCHANGED sub
      BY <3>1, UnchangedRows
    <3>2. CASE sub' = [sub EXCEPT ![tx[p].u][tx[p].f] = Written(sub[tx[p].u][tx[p].f], p, FALSE)]
      BY <1>1, <1>4, <2>1, <3>2 DEF SubEffect, DeleteSubscription, TypeOK
    <3> QED BY <1>4, <3>1, <3>2 DEF DeleteSubscription
  <2> QED BY <1>4, <2>2, <2>3, UnchangedRows DEF DeleteSubscription, Effects
<1>5. CASE DeleteTrigger(p)
  <2>1. PICK f \in tx[p].feeds :
          LET rest == tx[p].feeds \ {f} IN
          \/ tx' = [tx EXCEPT ![p].feeds = rest, ![p].pc = AfterTriggers(p, rest)]
          \/ tx' = [tx EXCEPT ![p].feeds = rest, ![p].pc = "stamp", ![p].f = f]
    BY <1>5 DEF DeleteTrigger
  <2>2. /\ tx'[p].op = tx[p].op /\ tx'[p].u = tx[p].u /\ tx'[p].share = tx[p].share
        /\ \A q \in Procs \ {p} : tx'[q] = tx[q]
        /\ \/ tx'[p].pc = "stamp" /\ tx'[p].f \in FeedIds
           \/ tx'[p].pc = AfterTriggers(p, tx[p].feeds \ {f}) /\ tx'[p].f = tx[p].f
    BY <1>1, <2>1 DEF Txs
  <2>3. AfterTriggers(p, tx[p].feeds \ {f}) \in
          {"del_trigger", IF tx[p].op = "unsubscribe" THEN "count" ELSE "commit"}
    BY DEF AfterTriggers
  <2>4. TxEffect(p)
    <3>1. CASE tx[p].op = "unsubscribe"
      BY <1>1, <2>2, <2>3, <1>3, <3>1, OtherTx
    <3>2. CASE tx[p].op = "delete_user"
      <4>1. tx'[p].pc \in {"del_trigger", "stamp", "commit"}
        BY <2>2, <2>3, <3>2
      <4>2. tx'[p].pc \in OpPCs(tx[p].op)
        BY <3>2, <4>1 DEF OpPCs, SubscribeOps
      <4> QED BY <1>1, <1>5, <2>2, <2>3, <3>2, <4>1, <4>2, OtherTx DEF DeleteTrigger, At, tables
    <3> QED BY <1>1, <3>1, <3>2
  <2> QED BY <1>5, <2>4, UnchangedRows DEF DeleteTrigger, Effects, tables
<1>6. CASE Stamp(p)
  <2>1. tx[p].f \in FeedIds
    BY <1>1, <1>6 DEF Stamp, At
  <2>2. TxEffect(p)
    <3>1. AfterTriggers(p, tx[p].feeds) \in
            {"del_trigger", IF tx[p].op = "unsubscribe" THEN "count" ELSE "commit"}
      BY DEF AfterTriggers
    <3>2. /\ tx'[p].op = tx[p].op /\ tx'[p].u = tx[p].u /\ tx'[p].share = tx[p].share
          /\ \A q \in Procs \ {p} : tx'[q] = tx[q]
          /\ tx'[p].pc = AfterTriggers(p, tx[p].feeds) /\ tx'[p].f = tx[p].f
      BY <1>1, <1>6 DEF Stamp, Goto, Txs
    <3>3. CASE tx[p].op = "unsubscribe"
      BY <1>1, <1>3, <2>1, <3>1, <3>2, <3>3, OtherTx
    <3>4. CASE tx[p].op = "delete_user"
      <4>1. tx'[p].pc \in {"del_trigger", "stamp", "commit"}
        BY <3>1, <3>2, <3>4
      <4>2. tx'[p].pc \in OpPCs(tx[p].op)
        BY <3>4, <4>1 DEF OpPCs, SubscribeOps
      <4> QED BY <1>1, <1>6, <2>1, <3>2, <3>4, <4>1, <4>2, OtherTx DEF Stamp, At
    <3> QED BY <1>1, <3>3, <3>4
  <2>3. \A f \in FeedIds : FeedEffect(p, f)
    <3>1. CASE UNCHANGED feed
      BY <3>1, UnchangedRows
    <3>2. ASSUME Free(feed[tx[p].f], p), Live(Seen(feed[tx[p].f], p)),
                 WriteFeed(tx[p].f, p, [Seen(feed[tx[p].f], p) EXCEPT !.orphan = "recent"])
          PROVE  \A f \in FeedIds : FeedEffect(p, f)
      <4> DEFINE row == Seen(feed[tx[p].f], p)
                 v == [row EXCEPT !.orphan = "recent"]
      <4>1. /\ row \in FeedVals /\ v \in FeedVals
            /\ Live(v) /\ v.status = row.status /\ v.url = row.url
        BY <2>1, <3>2, FeedTypes, FeedValTypes
      <4> QED BY <1>1, <2>1, <3>2, <4>1 DEF FeedEffect, WriteFeed, TypeOK
    <3> QED BY <1>6, <3>1, <3>2 DEF Stamp
  <2> QED BY <1>6, <2>2, <2>3, UnchangedRows DEF Stamp, Effects
<1>7. CASE CountRemaining(p)
  <2>1. TxEffect(p)
    BY <1>1, <1>2, <1>3, <1>7 DEF CountRemaining, At
  <2> QED BY <1>7, <2>1, UnchangedRows DEF CountRemaining, Effects, tables
<1>8. CASE DeleteStates(p)
  <2>1. tx[p].op = "unsubscribe" /\ tx[p].f \in FeedIds
    BY <1>1, <1>8 DEF DeleteStates, At
  <2>2. TxEffect(p)
    BY <1>2, <1>3, <1>8, <2>1 DEF DeleteStates
  <2>3. \A u \in Users, f \in FeedIds : StateEffect(p, u, f)
    <3>1. CASE UNCHANGED state
      BY <3>1, UnchangedRows
    <3>2. CASE /\ Free(state[tx[p].u][tx[p].f], p)
               /\ state' = [state EXCEPT ![tx[p].u][tx[p].f] = Written(state[tx[p].u][tx[p].f], p, FALSE)]
      BY <1>1, <2>1, <3>2 DEF StateEffect, TypeOK
    <3> QED BY <1>8, <3>1, <3>2 DEF DeleteStates
  <2> QED BY <1>8, <2>2, <2>3, UnchangedRows DEF DeleteStates, Effects
<1>9. CASE DeleteFeed(p)
  <2>1. tx[p].op = "unsubscribe" /\ tx[p].f \in FeedIds
    BY <1>1, <1>9 DEF DeleteFeed, At
  <2>2. TxEffect(p)
    BY <1>2, <1>3, <1>9, <2>1 DEF DeleteFeed
  <2>3. CASE UNCHANGED <<feed, state>>
    BY <1>9, <2>2, <2>3, UnchangedRows DEF DeleteFeed, Effects
  <2>4. CASE CanCascade(tx[p].f, p) /\ Unreferenced(tx[p].f, p) /\ RemoveFeed(tx[p].f, p)
    <3>1. tx'[p].pc = "commit"
      BY <1>1, <1>9 DEF DeleteFeed, Goto, Txs
    <3>2. \A u \in Users, f \in FeedIds :
            state'[u][f] = IF f = tx[p].f THEN Written(state[u][f], p, FALSE) ELSE state[u][f]
      BY <2>1, <2>4 DEF RemoveFeed, TypeOK
    <3>3. \A f \in FeedIds : f # tx[p].f => feed'[f] = feed[f]
      BY <2>1, <2>4 DEF RemoveFeed, WriteFeed, TypeOK
    <3>4. feed'[tx[p].f] = Written(feed[tx[p].f], p, Gone)
      BY <2>1, <2>4 DEF RemoveFeed, WriteFeed, TypeOK
    <3>5. \A f \in FeedIds : FeedEffect(p, f)
      BY <1>9, <2>1, <2>4, <3>1, <3>2, <3>3, <3>4 DEF FeedEffect, DeleteFeed
    <3>6. \A u \in Users, f \in FeedIds : StateEffect(p, u, f)
      BY <2>1, <2>4, <3>2 DEF StateEffect, CanCascade
    <3> QED BY <1>9, <2>2, <3>5, <3>6, UnchangedRows DEF DeleteFeed, Effects
  <2> QED BY <1>9, <2>3, <2>4 DEF DeleteFeed
<1> QED BY <1>4, <1>5, <1>6, <1>7, <1>8, <1>9

\* What a statement of an account deletion or of a read/star write may do.
LEMMA UserEffects ==
  ASSUME TypeOK, FieldsSet, NEW p \in Procs, DeleteUser(p) \/ CascadeUser(p) \/ WriteState(p)
  PROVE  Effects(p)
<1>1. /\ tx[p] \in Txs /\ tx \in [Procs -> Txs] /\ Fields(tx[p])
      /\ tx' \in [Procs -> Txs]
      /\ tx[p].pc \in {"delete_user", "cascade", "write_state"} /\ tx[p].u \in Users
      /\ tx[p].pc # "write_state" => tx[p].op = "delete_user"
      /\ tx[p].pc = "write_state" => tx[p].op = "set_state" /\ tx[p].f \in FeedIds
  BY PcFacts, UserType DEF TypeOK, DeleteUser, CascadeUser, WriteState, At
<1>2. CASE DeleteUser(p)
  <2>1. tx[p].op = "delete_user" /\ tx[p].pc = "delete_user"
    BY <1>1, <1>2 DEF DeleteUser, At
  <2>2. /\ tx'[p].op = tx[p].op /\ tx'[p].u = tx[p].u /\ tx'[p].share = tx[p].share
        /\ tx'[p].pc = IF user[tx[p].u].cur THEN "cascade" ELSE "commit"
        /\ \A q \in Procs \ {p} : tx'[q] = tx[q]
    BY <1>1, <1>2 DEF DeleteUser, Goto, Txs
  <2>3. TxEffect(p)
    BY <1>1, <2>1, <2>2, OtherTx DEF OpPCs, SubscribeOps
  <2>4. \A u \in Users : UserEffect(p, u)
    BY <1>1, <1>2, <2>1, <2>2 DEF UserEffect, DeleteUser, UserLockable, TypeOK
  <2> QED BY <1>2, <2>3, <2>4, UnchangedRows DEF DeleteUser, Effects
<1>3. CASE CascadeUser(p)
  <2> DEFINE u == tx[p].u
             gone == {f \in FeedIds : sub[u][f].cur}
  <2>1. tx[p].op = "delete_user" /\ tx[p].pc = "cascade" /\ u \in Users
    BY <1>1, <1>3 DEF CascadeUser, At
  <2>2. /\ tx'[p].op = tx[p].op /\ tx'[p].u = tx[p].u /\ tx'[p].share = tx[p].share
        /\ tx'[p].pc = AfterTriggers(p, gone)
        /\ \A q \in Procs \ {p} : tx'[q] = tx[q]
    BY <1>1, <1>3 DEF CascadeUser, Txs
  <2>3. tx'[p].pc \in {"del_trigger", "commit"}
    BY <2>1, <2>2 DEF AfterTriggers
  <2>4. Fields(tx'[p])
    BY <1>1, <2>1, <2>2, <2>3 DEF Fields, OpPCs, SubscribeOps, RequestOps
  <2>5. \A w \in Users, f \in FeedIds :
          /\ sub'[w][f] = IF w = u /\ sub[u][f].cur THEN Written(sub[u][f], p, FALSE) ELSE sub[w][f]
          /\ state'[w][f] = IF w = u /\ state[u][f].cur THEN Written(state[u][f], p, FALSE)
                            ELSE state[w][f]
    BY <1>3, <2>1 DEF CascadeUser, TypeOK
  <2>6. TxEffect(p)
    BY <1>1, <2>1, <2>2, <2>3, <2>4, <2>5 DEF TxEffect, SubscribeOps
  <2>7. \A w \in Users, f \in FeedIds : SubEffect(p, w, f) /\ StateEffect(p, w, f)
    <3>1. ASSUME NEW w \in Users, NEW f \in FeedIds PROVE SubEffect(p, w, f)
      <4>1. CASE w = u /\ sub[u][f].cur
        <5>1. sub'[w][f] = Written(sub[w][f], p, FALSE)
          BY <2>5, <4>1
        <5>2. Free(sub[w][f], p)
          BY <1>3, <4>1 DEF CascadeUser
        <5> QED BY <2>1, <5>1, <5>2 DEF SubEffect
      <4>2. CASE ~(w = u /\ sub[u][f].cur)
        BY <2>5, <4>2 DEF SubEffect
      <4> QED BY <4>1, <4>2
    <3>2. ASSUME NEW w \in Users, NEW f \in FeedIds PROVE StateEffect(p, w, f)
      <4>1. CASE w = u /\ state[u][f].cur
        <5>1. state'[w][f] = Written(state[w][f], p, FALSE)
          BY <2>5, <4>1
        <5>2. Free(state[w][f], p)
          BY <1>3, <4>1 DEF CascadeUser
        <5> QED BY <2>1, <5>1, <5>2 DEF StateEffect
      <4>2. CASE ~(w = u /\ state[u][f].cur)
        BY <2>5, <4>2 DEF StateEffect
      <4> QED BY <4>1, <4>2
    <3> QED BY <3>1, <3>2
  <2> QED BY <1>3, <2>6, <2>7, UnchangedRows DEF CascadeUser, Effects
<1>4. CASE WriteState(p)
  <2>1. tx[p].op = "set_state" /\ tx[p].pc = "write_state" /\ tx[p].f \in FeedIds
    BY <1>1, <1>4 DEF WriteState, At
  <2>2. /\ tx'[p].op = tx[p].op /\ tx'[p].u = tx[p].u /\ tx'[p].share = tx[p].share
        /\ tx'[p].pc \in {"commit", "raise"} /\ tx'[p].f = tx[p].f
        /\ \A q \in Procs \ {p} : tx'[q] = tx[q]
    <3>1. \E pc \in {"commit", "raise"} : Goto(p, pc)
      BY <1>4 DEF WriteState
    <3> QED BY <1>1, <3>1 DEF Goto, Txs
  <2>3. TxEffect(p)
    BY <1>1, <2>1, <2>2, OtherTx DEF OpPCs, SubscribeOps
  <2>4. \A u \in Users, f \in FeedIds : StateEffect(p, u, f)
    <3>1. CASE UNCHANGED state
      BY <3>1, UnchangedRows
    <3>2. CASE state' = [state EXCEPT ![tx[p].u][tx[p].f] = Written(state[tx[p].u][tx[p].f], p, TRUE)]
      BY <1>1, <1>4, <2>1, <3>2 DEF StateEffect, WriteState, TypeOK
    <3> QED BY <1>4, <3>1, <3>2 DEF WriteState
  <2> QED BY <1>4, <2>3, <2>4, UnchangedRows DEF WriteState, Effects
<1> QED BY <1>1, <1>2, <1>3, <1>4

\* A write of a feed row that keeps its status and URL, or that may change its URL.
LEMMA LiveWrite ==
  ASSUME TypeOK, NEW p \in Procs, NEW f \in FeedIds, NEW v \in FeedVals, Live(v),
         tx[p].op \notin {"none", "set_state"},
         Free(feed[f], p), WriteFeed(f, p, v),
         \/ CanDelete(f, p)
         \/ v.status = Seen(feed[f], p).status /\ v.url = Seen(feed[f], p).url
  PROVE  \A g \in FeedIds : FeedEffect(p, g)
<1>1. \A g \in FeedIds : feed'[g] = IF g = f THEN Written(feed[f], p, v) ELSE feed[g]
  BY DEF WriteFeed, TypeOK
<1> QED BY <1>1 DEF FeedEffect

\* What a statement of a poll or of the orphan GC may do.
LEMMA WorkerEffects ==
  ASSUME TypeOK, FieldsSet, NEW p \in Procs,
         Repoint(p) \/ InsertBatch(p) \/ RecordPoll(p) \/ SweepFeed(p) \/ CheckSweep(p)
  PROVE  Effects(p)
<1>1. /\ tx[p] \in Txs /\ tx \in [Procs -> Txs] /\ Fields(tx[p])
      /\ tx' \in [Procs -> Txs]
      /\ tx[p].pc \in {"repoint", "insert_batch", "record"} => tx[p].op = "persist" /\ tx[p].f \in FeedIds
      /\ tx[p].pc \in {"gc_delete", "gc_check"} => tx[p].op = "gc"
  BY PcFacts, WorkerType DEF TypeOK
<1>2. ASSUME NEW pc \in {"insert_batch", "record", "raise", "commit"}, Goto(p, pc),
             tx[p].op = "persist", tx[p].pc \in {"repoint", "insert_batch", "record"}
      PROVE  TxEffect(p)
  BY <1>1, <1>2, OtherTx DEF Goto, Txs, OpPCs, SubscribeOps
<1>3. CASE Repoint(p)
  <2> DEFINE f == tx[p].f
             row == Seen(feed[f], p)
  <2>1. tx[p].op = "persist" /\ tx[p].pc = "repoint" /\ f \in FeedIds
    BY <1>1, <1>3 DEF Repoint, At
  <2>2. TxEffect(p)
    BY <1>2, <1>3, <2>1 DEF Repoint
  <2>3. row \in FeedVals /\ (tx[p].url # None /\ Live(row) => [row EXCEPT !.url = tx[p].url] \in FeedVals)
    BY <1>1, <2>1, FeedTypes, FeedValTypes DEF Txs
  <2>4. \A g \in FeedIds : FeedEffect(p, g)
    <3>1. CASE UNCHANGED feed
      BY <3>1, UnchangedRows
    <3>2. CASE Live(row) /\ Free(feed[f], p) /\ WriteFeed(f, p, row)
      BY <2>1, <2>3, <3>2, LiveWrite
    <3>3. CASE Live(row) /\ CanDelete(f, p) /\ tx[p].url # None
               /\ WriteFeed(f, p, [row EXCEPT !.url = tx[p].url])
      <4>1. Live([row EXCEPT !.url = tx[p].url])
        BY <2>3, <3>3 DEF Live, FeedVals
      <4> QED BY <2>1, <2>3, <3>3, <4>1, LiveWrite DEF CanDelete
    <3> QED BY <1>3, <3>1, <3>2, <3>3 DEF Repoint
  <2> QED BY <1>3, <2>2, <2>4, UnchangedRows DEF Repoint, Effects
<1>4. CASE InsertBatch(p)
  <2>1. tx[p].op = "persist" /\ tx[p].pc = "insert_batch" /\ tx[p].f \in FeedIds
    BY <1>1, <1>4 DEF InsertBatch, At
  <2>2. TxEffect(p)
    <3>1. CASE Goto(p, "record") \/ Goto(p, "raise")
      BY <1>2, <2>1, <3>1
    <3>2. CASE /\ tx' = [tx EXCEPT ![p].pc = "record", ![p].share = {tx[p].f}]
               /\ ~KeyLocked(tx[p].f, p) /\ Live(Seen(feed[tx[p].f], p))
      <4>1. /\ tx'[p].op = tx[p].op /\ tx'[p].u = tx[p].u /\ tx'[p].f = tx[p].f
            /\ tx'[p].pc = "record" /\ tx'[p].share = {tx[p].f}
            /\ \A q \in Procs \ {p} : tx'[q] = tx[q]
        BY <1>1, <3>2 DEF Txs
      <4>2. Fields(tx'[p])
        BY <1>1, <2>1, <4>1 DEF Fields, OpPCs, SubscribeOps, RequestOps
      <4>3. feed' = feed
        BY <1>4 DEF InsertBatch, tables
      <4> QED BY <1>1, <2>1, <3>2, <4>1, <4>2, <4>3 DEF TxEffect, SubscribeOps
    <3> QED BY <1>4, <3>1, <3>2 DEF InsertBatch
  <2> QED BY <1>4, <2>2, UnchangedRows DEF InsertBatch, Effects, tables
<1>5. CASE RecordPoll(p)
  <2>1. tx[p].op = "persist" /\ tx[p].pc = "record" /\ tx[p].f \in FeedIds
    BY <1>1, <1>5 DEF RecordPoll, At
  <2>2. TxEffect(p)
    BY <1>2, <1>5, <2>1 DEF RecordPoll
  <2>3. \A g \in FeedIds : FeedEffect(p, g)
    <3>1. CASE UNCHANGED feed
      BY <3>1, UnchangedRows
    <3>2. CASE /\ Live(Seen(feed[tx[p].f], p)) /\ Free(feed[tx[p].f], p)
               /\ WriteFeed(tx[p].f, p, Seen(feed[tx[p].f], p))
      <4>1. Seen(feed[tx[p].f], p) \in FeedVals
        BY <2>1, FeedTypes
      <4> QED BY <2>1, <3>2, <4>1, LiveWrite
    <3> QED BY <1>5, <3>1, <3>2 DEF RecordPoll
  <2> QED BY <1>5, <2>2, <2>3, UnchangedRows DEF RecordPoll, Effects
<1>6. ASSUME tx[p].op = "gc", tx[p].pc \in {"gc_delete", "gc_check"},
             tx'[p].op = tx[p].op, tx'[p].u = tx[p].u, tx'[p].share = tx[p].share,
             tx'[p].pc \in {"gc_delete", "gc_check", "raise", "commit"},
             tx'[p].pc = "commit" => \A f \in FeedIds : p \in feed[f].by => Unreferenced(f, p),
             \A q \in Procs \ {p} : tx'[q] = tx[q], UNCHANGED sub
      PROVE  TxEffect(p)
  <2>1. Fields(tx'[p])
    BY <1>1, <1>6 DEF Fields, OpPCs, SubscribeOps, RequestOps
  <2> QED BY <1>1, <1>6, <2>1 DEF TxEffect, SubscribeOps
<1>7. CASE SweepFeed(p)
  <2>1. PICK f \in tx[p].feeds :
          /\ CanCascade(f, p)
          /\ RemoveFeed(f, p) \/ UNCHANGED <<feed, state>>
          /\ tx' = [tx EXCEPT ![p].feeds = tx[p].feeds \ {f},
                              ![p].pc = IF tx[p].feeds \ {f} = {} THEN "gc_check" ELSE "gc_delete"]
    BY <1>7 DEF SweepFeed
  <2>2. /\ tx[p].op = "gc" /\ tx[p].pc = "gc_delete" /\ f \in FeedIds
        /\ sub' = sub /\ user' = user
    BY <1>1, <1>7, <2>1 DEF SweepFeed, At, Txs
  <2>3. /\ tx'[p].op = tx[p].op /\ tx'[p].u = tx[p].u /\ tx'[p].share = tx[p].share
        /\ tx'[p].pc \in {"gc_delete", "gc_check"}
        /\ \A q \in Procs \ {p} : tx'[q] = tx[q]
    BY <1>1, <2>1 DEF Txs
  <2>4. TxEffect(p)
    BY <1>6, <2>2, <2>3
  <2>5. CASE UNCHANGED <<feed, state>>
    BY <2>2, <2>4, <2>5, UnchangedRows DEF Effects
  <2>6. CASE RemoveFeed(f, p)
    <3>1. /\ \A u \in Users, g \in FeedIds :
               state'[u][g] = IF g = f THEN Written(state[u][g], p, FALSE) ELSE state[u][g]
          /\ \A g \in FeedIds : g # f => feed'[g] = feed[g]
      BY <2>2, <2>6 DEF RemoveFeed, WriteFeed, TypeOK
    <3>2. feed'[f] = Written(feed[f], p, Gone)
      BY <2>2, <2>6 DEF RemoveFeed, WriteFeed, TypeOK
    <3>3. \A g \in FeedIds : FeedEffect(p, g)
      BY <2>1, <2>2, <2>3, <3>1, <3>2 DEF FeedEffect
    <3>4. \A u \in Users, g \in FeedIds : StateEffect(p, u, g)
      BY <2>1, <2>2, <3>1 DEF StateEffect, CanCascade
    <3> QED BY <2>2, <2>4, <3>3, <3>4, UnchangedRows DEF Effects
  <2> QED BY <2>1, <2>5, <2>6
<1>8. CASE CheckSweep(p)
  <2>1. tx[p].op = "gc" /\ tx[p].pc = "gc_check" /\ sub' = sub
    BY <1>1, <1>8 DEF CheckSweep, At, tables
  <2>2. \/ Goto(p, "raise")
        \/ Goto(p, "commit") /\ \A f \in FeedIds : p \in feed[f].by => Unreferenced(f, p)
    BY <1>8 DEF CheckSweep
  <2>3. /\ tx'[p].op = tx[p].op /\ tx'[p].u = tx[p].u /\ tx'[p].share = tx[p].share
        /\ \/ tx'[p].pc = "raise"
           \/ tx'[p].pc = "commit" /\ \A f \in FeedIds : p \in feed[f].by => Unreferenced(f, p)
        /\ \A q \in Procs \ {p} : tx'[q] = tx[q]
    BY <1>1, <2>2 DEF Goto, Txs
  <2>4. TxEffect(p)
    BY <1>6, <2>1, <2>3
  <2> QED BY <1>8, <2>4, UnchangedRows DEF CheckSweep, Effects, tables
<1> QED BY <1>3, <1>4, <1>5, <1>7, <1>8

\* Every statement is one of those.
LEMMA StatementEffects ==
  ASSUME TypeOK, FieldsSet, SharedFeedsStay, NEW p \in Procs, Statement(p)
  PROVE  Effects(p)
BY SubscribeEffects, UnsubscribeEffects, UserEffects, WorkerEffects DEF Statement

-----------------------------------------------------------------------------
(* A statement preserves each conjunct of the invariant *)

\* The types of the rows a pair of a user and a feed has.
LEMMA TableTypes ==
  ASSUME TypeOK, NEW u \in Users, NEW f \in FeedIds
  PROVE  /\ feed[f] \in Rows(FeedVals, Procs)
         /\ sub[u][f] \in Rows(BOOLEAN, Procs) /\ state[u][f] \in Rows(BOOLEAN, Procs)
         /\ user[u] \in Rows(BOOLEAN, Procs)
BY DEF TypeOK

\* One writer at a time: if p may write a row, no other process has.
LEMMA OneWriter ==
  ASSUME NEW r, NEW p, Free(r, p), NEW q \in r.by
  PROVE  q = p
BY DEF Free

\* A statement leaves the committed feed row alone, and writes it only under its own name.
LEMMA FeedEffectKeeps ==
  ASSUME NEW p, NEW f, FeedEffect(p, f)
  PROVE  feed'[f].cur = feed[f].cur /\ (feed'[f] = feed[f] \/ feed'[f].by = {p})
<1>1. CASE feed'[f] = feed[f]
  BY <1>1
<1>2. ASSUME NEW v, feed'[f] = Written(feed[f], p, v)
      PROVE  feed'[f].cur = feed[f].cur /\ feed'[f].by = {p}
  BY <1>2 DEF Written
<1> QED BY <1>1, <1>2 DEF FeedEffect

\* Only a commit changes what is committed.
LEMMA EffectsKeep ==
  ASSUME NEW p \in Procs, Effects(p), NEW u \in Users, NEW f \in FeedIds
  PROVE  /\ feed'[f].cur = feed[f].cur /\ user'[u].cur = user[u].cur
         /\ sub'[u][f].cur = sub[u][f].cur /\ state'[u][f].cur = state[u][f].cur
<1>1. FeedEffect(p, f) /\ UserEffect(p, u) /\ SubEffect(p, u, f) /\ StateEffect(p, u, f)
  BY DEF Effects
<1>2. feed'[f].cur = feed[f].cur
  BY <1>1, FeedEffectKeeps
<1>3. user'[u].cur = user[u].cur
  BY <1>1 DEF UserEffect, Written
<1>4. sub'[u][f].cur = sub[u][f].cur
  BY <1>1 DEF SubEffect, Written
<1>5. state'[u][f].cur = state[u][f].cur
  BY <1>1 DEF StateEffect, Written
<1> QED BY <1>2, <1>3, <1>4, <1>5

\* A statement leaves a process between transactions without rows.
LEMMA StatementIdle ==
  ASSUME IInv, NEW p \in Procs, Effects(p)
  PROVE  IdleHoldsNothing'
<1> SUFFICES ASSUME NEW q \in Procs, tx'[q].op = "none", NEW f \in FeedIds
             PROVE  /\ q \notin feed'[f].by
                    /\ \A u \in Users : q \notin sub'[u][f].by \cup state'[u][f].by
  BY DEF IdleHoldsNothing
<1>1. q # p /\ tx[q].op = "none"
  <2>1. tx[p].pc # "idle" /\ tx'[p].op = tx[p].op
    BY DEF Effects, TxEffect
  <2>2. tx[p].op # "none"
    BY <2>1, PcFacts DEF IInv
  <2> QED BY <2>1, <2>2 DEF Effects, TxEffect
<1>2. /\ q \notin feed[f].by
      /\ \A u \in Users : q \notin sub[u][f].by \cup state[u][f].by
  BY <1>1 DEF IInv, IdleHoldsNothing
<1>3. q \notin feed'[f].by
  <2>1. FeedEffect(p, f)
    BY DEF Effects
  <2> QED BY <1>1, <1>2, <2>1, FeedEffectKeeps
<1>4. ASSUME NEW u \in Users PROVE q \notin sub'[u][f].by \cup state'[u][f].by
  <2>1. SubEffect(p, u, f) /\ StateEffect(p, u, f)
    BY DEF Effects
  <2> QED BY <1>1, <1>2, <2>1 DEF SubEffect, StateEffect, Written
<1> QED BY <1>3, <1>4

\* A statement leaves a feed row somebody holds FOR KEY SHARE where it is.
LEMMA StatementShared ==
  ASSUME IInv, NEW p \in Procs, Effects(p)
  PROVE  SharedFeedsStay'
<1> SUFFICES ASSUME NEW q \in Procs, NEW f \in tx'[q].share
             PROVE  Live(Seen(feed'[f], q)) /\ ~KeyLocked(f, q)'
  BY DEF SharedFeedsStay
<1>1. /\ f \in FeedIds /\ FeedEffect(p, f)
      /\ feed[f] \in Rows(FeedVals, Procs)
  <2>1. tx'[q] \in Txs
    <3>1. tx[q] \in Txs
      BY DEF IInv, TypeOK
    <3> QED BY <3>1 DEF Effects, TxEffect
  <2>2. f \in FeedIds
    BY <2>1 DEF Txs
  <2> QED BY <2>2, FeedTypes DEF Effects, IInv
<1>2. CASE f \notin tx[q].share
  <2>1. q = p /\ feed'[f] = feed[f] /\ Live(Seen(feed[f], p)) /\ ~KeyLocked(f, p)
    BY <1>2 DEF Effects, TxEffect
  <2> QED BY <2>1 DEF KeyLocked
<1>3. CASE f \in tx[q].share
  <2>1. Live(Seen(feed[f], q)) /\ ~KeyLocked(f, q)
    BY <1>3 DEF IInv, SharedFeedsStay
  <2>2. CASE feed'[f] = feed[f]
    BY <2>1, <2>2 DEF KeyLocked
  <2>3. ASSUME NEW v \in FeedVals, Live(v), Free(feed[f], p), feed'[f] = Written(feed[f], p, v),
               \/ feed[f] = Row(Unused)
               \/ CanDelete(f, p)
               \/ v.status = Seen(feed[f], p).status /\ v.url = Seen(feed[f], p).url
        PROVE  Live(Seen(feed'[f], q)) /\ ~KeyLocked(f, q)'
    <3>1. CASE q = p
      BY <2>3, <3>1 DEF Seen, Written, KeyLocked, Free
    <3>2. CASE q # p
      <4>1. /\ feed'[f].cur = feed[f].cur /\ feed'[f].next = v /\ feed'[f].by = {p}
            /\ Seen(feed'[f], q) = feed[f].cur /\ Seen(feed[f], q) = feed[f].cur
        BY <2>3, <3>2 DEF Seen, Written, Free
      <4>2. ~CanDelete(f, p) /\ feed[f] # Row(Unused)
        BY <1>3, <2>1, <3>2, <4>1 DEF CanDelete, Row, Unused, Live
      <4>3. v.status = feed[f].cur.status /\ v.url = feed[f].cur.url
        <5>1. CASE p \in feed[f].by
          BY <2>1, <2>3, <3>2, <4>2, <5>1 DEF Seen, KeyLocked, Free
        <5>2. CASE p \notin feed[f].by
          BY <2>3, <4>2, <5>2 DEF Seen
        <5> QED BY <5>1, <5>2
      <4> QED BY <2>1, <4>1, <4>3 DEF KeyLocked
    <3> QED BY <3>1, <3>2
  <2>4. CASE CanCascade(f, p) /\ tx[p].op \in {"unsubscribe", "gc"}
    <3>1. Fields(tx[p])
      BY DEF IInv, FieldsSet
    <3>2. tx[p].share = {}
      BY <2>4, <3>1 DEF Fields, SubscribeOps
    <3> QED BY <1>3, <2>4, <3>2 DEF CanCascade, CanDelete
  <2> QED BY <1>1, <2>2, <2>3, <2>4 DEF FeedEffect
<1> QED BY <1>2, <1>3

\* A statement leaves the user rows with those who may hold them.
LEMMA StatementUsers ==
  ASSUME IInv, NEW p \in Procs, Effects(p)
  PROVE  UserHolders'
<1>1. ASSUME NEW q \in Procs, NEW u \in Users, q \in user'[u].by
      PROVE  /\ user'[u].cur
             /\ tx'[q].op \in SubscribeOps \cup {"delete_user"}
             /\ tx'[q].op # "delete_user" => user'[u].next
  <2>1. UserEffect(p, u) /\ tx'[q].op = tx[q].op
    BY DEF Effects, TxEffect
  <2>2. CASE user'[u] = user[u]
    BY <1>1, <2>1, <2>2 DEF IInv, UserHolders
  <2>3. CASE user'[u] # user[u]
    BY <1>1, <2>1, <2>3 DEF UserEffect, Written, SubscribeOps
  <2> QED BY <2>2, <2>3
<1>2. ASSUME NEW q \in Procs, tx'[q].op \in SubscribeOps, tx'[q].pc # "lock_row",
             user'[tx'[q].u].cur
      PROVE  q \in user'[tx'[q].u].by
  <2> DEFINE u == tx[q].u
  <2>1. tx'[q].op = tx[q].op /\ tx'[q].u = u /\ (q # p => tx'[q].pc = tx[q].pc)
    BY DEF Effects, TxEffect
  <2>2. u \in Users
    BY <1>2, <2>1 DEF IInv, FieldsSet, Fields, SubscribeOps, RequestOps
  <2>3. UserEffect(p, u) /\ user'[u].cur = user[u].cur
    BY <2>2 DEF Effects, UserEffect, Written
  <2>4. CASE q = p /\ tx[p].pc = "lock_row"
    BY <1>2, <2>1, <2>3, <2>4 DEF Effects, TxEffect
  <2>5. CASE ~(q = p /\ tx[p].pc = "lock_row")
    <3>1. q \in user[u].by
      BY <1>2, <2>1, <2>3, <2>5 DEF IInv, UserHolders
    <3>2. CASE user'[u] = user[u]
      BY <2>1, <3>1, <3>2
    <3>3. CASE user'[u] # user[u]
      <4>1. Free(user[u], p) /\ p \in user'[u].by
        BY <2>3, <3>3 DEF UserEffect, UserLockable, Written
      <4> QED BY <2>1, <3>1, <4>1, OneWriter
    <3> QED BY <3>2, <3>3
  <2> QED BY <2>4, <2>5
<1> QED BY <1>1, <1>2 DEF UserHolders

\* A subscription being inserted keeps its feed and its user pinned.
LEMMA StatementSubs ==
  ASSUME IInv, NEW p \in Procs, Effects(p)
  PROVE  InsertedSubs'
<1> SUFFICES ASSUME NEW q \in Procs, NEW u \in Users, NEW f \in FeedIds,
                    q \in sub'[u][f].by, ~sub'[u][f].cur, sub'[u][f].next
             PROVE  f \in tx'[q].share /\ q \in user'[u].by /\ tx'[q].op \in SubscribeOps
  BY DEF InsertedSubs
<1>1. SubEffect(p, u, f) /\ UserEffect(p, u) /\ tx'[q].op = tx[q].op
  BY DEF Effects, TxEffect
<1>2. ASSUME q \in user[u].by PROVE q \in user'[u].by
  <2>1. CASE user'[u] # user[u]
    <3>1. Free(user[u], p) /\ p \in user'[u].by
      BY <1>1, <2>1 DEF UserEffect, UserLockable, Written
    <3> QED BY <1>2, <3>1, OneWriter
  <2> QED BY <1>2, <2>1
<1>3. CASE sub'[u][f] = sub[u][f]
  <2>1. f \in tx[q].share /\ q \in user[u].by /\ tx[q].op \in SubscribeOps
    BY <1>3 DEF IInv, InsertedSubs
  <2>2. f \in tx'[q].share
    BY <2>1 DEF Effects, TxEffect
  <2> QED BY <1>1, <1>2, <2>1, <2>2
<1>4. CASE sub'[u][f] # sub[u][f]
  <2>1. /\ q = p /\ tx[p].pc = "insert_sub" /\ tx[p].op \in SubscribeOps
        /\ u = tx[p].u /\ user[u].cur /\ f \in tx'[p].share
    BY <1>1, <1>4 DEF SubEffect, Written
  <2>2. q \in user[u].by
    BY <2>1 DEF IInv, UserHolders
  <2> QED BY <1>1, <1>2, <2>1, <2>2
<1> QED BY <1>3, <1>4

\* A read/star row being inserted keeps its user and its feed's entries pinned.
LEMMA StatementStates ==
  ASSUME IInv, NEW p \in Procs, Effects(p)
  PROVE  InsertedStates'
<1> SUFFICES ASSUME NEW q \in Procs, NEW u \in Users, NEW f \in FeedIds,
                    q \in state'[u][f].by, ~state'[u][f].cur, state'[u][f].next
             PROVE  /\ tx'[q].op = "set_state" /\ user'[u].cur /\ user'[u].next
                    /\ Live(feed'[f].cur) /\ Live(feed'[f].next)
  BY DEF InsertedStates
<1>1. /\ StateEffect(p, u, f) /\ UserEffect(p, u) /\ FeedEffect(p, f)
      /\ tx'[q].op = tx[q].op
  BY DEF Effects, TxEffect
<1>2. /\ user[u] \in Rows(BOOLEAN, Procs) /\ feed[f] \in Rows(FeedVals, Procs)
  BY TableTypes DEF IInv
<1>3. CASE state'[u][f] = state[u][f]
  <2>1. /\ tx[q].op = "set_state" /\ user[u].cur /\ user[u].next
        /\ Live(feed[f].cur) /\ Live(feed[f].next)
    BY <1>3 DEF IInv, InsertedStates
  <2>2. user'[u].cur /\ user'[u].next
    <3>1. ASSUME UserLockable(u, p), tx[p].op = "delete_user" PROVE FALSE
      <4>1. Free(state[u][f], p)
        BY <1>3, <3>1 DEF UserLockable
      <4>2. q = p
        BY <1>3, <4>1, OneWriter
      <4> QED BY <2>1, <3>1, <4>2
    <3> QED BY <1>1, <2>1, <3>1 DEF UserEffect, Written
  <2>3. Live(feed'[f].cur) /\ Live(feed'[f].next)
    <3>1. ~CanCascade(f, p) \/ tx[p].op = "set_state"
      BY <1>3, <2>1, OneWriter DEF CanCascade
    <3>2. CASE feed'[f] = feed[f]
      BY <2>1, <3>2
    <3>3. ASSUME NEW v, Live(v), feed'[f] = Written(feed[f], p, v)
          PROVE  Live(feed'[f].cur) /\ Live(feed'[f].next)
      BY <2>1, <3>3 DEF Written
    <3> QED BY <1>1, <3>1, <3>2, <3>3 DEF FeedEffect
  <2> QED BY <1>1, <2>1, <2>2, <2>3
<1>4. CASE state'[u][f] # state[u][f]
  <2>1. /\ q = p /\ tx[p].op = "set_state" /\ user[u].cur /\ Free(user[u], p)
        /\ UNCHANGED <<feed, user>>
        /\ Live(feed[f].cur) /\ (Live(feed[f].next) \/ Free(feed[f], p))
    BY <1>1, <1>4 DEF StateEffect, Written
  <2>2. user[u].next
    <3>1. p \notin user[u].by
      BY <2>1 DEF IInv, UserHolders, SubscribeOps
    <3>2. user[u].by = {}
      BY <2>1, <3>1 DEF Free
    <3> QED BY <1>2, <2>1, <3>2 DEF Rows
  <2>3. Live(feed[f].next)
    <3>1. p \notin feed[f].by
      BY <2>1 DEF IInv, FeedDeletes
    <3>2. CASE Free(feed[f], p)
      <4>1. feed[f].by = {}
        BY <3>1, <3>2 DEF Free
      <4> QED BY <1>2, <2>1, <4>1 DEF Rows
    <3> QED BY <2>1, <3>2
  <2> QED BY <1>1, <2>1, <2>2, <2>3
<1> QED BY <1>3, <1>4

\* An account deletion past its cascade still takes every row of the user with it.
LEMMA StatementUserDeletes ==
  ASSUME IInv, NEW p \in Procs, Effects(p)
  PROVE  UserDeletes'
<1> SUFFICES ASSUME NEW q \in Procs, NEW u \in Users, Removes(user'[u], q)
             PROVE  /\ tx'[q].u = u
                    /\ tx'[q].pc \in {"cascade", "del_trigger", "stamp", "commit"}
                    /\ tx'[q].pc # "cascade" => \A f \in FeedIds :
                         /\ sub'[u][f].cur => Removes(sub'[u][f], q)
                         /\ state'[u][f].cur => Removes(state'[u][f], q)
  BY DEF UserDeletes, Removes
<1>1. UserEffect(p, u)
  BY DEF Effects
<1>2. CASE user'[u] # user[u]
  <2>1. q = p /\ u = tx[p].u /\ tx'[p].pc = "cascade"
    BY <1>1, <1>2 DEF UserEffect, Written, Removes
  <2> QED BY <2>1 DEF Effects, TxEffect
<1>3. CASE user'[u] = user[u]
  <2>1. /\ tx[q].u = u /\ tx[q].pc \in {"cascade", "del_trigger", "stamp", "commit"}
        /\ tx[q].pc # "cascade" => \A f \in FeedIds :
             /\ sub[u][f].cur => Removes(sub[u][f], q)
             /\ state[u][f].cur => Removes(state[u][f], q)
    BY <1>3 DEF IInv, UserDeletes
  <2>2. tx[q].op = "delete_user"
    BY <1>3 DEF IInv, UserHolders, Removes
  <2>3. \A f \in FeedIds : SubEffect(p, u, f) /\ StateEffect(p, u, f)
    BY DEF Effects
  <2>4. \A f \in FeedIds : /\ sub'[u][f].cur = sub[u][f].cur
                           /\ state'[u][f].cur = state[u][f].cur
    BY EffectsKeep
  <2>5. CASE q # p
    <3>1. tx'[q] = tx[q]
      BY <2>5 DEF Effects, TxEffect
    <3>2. ASSUME NEW f \in FeedIds
          PROVE  /\ q \in sub[u][f].by => sub'[u][f] = sub[u][f]
                 /\ q \in state[u][f].by => state'[u][f] = state[u][f]
      BY <2>3, <2>5, OneWriter DEF SubEffect, StateEffect
    <3> QED BY <2>1, <2>4, <3>1, <3>2 DEF Removes
  <2>6. CASE q = p
    <3>1. /\ tx'[p].u = u /\ tx'[p].pc \in {"del_trigger", "stamp", "commit"}
          /\ \A f \in FeedIds :
               \/ /\ tx[p].pc # "cascade"
                  /\ sub'[u][f] = sub[u][f] /\ state'[u][f] = state[u][f]
               \/ /\ sub[u][f].cur => sub'[u][f] = Written(sub[u][f], p, FALSE)
                  /\ state[u][f].cur => state'[u][f] = Written(state[u][f], p, FALSE)
      BY <2>1, <2>2, <2>6 DEF Effects, TxEffect
    <3>2. ASSUME NEW f \in FeedIds
          PROVE  /\ sub'[u][f].cur => Removes(sub'[u][f], p)
                 /\ state'[u][f].cur => Removes(state'[u][f], p)
      <4>1. CASE /\ tx[p].pc # "cascade"
                 /\ sub'[u][f] = sub[u][f] /\ state'[u][f] = state[u][f]
        BY <2>1, <2>6, <4>1
      <4>2. CASE /\ sub[u][f].cur => sub'[u][f] = Written(sub[u][f], p, FALSE)
                 /\ state[u][f].cur => state'[u][f] = Written(state[u][f], p, FALSE)
        BY <2>4, <4>2 DEF Removes, Written
      <4> QED BY <3>1, <4>1, <4>2
    <3> QED BY <2>6, <3>1, <3>2
  <2> QED BY <2>5, <2>6
<1> QED BY <1>2, <1>3

\* A deleted feed whose foreign-key check found nothing has no subscription left.
LEMMA UnreferencedRemoves ==
  ASSUME TypeOK, NEW f \in FeedIds, NEW p \in Procs, Unreferenced(f, p)
  PROVE  \A u \in Users : sub[u][f].cur => Removes(sub[u][f], p)
BY TableTypes DEF Unreferenced, Seen, Removes

\* A feed deletion still takes its read/star rows, and still has no subscription to leave
\* behind when it can commit.
LEMMA StatementFeedDeletes ==
  ASSUME IInv, NEW p \in Procs, Effects(p)
  PROVE  FeedDeletes'
<1> SUFFICES ASSUME NEW q \in Procs, NEW f \in FeedIds, q \in feed'[f].by
             PROVE  /\ tx'[q].op # "set_state"
                    /\ ~Live(feed'[f].next) =>
                         /\ tx'[q].pc \in {"gc_delete", "gc_check", "raise", "commit"}
                         /\ \A u \in Users : state'[u][f].cur => Removes(state'[u][f], q)
                         /\ tx'[q].pc = "commit" =>
                              \A u \in Users : sub'[u][f].cur => Removes(sub'[u][f], q)
  BY DEF FeedDeletes
<1>1. FeedEffect(p, f) /\ tx'[q].op = tx[q].op
  BY DEF Effects, TxEffect
<1>2. CASE feed'[f] # feed[f]
  <2>1. ASSUME NEW v \in FeedVals, Live(v), feed'[f] = Written(feed[f], p, v),
               tx[p].op # "set_state"
        PROVE  q = p /\ Live(feed'[f].next) /\ tx'[q].op # "set_state"
    BY <1>1, <2>1 DEF Written
  <2>2. CASE /\ feed'[f] = Written(feed[f], p, Gone)
             /\ \A u \in Users : state'[u][f] = Written(state[u][f], p, FALSE)
             /\ \/ tx[p].op = "gc" /\ tx'[p].pc \in {"gc_delete", "gc_check"}
                \/ /\ tx[p].op = "unsubscribe" /\ tx'[p].pc = "commit"
                   /\ Unreferenced(f, p) /\ UNCHANGED sub
    <3>1. q = p
      BY <2>2 DEF Written
    <3>2. \A u \in Users : Removes(state'[u][f], p)
      <4>1. ASSUME NEW u \in Users PROVE Removes(state'[u][f], p)
        <5>1. state'[u][f] = Written(state[u][f], p, FALSE)
          BY <2>2
        <5> QED BY <5>1 DEF Written, Removes
      <4> QED BY <4>1
    <3>3. tx'[p].pc = "commit" => \A u \in Users : sub'[u][f].cur => Removes(sub'[u][f], p)
      BY <2>2, UnreferencedRemoves DEF IInv
    <3> QED BY <1>1, <2>2, <3>1, <3>2, <3>3
  <2> QED BY <1>1, <1>2, <2>1, <2>2 DEF FeedEffect
<1>3. CASE feed'[f] = feed[f]
  <2>1. /\ tx[q].op # "set_state"
        /\ ~Live(feed[f].next) =>
             /\ tx[q].pc \in {"gc_delete", "gc_check", "raise", "commit"}
             /\ \A u \in Users : state[u][f].cur => Removes(state[u][f], q)
             /\ tx[q].pc = "commit" => \A u \in Users : sub[u][f].cur => Removes(sub[u][f], q)
    BY <1>3 DEF IInv, FeedDeletes
  <2>2. SUFFICES ASSUME ~Live(feed[f].next)
                 PROVE  /\ tx'[q].pc \in {"gc_delete", "gc_check", "raise", "commit"}
                        /\ \A u \in Users : state'[u][f].cur => Removes(state'[u][f], q)
                        /\ tx'[q].pc = "commit" =>
                             \A u \in Users : sub'[u][f].cur => Removes(sub'[u][f], q)
    BY <1>1, <1>3, <2>1
  <2>3. \A u \in Users : SubEffect(p, u, f) /\ StateEffect(p, u, f)
    BY DEF Effects
  <2>4. \A u \in Users : sub'[u][f].cur = sub[u][f].cur /\ state'[u][f].cur = state[u][f].cur
    BY EffectsKeep
  <2>5. CASE q # p
    <3>1. tx'[q] = tx[q]
      BY <2>5 DEF Effects, TxEffect
    <3>2. ASSUME NEW u \in Users
          PROVE  /\ q \in sub[u][f].by => sub'[u][f] = sub[u][f]
                 /\ q \in state[u][f].by => state'[u][f] = state[u][f]
      BY <2>3, <2>5, OneWriter DEF SubEffect, StateEffect
    <3> QED BY <2>1, <2>2, <2>4, <3>1, <3>2 DEF Removes
  <2>6. CASE q = p
    <3>1. tx[p].op = "gc"
      <4>1. tx[p].pc \in {"gc_delete", "gc_check"}
        BY <2>1, <2>2, <2>6 DEF Effects, TxEffect
      <4> QED BY <4>1, PcFacts DEF IInv
    <3>2. tx'[p].pc \in {"gc_delete", "gc_check", "raise", "commit"}
      <4>1. Fields(tx'[p]) /\ tx'[p].op = "gc"
        BY <3>1 DEF Effects, TxEffect
      <4> QED BY <4>1 DEF Fields, OpPCs, SubscribeOps
    <3>3. ASSUME NEW u \in Users, state'[u][f].cur PROVE Removes(state'[u][f], p)
      <4>1. Removes(state[u][f], p)
        BY <2>1, <2>2, <2>4, <2>6, <3>3
      <4>2. state'[u][f] = state[u][f] \/ state'[u][f] = Written(state[u][f], p, FALSE)
        BY <2>3, <3>1 DEF StateEffect
      <4> QED BY <4>1, <4>2 DEF Removes, Written
    <3>4. tx'[p].pc = "commit" => \A u \in Users : sub'[u][f].cur => Removes(sub'[u][f], p)
      <4>1. sub' = sub /\ (tx'[p].pc = "commit" => Unreferenced(f, p))
        BY <1>3, <2>6, <3>1 DEF Effects, TxEffect
      <4> QED BY <4>1, UnreferencedRemoves DEF IInv
    <3> QED BY <2>6, <3>2, <3>3, <3>4
  <2> QED BY <2>5, <2>6
<1> QED BY <1>2, <1>3

\* A statement commits nothing, so nothing is left dangling by it.
LEMMA StatementReferences ==
  ASSUME IInv, NEW p \in Procs, Effects(p)
  PROVE  References'
BY EffectsKeep DEF IInv, References

\* The next statement's fields are set by the one before it.
LEMMA StatementFields ==
  ASSUME IInv, NEW p \in Procs, Effects(p)
  PROVE  FieldsSet'
BY DEF IInv, FieldsSet, Effects, TxEffect

\* Every statement preserves the invariant.
LEMMA StatementInv ==
  ASSUME IInv, NEW p \in Procs, Statement(p)
  PROVE  IInv'
<1>1. Effects(p)
  BY StatementEffects DEF IInv
<1>2. TypeOK'
  BY SubscribeType, UnsubscribeType, UserType, WorkerType DEF Statement, IInv
<1> QED
  BY <1>1, <1>2, StatementFields, StatementIdle, StatementShared, StatementUsers, StatementSubs,
     StatementStates, StatementUserDeletes, StatementFeedDeletes, StatementReferences DEF IInv

-----------------------------------------------------------------------------
(* So do beginning and ending a transaction, and time *)

\* A transaction that begins holds nothing, has its first statement's fields set, and leaves
\* the tables alone.
LEMMA BeginTx ==
  ASSUME IInv, NEW p \in Procs, Begins(p)
  PROVE  /\ UNCHANGED tables
         /\ \A q \in Procs \ {p} : tx'[q] = tx[q]
         /\ tx[p].op = "none" /\ tx'[p].op # "none" /\ tx'[p].share = {}
         /\ Fields(tx'[p])
         /\ tx'[p].op \in SubscribeOps => tx'[p].pc = "lock_row"
<1> DEFINE Started(t) == /\ t.op # "none" /\ t.share = {} /\ Fields(t)
                         /\ t.op \in SubscribeOps => t.pc = "lock_row"
<1>1. tx \in [Procs -> Txs]
  BY DEF IInv, TypeOK
<1>2. ASSUME NEW t, Started(t), Begin(p, t)
      PROVE  /\ UNCHANGED tables
             /\ \A q \in Procs \ {p} : tx'[q] = tx[q]
             /\ tx[p].op = "none" /\ Started(tx'[p])
  <2>1. tx'[p] = t /\ \A q \in Procs \ {p} : tx'[q] = tx[q]
    BY <1>1, <1>2 DEF Begin
  <2>2. tx[p].op = "none"
    BY <1>2, PcFacts DEF Begin, At, IInv
  <2> QED BY <1>2, <2>1, <2>2 DEF Begin
<1>3. /\ Idle.share = {}
      /\ \A u \in Users, url \in Urls :
           Started([Idle EXCEPT !.op = "subscribe", !.pc = "lock_row", !.u = u, !.urls = {url}])
      /\ \A u \in Users, urls \in SUBSET Urls :
           Started([Idle EXCEPT !.op = "import", !.pc = "lock_row", !.u = u, !.urls = urls])
      /\ \A u \in Users, f \in FeedIds :
           Started([Idle EXCEPT !.op = "unsubscribe", !.pc = "delete_sub", !.u = u, !.f = f])
      /\ \A u \in Users : Started([Idle EXCEPT !.op = "delete_user", !.pc = "delete_user", !.u = u])
      /\ \A u \in Users, f \in FeedIds :
           Started([Idle EXCEPT !.op = "set_state", !.pc = "write_state", !.u = u, !.f = f])
      /\ \A f \in FeedIds, url \in Urls \cup {None} :
           Started([Idle EXCEPT !.op = "persist", !.pc = "repoint", !.f = f, !.url = url])
      /\ \A feeds : Started([Idle EXCEPT !.op = "gc", !.pc = "gc_delete", !.feeds = feeds])
  BY DEF Idle, Fields, OpPCs, SubscribeOps, RequestOps
<1> HIDE DEF Started
<1>4. \E t : Started(t) /\ Begin(p, t)
  BY <1>3 DEF Begins, BeginSubscribe, BeginImport, BeginUnsubscribe, BeginDeleteUser, BeginSetState,
     BeginPersist, BeginSweep
<1> QED BY <1>2, <1>4 DEF Started

\* Beginning a transaction preserves the invariant.
LEMMA BeginInv ==
  ASSUME IInv, NEW p \in Procs, Begins(p)
  PROVE  IInv'
<1>1. /\ feed' = feed /\ sub' = sub /\ state' = state /\ user' = user
      /\ \A q \in Procs \ {p} : tx'[q] = tx[q]
      /\ tx[p].op = "none" /\ tx'[p].op # "none" /\ tx'[p].share = {}
      /\ Fields(tx'[p])
      /\ tx'[p].op \in SubscribeOps => tx'[p].pc = "lock_row"
  BY BeginTx DEF tables
<1>2. /\ \A f \in FeedIds : p \notin feed[f].by
      /\ \A f \in FeedIds, u \in Users : p \notin sub[u][f].by /\ p \notin state[u][f].by
      /\ \A u \in Users : p \notin user[u].by
  BY <1>1 DEF IInv, IdleHoldsNothing, UserHolders, SubscribeOps
<1>3. TypeOK'
  BY BeginType DEF IInv
<1>4. FieldsSet'
  BY <1>1 DEF IInv, FieldsSet
<1>5. IdleHoldsNothing'
  BY <1>1 DEF IInv, IdleHoldsNothing
<1>6. SharedFeedsStay'
  BY <1>1 DEF IInv, SharedFeedsStay, KeyLocked
<1>7. UserHolders'
  <2>1. ASSUME NEW q \in Procs, NEW u \in Users, q \in user'[u].by
        PROVE  /\ user'[u].cur
               /\ tx'[q].op \in SubscribeOps \cup {"delete_user"}
               /\ tx'[q].op # "delete_user" => user'[u].next
    <3>1. q # p /\ user' = user /\ q \in user[u].by
      BY <1>1, <1>2, <2>1
    <3>2. tx'[q] = tx[q]
      BY <1>1, <3>1
    <3> QED BY <3>1, <3>2 DEF IInv, UserHolders
  <2>2. ASSUME NEW q \in Procs, tx'[q].op \in SubscribeOps, tx'[q].pc # "lock_row"
        PROVE  user'[tx'[q].u].cur => q \in user'[tx'[q].u].by
    BY <1>1, <2>2 DEF IInv, UserHolders
  <2> QED BY <2>1, <2>2 DEF UserHolders
<1>8. InsertedSubs'
  BY <1>1, <1>2 DEF IInv, InsertedSubs
<1>9. InsertedStates'
  BY <1>1, <1>2 DEF IInv, InsertedStates
<1>10. UserDeletes'
  <2> SUFFICES ASSUME NEW q \in Procs, NEW u \in Users, Removes(user[u], q)
               PROVE  /\ tx'[q].u = u
                      /\ tx'[q].pc \in {"cascade", "del_trigger", "stamp", "commit"}
                      /\ tx'[q].pc # "cascade" => \A f \in FeedIds :
                           /\ sub[u][f].cur => Removes(sub[u][f], q)
                           /\ state[u][f].cur => Removes(state[u][f], q)
    BY <1>1 DEF UserDeletes, Removes
  <2>1. q # p
    BY <1>2 DEF Removes
  <2>2. tx'[q] = tx[q]
    BY <1>1, <2>1
  <2> QED BY <2>2 DEF IInv, UserDeletes
<1>11. FeedDeletes'
  <2> SUFFICES ASSUME NEW q \in Procs, NEW f \in FeedIds, q \in feed[f].by
               PROVE  /\ tx'[q].op # "set_state"
                      /\ ~Live(feed[f].next) =>
                           /\ tx'[q].pc \in {"gc_delete", "gc_check", "raise", "commit"}
                           /\ \A u \in Users : state[u][f].cur => Removes(state[u][f], q)
                           /\ tx'[q].pc = "commit" =>
                                \A u \in Users : sub[u][f].cur => Removes(sub[u][f], q)
    BY <1>1 DEF FeedDeletes, Removes
  <2>1. q # p
    BY <1>1 DEF IInv, IdleHoldsNothing
  <2>2. tx'[q] = tx[q]
    BY <1>1, <2>1
  <2> QED BY <2>2 DEF IInv, FeedDeletes
<1>12. References'
  BY <1>1 DEF IInv, References
<1> QED
  BY <1>3, <1>4, <1>5, <1>6, <1>7, <1>8, <1>9, <1>10, <1>11, <1>12 DEF IInv

\* A row after its writer ended.
Ended(new, old, p) ==
  /\ p \notin old.by => new = old
  /\ p \in old.by => new = Row(old.cur) \/ new = Row(old.next)

\* What a commit or a rollback does to each row.
LEMMA EndRows ==
  ASSUME TypeOK, NEW p \in Procs, Commit(p) \/ Rollback(p)
  PROVE  /\ \A f \in FeedIds : Ended(feed'[f], feed[f], p)
         /\ \A u \in Users : Ended(user'[u], user[u], p)
         /\ \A u \in Users, f \in FeedIds : /\ Ended(sub'[u][f], sub[u][f], p)
                                            /\ Ended(state'[u][f], state[u][f], p)
         /\ tx'[p] = Idle /\ \A q \in Procs \ {p} : tx'[q] = tx[q]
<1>1. tx'[p] = Idle /\ \A q \in Procs \ {p} : tx'[q] = tx[q]
  BY DEF TypeOK, Commit, Rollback
<1>2. \A r : Ended(Committed(r, p), r, p) /\ Ended(RolledBack(r, p), r, p)
  BY DEF Ended, Committed, RolledBack
<1>3. CASE Commit(p)
  BY <1>1, <1>2, <1>3 DEF Commit
<1>4. CASE Rollback(p)
  BY <1>1, <1>2, <1>4 DEF Rollback
<1> QED BY <1>3, <1>4

\* A row whose transaction ended is unwritten and has the old contents or the new ones.
LEMMA EndedFacts ==
  ASSUME NEW new, NEW old, NEW p, Ended(new, old, p)
  PROVE  /\ p \notin new.by
         /\ p \notin old.by => new = old
         /\ p \in old.by => /\ new.by = {} /\ new.next = new.cur
                            /\ new.cur = old.cur \/ new.cur = old.next
<1>1. CASE p \notin old.by
  BY <1>1 DEF Ended
<1>2. CASE p \in old.by
  BY <1>2 DEF Ended, Row
<1> QED BY <1>1, <1>2

\* A row somebody still writes is as it was.
LEMMA StillWritten ==
  ASSUME NEW new, NEW old, NEW p, Ended(new, old, p), NEW q \in new.by
  PROVE  new = old /\ p \notin old.by
BY DEF Ended, Row

\* A commit or a rollback preserves the invariant, once it is known to leave nothing
\* dangling.
LEMMA EndInv ==
  ASSUME IInv, NEW p \in Procs, Commit(p) \/ Rollback(p), References'
  PROVE  IInv'
<1>1. /\ \A f \in FeedIds : Ended(feed'[f], feed[f], p)
      /\ \A u \in Users : Ended(user'[u], user[u], p)
      /\ \A u \in Users, f \in FeedIds : /\ Ended(sub'[u][f], sub[u][f], p)
                                         /\ Ended(state'[u][f], state[u][f], p)
      /\ tx'[p] = Idle /\ \A q \in Procs \ {p} : tx'[q] = tx[q]
  BY EndRows DEF IInv
<1>2. /\ \A f \in FeedIds, u \in Users :
           p \notin feed'[f].by /\ p \notin sub'[u][f].by /\ p \notin state'[u][f].by
      /\ \A u \in Users : p \notin user'[u].by
  BY <1>1, EndedFacts
<1>3. Idle.op = "none" /\ Idle.share = {}
  BY DEF Idle
<1>4. TypeOK'
  BY EndType DEF IInv
<1>5. FieldsSet'
  <2>1. Fields(Idle)
    BY DEF Fields, OpPCs, SubscribeOps, RequestOps, Idle
  <2> QED BY <1>1, <2>1 DEF IInv, FieldsSet
<1>6. IdleHoldsNothing'
  <2> SUFFICES ASSUME NEW q \in Procs, tx'[q].op = "none", NEW f \in FeedIds
               PROVE  /\ q \notin feed'[f].by
                      /\ \A u \in Users : q \notin sub'[u][f].by \cup state'[u][f].by
    BY DEF IdleHoldsNothing
  <2>1. CASE q = p
    <3>1. ASSUME NEW u \in Users PROVE q \notin sub'[u][f].by \cup state'[u][f].by
      BY <1>2, <2>1
    <3>2. q \notin feed'[f].by
      BY <1>1, <2>1, EndedFacts
    <3> QED BY <3>1, <3>2
  <2>2. CASE q # p
    <3>1. /\ q \notin feed[f].by
          /\ \A u \in Users : q \notin sub[u][f].by \cup state[u][f].by
      BY <1>1, <2>2 DEF IInv, IdleHoldsNothing
    <3> QED BY <1>1, <3>1, StillWritten
  <2> QED BY <2>1, <2>2
<1>7. SharedFeedsStay'
  <2> SUFFICES ASSUME NEW q \in Procs, NEW f \in tx'[q].share
               PROVE  Live(Seen(feed'[f], q)) /\ ~KeyLocked(f, q)'
    BY DEF SharedFeedsStay
  <2>1. q # p /\ tx[q] \in Txs /\ f \in tx[q].share
    BY <1>1, <1>3 DEF IInv, TypeOK
  <2>2. f \in FeedIds /\ Live(Seen(feed[f], q)) /\ ~KeyLocked(f, q)
    BY <2>1 DEF IInv, SharedFeedsStay, Txs
  <2>3. CASE p \notin feed[f].by
    BY <1>1, <2>2, <2>3 DEF Ended, KeyLocked
  <2>4. CASE p \in feed[f].by
    <3>1. feed[f].by = {p}
      BY <2>2, <2>4, FeedTypes, RowFacts DEF IInv
    <3>2. /\ Live(feed[f].cur) /\ feed[f].cur.status = feed[f].next.status
      BY <2>1, <2>2, <3>1 DEF Seen, KeyLocked, Free
    <3>3. Live(feed'[f].cur) /\ feed'[f].next = feed'[f].cur /\ feed'[f].by = {}
      <4>1. /\ feed'[f].by = {} /\ feed'[f].next = feed'[f].cur
            /\ feed'[f].cur = feed[f].cur \/ feed'[f].cur = feed[f].next
        <5>1. Ended(feed'[f], feed[f], p)
          BY <1>1, <2>2
        <5> QED BY <2>4, <5>1, EndedFacts
      <4> QED BY <3>2, <4>1 DEF Live
    <3> QED BY <3>3 DEF Seen, KeyLocked
  <2> QED BY <2>3, <2>4
<1>8. UserHolders'
  <2>1. ASSUME NEW q \in Procs, NEW u \in Users, q \in user'[u].by
        PROVE  /\ user'[u].cur
               /\ tx'[q].op \in SubscribeOps \cup {"delete_user"}
               /\ tx'[q].op # "delete_user" => user'[u].next
    <3>1. q # p /\ user'[u] = user[u]
      BY <1>1, <1>2, <2>1, StillWritten
    <3> QED BY <1>1, <2>1, <3>1 DEF IInv, UserHolders
  <2>2. ASSUME NEW q \in Procs, tx'[q].op \in SubscribeOps, tx'[q].pc # "lock_row",
               user'[tx'[q].u].cur
        PROVE  q \in user'[tx'[q].u].by
    <3>1. q # p /\ tx'[q] = tx[q]
      BY <1>1, <1>3, <2>2 DEF SubscribeOps
    <3>2. tx[q].u \in Users
      BY <2>2, <3>1 DEF IInv, FieldsSet, Fields, SubscribeOps, RequestOps
    <3>3. CASE p \in user[tx[q].u].by
      <4>1. user[tx[q].u].cur
        BY <3>2, <3>3 DEF IInv, UserHolders
      <4>2. q \in user[tx[q].u].by
        BY <2>2, <3>1, <4>1 DEF IInv, UserHolders
      <4>3. user[tx[q].u] \in Rows(BOOLEAN, Procs)
        BY <3>2 DEF IInv, TypeOK
      <4>4. q = p
        BY <3>3, <4>2, <4>3, RowFacts
      <4> QED BY <3>1, <4>4
    <3>4. CASE p \notin user[tx[q].u].by
      BY <1>1, <2>2, <3>1, <3>2, <3>4 DEF IInv, UserHolders, Ended
    <3> QED BY <3>3, <3>4
  <2> QED BY <2>1, <2>2 DEF UserHolders
<1>9. InsertedSubs'
  <2> SUFFICES ASSUME NEW q \in Procs, NEW u \in Users, NEW f \in FeedIds,
                      q \in sub'[u][f].by, ~sub'[u][f].cur, sub'[u][f].next
               PROVE  f \in tx'[q].share /\ q \in user'[u].by /\ tx'[q].op \in SubscribeOps
    BY DEF InsertedSubs
  <2>1. q # p /\ sub'[u][f] = sub[u][f]
    BY <1>1, <1>2, StillWritten
  <2>2. f \in tx[q].share /\ q \in user[u].by /\ tx[q].op \in SubscribeOps
    BY <2>1 DEF IInv, InsertedSubs
  <2>3. p \notin user[u].by
    BY <2>1, <2>2, TableTypes, RowFacts DEF IInv
  <2> QED BY <1>1, <2>1, <2>2, <2>3 DEF Ended
<1>10. InsertedStates'
  <2> SUFFICES ASSUME NEW q \in Procs, NEW u \in Users, NEW f \in FeedIds,
                      q \in state'[u][f].by, ~state'[u][f].cur, state'[u][f].next
               PROVE  /\ tx'[q].op = "set_state" /\ user'[u].cur /\ user'[u].next
                      /\ Live(feed'[f].cur) /\ Live(feed'[f].next)
    BY DEF InsertedStates
  <2>1. q # p /\ state'[u][f] = state[u][f]
    BY <1>1, <1>2, StillWritten
  <2>2. /\ tx[q].op = "set_state" /\ user[u].cur /\ user[u].next
        /\ Live(feed[f].cur) /\ Live(feed[f].next)
    BY <2>1 DEF IInv, InsertedStates
  <2>3. /\ user'[u].cur = user[u].cur \/ user'[u].cur = user[u].next
        /\ user'[u].next = user[u].cur \/ user'[u].next = user[u].next
    <3>1. Ended(user'[u], user[u], p)
      BY <1>1
    <3>2. CASE p \in user[u].by
      BY <3>1, <3>2, EndedFacts
    <3>3. CASE p \notin user[u].by
      BY <3>1, <3>3, EndedFacts
    <3> QED BY <3>2, <3>3
  <2>4. /\ feed'[f].cur = feed[f].cur \/ feed'[f].cur = feed[f].next
        /\ feed'[f].next = feed[f].cur \/ feed'[f].next = feed[f].next
    <3>1. Ended(feed'[f], feed[f], p)
      BY <1>1
    <3>2. CASE p \in feed[f].by
      BY <3>1, <3>2, EndedFacts
    <3>3. CASE p \notin feed[f].by
      BY <3>1, <3>3, EndedFacts
    <3> QED BY <3>2, <3>3
  <2>5. tx'[q] = tx[q]
    BY <1>1, <2>1
  <2> QED BY <2>2, <2>3, <2>4, <2>5
<1>11. UserDeletes'
  <2> SUFFICES ASSUME NEW q \in Procs, NEW u \in Users, Removes(user'[u], q)
               PROVE  /\ tx'[q].u = u
                      /\ tx'[q].pc \in {"cascade", "del_trigger", "stamp", "commit"}
                      /\ tx'[q].pc # "cascade" => \A f \in FeedIds :
                           /\ sub'[u][f].cur => Removes(sub'[u][f], q)
                           /\ state'[u][f].cur => Removes(state'[u][f], q)
    BY DEF UserDeletes, Removes
  <2>1. q # p /\ user'[u] = user[u] /\ p \notin user[u].by
    BY <1>1, <1>2, StillWritten DEF Removes
  <2>2. tx'[q] = tx[q] /\ ~user[u].next
    BY <1>1, <2>1 DEF Removes
  <2>3. ASSUME NEW f \in FeedIds, tx[q].pc # "cascade"
        PROVE  /\ sub'[u][f].cur => Removes(sub'[u][f], q)
               /\ state'[u][f].cur => Removes(state'[u][f], q)
    <3>1. /\ sub[u][f].cur => Removes(sub[u][f], q)
          /\ state[u][f].cur => Removes(state[u][f], q)
      BY <2>1, <2>3 DEF IInv, UserDeletes
    <3>2. state'[u][f].cur => Removes(state'[u][f], q)
      <4>1. CASE p \in state[u][f].by
        <5>1. ~state[u][f].cur
          BY <2>1, <3>1, <4>1, TableTypes, RowFacts DEF IInv, Removes
        <5>2. ~state[u][f].next
          BY <2>2, <4>1, <5>1 DEF IInv, InsertedStates
        <5>3. state'[u][f].cur = state[u][f].cur \/ state'[u][f].cur = state[u][f].next
          BY <1>1, <4>1, EndedFacts
        <5> QED BY <5>1, <5>2, <5>3
      <4>2. CASE p \notin state[u][f].by
        BY <1>1, <3>1, <4>2 DEF Ended
      <4> QED BY <4>1, <4>2
    <3>3. CASE p \in sub[u][f].by
      <4>1. ~sub[u][f].cur
        BY <2>1, <3>1, <3>3, TableTypes, RowFacts DEF IInv, Removes
      <4>2. ~sub[u][f].next
        BY <2>1, <3>3, <4>1 DEF IInv, InsertedSubs
      <4>3. sub'[u][f].cur = sub[u][f].cur \/ sub'[u][f].cur = sub[u][f].next
        BY <1>1, <3>3, EndedFacts
      <4> QED BY <3>2, <4>1, <4>2, <4>3
    <3>4. CASE p \notin sub[u][f].by
      BY <1>1, <3>1, <3>4, <3>2 DEF Ended
    <3> QED BY <3>3, <3>4
  <2> QED BY <2>1, <2>2, <2>3 DEF IInv, UserDeletes
<1>12. FeedDeletes'
  <2> SUFFICES ASSUME NEW q \in Procs, NEW f \in FeedIds, q \in feed'[f].by
               PROVE  /\ tx'[q].op # "set_state"
                      /\ ~Live(feed'[f].next) =>
                           /\ tx'[q].pc \in {"gc_delete", "gc_check", "raise", "commit"}
                           /\ \A u \in Users : state'[u][f].cur => Removes(state'[u][f], q)
                           /\ tx'[q].pc = "commit" =>
                                \A u \in Users : sub'[u][f].cur => Removes(sub'[u][f], q)
    BY DEF FeedDeletes
  <2>1. q # p /\ feed'[f] = feed[f] /\ tx'[q] = tx[q] /\ q \in feed[f].by
    BY <1>1, <1>2, StillWritten
  <2>2. /\ tx[q].op # "set_state"
        /\ ~Live(feed[f].next) =>
             /\ tx[q].pc \in {"gc_delete", "gc_check", "raise", "commit"}
             /\ \A u \in Users : state[u][f].cur => Removes(state[u][f], q)
             /\ tx[q].pc = "commit" => \A u \in Users : sub[u][f].cur => Removes(sub[u][f], q)
    BY <2>1 DEF IInv, FeedDeletes
  <2>3. ASSUME ~Live(feed[f].next), NEW u \in Users
        PROVE  state'[u][f].cur => Removes(state'[u][f], q)
    <3>1. CASE p \in state[u][f].by
      <4>1. ~state[u][f].cur
        BY <2>1, <2>2, <2>3, <3>1, TableTypes, RowFacts DEF IInv, Removes
      <4>2. ~state[u][f].next
        BY <2>3, <3>1, <4>1 DEF IInv, InsertedStates
      <4>3. state'[u][f].cur = state[u][f].cur \/ state'[u][f].cur = state[u][f].next
        BY <1>1, <3>1, EndedFacts
      <4> QED BY <4>1, <4>2, <4>3
    <3>2. CASE p \notin state[u][f].by
      BY <1>1, <2>2, <2>3, <3>2 DEF Ended
    <3> QED BY <3>1, <3>2
  <2>4. ASSUME ~Live(feed[f].next), tx[q].pc = "commit", NEW u \in Users
        PROVE  sub'[u][f].cur => Removes(sub'[u][f], q)
    <3>1. CASE p \in sub[u][f].by
      <4>1. ~sub[u][f].cur
        BY <2>1, <2>2, <2>4, <3>1, TableTypes, RowFacts DEF IInv, Removes
      <4>2. ASSUME sub[u][f].next PROVE FALSE
        <5>1. f \in tx[p].share
          BY <3>1, <4>1, <4>2 DEF IInv, InsertedSubs
        <5>2. Live(Seen(feed[f], p)) /\ ~KeyLocked(f, p)
          BY <5>1 DEF IInv, SharedFeedsStay
        <5>3. feed[f].by = {q}
          BY <2>1, FeedTypes, RowFacts DEF IInv
        <5>4. Live(feed[f].cur) /\ feed[f].cur.status = feed[f].next.status
          BY <2>1, <5>2, <5>3 DEF Seen, KeyLocked, Free
        <5> QED BY <2>4, <5>4 DEF Live
      <4>3. sub'[u][f].cur = sub[u][f].cur \/ sub'[u][f].cur = sub[u][f].next
        BY <1>1, <3>1, EndedFacts
      <4> QED BY <4>1, <4>2, <4>3
    <3>2. CASE p \notin sub[u][f].by
      BY <1>1, <2>2, <2>4, <3>2 DEF Ended
    <3> QED BY <3>1, <3>2
  <2> QED BY <2>1, <2>2, <2>3, <2>4
<1> QED
  BY <1>4, <1>5, <1>6, <1>7, <1>8, <1>9, <1>10, <1>11, <1>12 DEF IInv

\* A rollback commits nothing, and a commit leaves nothing dangling.
LEMMA EndReferences ==
  ASSUME IInv, NEW p \in Procs, Commit(p) \/ Rollback(p)
  PROVE  References'
<1> SUFFICES ASSUME NEW u \in Users, NEW f \in FeedIds, sub'[u][f].cur \/ state'[u][f].cur
             PROVE  Live(feed'[f].cur) /\ user'[u].cur
  BY DEF References
<1>1. CASE Rollback(p)
  <2>1. /\ feed'[f].cur = feed[f].cur /\ user'[u].cur = user[u].cur
        /\ sub'[u][f].cur = sub[u][f].cur /\ state'[u][f].cur = state[u][f].cur
    BY <1>1 DEF Rollback, RolledBack, Row
  <2> QED BY <2>1 DEF IInv, References
<1>2. CASE Commit(p)
  <2>1. /\ feed'[f] = Committed(feed[f], p) /\ user'[u] = Committed(user[u], p)
        /\ sub'[u][f] = Committed(sub[u][f], p) /\ state'[u][f] = Committed(state[u][f], p)
        /\ tx[p].pc = "commit"
    BY <1>2 DEF Commit, At
  <2>2. CASE \/ sub[u][f].cur /\ ~Removes(sub[u][f], p)
             \/ state[u][f].cur /\ ~Removes(state[u][f], p)
    <3>1. Live(feed[f].cur) /\ user[u].cur
      BY <2>2 DEF IInv, References
    <3>2. ~Removes(user[u], p)
      BY <2>1, <2>2 DEF IInv, UserDeletes
    <3>3. p \in feed[f].by => Live(feed[f].next)
      BY <2>1, <2>2 DEF IInv, FeedDeletes
    <3> QED BY <2>1, <3>1, <3>2, <3>3 DEF Committed, Row, Removes
  <2>3. CASE p \in sub[u][f].by /\ ~sub[u][f].cur /\ sub[u][f].next
    <3>1. f \in tx[p].share /\ p \in user[u].by /\ tx[p].op \in SubscribeOps
      BY <2>3 DEF IInv, InsertedSubs
    <3>2. user[u].next
      BY <3>1 DEF IInv, UserHolders, SubscribeOps
    <3>3. Live(Seen(feed[f], p))
      BY <3>1 DEF IInv, SharedFeedsStay
    <3> QED BY <2>1, <3>1, <3>2, <3>3 DEF Committed, Row, Seen
  <2>4. CASE p \in state[u][f].by /\ ~state[u][f].cur /\ state[u][f].next
    <3>1. user[u].cur /\ user[u].next /\ Live(feed[f].cur) /\ Live(feed[f].next)
      BY <2>4 DEF IInv, InsertedStates
    <3> QED BY <2>1, <3>1 DEF Committed, Row
  <2> QED BY <2>1, <2>2, <2>3, <2>4 DEF Committed, Row, Removes
<1> QED BY <1>1, <1>2

\* The passing of the grace period preserves the invariant.
LEMMA GraceInv ==
  ASSUME IInv, NEW f \in FeedIds, GracePasses(f)
  PROVE  IInv'
<1>1. /\ sub' = sub /\ state' = state /\ user' = user /\ tx' = tx
      /\ \A p \in Procs : tx[p].op = "none" /\ tx[p].share = {}
  <2>1. \A p \in Procs : tx[p].op = "none"
    BY PcFacts DEF GracePasses, At, IInv
  <2>2. \A p \in Procs : tx[p] = Idle
    BY <2>1 DEF IInv, FieldsSet, Fields
  <2> QED BY <2>1, <2>2 DEF GracePasses, Idle
<1>2. \A g \in FeedIds : /\ feed'[g].by = {} /\ feed[g].by = {}
                         /\ feed'[g].cur.status = feed[g].cur.status
  <2>1. \A g \in FeedIds : feed[g].by = {}
    BY <1>1, TableTypes, FeedTypes, RowFacts DEF IInv, IdleHoldsNothing
  <2>2. feed'[f].by = {} /\ feed'[f].cur = [feed[f].cur EXCEPT !.orphan = "expired"]
    BY DEF GracePasses, IInv, TypeOK, Row
  <2>3. feed'[f].cur.status = feed[f].cur.status
    BY <2>2, FeedTypes DEF IInv, FeedVals
  <2>4. \A g \in FeedIds : g # f => feed'[g] = feed[g]
    BY DEF GracePasses, IInv, TypeOK
  <2> QED BY <2>1, <2>2, <2>3, <2>4
<1>3. TypeOK'
  BY GraceType DEF IInv
<1>4. FieldsSet' /\ UserHolders' /\ InsertedSubs' /\ UserDeletes'
  BY <1>1 DEF IInv, FieldsSet, UserHolders, InsertedSubs, UserDeletes
<1>5. IdleHoldsNothing'
  BY <1>1, <1>2 DEF IInv, IdleHoldsNothing
<1>6. SharedFeedsStay'
  BY <1>1 DEF SharedFeedsStay
<1>7. InsertedStates'
  BY <1>1 DEF IInv, InsertedStates
<1>8. FeedDeletes'
  BY <1>2 DEF FeedDeletes
<1>9. References'
  BY <1>1, <1>2 DEF IInv, References, Live
<1> QED BY <1>3, <1>4, <1>5, <1>6, <1>7, <1>8, <1>9 DEF IInv

\* A step that changes nothing preserves the invariant.
LEMMA StutterInv ==
  ASSUME IInv, UNCHANGED vars
  PROVE  IInv'
<1>1. feed' = feed /\ sub' = sub /\ state' = state /\ user' = user /\ tx' = tx
  BY DEF vars
<1>2. TypeOK' /\ FieldsSet' /\ IdleHoldsNothing' /\ UserHolders' /\ InsertedSubs' /\ InsertedStates'
  BY <1>1 DEF IInv, TypeOK, FieldsSet, IdleHoldsNothing, UserHolders, InsertedSubs, InsertedStates
<1>3. SharedFeedsStay'
  BY <1>1 DEF IInv, SharedFeedsStay, KeyLocked
<1>4. UserDeletes' /\ FeedDeletes' /\ References'
  BY <1>1 DEF IInv, UserDeletes, FeedDeletes, References
<1> QED BY <1>2, <1>3, <1>4 DEF IInv

\* The empty catalog satisfies the invariant.
LEMMA InitInv == Init => IInv
<1> SUFFICES ASSUME Init PROVE IInv
  OBVIOUS
<1>1. TypeOK
  BY TypeInit
<1>2. \A p \in Procs : tx[p] = Idle
  BY DEF Init
<1>3. /\ \A f \in FeedIds : feed[f].by = {}
      /\ \A u \in Users : user[u].by = {}
      /\ \A u \in Users, f \in FeedIds : /\ sub[u][f].by = {} /\ sub[u][f].cur = FALSE
                                         /\ state[u][f].by = {} /\ state[u][f].cur = FALSE
  BY DEF Init, Row
<1>4. Fields(Idle) /\ Idle.share = {} /\ Idle.op = "none"
  BY DEF Fields, OpPCs, SubscribeOps, RequestOps, Idle
<1>5. FieldsSet /\ IdleHoldsNothing /\ SharedFeedsStay
  BY <1>2, <1>3, <1>4 DEF FieldsSet, IdleHoldsNothing, SharedFeedsStay
<1>6. UserHolders /\ InsertedSubs /\ InsertedStates
  BY <1>2, <1>3, <1>4 DEF UserHolders, InsertedSubs, InsertedStates, SubscribeOps
<1>7. UserDeletes /\ FeedDeletes /\ References
  BY <1>3 DEF UserDeletes, FeedDeletes, References, Removes
<1> QED BY <1>1, <1>5, <1>6, <1>7 DEF IInv

-----------------------------------------------------------------------------
(* Theorems *)

\* The invariant is inductive: it holds initially and every step preserves it.
THEOREM Invariance == Spec => []IInv
<1>1. ASSUME IInv, [Next]_vars PROVE IInv'
  <2>1. ASSUME NEW p \in Procs, Begins(p) PROVE IInv'
    BY <1>1, <2>1, BeginInv
  <2>2. ASSUME NEW p \in Procs, Statement(p) PROVE IInv'
    BY <1>1, <2>2, StatementInv
  <2>3. ASSUME NEW p \in Procs, Commit(p) \/ Rollback(p) PROVE IInv'
    <3>1. References'
      BY <1>1, <2>3, EndReferences
    <3> QED BY <1>1, <2>3, <3>1, EndInv
  <2>4. ASSUME NEW f \in FeedIds, GracePasses(f) PROVE IInv'
    BY <1>1, <2>4, GraceInv
  <2>5. CASE UNCHANGED vars
    BY <1>1, <2>5, StutterInv
  <2> QED BY <1>1, <2>1, <2>2, <2>3, <2>4, <2>5 DEF Next
<1> QED BY <1>1, InitInv, PTL DEF Spec

\* Every table and every transaction keeps its type.
THEOREM TypeCorrect == Spec => []TypeOK
<1>1. IInv => TypeOK
  BY DEF IInv
<1> QED BY <1>1, Invariance, PTL

\* However subscribes, imports, unsubscribes, read/star writes, account deletions, polls
\* and sweeps interleave, and wherever they fail, no committed subscription or read/star
\* row is left without its feed or its user.
THEOREM NothingDangles == Spec => []References
<1>1. IInv => References
  BY DEF IInv
<1> QED BY <1>1, Invariance, PTL

-----------------------------------------------------------------------------
(* The invariant behind QuotaRespected and CatalogSpec: what the transaction *)
(* that wrote a row may commit                                              *)

\* No two feeds have, or are about to have, one URL.
UniqueUrls ==
  \A f, g \in FeedIds : f # g =>
    \A v \in {feed[f].cur, feed[f].next}, w \in {feed[g].cur, feed[g].next} :
      Live(v) /\ Live(w) => v.url # w.url

\* The row will still be the live feed it is, under its URL.
SameFeed(r) == Live(r.cur) /\ Live(r.next) /\ r.next.url = r.cur.url

\* Subscribes create feeds or clear their stamps, an unsubscribe stamps or deletes its feed,
\* an account deletion stamps, a poll repoints or records its feed, the GC deletes.
FeedWriters ==
  \A p \in Procs, f \in FeedIds : p \in feed[f].by =>
    LET t == tx[p]
        r == feed[f]
    IN  /\ t.op \in SubscribeOps \cup {"unsubscribe", "delete_user", "persist", "gc"}
        /\ t.op \in SubscribeOps => Live(r.next) /\ (r.cur = Unused \/ SameFeed(r))
        /\ t.op = "unsubscribe" => f = t.f /\ Live(r.cur) /\ (SameFeed(r) \/ ~Live(r.next))
        /\ t.op = "delete_user" => SameFeed(r) /\ p \in user[t.u].by
        /\ t.op = "persist" => f = t.f /\ Live(r.cur) /\ Live(r.next)
        /\ t.op = "gc" => Live(r.cur) /\ ~Live(r.next)

\* Subscribes insert rows of the user they have locked, an unsubscribe deletes its own row,
\* an account deletion the rows of the user it deletes.
SubWriters ==
  \A p \in Procs, u \in Users, f \in FeedIds : p \in sub[u][f].by =>
    LET t == tx[p]
        r == sub[u][f]
    IN  /\ u = t.u /\ t.op \in SubscribeOps \cup {"unsubscribe", "delete_user"}
        /\ t.op \in SubscribeOps => r.next /\ t.pc # "lock_row" /\ p \in user[u].by
        /\ t.op = "unsubscribe" => r.cur /\ ~r.next /\ f = t.f
        /\ t.op = "delete_user" => r.cur /\ ~r.next /\ p \in user[u].by

\* A transaction holds no user row but that of its own user, which an account deletion that
\* has got past it deletes.
UserWriters ==
  /\ \A p \in Procs, u \in Users : p \in user[u].by =>
       u = tx[p].u /\ (tx[p].op = "delete_user" => ~user[u].next)
  /\ \A p \in Procs :
       tx[p].op = "delete_user" /\ tx[p].pc \in {"cascade", "del_trigger", "stamp"} =>
         p \in user[tx[p].u].by

\* An unsubscribe triggers for its own feed only.
OneFeed == \A p \in Procs : tx[p].op = "unsubscribe" => tx[p].feeds \subseteq {tx[p].f}

\* What a subscribe or import past its lock has counted is at least what its user has, itself
\* included, and that is within the quota; without the user it gets nowhere.
Counted ==
  \A p \in Procs :
    LET t == tx[p]
        has == Cardinality(SubscriptionsOf(t.u, p))
    IN  t.op \in SubscribeOps /\ t.pc # "lock_row" =>
          IF user[t.u].cur THEN has <= t.count /\ has <= Quota
          ELSE t.count = 0 /\ t.pc \notin {"ins_trigger", "commit"}

\* A subscribe has one URL, and comes to its insert with room for it.
OneUrl ==
  \A p \in Procs :
    LET t == tx[p] IN
    t.op = "subscribe" =>
      /\ t.pc \in {"lock_row", "select"} => \E url \in Urls : t.urls = {url}
      /\ t.pc \notin {"lock_row", "select", "raise"} => t.urls = {}
      /\ t.pc \in {"select", "upsert", "reselect", "insert_sub"} => t.count < Quota

Writers == FeedWriters /\ SubWriters /\ UserWriters
CInv == UniqueUrls /\ Writers /\ OneFeed /\ Counted /\ OneUrl /\ QuotaRespected

-----------------------------------------------------------------------------
(* What a statement writes, and what it goes on to *)

UrlFree(url, p) == ~UrlBusy(url, p) /\ FeedsAt(url, p) = {}

FeedWrite(p, f, v) ==
  LET t == tx[p]
      old == Seen(feed[f], p)
  IN  \/ /\ t.op \in SubscribeOps /\ feed[f] = Row(Unused)
         /\ \E url \in Urls : UrlFree(url, p) /\ v = NewFeed(url)
      \/ /\ t.op = "persist" /\ f = t.f /\ Live(old)
         /\ \E url \in Urls : UrlFree(url, p) /\ v = [old EXCEPT !.url = url]
      \/ /\ t.op \in SubscribeOps \cup {"unsubscribe", "delete_user", "persist"}
         /\ t.op \in {"unsubscribe", "persist"} => f = t.f
         /\ t.op = "delete_user" => t.pc = "stamp"
         /\ t.pc \notin {"ins_trigger", "stamp"} => v.orphan = old.orphan
         /\ Live(old) /\ Live(v) /\ v.url = old.url
      \/ t.op = "unsubscribe" /\ f = t.f /\ Live(old) /\ v = Gone
      \/ t.op = "gc" /\ Live(feed[f].cur) /\ v = Gone

FeedStep(p) ==
  \/ UNCHANGED feed
  \/ \E f \in FeedIds, v \in FeedVals :
       Free(feed[f], p) /\ WriteFeed(f, p, v) /\ FeedWrite(p, f, v)

UserStep(p) ==
  LET t == tx[p] IN
  \/ UNCHANGED user
  \/ /\ user[t.u].cur /\ Free(user[t.u], p)
     /\ \/ /\ t.op \in SubscribeOps
           /\ user' = [user EXCEPT ![t.u] = Written(user[t.u], p, TRUE)]
        \/ /\ t.op = "delete_user"
           /\ user' = [user EXCEPT ![t.u] = Written(user[t.u], p, FALSE)]

SubStep(p, u, f) ==
  LET t == tx[p] IN
  \/ sub'[u][f] = sub[u][f]
  \/ /\ u = t.u /\ Free(sub[u][f], p)
     /\ \/ /\ t.op \in SubscribeOps /\ t.pc = "insert_sub" /\ user[u].cur
           /\ sub'[u][f] = Written(sub[u][f], p, TRUE)
        \/ /\ \/ t.op = "unsubscribe" /\ f = t.f
              \/ t.op = "delete_user" /\ t.pc = "cascade"
           /\ sub[u][f].cur /\ sub'[u][f] = Written(sub[u][f], p, FALSE)

FieldStep(p) ==
  LET old == tx[p]
      new == tx'[p]
  IN  /\ old.op \in {"unsubscribe", "persist"} => new.f = old.f
      /\ old.op = "unsubscribe" => new.feeds \subseteq {old.f}
      /\ old.pc = "delete_user" /\ new.pc # "commit" => p \in user'[old.u].by

SubscribeStep(p) ==
  LET old == tx[p]
      new == tx'[p]
  IN  \/ /\ old.pc = "lock_row" /\ UNCHANGED sub
         /\ new.urls = old.urls /\ new.count = Cardinality(SubscriptionsOf(old.u, p))
         /\ new.pc = IF old.op = "subscribe" /\ new.count >= Quota THEN "raise" ELSE "select"
      \/ /\ old.pc = "select" /\ UNCHANGED sub /\ new.count = old.count
         /\ new.pc \in {"upsert", "insert_sub"}
         /\ \E url \in old.urls : new.urls = old.urls \ {url}
      \/ /\ old.pc # "lock_row" /\ UNCHANGED sub /\ new.count = old.count /\ new.urls = old.urls
         /\ \/ /\ old.pc \in {"upsert", "reselect"}
               /\ new.pc \in {"reselect", "insert_sub", "assert"}
            \/ old.pc = "insert_sub" /\ new.pc \in {"raise", "conflict"}
            \/ /\ old.pc = "insert_sub" /\ new.pc = NextItem(p) /\ old.op = "import"
               /\ Seen(sub[old.u][old.f], p) \/ old.count >= Quota
            \/ old.pc = "ins_trigger" /\ new.pc = NextItem(p)
      \/ /\ old.pc = "insert_sub" /\ user[old.u].cur
         /\ old.op = "import" => old.count < Quota
         /\ sub' = [sub EXCEPT ![old.u][old.f] = Written(sub[old.u][old.f], p, TRUE)]
         /\ new.count = old.count + 1 /\ new.urls = old.urls /\ new.pc = "ins_trigger"

Steps(p) ==
  /\ FeedStep(p) /\ UserStep(p) /\ FieldStep(p)
  /\ \A u \in Users, f \in FeedIds : SubStep(p, u, f)
  /\ tx[p].op \in SubscribeOps => SubscribeStep(p)

\* The statements of a subscribe or an import.
LEMMA SubscribeSteps ==
  ASSUME IInv, NEW p \in Procs,
         LockRow(p) \/ SelectFeed(p) \/ UpsertFeed(p) \/ ReselectFeed(p)
           \/ InsertSubscription(p) \/ InsertTrigger(p)
  PROVE  Steps(p)
<1>1. /\ tx[p] \in Txs /\ tx \in [Procs -> Txs] /\ Fields(tx[p])
      /\ tx[p].op \in SubscribeOps /\ tx[p].u \in Users /\ tx[p].pc # "delete_user"
  BY PcFacts DEF IInv, TypeOK, LockRow, SelectFeed, UpsertFeed, ReselectFeed,
     InsertSubscription, InsertTrigger, At
<1>2. FieldStep(p)
  BY <1>1 DEF FieldStep, SubscribeOps
<1>3. UNCHANGED sub => \A u \in Users, f \in FeedIds : SubStep(p, u, f)
  BY DEF SubStep
<1>4. CASE LockRow(p)
  <2>1. SubscribeStep(p)
    BY <1>1, <1>4 DEF LockRow, SubscribeStep, At, Txs
  <2>2. UserStep(p)
    <3>1. Free(user[tx[p].u], p)
      BY <1>4 DEF LockRow, UserLockable
    <3>2. tx[p].op # "delete_user"
      BY <1>1 DEF SubscribeOps
    <3> QED BY <1>1, <1>4, <3>1, <3>2 DEF LockRow, UserStep
  <2> QED BY <1>1, <1>2, <1>3, <1>4, <2>1, <2>2 DEF LockRow, Steps, FeedStep
<1>5. CASE SelectFeed(p)
  <2>1. SubscribeStep(p)
    <3>1. PICK url \in tx[p].urls :
            \/ tx' = [tx EXCEPT ![p].pc = "upsert", ![p].url = url, ![p].urls = @ \ {url}]
            \/ \E f \in FeedIds :
                 tx' = [tx EXCEPT ![p].pc = "insert_sub", ![p].f = f, ![p].urls = @ \ {url}]
      BY <1>5 DEF SelectFeed, FeedsAt
    <3>2. /\ tx'[p].pc \in {"upsert", "insert_sub"} /\ tx'[p].count = tx[p].count
          /\ tx'[p].urls = tx[p].urls \ {url}
      <4>1. CASE tx' = [tx EXCEPT ![p].pc = "upsert", ![p].url = url, ![p].urls = @ \ {url}]
        BY <1>1, <4>1 DEF Txs
      <4>2. ASSUME NEW f \in FeedIds,
                   tx' = [tx EXCEPT ![p].pc = "insert_sub", ![p].f = f, ![p].urls = @ \ {url}]
            PROVE  /\ tx'[p].pc = "insert_sub" /\ tx'[p].count = tx[p].count
                   /\ tx'[p].urls = tx[p].urls \ {url}
        BY <1>1, <4>2 DEF Txs
      <4> QED BY <3>1, <4>1, <4>2
    <3>3. tx[p].pc = "select" /\ UNCHANGED sub
      BY <1>5 DEF SelectFeed, At, tables
    <3> QED BY <3>2, <3>3 DEF SubscribeStep
  <2> QED BY <1>1, <1>2, <1>3, <1>5, <2>1 DEF SelectFeed, Steps, FeedStep, UserStep, tables
<1>6. CASE UpsertFeed(p)
  <2>1. SubscribeStep(p)
    <3>1. tx[p].pc = "upsert" /\ UNCHANGED sub
      BY <1>6 DEF UpsertFeed, At, tables
    <3>2. \/ tx' = [tx EXCEPT ![p].pc = "reselect"]
          \/ \E f \in FeedIds :
               tx' = [tx EXCEPT ![p].pc = "insert_sub", ![p].f = f, ![p].url = None]
      BY <1>6 DEF UpsertFeed, Goto
    <3>3. /\ tx'[p].pc \in {"reselect", "insert_sub"} /\ tx'[p].count = tx[p].count
          /\ tx'[p].urls = tx[p].urls
      <4>1. CASE tx' = [tx EXCEPT ![p].pc = "reselect"]
        BY <1>1, <4>1 DEF Txs
      <4>2. ASSUME NEW f \in FeedIds,
                   tx' = [tx EXCEPT ![p].pc = "insert_sub", ![p].f = f, ![p].url = None]
            PROVE  /\ tx'[p].pc = "insert_sub" /\ tx'[p].count = tx[p].count
                   /\ tx'[p].urls = tx[p].urls
        BY <1>1, <4>2 DEF Txs
      <4> QED BY <3>2, <4>1, <4>2
    <3> QED BY <3>1, <3>3 DEF SubscribeStep
  <2>2. FeedStep(p)
    <3>1. tx[p].url \in Urls
      BY <1>6, PcFacts DEF UpsertFeed, At, IInv
    <3>2. ASSUME NEW f \in FeedIds, feed[f] = Row(Unused), WriteFeed(f, p, NewFeed(tx[p].url)),
                 FeedsAt(tx[p].url, p) = {}
          PROVE  FeedStep(p)
      <4>1. NewFeed(tx[p].url) \in FeedVals
        BY <3>1, FeedValTypes
      <4>2. Free(feed[f], p)
        BY <3>2 DEF Free, Row
      <4>3. FeedWrite(p, f, NewFeed(tx[p].url))
        BY <1>1, <1>6, <3>1, <3>2 DEF FeedWrite, UrlFree, UpsertFeed
      <4> QED BY <3>2, <4>1, <4>2, <4>3 DEF FeedStep
    <3> QED BY <1>6, <3>2 DEF UpsertFeed, FeedStep, tables
  <2> QED BY <1>1, <1>2, <1>3, <1>6, <2>1, <2>2 DEF UpsertFeed, Steps, UserStep, tables
<1>7. CASE ReselectFeed(p)
  <2>1. SubscribeStep(p)
    <3>1. tx[p].pc = "reselect" /\ UNCHANGED sub
      BY <1>7 DEF ReselectFeed, At, tables
    <3>2. \/ tx' = [tx EXCEPT ![p].pc = "assert"]
          \/ \E f \in FeedIds :
               tx' = [tx EXCEPT ![p].pc = "insert_sub", ![p].f = f, ![p].url = None]
      BY <1>7 DEF ReselectFeed, FeedsAt, Goto
    <3>3. /\ tx'[p].pc \in {"assert", "insert_sub"} /\ tx'[p].count = tx[p].count
          /\ tx'[p].urls = tx[p].urls
      <4>1. CASE tx' = [tx EXCEPT ![p].pc = "assert"]
        BY <1>1, <4>1 DEF Txs
      <4>2. ASSUME NEW f \in FeedIds,
                   tx' = [tx EXCEPT ![p].pc = "insert_sub", ![p].f = f, ![p].url = None]
            PROVE  /\ tx'[p].pc = "insert_sub" /\ tx'[p].count = tx[p].count
                   /\ tx'[p].urls = tx[p].urls
        BY <1>1, <4>2 DEF Txs
      <4> QED BY <3>2, <4>1, <4>2
    <3> QED BY <3>1, <3>3 DEF SubscribeStep
  <2> QED BY <1>1, <1>2, <1>3, <1>7, <2>1 DEF ReselectFeed, Steps, FeedStep, UserStep, tables
<1>8. CASE InsertSubscription(p)
  <2> DEFINE t == tx[p]
  <2>1. t.pc = "insert_sub" /\ UNCHANGED <<feed, user>>
    BY <1>8 DEF InsertSubscription, At, tables
  <2>2. ASSUME NEW pc, Goto(p, pc), UNCHANGED sub,
               \/ pc \in {"raise", "conflict"}
               \/ /\ pc = NextItem(p) /\ t.op = "import"
                  /\ Seen(sub[t.u][t.f], p) \/ t.count >= Quota
        PROVE  SubscribeStep(p)
    <3>1. tx'[p].pc = pc /\ tx'[p].count = t.count /\ tx'[p].urls = t.urls
      BY <1>1, <2>2 DEF Goto, Txs
    <3> QED BY <2>1, <2>2, <3>1 DEF SubscribeStep
  <2>3. ASSUME user[t.u].cur, t.op = "import" => t.count < Quota, Free(sub[t.u][t.f], p),
               sub' = [sub EXCEPT ![t.u][t.f] = Written(sub[t.u][t.f], p, TRUE)],
               tx' = [tx EXCEPT ![p].pc = "ins_trigger", ![p].count = @ + 1,
                                ![p].share = @ \cup {t.f}]
        PROVE  SubscribeStep(p) /\ \A u \in Users, f \in FeedIds : SubStep(p, u, f)
    <3>1. /\ tx'[p].pc = "ins_trigger" /\ tx'[p].count = t.count + 1 /\ tx'[p].urls = t.urls
      BY <1>1, <2>3 DEF Txs
    <3>2. SubscribeStep(p)
      BY <2>1, <2>3, <3>1 DEF SubscribeStep
    <3>3. ASSUME NEW u \in Users, NEW f \in FeedIds PROVE SubStep(p, u, f)
      BY <1>1, <2>1, <2>3 DEF SubStep, IInv, TypeOK
    <3> QED BY <3>2, <3>3
  <2>4. \/ /\ UNCHANGED sub
           /\ \E pc : /\ Goto(p, pc)
                      /\ \/ pc \in {"raise", "conflict"}
                         \/ /\ pc = NextItem(p) /\ t.op = "import"
                            /\ Seen(sub[t.u][t.f], p) \/ t.count >= Quota
        \/ /\ user[t.u].cur /\ (t.op = "import" => t.count < Quota) /\ Free(sub[t.u][t.f], p)
           /\ sub' = [sub EXCEPT ![t.u][t.f] = Written(sub[t.u][t.f], p, TRUE)]
           /\ tx' = [tx EXCEPT ![p].pc = "ins_trigger", ![p].count = @ + 1,
                               ![p].share = @ \cup {t.f}]
    BY <1>8 DEF InsertSubscription, tables
  <2>5. SubscribeStep(p) /\ \A u \in Users, f \in FeedIds : SubStep(p, u, f)
    BY <1>3, <2>2, <2>3, <2>4
  <2> QED BY <1>1, <1>2, <2>1, <2>5 DEF Steps, FeedStep, UserStep
<1>9. CASE InsertTrigger(p)
  <2>1. SubscribeStep(p)
    BY <1>1, <1>9 DEF InsertTrigger, SubscribeStep, At, Txs
  <2>2. FeedStep(p)
    <3> DEFINE f == tx[p].f
               v == [Seen(feed[f], p) EXCEPT !.orphan = "no"]
    <3>1. f \in FeedIds /\ f \in tx[p].share
      BY <1>9, PcFacts DEF InsertTrigger, At, Fields, IInv
    <3>2. Live(Seen(feed[f], p)) /\ Seen(feed[f], p) \in FeedVals
      BY <3>1, FeedTypes DEF IInv, SharedFeedsStay
    <3>3. v \in FeedVals /\ Live(v) /\ v.url = Seen(feed[f], p).url
      BY <3>2, FeedValTypes
    <3>4. FeedWrite(p, f, v)
      <4>1. tx[p].pc = "ins_trigger"
        BY <1>9 DEF InsertTrigger, At
      <4> QED BY <1>1, <3>2, <3>3, <4>1 DEF FeedWrite, SubscribeOps
    <3> HIDE DEF v
    <3>5. UNCHANGED feed \/ (Free(feed[f], p) /\ WriteFeed(f, p, v))
      BY <1>9 DEF InsertTrigger, v
    <3> QED BY <3>1, <3>3, <3>4, <3>5 DEF FeedStep
  <2> QED BY <1>1, <1>2, <1>3, <1>9, <2>1, <2>2 DEF InsertTrigger, Steps, UserStep
<1> QED BY <1>4, <1>5, <1>6, <1>7, <1>8, <1>9

\* The statements of an unsubscribe, two of which an account deletion shares.
LEMMA UnsubscribeSteps ==
  ASSUME IInv, OneFeed, NEW p \in Procs,
         DeleteSubscription(p) \/ DeleteTrigger(p) \/ Stamp(p) \/ CountRemaining(p)
           \/ DeleteStates(p) \/ DeleteFeed(p)
  PROVE  Steps(p)
<1>1. /\ tx[p] \in Txs /\ tx \in [Procs -> Txs] /\ Fields(tx[p])
      /\ tx[p].op \in {"unsubscribe", "delete_user"} /\ tx[p].u \in Users
      /\ tx[p].pc # "delete_user" /\ tx[p].op \notin SubscribeOps /\ tx[p].op # "persist"
      /\ tx[p].op = "unsubscribe" => tx[p].f \in FeedIds /\ tx[p].feeds \subseteq {tx[p].f}
  BY PcFacts DEF IInv, TypeOK, DeleteSubscription, DeleteTrigger, Stamp, CountRemaining,
     DeleteStates, DeleteFeed, At, OneFeed, SubscribeOps, Fields
<1>2. UNCHANGED sub => \A u \in Users, f \in FeedIds : SubStep(p, u, f)
  BY DEF SubStep
<1>3. UNCHANGED user
  BY DEF DeleteSubscription, DeleteTrigger, Stamp, CountRemaining, DeleteStates, DeleteFeed, tables
<1>4. CASE DeleteSubscription(p)
  <2> DEFINE t == tx[p]
  <2>1. /\ t.op = "unsubscribe" /\ t.f \in FeedIds /\ Free(sub[t.u][t.f], p)
        /\ \/ /\ sub[t.u][t.f].cur
              /\ sub' = [sub EXCEPT ![t.u][t.f] = Written(sub[t.u][t.f], p, FALSE)]
              /\ tx' = [tx EXCEPT ![p].pc = "del_trigger", ![p].feeds = {t.f}]
           \/ UNCHANGED sub /\ tx' = [tx EXCEPT ![p].pc = "count"]
    BY <1>4, PcFacts DEF DeleteSubscription, At, IInv, Goto
  <2>2. FieldStep(p)
    <3>1. tx'[p].f = t.f /\ tx'[p].feeds \subseteq {t.f}
      <4>1. CASE tx' = [tx EXCEPT ![p].pc = "del_trigger", ![p].feeds = {t.f}]
        BY <1>1, <4>1 DEF Txs
      <4>2. CASE tx' = [tx EXCEPT ![p].pc = "count"]
        BY <1>1, <2>1, <4>2 DEF Txs
      <4> QED BY <2>1, <4>1, <4>2
    <3> QED BY <1>1, <3>1 DEF FieldStep
  <2>3. ASSUME NEW u \in Users, NEW f \in FeedIds PROVE SubStep(p, u, f)
    <3>1. CASE UNCHANGED sub
      BY <3>1 DEF SubStep
    <3>2. CASE sub[t.u][t.f].cur /\ sub' = [sub EXCEPT ![t.u][t.f] = Written(sub[t.u][t.f], p, FALSE)]
      BY <1>1, <2>1, <3>2 DEF SubStep, IInv, TypeOK
    <3> QED BY <2>1, <3>1, <3>2
  <2> QED BY <1>1, <1>3, <1>4, <2>2, <2>3 DEF DeleteSubscription, Steps, FeedStep, UserStep
<1>5. CASE DeleteTrigger(p)
  <2>1. FieldStep(p)
    <3>1. PICK f \in tx[p].feeds :
            LET rest == tx[p].feeds \ {f} IN
            \/ tx' = [tx EXCEPT ![p].feeds = rest, ![p].pc = AfterTriggers(p, rest)]
            \/ tx' = [tx EXCEPT ![p].feeds = rest, ![p].pc = "stamp", ![p].f = f]
      BY <1>5 DEF DeleteTrigger
    <3>2. /\ tx'[p].feeds = tx[p].feeds \ {f}
          /\ tx'[p].f = tx[p].f \/ tx'[p].f = f
      BY <1>1, <3>1 DEF Txs
    <3> QED BY <1>1, <3>2 DEF FieldStep
  <2> QED BY <1>1, <1>2, <1>3, <1>5, <2>1 DEF DeleteTrigger, Steps, FeedStep, UserStep, tables
<1>6. CASE Stamp(p)
  <2>1. FieldStep(p)
    BY <1>1, <1>6 DEF Stamp, FieldStep, Goto, Txs
  <2>2. FeedStep(p)
    <3> DEFINE f == tx[p].f
               v == [Seen(feed[f], p) EXCEPT !.orphan = "recent"]
    <3>1. f \in FeedIds /\ tx[p].pc = "stamp"
      BY <1>6, PcFacts DEF Stamp, At, IInv
    <3>2. ASSUME Live(Seen(feed[f], p))
          PROVE  v \in FeedVals /\ FeedWrite(p, f, v)
      <4>1. v \in FeedVals /\ Live(v) /\ v.url = Seen(feed[f], p).url
        BY <3>1, <3>2, FeedTypes, FeedValTypes DEF IInv
      <4> QED BY <1>1, <3>1, <3>2, <4>1 DEF FeedWrite
    <3> HIDE DEF v
    <3>3. UNCHANGED feed \/ (Live(Seen(feed[f], p)) /\ Free(feed[f], p) /\ WriteFeed(f, p, v))
      BY <1>6 DEF Stamp, v
    <3> QED BY <3>1, <3>2, <3>3 DEF FeedStep
  <2> QED BY <1>1, <1>2, <1>3, <1>6, <2>1, <2>2 DEF Stamp, Steps, UserStep
<1>7. CASE CountRemaining(p)
  <2>1. FieldStep(p)
    BY <1>1, <1>7 DEF CountRemaining, FieldStep, Goto, Txs
  <2> QED BY <1>1, <1>2, <1>3, <1>7, <2>1 DEF CountRemaining, Steps, FeedStep, UserStep, tables
<1>8. CASE DeleteStates(p)
  <2>1. FieldStep(p)
    BY <1>1, <1>8 DEF DeleteStates, FieldStep, Goto, Txs
  <2> QED BY <1>1, <1>2, <1>3, <1>8, <2>1 DEF DeleteStates, Steps, FeedStep, UserStep
<1>9. CASE DeleteFeed(p)
  <2>1. FieldStep(p)
    BY <1>1, <1>9 DEF DeleteFeed, FieldStep, Goto, Txs
  <2>2. FeedStep(p)
    <3>1. tx[p].op = "unsubscribe" /\ tx[p].f \in FeedIds
      BY <1>9, PcFacts DEF DeleteFeed, At, IInv
    <3>2. \/ UNCHANGED feed
          \/ /\ Live(Seen(feed[tx[p].f], p)) /\ Free(feed[tx[p].f], p)
             /\ WriteFeed(tx[p].f, p, Gone)
      BY <1>9 DEF DeleteFeed, RemoveFeed, CanCascade, CanDelete
    <3>3. Live(Seen(feed[tx[p].f], p)) => FeedWrite(p, tx[p].f, Gone)
      BY <3>1 DEF FeedWrite
    <3> QED BY <3>1, <3>2, <3>3, FeedValTypes DEF FeedStep
  <2> QED BY <1>1, <1>2, <1>3, <1>9, <2>1, <2>2 DEF DeleteFeed, Steps, UserStep
<1> QED BY <1>4, <1>5, <1>6, <1>7, <1>8, <1>9

\* The statements of an account deletion and of a read/star write.
LEMMA UserSteps ==
  ASSUME IInv, NEW p \in Procs, DeleteUser(p) \/ CascadeUser(p) \/ WriteState(p)
  PROVE  Steps(p)
<1>1. /\ tx[p] \in Txs /\ tx \in [Procs -> Txs]
      /\ tx[p].op \in {"delete_user", "set_state"} /\ tx[p].u \in Users
      /\ tx[p].op \notin SubscribeOps \cup {"persist", "unsubscribe"}
  BY PcFacts DEF IInv, TypeOK, DeleteUser, CascadeUser, WriteState, At, SubscribeOps
<1>2. UNCHANGED sub => \A u \in Users, f \in FeedIds : SubStep(p, u, f)
  BY DEF SubStep
<1>3. CASE DeleteUser(p)
  <2>1. tx[p].op = "delete_user" /\ Free(user[tx[p].u], p)
    BY <1>3, PcFacts DEF DeleteUser, UserLockable, At, IInv
  <2>2. FieldStep(p)
    <3>1. CASE user[tx[p].u].cur
      <4>1. user'[tx[p].u].by = {p}
        BY <1>1, <1>3, <3>1 DEF DeleteUser, Written, IInv, TypeOK
      <4> QED BY <1>1, <4>1 DEF FieldStep
    <3>2. CASE ~user[tx[p].u].cur
      <4>1. tx'[p].pc = "commit"
        BY <1>1, <1>3, <3>2 DEF DeleteUser, Goto, Txs
      <4> QED BY <1>1, <4>1 DEF FieldStep
    <3> QED BY <3>1, <3>2
  <2>3. UserStep(p)
    BY <1>3, <2>1 DEF DeleteUser, UserStep
  <2> QED BY <1>1, <1>2, <1>3, <2>2, <2>3 DEF DeleteUser, Steps, FeedStep
<1>4. CASE CascadeUser(p)
  <2>1. tx[p].op = "delete_user" /\ tx[p].pc = "cascade"
    BY <1>4, PcFacts DEF CascadeUser, At, IInv
  <2>2. FieldStep(p)
    BY <1>1, <2>1 DEF FieldStep
  <2>3. ASSUME NEW u \in Users, NEW f \in FeedIds PROVE SubStep(p, u, f)
    BY <1>1, <1>4, <2>1 DEF CascadeUser, SubStep, IInv, TypeOK
  <2> QED BY <1>1, <1>4, <2>2, <2>3 DEF CascadeUser, Steps, FeedStep, UserStep
<1>5. CASE WriteState(p)
  <2>1. FieldStep(p)
    BY <1>1, <1>5 DEF FieldStep, WriteState, At
  <2> QED BY <1>1, <1>2, <1>5, <2>1 DEF WriteState, Steps, FeedStep, UserStep
<1> QED BY <1>3, <1>4, <1>5

\* The statements of a poll and of a sweep.
LEMMA WorkerSteps ==
  ASSUME IInv, NEW p \in Procs,
         Repoint(p) \/ InsertBatch(p) \/ RecordPoll(p) \/ SweepFeed(p) \/ CheckSweep(p)
  PROVE  Steps(p)
<1>1. /\ tx[p] \in Txs /\ tx \in [Procs -> Txs]
      /\ tx[p].op \in {"persist", "gc"} /\ tx[p].pc # "delete_user"
      /\ tx[p].op \notin SubscribeOps \cup {"unsubscribe"}
  BY PcFacts DEF IInv, TypeOK, Repoint, InsertBatch, RecordPoll, SweepFeed, CheckSweep, At,
     SubscribeOps
<1>2. /\ \A u \in Users, f \in FeedIds : SubStep(p, u, f)
      /\ UNCHANGED user
  BY DEF SubStep, Repoint, InsertBatch, RecordPoll, SweepFeed, CheckSweep, tables
<1>3. FieldStep(p)
  <2>1. tx[p].op = "persist" => ~SweepFeed(p) /\ ~CheckSweep(p)
    BY PcFacts DEF SweepFeed, CheckSweep, At, IInv
  <2>2. tx[p].op = "persist" => tx'[p].f = tx[p].f
    BY <1>1, <2>1 DEF Repoint, InsertBatch, RecordPoll, Goto, Txs
  <2> QED BY <1>1, <2>2 DEF FieldStep
<1>4. FeedStep(p)
  <2>1. CASE Repoint(p)
    <3> DEFINE f == tx[p].f
               old == Seen(feed[f], p)
               v == [old EXCEPT !.url = tx[p].url]
    <3>1. f \in FeedIds /\ tx[p].op = "persist" /\ old \in FeedVals /\ tx[p].url \in Urls \cup {None}
      BY <1>1, <2>1, PcFacts, FeedTypes DEF Repoint, At, IInv, Txs
    <3>2. CASE Live(old) /\ Free(feed[f], p) /\ WriteFeed(f, p, old)
      <4>1. FeedWrite(p, f, old)
        BY <3>1, <3>2 DEF FeedWrite
      <4> QED BY <3>1, <3>2, <4>1 DEF FeedStep
    <3>3. CASE /\ Live(old) /\ Free(feed[f], p) /\ tx[p].url # None
               /\ UrlFree(tx[p].url, p) /\ WriteFeed(f, p, v)
      <4>1. v \in FeedVals
        BY <3>1, <3>3, FeedValTypes
      <4>2. FeedWrite(p, f, v)
        BY <3>1, <3>3 DEF FeedWrite
      <4> QED BY <3>1, <3>3, <4>1, <4>2 DEF FeedStep
    <3>4. CASE UNCHANGED feed
      BY <3>4 DEF FeedStep
    <3> HIDE DEF v
    <3>5. \/ UNCHANGED feed
          \/ Live(old) /\ Free(feed[f], p) /\ WriteFeed(f, p, old)
          \/ /\ Live(old) /\ Free(feed[f], p) /\ tx[p].url # None
             /\ UrlFree(tx[p].url, p) /\ WriteFeed(f, p, v)
      BY <2>1 DEF Repoint, CanDelete, UrlFree, v
    <3> QED BY <3>2, <3>3, <3>4, <3>5
  <2>2. CASE RecordPoll(p)
    <3> DEFINE f == tx[p].f
               old == Seen(feed[f], p)
    <3>1. f \in FeedIds /\ tx[p].op = "persist" /\ old \in FeedVals
      BY <1>1, <2>2, PcFacts, FeedTypes DEF RecordPoll, At, IInv
    <3>2. UNCHANGED feed \/ (Live(old) /\ Free(feed[f], p) /\ WriteFeed(f, p, old))
      BY <2>2 DEF RecordPoll
    <3>3. Live(old) => FeedWrite(p, f, old)
      BY <3>1 DEF FeedWrite
    <3> QED BY <3>1, <3>2, <3>3 DEF FeedStep
  <2>3. CASE SweepFeed(p)
    <3>1. PICK f \in tx[p].feeds :
            /\ CanCascade(f, p)
            /\ \/ Expired(feed[f].cur) /\ RemoveFeed(f, p)
               \/ ~Expired(feed[f].cur) /\ UNCHANGED <<feed, state>>
      BY <2>3 DEF SweepFeed
    <3>2. f \in FeedIds /\ tx[p].op = "gc"
      BY <1>1, <2>3, PcFacts DEF Txs, SweepFeed, At, IInv
    <3>3. CASE Expired(feed[f].cur) /\ RemoveFeed(f, p)
      <4>1. Free(feed[f], p) /\ WriteFeed(f, p, Gone) /\ Live(feed[f].cur)
        BY <3>1, <3>3 DEF CanCascade, CanDelete, RemoveFeed, Expired
      <4>2. FeedWrite(p, f, Gone)
        BY <3>2, <4>1 DEF FeedWrite
      <4> QED BY <3>2, <4>1, <4>2, FeedValTypes DEF FeedStep
    <3> QED BY <3>1, <3>3 DEF FeedStep
  <2>4. CASE InsertBatch(p) \/ CheckSweep(p)
    BY <2>4 DEF InsertBatch, CheckSweep, FeedStep, tables
  <2> QED BY <2>1, <2>2, <2>3, <2>4
<1> QED BY <1>1, <1>2, <1>3, <1>4 DEF Steps, UserStep

\* Every statement is such a step.
LEMMA StatementSteps ==
  ASSUME IInv, OneFeed, NEW p \in Procs, Statement(p)
  PROVE  Steps(p)
BY SubscribeSteps, UnsubscribeSteps, UserSteps, WorkerSteps DEF Statement

-----------------------------------------------------------------------------
(* A statement preserves what a transaction may commit *)

\* Writing a row replaces what is pending on it, in the writer's name.
LEMMA WrittenRow ==
  ASSUME NEW r, NEW p, NEW v
  PROVE  /\ Written(r, p, v).cur = r.cur /\ Written(r, p, v).next = v
         /\ Written(r, p, v).by = {p}
BY DEF Written

\* A feed's new contents keep clear of every other feed's URL.
LEMMA StatementUrls ==
  ASSUME IInv, UniqueUrls, FeedWriters, NEW p \in Procs, FeedStep(p)
  PROVE  UniqueUrls'
<1>1. CASE UNCHANGED feed
  BY <1>1 DEF UniqueUrls
<1>2. ASSUME NEW f \in FeedIds, NEW v \in FeedVals,
             Free(feed[f], p), WriteFeed(f, p, v), FeedWrite(p, f, v)
      PROVE  UniqueUrls'
  <2>1. /\ feed'[f].cur = feed[f].cur /\ feed'[f].next = v
        /\ \A g \in FeedIds : g # f => feed'[g] = feed[g]
    BY <1>2, WrittenRow DEF WriteFeed, IInv, TypeOK
  <2>2. ASSUME NEW g \in FeedIds, g # f, Live(v), NEW w \in {feed[g].cur, feed[g].next}, Live(w)
        PROVE  v.url # w.url
    <3>1. CASE Live(Seen(feed[f], p)) /\ v.url = Seen(feed[f], p).url
      BY <2>2, <3>1 DEF UniqueUrls, Seen
    <3>2. ASSUME NEW url \in Urls, UrlFree(url, p), v.url = url,
                 \/ tx[p].op \in SubscribeOps
                 \/ tx[p].op = "persist" /\ f = tx[p].f,
                 w.url = url
          PROVE  FALSE
      <4>1. LiveAt(w, url)
        BY <2>2, <3>2 DEF LiveAt
      <4>2. Free(feed[g], p)
        BY <3>2, <4>1 DEF UrlFree, UrlBusy
      <4>3. ~LiveAt(Seen(feed[g], p), url)
        BY <3>2 DEF UrlFree, FeedsAt
      <4>4. CASE p \notin feed[g].by
        <5>1. feed[g].next = feed[g].cur
          BY <4>2, <4>4, FeedTypes, RowFacts DEF Free, IInv
        <5> QED BY <4>1, <4>3, <4>4, <5>1 DEF Seen
      <4>5. CASE p \in feed[g].by
        <5>1. feed[g].cur = Unused \/ SameFeed(feed[g])
          BY <2>2, <3>2, <4>5 DEF FeedWriters, SubscribeOps
        <5>2. ~LiveAt(feed[g].next, url) /\ w = feed[g].cur
          BY <4>1, <4>3, <4>5 DEF Seen
        <5> QED BY <4>1, <5>1, <5>2 DEF SameFeed, LiveAt, Unused, Live
      <4> QED BY <4>4, <4>5
    <3>3. \/ Live(Seen(feed[f], p)) /\ v.url = Seen(feed[f], p).url
          \/ \E url \in Urls : /\ UrlFree(url, p) /\ v.url = url
                               /\ \/ tx[p].op \in SubscribeOps
                                  \/ tx[p].op = "persist" /\ f = tx[p].f
      <4>1. ASSUME NEW url \in Urls, v = [Seen(feed[f], p) EXCEPT !.url = url],
                   Live(Seen(feed[f], p))
            PROVE  v.url = url
        BY <4>1, FeedTypes DEF IInv, FeedVals, Live, Unused, Gone
      <4>2. \A url \in Urls : NewFeed(url).url = url
        BY DEF NewFeed
      <4>3. v # Gone
        BY <2>2 DEF Gone, Live
      <4> QED BY <1>2, <4>1, <4>2, <4>3 DEF FeedWrite
    <3> QED BY <3>1, <3>2, <3>3
  <2> QED BY <2>1, <2>2 DEF UniqueUrls
<1> QED BY <1>1, <1>2 DEF FeedStep

\* No statement takes a user row from its holder.
LEMMA HoldersStay ==
  ASSUME IInv, NEW p \in Procs, UserStep(p), NEW u \in Users, NEW q \in user[u].by
  PROVE  q \in user'[u].by
<1>1. CASE UNCHANGED user
  BY <1>1
<1>2. CASE \E v : Free(user[tx[p].u], p)
                  /\ user' = [user EXCEPT ![tx[p].u] = Written(user[tx[p].u], p, v)]
  BY <1>2 DEF IInv, TypeOK, Free, Written
<1> QED BY <1>1, <1>2 DEF UserStep

\* Each operation writes feeds as it may.
LEMMA StatementFeedWriters ==
  ASSUME IInv, Writers, NEW p \in Procs, Effects(p), Steps(p)
  PROVE  FeedWriters'
<1> DEFINE May(q, f, t, r, users) ==
      /\ t.op \in SubscribeOps \cup {"unsubscribe", "delete_user", "persist", "gc"}
      /\ t.op \in SubscribeOps => Live(r.next) /\ (r.cur = Unused \/ SameFeed(r))
      /\ t.op = "unsubscribe" => f = t.f /\ Live(r.cur) /\ (SameFeed(r) \/ ~Live(r.next))
      /\ t.op = "delete_user" => SameFeed(r) /\ q \in users[t.u].by
      /\ t.op = "persist" => f = t.f /\ Live(r.cur) /\ Live(r.next)
      /\ t.op = "gc" => Live(r.cur) /\ ~Live(r.next)
<1> SUFFICES ASSUME NEW q \in Procs, NEW f \in FeedIds, q \in feed'[f].by
             PROVE  May(q, f, tx'[q], feed'[f], user')
  BY DEF FeedWriters
<1>1. q \in feed[f].by => May(q, f, tx[q], feed[f], user)
  BY DEF Writers, FeedWriters
<1>2. /\ tx[q].op = "delete_user" => tx[q].u \in Users
      /\ tx'[q].op = tx[q].op /\ tx'[q].u = tx[q].u
      /\ tx[q].op \in {"unsubscribe", "persist"} => tx'[q].f = tx[q].f
  BY DEF IInv, FieldsSet, Fields, RequestOps, Effects, TxEffect, Steps, FieldStep
<1>3. ASSUME tx[q].op = "delete_user", q \in user[tx[q].u].by
      PROVE  q \in user'[tx'[q].u].by
  BY <1>2, <1>3, HoldersStay DEF Steps
<1>4. CASE feed'[f] = feed[f]
  <2>1. May(q, f, tx[q], feed[f], user)
    BY <1>1, <1>4
  <2> QED BY <1>2, <1>3, <1>4, <2>1
<1>5. ASSUME NEW v \in FeedVals, Free(feed[f], p), feed'[f] = Written(feed[f], p, v),
             FeedWrite(p, f, v)
      PROVE  May(q, f, tx'[q], feed'[f], user')
  <2>1. q = p /\ feed'[f].cur = feed[f].cur /\ feed'[f].next = v
    BY <1>5, WrittenRow
  <2>2. p \in feed[f].by => May(p, f, tx[p], feed[f], user)
    BY <1>1, <2>1
  <2>3. p \notin feed[f].by => Seen(feed[f], p) = feed[f].cur
    BY DEF Seen
  <2>4. p \in feed[f].by => Seen(feed[f], p) = feed[f].next
    BY DEF Seen
  <2>5. CASE /\ tx[p].op \in SubscribeOps /\ feed[f] = Row(Unused)
             /\ \E url \in Urls : v = NewFeed(url)
    BY <1>2, <2>1, <2>5 DEF SubscribeOps, Row, NewFeed, Live
  <2>6. CASE /\ tx[p].op = "persist" /\ f = tx[p].f /\ Live(Seen(feed[f], p)) /\ Live(v)
    BY <1>2, <2>1, <2>2, <2>3, <2>6 DEF SubscribeOps
  <2>7. CASE /\ tx[p].op \in SubscribeOps \cup {"unsubscribe", "delete_user", "persist"}
             /\ tx[p].op \in {"unsubscribe", "persist"} => f = tx[p].f
             /\ tx[p].op = "delete_user" => tx[p].pc = "stamp"
             /\ Live(Seen(feed[f], p)) /\ Live(v) /\ v.url = Seen(feed[f], p).url
    <3>1. feed[f].cur = Unused \/ SameFeed(feed'[f]) \/ tx[p].op = "persist"
      BY <2>1, <2>2, <2>3, <2>4, <2>7 DEF SameFeed
    <3>2. tx[p].op \notin SubscribeOps => Live(feed[f].cur)
      BY <2>2, <2>3, <2>7 DEF SameFeed
    <3>3. ~Live(Unused)
      BY DEF Live, Unused
    <3>4. tx[p].op = "delete_user" => p \in user[tx[p].u].by
      BY <2>7 DEF Writers, UserWriters
    <3> QED BY <1>2, <1>3, <2>1, <2>7, <3>1, <3>2, <3>3, <3>4 DEF SubscribeOps
  <2>8. CASE \/ tx[p].op = "unsubscribe" /\ f = tx[p].f /\ Live(Seen(feed[f], p)) /\ v = Gone
             \/ tx[p].op = "gc" /\ Live(feed[f].cur) /\ v = Gone
    <3>1. Live(feed[f].cur) /\ ~Live(v)
      BY <2>2, <2>3, <2>8 DEF Gone, Live, SameFeed
    <3> QED BY <1>2, <2>1, <2>8, <3>1 DEF SubscribeOps
  <2>9. \A url \in Urls : Live(Seen(feed[f], p)) => Live([Seen(feed[f], p) EXCEPT !.url = url])
    BY FeedTypes, FeedValTypes DEF IInv
  <2> QED BY <1>5, <2>5, <2>6, <2>7, <2>8, <2>9 DEF FeedWrite
<1>6. \/ feed'[f] = feed[f]
      \/ \E v \in FeedVals : /\ Free(feed[f], p) /\ feed'[f] = Written(feed[f], p, v)
                             /\ FeedWrite(p, f, v)
  BY DEF Steps, FeedStep, WriteFeed, IInv, TypeOK
<1> HIDE DEF May
<1> QED BY <1>4, <1>5, <1>6

\* So are subscriptions ...
LEMMA StatementSubWriters ==
  ASSUME IInv, Writers, NEW p \in Procs, Effects(p), Steps(p)
  PROVE  SubWriters'
<1> DEFINE May(q, u, f, t, r, users) ==
      /\ u = t.u /\ t.op \in SubscribeOps \cup {"unsubscribe", "delete_user"}
      /\ t.op \in SubscribeOps => r.next /\ t.pc # "lock_row" /\ q \in users[u].by
      /\ t.op = "unsubscribe" => r.cur /\ ~r.next /\ f = t.f
      /\ t.op = "delete_user" => r.cur /\ ~r.next /\ q \in users[u].by
<1> SUFFICES ASSUME NEW q \in Procs, NEW u \in Users, NEW f \in FeedIds, q \in sub'[u][f].by
             PROVE  May(q, u, f, tx'[q], sub'[u][f], user')
  BY DEF SubWriters
<1>1. q \in sub[u][f].by => May(q, u, f, tx[q], sub[u][f], user)
  BY DEF Writers, SubWriters
<1>2. /\ tx'[q].op = tx[q].op /\ tx'[q].u = tx[q].u
      /\ tx[q].pc # "lock_row" => tx'[q].pc # "lock_row"
      /\ tx[q].op \in {"unsubscribe", "persist"} => tx'[q].f = tx[q].f
  BY DEF Effects, TxEffect, Steps, FieldStep
<1>3. q \in user[u].by => q \in user'[u].by
  BY HoldersStay DEF Steps
<1>4. CASE sub'[u][f] = sub[u][f]
  <2>1. May(q, u, f, tx[q], sub[u][f], user)
    BY <1>1, <1>4
  <2> QED BY <1>2, <1>3, <1>4, <2>1
<1>5. CASE /\ u = tx[p].u /\ tx[p].op \in SubscribeOps /\ tx[p].pc = "insert_sub"
           /\ user[u].cur /\ sub'[u][f] = Written(sub[u][f], p, TRUE)
  <2>1. q = p /\ sub'[u][f].next
    <3>1. sub'[u][f].by = {p}
      BY <1>5 DEF Written
    <3>2. sub'[u][f].next = TRUE
      BY <1>5 DEF Written
    <3> QED BY <3>1, <3>2
  <2>2. p \in user[u].by
    BY <1>5 DEF IInv, UserHolders
  <2> QED BY <1>2, <1>3, <1>5, <2>1, <2>2 DEF SubscribeOps
<1>6. CASE /\ u = tx[p].u
           /\ \/ tx[p].op = "unsubscribe" /\ f = tx[p].f
              \/ tx[p].op = "delete_user" /\ tx[p].pc = "cascade"
           /\ sub[u][f].cur /\ sub'[u][f] = Written(sub[u][f], p, FALSE)
  <2>1. q = p /\ sub'[u][f].cur = sub[u][f].cur /\ sub'[u][f].next = FALSE
    <3>1. sub'[u][f].by = {p}
      BY <1>6 DEF Written
    <3>2. sub'[u][f].cur = sub[u][f].cur
      BY EffectsKeep
    <3>3. sub'[u][f].next = FALSE
      BY <1>6 DEF Written
    <3> QED BY <3>1, <3>2, <3>3
  <2>2. tx[p].op = "delete_user" => p \in user[u].by
    BY <1>6 DEF Writers, UserWriters
  <2> QED BY <1>2, <1>3, <1>6, <2>1, <2>2 DEF SubscribeOps
<1>7. SubStep(p, u, f)
  BY DEF Steps
<1> HIDE DEF May
<1> QED BY <1>4, <1>5, <1>6, <1>7 DEF SubStep

\* ... and users.
LEMMA StatementUserWriters ==
  ASSUME IInv, Writers, NEW p \in Procs, Effects(p), Steps(p)
  PROVE  UserWriters'
<1>1. ASSUME NEW q \in Procs, NEW u \in Users, q \in user'[u].by
      PROVE  u = tx'[q].u /\ (tx'[q].op = "delete_user" => ~user'[u].next)
  <2>1. tx'[q].op = tx[q].op /\ tx'[q].u = tx[q].u
    BY DEF Effects, TxEffect
  <2>2. CASE user'[u] = user[u]
    BY <1>1, <2>1, <2>2 DEF Writers, UserWriters
  <2>3. CASE /\ u = tx[p].u /\ tx[p].op \in SubscribeOps
             /\ user'[u] = Written(user[u], p, TRUE)
    <3>1. user'[u].by = {p}
      BY <2>3 DEF Written
    <3> QED BY <1>1, <2>1, <2>3, <3>1 DEF SubscribeOps
  <2>4. CASE u = tx[p].u /\ user'[u] = Written(user[u], p, FALSE)
    <3>1. user'[u].by = {p}
      BY <2>4 DEF Written
    <3>2. user'[u].next = FALSE
      BY <2>4 DEF Written
    <3> QED BY <1>1, <2>1, <2>4, <3>1, <3>2
  <2> QED BY <2>2, <2>3, <2>4 DEF Steps, UserStep, IInv, TypeOK
<1>2. ASSUME NEW q \in Procs, tx'[q].op = "delete_user",
             tx'[q].pc \in {"cascade", "del_trigger", "stamp"}
      PROVE  q \in user'[tx'[q].u].by
  <2>1. /\ tx'[q].op = tx[q].op /\ tx'[q].u = tx[q].u /\ tx[q].u \in Users
        /\ q # p => tx'[q] = tx[q]
    BY <1>2 DEF Effects, TxEffect, IInv, FieldsSet, Fields, RequestOps
  <2>2. CASE q \in user[tx[q].u].by
    BY <2>1, <2>2, HoldersStay DEF Steps
  <2>3. CASE q = p /\ tx[p].pc = "delete_user"
    BY <1>2, <2>1, <2>3 DEF Steps, FieldStep
  <2>4. q # p \/ tx[p].pc # "delete_user" => q \in user[tx[q].u].by
    <3>1. ASSUME q = p, tx[p].pc # "delete_user"
          PROVE  tx[p].pc \in {"cascade", "del_trigger", "stamp"}
      <4>1. Fields(tx[p]) /\ tx[p].pc # "commit" /\ tx[p].op = "delete_user"
        BY <2>1, <1>2, <3>1 DEF IInv, FieldsSet, Effects, TxEffect
      <4> QED BY <3>1, <4>1 DEF Fields, OpPCs, SubscribeOps
    <3> QED BY <1>2, <2>1, <3>1 DEF Writers, UserWriters
  <2> QED BY <2>2, <2>3, <2>4
<1> QED BY <1>1, <1>2 DEF UserWriters

\* An unsubscribe stays with its feed.
LEMMA StatementOneFeed ==
  ASSUME IInv, OneFeed, NEW p \in Procs, Effects(p), Steps(p)
  PROVE  OneFeed'
BY DEF OneFeed, Effects, TxEffect, Steps, FieldStep

\* A subscribe comes to its insert with its one URL, under the quota.
LEMMA StatementOneUrl ==
  ASSUME IInv, OneUrl, NEW p \in Procs, Effects(p), Steps(p)
  PROVE  OneUrl'
<1> SUFFICES ASSUME NEW q \in Procs, tx'[q].op = "subscribe"
             PROVE  /\ tx'[q].pc \in {"lock_row", "select"} => \E url \in Urls : tx'[q].urls = {url}
                    /\ tx'[q].pc \notin {"lock_row", "select", "raise"} => tx'[q].urls = {}
                    /\ tx'[q].pc \in {"select", "upsert", "reselect", "insert_sub"} =>
                         tx'[q].count < Quota
  BY DEF OneUrl
<1>1. CASE q # p
  <2>1. tx'[q] = tx[q]
    BY <1>1 DEF Effects, TxEffect
  <2> QED BY <2>1 DEF OneUrl
<1>2. CASE q = p
  <2> DEFINE old == tx[p]
             new == tx'[p]
  <2>1. /\ old.op = "subscribe" /\ SubscribeStep(p)
        /\ Fields(new) /\ new.pc # "lock_row" /\ old.pc \notin {"raise", "commit", "idle"}
    BY <1>2 DEF Effects, TxEffect, Steps, SubscribeOps
  <2>2. /\ old.pc \in {"lock_row", "select"} => \E url \in Urls : old.urls = {url}
        /\ old.pc \notin {"lock_row", "select", "raise"} => old.urls = {}
        /\ old.pc \in {"select", "upsert", "reselect", "insert_sub"} => old.count < Quota
    BY <2>1 DEF OneUrl
  <2>3. old.pc \in {"insert_sub", "ins_trigger"} => NextItem(p) = "commit"
    BY <2>2 DEF NextItem
  <2>4. new.count \in Nat /\ Quota \in Nat
    BY ConstantsAssumption DEF Effects, TxEffect, Txs
  <2>5. CASE old.pc = "lock_row"
    BY <1>2, <2>1, <2>2, <2>4, <2>5 DEF SubscribeStep
  <2>6. CASE old.pc = "select"
    BY <1>2, <2>1, <2>2, <2>6 DEF SubscribeStep
  <2>7. CASE old.pc \notin {"lock_row", "select"}
    BY <1>2, <2>1, <2>2, <2>3, <2>7 DEF SubscribeStep
  <2> QED BY <2>5, <2>6, <2>7
<1> QED BY <1>1, <1>2

\* The subscriptions of a user are finitely many.
LEMMA FewSubscriptions ==
  ASSUME NEW S, S \subseteq FeedIds
  PROVE  IsFiniteSet(S) /\ Cardinality(S) \in Nat
<1>1. IsFiniteSet(FeedIds)
  BY FS_Interval, ConstantsAssumption DEF FeedIds
<1> QED BY <1>1, FS_Subset, FS_CardinalityType

\* Fewer subscriptions are within the quota too.
LEMMA FewerSubscriptions ==
  ASSUME NEW S, NEW T, T \subseteq FeedIds, S \subseteq T
  PROVE  Cardinality(S) <= Cardinality(T)
BY FewSubscriptions, FS_Subset

\* A statement changes what its own transaction sees of its user's subscriptions, nobody else's.
LEMMA SeenSubscriptions ==
  ASSUME IInv, NEW p \in Procs, Effects(p), Steps(p), NEW q \in Procs, NEW u \in Users,
         q # p \/ UNCHANGED sub
  PROVE  SubscriptionsOf(u, q)' = SubscriptionsOf(u, q)
<1> SUFFICES ASSUME NEW f \in FeedIds
             PROVE  Seen(sub'[u][f], q) <=> Seen(sub[u][f], q)
  BY DEF SubscriptionsOf
<1>1. CASE sub'[u][f] = sub[u][f]
  BY <1>1
<1>2. CASE sub'[u][f] # sub[u][f]
  <2>1. /\ q # p /\ Free(sub[u][f], p)
        /\ \/ sub'[u][f] = Written(sub[u][f], p, TRUE)
           \/ sub'[u][f] = Written(sub[u][f], p, FALSE)
    BY <1>2 DEF Steps, SubStep
  <2>2. sub'[u][f].cur = sub[u][f].cur
    BY EffectsKeep
  <2>3. sub'[u][f].by = {p}
    BY <2>1 DEF Written
  <2> QED BY <2>1, <2>2, <2>3 DEF Seen, Free
<1> QED BY <1>1, <1>2

\* The count a transaction took keeps up with what it inserts.
LEMMA StatementCounted ==
  ASSUME IInv, CInv, NEW p \in Procs, Effects(p), Steps(p)
  PROVE  Counted'
<1> DEFINE Right(t, has, there) == IF there THEN has <= t.count /\ has <= Quota
                                   ELSE t.count = 0 /\ t.pc \notin {"ins_trigger", "commit"}
<1> SUFFICES ASSUME NEW q \in Procs, tx'[q].op \in SubscribeOps, tx'[q].pc # "lock_row"
             PROVE  Right(tx'[q], Cardinality(SubscriptionsOf(tx[q].u, q)'), user'[tx'[q].u].cur)
  <2>1. ASSUME NEW q \in Procs
        PROVE  SubscriptionsOf(tx[q].u, q)' = {f \in FeedIds : Seen(sub'[tx'[q].u][f], q)}
    BY DEF SubscriptionsOf
  <2> QED BY <2>1 DEF Counted, SubscriptionsOf
<1> DEFINE u == tx[q].u
<1>1. /\ tx[q].op \in SubscribeOps /\ u \in Users /\ tx'[q].u = u
      /\ q # p => tx'[q] = tx[q]
  <2>1. tx[q].op \in SubscribeOps /\ tx'[q].u = u /\ (q # p => tx'[q] = tx[q])
    BY DEF Effects, TxEffect
  <2> QED BY <2>1 DEF IInv, FieldsSet, Fields, SubscribeOps, RequestOps
<1>2. tx[q].pc # "lock_row" =>
        Right(tx[q], Cardinality(SubscriptionsOf(u, q)), user[u].cur)
  BY <1>1 DEF CInv, Counted
<1>3. user'[u].cur = user[u].cur
  <2>1. UserEffect(p, u)
    BY <1>1 DEF Effects
  <2> QED BY <2>1 DEF UserEffect, Written
<1>4. CASE q # p
  BY <1>1, <1>2, <1>3, <1>4, SeenSubscriptions
<1>5. CASE q = p
  <2>1. SubscribeStep(p) /\ tx[p] \in Txs /\ Quota \in Nat \ {0}
    BY <1>1, <1>5, ConstantsAssumption DEF Steps, IInv, TypeOK
  <2>2. /\ Cardinality(SubscriptionsOf(u, p)) \in Nat
        /\ UNCHANGED sub => SubscriptionsOf(u, p)' = SubscriptionsOf(u, p)
    BY <1>1, CountTypes, SeenSubscriptions DEF IInv
  <2>3. CASE tx[p].pc = "lock_row"
    <3>1. SubscriptionsOf(u, p) = {f \in FeedIds : sub[u][f].cur}
      BY <1>1, <1>5, <2>3 DEF SubscriptionsOf, Seen, CInv, Writers, SubWriters
    <3>2. Cardinality(SubscriptionsOf(u, p)) <= Quota
      BY <1>1, <3>1 DEF CInv, QuotaRespected
    <3>3. ~user[u].cur => SubscriptionsOf(u, p) = {}
      BY <1>1, <3>1 DEF IInv, References
    <3>4. ~user[u].cur => Cardinality(SubscriptionsOf(u, p)) = 0
      BY <3>3, FS_EmptySet
    <3> QED BY <1>1, <1>3, <1>5, <2>1, <2>2, <2>3, <3>2, <3>4 DEF SubscribeStep
  <2>4. CASE /\ tx[p].pc # "lock_row" /\ UNCHANGED sub /\ tx'[p].count = tx[p].count
    <3>1. ASSUME ~user[u].cur PROVE tx'[p].pc \notin {"ins_trigger", "commit"}
      <4>1. tx[p].count = 0 /\ tx[p].pc \notin {"ins_trigger", "commit"}
        BY <1>2, <1>5, <2>4, <3>1
      <4>2. ~Seen(sub[tx[p].u][tx[p].f], p) \/ tx[p].pc # "insert_sub"
        <5>1. ASSUME tx[p].pc = "insert_sub" PROVE tx[p].f \in FeedIds
          BY <5>1, PcFacts DEF IInv
        <5>2. ASSUME NEW f \in FeedIds PROVE ~Seen(sub[u][f], p)
          <6>1. ~sub[u][f].cur
            BY <1>1, <3>1 DEF IInv, References
          <6>2. p \notin sub[u][f].by
            BY <1>1, <1>5, <3>1 DEF IInv, UserHolders, CInv, Writers, SubWriters
          <6> QED BY <6>1, <6>2 DEF Seen
        <5> QED BY <1>5, <5>1, <5>2
      <4> QED BY <1>5, <2>1, <2>4, <3>1, <4>1, <4>2 DEF SubscribeStep
    <3> QED BY <1>1, <1>2, <1>3, <1>5, <2>2, <2>4, <3>1
  <2>5. CASE /\ tx[p].pc = "insert_sub" /\ user[u].cur
             /\ tx[p].op = "import" => tx[p].count < Quota
             /\ sub' = [sub EXCEPT ![u][tx[p].f] = Written(sub[u][tx[p].f], p, TRUE)]
             /\ tx'[p].count = tx[p].count + 1
    <3>1. tx[p].count < Quota
      BY <1>1, <1>5, <2>5 DEF CInv, OneUrl, SubscribeOps
    <3>2. tx[p].f \in FeedIds
      BY <2>5, PcFacts DEF IInv
    <3>3. SubscriptionsOf(u, p)' \subseteq SubscriptionsOf(u, p) \cup {tx[p].f}
      <4>1. \A f \in FeedIds \ {tx[p].f} : sub'[u][f] = sub[u][f]
        BY <1>1, <2>5, <3>2 DEF IInv, TypeOK
      <4> QED BY <1>1, <4>1 DEF SubscriptionsOf
    <3>4. Cardinality(SubscriptionsOf(u, p) \cup {tx[p].f}) <= Cardinality(SubscriptionsOf(u, p)) + 1
      <4>1. IsFiniteSet(SubscriptionsOf(u, p))
        BY FewSubscriptions DEF SubscriptionsOf
      <4> DEFINE S == SubscriptionsOf(u, p)
      <4>2. Cardinality(S) \in Nat
        BY <2>2
      <4> HIDE DEF S
      <4>3. \/ Cardinality(S \cup {tx[p].f}) = Cardinality(S)
            \/ Cardinality(S \cup {tx[p].f}) = Cardinality(S) + 1
        BY <4>1, FS_AddElement DEF S
      <4> QED BY <4>2, <4>3 DEF S
    <3>5. /\ Cardinality(SubscriptionsOf(u, p)') <= Cardinality(SubscriptionsOf(u, p) \cup {tx[p].f})
          /\ Cardinality(SubscriptionsOf(u, p)') \in Nat
          /\ Cardinality(SubscriptionsOf(u, p) \cup {tx[p].f}) \in Nat
      <4>1. SubscriptionsOf(u, p) \cup {tx[p].f} \subseteq FeedIds
        BY <3>2 DEF SubscriptionsOf
      <4> QED BY <3>3, <4>1, FewSubscriptions, FewerSubscriptions
    <3>6. Cardinality(SubscriptionsOf(u, p)) <= tx[p].count
      BY <1>2, <1>5, <2>5
    <3>7. tx[p].count \in Nat
      BY <2>1 DEF Txs
    <3>8. /\ Cardinality(SubscriptionsOf(u, p)') <= tx[p].count + 1
          /\ Cardinality(SubscriptionsOf(u, p)') <= Quota
      BY <2>1, <2>2, <3>1, <3>4, <3>5, <3>6, <3>7
    <3> QED BY <1>1, <1>3, <1>5, <2>5, <3>8
  <2>6. \/ tx[p].pc = "lock_row"
        \/ tx[p].pc # "lock_row" /\ UNCHANGED sub /\ tx'[p].count = tx[p].count
        \/ /\ tx[p].pc = "insert_sub" /\ user[u].cur
           /\ tx[p].op = "import" => tx[p].count < Quota
           /\ sub' = [sub EXCEPT ![u][tx[p].f] = Written(sub[u][tx[p].f], p, TRUE)]
           /\ tx'[p].count = tx[p].count + 1
    BY <1>5, <2>1 DEF SubscribeStep
  <2> QED BY <2>3, <2>4, <2>5, <2>6
<1> QED BY <1>4, <1>5

\* Every statement preserves the invariant.
LEMMA StatementCInv ==
  ASSUME IInv, CInv, NEW p \in Procs, Statement(p)
  PROVE  CInv'
<1>1. Effects(p) /\ Steps(p)
  BY StatementEffects, StatementSteps DEF IInv, CInv
<1>2. QuotaRespected'
  <2>1. \A u \in Users, f \in FeedIds : sub'[u][f].cur = sub[u][f].cur
    BY <1>1, EffectsKeep
  <2>2. \A u \in Users : {f \in FeedIds : sub'[u][f].cur} = {f \in FeedIds : sub[u][f].cur}
    BY <2>1
  <2> QED BY <2>2 DEF CInv, QuotaRespected
<1>3. UniqueUrls'
  BY <1>1, StatementUrls DEF Steps, CInv, Writers
<1>4. Writers'
  BY <1>1, StatementFeedWriters, StatementSubWriters, StatementUserWriters DEF CInv, Writers
<1> QED BY <1>1, <1>2, <1>3, <1>4, StatementOneFeed, StatementCounted, StatementOneUrl DEF CInv

-----------------------------------------------------------------------------
(* So do beginning and ending a transaction, and time *)

\* What a transaction begins with, besides what BeginTx says.
LEMMA BeginFields ==
  ASSUME IInv, NEW p \in Procs, Begins(p)
  PROVE  LET t == tx'[p] IN
         /\ t.op = "subscribe" => t.pc = "lock_row" /\ \E url \in Urls : t.urls = {url}
         /\ t.op = "unsubscribe" => t.feeds = {}
         /\ t.op = "delete_user" => t.pc = "delete_user"
<1> DEFINE Started(t) ==
      /\ t.op = "subscribe" => t.pc = "lock_row" /\ \E url \in Urls : t.urls = {url}
      /\ t.op = "unsubscribe" => t.feeds = {}
      /\ t.op = "delete_user" => t.pc = "delete_user"
<1>1. ASSUME NEW t, Started(t), Begin(p, t)
      PROVE  Started(tx'[p])
  <2>1. tx'[p] = t
    BY <1>1 DEF Begin, IInv, TypeOK
  <2> QED BY <1>1, <2>1
<1>2. /\ \A u \in Users, url \in Urls :
           Started([Idle EXCEPT !.op = "subscribe", !.pc = "lock_row", !.u = u, !.urls = {url}])
      /\ \A u \in Users, urls \in SUBSET Urls :
           Started([Idle EXCEPT !.op = "import", !.pc = "lock_row", !.u = u, !.urls = urls])
      /\ \A u \in Users, f \in FeedIds :
           Started([Idle EXCEPT !.op = "unsubscribe", !.pc = "delete_sub", !.u = u, !.f = f])
      /\ \A u \in Users : Started([Idle EXCEPT !.op = "delete_user", !.pc = "delete_user", !.u = u])
      /\ \A u \in Users, f \in FeedIds :
           Started([Idle EXCEPT !.op = "set_state", !.pc = "write_state", !.u = u, !.f = f])
      /\ \A f \in FeedIds, url \in Urls \cup {None} :
           Started([Idle EXCEPT !.op = "persist", !.pc = "repoint", !.f = f, !.url = url])
      /\ \A feeds : Started([Idle EXCEPT !.op = "gc", !.pc = "gc_delete", !.feeds = feeds])
  BY DEF Idle
<1> HIDE DEF Started
<1>3. \E t : Started(t) /\ Begin(p, t)
  BY <1>2 DEF Begins, BeginSubscribe, BeginImport, BeginUnsubscribe, BeginDeleteUser, BeginSetState,
     BeginPersist, BeginSweep
<1> QED BY <1>1, <1>3 DEF Started

\* Beginning a transaction preserves the invariant.
LEMMA BeginCInv ==
  ASSUME IInv, CInv, NEW p \in Procs, Begins(p)
  PROVE  CInv'
<1>1. /\ feed' = feed /\ sub' = sub /\ user' = user
      /\ \A q \in Procs \ {p} : tx'[q] = tx[q]
      /\ tx[p].op = "none"
      /\ tx'[p].op \in SubscribeOps => tx'[p].pc = "lock_row"
      /\ tx'[p].op = "subscribe" => \E url \in Urls : tx'[p].urls = {url}
      /\ tx'[p].op = "unsubscribe" => tx'[p].feeds = {}
      /\ tx'[p].op = "delete_user" => tx'[p].pc = "delete_user"
  BY BeginTx, BeginFields DEF tables
<1>2. /\ \A f \in FeedIds : p \notin feed[f].by
      /\ \A f \in FeedIds, u \in Users : p \notin sub[u][f].by
      /\ \A u \in Users : p \notin user[u].by
  BY <1>1 DEF IInv, IdleHoldsNothing, UserHolders, SubscribeOps
<1>3. UniqueUrls' /\ QuotaRespected'
  BY <1>1 DEF CInv, UniqueUrls, QuotaRespected
<1>4. FeedWriters'
  <2> SUFFICES ASSUME NEW q \in Procs, NEW f \in FeedIds, q \in feed'[f].by
               PROVE  q # p
    BY <1>1 DEF FeedWriters, CInv, Writers
  <2> QED BY <1>1, <1>2
<1>5. SubWriters'
  <2> SUFFICES ASSUME NEW q \in Procs, NEW u \in Users, NEW f \in FeedIds, q \in sub'[u][f].by
               PROVE  q # p
    BY <1>1 DEF SubWriters, CInv, Writers
  <2> QED BY <1>1, <1>2
<1>6. UserWriters'
  <2>1. ASSUME NEW q \in Procs, NEW u \in Users, q \in user'[u].by
        PROVE  u = tx'[q].u /\ (tx'[q].op = "delete_user" => ~user'[u].next)
    <3>1. q # p
      BY <1>1, <1>2, <2>1
    <3> QED BY <1>1, <2>1, <3>1 DEF CInv, Writers, UserWriters
  <2>2. ASSUME NEW q \in Procs, tx'[q].op = "delete_user",
               tx'[q].pc \in {"cascade", "del_trigger", "stamp"}
        PROVE  q \in user'[tx'[q].u].by
    <3>1. q # p
      BY <1>1, <2>2
    <3> QED BY <1>1, <2>2, <3>1 DEF CInv, Writers, UserWriters
  <2> QED BY <2>1, <2>2 DEF UserWriters
<1>7. OneFeed' /\ OneUrl'
  BY <1>1 DEF CInv, OneFeed, OneUrl, SubscribeOps
<1>8. Counted'
  <2> SUFFICES ASSUME NEW q \in Procs, tx'[q].op \in SubscribeOps, tx'[q].pc # "lock_row"
               PROVE  tx'[q] = tx[q]
    BY <1>1 DEF CInv, Counted, SubscriptionsOf
  <2> QED BY <1>1
<1> QED BY <1>3, <1>4, <1>5, <1>6, <1>7, <1>8 DEF CInv, Writers

\* What a commit leaves in a row is what the transaction saw there.
LEMMA CommittedRow ==
  ASSUME NEW r, NEW p
  PROVE  Committed(r, p).cur = Seen(r, p)
<1>1. CASE p \in r.by
  <2>1. Committed(r, p) = Row(r.next) /\ Seen(r, p) = r.next
    BY <1>1 DEF Committed, Seen
  <2>2. Row(r.next).cur = r.next
    BY DEF Row
  <2> QED BY <2>1, <2>2
<1>2. CASE p \notin r.by
  <2>1. Committed(r, p) = r /\ Seen(r, p) = r.cur
    BY <1>2 DEF Committed, Seen
  <2> QED BY <2>1
<1> QED BY <1>1, <1>2

\* What a commit makes of a user's subscriptions.
LEMMA CommittedSubscriptions ==
  ASSUME IInv, CInv, NEW p \in Procs, Commit(p), NEW u \in Users
  PROVE  /\ tx[p].op \in SubscribeOps /\ u = tx[p].u =>
              {f \in FeedIds : sub'[u][f].cur} = SubscriptionsOf(u, p)
         /\ tx[p].op \notin SubscribeOps \/ u # tx[p].u =>
              {f \in FeedIds : sub'[u][f].cur} \subseteq {f \in FeedIds : sub[u][f].cur}
<1>1. \A f \in FeedIds : sub'[u][f] = Committed(sub[u][f], p)
  BY DEF Commit
<1>2. ASSUME NEW f \in FeedIds
      PROVE  sub'[u][f].cur = Seen(sub[u][f], p)
  BY <1>1, CommittedRow
<1>3. ASSUME NEW f \in FeedIds, tx[p].op \notin SubscribeOps \/ u # tx[p].u, sub'[u][f].cur
      PROVE  sub[u][f].cur
  <2>1. p \in sub[u][f].by => ~sub[u][f].next
    BY <1>3 DEF CInv, Writers, SubWriters
  <2> QED BY <1>2, <1>3, <2>1 DEF Seen
<1> QED BY <1>2, <1>3 DEF SubscriptionsOf

\* Ending a transaction preserves the invariant.
LEMMA EndCInv ==
  ASSUME IInv, CInv, NEW p \in Procs, Commit(p) \/ Rollback(p)
  PROVE  CInv'
<1>1. /\ \A f \in FeedIds : Ended(feed'[f], feed[f], p)
      /\ \A u \in Users : Ended(user'[u], user[u], p)
      /\ \A u \in Users, f \in FeedIds : Ended(sub'[u][f], sub[u][f], p)
      /\ tx'[p] = Idle /\ \A q \in Procs \ {p} : tx'[q] = tx[q]
  BY EndRows DEF IInv
<1>2. /\ \A f \in FeedIds : p \notin feed'[f].by
      /\ \A f \in FeedIds, u \in Users : p \notin sub'[u][f].by
      /\ \A u \in Users : p \notin user'[u].by
  BY <1>1, EndedFacts
<1>3. Idle.op = "none"
  BY DEF Idle
<1>4. ASSUME NEW u \in Users, NEW q \in user[u].by, q # p
      PROVE  user'[u] = user[u] /\ p \notin user[u].by
  <2>1. p \notin user[u].by
    BY <1>4, RowFacts DEF IInv, TypeOK
  <2> QED BY <1>1, <2>1 DEF Ended
<1>5. UniqueUrls'
  <2>1. ASSUME NEW f \in FeedIds
        PROVE  {feed'[f].cur, feed'[f].next} \subseteq {feed[f].cur, feed[f].next}
    <3>1. CASE p \in feed[f].by
      BY <1>1, <3>1, EndedFacts
    <3>2. CASE p \notin feed[f].by
      BY <1>1, <3>2 DEF Ended
    <3> QED BY <3>1, <3>2
  <2> QED BY <2>1 DEF CInv, UniqueUrls
<1>6. FeedWriters'
  <2> SUFFICES ASSUME NEW q \in Procs, NEW f \in FeedIds, q \in feed'[f].by
               PROVE  /\ q # p /\ feed'[f] = feed[f]
                      /\ tx[q].op = "delete_user" => user'[tx[q].u] = user[tx[q].u]
    BY <1>1 DEF FeedWriters, CInv, Writers
  <2>1. q # p /\ feed'[f] = feed[f]
    BY <1>1, <1>2, StillWritten
  <2>2. ASSUME tx[q].op = "delete_user" PROVE user'[tx[q].u] = user[tx[q].u]
    <3>1. q \in user[tx[q].u].by /\ tx[q].u \in Users
      BY <2>1, <2>2 DEF CInv, Writers, FeedWriters, IInv, FieldsSet, Fields, RequestOps
    <3> QED BY <1>4, <2>1, <3>1
  <2> QED BY <2>1, <2>2
<1>7. SubWriters'
  <2> SUFFICES ASSUME NEW q \in Procs, NEW u \in Users, NEW f \in FeedIds, q \in sub'[u][f].by
               PROVE  /\ q # p /\ sub'[u][f] = sub[u][f]
                      /\ q \in user[u].by => q \in user'[u].by
    BY <1>1 DEF SubWriters, CInv, Writers
  <2>1. q # p /\ sub'[u][f] = sub[u][f]
    BY <1>1, <1>2, StillWritten
  <2> QED BY <1>4, <2>1
<1>8. UserWriters'
  <2>1. ASSUME NEW q \in Procs, NEW u \in Users, q \in user'[u].by
        PROVE  u = tx'[q].u /\ (tx'[q].op = "delete_user" => ~user'[u].next)
    <3>1. q # p /\ user'[u] = user[u]
      BY <1>1, <1>2, <2>1, StillWritten
    <3> QED BY <1>1, <2>1, <3>1 DEF CInv, Writers, UserWriters
  <2>2. ASSUME NEW q \in Procs, tx'[q].op = "delete_user",
               tx'[q].pc \in {"cascade", "del_trigger", "stamp"}
        PROVE  q \in user'[tx'[q].u].by
    <3>1. q # p /\ tx'[q] = tx[q]
      BY <1>1, <1>3, <2>2
    <3>2. q \in user[tx[q].u].by /\ tx[q].u \in Users
      BY <2>2, <3>1 DEF CInv, Writers, UserWriters, IInv, FieldsSet, Fields, RequestOps
    <3> QED BY <1>4, <3>1, <3>2
  <2> QED BY <2>1, <2>2 DEF UserWriters
<1>9. OneFeed' /\ OneUrl'
  BY <1>1, <1>3 DEF CInv, OneFeed, OneUrl
<1>10. Counted'
  <2> SUFFICES ASSUME NEW q \in Procs, q # p, tx[q].op \in SubscribeOps, tx[q].pc # "lock_row"
               PROVE  LET u == tx[q].u IN
                      /\ user'[u].cur = user[u].cur
                      /\ user[u].cur => Cardinality({f \in FeedIds : Seen(sub'[u][f], q)})
                                          <= Cardinality(SubscriptionsOf(u, q))
    <3>1. ASSUME NEW q \in Procs, tx'[q].op \in SubscribeOps, tx'[q].pc # "lock_row"
          PROVE  q # p /\ tx'[q] = tx[q] /\ tx[q] \in Txs
      BY <1>1, <1>3, <3>1 DEF SubscribeOps, IInv, TypeOK
    <3>2. ASSUME NEW q \in Procs
          PROVE  /\ Cardinality(SubscriptionsOf(tx[q].u, q)) \in Nat
                 /\ Cardinality({f \in FeedIds : Seen(sub'[tx[q].u][f], q)}) \in Nat
      BY FewSubscriptions DEF SubscriptionsOf
    <3>3. \A t \in Txs : t.count \in Nat
      BY DEF Txs
    <3>4. Quota \in Nat
      BY ConstantsAssumption
    <3> SUFFICES ASSUME NEW q \in Procs, tx'[q].op \in SubscribeOps, tx'[q].pc # "lock_row"
                 PROVE  IF user'[tx[q].u].cur
                        THEN LET has == Cardinality({f \in FeedIds : Seen(sub'[tx[q].u][f], q)})
                             IN  has <= tx[q].count /\ has <= Quota
                        ELSE tx[q].count = 0 /\ tx[q].pc \notin {"ins_trigger", "commit"}
      BY <3>1 DEF Counted, SubscriptionsOf
    <3> DEFINE has == Cardinality(SubscriptionsOf(tx[q].u, q))
               left == Cardinality({f \in FeedIds : Seen(sub'[tx[q].u][f], q)})
    <3>5. IF user[tx[q].u].cur THEN has <= tx[q].count /\ has <= Quota
          ELSE tx[q].count = 0 /\ tx[q].pc \notin {"ins_trigger", "commit"}
      BY <3>1 DEF CInv, Counted
    <3>6. user'[tx[q].u].cur = user[tx[q].u].cur /\ (user[tx[q].u].cur => left <= has)
      BY <3>1
    <3>7. has \in Nat /\ left \in Nat /\ tx[q].count \in Nat
      BY <3>1, <3>2, <3>3
    <3> HIDE DEF has, left
    <3>8. user[tx[q].u].cur => left <= tx[q].count /\ left <= Quota
      BY <3>4, <3>5, <3>6, <3>7
    <3> QED BY <3>5, <3>6, <3>8 DEF left
  <2> DEFINE u == tx[q].u
  <2>1. u \in Users
    BY DEF IInv, FieldsSet, Fields, SubscribeOps, RequestOps
  <2>2. user'[u].cur = user[u].cur
    <3>1. CASE p \in user[u].by
      <4>1. user[u].cur /\ q \in user[u].by
        BY <2>1, <3>1 DEF IInv, UserHolders
      <4> QED BY <1>4, <2>1, <4>1
    <3>2. CASE p \notin user[u].by
      BY <1>1, <2>1, <3>2 DEF Ended
    <3> QED BY <3>1, <3>2
  <2>3. ASSUME user[u].cur, NEW f \in FeedIds, Seen(sub'[u][f], q)
        PROVE  f \in SubscriptionsOf(u, q)
    <3>1. CASE p \notin sub[u][f].by
      BY <1>1, <2>1, <2>3, <3>1 DEF Ended, SubscriptionsOf
    <3>2. CASE p \in sub[u][f].by
      <4>1. q \in user[u].by /\ p \notin user[u].by
        BY <1>4, <2>1, <2>3 DEF IInv, UserHolders
      <4>2. ~sub[u][f].next
        BY <2>1, <3>2, <4>1 DEF CInv, Writers, SubWriters
      <4>3. /\ sub'[u][f].by = {}
            /\ sub'[u][f].cur = sub[u][f].cur \/ sub'[u][f].cur = sub[u][f].next
        BY <1>1, <2>1, <3>2, EndedFacts
      <4>4. q \notin sub[u][f].by
        BY <2>1, <3>2, TableTypes, RowFacts DEF IInv
      <4> QED BY <2>3, <4>2, <4>3, <4>4 DEF Seen, SubscriptionsOf
    <3> QED BY <3>1, <3>2
  <2>4. user[u].cur => Cardinality({f \in FeedIds : Seen(sub'[u][f], q)})
                         <= Cardinality(SubscriptionsOf(u, q))
    <3>1. SubscriptionsOf(u, q) \subseteq FeedIds
      BY DEF SubscriptionsOf
    <3>2. user[u].cur => {f \in FeedIds : Seen(sub'[u][f], q)} \subseteq SubscriptionsOf(u, q)
      BY <2>3
    <3> QED BY <3>1, <3>2, FewerSubscriptions
  <2> QED BY <2>2, <2>4
<1>11. QuotaRespected'
  <2> SUFFICES ASSUME NEW u \in Users
               PROVE  Cardinality({f \in FeedIds : sub'[u][f].cur}) <= Quota
    BY DEF QuotaRespected
  <2>1. Cardinality({f \in FeedIds : sub[u][f].cur}) <= Quota
    BY DEF CInv, QuotaRespected
  <2>2. /\ Cardinality({f \in FeedIds : sub[u][f].cur}) \in Nat
        /\ Cardinality({f \in FeedIds : sub'[u][f].cur}) \in Nat /\ Quota \in Nat
    BY FewSubscriptions, ConstantsAssumption
  <2>3. CASE Rollback(p)
    <3>1. \A f \in FeedIds : sub'[u][f].cur = sub[u][f].cur
      BY <2>3 DEF Rollback, RolledBack, Row
    <3>2. {f \in FeedIds : sub'[u][f].cur} = {f \in FeedIds : sub[u][f].cur}
      BY <3>1
    <3> QED BY <2>1, <3>2
  <2>4. CASE Commit(p) /\ tx[p].op \in SubscribeOps /\ u = tx[p].u
    <3>1. {f \in FeedIds : sub'[u][f].cur} = SubscriptionsOf(u, p)
      BY <2>4, CommittedSubscriptions
    <3>2. tx[p].pc = "commit"
      BY <2>4 DEF Commit, At
    <3>3. Cardinality(SubscriptionsOf(u, p)) <= Quota
      BY <2>4, <3>2 DEF CInv, Counted
    <3> QED BY <3>1, <3>3
  <2>5. CASE Commit(p) /\ (tx[p].op \notin SubscribeOps \/ u # tx[p].u)
    <3>1. {f \in FeedIds : sub'[u][f].cur} \subseteq {f \in FeedIds : sub[u][f].cur}
      BY <2>5, CommittedSubscriptions
    <3>2. Cardinality({f \in FeedIds : sub'[u][f].cur}) <= Cardinality({f \in FeedIds : sub[u][f].cur})
      BY <3>1, FewerSubscriptions
    <3> QED BY <2>1, <2>2, <3>2
  <2> QED BY <2>3, <2>4, <2>5
<1> QED
  BY <1>5, <1>6, <1>7, <1>8, <1>9, <1>10, <1>11 DEF CInv, Writers

\* The passing of the grace period ages one stamp while nobody writes a feed.
LEMMA GraceRows ==
  ASSUME IInv, NEW f \in FeedIds, GracePasses(f), NEW g \in FeedIds
  PROVE  /\ feed'[g].by = {} /\ feed'[g].next = feed'[g].cur /\ feed[g].next = feed[g].cur
         /\ feed'[g].cur.status = feed[g].cur.status /\ feed'[g].cur.url = feed[g].cur.url
<1>1. \A p \in Procs : tx[p].op = "none"
  BY PcFacts DEF GracePasses, At, IInv
<1>2. feed[g].by = {} /\ feed[g].next = feed[g].cur /\ feed[g].cur \in FeedVals
  BY <1>1, FeedTypes, RowFacts DEF IInv, IdleHoldsNothing
<1>3. CASE g = f
  <2> DEFINE v == [feed[g].cur EXCEPT !.orphan = "expired"]
  <2>1. feed'[g] = Row(v)
    BY <1>3 DEF GracePasses, IInv, TypeOK
  <2>2. v.status = feed[g].cur.status /\ v.url = feed[g].cur.url
    BY <1>2 DEF FeedVals, Unused, Gone
  <2> HIDE DEF v
  <2>3. Row(v).cur = v /\ Row(v).next = v /\ Row(v).by = {}
    BY DEF Row
  <2> QED BY <1>2, <2>1, <2>2, <2>3
<1>4. CASE g # f
  <2>1. feed'[g] = feed[g]
    BY <1>4 DEF GracePasses, IInv, TypeOK
  <2> QED BY <1>2, <2>1
<1> QED BY <1>3, <1>4

\* The passing of the grace period preserves the invariant.
LEMMA GraceCInv ==
  ASSUME IInv, CInv, NEW f \in FeedIds, GracePasses(f)
  PROVE  CInv'
<1>1. /\ sub' = sub /\ user' = user /\ tx' = tx
      /\ \A p \in Procs : tx[p] = Idle
  <2>1. \A p \in Procs : tx[p].op = "none"
    BY PcFacts DEF GracePasses, At, IInv
  <2> QED BY <2>1 DEF IInv, FieldsSet, Fields, GracePasses
<1>2. Idle.op = "none"
  BY DEF Idle
<1>3. ASSUME NEW g \in FeedIds
      PROVE  /\ feed'[g].by = {} /\ feed'[g].next = feed'[g].cur /\ feed[g].next = feed[g].cur
             /\ feed'[g].cur.status = feed[g].cur.status /\ feed'[g].cur.url = feed[g].cur.url
  BY GraceRows
<1>4. UniqueUrls'
  BY <1>3 DEF CInv, UniqueUrls, Live
<1>5. FeedWriters'
  BY <1>3 DEF FeedWriters
<1>6. SubWriters' /\ UserWriters' /\ OneFeed' /\ OneUrl' /\ QuotaRespected'
  BY <1>1 DEF CInv, Writers, SubWriters, UserWriters, OneFeed, OneUrl, QuotaRespected
<1>7. Counted'
  BY <1>1, <1>2 DEF Counted, SubscribeOps
<1> QED BY <1>4, <1>5, <1>6, <1>7 DEF CInv, Writers

\* A step that changes nothing preserves the invariant.
LEMMA StutterCInv ==
  ASSUME CInv, UNCHANGED vars
  PROVE  CInv'
<1>1. feed' = feed /\ sub' = sub /\ user' = user /\ tx' = tx
  BY DEF vars
<1>2. UniqueUrls' /\ FeedWriters' /\ SubWriters' /\ UserWriters'
  BY <1>1 DEF CInv, Writers, UniqueUrls, FeedWriters, SubWriters, UserWriters
<1>3. OneFeed' /\ OneUrl' /\ QuotaRespected'
  BY <1>1 DEF CInv, OneFeed, OneUrl, QuotaRespected
<1>4. Counted'
  BY <1>1 DEF CInv, Counted, SubscriptionsOf
<1> QED BY <1>2, <1>3, <1>4 DEF CInv, Writers

\* The empty catalog satisfies the invariant.
LEMMA InitCInv == Init => CInv
<1> SUFFICES ASSUME Init PROVE CInv
  OBVIOUS
<1>1. /\ \A f \in FeedIds : feed[f].cur = Unused /\ feed[f].next = Unused /\ feed[f].by = {}
      /\ \A u \in Users : user[u].by = {}
      /\ \A u \in Users, f \in FeedIds : sub[u][f].by = {} /\ sub[u][f].cur = FALSE
      /\ \A p \in Procs : tx[p] = Idle
  BY DEF Init, Row
<1>2. ~Live(Unused) /\ Idle.op = "none"
  BY DEF Live, Unused, Idle
<1>3. UniqueUrls
  BY <1>1, <1>2 DEF UniqueUrls
<1>4. FeedWriters /\ SubWriters /\ UserWriters
  BY <1>1, <1>2 DEF FeedWriters, SubWriters, UserWriters
<1>5. OneFeed /\ OneUrl /\ Counted
  BY <1>1, <1>2 DEF OneFeed, OneUrl, Counted, SubscribeOps
<1>6. QuotaRespected
  <2> SUFFICES ASSUME NEW u \in Users
               PROVE  Cardinality({f \in FeedIds : sub[u][f].cur}) <= Quota
    BY DEF QuotaRespected
  <2>1. {f \in FeedIds : sub[u][f].cur} = {}
    BY <1>1
  <2> QED BY <2>1, FS_EmptySet, ConstantsAssumption
<1> QED BY <1>3, <1>4, <1>5, <1>6 DEF CInv, Writers

\* The two invariants together are inductive.
LEMMA CatalogInvariance == Spec => [](IInv /\ CInv)
<1>1. ASSUME IInv, CInv, [Next]_vars PROVE CInv'
  <2>1. ASSUME NEW p \in Procs, Begins(p) PROVE CInv'
    BY <1>1, <2>1, BeginCInv
  <2>2. ASSUME NEW p \in Procs, Statement(p) PROVE CInv'
    BY <1>1, <2>2, StatementCInv
  <2>3. ASSUME NEW p \in Procs, Commit(p) \/ Rollback(p) PROVE CInv'
    BY <1>1, <2>3, EndCInv
  <2>4. ASSUME NEW f \in FeedIds, GracePasses(f) PROVE CInv'
    BY <1>1, <2>4, GraceCInv
  <2>5. CASE UNCHANGED vars
    BY <1>1, <2>5, StutterCInv
  <2> QED BY <1>1, <2>1, <2>2, <2>3, <2>4, <2>5 DEF Next
<1> QED BY <1>1, InitCInv, Invariance, PTL DEF Spec

\* However subscribes and imports of one user race, no interleaving takes the user over
\* quota_subs, because the count is taken under a lock on the user's row.
THEOREM QuotaKept == Spec => []QuotaRespected
<1>1. CInv => QuotaRespected
  BY DEF CInv
<1> QED BY <1>1, CatalogInvariance, PTL

-----------------------------------------------------------------------------
(* Every step is a step of the catalog, or none *)

\* What the catalog sees of the tables.
Members(users) == {u \in Users : users[u].cur}
FeedPairs(feeds) == {<<f, feeds[f].cur.url>> : f \in {g \in FeedIds : Live(feeds[g].cur)}}
SubPairs(subs) == {s \in Users \X FeedIds : subs[s[1]][s[2]].cur}
Same ==
  /\ Members(user') = Members(user)
  /\ FeedPairs(feed') = FeedPairs(feed)
  /\ SubPairs(sub') = SubPairs(sub)
CatalogStep == Catalog!Next \/ Same

\* The feeds the catalog has are the live rows.
LEMMA PairFacts ==
  ASSUME NEW feeds
  PROVE  /\ Catalog!Ids(FeedPairs(feeds)) = {f \in FeedIds : Live(feeds[f].cur)}
         /\ \A x : x \in FeedPairs(feeds) <=>
              \E f \in FeedIds : Live(feeds[f].cur) /\ x = <<f, feeds[f].cur.url>>
<1>1. \A x : x \in FeedPairs(feeds) <=>
        \E f \in FeedIds : Live(feeds[f].cur) /\ x = <<f, feeds[f].cur.url>>
  BY DEF FeedPairs
<1>2. ASSUME NEW x, x \in FeedPairs(feeds)
      PROVE  x[1] \in {f \in FeedIds : Live(feeds[f].cur)}
  BY <1>1, <1>2
<1>3. ASSUME NEW f \in FeedIds, Live(feeds[f].cur)
      PROVE  f \in Catalog!Ids(FeedPairs(feeds))
  <2>1. <<f, feeds[f].cur.url>> \in FeedPairs(feeds) /\ <<f, feeds[f].cur.url>>[1] = f
    BY <1>1, <1>3
  <2> QED BY <2>1 DEF Catalog!Ids
<1>4. Catalog!Ids(FeedPairs(feeds)) \subseteq {f \in FeedIds : Live(feeds[f].cur)}
  BY <1>2 DEF Catalog!Ids
<1> QED BY <1>1, <1>3, <1>4

\* Rows with one URL each are distinct feeds.
LEMMA PairsDistinct ==
  ASSUME UniqueUrls
  PROVE  Catalog!Distinct(FeedPairs(feed))
BY DEF UniqueUrls, FeedPairs, Catalog!Distinct

\* Feed rows that stay what they are, whatever becomes of their stamps, are the same feeds.
LEMMA SamePairs ==
  ASSUME \A f \in FeedIds : /\ Live(feed'[f].cur) <=> Live(feed[f].cur)
                            /\ Live(feed[f].cur) => feed'[f].cur.url = feed[f].cur.url
  PROVE  FeedPairs(feed') = FeedPairs(feed)
<1>1. {g \in FeedIds : Live(feed'[g].cur)} = {g \in FeedIds : Live(feed[g].cur)}
  OBVIOUS
<1> QED BY <1>1 DEF FeedPairs

\* A step that leaves the committed rows alone leaves the catalog alone.
LEMMA SameRows ==
  ASSUME \A u \in Users : user'[u].cur = user[u].cur,
         \A f \in FeedIds : feed'[f].cur = feed[f].cur,
         \A u \in Users, f \in FeedIds : sub'[u][f].cur = sub[u][f].cur
  PROVE  Same
<1>1. Members(user') = Members(user)
  BY DEF Members
<1>2. FeedPairs(feed') = FeedPairs(feed)
  BY SamePairs
<1>3. SubPairs(sub') = SubPairs(sub)
  BY DEF SubPairs
<1> QED BY <1>1, <1>2, <1>3 DEF Same

\* What a commit makes of the rows the catalog sees.
LEMMA CommittedRows ==
  ASSUME NEW p \in Procs, Commit(p)
  PROVE  /\ \A f \in FeedIds : feed'[f].cur = Seen(feed[f], p)
         /\ \A u \in Users : user'[u].cur = Seen(user[u], p)
         /\ \A u \in Users, f \in FeedIds : sub'[u][f].cur = Seen(sub[u][f], p)
         /\ tx[p].pc = "commit"
<1>1. /\ \A f \in FeedIds : feed'[f] = Committed(feed[f], p)
      /\ \A u \in Users : user'[u] = Committed(user[u], p)
      /\ \A u \in Users, f \in FeedIds : sub'[u][f] = Committed(sub[u][f], p)
      /\ tx[p].pc = "commit"
  BY DEF Commit, At
<1> QED BY <1>1, CommittedRow

\* Only a subscribe or an account deletion commits user rows, and only the latter loses one.
LEMMA CommittedMembers ==
  ASSUME IInv, CInv, NEW p \in Procs, Commit(p)
  PROVE  /\ tx[p].op # "delete_user" => Members(user') = Members(user)
         /\ tx[p].op = "delete_user" /\ p \notin user[tx[p].u].by => Members(user') = Members(user)
         /\ tx[p].op = "delete_user" /\ p \in user[tx[p].u].by =>
              Members(user') = Members(user) \ {tx[p].u} /\ tx[p].u \in Members(user)
<1>1. \A u \in Users : user'[u].cur = Seen(user[u], p)
  BY CommittedRows
<1>2. ASSUME NEW u \in Users
      PROVE  /\ p \in user[u].by => user[u].cur /\ u = tx[p].u
             /\ p \in user[u].by /\ tx[p].op # "delete_user" => user[u].next
             /\ p \in user[u].by /\ tx[p].op = "delete_user" => ~user[u].next
  BY DEF IInv, UserHolders, CInv, Writers, UserWriters
<1>3. tx[p].op # "delete_user" => Members(user') = Members(user)
  BY <1>1, <1>2 DEF Members, Seen
<1>4. tx[p].op = "delete_user" => tx[p].u \in Users
  BY DEF IInv, FieldsSet, Fields, RequestOps
<1>5. tx[p].op = "delete_user" /\ p \notin user[tx[p].u].by => Members(user') = Members(user)
  BY <1>1, <1>2 DEF Members, Seen
<1>6. tx[p].op = "delete_user" /\ p \in user[tx[p].u].by =>
        Members(user') = Members(user) \ {tx[p].u} /\ tx[p].u \in Members(user)
  BY <1>1, <1>2, <1>4 DEF Members, Seen
<1> QED BY <1>3, <1>5, <1>6

\* A subscribe or an import commits as one Subscribe of the catalog.
LEMMA SubscribeCommits ==
  ASSUME IInv, CInv, References', UniqueUrls', NEW p \in Procs, Commit(p),
         tx[p].op \in SubscribeOps
  PROVE  CatalogStep
<1>0. PICK u \in Users : u = tx[p].u
  BY DEF IInv, FieldsSet, Fields, RequestOps, SubscribeOps
<1>1. /\ u \in Users /\ tx[p].op # "delete_user" /\ tx[p].pc = "commit"
  BY CommittedRows DEF IInv, FieldsSet, Fields, RequestOps, SubscribeOps
<1>2. u \in Members(user) /\ Members(user') = Members(user)
  BY <1>0, <1>1, CommittedMembers DEF CInv, Counted, Members
<1>3. FeedPairs(feed) \subseteq FeedPairs(feed')
  <2> SUFFICES ASSUME NEW f \in FeedIds, Live(feed[f].cur)
               PROVE  Live(feed'[f].cur) /\ feed'[f].cur.url = feed[f].cur.url
    BY PairFacts
  <2>1. p \in feed[f].by => SameFeed(feed[f])
    BY DEF CInv, Writers, FeedWriters, Live, Unused
  <2> QED BY <2>1, CommittedRows DEF Seen, SameFeed
<1>4. Catalog!Distinct(FeedPairs(feed'))
  BY DEF UniqueUrls, FeedPairs, Catalog!Distinct
<1>5. ASSUME NEW w \in Users, NEW f \in FeedIds
      PROVE  /\ sub[w][f].cur => sub'[w][f].cur
             /\ sub'[w][f].cur /\ ~sub[w][f].cur => w = u
             /\ sub'[w][f].cur => f \in Catalog!Ids(FeedPairs(feed'))
  <2>1. p \in sub[w][f].by => w = u /\ sub[w][f].next
    BY <1>0 DEF CInv, Writers, SubWriters
  <2>2. sub'[w][f].cur => Live(feed'[f].cur)
    BY DEF References
  <2> QED BY <2>1, <2>2, CommittedRows, PairFacts DEF Seen
<1>6. SubPairs(sub) \subseteq SubPairs(sub')
  BY <1>5 DEF SubPairs
<1>7. \A s \in SubPairs(sub') \ SubPairs(sub) : s[1] = u /\ s[2] \in Catalog!Ids(FeedPairs(feed'))
  BY <1>5 DEF SubPairs
<1>8. Catalog!Subscribe(u)
  BY <1>2, <1>3, <1>4, <1>6, <1>7 DEF Catalog!Subscribe, Members, FeedPairs, SubPairs
<1> QED BY <1>2, <1>8 DEF Catalog!Next, CatalogStep, Members

\* An unsubscribe commits as one Unsubscribe, or as nothing when another request came first.
LEMMA UnsubscribeCommits ==
  ASSUME IInv, CInv, NEW p \in Procs, Commit(p), tx[p].op = "unsubscribe"
  PROVE  CatalogStep
<1>0. PICK u \in Users, f \in FeedIds : u = tx[p].u /\ f = tx[p].f
  BY DEF IInv, FieldsSet, Fields, RequestOps, SubscribeOps
<1>1. /\ u \in Users /\ f \in FeedIds /\ tx[p].pc = "commit" /\ tx[p].op \notin SubscribeOps
  BY CommittedRows DEF IInv, FieldsSet, Fields, RequestOps, SubscribeOps
<1>2. Members(user') = Members(user)
  BY <1>0, CommittedMembers
<1>3. ASSUME NEW w \in Users, NEW g \in FeedIds
      PROVE  /\ p \in sub[w][g].by => w = u /\ g = f /\ sub[w][g].cur /\ ~sub'[w][g].cur
             /\ p \notin sub[w][g].by => sub'[w][g].cur = sub[w][g].cur
  BY <1>0, <1>1, CommittedRows DEF Seen, CInv, Writers, SubWriters
<1>4. ASSUME NEW g \in FeedIds, g # f \/ p \notin feed[g].by \/ SameFeed(feed[g])
      PROVE  /\ Live(feed'[g].cur) <=> Live(feed[g].cur)
             /\ Live(feed[g].cur) => feed'[g].cur.url = feed[g].cur.url
  <2>1. p \in feed[g].by => SameFeed(feed[g])
    BY <1>0, <1>1, <1>4 DEF CInv, Writers, FeedWriters
  <2> QED BY <2>1, CommittedRows DEF Seen, SameFeed
<1>5. CASE p \in feed[f].by /\ ~SameFeed(feed[f])
  <2>1. Live(feed[f].cur) /\ ~Live(feed[f].next)
    BY <1>0, <1>1, <1>5 DEF CInv, Writers, FeedWriters
  <2>2. \A w \in Users : sub[w][f].cur => p \in sub[w][f].by
    BY <1>0, <1>1, <1>5, <2>1 DEF IInv, FeedDeletes, Removes
  <2>3. \A w \in Users : ~sub'[w][f].cur
    BY <1>0, <1>1, <1>3, <2>2
  <2>4. SubPairs(sub') = SubPairs(sub) \ {<<u, f>>}
    BY <1>0, <1>1, <1>3, <2>3 DEF SubPairs
  <2>5. ~Catalog!Subscribed(f, SubPairs(sub'))
    BY <2>3 DEF SubPairs, Catalog!Subscribed
  <2>6. ~Live(feed'[f].cur)
    BY <1>0, <1>1, <1>5, <2>1, CommittedRows DEF Seen
  <2>7. FeedPairs(feed') = {x \in FeedPairs(feed) : x[1] # f}
    BY <1>4, <2>6 DEF FeedPairs
  <2>8. f \in Catalog!Ids(FeedPairs(feed))
    BY <1>0, <1>1, <2>1, PairFacts
  <2>9. Catalog!Unsubscribe(u, f)
    BY <1>2, <2>4, <2>5, <2>7 DEF Catalog!Unsubscribe, Members, FeedPairs, SubPairs
  <2> QED BY <1>0, <1>1, <2>8, <2>9 DEF Catalog!Next, CatalogStep, FeedPairs
<1>6. CASE p \notin feed[f].by \/ SameFeed(feed[f])
  <2>1. FeedPairs(feed') = FeedPairs(feed)
    BY <1>4, <1>6, SamePairs
  <2>2. CASE p \in sub[u][f].by
    <3>1. SubPairs(sub') = SubPairs(sub) \ {<<u, f>>}
      BY <1>0, <1>1, <1>3, <2>2 DEF SubPairs
    <3>2. f \in Catalog!Ids(FeedPairs(feed))
      BY <1>0, <1>1, <1>3, <2>2, PairFacts DEF IInv, References
    <3>3. Catalog!Unsubscribe(u, f)
      BY <1>2, <2>1, <3>1 DEF Catalog!Unsubscribe, Members, FeedPairs, SubPairs
    <3> QED BY <1>0, <1>1, <3>2, <3>3 DEF Catalog!Next, CatalogStep, FeedPairs
  <2>3. CASE p \notin sub[u][f].by
    <3>1. SubPairs(sub') = SubPairs(sub)
      BY <1>3, <2>3 DEF SubPairs
    <3> QED BY <1>2, <2>1, <3>1 DEF CatalogStep, Same
  <2> QED BY <2>2, <2>3
<1> QED BY <1>5, <1>6

\* An account deletion commits as one DeleteAccount, or as nothing when the account was gone.
LEMMA DeleteUserCommits ==
  ASSUME IInv, CInv, NEW p \in Procs, Commit(p), tx[p].op = "delete_user"
  PROVE  CatalogStep
<1>0. PICK u \in Users : u = tx[p].u
  BY DEF IInv, FieldsSet, Fields, RequestOps, SubscribeOps
<1>1. u \in Users /\ tx[p].pc = "commit" /\ tx[p].op \notin SubscribeOps
  BY CommittedRows DEF IInv, FieldsSet, Fields, RequestOps, SubscribeOps
<1>2. FeedPairs(feed') = FeedPairs(feed)
  <2> SUFFICES ASSUME NEW g \in FeedIds
               PROVE  /\ Live(feed'[g].cur) <=> Live(feed[g].cur)
                      /\ Live(feed[g].cur) => feed'[g].cur.url = feed[g].cur.url
    BY SamePairs
  <2>1. p \in feed[g].by => SameFeed(feed[g])
    BY DEF CInv, Writers, FeedWriters
  <2> QED BY <2>1, CommittedRows DEF Seen, SameFeed
<1>3. ASSUME NEW w \in Users, NEW g \in FeedIds
      PROVE  /\ p \in sub[w][g].by => w = u /\ p \in user[u].by /\ ~sub'[w][g].cur
             /\ p \notin sub[w][g].by => sub'[w][g].cur = sub[w][g].cur
  BY <1>0, <1>1, CommittedRows DEF Seen, CInv, Writers, SubWriters
<1>4. CASE p \in user[u].by
  <2>1. Removes(user[u], p)
    BY <1>0, <1>1, <1>4 DEF Removes, CInv, Writers, UserWriters
  <2>2. \A g \in FeedIds : sub[u][g].cur => p \in sub[u][g].by
    BY <1>0, <1>1, <2>1 DEF IInv, UserDeletes, Removes
  <2>3. SubPairs(sub') = {s \in SubPairs(sub) : s[1] # u}
    BY <1>0, <1>1, <1>3, <2>2 DEF SubPairs
  <2>4. Members(user') = Members(user) \ {u} /\ u \in Members(user)
    BY <1>0, <1>4, CommittedMembers
  <2>5. Catalog!DeleteAccount(u)
    BY <1>2, <2>3, <2>4 DEF Catalog!DeleteAccount, Members, FeedPairs, SubPairs
  <2> QED BY <2>4, <2>5 DEF Catalog!Next, CatalogStep, Members
<1>5. CASE p \notin user[u].by
  <2>1. SubPairs(sub') = SubPairs(sub)
    BY <1>3, <1>5 DEF SubPairs
  <2> QED BY <1>0, <1>2, <1>5, <2>1, CommittedMembers DEF CatalogStep, Same
<1> QED BY <1>4, <1>5

\* A poll commits as one Repoint, or as nothing when it only recorded its outcome; a sweep
\* as one Collect; a read/star write as nothing.
LEMMA WorkerCommits ==
  ASSUME IInv, CInv, UniqueUrls', NEW p \in Procs, Commit(p),
         tx[p].op \in {"persist", "gc", "set_state"}
  PROVE  CatalogStep
<1>1. /\ tx[p].pc = "commit" /\ tx[p].op \notin SubscribeOps
      /\ tx[p].op \notin {"unsubscribe", "delete_user"}
  BY CommittedRows DEF SubscribeOps
<1>2. Members(user') = Members(user)
  BY <1>1, CommittedMembers
<1>3. ASSUME NEW w \in Users, NEW g \in FeedIds
      PROVE  p \notin sub[w][g].by /\ sub'[w][g].cur = sub[w][g].cur
  BY <1>1, CommittedRows DEF Seen, CInv, Writers, SubWriters
<1>4. SubPairs(sub') = SubPairs(sub)
  BY <1>3 DEF SubPairs
<1>5. \A g \in FeedIds : p \notin feed[g].by => feed'[g].cur = feed[g].cur
  BY CommittedRows DEF Seen
<1>6. CASE tx[p].op = "set_state"
  <2>1. \A g \in FeedIds : p \notin feed[g].by
    BY <1>6 DEF CInv, Writers, FeedWriters, SubscribeOps
  <2>2. FeedPairs(feed') = FeedPairs(feed)
    BY <1>5, <2>1, SamePairs
  <2> QED BY <1>2, <1>4, <2>2 DEF CatalogStep, Same
<1>7. CASE tx[p].op = "persist"
  <2>1. PICK f \in FeedIds : f = tx[p].f
    BY <1>7 DEF IInv, FieldsSet, Fields
  <2>2. ASSUME NEW g \in FeedIds
        PROVE  p \in feed[g].by => /\ g = f /\ Live(feed[g].cur) /\ Live(feed'[g].cur)
    BY <1>7, <2>1, CommittedRows DEF Seen, CInv, Writers, FeedWriters
  <2>3. CASE p \in feed[f].by
    <3>1. /\ Catalog!Ids(FeedPairs(feed')) = Catalog!Ids(FeedPairs(feed))
          /\ f \in Catalog!Ids(FeedPairs(feed'))
      BY <1>5, <2>1, <2>2, <2>3, PairFacts
    <3>2. {x \in FeedPairs(feed') : x[1] # f} = {x \in FeedPairs(feed) : x[1] # f}
      BY <1>5, <2>2 DEF FeedPairs
    <3>3. Catalog!Distinct(FeedPairs(feed'))
      BY DEF UniqueUrls, FeedPairs, Catalog!Distinct
    <3>4. Catalog!Repoint(f)
      BY <1>2, <1>4, <3>1, <3>2, <3>3 DEF Catalog!Repoint, Members, FeedPairs, SubPairs
    <3> QED BY <3>1, <3>4 DEF Catalog!Next, CatalogStep, FeedPairs
  <2>4. CASE p \notin feed[f].by
    <3>1. FeedPairs(feed') = FeedPairs(feed)
      BY <1>5, <2>2, <2>4, SamePairs
    <3> QED BY <1>2, <1>4, <3>1 DEF CatalogStep, Same
  <2> QED BY <2>3, <2>4
<1>8. CASE tx[p].op = "gc"
  <2>1. ASSUME NEW g \in FeedIds, p \in feed[g].by
        PROVE  ~Live(feed'[g].cur) /\ \A w \in Users : ~sub[w][g].cur
    <3>1. ~Live(feed[g].next)
      BY <1>8, <2>1 DEF CInv, Writers, FeedWriters
    <3>2. \A w \in Users : sub[w][g].cur => p \in sub[w][g].by
      BY <1>1, <2>1, <3>1 DEF IInv, FeedDeletes, Removes
    <3> QED BY <1>3, <2>1, <3>1, <3>2, CommittedRows DEF Seen
  <2>2. FeedPairs(feed') \subseteq FeedPairs(feed)
    BY <1>5, <2>1 DEF FeedPairs
  <2>3. ASSUME NEW x \in FeedPairs(feed) \ FeedPairs(feed')
        PROVE  ~Catalog!Subscribed(x[1], SubPairs(sub))
    <3>1. PICK g \in FeedIds : Live(feed[g].cur) /\ x = <<g, feed[g].cur.url>>
      BY PairFacts
    <3>2. p \in feed[g].by
      BY <1>5, <2>3, <3>1, PairFacts
    <3> QED BY <2>1, <3>1, <3>2 DEF SubPairs, Catalog!Subscribed
  <2>4. Catalog!Collect
    BY <1>2, <1>4, <2>2, <2>3 DEF Catalog!Collect, Members, FeedPairs, SubPairs
  <2> QED BY <2>4 DEF Catalog!Next, CatalogStep
<1> QED BY <1>6, <1>7, <1>8

\* Nothing but a commit changes the catalog.
LEMMA OtherSteps ==
  ASSUME IInv, CInv,
         \/ \E p \in Procs : Begins(p) \/ Statement(p) \/ Rollback(p)
         \/ \E f \in FeedIds : GracePasses(f)
         \/ UNCHANGED vars
  PROVE  Same
<1>1. ASSUME NEW p \in Procs, Begins(p) PROVE Same
  BY <1>1, BeginTx, SameRows DEF tables
<1>2. ASSUME NEW p \in Procs, Statement(p) PROVE Same
  <2>1. Effects(p)
    BY <1>2, StatementEffects DEF IInv
  <2>2. /\ \A f \in FeedIds : feed'[f].cur = feed[f].cur
        /\ \A u \in Users : user'[u].cur = user[u].cur
        /\ \A u \in Users, f \in FeedIds : sub'[u][f].cur = sub[u][f].cur
    <3>1. ASSUME NEW u \in Users PROVE user'[u].cur = user[u].cur
      <4>1. UserEffect(p, u)
        BY <2>1 DEF Effects
      <4> QED BY <4>1 DEF UserEffect, Written
    <3>2. \A f \in FeedIds : feed'[f].cur = feed[f].cur
      BY <2>1, FeedEffectKeeps DEF Effects
    <3> QED BY <2>1, <3>1, <3>2, EffectsKeep
  <2> QED BY <2>2, SameRows
<1>3. ASSUME NEW p \in Procs, Rollback(p) PROVE Same
  <2>1. /\ \A f \in FeedIds : feed'[f].cur = feed[f].cur
        /\ \A u \in Users : user'[u].cur = user[u].cur
        /\ \A u \in Users, f \in FeedIds : sub'[u][f].cur = sub[u][f].cur
    BY <1>3 DEF Rollback, RolledBack, Row
  <2> QED BY <2>1, SameRows
<1>4. ASSUME NEW f \in FeedIds, GracePasses(f) PROVE Same
  <2>1. sub' = sub /\ user' = user
    BY <1>4 DEF GracePasses
  <2>2. \A g \in FeedIds : /\ feed'[g].cur.status = feed[g].cur.status
                           /\ feed'[g].cur.url = feed[g].cur.url
    BY <1>4, GraceRows
  <2>3. FeedPairs(feed') = FeedPairs(feed)
    BY <2>2, SamePairs DEF Live
  <2> QED BY <2>1, <2>3 DEF Same
<1>5. CASE UNCHANGED vars
  BY <1>5 DEF vars, Same
<1> QED BY <1>1, <1>2, <1>3, <1>4, <1>5

\* The committed rows are those of a catalog whose operations are atomic: each commit is
\* one operation of FeedCatalog or nothing, and no other step changes what it sees.
THEOREM CatalogRefined == Spec => CatalogSpec
<1>1. Init => Catalog!Init
  <2> SUFFICES ASSUME Init PROVE Catalog!Init
    OBVIOUS
  <2>1. /\ \A u \in Users : user[u].cur = TRUE
        /\ \A f \in FeedIds : ~Live(feed[f].cur)
        /\ \A u \in Users, f \in FeedIds : sub[u][f].cur = FALSE
    BY DEF Init, Row, Live, Unused
  <2> QED BY <2>1 DEF Catalog!Init
<1>2. ASSUME IInv, CInv, IInv', CInv', [Next]_vars
      PROVE  [Catalog!Next]_Catalog!vars
  <2>1. ASSUME NEW p \in Procs, Commit(p) PROVE CatalogStep
    <3>1. Fields(tx[p]) /\ tx[p].pc = "commit" /\ tx[p] \in Txs
      BY <1>2, <2>1 DEF IInv, FieldsSet, TypeOK, Commit, At
    <3>2. tx[p].op \in SubscribeOps \cup {"unsubscribe", "delete_user", "persist", "gc", "set_state"}
      BY <3>1 DEF Txs, RequestOps, SubscribeOps, Fields, OpPCs
    <3>3. References' /\ UniqueUrls'
      BY <1>2 DEF IInv, CInv
    <3> QED BY <1>2, <2>1, <3>2, <3>3, SubscribeCommits, UnsubscribeCommits, DeleteUserCommits,
           WorkerCommits
  <2>2. ASSUME ~\E p \in Procs : Commit(p)
        PROVE  CatalogStep
    <3>1. Same
      BY <1>2, <2>2, OtherSteps DEF Next
    <3> QED BY <3>1 DEF CatalogStep
  <2>3. CatalogStep
    BY <2>1, <2>2
  <2>4. Same => UNCHANGED Catalog!vars
    BY DEF Same, Catalog!vars, Members, FeedPairs, SubPairs
  <2> QED BY <2>3, <2>4 DEF CatalogStep
<1> QED BY <1>1, <1>2, CatalogInvariance, PTL DEF Spec, CatalogSpec, Catalog!Spec

-----------------------------------------------------------------------------
(* The invariant behind StampedIffOrphaned: what a request owes the stamps  *)

\* One request at a time; polls and sweeps may overlap it and each other.
SerialRequests == \A q, r \in Requests : q = r

\* The feeds whose triggers a transaction has yet to run.
Due(t) ==
  CASE t.pc = "ins_trigger" -> {t.f}
    [] t.pc = "stamp" -> {t.f} \cup t.feeds
    [] t.pc = "del_trigger" -> t.feeds
    [] OTHER -> {}

\* What transaction t sees of feed f: v, and whether it sees a subscription to it.
Owed(t, f, v, subscribed) ==
  /\ Live(v) /\ f \notin Due(t) => (v.orphan = "no" <=> subscribed)
  /\ t.pc = "ins_trigger" /\ f = t.f => subscribed
  /\ t.pc = "stamp" /\ f = t.f => ~subscribed
  /\ t.pc \in {"del_trigger", "stamp"} /\ f \in t.feeds => (Live(v) => v.orphan = "no")

Settled(p) ==
  LET t == tx[p] IN
  /\ t.op \in SubscribeOps => t.feeds = {}
  /\ t.pc = "stamp" => t.f \notin t.feeds
  /\ t.pc \in {"delete_sub", "delete_user", "cascade"} =>
       \A u \in Users, f \in FeedIds : p \notin sub[u][f].by
  /\ \A f \in FeedIds : Owed(t, f, Seen(feed[f], p), SubscribedBy(f, p) # {})

\* A poll leaves the stamp of its feed alone.
PollsKeepStamps ==
  \A p \in Procs, f \in FeedIds :
    p \in feed[f].by /\ tx[p].op = "persist" => feed[f].next.orphan = feed[f].cur.orphan

RequestsAsk == \A p \in Procs : tx[p].op \in RequestOps => p \in Requests

SInv ==
  /\ SerialRequests /\ RequestsAsk /\ PollsKeepStamps /\ StampedIffOrphaned
  /\ \A p \in Requests : Settled(p)

-----------------------------------------------------------------------------
(* A request's own statements *)

\* What a statement writes to a feed its transaction sees, and nobody else does.
LEMMA FeedView ==
  ASSUME IInv, NEW p \in Procs, FeedStep(p), NEW f \in FeedIds
  PROVE  \/ feed'[f] = feed[f]
         \/ \E v \in FeedVals : /\ FeedWrite(p, f, v) /\ Free(feed[f], p)
                                /\ feed'[f] = Written(feed[f], p, v)
                                /\ Seen(feed'[f], p) = v
<1>1. ASSUME NEW v \in FeedVals, feed'[f] = Written(feed[f], p, v)
      PROVE  Seen(feed'[f], p) = v
  BY <1>1, WrittenRow DEF Seen
<1> QED BY <1>1 DEF FeedStep, WriteFeed, IInv, TypeOK

\* The rows behind the subscriptions a transaction sees are of feeds that are there.
LEMMA SeenFeeds ==
  ASSUME IInv, NEW p \in Procs, NEW u \in Users, NEW f \in FeedIds, Seen(sub[u][f], p)
  PROVE  feed[f] # Row(Unused)
<1>1. CASE sub[u][f].cur
  <2>1. Live(feed[f].cur)
    BY <1>1 DEF IInv, References
  <2> QED BY <2>1 DEF Row, Live, Unused
<1>2. CASE ~sub[u][f].cur
  <2>1. p \in sub[u][f].by /\ sub[u][f].next
    BY <1>2 DEF Seen
  <2>2. Live(Seen(feed[f], p))
    BY <1>2, <2>1 DEF IInv, InsertedSubs, SharedFeedsStay
  <2> QED BY <2>2 DEF Row, Seen, Live, Unused
<1> QED BY <1>1, <1>2

\* A statement without a trigger to run settles nothing and unsettles nothing, unless it
\* writes a subscription.
LEMMA QuietStatement ==
  ASSUME IInv, NEW p \in Procs, Settled(p), FeedStep(p), UNCHANGED sub,
         tx[p].pc \notin {"ins_trigger", "stamp", "del_trigger"},
         tx'[p].pc \notin {"ins_trigger", "stamp", "del_trigger"},
         tx'[p].pc \in {"delete_sub", "delete_user", "cascade"} => tx[p].pc = "delete_user",
         tx'[p].op \in SubscribeOps => tx'[p].feeds = {}
  PROVE  Settled(p)'
<1>1. ASSUME NEW f \in FeedIds
      PROVE  Live(Seen(feed'[f], p)) =>
               (Seen(feed'[f], p).orphan = "no" <=> SubscribedBy(f, p)' # {})
  <2>1. SubscribedBy(f, p)' = SubscribedBy(f, p)
    BY DEF SubscribedBy
  <2>2. Live(Seen(feed[f], p)) => (Seen(feed[f], p).orphan = "no" <=> SubscribedBy(f, p) # {})
    BY DEF Settled, Owed, Due
  <2>3. CASE feed'[f] = feed[f]
    BY <2>1, <2>2, <2>3
  <2>4. ASSUME NEW v \in FeedVals, FeedWrite(p, f, v), Seen(feed'[f], p) = v
        PROVE  Live(v) => (v.orphan = "no" <=> SubscribedBy(f, p)' # {})
    <3>1. CASE feed[f] = Row(Unused) /\ \E url \in Urls : v = NewFeed(url)
      <4>1. SubscribedBy(f, p) = {}
        BY <3>1, SeenFeeds DEF SubscribedBy
      <4> QED BY <2>1, <3>1, <4>1 DEF NewFeed
    <3>2. CASE Live(Seen(feed[f], p)) /\ v.orphan = Seen(feed[f], p).orphan
      BY <2>1, <2>2, <3>2
    <3>3. CASE v = Gone
      BY <3>3 DEF Gone, Live
    <3>4. \A url \in Urls : Live(Seen(feed[f], p)) =>
            [Seen(feed[f], p) EXCEPT !.url = url].orphan = Seen(feed[f], p).orphan
      BY FeedTypes DEF IInv, FeedVals, Unused, Gone, Live
    <3> QED BY <2>4, <3>1, <3>2, <3>3, <3>4 DEF FeedWrite
  <2> QED BY <2>3, <2>4, FeedView
<1>2. Due(tx'[p]) = {}
  BY DEF Due
<1>3. \A f \in FeedIds : Owed(tx'[p], f, Seen(feed'[f], p), SubscribedBy(f, p)' # {})
  BY <1>1, <1>2 DEF Owed
<1>4. tx'[p].pc \in {"delete_sub", "delete_user", "cascade"} =>
        \A u \in Users, f \in FeedIds : p \notin sub'[u][f].by
  BY DEF Settled
<1> QED BY <1>3, <1>4 DEF Settled, SubscribedBy

\* The statements of a subscribe or an import.
LEMMA SubscribeSettles ==
  ASSUME IInv, NEW p \in Procs, Settled(p), Steps(p),
         LockRow(p) \/ SelectFeed(p) \/ UpsertFeed(p) \/ ReselectFeed(p)
           \/ InsertSubscription(p) \/ InsertTrigger(p)
  PROVE  Settled(p)'
<1>1. /\ tx[p] \in Txs /\ tx \in [Procs -> Txs] /\ Fields(tx[p]) /\ FeedStep(p)
      /\ tx[p].op \in SubscribeOps /\ tx[p].u \in Users /\ tx[p].feeds = {}
  BY PcFacts DEF IInv, TypeOK, LockRow, SelectFeed, UpsertFeed, ReselectFeed,
     InsertSubscription, InsertTrigger, At, Steps, Settled
<1>2. tx'[p].feeds = {}
  <2>1. ASSUME NEW pc, tx' = [tx EXCEPT ![p].pc = pc]
        PROVE  tx'[p].feeds = tx[p].feeds
    BY <1>1, <2>1 DEF Txs
  <2>2. ASSUME NEW f, tx' = [tx EXCEPT ![p].pc = "insert_sub", ![p].f = f, ![p].url = None]
        PROVE  tx'[p].feeds = tx[p].feeds
    BY <1>1, <2>2 DEF Txs
  <2>3. CASE LockRow(p) \/ InsertTrigger(p)
    <3>1. CASE LockRow(p)
      BY <1>1, <3>1 DEF LockRow, Txs
    <3>2. CASE InsertTrigger(p)
      BY <1>1, <3>2 DEF InsertTrigger, Txs
    <3> QED BY <2>3, <3>1, <3>2
  <2>4. CASE SelectFeed(p)
    <3>1. PICK url \in tx[p].urls :
            \/ tx' = [tx EXCEPT ![p].pc = "upsert", ![p].url = url, ![p].urls = @ \ {url}]
            \/ \E f \in FeedIds :
                 tx' = [tx EXCEPT ![p].pc = "insert_sub", ![p].f = f, ![p].urls = @ \ {url}]
      BY <2>4 DEF SelectFeed, FeedsAt
    <3>2. CASE tx' = [tx EXCEPT ![p].pc = "upsert", ![p].url = url, ![p].urls = @ \ {url}]
      BY <1>1, <3>2 DEF Txs
    <3>3. ASSUME NEW f \in FeedIds,
                 tx' = [tx EXCEPT ![p].pc = "insert_sub", ![p].f = f, ![p].urls = @ \ {url}]
          PROVE  tx'[p].feeds = tx[p].feeds
      BY <1>1, <3>3 DEF Txs
    <3> QED BY <1>1, <3>1, <3>2, <3>3
  <2>5. CASE UpsertFeed(p) \/ ReselectFeed(p)
    <3>1. \/ \E pc : tx' = [tx EXCEPT ![p].pc = pc]
          \/ \E f : tx' = [tx EXCEPT ![p].pc = "insert_sub", ![p].f = f, ![p].url = None]
      BY <2>5 DEF UpsertFeed, ReselectFeed, Goto
    <3> QED BY <1>1, <2>1, <2>2, <3>1
  <2>6. CASE InsertSubscription(p)
    <3>1. CASE \E pc : Goto(p, pc)
      BY <1>1, <2>1, <3>1 DEF Goto
    <3>2. CASE tx' = [tx EXCEPT ![p].pc = "ins_trigger", ![p].count = @ + 1,
                                ![p].share = @ \cup {tx[p].f}]
      BY <1>1, <3>2 DEF Txs
    <3> QED BY <2>6, <3>1, <3>2 DEF InsertSubscription
  <2> QED BY <2>3, <2>4, <2>5, <2>6
<1>3. ASSUME tx[p].pc \in {"lock_row", "select", "upsert", "reselect", "insert_sub"},
             tx'[p].pc \in {"select", "upsert", "reselect", "insert_sub", "raise", "conflict",
                            "assert", "commit"},
             UNCHANGED sub
      PROVE  Settled(p)'
  BY <1>1, <1>2, <1>3, QuietStatement
<1>4. CASE LockRow(p) \/ SelectFeed(p) \/ UpsertFeed(p) \/ ReselectFeed(p)
  <2>1. tx[p].pc \in {"lock_row", "select", "upsert", "reselect"} /\ UNCHANGED sub
    BY <1>4 DEF LockRow, SelectFeed, UpsertFeed, ReselectFeed, At, tables
  <2>2. tx'[p].pc \in {"select", "upsert", "reselect", "insert_sub", "raise", "conflict",
                       "assert", "commit"}
    BY <1>1, <2>1 DEF Steps, SubscribeStep
  <2> QED BY <1>3, <2>1, <2>2
<1>5. CASE /\ InsertSubscription(p) /\ UNCHANGED sub
           /\ \E pc : Goto(p, pc) /\ pc \in {"raise", "conflict", "select", "commit"}
  <2>1. tx'[p].pc \in {"raise", "conflict", "select", "commit"}
    BY <1>1, <1>5 DEF Goto, Txs
  <2> QED BY <1>3, <1>5, <2>1 DEF InsertSubscription, At
<1>6. CASE /\ InsertSubscription(p)
           /\ sub' = [sub EXCEPT ![tx[p].u][tx[p].f] = Written(sub[tx[p].u][tx[p].f], p, TRUE)]
           /\ tx' = [tx EXCEPT ![p].pc = "ins_trigger", ![p].count = @ + 1,
                               ![p].share = @ \cup {tx[p].f}]
           /\ UNCHANGED feed
  <2> DEFINE f0 == tx[p].f
  <2>1. /\ tx[p].pc = "insert_sub" /\ f0 \in FeedIds
        /\ tx'[p].pc = "ins_trigger" /\ tx'[p].f = f0 /\ Due(tx[p]) = {} /\ Due(tx'[p]) = {f0}
    BY <1>1, <1>6 DEF InsertSubscription, At, Fields, Txs, Due
  <2>2. \A f \in FeedIds \ {f0} : SubscribedBy(f, p)' = SubscribedBy(f, p)
    BY <1>1, <1>6, <2>1 DEF SubscribedBy, IInv, TypeOK
  <2>3. tx[p].u \in SubscribedBy(f0, p)'
    <3>1. sub'[tx[p].u][f0] = Written(sub[tx[p].u][f0], p, TRUE)
      BY <1>1, <1>6, <2>1 DEF IInv, TypeOK
    <3>2. sub'[tx[p].u][f0].by = {p}
      BY <3>1 DEF Written
    <3>3. sub'[tx[p].u][f0].next = TRUE
      BY <3>1 DEF Written
    <3>4. Seen(sub'[tx[p].u][f0], p) = sub'[tx[p].u][f0].next
      BY <3>2 DEF Seen
    <3>5. Seen(sub'[tx[p].u][f0], p)
      BY <3>3, <3>4
    <3>6. SubscribedBy(f0, p)' = {u \in Users : Seen(sub'[u][f0], p)}
      BY <2>1 DEF SubscribedBy
    <3> QED BY <1>1, <3>5, <3>6
  <2>4. ASSUME NEW f \in FeedIds
        PROVE  Owed(tx'[p], f, Seen(feed'[f], p), SubscribedBy(f, p)' # {})
    BY <1>6, <2>1, <2>2, <2>3 DEF Settled, Owed
  <2> QED BY <1>2, <2>1, <2>4 DEF Settled, SubscribedBy
<1>7. CASE InsertTrigger(p)
  <2> DEFINE f0 == tx[p].f
  <2>1. /\ tx[p].pc = "ins_trigger" /\ f0 \in FeedIds /\ f0 \in tx[p].share
        /\ tx'[p].pc \in {"select", "commit"} /\ UNCHANGED sub
        /\ Due(tx[p]) = {f0} /\ Due(tx'[p]) = {}
    BY <1>1, <1>7 DEF InsertTrigger, At, Fields, Txs, Due, NextItem
  <2>2. \A f \in FeedIds : SubscribedBy(f, p)' = SubscribedBy(f, p)
    BY <2>1 DEF SubscribedBy
  <2>3. SubscribedBy(f0, p) # {}
    BY <2>1 DEF Settled, Owed
  <2>4. Seen(feed'[f0], p).orphan = "no" /\ \A f \in FeedIds \ {f0} : feed'[f] = feed[f]
    <3> DEFINE v == [Seen(feed[f0], p) EXCEPT !.orphan = "no"]
    <3>1. v.orphan = "no"
      <4>1. Live(Seen(feed[f0], p)) /\ Seen(feed[f0], p) \in FeedVals
        BY <2>1, FeedTypes DEF IInv, SharedFeedsStay
      <4> QED BY <4>1 DEF FeedVals, Live, Unused, Gone
    <3>2. CASE Seen(feed[f0], p).orphan = "no" /\ UNCHANGED feed
      BY <3>2
    <3> HIDE DEF v
    <3>3. CASE WriteFeed(f0, p, v)
      <4>1. feed'[f0] = Written(feed[f0], p, v) /\ \A f \in FeedIds \ {f0} : feed'[f] = feed[f]
        BY <2>1, <3>3 DEF WriteFeed, IInv, TypeOK
      <4>2. Seen(feed'[f0], p) = v
        BY <4>1, WrittenRow DEF Seen
      <4> QED BY <3>1, <4>1, <4>2
    <3> QED BY <1>7, <3>2, <3>3 DEF InsertTrigger, v
  <2>5. ASSUME NEW f \in FeedIds
        PROVE  Owed(tx'[p], f, Seen(feed'[f], p), SubscribedBy(f, p)' # {})
    BY <2>1, <2>2, <2>3, <2>4 DEF Settled, Owed
  <2> QED BY <1>2, <2>1, <2>5 DEF Settled, SubscribedBy
<1>8. InsertSubscription(p) =>
        \/ UNCHANGED sub /\ \E pc : Goto(p, pc) /\ pc \in {"raise", "conflict", "select", "commit"}
        \/ /\ sub' = [sub EXCEPT ![tx[p].u][tx[p].f] = Written(sub[tx[p].u][tx[p].f], p, TRUE)]
           /\ tx' = [tx EXCEPT ![p].pc = "ins_trigger", ![p].count = @ + 1,
                               ![p].share = @ \cup {tx[p].f}]
           /\ UNCHANGED feed
  BY DEF InsertSubscription, tables, NextItem
<1> QED BY <1>4, <1>5, <1>6, <1>7, <1>8

\* The delete trigger of one more feed has run, or found somebody left.
LEMMA TriggerSettles ==
  ASSUME IInv, NEW p \in Procs, Settled(p), UNCHANGED sub,
         DeleteTrigger(p) \/ Stamp(p)
  PROVE  Settled(p)'
<1>1. /\ tx[p] \in Txs /\ tx \in [Procs -> Txs] /\ Fields(tx[p])
      /\ tx[p].op \in {"unsubscribe", "delete_user"} /\ tx[p].op \notin SubscribeOps
  BY PcFacts DEF IInv, TypeOK, DeleteTrigger, Stamp, At, SubscribeOps
<1>2. \A f \in FeedIds : SubscribedBy(f, p)' = SubscribedBy(f, p)
  BY DEF SubscribedBy
<1>3. \A rest : /\ AfterTriggers(p, rest) \in {"del_trigger", "count", "commit"}
                /\ AfterTriggers(p, rest) = "del_trigger" <=> rest # {}
  BY DEF AfterTriggers
<1>4. CASE DeleteTrigger(p)
  <2>1. PICK f0 \in tx[p].feeds :
          IF SubscribedBy(f0, p) # {}
          THEN tx' = [tx EXCEPT ![p].feeds = tx[p].feeds \ {f0},
                                ![p].pc = AfterTriggers(p, tx[p].feeds \ {f0})]
          ELSE tx' = [tx EXCEPT ![p].feeds = tx[p].feeds \ {f0}, ![p].pc = "stamp", ![p].f = f0]
    BY <1>4 DEF DeleteTrigger
  <2>2. tx[p].pc = "del_trigger" /\ feed' = feed /\ Due(tx[p]) = tx[p].feeds
    BY <1>4 DEF DeleteTrigger, At, tables, Due
  <2>3. /\ tx'[p].feeds = tx[p].feeds \ {f0} /\ tx'[p].op = tx[p].op
        /\ SubscribedBy(f0, p) # {} =>
             /\ tx'[p].pc \in {"del_trigger", "count", "commit"}
             /\ tx'[p].pc = "del_trigger" <=> tx'[p].feeds # {}
        /\ SubscribedBy(f0, p) = {} => tx'[p].pc = "stamp" /\ tx'[p].f = f0
    BY <1>1, <1>3, <2>1 DEF Txs
  <2>4. Due(tx'[p]) = IF SubscribedBy(f0, p) # {} THEN tx[p].feeds \ {f0} ELSE tx[p].feeds
    BY <2>1, <2>3 DEF Due
  <2>5. ASSUME NEW f \in FeedIds
        PROVE  Owed(tx'[p], f, Seen(feed'[f], p), SubscribedBy(f, p)' # {})
    <3>1. Owed(tx[p], f, Seen(feed[f], p), SubscribedBy(f, p) # {})
      BY DEF Settled
    <3> QED BY <1>2, <2>1, <2>2, <2>3, <2>4, <3>1 DEF Owed
  <2> QED BY <1>1, <2>1, <2>3, <2>5 DEF Settled, SubscribedBy
<1>5. CASE Stamp(p)
  <2> DEFINE f0 == tx[p].f
             v == [Seen(feed[f0], p) EXCEPT !.orphan = "recent"]
  <2>1. /\ tx[p].pc = "stamp" /\ f0 \in FeedIds /\ f0 \notin tx[p].feeds
        /\ Due(tx[p]) = {f0} \cup tx[p].feeds
    BY <1>1, <1>5 DEF Stamp, At, Fields, Due, Settled
  <2>2. /\ tx'[p].feeds = tx[p].feeds /\ tx'[p].op = tx[p].op
        /\ tx'[p].pc \in {"del_trigger", "count", "commit"}
        /\ tx'[p].pc = "del_trigger" <=> tx'[p].feeds # {}
    BY <1>1, <1>3, <1>5 DEF Stamp, Goto, Txs
  <2>3. Due(tx'[p]) = tx[p].feeds
    BY <2>2 DEF Due
  <2>4. /\ \A f \in FeedIds \ {f0} : feed'[f] = feed[f]
        /\ Live(Seen(feed'[f0], p)) => Seen(feed'[f0], p).orphan # "no"
    <3>1. Live(Seen(feed[f0], p)) => v.orphan = "recent"
      BY <2>1, FeedTypes DEF IInv, FeedVals, Live, Unused, Gone
    <3>2. CASE ~Live(Seen(feed[f0], p)) /\ UNCHANGED feed
      BY <3>2
    <3> HIDE DEF v
    <3>3. CASE Live(Seen(feed[f0], p)) /\ WriteFeed(f0, p, v)
      <4>1. feed'[f0] = Written(feed[f0], p, v) /\ \A f \in FeedIds \ {f0} : feed'[f] = feed[f]
        BY <2>1, <3>3 DEF WriteFeed, IInv, TypeOK
      <4>2. Seen(feed'[f0], p) = v
        BY <4>1, WrittenRow DEF Seen
      <4> QED BY <3>1, <3>3, <4>1, <4>2
    <3> QED BY <1>5, <3>2, <3>3 DEF Stamp, v
  <2>5. ASSUME NEW f \in FeedIds
        PROVE  Owed(tx'[p], f, Seen(feed'[f], p), SubscribedBy(f, p)' # {})
    <3>1. Owed(tx[p], f, Seen(feed[f], p), SubscribedBy(f, p) # {})
      BY DEF Settled
    <3> QED BY <1>2, <2>1, <2>2, <2>3, <2>4, <3>1 DEF Owed
  <2> QED BY <1>1, <2>2, <2>5 DEF Settled, SubscribedBy
<1> QED BY <1>4, <1>5

\* The statements of an unsubscribe and of an account deletion.
LEMMA UnsubscribeSettles ==
  ASSUME IInv, NEW p \in Procs, Settled(p), Steps(p), Effects(p),
         DeleteSubscription(p) \/ DeleteTrigger(p) \/ Stamp(p) \/ CountRemaining(p)
           \/ DeleteStates(p) \/ DeleteFeed(p) \/ DeleteUser(p) \/ CascadeUser(p)
  PROVE  Settled(p)'
<1>1. /\ tx[p] \in Txs /\ tx \in [Procs -> Txs] /\ Fields(tx[p]) /\ FeedStep(p)
      /\ tx[p].op \in {"unsubscribe", "delete_user"} /\ tx[p].op \notin SubscribeOps
      /\ tx[p].u \in Users
  BY PcFacts DEF IInv, TypeOK, DeleteSubscription, DeleteTrigger, Stamp, CountRemaining,
     DeleteStates, DeleteFeed, DeleteUser, CascadeUser, At, SubscribeOps, Steps
<1>2. tx'[p].op = tx[p].op
  BY DEF Effects, TxEffect
<1>3. CASE DeleteTrigger(p) \/ Stamp(p)
  BY <1>3, TriggerSettles DEF DeleteTrigger, Stamp, tables
<1>4. CASE CountRemaining(p) \/ DeleteStates(p) \/ DeleteFeed(p) \/ DeleteUser(p)
  <2>1. /\ tx[p].pc \in {"count", "delete_states", "delete_feed", "delete_user"}
        /\ UNCHANGED sub
    BY <1>4 DEF CountRemaining, DeleteStates, DeleteFeed, DeleteUser, At, tables
  <2>2. /\ tx'[p].pc \in {"delete_states", "delete_feed", "commit", "cascade"}
        /\ tx'[p].pc = "cascade" => tx[p].pc = "delete_user"
    <3>1. ASSUME NEW pc, Goto(p, pc) PROVE tx'[p].pc = pc
      BY <1>1, <3>1 DEF Goto, Txs
    <3>2. CASE CountRemaining(p)
      BY <3>1, <3>2 DEF CountRemaining
    <3>3. CASE DeleteStates(p) \/ DeleteFeed(p)
      BY <3>1, <3>3 DEF DeleteStates, DeleteFeed
    <3>4. CASE DeleteUser(p)
      BY <3>1, <3>4 DEF DeleteUser, At
    <3> QED BY <1>4, <3>2, <3>3, <3>4
  <2> QED BY <1>1, <1>2, <2>1, <2>2, QuietStatement
<1>5. CASE DeleteSubscription(p) /\ UNCHANGED sub /\ Goto(p, "count")
  <2>1. tx[p].pc = "delete_sub" /\ tx'[p].pc = "count"
    BY <1>1, <1>5 DEF DeleteSubscription, At, Goto, Txs
  <2> QED BY <1>1, <1>2, <1>5, <2>1, QuietStatement
<1>6. ASSUME NEW gone \in SUBSET FeedIds,
             tx[p].pc \in {"delete_sub", "cascade"}, UNCHANGED feed,
             \A f \in gone : sub[tx[p].u][f].cur,
             \A u \in Users, f \in FeedIds : sub'[u][f] =
               IF u = tx[p].u /\ f \in gone THEN Written(sub[u][f], p, FALSE) ELSE sub[u][f],
             tx'[p].feeds = gone,
             tx'[p].pc \in {"del_trigger", "count", "commit"},
             tx'[p].pc = "del_trigger" <=> gone # {}
      PROVE  Settled(p)'
  <2>1. Due(tx[p]) = {} /\ Due(tx'[p]) = gone
    BY <1>6 DEF Due
  <2>2. \A u \in Users, f \in FeedIds : p \notin sub[u][f].by
    BY <1>6 DEF Settled
  <2>3. \A f \in FeedIds \ gone : SubscribedBy(f, p)' = SubscribedBy(f, p)
    BY <1>6 DEF SubscribedBy
  <2>4. \A f \in gone : tx[p].u \in SubscribedBy(f, p)
    BY <1>1, <1>6, <2>2 DEF SubscribedBy, Seen
  <2>5. ASSUME NEW f \in FeedIds
        PROVE  Owed(tx'[p], f, Seen(feed'[f], p), SubscribedBy(f, p)' # {})
    <3>1. Owed(tx[p], f, Seen(feed[f], p), SubscribedBy(f, p) # {})
      BY DEF Settled
    <3>2. feed'[f] = feed[f]
      BY <1>6
    <3>3. CASE f \in gone
      BY <1>6, <2>1, <2>4, <3>1, <3>2, <3>3 DEF Owed
    <3>4. CASE f \notin gone
      BY <1>6, <2>1, <2>3, <3>1, <3>2, <3>4 DEF Owed
    <3> QED BY <3>3, <3>4
  <2> QED BY <1>1, <1>2, <1>6, <2>5 DEF Settled, SubscribedBy
<1>7. CASE /\ DeleteSubscription(p) /\ sub[tx[p].u][tx[p].f].cur
           /\ sub' = [sub EXCEPT ![tx[p].u][tx[p].f] = Written(sub[tx[p].u][tx[p].f], p, FALSE)]
           /\ tx' = [tx EXCEPT ![p].pc = "del_trigger", ![p].feeds = {tx[p].f}]
  <2>1. tx[p].pc = "delete_sub" /\ UNCHANGED feed /\ tx[p].f \in FeedIds
    BY <1>7, PcFacts DEF DeleteSubscription, At, IInv
  <2>2. tx'[p].pc = "del_trigger" /\ tx'[p].feeds = {tx[p].f}
    BY <1>1, <1>7 DEF Txs
  <2>3. \A u \in Users, f \in FeedIds : sub'[u][f] =
          IF u = tx[p].u /\ f \in {tx[p].f} THEN Written(sub[u][f], p, FALSE) ELSE sub[u][f]
    BY <1>1, <1>7, <2>1 DEF IInv, TypeOK
  <2> QED BY <1>6, <1>7, <2>1, <2>2, <2>3
<1>8. CASE CascadeUser(p)
  <2> DEFINE gone == {f \in FeedIds : sub[tx[p].u][f].cur}
  <2>1. tx[p].pc = "cascade" /\ tx[p].op = "delete_user" /\ UNCHANGED feed
    BY <1>8, PcFacts DEF CascadeUser, At, IInv
  <2>2. /\ tx'[p].feeds = gone
        /\ tx'[p].pc = IF gone # {} THEN "del_trigger" ELSE "commit"
    BY <1>1, <1>8, <2>1 DEF CascadeUser, AfterTriggers, Txs
  <2>3. \A u \in Users, f \in FeedIds : sub'[u][f] =
          IF u = tx[p].u /\ f \in gone THEN Written(sub[u][f], p, FALSE) ELSE sub[u][f]
    BY <1>1, <1>8 DEF CascadeUser, IInv, TypeOK
  <2>4. gone \in SUBSET FeedIds /\ \A f \in gone : sub[tx[p].u][f].cur
    OBVIOUS
  <2> HIDE DEF gone
  <2> QED BY <1>6, <2>1, <2>2, <2>3, <2>4
<1> QED BY <1>3, <1>4, <1>5, <1>7, <1>8 DEF DeleteSubscription

\* A read/star write, and the statements of polls and sweeps.
LEMMA OthersSettle ==
  ASSUME IInv, NEW p \in Procs, Settled(p), Steps(p), Effects(p),
         WriteState(p) \/ Repoint(p) \/ InsertBatch(p) \/ RecordPoll(p) \/ SweepFeed(p)
           \/ CheckSweep(p)
  PROVE  Settled(p)'
<1>1. /\ tx[p] \in Txs /\ tx \in [Procs -> Txs] /\ FeedStep(p)
      /\ tx[p].op \in {"set_state", "persist", "gc"} /\ tx[p].op \notin SubscribeOps
  BY PcFacts DEF IInv, TypeOK, WriteState, Repoint, InsertBatch, RecordPoll, SweepFeed,
     CheckSweep, At, SubscribeOps, Steps
<1>2. /\ tx[p].pc \in {"write_state", "repoint", "insert_batch", "record", "gc_delete", "gc_check"}
      /\ UNCHANGED sub
  BY DEF WriteState, Repoint, InsertBatch, RecordPoll, SweepFeed, CheckSweep, At, tables
<1>3. tx'[p].op = tx[p].op
  BY DEF Effects, TxEffect
<1>4. tx'[p].pc \in {"insert_batch", "record", "gc_delete", "gc_check", "raise", "commit"}
  <2>1. ASSUME NEW pc, Goto(p, pc) PROVE tx'[p].pc = pc
    BY <1>1, <2>1 DEF Goto, Txs
  <2>2. CASE WriteState(p) \/ RecordPoll(p)
    BY <2>1, <2>2 DEF WriteState, RecordPoll
  <2>3. CASE Repoint(p)
    BY <2>1, <2>3 DEF Repoint
  <2>4. CASE InsertBatch(p)
    <3>1. CASE tx' = [tx EXCEPT ![p].pc = "record", ![p].share = {tx[p].f}]
      BY <1>1, <3>1 DEF Txs
    <3>2. CASE Goto(p, "record") \/ Goto(p, "raise")
      BY <2>1, <3>2
    <3> QED BY <2>4, <3>1, <3>2 DEF InsertBatch
  <2>5. CASE SweepFeed(p)
    <3>1. PICK f \in tx[p].feeds :
            tx' = [tx EXCEPT ![p].feeds = tx[p].feeds \ {f},
                             ![p].pc = IF tx[p].feeds \ {f} = {} THEN "gc_check" ELSE "gc_delete"]
      BY <2>5 DEF SweepFeed
    <3> QED BY <1>1, <3>1 DEF Txs
  <2>6. CASE CheckSweep(p)
    BY <2>1, <2>6 DEF CheckSweep
  <2> QED BY <2>2, <2>3, <2>4, <2>5, <2>6
<1> QED BY <1>1, <1>2, <1>3, <1>4, QuietStatement

-----------------------------------------------------------------------------
(* Every step *)

\* Nobody else's statement, begin or end touches what a request sees, if the others write
\* no subscriptions and leave stamps as they are.
LEMMA SameView ==
  ASSUME NEW p \in Procs, Settled(p), tx'[p] = tx[p],
         \A u \in Users, f \in FeedIds :
           /\ Seen(sub'[u][f], p) <=> Seen(sub[u][f], p)
           /\ p \in sub'[u][f].by => p \in sub[u][f].by,
         \A f \in FeedIds : Live(Seen(feed'[f], p)) =>
           /\ Live(Seen(feed[f], p))
           /\ Seen(feed'[f], p).orphan = "no" <=> Seen(feed[f], p).orphan = "no"
  PROVE  Settled(p)'
<1>1. \A f \in FeedIds : SubscribedBy(f, p)' = SubscribedBy(f, p)
  BY DEF SubscribedBy
<1>2. ASSUME NEW f \in FeedIds
      PROVE  Owed(tx'[p], f, Seen(feed'[f], p), SubscribedBy(f, p)' # {})
  <2>1. Owed(tx[p], f, Seen(feed[f], p), SubscribedBy(f, p) # {})
    BY DEF Settled
  <2> QED BY <1>1, <2>1 DEF Owed
<1> QED BY <1>2 DEF Settled, SubscribedBy

\* A request between transactions sees what is committed, and owes nothing.
LEMMA IdleSettled ==
  ASSUME IInv, StampedIffOrphaned, NEW p \in Procs, tx[p] = Idle
  PROVE  Settled(p)
<1>1. Idle.op = "none" /\ Idle.pc = "idle" /\ Due(Idle) = {}
  BY DEF Idle, Due
<1>2. \A f \in FeedIds : p \notin feed[f].by /\ \A u \in Users : p \notin sub[u][f].by
  BY <1>1 DEF IInv, IdleHoldsNothing
<1>3. ASSUME NEW f \in FeedIds
      PROVE  Owed(tx[p], f, Seen(feed[f], p), SubscribedBy(f, p) # {})
  <2>1. Seen(feed[f], p) = feed[f].cur
    BY <1>2 DEF Seen
  <2>2. SubscribedBy(f, p) = {u \in Users : sub[u][f].cur}
    BY <1>2 DEF SubscribedBy, Seen
  <2>3. Live(feed[f].cur) => (feed[f].cur.orphan = "no" <=> SubscribedBy(f, p) # {})
    BY <2>2 DEF StampedIffOrphaned
  <2> QED BY <1>1, <2>1, <2>3 DEF Owed
<1> QED BY <1>1, <1>3 DEF Settled, SubscribeOps

\* Statements preserve the invariant.
LEMMA StatementSInv ==
  ASSUME IInv, CInv, SInv, NEW p \in Procs, Statement(p)
  PROVE  SInv'
<1>1. Effects(p) /\ Steps(p) /\ FeedStep(p)
  BY StatementEffects, StatementSteps DEF IInv, CInv, Steps
<1>2. /\ \A q \in Procs \ {p} : tx'[q] = tx[q]
      /\ tx'[p].op = tx[p].op
  BY <1>1 DEF Effects, TxEffect
<1>3. RequestsAsk'
  BY <1>2 DEF SInv, RequestsAsk
<1>4. StampedIffOrphaned'
  <2>1. /\ \A f \in FeedIds : feed'[f].cur = feed[f].cur
        /\ \A u \in Users, f \in FeedIds : sub'[u][f].cur = sub[u][f].cur
    <3>1. \A f \in FeedIds : feed'[f].cur = feed[f].cur
      BY <1>1, FeedEffectKeeps DEF Effects
    <3> QED BY <1>1, <3>1, EffectsKeep
  <2> QED BY <2>1 DEF SInv, StampedIffOrphaned
<1>5. PollsKeepStamps'
  <2> SUFFICES ASSUME NEW q \in Procs, NEW f \in FeedIds, q \in feed'[f].by,
                      tx[q].op = "persist"
               PROVE  feed'[f].next.orphan = feed'[f].cur.orphan
    BY <1>2 DEF PollsKeepStamps
  <2>1. CASE feed'[f] = feed[f]
    BY <2>1 DEF SInv, PollsKeepStamps
  <2>2. ASSUME NEW v \in FeedVals, FeedWrite(p, f, v), feed'[f] = Written(feed[f], p, v)
        PROVE  feed'[f].next.orphan = feed'[f].cur.orphan
    <3>1. q = p /\ feed'[f].next = v /\ feed'[f].cur = feed[f].cur
      BY <2>2, WrittenRow
    <3>2. Seen(feed[f], p).orphan = feed[f].cur.orphan
      BY <3>1 DEF SInv, PollsKeepStamps, Seen
    <3>3. v.orphan = Seen(feed[f], p).orphan
      <4>1. tx[p].op = "persist" /\ tx[p].pc \notin {"ins_trigger", "stamp"}
        BY <3>1, PcFacts DEF IInv, SubscribeOps
      <4>2. \A url \in Urls : Live(Seen(feed[f], p)) =>
              [Seen(feed[f], p) EXCEPT !.url = url].orphan = Seen(feed[f], p).orphan
        BY FeedTypes DEF IInv, FeedVals, Unused, Gone, Live
      <4> QED BY <2>2, <4>1, <4>2 DEF FeedWrite, SubscribeOps
    <3> QED BY <3>1, <3>2, <3>3
  <2> QED BY <1>1, <2>1, <2>2, FeedView
<1>6. ASSUME NEW q \in Requests PROVE Settled(q)'
  <2>1. q \in Procs /\ Settled(q)
    BY DEF Procs, SInv
  <2>2. CASE q = p
    BY <1>1, <2>1, <2>2, SubscribeSettles, UnsubscribeSettles, OthersSettle DEF Statement
  <2>3. CASE q # p
    <3>1. tx[p].op \notin RequestOps
      BY <2>3 DEF SInv, RequestsAsk, SerialRequests
    <3>2. \A u \in Users, f \in FeedIds : sub'[u][f] = sub[u][f]
      BY <1>1, <3>1 DEF Steps, SubStep, SubscribeOps, RequestOps
    <3>3. ASSUME NEW f \in FeedIds PROVE Seen(feed'[f], q) = Seen(feed[f], q)
      <4>1. CASE feed'[f] = feed[f]
        BY <4>1
      <4>2. ASSUME NEW v \in FeedVals, Free(feed[f], p), feed'[f] = Written(feed[f], p, v)
            PROVE  Seen(feed'[f], q) = Seen(feed[f], q)
        <5>1. q \notin feed[f].by /\ feed'[f].by = {p} /\ feed'[f].cur = feed[f].cur
          BY <2>3, <4>2, WrittenRow DEF Free
        <5> QED BY <2>3, <5>1 DEF Seen
      <4> QED BY <1>1, <4>1, <4>2, FeedView
    <3> QED BY <1>2, <2>1, <2>3, <3>2, <3>3, SameView
  <2> QED BY <2>2, <2>3
<1> QED BY <1>3, <1>4, <1>5, <1>6 DEF SInv

\* So does beginning a transaction.
LEMMA BeginSInv ==
  ASSUME IInv, SInv, NEW p \in Procs, Begins(p)
  PROVE  SInv'
<1>1. /\ feed' = feed /\ sub' = sub
      /\ \A q \in Procs \ {p} : tx'[q] = tx[q]
      /\ tx[p].op = "none" /\ Fields(tx'[p])
  BY BeginTx DEF tables
<1>2. /\ tx'[p].op \in RequestOps => p \in Requests
      /\ tx'[p].pc \notin {"ins_trigger", "stamp", "del_trigger"}
      /\ tx'[p].op \in SubscribeOps => tx'[p].feeds = {}
  <2> DEFINE Started(t) ==
        /\ t.op \in RequestOps => p \in Requests
        /\ t.pc \notin {"ins_trigger", "stamp", "del_trigger"}
        /\ t.op \in SubscribeOps => t.feeds = {}
  <2>1. ASSUME NEW t, Started(t), Begin(p, t) PROVE Started(tx'[p])
    <3>1. tx'[p] = t
      BY <2>1 DEF Begin, IInv, TypeOK
    <3> QED BY <2>1, <3>1
  <2>2. p \in Requests =>
        /\ \A u \in Users, url \in Urls :
             Started([Idle EXCEPT !.op = "subscribe", !.pc = "lock_row", !.u = u, !.urls = {url}])
        /\ \A u \in Users, urls \in SUBSET Urls :
             Started([Idle EXCEPT !.op = "import", !.pc = "lock_row", !.u = u, !.urls = urls])
        /\ \A u \in Users, f \in FeedIds :
             Started([Idle EXCEPT !.op = "unsubscribe", !.pc = "delete_sub", !.u = u, !.f = f])
        /\ \A u \in Users :
             Started([Idle EXCEPT !.op = "delete_user", !.pc = "delete_user", !.u = u])
        /\ \A u \in Users, f \in FeedIds :
             Started([Idle EXCEPT !.op = "set_state", !.pc = "write_state", !.u = u, !.f = f])
    BY DEF Idle, SubscribeOps
  <2>3. /\ \A f \in FeedIds, url \in Urls \cup {None} :
             Started([Idle EXCEPT !.op = "persist", !.pc = "repoint", !.f = f, !.url = url])
        /\ \A feeds : Started([Idle EXCEPT !.op = "gc", !.pc = "gc_delete", !.feeds = feeds])
    BY DEF Idle, SubscribeOps, RequestOps
  <2> HIDE DEF Started
  <2>4. \E t : Started(t) /\ Begin(p, t)
    BY <2>2, <2>3 DEF Begins, BeginSubscribe, BeginImport, BeginUnsubscribe, BeginDeleteUser,
       BeginSetState, BeginPersist, BeginSweep
  <2>5. Started(tx'[p])
    BY <2>1, <2>4
  <2> QED BY <2>5 DEF Started
<1>3. RequestsAsk' /\ StampedIffOrphaned'
  BY <1>1, <1>2 DEF SInv, RequestsAsk, StampedIffOrphaned
<1>4. \A f \in FeedIds : p \notin feed[f].by /\ \A u \in Users : p \notin sub[u][f].by
  BY <1>1 DEF IInv, IdleHoldsNothing
<1>5. PollsKeepStamps'
  BY <1>1, <1>4 DEF SInv, PollsKeepStamps
<1>6. ASSUME NEW q \in Requests PROVE Settled(q)'
  <2>1. q \in Procs /\ Settled(q)
    BY DEF Procs, SInv
  <2>2. CASE q # p
    BY <1>1, <2>1, <2>2, SameView
  <2>3. CASE q = p
    <3>1. tx[p] = Idle
      BY <1>1 DEF IInv, FieldsSet, Fields
    <3>2. Due(tx[p]) = {} /\ Due(tx'[p]) = {}
      BY <1>2, <3>1 DEF Idle, Due
    <3>3. ASSUME NEW f \in FeedIds
          PROVE  Owed(tx'[p], f, Seen(feed'[f], p), SubscribedBy(f, p)' # {})
      <4>1. Owed(tx[p], f, Seen(feed[f], p), SubscribedBy(f, p) # {})
        BY <2>1, <2>3 DEF Settled
      <4>2. SubscribedBy(f, p)' = SubscribedBy(f, p)
        BY <1>1 DEF SubscribedBy
      <4> QED BY <1>1, <1>2, <3>2, <4>1, <4>2 DEF Owed
    <3> QED BY <1>1, <1>2, <1>4, <2>3, <3>3 DEF Settled, SubscribedBy
  <2> QED BY <2>2, <2>3
<1> QED BY <1>3, <1>5, <1>6 DEF SInv

\* Ending one leaves a request that still runs what it sees, and commits what is settled.
LEMMA EndSInv ==
  ASSUME IInv, IInv', CInv, SInv, NEW p \in Procs, Commit(p) \/ Rollback(p)
  PROVE  SInv'
<1>1. /\ \A f \in FeedIds : Ended(feed'[f], feed[f], p)
      /\ \A u \in Users, f \in FeedIds : Ended(sub'[u][f], sub[u][f], p)
      /\ tx'[p] = Idle /\ \A q \in Procs \ {p} : tx'[q] = tx[q]
  BY EndRows DEF IInv
<1>2. Idle.op = "none"
  BY DEF Idle
<1>3. RequestsAsk'
  BY <1>1, <1>2 DEF SInv, RequestsAsk, RequestOps
<1>4. PollsKeepStamps'
  <2> SUFFICES ASSUME NEW q \in Procs, NEW f \in FeedIds, q \in feed'[f].by,
                      tx'[q].op = "persist"
               PROVE  feed'[f].next.orphan = feed'[f].cur.orphan
    BY DEF PollsKeepStamps
  <2>1. q # p /\ feed'[f] = feed[f]
    BY <1>1, <1>2, StillWritten
  <2> QED BY <1>1, <2>1 DEF SInv, PollsKeepStamps
<1>5. ASSUME p \notin Requests, NEW f \in FeedIds
      PROVE  /\ \A u \in Users : p \notin sub[u][f].by
             /\ p \in feed[f].by /\ Live(feed[f].next) =>
                  Live(feed[f].cur) /\ feed[f].next.orphan = feed[f].cur.orphan
  <2>1. tx[p].op \notin RequestOps
    BY <1>5 DEF SInv, RequestsAsk
  <2>2. \A u \in Users : p \notin sub[u][f].by
    BY <2>1 DEF CInv, Writers, SubWriters, SubscribeOps, RequestOps
  <2>3. p \in feed[f].by /\ Live(feed[f].next) => tx[p].op = "persist" /\ Live(feed[f].cur)
    BY <2>1 DEF CInv, Writers, FeedWriters, SubscribeOps, RequestOps
  <2> QED BY <2>2, <2>3 DEF SInv, PollsKeepStamps
<1>6. StampedIffOrphaned'
  <2>1. CASE Rollback(p)
    <3>1. /\ \A f \in FeedIds : feed'[f].cur = feed[f].cur
          /\ \A u \in Users, f \in FeedIds : sub'[u][f].cur = sub[u][f].cur
      BY <2>1 DEF Rollback, RolledBack, Row
    <3> QED BY <3>1 DEF SInv, StampedIffOrphaned
  <2>2. CASE Commit(p)
    <3>1. /\ \A f \in FeedIds : feed'[f].cur = Seen(feed[f], p)
          /\ \A u \in Users, f \in FeedIds : sub'[u][f].cur = Seen(sub[u][f], p)
          /\ tx[p].pc = "commit"
      BY <2>2, CommittedRows
    <3>2. CASE p \in Requests
      <4>1. Due(tx[p]) = {}
        BY <3>1 DEF Due
      <4>2. ASSUME NEW f \in FeedIds
            PROVE  /\ Owed(tx[p], f, Seen(feed[f], p), SubscribedBy(f, p) # {})
                   /\ SubscribedBy(f, p) # {} <=> \E u \in Users : sub'[u][f].cur
        BY <3>1, <3>2 DEF SInv, Settled, SubscribedBy
      <4> QED BY <3>1, <4>1, <4>2 DEF Owed, StampedIffOrphaned
    <3>3. CASE p \notin Requests
      <4>1. ASSUME NEW f \in FeedIds
            PROVE  /\ \A u \in Users : sub'[u][f].cur = sub[u][f].cur
                   /\ Live(feed'[f].cur) =>
                        Live(feed[f].cur) /\ feed'[f].cur.orphan = feed[f].cur.orphan
        BY <1>5, <3>1, <3>3 DEF Seen
      <4> QED BY <4>1 DEF SInv, StampedIffOrphaned
    <3> QED BY <3>2, <3>3
  <2> QED BY <2>1, <2>2
<1>7. ASSUME NEW q \in Requests PROVE Settled(q)'
  <2>1. q \in Procs /\ Settled(q)
    BY DEF Procs, SInv
  <2>2. CASE q = p
    <3>1. Idle.pc = "idle" /\ Due(Idle) = {}
      BY DEF Idle, Due
    <3>2. \A f \in FeedIds : p \notin feed'[f].by /\ \A u \in Users : p \notin sub'[u][f].by
      BY <1>1, EndedFacts
    <3>3. ASSUME NEW f \in FeedIds
          PROVE  Owed(Idle, f, Seen(feed'[f], p), SubscribedBy(f, p)' # {})
      <4>1. Seen(feed'[f], p) = feed'[f].cur
        BY <3>2 DEF Seen
      <4>2. \A u \in Users : Seen(sub'[u][f], p) <=> sub'[u][f].cur
        BY <3>2 DEF Seen
      <4>3. SubscribedBy(f, p)' # {} <=> \E u \in Users : sub'[u][f].cur
        BY <4>2 DEF SubscribedBy
      <4>4. Live(feed'[f].cur) => (feed'[f].cur.orphan = "no" <=> SubscribedBy(f, p)' # {})
        BY <1>6, <4>3 DEF StampedIffOrphaned
      <4> QED BY <3>1, <4>1, <4>4 DEF Owed
    <3> QED BY <1>1, <1>2, <2>2, <3>1, <3>3 DEF Settled, SubscribedBy, SubscribeOps
  <2>3. CASE q # p
    <3>1. p \notin Requests
      BY <2>3 DEF SInv, SerialRequests
    <3>2. ASSUME NEW u \in Users, NEW f \in FeedIds PROVE sub'[u][f] = sub[u][f]
      BY <1>1, <1>5, <3>1 DEF Ended
    <3>3. ASSUME NEW f \in FeedIds, Live(Seen(feed'[f], q))
          PROVE  /\ Live(Seen(feed[f], q))
                 /\ Seen(feed'[f], q).orphan = Seen(feed[f], q).orphan
      <4>1. CASE p \notin feed[f].by
        BY <1>1, <3>3, <4>1 DEF Ended
      <4>2. CASE p \in feed[f].by
        <5>1. q \notin feed[f].by
          BY <2>1, <2>3, <4>2, FeedTypes, RowFacts DEF IInv
        <5>2. /\ feed'[f].by = {}
              /\ feed'[f].cur = feed[f].cur \/ feed'[f].cur = feed[f].next
          BY <1>1, <4>2, EndedFacts
        <5> QED BY <1>5, <3>1, <3>3, <4>2, <5>1, <5>2 DEF Seen
      <4> QED BY <4>1, <4>2
    <3> QED BY <1>1, <2>1, <2>3, <3>2, <3>3, SameView
  <2> QED BY <2>2, <2>3
<1> QED BY <1>3, <1>4, <1>6, <1>7 DEF SInv

\* The passing of the grace period turns one stamp that is set into another.
LEMMA GraceSInv ==
  ASSUME IInv, SInv, NEW f \in FeedIds, GracePasses(f)
  PROVE  SInv'
<1>1. sub' = sub /\ tx' = tx
  BY DEF GracePasses
<1>2. ASSUME NEW g \in FeedIds
      PROVE  /\ feed'[g].by = {} /\ feed[g].by = {}
             /\ Live(feed'[g].cur) <=> Live(feed[g].cur)
             /\ feed'[g].cur.orphan = "no" <=> feed[g].cur.orphan = "no"
  <2>1. feed'[g].by = {} /\ (Live(feed'[g].cur) <=> Live(feed[g].cur))
    BY GraceRows DEF Live
  <2>2. feed[g].by = {} /\ feed[g].cur \in FeedVals
    <3>1. \A p \in Procs : tx[p].op = "none"
      BY PcFacts DEF GracePasses, At, IInv
    <3> QED BY <3>1, FeedTypes, RowFacts DEF IInv, IdleHoldsNothing
  <2>3. CASE g = f
    <3> DEFINE v == [feed[g].cur EXCEPT !.orphan = "expired"]
    <3>1. feed'[g] = Row(v) /\ feed[g].cur.orphan = "recent"
      BY <2>3 DEF GracePasses, IInv, TypeOK
    <3>2. v.orphan = "expired"
      BY <2>2 DEF FeedVals, Unused, Gone
    <3> HIDE DEF v
    <3>3. feed'[g].cur = v
      BY <3>1 DEF Row
    <3> QED BY <2>1, <2>2, <3>1, <3>2, <3>3
  <2>4. CASE g # f
    <3>1. feed'[g] = feed[g]
      BY <2>4 DEF GracePasses, IInv, TypeOK
    <3> QED BY <2>1, <2>2, <3>1
  <2> QED BY <2>3, <2>4
<1>3. RequestsAsk' /\ PollsKeepStamps'
  BY <1>1, <1>2 DEF SInv, RequestsAsk, PollsKeepStamps
<1>4. StampedIffOrphaned'
  BY <1>1, <1>2 DEF SInv, StampedIffOrphaned
<1>5. ASSUME NEW p \in Requests PROVE Settled(p)'
  <2>1. p \in Procs /\ Settled(p)
    BY DEF Procs, SInv
  <2>2. \A g \in FeedIds : Seen(feed'[g], p) = feed'[g].cur /\ Seen(feed[g], p) = feed[g].cur
    BY <1>2 DEF Seen
  <2> QED BY <1>1, <1>2, <2>1, <2>2, SameView
<1> QED BY <1>3, <1>4, <1>5 DEF SInv

\* A step that changes nothing preserves the invariant.
LEMMA StutterSInv ==
  ASSUME SInv, UNCHANGED vars
  PROVE  SInv'
<1>1. feed' = feed /\ sub' = sub /\ tx' = tx
  BY DEF vars
<1>2. RequestsAsk' /\ PollsKeepStamps' /\ StampedIffOrphaned'
  BY <1>1 DEF SInv, RequestsAsk, PollsKeepStamps, StampedIffOrphaned
<1>3. ASSUME NEW p \in Requests PROVE Settled(p)'
  BY <1>1 DEF SInv, Settled, SubscribedBy
<1> QED BY <1>2, <1>3 DEF SInv

\* The empty catalog satisfies it.
LEMMA InitSInv == SerialRequests /\ Init => SInv
<1> SUFFICES ASSUME SerialRequests, Init PROVE SInv
  OBVIOUS
<1>1. /\ \A f \in FeedIds : feed[f].cur = Unused /\ feed[f].by = {}
      /\ \A p \in Procs : tx[p] = Idle
  BY DEF Init, Row
<1>2. ~Live(Unused) /\ Idle.op = "none"
  BY DEF Live, Unused, Idle
<1>3. RequestsAsk /\ PollsKeepStamps /\ StampedIffOrphaned
  BY <1>1, <1>2 DEF RequestsAsk, PollsKeepStamps, StampedIffOrphaned, RequestOps
<1>4. \A p \in Requests : Settled(p)
  BY <1>1, <1>3, InitInv, IdleSettled DEF Procs
<1> QED BY <1>3, <1>4 DEF SInv

\* With one request at a time the three invariants together are inductive.
LEMMA SerialInvariance == SerialRequests /\ Spec => []SInv
<1>1. ASSUME IInv, IInv', CInv, SInv, [Next]_vars PROVE SInv'
  <2>1. ASSUME NEW p \in Procs, Begins(p) PROVE SInv'
    BY <1>1, <2>1, BeginSInv
  <2>2. ASSUME NEW p \in Procs, Statement(p) PROVE SInv'
    BY <1>1, <2>2, StatementSInv
  <2>3. ASSUME NEW p \in Procs, Commit(p) \/ Rollback(p) PROVE SInv'
    BY <1>1, <2>3, EndSInv
  <2>4. ASSUME NEW f \in FeedIds, GracePasses(f) PROVE SInv'
    BY <1>1, <2>4, GraceSInv
  <2>5. CASE UNCHANGED vars
    BY <1>1, <2>5, StutterSInv
  <2> QED BY <1>1, <2>1, <2>2, <2>3, <2>4, <2>5 DEF Next
<1> QED BY <1>1, InitSInv, CatalogInvariance, PTL DEF Spec

\* While requests run one at a time, whatever polls and sweeps overlap them, a feed
\* carries an orphan stamp exactly while nobody subscribes to it: the two triggers of
\* feeds_track_orphan never leave a subscribed feed to the GC or an orphan out of it.
THEOREM SerialStamps == SerialRequests /\ Spec => []StampedIffOrphaned
<1>1. SInv => StampedIffOrphaned
  BY DEF SInv
<1> QED BY <1>1, SerialInvariance, PTL
=============================================================================
