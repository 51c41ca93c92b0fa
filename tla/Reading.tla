------------------------------- MODULE Reading -------------------------------
(***************************************************************************)
(* Entries and what users have read: polls insert entries, users subscribe, *)
(* mark and star, the retention sweep purges, and a client pages through a  *)
(* stream while all that goes on.  Streams, counts, the purge and           *)
(* mark-all-read are separate SQL queries over the same tables; here each   *)
(* is an operator, and the properties are about how they fit together.      *)
(*                                                                          *)
(* A request is one action (FeedLifecycle has their interleaving statement  *)
(* by statement) but for subscribing, which reads the feed's head first, and *)
(* a poll is several: the ids of its rows are drawn from the sequence as    *)
(* they are inserted and become visible together at its commit.  One poll   *)
(* at a time inserts into a feed (PollerProofs!Exclusive).                  *)
(***************************************************************************)
EXTENDS Integers, FiniteSets, FiniteSetsExt

CONSTANTS Users, Feeds, Folders,
          Items,        \* what the feeds' documents list
          FeedOf,       \* item -> its feed
          OwnerOf,      \* folder -> its user
          Published,    \* item -> published_at; it orders the listing, ties included
          MaxId,        \* bound: entries.id values the sequence hands out
          PageSize,     \* limit of a page
          Paged,        \* bound: who pages through what, as [user, stream, status, search]
          None

Ids == 1 .. MaxId

VARIABLES entry,  \* entries: id -> the item and where its row is
          sub,    \* subscriptions: user, feed -> row or None
          state,  \* entry_states: user, id -> row or None
          joining, \* a create_subscription between reading the head and inserting, or None
          walk    \* a client going through the pages of a stream, or None

tables == <<entry, sub, state, joining>>
vars == <<entry, sub, state, joining, walk>>

\* "pending" is inserted by a poll that has not committed; "purged" is gone as well (for
\* PurgeInvisible).
Entries == [item : Items, at : {"pending", "live"}]
             \cup [item : {None}, at : {"unused", "gone", "purged"}]
Subs == [since : 0 .. MaxId, folder : Folders \cup {None}]
States == [read : BOOLEAN, star : BOOLEAN]
Joins == [user : Users, feed : Feeds, since : 0 .. MaxId]

Init ==
  /\ entry = [i \in Ids |-> [item |-> None, at |-> "unused"]]
  /\ sub = [u \in Users |-> [f \in Feeds |-> None]]
  /\ state = [u \in Users |-> [i \in Ids |-> None]]
  /\ joining = None
  /\ walk = None

Live == {i \in Ids : entry[i].at = "live"}
Feed(i) == FeedOf[entry[i].item]
InFeed(f) == {i \in Live : Feed(i) = f}
Subscribed(u, f) == sub[u][f] # None
IsRead(u, i) == state[u][i] # None /\ state[u][i].read
IsStarred(u, i) == state[u][i] # None /\ state[u][i].star

-----------------------------------------------------------------------------
(* Queries *)

Streams == [kind : {"all", "starred"}, ref : {None}]
             \cup [kind : {"feed"}, ref : Feeds] \cup [kind : {"folder"}, ref : Folders]

\* The rows the stream's joins let through: _apply_stream with status "all".
Members(u, s) ==
  {i \in Live :
    \/ s.kind = "starred" /\ IsStarred(u, i)
    \/ /\ s.kind # "starred" /\ Subscribed(u, Feed(i))
       /\ s.kind = "feed" => Feed(i) = s.ref
       /\ s.kind = "folder" => sub[u][Feed(i)].folder = s.ref}

\* _apply_stream with status "unread": the starred stream has no subscription to bound it.
UnreadMembers(u, s) ==
  {i \in Members(u, s) :
    ~IsRead(u, i) /\ (s.kind # "starred" => i > sub[u][Feed(i)].since)}

Listed(u, s, status) == IF status = "unread" THEN UnreadMembers(u, s) ELSE Members(u, s)

\* unread_counts: the entries of the subscription's feed past since_entry_id that no read
\* row of the user joins to.
UnreadCountMutant(u, f) ==
  Cardinality(InFeed(f) \ {i \in Ids : IsRead(u, i)})
UnreadCount(u, f) ==
  Cardinality({i \in InFeed(f) : i > sub[u][f].since}
                \ {i \in Ids : IsRead(u, i)})

\* get_for_user: what GET /entries/{id} finds.
Found(u, i) == i \in Live /\ Subscribed(u, Feed(i))

\* The listing's order is newest published first, a search's newest id first; a page's
\* cursor is the key of its last row, and the next page holds the rows below it.  Items a
\* search does not match are as if absent: Items are the others.
Key(i, search) == IF search THEN <<0, i>> ELSE <<Published[entry[i].item], i>>
Below(k, c) == k[1] < c[1] \/ (k[1] = c[1] /\ k[2] < c[2])

\* The cursor's WHERE clause spells the order of the ORDER BY out again.
PastMutant(k, c) == k[1] < c[1]
Past(k, c) == k[1] < c[1] \/ (k[1] = c[1] /\ k[2] < c[2])

\* One page: the first PageSize rows of the stream below the cursor.
Page(u, w) ==
  LET rows == {i \in Listed(u, w.stream, w.status) :
                 w.cursor # None => Past(Key(i, w.search), w.cursor)}
      Rank(i) == Cardinality({j \in rows : Below(Key(i, w.search), Key(j, w.search))})
  IN  {i \in rows : Rank(i) < PageSize}

Walks == [user : Users, stream : Streams, status : {"unread", "all"}, search : BOOLEAN,
          cursor : (Nat \X Nat) \cup {None}, seen : SUBSET Ids, rows : Nat,
          owed : SUBSET Ids, done : BOOLEAN]

ASSUME ReadingAssumption ==
  /\ IsFiniteSet(Items) /\ IsFiniteSet(Feeds)
  /\ FeedOf \in [Items -> Feeds] /\ Published \in [Items -> Nat]
  /\ OwnerOf \in [Folders -> Users]
  /\ MaxId \in Nat /\ PageSize \in Nat \ {0}
  /\ Paged \subseteq [user : Users, stream : Streams, status : {"unread", "all"}, search : BOOLEAN]
  /\ None \notin Users \cup Feeds \cup Folders \cup Items \cup BOOLEAN \cup Subs \cup States
                  \cup Joins \cup Walks \cup (Nat \X Nat)

\* "owed" are the rows in the stream ever since the walk began that no page has held (for
\* WalkComplete); every step drops what leaves the stream, and forgets a walk that ended.
Wanted(w) == Listed(w.user, w.stream, w.status)
KeepWalk ==
  \E w \in {walk} :
    walk' = IF w = None \/ w.done THEN None ELSE [w EXCEPT !.owed = @ \cap Wanted(w)']

-----------------------------------------------------------------------------
(* Polls *)

PendingOf(f) == {i \in Ids : entry[i].at = "pending" /\ Feed(i) = f}

\* One row of insert_batch: skipped when the feed has an entry of that guid.
InsertRow(item) ==
  /\ \A i \in Live \cup PendingOf(FeedOf[item]) : entry[i].item # item
  /\ \E i \in Ids :
       /\ entry[i].at = "unused"
       /\ \A j \in Ids : j < i => entry[j].at # "unused"
       /\ entry' = [entry EXCEPT ![i] = [item |-> item, at |-> "pending"]]
  /\ UNCHANGED <<sub, state, joining>>

CommitPoll(f) ==
  /\ PendingOf(f) # {}
  /\ entry' = [i \in Ids |-> IF i \in PendingOf(f) THEN [entry[i] EXCEPT !.at = "live"] ELSE entry[i]]
  /\ UNCHANGED <<sub, state, joining>>

\* Deleting rows takes their entry_states with them; the ids are not used again.
Delete(S, how) ==
  /\ entry' = [i \in Ids |-> IF i \in S THEN [item |-> None, at |-> how] ELSE entry[i]]
  /\ state' = [u \in Users |-> [i \in Ids |-> IF i \in S THEN None ELSE state[u][i]]]

AbortPoll(f) == PendingOf(f) # {} /\ Delete(PendingOf(f), "gone") /\ UNCHANGED <<sub, joining>>

-----------------------------------------------------------------------------
(* Subscriptions *)

\* max_id_for_feed: the highest id of the feed's committed entries, 0 if there are none.
HeadOfMutant(f) == Max({0} \cup {i \in Ids : entry[i].at # "unused"})
HeadOf(f) == Max({0} \cup InFeed(f))

ReadHead(u, f) ==
  /\ joining = None /\ ~Subscribed(u, f)
  /\ joining' = [user |-> u, feed |-> f, since |-> HeadOf(f)]
  /\ UNCHANGED <<entry, sub, state>>

FoldersOf(u) == {g \in Folders : OwnerOf[g] = u} \cup {None}

Subscribe(folder) ==
  /\ joining # None /\ folder \in FoldersOf(joining.user)
  /\ sub' = [sub EXCEPT ![joining.user][joining.feed] = [since |-> joining.since, folder |-> folder]]
  /\ joining' = None
  /\ UNCHANGED <<entry, state>>

MoveToFolder(u, f, folder) ==
  /\ folder \in FoldersOf(u) /\ Subscribed(u, f) /\ sub[u][f].folder # folder
  /\ sub' = [sub EXCEPT ![u][f].folder = folder]
  /\ UNCHANGED <<entry, state, joining>>

\* The foreign key is ON DELETE SET NULL; the name then stands for a folder yet to come.
DeleteFolder(u, folder) ==
  /\ \E f \in Feeds : Subscribed(u, f) /\ sub[u][f].folder = folder
  /\ sub' = [sub EXCEPT ![u] = [f \in Feeds |->
               IF Subscribed(u, f) /\ sub[u][f].folder = folder
               THEN [sub[u][f] EXCEPT !.folder = None] ELSE sub[u][f]]]
  /\ UNCHANGED <<entry, state, joining>>

\* Leaving a feed: the user's states of its entries go, or, with the last subscriber, the
\* feed and all its entries; a subscribe under way then fails on its foreign key.
UnsubscribeMutant(u, f) ==
  /\ Subscribed(u, f)
  /\ sub' = [sub EXCEPT ![u][f] = None]
  /\ UNCHANGED <<entry, state, joining>>
Unsubscribe(u, f) ==
  /\ Subscribed(u, f)
  /\ sub' = [sub EXCEPT ![u][f] = None]
  /\ IF \E v \in Users \ {u} : Subscribed(v, f)
     THEN /\ state' = [state EXCEPT ![u] = [i \in Ids |->
                         IF i \in InFeed(f) THEN None ELSE state[u][i]]]
          /\ UNCHANGED <<entry, joining>>
     ELSE /\ Delete(InFeed(f) \cup PendingOf(f), "gone")
          /\ joining' = IF joining # None /\ joining.feed = f THEN None ELSE joining

-----------------------------------------------------------------------------
(* Read and star state *)

\* The row after a write of the flags that are not None, one that its changed_at lets
\* through (OfflineQueue has the merge by changed_at).
Written(row, read, star) ==
  [read |-> IF read # None THEN read ELSE row # None /\ row.read,
   star |-> IF star # None THEN star ELSE row # None /\ row.star]

\* POST /entries/state on one id (a batch is independent writes, one of both flags is two):
\* ids that are not there or not in a subscribed feed are skipped.
SetState(u, i, read, star) ==
  /\ i \in Live /\ Subscribed(u, Feed(i))
  /\ state' = [state EXCEPT ![u][i] = Written(@, read, star)]
  /\ UNCHANGED <<entry, sub, joining>>

\* mark_read_bounded: what is in the stream and past since_entry_id, up to the bound.
MarkRead(u, s, bound) ==
  LET marked == {i \in Members(u, s) :
                   i <= bound /\ (s.kind # "starred" => i > sub[u][Feed(i)].since)}
  IN  /\ state' = [state EXCEPT ![u] = [i \in Ids |->
                     IF i \notin marked THEN state[u][i]
                     ELSE IF state[u][i] = None THEN [read |-> TRUE, star |-> FALSE]
                     ELSE [state[u][i] EXCEPT !.read = TRUE]]]
      /\ UNCHANGED <<entry, sub, joining>>

-----------------------------------------------------------------------------
(* Retention *)

\* _PURGE_SQL: starred by no one, and each subscriber has read it or came after it.  Any
\* entry may be past the horizon by now.
PurgeableMutant(i) ==
  /\ i \in Live
  /\ \A u \in Users : IsRead(u, i) => ~IsStarred(u, i)
  /\ \A u \in Users : Subscribed(u, Feed(i)) => i <= sub[u][Feed(i)].since \/ state[u][i] # None
Purgeable(i) ==
  /\ i \in Live
  /\ \A u \in Users : ~IsStarred(u, i)
  /\ \A u \in Users : Subscribed(u, Feed(i)) => i <= sub[u][Feed(i)].since \/ IsRead(u, i)

Purge(S) ==
  /\ S # {} /\ \A i \in S : Purgeable(i)
  /\ Delete(S, "purged")
  /\ UNCHANGED <<sub, joining>>

-----------------------------------------------------------------------------
(* Paging *)

StartWalk(p) ==
  /\ walk = None
  /\ walk' = [user |-> p.user, stream |-> p.stream, status |-> p.status, search |-> p.search,
              cursor |-> None, seen |-> {}, rows |-> 0, done |-> FALSE, owed |-> Wanted(p)]
  /\ UNCHANGED tables

\* next_cursor is the key of the last row of a full page; a short page is the last one.
NextPage ==
  /\ walk # None /\ ~walk.done
  /\ LET page == Page(walk.user, walk)
         keys == {Key(i, walk.search) : i \in page}
     IN  walk' = [walk EXCEPT !.seen = @ \cup page, !.owed = @ \ page, !.rows = @ + Cardinality(page),
                    !.done = Cardinality(page) < PageSize,
                    !.cursor = IF page = {} THEN @
                               ELSE CHOOSE k \in keys : \A l \in keys \ {k} : Below(k, l)]
  /\ UNCHANGED tables

Write ==
  \/ \E item \in Items : InsertRow(item)
  \/ \E f \in Feeds : CommitPoll(f) \/ AbortPoll(f)
  \/ \E u \in Users, f \in Feeds :
       \/ Unsubscribe(u, f)
       \/ ReadHead(u, f)
       \/ \E folder \in Folders \cup {None} : MoveToFolder(u, f, folder)
  \/ \E folder \in Folders \cup {None} : Subscribe(folder)
  \/ \E u \in Users, folder \in Folders : DeleteFolder(u, folder)
  \/ \E u \in Users, i \in Ids, flag \in BOOLEAN :
       SetState(u, i, flag, None) \/ SetState(u, i, None, flag)
  \/ \E u \in Users, s \in Streams, bound \in Live : MarkRead(u, s, bound)
  \/ \E S \in SUBSET Ids : Purge(S)

Next ==
  \/ Write /\ KeepWalk
  \/ \E p \in Paged : StartWalk(p)
  \/ NextPage

Spec == Init /\ [][Next]_vars

-----------------------------------------------------------------------------
(* Properties *)

\* Each table has rows of its type.
TypeOK ==
  /\ entry \in [Ids -> Entries]
  /\ sub \in [Users -> [Feeds -> Subs \cup {None}]]
  /\ state \in [Users -> [Ids -> States \cup {None}]]
  /\ joining \in Joins \cup {None}
  /\ walk \in Walks \cup {None}

All == [kind |-> "all", ref |-> None]
Starred == [kind |-> "starred", ref |-> None]
OfFeed(f) == [kind |-> "feed", ref |-> f]

\* The badge of a subscription is the length of its unread list, and the total that of the
\* "all" stream: unread_counts and _apply_stream are different queries.
CountsAgree ==
  TypeOK /\
  \A u \in Users :
    LET feeds == {f \in Feeds : Subscribed(u, f)}
    IN  /\ \A f \in feeds : UnreadCount(u, f) = Cardinality(UnreadMembers(u, OfFeed(f)))
        /\ MapThenSumSet(LAMBDA f : UnreadCount(u, f), feeds) = Cardinality(UnreadMembers(u, All))

\* Whatever a stream lists can be opened: a star does not outlive the subscription that
\* GET /entries/{id} asks for, nor the entry.
ListedOpens ==
  \A u \in Users, s \in Streams : \A i \in Members(u, s) : Found(u, i)

\* What a poll commits is unread for every subscriber, whichever ids other polls hold, and
\* will be for one whose request has read the head and not yet inserted its row.
NewIsUnread ==
  [][\A u \in Users, f \in Feeds :
       LET new == {i \in PendingOf(f) : entry'[i].at = "live"}
       IN  new # {} =>
           /\ Subscribed(u, f) => new \subseteq UnreadMembers(u, OfFeed(f))'
           /\ joining # None /\ joining.feed = f => \A i \in new : i > joining.since]_vars

\* The purge takes nothing a user has starred, or would miss in a count.
PurgeInvisible ==
  [][(\E i \in Live : entry'[i].at = "purged") =>
       \A u \in Users :
         /\ \A f \in Feeds : Subscribed(u, f) => UnreadCount(u, f)' = UnreadCount(u, f)
         /\ Members(u, Starred)' = Members(u, Starred)]_vars

\* A client that follows next_cursor to the end has seen every entry that stayed in the
\* stream, and none twice, although entries come and go and change state meanwhile.
WalkComplete ==
  walk # None => /\ walk.rows = Cardinality(walk.seen)
                 /\ walk.done => walk.owed = {}
=============================================================================
