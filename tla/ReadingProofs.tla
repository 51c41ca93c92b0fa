---------------------------- MODULE ReadingProofs ----------------------------
(***************************************************************************)
(* Proofs about Reading, for any users, feeds, items, ids and page size.    *)
(***************************************************************************)
EXTENDS Reading, FiniteSetTheorems, WellFoundedInduction, TLAPS

-----------------------------------------------------------------------------
(* The inductive invariant *)

TablesOK ==
  /\ entry \in [Ids -> Entries]
  /\ sub \in [Users -> [Feeds -> Subs \cup {None}]]
  /\ state \in [Users -> [Ids -> States \cup {None}]]
  /\ joining \in Joins \cup {None}

\* A state is of an entry that is there, in a feed its user subscribes to.
StatesKept == \A u \in Users, i \in Ids : state[u][i] # None => Found(u, i)

\* Ids are used from the lowest.
UsedFirst == \A i, j \in Ids : j < i /\ entry[j].at = "unused" => entry[i].at = "unused"

\* An id that was a feed's head is below what its polls insert.
Before(since, f) ==
  /\ since = 0 \/ entry[since].at # "unused"
  /\ \A i \in PendingOf(f) : since < i

HeadsKept ==
  /\ \A u \in Users, f \in Feeds : Subscribed(u, f) => Before(sub[u][f].since, f)
  /\ joining # None => Before(joining.since, joining.feed)

\* A poll inserts behind the entries its feed has.
PendingLast == \A f \in Feeds : \A i \in PendingOf(f), j \in InFeed(f) : j < i

Tables == TablesOK /\ StatesKept /\ UsedFirst /\ HeadsKept /\ PendingLast

\* Pages hold what is at or above the cursor, and what a walk owes is below it.
Paging ==
  walk # None =>
    /\ \A i \in walk.seen : entry[i].at \notin {"unused", "pending"}
    /\ \A i \in walk.seen \cap Live :
         walk.cursor # None /\ ~Below(Key(i, walk.search), walk.cursor)
    /\ walk.owed \subseteq Wanted(walk)
    /\ \A i \in walk.owed : walk.cursor # None => Below(Key(i, walk.search), walk.cursor)
    /\ walk.rows = Cardinality(walk.seen)
    /\ walk.done => walk.owed = {}

IInv == Tables /\ walk \in Walks \cup {None} /\ Paging

-----------------------------------------------------------------------------
(* Numbers *)

\* A set of numbers that is not empty has a least one.
LEMMA Least ==
  ASSUME NEW S \in SUBSET Nat, S # {}
  PROVE  \E x \in S : \A y \in S : x <= y
<1> DEFINE R == {ss \in Nat \X Nat : ss[1] < ss[2]}
<1>1. IsWellFoundedOn(R, Nat)
  BY NatLessThanWellFounded DEF OpToRel
<1>2. \E x \in S : \A y \in S : ~(<<y, x>> \in R)
  <2> HIDE DEF R
  <2> QED BY <1>1, WFMin
<1>3. \A x, y \in Nat : ~(<<y, x>> \in R) => x <= y
  OBVIOUS
<1> QED BY <1>2, <1>3

\* A set of numbers that has 0 and the successor of each of its elements has them all.
LEMMA Induction ==
  ASSUME NEW T, 0 \in T, \A n \in Nat : n \in T => n + 1 \in T
  PROVE  \A n \in Nat : n \in T
<1> DEFINE S == Nat \ T
<1> SUFFICES ASSUME S # {} PROVE FALSE
  OBVIOUS
<1>1. PICK x \in S : \A y \in S : x <= y
  BY Least
<1>2. x # 0 /\ x - 1 \in Nat /\ x - 1 \notin S
  BY <1>1
<1> QED BY <1>1, <1>2

\* A set of numbers below a bound has a greatest one.
LEMMA Greatest ==
  ASSUME NEW n \in Nat, NEW S \in SUBSET (0 .. n), S # {}
  PROVE  Max(S) \in S /\ \A y \in S : y <= Max(S)
<1> DEFINE T == {n - x : x \in S}
<1>1. T \in SUBSET Nat /\ T # {}
  <2>1. \A x \in S : n - x \in Nat
    OBVIOUS
  <2>2. PICK x \in S : TRUE
    OBVIOUS
  <2>3. n - x \in T
    BY <2>2
  <2> QED BY <2>1, <2>3
<1>2. PICK t \in T : \A y \in T : t <= y
  BY <1>1, Least
<1>3. \E x \in S : \A y \in S : x >= y
  BY <1>2
<1> QED BY <1>3 DEF Max

-----------------------------------------------------------------------------
(* Ranks: the first n of a finite set under a strict total order *)

Orders(lt, R) ==
  /\ IsFiniteSet(R)
  /\ \A i \in R : <<i, i>> \notin lt
  /\ \A i, j, k \in R : <<i, j>> \in lt /\ <<j, k>> \in lt => <<i, k>> \in lt
  /\ \A i, j \in R : i # j => <<i, j>> \in lt \/ <<j, i>> \in lt

Above(i, lt, R) == {j \in R : <<i, j>> \in lt}
Rank(i, lt, R) == Cardinality(Above(i, lt, R))
First(n, lt, R) == {i \in R : Rank(i, lt, R) < n}

\* Who is above has a lower rank.
LEMMA RankOrder ==
  ASSUME NEW lt, NEW R, Orders(lt, R), NEW i \in R, NEW j \in R
  PROVE  /\ Rank(i, lt, R) \in Nat
         /\ <<i, j>> \in lt => Rank(j, lt, R) < Rank(i, lt, R)
<1>1. Above(i, lt, R) \subseteq R /\ IsFiniteSet(Above(i, lt, R))
  BY FS_Subset DEF Orders, Above
<1>2. Rank(i, lt, R) \in Nat
  BY <1>1, FS_CardinalityType DEF Rank
<1>3. ASSUME <<i, j>> \in lt PROVE Rank(j, lt, R) < Rank(i, lt, R)
  <2>1. Above(j, lt, R) \subseteq Above(i, lt, R) /\ j \in Above(i, lt, R)
          /\ j \notin Above(j, lt, R)
    BY <1>3 DEF Above, Orders
  <2>2. Above(j, lt, R) \subseteq Above(i, lt, R) \ {j}
    BY <2>1
  <2>3. /\ Cardinality(Above(i, lt, R) \ {j}) = Rank(i, lt, R) - 1
        /\ IsFiniteSet(Above(i, lt, R) \ {j})
    BY <1>1, <2>1, FS_RemoveElement DEF Rank
  <2>4. Rank(j, lt, R) <= Rank(i, lt, R) - 1 /\ Rank(j, lt, R) \in Nat
    BY <2>2, <2>3, FS_Subset, FS_CardinalityType DEF Rank
  <2> QED BY <1>2, <2>4
<1> QED BY <1>2, <1>3

\* The first ones are above the others.
LEMMA FirstAbove ==
  ASSUME NEW lt, NEW R, Orders(lt, R), NEW n \in Nat, NEW i \in First(n, lt, R),
         NEW j \in R \ First(n, lt, R)
  PROVE  <<j, i>> \in lt
<1>1. i \in R /\ Rank(i, lt, R) < n /\ ~(Rank(j, lt, R) < n)
  BY DEF First
<1>2. <<i, j>> \notin lt
  <2>1. Rank(i, lt, R) \in Nat /\ Rank(j, lt, R) \in Nat
    BY <1>1, RankOrder
  <2>2. <<i, j>> \in lt => Rank(j, lt, R) < Rank(i, lt, R)
    BY <1>1, RankOrder
  <2> QED BY <1>1, <2>1, <2>2
<1> QED BY <1>1, <1>2 DEF Orders

\* Fewer than n are all there are.
LEMMA FirstShort ==
  ASSUME NEW lt, NEW R, Orders(lt, R), NEW n \in Nat, Cardinality(First(n, lt, R)) < n
  PROVE  First(n, lt, R) = R
<1> DEFINE F == First(n, lt, R)
           T == {Rank(i, lt, R) : i \in R \ F}
<1> SUFFICES ASSUME R \ F # {} PROVE FALSE
  BY DEF First
<1>1. T \in SUBSET Nat /\ T # {}
  BY RankOrder
<1>2. PICK t \in T : \A y \in T : t <= y
  BY <1>1, Least
<1>3. PICK i \in R \ F : t = Rank(i, lt, R)
  BY <1>2
<1>4. Above(i, lt, R) \subseteq F
  <2> SUFFICES ASSUME NEW j \in R, <<i, j>> \in lt, j \notin F PROVE FALSE
    BY DEF Above
  <2>1. Rank(j, lt, R) < Rank(i, lt, R) /\ Rank(j, lt, R) \in T /\ Rank(j, lt, R) \in Nat
    BY <1>3, RankOrder
  <2> QED BY <1>2, <1>3, <2>1, RankOrder
<1>5. IsFiniteSet(F) /\ F \subseteq R
  BY FS_Subset DEF First, Orders
<1>6. Rank(i, lt, R) <= Cardinality(F) /\ Cardinality(F) \in Nat
  BY <1>4, <1>5, FS_Subset, FS_CardinalityType DEF Rank
<1>7. ~(Rank(i, lt, R) < n) /\ Rank(i, lt, R) \in Nat
  BY <1>3, RankOrder DEF First
<1> QED BY <1>6, <1>7

\* One of the first is below the rest of them.
LEMMA FirstLowest ==
  ASSUME NEW lt, NEW R, Orders(lt, R), NEW n \in Nat, First(n, lt, R) # {}
  PROVE  \E i \in First(n, lt, R) : \A j \in First(n, lt, R) \ {i} : <<i, j>> \in lt
<1> DEFINE F == First(n, lt, R)
           T == {Rank(i, lt, R) : i \in F}
<1>1. F \subseteq R /\ \A i \in F : Rank(i, lt, R) \in 0 .. n
  <2>1. \A i \in F : i \in R /\ Rank(i, lt, R) < n
    BY DEF First
  <2>2. \A i \in R : Rank(i, lt, R) \in Nat
    BY RankOrder
  <2> QED BY <2>1, <2>2
<1>2. T \in SUBSET (0 .. n) /\ T # {}
  BY <1>1
<1>3. PICK t \in T : \A y \in T : y <= t
  BY <1>2, Greatest
<1>4. PICK i \in F : t = Rank(i, lt, R)
  BY <1>3
<1>5. ASSUME NEW j \in F \ {i} PROVE <<i, j>> \in lt
  <2>1. i \in R /\ j \in R /\ Rank(j, lt, R) <= Rank(i, lt, R)
    BY <1>1, <1>3, <1>4
  <2>2. <<j, i>> \notin lt
    <3>1. Rank(i, lt, R) \in Nat /\ Rank(j, lt, R) \in Nat
      BY <2>1, RankOrder
    <3>2. <<j, i>> \in lt => Rank(i, lt, R) < Rank(j, lt, R)
      BY <2>1, RankOrder
    <3> QED BY <2>1, <3>1, <3>2
  <2> QED BY <2>1, <2>2 DEF Orders
<1> QED BY <1>4, <1>5

-----------------------------------------------------------------------------
(* Types *)

\* The constants.
LEMMA Shape ==
  /\ IsFiniteSet(Feeds) /\ FeedOf \in [Items -> Feeds] /\ Published \in [Items -> Nat]
  /\ OwnerOf \in [Folders -> Users] /\ MaxId \in Nat /\ PageSize \in Nat \ {0}
  /\ Ids = 1 .. MaxId /\ Ids \subseteq Nat \ {0}
  /\ None \notin Users /\ None \notin Feeds /\ None \notin Folders /\ None \notin Items
  /\ None \notin BOOLEAN /\ None \notin Subs /\ None \notin States /\ None \notin Joins
  /\ None \notin Walks /\ None \notin Nat \X Nat
BY ReadingAssumption DEF Ids

\* What a row of entries is.
LEMMA EntryShape ==
  ASSUME NEW e \in Entries
  PROVE  /\ e.at \in {"unused", "pending", "live", "gone", "purged"}
         /\ e.at \in {"pending", "live"} => e.item \in Items /\ FeedOf[e.item] \in Feeds
BY Shape DEF Entries

\* What a row of subscriptions or of entry_states is.
LEMMA RowShape ==
  /\ \A s \in Subs : s # None /\ s.since \in 0 .. MaxId /\ s.folder \in Folders \cup {None}
  /\ \A s \in States : s # None /\ s.read \in BOOLEAN /\ s.star \in BOOLEAN
  /\ \A s \in Joins : s # None /\ s.user \in Users /\ s.feed \in Feeds /\ s.since \in 0 .. MaxId
BY Shape DEF Subs, States, Joins

\* The entries of a feed, committed or not.
LEMMA FeedRows ==
  ASSUME TablesOK, NEW i \in Ids
  PROVE  /\ entry[i] \in Entries
         /\ i \in Live \/ entry[i].at = "pending" => entry[i].item \in Items /\ Feed(i) \in Feeds
         /\ \A f : i \in InFeed(f) <=> entry[i].at = "live" /\ Feed(i) = f
         /\ \A f : i \in PendingOf(f) <=> entry[i].at = "pending" /\ Feed(i) = f
<1>1. entry[i] \in Entries
  BY DEF TablesOK
<1> QED BY <1>1, EntryShape DEF Live, Feed, InFeed, PendingOf

-----------------------------------------------------------------------------
(* Steps that leave subscriptions alone *)

\* What no step undoes: an id that was used stays so, and what is live is the row of its item
\* that was inserted.
EntriesFollow ==
  \A i \in Ids :
    /\ entry[i].at \notin {"unused", "pending"} => entry'[i].at \notin {"unused", "pending"}
    /\ entry'[i].at = "live" => entry[i].at \in {"pending", "live"}
         /\ entry'[i].item = entry[i].item

\* Nothing of the entries changes.
LEMMA EntriesSame == ASSUME UNCHANGED entry, TablesOK PROVE EntriesFollow
BY FeedRows, EntryShape DEF EntriesFollow

\* The subscriptions stay ahead of what is pending, if what was ahead stays so.
LEMMA HeadsStep ==
  ASSUME Tables, joining' \in {joining, None},
         \A u \in Users, f \in Feeds :
           Subscribed(u, f)' => Subscribed(u, f) /\ sub'[u][f].since = sub[u][f].since,
         \A since \in 0 .. MaxId, f \in Feeds : Before(since, f) => Before(since, f)'
  PROVE  HeadsKept'
<1>1. ASSUME NEW since \in 0 .. MaxId, NEW f \in Feeds, Before(since, f)
      PROVE  since = 0 \/ entry'[since].at # "unused"
  BY <1>1 DEF Before
<1>2. ASSUME NEW since \in 0 .. MaxId, NEW f \in Feeds, Before(since, f)
      PROVE  \A i \in PendingOf(f)' : since < i
  BY <1>2 DEF Before
<1>3. ASSUME NEW u \in Users, NEW f \in Feeds, Subscribed(u, f)'
      PROVE  Before(sub[u][f].since, f)'
  <2>1. Before(sub[u][f].since, f) /\ sub[u][f] \in Subs /\ sub'[u][f].since = sub[u][f].since
    BY <1>3 DEF Tables, TablesOK, HeadsKept, Subscribed
  <2>2. sub[u][f].since \in 0 .. MaxId
    BY <2>1, RowShape
  <2> QED BY <1>1, <1>2, <2>1, <2>2 DEF Before
<1>4. joining' # None => Before(joining.since, joining.feed)'
  <2> SUFFICES ASSUME joining' # None PROVE Before(joining.since, joining.feed)'
    OBVIOUS
  <2>1. Before(joining.since, joining.feed) /\ joining \in Joins /\ joining' = joining
    BY DEF Tables, TablesOK, HeadsKept
  <2>2. joining.since \in 0 .. MaxId /\ joining.feed \in Feeds
    BY <2>1, RowShape
  <2> QED BY <1>1, <1>2, <2>1, <2>2 DEF Before
<1> QED BY <1>3, <1>4 DEF HeadsKept

\* A row of insert_batch.
LEMMA InsertStep ==
  ASSUME Tables, NEW item \in Items, InsertRow(item)
  PROVE  Tables' /\ EntriesFollow
<1> DEFINE row == [item |-> item, at |-> "pending"]
<1>1. PICK n \in Ids :
        /\ entry[n].at = "unused" /\ \A j \in Ids : j < n => entry[j].at # "unused"
        /\ entry' = [entry EXCEPT ![n] = row]
  BY DEF InsertRow
<1>2. UNCHANGED <<sub, state, joining>>
  BY DEF InsertRow
<1>3. TablesOK /\ row \in Entries
  BY DEF Tables, Entries
<1>4. /\ entry' \in [Ids -> Entries] /\ entry'[n] = row
      /\ \A i \in Ids \ {n} : entry'[i] = entry[i]
  BY <1>1, <1>3 DEF TablesOK
<1>5. TablesOK'
  BY <1>2, <1>3, <1>4 DEF TablesOK
<1>6. /\ Live' = Live /\ \A i \in Live : Feed(i)' = Feed(i)
      /\ \A f \in Feeds : /\ InFeed(f)' = InFeed(f)
                          /\ PendingOf(f)' = IF f = FeedOf[item] THEN PendingOf(f) \cup {n}
                                             ELSE PendingOf(f)
  BY <1>1, <1>4 DEF Live, Feed, InFeed, PendingOf
<1>7. StatesKept'
  BY <1>2, <1>6 DEF Tables, StatesKept, Found, Subscribed
<1>8. UsedFirst'
  BY <1>1, <1>4, Shape DEF Tables, UsedFirst
<1>9. ASSUME NEW since \in 0 .. MaxId, NEW f \in Feeds, Before(since, f) PROVE Before(since, f)'
  <2>1. since = 0 \/ (since \in Ids /\ since # n /\ entry[since].at # "unused")
    BY <1>1, <1>9, Shape DEF Before
  <2>2. since < n
    BY <1>1, <2>1, Shape DEF Tables, UsedFirst
  <2>3. since = 0 \/ entry'[since].at # "unused"
    BY <1>4, <2>1
  <2> QED BY <1>6, <1>9, <2>2, <2>3 DEF Before
<1>10. HeadsKept'
  BY <1>2, <1>9, HeadsStep DEF Subscribed
<1>11. PendingLast'
  <2> SUFFICES ASSUME NEW f \in Feeds, NEW i \in PendingOf(f)', NEW j \in InFeed(f)' PROVE j < i
    BY DEF PendingLast
  <2>1. j \in InFeed(f) /\ j \in Ids /\ entry[j].at = "live"
    BY <1>6 DEF InFeed, Live
  <2>2. CASE i \in PendingOf(f)
    BY <2>1, <2>2 DEF Tables, PendingLast
  <2>3. CASE i = n
    BY <1>1, <2>1, <2>3, Shape DEF Tables, UsedFirst
  <2> QED BY <1>6, <2>2, <2>3
<1>12. EntriesFollow
  BY <1>1, <1>4 DEF EntriesFollow
<1> QED BY <1>5, <1>7, <1>8, <1>10, <1>11, <1>12 DEF Tables

\* _persist commits.
LEMMA CommitStep ==
  ASSUME Tables, NEW f \in Feeds, CommitPoll(f)
  PROVE  Tables' /\ EntriesFollow
<1>1. UNCHANGED <<sub, state, joining>> /\ TablesOK
  BY DEF CommitPoll, Tables
<1>2. ASSUME NEW i \in Ids
      PROVE  /\ entry'[i] \in Entries /\ entry'[i].item = entry[i].item
             /\ entry'[i].at = IF i \in PendingOf(f) THEN "live" ELSE entry[i].at
  <2>1. entry[i] \in Entries /\ (i \in PendingOf(f) => entry[i].at = "pending")
    BY <1>1, FeedRows
  <2>2. CASE i \in PendingOf(f)
    <3>1. entry'[i] = [entry[i] EXCEPT !.at = "live"]
      BY <2>2 DEF CommitPoll
    <3> QED BY <2>1, <2>2, <3>1 DEF Entries
  <2>3. CASE i \notin PendingOf(f)
    BY <2>1, <2>3 DEF CommitPoll
  <2> QED BY <2>2, <2>3
<1>3. TablesOK'
  <2>1. entry' = [i \in Ids |-> entry'[i]]
    BY DEF CommitPoll
  <2>2. entry' \in [Ids -> Entries]
    BY <1>2, <2>1
  <2> QED BY <1>1, <2>2 DEF TablesOK
<1>4. \A i \in PendingOf(f) : i \in Ids /\ entry[i].at = "pending" /\ Feed(i) = f
  BY DEF PendingOf
<1>5. /\ \A g \in Feeds : InFeed(g)' = IF g = f THEN InFeed(f) \cup PendingOf(f) ELSE InFeed(g)
      /\ \A g \in Feeds : PendingOf(g)' = IF g = f THEN {} ELSE PendingOf(g)
      /\ \A i \in Live : i \in Live' /\ Feed(i)' = Feed(i)
  BY <1>2, <1>4 DEF Live, Feed, InFeed, PendingOf
<1>6. StatesKept'
  BY <1>1, <1>5 DEF Tables, StatesKept, Found, Subscribed
<1>7. UsedFirst' /\ EntriesFollow
  BY <1>2, <1>4 DEF Tables, UsedFirst, EntriesFollow
<1>8. ASSUME NEW since \in 0 .. MaxId, NEW g \in Feeds, Before(since, g) PROVE Before(since, g)'
  <2>1. since = 0 \/ entry'[since].at # "unused"
    BY <1>2, <1>8, Shape DEF Before
  <2> QED BY <1>5, <1>8, <2>1 DEF Before
<1>9. HeadsKept'
  BY <1>1, <1>8, HeadsStep DEF Subscribed
<1>10. PendingLast'
  <2> SUFFICES ASSUME NEW g \in Feeds, NEW i \in PendingOf(g)', NEW j \in InFeed(g)' PROVE j < i
    BY DEF PendingLast
  <2> QED BY <1>5 DEF Tables, PendingLast
<1> QED BY <1>3, <1>6, <1>7, <1>9, <1>10 DEF Tables

\* Rows are deleted, and perhaps the subscriptions to a feed all of whose rows are.
LEMMA DeleteStep ==
  ASSUME Tables, NEW S \in SUBSET Ids, \A i \in S : entry[i].at \in {"pending", "live"},
         NEW how \in {"gone", "purged"}, Delete(S, how),
         sub' \in [Users -> [Feeds -> Subs \cup {None}]], joining' \in {joining, None},
         \A u \in Users, g \in Feeds :
           sub'[u][g] = sub[u][g] \/ (sub'[u][g] = None /\ InFeed(g) \subseteq S)
  PROVE  Tables' /\ EntriesFollow
<1> DEFINE none == [item |-> None, at |-> how]
<1>1. TablesOK /\ none \in Entries /\ none.at \notin {"unused", "pending", "live"}
  BY DEF Tables, Entries
<1>2. /\ entry' \in [Ids -> Entries]
      /\ \A i \in Ids : entry'[i] = IF i \in S THEN none ELSE entry[i]
  BY <1>1 DEF Delete, TablesOK
<1>3. /\ state' \in [Users -> [Ids -> States \cup {None}]]
      /\ \A u \in Users, i \in Ids : state'[u][i] = IF i \in S THEN None ELSE state[u][i]
  BY <1>1 DEF Delete, TablesOK
<1> HIDE DEF none
<1>4. TablesOK'
  BY <1>1, <1>2, <1>3 DEF TablesOK
<1>5. /\ Live' = Live \ S /\ \A i \in Ids \ S : Feed(i)' = Feed(i)
      /\ \A g \in Feeds : InFeed(g)' = InFeed(g) \ S /\ PendingOf(g)' = PendingOf(g) \ S
  BY <1>1, <1>2 DEF Live, Feed, InFeed, PendingOf
<1>6. StatesKept'
  <2> SUFFICES ASSUME NEW u \in Users, NEW i \in Ids, state'[u][i] # None PROVE Found(u, i)'
    BY DEF StatesKept
  <2>1. i \notin S /\ i \in Live /\ Subscribed(u, Feed(i)) /\ Feed(i) \in Feeds
    BY <1>1, <1>3, FeedRows DEF Tables, StatesKept, Found
  <2>2. i \in InFeed(Feed(i))
    BY <2>1 DEF InFeed
  <2>3. sub'[u][Feed(i)] = sub[u][Feed(i)]
    BY <2>1, <2>2
  <2> QED BY <1>5, <2>1, <2>3 DEF Found, Subscribed
<1>7. UsedFirst' /\ EntriesFollow
  BY <1>1, <1>2 DEF Tables, UsedFirst, EntriesFollow
<1>8. ASSUME NEW since \in 0 .. MaxId, NEW g \in Feeds, Before(since, g) PROVE Before(since, g)'
  <2>1. since = 0 \/ entry'[since].at # "unused"
    BY <1>1, <1>2, <1>8, Shape DEF Before
  <2> QED BY <1>5, <1>8, <2>1 DEF Before
<1>9. HeadsKept'
  BY <1>8, HeadsStep DEF Subscribed
<1>10. PendingLast'
  BY <1>5 DEF Tables, PendingLast
<1> QED BY <1>4, <1>6, <1>7, <1>9, <1>10 DEF Tables

\* A poll rolls back.
LEMMA AbortStep ==
  ASSUME Tables, NEW f \in Feeds, AbortPoll(f)
  PROVE  Tables' /\ EntriesFollow
<1>1. Delete(PendingOf(f), "gone") /\ UNCHANGED <<sub, joining>> /\ TablesOK
  BY DEF AbortPoll, Tables
<1>2. PendingOf(f) \in SUBSET Ids /\ \A i \in PendingOf(f) : entry[i].at \in {"pending", "live"}
  BY DEF PendingOf
<1> QED BY <1>1, <1>2, DeleteStep DEF TablesOK

\* The retention sweep purges.
LEMMA PurgeStep ==
  ASSUME Tables, NEW S \in SUBSET Ids, Purge(S)
  PROVE  Tables' /\ EntriesFollow
<1>1. Delete(S, "purged") /\ UNCHANGED <<sub, joining>> /\ TablesOK
  BY DEF Purge, Tables
<1>2. \A i \in S : entry[i].at \in {"pending", "live"}
  BY DEF Purge, Purgeable, Live
<1> QED BY <1>1, <1>2, DeleteStep DEF TablesOK

\* The last subscriber leaves and takes the feed along; others leave with their states.
LEMMA UnsubscribeStep ==
  ASSUME Tables, NEW u \in Users, NEW f \in Feeds, Unsubscribe(u, f)
  PROVE  Tables' /\ EntriesFollow
<1>1. TablesOK /\ sub' = [sub EXCEPT ![u][f] = None]
  BY DEF Tables, Unsubscribe
<1>2. /\ sub' \in [Users -> [Feeds -> Subs \cup {None}]]
      /\ \A v \in Users, g \in Feeds : sub'[v][g] = IF v = u /\ g = f THEN None ELSE sub[v][g]
  BY <1>1 DEF TablesOK
<1>3. CASE \E v \in Users \ {u} : Subscribed(v, f)
  <2>1. UNCHANGED <<entry, joining>>
        /\ state' = [state EXCEPT ![u] =
             [i \in Ids |-> IF i \in InFeed(f) THEN None ELSE state[u][i]]]
    BY <1>3 DEF Unsubscribe
  <2>2. /\ state' \in [Users -> [Ids -> States \cup {None}]]
        /\ \A v \in Users, i \in Ids :
             state'[v][i] = IF v = u /\ i \in InFeed(f) THEN None ELSE state[v][i]
    BY <1>1, <2>1 DEF TablesOK
  <2>3. StatesKept'
    <3> SUFFICES ASSUME NEW v \in Users, NEW i \in Ids, state'[v][i] # None PROVE Found(v, i)'
      BY DEF StatesKept
    <3>1. /\ i \in Live /\ Subscribed(v, Feed(i)) /\ Feed(i) \in Feeds
          /\ ~(v = u /\ i \in InFeed(f))
      BY <1>1, <2>2, FeedRows DEF Tables, StatesKept, Found
    <3>2. sub'[v][Feed(i)] = sub[v][Feed(i)]
      BY <1>2, <3>1 DEF InFeed
    <3> QED BY <2>1, <3>1, <3>2 DEF Found, Subscribed, Live, Feed
  <2>4. HeadsKept'
    <3>1. \A since \in 0 .. MaxId, g \in Feeds : Before(since, g) => Before(since, g)'
      BY <2>1 DEF Before, PendingOf, Feed
    <3> QED BY <1>2, <2>1, <3>1, HeadsStep DEF Subscribed
  <2>5. TablesOK' /\ UsedFirst' /\ PendingLast'
    BY <1>1, <1>2, <2>1, <2>2
       DEF Tables, TablesOK, UsedFirst, PendingLast, PendingOf, InFeed, Live, Feed
  <2>6. EntriesFollow
    BY <1>1, <2>1, EntriesSame
  <2> QED BY <2>3, <2>4, <2>5, <2>6 DEF Tables
<1>4. CASE ~\E v \in Users \ {u} : Subscribed(v, f)
  <2> DEFINE S == InFeed(f) \cup PendingOf(f)
  <2>1. Delete(S, "gone") /\ joining' \in {joining, None}
    BY <1>4 DEF Unsubscribe
  <2>2. S \in SUBSET Ids /\ \A i \in S : entry[i].at \in {"pending", "live"}
    BY DEF InFeed, PendingOf, Live
  <2> QED BY <1>2, <2>1, <2>2, DeleteStep
<1> QED BY <1>3, <1>4

-----------------------------------------------------------------------------
(* Steps that leave the entries alone *)

\* What is true of entries and of what polls hold stays so.
LEMMA SameEntries ==
  ASSUME Tables, UNCHANGED entry
  PROVE  /\ EntriesFollow /\ UsedFirst' /\ PendingLast' /\ Live' = Live
         /\ \A i : Feed(i)' = Feed(i)
         /\ \A since, f : Before(since, f)' <=> Before(since, f)
<1>1. EntriesFollow
  BY EntriesSame DEF Tables
<1> QED BY <1>1 DEF Tables, UsedFirst, PendingLast, Live, Feed, InFeed, PendingOf, Before

\* POST /entries/state.
LEMMA SetStep ==
  ASSUME Tables, NEW u \in Users, NEW i \in Ids, NEW read \in BOOLEAN \cup {None},
         NEW star \in BOOLEAN \cup {None}, SetState(u, i, read, star)
  PROVE  Tables' /\ EntriesFollow
<1>1. TablesOK /\ i \in Live /\ Subscribed(u, Feed(i)) /\ UNCHANGED <<entry, sub, joining>>
      /\ state' = [state EXCEPT ![u][i] = Written(@, read, star)]
  BY DEF Tables, SetState
<1>2. state[u][i] \in States \cup {None}
  BY <1>1 DEF TablesOK
<1>3. Written(state[u][i], read, star) \in States
  <2>1. state[u][i] # None => state[u][i].read \in BOOLEAN /\ state[u][i].star \in BOOLEAN
    BY <1>2, RowShape
  <2> QED BY <2>1 DEF Written, States
<1>4. /\ state' \in [Users -> [Ids -> States \cup {None}]]
      /\ \A v \in Users, j \in Ids : ~(v = u /\ j = i) => state'[v][j] = state[v][j]
  BY <1>1, <1>3 DEF TablesOK
<1>5. StatesKept'
  BY <1>1, <1>4, SameEntries DEF Tables, StatesKept, Found, Subscribed
<1>6. TablesOK' /\ HeadsKept'
  BY <1>1, <1>4, SameEntries DEF Tables, TablesOK, HeadsKept, Subscribed
<1> QED BY <1>1, <1>5, <1>6, SameEntries DEF Tables

\* Mark all read.
LEMMA MarkStep ==
  ASSUME Tables, NEW u \in Users, NEW s \in Streams, NEW bound, MarkRead(u, s, bound)
  PROVE  Tables' /\ EntriesFollow
<1>1. TablesOK /\ UNCHANGED <<entry, sub, joining>>
  BY DEF Tables, MarkRead
<1>2. PICK marked \in SUBSET Members(u, s) :
        state' = [state EXCEPT ![u] = [i \in Ids |->
                    IF i \notin marked THEN state[u][i]
                    ELSE IF state[u][i] = None THEN [read |-> TRUE, star |-> FALSE]
                    ELSE [state[u][i] EXCEPT !.read = TRUE]]]
  BY DEF MarkRead
<1>3. \A r \in States \cup {None} : (IF r = None THEN [read |-> TRUE, star |-> FALSE]
                                     ELSE [r EXCEPT !.read = TRUE]) \in States
  BY DEF States
<1>4. /\ state' \in [Users -> [Ids -> States \cup {None}]]
      /\ \A v \in Users, i \in Ids : ~(v = u /\ i \in marked) => state'[v][i] = state[v][i]
  <2>1. \A i \in Ids : state[u][i] \in States \cup {None}
    BY <1>1 DEF TablesOK
  <2> QED BY <1>1, <1>2, <1>3, <2>1 DEF TablesOK
<1>5. ASSUME NEW i \in marked PROVE i \in Ids /\ Found(u, i)
  BY DEF Members, Live, IsStarred, Tables, StatesKept, Found
<1>6. StatesKept'
  BY <1>1, <1>4, <1>5, SameEntries DEF Tables, StatesKept, Found, Subscribed
<1>7. TablesOK' /\ HeadsKept'
  BY <1>1, <1>4, SameEntries DEF Tables, TablesOK, HeadsKept, Subscribed
<1> QED BY <1>1, <1>6, <1>7, SameEntries DEF Tables

\* The head of a feed is below what its polls hold.
LEMMA HeadIsBefore ==
  ASSUME Tables, NEW f \in Feeds
  PROVE  HeadOf(f) \in 0 .. MaxId /\ Before(HeadOf(f), f)
<1>1. {0} \cup InFeed(f) \in SUBSET (0 .. MaxId)
  BY Shape DEF InFeed, Live
<1>2. HeadOf(f) \in {0} \cup InFeed(f)
  BY <1>1, Shape, Greatest DEF HeadOf
<1>3. HeadOf(f) = 0 \/ entry[HeadOf(f)].at # "unused"
  BY <1>2 DEF InFeed, Live
<1>4. \A i \in PendingOf(f) : HeadOf(f) < i
  <2> SUFFICES ASSUME NEW i \in PendingOf(f) PROVE HeadOf(f) < i
    OBVIOUS
  <2>1. i \in Nat \ {0}
    BY Shape DEF PendingOf
  <2> QED BY <1>2, <2>1 DEF Tables, PendingLast
<1> QED BY <1>1, <1>2, <1>3, <1>4 DEF Before

\* create_subscription reads the feed's head.
LEMMA HeadStep ==
  ASSUME Tables, NEW u \in Users, NEW f \in Feeds, ReadHead(u, f)
  PROVE  Tables' /\ EntriesFollow
<1>1. TablesOK /\ UNCHANGED <<entry, sub, state>>
      /\ joining' = [user |-> u, feed |-> f, since |-> HeadOf(f)]
  BY DEF Tables, ReadHead
<1>2. TablesOK'
  BY <1>1, HeadIsBefore DEF TablesOK, Joins
<1>3. HeadsKept'
  <2>1. \A v \in Users, g \in Feeds : Subscribed(v, g)' => Before(sub[v][g].since, g)'
    BY <1>1, SameEntries DEF Tables, HeadsKept, Subscribed
  <2>2. joining' # None => Before(joining.since, joining.feed)'
    BY <1>1, SameEntries, HeadIsBefore DEF Before
  <2> QED BY <2>1, <2>2 DEF HeadsKept
<1>4. StatesKept'
  BY <1>1, SameEntries DEF Tables, StatesKept, Found, Subscribed
<1> QED BY <1>1, <1>2, <1>3, <1>4, SameEntries DEF Tables

\* A subscription's row appears, or changes its folder.
LEMMA SubStep ==
  ASSUME Tables, UNCHANGED <<entry, state>>, joining' \in {joining, None},
         sub' \in [Users -> [Feeds -> Subs \cup {None}]],
         \A u \in Users, f \in Feeds : Subscribed(u, f) => Subscribed(u, f)',
         \A u \in Users, f \in Feeds :
           Subscribed(u, f)' => \/ Subscribed(u, f) /\ sub'[u][f].since = sub[u][f].since
                                \/ joining # None /\ f = joining.feed
                                     /\ sub'[u][f].since = joining.since
  PROVE  Tables' /\ EntriesFollow
<1>1. TablesOK'
  BY DEF Tables, TablesOK
<1>2. StatesKept'
  <2>1. ASSUME NEW u \in Users, NEW i \in Ids, state[u][i] # None PROVE Found(u, i)'
    <3>1. i \in Live /\ Subscribed(u, Feed(i)) /\ Feed(i) \in Feeds
      BY <2>1, FeedRows DEF Tables, StatesKept, Found
    <3> QED BY <3>1, SameEntries DEF Found, Subscribed
  <2> QED BY <2>1 DEF StatesKept
<1>3. HeadsKept'
  <2>1. ASSUME NEW u \in Users, NEW f \in Feeds, Subscribed(u, f)'
        PROVE  Before(sub[u][f].since, f)'
    <3>1. PICK since : Before(since, f) /\ sub'[u][f].since = since
      BY <2>1 DEF Tables, HeadsKept
    <3>2. Before(since, f)'
      BY <3>1, SameEntries
    <3> QED BY <3>1, <3>2 DEF Before
  <2>2. joining' # None => Before(joining.since, joining.feed)'
    <3> SUFFICES ASSUME joining' # None PROVE Before(joining.since, joining.feed)'
      OBVIOUS
    <3>1. joining' = joining /\ Before(joining.since, joining.feed)
      BY DEF Tables, HeadsKept
    <3> QED BY <3>1 DEF Before, PendingOf, Feed
  <2> QED BY <2>1, <2>2 DEF HeadsKept
<1> QED BY <1>1, <1>2, <1>3, SameEntries DEF Tables

\* A folder of the user's, or none.
LEMMA FoldersOfUser == \A u \in Users : FoldersOf(u) \subseteq Folders \cup {None}
BY DEF FoldersOf

\* A subscription disturbs no entry and no state.
LEMMA SubscribeStep ==
  ASSUME Tables, NEW folder, Subscribe(folder)
  PROVE  Tables' /\ EntriesFollow
<1> DEFINE u == joining.user
           f == joining.feed
           row == [since |-> joining.since, folder |-> folder]
<1>1. TablesOK /\ joining # None /\ joining \in Joins
        /\ sub \in [Users -> [Feeds -> Subs \cup {None}]]
  BY DEF Tables, TablesOK, Subscribe
<1>2. u \in Users /\ f \in Feeds /\ joining.since \in 0 .. MaxId
  BY <1>1, RowShape
<1>3. row \in Subs
  BY <1>2, FoldersOfUser DEF Subscribe, Subs
<1>4. sub' = [sub EXCEPT ![u][f] = row] /\ UNCHANGED <<entry, state>> /\ joining' = None
  BY DEF Subscribe
<1> HIDE DEF u, f, row
<1>5. /\ sub' \in [Users -> [Feeds -> Subs \cup {None}]]
      /\ \A v \in Users, g \in Feeds : sub'[v][g] = IF v = u /\ g = f THEN row ELSE sub[v][g]
  BY <1>1, <1>2, <1>3, <1>4
<1>6. row # None /\ row.since = joining.since
  BY <1>3, RowShape DEF row
<1> QED BY <1>1, <1>4, <1>5, <1>6, SubStep DEF Subscribed, f

\* Moving a feed to a folder disturbs none either.
LEMMA MoveStep ==
  ASSUME Tables, NEW u \in Users, NEW f \in Feeds, NEW folder, MoveToFolder(u, f, folder)
  PROVE  Tables' /\ EntriesFollow
<1>1. /\ TablesOK /\ Subscribed(u, f) /\ folder \in Folders \cup {None}
      /\ sub' = [sub EXCEPT ![u][f].folder = folder] /\ UNCHANGED <<entry, state, joining>>
  BY FoldersOfUser DEF Tables, MoveToFolder
<1>2. sub \in [Users -> [Feeds -> Subs \cup {None}]] /\ sub[u][f] \in Subs
  BY <1>1 DEF TablesOK, Subscribed
<1> DEFINE row == [sub[u][f] EXCEPT !.folder = folder]
<1>3. row \in Subs /\ row.since = sub[u][f].since /\ row # None
  BY <1>1, <1>2, Shape DEF Subs
<1>4. sub' = [sub EXCEPT ![u] = [sub[u] EXCEPT ![f] = row]]
  BY <1>1, <1>2
<1> HIDE DEF row
<1>5. /\ sub' \in [Users -> [Feeds -> Subs \cup {None}]]
      /\ \A v \in Users, g \in Feeds : sub'[v][g] = IF v = u /\ g = f THEN row ELSE sub[v][g]
  BY <1>2, <1>3, <1>4
<1> QED BY <1>1, <1>3, <1>5, SubStep DEF Subscribed

\* Deleting a folder moves the feeds in it, and disturbs none.
LEMMA FolderStep ==
  ASSUME Tables, NEW u \in Users, NEW folder \in Folders, DeleteFolder(u, folder)
  PROVE  Tables' /\ EntriesFollow
<1>1. /\ TablesOK /\ UNCHANGED <<entry, state, joining>>
      /\ sub' = [sub EXCEPT ![u] = [f \in Feeds |->
                   IF Subscribed(u, f) /\ sub[u][f].folder = folder
                   THEN [sub[u][f] EXCEPT !.folder = None] ELSE sub[u][f]]]
  BY DEF Tables, DeleteFolder
<1>2. \A s \in Subs : /\ [s EXCEPT !.folder = None] \in Subs
                      /\ [s EXCEPT !.folder = None].since = s.since
  BY DEF Subs
<1>3. sub \in [Users -> [Feeds -> Subs \cup {None}]]
  BY <1>1 DEF TablesOK
<1>4. ASSUME NEW v \in Users, NEW f \in Feeds
      PROVE  /\ sub'[v][f] \in Subs \cup {None}
             /\ Subscribed(v, f) <=> Subscribed(v, f)'
             /\ Subscribed(v, f) => sub'[v][f].since = sub[v][f].since
  <2>1. sub[v][f] \in Subs \cup {None}
    BY <1>3
  <2>2. CASE v = u /\ Subscribed(u, f) /\ sub[u][f].folder = folder
    <3>1. sub'[v][f] = [sub[v][f] EXCEPT !.folder = None] /\ sub[v][f] \in Subs
      BY <1>1, <1>3, <2>1, <2>2 DEF Subscribed
    <3> QED BY <1>2, <3>1, Shape, <2>2 DEF Subscribed
  <2>3. CASE ~(v = u /\ Subscribed(u, f) /\ sub[u][f].folder = folder)
    <3>1. sub'[v][f] = sub[v][f]
      BY <1>1, <1>3, <2>3
    <3> QED BY <2>1, <3>1 DEF Subscribed
  <2> QED BY <2>2, <2>3
<1>5. sub' \in [Users -> [Feeds -> Subs \cup {None}]]
  <2>1. sub' = [v \in Users |-> [f \in Feeds |-> sub'[v][f]]]
    BY <1>1, <1>3
  <2> QED BY <1>4, <2>1
<1> QED BY <1>1, <1>4, <1>5, SubStep

\* Every write of the tables.
LEMMA WriteStep == ASSUME Tables, Write PROVE Tables' /\ EntriesFollow
<1>1. \A flag \in BOOLEAN : flag \in BOOLEAN \cup {None}
  OBVIOUS
<1> QED BY <1>1, InsertStep, CommitStep, AbortStep, PurgeStep, UnsubscribeStep, SetStep,
      MarkStep, HeadStep,
           SubscribeStep, MoveStep, FolderStep DEF Write

-----------------------------------------------------------------------------
(* Pages *)

\* Keys order the entries that are there.
LEMMA Keys ==
  ASSUME TablesOK, NEW search \in BOOLEAN, NEW i \in Live
  PROVE  Key(i, search) \in Nat \X Nat /\ Key(i, search)[2] = i
<1>1. i \in Nat /\ entry[i].item \in Items
  BY FeedRows, Shape DEF Live
<1>2. Published[entry[i].item] \in Nat
  BY <1>1, Shape
<1> QED BY <1>1, <1>2 DEF Key

\* Sort keys with distinct ids are strictly and totally ordered.
LEMMA BelowOrder ==
  ASSUME NEW k \in Nat \X Nat, NEW l \in Nat \X Nat, NEW m \in Nat \X Nat
  PROVE  /\ ~Below(k, k) /\ (Below(k, l) => ~Below(l, k))
         /\ Below(k, l) /\ Below(l, m) => Below(k, m)
         /\ k[2] # l[2] => Below(k, l) \/ Below(l, k)
BY DEF Below

\* What a walk may list next.
Rows(w) == {i \in Wanted(w) : w.cursor # None => Past(Key(i, w.search), w.cursor)}
RowOrder(w) == {p \in Rows(w) \X Rows(w) : Below(Key(p[1], w.search), Key(p[2], w.search))}

\* The key a full page ends at.
LowestKey(keys) == CHOOSE k \in keys : \A l \in keys \ {k} : Below(k, l)

PageOf(w) == Page(w.user, w)
PageKeys(w) == {Key(i, w.search) : i \in PageOf(w)}

\* A walk wants, and its query finds, live rows only.
LEMMA WantedLive == ASSUME NEW w PROVE Wanted(w) \subseteq Live /\ Rows(w) \subseteq Live
BY DEF Wanted, Listed, UnreadMembers, Members, Rows

\* The rows of a walk's query are finitely many, and in that order.
LEMMA RowsOrdered ==
  ASSUME TablesOK, NEW w \in Walks
  PROVE  Orders(RowOrder(w), Rows(w))
<1>1. w.search \in BOOLEAN
  BY DEF Walks
<1>2. \A i \in Rows(w) : Key(i, w.search) \in Nat \X Nat /\ Key(i, w.search)[2] = i
  BY <1>1, Keys, WantedLive
<1>3. IsFiniteSet(Rows(w))
  <2>1. IsFiniteSet(1 .. MaxId)
    BY Shape, FS_Interval
  <2> QED BY <2>1, Shape, WantedLive, FS_Subset DEF Live
<1>4. \A i, j \in Rows(w) :
        <<i, j>> \in RowOrder(w) <=> Below(Key(i, w.search), Key(j, w.search))
  BY DEF RowOrder
<1> HIDE DEF Rows, RowOrder
<1> QED BY <1>2, <1>3, <1>4, BelowOrder DEF Orders

\* ORDER BY and LIMIT: the page holds the highest rows of the query.
LEMMA PageIsFirst ==
  ASSUME TablesOK, NEW w \in Walks
  PROVE  Page(w.user, w) = First(PageSize, RowOrder(w), Rows(w))
<1>1. \A i \in Rows(w) : {j \in Rows(w) : Below(Key(i, w.search), Key(j, w.search))}
                           = Above(i, RowOrder(w), Rows(w))
  BY DEF RowOrder, Above
<1>2. Page(w.user, w) = {i \in Rows(w) :
         Cardinality({j \in Rows(w) : Below(Key(i, w.search), Key(j, w.search))}) < PageSize}
  BY DEF Page, Rows, Wanted
<1> QED BY <1>1, <1>2 DEF First, Rank

\* A walk's page, and where its cursor goes.
LEMMA PageStep ==
  ASSUME TablesOK, NEW w \in Walks
  PROVE  /\ PageOf(w) \subseteq Rows(w) /\ Rows(w) \subseteq Live
         /\ IsFiniteSet(PageOf(w)) /\ Cardinality(PageOf(w)) \in Nat
         /\ Cardinality(PageOf(w)) < PageSize => PageOf(w) = Rows(w)
         /\ PageOf(w) # {} =>
              \E m \in PageOf(w) :
                /\ Key(m, w.search) = LowestKey(PageKeys(w))
                /\ \A i \in PageOf(w) : ~Below(Key(i, w.search), Key(m, w.search))
                /\ \A i \in Rows(w) \ PageOf(w) : Below(Key(i, w.search), Key(m, w.search))
<1> DEFINE page == PageOf(w)
           keys == PageKeys(w)
           lt == RowOrder(w)
           R == Rows(w)
           K(i) == Key(i, w.search)
<1>1. Orders(lt, R) /\ page = First(PageSize, lt, R) /\ R \subseteq Live /\ PageSize \in Nat
  BY RowsOrdered, PageIsFirst, WantedLive, Shape DEF PageOf
<1>2. \A i \in R : K(i) \in Nat \X Nat /\ K(i)[2] = i
  BY <1>1, Keys DEF Walks
<1>3. /\ \A i, j \in R : <<i, j>> \in lt <=> Below(K(i), K(j))
      /\ keys = {K(i) : i \in page}
  BY DEF RowOrder, PageKeys
<1> HIDE DEF page, keys
<1>4. page \subseteq R /\ IsFiniteSet(page) /\ Cardinality(page) \in Nat
  BY <1>1, FS_Subset, FS_CardinalityType DEF First, Orders
<1>5. Cardinality(page) < PageSize => page = R
  BY <1>1, FirstShort
<1>6. ASSUME page # {}
      PROVE  \E m \in page :
                /\ K(m) = LowestKey(keys)
                /\ \A i \in page : ~Below(K(i), K(m))
                /\ \A i \in R \ page : Below(K(i), K(m))
  <2>1. PICK b \in page : \A j \in page \ {b} : <<b, j>> \in lt
    BY <1>1, <1>6, FirstLowest
  <2>2. \E k \in keys : \A l \in keys \ {k} : Below(k, l)
    <3>1. K(b) \in keys
      BY <1>3
    <3>2. ASSUME NEW l \in keys \ {K(b)} PROVE Below(K(b), l)
      <4>1. PICK j \in page : l = K(j)
        BY <1>3
      <4> QED BY <1>3, <1>4, <2>1, <3>2, <4>1
    <3> QED BY <3>1, <3>2
  <2> DEFINE c == LowestKey(keys)
  <2>3. c \in keys /\ \A l \in keys \ {c} : Below(c, l)
    BY <2>2 DEF LowestKey
  <2> HIDE DEF c
  <2>4. PICK m \in page : c = K(m)
    BY <1>3, <2>3
  <2>5. m \in R /\ K(m) \in Nat \X Nat /\ K(m)[2] = m
    BY <1>2, <1>4
  <2>6. ASSUME NEW i \in page PROVE ~Below(K(i), K(m))
    <3>1. i \in R /\ K(i) \in Nat \X Nat /\ K(i) \in keys
      BY <1>2, <1>3, <1>4
    <3>2. CASE K(i) = K(m)
      BY <2>5, <3>2, BelowOrder
    <3>3. CASE K(i) # K(m)
      <4>1. Below(K(m), K(i))
        BY <2>3, <2>4, <3>1, <3>3
      <4> QED BY <2>5, <3>1, <4>1, BelowOrder
    <3> QED BY <3>2, <3>3
  <2>7. ASSUME NEW i \in R \ page PROVE Below(K(i), K(m))
    <3>1. <<i, m>> \in lt
      BY <1>1, FirstAbove
    <3> QED BY <1>3, <2>5, <3>1
  <2> QED BY <2>4, <2>6, <2>7 DEF c
<1> QED BY <1>1, <1>4, <1>5, <1>6 DEF page, keys

\* A page, its cursor and what it leaves keep the walk whole.
LEMMA NextPageStep ==
  ASSUME IInv, NextPage
  PROVE  IInv'
<1> DEFINE page == PageOf(walk)
           low == LowestKey(PageKeys(walk))
<1>1. TablesOK /\ Tables /\ Paging /\ walk # None /\ walk \in Walks /\ UNCHANGED tables
  BY DEF IInv, Tables, NextPage
<1>2. walk' = [walk EXCEPT !.seen = @ \cup page, !.owed = @ \ page,
        !.rows = @ + Cardinality(page),
                 !.done = Cardinality(page) < PageSize,
                 !.cursor = IF page = {} THEN @ ELSE low]
  BY DEF NextPage, LowestKey, PageOf, PageKeys
<1>3. /\ page \subseteq Rows(walk) /\ Rows(walk) \subseteq Live
      /\ IsFiniteSet(page) /\ Cardinality(page) \in Nat
      /\ Cardinality(page) < PageSize => page = Rows(walk)
      /\ page # {} => \E m \in page :
           /\ Key(m, walk.search) = low
           /\ \A i \in page : ~Below(Key(i, walk.search), Key(m, walk.search))
           /\ \A i \in Rows(walk) \ page : Below(Key(i, walk.search), Key(m, walk.search))
  BY <1>1, PageStep
<1> HIDE DEF page, low
<1>4. \A i \in Live : Key(i, walk.search) \in Nat \X Nat
  BY <1>1, Keys DEF Walks
<1>5. /\ walk.user \in Users /\ walk.stream \in Streams /\ walk.status \in {"unread", "all"}
      /\ walk.search \in BOOLEAN /\ walk.cursor \in (Nat \X Nat) \cup {None}
           /\ walk.seen \in SUBSET Ids
      /\ walk.rows \in Nat /\ walk.owed \in SUBSET Ids /\ walk.done \in BOOLEAN
  BY <1>1 DEF Walks
<1>6. /\ walk'.user = walk.user /\ walk'.stream = walk.stream /\ walk'.status = walk.status
      /\ walk'.search = walk.search /\ walk'.seen = walk.seen \cup page
      /\ walk'.owed = walk.owed \ page /\ walk'.rows = walk.rows + Cardinality(page)
      /\ walk'.done = (Cardinality(page) < PageSize)
      /\ walk'.cursor = IF page = {} THEN walk.cursor ELSE low
  BY <1>1, <1>2 DEF Walks
<1>7. page # {} => low \in Nat \X Nat
  BY <1>3, <1>4
<1>8. walk' \in Walks
  <2>1. walk.seen \cup page \in SUBSET Ids /\ walk.owed \ page \in SUBSET Ids
    BY <1>3, <1>5 DEF Live
  <2>2. walk.rows + Cardinality(page) \in Nat /\ (Cardinality(page) < PageSize) \in BOOLEAN
    BY <1>3, <1>5
  <2>3. (IF page = {} THEN walk.cursor ELSE low) \in (Nat \X Nat) \cup {None}
    BY <1>5, <1>7
  <2> QED BY <1>1, <1>2, <2>1, <2>2, <2>3 DEF Walks
<1>9. /\ \A i \in walk.seen : entry[i].at \notin {"unused", "pending"}
      /\ \A i \in walk.seen \cap Live :
           walk.cursor # None /\ ~Below(Key(i, walk.search), walk.cursor)
      /\ walk.owed \subseteq Wanted(walk)
      /\ \A i \in walk.owed : walk.cursor # None => Below(Key(i, walk.search), walk.cursor)
      /\ walk.rows = Cardinality(walk.seen)
  BY <1>1 DEF Paging
<1>10. walk.owed \subseteq Rows(walk)
  BY <1>9 DEF Rows, Past, Below
<1>11. \A i \in page : walk.cursor # None => Below(Key(i, walk.search), walk.cursor)
  BY <1>3 DEF Rows, Past, Below
<1>12. page \cap walk.seen = {}
  BY <1>3, <1>9, <1>11
<1>13. walk.rows + Cardinality(page) = Cardinality(walk.seen \cup page)
  <2>1. IsFiniteSet(walk.seen)
    <3>1. IsFiniteSet(1 .. MaxId)
      BY Shape, FS_Interval
    <3> QED BY <1>5, <3>1, Shape, FS_Subset
  <2>2. Cardinality(walk.seen \cup page)
          = Cardinality(walk.seen) + Cardinality(page) - Cardinality(walk.seen \cap page)
    BY <1>3, <2>1, FS_Union
  <2>3. Cardinality(walk.seen \cap page) = 0
    BY <1>12, FS_EmptySet
  <2> QED BY <1>3, <1>5, <1>9, <2>2, <2>3
<1>14. \A i \in walk'.seen : entry'[i].at \notin {"unused", "pending"}
  <2>1. entry' = entry /\ \A i \in page : entry[i].at = "live"
    BY <1>1, <1>3 DEF tables, Live
  <2> QED BY <1>6, <1>9, <2>1
<1>15. \A i \in walk'.seen \cap Live :
         walk'.cursor # None /\ ~Below(Key(i, walk.search), walk'.cursor)
  <2> SUFFICES ASSUME NEW i \in (walk.seen \cup page) \cap Live
               PROVE  walk'.cursor # None /\ ~Below(Key(i, walk.search), walk'.cursor)
    BY <1>6
  <2>1. CASE page = {}
    BY <1>6, <1>9, <2>1
  <2>2. CASE page # {}
    <3>1. PICK m \in page : /\ Key(m, walk.search) = low
                            /\ \A j \in page : ~Below(Key(j, walk.search), Key(m, walk.search))
      BY <1>3, <2>2
    <3>2. walk'.cursor = Key(m, walk.search) /\ Key(m, walk.search) \in Nat \X Nat
          /\ walk'.cursor # None
      BY <1>3, <1>4, <1>6, <2>2, <3>1, Shape
    <3>3. CASE i \in page
      BY <3>1, <3>2, <3>3
    <3>4. CASE i \in walk.seen
      <4>1. walk.cursor \in Nat \X Nat /\ ~Below(Key(i, walk.search), walk.cursor)
        BY <1>5, <1>9, <3>4
      <4>2. Below(Key(m, walk.search), walk.cursor) /\ Key(i, walk.search) \in Nat \X Nat
        BY <1>4, <1>9, <1>11, <3>4
      <4> QED BY <3>2, <4>1, <4>2, BelowOrder
    <3> QED BY <3>3, <3>4
  <2> QED BY <2>1, <2>2
<1>16. \A i \in walk'.owed : walk'.cursor # None => Below(Key(i, walk.search), walk'.cursor)
  BY <1>3, <1>6, <1>9, <1>10
<1>17. walk'.done => walk'.owed = {}
  BY <1>3, <1>6, <1>10
<1>18. /\ Wanted(walk)' = Wanted(walk) /\ Live' = Live /\ Tables'
       /\ \A i : Key(i, walk.search)' = Key(i, walk.search)
  <2>1. Wanted(walk)' = Wanted(walk)
    BY <1>1, <1>6
       DEF tables, Wanted, Listed, UnreadMembers, Members, Live, IsStarred, IsRead, Subscribed,
         Feed
  <2>2. Live' = Live /\ \A i : Key(i, walk.search)' = Key(i, walk.search)
    BY <1>1, <1>6 DEF tables, Live, Key
  <2>3. Tables'
    BY <1>1
       DEF Tables, tables, TablesOK, StatesKept, UsedFirst, HeadsKept, PendingLast, Before,
           Found,
         Subscribed, PendingOf, InFeed, Live, Feed
  <2> QED BY <2>1, <2>2, <2>3
<1>19. Paging'
  <2>1. walk'.owed \subseteq Wanted(walk)'
    BY <1>6, <1>9, <1>18
  <2>2. walk'.rows = Cardinality(walk'.seen)
    BY <1>6, <1>13
  <2> QED BY <1>6, <1>14, <1>15, <1>16, <1>17, <1>18, <2>1, <2>2 DEF Paging
<1> QED BY <1>8, <1>18, <1>19 DEF IInv

\* A walk that starts owes all it wants.
LEMMA StartStep ==
  ASSUME IInv, NEW p \in Paged, StartWalk(p)
  PROVE  IInv'
<1>1. /\ TablesOK /\ Tables /\ UNCHANGED tables
      /\ p \in [user : Users, stream : Streams, status : {"unread", "all"}, search : BOOLEAN]
  BY ReadingAssumption DEF IInv, Tables, StartWalk
<1>2. walk' = [user |-> p.user, stream |-> p.stream, status |-> p.status, search |-> p.search,
               cursor |-> None, seen |-> {}, rows |-> 0, done |-> FALSE, owed |-> Wanted(p)]
  BY DEF StartWalk
<1>3. Wanted(p) \in SUBSET Ids
  BY WantedLive DEF Live
<1>4. walk' \in Walks
  BY <1>1, <1>2, <1>3 DEF Walks
<1>5. Wanted(p)' = Wanted(p) /\ Tables'
  <2>1. Wanted(p)' = Wanted(p)
    BY <1>1
       DEF tables, Wanted, Listed, UnreadMembers, Members, Live, IsStarred, IsRead, Subscribed,
           Feed
  <2>2. Tables'
    BY <1>1
       DEF Tables, tables, TablesOK, StatesKept, UsedFirst, HeadsKept, PendingLast, Before,
           Found,
         Subscribed, PendingOf, InFeed, Live, Feed
  <2> QED BY <2>1, <2>2
<1>6. Wanted(walk)' = Wanted(p)'
  BY <1>2 DEF Wanted
<1>7. Paging'
  BY <1>2, <1>5, <1>6, FS_EmptySet DEF Paging
<1> QED BY <1>4, <1>5, <1>7 DEF IInv

\* A walk goes on over whatever is written.
LEMMA WriteWalk ==
  ASSUME IInv, Write, KeepWalk
  PROVE  IInv'
<1>1. Tables /\ TablesOK /\ walk \in Walks \cup {None} /\ Paging /\ Tables' /\ TablesOK'
        /\ EntriesFollow
  BY WriteStep DEF IInv, Tables
<1>2. CASE walk = None \/ walk.done
  BY <1>1, <1>2 DEF IInv, KeepWalk, Paging
<1>3. CASE walk # None /\ ~walk.done
  <2>1. PICK w \in Walks : w = walk
    BY <1>1, <1>3
  <2>2. walk' = [w EXCEPT !.owed = @ \cap Wanted(w)']
    BY <1>3, <2>1 DEF KeepWalk
  <2>3. /\ walk'.user = w.user /\ walk'.stream = w.stream /\ walk'.status = w.status
        /\ walk'.search = w.search /\ walk'.seen = w.seen /\ walk'.cursor = w.cursor
        /\ walk'.rows = w.rows /\ walk'.done = w.done /\ walk'.owed = w.owed \cap Wanted(w)'
        /\ walk' \in Walks
    BY <2>2 DEF Walks
  <2>4. Wanted(walk)' = Wanted(w)'
    BY <2>3 DEF Wanted
  <2>5. /\ w.seen \subseteq Ids /\ w.owed \subseteq Wanted(w)
        /\ \A i \in w.seen : entry[i].at \notin {"unused", "pending"}
        /\ \A i \in w.seen \cap Live : w.cursor # None /\ ~Below(Key(i, w.search), w.cursor)
        /\ \A i \in w.owed : w.cursor # None => Below(Key(i, w.search), w.cursor)
        /\ w.rows = Cardinality(w.seen) /\ ~w.done
    BY <1>1, <1>3, <2>1 DEF Paging, Walks
  <2>6. \A i \in Live : i \in Live' => Key(i, w.search)' = Key(i, w.search)
    BY <1>1 DEF EntriesFollow, Live, Key
  <2>7. w.owed \subseteq Live /\ Wanted(w)' \subseteq Live'
    <3>1. Wanted(w) \subseteq Live
      BY WantedLive
    <3>2. Wanted(w)' \subseteq Live'
      BY DEF Wanted, Listed, UnreadMembers, Members
    <3> QED BY <2>5, <3>1, <3>2
  <2>8. \A i \in w.seen :
          entry'[i].at \notin {"unused", "pending"} /\ (i \in Live' => i \in Live)
    BY <1>1, <2>5 DEF EntriesFollow, Live
  <2>9. Paging'
    <3>1. \A i \in walk'.seen : entry'[i].at \notin {"unused", "pending"}
      BY <2>3, <2>8
    <3>2. \A i \in walk'.seen \cap Live' :
            walk'.cursor # None /\ ~Below(Key(i, w.search)', walk'.cursor)
      BY <2>3, <2>5, <2>6, <2>8
    <3>3. walk'.owed \subseteq Wanted(walk)'
      BY <2>3, <2>4
    <3>4. \A i \in walk'.owed : walk'.cursor # None => Below(Key(i, w.search)', walk'.cursor)
      BY <2>3, <2>5, <2>6, <2>7
    <3>5. walk'.rows = Cardinality(walk'.seen) /\ ~walk'.done
      BY <2>3, <2>5
    <3> QED BY <2>3, <3>1, <3>2, <3>3, <3>4, <3>5 DEF Paging, Key
  <2> QED BY <1>1, <2>3, <2>9 DEF IInv
<1> QED BY <1>2, <1>3

\* A reader with empty tables satisfies the invariant.
LEMMA InitInv == Init => IInv
<1> SUFFICES ASSUME Init PROVE IInv
  OBVIOUS
<1>1. TablesOK
  BY DEF Init, TablesOK, Entries
<1>2. \A i \in Ids : entry[i].at = "unused"
  BY DEF Init
<1>3. StatesKept /\ UsedFirst
  BY <1>2 DEF Init, StatesKept, UsedFirst
<1>4. HeadsKept /\ PendingLast
  BY <1>2 DEF Init, HeadsKept, PendingLast, PendingOf, Subscribed
<1> QED BY <1>1, <1>3, <1>4 DEF Init, IInv, Tables, Paging

\* Nothing happens.
LEMMA Stutter == ASSUME IInv, UNCHANGED vars PROVE IInv'
<1> USE DEF vars, IInv, Tables
<1>1. TablesOK'
  BY DEF TablesOK
<1>2. StatesKept' /\ UsedFirst'
  BY DEF StatesKept, UsedFirst, Found, Subscribed, Live, Feed
<1>3. HeadsKept' /\ PendingLast'
  BY DEF HeadsKept, PendingLast, Before, Subscribed, PendingOf, InFeed, Live, Feed
<1>4. ASSUME walk # None
      PROVE  Wanted(walk)' = Wanted(walk) /\ Live' = Live
    BY DEF Wanted, Listed, UnreadMembers, Members, IsStarred, IsRead, Subscribed, InFeed, Live,
           Feed
<1>5. Paging'
  BY <1>4 DEF Paging, Key
<1>6. (walk \in Walks \cup {None})'
  OBVIOUS
<1> QED BY <1>1, <1>2, <1>3, <1>5, <1>6

\* Every step keeps it.
LEMMA NextInv == ASSUME IInv, [Next]_vars PROVE IInv'
BY WriteWalk, StartStep, NextPageStep, Stutter DEF Next

-----------------------------------------------------------------------------
(* Theorems *)

\* What every step keeps of the tables and of a client's walk.
THEOREM Invariance == Spec => []IInv
BY InitInv, NextInv, PTL DEF Spec

\* A client that follows next_cursor to the end has seen every entry that stayed in the
\* stream, and none twice, whatever is written meanwhile.
THEOREM WalksEndComplete == Spec => []WalkComplete
<1>1. IInv => WalkComplete
  BY DEF IInv, Paging, WalkComplete
<1> QED BY <1>1, Invariance, PTL

\* Whatever a stream lists, GET /entries/{id} finds.
THEOREM ListedIsFound == Spec => []ListedOpens
<1>1. IInv => ListedOpens
  BY DEF IInv, Tables, StatesKept, ListedOpens, Members, Found, IsStarred, Live
<1> QED BY <1>1, Invariance, PTL

-----------------------------------------------------------------------------
(* New entries and the purge *)

\* Only a commit makes what is pending live.
LEMMA OnlyCommits ==
  ASSUME TablesOK, [Next]_vars, \A f \in Feeds : ~CommitPoll(f),
         NEW i \in Ids, entry[i].at = "pending"
  PROVE  entry'[i].at # "live"
<1>1. entry \in [Ids -> Entries]
  BY DEF TablesOK
<1>2. CASE UNCHANGED entry
  BY <1>2
<1>3. ASSUME NEW item \in Items, InsertRow(item) PROVE entry'[i].at # "live"
  BY <1>1, <1>3 DEF InsertRow
<1>4. ASSUME NEW S, NEW how \in {"gone", "purged"}, Delete(S, how) PROVE entry'[i].at # "live"
  BY <1>4 DEF Delete
<1>5. \/ UNCHANGED entry \/ \E item \in Items : InsertRow(item)
      \/ \E S : \E how \in {"gone", "purged"} : Delete(S, how)
  BY
     DEF Next, Write, AbortPoll, Unsubscribe, ReadHead, MoveToFolder, Subscribe, DeleteFolder,
         SetState,
         MarkRead, Purge, StartWalk, NextPage, tables, vars
<1> QED BY <1>2, <1>3, <1>4, <1>5

\* What a poll commits is unread for every subscriber, whichever ids other polls hold, and for
\* one whose request has read the head and not yet inserted its row.
THEOREM NewEntriesAreUnread == Spec => NewIsUnread
<1> DEFINE New(f) == {i \in PendingOf(f) : entry'[i].at = "live"}
<1>1. ASSUME IInv, [Next]_vars, NEW u \in Users, NEW f \in Feeds, New(f) # {}
      PROVE  /\ Subscribed(u, f) => New(f) \subseteq UnreadMembers(u, OfFeed(f))'
             /\ joining # None /\ joining.feed = f => \A i \in New(f) : i > joining.since
  <2>1. Tables /\ TablesOK
    BY <1>1 DEF IInv, Tables
  <2>2. PICK g \in Feeds : CommitPoll(g)
    BY <1>1, <2>1, OnlyCommits DEF PendingOf
  <2>3. UNCHANGED <<sub, state, joining>>
    BY <2>2 DEF CommitPoll
  <2>4. ASSUME NEW i \in New(f), Subscribed(u, f) PROVE i \in UnreadMembers(u, OfFeed(f))'
    <3>1. i \in Ids /\ i \in PendingOf(f) /\ entry[i].at = "pending" /\ Feed(i) = f
            /\ entry'[i].at = "live"
      BY DEF PendingOf
    <3>2. entry'[i].item = entry[i].item
      BY <2>1, <2>2, <3>1, CommitStep DEF EntriesFollow
    <3>3. state[u][i] = None
      BY <2>1, <3>1 DEF Tables, StatesKept, Found, Live
    <3>4. i > sub[u][f].since
      <4>1. Before(sub[u][f].since, f) /\ sub[u][f] \in Subs
        BY <2>1, <2>4 DEF Tables, TablesOK, HeadsKept, Subscribed
      <4>2. sub[u][f].since \in Nat /\ i \in Nat
        BY <3>1, <4>1, RowShape, Shape
      <4> QED BY <3>1, <4>1, <4>2 DEF Before
    <3> QED BY <2>3, <2>4, <3>1, <3>2, <3>3, <3>4
            DEF UnreadMembers, Members, OfFeed, Live, Feed, Subscribed, IsRead
  <2>5. ASSUME NEW i \in New(f), joining # None, joining.feed = f PROVE i > joining.since
    <3>1. i \in PendingOf(f) /\ Before(joining.since, f) /\ joining \in Joins
      BY <2>1, <2>5 DEF Tables, TablesOK, HeadsKept
    <3>2. joining.since \in Nat /\ i \in Nat
      BY <3>1, RowShape, Shape DEF PendingOf
    <3> QED BY <3>1, <3>2 DEF Before
  <2> QED BY <2>4, <2>5
<1>2. ASSUME IInv, [Next]_vars
      PROVE  \A u \in Users, f \in Feeds :
               LET new == {i \in PendingOf(f) : entry'[i].at = "live"}
               IN  new # {} =>
                   /\ Subscribed(u, f) => new \subseteq UnreadMembers(u, OfFeed(f))'
                   /\ joining # None /\ joining.feed = f => \A i \in new : i > joining.since
  BY <1>1, <1>2
<1> QED BY <1>2, Invariance, PTL DEF Spec, NewIsUnread

\* Only the purge purges.
LEMMA OnlyPurges ==
  ASSUME TablesOK, [Next]_vars, NEW i \in Live, entry'[i].at = "purged"
  PROVE  \E S \in SUBSET Ids : Purge(S)
<1>1. i \in Ids /\ entry[i].at = "live" /\ entry \in [Ids -> Entries]
  BY DEF Live, TablesOK
<1>2. ASSUME NEW item \in Items, InsertRow(item) PROVE FALSE
  BY <1>1, <1>2 DEF InsertRow
<1>3. ASSUME NEW S, Delete(S, "gone") PROVE FALSE
  BY <1>1, <1>3 DEF Delete
<1>4. ASSUME NEW f \in Feeds, CommitPoll(f) PROVE FALSE
  BY <1>1, <1>4 DEF CommitPoll, PendingOf
<1>5. \/ UNCHANGED entry \/ (\E item \in Items : InsertRow(item)) \/ (\E S : Delete(S, "gone"))
      \/ (\E f \in Feeds : CommitPoll(f)) \/ \E S \in SUBSET Ids : Purge(S)
  BY
     DEF Next, Write, AbortPoll, Unsubscribe, ReadHead, MoveToFolder, Subscribe, DeleteFolder,
         SetState,
         MarkRead, StartWalk, NextPage, tables, vars
<1> QED BY <1>1, <1>2, <1>3, <1>4, <1>5

\* The retention sweep takes nothing a user has starred, or would miss in a count.
THEOREM PurgesUnnoticed == Spec => PurgeInvisible
<1>1. ASSUME IInv, [Next]_vars, \E i \in Live : entry'[i].at = "purged", NEW u \in Users
      PROVE  /\ \A f \in Feeds : Subscribed(u, f) => UnreadCount(u, f)' = UnreadCount(u, f)
             /\ Members(u, Starred)' = Members(u, Starred)
  <2>1. Tables /\ TablesOK
    BY <1>1 DEF IInv, Tables
  <2>2. PICK S \in SUBSET Ids : Purge(S)
    BY <1>1, <2>1, OnlyPurges
  <2>3. /\ UNCHANGED sub /\ \A i \in S : Purgeable(i)
        /\ \A i \in Ids :
             entry'[i] = IF i \in S THEN [item |-> None, at |-> "purged"] ELSE entry[i]
        /\ \A i \in Ids : state'[u][i] = IF i \in S THEN None ELSE state[u][i]
    BY <2>1, <2>2 DEF Purge, Delete, TablesOK
  <2>4. /\ Live' = Live \ S /\ \A i \in Ids \ S : Feed(i)' = Feed(i)
        /\ \A i \in Ids \ S :
             (IsRead(u, i)' <=> IsRead(u, i)) /\ (IsStarred(u, i)' <=> IsStarred(u, i))
    BY <2>3 DEF Live, Feed, IsRead, IsStarred
  <2>5. ASSUME NEW f \in Feeds, Subscribed(u, f) PROVE UnreadCount(u, f)' = UnreadCount(u, f)
    <3> DEFINE C == {i \in InFeed(f) : i > sub[u][f].since} \ {i \in Ids : IsRead(u, i)}
    <3>1. \A i \in S : i \notin C
      <4> SUFFICES ASSUME NEW i \in S, i \in C PROVE FALSE
        OBVIOUS
      <4>1. Feed(i) = f /\ i \in Ids /\ ~IsRead(u, i) /\ i > sub[u][f].since
        BY DEF InFeed, Live
      <4>2. sub[u][f].since \in Nat /\ i \in Nat
        <5>1. sub[u][f] \in Subs
          BY <2>1, <2>5 DEF TablesOK, Subscribed
        <5> QED BY <4>1, <5>1, RowShape, Shape
      <4> QED BY <2>3, <2>5, <4>1, <4>2 DEF Purgeable
    <3>2. C' = C
      BY <2>3, <2>4, <3>1 DEF InFeed, Live
    <3> QED BY <3>2 DEF UnreadCount
  <2>6. Members(u, Starred)' = Members(u, Starred)
    <3>1. \A i \in S : i \in Live => ~IsStarred(u, i)
      BY <2>3 DEF Purgeable
    <3> QED BY <2>4, <3>1 DEF Members, Starred, Live
  <2> QED BY <2>5, <2>6
<1>2. ASSUME IInv, [Next]_vars
      PROVE  (\E i \in Live : entry'[i].at = "purged") =>
               \A u \in Users :
                 /\ \A f \in Feeds : Subscribed(u, f) => UnreadCount(u, f)' = UnreadCount(u, f)
                 /\ Members(u, Starred)' = Members(u, Starred)
  BY <1>1, <1>2
<1> QED BY <1>2, Invariance, PTL DEF Spec, PurgeInvisible

-----------------------------------------------------------------------------
(* Counts *)

\* What unread_counts counts of a feed.
Counted(u, f) == {i \in InFeed(f) : i > sub[u][f].since} \ {i \in Ids : IsRead(u, i)}

\* A badge is the length of the list behind it.
LEMMA Badge ==
  ASSUME TablesOK, NEW u \in Users, NEW f \in Feeds, Subscribed(u, f)
  PROVE  /\ Counted(u, f) = UnreadMembers(u, OfFeed(f))
         /\ Counted(u, f) = {i \in UnreadMembers(u, All) : Feed(i) = f}
BY DEF Counted, InFeed, Live, UnreadMembers, Members, OfFeed, All

\* The entries of some feeds in the "all" list.
AllOf(u, F) == {i \in UnreadMembers(u, All) : Feed(i) \in F}

\* Only finitely many entries are on the tables.
LEMMA AllOfFinite ==
  ASSUME NEW u, NEW F
  PROVE  IsFiniteSet(AllOf(u, F)) /\ Cardinality(AllOf(u, F)) \in Nat
<1>1. IsFiniteSet(1 .. MaxId) /\ AllOf(u, F) \subseteq 1 .. MaxId
  BY Shape, FS_Interval DEF AllOf, UnreadMembers, Members, Live
<1> QED BY <1>1, FS_Subset, FS_CardinalityType

\* The sum over some feeds, one of them first.
SumStep(it, u, F) ==
  [s \in SUBSET F |-> IF s = {} THEN 0
                      ELSE UnreadCount(u, CHOOSE x \in s : TRUE)
                             + it[s \ {CHOOSE x \in s : TRUE}]]

\* One feed's entries come on top of the others'.
LEMMA AllOfStep ==
  ASSUME TablesOK, NEW u \in Users, NEW s, NEW f \in Feeds, f \in s, Subscribed(u, f)
  PROVE  Cardinality(AllOf(u, s)) = UnreadCount(u, f) + Cardinality(AllOf(u, s \ {f}))
<1> DEFINE A == AllOf(u, {f})
           B == AllOf(u, s \ {f})
<1>1. AllOf(u, s) = A \cup B /\ A \cap B = {}
  BY DEF AllOf
<1>2. IsFiniteSet(A) /\ IsFiniteSet(B) /\ Cardinality(A) \in Nat /\ Cardinality(B) \in Nat
  BY AllOfFinite
<1>3. Cardinality(A \cup B) = Cardinality(A) + Cardinality(B) - Cardinality(A \cap B)
  BY <1>2, FS_Union
<1>4. A = Counted(u, f)
  BY Badge DEF AllOf
<1>5. UnreadCount(u, f) = Cardinality(A)
  BY <1>4 DEF UnreadCount, Counted
<1> HIDE DEF A, B
<1>6. Cardinality(A \cap B) = 0
  BY <1>1, FS_EmptySet
<1> QED BY <1>1, <1>2, <1>3, <1>5, <1>6 DEF B

\* The badges of some feeds sum up to their part of the "all" list.
LEMMA Sum ==
  ASSUME TablesOK, NEW u \in Users, NEW F \in SUBSET Feeds, \A f \in F : Subscribed(u, f)
  PROVE  MapThenSumSet(LAMBDA f : UnreadCount(u, f), F) = Cardinality(AllOf(u, F))
<1> DEFINE g == [s \in SUBSET F |-> Cardinality(AllOf(u, s))]
           sum == CHOOSE it : it = SumStep(it, u, F)
           T == {n \in Nat : \A s \in SUBSET F : Cardinality(s) = n =>
                                sum[s] = Cardinality(AllOf(u, s))}
<1>1. \A s \in SUBSET F : s # {} => (CHOOSE x \in s : TRUE) \in s
  OBVIOUS
<1>2. \A s \in SUBSET F : IsFiniteSet(s) /\ Cardinality(s) \in Nat
  BY Shape, FS_Subset, FS_CardinalityType
<1>3. Cardinality(AllOf(u, {})) = 0
  <2>1. AllOf(u, {}) = {}
    BY DEF AllOf
  <2> QED BY <2>1, FS_EmptySet
<1>4. ASSUME NEW s \in SUBSET F, s # {}
      PROVE  LET x == CHOOSE x \in s : TRUE
             IN  Cardinality(AllOf(u, s)) = UnreadCount(u, x) + Cardinality(AllOf(u, s \ {x}))
  <2> DEFINE x == CHOOSE x \in s : TRUE
  <2>1. x \in s /\ x \in Feeds /\ Subscribed(u, x)
    BY <1>1, <1>4
  <2> HIDE DEF x
  <2>2. Cardinality(AllOf(u, s)) = UnreadCount(u, x) + Cardinality(AllOf(u, s \ {x}))
    BY <2>1, AllOfStep
  <2> QED BY <2>2 DEF x
<1>5. g = SumStep(g, u, F)
  <2>1. ASSUME NEW s \in SUBSET F PROVE g[s] = SumStep(g, u, F)[s]
    <3>1. CASE s = {}
      BY <1>3, <3>1 DEF SumStep
    <3>2. CASE s # {}
      BY <1>4, <3>2 DEF SumStep
    <3> QED BY <3>1, <3>2
  <2>2. /\ g = [s \in SUBSET F |-> g[s]]
        /\ SumStep(g, u, F) = [s \in SUBSET F |-> SumStep(g, u, F)[s]]
    BY DEF SumStep
  <2> HIDE DEF g
  <2> QED BY <2>1, <2>2
<1> HIDE DEF g
<1>6. sum = SumStep(sum, u, F)
  BY <1>5
<1> HIDE DEF sum
<1>7. /\ sum[{}] = 0
      /\ \A s \in SUBSET F : s # {} =>
           sum[s] = UnreadCount(u, CHOOSE x \in s : TRUE) + sum[s \ {CHOOSE x \in s : TRUE}]
  BY <1>6 DEF SumStep
<1>8. 0 \in T
  <2>1. \A s \in SUBSET F : Cardinality(s) = 0 => s = {}
    BY <1>2, FS_EmptySet
  <2> QED BY <1>3, <1>7, <2>1
<1>9. ASSUME NEW n \in Nat, n \in T PROVE n + 1 \in T
  <2> SUFFICES ASSUME NEW s \in SUBSET F, Cardinality(s) = n + 1
               PROVE  sum[s] = Cardinality(AllOf(u, s))
    OBVIOUS
  <2> DEFINE x == CHOOSE x \in s : TRUE
  <2>1. s # {}
    BY FS_EmptySet
  <2>2. x \in s /\ s \ {x} \in SUBSET F
    BY <1>1, <2>1
  <2>5. /\ Cardinality(AllOf(u, s)) = UnreadCount(u, x) + Cardinality(AllOf(u, s \ {x}))
        /\ sum[s] = UnreadCount(u, x) + sum[s \ {x}]
    BY <1>4, <1>7, <2>1
  <2> HIDE DEF x
  <2>3. Cardinality(s \ {x}) = n
    BY <1>2, <2>2, FS_RemoveElement
  <2>4. sum[s \ {x}] = Cardinality(AllOf(u, s \ {x}))
    BY <1>9, <2>2, <2>3
  <2> QED BY <2>4, <2>5
<1> HIDE DEF T
<1>10. \A n \in Nat : n \in T
  BY <1>8, <1>9, Induction
<1>11. sum[F] = Cardinality(AllOf(u, F))
  BY <1>2, <1>10 DEF T
<1>12. MapThenSumSet(LAMBDA f : UnreadCount(u, f), F) = sum[F]
  BY DEF MapThenSumSet, MapThenFoldSet, SumStep, sum
<1> QED BY <1>11, <1>12

\* The badge of a subscription is the length of its unread list, and the total that of the
\* "all" stream.
THEOREM CountsAreLengths == Spec => []CountsAgree
<1>1. ASSUME IInv PROVE CountsAgree
  <2>1. TypeOK /\ TablesOK
    BY <1>1 DEF IInv, Tables, TablesOK, TypeOK
  <2>2. ASSUME NEW u \in Users
        PROVE  LET feeds == {f \in Feeds : Subscribed(u, f)}
               IN  /\ \A f \in feeds :
                        UnreadCount(u, f) = Cardinality(UnreadMembers(u, OfFeed(f)))
                   /\ MapThenSumSet(LAMBDA f : UnreadCount(u, f), feeds)
                        = Cardinality(UnreadMembers(u, All))
    <3> DEFINE feeds == {f \in Feeds : Subscribed(u, f)}
    <3>1. \A f \in feeds : UnreadCount(u, f) = Cardinality(UnreadMembers(u, OfFeed(f)))
      BY <2>1, Badge DEF UnreadCount, Counted
    <3>2. feeds \in SUBSET Feeds /\ \A f \in feeds : Subscribed(u, f)
      OBVIOUS
    <3>3. AllOf(u, feeds) = UnreadMembers(u, All)
      <4>1. \A i \in UnreadMembers(u, All) : i \in Live /\ Subscribed(u, Feed(i))
        BY DEF UnreadMembers, Members, All
      <4>2. \A i \in Live : Feed(i) \in Feeds
        BY <2>1, FeedRows DEF Live
      <4> QED BY <4>1, <4>2 DEF AllOf
    <3> HIDE DEF feeds
    <3>4. MapThenSumSet(LAMBDA f : UnreadCount(u, f), feeds) = Cardinality(UnreadMembers(u, All))
      BY <2>1, <3>2, <3>3, Sum
    <3> QED BY <3>1, <3>4 DEF feeds
  <2> QED BY <2>1, <2>2 DEF CountsAgree
<1> QED BY <1>1, Invariance, PTL
=============================================================================
