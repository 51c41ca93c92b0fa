------------------------- MODULE OfflineQueueProofs -------------------------
(***************************************************************************)
(* Proofs about OfflineQueue, for any tabs, browsers, clocks and bounds.    *)
(***************************************************************************)
EXTENDS OfflineQueue, SequenceTheorems, WellFoundedInduction, TLAPS

-----------------------------------------------------------------------------
(* The inductive invariant *)

\* The changes that are, or were, in an outbox.
Stored ==
  {c \in Changes :
     \/ \E b \in Browsers : c \in ToSet(outbox[b])
     \/ \E t \in Tabs : c \in ToSet(tab[t].todo) \/ (Draining(t) /\ c = tab[t].replay.change)}

Numbered == \A c \in Stored : c.id <= made

\* The change of a mutation under way is in no outbox, and is no other tab's.
Unstored(t) ==
  tab[t].direct # None =>
    /\ tab[t].direct.change.id <= made
    /\ \A c \in Stored : c.id # tab[t].direct.change.id
    /\ \A u \in Tabs \ {t} :
         tab[u].direct # None => tab[u].direct.change.id # tab[t].direct.change.id

\* A drain that is about to delete a change has the server's word on it.
Settled(t) ==
  Draining(t) /\ tab[t].replay.pc \in {"taken", "delete"} =>
    tab[t].replay.change.id \notin story.queued

Outboxes == NothingLost /\ Numbered /\ \A t \in Tabs : Unstored(t) /\ Settled(t)

Merging ==
  /\ row.at <= now + MaxSkew
  /\ \A w \in story.writes : w.at \in 1 .. row.at /\ (w.at = row.at /\ w.val => row[w.flag])
  /\ IF story.writes = {} THEN row.at = 0 ELSE \E w \in story.writes : w.at = row.at
  /\ \A f \in Flags :
       story.writes # {} /\ (\A w \in story.writes : w.at = row.at => w.flag = f /\ ~w.val)
         => ~row[f]

IInv == TypeOK /\ Outboxes /\ Merging

-----------------------------------------------------------------------------
(* Outboxes as sets *)

\* A set of numbers that is not empty has a least one.
LEMMA Lowest ==
  ASSUME NEW S \in SUBSET Nat, S # {}
  PROVE  \E x \in S : \A y \in S : x <= y
<1> DEFINE R == {ss \in Nat \X Nat : ss[1] < ss[2]}
<1>1. IsWellFoundedOn(R, Nat)
  BY NatLessThanWellFounded DEF OpToRel
<1>2. \E x \in S : \A y \in S : ~(<<y, x>> \in R)
  <2> HIDE DEF R
  <2> QED BY <1>1, WFMin
<1>3. \A x, y \in Nat : ~(<<y, x>> \in R) => x <= y
  OBVIOUS
<1> QED BY <1>2, <1>3

\* The members of a sequence.
LEMMA Members ==
  ASSUME NEW S, NEW s \in Seq(S)
  PROVE  ToSet(s) = {s[i] : i \in 1 .. Len(s)} /\ ToSet(s) \subseteq S
<1>1. Len(s) \in Nat /\ DOMAIN s = 1 .. Len(s)
  BY LenProperties
<1> QED BY <1>1, ElementOfSeq DEF ToSet

\* An empty outbox has none.
LEMMA NoMembers == ToSet(<<>>) = {}
BY DEF ToSet

\* A change queued joins them.
LEMMA AppendMembers ==
  ASSUME NEW S, NEW s \in Seq(S), NEW e \in S
  PROVE  Append(s, e) \in Seq(S) /\ ToSet(Append(s, e)) = ToSet(s) \cup {e}
<1> DEFINE r == Append(s, e)
<1>1. /\ Len(s) \in Nat /\ r \in Seq(S) /\ Len(r) = Len(s) + 1
      /\ \A i \in 1 .. Len(s) : r[i] = s[i]
      /\ r[Len(s) + 1] = e
  BY LenProperties
<1>2. ToSet(s) = {s[i] : i \in 1 .. Len(s)} /\ ToSet(r) = {r[i] : i \in 1 .. Len(r)}
  BY <1>1, Members
<1> HIDE DEF r
<1> QED BY <1>1, <1>2 DEF r

\* The head and the tail of a sequence are of its members.
LEMMA HeadTailMembers ==
  ASSUME NEW S, NEW s \in Seq(S), s # <<>>
  PROVE  /\ Head(s) \in ToSet(s) /\ Head(s) \in S
         /\ Tail(s) \in Seq(S) /\ ToSet(Tail(s)) \subseteq ToSet(s)
<1> DEFINE r == Tail(s)
<1>1. /\ Len(s) \in Nat \ {0} /\ Head(s) = s[1] /\ Head(s) \in S
      /\ r \in Seq(S) /\ Len(r) = Len(s) - 1
      /\ \A i \in 1 .. Len(r) : r[i] = s[i + 1]
  BY EmptySeq, HeadTailProperties
<1>2. ToSet(s) = {s[i] : i \in 1 .. Len(s)} /\ ToSet(r) = {r[i] : i \in 1 .. Len(r)}
  BY <1>1, Members
<1> HIDE DEF r
<1> QED BY <1>1, <1>2 DEF r

\* Deleting a change takes at most that change away.
LEMMA RemoveMembers ==
  ASSUME NEW S, NEW s \in Seq(S), NEW e
  PROVE  /\ RemoveFirst(s, e) \in Seq(S) /\ ToSet(RemoveFirst(s, e)) \subseteq ToSet(s)
         /\ ToSet(s) \ {e} \subseteq ToSet(RemoveFirst(s, e))
<1>1. CASE ~ \E i \in 1 .. Len(s) : s[i] = e
  BY <1>1 DEF RemoveFirst
<1>2. CASE \E i \in 1 .. Len(s) : s[i] = e
  <2> DEFINE I == {i \in 1 .. Len(s) : s[i] = e}
             m == SelectInSeq(s, LAMBDA v : v = e)
             r == RemoveFirst(s, e)
  <2>1. Len(s) \in Nat
    BY LenProperties
  <2>2. m = Min(I)
    BY <1>2 DEF SelectInSeq
  <2>3. PICK n \in I : \A i \in I : n <= i
    <3>1. I \in SUBSET Nat /\ I # {}
      BY <1>2, <2>1
    <3> HIDE DEF I
    <3> QED BY <3>1, Lowest
  <2>4. m \in I
    BY <2>2, <2>3 DEF Min
  <2>5. r = SubSeq(s, 1, m - 1) \o SubSeq(s, m + 1, Len(s))
    BY <1>2 DEF RemoveFirst, RemoveAt
  <2> HIDE DEF m, r
  <2> DEFINE a == SubSeq(s, 1, m - 1)
             b == SubSeq(s, m + 1, Len(s))
  <2>6. m \in 1 .. Len(s) /\ s[m] = e
    BY <2>4
  <2>7. /\ a \in Seq(S) /\ Len(a) = m - 1 /\ \A i \in 1 .. m - 1 : a[i] = s[i]
        /\ b \in Seq(S) /\ Len(b) = Len(s) - m /\ \A i \in 1 .. Len(s) - m : b[i] = s[m + i]
    <3>1. \A i \in 1 .. Len(s) : s[i] \in S
      BY ElementOfSeq
    <3>2. m - 1 \in Int /\ m + 1 \in Int /\ Len(s) \in Int
      BY <2>1, <2>6
    <3>3. /\ a \in Seq(S) /\ Len(a) = (IF 1 <= m - 1 THEN (m - 1) - 1 + 1 ELSE 0)
          /\ \A i \in 1 .. (m - 1) - 1 + 1 : a[i] = s[1 + i - 1]
      <4>1. \A i \in 1 .. m - 1 : s[i] \in S
        BY <2>1, <2>6, <3>1
      <4> QED BY <3>2, <4>1, SubSeqProperties
    <3>4. /\ b \in Seq(S) /\ Len(b) = (IF m + 1 <= Len(s) THEN Len(s) - (m + 1) + 1 ELSE 0)
          /\ \A i \in 1 .. Len(s) - (m + 1) + 1 : b[i] = s[(m + 1) + i - 1]
      <4>1. \A i \in m + 1 .. Len(s) : s[i] \in S
        BY <2>1, <2>6, <3>1
      <4> QED BY <3>2, <4>1, SubSeqProperties
    <3> HIDE DEF a, b
    <3>5. Len(a) = m - 1 /\ \A i \in 1 .. m - 1 : a[i] = s[i]
      BY <2>1, <2>6, <3>3
    <3>6. Len(b) = Len(s) - m /\ \A i \in 1 .. Len(s) - m : b[i] = s[m + i]
      <4>1. \A i \in 1 .. Len(s) - m :
              i \in 1 .. Len(s) - (m + 1) + 1 /\ (m + 1) + i - 1 = m + i
        BY <2>1, <2>6
      <4> QED BY <2>1, <2>6, <3>4, <4>1
    <3> QED BY <3>3, <3>4, <3>5, <3>6
  <2> HIDE DEF a, b
  <2>8. /\ r \in Seq(S) /\ Len(r) = Len(s) - 1
        /\ \A i \in 1 .. Len(s) - 1 : r[i] = IF i <= m - 1 THEN a[i] ELSE b[i - (m - 1)]
    <3>1. /\ a \o b \in Seq(S) /\ Len(a \o b) = Len(a) + Len(b)
          /\ \A i \in 1 .. Len(a) + Len(b) :
               (a \o b)[i] = IF i <= Len(a) THEN a[i] ELSE b[i - Len(a)]
      BY <2>7, ConcatProperties
    <3>2. r = a \o b
      BY <2>5 DEF a, b
    <3>3. Len(a) + Len(b) = Len(s) - 1
      BY <2>1, <2>6, <2>7
    <3> QED BY <2>7, <3>1, <3>2, <3>3
  <2>9. \A i \in 1 .. Len(s) - 1 : r[i] = IF i < m THEN s[i] ELSE s[i + 1]
    <3> TAKE i \in 1 .. Len(s) - 1
    <3>1. CASE i < m
      <4>1. i \in 1 .. m - 1 /\ i <= m - 1
        BY <2>1, <2>6, <3>1
      <4> QED BY <2>7, <2>8, <3>1, <4>1
    <3>2. CASE i >= m
      <4>1. i - (m - 1) \in 1 .. Len(s) - m /\ m + (i - (m - 1)) = i + 1 /\ ~(i <= m - 1)
        BY <2>1, <2>6, <3>2
      <4>2. r[i] = b[i - (m - 1)]
        BY <2>8, <4>1
      <4>3. b[i - (m - 1)] = s[m + (i - (m - 1))]
        BY <2>7, <4>1
      <4>4. ~(i < m)
        BY <2>1, <2>6, <3>2
      <4> QED BY <4>1, <4>2, <4>3, <4>4
    <3> QED BY <2>1, <2>6, <3>1, <3>2
  <2>10. ToSet(s) = {s[i] : i \in 1 .. Len(s)} /\ ToSet(r) = {r[i] : i \in 1 .. Len(s) - 1}
    BY <2>8, Members
  <2>11. ToSet(r) \subseteq ToSet(s)
    BY <2>1, <2>6, <2>9, <2>10
  <2>12. ASSUME NEW i \in 1 .. Len(s), s[i] # e
         PROVE  s[i] \in ToSet(r)
    <3>1. CASE i < m
      BY <2>1, <2>6, <2>9, <2>10, <3>1
    <3>2. CASE i > m
      <4>1. i - 1 \in 1 .. Len(s) - 1 /\ r[i - 1] = s[i]
        BY <2>1, <2>6, <2>9, <3>2
      <4> QED BY <2>10, <4>1
    <3> QED BY <2>1, <2>6, <2>12, <3>1, <3>2
  <2> QED BY <2>8, <2>10, <2>11, <2>12 DEF r
<1> QED BY <1>1, <1>2

-----------------------------------------------------------------------------
(* The merge *)

\* No clock is further ahead than the server allows.
LEMMA Clamped ==
  ASSUME TypeOK, NEW at \in Nat \ {0}
  PROVE  Clamp(at) \in Nat \ {0} /\ Clamp(at) <= now + MaxSkew
<1>1. now + MaxSkew \in Nat \ {0}
  BY OfflineAssumption DEF TypeOK
<1>2. \E x \in {at, now + MaxSkew} : \A y \in {at, now + MaxSkew} : x <= y
  <2>1. CASE at <= now + MaxSkew
    BY <1>1, <2>1
  <2>2. CASE ~(at <= now + MaxSkew)
    BY <1>1, <2>2
  <2> QED BY <2>1, <2>2
<1>3. Clamp(at) \in {at, now + MaxSkew} /\ \A y \in {at, now + MaxSkew} : Clamp(at) <= y
  BY <1>2 DEF Clamp, Min
<1> QED BY <1>1, <1>3

\* A delivered change is merged into a row that stays what its newest writes made it.
LEMMA DeliverMerges ==
  ASSUME TypeOK, Merging, NEW c \in Changes, Deliver(c), now' = now
  PROVE  /\ Merging'
         /\ row' \in [read : BOOLEAN, star : BOOLEAN, at : Nat]
         /\ story' \in [queued : SUBSET (1 .. MaxChanges), writes : SUBSET Writes]
         /\ story'.queued = story.queued \ {c.id}
<1> DEFINE at == Clamp(c.at)
           w == [flag |-> c.flag, val |-> c.val, at |-> at]
           W == story.writes
<1>1. c.flag \in Flags /\ c.val \in BOOLEAN /\ c.at \in Nat \ {0}
  BY OfflineAssumption DEF Changes, Times
<1>2. at \in Nat \ {0} /\ at <= now + MaxSkew
  BY <1>1, Clamped
<1>3. /\ row \in [read : BOOLEAN, star : BOOLEAN, at : Nat] /\ row.at \in Nat
      /\ W \subseteq Writes /\ story.queued \subseteq 1 .. MaxChanges
      /\ now + MaxSkew \in Nat
  BY OfflineAssumption DEF TypeOK
<1>4. /\ story'.writes = W \cup {w} /\ story'.queued = story.queued \ {c.id}
      /\ row' = Merged(c.flag, c.val, at)
  BY DEF Deliver, TypeOK
<1>5. w \in Writes /\ w.flag = c.flag /\ w.val = c.val /\ w.at = at
  BY <1>1, <1>2 DEF Writes
<1>6. story' \in [queued : SUBSET (1 .. MaxChanges), writes : SUBSET Writes]
  BY <1>3, <1>5 DEF Deliver, TypeOK
<1>7. \A v \in W : v.at \in Nat /\ v.flag \in Flags /\ v.val \in BOOLEAN /\ v.at <= row.at
  BY <1>3 DEF Writes, Merging
<1> HIDE DEF at, w
<1>8. CASE at < row.at
  <2>1. row' = row
    BY <1>4, <1>8 DEF Merged
  <2>2. W # {}
    BY <1>2, <1>3, <1>8 DEF Merging
  <2>3. PICK v \in W : v.at = row.at
    BY <2>2 DEF Merging
  <2>4. (\A x \in W \cup {w} : x.at \in 1 .. row.at /\ (x.at = row.at /\ x.val => row[x.flag]))
    BY <1>2, <1>3, <1>5, <1>8 DEF Merging
  <2>5. \A f \in Flags :
          (\A x \in W \cup {w} : x.at = row.at => x.flag = f /\ ~x.val) => ~row[f]
    BY <2>2 DEF Merging
  <2> QED BY <1>3, <1>4, <1>6, <2>1, <2>2, <2>3, <2>4, <2>5 DEF Merging
<1>9. CASE row.at < at
  <2> DEFINE val == IF row.at < at THEN c.val ELSE row[c.flag] \/ c.val
  <2>0. ~(at < row.at)
    BY <1>2, <1>3, <1>9
  <2>1. row' = [row EXCEPT ![c.flag] = val, !.at = at]
    BY <1>4, <2>0, Zenon DEF Merged
  <2>7. val = c.val
    BY <1>9, Zenon
  <2> HIDE DEF val
  <2>2. /\ row' \in [read : BOOLEAN, star : BOOLEAN, at : Nat] /\ row'.at = at
        /\ row'[c.flag] = c.val
    BY <1>1, <1>2, <1>3, <2>1, <2>7 DEF Flags
  <2>3. \A x \in W : x.at < at
    BY <1>2, <1>3, <1>7, <1>9
  <2>4. \A x \in W \cup {w} : x.at \in 1 .. at /\ (x.at = at /\ x.val => row'[x.flag])
    BY <1>2, <1>3, <1>5, <2>2, <2>3 DEF Merging
  <2>5. \A f \in Flags :
          (\A x \in W \cup {w} : x.at = at => x.flag = f /\ ~x.val) => ~row'[f]
    BY <1>5, <2>2
  <2> QED BY <1>2, <1>4, <1>5, <1>6, <2>2, <2>4, <2>5 DEF Merging
<1>10. CASE row.at = at
  <2> DEFINE val == IF row.at < at THEN c.val ELSE row[c.flag] \/ c.val
  <2>0. ~(at < row.at) /\ ~(row.at < at)
    BY <1>2, <1>3, <1>10
  <2>1. row' = [row EXCEPT ![c.flag] = val, !.at = at]
    BY <1>4, <2>0, Zenon DEF Merged
  <2>7. val = (row[c.flag] \/ c.val)
    BY <2>0, Zenon
  <2> HIDE DEF val
  <2>2. /\ row' \in [read : BOOLEAN, star : BOOLEAN, at : Nat] /\ row'.at = at
        /\ row'[c.flag] = (row[c.flag] \/ c.val)
        /\ \A f \in Flags : f # c.flag => row'[f] = row[f]
    BY <1>1, <1>2, <1>3, <2>1, <2>7 DEF Flags
  <2>3. \A x \in W \cup {w} : x.at \in 1 .. at /\ (x.at = at /\ x.val => row'[x.flag])
    BY <1>1, <1>2, <1>3, <1>5, <1>7, <1>10, <2>2 DEF Merging
  <2>4. W # {}
    BY <1>2, <1>3, <1>10 DEF Merging
  <2>5. \A f \in Flags :
          (\A x \in W \cup {w} : x.at = at => x.flag = f /\ ~x.val) => ~row'[f]
    BY <1>5, <1>10, <2>2, <2>4 DEF Merging
  <2> QED BY <1>2, <1>4, <1>5, <1>6, <2>2, <2>3, <2>5 DEF Merging
<1> QED BY <1>2, <1>3, <1>8, <1>9, <1>10

\* Mark-all-read begins the merge anew.
LEMMA MarkMerges ==
  ASSUME TypeOK, MarkAllRead
  PROVE  /\ Merging'
         /\ row' \in [read : BOOLEAN, star : BOOLEAN, at : Nat]
         /\ story' \in [queued : SUBSET (1 .. MaxChanges), writes : SUBSET Writes]
         /\ story'.queued = story.queued
<1> DEFINE w == [flag |-> "read", val |-> TRUE, at |-> now]
<1>1. now \in Nat \ {0} /\ MaxSkew \in Nat /\ now' = now
  BY OfflineAssumption DEF TypeOK, MarkAllRead
<1>2. row' \in [read : BOOLEAN, star : BOOLEAN, at : Nat] /\ row'.at = now /\ row'["read"]
  BY <1>1 DEF TypeOK, MarkAllRead
<1>3. w \in Writes /\ w.flag = "read" /\ w.val /\ w.at = now
  BY <1>1 DEF Writes, Flags
<1>4. /\ story' \in [queued : SUBSET (1 .. MaxChanges), writes : SUBSET Writes]
      /\ story'.queued = story.queued /\ story'.writes = {w}
  BY <1>3 DEF TypeOK, MarkAllRead
<1> HIDE DEF w
<1> QED BY <1>1, <1>2, <1>3, <1>4 DEF Merging

\* Time only relaxes it.
LEMMA MergeStays ==
  ASSUME TypeOK, TypeOK', Merging, row' = row, story'.writes = story.writes, now' >= now
  PROVE  Merging'
<1>1. now \in Nat /\ now' \in Nat /\ MaxSkew \in Nat /\ row.at \in Nat
  BY OfflineAssumption DEF TypeOK
<1>2. row'.at <= now' + MaxSkew
  BY <1>1 DEF Merging
<1> QED BY <1>2 DEF Merging

-----------------------------------------------------------------------------
(* The outboxes *)

\* A tab's value s becomes r: r asks for nothing new, and replays what was stored.
Keeps(s, r) ==
  /\ r \in TabVals
  /\ r.direct # None => s.direct # None /\ r.direct.change = s.direct.change
  /\ ToSet(r.todo) \subseteq Stored
  /\ r.replay # None => r.replay.change \in Stored

Sure(r, queued) ==
  r.replay # None /\ r.replay.pc \in {"taken", "delete"} => r.replay.change.id \notin queued

\* What a tab's requests are.
LEMMA Requested ==
  ASSUME TypeOK, NEW t \in Tabs
  PROVE  /\ tab[t] \in TabVals /\ BrowserOf[t] \in Browsers /\ Box(t) \in Seq(Changes)
         /\ tab[t].open \in BOOLEAN /\ tab[t].count \in Nat /\ tab[t].todo \in Seq(Changes)
         /\ tab[t].direct \in Posts /\ tab[t].replay \in Posts
         /\ tab[t].direct # None => tab[t].direct \in Requests
              /\ tab[t].direct.change \in Changes
         /\ tab[t].replay # None => tab[t].replay \in Requests
              /\ tab[t].replay.change \in Changes
BY OfflineAssumption DEF TypeOK, TabVals, Posts, Requests, Box

\* A drain's next request is one of the changes it read.
LEMMA SendingNext ==
  ASSUME NEW s \in TabVals, NEW todo \in Seq(Changes)
  PROVE  /\ Sending(s, todo) \in TabVals
         /\ Sending(s, todo).direct = s.direct
         /\ ToSet(Sending(s, todo).todo) \subseteq ToSet(todo)
         /\ Sending(s, todo).replay # None =>
              /\ Sending(s, todo).replay.pc = "sent"
              /\ Sending(s, todo).replay.change \in ToSet(todo)
<1>1. CASE todo = <<>>
  BY <1>1, NoMembers DEF Sending, TabVals, Posts
<1>2. CASE todo # <<>>
  <2>1. /\ Head(todo) \in ToSet(todo) /\ Head(todo) \in Changes
        /\ Tail(todo) \in Seq(Changes) /\ ToSet(Tail(todo)) \subseteq ToSet(todo)
    BY <1>2, HeadTailMembers
  <2>2. Post(Head(todo)) \in Posts /\ Post(Head(todo)).pc = "sent"
          /\ Post(Head(todo)).change = Head(todo)
    BY <2>1 DEF Post, Posts, Requests
  <2>3. Sending(s, todo) = [s EXCEPT !.replay = Post(Head(todo)), !.todo = Tail(todo)]
    BY <1>2 DEF Sending
  <2> QED BY <2>1, <2>2, <2>3 DEF TabVals
<1> QED BY <1>1, <1>2

\* What is stored in an outbox, and by a tab.
LEMMA StoredThere ==
  ASSUME TypeOK
  PROVE  /\ \A b \in Browsers : ToSet(outbox[b]) \subseteq Stored
         /\ \A t \in Tabs : ToSet(tab[t].todo) \subseteq Stored
         /\ \A t \in Tabs : tab[t].replay # None => tab[t].replay.change \in Stored
<1>1. \A b \in Browsers : ToSet(outbox[b]) \subseteq Changes
  BY Members DEF TypeOK
<1>2. ASSUME NEW t \in Tabs
      PROVE  ToSet(tab[t].todo) \subseteq Changes /\ (tab[t].replay # None
               => tab[t].replay.change \in Changes)
  BY Requested, Members
<1> QED BY <1>1, <1>2 DEF Stored, Draining

\* An idle tab keeps what it has.
LEMMA SameKeeps ==
  ASSUME TypeOK, NEW t \in Tabs
  PROVE  Keeps(tab[t], tab[t])
BY Requested, StoredThere DEF Keeps

\* A step of the tabs that stores nothing new, and of which the server knows what it removes.
LEMMA OutboxesKept ==
  ASSUME TypeOK, Outboxes, made' = made,
         \A t \in Tabs : Keeps(tab[t], tab'[t]) /\ Sure(tab'[t], story'.queued),
         \A b \in Browsers : ToSet(outbox'[b]) \subseteq ToSet(outbox[b]),
         story'.queued \subseteq story.queued,
         \A b \in Browsers : \A c \in ToSet(outbox[b]) :
           c.id \in story'.queued => c \in ToSet(outbox'[b])
  PROVE  Outboxes'
<1>1. Stored' \subseteq Stored
  <2>1. \A b \in Browsers : ToSet(outbox'[b]) \subseteq Stored
    BY StoredThere
  <2>2. \A t \in Tabs : ToSet(tab'[t].todo) \subseteq Stored
    BY DEF Keeps
  <2>3. \A t \in Tabs : tab'[t].replay # None => tab'[t].replay.change \in Stored
    BY DEF Keeps
  <2> DEFINE S == Stored
  <2> HIDE DEF S
  <2>4. /\ \A b \in Browsers : ToSet(outbox'[b]) \subseteq S
        /\ \A t \in Tabs : ToSet(tab'[t].todo) \subseteq S
        /\ \A t \in Tabs : tab'[t].replay # None => tab'[t].replay.change \in S
    BY <2>1, <2>2, <2>3 DEF S
  <2>5. ASSUME NEW c \in Stored' PROVE c \in S
    <3>1. \/ \E b \in Browsers : c \in ToSet(outbox'[b])
          \/ \E t \in Tabs : c \in ToSet(tab'[t].todo)
          \/ \E t \in Tabs : tab'[t].replay # None /\ c = tab'[t].replay.change
      BY <2>5, Zenon DEF Stored, Draining
    <3> QED BY <2>4, <3>1
  <2> QED BY <2>5 DEF S
<1>2. Numbered'
  BY <1>1 DEF Outboxes, Numbered
<1>3. NothingLost'
  BY DEF Outboxes, NothingLost
<1>4. ASSUME NEW t \in Tabs PROVE Unstored(t)'
  <2> SUFFICES ASSUME tab'[t].direct # None PROVE Unstored(t)'
    BY DEF Unstored
  <2>1. \A u \in Tabs : tab'[u].direct # None =>
          tab[u].direct # None /\ tab'[u].direct.change = tab[u].direct.change
    BY DEF Keeps
  <2>2. Unstored(t) /\ tab[t].direct # None /\ tab'[t].direct.change = tab[t].direct.change
    BY <2>1 DEF Outboxes
  <2> QED BY <1>1, <2>1, <2>2 DEF Unstored
<1>5. \A t \in Tabs : Settled(t)'
  BY DEF Settled, Sure, Draining
<1> QED BY <1>2, <1>3, <1>4, <1>5 DEF Outboxes

\* The same for a step of one tab.
LEMMA OneTabKeeps ==
  ASSUME TypeOK, Outboxes, made' = made,
         NEW t \in Tabs, NEW v, Keeps(tab[t], v), Sure(v, story'.queued),
         tab' = [tab EXCEPT ![t] = v],
         \A b \in Browsers : ToSet(outbox'[b]) \subseteq ToSet(outbox[b]),
         story'.queued \subseteq story.queued,
         \A b \in Browsers : \A c \in ToSet(outbox[b]) :
           c.id \in story'.queued => c \in ToSet(outbox'[b])
  PROVE  tab' \in [Tabs -> TabVals] /\ Outboxes'
<1>1. tab \in [Tabs -> TabVals] /\ v \in TabVals
  BY DEF TypeOK, Keeps
<1>2. \A u \in Tabs : tab'[u] = IF u = t THEN v ELSE tab[u]
  BY <1>1
<1>3. \A u \in Tabs : Sure(tab[u], story'.queued)
  BY DEF Outboxes, Settled, Sure, Draining
<1>4. \A u \in Tabs : Keeps(tab[u], tab'[u]) /\ Sure(tab'[u], story'.queued)
  BY <1>2, <1>3, SameKeeps
<1>5. Outboxes'
  BY <1>4, OutboxesKept
<1>6. tab' \in [Tabs -> TabVals]
  BY <1>1
<1> QED BY <1>5, <1>6

\* A step that leaves the tabs and the outboxes alone.
LEMMA NoTabKeeps ==
  ASSUME TypeOK, Outboxes, UNCHANGED <<outbox, tab, made>>, story'.queued \subseteq story.queued
  PROVE  Outboxes'
<1>1. \A u \in Tabs : Sure(tab[u], story'.queued)
  BY DEF Outboxes, Settled, Sure, Draining
<1> QED BY <1>1, SameKeeps, OutboxesKept

-----------------------------------------------------------------------------
(* The steps of the outboxes *)

\* A new change has an id of its own.
LEMMA ChangeKeeps ==
  ASSUME TypeOK, Outboxes, NEW act \in Acts, Change(act.tab, act.flag, act.val, act.skew)
  PROVE  TypeOK' /\ Outboxes'
<1> DEFINE t == act.tab
           c == [id |-> made + 1, flag |-> act.flag, val |-> act.val, at |-> now + act.skew]
           q == [change |-> c, pc |-> IF online[BrowserOf[t]] THEN "sent" ELSE "enqueue"]
           v == [tab[t] EXCEPT !.direct = q]
<1>1. /\ t \in Tabs /\ act.flag \in Flags /\ act.val \in BOOLEAN /\ act.skew \in Nat
      /\ made \in 0 .. MaxChanges /\ made < MaxChanges /\ MaxChanges \in Nat
      /\ made' = made + 1 /\ tab[t].direct = None
      /\ tab' = [tab EXCEPT ![t] = v]
      /\ UNCHANGED <<now, row, outbox, online, late, faults, story>>
  BY OfflineAssumption DEF Change, TypeOK
<1>2. c \in Changes
  <2>1. now + act.skew \in Times
    BY DEF Times, TypeOK
  <2> QED BY <1>1, <2>1 DEF Changes
<1>3. q \in Requests /\ q.change = c /\ q # None
  BY <1>2, OfflineAssumption DEF Requests
<1>4. /\ v \in TabVals /\ v.direct = q /\ v.replay = tab[t].replay /\ v.todo = tab[t].todo
      /\ tab' \in [Tabs -> TabVals] /\ \A u \in Tabs : tab'[u] = IF u = t THEN v ELSE tab[u]
  <2> HIDE DEF q
  <2>1. tab[t] \in TabVals /\ tab \in [Tabs -> TabVals] /\ q \in Posts
    BY <1>1, <1>3 DEF TypeOK, Posts
  <2>2. v \in TabVals /\ v.direct = q /\ v.replay = tab[t].replay /\ v.todo = tab[t].todo
    BY <2>1 DEF TabVals
  <2> HIDE DEF v
  <2> QED BY <1>1, <2>1, <2>2
<1>5. c.id = made + 1
  OBVIOUS
<1> HIDE DEF c, q, v, t
<1>6. TypeOK'
  BY <1>1, <1>4 DEF TypeOK
<1>7. /\ \A u \in Tabs : tab'[u].todo = tab[u].todo /\ tab'[u].replay = tab[u].replay
      /\ \A u \in Tabs \ {t} : tab'[u].direct = tab[u].direct
      /\ tab'[t].direct # None /\ tab'[t].direct.change.id = made + 1
  BY <1>1, <1>3, <1>4, <1>5
<1>8. \A d \in Stored' : d \in Stored /\ d.id \in Nat
  BY <1>1, <1>7 DEF Stored, Draining, Changes
<1>9. Numbered'
  BY <1>1, <1>8 DEF Outboxes, Numbered
<1>10. ASSUME NEW u \in Tabs PROVE Unstored(u)'
  <2>1. /\ \A x \in Tabs : tab[x].direct # None =>
             tab[x].direct.change.id <= made /\ tab[x].direct.change.id \in Nat
        /\ \A d \in Stored : d.id <= made
        /\ made \in Nat /\ made' = made + 1
    BY <1>1, Requested DEF Outboxes, Unstored, Numbered, Changes
  <2>2. CASE u = t
    <3>1. \A x \in Tabs \ {u} : tab'[x].direct # None => tab'[x].direct.change.id # made + 1
      BY <1>7, <2>1, <2>2
    <3>2. \A d \in Stored' : d.id # made + 1
      BY <1>8, <2>1
    <3>3. made + 1 <= made'
      BY <2>1
    <3> QED BY <1>7, <2>2, <3>1, <3>2, <3>3 DEF Unstored
  <2>3. CASE u # t
    <3>1. Unstored(u) /\ tab'[u].direct = tab[u].direct
      BY <1>7, <2>3 DEF Outboxes
    <3> SUFFICES ASSUME tab[u].direct # None PROVE Unstored(u)'
      BY <3>1 DEF Unstored
    <3>2. tab[u].direct.change.id <= made' /\ tab[u].direct.change.id # made + 1
      BY <2>1
    <3>3. \A d \in Stored' : d.id # tab[u].direct.change.id
      BY <1>8, <3>1 DEF Unstored
    <3>4. \A x \in Tabs \ {u} : tab'[x].direct # None
            => tab'[x].direct.change.id # tab[u].direct.change.id
      BY <1>7, <3>1, <3>2 DEF Unstored
    <3> QED BY <3>1, <3>2, <3>3, <3>4 DEF Unstored
  <2> QED BY <2>2, <2>3
<1>11. NothingLost' /\ \A u \in Tabs : Settled(u)'
  BY <1>1, <1>7 DEF Outboxes, NothingLost, Settled, Draining
<1> QED BY <1>6, <1>9, <1>10, <1>11 DEF Outboxes

\* A queued change is nobody's but the outbox's from then on.
LEMMA EnqueueKeeps ==
  ASSUME TypeOK, Outboxes, NEW t \in Tabs, Enqueue(t)
  PROVE  TypeOK' /\ Outboxes'
<1> DEFINE c == tab[t].direct.change
           v == [tab[t] EXCEPT !.direct = None, !.count = Len(Box(t)) + 1]
<1>1. /\ tab[t].direct # None /\ c \in Changes /\ BrowserOf[t] \in Browsers
      /\ Box(t) \in Seq(Changes) /\ tab[t] \in TabVals /\ tab \in [Tabs -> TabVals]
  BY Requested DEF Enqueue, TypeOK
<1>2. /\ outbox' = [outbox EXCEPT ![BrowserOf[t]] = Append(outbox[BrowserOf[t]], c)]
      /\ tab' = [tab EXCEPT ![t] = v]
      /\ story' = [story EXCEPT !.queued = story.queued \cup {c.id}]
      /\ UNCHANGED <<now, row, online, late, made, faults>>
  BY DEF Enqueue
<1>3. /\ v \in TabVals /\ v.direct = None /\ v.replay = tab[t].replay /\ v.todo = tab[t].todo
      /\ tab' \in [Tabs -> TabVals] /\ \A u \in Tabs : tab'[u] = IF u = t THEN v ELSE tab[u]
  <2>1. Len(Box(t)) + 1 \in Nat
    BY <1>1, LenProperties
  <2>2. v \in TabVals /\ v.direct = None /\ v.replay = tab[t].replay /\ v.todo = tab[t].todo
    BY <1>1, <2>1 DEF TabVals, Posts
  <2> HIDE DEF v
  <2> QED BY <1>1, <1>2, <2>2
<1>4. c.id \in 1 .. MaxChanges
  BY <1>1 DEF Changes
<1> HIDE DEF v, c
<1>5. /\ outbox' \in [Browsers -> Seq(Changes)]
      /\ \A b \in Browsers : ToSet(outbox'[b]) =
           IF b = BrowserOf[t] THEN ToSet(outbox[b]) \cup {c} ELSE ToSet(outbox[b])
  <2>1. /\ Append(outbox[BrowserOf[t]], c) \in Seq(Changes)
        /\ ToSet(Append(outbox[BrowserOf[t]], c)) = ToSet(outbox[BrowserOf[t]]) \cup {c}
    BY <1>1, AppendMembers DEF Box
  <2> QED BY <1>1, <1>2, <2>1 DEF TypeOK
<1>6. /\ story' \in [queued : SUBSET (1 .. MaxChanges), writes : SUBSET Writes]
      /\ story'.queued = story.queued \cup {c.id}
  BY <1>2, <1>4 DEF TypeOK
<1>7. TypeOK'
  BY <1>2, <1>3, <1>5, <1>6 DEF TypeOK
<1>8. /\ \A u \in Tabs : tab'[u].todo = tab[u].todo /\ tab'[u].replay = tab[u].replay
      /\ \A u \in Tabs \ {t} : tab'[u].direct = tab[u].direct
      /\ tab'[t].direct = None
  BY <1>3
<1>9. Stored' \subseteq Stored \cup {c}
  BY <1>5, <1>8 DEF Stored, Draining
<1>10. /\ c.id <= made /\ \A d \in Stored : d.id # c.id
       /\ \A u \in Tabs \ {t} : tab[u].direct # None => tab[u].direct.change.id # c.id
  BY <1>1 DEF Outboxes, Unstored, c
<1>11. Numbered'
  BY <1>2, <1>9, <1>10 DEF Outboxes, Numbered
<1>12. ASSUME NEW u \in Tabs PROVE Unstored(u)'
  <2> SUFFICES ASSUME tab'[u].direct # None PROVE Unstored(u)'
    BY DEF Unstored
  <2>1. u # t /\ tab'[u].direct = tab[u].direct /\ Unstored(u)
    BY <1>8 DEF Outboxes
  <2> QED BY <1>2, <1>8, <1>9, <1>10, <2>1 DEF Unstored
<1>13. NothingLost'
  <2>1. ASSUME NEW i \in story'.queued
        PROVE  \E b \in Browsers : \E d \in ToSet(outbox'[b]) : d.id = i
    <3>1. CASE i = c.id
      BY <1>1, <1>5, <3>1
    <3>2. CASE i \in story.queued
      <4>1. PICK b \in Browsers : \E d \in ToSet(outbox[b]) : d.id = i
        BY <3>2 DEF Outboxes, NothingLost
      <4> QED BY <1>5, <4>1
    <3> QED BY <1>6, <3>1, <3>2
  <2> QED BY <2>1 DEF NothingLost
<1>14. ASSUME NEW u \in Tabs PROVE Settled(u)'
  <2>1. tab[u].replay # None => tab[u].replay.change.id # c.id
    BY <1>10, StoredThere
  <2>2. Settled(u)
    BY DEF Outboxes
  <2> QED BY <1>6, <1>8, <2>1, <2>2 DEF Settled, Draining
<1> QED BY <1>7, <1>11, <1>12, <1>13, <1>14 DEF Outboxes

\* A drain begins with what is in the outbox.
LEMMA DrainKeeps ==
  ASSUME TypeOK, NEW t \in Tabs, NEW s \in TabVals, s.direct = tab[t].direct \/ s.direct = None,
         NEW todo \in Seq(Changes), ToSet(todo) \subseteq Stored, NEW queued
  PROVE  Keeps(tab[t], Sending(s, todo)) /\ Sure(Sending(s, todo), queued)
BY SendingNext DEF Keeps, Sure

\* So the timer, which starts one, loses nothing.
LEMMA RetryKeeps ==
  ASSUME TypeOK, Outboxes, NEW t \in Tabs, Retry(t)
  PROVE  TypeOK' /\ Outboxes'
<1>1. tab[t] \in TabVals /\ Box(t) \in Seq(Changes) /\ ToSet(Box(t)) \subseteq Stored
  BY Requested, StoredThere DEF Box
<1>2. /\ tab' = [tab EXCEPT ![t] = Sending(tab[t], Box(t))]
      /\ UNCHANGED <<now, row, outbox, online, late, made, faults, story>>
  BY DEF Retry
<1>3. Keeps(tab[t], Sending(tab[t], Box(t))) /\ Sure(Sending(tab[t], Box(t)), story'.queued)
  BY <1>1, DrainKeeps
<1>4. tab' \in [Tabs -> TabVals] /\ Outboxes'
  BY <1>2, <1>3, OneTabKeeps
<1> QED BY <1>2, <1>4 DEF TypeOK

\* The change a drain deletes is one the server has answered for.
LEMMA DeleteKeeps ==
  ASSUME TypeOK, Outboxes, NEW t \in Tabs, DeleteItem(t)
  PROVE  TypeOK' /\ Outboxes'
<1> DEFINE c == tab[t].replay.change
           rest == RemoveFirst(Box(t), c)
           s == [tab[t] EXCEPT !.count = Len(rest)]
           v == Sending(s, tab[t].todo)
<1>1. /\ tab[t] \in TabVals /\ Box(t) \in Seq(Changes) /\ BrowserOf[t] \in Browsers
      /\ tab[t].todo \in Seq(Changes) /\ ToSet(tab[t].todo) \subseteq Stored
  BY Requested, StoredThere
<1>2. /\ Draining(t) /\ tab[t].replay.pc = "delete"
      /\ outbox' = [outbox EXCEPT ![BrowserOf[t]] = rest]
      /\ tab' = [tab EXCEPT ![t] = v]
      /\ UNCHANGED <<now, row, online, late, made, faults, story>>
  BY DEF DeleteItem
<1>3. c.id \notin story.queued
  BY <1>2 DEF Outboxes, Settled
<1>4. /\ rest \in Seq(Changes) /\ ToSet(rest) \subseteq ToSet(Box(t))
      /\ ToSet(Box(t)) \ {c} \subseteq ToSet(rest)
  BY <1>1, RemoveMembers
<1>5. s \in TabVals /\ s.direct = tab[t].direct
  <2> HIDE DEF rest
  <2>1. Len(rest) \in Nat
    BY <1>4, LenProperties
  <2> QED BY <1>1, <2>1 DEF TabVals
<1> HIDE DEF c, rest, s
<1>6. Keeps(tab[t], v) /\ Sure(v, story'.queued)
  BY <1>1, <1>5, DrainKeeps
<1> HIDE DEF v
<1>7. /\ outbox' \in [Browsers -> Seq(Changes)]
      /\ \A b \in Browsers : outbox'[b] = IF b = BrowserOf[t] THEN rest ELSE outbox[b]
  BY <1>1, <1>2, <1>4 DEF TypeOK
<1>8. \A b \in Browsers : ToSet(outbox'[b]) \subseteq ToSet(outbox[b])
  BY <1>4, <1>7 DEF Box
<1>9. \A b \in Browsers : \A d \in ToSet(outbox[b]) :
        d.id \in story'.queued => d \in ToSet(outbox'[b])
  BY <1>2, <1>3, <1>4, <1>7 DEF Box
<1>10. tab' \in [Tabs -> TabVals] /\ Outboxes'
  BY <1>2, <1>6, <1>8, <1>9, OneTabKeeps
<1> QED BY <1>2, <1>7, <1>10 DEF TypeOK

-----------------------------------------------------------------------------
(* Requests and answers *)

\* A request as it goes on.
LEMMA GoesOn ==
  ASSUME TypeOK, NEW t \in Tabs, NEW k \in Kinds, tab[t][k] # None,
         NEW pc \in {"taken", "enqueue", "delete"}
  PROVE  /\ tab[t][k] \in Requests /\ tab[t][k].change \in Changes
         /\ [tab[t][k] EXCEPT !.pc = pc] \in Requests
         /\ [tab[t][k] EXCEPT !.pc = pc] # None
         /\ [tab[t][k] EXCEPT !.pc = pc].pc = pc
         /\ [tab[t][k] EXCEPT !.pc = pc].change = tab[t][k].change
<1>1. tab[t][k] \in Requests
  BY Requested DEF Kinds
<1> QED BY <1>1, OfflineAssumption DEF Requests

\* A step that puts a request, the outboxes untouched.
LEMMA PutKeeps ==
  ASSUME TypeOK, Outboxes, NEW t \in Tabs, NEW k \in Kinds, NEW q \in Posts,
         NEW todo \in {tab[t].todo, <<>>},
         tab' = [tab EXCEPT ![t] = [[tab[t] EXCEPT ![k] = q] EXCEPT !.todo = todo]],
         q # None => tab[t][k] # None /\ q.change = tab[t][k].change,
         k = "replay" => Sure([replay |-> q], story'.queued),
         UNCHANGED <<outbox, made>>, story'.queued \subseteq story.queued
  PROVE  tab' \in [Tabs -> TabVals] /\ Outboxes'
<1> DEFINE v == [[tab[t] EXCEPT ![k] = q] EXCEPT !.todo = todo]
<1>1. tab[t] \in TabVals /\ todo \in Seq(Changes) /\ ToSet(todo) \subseteq Stored
  BY Requested, StoredThere, EmptySeq, NoMembers
<1>2. v.replay = (IF k = "replay" THEN q ELSE tab[t].replay) /\ Keeps(tab[t], v)
  <2>1. CASE k = "direct"
    <3>1. v \in TabVals /\ v.direct = q /\ v.todo = todo /\ v.replay = tab[t].replay
      BY <1>1, <2>1 DEF TabVals
    <3> QED BY <1>1, <2>1, <3>1, StoredThere DEF Keeps
  <2>2. CASE k = "replay"
    <3>1. v \in TabVals /\ v.direct = tab[t].direct /\ v.todo = todo /\ v.replay = q
      BY <1>1, <2>2 DEF TabVals
    <3> QED BY <1>1, <2>2, <3>1, StoredThere DEF Keeps
  <2> QED BY <2>1, <2>2 DEF Kinds
<1>3. tab' = [tab EXCEPT ![t] = v]
  OBVIOUS
<1> HIDE DEF v
<1>4. Settled(t)
  BY DEF Outboxes
<1>5. Sure(v, story'.queued)
  BY <1>2, <1>4 DEF Sure, Settled, Draining, Kinds
<1> QED BY <1>2, <1>3, <1>5, OneTabKeeps

\* The server takes a change: it is nobody's to lose any more.
LEMMA ArriveKeeps ==
  ASSUME TypeOK, Outboxes, Merging, NEW t \in Tabs, NEW k \in Kinds, Arrive(t, k)
  PROVE  TypeOK' /\ Outboxes' /\ Merging'
<1> DEFINE q == [tab[t][k] EXCEPT !.pc = "taken"]
<1>1. /\ tab[t][k] # None /\ Deliver(tab[t][k].change)
      /\ UNCHANGED <<now, outbox, online, late, made, faults>>
  BY DEF Arrive, Waiting
<1>2. /\ tab[t][k].change \in Changes
      /\ q \in Posts /\ q # None /\ q.change = tab[t][k].change
  BY <1>1, GoesOn DEF Posts
<1>3. /\ Merging'
      /\ row' \in [read : BOOLEAN, star : BOOLEAN, at : Nat]
      /\ story' \in [queued : SUBSET (1 .. MaxChanges), writes : SUBSET Writes]
      /\ story'.queued = story.queued \ {tab[t][k].change.id}
  BY <1>1, <1>2, DeliverMerges
<1>4. tab' = [tab EXCEPT ![t] = [[tab[t] EXCEPT ![k] = q] EXCEPT !.todo = tab[t].todo]]
  BY Requested DEF Arrive, TabVals, Kinds
<1> HIDE DEF q
<1>5. Sure([replay |-> q], story'.queued)
  BY <1>2, <1>3 DEF Sure
<1>6. tab' \in [Tabs -> TabVals] /\ Outboxes'
  BY <1>1, <1>2, <1>3, <1>4, <1>5, PutKeeps
<1> QED BY <1>1, <1>3, <1>6 DEF TypeOK

\* The answer, or a refusal: a change that is about to leave the outbox has had its answer.
LEMMA AnswerKeeps ==
  ASSUME TypeOK, Outboxes, NEW t \in Tabs, NEW k \in Kinds, Answer(t, k) \/ Refuse(t, k)
  PROVE  TypeOK' /\ Outboxes' /\ story'.writes = story.writes
<1> DEFINE q == IF k = "direct" THEN None ELSE [tab[t][k] EXCEPT !.pc = "delete"]
<1>1. /\ tab[t][k] # None
      /\ UNCHANGED <<now, row, outbox, online, late, made>>
      /\ tab' = [tab EXCEPT ![t][k] = q]
  BY DEF Answer, Refuse, Waiting
<1>2. q \in Posts /\ (q # None => q.change = tab[t][k].change)
  BY <1>1, GoesOn DEF Posts
<1>3. tab' = [tab EXCEPT ![t] = [[tab[t] EXCEPT ![k] = q] EXCEPT !.todo = tab[t].todo]]
  <2>1. [[tab[t] EXCEPT ![k] = q] EXCEPT !.todo = tab[t].todo] = [tab[t] EXCEPT ![k] = q]
    <3> HIDE DEF q
    <3> QED BY Requested DEF TabVals, Kinds
  <2> QED BY <1>1, <2>1
<1>4. /\ story' \in [queued : SUBSET (1 .. MaxChanges), writes : SUBSET Writes]
      /\ story'.queued \subseteq story.queued /\ story'.writes = story.writes
      /\ faults' \in 0 .. MaxFaults
  BY OfflineAssumption DEF Answer, Refuse, Fault, TypeOK
<1>5. ASSUME k = "replay" PROVE tab[t].replay.change.id \notin story'.queued
  <2>1. CASE Answer(t, k)
    <3>1. story' = story /\ Draining(t) /\ tab[t].replay.pc = "taken"
      BY <1>5, <2>1 DEF Answer, Waiting, Draining
    <3> QED BY <3>1 DEF Outboxes, Settled
  <2>2. CASE Refuse(t, k)
    BY <1>5, <2>2 DEF Refuse, TypeOK
  <2> QED BY <2>1, <2>2
<1> HIDE DEF q
<1>6. k = "replay" => Sure([replay |-> q], story'.queued)
  BY <1>2, <1>5 DEF Sure
<1>7. tab' \in [Tabs -> TabVals] /\ Outboxes'
  BY <1>1, <1>2, <1>3, <1>4, <1>6, PutKeeps
<1> QED BY <1>1, <1>4, <1>7 DEF TypeOK

\* No answer, or a 5xx: the drain stops, the outbox keeps what it had.
LEMMA ErrorKeeps ==
  ASSUME TypeOK, Outboxes, NEW t \in Tabs, NEW k \in Kinds,
         ServerError(t, k) \/ NetworkError(t, k)
  PROVE  TypeOK' /\ Outboxes' /\ story' = story
<1> DEFINE todo == IF k = "direct" THEN tab[t].todo ELSE <<>>
           q == IF ServerError(t, k) THEN None
                ELSE IF k = "direct" THEN [tab[t][k] EXCEPT !.pc = "enqueue"] ELSE None
<1>1. /\ tab[t][k] # None /\ faults' \in 0 .. MaxFaults
      /\ UNCHANGED <<now, row, outbox, online, made, story>>
  BY OfflineAssumption DEF ServerError, NetworkError, Waiting, Fault, TypeOK
<1>2. q \in Posts /\ (q # None => q.change = tab[t][k].change) /\ (k = "replay" => q = None)
  BY <1>1, GoesOn DEF Posts
<1>3. tab' = [tab EXCEPT ![t] = [[tab[t] EXCEPT ![k] = q] EXCEPT !.todo = todo]]
  <2>1. tab' = [tab EXCEPT ![t][k] = q, ![t].todo = todo]
    BY Requested DEF ServerError, NetworkError, TypeOK, TabVals, Kinds
  <2> HIDE DEF q, todo
  <2> QED BY <2>1, Requested DEF TypeOK, TabVals, Kinds
<1>4. late' \subseteq Changes
  <2>1. CASE ServerError(t, k)
    BY <2>1 DEF ServerError, TypeOK
  <2>2. CASE NetworkError(t, k)
    <3>1. PICK S \in SUBSET ({tab[t][k].change} \cap Abandoned(t)) : late' = late \cup S
      BY <2>2 DEF NetworkError, Leave
    <3>2. tab[t][k].change \in Changes
      BY <1>1, GoesOn
    <3> QED BY <3>1, <3>2 DEF TypeOK
  <2> QED BY <2>1, <2>2
<1>5. todo \in {tab[t].todo, <<>>}
  OBVIOUS
<1> HIDE DEF q, todo
<1>6. k = "replay" => Sure([replay |-> q], story'.queued)
  BY <1>2 DEF Sure
<1>7. tab' \in [Tabs -> TabVals] /\ Outboxes'
  BY <1>1, <1>2, <1>3, <1>5, <1>6, PutKeeps
<1> QED BY <1>1, <1>4, <1>7 DEF TypeOK

\* A closed tab has no request and no drain.
LEMMA ClosedKeeps ==
  ASSUME TypeOK, NEW t \in Tabs, NEW queued
  PROVE  Keeps(tab[t], Closed) /\ Sure(Closed, queued)
<1>1. <<>> \in Seq(Changes) /\ ToSet(<<>>) \subseteq Stored
  BY EmptySeq, NoMembers
<1> QED BY <1>1 DEF Keeps, Sure, Closed, TabVals, Posts

\* So closing one loses nothing that is queued.
LEMMA CloseKeeps ==
  ASSUME TypeOK, Outboxes, NEW t \in Tabs, Close(t)
  PROVE  TypeOK' /\ Outboxes' /\ story' = story
<1>1. /\ tab' = [tab EXCEPT ![t] = Closed] /\ faults' \in 0 .. MaxFaults
      /\ UNCHANGED <<now, row, outbox, online, made, story>>
  BY OfflineAssumption DEF Close, Fault, TypeOK
<1>2. late' \subseteq Changes
  <2>1. Abandoned(t) \subseteq Changes
    BY Requested DEF Abandoned, Waiting, Kinds
  <2>2. PICK S \in SUBSET Abandoned(t) : late' = late \cup S
    BY DEF Close, Leave
  <2> QED BY <2>1, <2>2 DEF TypeOK
<1>3. tab' \in [Tabs -> TabVals] /\ Outboxes'
  BY <1>1, ClosedKeeps, OneTabKeeps
<1> QED BY <1>1, <1>2, <1>3 DEF TypeOK

\* A new tab has at most a drain.
LEMMA OpenKeeps ==
  ASSUME TypeOK, Outboxes, NEW t \in Tabs, Open(t)
  PROVE  TypeOK' /\ Outboxes'
<1> DEFINE s == [Closed EXCEPT !.open = TRUE, !.count = Len(Box(t))]
           v == IF online[BrowserOf[t]] THEN Sending(s, Box(t)) ELSE s
<1>1. Box(t) \in Seq(Changes) /\ ToSet(Box(t)) \subseteq Stored /\ Len(Box(t)) \in Nat
  BY Requested, StoredThere, LenProperties DEF Box
<1>2. s \in TabVals /\ s.direct = None /\ s.replay = None /\ ToSet(s.todo) \subseteq Stored
  <2>1. <<>> \in Seq(Changes) /\ ToSet(<<>>) \subseteq Stored
    BY EmptySeq, NoMembers
  <2> QED BY <1>1, <2>1 DEF Closed, TabVals, Posts
<1>3. tab' = [tab EXCEPT ![t] = v] /\ UNCHANGED <<now, row, outbox, online, late, made, faults,
        story>>
  BY DEF Open
<1> HIDE DEF s
<1>4. Keeps(tab[t], v) /\ Sure(v, story'.queued)
  <2>1. CASE online[BrowserOf[t]]
    BY <1>1, <1>2, <2>1, DrainKeeps
  <2>2. CASE ~online[BrowserOf[t]]
    BY <1>2, <2>2 DEF Keeps, Sure
  <2> QED BY <2>1, <2>2
<1> HIDE DEF v
<1>5. tab' \in [Tabs -> TabVals] /\ Outboxes'
  BY <1>3, <1>4, OneTabKeeps
<1> QED BY <1>3, <1>5 DEF TypeOK

\* Coming online starts a drain in each open tab of the browser.
LEMMA OnlineKeeps ==
  ASSUME TypeOK, Outboxes, NEW b \in Browsers, GoOnline(b)
  PROVE  TypeOK' /\ Outboxes'
<1>1. /\ tab' = [t \in Tabs |-> IF BrowserOf[t] = b /\ tab[t].open /\ ~Draining(t)
                                THEN Sending(tab[t], outbox[b]) ELSE tab[t]]
      /\ online' = [online EXCEPT ![b] = TRUE]
      /\ UNCHANGED <<now, row, outbox, late, made, faults, story>>
  BY DEF GoOnline
<1>2. outbox[b] \in Seq(Changes) /\ ToSet(outbox[b]) \subseteq Stored
  BY StoredThere DEF TypeOK
<1>3. ASSUME NEW t \in Tabs
      PROVE  Keeps(tab[t], tab'[t]) /\ Sure(tab'[t], story'.queued) /\ tab'[t] \in TabVals
  <2>1. tab[t] \in TabVals /\ Keeps(tab[t], tab[t]) /\ Sure(tab[t], story'.queued)
    BY <1>1, SameKeeps DEF TypeOK, Outboxes, Settled, Sure, Draining
  <2>2. Keeps(tab[t], Sending(tab[t], outbox[b])) /\ Sure(Sending(tab[t], outbox[b]),
          story'.queued)
    BY <1>2, <2>1, DrainKeeps
  <2> QED BY <1>1, <2>1, <2>2 DEF Keeps
<1>4. Outboxes'
  BY <1>1, <1>3, OutboxesKept
<1>5. TypeOK'
  BY <1>1, <1>3 DEF TypeOK
<1> QED BY <1>4, <1>5

-----------------------------------------------------------------------------
(* The theorems *)

\* Nothing is queued and nothing written at first.
LEMMA InitInv == Init => IInv
<1> SUFFICES ASSUME Init PROVE IInv
  OBVIOUS
<1>1. <<>> \in Seq(Changes)
  BY EmptySeq
<1>2. [Closed EXCEPT !.open = TRUE] \in TabVals
  BY <1>1 DEF Closed, TabVals, Posts
<1>3. TypeOK
  BY <1>1, <1>2, OfflineAssumption DEF Init, TypeOK
<1>4. \A t \in Tabs : tab[t].direct = None /\ tab[t].replay = None /\ tab[t].todo = <<>>
  BY DEF Init, Closed
<1>5. Stored = {}
  BY <1>4, NoMembers DEF Stored, Draining, Init
<1>6. Outboxes
  BY <1>4, <1>5 DEF Outboxes, NothingLost, Numbered, Unstored, Settled, Draining, Init
<1>7. Merging
  BY OfflineAssumption DEF Init, Merging
<1> QED BY <1>3, <1>6, <1>7 DEF IInv

\* Every step keeps the invariant.
LEMMA NextInv ==
  ASSUME IInv, [Next]_vars
  PROVE  IInv'
<1> USE DEF IInv
<1>1. now \in Nat /\ MaxTime \in Nat
  BY OfflineAssumption DEF TypeOK
<1>2. CASE UNCHANGED vars
  <2>1. TypeOK' /\ now' >= now
    BY <1>1, <1>2 DEF vars, TypeOK
  <2>2. Merging'
    BY <1>2, <2>1, MergeStays DEF vars
  <2> QED BY <1>2, <2>1, <2>2, NoTabKeeps DEF vars
<1>3. CASE Tick
  <2>1. now' = now + 1 /\ now' \in 1 .. MaxTime
        /\ UNCHANGED <<row, outbox, online, tab, late, made, faults, story>>
    BY <1>1, <1>3 DEF Tick, TypeOK
  <2>2. TypeOK' /\ now' >= now
    BY <1>1, <2>1 DEF TypeOK
  <2> QED BY <2>1, <2>2, NoTabKeeps, MergeStays
<1>4. CASE MarkAllRead
  <2>1. UNCHANGED <<now, outbox, online, tab, late, made, faults>>
    BY <1>4 DEF MarkAllRead
  <2>2. TypeOK' /\ Merging' /\ story'.queued = story.queued
    BY <1>4, <2>1, MarkMerges DEF TypeOK
  <2> QED BY <2>1, <2>2, NoTabKeeps
<1>5. ASSUME NEW c \in late, LateArrives(c)
      PROVE  IInv'
  <2>1. /\ c \in Changes /\ Deliver(c) /\ late' \subseteq Changes
        /\ UNCHANGED <<now, outbox, online, tab, made, faults>>
    BY <1>5 DEF LateArrives, TypeOK
  <2>2. TypeOK' /\ Merging' /\ story'.queued = story.queued \ {c.id}
    BY <2>1, DeliverMerges DEF TypeOK
  <2> QED BY <2>1, <2>2, NoTabKeeps
<1>6. ASSUME NEW b \in Browsers, GoOffline(b)
      PROVE  IInv'
  <2>1. /\ online' = [online EXCEPT ![b] = FALSE]
        /\ UNCHANGED <<now, row, outbox, tab, late, made, faults, story>>
    BY <1>6 DEF GoOffline
  <2>2. TypeOK' /\ now' >= now
    BY <1>1, <2>1 DEF TypeOK
  <2> QED BY <2>1, <2>2, NoTabKeeps, MergeStays
<1>7. ASSUME UNCHANGED <<now, row>>, story'.writes = story.writes, TypeOK', Outboxes'
      PROVE  IInv'
  BY <1>1, <1>7, MergeStays
<1>8. ASSUME NEW b \in Browsers, GoOnline(b)
      PROVE  IInv'
  BY <1>7, <1>8, OnlineKeeps DEF GoOnline
<1>9. ASSUME NEW act \in Acts, Change(act.tab, act.flag, act.val, act.skew)
      PROVE  IInv'
  BY <1>7, <1>9, ChangeKeeps DEF Change
<1>10. ASSUME NEW t \in Tabs, Enqueue(t) \/ Retry(t) \/ DeleteItem(t) \/ Close(t) \/ Open(t)
       PROVE  IInv'
  <2>1. UNCHANGED <<now, row>> /\ story'.writes = story.writes
    BY <1>10 DEF Enqueue, Retry, DeleteItem, Close, Open, TypeOK
  <2> QED BY <1>7, <1>10, <2>1, EnqueueKeeps, RetryKeeps, DeleteKeeps, CloseKeeps, OpenKeeps
<1>11. ASSUME NEW t \in Tabs, NEW k \in Kinds, Arrive(t, k)
       PROVE  IInv'
  BY <1>11, ArriveKeeps
<1>12. ASSUME NEW t \in Tabs, NEW k \in Kinds, Answer(t, k) \/ Refuse(t, k)
       PROVE  IInv'
  BY <1>7, <1>12, AnswerKeeps DEF Answer, Refuse
<1>13. ASSUME NEW t \in Tabs, NEW k \in Kinds, ServerError(t, k) \/ NetworkError(t, k)
       PROVE  IInv'
  BY <1>7, <1>13, ErrorKeeps DEF ServerError, NetworkError
<1> QED BY <1>2, <1>3, <1>4, <1>5, <1>6, <1>8, <1>9, <1>10, <1>11, <1>12, <1>13 DEF Next

\* The invariant holds from the first state on, whatever the tabs, browsers and clocks.
THEOREM Invariance == Spec => []IInv
<1>1. Init => IInv
  BY InitInv
<1>2. IInv /\ [Next]_vars => IInv'
  BY NextInv
<1> QED BY <1>1, <1>2, PTL DEF Spec

\* No queued change disappears before the server has answered for it: the drain deletes by
\* what it knows of the server, and never what another tab has queued meanwhile.
THEOREM QueueKeepsAll == Spec => []NothingLost
<1>1. IInv => NothingLost
  BY DEF IInv, Outboxes
<1> QED BY <1>1, Invariance, PTL

\* The row is what its newest writes made it, in whatever order they arrived.
THEOREM RowIsNewest == Spec => []NewestWins
<1>1. IInv => NewestWins
  <2> SUFFICES ASSUME IInv PROVE NewestWins
    OBVIOUS
  <2> DEFINE W == story.writes
             newest == {w \in W : \A v \in W : v.at <= w.at}
  <2>1. TypeOK /\ row.at <= now + MaxSkew /\ row.at \in Nat
    BY DEF IInv, Merging, TypeOK
  <2> SUFFICES ASSUME W # {}, NEW w \in newest
               PROVE  /\ row.at = w.at /\ (w.val => row[w.flag])
                      /\ (\A v \in newest : v.flag = w.flag /\ ~v.val) => ~row[w.flag]
    BY <2>1 DEF NewestWins
  <2>2. PICK x \in W : x.at = row.at
    BY DEF IInv, Merging
  <2>3. \A v \in W : v.at \in 1 .. row.at /\ v.flag \in Flags
    BY DEF IInv, Merging, TypeOK, Writes
  <2>4. row.at = w.at /\ \A v \in W : v.at = row.at => v \in newest
    BY <2>1, <2>2, <2>3
  <2> QED BY <2>3, <2>4 DEF IInv, Merging
<1> QED BY <1>1, Invariance, PTL
=============================================================================
