---------------------------- MODULE FetcherProofs ----------------------------
(***************************************************************************)
(* Proofs about Fetcher, for any web and any number of redirects; and about *)
(* Ingest, for any documents, lengths and limits.                           *)
(***************************************************************************)
EXTENDS Fetcher, Ingest, FiniteSetTheorems, WellFoundedInduction, TLAPS

(* Recursion on the number of redirects *)

\* A set of numbers that has 0 and the successor of each of its elements has them all.
LEMMA Induction ==
  ASSUME NEW T, 0 \in T, \A n \in Nat : n \in T => n + 1 \in T
  PROVE  \A n \in Nat : n \in T
<1> DEFINE R == {ss \in Nat \X Nat : ss[1] < ss[2]}
           S == Nat \ T
<1> SUFFICES ASSUME S # {} PROVE FALSE
  OBVIOUS
<1>1. IsWellFoundedOn(R, Nat)
  BY NatLessThanWellFounded DEF OpToRel
<1>2. \E x \in S : \A y \in S : ~(<<y, x>> \in R)
  <2> HIDE DEF R
  <2> S \subseteq Nat
    OBVIOUS
  <2> HIDE DEF S
  <2> QED BY <1>1, WFMin
<1>3. \A x, y \in Nat : ~(<<y, x>> \in R) => x <= y
  OBVIOUS
<1>4. PICK x \in S : \A y \in S : x <= y
  BY <1>2, <1>3
<1>5. x # 0 /\ x - 1 \in Nat /\ x - 1 \notin S
  BY <1>4
<1> QED BY <1>4, <1>5

Ends == [end : Urls \cup {None}, permanent : BOOLEAN]

\* No end, an end at a URL, an end beyond one more redirect.
Nowhere == [end |-> None, permanent |-> FALSE]
Here(u) == [end |-> u, permanent |-> TRUE]
Behind(e, permanent) == [e EXCEPT !.permanent = @ /\ permanent]

\* Where no walk ends.
LEMMA NowhereType == Nowhere \in Ends /\ Nowhere.end = None
BY DEF Nowhere, Ends

\* Where a walk ends at once.
LEMMA HereType ==
  ASSUME NEW u \in Urls
  PROVE  Here(u) \in Ends /\ Here(u).end = u /\ Here(u).permanent = TRUE
BY DEF Here, Ends

\* Where a walk ends that goes on behind a redirect.
LEMMA BehindType ==
  ASSUME NEW e \in Ends, NEW permanent \in BOOLEAN
  PROVE  /\ Behind(e, permanent) \in Ends /\ Behind(e, permanent).end = e.end
         /\ Behind(e, permanent).permanent = (e.permanent /\ permanent)
BY DEF Behind, Ends

Redirects(a) == a.kind = "redirect"

\* One step of Follow's recursion, from what g says of walks with a redirect less to go.
Hops(g, n, s, p) ==
  [u \in Urls |->
    CASE u \in p -> Nowhere
      [] u \notin p /\ ~Redirects(s[u]) -> Here(u)
      [] u \notin p /\ Redirects(s[u]) /\ n = 0 -> Nowhere
      [] OTHER -> Behind(g[n - 1][s[u].to], s[u].permanent)]

\* The recursion's equation for walks with at most k redirects to go.
HopsUpTo(g, k, s, p) == [n \in 0 .. k |-> Hops(g, n, s, p)]

\* The step at a URL, case by case.
LEMMA HopsPrivate ==
  ASSUME NEW g, NEW n, NEW s, NEW p, NEW u \in Urls, u \in p
  PROVE  Hops(g, n, s, p)[u] = Nowhere
BY DEF Hops, Nowhere

\* A URL that answers with no redirect is where the walk ends.
LEMMA HopsEnd ==
  ASSUME NEW g, NEW n, NEW s, NEW p, NEW u \in Urls, u \notin p, ~Redirects(s[u])
  PROVE  Hops(g, n, s, p)[u] = Here(u)
BY DEF Hops, Here

\* The walk that has no hop left ends nowhere.
LEMMA HopsLast ==
  ASSUME NEW g, NEW n, NEW s, NEW p,
         NEW u \in Urls, u \notin p, Redirects(s[u]), n = 0
  PROVE  Hops(g, n, s, p)[u] = Nowhere
BY DEF Hops, Nowhere

\* A redirect is followed with one hop less.
LEMMA HopsOn ==
  ASSUME NEW g, NEW n \in Nat \ {0}, NEW s, NEW p,
         NEW u \in Urls, u \notin p, Redirects(s[u])
  PROVE  Hops(g, n, s, p)[u] = Behind(g[n - 1][s[u].to], s[u].permanent)
BY DEF Hops

\* The step is a function on the URLs.
LEMMA HopsType ==
  ASSUME NEW g, NEW n, NEW s, NEW p, NEW S, \A u \in Urls : Hops(g, n, s, p)[u] \in S
  PROVE  Hops(g, n, s, p) \in [Urls -> S]
<1> DEFINE h == Hops(g, n, s, p)
<1>1. h = [u \in Urls |-> h[u]]
  BY DEF Hops
<1> HIDE DEF h
<1>2. \A u \in Urls : h[u] \in S
  BY DEF h
<1>3. h \in [Urls -> S]
  BY <1>1, <1>2
<1> QED BY <1>3 DEF h

\* The step asks g about one redirect less alone.
LEMMA HopsLocal ==
  ASSUME NEW g, NEW h, NEW n \in Nat, NEW s, NEW p, n > 0 => g[n - 1] = h[n - 1]
  PROVE  Hops(g, n, s, p) = Hops(h, n, s, p)
<1>1. CASE n = 0
  BY <1>1 DEF Hops
<1>2. CASE n > 0
  BY <1>2 DEF Hops
<1> QED BY <1>1, <1>2

\* A function with Follow's recursion exists.
LEMMA HopsDefine ==
  ASSUME NEW s, NEW p
  PROVE  \A k \in Nat : \E g : g = HopsUpTo(g, k, s, p)
<1> DEFINE T == {k \in Nat : \E g : g = HopsUpTo(g, k, s, p)}
<1>1. 0 \in T
  <2> DEFINE g == [n \in 0 .. 0 |-> Hops(<<>>, n, s, p)]
  <2>1. Hops(g, 0, s, p) = Hops(<<>>, 0, s, p)
    BY HopsLocal
  <2>2. g = [n \in 0 .. 0 |-> Hops(g, n, s, p)]
    BY <2>1
  <2> QED BY <2>2 DEF HopsUpTo
<1>2. ASSUME NEW k \in Nat, k \in T PROVE k + 1 \in T
  <2>1. PICK g : g = [n \in 0 .. k |-> Hops(g, n, s, p)]
    BY <1>2 DEF HopsUpTo
  <2> DEFINE h == [n \in 0 .. k + 1 |-> IF n <= k THEN g[n] ELSE Hops(g, n, s, p)]
  <2>2. ASSUME NEW n \in 0 .. k + 1 PROVE h[n] = Hops(h, n, s, p)
    <3>1. n \in Nat /\ (n > 0 => g[n - 1] = h[n - 1])
      OBVIOUS
    <3>2. Hops(g, n, s, p) = Hops(h, n, s, p)
      <4> HIDE DEF h
      <4> QED BY <3>1, HopsLocal
    <3>3. h[n] = Hops(g, n, s, p)
      BY <2>1
    <3> QED BY <3>2, <3>3
  <2>3. h = HopsUpTo(h, k + 1, s, p)
    <3> DEFINE e == HopsUpTo(h, k + 1, s, p)
    <3>1. e = [n \in 0 .. k + 1 |-> e[n]] /\ \A n \in 0 .. k + 1 : e[n] = Hops(h, n, s, p)
      BY DEF HopsUpTo
    <3>2. h = [n \in 0 .. k + 1 |-> h[n]]
      OBVIOUS
    <3> HIDE DEF h, e
    <3>3. \A n \in 0 .. k + 1 : h[n] = e[n]
      BY <2>2, <3>1
    <3>4. h = e
      BY <3>1, <3>2, <3>3
    <3> QED BY <3>4 DEF e
  <2> QED BY <2>3
<1> HIDE DEF T
<1>3. \A n \in Nat : n \in T
  BY <1>1, <1>2, Induction
<1> QED BY <1>3 DEF T

\* Follow is what its definition says.
LEMMA FollowDef == Follow = [n \in 0 .. MaxRedirects |-> Hops(Follow, n, site, private)]
<1>1. MaxRedirects \in Nat
  BY FetcherAssumption
<1>2. Follow = CHOOSE g : g = HopsUpTo(g, MaxRedirects, site, private)
  BY DEF Follow, HopsUpTo, Hops, Nowhere, Here, Behind, Redirects
<1>3. \E g : g = HopsUpTo(g, MaxRedirects, site, private)
  BY <1>1, HopsDefine
<1> QED BY <1>2, <1>3 DEF HopsUpTo

\* Follow depends on what URLs answer and which are private.
LEMMA FollowSame ==
  ASSUME UNCHANGED <<site, private>> PROVE Follow' = Follow
BY DEF Follow


-----------------------------------------------------------------------------
(* The inductive invariant *)

\* The ETag a feed keeps is of a document whose entries are stored.
EtagKept == feed.etag \in stored \cup {None}

\* A poll past its own walk has written the feed's row, with an ETag whose document is
\* stored or is the one its commit stores.
RowKept ==
  poll # None /\ (poll.want # "feed" \/ poll.pc \in {"icon", "commit"}) =>
    poll.row # None /\ poll.row.etag \in stored \cup {None} \cup ({poll.body} \cap Versions)

\* What a walk has left to do leads where the feed's URL does.
OnCourse ==
  Walking /\ poll.want = "feed" /\ poll.steady =>
    LET whole == Follow[MaxRedirects][poll.url]
        rest  == Follow[MaxRedirects - poll.hop][poll.at]
    IN  /\ whole.end = rest.end
        /\ rest.end # None => whole.permanent = (poll.permanent /\ rest.permanent)
        /\ poll.redirected <=> poll.hop > 0
        /\ poll.hop = 0 => poll.at = poll.url
        /\ poll.hop > 0 => site[poll.url].kind = "redirect"
        /\ poll.pc # "guard" => poll.at \notin private

IInv == TypeOK /\ EtagKept /\ RowKept /\ OnCourse /\ FollowsTheWeb

-----------------------------------------------------------------------------
(* What Follow says *)

\* What a URL answers.
LEMMA Answer ==
  ASSUME TypeOK, NEW u \in Urls
  PROVE  /\ site[u].kind \in {"doc", "page", "error", "redirect"}
         /\ site[u].kind = "doc" => site[u].version \in Versions
         /\ Redirects(site[u]) => site[u].to \in Urls /\ site[u].permanent \in BOOLEAN
<1>1. site[u] \in [kind : {"doc"}, version : Versions] \cup [kind : {"page", "error"}]
                    \cup [kind : {"redirect"}, permanent : BOOLEAN, to : Urls]
  BY FetcherAssumption DEF TypeOK
<1> QED BY <1>1 DEF Redirects

\* The walk ends where no redirect is answered.
LEMMA EndsHere ==
  ASSUME NEW n, NEW u \in Urls, u \notin private, ~Redirects(site[u])
  PROVE  Hops(Follow, n, site, private)[u] = Here(u) /\ Here(u) \in Ends
<1>1. Hops(Follow, n, site, private)[u] = Here(u)
  BY HopsEnd
<1> QED BY <1>1, HereType

\* Follow names a URL or no end.
LEMMA FollowType ==
  ASSUME TypeOK, NEW n \in 0 .. MaxRedirects
  PROVE  Follow[n] \in [Urls -> Ends]
<1> DEFINE T == {k \in Nat : k <= MaxRedirects => Follow[k] \in [Urls -> Ends]}
<1>0. MaxRedirects \in Nat
  BY FetcherAssumption
<1>1. 0 \in T
  <2>1. Follow[0] = Hops(Follow, 0, site, private)
    BY <1>0, FollowDef
  <2>2. \A u \in Urls : Hops(Follow, 0, site, private)[u] \in Ends
    BY HopsPrivate, EndsHere, HopsLast, NowhereType
  <2> QED BY <2>1, <2>2, HopsType
<1>2. ASSUME NEW k \in Nat, k \in T PROVE k + 1 \in T
  <2> SUFFICES ASSUME k + 1 <= MaxRedirects PROVE Follow[k + 1] \in [Urls -> Ends]
    OBVIOUS
  <2>1. Follow[k + 1] = Hops(Follow, k + 1, site, private)
    BY <1>0, FollowDef
  <2>2. Follow[k] \in [Urls -> Ends]
    BY <1>0, <1>2
  <2>3. ASSUME NEW u \in Urls, Redirects(site[u])
        PROVE  Behind(Follow[(k + 1) - 1][site[u].to], site[u].permanent) \in Ends
    <3>1. (k + 1) - 1 = k
      OBVIOUS
    <3> QED BY <2>2, <2>3, <3>1, Answer, BehindType
  <2>4. \A u \in Urls : Hops(Follow, k + 1, site, private)[u] \in Ends
    <3>1. ASSUME NEW u \in Urls, u \notin private, Redirects(site[u])
          PROVE  Hops(Follow, k + 1, site, private)[u] \in Ends
      <4>1. k + 1 \in Nat \ {0}
        OBVIOUS
      <4>2. Hops(Follow, k + 1, site, private)[u]
              = Behind(Follow[(k + 1) - 1][site[u].to], site[u].permanent)
        BY <3>1, <4>1, HopsOn
      <4> QED BY <2>3, <3>1, <4>2
    <3>2. ASSUME NEW u \in Urls, u \notin private, ~Redirects(site[u])
          PROVE  Hops(Follow, k + 1, site, private)[u] \in Ends
      BY <3>2, EndsHere
    <3>3. ASSUME NEW u \in Urls, u \in private
          PROVE  Hops(Follow, k + 1, site, private)[u] \in Ends
      BY <3>3, HopsPrivate, NowhereType
    <3> QED BY <3>1, <3>2, <3>3
  <2> QED BY <2>1, <2>4, HopsType
<1> HIDE DEF T
<1>3. \A k \in Nat : k \in T
  BY <1>1, <1>2, Induction
<1> QED BY <1>0, <1>3 DEF T

\* Follow at a URL, case by case.
LEMMA FollowAt ==
  ASSUME TypeOK, NEW n \in 0 .. MaxRedirects, NEW u \in Urls
  PROVE  /\ Follow[n][u] \in Ends
         /\ u \in private => Follow[n][u].end = None
         /\ u \notin private /\ ~Redirects(site[u]) =>
              Follow[n][u].end = u /\ Follow[n][u].permanent = TRUE
         /\ u \notin private /\ Redirects(site[u]) =>
              /\ n = 0 => Follow[n][u].end = None
              /\ n > 0 => /\ Follow[n - 1][site[u].to] \in Ends
                          /\ Follow[n][u].end = Follow[n - 1][site[u].to].end
                          /\ Follow[n][u].permanent =
                               (Follow[n - 1][site[u].to].permanent /\ site[u].permanent)
<1>0. MaxRedirects \in Nat
  BY FetcherAssumption
<1>1. Follow[n] = Hops(Follow, n, site, private) /\ Follow[n][u] \in Ends
  BY FollowDef, FollowType
<1>2. CASE u \in private \/ ~Redirects(site[u]) \/ n = 0
  <2>1. CASE u \in private
    BY <1>1, <2>1, HopsPrivate, NowhereType
  <2>2. CASE u \notin private /\ ~Redirects(site[u])
    <3>1. Follow[n][u] = Here(u)
      BY <1>1, <2>2, EndsHere
    <3> QED BY <1>1, <2>2, <3>1, HereType
  <2>3. CASE u \notin private /\ Redirects(site[u]) /\ n = 0
    BY <1>1, <2>3, HopsLast, NowhereType
  <2> QED BY <1>2, <2>1, <2>2, <2>3
<1>3. CASE u \notin private /\ Redirects(site[u]) /\ n > 0
  <2>1. Follow[n][u] = Behind(Follow[n - 1][site[u].to], site[u].permanent)
    BY <1>1, <1>3, HopsOn
  <2>2. Follow[n - 1][site[u].to] \in Ends
    BY <1>0, <1>3, FollowType, Answer
  <2> QED BY <1>1, <1>3, <2>1, <2>2, Answer, BehindType
<1> QED BY <1>1, <1>2, <1>3

-----------------------------------------------------------------------------
(* The steps *)

\* What the variables hold.
LEMMA Shape ==
  /\ MaxRedirects \in Nat /\ MaxChanges \in Nat /\ MaxFaults \in Nat
  /\ None \notin Urls /\ None \notin Versions /\ None \notin Feeds /\ None \notin Polls
BY FetcherAssumption

\* The fields of a poll.
LEMMA PollShape ==
  ASSUME TypeOK, poll # None
  PROVE  /\ poll \in Polls /\ poll.url \in Urls /\ poll.at \in Urls
              /\ poll.hop \in 0 .. MaxRedirects
         /\ poll.body \in Versions \cup {"page", None} /\ poll.row \in Feeds \cup {None}
         /\ poll.want \in {"feed", "artwork", "page", "image"}
         /\ poll.pc \in {"guard", "connect", "request", "persist", "icon", "commit"}
         /\ poll.permanent \in BOOLEAN /\ poll.redirected \in BOOLEAN /\ poll.steady \in BOOLEAN
BY Shape DEF TypeOK, Polls

Statuses == {"new_body", "not_modified", "error", None}

\* The end of a walk.
LEMMA EndShape ==
  ASSUME TypeOK, poll # None, NEW status \in Statuses, NEW body \in Versions \cup {"page", None},
         NEW moved \in Urls \cup {None}
  PROVE  /\ End(status, body, moved) \in Polls
         /\ End(status, body, moved).url = poll.url /\ End(status, body, moved).row = poll.row
         /\ End(status, body, moved).want = poll.want
              /\ End(status, body, moved).steady = poll.steady
         /\ End(status, body, moved).status = status
         /\ poll.want = "feed" => /\ End(status, body, moved).pc = "persist"
                                  /\ End(status, body, moved).moved = moved
         /\ poll.want # "feed" => /\ End(status, body, moved).pc = "icon"
                                  /\ End(status, body, moved).body = poll.body
BY PollShape, ZenonT(40) DEF End, Polls, Statuses

\* What is left to prove of a step that leaves the web and the tables alone.
LEMMA PollStep ==
  ASSUME IInv, UNCHANGED <<site, private, feed, stored, changes>>, faults' \in 0 .. MaxFaults,
         poll' \in Polls \cup {None}, RowKept', OnCourse', FollowsTheWeb'
  PROVE  IInv'
BY DEF IInv, TypeOK, EtagKept

\* A fetch starts with no poll.
LEMMA InitInv == Init => IInv
BY Shape, FetcherAssumption
   DEF Init, IInv, TypeOK, EtagKept, RowKept, OnCourse, FollowsTheWeb, Walking, Feeds

\* A poll starts its walk at the row it read.
LEMMA StartStep == ASSUME IInv, StartPoll PROVE IInv'
<1>1. TypeOK /\ UNCHANGED <<site, private, feed, stored, changes, faults>>
  BY DEF IInv, StartPoll
<1>2. feed.url \in Urls /\ feed.etag \in Versions \cup {None}
  BY <1>1 DEF TypeOK, Feeds
<1>3. /\ poll' \in Polls /\ poll' # None /\ poll'.pc = "guard" /\ poll'.want = "feed"
      /\ poll'.url = feed.url /\ poll'.at = feed.url /\ poll'.hop = 0 /\ poll'.permanent = TRUE
      /\ poll'.redirected = FALSE
  <2>1. poll' \in Polls
    BY <1>2, Shape DEF StartPoll, Polls
  <2> QED BY <2>1, Shape DEF StartPoll
<1>4. Follow' = Follow /\ MaxRedirects \in 0 .. MaxRedirects
  BY <1>1, Shape, FollowSame
<1>5. Follow[MaxRedirects][feed.url] \in Ends
  BY <1>1, <1>2, <1>4, FollowAt
<1>6. OnCourse'
  BY <1>3, <1>4, <1>5, Shape DEF OnCourse, Ends
<1>7. RowKept' /\ FollowsTheWeb'
  BY <1>3 DEF RowKept, FollowsTheWeb
<1> QED BY <1>1, <1>3, <1>6, <1>7, PollStep DEF TypeOK

\* A walk for the feed that ends as its course says, or one that is no longer steady.
LEMMA FeedEnds ==
  ASSUME IInv, Walking, poll.want = "feed", UNCHANGED <<site, private>>,
         NEW status \in Statuses, NEW body \in Versions \cup {"page", None},
         NEW moved \in Urls \cup {None}, poll' = End(status, body, moved),
         poll.steady =>
           LET rest == Follow[MaxRedirects - poll.hop][poll.at] IN
           \/ /\ status = "error" /\ moved = None
              /\ rest.end = None \/ site[rest.end].kind \notin {"doc", "page"}
           \/ /\ status # "error" /\ moved = MovedTo
              /\ rest.end = poll.at /\ rest.permanent = TRUE
              /\ site[poll.at].kind \in {"doc", "page"}
  PROVE  poll' \in Polls /\ RowKept' /\ OnCourse' /\ FollowsTheWeb'
<1>1. TypeOK /\ poll # None /\ Follow' = Follow
  BY FollowSame DEF IInv, Walking
<1>2. /\ poll' \in Polls /\ poll' # None /\ poll'.pc = "persist" /\ poll'.want = "feed"
      /\ poll'.status = status /\ poll'.moved = moved /\ poll'.url = poll.url
      /\ poll'.steady = poll.steady
  BY <1>1, EndShape, Shape
<1>3. RowKept' /\ OnCourse'
  BY <1>2 DEF RowKept, OnCourse, Walking
<1>4. FollowsTheWeb'
  <2> SUFFICES ASSUME poll.steady PROVE FollowsTheWeb'
    BY <1>2 DEF FollowsTheWeb
  <2> DEFINE whole == Follow[MaxRedirects][poll.url]
             rest  == Follow[MaxRedirects - poll.hop][poll.at]
  <2>1. /\ whole.end = rest.end
        /\ rest.end # None => whole.permanent = (poll.permanent /\ rest.permanent)
        /\ poll.redirected <=> poll.hop > 0
        /\ poll.hop = 0 => poll.at = poll.url
        /\ poll.hop > 0 => site[poll.url].kind = "redirect"
    BY DEF IInv, OnCourse
  <2>2. poll.hop \in 0 .. MaxRedirects /\ poll.at \in Urls /\ poll.redirected \in BOOLEAN
        /\ poll.permanent \in BOOLEAN
    BY <1>1, PollShape
  <2>3. CASE status = "error" /\ moved = None
              /\ (rest.end = None \/ site[rest.end].kind \notin {"doc", "page"})
    BY <1>1, <1>2, <2>1, <2>3 DEF FollowsTheWeb
  <2>4. CASE /\ status # "error" /\ moved = MovedTo
             /\ rest.end = poll.at /\ rest.permanent = TRUE
             /\ site[poll.at].kind \in {"doc", "page"}
    <3>1. poll.redirected <=> poll.at # poll.url
      BY <2>1, <2>2, <2>4, Shape
    <3>2. moved = IF poll.at # poll.url /\ poll.permanent THEN poll.at ELSE None
      BY <2>4, <3>1 DEF MovedTo
    <3>3. whole.end = poll.at /\ whole.permanent = poll.permanent /\ poll.at # None
      BY <2>1, <2>2, <2>4, Shape
    <3> HIDE DEF whole, rest
    <3>4. (whole.end # poll.url /\ whole.permanent) <=> (poll.at # poll.url /\ poll.permanent)
      BY <3>3
    <3> QED BY <1>1, <1>2, <2>4, <3>2, <3>3, <3>4 DEF FollowsTheWeb, whole
  <2> QED BY <2>3, <2>4
<1> QED BY <1>2, <1>3, <1>4

\* A walk for the icon that ends.
LEMMA IconEnds ==
  ASSUME IInv, Walking, poll.want # "feed", UNCHANGED stored,
         NEW status \in Statuses, NEW body \in Versions \cup {"page", None},
         NEW moved \in Urls \cup {None}, poll' = End(status, body, moved)
  PROVE  poll' \in Polls /\ RowKept' /\ OnCourse' /\ FollowsTheWeb'
<1>1. TypeOK /\ poll # None
  BY DEF IInv, Walking
<1>2. /\ poll' \in Polls /\ poll' # None /\ poll'.pc = "icon" /\ poll'.want = poll.want
      /\ poll'.row = poll.row /\ poll'.body = poll.body
  BY <1>1, EndShape, Shape
<1> QED BY <1>1, <1>2 DEF IInv, RowKept, OnCourse, FollowsTheWeb, Walking

\* Where the redirects from a walk's URL lead within what is left of the limit.
LEMMA RestAt ==
  ASSUME TypeOK, poll # None
  PROVE  LET rest == Follow[MaxRedirects - poll.hop][poll.at]
             site_at == site[poll.at]
         IN  /\ rest \in Ends
             /\ poll.at \in private => rest.end = None
             /\ poll.at \notin private /\ ~Redirects(site_at) => rest.end = poll.at
                  /\ rest.permanent = TRUE
             /\ poll.at \notin private /\ Redirects(site_at) =>
                  /\ poll.hop = MaxRedirects => rest.end = None
                  /\ poll.hop # MaxRedirects =>
                       LET next == Follow[MaxRedirects - (poll.hop + 1)][site_at.to] IN
                       /\ next \in Ends /\ rest.end = next.end
                       /\ rest.permanent = (next.permanent /\ site_at.permanent)
<1> DEFINE n == MaxRedirects - poll.hop
<1>1. poll.at \in Urls /\ poll.hop \in 0 .. MaxRedirects /\ MaxRedirects \in Nat
  BY PollShape, Shape
<1>2. n \in 0 .. MaxRedirects /\ n - 1 = MaxRedirects - (poll.hop + 1)
        /\ (n = 0 <=> poll.hop = MaxRedirects)
      /\ (n > 0 <=> poll.hop # MaxRedirects)
  BY <1>1
<1> HIDE DEF n
<1>3. /\ Follow[n][poll.at] \in Ends
      /\ poll.at \in private => Follow[n][poll.at].end = None
      /\ poll.at \notin private /\ ~Redirects(site[poll.at]) =>
           Follow[n][poll.at].end = poll.at /\ Follow[n][poll.at].permanent = TRUE
      /\ poll.at \notin private /\ Redirects(site[poll.at]) =>
           /\ n = 0 => Follow[n][poll.at].end = None
           /\ n > 0 => /\ Follow[n - 1][site[poll.at].to] \in Ends
                       /\ Follow[n][poll.at].end = Follow[n - 1][site[poll.at].to].end
                       /\ Follow[n][poll.at].permanent =
                            (Follow[n - 1][site[poll.at].to].permanent
                              /\ site[poll.at].permanent)
  BY <1>1, <1>2, FollowAt
<1> QED BY <1>2, <1>3 DEF n

\* The first check of the URL passes it, or refuses.
LEMMA GuardStep == ASSUME IInv, Guard PROVE IInv'
<1>1. TypeOK /\ Walking /\ poll # None /\ poll.pc = "guard"
      /\ UNCHANGED <<site, private, feed, stored, changes, faults>>
  BY DEF IInv, Guard, Walking
<1>2. Follow' = Follow /\ poll \in Polls
  BY <1>1, FollowSame, PollShape
<1>3. CASE poll.at \in private
  <2>1. poll' = End("error", None, None)
    BY <1>3 DEF Guard
  <2>2. poll.steady => Follow[MaxRedirects - poll.hop][poll.at].end = None
    BY <1>1, <1>3, RestAt
  <2>3. poll' \in Polls /\ RowKept' /\ OnCourse' /\ FollowsTheWeb'
    BY <1>1, <2>1, <2>2, FeedEnds, IconEnds DEF Statuses
  <2> QED BY <1>1, <2>3, PollStep DEF TypeOK
<1>4. CASE poll.at \notin private
  <2>1. poll' = [poll EXCEPT !.pc = "connect"]
    BY <1>4 DEF Guard
  <2>2. /\ poll' \in Polls /\ poll' # None /\ poll'.pc = "connect"
        /\ \A x \in {"url", "at", "hop", "permanent", "redirected", "want", "row", "body",
             "steady"} :
             poll'[x] = poll[x]
    BY <1>1, <1>2, <2>1, Shape DEF Polls
  <2>3. OnCourse'
    BY <1>1, <1>2, <1>4, <2>2 DEF IInv, OnCourse, Walking
  <2>4. RowKept' /\ FollowsTheWeb'
    BY <1>1, <2>2 DEF IInv, RowKept, FollowsTheWeb
  <2> QED BY <1>1, <2>2, <2>3, <2>4, PollStep DEF TypeOK
<1> QED BY <1>3, <1>4

\* The guarded backend dials what it has validated, or refuses.
LEMMA ConnectStep == ASSUME IInv, Connect PROVE IInv'
<1>1. TypeOK /\ Walking /\ poll # None /\ poll.pc = "connect"
      /\ UNCHANGED <<site, private, feed, stored, changes, faults>>
  BY DEF IInv, Connect, Walking
<1>2. Follow' = Follow /\ poll \in Polls
  BY <1>1, FollowSame, PollShape
<1>3. CASE poll.at \in private
  <2>1. poll' = End("error", None, None)
    BY <1>3 DEF Connect, Dialable
  <2>2. poll.steady => Follow[MaxRedirects - poll.hop][poll.at].end = None
    BY <1>1, <1>3, RestAt
  <2>3. poll' \in Polls /\ RowKept' /\ OnCourse' /\ FollowsTheWeb'
    BY <1>1, <2>1, <2>2, FeedEnds, IconEnds DEF Statuses
  <2> QED BY <1>1, <2>3, PollStep DEF TypeOK
<1>4. CASE poll.at \notin private
  <2>1. poll' = [poll EXCEPT !.pc = "request"]
    BY <1>4 DEF Connect, Dialable
  <2>2. /\ poll' \in Polls /\ poll' # None /\ poll'.pc = "request"
        /\ \A x \in {"url", "at", "hop", "permanent", "redirected", "want", "row", "body",
             "steady"} :
             poll'[x] = poll[x]
    BY <1>1, <1>2, <2>1, Shape DEF Polls
  <2>3. OnCourse'
    BY <1>1, <1>2, <1>4, <2>2 DEF IInv, OnCourse, Walking
  <2>4. RowKept' /\ FollowsTheWeb'
    BY <1>1, <2>2 DEF IInv, RowKept, FollowsTheWeb
  <2> QED BY <1>1, <2>2, <2>3, <2>4, PollStep DEF TypeOK
<1> QED BY <1>3, <1>4

\* An answer ends the walk or moves it one hop on.
LEMMA RespondStep == ASSUME IInv, Respond PROVE IInv'
<1> DEFINE a == site[poll.at]
<1>1. TypeOK /\ Walking /\ poll # None /\ poll.pc = "request"
      /\ UNCHANGED <<site, private, feed, stored, changes, faults>>
  BY DEF IInv, Respond, Walking
<1>2. /\ Follow' = Follow /\ poll \in Polls /\ poll.at \in Urls /\ poll.hop \in 0 .. MaxRedirects
      /\ a.kind \in {"doc", "page", "error", "redirect"}
      /\ a.kind = "doc" => a.version \in Versions
      /\ Redirects(a) => a.to \in Urls /\ a.permanent \in BOOLEAN
      /\ MovedTo \in Urls \cup {None}
  BY <1>1, FollowSame, PollShape, Answer DEF MovedTo
<1>3. poll.want = "feed" /\ poll.steady => poll.at \notin private
  BY <1>1 DEF IInv, OnCourse
<1>4. CASE a.kind \in {"doc", "page"}
  <2>1. PICK status \in {"new_body", "not_modified"}, body \in Versions \cup {"page", None} :
          poll' = End(status, body, MovedTo)
    BY <1>1, <1>2, <1>4 DEF Respond
  <2>2. poll.want = "feed" /\ poll.steady =>
          LET rest == Follow[MaxRedirects - poll.hop][poll.at] IN rest.end = poll.at
            /\ rest.permanent = TRUE
    BY <1>1, <1>3, <1>4, RestAt DEF Redirects
  <2>3. poll' \in Polls /\ RowKept' /\ OnCourse' /\ FollowsTheWeb'
    BY <1>1, <1>2, <1>4, <2>1, <2>2, FeedEnds, IconEnds DEF Statuses
  <2> QED BY <1>1, <2>3, PollStep DEF TypeOK
<1>5. CASE a.kind = "error" \/ (a.kind = "redirect" /\ poll.hop = MaxRedirects)
  <2>1. poll' = End("error", None, None)
    BY <1>1, <1>5 DEF Respond, Followed
  <2>2. poll.want = "feed" /\ poll.steady =>
          LET rest == Follow[MaxRedirects - poll.hop][poll.at] IN
          rest.end = None \/ site[rest.end].kind \notin {"doc", "page"}
    BY <1>1, <1>3, <1>5, RestAt DEF Redirects
  <2>3. poll' \in Polls /\ RowKept' /\ OnCourse' /\ FollowsTheWeb'
    BY <1>1, <1>2, <2>1, <2>2, FeedEnds, IconEnds DEF Statuses
  <2> QED BY <1>1, <2>3, PollStep DEF TypeOK
<1>6. CASE a.kind = "redirect" /\ poll.hop # MaxRedirects
  <2>1. poll' = [poll EXCEPT !.pc = "guard", !.at = a.to, !.hop = @ + 1, !.redirected = TRUE,
                             !.permanent = @ /\ a.permanent]
    BY <1>1, <1>6 DEF Respond, Followed
  <2>2. /\ poll' \in Polls /\ poll' # None /\ poll'.pc = "guard" /\ poll'.at = a.to
        /\ poll'.hop = poll.hop + 1 /\ poll'.redirected = TRUE
        /\ poll'.permanent = (poll.permanent /\ a.permanent)
        /\ \A x \in {"url", "want", "row", "body", "steady"} : poll'[x] = poll[x]
    <3>1. /\ poll.hop + 1 \in 0 .. MaxRedirects /\ a.to \in Urls
          /\ (poll.permanent /\ a.permanent) \in BOOLEAN
      BY <1>1, <1>2, <1>6, Shape DEF Redirects
    <3> HIDE DEF a
    <3>2. poll' \in Polls
      BY <1>2, <2>1, <3>1, ZenonT(40) DEF Polls
    <3>3. /\ poll'.pc = "guard" /\ poll'.at = a.to /\ poll'.hop = poll.hop + 1
          /\ poll'.redirected = TRUE /\ poll'.permanent = (poll.permanent /\ a.permanent)
      BY <1>2, <2>1 DEF Polls
    <3>4. /\ poll'.url = poll.url /\ poll'.want = poll.want /\ poll'.row = poll.row
          /\ poll'.body = poll.body /\ poll'.steady = poll.steady
      BY <1>2, <2>1 DEF Polls
    <3> QED BY <3>2, <3>3, <3>4, Shape
  <2>3. OnCourse'
    <3> SUFFICES ASSUME poll.want = "feed", poll.steady PROVE OnCourse'
      BY <2>2 DEF OnCourse
    <3> DEFINE whole == Follow[MaxRedirects][poll.url]
               rest  == Follow[MaxRedirects - poll.hop][poll.at]
               next  == Follow[MaxRedirects - (poll.hop + 1)][a.to]
    <3>1. /\ whole.end = rest.end
          /\ rest.end # None => whole.permanent = (poll.permanent /\ rest.permanent)
          /\ poll.hop = 0 => poll.at = poll.url
          /\ poll.hop > 0 => site[poll.url].kind = "redirect"
      BY <1>1 DEF IInv, OnCourse
    <3>2. rest.end = next.end /\ rest.permanent = (next.permanent /\ a.permanent)
      BY <1>1, <1>3, <1>6, RestAt DEF Redirects
    <3>3. site[poll.url].kind = "redirect" /\ poll.hop + 1 > 0 /\ poll.hop + 1 # 0
      BY <1>2, <1>6, <3>1
    <3>4. next.end # None => whole.permanent = ((poll.permanent /\ a.permanent)
            /\ next.permanent)
      BY <3>1, <3>2
    <3> HIDE DEF whole, rest, next
    <3>5. whole.end = next.end
      BY <3>1, <3>2
    <3> QED BY <1>1, <1>2, <2>2, <3>3, <3>4, <3>5 DEF OnCourse, whole, next
  <2>4. RowKept' /\ FollowsTheWeb'
    BY <1>1, <2>2 DEF IInv, RowKept, FollowsTheWeb
  <2> QED BY <1>1, <2>2, <2>3, <2>4, PollStep DEF TypeOK
<1>7. a.kind \in {"doc", "page", "error", "redirect"}
  BY <1>2
<1> QED BY <1>4, <1>5, <1>6, <1>7

\* A timeout or an error ends the walk.
LEMMA TimeoutStep == ASSUME IInv, Timeout PROVE IInv'
<1>1. TypeOK /\ Walking /\ poll # None /\ UNCHANGED <<site, private, feed, stored, changes>>
      /\ faults' \in 0 .. MaxFaults
  BY Shape DEF IInv, Timeout, Walking, TypeOK
<1> DEFINE e == End("error", None, None)
<1>2. /\ e \in Polls /\ e.row = poll.row /\ e.want = poll.want
      /\ poll.want = "feed" => e.pc = "persist"
      /\ poll.want # "feed" => e.pc = "icon" /\ e.body = poll.body
  BY <1>1, EndShape DEF Statuses
<1>3. poll' = [e EXCEPT !.steady = FALSE]
  BY DEF Timeout
<1> HIDE DEF e
<1>4. /\ poll' \in Polls /\ poll' # None /\ poll'.steady = FALSE
      /\ \A x \in {"row", "want", "pc", "body"} : poll'[x] = e[x]
  BY <1>2, <1>3, Shape, ZenonT(40) DEF Polls
<1>5. RowKept'
  BY <1>1, <1>2, <1>4 DEF IInv, RowKept
<1>6. OnCourse' /\ FollowsTheWeb'
  BY <1>4 DEF OnCourse, FollowsTheWeb
<1> QED BY <1>1, <1>4, <1>5, <1>6, PollStep DEF TypeOK

\* The transaction writes an ETag that is stored, or one it is about to store.
LEMMA PersistStep == ASSUME IInv, Persist PROVE IInv'
<1>1. TypeOK /\ poll # None /\ poll.pc = "persist" /\ poll \in Polls
        /\ poll.moved \in Urls \cup {None}
      /\ poll.body \in Versions \cup {"page", None}
      /\ UNCHANGED <<site, private, feed, stored, changes, faults>>
  BY PollShape DEF IInv, Persist, Polls
<1>2. feed \in Feeds /\ feed.url \in Urls /\ feed.etag \in Versions \cup {None}
        /\ feed.icon \in BOOLEAN
      /\ feed.etag \in stored \cup {None}
  BY DEF IInv, TypeOK, EtagKept, Feeds
<1> DEFINE row == [url |-> IF poll.moved \in {None, poll.url} THEN feed.url ELSE poll.moved,
                   etag |-> EtagAfter, icon |-> feed.icon]
<1>3. row \in Feeds /\ row.etag \in stored \cup {None} \cup ({poll.body} \cap Versions)
  BY <1>1, <1>2 DEF EtagAfter, Feeds
<1>4. \/ poll' = [poll EXCEPT !.row = feed, !.body = None, !.pc = "commit"]
      \/ poll' = [poll EXCEPT !.row = row, !.pc = "icon", !.status = None]
      \/ poll' = [poll EXCEPT !.row = row, !.pc = "commit"]
  BY DEF Persist
<1> HIDE DEF row
<1>5. /\ poll' \in Polls /\ poll'.pc \in {"icon", "commit"} /\ poll'.row # None
      /\ poll'.row.etag \in stored \cup {None} \cup ({poll'.body} \cap Versions)
  <2>1. CASE poll' = [poll EXCEPT !.row = feed, !.body = None, !.pc = "commit"]
    BY <1>1, <1>2, <2>1, Shape DEF Polls
  <2>2. CASE poll' = [poll EXCEPT !.row = row, !.pc = "icon", !.status = None]
    BY <1>1, <1>3, <2>2, Shape DEF Polls
  <2>3. CASE poll' = [poll EXCEPT !.row = row, !.pc = "commit"]
    BY <1>1, <1>3, <2>3, Shape DEF Polls
  <2> QED BY <1>4, <2>1, <2>2, <2>3
<1>6. RowKept' /\ OnCourse' /\ FollowsTheWeb'
  BY <1>1, <1>5 DEF RowKept, OnCourse, FollowsTheWeb, Walking
<1> QED BY <1>1, <1>5, <1>6, PollStep DEF TypeOK

\* The favicon's walks leave the written ETag alone.
LEMMA IconStep == ASSUME IInv, Icon PROVE IInv'
<1>1. TypeOK /\ poll # None /\ poll.pc = "icon" /\ poll \in Polls
      /\ UNCHANGED <<site, private, feed, stored, changes, faults>>
  BY PollShape DEF IInv, Icon
<1>2. poll.row \in Feeds /\ poll.row.etag \in stored \cup {None} \cup ({poll.body} \cap Versions)
  BY <1>1, PollShape DEF IInv, RowKept
<1>3. \/ \E want \in {"artwork", "page", "image"}, u \in Urls : poll' = WalkFor(want, u)
      \/ poll' = WithIcon
      \/ poll' = WithoutIcon
  BY DEF Icon
<1>4. CASE \E want \in {"artwork", "page", "image"}, u \in Urls : poll' = WalkFor(want, u)
  <2>1. PICK want \in {"artwork", "page", "image"}, u \in Urls : poll' = WalkFor(want, u)
    BY <1>4
  <2>2. /\ poll' \in Polls /\ poll'.row = poll.row /\ poll'.body = poll.body
        /\ poll'.want # "feed" /\ poll'.pc = "guard"
    <3>1. poll' = [poll EXCEPT !.want = want, !.pc = "guard", !.at = u, !.hop = 0,
            !.redirected = FALSE]
      BY <2>1 DEF WalkFor
    <3>2. poll' \in Polls
      <4>1. 0 \in 0 .. MaxRedirects /\ want \in {"feed", "artwork", "page", "image"}
        BY Shape
      <4> QED BY <1>1, <3>1, <4>1 DEF Polls
    <3>3. poll'.row = poll.row /\ poll'.body = poll.body /\ poll'.want = want
            /\ poll'.pc = "guard"
      BY <1>1, <3>1 DEF Polls
    <3> QED BY <3>2, <3>3
  <2>3. RowKept' /\ OnCourse' /\ FollowsTheWeb'
    BY <1>1, <1>2, <2>2, Shape DEF RowKept, OnCourse, FollowsTheWeb
  <2> QED BY <1>1, <2>2, <2>3, PollStep DEF TypeOK
<1>5. CASE poll' = WithIcon \/ poll' = WithoutIcon
  <2>1. [poll.row EXCEPT !.icon = TRUE] \in Feeds
          /\ [poll.row EXCEPT !.icon = TRUE].etag = poll.row.etag
    BY <1>2 DEF Feeds
  <2>2. /\ poll' \in Polls /\ poll'.row \in Feeds /\ poll'.row.etag = poll.row.etag
        /\ poll'.body = poll.body /\ poll'.pc = "commit"
    BY <1>1, <1>2, <1>5, <2>1 DEF WithIcon, WithoutIcon, Polls
  <2>3. RowKept' /\ OnCourse' /\ FollowsTheWeb'
    BY <1>1, <1>2, <2>2, Shape DEF RowKept, OnCourse, FollowsTheWeb, Walking
  <2> QED BY <1>1, <2>2, <2>3, PollStep DEF TypeOK
<1> QED BY <1>3, <1>4, <1>5

\* The statements of the poll are committed.
LEMMA CommitStep == ASSUME IInv, Commit PROVE IInv'
<1>1. TypeOK /\ poll # None /\ poll.pc = "commit" /\ poll' = None
      /\ UNCHANGED <<site, private, changes, faults>>
      /\ feed' = poll.row /\ stored' = stored \cup ({poll.body} \cap Versions)
  BY DEF IInv, Commit
<1>2. poll.row \in Feeds /\ poll.row.etag \in stored \cup {None} \cup ({poll.body} \cap Versions)
  BY <1>1, PollShape DEF IInv, RowKept
<1> QED BY <1>1, <1>2 DEF IInv, TypeOK, EtagKept, RowKept, OnCourse, FollowsTheWeb, Walking

\* The statements of the poll are rolled back.
LEMMA FailStep == ASSUME IInv, Fail PROVE IInv'
<1>1. TypeOK /\ poll' = None /\ UNCHANGED <<site, private, feed, stored, changes>>
      /\ faults' \in 0 .. MaxFaults
  BY Shape DEF IInv, Fail, TypeOK
<1>2. RowKept' /\ OnCourse' /\ FollowsTheWeb'
  BY <1>1 DEF RowKept, OnCourse, FollowsTheWeb, Walking
<1> QED BY <1>1, <1>2, PollStep

\* A walk that a change of the web overtakes is no longer held to its course.
LEMMA ChangeStep == ASSUME IInv, Change PROVE IInv'
<1>1. TypeOK /\ UNCHANGED <<feed, stored, faults>> /\ changes' \in 0 .. MaxChanges
  BY Shape DEF IInv, Change, TypeOK
<1>2. site' \in [Urls -> UNION {Answers[u] : u \in Urls}]
        /\ \A u \in Urls : site'[u] \in Answers[u]
  BY <1>1 DEF Change, TypeOK
<1>3. private' \subseteq Urls
  BY <1>1 DEF Change, TypeOK
<1>4. CASE poll = None
  <2>1. poll' = None
    BY <1>4 DEF Change
  <2> QED BY <1>1, <1>2, <1>3, <2>1
          DEF IInv, TypeOK, EtagKept, RowKept, OnCourse, FollowsTheWeb, Walking
<1>5. CASE poll # None
  <2>1. poll' = [poll EXCEPT !.steady = FALSE] /\ poll \in Polls
    BY <1>1, <1>5, PollShape DEF Change
  <2>2. /\ poll' \in Polls /\ poll' # None /\ poll'.steady = FALSE
        /\ \A x \in {"row", "want", "pc", "body"} : poll'[x] = poll[x]
    BY <2>1, Shape, ZenonT(40) DEF Polls
  <2>3. RowKept'
    BY <1>1, <1>5, <2>2 DEF IInv, RowKept
  <2>4. OnCourse' /\ FollowsTheWeb'
    BY <2>2 DEF OnCourse, FollowsTheWeb
  <2> QED BY <1>1, <1>2, <1>3, <2>2, <2>3, <2>4 DEF IInv, TypeOK, EtagKept
<1> QED BY <1>4, <1>5

-----------------------------------------------------------------------------
(* Theorems *)

\* A step of nothing keeps the invariant.
LEMMA Stutter == ASSUME IInv, UNCHANGED vars PROVE IInv'
<1>1. Follow' = Follow
  BY FollowSame DEF vars
<1> QED BY <1>1
           DEF vars, IInv, TypeOK, EtagKept, RowKept, OnCourse, FollowsTheWeb, Walking, MovedTo

\* What a walk has left leads where the feed's URL does, and what a poll has written it stores:
\* the invariant that the steps of fetch_feed and of the poll's transaction preserve.
THEOREM Invariance == Spec => []IInv
<1>1. IInv /\ [Next]_vars => IInv'
  BY StartStep, GuardStep, ConnectStep, RespondStep, PersistStep, IconStep, CommitStep,
     TimeoutStep, FailStep, ChangeStep, Stutter DEF Next, Work
<1> QED BY InitInv, <1>1, PTL DEF Spec

\* In a web that holds still fetch_feed ends where the redirects lead, within
\* fetch_max_redirects of them, and reports a permanent move exactly when each of them is
\* permanent and the end serves something.
THEOREM WalkEndsRight == Spec => []FollowsTheWeb
<1>1. IInv => FollowsTheWeb
  BY DEF IInv
<1> QED BY <1>1, Invariance, PTL

\* The ETag a feed keeps is of a document whose entries are stored, whatever failed between
\* the fetch and the commit.
THEOREM EtagOfStored == Spec => []EtagIsStored
<1>1. IInv => EtagIsStored
  BY DEF IInv, EtagIsStored, EtagKept
<1> QED BY <1>1, Invariance, PTL

\* _GuardedBackend opens no connection to a disallowed address.
THEOREM Guarded == Spec => DialsAllowed
<1>1. ASSUME IInv, Next, Walking, poll.pc = "connect", poll' # None, poll'.pc = "request"
      PROVE  poll.at \notin private
  <2>1. TypeOK /\ poll # None /\ poll \in Polls
    BY <1>1, PollShape DEF IInv, Walking
  <2>2. CASE Connect
    <3>1. CASE poll.at \in private
      <4>1. poll' = End("error", None, None)
        BY <2>2, <3>1 DEF Connect, Dialable
      <4> QED BY <1>1, <2>1, <4>1, EndShape, PollShape DEF Statuses
    <3> QED BY <3>1
  <2>3. CASE Timeout
    <3> DEFINE e == End("error", None, None)
    <3>1. e \in Polls /\ e.pc \in {"persist", "icon"}
      BY <2>1, EndShape, PollShape DEF Statuses
    <3>2. poll' = [e EXCEPT !.steady = FALSE]
      BY <2>3 DEF Timeout
    <3> HIDE DEF e
    <3> QED BY <1>1, <3>1, <3>2 DEF Polls
  <2>4. CASE Change
    BY <1>1, <2>1, <2>4 DEF Change, Polls
  <2>5. ~StartPoll /\ ~Guard /\ ~Respond /\ ~Persist /\ ~Icon /\ ~Commit /\ ~Fail
    BY <1>1, <2>1 DEF StartPoll, Guard, Respond, Persist, Icon, Commit, Fail, Walking
  <2> QED BY <1>1, <2>2, <2>3, <2>4, <2>5 DEF Next, Work
<1>2. ASSUME IInv, [Next]_vars
      PROVE  [Walking /\ poll.pc = "connect" /\ poll' # None /\ poll'.pc = "request"
                => poll.at \notin private]_vars
  BY <1>1, <1>2
<1> QED BY <1>2, Invariance, PTL DEF Spec, DialsAllowed

-----------------------------------------------------------------------------
(* Ingestion: the byte cap *)

Half == MaxContent \div 2

LastPass == [cut : Nat, clean : Nat, budget : Int, goes : BOOLEAN]

Documents == [kind : {"document"}, doc : Seq(FeedItems), now : Times]
Htmls == [kind : {"html"}, length : Nat, overheads : Seq(Int), pass : LastPass]

\* While it goes on, the budget is what the last overhead leaves of the cap, or half of it.
PassesInOrder(html) ==
  LET n == Len(html.overheads)  o == html.overheads  c == html.pass IN
  /\ n = 0 => c = Whole(html.length)
  /\ c.goes => /\ html.length > MaxContent /\ c.clean > MaxContent
               /\ Half <= c.budget /\ c.budget <= MaxContent
               /\ n > 0 => c.budget = Half \/ c.budget = MaxContent - o[n] - Slack
  /\ n > 0 => html.length > MaxContent /\ Half <= c.cut /\ c.cut < html.length
  /\ n = 1 /\ c.clean > MaxContent => c.goes
  /\ n > 1 /\ c.clean > MaxContent => o[n] > o[n - 1] + Slack \/ 2 * o[n] > MaxContent

IngestInv ==
  \/ work \in Documents
  \/ work \in Htmls /\ PassesInOrder(work)

\* Half a cap is less than the cap.
LEMMA HalfShape ==
  /\ MaxContent \in Nat \ {0} /\ Slack \in Nat /\ Passes \in Nat \ {0, 1}
  /\ Half \in Nat /\ 2 * Half <= MaxContent /\ Half < MaxContent
BY IngestAssumption DEF Half

\* A pass while it goes on: the prefix is the budget, and the next budget what is left.
LEMMA PassShape ==
  ASSUME NEW c \in LastPass, NEW length \in Nat, NEW o \in Int,
         length > MaxContent, Half <= c.budget, c.budget <= MaxContent
  PROVE  LET p == Pass(c, length, o) IN
         /\ p \in LastPass /\ p.cut = c.budget
         /\ p.goes <=> p.clean > MaxContent /\ c.budget > Half
         /\ p.clean > MaxContent => /\ p.clean = c.budget + o
                                    /\ Half <= p.budget /\ p.budget <= MaxContent
                                    /\ p.budget = Half \/ p.budget = MaxContent - o - Slack
<1>1. PICK b, half, max : b = c.budget /\ half = Half /\ max = MaxContent
  OBVIOUS
<1>2. b \in Int /\ half \in Nat /\ max \in Nat /\ Slack \in Nat /\ half < max
      /\ length > max /\ half <= b /\ b <= max
  BY <1>1, HalfShape DEF LastPass
<1>3. PrefixLength(length, b) = b
  BY <1>2 DEF PrefixLength
<1>4. PICK clean : clean = IF b + o > 0 THEN b + o ELSE 0
  OBVIOUS
<1>5. clean \in Nat /\ (clean > max => clean = b + o)
  BY <1>2, <1>4
<1>6. PICK next : next = NextBudget(b, clean - max)
  OBVIOUS
<1>7. /\ next \in Int
      /\ clean > max => half <= next /\ next <= max /\ (next = half \/ next = max - o - Slack)
  <2>1. next = IF b - (clean - max) - Slack > half THEN b - (clean - max) - Slack ELSE half
    BY <1>1, <1>6 DEF NextBudget, Half
  <2> QED BY <1>2, <1>5, <2>1
<1>8. Pass(c, length, o) = [cut |-> b, clean |-> clean, budget |-> next,
                            goes |-> clean > max /\ b > half]
  BY <1>1, <1>3, <1>4, <1>6 DEF Pass, Half
<1>9. PICK goes \in BOOLEAN : goes <=> clean > max /\ b > half
  OBVIOUS
<1>10. Pass(c, length, o) = [cut |-> b, clean |-> clean, budget |-> next, goes |-> goes]
  BY <1>8, <1>9
<1>11. b \in Nat
  BY <1>2
<1>12. Pass(c, length, o) \in LastPass
  BY <1>5, <1>7, <1>9, <1>10, <1>11 DEF LastPass
<1>13. PICK p : p = Pass(c, length, o)
  OBVIOUS
<1>14. p.cut = b /\ p.clean = clean /\ p.budget = next /\ p.goes = goes
  BY <1>10, <1>13
<1> QED BY <1>1, <1>5, <1>7, <1>9, <1>12, <1>13, <1>14

\* Another pass keeps the order of the passes.
LEMMA AnotherPass ==
  ASSUME IngestInv, NEW o \in Overheads, TryPrefix(o)
  PROVE  IngestInv'
<1>1. work \in Htmls /\ PassesInOrder(work) /\ o \in Int
  BY IngestAssumption DEF IngestInv, TryPrefix, Documents
<1>2. PICK length, os, c : length = work.length /\ os = work.overheads /\ c = work.pass
  OBVIOUS
<1>3. PICK n : n = Len(os)
  OBVIOUS
<1>4. /\ length \in Nat /\ os \in Seq(Int) /\ c \in LastPass /\ n \in Nat
      /\ c.goes = TRUE /\ n # Passes
  BY <1>1, <1>2, <1>3 DEF Htmls, TryPrefix, Capped, LastPass
<1>5. /\ n = 0 => c = Whole(length)
      /\ length > MaxContent /\ c.clean > MaxContent
      /\ Half <= c.budget /\ c.budget <= MaxContent
      /\ n > 0 => c.budget = Half \/ c.budget = MaxContent - os[n] - Slack
  BY <1>1, <1>2, <1>3, <1>4 DEF PassesInOrder
<1>6. PICK p, new : p = Pass(c, length, o) /\ new = Append(os, o)
  OBVIOUS
<1>7. /\ p \in LastPass /\ p.cut = c.budget
      /\ p.goes <=> p.clean > MaxContent /\ c.budget > Half
      /\ p.clean > MaxContent => /\ p.clean = c.budget + o
                                 /\ Half <= p.budget /\ p.budget <= MaxContent
                                 /\ p.budget = Half \/ p.budget = MaxContent - o - Slack
  BY <1>4, <1>5, <1>6, <1>1, PassShape
<1>8. /\ new \in Seq(Int) /\ Len(new) = n + 1 /\ new[n + 1] = o
      /\ \A i \in 1 .. n : new[i] = os[i] /\ os[i] \in Int
  BY <1>1, <1>3, <1>4, <1>6
<1>9. work' = [kind |-> "html", length |-> length, overheads |-> new, pass |-> p]
  BY <1>1, <1>2, <1>6 DEF TryPrefix, Htmls
<1>10. work' \in Htmls
  BY <1>4, <1>7, <1>8, <1>9 DEF Htmls
<1>11. /\ c.budget \in Int /\ p.clean \in Nat /\ p.cut \in Nat /\ p.budget \in Int
  BY <1>4, <1>7 DEF LastPass
<1>12. n = 0 => c.budget = MaxContent
  BY <1>5 DEF Whole
<1>13. n > 0 => n \in 1 .. n /\ os[n] \in Int /\ new[n] = os[n]
  BY <1>4, <1>8
<1>14. n + 1 > 1 /\ p.clean > MaxContent => o > os[n] + Slack \/ 2 * o > MaxContent
  <2> SUFFICES ASSUME n > 0, p.clean > MaxContent
               PROVE  o > os[n] + Slack \/ 2 * o > MaxContent
    BY <1>4
  <2>1. PICK b, e, max, half, slack :
          b = c.budget /\ e = os[n] /\ max = MaxContent /\ half = Half /\ slack = Slack
    OBVIOUS
  <2>2. /\ b \in Int /\ e \in Int /\ max \in Nat /\ half \in Nat /\ slack \in Nat /\ 2 * half <= max
        /\ b + o > max
    BY <1>7, <1>11, <1>13, <2>1, HalfShape
  <2>3. b = half \/ b = max - e - slack
    BY <1>5, <2>1
  <2>4. o > e + slack \/ 2 * o > max
    BY <1>1, <2>2, <2>3
  <2> QED BY <2>1, <2>4
<1>15. PassesInOrder(work')
  <2>1. ~(n + 1 = 0) /\ (n + 1) - 1 = n /\ n + 1 > 0
    BY <1>4
  <2>2. p.goes => /\ length > MaxContent /\ p.clean > MaxContent
                  /\ Half <= p.budget /\ p.budget <= MaxContent
                  /\ p.budget = Half \/ p.budget = MaxContent - new[n + 1] - Slack
    BY <1>5, <1>7, <1>8
  <2>3. length > MaxContent /\ Half <= p.cut /\ p.cut < length
    BY <1>4, <1>5, <1>7, <1>11, HalfShape
  <2>4. n + 1 = 1 /\ p.clean > MaxContent => p.goes
    BY <1>4, <1>7, <1>12, HalfShape
  <2>5. n + 1 > 1 /\ p.clean > MaxContent =>
          new[n + 1] > new[n] + Slack \/ 2 * new[n + 1] > MaxContent
    BY <1>4, <1>8, <1>13, <1>14
  <2> QED BY <1>8, <1>9, <2>1, <2>2, <2>3, <2>4, <2>5 DEF PassesInOrder
<1> QED BY <1>10, <1>15 DEF IngestInv

\* What is begun is a document without items, or a text nothing was cut of yet.
LEMMA Begun ==
  ASSUME NEW w \in Starts
  PROVE  w \in Documents \/ (w \in Htmls /\ PassesInOrder(w))
<1>1. CASE w \in [kind : {"document"}, doc : {<< >>}, now : Times]
  <2>1. << >> \in Seq(FeedItems)
    OBVIOUS
  <2> QED BY <1>1, <2>1 DEF Documents
<1>2. ASSUME NEW n \in Lengths,
             w = [kind |-> "html", length |-> n, overheads |-> << >>, pass |-> Whole(n)]
      PROVE  w \in Htmls /\ PassesInOrder(w)
  <2>1. n \in Nat /\ MaxContent \in Nat /\ MaxContent \in Int
    BY IngestAssumption, HalfShape
  <2>2. Whole(n) \in LastPass /\ (Whole(n).goes <=> n > MaxContent) /\ Whole(n).clean = n
        /\ Whole(n).budget = MaxContent
    <3>1. PICK goes \in BOOLEAN : goes <=> n > MaxContent
      OBVIOUS
    <3>2. Whole(n) = [cut |-> n, clean |-> n, budget |-> MaxContent, goes |-> goes]
      BY <3>1 DEF Whole
    <3> QED BY <2>1, <3>1, <3>2 DEF LastPass
  <2>3. w \in Htmls
    BY <1>2, <2>1, <2>2 DEF Htmls
  <2>4. Len(w.overheads) = 0 /\ w.pass = Whole(n) /\ w.length = n
    BY <1>2
  <2> QED BY <2>1, <2>2, <2>3, <2>4, HalfShape DEF PassesInOrder
<1> QED BY <1>1, <1>2 DEF Starts

\* The invariant of ingestion holds of every state.
THEOREM IngestInvariance == IngestSpec => []IngestInv
<1>1. IngestInit => IngestInv
  BY Begun DEF IngestInit, IngestInv
<1>2. ASSUME IngestInv, [IngestNext]_work
      PROVE  IngestInv'
  <2>1. ASSUME NEW x \in FeedItems, ListItem(x)
        PROVE  IngestInv'
    <3>1. work \in Documents /\ work' = [work EXCEPT !.doc = Append(work.doc, x)]
      BY <1>2, <2>1 DEF ListItem, IngestInv, Htmls
    <3>2. work.doc \in Seq(FeedItems)
      BY <3>1 DEF Documents
    <3>3. Append(work.doc, x) \in Seq(FeedItems)
      BY <3>2
    <3>4. work' \in Documents
      BY <3>1, <3>3 DEF Documents
    <3> QED BY <3>4 DEF IngestInv
  <2>2. ASSUME NEW o \in Overheads, TryPrefix(o)
        PROVE  IngestInv'
    BY <1>2, <2>2, AnotherPass
  <2>3. CASE Another
    <3>1. work' \in Starts
      BY <2>3 DEF Another
    <3> QED BY <3>1, Begun DEF IngestInv
  <2>4. CASE UNCHANGED work
    BY <1>2, <2>4 DEF IngestInv
  <2> QED BY <1>2, <2>1, <2>2, <2>3, <2>4 DEF IngestNext
<1> QED BY <1>1, <1>2, PTL DEF IngestSpec

\* Stored HTML is within the cap, and cut no shorter than it need be.
THEOREM CapKept == IngestSpec => []CapHolds
<1>1. IngestInv => CapHolds
  <2> SUFFICES ASSUME IngestInv, Capped PROVE CapHolds
    BY DEF CapHolds
  <2>1. work \in Htmls /\ PassesInOrder(work)
    BY DEF IngestInv, Capped, Documents
  <2>2. PICK length, o, c, n :
          /\ length = work.length /\ o = work.overheads /\ c = work.pass /\ n = Len(o)
    OBVIOUS
  <2>3. /\ length \in Nat /\ o \in Seq(Int) /\ c \in LastPass /\ n \in Nat
        /\ c.cut \in Nat /\ c.clean \in Nat
        /\ \A i \in 1 .. n : o[i] \in Int
        /\ ~c.goes \/ n = Passes
    BY <2>1, <2>2 DEF Htmls, LastPass, Capped
  <2>4. /\ n = 0 => c = Whole(length)
        /\ n > 0 => length > MaxContent /\ Half <= c.cut /\ c.cut < length
        /\ n = 1 /\ c.clean > MaxContent => c.goes
        /\ n > 1 /\ c.clean > MaxContent => o[n] > o[n - 1] + Slack \/ 2 * o[n] > MaxContent
    BY <2>1, <2>2 DEF PassesInOrder
  <2>5. n = 0 => c.cut = length /\ c.clean = length /\ length <= MaxContent
    <3>1. n # Passes \/ n # 0
      BY HalfShape
    <3>2. Whole(length).cut = length /\ Whole(length).clean = length
          /\ (Whole(length).goes <=> length > MaxContent)
      BY DEF Whole
    <3> QED BY <2>3, <2>4, <3>1, <3>2, HalfShape
  <2>6. PrefixLength(c.clean, MaxContent) <= MaxContent
    BY <2>3, HalfShape DEF PrefixLength
  <2>7. length > MaxContent <=> c.cut < length
    BY <2>3, <2>4, <2>5, HalfShape
  <2>8. length > MaxContent => c.cut >= Half
    BY <2>3, <2>4, <2>5, HalfShape
  <2>9. ASSUME c.clean > MaxContent
        PROVE  \E i \in 2 .. Len(o) : o[i] > o[i - 1] + Slack \/ 2 * o[i] > MaxContent
    <3>1. n > 1
      BY <2>3, <2>4, <2>5, <2>9, HalfShape
    <3>2. n \in 2 .. Len(o)
      BY <2>2, <2>3, <3>1
    <3>3. o[n] > o[n - 1] + Slack \/ 2 * o[n] > MaxContent
      BY <2>4, <2>9, <3>1
    <3> QED BY <3>2, <3>3
  <2> QED BY <2>2, <2>6, <2>7, <2>8, <2>9 DEF CapHolds, Cap, Half
<1> QED BY <1>1, IngestInvariance, PTL

-----------------------------------------------------------------------------
(* Ingestion: the items of a document *)

\* What the dedup key of an item is.
LEMMA GuidShape ==
  ASSUME NEW x, NEW now
  PROVE  /\ x.id # Missing => Guid(x, now) = <<x.id>>
         /\ x.id = Missing /\ x.link # Missing => Guid(x, now) = <<x.link>>
         /\ x.id = Missing /\ x.link = Missing =>
              Guid(x, now) = <<x.title, PublishedAt(x, now), ContentHtml(x)>>
BY DEF Guid

\* Two items with one dedup key share an id or a link, or nothing tells them apart.
LEMMA OneKey ==
  ASSUME NEW x, NEW y, NEW now, Guid(x, now) = Guid(y, now)
  PROVE  \/ ({x.id, x.link} \cap {y.id, y.link}) \ {Missing} # {}
         \/ /\ x.title = y.title /\ ContentHtml(x) = ContentHtml(y)
            /\ PublishedAt(x, now) = PublishedAt(y, now)
<1>1. \A p, q : <<p>> = <<q>> => p = q
  OBVIOUS
<1>2. \A p, q, r, s : <<p>> # <<q, r, s>>
  OBVIOUS
<1>3. \A p, q, r, s, t, u : <<p, q, r>> = <<s, t, u>> => p = s /\ q = t /\ r = u
  OBVIOUS
<1>4. PICK px, py, cx, cy :
        /\ px = PublishedAt(x, now) /\ py = PublishedAt(y, now)
        /\ cx = ContentHtml(x) /\ cy = ContentHtml(y)
  OBVIOUS
<1>5. CASE x.id # Missing \/ x.link # Missing
  <2>1. PICK p \in {x.id, x.link} \ {Missing} : Guid(x, now) = <<p>>
    BY <1>5, GuidShape
  <2>2. y.id # Missing \/ y.link # Missing
    BY <1>2, <2>1, GuidShape
  <2>3. PICK q \in {y.id, y.link} \ {Missing} : Guid(y, now) = <<q>>
    BY <2>2, GuidShape
  <2>4. p = q
    BY <1>1, <2>1, <2>3
  <2> QED BY <2>1, <2>3, <2>4
<1>6. CASE x.id = Missing /\ x.link = Missing
  <2>1. Guid(x, now) = <<x.title, px, cx>>
    BY <1>4, <1>6, GuidShape
  <2>2. y.id = Missing /\ y.link = Missing
    <3>1. y.id # Missing => Guid(y, now) = <<y.id>>
      BY GuidShape
    <3>2. y.id = Missing /\ y.link # Missing => Guid(y, now) = <<y.link>>
      BY GuidShape
    <3> QED BY <1>2, <2>1, <3>1, <3>2
  <2>3. Guid(y, now) = <<y.title, py, cy>>
    BY <1>4, <2>2, GuidShape
  <2>4. PICK tx, ty : tx = x.title /\ ty = y.title
    OBVIOUS
  <2>5. <<tx, px, cx>> = <<ty, py, cy>>
    BY <2>1, <2>3, <2>4
  <2>6. tx = ty /\ px = py /\ cx = cy
    BY <1>3, <2>5
  <2> QED BY <1>4, <2>4, <2>6
<1> QED BY <1>5, <1>6

\* A date is usable from then on.
LEMMA UsableLater ==
  ASSUME NEW d \in Nat \cup {Missing}, NEW now \in Nat, NEW later \in Nat, later >= now,
         Usable(d, now)
  PROVE  Usable(d, later)
BY IngestAssumption DEF Usable

\* The date of an item is one of its dates that is usable, if any is.
LEMMA PublishedShape ==
  ASSUME NEW x \in FeedItems, NEW now \in Nat
  PROVE  /\ PublishedAt(x, now) \in Nat \cup {Missing}
         /\ PublishedAt(x, now) # Missing =>
              PublishedAt(x, now) \in Dates(x) /\ Usable(PublishedAt(x, now), now)
         /\ \A d \in Dates(x) : Usable(d, now) => PublishedAt(x, now) # Missing
<1>1. {x.published, x.updated} \subseteq Nat \cup {Missing}
  BY IngestAssumption
<1>2. /\ Usable(x.published, now) => PublishedAt(x, now) = x.published
      /\ ~Usable(x.published, now) /\ Usable(x.updated, now) => PublishedAt(x, now) = x.updated
      /\ ~Usable(x.published, now) /\ ~Usable(x.updated, now) => PublishedAt(x, now) = Missing
  BY DEF PublishedAt
<1>3. \A d : Usable(d, now) => d # Missing
  BY DEF Usable
<1> QED BY <1>1, <1>2, <1>3 DEF Dates

\* The key of an item changes only when a date of it becomes usable.
LEMMA KeyChanges ==
  ASSUME NEW x \in FeedItems, NEW now \in Nat, NEW later \in Nat, later >= now,
         Guid(x, later) # Guid(x, now)
  PROVE  {x.id, x.link} = {Missing} /\ \E d \in Dates(x) \ {Missing} : ~Usable(d, now)
<1>1. x.id = Missing /\ x.link = Missing
  BY GuidShape
<1>2. PublishedAt(x, later) # PublishedAt(x, now)
  BY <1>1, GuidShape
<1>3. ASSUME \A d \in Dates(x) \ {Missing} : Usable(d, now)
      PROVE  FALSE
  <2>1. \A d \in {x.published, x.updated} : Usable(d, now) => Usable(d, later)
    BY IngestAssumption, UsableLater
  <2>2. \A d, t : d = Missing => ~Usable(d, t)
    BY DEF Usable
  <2>3. \A d \in {x.published, x.updated} : Usable(d, now) <=> Usable(d, later)
    BY <1>3, <2>1, <2>2 DEF Dates
  <2> QED BY <1>2, <2>3 DEF PublishedAt
<1> QED BY <1>1, <1>3

\* Those of n things that come before one.
Above(before, n, i) == {j \in 1 .. n : <<j, i>> \in before}

\* The first m of n things in a strict order: as many are kept when one is not, and each of
\* them comes before each that is not.
LEMMA FirstKept ==
  ASSUME NEW n \in Nat, NEW m \in Nat, NEW before \in SUBSET ((1 .. n) \X (1 .. n)),
         \A i \in 1 .. n : <<i, i>> \notin before,
         \A i, j, k \in 1 .. n : <<i, j>> \in before /\ <<j, k>> \in before => <<i, k>> \in before,
         \A i, j \in 1 .. n : i = j \/ <<i, j>> \in before \/ <<j, i>> \in before,
         NEW kept \in SUBSET (1 .. n),
         \A i \in 1 .. n : i \in kept <=> Cardinality(Above(before, n, i)) < m,
         NEW out \in 1 .. n, out \notin kept
  PROVE  /\ Cardinality(kept) = m
         /\ \A k \in kept : <<k, out>> \in before
<1> DEFINE rank == [i \in 1 .. n |-> Cardinality(Above(before, n, i))]
<1>1. IsFiniteSet(1 .. n) /\ Cardinality(1 .. n) = n
  BY FS_Interval
<1>2. ASSUME NEW i \in 1 .. n
      PROVE  /\ IsFiniteSet(Above(before, n, i)) /\ Cardinality(Above(before, n, i)) \in Nat
             /\ i \notin Above(before, n, i)
  <2>1. Above(before, n, i) \in SUBSET (1 .. n) /\ i \notin Above(before, n, i)
    BY DEF Above
  <2> QED BY <1>1, <2>1, FS_Subset, FS_CardinalityType
<1>3. ASSUME NEW i \in 1 .. n, NEW j \in 1 .. n, <<i, j>> \in before
      PROVE  rank[i] < rank[j]
  <2>1. Above(before, n, i) \cup {i} \in SUBSET Above(before, n, j)
    BY <1>3 DEF Above
  <2>2. Cardinality(Above(before, n, i) \cup {i}) = Cardinality(Above(before, n, i)) + 1
    BY <1>2, FS_AddElement
  <2>3. Cardinality(Above(before, n, i) \cup {i}) <= Cardinality(Above(before, n, j))
    BY <1>2, <2>1, FS_Subset
  <2> QED BY <1>2, <2>2, <2>3
<1>4. ASSUME NEW i \in 1 .. n
      PROVE  rank[i] \in 0 .. n - 1
  <2>1. Above(before, n, i) \cup {i} \in SUBSET (1 .. n)
    BY DEF Above
  <2>2. Cardinality(Above(before, n, i) \cup {i}) = Cardinality(Above(before, n, i)) + 1
    BY <1>2, FS_AddElement
  <2>3. Cardinality(Above(before, n, i) \cup {i}) <= n
    BY <1>1, <2>1, FS_Subset
  <2> QED BY <1>2, <2>2, <2>3
<1>5. rank \in Surjection(1 .. n, 0 .. n - 1)
  <2>1. rank \in [1 .. n -> 0 .. n - 1]
    BY <1>4
  <2>2. ASSUME NEW i \in 1 .. n, NEW j \in 1 .. n, rank[i] = rank[j]
        PROVE  i = j
    <3>1. <<i, j>> \notin before
      <4> SUFFICES ASSUME <<i, j>> \in before PROVE FALSE
        OBVIOUS
      <4>1. rank[i] < rank[j]
        BY <1>3
      <4> HIDE DEF rank
      <4> QED BY <1>4, <2>2, <4>1
    <3>2. <<j, i>> \notin before
      <4> SUFFICES ASSUME <<j, i>> \in before PROVE FALSE
        OBVIOUS
      <4>1. rank[j] < rank[i]
        BY <1>3
      <4> HIDE DEF rank
      <4> QED BY <1>4, <2>2, <4>1
    <3> QED BY <3>1, <3>2
  <2> HIDE DEF rank
  <2>3. rank \in Injection(1 .. n, 0 .. n - 1)
    BY <2>1, <2>2 DEF Injection, IsInjective
  <2>4. IsFiniteSet(0 .. n - 1) /\ Cardinality(0 .. n - 1) = n
    BY FS_Interval
  <2> QED BY <1>1, <2>3, <2>4, FS_Injection
<1>6. m <= rank[out] /\ rank[out] \in 0 .. n - 1
  BY <1>2, <1>4
<1>7. \A i \in 1 .. n : i \in kept <=> rank[i] < m
  OBVIOUS
<1>8. kept \subseteq 1 .. n
  OBVIOUS
<1> HIDE DEF rank
<1>9. Cardinality(kept) = m
  <2> DEFINE f == [k \in kept |-> rank[k]]
  <2>1. f \in [kept -> 0 .. m - 1]
    BY <1>4, <1>7, <1>8
  <2>2. ASSUME NEW i \in kept, NEW j \in kept, f[i] = f[j]
        PROVE  i = j
    <3>1. i \in 1 .. n /\ j \in 1 .. n /\ rank[i] = rank[j] /\ rank[i] \in 0 .. n - 1
      BY <1>4, <1>8, <2>2
    <3>2. ASSUME <<i, j>> \in before \/ <<j, i>> \in before
          PROVE  FALSE
      BY <1>3, <3>1, <3>2
    <3> QED BY <3>1, <3>2
  <2>3. ASSUME NEW v \in 0 .. m - 1
        PROVE  \E k \in kept : f[k] = v
    <3>1. v \in 0 .. n - 1 /\ v < m
      BY <1>6
    <3>2. PICK k \in 1 .. n : rank[k] = v
      BY <1>5, <3>1 DEF Surjection
    <3> QED BY <1>7, <3>1, <3>2
  <2> HIDE DEF f
  <2>4. f \in Bijection(kept, 0 .. m - 1)
    BY <2>1, <2>2, <2>3 DEF Bijection, Injection, Surjection, IsInjective
  <2>5. IsFiniteSet(kept)
    BY <1>1, <1>8, FS_Subset
  <2>6. Cardinality(0 .. m - 1) = m
    BY FS_Interval
  <2> QED BY <2>4, <2>5, <2>6, FS_Bijection DEF ExistsBijection
<1>10. ASSUME NEW k \in kept
       PROVE  <<k, out>> \in before
  <2>1. k \in 1 .. n /\ rank[k] < m /\ rank[k] \in 0 .. n - 1
    BY <1>4, <1>7, <1>8
  <2>2. k # out
    OBVIOUS
  <2>3. ASSUME <<out, k>> \in before
        PROVE  FALSE
    <3>1. rank[out] < rank[k]
      BY <1>3, <2>1, <2>3
    <3> QED BY <1>6, <2>1, <3>1
  <2> QED BY <2>1, <2>2, <2>3
<1> QED BY <1>9, <1>10

\* What an oversized document loses is older than what is kept, or undated.
LEMMA OldestLost ==
  ASSUME NEW doc \in Seq(FeedItems), NEW now \in Nat, NEW out \in DOMAIN doc \ Kept(doc, now)
  PROVE  /\ Cardinality(Kept(doc, now)) = MaxEntries
         /\ \A date \in Dates(doc[out]) : Usable(date, now) =>
              \A k \in Kept(doc, now) : \E d \in Dates(doc[k]) :
                Usable(d, now) /\ d >= PublishedAt(doc[out], now)
<1> DEFINE n == Len(doc)
           day(i) == IF PublishedAt(doc[i], now) = Missing THEN -1 ELSE PublishedAt(doc[i], now)
           before == {p \in (1 .. n) \X (1 .. n) : Newer(doc, now, p[1], p[2])}
           kept == Kept(doc, now)
<1>1. n \in Nat /\ DOMAIN doc = 1 .. n /\ \A i \in 1 .. n : doc[i] \in FeedItems
  OBVIOUS
<1>2. ASSUME NEW i \in 1 .. n
      PROVE  /\ day(i) \in Int /\ (day(i) >= 0 <=> PublishedAt(doc[i], now) # Missing)
             /\ PublishedAt(doc[i], now) # Missing => day(i) = PublishedAt(doc[i], now)
  <2>1. doc[i] \in FeedItems
    BY <1>1
  <2>2. PICK p : p = PublishedAt(doc[i], now)
    OBVIOUS
  <2>3. p \in Nat \cup {Missing}
    BY <2>1, <2>2, PublishedShape
  <2>4. day(i) = IF p = Missing THEN -1 ELSE p
    BY <2>2
  <2> HIDE DEF day
  <2> QED BY <2>2, <2>3, <2>4
<1>3. ASSUME NEW i \in 1 .. n, NEW j \in 1 .. n
      PROVE  <<i, j>> \in before <=> day(i) > day(j) \/ (day(i) = day(j) /\ i < j)
  BY DEF Newer
<1>4. before \in SUBSET ((1 .. n) \X (1 .. n))
  OBVIOUS
<1>5. ASSUME NEW i \in 1 .. n
      PROVE  {j \in DOMAIN doc : Newer(doc, now, j, i)} = Above(before, n, i)
  BY <1>1 DEF Above
<1>6. kept \in SUBSET (1 .. n) /\ out \in 1 .. n /\ out \notin kept
  BY <1>1 DEF Kept
<1>7. PICK m \in Nat : m = MaxEntries
  BY IngestAssumption
<1>8. \A i \in 1 .. n : i \in kept <=> Cardinality(Above(before, n, i)) < m
  <2> HIDE DEF before
  <2> QED BY <1>1, <1>5, <1>7 DEF Kept
<1> HIDE DEF n, day, before, kept
<1>9. /\ \A i \in 1 .. n : <<i, i>> \notin before
      /\ \A i, j, k \in 1 .. n : <<i, j>> \in before /\ <<j, k>> \in before => <<i, k>> \in before
      /\ \A i, j \in 1 .. n : i = j \/ <<i, j>> \in before \/ <<j, i>> \in before
  <2>1. \A i \in 1 .. n : day(i) \in Int
    BY <1>2
  <2>2. ASSUME NEW i \in 1 .. n
        PROVE  <<i, i>> \notin before
    BY <1>3, <2>1
  <2>3. ASSUME NEW i \in 1 .. n, NEW j \in 1 .. n, NEW k \in 1 .. n,
               <<i, j>> \in before, <<j, k>> \in before
        PROVE  <<i, k>> \in before
    <3>1. /\ day(i) > day(j) \/ (day(i) = day(j) /\ i < j)
          /\ day(j) > day(k) \/ (day(j) = day(k) /\ j < k)
      BY <1>3, <2>3
    <3>2. day(i) > day(k) \/ (day(i) = day(k) /\ i < k)
      BY <2>1, <3>1
    <3> QED BY <1>3, <3>2
  <2>4. ASSUME NEW i \in 1 .. n, NEW j \in 1 .. n
        PROVE  i = j \/ <<i, j>> \in before \/ <<j, i>> \in before
    <3>1. \/ i = j \/ day(i) > day(j) \/ (day(i) = day(j) /\ i < j)
          \/ day(j) > day(i) \/ (day(j) = day(i) /\ j < i)
      BY <2>1
    <3> QED BY <1>3, <3>1
  <2> QED BY <2>2, <2>3, <2>4
<1>10. Cardinality(kept) = m /\ \A k \in kept : <<k, out>> \in before
  BY <1>1, <1>4, <1>6, <1>8, <1>9, FirstKept
<1>11. ASSUME NEW date \in Dates(doc[out]), Usable(date, now), NEW k \in kept
       PROVE  \E d \in Dates(doc[k]) : Usable(d, now) /\ d >= PublishedAt(doc[out], now)
  <2>1. /\ out \in 1 .. n /\ k \in 1 .. n
        /\ doc[out] \in FeedItems /\ doc[k] \in FeedItems
    BY <1>1, <1>6
  <2>2. PublishedAt(doc[out], now) # Missing
    BY <1>11, <2>1, PublishedShape
  <2>3. day(out) >= 0 /\ day(out) = PublishedAt(doc[out], now) /\ day(k) >= day(out)
    <3>1. /\ day(out) \in Int /\ day(out) >= 0 /\ day(out) = PublishedAt(doc[out], now)
          /\ day(k) \in Int
      BY <1>2, <2>1, <2>2
    <3>2. day(k) > day(out) \/ (day(k) = day(out) /\ k < out)
      BY <1>3, <1>10, <2>1
    <3> QED BY <3>1, <3>2
  <2>4. PublishedAt(doc[k], now) # Missing /\ PublishedAt(doc[k], now) = day(k)
    BY <1>2, <2>1, <2>3
  <2>5. PublishedAt(doc[k], now) \in Dates(doc[k]) /\ Usable(PublishedAt(doc[k], now), now)
    BY <2>1, <2>4, PublishedShape
  <2> QED BY <2>3, <2>4, <2>5
<1> QED BY <1>7, <1>10, <1>11 DEF kept

\* Items share a row, and an oversized document loses items, only as they may.
THEOREM ItemsKept == IngestSpec => []ItemsStored
<1>1. IngestInv => ItemsStored
  <2> SUFFICES ASSUME IngestInv, work.kind = "document" PROVE ItemsStored
    BY DEF ItemsStored
  <2>1. PICK doc, now : doc = work.doc /\ now = work.now
    OBVIOUS
  <2>2. doc \in Seq(FeedItems) /\ now \in Times /\ now \in Nat /\ Times \subseteq Nat
    BY <2>1, IngestAssumption DEF IngestInv, Documents, Htmls
  <2>3. \A i \in DOMAIN doc : doc[i] \in FeedItems
    BY <2>2
  <2>4. ASSUME NEW i \in DOMAIN doc, NEW j \in DOMAIN doc, Guid(doc[i], now) = Guid(doc[j], now)
        PROVE  \/ ({doc[i].id, doc[i].link} \cap {doc[j].id, doc[j].link}) \ {Missing} # {}
               \/ /\ doc[i].title = doc[j].title /\ ContentHtml(doc[i]) = ContentHtml(doc[j])
                  /\ PublishedAt(doc[i], now) = PublishedAt(doc[j], now)
    BY <2>4, OneKey
  <2>5. ASSUME NEW i \in DOMAIN doc, NEW later \in {t \in Times : t >= now}
        PROVE  \/ Guid(doc[i], later) = Guid(doc[i], now)
               \/ /\ {doc[i].id, doc[i].link} = {Missing}
                  /\ \E d \in Dates(doc[i]) \ {Missing} : ~Usable(d, now)
    <3>1. later \in Nat /\ later >= now /\ doc[i] \in FeedItems
      BY <2>2, <2>3
    <3> QED BY <2>2, <3>1, KeyChanges
  <2>6. ASSUME NEW i \in DOMAIN doc \ Kept(doc, now)
        PROVE  /\ Cardinality(Kept(doc, now)) = MaxEntries
               /\ \A date \in Dates(doc[i]) : Usable(date, now) =>
                    \A k \in Kept(doc, now) : \E d \in Dates(doc[k]) :
                      Usable(d, now) /\ d >= PublishedAt(doc[i], now)
    BY <2>2, OldestLost
  <2> QED BY <2>1, <2>4, <2>5, <2>6 DEF ItemsStored
<1> QED BY <1>1, IngestInvariance, PTL
=============================================================================
