------------------------------- MODULE Fetcher -------------------------------
(***************************************************************************)
(* Polls of one feed through a web that changes: the redirect walk of       *)
(* fetch_feed, guarded hop by hop; what the poll's transaction makes of its *)
(* outcome; and the favicon, fetched inside that transaction by walks of    *)
(* guarded_get.  Poller has when a feed is polled and by whom.              *)
(***************************************************************************)
EXTENDS Integers

CONSTANTS Urls,
          Home,          \* the feed's first feed_url
          Taken,         \* URLs that are some other feed's
          Versions,      \* feed documents; an ETag names one of them
          Answers,       \* what each URL may answer
          MaxRedirects,  \* fetch_max_redirects
          MaxChanges,    \* bound: changes of the web and of DNS
          MaxFaults,     \* bound: timeouts and failing transactions
          None

VARIABLES site,     \* what each URL answers: a feed, another page, an error or a redirect
          private,  \* URLs whose host resolves to a disallowed address
          feed,     \* the feed's row: feed_url, etag, and whether it has an icon
          stored,   \* the documents whose entries are inserted
          poll,     \* the poll under way, or None
          changes, faults

vars == <<site, private, feed, stored, poll, changes, faults>>

Feeds == [url : Urls, etag : Versions \cup {None}, icon : BOOLEAN]

Polls == [url : Urls, etag : Versions \cup {None},      \* of the FeedRow that was claimed
          want : {"feed", "artwork", "page", "image"},  \* what the walk is for
          pc : {"guard", "connect", "request", "persist", "icon", "commit"},
          at : Urls, hop : 0 .. MaxRedirects, redirected : BOOLEAN, permanent : BOOLEAN,
          status : {"new_body", "not_modified", "error", None},
          body : Versions \cup {"page", None},
          moved : Urls \cup {None},                     \* permanent_url
          steady : BOOLEAN,                             \* nothing changed or failed since it began
          row : Feeds \cup {None}]                      \* what the transaction has written

ASSUME FetcherAssumption ==
  /\ Home \in Urls \ Taken
  /\ None \notin Urls \cup Versions \cup Feeds \cup Polls
  /\ {MaxRedirects, MaxChanges, MaxFaults} \subseteq Nat
  /\ Answers \in [Urls -> SUBSET
       ([kind : {"doc"}, version : Versions] \cup [kind : {"page", "error"}]
          \cup [kind : {"redirect"}, permanent : BOOLEAN, to : Urls])]

Init ==
  /\ site \in {s \in [Urls -> UNION {Answers[u] : u \in Urls}] : \A u \in Urls : s[u] \in Answers[u]}
  /\ private \in SUBSET (Urls \ {Home})
  /\ feed = [url |-> Home, etag |-> None, icon |-> FALSE]
  /\ stored = {} /\ poll = None /\ changes = 0 /\ faults = 0

Walking == poll # None /\ poll.pc \in {"guard", "connect", "request"}

-----------------------------------------------------------------------------
(* The redirect walk *)

StartPoll ==
  /\ poll = None
  /\ poll' = [url |-> feed.url, etag |-> feed.etag, want |-> "feed", pc |-> "guard",
              at |-> feed.url, hop |-> 0, redirected |-> FALSE, permanent |-> TRUE,
              status |-> None, body |-> None, moved |-> None, steady |-> TRUE, row |-> None]
  /\ UNCHANGED <<site, private, feed, stored, changes, faults>>

\* A FetchResult for the pipeline, or a GetResult that is not ok for fetch_favicon.
End(status, body, moved) ==
  IF poll.want = "feed"
  THEN [poll EXCEPT !.pc = "persist", !.status = status, !.body = body, !.moved = moved]
  ELSE [poll EXCEPT !.pc = "icon", !.status = status]

\* guard_url: every hop's host is resolved and validated before it is requested.
Guard ==
  /\ Walking /\ poll.pc = "guard"
  /\ poll' = IF poll.at \in private THEN End("error", None, None)
             ELSE [poll EXCEPT !.pc = "connect"]
  /\ UNCHANGED <<site, private, feed, stored, changes, faults>>

\* _GuardedBackend resolves again, validates, and dials what it has validated.
DialableMutant(u) == TRUE
Dialable(u) == u \notin private

Connect ==
  /\ Walking /\ poll.pc = "connect"
  /\ poll' = IF Dialable(poll.at) THEN [poll EXCEPT !.pc = "request"] ELSE End("error", None, None)
  /\ UNCHANGED <<site, private, feed, stored, changes, faults>>

\* Conditional headers are sent with the first request of a poll.
Unmodified(version) == poll.want = "feed" /\ poll.hop = 0 /\ poll.etag = version

\* A redirect to follow, while the limit allows one more request.
Followed(a) ==
  IF poll.hop = MaxRedirects THEN End("error", None, None)
  ELSE [poll EXCEPT !.pc = "guard", !.at = a.to, !.hop = @ + 1, !.redirected = TRUE,
                    !.permanent = @ /\ a.permanent]

\* permanent_url of _classify_final: every hop was permanent and the end answers 2xx or 304.
MovedToMutant == IF poll.redirected THEN poll.at ELSE None
MovedTo == IF poll.redirected /\ poll.permanent THEN poll.at ELSE None

Respond ==
  /\ Walking /\ poll.pc = "request"
  /\ LET a == site[poll.at] IN
     poll' = CASE a.kind = "redirect" -> Followed(a)
               [] a.kind = "doc" /\ Unmodified(a.version) -> End("not_modified", None, MovedTo)
               [] a.kind = "doc" /\ ~Unmodified(a.version) -> End("new_body", a.version, MovedTo)
               [] a.kind = "page" -> End("new_body", "page", MovedTo)
               [] OTHER -> End("error", None, None)
  /\ UNCHANGED <<site, private, feed, stored, changes, faults>>

\* The total timeout, a body over the size cap, a connection that breaks.
Timeout ==
  /\ Walking /\ faults < MaxFaults /\ faults' = faults + 1
  /\ poll' = [End("error", None, None) EXCEPT !.steady = FALSE]
  /\ UNCHANGED <<site, private, feed, stored, changes>>

-----------------------------------------------------------------------------
(* _persist and _apply_new_body *)

\* What record_success and record_error leave of etag: an error keeps the old one.
EtagAfter == IF poll.body \in Versions THEN poll.body ELSE feed.etag

\* update_feed_url refuses a URL that is another feed's, and the poll is then an error; a
\* page that is no feed is one too, but the feed has been repointed to it by then.
Persist ==
  /\ poll # None /\ poll.pc = "persist"
  /\ \E conflict \in {poll.moved \in Taken} :
       LET row == [url |-> IF poll.moved \in {None, poll.url} THEN feed.url ELSE poll.moved,
                   etag |-> EtagAfter, icon |-> feed.icon]
       IN  poll' = CASE conflict -> [poll EXCEPT !.row = feed, !.body = None, !.pc = "commit"]
                     [] ~conflict /\ poll.body \in Versions /\ ~feed.icon ->
                          [poll EXCEPT !.row = row, !.pc = "icon", !.status = None]
                     [] OTHER -> [poll EXCEPT !.row = row, !.pc = "commit"]
  /\ UNCHANGED <<site, private, feed, stored, changes, faults>>

WalkFor(want, u) ==
  [poll EXCEPT !.want = want, !.pc = "guard", !.at = u, !.hop = 0, !.redirected = FALSE]

\* Nothing to try, not an image, or an error that the savepoint undoes: the poll goes on.
WithoutIconMutant == None
WithoutIcon == [poll EXCEPT !.pc = "commit"]

\* get_or_create and set_feed_icon, in a savepoint of the poll's transaction.
WithIcon == [poll EXCEPT !.row.icon = TRUE, !.pc = "commit"]

\* fetch_favicon: the feed's own artwork if it names one, else what the site's page links
\* to, or else /favicon.ico.
Icon ==
  /\ poll # None /\ poll.pc = "icon"
  /\ LET fetched == poll.status = "new_body" IN
     \/ /\ poll.want = "feed"
        /\ \E u \in Urls : poll' = WalkFor("artwork", u) \/ poll' = WalkFor("page", u)
     \/ /\ poll.want = "artwork"   \* not fetched, or not an image
        /\ \E u \in Urls : poll' = WalkFor("page", u)
     \/ /\ poll.want = "page"
        /\ \E u \in Urls : poll' = WalkFor("image", u)
     \/ /\ poll.want \in {"artwork", "image"} /\ fetched
        /\ poll' = WithIcon
     \/ poll' = WithoutIcon
  /\ UNCHANGED <<site, private, feed, stored, changes, faults>>

Commit ==
  /\ poll # None /\ poll.pc = "commit"
  /\ feed' = poll.row
  /\ stored' = stored \cup ({poll.body} \cap Versions)
  /\ poll' = None
  /\ UNCHANGED <<site, private, changes, faults>>

\* The transaction fails: the lease brings the feed back.
FailMutant ==
  /\ poll # None /\ poll.row # None /\ faults < MaxFaults
  /\ feed' = poll.row
  /\ faults' = faults + 1 /\ poll' = None
  /\ UNCHANGED <<site, private, stored, changes>>
Fail ==
  /\ poll # None /\ ~(Walking /\ poll.want = "feed") /\ faults < MaxFaults
  /\ faults' = faults + 1 /\ poll' = None
  /\ UNCHANGED <<site, private, feed, stored, changes>>

-----------------------------------------------------------------------------
(* The web *)

Change ==
  /\ changes < MaxChanges /\ changes' = changes + 1
  /\ poll' = IF poll = None THEN None ELSE [poll EXCEPT !.steady = FALSE]
  /\ \/ /\ \E u \in Urls : \E a \in Answers[u] \ {site[u]} : site' = [site EXCEPT ![u] = a]
        /\ UNCHANGED private
     \/ /\ \E u \in Urls : private' = IF u \in private THEN private \ {u} ELSE private \cup {u}
        /\ UNCHANGED site
  /\ UNCHANGED <<feed, stored, faults>>

Work == StartPoll \/ Guard \/ Connect \/ Respond \/ Persist \/ Icon \/ Commit
Next == Work \/ Timeout \/ Fail \/ Change

Spec == Init /\ [][Next]_vars

\* The feed is polled again and again, and a poll goes on until it ends.
FairSpec == Spec /\ WF_vars(Work)

-----------------------------------------------------------------------------
(* Properties *)

\* Each variable keeps its type.
TypeOK ==
  /\ site \in [Urls -> UNION {Answers[u] : u \in Urls}] /\ \A u \in Urls : site[u] \in Answers[u]
  /\ private \subseteq Urls /\ feed \in Feeds /\ stored \subseteq Versions
  /\ poll \in Polls \cup {None}
  /\ changes \in 0 .. MaxChanges /\ faults \in 0 .. MaxFaults

\* Where redirects lead from a URL within n of them: the last URL and whether all of the
\* redirects were permanent, or no end.
Follow[n \in 0 .. MaxRedirects] ==
  [u \in Urls |->
    CASE u \in private -> [end |-> None, permanent |-> FALSE]
      [] u \notin private /\ site[u].kind # "redirect" -> [end |-> u, permanent |-> TRUE]
      [] u \notin private /\ site[u].kind = "redirect" /\ n = 0 -> [end |-> None, permanent |-> FALSE]
      [] OTHER -> [Follow[n - 1][site[u].to] EXCEPT !.permanent = @ /\ site[u].permanent]]

\* The document the feed's URL leads to, None if it leads to none or the move there is refused.
Served ==
  LET f == Follow[MaxRedirects][feed.url] IN
  IF \/ f.end = None \/ site[f.end].kind # "doc"
     \/ f.end # feed.url /\ f.permanent /\ f.end \in Taken
  THEN None ELSE site[f.end].version

\* In a web that holds still the walk ends where the redirects lead, and reports a permanent
\* move exactly when every one of them is permanent and the end serves something.
FollowsTheWeb ==
  poll # None /\ poll.pc = "persist" /\ poll.steady =>
    LET f == Follow[MaxRedirects][poll.url]
        serves == f.end # None /\ site[f.end].kind \in {"doc", "page"}
    IN  /\ poll.status = "error" <=> ~serves
        /\ poll.moved = IF serves /\ f.end # poll.url /\ f.permanent THEN f.end ELSE None

\* The ETag a feed keeps is of a document whose entries it has: a server's 304 never hides
\* one that was fetched and lost, whatever failed after the fetch.
EtagIsStored == TypeOK /\ feed.etag \in stored \cup {None}

\* No connection is opened to a disallowed address, although names resolve anew between
\* the guard and the connection.
DialsAllowed ==
  [][Walking /\ poll.pc = "connect" /\ poll' # None /\ poll'.pc = "request"
       => poll.at \notin private]_vars

\* What a feed's URL leads to is fetched and stored in the end: through moves, outages,
\* timeouts and favicons that cannot be had.
DocumentArrives == \A v \in Versions : []<>(Served # v \/ v \in stored)

\* "A 301 to a login page ... and repointing to it loses the original URL for good", says
\* _classify_final: a feed is only repointed to a URL that serves a feed.  The code breaks
\* it when the login page comes with a 200.
RepointedToFeed == [][feed'.url # feed.url => poll.body \in Versions]_vars
=============================================================================
