----------------------------- MODULE FeedCatalog -----------------------------
(***************************************************************************)
(* What the shared feed catalog promises its users, as if every request,    *)
(* poll and sweep took effect at once: a subscription disappears only when  *)
(* its own user unsubscribes or leaves, a feed only while nobody is         *)
(* subscribed to it, and two feeds never share a URL.                       *)
(***************************************************************************)
CONSTANT Users

VARIABLES members,  \* the users with an account
          feeds,    \* the feeds there are: pairs of an id and a URL
          subs      \* the subscriptions: pairs of a user and a feed id

vars == <<members, feeds, subs>>

Init == members = Users /\ feeds = {} /\ subs = {}

Ids(F) == {x[1] : x \in F}
Distinct(F) == \A x, y \in F : x = y \/ (x[1] # y[1] /\ x[2] # y[2])
Subscribed(f, S) == \E s \in S : s[2] = f

\* u gains subscriptions; the feeds nobody had asked for before appear with them.
Subscribe(u) ==
  /\ u \in members
  /\ feeds \subseteq feeds' /\ Distinct(feeds')
  /\ subs \subseteq subs'
  /\ \A s \in subs' \ subs : s[1] = u /\ s[2] \in Ids(feeds')
  /\ UNCHANGED members

\* u leaves f; the feed goes with its last subscriber, or stays for the sweep.
Unsubscribe(u, f) ==
  /\ subs' = subs \ {<<u, f>>}
  /\ \/ UNCHANGED feeds
     \/ ~Subscribed(f, subs') /\ feeds' = {x \in feeds : x[1] # f}
  /\ UNCHANGED members

DeleteAccount(u) ==
  /\ members' = members \ {u}
  /\ subs' = {s \in subs : s[1] # u}
  /\ UNCHANGED feeds

\* The orphan GC removes feeds without subscribers.
Collect ==
  /\ feeds' \subseteq feeds
  /\ \A x \in feeds \ feeds' : ~Subscribed(x[1], subs)
  /\ UNCHANGED <<members, subs>>

\* A permanent redirect moves f to a URL no other feed has.
Repoint(f) ==
  /\ f \in Ids(feeds') /\ Ids(feeds') = Ids(feeds) /\ Distinct(feeds')
  /\ {x \in feeds' : x[1] # f} = {x \in feeds : x[1] # f}
  /\ UNCHANGED <<members, subs>>

Next ==
  \/ \E u \in members : Subscribe(u) \/ DeleteAccount(u)
  \/ \E u \in Users, f \in Ids(feeds) : Unsubscribe(u, f)
  \/ \E f \in Ids(feeds) : Repoint(f)
  \/ Collect

Spec == Init /\ [][Next]_vars
=============================================================================
