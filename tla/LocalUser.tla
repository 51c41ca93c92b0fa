------------------------------ MODULE LocalUser ------------------------------
(***************************************************************************)
(* AUTH_MODE=none: every request is the one local user, whom the first      *)
(* requests create, and each replica remembers the user's id.  The request  *)
(* may then create an API token, which a cap limits, and a later one may    *)
(* authenticate with it.                                                    *)
(***************************************************************************)
EXTENDS Integers, FiniteSets, FiniteSetsExt

CONSTANTS Requests,
          Replicas,
          TokenCap,   \* quota_api_tokens
          MaxId,      \* bound: users.id values the sequence hands out
          None

VARIABLES users,      \* ids of the committed rows with no clerk_user_id
          lastId,     \* the last id the sequence gave out
          cached,     \* replica -> NoneProvider._user_id, or None
          advisory,   \* who holds the provisioning advisory lock, or None
          userLock,   \* who holds the user's row FOR UPDATE, or None
          tokens,     \* committed API tokens
          req,        \* request -> where it is, or None
          answered    \* ids requests were authenticated as (for AnsweredExists)

localVars == <<users, lastId, cached, advisory, userLock, tokens, req, answered>>

Reqs == [replica : Replicas,
         pc : {"token", "get", "select", "advisory", "reselect", "commit", "authed",
               "count", "commitToken"},
         id : 1 .. MaxId \cup {None}, new : BOOLEAN]

\* Identity assumes it.
LocalConstants ==
  /\ TokenCap \in Nat /\ MaxId \in Nat \ {0}
  /\ None \notin Requests \cup Nat \cup Reqs

Init ==
  /\ users = {} /\ lastId = 0 /\ tokens = 0 /\ answered = {}
  /\ cached = [r \in Replicas |-> None]
  /\ advisory = None /\ userLock = None
  /\ req = [p \in Requests |-> None]

At(p, pc) == req[p] # None /\ req[p].pc = pc
Goto(p, pc) == req' = [req EXCEPT ![p].pc = pc]

\* Ending a transaction releases its locks.
Released(lock, p) == IF lock = p THEN None ELSE lock
Release(p) == advisory' = Released(advisory, p) /\ userLock' = Released(userLock, p)

-----------------------------------------------------------------------------
(* PatProvider.authenticate and NoneProvider.authenticate *)

\* The provider a chain without a usable token comes to: its cached id decides what it asks.
Local(r) == IF cached[r] = None THEN "select" ELSE "get"

Arrive(p, r, pc) ==
  /\ req[p] = None
  /\ req' = [req EXCEPT ![p] = [replica |-> r, pc |-> pc, id |-> None, new |-> FALSE]]
  /\ UNCHANGED <<users, lastId, cached, advisory, userLock, tokens, answered>>

\* ChainProvider asks PatProvider first, which has nothing to say without a bearer token.
AuthenticateToken(p, r) == Arrive(p, r, "token")
Authenticate(p, r) == Arrive(p, r, Local(r))

\* PatProvider.authenticate: the token is a committed one and the request its user's, or it
\* is not and the chain goes on.  last_used_at is written in the same transaction, and a
\* token deleted meanwhile makes that fail.
FindToken(p) ==
  /\ At(p, "token")
  /\ \/ /\ tokens > 0
        /\ req' = [req EXCEPT ![p].pc = "commit", ![p].id = Min(users)]
     \/ Goto(p, Local(req[p].replica))
  /\ UNCHANGED <<users, lastId, cached, advisory, userLock, tokens, answered>>

\* The user row is found with id: the replica remembers it before the transaction commits.
Resolve(p, id, new) ==
  /\ req' = [req EXCEPT ![p].pc = "commit", ![p].id = id, ![p].new = new]
  /\ cached' = [cached EXCEPT ![req[p].replica] = id]

\* The remembered row may not be there: it was rolled back, or is not committed yet.
GetCachedMutant(p) ==
  LET id == cached[req[p].replica] IN
  /\ At(p, "get")
  /\ IF id # None THEN Resolve(p, id, FALSE)
     ELSE cached' = [cached EXCEPT ![req[p].replica] = None] /\ Goto(p, "select")
  /\ UNCHANGED <<users, lastId, advisory, userLock, tokens, answered>>
GetCached(p) ==
  LET id == cached[req[p].replica] IN
  /\ At(p, "get")
  /\ IF id \in users THEN Resolve(p, id, FALSE)
     ELSE cached' = [cached EXCEPT ![req[p].replica] = None] /\ Goto(p, "select")
  /\ UNCHANGED <<users, lastId, advisory, userLock, tokens, answered>>

Select(p) ==
  /\ At(p, "select")
  /\ IF users # {} THEN Resolve(p, Min(users), FALSE) ELSE Goto(p, "advisory") /\ UNCHANGED cached
  /\ UNCHANGED <<users, lastId, advisory, userLock, tokens, answered>>

LockProvisioning(p) ==
  /\ At(p, "advisory") /\ advisory = None
  /\ advisory' = p
  /\ Goto(p, "reselect")
  /\ UNCHANGED <<users, lastId, cached, userLock, tokens, answered>>

\* The second select, and the INSERT when it finds nothing either.
ReselectMutant(p) ==
  /\ At(p, "reselect")
  /\ lastId < MaxId /\ lastId' = lastId + 1 /\ Resolve(p, lastId + 1, TRUE)
  /\ UNCHANGED <<users, advisory, userLock, tokens, answered>>
Reselect(p) ==
  /\ At(p, "reselect")
  /\ \/ users # {} /\ Resolve(p, Min(users), FALSE) /\ UNCHANGED lastId
     \/ /\ users = {} /\ lastId < MaxId
        /\ lastId' = lastId + 1
        /\ Resolve(p, lastId + 1, TRUE)
  /\ UNCHANGED <<users, advisory, userLock, tokens, answered>>

Commit(p) ==
  /\ At(p, "commit")
  /\ users' = IF req[p].new THEN users \cup {req[p].id} ELSE users
  /\ answered' = answered \cup {req[p].id}
  /\ Release(p) /\ Goto(p, "authed")
  /\ UNCHANGED <<lastId, cached, tokens>>

-----------------------------------------------------------------------------
(* The handler: anything else, create_token, or delete_token *)

Finish(p) ==
  /\ At(p, "authed")
  /\ req' = [req EXCEPT ![p] = None]
  /\ UNCHANGED <<users, lastId, cached, advisory, userLock, tokens, answered>>

\* lock_for_create
LockUserMutant(p) ==
  /\ At(p, "authed")
  /\ Goto(p, "count") /\ userLock' = p
  /\ UNCHANGED <<users, lastId, cached, advisory, tokens, answered>>
LockUser(p) ==
  /\ At(p, "authed") /\ userLock = None
  /\ Goto(p, "count") /\ userLock' = p
  /\ UNCHANGED <<users, lastId, cached, advisory, tokens, answered>>

\* count_for_user: at the cap the request ends with a 422.
Count(p) ==
  /\ At(p, "count")
  /\ IF tokens < TokenCap THEN Goto(p, "commitToken") /\ UNCHANGED <<advisory, userLock>>
     ELSE Release(p) /\ req' = [req EXCEPT ![p] = None]
  /\ UNCHANGED <<users, lastId, cached, tokens, answered>>

CommitToken(p) ==
  /\ At(p, "commitToken")
  /\ tokens' = tokens + 1
  /\ Release(p) /\ req' = [req EXCEPT ![p] = None]
  /\ UNCHANGED <<users, lastId, cached, answered>>

DeleteToken(p) ==
  /\ At(p, "authed") /\ tokens > 0
  /\ tokens' = tokens - 1
  /\ req' = [req EXCEPT ![p] = None]
  /\ UNCHANGED <<users, lastId, cached, advisory, userLock, answered>>

\* The request fails: its transaction rolls back, what the replica remembers stays.
Fail(p) ==
  /\ req[p] # None
  /\ Release(p) /\ req' = [req EXCEPT ![p] = None]
  /\ UNCHANGED <<users, lastId, cached, tokens, answered>>

Next ==
  \E p \in Requests :
    \/ GetCached(p) \/ Select(p) \/ LockProvisioning(p) \/ Reselect(p) \/ Commit(p)
    \/ LockUser(p) \/ Count(p) \/ CommitToken(p) \/ DeleteToken(p) \/ Finish(p) \/ Fail(p)
    \/ FindToken(p)
    \/ \E r \in Replicas : Authenticate(p, r) \/ AuthenticateToken(p, r)

-----------------------------------------------------------------------------
(* Properties *)

\* Each variable keeps its type, and a lock is held by a running request.
TypeOK ==
  /\ users \subseteq 1 .. MaxId /\ lastId \in 0 .. MaxId /\ answered \subseteq 1 .. MaxId
  /\ cached \in [Replicas -> 1 .. MaxId \cup {None}]
  /\ tokens \in Nat
  /\ {advisory, userLock} \subseteq {p \in Requests : req[p] # None} \cup {None}
  /\ req \in [Requests -> Reqs \cup {None}]

\* However many first requests race on however many replicas, one local user is created.
OneLocalUser == Cardinality(users) <= 1

\* A request is only ever authenticated as a user whose row is committed, although replicas
\* remember the id of a row they may have failed to commit.
AnsweredExists == TypeOK /\ answered \subseteq users

\* Concurrent token creations never pass the cap.
TokenQuota == tokens <= TokenCap
=============================================================================
