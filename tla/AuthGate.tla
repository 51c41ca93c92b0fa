------------------------------- MODULE AuthGate -------------------------------
(***************************************************************************)
(* Requests with Clerk session tokens against the key cache of one replica: *)
(* JwksCache refetches the issuer's keys when they are old or do not have   *)
(* the token's key id, one fetch at a time, while the issuer rotates its    *)
(* keys and goes down and up again.                                         *)
(*                                                                          *)
(* A request is a coroutine: between two awaits nothing else runs, and only *)
(* a fetch takes time, so the clock waits for whatever else can run.        *)
(***************************************************************************)
EXTENDS Integers

CONSTANTS Requests,
          Kids,             \* key ids the issuer may ever publish
          Bogus,            \* a key id it never does
          Ttl,              \* JWKS_TTL_S
          MissRefresh,      \* JWKS_MISS_REFRESH_S
          FailureCooldown,  \* JWKS_FAILURE_COOLDOWN_S
          FetchTime,        \* the client's timeout
          None

VARIABLES keys,         \* _keys
          fetchedAge,   \* since _fetched_at, counted up to Ttl; None before the first success
          failedAge,    \* since _failed_at, counted up to FailureCooldown, or None
          lock,         \* the request that is fetching, or None
          fetchAge,     \* how long it has been
          req,          \* request -> where it is, or None
          issuer,       \* the keys it publishes
          up,           \* it answers with a usable document
          age           \* how long ago each key was published or retired, up to Ttl

vars == <<keys, fetchedAge, failedAge, lock, fetchAge, req, issuer, up, age>>
cache == <<keys, fetchedAge, failedAge, lock, fetchAge>>
world == <<issuer, up, age>>

Answers == {"200", "401", "429", "503"}
Reqs == [kid : Kids \cup {Bogus}, pc : {"waiting", "fetching", "answered"},
         minAge : {MissRefresh, Ttl}, held : Nat, answer : Answers \cup {None}]

ASSUME AuthGateAssumption ==
  /\ {FailureCooldown, MissRefresh, FetchTime} \subseteq Nat \ {0}
  /\ Ttl \in Nat /\ MissRefresh <= Ttl
  /\ Bogus \notin Kids /\ None \notin Requests \cup Nat \cup Answers \cup Reqs

Init ==
  /\ keys = {} /\ fetchedAge = None /\ failedAge = None
  /\ lock = None /\ fetchAge = 0
  /\ req = [r \in Requests |-> None]
  /\ up \in BOOLEAN
  /\ \E k \in Kids : issuer = {k}
  /\ age = [k \in Kids |-> Ttl]

At(r, pc) == req[r] # None /\ req[r].pc = pc
Answer(r, a) == req' = [req EXCEPT ![r].pc = "answered", ![r].answer = a]

\* A token whose key is known is good, unless its user is over the rate limit; an unknown
\* key is no identity, and the handler answers 401.
Lookup(r, known) ==
  IF req[r].kid \in known THEN Answer(r, "200") \/ Answer(r, "429") ELSE Answer(r, "401")

Younger(a, bound) == a # None /\ a < bound

-----------------------------------------------------------------------------
(* AuthMiddleware and JwksCache.get_key *)

New(kid, pc, minAge, answer) ==
  [kid |-> kid, pc |-> pc, minAge |-> minAge, held |-> 0, answer |-> answer]

\* How old the cache must be for a miss to fetch.
MissAgeMutant == Ttl
MissAge == MissRefresh

\* The per-IP gate, and then get_key up to its first await.
Arrive(r, kid) ==
  /\ req[r] = None
  /\ \E x \in
       IF ~Younger(fetchedAge, Ttl) THEN {New(kid, "waiting", Ttl, None)}
       ELSE IF kid \in keys THEN {New(kid, "answered", Ttl, a) : a \in {"200", "429"}}
       ELSE IF fetchedAge >= MissRefresh THEN {New(kid, "waiting", MissAge, None)}
       ELSE {New(kid, "answered", Ttl, "401")} :
       req' = [req EXCEPT ![r] = x]
  /\ UNCHANGED <<cache, world>>

Limited(r, kid) ==
  /\ req[r] = None
  /\ req' = [req EXCEPT ![r] = New(kid, "answered", Ttl, "429")]
  /\ UNCHANGED <<cache, world>>

Reply(r) ==
  /\ At(r, "answered")
  /\ req' = [req EXCEPT ![r] = None]
  /\ UNCHANGED <<cache, world>>

-----------------------------------------------------------------------------
(* JwksCache._refresh_once *)

\* Nothing to fall back on is a 503; with keys the outage is no verdict on the token.
FallBackMutant(r) ==
  IF Younger(fetchedAge, Ttl) THEN Lookup(r, keys) ELSE Answer(r, "503")
FallBack(r) == IF keys # {} THEN Lookup(r, keys) ELSE Answer(r, "503")

\* With the lock held: somebody else may have refreshed, or failed to, meanwhile.
FreshMutant(r) == FALSE
Fresh(r) == Younger(fetchedAge, req[r].minAge)
Cooling == Younger(failedAge, FailureCooldown)

Acquire(r) ==
  /\ At(r, "waiting") /\ lock = None
  /\ \/ Fresh(r) /\ Lookup(r, keys) /\ UNCHANGED cache
     \/ ~Fresh(r) /\ Cooling /\ FallBack(r) /\ UNCHANGED cache
     \/ /\ ~Fresh(r) /\ ~Cooling
        /\ lock' = r /\ fetchAge' = 0
        /\ req' = [req EXCEPT ![r].pc = "fetching"]
        /\ UNCHANGED <<keys, fetchedAge, failedAge>>
  /\ UNCHANGED world

\* _refresh replaces the keys; it keeps what it has when the document holds none.
NewKeysMutant == keys \cup issuer
NewKeys == issuer

FetchOk(r) ==
  /\ At(r, "fetching") /\ up
  /\ keys' = NewKeys /\ fetchedAge' = 0 /\ failedAge' = None
  /\ lock' = None /\ fetchAge' = 0
  /\ Lookup(r, NewKeys)
  /\ UNCHANGED world

FetchFails(r) ==
  /\ At(r, "fetching") /\ ~up
  /\ failedAge' = 0
  /\ lock' = None /\ fetchAge' = 0
  /\ FallBack(r)
  /\ UNCHANGED <<keys, fetchedAge, world>>

-----------------------------------------------------------------------------
(* The issuer and the clock *)

Publish(k) ==
  /\ k \notin issuer /\ age[k] = Ttl
  /\ issuer' = issuer \cup {k} /\ age' = [age EXCEPT ![k] = 0]
  /\ UNCHANGED <<cache, req, up>>

Retire(k) ==
  /\ k \in issuer /\ issuer # {k} /\ age[k] = Ttl
  /\ issuer' = issuer \ {k} /\ age' = [age EXCEPT ![k] = 0]
  /\ UNCHANGED <<cache, req, up>>

\* It goes down or comes back; "down" is also a document without a usable key.
Flip ==
  /\ up' = ~up
  /\ UNCHANGED <<cache, req, issuer, age>>

Older(a, bound) == IF Younger(a, bound) THEN a + 1 ELSE a

\* Only a fetch takes time, and no longer than the client's timeout.
Tick ==
  /\ \A r \in Requests : ~At(r, "answered") /\ (At(r, "waiting") => lock # None)
  /\ lock # None => fetchAge < FetchTime
  /\ fetchAge' = IF lock # None THEN fetchAge + 1 ELSE 0
  /\ fetchedAge' = Older(fetchedAge, Ttl) /\ failedAge' = Older(failedAge, FailureCooldown)
  /\ age' = [k \in Kids |-> Older(age[k], Ttl)]
  /\ req' = [r \in Requests |-> IF req[r] = None THEN None ELSE [req[r] EXCEPT !.held = @ + 1]]
  /\ UNCHANGED <<keys, lock, issuer, up>>

Next ==
  \/ \E r \in Requests :
       \/ Acquire(r) \/ FetchOk(r) \/ FetchFails(r) \/ Reply(r)
       \/ \E kid \in Kids \cup {Bogus} : Arrive(r, kid) \/ Limited(r, kid)
  \/ \E k \in Kids : Publish(k) \/ Retire(k)
  \/ Flip \/ Tick

Spec == Init /\ [][Next]_vars

-----------------------------------------------------------------------------
(* Properties *)

\* Each variable keeps its type, and the lock is held by the request that fetches.
TypeOK ==
  /\ keys \subseteq Kids /\ issuer \subseteq Kids /\ up \in BOOLEAN
  /\ fetchedAge \in 0 .. Ttl \cup {None} /\ failedAge \in 0 .. FailureCooldown \cup {None}
  /\ fetchAge \in 0 .. FetchTime /\ age \in [Kids -> 0 .. Ttl]
  /\ req \in [Requests -> Reqs \cup {None}]
  /\ {r \in Requests : At(r, "fetching")} = {lock} \ {None}

\* A request is held for one fetch at most, its own or the one it waited for: an outage
\* with many requests does not make them fetch and fail one after the other.
PromptAnswer == TypeOK /\ \A r \in Requests : req[r] # None => req[r].held <= FetchTime

Answered(r, a) == At(r, "answered") /\ req[r].answer = a

\* A token signed with a key the issuer publishes is refused only in the first minute of
\* that key, or while fetches fail.
NewKeyLearned ==
  \A r \in Requests : Answered(r, "401") /\ req[r].kid \in issuer =>
    age[req[r].kid] < MissRefresh \/ Younger(failedAge, FailureCooldown)

\* A key the issuer has withdrawn is good for at most the TTL, or while fetches fail.
OldKeyForgotten ==
  \A r \in Requests : Answered(r, "200") /\ req[r].kid \notin issuer =>
    age[req[r].kid] < Ttl \/ Younger(failedAge, FailureCooldown)

\* An instance that has once fetched keys answers no request with 503, however long the
\* issuer is down: what it holds still verifies what it signed.
WarmNeverUnavailable ==
  [][keys # {} => /\ keys' # {}
                  /\ \A r \in Requests : Answered(r, "503")' => Answered(r, "503")]_vars
=============================================================================
