---------------------------- MODULE AuthGateProofs ----------------------------
(***************************************************************************)
(* The key cache, for any number of requests and keys and any constants     *)
(* with MissRefresh <= Ttl: a request is held for one fetch, new keys are   *)
(* learned, old ones forgotten, and a warm instance never answers 503.      *)
(* The rate limiters, for any number of keys and calls, any rate, burst,    *)
(* window and sweep interval: what they forget changes no answer, and what  *)
(* they allow stays within what was promised.                               *)
(***************************************************************************)
EXTENDS AuthGate, RateLimit, FiniteSetTheorems, TLAPS

-----------------------------------------------------------------------------
(* The inductive invariant *)

\* A fetch begins only when the keys are old and no fetch has failed lately, and neither
\* changes while it runs.
FetchNeeded == lock # None => ~Younger(fetchedAge, MissRefresh) /\ ~Cooling

\* The keys are the issuer's, but for what it changed since they were fetched.
KeysAsFetched ==
  /\ issuer # {}
  /\ fetchedAge # None =>
       \A k \in Kids : age[k] > fetchedAge => (k \in keys <=> k \in issuer)

\* A waiting request has waited no longer than the fetch that runs, or meets the outcome of
\* the one it waited for at the instant that ended.  One that came because the keys were
\* stale finds them stale still, or just fetched.
Waits(r) ==
  req[r] # None =>
    /\ req[r].held <= FetchTime
    /\ req[r].pc # "answered" =>
         IF lock # None THEN req[r].held <= fetchAge
         ELSE req[r].held = 0 \/ fetchedAge = 0 \/ failedAge = 0
    /\ req[r].pc = "waiting" /\ req[r].minAge = Ttl =>
         ~Younger(fetchedAge, Ttl) \/ fetchedAge = 0

\* What a request may be told of its token.
Verdict(r) ==
  /\ Answered(r, "401") /\ req[r].kid \in issuer => age[req[r].kid] < MissRefresh \/ Cooling
  /\ Answered(r, "200") =>
       req[r].kid \in Kids /\ (req[r].kid \notin issuer => age[req[r].kid] < Ttl \/ Cooling)

IInv == TypeOK /\ FetchNeeded /\ KeysAsFetched /\ \A r \in Requests : Waits(r) /\ Verdict(r)

-----------------------------------------------------------------------------
(* Facts about states and requests *)

\* The types of the clock's variables, and the constants'.
LEMMA Shape ==
  ASSUME TypeOK
  PROVE  /\ FailureCooldown \in Nat \ {0} /\ MissRefresh \in Nat \ {0} /\ FetchTime \in Nat \ {0}
         /\ Ttl \in Nat /\ MissRefresh <= Ttl
         /\ None \notin Requests /\ None \notin Nat /\ None \notin Reqs /\ Bogus \notin Kids
         /\ keys \subseteq Kids /\ issuer \subseteq Kids /\ lock \in Requests \cup {None}
         /\ fetchedAge \in 0 .. Ttl \cup {None} /\ failedAge \in 0 .. FailureCooldown \cup {None}
         /\ fetchAge \in 0 .. FetchTime
         /\ \A k \in Kids : age[k] \in 0 .. Ttl
         /\ \A r \in Requests : At(r, "fetching") <=> r = lock
<1>1. /\ FailureCooldown \in Nat \ {0} /\ MissRefresh \in Nat \ {0} /\ FetchTime \in Nat \ {0}
      /\ Ttl \in Nat /\ MissRefresh <= Ttl
      /\ None \notin Requests /\ None \notin Nat /\ None \notin Reqs /\ Bogus \notin Kids
  BY AuthGateAssumption
<1>2. {r \in Requests : At(r, "fetching")} = {lock} \ {None}
  BY DEF TypeOK
<1>3. \A r \in Requests : At(r, "fetching") <=> r = lock
  BY <1>1, <1>2
<1>4. lock \in Requests \cup {None}
  BY <1>2
<1> QED BY <1>1, <1>3, <1>4 DEF TypeOK

\* What a request holds.
LEMMA ReqShape ==
  ASSUME TypeOK, NEW r \in Requests, req[r] # None
  PROVE  /\ req[r] \in Reqs /\ req[r].kid \in Kids \cup {Bogus}
              /\ req[r].minAge \in {MissRefresh, Ttl}
         /\ req[r].held \in Nat
BY DEF TypeOK, Reqs, Answers

\* Answering changes nothing else of the request, nor any other.
LEMMA Answering ==
  ASSUME TypeOK, NEW r \in Requests, req[r] # None,
         NEW a \in {"200", "401", "429", "503"}, Answer(r, a)
  PROVE  /\ req' \in [Requests -> Reqs \cup {None}]
         /\ req'[r] # None /\ req'[r].pc = "answered" /\ req'[r].answer = a
         /\ req'[r].kid = req[r].kid /\ req'[r].held = req[r].held
         /\ \A q \in Requests \ {r} : req'[q] = req[q]
<1>1. req[r] \in Reqs /\ None \notin Reqs /\ req \in [Requests -> Reqs \cup {None}]
  BY ReqShape, Shape DEF TypeOK
<1>2. [req[r] EXCEPT !.pc = "answered", !.answer = a] \in Reqs
  BY <1>1 DEF Reqs, Answers
<1>3. req' = [req EXCEPT ![r] = [req[r] EXCEPT !.pc = "answered", !.answer = a]]
  BY <1>1 DEF Answer
<1> QED BY <1>1, <1>2, <1>3 DEF Reqs, Answers

\* A look at keys that are the issuer's, but for changes in the last bound seconds.
LEMMA LookupVerdict ==
  ASSUME IInv, NEW r \in Requests, At(r, "waiting"), NEW a, a \in {"200", "401", "429"},
         a = "200" => req[r].kid \in keys, a = "401" => req[r].kid \notin keys,
         Younger(fetchedAge, req[r].minAge)
  PROVE  /\ a = "401" /\ req[r].kid \in issuer => age[req[r].kid] < MissRefresh
         /\ a = "200" => /\ req[r].kid \in Kids
                         /\ req[r].kid \notin issuer => age[req[r].kid] < Ttl
<1>1. TypeOK /\ KeysAsFetched /\ Waits(r)
  BY DEF IInv
<1>2. req[r].minAge \in {MissRefresh, Ttl} /\ req[r].kid \in Kids \cup {Bogus}
        /\ fetchedAge # None
      /\ fetchedAge < req[r].minAge /\ (fetchedAge < MissRefresh \/ fetchedAge = 0)
  BY <1>1, ReqShape, Shape DEF At, Waits, Younger
<1>3. \A k \in Kids : (k \in keys <=> k \notin issuer) => age[k] <= fetchedAge
  BY <1>1, <1>2, Shape DEF KeysAsFetched
<1> QED BY <1>1, <1>2, <1>3, Shape

-----------------------------------------------------------------------------
(* The steps *)

\* A new deployment holds no keys.
LEMMA InitInv == Init => IInv
<1> SUFFICES ASSUME Init PROVE IInv
  OBVIOUS
<1>1. TypeOK
  BY AuthGateAssumption DEF Init, TypeOK, At
<1>2. FetchNeeded /\ KeysAsFetched
  BY DEF Init, FetchNeeded, KeysAsFetched
<1>3. \A r \in Requests : Waits(r) /\ Verdict(r)
  BY DEF Init, Waits, Verdict, Answered, At
<1> QED BY <1>1, <1>2, <1>3 DEF IInv

\* Arrivals and replies leave the cache alone.
LEMMA RequestStep ==
  ASSUME IInv, NEW r \in Requests,
         Reply(r) \/ \E kid \in Kids \cup {Bogus} : Arrive(r, kid) \/ Limited(r, kid)
  PROVE  IInv'
<1>1. TypeOK /\ UNCHANGED <<cache, world>>
  BY DEF IInv, Reply, Arrive, Limited
<1>2. CASE Reply(r)
  <2>1. /\ req' \in [Requests -> Reqs \cup {None}] /\ req'[r] = None
        /\ \A q \in Requests \ {r} : req'[q] = req[q]
        /\ ~At(r, "fetching")
    BY <1>1, <1>2 DEF Reply, TypeOK, At
  <2>2. TypeOK'
    BY <1>1, <2>1 DEF TypeOK, cache, world, At
  <2> QED BY <1>1, <2>1, <2>2 DEF IInv, FetchNeeded, KeysAsFetched, Waits, Verdict, Answered, At,
             cache, world, Younger, Cooling
<1>3. ASSUME NEW kid \in Kids \cup {Bogus}, Arrive(r, kid) \/ Limited(r, kid) PROVE IInv'
  <2>1. req[r] = None /\ \E x : /\ req' = [req EXCEPT ![r] = x]
              /\ \/ ~Younger(fetchedAge, Ttl) /\ x = New(kid, "waiting", Ttl, None)
                 \/ Younger(fetchedAge, Ttl) /\ kid \in keys
                      /\ x = New(kid, "answered", Ttl, "200")
                 \/ x = New(kid, "answered", Ttl, "429")
                 \/ Younger(fetchedAge, Ttl) /\ fetchedAge >= MissRefresh
                      /\ x = New(kid, "waiting", MissRefresh, None)
                 \/ Younger(fetchedAge, Ttl) /\ kid \notin keys
                      /\ ~(fetchedAge >= MissRefresh) /\ x = New(kid, "answered", Ttl, "401")
    BY <1>3 DEF Arrive, Limited, MissAge
  <2>2. PICK x : /\ req' = [req EXCEPT ![r] = x]
              /\ \/ ~Younger(fetchedAge, Ttl) /\ x = New(kid, "waiting", Ttl, None)
                 \/ Younger(fetchedAge, Ttl) /\ kid \in keys
                      /\ x = New(kid, "answered", Ttl, "200")
                 \/ x = New(kid, "answered", Ttl, "429")
                 \/ Younger(fetchedAge, Ttl) /\ fetchedAge >= MissRefresh
                      /\ x = New(kid, "waiting", MissRefresh, None)
                 \/ Younger(fetchedAge, Ttl) /\ kid \notin keys
                      /\ ~(fetchedAge >= MissRefresh) /\ x = New(kid, "answered", Ttl, "401")
    BY <2>1
  <2>3. /\ x \in Reqs /\ x.kid = kid /\ x.held = 0 /\ x.pc \in {"waiting", "answered"}
        /\ x.pc = "waiting" /\ x.minAge = Ttl => ~Younger(fetchedAge, Ttl)
        /\ x.pc = "answered" /\ x.answer = "200" => Younger(fetchedAge, Ttl) /\ kid \in keys
        /\ x.pc = "answered" /\ x.answer = "401" => Younger(fetchedAge, MissRefresh)
             /\ kid \notin keys
    BY <1>1, <2>2, Shape DEF New, Reqs, Answers, Younger
  <2>4. /\ req' \in [Requests -> Reqs \cup {None}] /\ req'[r] = x /\ x # None
        /\ \A q \in Requests \ {r} : req'[q] = req[q]
    BY <1>1, <2>2, <2>3, Shape DEF TypeOK
  <2>5. TypeOK'
    BY <1>1, <2>1, <2>3, <2>4 DEF TypeOK, cache, world, At
  <2>6. FetchNeeded' /\ KeysAsFetched'
    BY <1>1 DEF IInv, FetchNeeded, KeysAsFetched, Younger, Cooling, cache, world
  <2>7. Waits(r)'
    BY <1>1, <2>3, <2>4, Shape DEF Waits, Younger, cache
  <2>8. Verdict(r)'
    <3>1. KeysAsFetched
      BY DEF IInv
    <3> QED BY <1>1, <2>3, <2>4, <3>1, Shape
               DEF Verdict, Answered, At, Younger, Cooling, KeysAsFetched, cache, world
  <2>9. ASSUME NEW q \in Requests \ {r} PROVE Waits(q)' /\ Verdict(q)'
    BY <1>1, <2>4 DEF IInv, Waits, Verdict, Answered, At, Younger, Cooling, cache, world
  <2> QED BY <2>5, <2>6, <2>7, <2>8, <2>9 DEF IInv
<1> QED BY <1>2, <1>3

\* A waiter gets the lock: the keys are fresh by now, or a fetch failed just now, or it
\* fetches.
LEMMA AcquireStep ==
  ASSUME IInv, NEW r \in Requests, Acquire(r)
  PROVE  IInv'
<1>1. /\ TypeOK /\ At(r, "waiting") /\ req[r] # None /\ lock = None
      /\ UNCHANGED world /\ UNCHANGED <<keys, fetchedAge, failedAge>>
  BY DEF IInv, Acquire, At, cache
<1>2. ASSUME NEW a \in {"200", "401", "429", "503"}, Answer(r, a), UNCHANGED cache,
             a = "401" /\ req[r].kid \in issuer => age[req[r].kid] < MissRefresh \/ Cooling,
             a = "200" => req[r].kid \in Kids
                          /\ (req[r].kid \notin issuer => age[req[r].kid] < Ttl \/ Cooling)
      PROVE  IInv'
  <2>1. /\ req' \in [Requests -> Reqs \cup {None}]
        /\ req'[r] # None /\ req'[r].pc = "answered" /\ req'[r].answer = a
        /\ req'[r].kid = req[r].kid /\ req'[r].held = req[r].held
        /\ \A q \in Requests \ {r} : req'[q] = req[q]
    BY <1>1, <1>2, Answering
  <2>2. TypeOK'
    BY <1>1, <1>2, <2>1 DEF TypeOK, cache, world, At
  <2>3. FetchNeeded' /\ KeysAsFetched'
    BY <1>1, <1>2 DEF IInv, FetchNeeded, KeysAsFetched, Younger, Cooling, cache, world
  <2>4. Waits(r)' /\ Verdict(r)'
    BY <1>1, <1>2, <2>1 DEF IInv, Waits, Verdict, Answered, At, Cooling, Younger, cache, world
  <2>5. ASSUME NEW q \in Requests \ {r} PROVE Waits(q)' /\ Verdict(q)'
    BY <1>1, <1>2, <2>1 DEF IInv, Waits, Verdict, Answered, At, Younger, Cooling, cache, world
  <2> QED BY <2>2, <2>3, <2>4, <2>5 DEF IInv
<1>3. CASE Fresh(r) /\ Lookup(r, keys) /\ UNCHANGED cache
  BY <1>1, <1>2, <1>3, LookupVerdict DEF Fresh, Lookup
<1>4. CASE Cooling /\ FallBack(r) /\ UNCHANGED cache
  <2>1. req[r].kid \in keys => req[r].kid \in Kids
    BY <1>1, Shape
  <2> QED BY <1>1, <1>2, <1>4, <2>1 DEF FallBack, Lookup
<1>5. CASE /\ ~Fresh(r) /\ ~Cooling /\ lock' = r /\ fetchAge' = 0
           /\ req' = [req EXCEPT ![r].pc = "fetching"]
  <2>1. /\ req' \in [Requests -> Reqs \cup {None}]
        /\ req'[r] # None /\ req'[r].pc = "fetching" /\ req'[r].held = req[r].held
        /\ \A q \in Requests \ {r} : req'[q] = req[q]
    <3>1. req[r] \in Reqs /\ None \notin Reqs /\ req \in [Requests -> Reqs \cup {None}]
      BY <1>1, ReqShape, Shape DEF TypeOK
    <3>2. [req[r] EXCEPT !.pc = "fetching"] \in Reqs
      BY <3>1 DEF Reqs, Answers
    <3> QED BY <1>5, <3>1, <3>2 DEF Reqs, Answers
  <2>2. fetchedAge # 0 /\ failedAge # 0 /\ ~Younger(fetchedAge, MissRefresh)
    BY <1>1, <1>5, ReqShape, Shape DEF Fresh, Cooling, Younger
  <2>3. TypeOK'
    BY <1>1, <1>5, <2>1, Shape DEF TypeOK, world, At
  <2>4. FetchNeeded' /\ KeysAsFetched'
    BY <1>1, <1>5, <2>2 DEF IInv, FetchNeeded, KeysAsFetched, Younger, Cooling, world
  <2>5. ASSUME NEW q \in Requests PROVE Waits(q)'
    <3>1. Waits(q)
      BY DEF IInv
    <3>2. req[q] # None /\ req[q].pc # "answered" => req[q].held = 0
      BY <1>1, <2>2, <3>1 DEF Waits
    <3>3. CASE q = r
      BY <1>1, <1>5, <2>1, <3>1, <3>2, <3>3, Shape DEF Waits, At
    <3>4. CASE q # r
      BY <1>1, <1>5, <2>1, <3>1, <3>2, <3>4, Shape DEF Waits
    <3> QED BY <3>3, <3>4
  <2>6. ASSUME NEW q \in Requests PROVE Verdict(q)'
    <3>1. Verdict(q)
      BY DEF IInv
    <3> QED BY <1>1, <1>5, <2>1, <3>1 DEF Verdict, Answered, At, Younger, Cooling, world
  <2> QED BY <2>3, <2>4, <2>5, <2>6 DEF IInv
<1> QED BY <1>1, <1>3, <1>4, <1>5 DEF Acquire

\* A fetch that worked: the keys are the issuer's.
LEMMA FetchOkStep ==
  ASSUME IInv, NEW r \in Requests, FetchOk(r)
  PROVE  IInv'
<1>1. /\ TypeOK /\ KeysAsFetched /\ At(r, "fetching") /\ req[r] # None /\ lock = r
      /\ keys' = issuer /\ fetchedAge' = 0 /\ failedAge' = None
      /\ lock' = None /\ fetchAge' = 0 /\ UNCHANGED world /\ Lookup(r, issuer)
  BY Shape DEF IInv, FetchOk, At, NewKeys
<1>2. PICK a \in {"200", "401", "429"} :
        /\ Answer(r, a)
        /\ a = "200" => req[r].kid \in issuer
        /\ a = "401" => req[r].kid \notin issuer
  BY <1>1 DEF Lookup
<1>3. /\ req' \in [Requests -> Reqs \cup {None}]
      /\ req'[r] # None /\ req'[r].pc = "answered" /\ req'[r].answer = a
      /\ req'[r].kid = req[r].kid /\ req'[r].held = req[r].held
      /\ \A q \in Requests \ {r} : req'[q] = req[q]
  BY <1>1, <1>2, Answering
<1>4. \A q \in Requests \ {r} : ~At(q, "fetching")
  BY <1>1, Shape
<1>5. TypeOK'
  BY <1>1, <1>3, <1>4, Shape DEF TypeOK, world, At
<1>6. FetchNeeded' /\ KeysAsFetched'
  BY <1>1, Shape DEF FetchNeeded, KeysAsFetched, world
<1>7. Waits(r)' /\ Verdict(r)'
  BY <1>1, <1>2, <1>3, Shape DEF IInv, Waits, Verdict, Answered, At, world
<1>8. ASSUME NEW q \in Requests \ {r} PROVE Waits(q)' /\ Verdict(q)'
  <2>1. Waits(q) /\ Verdict(q) /\ ~Cooling
    BY <1>1, Shape DEF IInv, FetchNeeded
  <2> QED BY <1>1, <1>3, <2>1 DEF Waits, Verdict, Answered, At, world
<1> QED BY <1>5, <1>6, <1>7, <1>8 DEF IInv

\* A fetch that failed starts the cooldown, in which every waiter is answered from what
\* there is.
LEMMA FetchFailsStep ==
  ASSUME IInv, NEW r \in Requests, FetchFails(r)
  PROVE  IInv'
<1>1. /\ TypeOK /\ KeysAsFetched /\ At(r, "fetching") /\ req[r] # None /\ lock = r
      /\ failedAge' = 0 /\ lock' = None /\ fetchAge' = 0
      /\ UNCHANGED <<keys, fetchedAge, world>> /\ FallBack(r)
  BY Shape DEF IInv, FetchFails, At
<1>2. PICK a \in {"200", "401", "429", "503"} :
        Answer(r, a) /\ (a = "200" => req[r].kid \in keys)
  BY <1>1 DEF FallBack, Lookup
<1>3. /\ req' \in [Requests -> Reqs \cup {None}]
      /\ req'[r] # None /\ req'[r].pc = "answered" /\ req'[r].answer = a
      /\ req'[r].kid = req[r].kid /\ req'[r].held = req[r].held
      /\ \A q \in Requests \ {r} : req'[q] = req[q]
  BY <1>1, <1>2, Answering
<1>4. \A q \in Requests \ {r} : ~At(q, "fetching")
  BY <1>1, Shape
<1>5. TypeOK'
  BY <1>1, <1>3, <1>4, Shape DEF TypeOK, world, At
<1>6. FetchNeeded' /\ KeysAsFetched' /\ Cooling'
  BY <1>1, Shape DEF FetchNeeded, KeysAsFetched, world, Cooling, Younger
<1>7. Waits(r)' /\ Verdict(r)'
  BY <1>1, <1>2, <1>3, <1>6, Shape DEF IInv, Waits, Verdict, Answered, At
<1>8. ASSUME NEW q \in Requests \ {r} PROVE Waits(q)' /\ Verdict(q)'
  <2>1. Waits(q) /\ Verdict(q)
    BY DEF IInv
  <2> QED BY <1>1, <1>3, <1>6, <2>1 DEF Waits, Verdict, Answered, At, Younger
<1> QED BY <1>5, <1>6, <1>7, <1>8 DEF IInv

\* The issuer publishes or retires a key, which is young now, or goes down or up.
LEMMA IssuerStep ==
  ASSUME IInv, (\E k \in Kids : Publish(k) \/ Retire(k)) \/ Flip
  PROVE  IInv'
<1>1. TypeOK /\ UNCHANGED <<keys, fetchedAge, failedAge, lock, fetchAge, req>>
  BY DEF IInv, Publish, Retire, Flip, cache
<1>2. ASSUME NEW k \in Kids, Publish(k) \/ Retire(k) PROVE IInv'
  <2>1. /\ issuer' \subseteq Kids /\ issuer' # {} /\ up' = up
        /\ age' \in [Kids -> 0 .. Ttl] /\ age'[k] = 0
        /\ \A j \in Kids \ {k} : age'[j] = age[j] /\ (j \in issuer' <=> j \in issuer)
    BY <1>1, <1>2, Shape DEF Publish, Retire, TypeOK
  <2>2. TypeOK'
    BY <1>1, <2>1 DEF TypeOK, At
  <2>3. FetchNeeded' /\ KeysAsFetched'
    BY <1>1, <2>1, Shape DEF IInv, FetchNeeded, KeysAsFetched, Younger, Cooling
  <2>4. ASSUME NEW q \in Requests PROVE Waits(q)' /\ Verdict(q)'
    <3>1. Waits(q)'
      BY <1>1 DEF IInv, Waits, Younger
    <3>2. Verdict(q)'
      <4>1. req' = req /\ failedAge' = failedAge /\ Verdict(q)
        BY <1>1 DEF IInv
      <4>3. CASE req[q].kid = k
        <5>1. age'[req'[q].kid] = 0 /\ req'[q].kid \in Kids
          BY <2>1, <4>1, <4>3
        <5>2. 0 < MissRefresh /\ 0 < Ttl
          BY <1>1, Shape
        <5> QED BY <5>1, <5>2 DEF Verdict
      <4>4. CASE req[q].kid \in Kids \ {k}
        BY <2>1, <4>1, <4>4 DEF Verdict, Answered, At, Younger, Cooling
      <4>5. CASE req[q].kid \notin Kids
        BY <2>1, <4>1, <4>5 DEF Verdict, Answered, At
      <4> QED BY <4>3, <4>4, <4>5
    <3> QED BY <3>1, <3>2
  <2> QED BY <2>2, <2>3, <2>4 DEF IInv
<1>3. CASE Flip
  BY <1>1, <1>3 DEF Flip, IInv, TypeOK, FetchNeeded, KeysAsFetched, Waits, Verdict, Answered, At,
     Younger, Cooling
<1> QED BY <1>2, <1>3

\* A second passes: only for those that fetch or wait for the fetch.
LEMMA TickStep ==
  ASSUME IInv, Tick
  PROVE  IInv'
<1>1. /\ TypeOK /\ UNCHANGED <<keys, lock, issuer, up>>
      /\ fetchedAge' = Older(fetchedAge, Ttl) /\ failedAge' = Older(failedAge, FailureCooldown)
      /\ lock = None => \A r \in Requests : req[r] = None
      /\ lock # None => fetchAge < FetchTime /\ fetchAge' = fetchAge + 1
      /\ lock = None => fetchAge' = 0
      /\ \A r \in Requests : ~At(r, "answered")
  <2>1. TypeOK /\ \A r \in Requests : ~At(r, "answered") /\ (At(r, "waiting") => lock # None)
    BY DEF IInv, Tick
  <2>2. lock = None => \A r \in Requests : req[r] = None
    BY <2>1, Shape, ReqShape DEF At, Reqs, Answers
  <2> QED BY <2>1, <2>2 DEF Tick
<1>2. /\ req' \in [Requests -> Reqs \cup {None}]
      /\ \A r \in Requests : IF req[r] = None THEN req'[r] = None
           ELSE /\ req'[r] # None /\ req'[r].held = req[r].held + 1
                /\ req'[r].pc = req[r].pc /\ req'[r].minAge = req[r].minAge
  <2>1. \A r \in Requests : req[r] # None => [req[r] EXCEPT !.held = @ + 1] \in Reqs
    BY <1>1, ReqShape DEF Reqs, Answers
  <2>2. req' = [r \in Requests |-> IF req[r] = None THEN None ELSE [req[r] EXCEPT !.held = @ + 1]]
    BY DEF Tick
  <2>3. req' \in [Requests -> Reqs \cup {None}]
    BY <2>1, <2>2
  <2>4. ASSUME NEW r \in Requests, req[r] # None
        PROVE  /\ req'[r] # None /\ req'[r].held = req[r].held + 1
               /\ req'[r].pc = req[r].pc /\ req'[r].minAge = req[r].minAge
    <3>1. req[r] \in Reqs /\ req'[r] = [req[r] EXCEPT !.held = @ + 1]
      BY <1>1, <2>2, <2>4, ReqShape
    <3> QED BY <2>1, <2>4, <3>1, <1>1, Shape DEF Reqs, Answers
  <2> QED BY <2>2, <2>3, <2>4
<1>3. /\ fetchedAge' \in 0 .. Ttl \cup {None} /\ failedAge' \in 0 .. FailureCooldown \cup {None}
      /\ fetchAge' \in 0 .. FetchTime
      /\ age' \in [Kids -> 0 .. Ttl] /\ \A k \in Kids : age'[k] = Older(age[k], Ttl)
  BY <1>1, Shape DEF Tick, Older, Younger
<1>4. TypeOK'
  BY <1>1, <1>2, <1>3 DEF TypeOK, At
<1>5. FetchNeeded' /\ KeysAsFetched'
  BY <1>1, <1>3, Shape DEF IInv, FetchNeeded, KeysAsFetched, Cooling, Younger, Older
<1>6. ASSUME NEW r \in Requests PROVE Waits(r)' /\ Verdict(r)'
  <2>1. CASE req[r] = None
    BY <1>2, <2>1 DEF Waits, Verdict, Answered, At
  <2>2. CASE req[r] # None
    <3>1. /\ Waits(r) /\ lock # None /\ req[r].pc # "answered" /\ req[r].held \in Nat
          /\ ~Younger(fetchedAge, MissRefresh)
      BY <1>1, <2>2, ReqShape DEF IInv, FetchNeeded, At
    <3>2. Waits(r)'
      BY <1>1, <1>2, <2>2, <3>1, Shape DEF Waits, Younger, Older
    <3>3. Verdict(r)'
      BY <1>2, <2>2, <3>1 DEF Verdict, Answered, At
    <3> QED BY <3>2, <3>3
  <2> QED BY <2>1, <2>2
<1> QED BY <1>4, <1>5, <1>6 DEF IInv

-----------------------------------------------------------------------------
(* The theorems *)

\* The invariant holds in every state.
THEOREM Invariance == Spec => []IInv
<1>1. IInv /\ UNCHANGED vars => IInv'
  BY DEF vars, cache, world, IInv, TypeOK, FetchNeeded, KeysAsFetched, Waits, Verdict, Answered,
     At, Younger, Cooling
<1>2. IInv /\ [Next]_vars => IInv'
  BY <1>1, RequestStep, AcquireStep, FetchOkStep, FetchFailsStep, IssuerStep, TickStep DEF Next
<1> QED BY <1>2, InitInv, PTL DEF Spec

\* A request is held for one fetch at most, however many wait and however often fetches fail.
THEOREM HeldForOneFetch == Spec => []PromptAnswer
<1>1. IInv => PromptAnswer
  BY DEF IInv, Waits, PromptAnswer
<1> QED BY <1>1, Invariance, PTL

\* A token of a published key is refused only in the key's first MissRefresh, or in a cooldown.
THEOREM NewKeysLearned == Spec => []NewKeyLearned
<1>1. IInv => NewKeyLearned
  BY DEF IInv, Verdict, NewKeyLearned, Cooling
<1> QED BY <1>1, Invariance, PTL

\* A withdrawn key is good for at most Ttl, or in a cooldown.
THEOREM OldKeysForgotten == Spec => []OldKeyForgotten
<1>1. IInv => OldKeyForgotten
  BY DEF IInv, Verdict, OldKeyForgotten, Cooling
<1> QED BY <1>1, Invariance, PTL

\* Who holds keys never answers 503, and never holds none again.
THEOREM WarmStaysAvailable == Spec => WarmNeverUnavailable
<1>1. ASSUME IInv, Next, keys # {}
      PROVE  keys' # {}
  BY <1>1 DEF IInv, KeysAsFetched, Next, Acquire, FetchOk, NewKeys, FetchFails, Reply, Arrive,
     Limited, Publish, Retire, Flip, Tick, cache
<1>2. ASSUME IInv, Next, keys # {}, NEW r \in Requests, Answered(r, "503")'
      PROVE  Answered(r, "503")
  <2>1. TypeOK
    BY <1>2 DEF IInv
  <2>2. ASSUME NEW q \in Requests, Acquire(q) \/ FetchOk(q) \/ FetchFails(q)
        PROVE  Answered(r, "503")
    <3>1. /\ req[q] # None
          /\ \/ \E a \in {"200", "401", "429"} : Answer(q, a)
             \/ req' = [req EXCEPT ![q].pc = "fetching"]
      BY <1>2, <2>2 DEF Acquire, FetchOk, FetchFails, FallBack, Lookup, At
    <3>2. CASE \E a \in {"200", "401", "429"} : Answer(q, a)
      <4>1. PICK a \in {"200", "401", "429"} : Answer(q, a)
        BY <3>2
      <4>2. req'[q].answer = a /\ \A p \in Requests \ {q} : req'[p] = req[p]
        BY <2>1, <3>1, <4>1, Answering
      <4> QED BY <1>2, <4>2 DEF Answered, At
    <3>3. CASE req' = [req EXCEPT ![q].pc = "fetching"]
      <4>1. req' = [req EXCEPT ![q] = [req[q] EXCEPT !.pc = "fetching"]] /\ req[q] \in Reqs
        BY <2>1, <3>1, <3>3, ReqShape
      <4> QED BY <1>2, <2>1, <4>1 DEF Answered, At, TypeOK, Reqs, Answers
    <3> QED BY <3>1, <3>2, <3>3
  <2>3. ASSUME NEW q \in Requests,
               Reply(q) \/ \E kid \in Kids \cup {Bogus} : Arrive(q, kid) \/ Limited(q, kid)
        PROVE  Answered(r, "503")
    <3>1. \/ req' = [req EXCEPT ![q] = None]
          \/ \E x : x.answer # "503" /\ req' = [req EXCEPT ![q] = x]
      <4>1. \A kid, pc, minAge : \A a \in {"200", "401", "429"} :
              New(kid, pc, minAge, a).answer # "503"
        BY DEF New
      <4>2. \A kid, pc, minAge : New(kid, pc, minAge, None).answer # "503"
        BY AuthGateAssumption DEF New, Answers
      <4> QED BY <2>3, <4>1, <4>2 DEF Reply, Arrive, Limited
    <3> QED BY <1>2, <2>1, <3>1 DEF Answered, At, TypeOK
  <2>4. CASE (\E k \in Kids : Publish(k) \/ Retire(k)) \/ Flip
    BY <1>2, <2>4 DEF Publish, Retire, Flip, Answered, At
  <2>5. CASE Tick
    <3>1. ~At(r, "answered")
            /\ req'[r] = IF req[r] = None THEN None ELSE [req[r] EXCEPT !.held = @ + 1]
      BY <2>5 DEF Tick
    <3> QED BY <1>2, <2>1, <3>1, ReqShape DEF Answered, At, Reqs, Answers
  <2> QED BY <1>2, <2>2, <2>3, <2>4, <2>5 DEF Next
<1>3. IInv /\ [Next]_vars =>
        [keys # {} => /\ keys' # {}
                      /\ \A r \in Requests : Answered(r, "503")' => Answered(r, "503")]_vars
  BY <1>1, <1>2
<1> QED BY <1>3, Invariance, PTL DEF Spec, WarmNeverUnavailable

-----------------------------------------------------------------------------
(* The rate limiters: the inductive invariant *)

Maps(S) == UNION {[D -> S] : D \in SUBSET Keys}

Buckets == [tokens : 0 .. Burst, last : Nat]

LimitTypeOK ==
  /\ clock \in Nat
  /\ calls \in Seq([key : Keys, at : Nat, allowed : BOOLEAN, ready : BOOLEAN])
  /\ bucket \in [seen : Maps(Buckets), pruned : Nat]
  /\ cooldown \in [seen : Maps(Nat), pruned : Nat]
  /\ unpruned \in [bucket : Maps(Buckets), cooldown : Maps(Nat)]
  /\ \A k \in DOMAIN unpruned.bucket : unpruned.bucket[k].last <= clock
  /\ \A k \in DOMAIN unpruned.cooldown : unpruned.cooldown[k] <= clock

\* What was forgotten by the time given, and only that, says nothing any more.
BucketsAlike(seen, all, time) ==
  /\ \A k \in DOMAIN seen : k \in DOMAIN all /\ seen[k] = all[k]
  /\ \A k \in DOMAIN all \ DOMAIN seen : Burst <= (time - all[k].last) * Rate

CooldownsAlike(seen, all, time) ==
  /\ \A k \in DOMAIN seen : k \in DOMAIN all /\ seen[k] = all[k]
  /\ \A k \in DOMAIN all \ DOMAIN seen : time - all[k] >= Window

AllowedTo(k) == {i \in DOMAIN calls : calls[i].key = k /\ calls[i].allowed}

\* What a key has spent since any of its allowed calls, and what it has left, came from the
\* burst and the refill since that call.
Budget ==
  \A k \in Keys : \A i \in AllowedTo(k) :
    /\ k \in DOMAIN unpruned.bucket
    /\ Cardinality(AllowedTo(k) \cap i .. Len(calls)) + unpruned.bucket[k].tokens
         <= Burst + Rate * (unpruned.bucket[k].last - calls[i].at)

SpentWithinBudget ==
  \A k \in Keys : \A j \in AllowedTo(k) : \A i \in AllowedTo(k) \cap 1 .. j :
    Cardinality(AllowedTo(k) \cap i .. j) <= Burst + Rate * (calls[j].at - calls[i].at)

\* A cooldown remembers the latest allowed call.
LatestReady ==
  \A k \in Keys :
    /\ k \in DOMAIN unpruned.cooldown =>
         \E i \in DOMAIN calls : /\ calls[i].key = k /\ calls[i].ready
                                 /\ calls[i].at = unpruned.cooldown[k]
    /\ \A i \in DOMAIN calls : calls[i].key = k /\ calls[i].ready =>
         k \in DOMAIN unpruned.cooldown /\ calls[i].at <= unpruned.cooldown[k]

RefusedWithinWindow ==
  \A j \in DOMAIN calls :
    ~calls[j].ready <=> \E i \in 1 .. j - 1 : /\ calls[i].key = calls[j].key /\ calls[i].ready
                                              /\ calls[j].at - calls[i].at < Window

LimitInv ==
  /\ LimitTypeOK
  /\ BucketsAlike(bucket.seen, unpruned.bucket, clock)
  /\ CooldownsAlike(cooldown.seen, unpruned.cooldown, clock)
  /\ Budget /\ SpentWithinBudget
  /\ LatestReady /\ RefusedWithinWindow

-----------------------------------------------------------------------------
(* The limiters' maps *)

\* Time only adds to the refill.
LEMMA Refill ==
  ASSUME NEW m \in Nat, NEW n \in Nat
  PROVE  m * Rate \in Nat /\ (m + n) * Rate \in Nat /\ m * Rate <= (m + n) * Rate
BY RateLimitAssumption

\* A map of the keys in a set.
LEMMA MapShape ==
  ASSUME NEW S, NEW f \in Maps(S)
  PROVE  /\ DOMAIN f \subseteq Keys /\ f \in [DOMAIN f -> S]
         /\ \A k \in DOMAIN f : f[k] \in S
BY DEF Maps

\* A map that has an entry for a key and is otherwise another.
Enters(new, seen, key, entry) ==
  /\ DOMAIN new = DOMAIN seen \cup {key} /\ new[key] = entry
  /\ \A k \in DOMAIN seen : k # key => new[k] = seen[k]

\* Entering a key keeps a map typed and the other entries.
LEMMA EnteredShape ==
  ASSUME NEW S, NEW f \in Maps(S), NEW key \in Keys, NEW entry \in S
  PROVE  /\ Entered(f, key, entry) \in Maps(S)
         /\ Enters(Entered(f, key, entry), f, key, entry)
<1>1. DOMAIN f \cup {key} \in SUBSET Keys /\ \A k \in DOMAIN f : f[k] \in S
  BY MapShape
<1>2. Entered(f, key, entry) \in [DOMAIN f \cup {key} -> S]
  BY <1>1 DEF Entered
<1> QED BY <1>1, <1>2 DEF Maps, Entered, Enters

\* A sweep keeps the entries of the keys it keeps, or all of them.
LEMMA SweptShape ==
  ASSUME NEW S, NEW l \in [seen : Maps(S), pruned : Nat], NEW time \in Nat,
         NEW keep \in SUBSET DOMAIN l.seen
  PROVE  LET new == Swept(l, time, keep) IN
         /\ new \in [seen : Maps(S), pruned : Nat]
         /\ \A k \in DOMAIN new.seen : k \in DOMAIN l.seen /\ new.seen[k] = l.seen[k]
         /\ keep \subseteq DOMAIN new.seen
<1>1. l.seen \in Maps(S) /\ DOMAIN l.seen \subseteq Keys /\ \A k \in DOMAIN l.seen : l.seen[k] \in S
  BY MapShape
<1>2. Restrict(l.seen, keep) = [k \in keep |-> l.seen[k]]
  BY DEF Restrict
<1>3. Restrict(l.seen, keep) \in [keep -> S]
  BY <1>1, <1>2
<1>4. Restrict(l.seen, keep) \in Maps(S)
  BY <1>1, <1>3 DEF Maps
<1>5. CASE time - l.pruned < PruneInterval
  BY <1>5 DEF Swept
<1>6. CASE ~(time - l.pruned < PruneInterval)
  <2>1. Swept(l, time, keep) = [seen |-> Restrict(l.seen, keep), pruned |-> time]
    BY <1>6 DEF Swept
  <2> QED BY <1>2, <1>4, <2>1
<1> QED BY <1>5, <1>6

\* What a sweep of the buckets forgets says nothing at that time.
LEMMA BucketSweep ==
  ASSUME LimitInv, NEW gap \in Nat
  PROVE  LET time == clock + gap IN
         /\ BucketAt(time) \in [seen : Maps(Buckets), pruned : Nat]
         /\ BucketsAlike(BucketAt(time).seen, unpruned.bucket, time)
<1> DEFINE time == clock + gap
           keep == {k \in DOMAIN bucket.seen : Filling(time - bucket.seen[k].last)}
           new == BucketAt(time)
           all == unpruned.bucket
<1>1. /\ time \in Nat /\ clock \in Nat /\ time >= clock
      /\ bucket \in [seen : Maps(Buckets), pruned : Nat] /\ all \in Maps(Buckets)
      /\ BucketsAlike(bucket.seen, all, clock)
      /\ \A k \in DOMAIN all : all[k].last <= clock
  BY DEF LimitInv, LimitTypeOK
<1>2. /\ new \in [seen : Maps(Buckets), pruned : Nat]
      /\ \A k \in DOMAIN new.seen : k \in DOMAIN bucket.seen /\ new.seen[k] = bucket.seen[k]
      /\ keep \subseteq DOMAIN new.seen
  <2>1. keep \in SUBSET DOMAIN bucket.seen /\ new = Swept(bucket, time, keep)
    BY DEF BucketAt
  <2> HIDE DEF keep, new, time
  <2> QED BY <1>1, <2>1, SweptShape
<1>3. ASSUME NEW k \in DOMAIN all \ DOMAIN new.seen
      PROVE  Burst <= (time - all[k].last) * Rate
  <2>1. all[k].last \in Nat /\ all[k].last <= clock
    <3>1. all[k] \in Buckets
      BY <1>1, MapShape
    <3> QED BY <1>1, <3>1 DEF Buckets
  <2>2. CASE k \in DOMAIN bucket.seen
    <3>1. ~Filling(time - all[k].last)
      BY <1>1, <1>2, <1>3, <2>2 DEF BucketsAlike
    <3>2. (time - all[k].last) * Rate \in Nat
      <4>1. PICK m : m = time - all[k].last
        OBVIOUS
      <4>2. m \in Nat
        BY <1>1, <2>1, <4>1
      <4> HIDE DEF time
      <4> QED BY <4>1, <4>2, Refill
    <3> QED BY <3>1, <3>2, RateLimitAssumption DEF Filling
  <2>3. CASE k \notin DOMAIN bucket.seen
    <3>1. Burst <= (clock - all[k].last) * Rate
      BY <1>1, <1>3, <2>3 DEF BucketsAlike
    <3>2. clock - all[k].last \in Nat /\ time - all[k].last = (clock - all[k].last) + gap
      BY <1>1, <2>1
    <3>3. /\ (clock - all[k].last) * Rate <= (time - all[k].last) * Rate
          /\ (clock - all[k].last) * Rate \in Nat /\ (time - all[k].last) * Rate \in Nat
      BY <3>2, Refill
    <3> QED BY <3>1, <3>3, RateLimitAssumption
  <2> QED BY <2>2, <2>3
<1>4. BucketsAlike(new.seen, all, time)
  BY <1>1, <1>2, <1>3 DEF BucketsAlike
<1> QED BY <1>2, <1>4

\* The tokens of a key are at most the burst, and a map that forgot only full buckets
\* finds as many as one that never forgets.
LEMMA SameTokens ==
  ASSUME NEW seen \in Maps(Buckets), NEW all \in Maps(Buckets), NEW time \in Nat,
         \A k \in DOMAIN all : all[k].last <= time,
         BucketsAlike(seen, all, time), NEW key \in Keys
  PROVE  /\ Tokens(all, key, time) \in 0 .. Burst
         /\ Tokens(seen, key, time) = Tokens(all, key, time)
         /\ key \in DOMAIN all =>
              Tokens(all, key, time) <= all[key].tokens + (time - all[key].last) * Rate
<1>1. Burst \in Nat \ {0}
  BY RateLimitAssumption
<1>2. CASE key \in DOMAIN all
  <2>1. all[key].tokens \in 0 .. Burst /\ all[key].last \in Nat /\ all[key].last <= time
    <3>1. all[key] \in Buckets
      BY <1>2, MapShape
    <3> QED BY <1>2, <3>1 DEF Buckets
  <2>2. (time - all[key].last) * Rate \in Nat
    <3>1. time - all[key].last \in Nat
      BY <2>1
    <3> QED BY <3>1, Refill
  <2>3. /\ Tokens(all, key, time) \in 0 .. Burst
        /\ Tokens(all, key, time) <= all[key].tokens + (time - all[key].last) * Rate
        /\ Burst <= (time - all[key].last) * Rate => Tokens(all, key, time) = Burst
    BY <1>1, <1>2, <2>1, <2>2 DEF Tokens, Least
  <2>4. CASE key \in DOMAIN seen
    BY <1>2, <2>3, <2>4 DEF BucketsAlike, Tokens
  <2>5. CASE key \notin DOMAIN seen
    <3>1. Tokens(seen, key, time) = Burst
      BY <2>5 DEF Tokens
    <3> QED BY <1>2, <2>3, <2>5, <3>1 DEF BucketsAlike
  <2> QED BY <2>3, <2>4, <2>5
<1>3. CASE key \notin DOMAIN all
  <2>1. key \notin DOMAIN seen
    BY <1>3 DEF BucketsAlike
  <2> QED BY <1>1, <1>3, <2>1 DEF Tokens
<1> QED BY <1>2, <1>3

\* The entry a call makes of the tokens it found.
Spent(tokens, time) == [tokens |-> IF tokens >= 1 THEN tokens - 1 ELSE tokens, last |-> time]

\* An entry stays within the burst.
LEMMA SpentShape ==
  ASSUME NEW tokens \in 0 .. Burst, NEW time \in Nat
  PROVE  /\ Spent(tokens, time) \in Buckets /\ Spent(tokens, time).last = time
         /\ Spent(tokens, time).tokens = IF tokens >= 1 THEN tokens - 1 ELSE tokens
BY RateLimitAssumption DEF Buckets, Spent

\* What a call leaves in a map of buckets.
LEMMA TakenShape ==
  ASSUME NEW seen \in Maps(Buckets), NEW key \in Keys, NEW time, NEW tokens, NEW entry \in Buckets,
         tokens = Tokens(seen, key, time), entry = Spent(tokens, time)
  PROVE  /\ Taken(seen, key, time) \in Maps(Buckets)
         /\ Enters(Taken(seen, key, time), seen, key, entry)
<1>1. Taken(seen, key, time) = Entered(seen, key, entry)
  BY DEF Taken, Allows, Spent
<1>2. /\ Entered(seen, key, entry) \in Maps(Buckets)
      /\ Enters(Entered(seen, key, entry), seen, key, entry)
  BY EnteredShape
<1> QED BY <1>1, <1>2

\* What a sweep of the cooldown forgets says nothing at that time.
LEMMA CooldownSweep ==
  ASSUME LimitInv, NEW gap \in Nat
  PROVE  LET time == clock + gap IN
         /\ CooldownAt(time) \in [seen : Maps(Nat), pruned : Nat]
         /\ CooldownsAlike(CooldownAt(time).seen, unpruned.cooldown, time)
<1> DEFINE time == clock + gap
           keep == {k \in DOMAIN cooldown.seen : time - cooldown.seen[k] < Window}
           new == CooldownAt(time)
           all == unpruned.cooldown
<1>1. /\ time \in Nat /\ clock \in Nat /\ time >= clock
      /\ cooldown \in [seen : Maps(Nat), pruned : Nat] /\ all \in Maps(Nat)
      /\ CooldownsAlike(cooldown.seen, all, clock)
  BY DEF LimitInv, LimitTypeOK
<1>2. /\ new \in [seen : Maps(Nat), pruned : Nat]
      /\ \A k \in DOMAIN new.seen : k \in DOMAIN cooldown.seen /\ new.seen[k] = cooldown.seen[k]
      /\ keep \subseteq DOMAIN new.seen
  <2>1. keep \in SUBSET DOMAIN cooldown.seen /\ new = Swept(cooldown, time, keep)
    BY DEF CooldownAt
  <2> HIDE DEF keep, new, time
  <2> QED BY <1>1, <2>1, SweptShape
<1>3. ASSUME NEW k \in DOMAIN all \ DOMAIN new.seen
      PROVE  time - all[k] >= Window
  <2>1. all[k] \in Nat
    BY <1>1, MapShape
  <2>2. CASE k \in DOMAIN cooldown.seen
    BY <1>1, <1>2, <1>3, <2>1, <2>2, RateLimitAssumption DEF CooldownsAlike
  <2>3. CASE k \notin DOMAIN cooldown.seen
    <3>1. clock - all[k] >= Window
      BY <1>1, <1>3, <2>3 DEF CooldownsAlike
    <3> QED BY <1>1, <2>1, <3>1, RateLimitAssumption
  <2> QED BY <2>2, <2>3
<1>4. CooldownsAlike(new.seen, all, time)
  BY <1>1, <1>2, <1>3 DEF CooldownsAlike
<1> QED BY <1>2, <1>4

\* A map that forgot only what says nothing is ready when one that never forgets is.
LEMMA SameReady ==
  ASSUME NEW seen, NEW all, NEW time, CooldownsAlike(seen, all, time), NEW key
  PROVE  Ready(seen, key, time) <=> Ready(all, key, time)
BY DEF CooldownsAlike, Ready

\* What a call leaves in a map of times.
LEMMA NotedShape ==
  ASSUME NEW seen \in Maps(Nat), NEW key \in Keys, NEW time \in Nat
  PROVE  LET new == Noted(seen, key, time) IN
         /\ new \in Maps(Nat) /\ DOMAIN new = DOMAIN seen \cup {key}
         /\ \A k \in DOMAIN seen : k # key => new[k] = seen[k]
         /\ new[key] = IF Ready(seen, key, time) THEN time ELSE seen[key]
<1>1. /\ Entered(seen, key, time) \in Maps(Nat)
      /\ DOMAIN Entered(seen, key, time) = DOMAIN seen \cup {key}
      /\ Entered(seen, key, time)[key] = time
      /\ \A k \in DOMAIN seen : k # key => Entered(seen, key, time)[k] = seen[k]
  <2>1. DOMAIN seen \cup {key} \in SUBSET Keys /\ \A k \in DOMAIN seen : seen[k] \in Nat
    BY MapShape
  <2>2. Entered(seen, key, time) \in [DOMAIN seen \cup {key} -> Nat]
    BY <2>1 DEF Entered
  <2> QED BY <2>1, <2>2 DEF Maps, Entered
<1>2. CASE Ready(seen, key, time)
  BY <1>1, <1>2 DEF Noted
<1>3. CASE ~Ready(seen, key, time)
  BY <1>3 DEF Noted, Ready
<1> QED BY <1>2, <1>3

-----------------------------------------------------------------------------
(* A call *)

\* What a call appends.
LEMMA CallAppends ==
  ASSUME LimitInv, NEW key \in Keys, NEW gap \in Gaps, Call(key, gap)
  PROVE  LET time == clock + gap
             n == Len(calls)
             allowed == Allows(unpruned.bucket, key, time)
             ready == Ready(unpruned.cooldown, key, time)
         IN  /\ n \in Nat /\ DOMAIN calls = 1 .. n /\ time \in Nat /\ clock' = time
             /\ DOMAIN calls' = 1 .. n + 1 /\ Len(calls') = n + 1
             /\ \A i \in 1 .. n : calls'[i] = calls[i]
             /\ calls'[n + 1] = [key |-> key, at |-> time, allowed |-> allowed, ready |-> ready]
             /\ calls' \in Seq([key : Keys, at : Nat, allowed : BOOLEAN, ready : BOOLEAN])
             /\ \A i \in 1 .. n : /\ calls[i].at \in Nat
                                  /\ {calls[i].allowed, calls[i].ready} \subseteq BOOLEAN
<1> DEFINE time == clock + gap
           n == Len(calls)
           entry == [key |-> key, at |-> time, allowed |-> Allows(unpruned.bucket, key, time),
                     ready |-> Ready(unpruned.cooldown, key, time)]
           Entries == [key : Keys, at : Nat, allowed : BOOLEAN, ready : BOOLEAN]
<1>1. clock \in Nat /\ gap \in Nat /\ time \in Nat /\ clock' = time /\ calls \in Seq(Entries)
  BY RateLimitAssumption DEF LimitInv, LimitTypeOK, Call
<1>2. Allows(BucketAt(time).seen, key, time) = Allows(unpruned.bucket, key, time)
  <2>1. /\ BucketAt(time).seen \in Maps(Buckets) /\ unpruned.bucket \in Maps(Buckets)
        /\ BucketsAlike(BucketAt(time).seen, unpruned.bucket, time)
    BY <1>1, BucketSweep DEF LimitInv, LimitTypeOK
  <2>2. \A k \in DOMAIN unpruned.bucket : unpruned.bucket[k].last <= time
    <3>1. ASSUME NEW k \in DOMAIN unpruned.bucket
          PROVE  unpruned.bucket[k].last \in Nat /\ unpruned.bucket[k].last <= clock
      <4>1. unpruned.bucket[k] \in Buckets
        BY <2>1, MapShape
      <4> QED BY <4>1 DEF Buckets, LimitInv, LimitTypeOK
    <3> QED BY <1>1, <3>1
  <2>3. Tokens(BucketAt(time).seen, key, time) = Tokens(unpruned.bucket, key, time)
    BY <1>1, <2>1, <2>2, SameTokens
  <2> QED BY <2>3 DEF Allows
<1>3. Ready(CooldownAt(time).seen, key, time) = Ready(unpruned.cooldown, key, time)
  <2>1. Ready(CooldownAt(time).seen, key, time) <=> Ready(unpruned.cooldown, key, time)
    BY <1>1, CooldownSweep, SameReady
  <2> QED BY <2>1 DEF Ready
<1>4. calls' = Append(calls, entry)
  <2>1. calls' = Append(calls, [key |-> key, at |-> time,
                                allowed |-> Allows(BucketAt(time).seen, key, time),
                                ready |-> Ready(CooldownAt(time).seen, key, time)])
    BY DEF Call
  <2> QED BY <1>2, <1>3, <2>1
<1>5. entry \in Entries
  BY <1>1 DEF Allows, Ready
<1>6. /\ DOMAIN calls = 1 .. n /\ n \in Nat
      /\ \A i \in 1 .. n : /\ calls[i].at \in Nat
                           /\ {calls[i].allowed, calls[i].ready} \subseteq BOOLEAN
  <2>1. DOMAIN calls = 1 .. n /\ n \in Nat
    BY <1>1
  <2>2. ASSUME NEW i \in 1 .. n
        PROVE  calls[i].at \in Nat /\ {calls[i].allowed, calls[i].ready} \subseteq BOOLEAN
    <3>1. calls[i] \in Entries
      <4> HIDE DEF Entries
      <4> QED BY <1>1, <2>1
    <3> QED BY <3>1
  <2> QED BY <2>1, <2>2
<1> HIDE DEF time
<1>7. /\ DOMAIN calls' = 1 .. n + 1 /\ Len(calls') = n + 1 /\ calls' \in Seq(Entries)
      /\ \A i \in 1 .. n : calls'[i] = calls[i]
      /\ calls'[n + 1] = entry
  <2> HIDE DEF entry, Entries
  <2> QED BY <1>1, <1>4, <1>5
<1> QED BY <1>1, <1>6, <1>7 DEF time

\* A call leaves maps that still differ only in what says nothing, and are typed.
LEMMA CallMaps ==
  ASSUME LimitInv, NEW key \in Keys, NEW gap \in Gaps, Call(key, gap)
  PROVE  /\ LimitTypeOK'
         /\ BucketsAlike(bucket'.seen, unpruned'.bucket, clock')
         /\ CooldownsAlike(cooldown'.seen, unpruned'.cooldown, clock')
<1>a. PICK time \in Nat : time = clock + gap
  BY CallAppends
<1>b. PICK b, c, ub, uc : /\ b = BucketAt(time) /\ c = CooldownAt(time)
                          /\ ub = unpruned.bucket /\ uc = unpruned.cooldown
  OBVIOUS
<1>0. /\ time = clock + gap /\ b = BucketAt(time) /\ c = CooldownAt(time)
      /\ ub = unpruned.bucket /\ uc = unpruned.cooldown
  BY <1>a, <1>b
<1>1. /\ clock \in Nat /\ gap \in Nat /\ time \in Nat /\ clock <= time /\ clock' = time
      /\ calls' \in Seq([key : Keys, at : Nat, allowed : BOOLEAN, ready : BOOLEAN])
      /\ ub \in Maps(Buckets) /\ uc \in Maps(Nat)
  <2>1. /\ time \in Nat /\ clock' = time
        /\ calls' \in Seq([key : Keys, at : Nat, allowed : BOOLEAN, ready : BOOLEAN])
    BY <1>0, CallAppends
  <2>2. clock \in Nat /\ gap \in Nat /\ ub \in Maps(Buckets) /\ uc \in Maps(Nat)
    BY <1>0, RateLimitAssumption DEF LimitInv, LimitTypeOK
  <2> QED BY <1>0, <2>1, <2>2
<1>2. /\ b \in [seen : Maps(Buckets), pruned : Nat] /\ BucketsAlike(b.seen, ub, time)
      /\ c \in [seen : Maps(Nat), pruned : Nat] /\ CooldownsAlike(c.seen, uc, time)
  BY <1>0, <1>1, BucketSweep, CooldownSweep
<1>3. /\ bucket' = [b EXCEPT !.seen = Taken(b.seen, key, time)]
      /\ cooldown' = [c EXCEPT !.seen = Noted(c.seen, key, time)]
      /\ unpruned' = [bucket |-> Taken(ub, key, time), cooldown |-> Noted(uc, key, time)]
  BY <1>0 DEF Call
<1>4. /\ \A k \in DOMAIN ub : ub[k].last <= time
      /\ \A k \in DOMAIN uc : uc[k] <= time
  <2>1. /\ \A k \in DOMAIN ub : ub[k] \in Buckets /\ ub[k].last <= clock
        /\ \A k \in DOMAIN uc : uc[k] \in Nat /\ uc[k] <= clock
    BY <1>0, <1>1, MapShape DEF LimitInv, LimitTypeOK
  <2> QED BY <1>1, <2>1 DEF Buckets
<1>5. /\ Tokens(ub, key, time) \in 0 .. Burst
      /\ Tokens(b.seen, key, time) = Tokens(ub, key, time)
  BY <1>1, <1>2, <1>4, SameTokens
<1>6. /\ Taken(ub, key, time) \in Maps(Buckets)
      /\ DOMAIN Taken(ub, key, time) = DOMAIN ub \cup {key}
      /\ \A k \in DOMAIN ub : k # key => Taken(ub, key, time)[k] = ub[k]
      /\ Taken(ub, key, time)[key].last = time
      /\ Taken(b.seen, key, time) \in Maps(Buckets)
      /\ DOMAIN Taken(b.seen, key, time) = DOMAIN b.seen \cup {key}
      /\ \A k \in DOMAIN b.seen : k # key => Taken(b.seen, key, time)[k] = b.seen[k]
      /\ Taken(b.seen, key, time)[key] = Taken(ub, key, time)[key]
  <2>1. PICK tokens, entry : tokens = Tokens(ub, key, time) /\ entry = Spent(tokens, time)
    OBVIOUS
  <2>2. entry \in Buckets /\ entry.last = time
    <3>1. tokens \in 0 .. Burst
      BY <1>5, <2>1
    <3> QED BY <2>1, <3>1, SpentShape
  <2>3. tokens = Tokens(b.seen, key, time) /\ b.seen \in Maps(Buckets)
    BY <1>2, <1>5, <2>1
  <2>4. /\ Taken(ub, key, time) \in Maps(Buckets)
        /\ Enters(Taken(ub, key, time), ub, key, entry)
    BY <1>1, <2>1, <2>2, TakenShape
  <2>5. /\ Taken(b.seen, key, time) \in Maps(Buckets)
        /\ Enters(Taken(b.seen, key, time), b.seen, key, entry)
    BY <2>1, <2>2, <2>3, TakenShape
  <2> QED BY <2>2, <2>4, <2>5 DEF Enters
<1>7. /\ Noted(uc, key, time) \in Maps(Nat)
      /\ DOMAIN Noted(uc, key, time) = DOMAIN uc \cup {key}
      /\ \A k \in DOMAIN uc : k # key => Noted(uc, key, time)[k] = uc[k]
      /\ Noted(uc, key, time)[key] = IF Ready(uc, key, time) THEN time ELSE uc[key]
      /\ Noted(c.seen, key, time) \in Maps(Nat)
      /\ DOMAIN Noted(c.seen, key, time) = DOMAIN c.seen \cup {key}
      /\ \A k \in DOMAIN c.seen : k # key => Noted(c.seen, key, time)[k] = c.seen[k]
      /\ Noted(c.seen, key, time)[key] = IF Ready(c.seen, key, time) THEN time ELSE c.seen[key]
  <2>1. c.seen \in Maps(Nat)
    BY <1>2
  <2> QED BY <1>1, <2>1, NotedShape
<1>8. BucketsAlike(Taken(b.seen, key, time), Taken(ub, key, time), time)
  BY <1>2, <1>6 DEF BucketsAlike
<1>9. CooldownsAlike(Noted(c.seen, key, time), Noted(uc, key, time), time)
  <2>1. Ready(c.seen, key, time) <=> Ready(uc, key, time)
    BY <1>2, SameReady
  <2>2. ~Ready(c.seen, key, time) => key \in DOMAIN c.seen
    BY DEF Ready
  <2>3. Noted(c.seen, key, time)[key] = Noted(uc, key, time)[key]
    BY <1>2, <1>7, <2>1, <2>2 DEF CooldownsAlike
  <2> QED BY <1>2, <1>7, <2>3 DEF CooldownsAlike
<1>10. /\ bucket' \in [seen : Maps(Buckets), pruned : Nat] /\ bucket'.seen = Taken(b.seen, key, time)
       /\ cooldown' \in [seen : Maps(Nat), pruned : Nat] /\ cooldown'.seen = Noted(c.seen, key, time)
       /\ unpruned' \in [bucket : Maps(Buckets), cooldown : Maps(Nat)]
       /\ unpruned'.bucket = Taken(ub, key, time) /\ unpruned'.cooldown = Noted(uc, key, time)
  BY <1>2, <1>3, <1>6, <1>7
<1>11. \A k \in DOMAIN unpruned'.bucket : unpruned'.bucket[k].last <= clock'
  <2>1. time <= time
    BY <1>1
  <2> QED BY <1>1, <1>4, <1>6, <1>10, <2>1
<1>12. \A k \in DOMAIN unpruned'.cooldown : unpruned'.cooldown[k] <= clock'
  <2>1. time <= time
    BY <1>1
  <2>2. ~Ready(uc, key, time) => key \in DOMAIN uc
    BY DEF Ready
  <2> QED BY <1>1, <1>4, <1>7, <1>10, <2>1, <2>2
<1>13. clock' \in Nat
  BY <1>1
<1> QED BY <1>1, <1>8, <1>9, <1>10, <1>11, <1>12, <1>13 DEF LimitTypeOK

\* The calls of a key in a range of calls are finitely many.
LEMMA FewCalls ==
  ASSUME NEW i \in Nat, NEW j \in Nat, NEW A
  PROVE  IsFiniteSet(A \cap i .. j) /\ Cardinality(A \cap i .. j) \in Nat
<1>1. IsFiniteSet(i .. j)
  BY FS_Interval
<1>2. A \cap i .. j \subseteq i .. j
  OBVIOUS
<1>3. IsFiniteSet(A \cap i .. j)
  BY <1>1, <1>2, FS_Subset
<1> QED BY <1>3, FS_CardinalityType

\* What is spent between two calls is paid by the refill.
LEMMA Paid ==
  ASSUME NEW at \in Nat, NEW last \in Nat, NEW time \in Nat, NEW spent \in Nat,
         NEW left \in Nat, NEW tokens \in Nat,
         spent + left <= Burst + Rate * (last - at), tokens <= left + (time - last) * Rate
  PROVE  spent + tokens <= Burst + Rate * (time - at)
<1>1. Rate * (time - at) = Rate * (last - at) + (time - last) * Rate
  BY RateLimitAssumption
<1>2. Rate * (last - at) \in Int /\ (time - last) * Rate \in Int /\ Burst \in Nat
  BY RateLimitAssumption
<1> QED BY <1>1, <1>2

\* A call stays within the budget of its key.
LEMMA CallBudget ==
  ASSUME LimitInv, NEW key \in Keys, NEW gap \in Gaps, Call(key, gap)
  PROVE  Budget' /\ SpentWithinBudget'
<1>a. PICK time \in Nat : time = clock + gap
  BY CallAppends
<1>b. PICK ub, n, tokens :
        ub = unpruned.bucket /\ n = Len(calls) /\ tokens = Tokens(ub, key, time)
  OBVIOUS
<1>0. /\ time = clock + gap /\ ub = unpruned.bucket /\ n = Len(calls)
      /\ tokens = Tokens(ub, key, time)
  BY <1>a, <1>b
<1> DEFINE allowed == Allows(ub, key, time)
<1>1. /\ n \in Nat /\ DOMAIN calls = 1 .. n /\ time \in Nat
      /\ DOMAIN calls' = 1 .. n + 1 /\ Len(calls') = n + 1
      /\ \A i \in 1 .. n : calls'[i] = calls[i] /\ calls[i].at \in Nat
      /\ calls'[n + 1].key = key /\ calls'[n + 1].at = time /\ calls'[n + 1].allowed = allowed
  <2>1. /\ n \in Nat /\ DOMAIN calls = 1 .. n /\ time \in Nat
        /\ DOMAIN calls' = 1 .. n + 1 /\ Len(calls') = n + 1
        /\ \A i \in 1 .. n : calls'[i] = calls[i] /\ calls[i].at \in Nat
    BY <1>0, CallAppends
  <2>2. calls'[n + 1] = [key |-> key, at |-> time, allowed |-> allowed,
                         ready |-> Ready(unpruned.cooldown, key, time)]
    BY <1>0, CallAppends
  <2> HIDE DEF allowed
  <2>3. calls'[n + 1].key = key /\ calls'[n + 1].at = time /\ calls'[n + 1].allowed = allowed
    BY <2>2
  <2> QED BY <2>1, <2>3
<1>2. ub \in Maps(Buckets) /\ \A k \in DOMAIN ub : ub[k].last <= clock /\ ub[k] \in Buckets
  BY <1>0, MapShape DEF LimitInv, LimitTypeOK
<1>3. /\ \A k \in DOMAIN ub : ub[k].last \in Nat /\ ub[k].tokens \in Nat /\ ub[k].last <= time
      /\ clock \in Nat /\ Rate \in Nat /\ Burst \in Nat
  <2>1. clock \in Nat /\ Rate \in Nat /\ Burst \in Nat /\ clock <= time
    BY <1>0, RateLimitAssumption DEF LimitInv, LimitTypeOK
  <2>2. \A k \in DOMAIN ub : ub[k].last \in Nat /\ ub[k].tokens \in Nat
    BY <1>2, <2>1 DEF Buckets
  <2> QED BY <1>2, <2>1, <2>2
<1>4. BucketsAlike(ub, ub, time)
  BY DEF BucketsAlike
<1>5. /\ tokens \in 0 .. Burst
      /\ key \in DOMAIN ub => tokens <= ub[key].tokens + (time - ub[key].last) * Rate
      /\ allowed <=> tokens >= 1
  BY <1>0, <1>1, <1>2, <1>3, <1>4, SameTokens DEF Allows
<1>6. /\ unpruned'.bucket = Taken(ub, key, time)
      /\ DOMAIN unpruned'.bucket = DOMAIN ub \cup {key}
      /\ \A k \in DOMAIN ub : k # key => unpruned'.bucket[k] = ub[k]
      /\ unpruned'.bucket[key].last = time
      /\ unpruned'.bucket[key].tokens = IF allowed THEN tokens - 1 ELSE tokens
  <2>1. unpruned'.bucket = Taken(ub, key, time)
    BY <1>0 DEF Call
  <2> HIDE DEF allowed
  <2>2. PICK entry : entry = Spent(tokens, time)
    OBVIOUS
  <2>3. /\ entry \in Buckets /\ entry.last = time
        /\ entry.tokens = IF tokens >= 1 THEN tokens - 1 ELSE tokens
    BY <1>5, <2>2, SpentShape
  <2>4. Enters(Taken(ub, key, time), ub, key, entry)
    BY <1>0, <1>2, <2>2, <2>3, TakenShape
  <2> QED BY <1>5, <2>1, <2>3, <2>4 DEF Enters
<1> HIDE DEF allowed
<1>7. ASSUME NEW k \in Keys
      PROVE  /\ AllowedTo(k) \subseteq 1 .. n
             /\ AllowedTo(k)' = AllowedTo(k) \cup (IF k = key /\ allowed THEN {n + 1} ELSE {})
  BY <1>1 DEF AllowedTo
<1>8. ASSUME NEW k \in Keys, NEW i \in AllowedTo(k)'
      PROVE  /\ k \in DOMAIN unpruned'.bucket
             /\ Cardinality(AllowedTo(k)' \cap i .. n + 1) + unpruned'.bucket[k].tokens
                  <= Burst + Rate * (unpruned'.bucket[k].last - calls'[i].at)
  <2> DEFINE A == AllowedTo(k)
             spent == Cardinality(A \cap i .. n)
             at == calls[i].at
             last == ub[k].last
  <2>1. CASE i \in A
    <3>1. /\ i \in 1 .. n /\ calls'[i].at = at /\ at \in Nat
          /\ k \in DOMAIN ub /\ spent + ub[k].tokens <= Burst + Rate * (last - at)
      BY <1>0, <1>1, <1>7, <2>1 DEF LimitInv, Budget
    <3>2. /\ IsFiniteSet(A \cap i .. n) /\ spent \in Nat
          /\ n + 1 \notin A \cap i .. n
      <4>1. i \in Nat /\ n + 1 \notin i .. n
        BY <1>1, <3>1
      <4> QED BY <1>1, <4>1, FewCalls
    <3>5. k = key => spent + tokens <= Burst + Rate * (time - at)
      <4> SUFFICES ASSUME k = key PROVE spent + tokens <= Burst + Rate * (time - at)
        OBVIOUS
      <4>1. PICK m, a, l, r : m = spent /\ a = at /\ l = last /\ r = ub[k].tokens
        OBVIOUS
      <4>2. m \in Nat /\ a \in Nat /\ l \in Nat /\ r \in Nat /\ tokens \in Nat /\ time \in Nat
        BY <1>1, <1>3, <1>5, <3>1, <3>2, <4>1
      <4>3. m + r <= Burst + Rate * (l - a) /\ tokens <= r + (time - l) * Rate
        BY <1>5, <3>1, <4>1
      <4>4. m + tokens <= Burst + Rate * (time - a)
        BY <4>2, <4>3, Paid
      <4> QED BY <4>1, <4>4
    <3>3. CASE k # key \/ ~allowed
      <4>1. AllowedTo(k)' \cap i .. n + 1 = A \cap i .. n
        BY <1>1, <1>7, <3>1, <3>3
      <4>2. CASE k # key
        BY <3>1, <1>6, <4>1, <4>2
      <4>3. CASE k = key /\ ~allowed
        <5>1. spent + tokens <= Burst + Rate * (time - at)
          BY <3>5, <4>3
        <5> QED BY <1>6, <3>1, <4>1, <4>3, <5>1
      <4> QED BY <3>3, <4>2, <4>3
    <3>4. CASE k = key /\ allowed
      <4>1. AllowedTo(k)' \cap i .. n + 1 = (A \cap i .. n) \cup {n + 1}
        BY <1>1, <1>7, <3>1, <3>4
      <4>2. Cardinality(AllowedTo(k)' \cap i .. n + 1) = spent + 1
        BY <3>2, <4>1, FS_AddElement
      <4>3. spent + tokens <= Burst + Rate * (time - at)
        BY <3>5, <3>4
      <4> QED BY <1>5, <1>6, <3>1, <3>2, <3>4, <4>2, <4>3
    <3> QED BY <3>3, <3>4
  <2>2. CASE i \notin A
    <3>1. i = n + 1 /\ k = key /\ allowed
      BY <1>7, <1>8, <2>2
    <3>2. AllowedTo(k)' \cap i .. n + 1 = {n + 1}
      BY <1>1, <1>7, <3>1
    <3>3. Cardinality(AllowedTo(k)' \cap i .. n + 1) = 1
      BY <3>2, FS_Singleton
    <3> QED BY <1>1, <1>3, <1>5, <1>6, <3>1, <3>3
  <2> QED BY <2>1, <2>2
<1>9. Budget'
  BY <1>1, <1>8 DEF Budget
<1>10. SpentWithinBudget'
  <2> SUFFICES ASSUME NEW k \in Keys, NEW j \in AllowedTo(k)', NEW i \in AllowedTo(k)' \cap 1 .. j
               PROVE  Cardinality(AllowedTo(k)' \cap i .. j)
                        <= Burst + Rate * (calls'[j].at - calls'[i].at)
    BY DEF SpentWithinBudget
  <2>1. CASE j \in AllowedTo(k)
    <3>1. /\ j \in 1 .. n /\ i \in 1 .. n /\ i \in AllowedTo(k) \cap 1 .. j
          /\ AllowedTo(k)' \cap i .. j = AllowedTo(k) \cap i .. j
      BY <1>1, <1>7, <2>1
    <3> QED BY <1>1, <2>1, <3>1 DEF LimitInv, SpentWithinBudget
  <2>2. CASE j \notin AllowedTo(k)
    <3>1. j = n + 1 /\ k = key
      BY <1>7, <2>2
    <3>2. /\ Cardinality(AllowedTo(k)' \cap i .. j) + unpruned'.bucket[k].tokens
                <= Burst + Rate * (unpruned'.bucket[k].last - calls'[i].at)
          /\ unpruned'.bucket[k].tokens \in Nat /\ unpruned'.bucket[k].last = calls'[j].at
      <4>1. Cardinality(AllowedTo(k)' \cap i .. j) + unpruned'.bucket[k].tokens
              <= Burst + Rate * (unpruned'.bucket[k].last - calls'[i].at)
        BY <1>8, <3>1
      <4>2. unpruned'.bucket[k].tokens \in Nat
        BY <1>5, <1>6, <3>1
      <4>3. unpruned'.bucket[k].last = calls'[j].at
        BY <1>1, <1>6, <3>1
      <4> QED BY <4>1, <4>2, <4>3
    <3>3. Cardinality(AllowedTo(k)' \cap i .. j) \in Nat
      <4>1. i \in Nat /\ j \in Nat
        BY <1>1, <3>1
      <4> QED BY <4>1, FewCalls
    <3>4. Rate * (calls'[j].at - calls'[i].at) \in Int
      <4>1. calls'[i].at \in Nat /\ calls'[j].at \in Nat
        BY <1>1, <1>7, <3>1
      <4> QED BY <1>3, <4>1
    <3> QED BY <1>3, <3>2, <3>3, <3>4
  <2> QED BY <2>1, <2>2
<1> QED BY <1>9, <1>10

\* A call is refused by the cooldown within a window of the latest allowed one, and only then.
LEMMA CallCooldown ==
  ASSUME LimitInv, NEW key \in Keys, NEW gap \in Gaps, Call(key, gap)
  PROVE  LatestReady' /\ RefusedWithinWindow'
<1>a. PICK time \in Nat : time = clock + gap
  BY CallAppends
<1>b. PICK uc, new, n, ready :
        /\ uc = unpruned.cooldown /\ new = unpruned'.cooldown /\ n = Len(calls)
        /\ ready = Ready(uc, key, time)
  OBVIOUS
<1>1. /\ n \in Nat /\ DOMAIN calls = 1 .. n /\ DOMAIN calls' = 1 .. n + 1
      /\ \A i \in 1 .. n : calls'[i] = calls[i] /\ calls[i].at \in Nat
      /\ calls'[n + 1].key = key /\ calls'[n + 1].at = time /\ calls'[n + 1].ready = ready
  <2>1. /\ n \in Nat /\ DOMAIN calls = 1 .. n /\ DOMAIN calls' = 1 .. n + 1
        /\ \A i \in 1 .. n : calls'[i] = calls[i] /\ calls[i].at \in Nat
    BY <1>b, CallAppends
  <2>2. calls'[n + 1] = [key |-> key, at |-> time, allowed |-> Allows(unpruned.bucket, key, time),
                         ready |-> ready]
    BY <1>a, <1>b, CallAppends
  <2> QED BY <2>1, <2>2
<1>2. /\ uc \in Maps(Nat) /\ time \in Nat /\ Window \in Nat
      /\ \A k \in DOMAIN uc : uc[k] \in Nat /\ uc[k] <= time
  <2>1. uc \in Maps(Nat) /\ \A k \in DOMAIN uc : uc[k] <= clock
    BY <1>b DEF LimitInv, LimitTypeOK
  <2>2. \A k \in DOMAIN uc : uc[k] \in Nat
    BY <2>1, MapShape
  <2>3. clock \in Nat /\ gap \in Nat /\ Window \in Nat
    BY RateLimitAssumption DEF LimitInv, LimitTypeOK
  <2> QED BY <1>a, <2>1, <2>2, <2>3
<1>3. /\ DOMAIN new = DOMAIN uc \cup {key}
      /\ \A k \in DOMAIN uc : k # key => new[k] = uc[k]
      /\ new[key] = IF ready THEN time ELSE uc[key]
  <2>1. new = Noted(uc, key, time)
    BY <1>a, <1>b DEF Call
  <2>2. /\ DOMAIN Noted(uc, key, time) = DOMAIN uc \cup {key}
        /\ \A k \in DOMAIN uc : k # key => Noted(uc, key, time)[k] = uc[k]
        /\ Noted(uc, key, time)[key] = IF Ready(uc, key, time) THEN time ELSE uc[key]
    BY <1>2, NotedShape
  <2> QED BY <1>b, <2>1, <2>2
<1>4. ready <=> (key \in DOMAIN uc => time - uc[key] >= Window)
  BY <1>b DEF Ready
<1>5. ASSUME NEW k \in Keys
      PROVE  /\ k \in DOMAIN uc =>
                  \E i \in 1 .. n : calls[i].key = k /\ calls[i].ready /\ calls[i].at = uc[k]
             /\ \A i \in 1 .. n : calls[i].key = k /\ calls[i].ready =>
                  k \in DOMAIN uc /\ calls[i].at <= uc[k]
  BY <1>1, <1>b DEF LimitInv, LatestReady
<1>6. ASSUME NEW k \in Keys, k \in DOMAIN new
      PROVE  \E i \in 1 .. n + 1 : calls'[i].key = k /\ calls'[i].ready /\ calls'[i].at = new[k]
  <2>1. CASE k = key /\ ready
    <3>1. n + 1 \in 1 .. n + 1
      BY <1>1
    <3>2. calls'[n + 1].key = k /\ calls'[n + 1].ready /\ calls'[n + 1].at = new[k]
      BY <1>1, <1>3, <2>1
    <3> QED BY <3>1, <3>2
  <2>2. CASE ~(k = key /\ ready)
    <3>1. k \in DOMAIN uc /\ new[k] = uc[k]
      BY <1>3, <1>4, <1>6, <2>2
    <3>2. PICK i \in 1 .. n : calls[i].key = k /\ calls[i].ready /\ calls[i].at = uc[k]
      BY <1>5, <3>1
    <3> QED BY <1>1, <3>1, <3>2
  <2> QED BY <2>1, <2>2
<1>7. ASSUME NEW k \in Keys, NEW i \in 1 .. n + 1, calls'[i].key = k, calls'[i].ready
      PROVE  k \in DOMAIN new /\ calls'[i].at <= new[k]
  <2>1. CASE i = n + 1
    BY <1>1, <1>2, <1>3, <1>7, <2>1
  <2>2. CASE i # n + 1
    <3>1. i \in 1 .. n /\ k \in DOMAIN uc /\ calls'[i].at = calls[i].at /\ calls[i].at \in Nat
          /\ calls[i].at <= uc[k]
      BY <1>1, <1>5, <1>7, <2>2
    <3> QED BY <1>2, <1>3, <3>1
  <2> QED BY <2>1, <2>2
<1>8. LatestReady'
  BY <1>1, <1>6, <1>7, <1>b DEF LatestReady
<1>9. RefusedWithinWindow'
  <2> DEFINE Refusal(j) == \E i \in 1 .. j - 1 : /\ calls'[i].key = calls'[j].key /\ calls'[i].ready
                                                 /\ calls'[j].at - calls'[i].at < Window
  <2>1. ASSUME NEW j \in 1 .. n + 1
        PROVE  ~calls'[j].ready <=> Refusal(j)
    <3>1. CASE j = n + 1
      <4>1. ASSUME ~ready PROVE Refusal(j)
        <5>1. key \in DOMAIN uc /\ time - uc[key] < Window
          BY <1>2, <1>4, <4>1
        <5>2. PICK i \in 1 .. n : calls[i].key = key /\ calls[i].ready /\ calls[i].at = uc[key]
          BY <1>5, <5>1
        <5>3. i \in 1 .. j - 1 /\ calls'[i] = calls[i]
          BY <1>1, <3>1
        <5> QED BY <1>1, <3>1, <5>1, <5>2, <5>3
      <4>2. ASSUME Refusal(j) PROVE ~ready
        <5>1. PICK i \in 1 .. j - 1 : /\ calls'[i].key = calls'[j].key /\ calls'[i].ready
                                      /\ calls'[j].at - calls'[i].at < Window
          BY <4>2
        <5>2. i \in 1 .. n /\ calls'[i] = calls[i] /\ calls[i].at \in Nat
              /\ calls[i].key = key /\ calls[i].ready /\ time - calls[i].at < Window
          BY <1>1, <3>1, <5>1
        <5>3. key \in DOMAIN uc /\ calls[i].at <= uc[key]
          BY <1>5, <5>2
        <5> QED BY <1>2, <1>4, <5>2, <5>3
      <4> HIDE DEF Refusal
      <4> QED BY <1>1, <3>1, <4>1, <4>2
    <3>2. CASE j # n + 1
      <4>1. j \in 1 .. n /\ calls'[j] = calls[j]
            /\ \A i \in 1 .. j - 1 : calls'[i] = calls[i]
        BY <1>1, <3>2
      <4>2. ~calls[j].ready <=> \E i \in 1 .. j - 1 : /\ calls[i].key = calls[j].key /\ calls[i].ready
                                                      /\ calls[j].at - calls[i].at < Window
        BY <1>1, <4>1 DEF LimitInv, RefusedWithinWindow
      <4> QED BY <4>1, <4>2
    <3> QED BY <3>1, <3>2
  <2> QED BY <1>1, <2>1 DEF RefusedWithinWindow
<1> QED BY <1>8, <1>9

\* A process begins with limiters that have seen nobody.
LEMMA FreshLimiters ==
  ASSUME LimitInit
  PROVE  LimitInv
<1>1. Limiter.seen \in [{} -> Buckets] /\ Limiter.seen \in [{} -> Nat] /\ DOMAIN Limiter.seen = {}
      /\ Limiter.pruned = 0
  BY DEF Limiter
<1>2. Limiter.seen \in Maps(Buckets) /\ Limiter.seen \in Maps(Nat)
  BY <1>1 DEF Maps
<1>3. Limiter \in [seen : Maps(Buckets), pruned : Nat] /\ Limiter \in [seen : Maps(Nat), pruned : Nat]
  BY <1>2 DEF Limiter
<1>4. LimitTypeOK
  BY <1>1, <1>2, <1>3 DEF LimitInit, LimitTypeOK
<1>5. /\ BucketsAlike(bucket.seen, unpruned.bucket, clock)
      /\ CooldownsAlike(cooldown.seen, unpruned.cooldown, clock)
  BY <1>1 DEF LimitInit, BucketsAlike, CooldownsAlike
<1>6. Budget /\ SpentWithinBudget /\ LatestReady /\ RefusedWithinWindow
  <2>1. DOMAIN calls = {} /\ DOMAIN unpruned.cooldown = {}
    BY <1>1 DEF LimitInit
  <2> QED BY <2>1 DEF Budget, SpentWithinBudget, LatestReady, RefusedWithinWindow, AllowedTo
<1> QED BY <1>4, <1>5, <1>6 DEF LimitInv

\* The limiters' invariant holds of every state.
THEOREM LimitInvariance == LimitSpec => []LimitInv
<1>1. LimitInit => LimitInv
  BY FreshLimiters
<1>2. ASSUME LimitInv, [LimitNext]_limitVars
      PROVE  LimitInv'
  <2>1. CASE Restart
    <3>1. LimitInit'
      BY <2>1 DEF Restart, LimitInit
    <3> QED BY <3>1, FreshLimiters, PTL
  <2>2. ASSUME NEW key \in Keys, NEW gap \in Gaps, Call(key, gap)
        PROVE  LimitInv'
    BY <1>2, <2>2, CallMaps, CallBudget, CallCooldown DEF LimitInv
  <2>3. CASE UNCHANGED limitVars
    <3> USE <1>2, <2>3 DEF limitVars, LimitInv
    <3>1. LimitTypeOK'
      BY DEF LimitTypeOK
    <3>2. /\ BucketsAlike(bucket.seen, unpruned.bucket, clock)'
          /\ CooldownsAlike(cooldown.seen, unpruned.cooldown, clock)'
      OBVIOUS
    <3>3. /\ \A k : AllowedTo(k)' = AllowedTo(k)
      BY DEF AllowedTo
    <3>4. Budget' /\ SpentWithinBudget'
      BY <3>3 DEF Budget, SpentWithinBudget
    <3>5. LatestReady' /\ RefusedWithinWindow'
      BY DEF LatestReady, RefusedWithinWindow
    <3> QED BY <3>1, <3>2, <3>4, <3>5
  <2> QED BY <1>2, <2>1, <2>2, <2>3 DEF LimitNext
<1> QED BY <1>1, <1>2, PTL DEF LimitSpec

\* The middleware's bucket may forget its full keys.
THEOREM BucketKept == LimitSpec => []BucketHolds
<1>1. LimitInv => BucketHolds
  <2> SUFFICES ASSUME LimitInv PROVE BucketHolds
    OBVIOUS
  <2>1. ASSUME NEW k \in Keys, NEW gap \in Gaps
        PROVE  Allows(BucketAt(clock + gap).seen, k, clock + gap)
                 <=> Allows(unpruned.bucket, k, clock + gap)
    <3>1. gap \in Nat /\ clock \in Nat /\ unpruned.bucket \in Maps(Buckets)
      BY RateLimitAssumption DEF LimitInv, LimitTypeOK
    <3>2. PICK time \in Nat : time = clock + gap
      BY <3>1
    <3>3. /\ BucketAt(time).seen \in Maps(Buckets)
          /\ BucketsAlike(BucketAt(time).seen, unpruned.bucket, time)
      BY <3>1, <3>2, BucketSweep
    <3>4. \A j \in DOMAIN unpruned.bucket : unpruned.bucket[j].last <= time
      <4>1. ASSUME NEW j \in DOMAIN unpruned.bucket
            PROVE  unpruned.bucket[j].last \in Nat /\ unpruned.bucket[j].last <= clock
        <5>1. unpruned.bucket[j] \in Buckets
          BY <3>1, MapShape
        <5> QED BY <5>1 DEF Buckets, LimitInv, LimitTypeOK
      <4> QED BY <3>1, <3>2, <4>1
    <3>5. Tokens(BucketAt(time).seen, k, time) = Tokens(unpruned.bucket, k, time)
      BY <3>1, <3>3, <3>4, SameTokens
    <3> QED BY <3>2, <3>5 DEF Allows
  <2>2. SpentWithinBudget
    BY DEF LimitInv
  <2> QED BY <2>1, <2>2 DEF BucketHolds, SpentWithinBudget, AllowedTo
<1> QED BY <1>1, LimitInvariance, PTL

\* The cooldown may forget what is past its window, and refuses within it only.
THEOREM CooldownKept == LimitSpec => []CooldownHolds
<1>1. LimitInv => CooldownHolds
  <2> SUFFICES ASSUME LimitInv PROVE CooldownHolds
    OBVIOUS
  <2>1. ASSUME NEW k \in Keys, NEW gap \in Gaps
        PROVE  Ready(CooldownAt(clock + gap).seen, k, clock + gap)
                 <=> Ready(unpruned.cooldown, k, clock + gap)
    <3>1. gap \in Nat
      BY RateLimitAssumption
    <3>2. PICK time : time = clock + gap
      OBVIOUS
    <3>3. CooldownsAlike(CooldownAt(time).seen, unpruned.cooldown, time)
      BY <3>1, <3>2, CooldownSweep
    <3>4. Ready(CooldownAt(time).seen, k, time) <=> Ready(unpruned.cooldown, k, time)
      BY <3>3, SameReady
    <3> QED BY <3>2, <3>4
  <2>2. RefusedWithinWindow
    BY DEF LimitInv
  <2> QED BY <2>1, <2>2 DEF CooldownHolds, RefusedWithinWindow
<1> QED BY <1>1, LimitInvariance, PTL
=============================================================================
