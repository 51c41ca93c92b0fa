---------------------------- MODULE IdentityProofs ----------------------------
(***************************************************************************)
(* The identity root for any number of requests, replicas, deliveries and   *)
(* sign-ins: one local user is made and only committed users are answered;  *)
(* a Clerk account that is acknowledged is there, one that is live is not   *)
(* refused, and one that is deleted stays so.                               *)
(***************************************************************************)
EXTENDS Identity, FiniteSetTheorems, TLAPS

-----------------------------------------------------------------------------
(* AUTH_MODE=none: the inductive invariant *)

\* A lock is held by a request that is between the statements it guards, and by no other.
LocksGuard ==
  \A p \in Requests :
    /\ advisory = p => Local!At(p, "reselect") \/ Local!At(p, "commit")
    /\ Local!At(p, "reselect") => advisory = p
    /\ userLock = p <=> Local!At(p, "count") \/ Local!At(p, "commitToken")

\* At most one user, and whoever inserts it still holds the provisioning lock and was right
\* that there is none.
NewUser ==
  /\ \A u, v \in users : u = v
  /\ \A p \in Requests :
       /\ Local!At(p, "commit") /\ req[p].new => advisory = p /\ users = {}
       /\ Local!At(p, "token") => ~req[p].new

\* What was found is committed and stays: a request past its authentication has a user.
UserKnown ==
  /\ tokens > 0 => users # {}
  /\ \A p \in Requests :
       /\ Local!At(p, "commit") => req[p].id # None /\ (req[p].new \/ req[p].id \in users)
       /\ (\E pc \in {"authed", "count", "commitToken"} : Local!At(p, pc)) => users # {}

\* The count a creation was allowed by is still below the cap when the token is inserted.
QuotaKept ==
  /\ tokens <= TokenCap
  /\ \A p \in Requests : Local!At(p, "commitToken") => tokens < TokenCap

LocalInv ==
  Local!TypeOK /\ answered \subseteq users /\ LocksGuard /\ NewUser /\ UserKnown /\ QuotaKept

-----------------------------------------------------------------------------
(* AUTH_MODE=none: the steps *)

\* The user the SELECT ... ORDER BY id LIMIT 1 returns is one of the committed users.
LEMMA MinUser ==
  ASSUME LocalInv, users # {}
  PROVE  Local!Min(users) \in users
<1>1. PICK u \in users : TRUE
  OBVIOUS
<1>2. \A v \in users : v = u
  BY <1>1 DEF LocalInv, NewUser
<1>3. \A y \in users : u <= y
  BY <1>1, <1>2, IdentityAssumption DEF LocalInv, Local!TypeOK, Local!LocalConstants
<1> QED BY <1>1, <1>3 DEF Local!Min

\* The statements that find or make the local user.
LEMMA LocalResolves ==
  ASSUME LocalInv, NEW p \in Requests,
         \/ Local!FindToken(p) \/ Local!GetCached(p) \/ Local!Select(p)
         \/ Local!LockProvisioning(p) \/ Local!Reselect(p) \/ Local!Commit(p)
  PROVE  LocalInv'
<1> USE IdentityAssumption DEF Local!LocalConstants, Local!At, LocalInv, Local!TypeOK,
        Local!Reqs, LocksGuard, NewUser, UserKnown, QuotaKept
<1>1. CASE Local!FindToken(p)
  <2>1. /\ req[p] \in Local!Reqs /\ req[p].pc = "token" /\ req[p].replica \in Replicas
        /\ Local!Local(req[p].replica) \in {"get", "select"}
    BY <1>1 DEF Local!FindToken, Local!Local
  <2>2. CASE tokens > 0 /\ req' = [req EXCEPT ![p].pc = "commit", ![p].id = Local!Min(users)]
    <3>1. Local!Min(users) \in users /\ Local!Min(users) \in 1 .. MaxId /\ None \notin 1 .. MaxId
      BY <2>2, MinUser
    <3>2. req' = [req EXCEPT ![p] = [req[p] EXCEPT !.pc = "commit", !.id = Local!Min(users)]]
      BY <2>1, <2>2
    <3>3. [req[p] EXCEPT !.pc = "commit", !.id = Local!Min(users)] \in Local!Reqs
      BY <2>1, <3>1
    <3> QED BY <1>1, <2>1, <3>1, <3>2, <3>3 DEF Local!FindToken
  <2>3. CASE Local!Goto(p, Local!Local(req[p].replica))
    BY <1>1, <2>1, <2>3 DEF Local!FindToken, Local!Goto
  <2> QED BY <1>1, <2>2, <2>3 DEF Local!FindToken
<1>2. CASE Local!GetCached(p)
  BY <1>2 DEF Local!GetCached, Local!Resolve, Local!Goto
<1>3. CASE Local!Select(p)
  BY <1>3, MinUser DEF Local!Select, Local!Resolve, Local!Goto
<1>4. CASE Local!LockProvisioning(p)
  BY <1>4 DEF Local!LockProvisioning, Local!Goto
<1>5. CASE Local!Reselect(p)
  BY <1>5, MinUser DEF Local!Reselect, Local!Resolve
<1>6. CASE Local!Commit(p)
  BY <1>6 DEF Local!Commit, Local!Release, Local!Released, Local!Goto
<1> QED BY <1>1, <1>2, <1>3, <1>4, <1>5, <1>6

\* The handler's statements, arrivals and failures.
LEMMA LocalHandles ==
  ASSUME LocalInv, NEW p \in Requests,
         \/ Local!Finish(p) \/ Local!LockUser(p) \/ Local!Count(p) \/ Local!CommitToken(p)
         \/ Local!DeleteToken(p) \/ Local!Fail(p)
         \/ \E r \in Replicas : Local!Authenticate(p, r) \/ Local!AuthenticateToken(p, r)
  PROVE  LocalInv'
<1> USE IdentityAssumption DEF Local!LocalConstants, Local!At, LocalInv, Local!TypeOK,
        Local!Reqs, LocksGuard, NewUser, UserKnown, QuotaKept
<1>1. CASE Local!Finish(p)
  BY <1>1 DEF Local!Finish
<1>2. CASE Local!LockUser(p)
  BY <1>2 DEF Local!LockUser, Local!Goto
<1>3. CASE Local!Count(p)
  BY <1>3 DEF Local!Count, Local!Release, Local!Released, Local!Goto
<1>4. CASE Local!CommitToken(p)
  BY <1>4 DEF Local!CommitToken, Local!Release, Local!Released
<1>5. CASE Local!DeleteToken(p)
  BY <1>5 DEF Local!DeleteToken
<1>6. CASE Local!Fail(p)
  BY <1>6 DEF Local!Fail, Local!Release, Local!Released
<1>7. ASSUME NEW r \in Replicas, Local!Authenticate(p, r) \/ Local!AuthenticateToken(p, r)
      PROVE  LocalInv'
  <2>1. PICK pc \in {"token", "get", "select"} : Local!Arrive(p, r, pc)
    BY <1>7 DEF Local!Authenticate, Local!AuthenticateToken, Local!Local
  <2> QED BY <2>1 DEF Local!Arrive
<1> QED BY <1>1, <1>2, <1>3, <1>4, <1>5, <1>6, <1>7

\* No request yet.
LEMMA LocalInit == Local!Init => LocalInv
BY IdentityAssumption DEF Local!LocalConstants, Local!Init, LocalInv, Local!TypeOK,
   Local!At, LocksGuard, NewUser, UserKnown, QuotaKept

\* Every step keeps the invariant, and one that leaves the variables alone does.
LEMMA LocalStep == LocalInv /\ (Local!Next \/ UNCHANGED localVars) => LocalInv'
<1>1. ASSUME LocalInv, Local!Next PROVE LocalInv'
  <2>1. PICK p \in Requests :
          \/ \/ Local!FindToken(p) \/ Local!GetCached(p) \/ Local!Select(p)
             \/ Local!LockProvisioning(p) \/ Local!Reselect(p) \/ Local!Commit(p)
          \/ \/ Local!Finish(p) \/ Local!LockUser(p) \/ Local!Count(p) \/ Local!CommitToken(p)
             \/ Local!DeleteToken(p) \/ Local!Fail(p)
             \/ \E r \in Replicas : Local!Authenticate(p, r) \/ Local!AuthenticateToken(p, r)
    BY <1>1 DEF Local!Next
  <2> QED BY <1>1, <2>1, LocalResolves, LocalHandles
<1>2. ASSUME LocalInv, UNCHANGED localVars PROVE LocalInv'
  BY <1>2 DEF localVars, LocalInv, Local!TypeOK, Local!At, LocksGuard, NewUser, UserKnown,
     QuotaKept
<1> QED BY <1>1, <1>2

-----------------------------------------------------------------------------
(* A Clerk account: the inductive invariant *)

\* What a transaction at a statement is, that an event is delivered once it is emitted, and
\* that nothing starts when svix has given up.
Roles ==
  \A p \in Clerk!Slots : tx[p] # None =>
    /\ tx[p].kind # "signin" => tx[p].kind \in emitted
    /\ tx[p].pc \in {"mark", "delete"} => tx[p].kind = "deleted"
    /\ tx[p].pc = "set" => tx[p].kind \in {"created", "updated"}
    /\ tx[p].pc \in {"check", "create"} => tx[p].kind = "created"
    /\ tx[p].pc \in {"insert", "conflict", "reread"} => tx[p].kind = "signin"
    /\ tx[p].late => erased
    /\ day < RetryDays

\* The tombstone is written before the deletion commits, by nobody over another's, and is
\* there for as long as a webhook may be retried.
Tombstone ==
  /\ tomb.by # {} => tomb.cur = None /\ tomb.next # None
  /\ erased /\ day < RetryDays => tomb.cur # None
  /\ \A p \in Clerk!Slots :
       tx[p] # None /\ tx[p].kind = "deleted" /\ tx[p].pc # "mark" => Clerk!Seen(tomb, p) # None

\* What begins after the deletion meets the tombstone before it inserts, and updates only a
\* row that is there.
LateWrites ==
  \A p \in Clerk!Slots : tx[p] # None /\ tx[p].late =>
    /\ tx[p].pc \notin {"create", "conflict"}
    /\ p \in row.by /\ row.next # None => row.cur # None

\* Until Clerk deletes the account: nothing removes its row, a sign-in finds it there after
\* its INSERT, and so does user.created, with its email, before its 204.
LiveTables ==
  /\ tomb.cur = None /\ tomb.by = {} /\ ~erased
  /\ row.by # {} => row.next # None
  /\ row.by # {} /\ row.next = "" => row.cur = None
  /\ "created" \in acked => row.cur \in {"first", "second"}

LiveTx(p) ==
  tx[p] # None =>
    /\ ~tx[p].refused
    /\ tx[p].pc = "reread" => Clerk!Seen(row, p) # None
    /\ tx[p].kind = "created" /\ tx[p].pc = "commit" => Clerk!Seen(row, p) \in {"first", "second"}

LiveAccount == "deleted" \notin emitted => LiveTables /\ \A p \in Clerk!Slots : LiveTx(p)

ClerkInv == Clerk!TypeOK /\ Roles /\ Tombstone /\ LateWrites /\ LiveAccount

-----------------------------------------------------------------------------
(* A Clerk account: rows and transactions *)

\* The statements between a transaction's begin and its end.
PCs == {"get", "set", "check", "create", "mark", "delete", "insert", "conflict", "reread",
        "commit"}

\* The contents and the only writer of a row.
LEMMA RowFacts ==
  ASSUME NEW V, NEW r \in Clerk!Rows(V, Clerk!Slots)
  PROVE  /\ r.cur \in V /\ r.next \in V
         /\ r.by = {} => r.next = r.cur
         /\ r.by \subseteq Clerk!Slots
         /\ \A p \in r.by : r.by = {p}
BY DEF Clerk!Rows

\* Writing, committing and rolling back yield rows.
LEMMA RowTypes ==
  ASSUME NEW V, NEW r \in Clerk!Rows(V, Clerk!Slots), NEW v \in V, NEW p \in Clerk!Slots
  PROVE  /\ Clerk!Row(v) \in Clerk!Rows(V, Clerk!Slots)
         /\ Clerk!Written(r, p, v) \in Clerk!Rows(V, Clerk!Slots)
         /\ Clerk!Committed(r, p) \in Clerk!Rows(V, Clerk!Slots)
         /\ Clerk!RolledBack(r, p) \in Clerk!Rows(V, Clerk!Slots)
<1>1. \A w \in V : Clerk!Row(w) \in Clerk!Rows(V, Clerk!Slots)
  BY DEF Clerk!Row, Clerk!Rows
<1>2. Clerk!Written(r, p, v) \in Clerk!Rows(V, Clerk!Slots)
  BY DEF Clerk!Written, Clerk!Rows
<1> QED BY <1>1, <1>2, RowFacts DEF Clerk!Committed, Clerk!RolledBack

\* Transaction p goes to its next statement: all else of it stays, and so do the others.
Advances(p, pc) ==
  /\ tx' \in [Clerk!Slots -> Clerk!Txs \cup {None}]
  /\ tx'[p] # None /\ tx'[p].pc = pc /\ tx'[p].kind = tx[p].kind
  /\ tx'[p].late = tx[p].late /\ tx'[p].refused = tx[p].refused
  /\ \A q \in Clerk!Slots \ {p} : tx'[q] = tx[q]

\* That is what Goto does.
LEMMA Advance ==
  ASSUME ClerkInv, NEW p \in Clerk!Slots, NEW pc \in PCs, tx[p] # None, Clerk!Goto(p, pc)
  PROVE  Advances(p, pc)
<1>1. /\ tx \in [Clerk!Slots -> Clerk!Txs \cup {None}] /\ tx[p] \in Clerk!Txs
      /\ None \notin Clerk!Txs
  BY IdentityAssumption DEF ClerkInv, Clerk!TypeOK, Clerk!ClerkConstants
<1>2. [tx[p] EXCEPT !.pc = pc] \in Clerk!Txs
  BY <1>1 DEF Clerk!Txs, PCs
<1>3. tx' = [tx EXCEPT ![p] = [tx[p] EXCEPT !.pc = pc]]
  BY <1>1 DEF Clerk!Goto
<1> QED BY <1>1, <1>2, <1>3 DEF Clerk!Txs, Advances

\* The types the other conjuncts need, the rows' spelt out.
LEMMA Shape ==
  ASSUME ClerkInv
  PROVE  /\ row \in Clerk!Rows(Clerk!Emails \cup {None}, Clerk!Slots)
         /\ tomb \in Clerk!Rows(0 .. LastDay \cup {None}, Clerk!Slots)
         /\ row.cur \in Clerk!Emails \cup {None} /\ row.next \in Clerk!Emails \cup {None}
         /\ row.by = {} => row.next = row.cur
         /\ row.by \subseteq Clerk!Slots /\ \A p \in row.by : row.by = {p}
         /\ tomb.cur \in 0 .. LastDay \cup {None} /\ tomb.next \in 0 .. LastDay \cup {None}
         /\ tomb.by = {} => tomb.next = tomb.cur
         /\ tomb.by \subseteq Clerk!Slots /\ \A p \in tomb.by : tomb.by = {p}
         /\ None \notin Clerk!Emails /\ None \notin Nat /\ day \in Nat
         /\ RetryDays \in Nat \ {0} /\ LastDay \in Nat
         /\ \A p \in Clerk!Slots : tx[p] # None => tx[p].kind \in Clerk!Events \cup {"signin"}
<1>1. /\ row \in Clerk!Rows(Clerk!Emails \cup {None}, Clerk!Slots)
      /\ tomb \in Clerk!Rows(0 .. LastDay \cup {None}, Clerk!Slots)
      /\ day \in 0 .. LastDay /\ tx \in [Clerk!Slots -> Clerk!Txs \cup {None}]
  BY DEF ClerkInv, Clerk!TypeOK
<1>2. None \notin Clerk!Emails /\ None \notin Nat /\ RetryDays \in Nat \ {0} /\ LastDay \in Nat
  BY IdentityAssumption DEF Clerk!ClerkConstants
<1>3. \A p \in Clerk!Slots : tx[p] # None => tx[p].kind \in Clerk!Events \cup {"signin"}
  BY <1>1 DEF Clerk!Txs
<1> QED BY <1>1, <1>2, <1>3, RowFacts

\* Types after a statement of p that writes no more than a row of its own.
LEMMA AdvanceType ==
  ASSUME ClerkInv, NEW p \in Clerk!Slots, NEW pc, Advances(p, pc), Clerk!Keep,
         row' = row \/ \E v \in Clerk!Emails \cup {None} : row' = Clerk!Written(row, p, v),
         tomb' = tomb \/ tomb' = Clerk!Written(tomb, p, day)
  PROVE  Clerk!TypeOK'
<1>1. row' \in Clerk!Rows(Clerk!Emails \cup {None}, Clerk!Slots)
  <2>1. row \in Clerk!Rows(Clerk!Emails \cup {None}, Clerk!Slots)
    BY Shape
  <2>2. \A v \in Clerk!Emails \cup {None} :
          Clerk!Written(row, p, v) \in Clerk!Rows(Clerk!Emails \cup {None}, Clerk!Slots)
    BY <2>1, RowTypes
  <2> QED BY <2>1, <2>2
<1>2. tomb' \in Clerk!Rows(0 .. LastDay \cup {None}, Clerk!Slots)
  <2>1. /\ tomb \in Clerk!Rows(0 .. LastDay \cup {None}, Clerk!Slots)
        /\ day \in 0 .. LastDay \cup {None}
    BY Shape DEF ClerkInv, Clerk!TypeOK
  <2>2. Clerk!Written(tomb, p, day) \in Clerk!Rows(0 .. LastDay \cup {None}, Clerk!Slots)
    BY <2>1, RowTypes
  <2> QED BY <2>1, <2>2
<1>3. \A q \in row'.by \cup tomb'.by : tx'[q] # None
  <2>1. row'.by \subseteq row.by \cup {p} /\ tomb'.by \subseteq tomb.by \cup {p}
    BY DEF Clerk!Written
  <2> QED BY <2>1, Shape DEF Advances, ClerkInv, Clerk!TypeOK
<1> QED BY <1>1, <1>2, <1>3 DEF Advances, ClerkInv, Clerk!TypeOK, Clerk!Keep

\* The tombstone after a statement of p that is not Mark.
LEMMA AdvanceTombstone ==
  ASSUME ClerkInv, NEW p \in Clerk!Slots, NEW pc, Advances(p, pc), Clerk!Keep,
         tx[p] # None, tx[p].pc # "mark", UNCHANGED tomb
  PROVE  Tombstone'
BY DEF Advances, Clerk!Keep, ClerkInv, Tombstone, Clerk!Seen

-----------------------------------------------------------------------------
(* A Clerk account: the statements *)

\* get_by_clerk_id: user.created goes on to its 204 only when the row has its email.
LEMMA ClerkGet ==
  ASSUME ClerkInv, NEW p \in Clerk!Slots, Clerk!Get(p)
  PROVE  ClerkInv'
<1>1. /\ tx[p] # None /\ tx[p].pc = "get" /\ Clerk!Keep
      /\ Clerk!Goto(p, Clerk!AfterGet(tx[p].kind, Clerk!Seen(row, p)))
  BY DEF Clerk!Get, Clerk!At
<1>2. UNCHANGED <<row, tomb>>
  BY DEF Clerk!Get
<1>3. Advances(p, Clerk!AfterGet(tx[p].kind, Clerk!Seen(row, p)))
  <2>1. Clerk!AfterGet(tx[p].kind, Clerk!Seen(row, p)) \in PCs
    BY Shape, <1>1 DEF PCs, Clerk!AfterGet, Clerk!Events
  <2> QED BY <1>1, <2>1, Advance
<1>4. Clerk!TypeOK'
  BY <1>1, <1>2, <1>3, AdvanceType
<1>5. Roles'
  BY <1>1, <1>3, Shape
     DEF Advances, Clerk!Keep, ClerkInv, Roles, Clerk!AfterGet, Clerk!Payload, Clerk!Events
<1>6. Tombstone'
  BY <1>1, <1>2, <1>3, AdvanceTombstone
<1>7. LateWrites'
  BY <1>1, <1>2, <1>3, Shape
     DEF Advances, Clerk!Keep, ClerkInv, LateWrites, Clerk!AfterGet, Clerk!Payload, Clerk!Events
<1>8. LiveAccount'
  <2> SUFFICES ASSUME "deleted" \notin emitted
               PROVE  LiveTables' /\ \A q \in Clerk!Slots : LiveTx(q)'
    BY <1>1 DEF LiveAccount, Clerk!Keep
  <2>1. tx[p].kind # "deleted" /\ LiveTables /\ \A q \in Clerk!Slots : LiveTx(q)
    BY <1>1 DEF ClerkInv, Roles, LiveAccount
  <2>2. LiveTables'
    BY <1>1, <1>2, <2>1 DEF Clerk!Keep, LiveTables
  <2>3. ASSUME NEW q \in Clerk!Slots \ {p} PROVE LiveTx(q)'
    <3>1. LiveTx(q) /\ tx'[q] = tx[q]
      BY <1>3, <2>1 DEF Advances
    <3> QED BY <1>2, <2>1, <3>1, Shape DEF LiveTx, LiveTables, Clerk!Seen
  <2>4. LiveTx(p)'
    <3>1. Clerk!Seen(tomb, p) = None
      BY <2>1 DEF LiveTables, Clerk!Seen
    <3> QED BY <1>1, <1>2, <1>3, <2>1, <3>1, Shape
            DEF Advances, LiveTx, LiveTables, ClerkInv, Roles, Clerk!Emails, Clerk!Seen,
                Clerk!AfterGet, Clerk!Payload, Clerk!Events
  <2> QED BY <2>2, <2>3, <2>4
<1> QED BY <1>4, <1>5, <1>6, <1>7, <1>8 DEF ClerkInv

\* The UPDATE of a row that is there.
LEMMA ClerkSetEmail ==
  ASSUME ClerkInv, NEW p \in Clerk!Slots, Clerk!SetEmail(p), row.cur # None
  PROVE  ClerkInv'
<1>1. tx[p] # None /\ tx[p].pc = "set" /\ Clerk!Keep /\ Clerk!Goto(p, "commit")
  BY DEF Clerk!SetEmail, Clerk!At
<1>2. /\ row.cur # None /\ Clerk!Free(row, p) /\ UNCHANGED tomb
      /\ row' = Clerk!Written(row, p, Clerk!Payload(tx[p].kind))
  BY DEF Clerk!SetEmail
<1>3. Advances(p, "commit")
  BY <1>1, Advance DEF PCs
<1>4. Clerk!TypeOK'
  <2>1. Clerk!Payload(tx[p].kind) \in Clerk!Emails
    BY DEF Clerk!Payload, Clerk!Emails
  <2> QED BY <1>1, <1>2, <1>3, <2>1, AdvanceType
<1>5. Roles'
  BY <1>1, <1>3, Shape DEF Advances, Clerk!Keep, ClerkInv, Roles
<1>6. Tombstone'
  BY <1>1, <1>2, <1>3, AdvanceTombstone
<1>7. LateWrites'
  BY <1>1, <1>2, <1>3, Shape
     DEF Advances, Clerk!Keep, ClerkInv, LateWrites, Clerk!Written, Clerk!Free, Clerk!Payload
<1>8. LiveAccount'
  <2> SUFFICES ASSUME "deleted" \notin emitted
               PROVE  LiveTables' /\ \A q \in Clerk!Slots : LiveTx(q)'
    BY <1>1 DEF LiveAccount, Clerk!Keep
  <2>1. tx[p].kind # "deleted" /\ LiveTables /\ \A q \in Clerk!Slots : LiveTx(q)
    BY <1>1 DEF ClerkInv, Roles, LiveAccount
  <2>2. LiveTables'
    BY <1>1, <1>2, <2>1, Shape
       DEF Clerk!Keep, LiveTables, Clerk!Emails, Clerk!Written, Clerk!Free, Clerk!Payload
  <2>3. ASSUME NEW q \in Clerk!Slots \ {p} PROVE LiveTx(q)'
    <3>1. LiveTx(q) /\ tx'[q] = tx[q]
      BY <1>3, <2>1 DEF Advances
    <3> QED BY <1>2, <2>1, <3>1, Shape
               DEF LiveTx, LiveTables, Clerk!Seen, Clerk!Written, Clerk!Free, Clerk!Payload
  <2>4. LiveTx(p)'
    <3>1. Clerk!Seen(tomb, p) = None
      BY <2>1 DEF LiveTables, Clerk!Seen
    <3> QED BY <1>1, <1>2, <1>3, <2>1, <3>1, Shape
            DEF Advances, LiveTx, LiveTables, ClerkInv, Roles, Clerk!Emails, Clerk!Seen,
                Clerk!Written, Clerk!Free, Clerk!Payload
  <2> QED BY <2>2, <2>3, <2>4
<1> QED BY <1>4, <1>5, <1>6, <1>7, <1>8 DEF ClerkInv

\* The INSERT of a row that is not there.
LEMMA ClerkCreate ==
  ASSUME ClerkInv, NEW p \in Clerk!Slots, Clerk!Create(p), row.cur = None
  PROVE  ClerkInv'
<1>1. tx[p] # None /\ tx[p].pc = "create" /\ Clerk!Keep /\ Clerk!Goto(p, "commit")
  BY DEF Clerk!Create, Clerk!At
<1>2. /\ row.cur = None /\ ~Clerk!Changing(row, p) /\ UNCHANGED tomb
      /\ row' = Clerk!Written(row, p, Clerk!Payload("created"))
  BY DEF Clerk!Create
<1>3. Advances(p, "commit")
  BY <1>1, Advance DEF PCs
<1>4. Clerk!TypeOK'
  <2>1. Clerk!Payload("created") \in Clerk!Emails
    BY DEF Clerk!Payload, Clerk!Emails
  <2> QED BY <1>1, <1>2, <1>3, <2>1, AdvanceType
<1>5. Roles'
  BY <1>1, <1>3, Shape DEF Advances, Clerk!Keep, ClerkInv, Roles
<1>6. Tombstone'
  BY <1>1, <1>2, <1>3, AdvanceTombstone
<1>7. LateWrites'
  BY <1>1, <1>2, <1>3, Shape
     DEF Advances, Clerk!Keep, ClerkInv, LateWrites, Clerk!Written, Clerk!Free, Clerk!Changing,
         Clerk!Payload
<1>8. LiveAccount'
  <2> SUFFICES ASSUME "deleted" \notin emitted
               PROVE  LiveTables' /\ \A q \in Clerk!Slots : LiveTx(q)'
    BY <1>1 DEF LiveAccount, Clerk!Keep
  <2>1. tx[p].kind # "deleted" /\ LiveTables /\ \A q \in Clerk!Slots : LiveTx(q)
    BY <1>1 DEF ClerkInv, Roles, LiveAccount
  <2>2. LiveTables'
    BY <1>1, <1>2, <2>1, Shape
       DEF Clerk!Keep, LiveTables, Clerk!Emails, Clerk!Written, Clerk!Free, Clerk!Changing,
           Clerk!Payload
  <2>3. ASSUME NEW q \in Clerk!Slots \ {p} PROVE LiveTx(q)'
    <3>1. LiveTx(q) /\ tx'[q] = tx[q]
      BY <1>3, <2>1 DEF Advances
    <3> QED BY <1>2, <2>1, <3>1, Shape
               DEF LiveTx, LiveTables, Clerk!Seen, Clerk!Written, Clerk!Free, Clerk!Changing,
                   Clerk!Payload
  <2>4. LiveTx(p)'
    <3>1. Clerk!Seen(tomb, p) = None
      BY <2>1 DEF LiveTables, Clerk!Seen
    <3> QED BY <1>1, <1>2, <1>3, <2>1, <3>1, Shape
            DEF Advances, LiveTx, LiveTables, ClerkInv, Roles, Clerk!Emails, Clerk!Seen,
                Clerk!Written, Clerk!Free, Clerk!Changing, Clerk!Payload
  <2> QED BY <2>2, <2>3, <2>4
<1> QED BY <1>4, <1>5, <1>6, <1>7, <1>8 DEF ClerkInv

\* is_clerk_deleted: a delivery that began after the deletion sees the tombstone.
LEMMA ClerkCheck ==
  ASSUME ClerkInv, NEW p \in Clerk!Slots, Clerk!Check(p)
  PROVE  ClerkInv'
<1>1. /\ tx[p] # None /\ tx[p].pc = "check" /\ Clerk!Keep
      /\ Clerk!Goto(p, (IF Clerk!Seen(tomb, p) = None THEN "create" ELSE "commit"))
  BY DEF Clerk!Check, Clerk!At
<1>2. UNCHANGED <<row, tomb>>
  BY DEF Clerk!Check
<1>3. Advances(p, (IF Clerk!Seen(tomb, p) = None THEN "create" ELSE "commit"))
  BY <1>1, Advance DEF PCs
<1>4. Clerk!TypeOK'
  BY <1>1, <1>2, <1>3, AdvanceType
<1>5. Roles'
  BY <1>1, <1>3, Shape DEF Advances, Clerk!Keep, ClerkInv, Roles
<1>6. Tombstone'
  BY <1>1, <1>2, <1>3, AdvanceTombstone
<1>7. LateWrites'
  BY <1>1, <1>2, <1>3, Shape
     DEF Advances, Clerk!Keep, ClerkInv, Roles, Tombstone, LateWrites, Clerk!Seen
<1>8. LiveAccount'
  <2> SUFFICES ASSUME "deleted" \notin emitted
               PROVE  LiveTables' /\ \A q \in Clerk!Slots : LiveTx(q)'
    BY <1>1 DEF LiveAccount, Clerk!Keep
  <2>1. tx[p].kind # "deleted" /\ LiveTables /\ \A q \in Clerk!Slots : LiveTx(q)
    BY <1>1 DEF ClerkInv, Roles, LiveAccount
  <2>2. LiveTables'
    BY <1>1, <1>2, <2>1 DEF Clerk!Keep, LiveTables
  <2>3. ASSUME NEW q \in Clerk!Slots \ {p} PROVE LiveTx(q)'
    <3>1. LiveTx(q) /\ tx'[q] = tx[q]
      BY <1>3, <2>1 DEF Advances
    <3> QED BY <1>2, <2>1, <3>1, Shape DEF LiveTx, LiveTables, Clerk!Seen
  <2>4. LiveTx(p)'
    <3>1. Clerk!Seen(tomb, p) = None
      BY <2>1 DEF LiveTables, Clerk!Seen
    <3> QED BY <1>1, <1>2, <1>3, <2>1, <3>1, Shape
            DEF Advances, LiveTx, LiveTables, ClerkInv, Roles, Clerk!Emails, Clerk!Seen
  <2> QED BY <2>2, <2>3, <2>4
<1> QED BY <1>4, <1>5, <1>6, <1>7, <1>8 DEF ClerkInv

\* The SELECT of the sign-in's INSERT: one that began after the deletion sees the tombstone.
LEMMA ClerkInsert ==
  ASSUME ClerkInv, NEW p \in Clerk!Slots, Clerk!Insert(p)
  PROVE  ClerkInv'
<1>1. /\ tx[p] # None /\ tx[p].pc = "insert" /\ Clerk!Keep
      /\ Clerk!Goto(p, (IF Clerk!Seen(tomb, p) = None THEN "conflict" ELSE "reread"))
  BY DEF Clerk!Insert, Clerk!At
<1>2. UNCHANGED <<row, tomb>>
  BY DEF Clerk!Insert
<1>3. Advances(p, (IF Clerk!Seen(tomb, p) = None THEN "conflict" ELSE "reread"))
  BY <1>1, Advance DEF PCs
<1>4. Clerk!TypeOK'
  BY <1>1, <1>2, <1>3, AdvanceType
<1>5. Roles'
  BY <1>1, <1>3, Shape DEF Advances, Clerk!Keep, ClerkInv, Roles
<1>6. Tombstone'
  BY <1>1, <1>2, <1>3, AdvanceTombstone
<1>7. LateWrites'
  BY <1>1, <1>2, <1>3, Shape
     DEF Advances, Clerk!Keep, ClerkInv, Roles, Tombstone, LateWrites, Clerk!Seen
<1>8. LiveAccount'
  <2> SUFFICES ASSUME "deleted" \notin emitted
               PROVE  LiveTables' /\ \A q \in Clerk!Slots : LiveTx(q)'
    BY <1>1 DEF LiveAccount, Clerk!Keep
  <2>1. tx[p].kind # "deleted" /\ LiveTables /\ \A q \in Clerk!Slots : LiveTx(q)
    BY <1>1 DEF ClerkInv, Roles, LiveAccount
  <2>2. LiveTables'
    BY <1>1, <1>2, <2>1 DEF Clerk!Keep, LiveTables
  <2>3. ASSUME NEW q \in Clerk!Slots \ {p} PROVE LiveTx(q)'
    <3>1. LiveTx(q) /\ tx'[q] = tx[q]
      BY <1>3, <2>1 DEF Advances
    <3> QED BY <1>2, <2>1, <3>1, Shape DEF LiveTx, LiveTables, Clerk!Seen
  <2>4. LiveTx(p)'
    <3>1. Clerk!Seen(tomb, p) = None
      BY <2>1 DEF LiveTables, Clerk!Seen
    <3> QED BY <1>1, <1>2, <1>3, <2>1, <3>1, Shape
            DEF Advances, LiveTx, LiveTables, ClerkInv, Roles, Clerk!Emails, Clerk!Seen
  <2> QED BY <2>2, <2>3, <2>4
<1> QED BY <1>4, <1>5, <1>6, <1>7, <1>8 DEF ClerkInv

\* mark_clerk_deleted: the tombstone is there from here on.
LEMMA ClerkMark ==
  ASSUME ClerkInv, NEW p \in Clerk!Slots, Clerk!Mark(p)
  PROVE  ClerkInv'
<1>1. tx[p] # None /\ tx[p].pc = "mark" /\ Clerk!Keep /\ Clerk!Goto(p, "get")
  BY DEF Clerk!Mark, Clerk!At
<1>2. /\ UNCHANGED row /\ ~Clerk!Changing(tomb, p)
      /\ tomb' = IF tomb.cur = None THEN Clerk!Written(tomb, p, day) ELSE tomb
  BY DEF Clerk!Mark
<1>3. Advances(p, "get")
  BY <1>1, Advance DEF PCs
<1>4. Clerk!TypeOK'
  BY <1>1, <1>2, <1>3, AdvanceType
<1>5. Roles'
  BY <1>1, <1>3, Shape DEF Advances, Clerk!Keep, ClerkInv, Roles
<1>6. Tombstone'
  BY <1>1, <1>2, <1>3, Shape
     DEF Advances, Clerk!Keep, ClerkInv, Tombstone, Clerk!Seen, Clerk!Written, Clerk!Free,
         Clerk!Changing
<1>7. LateWrites'
  BY <1>1, <1>2, <1>3, Shape DEF Advances, Clerk!Keep, ClerkInv, LateWrites
<1>8. LiveAccount'
  BY <1>1 DEF Clerk!Keep, ClerkInv, Roles, LiveAccount
<1> QED BY <1>4, <1>5, <1>6, <1>7, <1>8 DEF ClerkInv

\* Only a deletion removes the row.
LEMMA ClerkDelete ==
  ASSUME ClerkInv, NEW p \in Clerk!Slots, Clerk!Delete(p)
  PROVE  ClerkInv'
<1>1. tx[p] # None /\ tx[p].pc = "delete" /\ Clerk!Keep /\ Clerk!Goto(p, "commit")
  BY DEF Clerk!Delete, Clerk!At
<1>2. Clerk!Free(row, p) /\ UNCHANGED tomb /\ row' = Clerk!Written(row, p, None)
  BY DEF Clerk!Delete
<1>3. Advances(p, "commit")
  BY <1>1, Advance DEF PCs
<1>4. Clerk!TypeOK'
  BY <1>1, <1>2, <1>3, AdvanceType
<1>5. Roles'
  BY <1>1, <1>3, Shape DEF Advances, Clerk!Keep, ClerkInv, Roles
<1>6. Tombstone'
  BY <1>1, <1>2, <1>3, AdvanceTombstone
<1>7. LateWrites'
  BY <1>1, <1>2, <1>3, Shape
     DEF Advances, Clerk!Keep, ClerkInv, LateWrites, Clerk!Written, Clerk!Free
<1>8. LiveAccount'
  BY <1>1 DEF Clerk!Keep, ClerkInv, Roles, LiveAccount
<1> QED BY <1>4, <1>5, <1>6, <1>7, <1>8 DEF ClerkInv

\* ON CONFLICT DO NOTHING: the row is there afterwards.
LEMMA ClerkConflict ==
  ASSUME ClerkInv, NEW p \in Clerk!Slots, Clerk!Conflict(p)
  PROVE  ClerkInv'
<1>1. tx[p] # None /\ tx[p].pc = "conflict" /\ Clerk!Keep /\ Clerk!Goto(p, "reread")
  BY DEF Clerk!Conflict, Clerk!At
<1>2. /\ ~Clerk!Changing(row, p) /\ UNCHANGED tomb
      /\ row' = IF row.cur = None THEN Clerk!Written(row, p, "") ELSE row
  BY DEF Clerk!Conflict
<1>3. Advances(p, "reread")
  BY <1>1, Advance DEF PCs
<1>4. Clerk!TypeOK'
  BY <1>1, <1>2, <1>3, AdvanceType DEF Clerk!Emails
<1>5. Roles'
  BY <1>1, <1>3, Shape DEF Advances, Clerk!Keep, ClerkInv, Roles
<1>6. Tombstone'
  BY <1>1, <1>2, <1>3, AdvanceTombstone
<1>7. LateWrites'
  BY <1>1, <1>2, <1>3, Shape
     DEF Advances, Clerk!Keep, ClerkInv, LateWrites, Clerk!Written, Clerk!Free, Clerk!Changing
<1>8. LiveAccount'
  <2> SUFFICES ASSUME "deleted" \notin emitted
               PROVE  LiveTables' /\ \A q \in Clerk!Slots : LiveTx(q)'
    BY <1>1 DEF LiveAccount, Clerk!Keep
  <2>1. tx[p].kind # "deleted" /\ LiveTables /\ \A q \in Clerk!Slots : LiveTx(q)
    BY <1>1 DEF ClerkInv, Roles, LiveAccount
  <2>2. LiveTables'
    BY <1>1, <1>2, <2>1, Shape
       DEF Clerk!Keep, LiveTables, Clerk!Emails, Clerk!Written, Clerk!Free, Clerk!Changing
  <2>3. ASSUME NEW q \in Clerk!Slots \ {p} PROVE LiveTx(q)'
    <3>1. LiveTx(q) /\ tx'[q] = tx[q]
      BY <1>3, <2>1 DEF Advances
    <3> QED BY <1>2, <2>1, <3>1, Shape
               DEF LiveTx, LiveTables, Clerk!Seen, Clerk!Written, Clerk!Free, Clerk!Changing
  <2>4. LiveTx(p)'
    <3>1. Clerk!Seen(tomb, p) = None
      BY <2>1 DEF LiveTables, Clerk!Seen
    <3> QED BY <1>1, <1>2, <1>3, <2>1, <3>1, Shape
            DEF Advances, LiveTx, LiveTables, ClerkInv, Roles, Clerk!Emails, Clerk!Seen,
                Clerk!Written, Clerk!Free, Clerk!Changing
  <2> QED BY <2>2, <2>3, <2>4
<1> QED BY <1>4, <1>5, <1>6, <1>7, <1>8 DEF ClerkInv

\* The sign-in's second SELECT: it is refused only when it sees no row.
LEMMA ClerkReread ==
  ASSUME ClerkInv, NEW p \in Clerk!Slots, Clerk!Reread(p)
  PROVE  ClerkInv'
<1>1. /\ tx[p] # None /\ tx[p].pc = "reread" /\ Clerk!Keep /\ UNCHANGED <<row, tomb>>
      /\ tx' = [tx EXCEPT ![p].pc = "commit", ![p].refused = (Clerk!Seen(row, p) = None)]
  BY DEF Clerk!Reread, Clerk!At
<1>2. /\ tx \in [Clerk!Slots -> Clerk!Txs \cup {None}] /\ tx[p] \in Clerk!Txs
      /\ None \notin Clerk!Txs
  BY <1>1, IdentityAssumption DEF ClerkInv, Clerk!TypeOK, Clerk!ClerkConstants
<1> DEFINE read == [tx[p] EXCEPT !.pc = "commit", !.refused = (Clerk!Seen(row, p) = None)]
<1>3. tx' = [tx EXCEPT ![p] = read] /\ read \in Clerk!Txs
  BY <1>1, <1>2 DEF Clerk!Txs
<1>4. /\ tx' \in [Clerk!Slots -> Clerk!Txs \cup {None}]
      /\ tx'[p] # None /\ tx'[p].pc = "commit" /\ tx'[p].kind = tx[p].kind
      /\ tx'[p].late = tx[p].late /\ tx'[p].refused = (Clerk!Seen(row, p) = None)
      /\ \A q \in Clerk!Slots \ {p} : tx'[q] = tx[q]
  BY <1>2, <1>3, ZenonT(40) DEF Clerk!Txs
<1>5. Clerk!TypeOK'
  BY <1>1, <1>4, Shape DEF ClerkInv, Clerk!TypeOK, Clerk!Keep
<1>6. Roles'
  BY <1>1, <1>4 DEF ClerkInv, Roles, Clerk!Keep
<1>7. Tombstone' /\ LateWrites'
  BY <1>1, <1>4 DEF ClerkInv, Tombstone, LateWrites, Clerk!Keep, Clerk!Seen
<1>8. LiveAccount'
  <2> SUFFICES ASSUME "deleted" \notin emitted
               PROVE  LiveTables' /\ \A q \in Clerk!Slots : LiveTx(q)'
    BY <1>1 DEF LiveAccount, Clerk!Keep
  <2>1. tx[p].kind = "signin" /\ LiveTables /\ \A q \in Clerk!Slots : LiveTx(q)
    BY <1>1 DEF ClerkInv, Roles, LiveAccount
  <2>2. LiveTables'
    BY <1>1, <2>1 DEF Clerk!Keep, LiveTables
  <2>3. ASSUME NEW q \in Clerk!Slots \ {p} PROVE LiveTx(q)'
    <3>1. LiveTx(q) /\ tx'[q] = tx[q]
      BY <1>4, <2>1
    <3> QED BY <1>1, <3>1 DEF LiveTx, Clerk!Seen
  <2>4. LiveTx(p)'
    BY <1>1, <1>4, <2>1 DEF LiveTx
  <2> QED BY <2>2, <2>3, <2>4
<1> QED BY <1>5, <1>6, <1>7, <1>8 DEF ClerkInv

-----------------------------------------------------------------------------
(* A Clerk account: ends of transactions and the world *)

\* A transaction that ends leaves the others alone.
Ends(p) ==
  /\ tx' \in [Clerk!Slots -> Clerk!Txs \cup {None}]
  /\ tx'[p] = None
  /\ \A q \in Clerk!Slots \ {p} : tx'[q] = tx[q]

\* That is what emptying its slot does.
LEMMA End ==
  ASSUME ClerkInv, NEW p \in Clerk!Slots, tx' = [tx EXCEPT ![p] = None]
  PROVE  Ends(p)
BY DEF Ends, ClerkInv, Clerk!TypeOK

\* A request that fails, or that an UPDATE or INSERT raises in, leaves nothing behind.
LEMMA ClerkAborts ==
  ASSUME ClerkInv, NEW p \in Clerk!Slots, tx[p] # None, Clerk!Abort(p),
         UNCHANGED <<emitted, acked, erased, day>>, faults' \in 0 .. MaxFaults
  PROVE  ClerkInv'
<1>1. Ends(p) /\ row' = Clerk!RolledBack(row, p) /\ tomb' = Clerk!RolledBack(tomb, p)
  BY End DEF Clerk!Abort
<1>2. Clerk!TypeOK'
  <2>1. /\ row' \in Clerk!Rows(Clerk!Emails \cup {None}, Clerk!Slots)
        /\ tomb' \in Clerk!Rows(0 .. LastDay \cup {None}, Clerk!Slots)
    <3>1. /\ row \in Clerk!Rows(Clerk!Emails \cup {None}, Clerk!Slots)
          /\ row.cur \in Clerk!Emails \cup {None}
          /\ tomb \in Clerk!Rows(0 .. LastDay \cup {None}, Clerk!Slots)
          /\ tomb.cur \in 0 .. LastDay \cup {None}
      BY Shape
    <3> QED BY <1>1, <3>1, RowTypes
  <2>2. \A q \in row'.by \cup tomb'.by : tx'[q] # None
    BY <1>1, Shape DEF Ends, ClerkInv, Clerk!TypeOK, Clerk!RolledBack, Clerk!Row
  <2> QED BY <1>1, <2>1, <2>2 DEF Ends, ClerkInv, Clerk!TypeOK
<1>3. Roles'
  BY <1>1 DEF Ends, ClerkInv, Roles
<1>4. Tombstone'
  BY <1>1, Shape DEF Ends, ClerkInv, Tombstone, Clerk!RolledBack, Clerk!Row, Clerk!Seen
<1>5. LateWrites'
  BY <1>1, Shape DEF Ends, ClerkInv, LateWrites, Clerk!RolledBack, Clerk!Row
<1>6. LiveAccount'
  <2> SUFFICES ASSUME "deleted" \notin emitted
               PROVE  LiveTables' /\ \A q \in Clerk!Slots : LiveTx(q)'
    BY DEF LiveAccount
  <2>1. LiveTables /\ \A q \in Clerk!Slots : LiveTx(q)
    BY DEF ClerkInv, LiveAccount
  <2>2. LiveTables'
    BY <1>1, <2>1, Shape DEF LiveTables, Clerk!RolledBack, Clerk!Row
  <2>3. ASSUME NEW q \in Clerk!Slots \ {p} PROVE LiveTx(q)'
    <3>1. LiveTx(q) /\ tx'[q] = tx[q]
      BY <1>1, <2>1 DEF Ends
    <3> QED BY <1>1, <3>1, Shape DEF LiveTx, Clerk!Seen, Clerk!RolledBack, Clerk!Row
  <2>4. LiveTx(p)'
    BY <1>1 DEF Ends, LiveTx
  <2> QED BY <2>2, <2>3, <2>4
<1> QED BY <1>2, <1>3, <1>4, <1>5, <1>6 DEF ClerkInv

\* A commit publishes what the transaction wrote, and a 204 says so.
LEMMA ClerkCommits ==
  ASSUME ClerkInv, NEW p \in Clerk!Slots, Clerk!Commit(p)
  PROVE  ClerkInv'
<1>1. /\ tx[p] # None /\ tx[p].pc = "commit" /\ UNCHANGED <<emitted, day>>
      /\ row' = Clerk!Committed(row, p) /\ tomb' = Clerk!Committed(tomb, p)
      /\ erased' = (erased \/ tx[p].kind = "deleted")
      /\ acked \subseteq acked' /\ acked' \subseteq acked \cup ({tx[p].kind} \cap Clerk!Events)
      /\ faults' \in 0 .. MaxFaults
  BY IdentityAssumption DEF Clerk!Commit, Clerk!At, ClerkInv, Clerk!TypeOK, Clerk!ClerkConstants
<1>2. Ends(p)
  BY End DEF Clerk!Commit
<1>3. Clerk!TypeOK'
  <2>1. /\ row' \in Clerk!Rows(Clerk!Emails \cup {None}, Clerk!Slots)
        /\ tomb' \in Clerk!Rows(0 .. LastDay \cup {None}, Clerk!Slots)
    <3>1. /\ row \in Clerk!Rows(Clerk!Emails \cup {None}, Clerk!Slots)
          /\ row.cur \in Clerk!Emails \cup {None}
          /\ tomb \in Clerk!Rows(0 .. LastDay \cup {None}, Clerk!Slots)
          /\ tomb.cur \in 0 .. LastDay \cup {None}
      BY Shape
    <3> QED BY <1>1, <3>1, RowTypes
  <2>2. \A q \in row'.by \cup tomb'.by : tx'[q] # None
    BY <1>1, <1>2, Shape DEF Ends, ClerkInv, Clerk!TypeOK, Clerk!Committed, Clerk!Row
  <2>3. acked' \subseteq emitted' /\ emitted' \subseteq Clerk!Events /\ erased' \in BOOLEAN
    BY <1>1 DEF ClerkInv, Clerk!TypeOK, Roles, Clerk!Events
  <2> QED BY <1>1, <1>2, <2>1, <2>2, <2>3 DEF Ends, ClerkInv, Clerk!TypeOK
<1>4. Roles'
  BY <1>1, <1>2 DEF Ends, ClerkInv, Roles
<1>5. Tombstone'
  BY <1>1, <1>2, Shape, ZenonT(40)
  DEF Ends, ClerkInv, Tombstone, Clerk!Committed, Clerk!Row, Clerk!Seen
<1>6. LateWrites'
  BY <1>1, <1>2, Shape DEF Ends, ClerkInv, LateWrites, Clerk!Committed, Clerk!Row
<1>7. LiveAccount'
  <2> SUFFICES ASSUME "deleted" \notin emitted
               PROVE  LiveTables' /\ \A q \in Clerk!Slots : LiveTx(q)'
    BY <1>1 DEF LiveAccount
  <2>1. tx[p].kind # "deleted" /\ LiveTables /\ \A q \in Clerk!Slots : LiveTx(q)
    BY <1>1 DEF ClerkInv, Roles, LiveAccount
  <2>2. LiveTables'
    <3>1. "created" \in acked' => row'.cur \in {"first", "second"}
      BY <1>1, <2>1, Shape
         DEF LiveTables, LiveTx, Clerk!Emails, Clerk!Committed, Clerk!Seen, Clerk!Row
    <3> QED BY <1>1, <2>1, <3>1, Shape DEF LiveTables, Clerk!Committed, Clerk!Row
  <2>3. ASSUME NEW q \in Clerk!Slots \ {p} PROVE LiveTx(q)'
    <3>1. LiveTx(q) /\ tx'[q] = tx[q]
      BY <1>2, <2>1 DEF Ends
    <3> QED BY <1>1, <2>1, <3>1, Shape
            DEF LiveTx, LiveTables, Clerk!Seen, Clerk!Emails, Clerk!Committed, Clerk!Row
  <2>4. LiveTx(p)'
    BY <1>2 DEF Ends, LiveTx
  <2> QED BY <2>2, <2>3, <2>4
<1> QED BY <1>3, <1>4, <1>5, <1>6, <1>7 DEF ClerkInv

\* A delivery or a sign-in begins: late if the deletion has committed.
LEMMA ClerkBegins ==
  ASSUME ClerkInv, NEW p \in Clerk!Slots,
         Clerk!SignIn(p) \/ \E e \in Clerk!Events : Clerk!Deliver(p, e)
  PROVE  ClerkInv'
<1> DEFINE begun(kind) == [kind |-> kind, pc |-> IF kind = "deleted" THEN "mark" ELSE "get",
                           late |-> erased, refused |-> FALSE]
<1>1. /\ tx[p] = None /\ day < RetryDays /\ Clerk!Keep /\ UNCHANGED <<row, tomb>>
      /\ \E kind \in emitted \cup {"signin"} :
           tx' = [tx EXCEPT ![p] = begun(kind)]
  BY Shape DEF Clerk!SignIn, Clerk!Deliver, Clerk!Events
<1>2. PICK kind \in emitted \cup {"signin"} :
        tx' = [tx EXCEPT ![p] = begun(kind)]
  BY <1>1
<1>3. /\ tx' \in [Clerk!Slots -> Clerk!Txs \cup {None}]
      /\ tx'[p] # None /\ tx'[p].pc = (IF kind = "deleted" THEN "mark" ELSE "get")
      /\ tx'[p].kind = kind /\ tx'[p].late = erased /\ ~tx'[p].refused
      /\ \A q \in Clerk!Slots \ {p} : tx'[q] = tx[q]
  <2>1. tx \in [Clerk!Slots -> Clerk!Txs \cup {None}] /\ None \notin Clerk!Txs
    BY IdentityAssumption DEF ClerkInv, Clerk!TypeOK, Clerk!ClerkConstants
  <2>2. begun(kind) \in Clerk!Txs
    BY DEF ClerkInv, Clerk!TypeOK, Clerk!Txs
  <2> QED BY <1>2, <2>1, <2>2
<1>4. Clerk!TypeOK'
  BY <1>1, <1>3 DEF ClerkInv, Clerk!TypeOK, Clerk!Keep
<1>5. Roles'
  BY <1>1, <1>3 DEF ClerkInv, Roles, Clerk!Keep
<1>6. Tombstone'
  BY <1>1, <1>3 DEF ClerkInv, Tombstone, Clerk!Keep, Clerk!Seen
<1>7. LateWrites'
  <2>1. p \notin row.by
    BY <1>1 DEF ClerkInv, Clerk!TypeOK
  <2> QED BY <1>1, <1>3, <2>1 DEF ClerkInv, LateWrites, Clerk!Keep
<1>8. LiveAccount'
  <2> SUFFICES ASSUME "deleted" \notin emitted
               PROVE  LiveTables' /\ \A q \in Clerk!Slots : LiveTx(q)'
    BY <1>1 DEF LiveAccount, Clerk!Keep
  <2>1. LiveTables /\ \A q \in Clerk!Slots : LiveTx(q)
    BY DEF ClerkInv, LiveAccount
  <2>2. LiveTables'
    BY <1>1, <2>1 DEF Clerk!Keep, LiveTables
  <2>3. ASSUME NEW q \in Clerk!Slots \ {p} PROVE LiveTx(q)'
    <3>1. LiveTx(q) /\ tx'[q] = tx[q]
      BY <1>3, <2>1
    <3> QED BY <1>1, <3>1 DEF LiveTx, Clerk!Seen
  <2>4. LiveTx(p)'
    BY <1>3 DEF LiveTx
  <2> QED BY <2>2, <2>3, <2>4
<1> QED BY <1>4, <1>5, <1>6, <1>7, <1>8 DEF ClerkInv

\* Clerk emits an event, a day passes, the sweep drops an old tombstone: one that a retry
\* could still need is not old.
LEMMA ClerkWorld ==
  ASSUME ClerkInv, (\E e \in Clerk!Events : Clerk!Emit(e)) \/ Clerk!PurgeTombstone \/ Clerk!Tick
  PROVE  ClerkInv'
<1>1. ASSUME NEW e \in Clerk!Events, Clerk!Emit(e) PROVE ClerkInv'
  <2>1. /\ emitted' = emitted \cup {e} /\ "deleted" \notin emitted
        /\ UNCHANGED <<row, tomb, tx, acked, erased, day, faults>>
    BY <1>1 DEF Clerk!Emit
  <2>2. Clerk!TypeOK' /\ Roles' /\ Tombstone' /\ LateWrites'
    BY <2>1 DEF ClerkInv, Clerk!TypeOK, Roles, Tombstone, LateWrites, Clerk!Seen
  <2>3. LiveAccount'
    BY <2>1 DEF ClerkInv, LiveAccount, LiveTables, LiveTx, Clerk!Seen
  <2> QED BY <2>2, <2>3 DEF ClerkInv
<1>2. CASE Clerk!PurgeTombstone
  <2>1. /\ tomb.cur # None /\ tomb.by = {} /\ tomb' = Clerk!Row(None)
        /\ day - tomb.cur > TombstoneDays
        /\ UNCHANGED <<row, tx, emitted, acked, erased, day, faults>>
    BY <1>2 DEF Clerk!PurgeTombstone, Clerk!Keep, Clerk!Old
  <2>2. day > TombstoneDays /\ day >= RetryDays
    BY <2>1, Shape, IdentityAssumption DEF Clerk!ClerkConstants
  <2>3. \A p \in Clerk!Slots : tx[p] = None
    BY <2>2, Shape DEF ClerkInv, Roles
  <2>4. Clerk!TypeOK'
    <3>1. tomb' \in Clerk!Rows(0 .. LastDay \cup {None}, Clerk!Slots)
      BY <2>1 DEF Clerk!Row, Clerk!Rows
    <3> QED BY <2>1, <3>1 DEF ClerkInv, Clerk!TypeOK, Clerk!Row
  <2>5. Roles' /\ Tombstone' /\ LateWrites'
    BY <2>1, <2>2, <2>3, Shape DEF ClerkInv, Roles, Tombstone, LateWrites, Clerk!Row
  <2>6. LiveAccount'
    BY <2>1, <2>3 DEF ClerkInv, LiveAccount, LiveTables, LiveTx
  <2> QED BY <2>4, <2>5, <2>6 DEF ClerkInv
<1>3. CASE Clerk!Tick
  <2>1. /\ "deleted" \in emitted /\ day < LastDay /\ day' = day + 1
        /\ \A p \in Clerk!Slots : tx[p] = None
        /\ UNCHANGED <<row, tomb, tx, emitted, acked, erased, faults>>
    BY <1>3 DEF Clerk!Tick
  <2>2. Clerk!TypeOK'
    BY <2>1, Shape DEF ClerkInv, Clerk!TypeOK
  <2>3. Roles' /\ Tombstone' /\ LateWrites' /\ LiveAccount'
    BY <2>1, Shape DEF ClerkInv, Roles, Tombstone, LateWrites, LiveAccount
  <2> QED BY <2>2, <2>3 DEF ClerkInv
<1> QED BY <1>1, <1>2, <1>3

\* No event yet.
LEMMA ClerkInit == Clerk!Init => ClerkInv
<1> SUFFICES ASSUME Clerk!Init PROVE ClerkInv
  OBVIOUS
<1>1. /\ row.cur = None /\ row.next = None /\ row.by = {} /\ tomb.cur = None /\ tomb.by = {}
      /\ \A p \in Clerk!Slots : tx[p] = None
      /\ emitted = {"created"} /\ acked = {} /\ ~erased /\ day = 0
  BY DEF Clerk!Init, Clerk!Row
<1>2. Clerk!TypeOK
  <2>1. /\ row \in Clerk!Rows(Clerk!Emails \cup {None}, Clerk!Slots)
        /\ tomb \in Clerk!Rows(0 .. LastDay \cup {None}, Clerk!Slots)
    BY DEF Clerk!Init, Clerk!Row, Clerk!Rows
  <2>2. tx \in [Clerk!Slots -> Clerk!Txs \cup {None}] /\ faults = 0 /\ erased = FALSE
    BY DEF Clerk!Init
  <2>3. 0 \in 0 .. LastDay /\ 0 \in 0 .. MaxFaults
    BY IdentityAssumption DEF Clerk!ClerkConstants
  <2> QED BY <1>1, <2>1, <2>2, <2>3 DEF Clerk!TypeOK, Clerk!Events
<1>3. Roles /\ Tombstone /\ LateWrites /\ LiveAccount
  BY <1>1 DEF Roles, Tombstone, LateWrites, LiveAccount, LiveTables, LiveTx
<1> QED BY <1>2, <1>3 DEF ClerkInv

\* Every step keeps the invariant, and one that leaves the variables alone does.
LEMMA ClerkStep == ClerkInv /\ (Clerk!Next \/ UNCHANGED clerkVars) => ClerkInv'
<1>1. ASSUME ClerkInv, NEW p \in Clerk!Slots, Clerk!Step(p) PROVE ClerkInv'
  <2>1. faults \in 0 .. MaxFaults
    BY <1>1 DEF ClerkInv, Clerk!TypeOK
  <2>2. CASE Clerk!SetEmail(p)
    <3>1. CASE row.cur = None
      BY <1>1, <2>1, <2>2, <3>1, ClerkAborts DEF Clerk!SetEmail, Clerk!At, Clerk!Keep
    <3> QED BY <1>1, <2>2, <3>1, ClerkSetEmail
  <2>3. CASE Clerk!Create(p)
    <3>1. CASE row.cur # None
      BY <1>1, <2>1, <2>3, <3>1, ClerkAborts DEF Clerk!Create, Clerk!At, Clerk!Keep
    <3> QED BY <1>1, <2>3, <3>1, ClerkCreate
  <2> QED BY <1>1, <2>2, <2>3, ClerkMark, ClerkGet, ClerkCheck, ClerkDelete, ClerkInsert,
             ClerkConflict, ClerkReread, ClerkCommits DEF Clerk!Step
<1>2. ASSUME ClerkInv, NEW p \in Clerk!Slots, Clerk!Fail(p) PROVE ClerkInv'
  <2>1. /\ tx[p] # None /\ Clerk!Abort(p) /\ UNCHANGED <<emitted, acked, erased, day>>
        /\ faults' \in 0 .. MaxFaults
    BY <1>2, IdentityAssumption DEF Clerk!Fail, ClerkInv, Clerk!TypeOK, Clerk!ClerkConstants
  <2> QED BY <1>2, <2>1, ClerkAborts
<1>3. ASSUME ClerkInv, UNCHANGED clerkVars PROVE ClerkInv'
  BY <1>3 DEF clerkVars, ClerkInv, Clerk!TypeOK, Roles, Tombstone, LateWrites, LiveAccount,
     LiveTables, LiveTx, Clerk!Seen
<1> QED BY <1>1, <1>2, <1>3, ClerkBegins, ClerkWorld DEF Clerk!Next

-----------------------------------------------------------------------------
(* The theorems *)

Inv == LocalInv /\ ClerkInv

\* In either mode both invariants hold: the other mode's variables never change.
THEOREM Invariance == Spec => []Inv
<1>1. Init => Inv
  BY LocalInit, ClerkInit DEF Init, Inv
<1>2. Inv /\ [Next]_vars => Inv'
  BY LocalStep, ClerkStep DEF Inv, Next, vars, clerkVars, localVars
<1> QED BY <1>1, <1>2, PTL DEF Spec

\* However many first requests race on however many replicas, one local user is created.
THEOREM OneUser == Spec => []OneLocalUser
<1>1. ASSUME Inv PROVE OneLocalUser
  <2>1. users = {} \/ \E u : users = {u}
    <3>1. \A u, v \in users : u = v
      BY <1>1 DEF Inv, LocalInv, NewUser
    <3> QED BY <3>1
  <2>2. Cardinality(users) = 0 \/ Cardinality(users) = 1
    <3>1. CASE users = {}
      BY <3>1, FS_EmptySet
    <3>2. ASSUME NEW u, users = {u} PROVE Cardinality(users) = 1
      BY <3>2, FS_Singleton, Zenon
    <3> QED BY <2>1, <3>1, <3>2
  <2>3. Local!Cardinality(users) = Cardinality(users)
    BY DEF Local!Cardinality, Cardinality
  <2> QED BY <2>2, <2>3 DEF OneLocalUser, Local!OneLocalUser
<1> QED BY <1>1, Invariance, PTL

\* A request is answered as a committed user only, although replicas remember ids of users
\* that were never committed.
THEOREM AnsweredAsCommitted == Spec => []AnsweredExists
<1>1. Inv => AnsweredExists
  BY DEF Inv, LocalInv, AnsweredExists, Local!AnsweredExists
<1> QED BY <1>1, Invariance, PTL

\* Concurrent creations of API tokens never pass the cap.
THEOREM TokensCapped == Spec => []TokenQuota
<1>1. Inv => TokenQuota
  BY DEF Inv, LocalInv, QuotaKept, TokenQuota, Local!TokenQuota
<1> QED BY <1>1, Invariance, PTL

\* A 204 to user.created means that the row is there with an email, until the account goes.
THEOREM AckedIsSynced == Spec => []AckedMeansSynced
<1>1. Inv => AckedMeansSynced
  BY DEF Inv, ClerkInv, LiveAccount, LiveTables, AckedMeansSynced, Clerk!AckedMeansSynced,
     Clerk!Emails
<1> QED BY <1>1, Invariance, PTL

\* A sign-in is refused only when Clerk has deleted the account.
THEOREM RefusedIsDeleted == Spec => []RefusedOnlyDeleted
<1>1. Inv => RefusedOnlyDeleted
  BY DEF Inv, ClerkInv, LiveAccount, LiveTx, RefusedOnlyDeleted, Clerk!RefusedOnlyDeleted
<1> QED BY <1>1, Invariance, PTL

\* Only a commit changes what the others see of the account's row.
LEMMA OnlyCommits ==
  ASSUME Clerk!Next, row'.cur # row.cur
  PROVE  \E p \in Clerk!Slots : Clerk!Commit(p)
<1>1. row' # row
  OBVIOUS
<1>2. ASSUME NEW p \in Clerk!Slots, Clerk!Abort(p) PROVE FALSE
  BY <1>2 DEF Clerk!Abort, Clerk!RolledBack, Clerk!Row
<1>3. ASSUME NEW p \in Clerk!Slots, NEW v, row' = Clerk!Written(row, p, v) PROVE FALSE
  BY <1>3 DEF Clerk!Written
<1>4. ASSUME NEW p \in Clerk!Slots, Clerk!Step(p) PROVE Clerk!Commit(p)
  <2>1. ~Clerk!Mark(p) /\ ~Clerk!Get(p) /\ ~Clerk!Check(p) /\ ~Clerk!Insert(p) /\ ~Clerk!Reread(p)
    BY <1>1 DEF Clerk!Mark, Clerk!Get, Clerk!Check, Clerk!Insert, Clerk!Reread
  <2>2. ~Clerk!SetEmail(p) /\ ~Clerk!Create(p)
    BY <1>2, <1>3 DEF Clerk!SetEmail, Clerk!Create
  <2>3. ~Clerk!Delete(p) /\ ~Clerk!Conflict(p)
    BY <1>1, <1>3 DEF Clerk!Delete, Clerk!Conflict
  <2> QED BY <1>4, <2>1, <2>2, <2>3 DEF Clerk!Step
<1>5. \A p \in Clerk!Slots : ~Clerk!SignIn(p) /\ ~Clerk!Fail(p) /\ \A e : ~Clerk!Deliver(p, e)
  BY <1>1, <1>2 DEF Clerk!SignIn, Clerk!Fail, Clerk!Deliver
<1>6. /\ \A e : ~Clerk!Emit(e)
      /\ ~Clerk!PurgeTombstone /\ ~Clerk!Tick
  BY <1>1 DEF Clerk!Emit, Clerk!PurgeTombstone, Clerk!Tick
<1> QED BY <1>4, <1>5, <1>6 DEF Clerk!Next

\* What begins after user.deleted committed does not bring the row back: the row comes back
\* only by the commit of a transaction that was already under way.
THEOREM StaysDeleted == Spec => NoComeback
<1>1. ASSUME Inv, [Next]_vars
      PROVE  [erased /\ row.cur = None /\ row'.cur # None
                => \E p \in row.by : ~tx[p].late]_clerkVars
  <2> SUFFICES ASSUME row.cur = None, row'.cur # None
               PROVE  \E p \in row.by : ~tx[p].late
    OBVIOUS
  <2>1. Clerk!Next
    BY <1>1 DEF Next, vars, clerkVars
  <2>2. PICK p \in Clerk!Slots : Clerk!Commit(p)
    BY <2>1, OnlyCommits
  <2>3. row' = Clerk!Committed(row, p) /\ tx[p] # None
    BY <2>2 DEF Clerk!Commit, Clerk!At
  <2>4. p \in row.by /\ row.next # None
    BY <2>3 DEF Clerk!Committed, Clerk!Row
  <2> QED BY <1>1, <2>3, <2>4 DEF Inv, ClerkInv, LateWrites
<1> QED BY <1>1, Invariance, PTL
           DEF Spec, NoComeback, Clerk!NoComeback, clerkVars, Clerk!clerkVars
=============================================================================
