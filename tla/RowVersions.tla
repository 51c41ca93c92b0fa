----------------------------- MODULE RowVersions -----------------------------
(***************************************************************************)
(* One row of a PostgreSQL table under READ COMMITTED, the isolation level  *)
(* every session of alo-reader runs at.  A row has its last committed       *)
(* contents, and at most one transaction that has written or locked it and  *)
(* not ended yet.  A statement sees the committed rows and its own          *)
(* transaction's writes; a second writer waits until the first one ends.    *)
(*                                                                          *)
(* The database is not part of the repository: these operators model what   *)
(* the store functions rely on.                                             *)
(***************************************************************************)

\* A row nobody is writing.
Row(v) == [cur |-> v, next |-> v, by |-> {}]

\* The rows with contents in V and writers in P.
Rows(V, P) ==
  {r \in [cur : V, next : V, by : {{}} \cup {{p} : p \in P}] : r.by = {} => r.next = r.cur}

\* What a statement of transaction p reads.
Seen(r, p) == IF p \in r.by THEN r.next ELSE r.cur

\* No other transaction has written or locked the row: p need not wait.
Free(r, p) == r.by \subseteq {p}

\* p writes v (a write of the contents the row already has is a lock).
Written(r, p, v) == [cur |-> r.cur, next |-> v, by |-> {p}]

\* The row after transaction p commits, and after it rolls back.
Committed(r, p)  == IF p \in r.by THEN Row(r.next) ELSE r
RolledBack(r, p) == IF p \in r.by THEN Row(r.cur) ELSE r
=============================================================================
