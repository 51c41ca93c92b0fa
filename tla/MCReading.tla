------------------------------ MODULE MCReading ------------------------------
(* A small instance of Reading, two items with one date so that the listing     *)
(* breaks the tie by id, and one of Ingest.  They share no state, so a          *)
(* behaviour is one of either.                                                  *)
EXTENDS Reading, Ingest, TLC

CONSTANTS u1, u2, a, b, x, y, g

MCFeedOf == [i \in Items |-> IF i = x THEN a ELSE CHOOSE f \in Feeds : f # a \/ Feeds = {a}]
MCOwnerOf == [f \in Folders |-> u1]
MCPublished == [i \in Items |-> 1]
MCPaged ==
  {[user |-> u1, stream |-> [kind |-> "folder", ref |-> g], status |-> "unread", search |-> FALSE],
   [user |-> u1, stream |-> All, status |-> "unread", search |-> TRUE]}
Alike == Permutations({x, y})

\* A teaser before the article, or a summary only; dates past, ahead, too far ahead or none.
Part(type, value) == [type |-> type, value |-> value]
MCFeedItems ==
  [id : {"p", Missing}, link : {"p", Missing}, title : {"t"},
   published : {1, 4, Missing}, updated : {2, Missing},
   content : {<< >>, <<Part("plain", "short"), Part("xhtml", "long"), Part("xhtml", "short")>>},
   summary : {"short"}]
MCOverheads == -1 .. 9

VARIABLE part

MCInit ==
  /\ Init /\ IngestInit
  /\ part \in {"reading", "ingest"}
  /\ part = "reading" => work = CHOOSE w \in Starts : TRUE

MCNext ==
  /\ UNCHANGED part
  /\ \/ part = "reading" /\ Next /\ UNCHANGED work
     \/ part = "ingest" /\ IngestNext /\ UNCHANGED vars

MCSpec == MCInit /\ [][MCNext]_<<part, vars, work>>
=============================================================================
