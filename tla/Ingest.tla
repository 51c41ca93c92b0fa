------------------------------- MODULE Ingest -------------------------------
(***************************************************************************)
(* From a fetched document to rows of entries, as functions of one          *)
(* document: the date, body and dedup key of an item (ingest/parse.py), the *)
(* items that are kept of an oversized document (_build_entries), and the   *)
(* byte cap on sanitized HTML (_cap).  What feedparser and nh3 make of a    *)
(* string is given: an item has its fields, a clean prefix has its length.  *)
(***************************************************************************)
EXTENDS Integers, Sequences, FiniteSets

CONSTANTS Missing,      \* a field that an item does not have
          FeedItems,    \* bound: the items documents are made of
          MaxItems,     \* bound: how many a document lists
          Times,        \* bound: when it is fetched
          MaxFuture,    \* _MAX_FUTURE
          MaxEntries,   \* worker_max_entries_per_fetch
          MaxContent,   \* MAX_CONTENT_BYTES
          Slack,        \* the 64 bytes a pass takes off besides the overflow
          Passes,       \* how often it tries at most
          Lengths,      \* bound: of sanitized HTML
          Overheads     \* bound: the bytes that cleaning adds to a prefix, or takes from it

ASSUME IngestAssumption ==
  /\ {MaxFuture, MaxItems, Slack} \subseteq Nat
  /\ {MaxEntries, MaxContent} \subseteq Nat \ {0} /\ Passes \in Nat \ {0, 1}
  /\ Times \subseteq Nat /\ Lengths \subseteq Nat /\ Overheads \subseteq Int
  /\ \A x \in FeedItems :
       /\ {x.published, x.updated} \subseteq Nat \cup {Missing}
       /\ \A i \in DOMAIN x.content : x.content[i].type \in {"html", "xhtml", "plain", "other"}

VARIABLE work  \* a document so far and when it is fetched; or sanitized HTML, its length, what
               \* cleaning has added to each prefix tried so far, and where the last one got

-----------------------------------------------------------------------------
(* sanitize.py: _cap *)

\* raw[:budget] of a text of so many bytes: a negative budget counts from the end.
PrefixLength(length, budget) ==
  IF budget >= 0 THEN IF length < budget THEN length ELSE budget
  ELSE IF length + budget > 0 THEN length + budget ELSE 0

NextBudgetMutant(budget, overflow) == budget - overflow - Slack
NextBudget(budget, overflow) ==
  LET less == budget - overflow - Slack
  IN  IF less > MaxContent \div 2 THEN less ELSE MaxContent \div 2

\* The prefix that was cut, its length once clean, the next budget, and whether to go on.
Whole(length) ==
  [cut |-> length, clean |-> length, budget |-> MaxContent, goes |-> length > MaxContent]

Pass(c, length, overhead) ==
  LET cut == PrefixLength(length, c.budget)
      clean == IF cut + overhead > 0 THEN cut + overhead ELSE 0
  IN  [cut |-> cut, clean |-> clean,
       budget |-> NextBudget(c.budget, clean - MaxContent),
       goes |-> clean > MaxContent /\ c.budget > MaxContent \div 2]

\* The length of what is stored, of the prefix it was made of, whether it was truncated, and
\* whether that cut may have left a tag open.
Cap(length, last) ==
  [length |-> PrefixLength(last.clean, MaxContent), cut |-> last.cut,
   truncated |-> length > MaxContent, hard |-> last.clean > MaxContent]

-----------------------------------------------------------------------------

Starts == [kind : {"document"}, doc : {<< >>}, now : Times]
            \cup {[kind |-> "html", length |-> n, overheads |-> << >>, pass |-> Whole(n)] :
                     n \in Lengths}

IngestInit == work \in Starts

ListItem(x) ==
  /\ work.kind = "document" /\ Len(work.doc) < MaxItems
  /\ work' = [work EXCEPT !.doc = Append(@, x)]

Parsed == work.kind = "document" /\ Len(work.doc) = MaxItems
Capped == work.kind = "html" /\ (~work.pass.goes \/ Len(work.overheads) = Passes)

TryPrefix(overhead) ==
  /\ work.kind = "html" /\ ~Capped
  /\ work' = [work EXCEPT !.overheads = Append(@, overhead),
                          !.pass = Pass(@, work.length, overhead)]

\* Documents and texts have nothing to do with each other.
Another == (Parsed \/ Capped) /\ work' \in Starts

IngestNext ==
  \/ \E x \in FeedItems : ListItem(x)
  \/ \E overhead \in Overheads : TryPrefix(overhead)
  \/ Another

IngestSpec == IngestInit /\ [][IngestNext]_work

-----------------------------------------------------------------------------
(* parse.py: _normalize_entry *)

Usable(date, now) == date # Missing /\ date <= now + MaxFuture

\* Each candidate is checked for itself: a bad published date leaves updated to be used.
PublishedAt(x, now) ==
  CASE Usable(x.published, now) -> x.published
    [] ~Usable(x.published, now) /\ Usable(x.updated, now) -> x.updated
    [] OTHER -> Missing

TypeRank == [html |-> 3, xhtml |-> 2, plain |-> 1, other |-> 0]

\* The first of the best ranked content elements, the summary if there is none.
ContentHtml(x) ==
  IF x.content = << >> THEN x.summary
  ELSE LET Better(i, j) == \/ TypeRank[x.content[i].type] > TypeRank[x.content[j].type]
                           \/ (TypeRank[x.content[i].type] = TypeRank[x.content[j].type] /\ i < j)
           best == CHOOSE i \in DOMAIN x.content :
                     \A j \in DOMAIN x.content \ {i} : Better(i, j)
       IN  x.content[best].value

\* What guid_hash is a hash of; it does not say which of the three it is.
GuidMutant(x, now) ==
  CASE x.id # Missing -> <<x.id>>
    [] x.id = Missing /\ x.link # Missing -> <<x.link>>
    [] OTHER -> <<x.title, PublishedAt(x, now)>>
Guid(x, now) ==
  CASE x.id # Missing -> <<x.id>>
    [] x.id = Missing /\ x.link # Missing -> <<x.link>>
    [] OTHER -> <<x.title, PublishedAt(x, now), ContentHtml(x)>>

-----------------------------------------------------------------------------
(* pipeline.py: _build_entries *)

\* Newest first; an undated item sorts below every other, and equal dates keep their order.
Newer(doc, now, i, j) ==
  LET d(k) == IF PublishedAt(doc[k], now) = Missing THEN -1 ELSE PublishedAt(doc[k], now)
  IN  d(i) > d(j) \/ (d(i) = d(j) /\ i < j)

Kept(doc, now) ==
  {i \in DOMAIN doc : Cardinality({j \in DOMAIN doc : Newer(doc, now, j, i)}) < MaxEntries}

-----------------------------------------------------------------------------
(* Properties *)

\* Two items of a document share a row only if they have one id, or nothing tells them apart;
\* fetching the document again makes no second row of an item, unless it has neither id nor
\* link and its date was too far ahead at first; and what an oversized document loses is
\* older than what is kept, or undated.
Dates(x) == {x.published, x.updated}
ItemsStored ==
  work.kind = "document" =>
    LET doc == work.doc  now == work.now IN
    /\ \A i, j \in DOMAIN doc :
         Guid(doc[i], now) = Guid(doc[j], now) =>
           \/ ({doc[i].id, doc[i].link} \cap {doc[j].id, doc[j].link}) \ {Missing} # {}
           \/ /\ doc[i].title = doc[j].title /\ ContentHtml(doc[i]) = ContentHtml(doc[j])
              /\ PublishedAt(doc[i], now) = PublishedAt(doc[j], now)
    /\ \A i \in DOMAIN doc : \A later \in {t \in Times : t >= now} :
         \/ Guid(doc[i], later) = Guid(doc[i], now)
         \/ /\ {doc[i].id, doc[i].link} = {Missing}
            /\ \E d \in Dates(doc[i]) \ {Missing} : ~Usable(d, now)
    /\ \A i \in DOMAIN doc \ Kept(doc, now) :
         /\ Cardinality(Kept(doc, now)) = MaxEntries
         /\ \A date \in Dates(doc[i]) : Usable(date, now) =>
              \A k \in Kept(doc, now) : \E d \in Dates(doc[k]) :
                Usable(d, now) /\ d >= PublishedAt(doc[i], now)

\* Stored HTML is within the cap, and truncated exactly when only a prefix of it was kept; at
\* least half a cap of it is kept, and no tag is left open unless cleaning a prefix adds more
\* than it did to the longer one before, or more than half a cap.
CapHolds ==
  Capped =>
    LET c == Cap(work.length, work.pass)  o == work.overheads IN
    /\ c.length <= MaxContent
    /\ c.truncated <=> c.cut < work.length
    /\ c.truncated => c.cut >= MaxContent \div 2
    /\ c.hard => \E i \in 2 .. Len(o) : o[i] > o[i - 1] + Slack \/ 2 * o[i] > MaxContent
=============================================================================
