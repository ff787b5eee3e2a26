------------------------------ MODULE Listing ------------------------------
(***************************************************************************)
(* A client walks through a list endpoint page by page while others write. *)
(* All list endpoints are built alike: one SELECT of the rows that match   *)
(* the filter, newest first, LIMIT page size OFFSET (page - 1) * page size;*)
(* then, in a statement of its own, a COUNT of the rows that match, from   *)
(* which has_next is computed.  The client asks for the next page as long  *)
(* as has_next is set, and again for one that was answered with an error.  *)
(*                                                                         *)
(* A row's time is read by the service before the row is inserted, and is  *)
(* kept in seconds, so rows may come in at any place of the order.  No row *)
(* is ever deleted, and its time never changes; its status does, and with  *)
(* it what a filter matches.                                               *)
(***************************************************************************)
EXTENDS Integers, FiniteSets

CONSTANTS
  Rows,       \* rows, as numbers: a newer row has a smaller one
  PageSize,   \* page_size of the walk
  MaxChanges  \* status changes that bring a row under the filter or away

ASSUME ListingAssumption ==
  Rows \subseteq Int /\ PageSize \in Nat \ {0} /\ MaxChanges \in Nat

VARIABLES
  table,    \* rows that have been inserted
  matching, \* rows the filter matches
  walk,     \* where the client's walk is
  page,     \* the page it asks for
  items,    \* rows the SELECT has found
  seen,     \* rows that have been delivered
  repeated, \* deliveries of a row that had been delivered before
  standing, \* history: rows that have matched since the walk began
  left,     \* history: rows that left the filter during the walk
  joined,   \* history: rows that came under the filter during the walk
  changes   \* status changes that may still happen

vars == <<table, matching, walk, page, items, seen, repeated, standing, left, joined, changes>>

Walking == walk \in {"select", "count"}

ListingInit ==
  /\ table = {}
  /\ matching = {}
  /\ walk = "before"
  /\ page = 1
  /\ items = {}
  /\ seen = {}
  /\ repeated = 0
  /\ standing = {}
  /\ left = 0
  /\ joined = 0
  /\ changes = MaxChanges

-----------------------------------------------------------------------------
(* The endpoint.                                                           *)

Offset(n) == (n - 1) * PageSize

\* WHERE filter ORDER BY created_at DESC: the place of a row in the result.
Place(r) == Cardinality({x \in matching : x <= r})

\* Mutated query: LIMIT is lost.
Unlimited(offset) == {r \in matching : Place(r) > offset}

\* LIMIT ? OFFSET ?: past the end there is nothing.
Limited(offset) == {r \in matching : Place(r) \in offset + 1 .. offset + PageSize}

\* Mutated page count: it rounds down.
PagesRoundedDown(total) == total \div PageSize

TotalPages(total) == (total + PageSize - 1) \div PageSize

HasNext(total) == page < TotalPages(total)

Select ==
  /\ walk = "select"
  /\ walk' = "count"
  /\ items' = Limited(Offset(page))
  /\ UNCHANGED <<table, matching, page, seen, repeated, standing, left, joined, changes>>

\* countFiltered, the answer, and the client's next step.
Count ==
  /\ walk = "count"
  /\ seen' = seen \union items
  /\ repeated' = repeated + Cardinality(items \intersect seen)
  /\ items' = {}
  /\ IF HasNext(Cardinality(matching))
     THEN walk' = "select" /\ page' = page + 1
     ELSE walk' = "over" /\ UNCHANGED page
  /\ UNCHANGED <<table, matching, standing, left, joined, changes>>

\* Either statement fails: nothing is delivered, and the client asks again.
RequestFails ==
  /\ Walking
  /\ walk' = "select"
  /\ items' = {}
  /\ UNCHANGED <<table, matching, page, seen, repeated, standing, left, joined, changes>>

StartWalk ==
  /\ walk = "before"
  /\ walk' = "select"
  /\ standing' = matching
  /\ UNCHANGED <<table, matching, page, items, seen, repeated, left, joined, changes>>

-----------------------------------------------------------------------------
(* The other requests, the workers and the engine.                         *)

Join(r) ==
  /\ matching' = matching \union {r}
  /\ joined' = joined + (IF Walking THEN 1 ELSE 0)

Insert(r, matches) ==
  /\ r \notin table
  /\ table' = table \union {r}
  /\ IF matches THEN Join(r) ELSE UNCHANGED <<matching, joined>>
  /\ UNCHANGED <<walk, page, items, seen, repeated, standing, left, changes>>

\* UPDATE ... SET status.
ChangeStatus(r) ==
  /\ changes > 0
  /\ changes' = changes - 1
  /\ r \in table
  /\ IF r \in matching
     THEN /\ matching' = matching \ {r}
          /\ left' = left + (IF Walking THEN 1 ELSE 0)
          /\ standing' = standing \ {r}
          /\ UNCHANGED joined
     ELSE Join(r) /\ UNCHANGED <<left, standing>>
  /\ UNCHANGED <<table, walk, page, items, seen, repeated>>

-----------------------------------------------------------------------------

ListingNext ==
  \/ StartWalk \/ Select \/ Count \/ RequestFails
  \/ \E r \in Rows :  \* what comes after the walk does not matter to it
       /\ walk # "over"
       /\ \/ \E matches \in BOOLEAN : Insert(r, matches)
          \/ ChangeStatus(r)

ListingSpec == ListingInit /\ [][ListingNext]_vars

-----------------------------------------------------------------------------
(* Properties.                                                             *)

\* Rows and counts stay within their domains, and a page within its size.
ListingTypeOK ==
  /\ table \subseteq Rows
  /\ standing \subseteq matching /\ matching \subseteq table
  /\ walk \in {"before", "select", "count", "over"}
  /\ page \in Nat \ {0}
  /\ items \subseteq table /\ Cardinality(items) <= PageSize
  /\ seen \subseteq table
  /\ repeated \in Nat /\ left \in Nat /\ joined \in Nat
  /\ left + joined <= MaxChanges + Cardinality(table)
  /\ changes \in 0 .. MaxChanges

\* Rows the client should have been shown.
Missed == standing \ seen

\* A walk that is over has missed at most one row for every row that left the
\* filter while it went on, and shown at most one row twice for every row that
\* came under it: insertions alone make nobody miss anything, wherever they
\* fall between the SELECT and the COUNT of a page.  (A walk without a filter,
\* or with one on columns that never change, misses nothing.)
WalkAccounted ==
  walk = "over" => Cardinality(Missed) <= left /\ repeated <= joined
=============================================================================
