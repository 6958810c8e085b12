----------------------------- MODULE Pagination -----------------------------
(***************************************************************************)
(* The paged administrator queries: query_records over the append-only     *)
(* audit trail, and list_users built the same way.                         *)
(*                                                                         *)
(* A page is two statements, a count and a select, each of which sees what *)
(* is committed when it runs.  A reader asks for page after page while     *)
(* has_next says so; records are added meanwhile, with times of their own. *)
(***************************************************************************)
EXTENDS Integers, SequencesExt

CONSTANTS
    Ids,            \* record ids, ordered as numbers
    MaxTime,        \* bound: times of records
    Actions,        \* values of the column that is filtered
    PageSizes,
    None            \* no filter

PaginationAssumption ==
    Ids \subseteq Int /\ MaxTime \in Nat /\ PageSizes \subseteq Nat \ {0}

VARIABLES
    rows,       \* stored records
    scan        \* the reader

vars == <<rows, scan>>

Row == [id : Ids, at : 0..MaxTime, action : Actions]

Idle == [stage |-> "idle", filter |-> None, size |-> 0, page |-> 1, total |-> 0, next |-> FALSE,
         seen |-> <<>>, start |-> {}, quiet |-> TRUE, torn |-> FALSE]

Init == rows = {} /\ scan = Idle

\* _conditions
Matching(f) == {r \in rows : f # None => r.action = f}

\* Mutation of Before: ties are left to the database.
BeforeByTime(a, b) == a.at > b.at

\* order_by(occurred_at.desc(), id.desc())
Before(a, b) == a.at > b.at \/ (a.at = b.at /\ a.id > b.id)

\* The orders in which the database may return the records of S.
Orders(S) == {s \in SetToSeqs(S) : \A i, j \in DOMAIN s : i < j => ~Before(s[j], s[i])}

Offset(page, size) == (page - 1) * size

\* Mutation of TotalPages: a last page that is not full is not counted.
TotalPagesDown(total, size) == total \div size

TotalPages(total, size) == (total + size - 1) \div size

-----------------------------------------------------------------------------
(* Steps                                                                   *)

\* record: a transaction with an audit record commits.
Record(r) ==
    /\ r.id \notin {q.id : q \in rows}
    /\ rows' = rows \cup {r}
    /\ scan' = [scan EXCEPT !.quiet = FALSE,
                            !.torn = @ \/ (scan.stage = "counted" /\ ~scan.next)]

\* The first request of a walk through the pages.
Start(f, size) ==
    /\ scan.stage = "idle"
    /\ scan' = [Idle EXCEPT !.stage = "asked", !.filter = f, !.size = size,
                            !.start = Matching(f)]
    /\ UNCHANGED rows

Count ==
    /\ scan.stage = "asked"
    /\ LET total == Cardinality(Matching(scan.filter))
       IN  scan' = [scan EXCEPT !.stage = "counted", !.total = total,
                                !.next = scan.page < TotalPages(total, scan.size)]
    /\ UNCHANGED rows

\* LIMIT and OFFSET
Items(s) ==
    SubSeq(s, Offset(scan.page, scan.size) + 1,
           Min({Len(s), Offset(scan.page, scan.size) + scan.size}))

\* Page.__post_init__, which the API's page repeats.
Accepted(items) == Len(items) <= scan.size /\ Len(items) <= scan.total

\* The select, the page built from it, and the next request if there is one.
Select ==
    /\ scan.stage = "counted"
    /\ \E s \in Orders(Matching(scan.filter)) :
        scan' = IF ~Accepted(Items(s)) THEN [scan EXCEPT !.stage = "error"]
                ELSE [scan EXCEPT !.seen = @ \o Items(s),
                        !.page = IF scan.next THEN @ + 1 ELSE @,
                        !.stage = IF scan.next THEN "asked" ELSE "done"]
    /\ UNCHANGED rows

Finish ==
    /\ scan.stage \in {"done", "error"} /\ scan' = Idle
    /\ UNCHANGED rows

Next ==
    \/ \E r \in Row : Record(r)
    \/ \E f \in Actions \cup {None}, size \in PageSizes : Start(f, size)
    \/ Count \/ Select \/ Finish

Spec == Init /\ [][Next]_vars

-----------------------------------------------------------------------------
(* Properties                                                              *)

\* A walk over a table that does not change returns every matching record once, in order.
QuietScan ==
    scan.stage = "done" /\ scan.quiet => scan.seen \in Orders(Matching(scan.filter))

\* The trail only grows, so a walk misses no record that was there when it began, however
\* many are added while it runs, unless one is added inside its last page, between that
\* page's count and its select.
NoneMissed == scan.stage = "done" /\ ~scan.torn => scan.start \subseteq ToSet(scan.seen)

\* A walk page by page is complete: exact at rest, and without gaps while the trail grows.
WalkComplete == QuietScan /\ NoneMissed

\* A valid request for a page gets a page.
PageBuilt == scan.stage # "error"
=============================================================================
