------------------------------- MODULE Tables -------------------------------
(***************************************************************************)
(* The two tables of the page that are shown page by page (app.jsx): the   *)
(* guests of the cluster, filtered and sorted, and the migration history.  *)
(* Their rows come with every answer that brings new data, whatever page   *)
(* is open.                                                                *)
(***************************************************************************)
EXTENDS Naturals, FiniteSets

CONSTANTS
    Rows,           \* guests, or records: numbers, in the order of the answer
    Filters,        \* texts to search for; "" finds everything
    Finds(_, _),    \* whether a text is found in a row
    Fields,         \* columns to sort by
    SortKey(_, _),  \* the value of a column in a row
    PageSizes

ASSUME RowsAssumption == Rows \subseteq Nat /\ IsFiniteSet(Rows)
ASSUME SortAssumption ==
    "tags" \in Fields /\ \A f \in Fields, r \in Rows : SortKey(f, r) \in Nat
ASSUME SizesAssumption == PageSizes \subseteq Nat \ {0} /\ PageSizes # {}

VARIABLES
    table,      \* "guests" or "history": the table looked at in this behaviour
    rows,       \* the rows there are
    filter,     \* guestSearchFilter
    sort,       \* guestSortField and guestSortDirection
    size,       \* guestPageSize, migrationHistoryPageSize
    page        \* guestCurrentPage, migrationHistoryPage

tableVars == <<table, rows, filter, sort, size, page>>

\* The history has no filter and one order.
TablesInit ==
    /\ table \in {"guests", "history"}
    /\ rows = {}
    /\ filter = ""
    /\ sort = [field |-> "tags", up |-> FALSE]
    /\ size = CHOOSE s \in PageSizes : TRUE
    /\ page = 1

-----------------------------------------------------------------------------
Found == {r \in rows : Finds(filter, r)}

\* Array.sort is stable: guests that are equal keep the order of the answer.  Of
\* the records, the newest comes first.
Before(r, s) ==
    LET a == SortKey(sort.field, r)
        b == SortKey(sort.field, s)
    IN  IF table = "history" THEN s < r
        ELSE IF a = b THEN r < s
        ELSE IF sort.up THEN a < b ELSE b < a

Position(r) == Cardinality({s \in Found : Before(s, r)})

TotalPages == (Cardinality(Found) + size - 1) \div size

\* slice(startIndex, endIndex)
PageRows(p) == {r \in Found : (p - 1) * size <= Position(r) /\ Position(r) < p * size}

-----------------------------------------------------------------------------
Search(text) ==
    /\ table = "guests" /\ text # filter
    /\ filter' = text
    /\ page' = 1
    /\ UNCHANGED <<table, rows, sort, size>>

\* ChangeSize, did it stay on the page.
ChangeSize_Stays(s) ==
    /\ s # size
    /\ size' = s
    /\ UNCHANGED <<table, rows, filter, sort, page>>

ChangeSize(s) ==
    /\ s # size
    /\ size' = s
    /\ page' = 1
    /\ UNCHANGED <<table, rows, filter, sort>>

\* A click on the column by which the table is sorted turns it round.
SortBy(field) ==
    /\ table = "guests"
    /\ sort' = [field |-> field, up |-> field = sort.field => ~sort.up]
    /\ UNCHANGED <<table, rows, filter, size, page>>

\* One page of guests has no buttons; the history always has them.
HasButtons == IF table = "guests" THEN TotalPages > 1 ELSE rows # {}

\* The guests' buttons are disabled on the last page only, not behind it.
AtEnd == IF table = "guests" THEN page = TotalPages ELSE page >= TotalPages

TurnBack(p) ==
    /\ HasButtons /\ page # 1
    /\ p \in {1, page - 1}
    /\ page' = p
    /\ UNCHANGED <<table, rows, filter, sort, size>>

TurnOn(p) ==
    /\ HasButtons /\ ~AtEnd
    /\ p \in {page + 1, TotalPages}
    /\ p <= Cardinality(Rows) + 1
    /\ page' = p
    /\ UNCHANGED <<table, rows, filter, sort, size>>

\* New data.
ChangeRows ==
    /\ rows' \in SUBSET Rows
    /\ UNCHANGED <<table, filter, sort, size, page>>

TablesNext ==
    \/ \E f \in Filters : Search(f)
    \/ \E s \in PageSizes : ChangeSize(s)
    \/ \E f \in Fields : SortBy(f)
    \/ \E p \in 1..Cardinality(Rows) + 1 : TurnBack(p) \/ TurnOn(p)
    \/ ChangeRows
=============================================================================
