--------------------------- MODULE Tables_proofs ----------------------------
(***************************************************************************)
(* No click leads from a page with rows to one without, in a table of any  *)
(* rows, sorted by any columns, with any page sizes.                       *)
(***************************************************************************)
EXTENDS Dashboard, FiniteSetTheorems, FunctionTheorems, TLAPS

\* The variables of a table keep their types.
TableTypeOK ==
    /\ table \in {"guests", "history"}
    /\ rows \subseteq Rows
    /\ sort \in [field : Fields, up : BOOLEAN]
    /\ size \in PageSizes
    /\ page \in Nat \ {0}

\* The rows that are found can be counted.
LEMMA FoundCount ==
  TableTypeOK => IsFiniteSet(Found) /\ Cardinality(Found) \in Nat /\ Found \subseteq Rows
<1> SUFFICES ASSUME TableTypeOK
             PROVE  IsFiniteSet(Found) /\ Cardinality(Found) \in Nat /\ Found \subseteq Rows
  OBVIOUS
<1>1. Found \subseteq Rows
  BY DEF TableTypeOK, Found
<1>2. IsFiniteSet(Found)
  BY <1>1, FS_Subset, RowsAssumption
<1> QED
  BY <1>1, <1>2, FS_CardinalityType

\* The order of a table is strict and total.
LEMMA BeforeIsTotalOrder ==
  TableTypeOK =>
    \A r, s, t \in Found :
      /\ ~Before(r, r)
      /\ r # s => Before(r, s) \/ Before(s, r)
      /\ Before(r, s) /\ Before(s, t) => Before(r, t)
<1> SUFFICES ASSUME TableTypeOK, NEW r \in Found, NEW s \in Found, NEW t \in Found
             PROVE  /\ ~Before(r, r)
                    /\ r # s => Before(r, s) \/ Before(s, r)
                    /\ Before(r, s) /\ Before(s, t) => Before(r, t)
  OBVIOUS
<1> DEFINE a == SortKey(sort.field, r)
           b == SortKey(sort.field, s)
           c == SortKey(sort.field, t)
<1>1. r \in Nat /\ s \in Nat /\ t \in Nat /\ a \in Nat /\ b \in Nat /\ c \in Nat
  BY RowsAssumption, SortAssumption DEF TableTypeOK, Found
<1>2. sort.up \in BOOLEAN
  BY DEF TableTypeOK
<1>3. CASE table = "history"
  BY <1>1, <1>3 DEF Before
<1>4. CASE table # "history" /\ sort.up = TRUE
  <2>1. /\ Before(r, r) <=> (IF a = a THEN r < r ELSE a < a)
        /\ Before(r, s) <=> (IF a = b THEN r < s ELSE a < b)
        /\ Before(s, r) <=> (IF b = a THEN s < r ELSE b < a)
        /\ Before(s, t) <=> (IF b = c THEN s < t ELSE b < c)
        /\ Before(r, t) <=> (IF a = c THEN r < t ELSE a < c)
    BY <1>4 DEF Before
  <2> HIDE DEF a, b, c
  <2> QED
    BY <1>1, <2>1
<1>5. CASE table # "history" /\ sort.up = FALSE
  <2>1. /\ Before(r, r) <=> (IF a = a THEN r < r ELSE a < a)
        /\ Before(r, s) <=> (IF a = b THEN r < s ELSE b < a)
        /\ Before(s, r) <=> (IF b = a THEN s < r ELSE a < b)
        /\ Before(s, t) <=> (IF b = c THEN s < t ELSE c < b)
        /\ Before(r, t) <=> (IF a = c THEN r < t ELSE c < a)
    BY <1>5 DEF Before
  <2> HIDE DEF a, b, c
  <2> QED
    BY <1>1, <2>1
<1> QED
  BY <1>2, <1>3, <1>4, <1>5

\* The row with s rows before it is at the place s: no place is left out.
LEMMA EveryPlaceIsTaken ==
  TableTypeOK =>
    /\ \A r \in Found : Position(r) \in 0..Cardinality(Found) - 1
    /\ \A k \in 0..Cardinality(Found) - 1 : \E r \in Found : Position(r) = k
<1> SUFFICES ASSUME TableTypeOK
             PROVE  /\ \A r \in Found : Position(r) \in 0..Cardinality(Found) - 1
                    /\ \A k \in 0..Cardinality(Found) - 1 : \E r \in Found : Position(r) = k
  OBVIOUS
<1> DEFINE n == Cardinality(Found)
           before(r) == {s \in Found : Before(s, r)}
           f == [r \in Found |-> Position(r)]
<1>1. IsFiniteSet(Found) /\ n \in Nat
  BY FoundCount
<1>2. \A r \in Found : IsFiniteSet(before(r)) /\ Cardinality(before(r)) \in Nat
  <2> SUFFICES ASSUME NEW r \in Found
               PROVE  IsFiniteSet(before(r)) /\ Cardinality(before(r)) \in Nat
    OBVIOUS
  <2>1. before(r) \in SUBSET Found
    OBVIOUS
  <2>2. IsFiniteSet(before(r))
    BY <1>1, <2>1, FS_Subset
  <2> QED
    BY <2>2, FS_CardinalityType
<1>3. \A r \in Found : Position(r) = Cardinality(before(r))
  BY DEF Position
<1>4. \A r \in Found : Position(r) \in 0..n - 1
  <2> SUFFICES ASSUME NEW r \in Found PROVE Position(r) \in 0..n - 1
    OBVIOUS
  <2>1. before(r) \in SUBSET Found /\ before(r) # Found
    BY BeforeIsTotalOrder
  <2>2. Cardinality(before(r)) <= n /\ Cardinality(before(r)) # n
    BY <1>1, <2>1, FS_Subset
  <2> QED
    BY <1>1, <1>2, <1>3, <2>2
<1>5. \A r, s \in Found : Before(r, s) => Position(r) # Position(s)
  <2> SUFFICES ASSUME NEW r \in Found, NEW s \in Found, Before(r, s)
               PROVE  Position(r) # Position(s)
    OBVIOUS
  <2>1. before(r) \in SUBSET before(s)
    BY BeforeIsTotalOrder
  <2>2. r \in before(s) /\ r \notin before(r)
    BY BeforeIsTotalOrder
  <2>3. Cardinality(before(r)) # Cardinality(before(s))
    BY <1>2, <2>1, <2>2, FS_Subset
  <2> QED
    BY <1>3, <2>3
<1>6. f \in Injection(Found, 0..n - 1)
  <2>1. f \in [Found -> 0..n - 1]
    BY <1>4
  <2>2. \A r, s \in Found : f[r] = f[s] => r = s
    BY <1>5, BeforeIsTotalOrder
  <2> QED
    BY <2>1, <2>2, Fun_IsInj
<1>7. IsFiniteSet(0..n - 1) /\ Cardinality(0..n - 1) = n
  BY <1>1, FS_Interval
<1>8. f \in Surjection(Found, 0..n - 1)
  <2> HIDE DEF f
  <2> QED
    BY <1>6, <1>7, FS_Injection
<1>9. \A k \in 0..n - 1 : \E r \in Found : f[r] = k
  BY <1>8 DEF Surjection
<1> QED
  BY <1>4, <1>9

\* A page has rows as long as its first row is one of those found.
LEMMA PagesHaveRows ==
  TableTypeOK =>
    \A p \in Nat \ {0} : PageRows(p) # {} <=> (p - 1) * size < Cardinality(Found)
<1> SUFFICES ASSUME TableTypeOK, NEW p \in Nat \ {0}
             PROVE  PageRows(p) # {} <=> (p - 1) * size < Cardinality(Found)
  OBVIOUS
<1> DEFINE first == (p - 1) * size
<1>1. Cardinality(Found) \in Nat
  BY FoundCount
<1>2. size \in Nat /\ size > 0
  BY SizesAssumption DEF TableTypeOK
<1>3. first \in Nat /\ p * size = first + size
  BY <1>2
<1>4. ASSUME PageRows(p) # {} PROVE first < Cardinality(Found)
  <2>1. PICK r \in Found : first <= Position(r)
    BY <1>4 DEF PageRows
  <2>2. Position(r) \in 0..Cardinality(Found) - 1
    BY EveryPlaceIsTaken
  <2> HIDE DEF first
  <2> QED
    BY <1>1, <1>3, <2>1, <2>2
<1>5. ASSUME first < Cardinality(Found) PROVE PageRows(p) # {}
  <2>1. first \in 0..Cardinality(Found) - 1
    <3> HIDE DEF first
    <3> QED
      BY <1>1, <1>3, <1>5
  <2>2. PICK r \in Found : Position(r) = first
    BY <2>1, EveryPlaceIsTaken
  <2>3. first <= Position(r) /\ Position(r) < p * size
    <3> HIDE DEF first
    <3> QED
      BY <1>2, <1>3, <2>2
  <2>4. r \in PageRows(p)
    BY <2>3 DEF PageRows
  <2> QED
    BY <2>4
<1> QED
  BY <1>4, <1>5

\* The number of pages is that of the pages with rows.
LEMMA PagesAreCounted ==
  TableTypeOK =>
    /\ TotalPages \in Nat
    /\ Found # {} => PageRows(1) # {}
    /\ \A p \in Nat \ {0} : PageRows(p) # {} <=> p <= TotalPages
<1> SUFFICES ASSUME TableTypeOK
             PROVE  /\ TotalPages \in Nat
                    /\ Found # {} => PageRows(1) # {}
                    /\ \A p \in Nat \ {0} : PageRows(p) # {} <=> p <= TotalPages
  OBVIOUS
<1> DEFINE n == Cardinality(Found)
           total == (n + size - 1) \div size
<1>1. n \in Nat
  BY FoundCount
<1>2. size \in Nat /\ size > 0
  BY SizesAssumption DEF TableTypeOK
<1>3. total \in Nat /\ total * size <= n + size - 1 /\ n + size - 1 < total * size + size
  <2> HIDE DEF n
  <2> QED
    BY <1>1, <1>2
<1>4. TotalPages = total
  BY DEF TotalPages
<1>5. ASSUME NEW p \in Nat \ {0} PROVE (p - 1) * size < n <=> p <= total
  <2> HIDE DEF n, total
  <2>1. CASE p <= total
    <3>1. PICK d \in Nat : total = p + d
      BY <1>3, <2>1
    <3>2. total * size = (p - 1) * size + d * size + size /\ d * size \in Nat
      BY <1>2, <3>1
    <3>3. (p - 1) * size \in Nat /\ total * size \in Nat
      BY <1>2, <1>3
    <3> QED
      BY <1>1, <1>2, <1>3, <2>1, <3>2, <3>3
  <2>2. CASE p > total
    <3>1. PICK d \in Nat : p - 1 = total + d
      BY <1>3, <2>2
    <3>2. (p - 1) * size = total * size + d * size /\ d * size \in Nat
      BY <1>2, <1>3, <3>1
    <3>3. (p - 1) * size \in Nat /\ total * size \in Nat
      BY <1>2, <1>3
    <3> QED
      BY <1>1, <1>2, <1>3, <2>2, <3>2, <3>3
  <2> QED
    BY <1>3, <2>1, <2>2
<1>7. Found # {} => PageRows(1) # {}
  <2>1. Found # {} => n # 0
    BY FoundCount, FS_EmptySet
  <2>2. PageRows(1) # {} <=> (1 - 1) * size < n
    BY PagesHaveRows
  <2> HIDE DEF n
  <2> QED
    BY <1>1, <1>2, <2>1, <2>2
<1> HIDE DEF n, total
<1>6. ASSUME NEW p \in Nat \ {0} PROVE PageRows(p) # {} <=> (p - 1) * size < n
  BY PagesHaveRows DEF n
<1> QED
  BY <1>3, <1>4, <1>5, <1>6, <1>7

-----------------------------------------------------------------------------
\* Nothing else on the page touches a table.
LEMMA StepsOfTables ==
  ASSUME [Next]_vars
  PROVE  TablesNext \/ UNCHANGED tableVars
<1>1. CASE UNCHANGED vars
  BY <1>1 DEF vars
<1>2. CASE User
  BY <1>2 DEF User, OnlyMap, OnlyCards, OnlyPanel, OnlyRecs, OnlyEvacuation
<1>3. CASE Intervals
  BY <1>3 DEF Intervals, OnlyCards, OnlyPanel, OnlyRecs
<1>4. CASE Server
  BY <1>4 DEF Server, Ending, Collecting, Rereading, Working, OnlyMap, OnlyPanel, OnlyRecs
<1>5. ASSUME NEW i \in 1..MaxCalls, Answering(i) \/ Hearing(i) PROVE UNCHANGED tableVars
  BY <1>5 DEF Answering, Hearing, AnswerAny, Hear, OnlyMap, OnlyCards, OnlyPanel, OnlyRecs,
              OnlyEvacuation
<1> QED
  BY <1>1, <1>2, <1>3, <1>4, <1>5 DEF Next

\* The types of the tables are an invariant.
THEOREM TablesTypeCorrect == Spec => []TableTypeOK
<1>1. Init => TableTypeOK
  <2> SUFFICES ASSUME Init PROVE TableTypeOK
    OBVIOUS
  <2>1. TablesInit
    BY DEF Init
  <2>2. sort \in [field : Fields, up : BOOLEAN]
    BY <2>1, SortAssumption DEF TablesInit
  <2>3. size \in PageSizes
    BY <2>1, SizesAssumption DEF TablesInit
  <2>4. rows \subseteq Rows
    BY <2>1 DEF TablesInit
  <2>5. page = 1 /\ table \in {"guests", "history"}
    BY <2>1, Zenon DEF TablesInit
  <2> QED
    BY <2>2, <2>3, <2>4, <2>5 DEF TableTypeOK
<1>2. TableTypeOK /\ [Next]_vars => TableTypeOK'
  <2> SUFFICES ASSUME TableTypeOK, [Next]_vars PROVE TableTypeOK'
    OBVIOUS
  <2> USE DEF TableTypeOK
  <2>1. CASE UNCHANGED tableVars
    BY <2>1 DEF tableVars
  <2>2. ASSUME NEW f \in Filters, Search(f) PROVE TableTypeOK'
    BY <2>2 DEF Search
  <2>3. ASSUME NEW s \in PageSizes, ChangeSize(s) PROVE TableTypeOK'
    BY <2>3 DEF ChangeSize
  <2>4. ASSUME NEW f \in Fields, SortBy(f) PROVE TableTypeOK'
    BY <2>4 DEF SortBy
  <2>5. ASSUME NEW p \in 1..Cardinality(Rows) + 1, TurnBack(p) \/ TurnOn(p) PROVE TableTypeOK'
    <3>1. Cardinality(Rows) \in Nat
      BY RowsAssumption, FS_CardinalityType
    <3> QED
      BY <2>5, <3>1 DEF TurnBack, TurnOn
  <2>6. CASE ChangeRows
    BY <2>6 DEF ChangeRows
  <2> QED
    BY <2>1, <2>2, <2>3, <2>4, <2>5, <2>6, StepsOfTables DEF TablesNext
<1> QED
  BY <1>1, <1>2, PTL DEF Spec

\* A click on a table that shows a row leads to a page with a row, if there are rows
\* to show: a search, a new page size, a column and the four buttons (app.jsx).
THEOREM ClicksShowRows == Spec => TableShowsRows
<1>1. TableTypeOK /\ TableTypeOK' /\ [Next]_vars =>
        [/\ rows' = rows
         /\ Found = {} \/ PageRows(page) # {}
         => Found' = {} \/ PageRows(page)' # {}]_tableVars
  <2> SUFFICES ASSUME TableTypeOK, TableTypeOK', [Next]_vars,
                      rows' = rows, Found = {} \/ PageRows(page) # {}, Found' # {},
                      ~UNCHANGED tableVars
               PROVE  PageRows(page)' # {}
    OBVIOUS
  <2>1. /\ TotalPages \in Nat
        /\ \A p \in Nat \ {0} : PageRows(p) # {} <=> p <= TotalPages
    BY PagesAreCounted
  <2>2. (/\ TotalPages \in Nat
         /\ Found # {} => PageRows(1) # {}
         /\ \A p \in Nat \ {0} : PageRows(p) # {} <=> p <= TotalPages)'
    BY PagesAreCounted, PTL
  <2>3. page \in Nat \ {0} /\ page' \in Nat \ {0}
    BY DEF TableTypeOK
  <2>4. CASE page' = 1
    BY <2>2, <2>4
  <2>5. CASE UNCHANGED <<rows, filter, size>>
    <3>1. Found' = Found /\ TotalPages' = TotalPages
      BY <2>5 DEF Found, TotalPages
    <3>2. page <= TotalPages
      BY <2>1, <2>3, <3>1
    <3>3. SUFFICES page' <= TotalPages'
      BY <2>2, <2>3
    <3>4. ASSUME NEW f \in Fields, SortBy(f) PROVE page' <= TotalPages'
      BY <3>1, <3>2, <3>4 DEF SortBy
    <3>5. ASSUME NEW p, TurnBack(p) PROVE page' <= TotalPages'
      BY <2>1, <2>3, <3>1, <3>2, <3>5 DEF TurnBack
    <3>6. ASSUME NEW p, TurnOn(p) PROVE page' <= TotalPages'
      BY <2>1, <2>3, <3>1, <3>2, <3>6 DEF TurnOn, AtEnd
    <3>7. ~ChangeRows
      BY DEF ChangeRows, tableVars
    <3>8. ASSUME NEW f, Search(f) PROVE page' = 1
      BY <3>8 DEF Search
    <3>9. ASSUME NEW s, ChangeSize(s) PROVE page' = 1
      BY <3>9 DEF ChangeSize
    <3> QED
      BY <2>1, <2>3, <3>1, <3>2, <3>4, <3>5, <3>6, <3>7, <3>8, <3>9, StepsOfTables DEF TablesNext
  <2>6. ASSUME ~UNCHANGED <<rows, filter, size>> PROVE page' = 1
    <3>1. ASSUME NEW f, Search(f) PROVE page' = 1
      BY <3>1 DEF Search
    <3>2. ASSUME NEW s, ChangeSize(s) PROVE page' = 1
      BY <3>2 DEF ChangeSize
    <3>3. ASSUME NEW f, SortBy(f) PROVE FALSE
      BY <2>6, <3>3 DEF SortBy
    <3>4. ASSUME NEW p, TurnBack(p) \/ TurnOn(p) PROVE FALSE
      BY <2>6, <3>4 DEF TurnBack, TurnOn
    <3>5. ~ChangeRows
      BY DEF ChangeRows, tableVars
    <3> QED
      BY <3>1, <3>2, <3>3, <3>4, <3>5, StepsOfTables DEF TablesNext
  <2> QED
    BY <2>4, <2>5, <2>6
<1> QED
  BY <1>1, TablesTypeCorrect, PTL DEF Spec, TableShowsRows
=============================================================================
