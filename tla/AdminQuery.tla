----------------------------- MODULE AdminQuery -----------------------------
(***************************************************************************)
(* Lists of the admin API: keyset pages over tables that change while an   *)
(* operator pages through them (admin/query, admin/store).  A page is the  *)
(* result of one SQL query; the signed cursor that leads to the next page  *)
(* holds the sort values of the last row, written as strings.              *)
(***************************************************************************)
EXTENDS Integers, Sequences, FiniteSets

CONSTANTS
    Ids,        \* primary keys
    Vals,       \* values of the sort column
    Limit,      \* page size
    MaxEdits    \* bound on changes of the table, and of the query

ASSUME QueryAssumption ==
    /\ Ids \subseteq Nat /\ Vals \subseteq Nat \ {0} /\ Limit \in Nat \ {0} /\ MaxEdits \in Nat

(* A nullable column's missing value, and the empty string its missing    *)
(* value becomes in a cursor.                                             *)
Null == -1
Empty == 0

----------------------------------------------------------------------------
(* The collections, by the columns they can be sorted by: their type, and  *)
(* whether the schema lets them be null.                                   *)

Column(type, nullable) == [type |-> type, nullable |-> nullable]
Plain(types) == {Column(t, FALSE) : t \in types}
Nullable(types) == {Column(t, TRUE) : t \in types}

TenantsCollection == Plain({"uuid", "string", "timestamp"})
APIKeysCollection == Plain({"uuid", "string", "timestamp"}) \cup Nullable({"timestamp"})
SessionsCollection == Plain({"uuid", "string", "int", "timestamp"}) \cup Nullable({"timestamp"})
EventsCollection == Plain({"uuid", "string", "int", "timestamp"})
RunsCollection == Plain({"uuid", "string", "timestamp"}) \cup Nullable({"uuid", "string"})
RunStepsCollection == Plain({"uuid", "string", "int", "timestamp"})
ResourcesCollection == Plain({"uuid", "string", "timestamp"})
ProvidersCollection == Plain({"uuid", "string", "timestamp"}) \cup Nullable({"timestamp"})
CredentialsCollection == Plain({"uuid", "string", "timestamp"})
PeriodicPromptsCollection == Plain({"uuid", "string", "bool", "timestamp"})
MemoryCollection == Plain({"uuid", "string", "timestamp"})
WaitsCollection == Plain({"uuid", "string", "timestamp"})
JobsCollection == Plain({"string", "int", "timestamp"}) \cup Nullable({"timestamp"})
AuditEventsCollection == Plain({"uuid", "string", "timestamp"}) \cup Nullable({"string"})

NewRegistry ==
    {TenantsCollection, APIKeysCollection, SessionsCollection, EventsCollection,
     RunsCollection, RunStepsCollection, ResourcesCollection, ProvidersCollection,
     CredentialsCollection, PeriodicPromptsCollection, MemoryCollection, WaitsCollection,
     JobsCollection, AuditEventsCollection}
Columns == UNION NewRegistry

VARIABLES
    column, desc,   \* what the list is sorted by, and in which direction
    table,          \* the rows: primary key to sort value
    filter,         \* the values the request's filter lets through
    view,           \* what the operator holds: rows so far, cursor, outcome
    touched,        \* history: rows inserted, updated or deleted meanwhile
    edits
queryVars == <<column, desc, table, filter, view, touched, edits>>

NoCursor == [v |-> Null, id |-> Null, fp |-> {}, live |-> FALSE]
SortValues(v) == IF column.nullable THEN v \cup {Null} ELSE v

----------------------------------------------------------------------------
(* The compiled query.                                                     *)

\* ORDER BY the column, NULLS LAST, then the primary key.
Before(i, j) ==
    LET x == table[i]
        y == table[j]
    IN  \/ x = y /\ i < j
        \/ x # Null /\ y = Null
        \/ x # Null /\ y # Null /\ (IF desc THEN x > y ELSE x < y)

CompileFilter(i) == table[i] \in filter

FormatSortValue(v) == IF v = Null THEN Empty ELSE v
\* The empty string is no int, bool or timestamp; as a uuid it passes here
\* and is refused by the database.
Coerces(v) == v # Empty \/ column.type = "string"

KeysetPredicateNoTie(i, c) ==  \* mutant
    table[i] # Null /\ (IF desc THEN table[i] < c.v ELSE table[i] > c.v)
\* (column IS NOT NULL AND column > v) OR (column IS NOT DISTINCT FROM v AND id > k)
KeysetPredicate(i, c) ==
    \/ table[i] # Null /\ (IF desc THEN table[i] < c.v ELSE table[i] > c.v)
    \/ table[i] = c.v /\ i > c.id

\* The cursor's signature and age, and the query it was signed for.
Verify(c) == c.live
Fingerprint(c) == c.fp = filter

Matches == {i \in DOMAIN table :
              CompileFilter(i) /\ (view.cursor = NoCursor \/ KeysetPredicate(i, view.cursor))}
\* ORDER BY and LIMIT: the first n of the rows that match, in order.
Selected(n) ==
    {s \in UNION {[1 .. m -> Matches] : m \in 0 .. n} :
        /\ \A a, b \in DOMAIN s : a < b => Before(s[a], s[b])
        /\ \A i \in Matches :
             \/ \E a \in DOMAIN s : s[a] = i
             \/ Len(s) = n /\ \A a \in DOMAIN s : Before(s[a], i)}

(* AdminStore.list, which fetches one row more than the page, to see       *)
(* whether there are more.                                                 *)
NextPage ==
    \E fetched \in Selected(Limit + 1) :
        LET more == Len(fetched) > Limit
            keep == IF more THEN SubSeq(fetched, 1, Limit) ELSE fetched
            last == keep[Len(keep)]
        IN  view' = [rows |-> view.rows \o keep,
                     status |-> IF more THEN "paging" ELSE "end",
                     cursor |-> IF more THEN [v |-> FormatSortValue(table[last]), id |-> last,
                                              fp |-> filter, live |-> TRUE]
                                ELSE NoCursor]

\* A list that starts over grows for ever: what is held is bounded.
MaxRows == Cardinality(Ids) + MaxEdits + 1

List ==
    /\ view.status = "paging" /\ Len(view.rows) < MaxRows
    /\ IF view.cursor = NoCursor
          \/ (Verify(view.cursor) /\ Fingerprint(view.cursor) /\ Coerces(view.cursor.v))
       THEN NextPage
       ELSE view' = [view EXCEPT !.status = "error"]
    /\ UNCHANGED <<column, desc, table, filter, touched, edits>>

QueryInit ==
    /\ column \in Columns /\ desc \in BOOLEAN
    /\ \E present \in SUBSET Ids : table \in [present -> SortValues(Vals)]
    /\ filter \in {SortValues(Vals)} \cup {{v} : v \in Vals}
    /\ view = [rows |-> <<>>, status |-> "paging", cursor |-> NoCursor]
    /\ touched = {} /\ edits = 0

----------------------------------------------------------------------------
(* Meanwhile.                                                              *)

Edit ==
    /\ edits < MaxEdits /\ edits' = edits + 1
    /\ view.status = "paging" /\ view.cursor # NoCursor
    /\ UNCHANGED <<column, desc>>

Insert(i, v) ==
    /\ Edit
    /\ i \notin DOMAIN table
    /\ table' = [j \in DOMAIN table \cup {i} |-> IF j = i THEN v ELSE table[j]]
    /\ touched' = touched \cup {i}
    /\ UNCHANGED <<filter, view>>

Delete(i) ==
    /\ Edit
    /\ i \in DOMAIN table
    /\ table' = [j \in DOMAIN table \ {i} |-> table[j]]
    /\ touched' = touched \cup {i}
    /\ UNCHANGED <<filter, view>>

Update(i, v) ==
    /\ Edit
    /\ i \in DOMAIN table /\ v # table[i]
    /\ table' = [table EXCEPT ![i] = v]
    /\ touched' = touched \cup {i}
    /\ UNCHANGED <<filter, view>>

\* The operator changes the filter and keeps the cursor.
Refilter(f) ==
    /\ Edit
    /\ f # filter /\ filter' = f
    /\ UNCHANGED <<table, view, touched>>

\* The cursor outlives its TTL, or the signing secret changes.
Expire ==
    /\ Edit
    /\ view' = [view EXCEPT !.cursor.live = FALSE]
    /\ UNCHANGED <<table, filter, touched>>

QueryNext ==
    \/ List
    \/ \E i \in Ids, v \in SortValues(Vals) : Insert(i, v) \/ Update(i, v)
    \/ \E i \in Ids : Delete(i)
    \/ \E f \in {SortValues(Vals)} \cup {{v} : v \in Vals} : Refilter(f)
    \/ Expire

QuerySpec == QueryInit /\ [][QueryNext]_queryVars

----------------------------------------------------------------------------
(* Properties.  A nullable text column restarts the list at its first row  *)
(* when a page ends at a missing value, so the first and the third leave   *)
(* such columns out; README.md says which collections have one.            *)

Restarts == column.nullable /\ column.type = "string" /\ ~desc

(* Types of the list's state: the table, the filter and what is held.      *)
QueryTypeOK ==
    /\ DOMAIN table \subseteq Ids /\ \A i \in DOMAIN table : table[i] \in SortValues(Vals)
    /\ filter \subseteq SortValues(Vals)
    /\ view.status \in {"paging", "end", "error"}
    /\ \A n \in DOMAIN view.rows : view.rows[n] \in Ids
    /\ view.cursor = NoCursor \/ (view.cursor.v \in Vals \cup {Empty} /\ view.cursor.id \in Ids)
    /\ touched \subseteq Ids /\ edits \in 0 .. MaxEdits

(* Keyset order (keysetPredicate, pkSorts): whatever is inserted, deleted  *)
(* or updated between two pages, rows that nobody touched are listed in    *)
(* order, and none of them twice.                                          *)
ListedInOrder ==
    ~Restarts =>
        \A m, n \in DOMAIN view.rows :
            m < n /\ {view.rows[m], view.rows[n]} \cap touched = {}
                => Before(view.rows[m], view.rows[n])

(* Completeness (AdminStore.list): a list that came to its end holds every *)
(* row that nobody touched, that the filter lets through, and that has a   *)
(* value to sort by.                                                       *)
NothingSkipped ==
    view.status = "end" =>
        \A i \in DOMAIN table \ touched :
            table[i] \in filter \ {Null} => \E n \in DOMAIN view.rows : view.rows[n] = i

(* Cursors (fingerprint): the rows an operator holds are of one query,     *)
(* although filters change while a cursor is held.                         *)
OneQuery ==
    \A n \in DOMAIN view.rows :
        view.rows[n] \notin touched /\ view.status # "error" /\ view.cursor # NoCursor
            => table[view.rows[n]] \in view.cursor.fp

(* A list read page by page is one list: ordered, complete and of one      *)
(* query, while the table, the filter and the cursor change underneath.    *)
PagesWhole == QueryTypeOK /\ ListedInOrder /\ NothingSkipped /\ OneQuery
=============================================================================
