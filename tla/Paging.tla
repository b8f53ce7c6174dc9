------------------------------- MODULE Paging -------------------------------
(***************************************************************************)
(* The lists of the API that are read in pages, newest first: the audit    *)
(* log, the events and the jobs (backend/internal/app/audit.go, events.go, *)
(* backend/internal/worker).  A page asks for limit + 1 rows below the     *)
(* cursor, and the id of its last row is the next cursor.  Ids are drawn   *)
(* before their rows are written, so rows appear out of order; retention   *)
(* deletes the oldest rows while a reader is between two pages.            *)
(***************************************************************************)
EXTENDS Integers, FiniteSets, Sequences, SequencesExt

CONSTANTS
  Limit,     \* rows per page
  MaxRows    \* bound: rows written

ASSUME PagingAssumption == Limit \in Nat \ {0} /\ MaxRows \in Nat

VARIABLES
  drawn,     \* ids drawn so far (ulid.Make)
  writing,   \* ids whose rows are not written yet
  table,     \* ids of the rows
  cursor,    \* the reader's cursor: 0 before the first page and after the last
  got,       \* ids the reader received, in order
  reading,   \* the reader is between two pages
  stable     \* history: rows that were there when the reader began and still are

pagingVars == <<drawn, writing, table, cursor, got, reading, stable>>

-----------------------------------------------------------------------------
\* audit draws the id of its entry and then inserts it.
Draw ==
  /\ drawn < MaxRows
  /\ drawn' = drawn + 1 /\ writing' = writing \cup {drawn + 1}
  /\ UNCHANGED <<table, cursor, got, reading, stable>>

InsertAudit ==
  /\ \E id \in writing : writing' = writing \ {id} /\ table' = table \cup {id}
  /\ UNCHANGED <<drawn, cursor, got, reading, stable>>

\* DeleteAuditBefore and the other retention statements.
DeleteAuditBefore ==
  /\ \E before \in table : table' = {id \in table : id > before}
  /\ stable' = stable \cap table'
  /\ UNCHANGED <<drawn, writing, cursor, got, reading>>

Above(ids, id) == {other \in ids : other > id}

\* The first limit rows below the cursor, newest first: the i-th one has
\* i - 1 rows before it.
Rows(at, limit) ==
  LET below == {id \in table : at = 0 \/ id < at}
      size  == IF Cardinality(below) < limit THEN Cardinality(below) ELSE limit
  IN [i \in 1 .. size |-> CHOOSE id \in below : Cardinality(Above(below, id)) = i - 1]

\* A bug: the cursor is the first row left out, which is then skipped.
ListAuditSkips ==
  LET rows == Rows(cursor, Limit + 1)
      more == Len(rows) > Limit
      page == IF more THEN SubSeq(rows, 1, Limit) ELSE rows
  IN /\ reading' = more
     /\ cursor' = IF more THEN rows[Limit + 1] ELSE 0
     /\ got' = (IF reading THEN got ELSE << >>) \o page
     /\ stable' = IF reading THEN stable ELSE table
     /\ UNCHANGED <<drawn, writing, table>>

\* ListAudit: one row more than the page shows whether another page follows.
ListAudit ==
  LET rows == Rows(cursor, Limit + 1)
      more == Len(rows) > Limit
      page == IF more THEN SubSeq(rows, 1, Limit) ELSE rows
  IN /\ reading' = more
     /\ cursor' = IF more THEN page[Limit] ELSE 0
     /\ got' = (IF reading THEN got ELSE << >>) \o page
     /\ stable' = IF reading THEN stable ELSE table
     /\ UNCHANGED <<drawn, writing, table>>

-----------------------------------------------------------------------------
PagingInit ==
  /\ drawn = 0 /\ writing = {} /\ table = {}
  /\ cursor = 0 /\ got = << >> /\ reading = FALSE /\ stable = {}

PagingNext == Draw \/ InsertAudit \/ DeleteAuditBefore \/ ListAudit

PagingSpec == PagingInit /\ [][PagingNext]_pagingVars

-----------------------------------------------------------------------------
\* ListAudit, ListEvents and the job list: the pages of one reading hold
\* every row that stayed in the table from its start to its end, and no row
\* twice, whatever was inserted and deleted meanwhile.
PagesComplete ==
  /\ IsInjective(got)
  /\ ~reading => stable \subseteq ToSet(got)
=============================================================================
