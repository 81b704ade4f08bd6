------------------------------ MODULE LogTable ------------------------------
(***************************************************************************)
(* The log of the water pump: the ids of logtable in the sqlite file, and  *)
(* the four statements DB_AddRow runs against it for a complete row        *)
(* (INSERT, count, min, DELETE of the oldest band).  A statement is one    *)
(* atomic sqlite transaction that commits or fails; the process may stop   *)
(* between two of them and be started again.                               *)
(***************************************************************************)
EXTENDS Integers, FiniteSets, FiniteSetsExt

CONSTANTS
  MaxRows,  \* MAXLOGROWNUMS
  Band,     \* MAXLOG_TRUNCATE_THRESHOLD
  MaxId     \* bound: rows inserted in a behaviour

ASSUME LimitAssumption ==
  /\ MaxRows \in Nat \ {0}
  /\ Band \in Nat \ {0}
  /\ MaxId \in Nat

VARIABLES
  table,    \* logtable exists in the file
  ids,      \* ids of its rows
  pc,       \* the statement DB_AddRow is to run; "idle" between two rows
  min_id,   \* answer of SELECT min(id)
  issued,   \* history: the highest id ever given to a row
  skipped   \* history: rows whose prune pass failed or was cut short

log_vars == <<table, ids, pc, min_id, issued, skipped>>

LogInit ==
  /\ table = FALSE
  /\ ids = {}
  /\ pc = "down"
  /\ min_id = 0
  /\ issued = 0
  /\ skipped = 0

-----------------------------------------------------------------------------
\* Faulty forms, named for what goes wrong in them; each shows that one of
\* the properties below can fail.
NextIdFromZero == IF ids = {} THEN 0 ELSE Max(ids) + 1
OverLimitLate == Cardinality(ids) > MaxRows + Band
OverLimitEarly == Cardinality(ids) >= MaxRows
KeptWithOldest == {i \in ids : i <= min_id \/ i > min_id + Band}
KeptOldest == {i \in ids : i < min_id + MaxRows}

\* The id sqlite gives a new row: INTEGER PRIMARY KEY without AUTOINCREMENT.
NextId == IF ids = {} THEN 1 ELSE Max(ids) + 1

\* The test of the limit.
OverLimit == Cardinality(ids) >= MaxRows + Band

\* The rows the DELETE of the oldest band leaves.
Kept == {i \in ids : i >= min_id + Band}

\* DB_Open: a missing table is created; whatever fails, the program goes on.
Open ==
  /\ pc = "down"
  /\ table' \in {table, TRUE}
  /\ pc' = "idle"
  /\ UNCHANGED <<ids, min_id, issued, skipped>>

\* INSERT of the row, committed.
Insert ==
  /\ pc = "idle" /\ table /\ issued < MaxId
  /\ ids' = ids \cup {NextId}
  /\ issued' = Max({issued, NextId})
  /\ pc' = "count"
  /\ UNCHANGED <<table, min_id, skipped>>

\* INSERT refused (locked, full, no table): DB_AddRow returns 1.
InsertFails ==
  /\ pc = "idle"
  /\ UNCHANGED log_vars

\* SELECT count(*), and the test of the limit.
Count ==
  /\ pc = "count"
  /\ pc' = IF OverLimit THEN "min" ELSE "idle"
  /\ UNCHANGED <<table, ids, min_id, issued, skipped>>

\* SELECT min(id).
FindMin ==
  /\ pc = "min"
  /\ min_id' = Min(ids)
  /\ pc' = "delete"
  /\ UNCHANGED <<table, ids, issued, skipped>>

\* DELETE of the oldest band.
Delete ==
  /\ pc = "delete"
  /\ ids' = Kept
  /\ pc' = "idle"
  /\ UNCHANGED <<table, min_id, issued, skipped>>

\* One of the last three statements fails: DB_AddRow returns 2, 3 or 4.
PruneFails ==
  /\ pc \in {"count", "min", "delete"}
  /\ pc' = "idle"
  /\ skipped' = skipped + 1
  /\ UNCHANGED <<table, ids, min_id, issued>>

\* The process stops, by itself or with the machine; the file stays.
Crash ==
  /\ pc # "down"
  /\ pc' = "down"
  /\ skipped' = IF pc = "idle" THEN skipped ELSE skipped + 1
  /\ UNCHANGED <<table, ids, min_id, issued>>

LogNext ==
  \/ Open
  \/ Insert \/ InsertFails
  \/ Count \/ FindMin \/ Delete \/ PruneFails
  \/ Crash

LogSpec == LogInit /\ [][LogNext]_log_vars

-----------------------------------------------------------------------------
\* Shape of the state; a file without the table holds no row (DB_Open,
\* DB_AddRow).
LogTypeOK ==
  /\ table \in BOOLEAN
  /\ ids \in SUBSET (Nat \ {0})
  /\ pc \in {"down", "idle", "count", "min", "delete"}
  /\ min_id \in Nat
  /\ issued \in Nat
  /\ skipped \in Nat
  /\ ~table => ids = {}

\* The ids of the log have no gap: the alarms query compares a row with the
\* row before it by x.id = y.id + 1 (up2web_comm.cpp:559), and the DELETE
\* by id removes as many rows as it means to.
Contiguous == \A i, j \in ids : i..j \subseteq ids

\* Between two rows the log is at most Band - 1 rows over MAXLOGROWNUMS, and
\* one more for every prune pass that ever failed or was cut short.  That is an
\* upper bound: rows that a later pass takes in their place are not counted off
\* (up2web_comm.cpp:322-347).
SizeBounded ==
  Cardinality(ids) < MaxRows + Band + skipped + (IF pc \in {"down", "idle"} THEN 0 ELSE 1)

\* A row leaves the log only when MAXLOGROWNUMS newer rows remain, also
\* after failures and restarts (the DELETE of up2web_comm.cpp:341).
Retention ==
  [][\A i \in ids \ ids' : Cardinality({j \in ids' : j > i}) >= MaxRows]_log_vars

\* An id never comes to name a second row, so a client may page through the
\* log by "id" while it is pruned (base "id", up2web_comm.cpp:423-433).
IdsNeverReused == [][\A i \in ids' \ ids : i > issued]_log_vars
=============================================================================
