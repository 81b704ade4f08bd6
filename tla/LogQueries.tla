----------------------------- MODULE LogQueries -----------------------------
(***************************************************************************)
(* The web server's requests for rows (tags 3 and 4), answered by the      *)
(* child from the table the parent goes on filling and pruning.  A request *)
(* takes two SELECTs, one for the id of its base and one for the rows, and *)
(* the log may change between them.  An answer is the set of ids it        *)
(* returns; column choice and text are left out.                           *)
(***************************************************************************)
EXTENDS LogTable

CONSTANTS
  RowValue,    \* rows, records with fields date, counter, alarms
  Bit,         \* alarm bits; alarms and filters are sets of them
  Asking,      \* the requests the web server makes
  MaxAmount,   \* MAX_REQUESTED_ROW_AMOUNT
  IntHalf,     \* 2^31: int, to which json_int_t is narrowed, is -IntHalf..IntHalf-1
  None         \* no request

Base == {"last", "first", "id", "date", "counter"}
Request == [tag : {"table", "alarms"}, base : Base, arg : Int, up : BOOLEAN,
            amount : Int, filter : SUBSET Bit]

ASSUME RequestAssumption ==
  /\ \A r \in RowValue : r.date \in Nat /\ r.counter \in Nat /\ r.alarms \subseteq Bit
  /\ Asking \subseteq Request
  /\ MaxAmount \in Nat
  /\ IntHalf \in Nat \ {0}
  /\ None \notin Request

VARIABLES
  data,      \* the rows of the log, by id
  req,       \* the request whose base is found and whose rows are not
  base_id,   \* the id found for its base
  answer     \* what the last step wrote to the client: the ids of the rows

query_vars == <<log_vars, data, req, base_id, answer>>

Error == {0}    \* the answer {"error":"error"}; no row has the id 0

QueryInit ==
  /\ LogInit
  /\ data = [i \in {} |-> 0]
  /\ req = None
  /\ base_id = 0
  /\ answer = {}

-----------------------------------------------------------------------------
\* Faulty forms, named for what goes wrong in them; each shows that one of
\* the properties below can fail.
LimitFarthest(S, up, n) ==
  {i \in S : n < 0 \/ Cardinality({j \in S : IF up THEN j > i ELSE j < i}) < n}
RangeStrict(base, up) == {i \in ids : IF up THEN i > base ELSE i < base}
AlarmChangesEnding(filter) ==
  {i \in ids : i + 1 \in ids /\ data[i].alarms \cap filter # data[i + 1].alarms \cap filter}
LatestOfCounter(S) == {i \in S : \A j \in S : data[j].counter = data[i].counter => i >= j}
AmountUncut(n) == ((n + IntHalf) % (2 * IntHalf)) - IntHalf
BaseIdOrZero(r) ==
  IF ids = {} THEN 0 ELSE IF r.up THEN Min(ids) ELSE Max(ids)

\* "amount", narrowed to int and cut at the maximum.
Narrow(n) == ((n + IntHalf) % (2 * IntHalf)) - IntHalf
Amount(n) == Min({Narrow(n), MaxAmount})

\* "direction"; two bases have one of their own.
Up(r) == r.base = "first" \/ (r.base # "last" /\ r.up)

\* The rows among which the base of a request is chosen.
Candidates(r) ==
  CASE r.base \in {"last", "first"} -> ids
    [] r.base = "id" -> ids \cap {r.arg}
    [] r.base = "date" -> {i \in ids : IF r.up THEN data[i].date >= r.arg ELSE data[i].date <= r.arg}
    [] r.base = "counter" -> {i \in ids : IF r.up THEN data[i].counter >= r.arg ELSE data[i].counter <= r.arg}

\* The id of the base, or -1: min() upwards, max() downwards.
BaseId(r) ==
  IF Candidates(r) = {} THEN -1
  ELSE IF Up(r) THEN Min(Candidates(r)) ELSE Max(Candidates(r))

\* WHERE id >= base, or id <= base.
InRange(base, up) == {i \in ids : IF up THEN i >= base ELSE i <= base}

\* ORDER BY id ASC or DESC LIMIT n; a negative limit is none.
Limit(S, up, n) ==
  {i \in S : n < 0 \/ Cardinality({j \in S : IF up THEN j < i ELSE j > i}) < n}

\* GROUP BY (WF_counter) with MIN(id).
FirstOfCounter(S) == {i \in S : \A j \in S : data[j].counter = data[i].counter => i <= j}

\* The self-join x.id = y.id + 1 on rows whose filtered alarms differ.
AlarmChanges(filter) ==
  {i \in ids : i - 1 \in ids /\ data[i].alarms \cap filter # data[i - 1].alarms \cap filter}

TableRows(r, base) == Limit(FirstOfCounter(InRange(base, Up(r))), Up(r), Amount(r.amount))

AlarmRows(r, base) == Limit(AlarmChanges(r.filter) \cap InRange(base, Up(r)), Up(r), Amount(r.amount))

RowsFor(r, base) == IF r.tag = "table" THEN TableRows(r, base) ELSE AlarmRows(r, base)

-----------------------------------------------------------------------------
\* The parent goes on with the log; the pump's counter does not run
\* backwards, and neither does the clock.
ParentStep ==
  /\ LogNext
  /\ answer' = {}
  /\ data' \in {[i \in ids' |-> IF i \in ids THEN data[i] ELSE row] : row \in RowValue}
  /\ \A i, j \in ids' : i < j => /\ data'[i].date <= data'[j].date
                                 /\ data'[i].counter <= data'[j].counter
  /\ UNCHANGED <<req, base_id>>

\* The child reads a request and looks for its base; without one, or when
\* the SELECT fails, it answers with an error.
FindBase(r) ==
  /\ req = None
  /\ \/ answer' = Error /\ UNCHANGED <<req, base_id>>
     \/ BaseId(r) >= 0 /\ answer' = {} /\ req' = r /\ base_id' = BaseId(r)
  /\ UNCHANGED <<log_vars, data>>

\* It selects the rows and answers.
Select ==
  /\ req # None
  /\ answer' = RowsFor(req, base_id)
  /\ req' = None
  /\ base_id' = 0
  /\ UNCHANGED <<log_vars, data>>

\* The second SELECT fails.
RequestFails ==
  /\ req # None
  /\ answer' = Error
  /\ req' = None
  /\ base_id' = 0
  /\ UNCHANGED <<log_vars, data>>

QueryNext ==
  \/ ParentStep
  \/ \E r \in Asking : FindBase(r)
  \/ Select
  \/ RequestFails

QuerySpec == QueryInit /\ [][QueryNext]_query_vars

-----------------------------------------------------------------------------
\* Shape of the state; a request goes on to its second SELECT with the id of
\* a row that was in the log.
QueryTypeOK ==
  /\ LogTypeOK
  /\ DOMAIN data = ids
  /\ \A i \in ids : data[i] \in RowValue
  /\ req \in Asking \cup {None}
  /\ base_id \in (IF req = None THEN {0} ELSE 1..issued)
  /\ answer \in SUBSET Nat

Nearer(i, j, up) == IF up THEN i < j ELSE i > j

\* An answer to a table request has one row for each counter reading, and
\* the readings it leaves out are farther from the base than every one it
\* has; it leaves one out only when it is full (NOTE and
\* DB_ServeTableRequest, up2web_comm.cpp:488-541).
TablePage ==
  [][(Select /\ req.tag = "table") =>
       LET n == Amount(req.amount)
           Reading(S) == {data[i].counter : i \in S}
           left == Reading(InRange(base_id, Up(req))) \ Reading(answer')
       IN  /\ \A i, j \in answer' : data[i].counter = data[j].counter => i = j
           /\ left # {} => Cardinality(answer') = n
           /\ \A c \in left, a \in answer' : Nearer(data[a].counter, c, Up(req))]_query_vars

\* An answer to an alarms request has the rows whose filtered alarms differ
\* from those of the row logged before, nearest to the base first: the join
\* by x.id = y.id + 1 misses none (up2web_comm.cpp:556-565).
AlarmsPage ==
  [][(Select /\ req.tag = "alarms") =>
       LET before(i) == Max({j \in ids : j < i})
           change == {i \in ids : /\ \E j \in ids : j < i
                                  /\ data[i].alarms \cap req.filter
                                       # data[before(i)].alarms \cap req.filter}
           left == (change \cap InRange(base_id, Up(req))) \ answer'
       IN  /\ answer' \subseteq change
           /\ left # {} => Cardinality(answer') = Amount(req.amount)
           /\ \A i \in left, a \in answer' : Nearer(a, i, Up(req))]_query_vars

\* A table request for the last rows is answered with the reading of the
\* newest row there was when it was read, unless MAXLOGROWNUMS rows were
\* added before its second SELECT (up2web_comm.cpp:409-415 and 536-537).
LastRowAnswered ==
  [][(Select /\ req.tag = "table" /\ req.base = "last" /\ Amount(req.amount) # 0) =>
       \/ base_id \in ids /\ \E a \in answer' : data[a].counter = data[base_id].counter
       \/ issued - base_id >= MaxRows]_query_vars

\* The base is at the edge of a group: what is on the far side of it has all
\* of the rows of its readings.
AtGroupEdge(r) == ~Up(r) \/ r.base \in {"first", "counter"}

\* Every request but one upwards from an id or a date is answered with the
\* earliest row that the log has of each reading, though rows come and go
\* between the SELECTs: the base, which is chosen by row, does not cut off the
\* rows of its reading before it (up2web_comm.cpp:427-456 and 488-537).
EarliestFromGroupEdge ==
  [][(Select /\ req.tag = "table" /\ AtGroupEdge(req)) =>
       \A i \in answer', j \in ids : data[i].counter = data[j].counter => i <= j]_query_vars

\* MAX_REQUESTED_ROW_AMOUNT bounds an answer, but for an amount that is
\* negative, or is after it was narrowed (up2web_comm.cpp:371-378).
AnswerBounded ==
  [][Select => Cardinality(answer') <= MaxAmount \/ Narrow(req.amount) < 0]_query_vars

-----------------------------------------------------------------------------
\* What a comment says of every table request: "From group of rows with same
\* WF couter reading we have to select earliest row" (up2web_comm.cpp:491).
EarliestOfReading ==
  [][(Select /\ req.tag = "table") =>
       \A i \in answer', j \in ids : data[i].counter = data[j].counter => i <= j]_query_vars
=============================================================================
