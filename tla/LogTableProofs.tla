--------------------------- MODULE LogTableProofs ---------------------------
(***************************************************************************)
(* Theorems about the log table, for every size of the log, every band and *)
(* every number of rows.  The inductive invariant LogInv says that the ids *)
(* are an interval that ends with the last id issued, and what is known of *)
(* its length at each statement of DB_AddRow.                              *)
(***************************************************************************)
EXTENDS LogTable, FiniteSetTheorems, TLAPS

\* The ids from lo to the last one issued.
IdsFrom(lo) == lo \in 1..issued /\ ids = lo..issued

\* The log is empty, or an interval that ends with the last id issued.
Interval == (ids = {} /\ issued = 0) \/ \E lo \in Nat : IdsFrom(lo)

\* What DB_AddRow has learnt of the table before each statement.
Learnt ==
  /\ pc \in {"count", "min", "delete"} => ids # {}
  /\ pc \in {"min", "delete"} => Cardinality(ids) >= MaxRows + Band
  /\ pc = "delete" => min_id = Min(ids)

LogInv == LogTypeOK /\ Interval /\ Learnt /\ SizeBounded

-----------------------------------------------------------------------------
\* Length and ends of an interval of ids.
LEMMA IntervalFacts ==
  ASSUME NEW lo \in Nat, NEW hi \in Nat, lo <= hi
  PROVE  /\ lo..hi # {}
         /\ Cardinality(lo..hi) = hi - lo + 1
         /\ Max(lo..hi) = hi
         /\ Min(lo..hi) = lo
<1>1. Cardinality(lo..hi) = hi - lo + 1
  BY FS_Interval
<1>2. Max(lo..hi) = hi
  <2>1. hi \in lo..hi /\ \A y \in lo..hi : hi >= y
    OBVIOUS
  <2>2. \A x \in lo..hi : (\A y \in lo..hi : x >= y) => x = hi
    BY <2>1
  <2>3. QED
    BY <2>1, <2>2 DEF Max
<1>3. Min(lo..hi) = lo
  <2>1. lo \in lo..hi /\ \A y \in lo..hi : lo =< y
    OBVIOUS
  <2>2. \A x \in lo..hi : (\A y \in lo..hi : x =< y) => x = lo
    BY <2>1
  <2>3. QED
    BY <2>1, <2>2 DEF Min
<1>4. QED
  BY <1>1, <1>2, <1>3

\* The greater of two ids.
LEMMA MaxOfTwo ==
  ASSUME NEW a \in Nat, NEW b \in Nat, a <= b
  PROVE  Max({a, b}) = b
<1>1. b \in {a, b} /\ \A y \in {a, b} : b >= y
  OBVIOUS
<1>2. \A x \in {a, b} : (\A y \in {a, b} : x >= y) => x = b
  OBVIOUS
<1>3. QED
  BY <1>1, <1>2 DEF Max

\* The size of the log, and that its row count is a number.
LEMMA SizeType ==
  ASSUME LogTypeOK, Interval
  PROVE  Cardinality(ids) \in Nat
<1>1. CASE ids = {}
  BY <1>1, FS_EmptySet
<1>2. CASE \E lo \in Nat : IdsFrom(lo)
  <2>1. PICK lo \in Nat : IdsFrom(lo)
    BY <1>2
  <2>2. Cardinality(ids) = issued - lo + 1
    BY <2>1, IntervalFacts DEF IdsFrom, LogTypeOK
  <2>3. QED
    BY <2>1, <2>2 DEF IdsFrom, LogTypeOK
<1>3. QED
  BY <1>1, <1>2 DEF Interval

\* The id sqlite gives the next row follows the last one issued.
LEMMA NextIdFollows ==
  ASSUME LogTypeOK, Interval
  PROVE  NextId = issued + 1
<1>1. CASE ids = {} /\ issued = 0
  BY <1>1 DEF NextId
<1>2. CASE \E lo \in Nat : IdsFrom(lo)
  <2>1. PICK lo \in Nat : IdsFrom(lo)
    BY <1>2
  <2>2. ids # {} /\ Max(ids) = issued
    BY <2>1, IntervalFacts DEF IdsFrom, LogTypeOK
  <2>3. QED
    BY <2>2 DEF NextId
<1>3. QED
  BY <1>1, <1>2 DEF Interval

\* An inserted row prolongs the interval by one.
LEMMA InsertProlongs ==
  ASSUME LogTypeOK, Interval, Insert
  PROVE  /\ issued' = issued + 1
         /\ Interval'
         /\ ids' # {}
         /\ ids' \in SUBSET (Nat \ {0})
         /\ Cardinality(ids') = Cardinality(ids) + 1
<1>1. NextId = issued + 1
  BY NextIdFollows
<1>2. issued' = issued + 1 /\ issued \in Nat
  BY <1>1, MaxOfTwo DEF Insert, LogTypeOK
<1>3. CASE ids = {} /\ issued = 0
  <2>1. ids' = 1..1 /\ issued' = 1
    BY <1>1, <1>2, <1>3 DEF Insert
  <2>2. IdsFrom(1)'
    BY <2>1 DEF IdsFrom
  <2>3. Cardinality(ids') = 1
    <3>1. ids' = {1}
      BY <2>1
    <3>2. QED
      BY <3>1, FS_Singleton
  <2>4. Cardinality(ids) = 0
    BY <1>3, FS_EmptySet
  <2>5. QED
    BY <1>2, <2>1, <2>2, <2>3, <2>4 DEF Interval
<1>4. CASE \E lo \in Nat : IdsFrom(lo)
  <2>1. PICK lo \in Nat : IdsFrom(lo)
    BY <1>4
  <2>2. ids' = lo..issued + 1 /\ lo \in 1..issued
    BY <1>1, <1>2, <2>1 DEF Insert, IdsFrom
  <2>3. lo \in 1..issued' /\ ids' = lo..issued'
    BY <1>2, <2>2
  <2>4. Cardinality(ids') = issued + 1 - lo + 1 /\ Cardinality(ids) = issued - lo + 1
    BY <1>2, <2>1, <2>2, IntervalFacts DEF IdsFrom
  <2>5. Interval'
    BY <2>3 DEF Interval, IdsFrom
  <2>6. Cardinality(ids') = Cardinality(ids) + 1
    BY <1>2, <2>2, <2>4
  <2>7. ids' # {} /\ ids' \in SUBSET (Nat \ {0})
    BY <1>2, <2>2
  <2>8. QED
    BY <1>2, <2>5, <2>6, <2>7
<1>5. QED
  BY <1>3, <1>4 DEF Interval

\* The DELETE takes exactly the Band oldest rows, and leaves MaxRows.
LEMMA DeleteTakesBand ==
  ASSUME LogInv, Delete
  PROVE  /\ \E lo \in Nat : IdsFrom(lo) /\ ids' = lo + Band..issued /\ lo + Band <= issued
         /\ Interval'
         /\ ids' # {}
         /\ Cardinality(ids') = Cardinality(ids) - Band
         /\ Cardinality(ids') >= MaxRows
<1>1. PICK lo \in Nat : IdsFrom(lo)
  BY DEF LogInv, Learnt, Interval, Delete
<1>2. min_id = lo /\ Cardinality(ids) = issued - lo + 1 /\ issued \in Nat
  BY <1>1, IntervalFacts DEF LogInv, Learnt, Delete, IdsFrom, LogTypeOK
<1>3. issued - lo + 1 >= MaxRows + Band
  BY <1>2 DEF LogInv, Learnt, Delete
<1>4. ids' = lo + Band..issued /\ lo + Band \in 1..issued
  BY <1>1, <1>2, <1>3, LimitAssumption DEF Delete, Kept, IdsFrom
<1>5. Cardinality(ids') = issued - (lo + Band) + 1 /\ ids' # {}
  BY <1>2, <1>4, IntervalFacts, LimitAssumption
<1>6. Interval'
  BY <1>2, <1>4, LimitAssumption DEF Interval, IdsFrom, Delete
<1>7. QED
  BY <1>1, <1>2, <1>3, <1>4, <1>5, <1>6, LimitAssumption

-----------------------------------------------------------------------------
LEMMA LogInitInv == LogInit => LogInv
<1> SUFFICES ASSUME LogInit PROVE LogInv
  OBVIOUS
<1>1. LogTypeOK /\ Interval /\ Learnt
  BY DEF LogInit, LogTypeOK, Interval, Learnt
<1>2. Cardinality(ids) = 0
  BY FS_EmptySet DEF LogInit
<1>3. SizeBounded
  BY <1>2, LimitAssumption DEF LogInit, SizeBounded
<1>4. QED
  BY <1>1, <1>3 DEF LogInv

LEMMA OpenInv == LogInv /\ Open => LogInv'
BY DEF LogInv, LogTypeOK, Interval, IdsFrom, Learnt, SizeBounded, Open

LEMMA InsertInv == LogInv /\ Insert => LogInv'
<1> SUFFICES ASSUME LogInv, Insert PROVE LogInv'
  OBVIOUS
<1>1. /\ issued' = issued + 1
      /\ Interval'
      /\ ids' # {}
      /\ ids' \in SUBSET (Nat \ {0})
      /\ Cardinality(ids') = Cardinality(ids) + 1
  BY InsertProlongs DEF LogInv
<1>2. LogTypeOK'
  BY <1>1 DEF LogInv, LogTypeOK, Insert
<1>3. Learnt'
  BY <1>1 DEF Learnt, Insert
<1>4. SizeBounded'
  BY <1>1, SizeType, LimitAssumption DEF LogInv, LogTypeOK, SizeBounded, Insert
<1>5. QED
  BY <1>1, <1>2, <1>3, <1>4 DEF LogInv

LEMMA CountInv == LogInv /\ Count => LogInv'
<1> SUFFICES ASSUME LogInv, Count PROVE LogInv'
  OBVIOUS
<1>1. Cardinality(ids) \in Nat
  BY SizeType DEF LogInv
<1>2. LogTypeOK' /\ Interval'
  BY DEF LogInv, LogTypeOK, Interval, IdsFrom, Count
<1>3. Learnt'
  BY <1>1, LimitAssumption DEF LogInv, Learnt, Count, OverLimit
<1>4. SizeBounded'
  BY <1>1, LimitAssumption DEF LogInv, LogTypeOK, SizeBounded, Count, OverLimit
<1>5. QED
  BY <1>2, <1>3, <1>4 DEF LogInv

LEMMA FindMinInv == LogInv /\ FindMin => LogInv'
<1> SUFFICES ASSUME LogInv, FindMin PROVE LogInv'
  OBVIOUS
<1>1. PICK lo \in Nat : IdsFrom(lo)
  BY DEF LogInv, Learnt, Interval, FindMin
<1>2. Min(ids) = lo
  BY <1>1, IntervalFacts DEF LogInv, IdsFrom, LogTypeOK
<1>3. LogTypeOK' /\ Interval'
  BY <1>2 DEF LogInv, LogTypeOK, Interval, IdsFrom, FindMin
<1>4. Learnt' /\ SizeBounded'
  BY DEF LogInv, Learnt, SizeBounded, FindMin
<1>5. QED
  BY <1>3, <1>4 DEF LogInv

LEMMA DeleteInv == LogInv /\ Delete => LogInv'
<1> SUFFICES ASSUME LogInv, Delete PROVE LogInv'
  OBVIOUS
<1>1. Interval' /\ Cardinality(ids') = Cardinality(ids) - Band
  BY DeleteTakesBand
<1>2. LogTypeOK'
  BY DEF LogInv, LogTypeOK, Delete, Kept
<1>3. Learnt'
  BY DEF Learnt, Delete
<1>4. SizeBounded'
  BY <1>1, SizeType, LimitAssumption DEF LogInv, LogTypeOK, SizeBounded, Delete
<1>5. QED
  BY <1>1, <1>2, <1>3, <1>4 DEF LogInv

LEMMA StopInv == LogInv /\ (PruneFails \/ Crash) => LogInv'
<1> SUFFICES ASSUME LogInv, PruneFails \/ Crash PROVE LogInv'
  OBVIOUS
<1>1. Cardinality(ids) \in Nat
  BY SizeType DEF LogInv
<1>2. LogTypeOK'
  <2>1. /\ pc' \in {"down", "idle"}
        /\ UNCHANGED <<table, ids, min_id, issued>>
    BY DEF PruneFails, Crash
  <2>2. skipped' \in {skipped, skipped + 1}
    BY DEF PruneFails, Crash
  <2>3. QED
    BY <2>1, <2>2 DEF LogInv, LogTypeOK
<1>3. Interval'
  BY DEF LogInv, Interval, IdsFrom, PruneFails, Crash
<1>4. Learnt'
  BY DEF Learnt, PruneFails, Crash
<1>5. SizeBounded'
  BY <1>1, LimitAssumption DEF LogInv, LogTypeOK, SizeBounded, PruneFails, Crash
<1>6. QED
  BY <1>2, <1>3, <1>4, <1>5 DEF LogInv

LEMMA LogStepInv == LogInv /\ [LogNext]_log_vars => LogInv'
<1>1. CASE UNCHANGED log_vars
  BY <1>1 DEF LogInv, LogTypeOK, Interval, IdsFrom, Learnt, SizeBounded, log_vars
<1>2. InsertFails => UNCHANGED log_vars
  BY DEF InsertFails
<1>3. QED
  BY <1>1, <1>2, OpenInv, InsertInv, CountInv, FindMinInv, DeleteInv, StopInv DEF LogNext

LEMMA LogInvariance == LogSpec => []LogInv
BY LogInitInv, LogStepInv, PTL DEF LogSpec
-----------------------------------------------------------------------------
\* The state of the log keeps its shape.
THEOREM LogTypeCorrect == LogSpec => []LogTypeOK
<1>1. LogInv => LogTypeOK
  BY DEF LogInv
<1>2. QED
  BY <1>1, LogInvariance, PTL

\* The ids of the log never have a gap, whatever fails or stops in between.
THEOREM IdsAreContiguous == LogSpec => []Contiguous
<1>1. LogInv => Contiguous
  BY DEF LogInv, LogTypeOK, Interval, IdsFrom, Contiguous
<1>2. QED
  BY <1>1, LogInvariance, PTL

\* Only failed or interrupted prune passes let the log grow over its limit.
THEOREM SizeIsBounded == LogSpec => []SizeBounded
<1>1. LogInv => SizeBounded
  BY DEF LogInv
<1>2. QED
  BY <1>1, LogInvariance, PTL

\* The newest MAXLOGROWNUMS rows are never deleted.
THEOREM RowsAreRetained == LogSpec => Retention
<1>1. ASSUME LogInv, [LogNext]_log_vars
      PROVE  \A i \in ids \ ids' : Cardinality({j \in ids' : j > i}) >= MaxRows
  <2>1. CASE Delete
    <3>1. PICK lo \in Nat : IdsFrom(lo) /\ ids' = lo + Band..issued /\ lo + Band <= issued
      BY <1>1, <2>1, DeleteTakesBand
    <3>2. ASSUME NEW i \in ids \ ids' PROVE {j \in ids' : j > i} = ids'
      BY <1>1, <3>1, <3>2, LimitAssumption DEF IdsFrom, LogInv, LogTypeOK
    <3>3. Cardinality(ids') >= MaxRows
      BY <1>1, <2>1, DeleteTakesBand
    <3>4. QED
      BY <3>2, <3>3
  <2>2. CASE ~Delete
    BY <1>1, <2>2 DEF LogNext, Open, Insert, InsertFails, Count, FindMin, PruneFails, Crash,
       log_vars
  <2>3. QED
    BY <2>1, <2>2
<1>2. LogInv /\ [LogNext]_log_vars
        => [\A i \in ids \ ids' : Cardinality({j \in ids' : j > i}) >= MaxRows]_log_vars
  BY <1>1
<1>3. QED
  BY <1>2, LogInvariance, PTL DEF LogSpec, Retention

\* An id names one row for ever, across prunes and restarts.
THEOREM IdsNameOneRow == LogSpec => IdsNeverReused
<1>1. ASSUME LogInv, [LogNext]_log_vars
      PROVE  \A i \in ids' \ ids : i > issued
  <2>1. CASE Insert
    <3>1. NextId = issued + 1 /\ issued \in Nat
      BY <1>1, NextIdFollows DEF LogInv, LogTypeOK
    <3>2. QED
      BY <2>1, <3>1 DEF Insert
  <2>2. CASE ~Insert
    BY <1>1, <2>2 DEF LogNext, Open, InsertFails, Count, FindMin, Delete, Kept, PruneFails,
       Crash, log_vars
  <2>3. QED
    BY <2>1, <2>2
<1>2. LogInv /\ [LogNext]_log_vars => [\A i \in ids' \ ids : i > issued]_log_vars
  BY <1>1
<1>3. QED
  BY <1>2, LogInvariance, PTL DEF LogSpec, IdsNeverReused
=============================================================================
