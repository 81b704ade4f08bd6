---------------------------- MODULE PumpLogProofs ----------------------------
(***************************************************************************)
(* Theorems about the way of a message into the log, for every set of      *)
(* fields and values and every size of the log.  The invariants of the two *)
(* parts hold of the whole, since each of its steps is a step of one part  *)
(* or a start of both; Newest ties the log to the rows.                    *)
(***************************************************************************)
EXTENDS PumpLog, RowAssemblyProofs, LogTableProofs

\* What has been tried is one of the rows of this start, the last or the one
\* before it; the log holds a row of data for every id.
DataOK ==
  /\ DOMAIN data = ids
  /\ \A i \in ids : data[i] \in [Field -> Value]
  /\ tried \in 0..Len(offered) /\ Len(offered) <= tried + 1
  /\ lost \in BOOLEAN

\* The newest row of the log is the last one tried, unless its INSERT failed.
Newest ==
  (tried # 0 /\ ~lost) => ids # {} /\ data[Max(ids)] = offered[tried].data

PumpInv == IInv /\ LogInv /\ DataOK /\ Newest

-----------------------------------------------------------------------------
\* The newest row is the last one issued.
LastIssued == ids # {} => Max(ids) = issued /\ issued \in ids

LEMMA LastId == LogInv => LastIssued
<1> SUFFICES ASSUME LogInv, ids # {}
             PROVE  Max(ids) = issued /\ issued \in ids
  BY DEF LastIssued
<1>1. PICK lo \in Nat : IdsFrom(lo)
  BY DEF LogInv, Interval
<1>2. QED
  BY <1>1, IntervalFacts DEF IdsFrom, LogInv, LogTypeOK

LEMMA LastIdNext == LogInv' => LastIssued'
BY LastId, PTL

\* A start finds the memory as InitMemory leaves it.
LEMMA FreshStart == Init' => IInv'
BY InitInv, PTL

-----------------------------------------------------------------------------
(***************************************************************************)
(* Every action keeps the inductive invariant.                             *)
(***************************************************************************)
\* A handler offers at most one row, after those of this start.
LEMMA OneRow ==
  ASSUME IInv, Next
  PROVE  \/ UNCHANGED offered
         \/ \E row \in Row : offered' = Append(offered, row)
<1>1. offered' = offered \/ \E row : offered' = Append(offered, row)
  BY DEF Next, Receive, ReceiveOther, Replay, Exec, ExecNothing, AddRow
<1>2. ASSUME NEW row, offered' = Append(offered, row)
      PROVE  row \in Row
  <2>1. offered \in Seq(Row) /\ offered' \in Seq(Row)
    BY StepInv DEF IInv, TypeOK
  <2>2. Len(offered') = Len(offered) + 1 /\ offered'[Len(offered) + 1] = row
    BY <1>2, <2>1
  <2>3. Len(offered) + 1 \in 1..Len(offered')
    BY <2>1, <2>2, LenProperties
  <2>4. QED
    BY <2>1, <2>2, <2>3, ElementOfSeq
<1>3. QED
  BY <1>1, <1>2

LEMMA HandleInv ==
  ASSUME PumpInv, Handle
  PROVE  PumpInv'
<1>1. IInv /\ Next /\ UNCHANGED <<log_vars, data, tried, lost>> /\ tried = Len(offered)
  BY DEF PumpInv, Handle
<1>2. IInv' /\ LogInv'
  BY <1>1, StepInv, LogStepInv DEF PumpInv
<1>3. offered \in Seq(Row) /\ Len(offered) \in Nat
  BY <1>1, LenProperties DEF IInv, TypeOK
<1>4. DataOK' /\ (tried # 0 => offered'[tried] = offered[tried])
  <2>1. CASE UNCHANGED offered
    BY <1>1, <2>1 DEF PumpInv, DataOK, log_vars
  <2>2. ASSUME NEW row \in Row, offered' = Append(offered, row)
        PROVE  DataOK' /\ (tried # 0 => offered'[tried] = offered[tried])
    <3>1. /\ Len(offered') = Len(offered) + 1
          /\ \A i \in 1..Len(offered) : offered'[i] = offered[i]
      BY <1>3, <2>2, AppendProperties
    <3>2. QED
      BY <1>1, <1>3, <3>1 DEF PumpInv, DataOK, log_vars
  <2>3. QED
    BY <1>1, <2>1, <2>2, OneRow
<1>5. Newest'
  BY <1>1, <1>4 DEF PumpInv, Newest, log_vars
<1>6. QED
  BY <1>2, <1>4, <1>5 DEF PumpInv

LEMMA StoreInv ==
  ASSUME PumpInv, Store
  PROVE  PumpInv'
<1>1. /\ UNCHANGED vars /\ tried < Len(offered) /\ tried' = Len(offered)
      /\ IInv /\ LogInv /\ DataOK
  BY DEF PumpInv, Store
<1>2. IInv' /\ LogInv'
  BY <1>1, StepInv, LogStepInv DEF Store, LogNext
<1>3. /\ offered \in Seq(Row) /\ Len(offered) \in Nat /\ Len(offered) # 0 /\ UNCHANGED offered
      /\ offered[Len(offered)] \in Row
  <2>1. offered \in Seq(Row) /\ Len(offered) \in Nat /\ tried \in Nat
    BY <1>1, LenProperties DEF IInv, TypeOK, DataOK
  <2>2. Len(offered) # 0 /\ Len(offered) \in 1..Len(offered)
    BY <1>1, <2>1
  <2>3. QED
    BY <1>1, <2>1, <2>2, ElementOfSeq DEF vars
<1>4. DataOK' /\ Newest'
  <2>1. CASE /\ Insert /\ lost' = FALSE
             /\ data' = [i \in ids' |-> IF i \in ids THEN data[i] ELSE Formatted]
    <3>1. NextId = issued + 1 /\ issued' = issued + 1 /\ issued \in Nat /\ ids' # {}
      BY <1>1, <2>1, NextIdFollows, InsertProlongs DEF LogInv, LogTypeOK
    <3>2. Max(ids') = issued' /\ issued' \in ids' /\ issued' \notin ids
      <4>1. \A i \in ids : i <= issued
        <5>1. ids = {} \/ \E lo \in Nat : ids = lo..issued
          BY <1>1 DEF LogInv, Interval, IdsFrom
        <5>2. QED
          BY <3>1, <5>1
      <4>2. issued' \notin ids
        BY <3>1, <4>1
      <4>3. QED
        BY <1>2, <3>1, <4>2, LastIdNext DEF LastIssued
    <3>3. Formatted \in [Field -> Value]
      BY <1>3 DEF Formatted, Row
    <3>4. data'[issued'] = Formatted
      BY <2>1, <3>2
    <3>5. DOMAIN data' = ids' /\ \A i \in ids' : data'[i] \in [Field -> Value]
      BY <1>1, <2>1, <3>3 DEF DataOK
    <3>6. DataOK'
      <4>1. tried' \in 0..Len(offered') /\ Len(offered') <= tried' + 1
        BY <1>1, <1>3
      <4>2. lost' \in BOOLEAN
        BY <2>1
      <4>3. QED
        BY <3>5, <4>1, <4>2 DEF DataOK
    <3>7. Newest'
      BY <1>1, <1>3, <3>1, <3>2, <3>4 DEF Newest, Formatted
    <3>8. QED
      BY <3>6, <3>7
  <2>2. CASE InsertFails /\ UNCHANGED data /\ lost' = TRUE
    <3>1. UNCHANGED ids
      BY <2>2 DEF InsertFails, log_vars
    <3>2. DataOK'
      BY <1>1, <1>3, <2>2, <3>1 DEF DataOK
    <3>3. Newest'
      BY <2>2 DEF Newest
    <3>4. QED
      BY <3>2, <3>3
  <2>3. QED
    BY <2>1, <2>2 DEF Store
<1>5. QED
  BY <1>2, <1>4 DEF PumpInv

\* Pruning takes old rows only: the newest stays where it is.
LEMMA PruneInv ==
  ASSUME PumpInv, Prune
  PROVE  PumpInv'
<1>1. /\ Count \/ FindMin \/ Delete \/ PruneFails
      /\ data' = [i \in ids' |-> data[i]]
      /\ UNCHANGED <<vars, tried, lost>>
      /\ IInv /\ LogInv /\ DataOK /\ Newest
  BY DEF PumpInv, Prune
<1>2. IInv' /\ LogInv' /\ LastIssued /\ LastIssued'
  BY <1>1, StepInv, LogStepInv, LastId, LastIdNext DEF LogNext
<1>3. ids' \subseteq ids /\ (ids # {} => ids' # {}) /\ UNCHANGED issued
  <2>1. CASE Delete
    BY <1>1, <2>1, DeleteTakesBand DEF Delete, Kept
  <2>2. CASE Count \/ FindMin \/ PruneFails
    BY <2>2 DEF Count, FindMin, PruneFails
  <2>3. QED
    BY <1>1, <2>1, <2>2
<1>4. UNCHANGED offered
  BY <1>1 DEF vars
<1>5. DataOK'
  BY <1>1, <1>3, <1>4 DEF DataOK
<1>6. Newest'
  <2>1. ids # {} => ids' # {} /\ Max(ids') = Max(ids) /\ Max(ids) \in ids'
    BY <1>2, <1>3 DEF LastIssued
  <2>2. ids # {} => data'[Max(ids')] = data[Max(ids)]
    BY <1>1, <2>1
  <2>3. QED
    BY <1>1, <1>4, <2>1, <2>2 DEF Newest
<1>7. QED
  BY <1>2, <1>5, <1>6 DEF PumpInv

LEMMA StopStartInv ==
  ASSUME PumpInv, Stop \/ Start
  PROVE  PumpInv'
<1>1. IInv /\ LogInv /\ DataOK /\ Newest
  BY DEF PumpInv
<1>2. LogInv' /\ UNCHANGED <<ids, data>>
  BY <1>1, LogStepInv DEF Stop, Start, LogNext, Crash, Open
<1>3. CASE Stop
  <2>1. IInv' /\ UNCHANGED <<offered, tried, lost>>
    BY <1>1, <1>3, StepInv DEF Stop, vars
  <2>2. DataOK' /\ Newest'
    BY <1>1, <1>2, <2>1 DEF DataOK, Newest
  <2>3. QED
    BY <1>2, <2>1, <2>2 DEF PumpInv
<1>4. CASE Start
  <2>1. Init' /\ tried' = 0 /\ lost' = FALSE /\ offered' = <<>>
    BY <1>4 DEF Start, Init
  <2>2. Len(offered') = 0
    BY <2>1, EmptySeq
  <2>3. DataOK'
    <3>1. DOMAIN data' = ids' /\ \A i \in ids' : data'[i] \in [Field -> Value]
      BY <1>1, <1>2 DEF DataOK
    <3>2. tried' \in 0..Len(offered') /\ Len(offered') <= tried' + 1
      BY <2>1, <2>2
    <3>3. lost' \in BOOLEAN
      BY <2>1
    <3>4. QED
      BY <3>1, <3>2, <3>3 DEF DataOK
  <2>4. Newest'
    BY <2>1 DEF Newest
  <2>5. QED
    BY <1>2, <2>1, <2>3, <2>4, FreshStart DEF PumpInv
<1>5. QED
  BY <1>3, <1>4

LEMMA PumpInitInv ==
  ASSUME PumpInit
  PROVE  PumpInv
<1>1. IInv /\ LogInv /\ ids = {} /\ offered = <<>> /\ data = [i \in {} |-> 0]
  BY InitInv, LogInitInv DEF PumpInit, Init, LogInit
<1>2. Len(offered) = 0
  BY <1>1, EmptySeq
<1>3. DataOK
  <2>1. DOMAIN data = ids /\ \A i \in ids : data[i] \in [Field -> Value]
    BY <1>1
  <2>2. tried \in 0..Len(offered) /\ Len(offered) <= tried + 1
    BY <1>2 DEF PumpInit
  <2>3. lost \in BOOLEAN
    BY DEF PumpInit
  <2>4. QED
    BY <2>1, <2>2, <2>3 DEF DataOK
<1>4. Newest
  BY DEF PumpInit, Newest
<1>5. QED
  BY <1>1, <1>3, <1>4 DEF PumpInv

LEMMA PumpStepInv == PumpInv /\ [PumpNext]_pump_vars => PumpInv'
<1> SUFFICES ASSUME PumpInv, [PumpNext]_pump_vars
             PROVE  PumpInv'
  OBVIOUS
<1>1. CASE UNCHANGED pump_vars
  <2>1. UNCHANGED <<vars, log_vars, data, tried, lost>>
    BY <1>1 DEF pump_vars
  <2>2. IInv' /\ LogInv'
    BY <2>1, StepInv, LogStepInv DEF PumpInv
  <2>3. DataOK' /\ Newest'
    BY <2>1 DEF PumpInv, DataOK, Newest, vars, log_vars
  <2>4. QED
    BY <2>2, <2>3 DEF PumpInv
<1>2. QED
  BY <1>1, HandleInv, StoreInv, PruneInv, StopStartInv DEF PumpNext

THEOREM PumpInvariance == PumpSpec => []PumpInv
BY PumpInitInv, PumpStepInv, PTL DEF PumpSpec

-----------------------------------------------------------------------------
\* The data of both parts keep their shape when they run together, and no row
\* is offered before the one before it has been tried (DB_AddRow).
THEOREM PumpTyped == PumpSpec => []PumpTypeOK
<1>1. PumpInv => PumpTypeOK
  BY DEF PumpInv, IInv, LogInv, DataOK, PumpTypeOK
<1>2. QED
  BY <1>1, PumpInvariance, PTL

\* What the two parts promise on their own they keep together, one run of
\* bridge_handler after another, though INSERTs and prune passes fail and a
\* start that finds the log has lost the memory: rows fresh since that start,
\* no change of this start forgotten, and a log with no gap and of bounded size.
THEOREM PartsKeepTheirPromises ==
  PumpSpec => [](FreshRows /\ NoChangeForgotten /\ Contiguous /\ SizeBounded)
<1>1. PumpInv => FreshRows /\ NoChangeForgotten /\ Contiguous /\ SizeBounded
  BY DEF PumpInv, IInv, LogInv, LogTypeOK, Interval, IdsFrom, Contiguous
<1>2. QED
  BY <1>1, PumpInvariance, PTL

\* Between two handlers with no row in progress the newest row of the log has
\* the counter and the alarms of the memory, unless its own INSERT failed or
\* this start has offered none (DB_AddRow, up2web_comm.cpp:301-349).
THEOREM LogIsCurrent == PumpSpec => []LogCurrent
<1>1. PumpInv => LogCurrent
  <2> SUFFICES ASSUME PumpInv, Between, db_new_row_fgs = {}, ~lost, NEW t \in Trigger
               PROVE  smem[t] = IF offered = <<>> THEN InitMem[t] ELSE data[Max(ids)][t]
    BY DEF LogCurrent
  <2>1. smem[t] = Recorded(t)
    BY DEF PumpInv, IInv, NoChangeForgotten
  <2>2. CASE offered = <<>>
    BY <2>1, <2>2 DEF Recorded
  <2>3. CASE offered # <<>>
    <3>1. tried = Len(offered) /\ tried # 0
      BY <2>3, EmptySeq DEF Between, PumpInv, IInv, TypeOK
    <3>2. data[Max(ids)] = offered[tried].data
      BY <3>1 DEF PumpInv, Newest
    <3>3. QED
      BY <2>1, <2>3, <3>1, <3>2 DEF Recorded
  <2>4. QED
    BY <2>2, <2>3
<1>2. QED
  BY <1>1, PumpInvariance, PTL
=============================================================================
