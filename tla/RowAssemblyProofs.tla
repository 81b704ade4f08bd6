------------------------- MODULE RowAssemblyProofs -------------------------
(***************************************************************************)
(* Proofs about RowAssembly for every set of fields, triggers and values   *)
(* and every number of messages.                                           *)
(***************************************************************************)
EXTENDS RowAssembly, SequenceTheorems, TLAPS

\* When the newest row was complete.
LastAt == IF offered = <<>> THEN 0 ELSE offered[Len(offered)].at

\* Times in the histories lie in the past.
HistoryOK ==
  /\ \A b \in changes : b <= clock
  /\ \A f \in Field : seen[f] <= clock
  /\ LastAt <= clock

\* The row in progress was begun by a change since the last row, and every
\* field flagged in it was received at that change or later.
OpenRowFresh ==
  db_new_row_fgs # {} =>
    \E b \in changes : LastAt < b /\ \A f \in db_new_row_fgs : seen[f] >= b

\* The buffer holds the message whose value the memory has, and whose flag
\* is set if a row is in progress.
BufferApplied ==
  mesh2pc_msg # NoMsg =>
    LET f == mesh2pc_msg[1]
    IN  /\ smem[f] = Stored(f, mesh2pc_msg[2])
        /\ db_new_row_fgs # {} => f \in db_new_row_fgs

\* The inductive invariant.
IInv ==
  /\ TypeOK
  /\ HistoryOK
  /\ OpenRowFresh
  /\ BufferApplied
  /\ db_new_row_fgs # Field
  /\ FreshRows
  /\ NoChangeForgotten
-----------------------------------------------------------------------------
\* A stored value is a value, and a normal one in a float field
\* (fpclassify guards, up2web_comm.cpp:201, 207, 213).
LEMMA StoredType ==
  ASSUME NEW f \in Field, NEW v \in Value
  PROVE  /\ Stored(f, v) \in Value
         /\ f \in Float => Stored(f, v) \notin Abnormal
         /\ f \in Trigger => Stored(f, v) = v
BY FieldAssumption, ValueAssumption DEF Stored

\* Executing the message in the buffer a second time changes nothing.
LEMMA ReplayIdle ==
  ASSUME IInv, Replay
  PROVE  UNCHANGED <<smem, db_new_row_fgs, offered>>
<1>1. CASE mesh2pc_msg = NoMsg
  BY <1>1 DEF Replay, ExecNothing, AddRow, IInv
<1>2. CASE mesh2pc_msg # NoMsg
  <2> DEFINE f == mesh2pc_msg[1]
             v == Stored(mesh2pc_msg[1], mesh2pc_msg[2])
  <2>1. mesh2pc_msg \in Msg /\ f \in Field
    BY <1>2 DEF IInv, TypeOK, Msg
  <2>2. smem[f] = v /\ (db_new_row_fgs # {} => f \in db_new_row_fgs)
    BY <1>2 DEF IInv, BufferApplied
  <2>3. smem' = [smem EXCEPT ![f] = v] /\ smem' = smem
    BY <1>2, <2>1, <2>2 DEF Replay, Exec, IInv, TypeOK
  <2>4. Flagged(f, v) = db_new_row_fgs
    BY <2>2 DEF Flagged, Changed
  <2>5. UNCHANGED <<db_new_row_fgs, offered>>
    BY <1>2, <2>4 DEF Replay, Exec, AddRow, IInv
  <2>6. QED
    BY <2>3, <2>5
<1>3. QED
  BY <1>1, <1>2
-----------------------------------------------------------------------------
\* The initial state satisfies the inductive invariant.
LEMMA InitInv == Init => IInv
<1> SUFFICES ASSUME Init PROVE IInv
  OBVIOUS
<1> USE FieldAssumption, ValueAssumption DEF Init
<1>1. TypeOK
  BY DEF TypeOK
<1>2. HistoryOK
  BY DEF HistoryOK, LastAt
<1>3. OpenRowFresh /\ BufferApplied /\ FreshRows /\ db_new_row_fgs # Field
  BY DEF OpenRowFresh, BufferApplied, FreshRows
<1>4. NoChangeForgotten
  BY DEF NoChangeForgotten, Recorded
<1>5. QED
  BY <1>1, <1>2, <1>3, <1>4 DEF IInv
-----------------------------------------------------------------------------
\* The time of the newest row is a number.
LEMMA LastAtType ==
  ASSUME TypeOK PROVE LastAt \in Nat
<1>1. CASE offered = <<>>
  BY <1>1 DEF LastAt
<1>2. CASE offered # <<>>
  <2>1. offered[Len(offered)] \in Row
    BY <1>2 DEF TypeOK
  <2>2. QED
    BY <1>2, <2>1 DEF LastAt, Row
<1>3. QED
  BY <1>1, <1>2

\* What a received message does to the row in progress, before DB_AddRow: a
\* row in progress afterwards was begun by a change, with every flagged
\* field received since.
LEMMA ReceiveKeepsRowFresh ==
  ASSUME IInv, NEW m \in Msg, Receive(m),
         Flagged(m[1], Stored(m[1], m[2])) # {}
  PROVE  \E b \in changes' :
           /\ LastAt < b
           /\ \A g \in Flagged(m[1], Stored(m[1], m[2])) : seen'[g] >= b
<1> DEFINE f == m[1]
           v == Stored(f, m[2])
<1>1. f \in Field /\ m[2] \in Value
  BY DEF Msg
<1>2. clock' = clock + 1 /\ seen' = [seen EXCEPT ![f] = clock']
  BY DEF Receive
<1>3. changes' = IF Changed(f, m[2]) THEN changes \cup {clock'} ELSE changes
  BY DEF Receive
<1>4. clock \in Nat /\ seen \in [Field -> Nat] /\ changes \subseteq Nat
       /\ db_new_row_fgs \subseteq Field
  BY DEF IInv, TypeOK
<1>5. HistoryOK
  BY DEF IInv
<1>6. CASE db_new_row_fgs # {}
  <2>1. PICK b \in changes : LastAt < b /\ \A g \in db_new_row_fgs : seen[g] >= b
    BY <1>6 DEF IInv, OpenRowFresh
  <2>2. b \in changes' /\ b \in Nat /\ b <= clock
    BY <1>3, <1>4, <1>5 DEF HistoryOK
  <2>3. ASSUME NEW g \in db_new_row_fgs \cup {f} PROVE seen'[g] >= b
    BY <1>1, <1>2, <1>4, <2>1, <2>2
  <2>4. QED
    BY <1>6, <2>1, <2>2, <2>3 DEF Flagged
<1>7. CASE db_new_row_fgs = {}
  <2>1. Changed(f, v) /\ Flagged(f, v) = {f}
    BY <1>7 DEF Flagged
  <2>2. v = m[2]
    BY <1>1, <2>1, StoredType DEF Changed
  <2>3. clock' \in changes' /\ seen'[f] = clock'
    BY <1>1, <1>2, <1>3, <1>4, <2>1, <2>2
  <2>4. LastAt < clock'
    <3>1. LastAt \in Nat /\ LastAt <= clock
      BY <1>5, LastAtType DEF IInv, HistoryOK
    <3>2. QED
      BY <1>2, <1>4, <3>1
  <2>5. QED
    BY <1>2, <1>4, <2>1, <2>3, <2>4
<1>8. QED
  BY <1>6, <1>7

\* A received message keeps the inductive invariant.
LEMMA ReceiveInv ==
  ASSUME IInv, NEW m \in Msg, Receive(m)
  PROVE  IInv'
<1> DEFINE f == m[1]
           v == Stored(f, m[2])
           fl == Flagged(f, v)
           row == [data |-> smem', seen |-> seen', at |-> clock']
<1>1. /\ m = <<f, m[2]>> /\ f \in Field /\ m[2] \in Value
      /\ v \in Value /\ (f \in Trigger => v = m[2])
  BY StoredType DEF Msg
<1>2. /\ clock' = clock + 1
      /\ mesh2pc_msg' = m
      /\ seen' = [seen EXCEPT ![f] = clock']
      /\ changes' = IF Changed(f, m[2]) THEN changes \cup {clock'} ELSE changes
      /\ smem' = [smem EXCEPT ![f] = v]
      /\ last_time' = Restamped(f)
      /\ AddRow(fl, row)
  BY DEF Receive, Exec
<1>3. TypeOK
  BY DEF IInv
<1>4. fl \subseteq Field /\ (fl # {} => f \in fl)
  BY <1>1, <1>3 DEF Flagged, TypeOK
<1>5. row \in Row /\ smem' \in [Field -> Value] /\ clock' \in Nat
      /\ seen' \in [Field -> Nat] /\ changes' \subseteq Nat
  BY <1>1, <1>2, <1>3 DEF TypeOK, Row
<1>6. TypeOK'
  <2>1. offered' \in Seq(Row) /\ db_new_row_fgs' \in SUBSET Field
    <3>1. CASE fl = Field
      <4>1. offered' = Append(offered, row) /\ db_new_row_fgs' = {}
        BY <1>2, <3>1 DEF AddRow
      <4>2. QED
        BY <1>3, <1>5, <4>1, AppendProperties DEF TypeOK
    <3>2. CASE fl # Field
      BY <1>2, <1>3, <1>4, <3>2 DEF TypeOK, AddRow
    <3>3. QED
      BY <3>1, <3>2
  <2>2. last_time' \in 0..1
    BY <1>2, <1>3 DEF TypeOK, Restamped
  <2>3. QED
    BY <1>2, <1>5, <2>1, <2>2 DEF TypeOK
<1>7. LastAt \in Nat /\ LastAt <= clock
  BY LastAtType DEF IInv, HistoryOK
<1>8. HistoryOK'
  <2>1. LastAt' <= clock'
    BY <1>2, <1>3, <1>5, <1>7 DEF AddRow, LastAt, TypeOK
  <2>2. (\A b \in changes' : b <= clock') /\ (\A g \in Field : seen'[g] <= clock')
    BY <1>1, <1>2, <1>3 DEF IInv, HistoryOK, TypeOK
  <2>3. QED
    BY <2>1, <2>2 DEF HistoryOK
<1>9. OpenRowFresh'
  <2>1. CASE fl = Field
    BY <1>2, <2>1 DEF AddRow, OpenRowFresh
  <2>2. CASE fl # Field
    BY <1>2, <2>2, ReceiveKeepsRowFresh DEF AddRow, OpenRowFresh, LastAt
  <2>3. QED
    BY <2>1, <2>2
<1>10. BufferApplied'
  BY <1>1, <1>2, <1>3, <1>4 DEF BufferApplied, AddRow, Stored, TypeOK
<1>11. db_new_row_fgs' # Field
  BY <1>2, FieldAssumption DEF AddRow
<1>12. FreshRows'
  <2>1. CASE fl = Field
    <3>1. /\ offered' = Append(offered, row) /\ offered \in Seq(Row)
          /\ Len(offered') = Len(offered) + 1 /\ Len(offered) \in Nat
          /\ offered'[Len(offered) + 1] = row
          /\ \A k \in 1..Len(offered) : offered'[k] = offered[k]
      <4>1. offered' = Append(offered, row) /\ offered \in Seq(Row)
        BY <1>2, <1>3, <2>1 DEF AddRow, TypeOK
      <4>2. QED
        BY <1>5, <4>1, AppendProperties
    <3>2. fl # {}
      BY <2>1, FieldAssumption
    <3>3. PICK b \in changes' : LastAt < b /\ \A g \in Field : seen'[g] >= b
      BY <2>1, <3>2, ReceiveKeepsRowFresh
    <3>4. ASSUME NEW k, k = Len(offered) + 1
          PROVE  PreviousAt(k)' = LastAt
      <4>1. CASE offered = <<>>
        BY <3>4, <4>1 DEF PreviousAt, LastAt
      <4>2. CASE offered # <<>>
        <5>1. Len(offered) \in 1..Len(offered) /\ k # 1 /\ k - 1 = Len(offered)
          BY <3>1, <3>4, <4>2, EmptySeq
        <5>2. QED
          BY <3>1, <4>2, <5>1 DEF PreviousAt, LastAt
      <4>3. QED
        BY <4>1, <4>2
    <3>5. ASSUME NEW k \in 1..Len(offered)
          PROVE  \E c \in changes' : /\ PreviousAt(k)' < c
                                     /\ \A g \in Field : offered'[k].seen[g] >= c
      <4>1. PICK c \in changes : /\ PreviousAt(k) < c
                                 /\ \A g \in Field : offered[k].seen[g] >= c
        BY <3>1 DEF IInv, FreshRows
      <4>2. PreviousAt(k)' = PreviousAt(k)
        BY <3>1 DEF PreviousAt
      <4>3. QED
        BY <1>2, <3>1, <4>1, <4>2
    <3>6. ASSUME NEW k \in DOMAIN offered'
          PROVE  \E c \in changes' : /\ PreviousAt(k)' < c
                                     /\ \A g \in Field : offered'[k].seen[g] >= c
      <4>1. k \in 1..Len(offered) \/ k = Len(offered) + 1
        BY <3>1
      <4>2. CASE k = Len(offered) + 1
        <5>1. PreviousAt(k)' = LastAt /\ offered'[k].seen = seen'
          BY <3>1, <3>4, <4>2
        <5>2. QED
          BY <3>3, <5>1
      <4>3. QED
        BY <3>5, <4>1, <4>2
    <3>7. QED
      BY <3>6 DEF FreshRows, PreviousAt
  <2>2. CASE fl # Field
    <3>1. offered' = offered /\ changes \subseteq changes'
      BY <1>2, <2>2 DEF AddRow
    <3>2. QED
      BY <3>1 DEF IInv, FreshRows, PreviousAt
  <2>3. QED
    BY <2>1, <2>2
<1>13. NoChangeForgotten'
  <2>1. CASE fl = Field
    <3>1. offered' = Append(offered, row) /\ offered \in Seq(Row)
      BY <1>2, <1>3, <2>1 DEF AddRow, TypeOK
    <3>2. offered' # <<>> /\ offered'[Len(offered')] = row
      BY <1>5, <3>1, AppendProperties
    <3>3. QED
      BY <3>2 DEF NoChangeForgotten, Recorded
  <2>2. CASE fl # Field /\ fl = {}
    <3>1. db_new_row_fgs = {} /\ ~Changed(f, v)
      BY <2>2 DEF Flagged
    <3>2. \A t \in Trigger : smem'[t] = smem[t]
      BY <1>2, <1>3, <3>1, FieldAssumption DEF Changed, TypeOK
    <3>3. offered' = offered
      BY <1>2, <2>2 DEF AddRow
    <3>4. QED
      BY <3>1, <3>2, <3>3 DEF IInv, NoChangeForgotten, Recorded
  <2>3. CASE fl # Field /\ fl # {}
    BY <1>2, <2>3 DEF AddRow, NoChangeForgotten
  <2>4. QED
    BY <2>1, <2>2, <2>3
<1>14. QED
  BY <1>6, <1>8, <1>9, <1>10, <1>11, <1>12, <1>13 DEF IInv

\* A buffer that is not a message of the pump keeps the invariant: DB_AddRow
\* finds no complete row.
LEMMA ReceiveOtherInv ==
  ASSUME IInv, ReceiveOther
  PROVE  IInv'
<1>1. /\ mesh2pc_msg' = NoMsg
      /\ UNCHANGED <<smem, last_time, db_new_row_fgs, offered, clock, seen, changes>>
  BY DEF ReceiveOther, ExecNothing, AddRow, IInv
<1>2. TypeOK' /\ HistoryOK' /\ OpenRowFresh'
  BY <1>1 DEF IInv, TypeOK, HistoryOK, OpenRowFresh, LastAt
<1>3. BufferApplied' /\ db_new_row_fgs' # Field
  BY <1>1 DEF IInv, BufferApplied
<1>4. FreshRows' /\ NoChangeForgotten'
  BY <1>1 DEF IInv, FreshRows, PreviousAt, NoChangeForgotten, Recorded
<1>5. QED
  BY <1>2, <1>3, <1>4 DEF IInv

\* So does carrying on with the old buffer: only the time stamp may move.
LEMMA ReplayInv ==
  ASSUME IInv, Replay
  PROVE  IInv'
<1>1. UNCHANGED <<smem, db_new_row_fgs, offered, mesh2pc_msg, clock, seen, changes>>
  BY ReplayIdle DEF Replay
<1>2. last_time' \in 0..1
  BY DEF Replay, ExecNothing, Exec, Restamped, IInv, TypeOK
<1>3. TypeOK' /\ HistoryOK' /\ OpenRowFresh'
  BY <1>1, <1>2 DEF IInv, TypeOK, HistoryOK, OpenRowFresh, LastAt
<1>4. BufferApplied' /\ db_new_row_fgs' # Field
  BY <1>1 DEF IInv, BufferApplied, Stored
<1>5. FreshRows' /\ NoChangeForgotten'
  BY <1>1 DEF IInv, FreshRows, PreviousAt, NoChangeForgotten, Recorded
<1>6. QED
  BY <1>3, <1>4, <1>5 DEF IInv

\* Every step keeps the inductive invariant.
LEMMA StepInv == IInv /\ [Next]_vars => IInv'
<1> SUFFICES ASSUME IInv, [Next]_vars PROVE IInv'
  OBVIOUS
<1>1. ASSUME NEW m \in Msg, Receive(m) PROVE IInv'
  BY <1>1, ReceiveInv
<1>2. CASE ReceiveOther
  BY <1>2, ReceiveOtherInv
<1>3. CASE Replay
  BY <1>3, ReplayInv
<1>4. CASE UNCHANGED vars
  <2>1. TypeOK' /\ HistoryOK' /\ OpenRowFresh' /\ BufferApplied' /\ db_new_row_fgs' # Field
    BY <1>4 DEF vars, IInv, TypeOK, HistoryOK, OpenRowFresh, LastAt, BufferApplied, Stored
  <2>2. FreshRows' /\ NoChangeForgotten'
    BY <1>4 DEF vars, IInv, FreshRows, PreviousAt, NoChangeForgotten, Recorded
  <2>3. QED
    BY <2>1, <2>2 DEF IInv
<1>5. QED
  BY <1>1, <1>2, <1>3, <1>4 DEF Next

\* The inductive invariant holds in every behaviour.
LEMMA Invariance == Spec => []IInv
BY InitInv, StepInv, PTL DEF Spec
-----------------------------------------------------------------------------
\* The program's data keep their types (declarations at up2web_comm.h:23-57).
THEOREM TypeCorrect == Spec => []TypeOK
<1>1. IInv => TypeOK
  BY DEF IInv
<1>2. QED
  BY <1>1, Invariance, PTL

\* Every row is begun by a change and refreshed in full since that change,
\* whatever the messages and their order (comment at up2web_comm.h:57).
THEOREM RowsAreFresh == Spec => []FreshRows
<1>1. IInv => FreshRows
  BY DEF IInv
<1>2. QED
  BY <1>1, Invariance, PTL

\* No change of the counter or of the alarms is forgotten by the flags
\* (UpdateAccumulator, UpdateAlarms, DB_AddRow).
THEOREM ChangesAreKept == Spec => []NoChangeForgotten
<1>1. IInv => NoChangeForgotten
  BY DEF IInv
<1>2. QED
  BY <1>1, Invariance, PTL

\* bridge_handler may carry on after a failed read: to run the last message
\* again dates the old alarms anew, and nothing else (main.cpp:27-38 and
\* up2web_comm.cpp:224).
THEOREM ReplayRestampsOnly == Spec => ReplayOnlyRestamps
<1>1. ASSUME IInv, Replay
      PROVE  /\ UNCHANGED <<smem, db_new_row_fgs, offered>>
             /\ last_time' # last_time => mesh2pc_msg # NoMsg /\ mesh2pc_msg[1] = Alarm
  <2>1. UNCHANGED <<smem, db_new_row_fgs, offered>>
    BY <1>1, ReplayIdle
  <2>2. CASE mesh2pc_msg = NoMsg
    BY <1>1, <2>1, <2>2 DEF Replay, ExecNothing
  <2>3. CASE mesh2pc_msg # NoMsg
    BY <1>1, <2>1, <2>3 DEF Replay, Exec, Restamped
  <2>4. QED
    BY <2>2, <2>3
<1>2. IInv /\ [Next]_vars =>
        [Replay => /\ UNCHANGED <<smem, db_new_row_fgs, offered>>
                   /\ last_time' # last_time => mesh2pc_msg # NoMsg /\ mesh2pc_msg[1] = Alarm]_vars
  BY <1>1
<1>3. QED
  BY <1>2, Invariance, PTL DEF Spec, ReplayOnlyRestamps
-----------------------------------------------------------------------------
\* The float fields of the memory are normal numbers, and so are the rows.
MemNormal == \A f \in Float : smem[f] \notin Abnormal

\* One handler keeps the memory and the rows normal.
LEMMA ExecNormal ==
  ASSUME TypeOK, TypeOK', MemNormal, RowsParse, [Next]_vars
  PROVE  MemNormal' /\ RowsParse'
<1>1. MemNormal'
  <2>1. ASSUME NEW m \in Msg, Exec(m) PROVE MemNormal'
    BY <2>1, StoredType, FieldAssumption DEF Exec, Msg, MemNormal, TypeOK
  <2>2. CASE smem' = smem
    BY <2>2 DEF MemNormal
  <2>3. QED
    BY <2>1, <2>2 DEF Next, Receive, ReceiveOther, Replay, ExecNothing, TypeOK, vars
<1>2. offered' = offered \/ \E r : offered' = Append(offered, r) /\ r.data = smem'
  <2>1. ASSUME NEW m \in Msg, Exec(m)
        PROVE  offered' = offered \/ \E r : offered' = Append(offered, r) /\ r.data = smem'
    <3>1. [data |-> smem', seen |-> seen', at |-> clock'].data = smem'
      OBVIOUS
    <3>2. QED
      BY <2>1, <3>1, Zenon DEF Exec, AddRow
  <2>2. ASSUME ExecNothing
        PROVE  offered' = offered \/ \E r : offered' = Append(offered, r) /\ r.data = smem'
    <3>1. smem' = smem /\ [data |-> smem, seen |-> seen, at |-> clock].data = smem
      BY <2>2 DEF ExecNothing
    <3>2. QED
      BY <2>2, <3>1, Zenon DEF ExecNothing, AddRow
  <2>3. CASE offered' = offered
    BY <2>3
  <2>4. QED
    <3>1. (\E m \in Msg : Exec(m)) \/ ExecNothing \/ offered' = offered
      BY DEF Next, Receive, ReceiveOther, Replay, TypeOK, vars
    <3>2. CASE \E m \in Msg : Exec(m)
      <4>1. PICK m \in Msg : Exec(m)
        BY <3>2
      <4>2. QED
        BY <2>1, <4>1
    <3>3. CASE ExecNothing
      BY <2>2, <3>3
    <3>4. QED
      BY <2>3, <3>1, <3>2, <3>3
<1>3. CASE offered' = offered
  BY <1>1, <1>3 DEF RowsParse
<1>4. ASSUME NEW r, offered' = Append(offered, r), r.data = smem'
      PROVE  RowsParse'
  <2>1. offered \in Seq(Row) /\ offered' \in Seq(Row)
    BY DEF TypeOK
  <2>2. /\ DOMAIN offered' = 1..Len(offered) + 1
        /\ \A k \in 1..Len(offered) : offered'[k] = offered[k]
        /\ offered'[Len(offered) + 1] = r
    BY <1>4, <2>1
  <2>3. ASSUME NEW k \in DOMAIN offered', NEW f \in Float
        PROVE  offered'[k].data[f] \notin Abnormal
    <3>1. CASE k \in 1..Len(offered)
      BY <2>1, <2>2, <3>1 DEF RowsParse
    <3>2. CASE k = Len(offered) + 1
      BY <1>1, <1>4, <2>2, <3>2 DEF MemNormal
    <3>3. QED
      BY <2>1, <2>2, <3>1, <3>2
  <2>4. QED
    BY <2>3 DEF RowsParse
<1>5. QED
  BY <1>1, <1>2, <1>3, <1>4

\* No value that is not a number reaches the text of an INSERT
\* (fpclassify guards of UpdatePumpCapacity, -Avg and UpdateTankVolume).
THEOREM RowsAlwaysParse == Spec => []RowsParse
<1>1. Init => MemNormal /\ RowsParse
  BY ValueAssumption DEF Init, MemNormal, RowsParse
<1>2. TypeOK /\ TypeOK' /\ MemNormal /\ RowsParse /\ [Next]_vars => MemNormal' /\ RowsParse'
  BY ExecNormal
<1>3. QED
  BY <1>1, <1>2, TypeCorrect, PTL DEF Spec
=============================================================================
