---------------------------- MODULE RowAssembly ----------------------------
(***************************************************************************)
(* How the parent process turns the status messages of the water pump into *)
(* rows for the log.  Every message updates one field of the shared memory *)
(* (tShared_mem_st); a row is begun by a change of the counter or of the   *)
(* alarms, collects one refresh of every field, and is then handed to the  *)
(* database.  One action is one complete run of bridge_handler, with no    *)
(* other handler nested in it: BridgeSignals models the nesting.           *)
(***************************************************************************)
EXTENDS Naturals, Sequences

CONSTANTS
  Field,     \* fields of a row, one status message and one flag bit each
  Trigger,   \* fields whose change begins a row (counter, alarms)
  Alarm,     \* the trigger whose update also takes the time
  Float,     \* fields sent as a float
  Value,     \* values a message can carry
  Abnormal,  \* floats fpclassify() does not call normal, 0 apart: NaN, inf
  Zero,      \* the value stored in their place
  InitMem,   \* contents of the shared memory after InitMemory
  NoMsg,     \* a buffer BLE_message_exec ignores
  MaxMsgs    \* bound: messages received in a behaviour

ASSUME FieldAssumption ==
  /\ Alarm \in Trigger
  /\ Trigger \subseteq Field
  /\ Float \subseteq Field \ Trigger
ASSUME ValueAssumption ==
  /\ Abnormal \subseteq Value
  /\ Zero \in Value \ Abnormal
  /\ InitMem \in [Field -> Value]
  /\ \A f \in Float : InitMem[f] \notin Abnormal
ASSUME MsgAssumption ==
  /\ NoMsg \notin Field \X Value
  /\ MaxMsgs \in Nat

VARIABLES
  smem,            \* the fields of tShared_mem_st
  last_time,       \* its time stamp, told only from the one before it: 0 or 1
  db_new_row_fgs,  \* flags of the row being collected, as a set of fields
  mesh2pc_msg,     \* the receive buffer: the message it holds, or NoMsg
  offered,         \* history: the rows DB_AddRow formatted for INSERT
  clock,           \* history: messages received so far
  seen,            \* history: when each field was last received
  changes          \* history: when a trigger arrived with a new value

vars == <<smem, last_time, db_new_row_fgs, mesh2pc_msg, offered, clock, seen, changes>>

Msg == Field \X Value
Row == [data : [Field -> Value], seen : [Field -> Nat], at : Nat]

Init ==
  /\ smem = InitMem
  /\ last_time = 0
  /\ db_new_row_fgs = {}
  /\ mesh2pc_msg = NoMsg
  /\ offered = <<>>
  /\ clock = 0
  /\ seen = [f \in Field |-> 0]
  /\ changes = {}

-----------------------------------------------------------------------------
\* Faulty forms, named for what goes wrong in them; each shows that one of
\* the properties below can fail.
StoredRaw(f, v) == v
ChangedCounterOnly(f, v) == f \in Trigger \ {Alarm} /\ smem[f] # v
FlaggedAlways(f, v) ==
  IF db_new_row_fgs # {} THEN db_new_row_fgs \cup {f} ELSE {f} \cap Trigger
FlaggedBitTooHigh(f, v) ==
  IF db_new_row_fgs # {} THEN db_new_row_fgs \cup {f} ELSE {NoMsg}
AddRowNoReset(flags, row) ==
  /\ db_new_row_fgs' = flags
  /\ offered' = IF flags = Field THEN Append(offered, row) ELSE offered

\* The float updates store 0 for NaN, infinities and subnormals.
Stored(f, v) == IF f \in Float /\ v \in Abnormal THEN Zero ELSE v

\* A trigger message that carries something new.
Changed(f, v) == f \in Trigger /\ smem[f] # v

\* The flags after Update* of field f: a row in progress collects f; an
\* empty one is begun by a change only.
Flagged(f, v) ==
  IF db_new_row_fgs # {} THEN db_new_row_fgs \cup {f}
  ELSE IF Changed(f, v) THEN {f} ELSE {}

\* DB_AddRow up to its INSERT: only a complete row is formatted, and its
\* flags are cleared first.
AddRow(flags, row) ==
  IF flags = Field
  THEN /\ db_new_row_fgs' = {}
       /\ offered' = Append(offered, row)
  ELSE /\ db_new_row_fgs' = flags
       /\ UNCHANGED offered

\* UpdateAlarms takes the time, whether the alarms change or not.
Restamped(f) == IF f = Alarm THEN 1 - last_time ELSE last_time

\* BLE_message_exec and DB_AddRow on message m of the pump, in sequence.
Exec(m) ==
  LET f == m[1]
      v == Stored(m[1], m[2])
  IN  /\ smem' = [smem EXCEPT ![f] = v]
      /\ last_time' = Restamped(f)
      /\ AddRow(Flagged(f, v), [data |-> smem', seen |-> seen', at |-> clock'])

\* The same on a buffer that is not a status message of the pump.
ExecNothing ==
  /\ UNCHANGED <<smem, last_time>>
  /\ AddRow(db_new_row_fgs, [data |-> smem, seen |-> seen, at |-> clock])

-----------------------------------------------------------------------------
\* read() returned a status message of the pump with the right length.
Receive(m) ==
  /\ clock < MaxMsgs
  /\ clock' = clock + 1
  /\ mesh2pc_msg' = m
  /\ seen' = [seen EXCEPT ![m[1]] = clock']
  /\ changes' = IF Changed(m[1], m[2]) THEN changes \cup {clock'} ELSE changes
  /\ Exec(m)

\* read() returned a message of another type, group, opcode or length.
ReceiveOther ==
  /\ mesh2pc_msg' = NoMsg
  /\ ExecNothing
  /\ UNCHANGED <<clock, seen, changes>>

\* read() returned 0 or -1: bridge_handler carries on with the old buffer.
Replay ==
  /\ UNCHANGED <<mesh2pc_msg, clock, seen, changes>>
  /\ IF mesh2pc_msg = NoMsg THEN ExecNothing ELSE Exec(mesh2pc_msg)

Next ==
  \/ \E m \in Msg : Receive(m)
  \/ ReceiveOther
  \/ Replay

Spec == Init /\ [][Next]_vars

-----------------------------------------------------------------------------
\* Every variable has the shape of the program's data (up2web_comm.h:23-57).
TypeOK ==
  /\ smem \in [Field -> Value]
  /\ last_time \in 0..1
  /\ db_new_row_fgs \in SUBSET Field
  /\ mesh2pc_msg \in Msg \cup {NoMsg}
  /\ offered \in Seq(Row)
  /\ clock \in Nat
  /\ seen \in [Field -> Nat]
  /\ changes \in SUBSET Nat

\* When the row before row k was complete.
PreviousAt(k) == IF k = 1 THEN 0 ELSE offered[k - 1].at

\* Every row handed to the database was begun by a change of the counter or
\* of the alarms after the row before it was complete, and every one of its
\* fields was received at that change or later (comment at up2web_comm.h:57).
FreshRows ==
  \A k \in DOMAIN offered :
    \E b \in changes :
      /\ PreviousAt(k) < b
      /\ \A f \in Field : offered[k].seen[f] >= b

\* What the log says of trigger t: the newest row, or the initial memory.
Recorded(t) == IF offered = <<>> THEN InitMem[t] ELSE offered[Len(offered)].data[t]

\* No change of the counter or of the alarms is forgotten: while no row is
\* being collected, the newest row agrees with the shared memory on both
\* (UpdateAccumulator, UpdateAlarms and DB_AddRow together).
NoChangeForgotten ==
  db_new_row_fgs = {} => \A t \in Trigger : smem[t] = Recorded(t)

\* No row holds a value whose "%f" text is not a number to the INSERT.
RowsParse ==
  \A k \in DOMAIN offered : \A f \in Float : offered[k].data[f] \notin Abnormal

\* Carrying on after a failed or empty read (main.cpp:27-38 has no return)
\* runs the last message again.  Of all that the program keeps that changes
\* the time stamp alone, and only if the message was of the alarms: the next
\* snapshot then dates the old alarms at the failed read (up2web_comm.cpp:224).
\* No field, no row in progress and no row of the log is touched.
ReplayOnlyRestamps ==
  [][Replay =>
       /\ UNCHANGED <<smem, db_new_row_fgs, offered>>
       /\ last_time' # last_time => mesh2pc_msg # NoMsg /\ mesh2pc_msg[1] = Alarm]_vars
=============================================================================
