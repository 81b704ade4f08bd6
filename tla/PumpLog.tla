------------------------------ MODULE PumpLog ------------------------------
(***************************************************************************)
(* The way of a pump message into the log: the handlers of RowAssembly     *)
(* hand complete rows to the statements of LogTable, within the same run   *)
(* of bridge_handler.  The process may stop at any point; the next start   *)
(* finds the log and has lost the memory.                                  *)
(***************************************************************************)
EXTENDS RowAssembly, LogTable

VARIABLES
  data,   \* the rows of the log, by id
  tried,  \* rows of this start whose INSERT has been run
  lost    \* history: the last of them failed

pump_vars == <<vars, log_vars, data, tried, lost>>

PumpInit ==
  /\ Init
  /\ LogInit
  /\ data = [i \in {} |-> 0]
  /\ tried = 0
  /\ lost = FALSE

-----------------------------------------------------------------------------
\* The row DB_AddRow has formatted last.
Formatted == offered[Len(offered)].data

\* A run of bridge_handler, up to the INSERT if there is a row.
Handle ==
  /\ pc = "idle" /\ tried = Len(offered)
  /\ Next
  /\ UNCHANGED <<log_vars, data, tried, lost>>

\* The INSERT of a complete row; what fails is not tried again.
Store ==
  /\ tried < Len(offered)
  /\ tried' = Len(offered)
  /\ \/ /\ Insert
        /\ data' = [i \in ids' |-> IF i \in ids THEN data[i] ELSE Formatted]
        /\ lost' = FALSE
     \/ InsertFails /\ UNCHANGED data /\ lost' = TRUE
  /\ UNCHANGED vars

\* The statements that prune the log.
Prune ==
  /\ Count \/ FindMin \/ Delete \/ PruneFails
  /\ data' = [i \in ids' |-> data[i]]
  /\ UNCHANGED <<vars, tried, lost>>

Stop ==
  /\ Crash
  /\ UNCHANGED <<vars, data, tried, lost>>

\* main of the next start: InitMemory, the static data of a process, DB_Open.
Start ==
  /\ Open
  /\ smem' = InitMem
  /\ last_time' = 0
  /\ db_new_row_fgs' = {}
  /\ mesh2pc_msg' = NoMsg
  /\ offered' = <<>> /\ changes' = {} /\ clock' = 0
  /\ seen' = [f \in Field |-> 0]
  /\ tried' = 0
  /\ lost' = FALSE
  /\ UNCHANGED data

PumpNext == Handle \/ Store \/ Prune \/ Stop \/ Start

PumpSpec == PumpInit /\ [][PumpNext]_pump_vars

-----------------------------------------------------------------------------
\* The handler that ran last is done.
Between == pc = "idle" /\ tried = Len(offered)

\* Shape of the state; a handler is in DB_AddRow for at most one row.
PumpTypeOK ==
  /\ TypeOK
  /\ LogTypeOK
  /\ DOMAIN data = ids
  /\ \A i \in ids : data[i] \in [Field -> Value]
  /\ tried \in 0..Len(offered) /\ Len(offered) <= tried + 1
  /\ lost \in BOOLEAN

\* Between two handlers with no row in progress, the newest row of the log has
\* the counter and the alarms of the shared memory: a row that is inserted
\* makes up for every INSERT, prune pass or start that failed before it.  The
\* exceptions are a last INSERT that failed, whose row nothing repeats, and a
\* start that has logged nothing yet: then memory is as InitMemory left it,
\* whatever the log says (DB_AddRow, up2web_comm.cpp:301-349).
LogCurrent ==
  (Between /\ db_new_row_fgs = {} /\ ~lost) =>
    \A t \in Trigger :
      smem[t] = IF offered = <<>> THEN InitMem[t] ELSE data[Max(ids)][t]
=============================================================================
