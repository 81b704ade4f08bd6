----------------------------- MODULE NestedLog -----------------------------
(***************************************************************************)
(* DB_AddRow when handlers nest.  The handlers of BridgeSignals run the    *)
(* statements of LogTable for every row they hand over; the timer lets a   *)
(* second handler begin between any two of them, log rows and prune the    *)
(* log, before the first one goes on with what it had found out.           *)
(***************************************************************************)
EXTENDS BridgeSignals, LogTable

\* MAXLOG_TRUNCATE_THRESHOLD is 100, MAXLOGROWNUMS a million.
ASSUME NestedAssumption == 1 < Band /\ Band < MaxRows

VARIABLES
  outer_pc,   \* the statement the handler below the running one is to run
  outer_min   \* the min_id on its stack

nested_vars == <<bridge_vars, log_vars, outer_pc, outer_min>>

\* The prune passes that were missed before, if the log is over its limit.
Missed == IF OverLimit THEN Cardinality(ids) - (MaxRows + Band) + 1 ELSE 0

\* DB_Open has found the log an earlier start left, or tried to make one.
NestedInit ==
  /\ BridgeInit
  /\ \/ /\ table = TRUE
        /\ \E lo \in 1..MaxId : \E hi \in lo..MaxId : ids = lo..hi /\ issued = hi
     \/ table \in BOOLEAN /\ ids = {} /\ issued = 0
  /\ pc = "idle" /\ outer_pc = "idle"
  /\ min_id = 0 /\ outer_min = 0
  /\ skipped = Missed

-----------------------------------------------------------------------------
\* Faulty form: the handler that returns forgets the one below it.
ReturnForgets ==
  /\ pc = "idle" /\ Awake /\ Rearm
  /\ UNCHANGED <<log_vars, outer_pc, outer_min>>

\* What comes from outside, and what a handler does before its INSERT.
Elsewhere ==
  /\ \/ \E m \in Msg \cup {NoMsg} : Send(m)
     \/ TimerExpires
     \/ /\ Awake
        /\ \/ Sleep \/ Read \/ Dispatch \/ Fetch \/ Lock \/ Update \/ Unlock
           \/ Check \/ Reset \/ Snap
     \/ SleepOnMutex
  /\ UNCHANGED <<log_vars, outer_pc, outer_min>>

\* A handler begins; the statements of the one it interrupts wait.
Nest(sig) ==
  /\ Deliver(sig)
  /\ pc' = "idle"
  /\ outer_pc' = pc /\ outer_min' = min_id
  /\ UNCHANGED <<table, ids, min_id, issued, skipped>>

\* The INSERT.
Store ==
  /\ Awake /\ Offer
  /\ Insert \/ InsertFails
  /\ UNCHANGED <<outer_pc, outer_min>>

\* The statements that prune the log.
Prune ==
  /\ Count \/ FindMin \/ Delete \/ PruneFails
  /\ UNCHANGED <<bridge_vars, outer_pc, outer_min>>

\* DB_AddRow is done, and the handler returns to the one below.
Return ==
  /\ pc = "idle" /\ Awake /\ Rearm
  /\ pc' = outer_pc /\ min_id' = outer_min
  /\ outer_pc' = "idle"
  /\ UNCHANGED <<table, ids, issued, skipped, outer_min>>

NestedNext ==
  \/ Elsewhere
  \/ \E sig \in Sig : Nest(sig)
  \/ Store \/ Prune \/ Return

NestedSpec == NestedInit /\ [][NestedNext]_nested_vars

-----------------------------------------------------------------------------
\* Handlers in the middle of DB_AddRow.
Busy == (IF pc = "idle" THEN 0 ELSE 1) + (IF outer_pc = "idle" THEN 0 ELSE 1)

\* Shape of the state; a handler has statements of DB_AddRow left only after
\* it has handed its row over.
NestedTypeOK ==
  /\ BridgeTypeOK
  /\ LogTypeOK
  /\ outer_pc \in {"idle", "count", "min", "delete"}
  /\ outer_min \in Nat
  /\ pc # "idle" => At("rearm")
  /\ outer_pc # "idle" => Depth = 2 /\ stack[1].pc = "rearm"

\* However the handlers nest, between two rows the log is less than a band
\* over MAXLOGROWNUMS, and one more for every prune pass that ever failed: a
\* pass that finds its band already gone, taken by the handler that interrupted
\* it, is not one of these (up2web_comm.cpp:322-347).
NestedSize == Cardinality(ids) < MaxRows + Band + skipped + Busy

\* A handler may count the rows, be interrupted by handlers that prune the
\* log, and then prune what they left.  Even so a row leaves the log only when
\* all of the newest MAXLOGROWNUMS rows but one band remain
\* (up2web_comm.cpp:331-341).
BandRetained ==
  [][\A i \in ids \ ids' : Cardinality({j \in ids' : j > i}) >= MaxRows - Band]_nested_vars
=============================================================================
