----------------------------- MODULE MCPumpLog -----------------------------
(***************************************************************************)
(* A small instance of PumpLog: rows of the two triggers, which change     *)
(* before, within and after a row, and back again.                         *)
(***************************************************************************)
EXTENDS PumpLog

CONSTANTS v0, v1

MCField == {"counter", "alarms"}
MCTrigger == MCField
MCFloat == {}
MCValue == {v0, v1}
MCInitMem == [f \in MCField |-> v0]
=============================================================================
