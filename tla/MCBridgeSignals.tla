-------------------------- MODULE MCBridgeSignals --------------------------
(***************************************************************************)
(* Small instances of BridgeSignals: the alarms begin a row, and one more  *)
(* field completes it.                                                     *)
(***************************************************************************)
EXTENDS BridgeSignals

CONSTANTS v0, v1

MCField == {"alarms", "capacity"}
MCTrigger == {"alarms"}
MCFloat == {"capacity"}
MCValue == {v0, v1}
MCInitMem == [f \in MCField |-> v0]
=============================================================================
