---------------------------- MODULE MCNestedLog ----------------------------
(***************************************************************************)
(* Small instances of NestedLog: the alarms are the only field, so that    *)
(* every message with a change is a row.                                   *)
(***************************************************************************)
EXTENDS NestedLog

CONSTANTS v0, v1

MCField == {"alarms"}
MCValue == {v0, v1}
MCInitMem == [f \in MCField |-> v0]
=============================================================================
