---------------------------- MODULE MCProcesses ----------------------------
(***************************************************************************)
(* Small instances of Processes: one pump or two.                          *)
(***************************************************************************)
EXTENDS Processes

CONSTANTS a, b
=============================================================================
