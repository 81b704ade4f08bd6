--------------------------- MODULE MCRowAssembly ---------------------------
(***************************************************************************)
(* A small instance of RowAssembly: both triggers and one float field, two *)
(* ordinary values and one that is not a normal float.                     *)
(***************************************************************************)
EXTENDS RowAssembly

CONSTANTS v0, v1, nan

MCField == {"counter", "alarms", "capacity"}
MCTrigger == {"counter", "alarms"}
MCFloat == {"capacity"}
MCValue == {v0, v1, nan}
MCAbnormal == {nan}
MCInitMem == [f \in MCField |-> v0]
=============================================================================
