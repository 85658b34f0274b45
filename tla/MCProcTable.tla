---------------------------- MODULE MCProcTable ----------------------------
(* Instances of ProcTable for TLC. *)
EXTENDS ProcTable

FourSlots == 0 .. 3
ThreeSlots == 0 .. 2
============================================================================
