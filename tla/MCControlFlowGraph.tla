------------------------ MODULE MCControlFlowGraph ------------------------
(* Four bytes of code, instructions of one and two bytes. *)
EXTENDS ControlFlowGraph
=============================================================================
