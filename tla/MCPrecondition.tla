--------------------------- MODULE MCPrecondition ---------------------------
(* A small instance of the preconditioning machine: the order of the         *)
(* thresholds is the code's, one unit standing for the gap between two.      *)
EXTENDS PreconditionProps
=============================================================================
