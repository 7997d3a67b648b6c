------------------------------ MODULE MCToolRun ------------------------------
(* Model-checking instance of ToolRun.                                     *)
EXTENDS ToolRun
=============================================================================
