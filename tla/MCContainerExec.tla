-------------------------- MODULE MCContainerExec --------------------------
(* Model-checking instance of ContainerExec.                               *)
EXTENDS ContainerExec
=============================================================================
