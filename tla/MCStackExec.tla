---------------------------- MODULE MCStackExec ----------------------------
(***************************************************************************)
(* The programs of MCStackDepth, assembled and then executed.              *)
(***************************************************************************)
EXTENDS MCStackDepth, StackExec
=============================================================================
