----------------------------- MODULE MCConsole -----------------------------
(***************************************************************************)
(* Three scripts for TLC: the first has two lines, so that something       *)
(* follows a sourced file, and the second may source the third.            *)
(***************************************************************************)
EXTENDS Console

ScriptLines == <<2, 1, 1>>
=============================================================================
