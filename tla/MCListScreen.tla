---------------------------- MODULE MCListScreen ----------------------------
(* Instances of ListScreen for TLC. *)
EXTENDS ListScreen
=============================================================================
