---------------------------- MODULE MCAndroidMain ----------------------------
(* Instances of AndroidMain for TLC. *)
EXTENDS AndroidMain
=============================================================================
