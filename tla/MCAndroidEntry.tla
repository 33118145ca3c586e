--------------------------- MODULE MCAndroidEntry ---------------------------
(* Instances of AndroidEntry for TLC. *)
EXTENDS AndroidEntry
=============================================================================
