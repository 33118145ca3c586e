--------------------------- MODULE MCDiaryServer ----------------------------
(* Instances of DiaryServer for TLC. *)
EXTENDS DiaryServer, TLC

\* Slots, identities and keys are interchangeable: no constant, no action and
\* no property names one.
Interchangeable ==
    Permutations(Sessions) \cup Permutations(Users) \cup Permutations(Keys)
=============================================================================
