------------------------------ MODULE MCDiary -------------------------------
(* Instances of Diary for TLC. *)
EXTENDS Diary, TLC

CONSTANTS
    d1, d2,     \* two texts, sealed
    Odd         \* what another program stores, that is no sealed blob

\* What a user of diary-client can ask for.  New entries say d1 and edited
\* ones d2; the entry that is edited or deleted is the first, before it
\* exists, while it does and after it is gone.
AllCalls ==
         [op : {"POST"}, epoch : {NoEpoch}, data : {d1}]
    \cup [op : {"GET"}]
    \cup [op : {"UPDATE"}, id : {1}, data : {d2}]
    \cup [op : {"DELETE"}, id : {1}]

\* A program that is not diary-client, and stores data that is no sealed blob.
OddPosts ==
         [op : {"POST"}, epoch : {NoEpoch}, data : Odd]
    \cup [op : {"REGISTER"}, key : {MyKey}]

\* A program that deletes what the client has added.
RawDeletes == [op : {"DELETE"}, id : {1}]

SlotSymmetry == Permutations(Callers)
=============================================================================
