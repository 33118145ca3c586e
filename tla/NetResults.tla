----------------------------- MODULE NetResults -----------------------------
(* What the functions of client/net.h hand to their caller. *)

CONSTANTS
    Sealed,     \* data sealed to the user's own key: nothing else opens
    NoText      \* "[could not decrypt]"

\* -1; 0, or the id that was passed in; the id of a new entry; a list.
Failure      == [ok |-> FALSE]
Done         == [ok |-> TRUE]
Posted(id)   == [ok |-> TRUE, id |-> id]
Listed(rows) == [ok |-> TRUE, rows |-> rows]

\* A downloaded row as a diary_entry_t: a blob that does not open gets a text
\* that says so.
Opened(ts, data) ==
    [ts |-> ts, text |-> IF data \in Sealed THEN data ELSE NoText]
=============================================================================
