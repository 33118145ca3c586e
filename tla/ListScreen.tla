----------------------------- MODULE ListScreen -----------------------------
(***************************************************************************)
(* screen_list() of client/ui.c: the array of the last GET, the selection, *)
(* the scrolling, and the question before a delete.  It calls the viewer,  *)
(* whose steps are module Viewer's, on the same terminal; and the editor,  *)
(* of which only what its saves do to the entries is here (EditorText has  *)
(* its text, Editor its failures).                                         *)
(*                                                                         *)
(* A step is one round of the loop: the key, what it does, and the top of  *)
(* the loop that scrolls to the selection.  One user's entries are all     *)
(* that is looked at; other clients may work on the same ones.             *)
(***************************************************************************)
EXTENDS DiaryStorage, Viewer

CONSTANT Me    \* the user

ASSUME ListAssumption == Me \in Users

NewEntry == 0   \* the editor's entry_id before its first save

VARIABLES
    screen,     \* "down" (no process), "list", "question", "viewer", "edit", "new"
    list,       \* the ids of the entries array, in the order of its rows
    selected,   \* index in that array, from 0
    scroll,     \* the first row on the screen
    conn,       \* the connection: "up", "behind" (with answers on it that belong
                \* to earlier commands) or "down"
    named,      \* del_id of the question, entry_id of the editor
    current,    \* history: "whole" or "part" if nothing has changed the entries
                \* since a GET brought all it can or less, "old" otherwise
    shorter     \* history: has a return from E brought fewer rows since the
                \* selection was last brought within the array?

screenVars == <<screen, selected, scroll, conn, named>>
tableVars == <<users, entries, seq, screen, list, selected, scroll, conn, named,
               current, shorter>>
listVars == <<tableVars, viewerVars>>

\* Two lines of header and the status line.
ListRows == text_rows - 1

\* entry_cmp_newest_first: by date, entries of the same date by id.
Newer(i, j) ==
    \/ entries[i].ts > entries[j].ts
    \/ entries[i].ts = entries[j].ts /\ i > j

\* The arrays with a row for each of these entries.
Arrays(ids) ==
    {rows \in [1..Cardinality(ids) -> ids] :
        \A i \in ids : \E k \in DOMAIN rows : rows[k] = i}

\* Those with newer rows above older ones.
NewestFirst(ids) ==
    {rows \in Arrays(ids) :
        \A k, l \in DOMAIN rows : k < l => Newer(rows[k], rows[l])}

ListInit ==
    /\ users \in [Users -> Keys]
    /\ entries = [i \in Ids |-> NoRow] /\ seq = 0
    /\ screen = "down" /\ list = <<>> /\ selected = 0 /\ scroll = 0
    /\ conn = "down" /\ named = NewEntry /\ current = "old" /\ shorter = FALSE
    /\ ViewerInit

-----------------------------------------------------------------------------
BadWindow(sel, rows) ==    \* the row below the last one counts as visible
    IF sel < scroll THEN sel
    ELSE IF sel > scroll + rows THEN sel - rows + 1 ELSE scroll

\* Where a window of so many rows starts when row sel is highlighted.
Window(sel, rows) ==
    IF sel < scroll THEN sel
    ELSE IF sel >= scroll + rows THEN sel - rows + 1 ELSE scroll

Highlights(sel) == selected' = sel /\ scroll' \in {Window(sel, ListRows)}

\* net_get_entries on a connection in step.  The server answers with what rows
\* it could read, or with FAIL; a row that the client has no memory for, or
\* cannot take apart, ends the call and leaves the rows after it unread.
GetAnswered ==
    \/ \E kept \in SUBSET Ids :
         /\ GetRows(Me, kept)'
         /\ \/ /\ list' \in NewestFirst(kept)' /\ conn' = "up"
               /\ current' = IF kept = FirstRows(Own(Me))' THEN "whole" ELSE "part"
            \/ /\ Fails("client memory") /\ kept # {}
               /\ list' = <<>> /\ current' = "old"
               /\ conn' \in {"up", "behind"}
    \/ Fails("memory") /\ list' = <<>> /\ conn' = "up" /\ current' = "old"

\* On a connection that is behind it reads an older answer, for good: nothing
\* or some list of the past.
GetBehind ==
    /\ \E ids \in SUBSET (1..seq) : list' \in Arrays(ids)
    /\ conn' = "behind" /\ current' = "old"

\* The connection breaks under the call, or has broken before.
GetCutOff == list' = <<>> /\ conn' = "down" /\ current' = "old"

\* reload_entries: the array is freed first, and stays empty if GET fails.
Reloads ==
    \/ conn = "up" /\ GetAnswered
    \/ conn = "behind" /\ GetBehind
    \/ GetCutOff

BadClamped(sel, count) == IF sel < count THEN sel ELSE count - 1

Clamped(sel, count) ==
    IF sel < count THEN sel ELSE IF count > 0 THEN count - 1 ELSE 0

\* entries[selected].id.  Beyond the array it is whatever is in memory there.
SelectedId ==
    IF selected < Len(list) THEN {list[selected + 1]} ELSE 0..MaxId

Starts ==
    /\ screen = "down" /\ screen' = "list"
    /\ UNCHANGED <<users, entries, seq, named>>
    /\ GetAnswered \/ GetCutOff
    /\ selected' = 0 /\ scroll' = 0 /\ shorter' = FALSE

\* Q, or the process is killed: on any screen.
Ends ==
    /\ screen # "down" /\ screen' = "down"
    /\ list' = <<>> /\ selected' = 0 /\ scroll' = 0
    /\ conn' = "down" /\ named' = NewEntry /\ current' = "old" /\ shorter' = FALSE
    /\ UNCHANGED storageVars

\* The arrow keys, j and k, and the wheel.
Moves ==
    /\ screen = "list"
    /\ \/ selected > 0 /\ Highlights(selected - 1)
       \/ selected < Len(list) - 1 /\ Highlights(selected + 1)
    /\ UNCHANGED <<users, entries, seq, screen, list, conn, named, current, shorter>>

\* Enter, E, D and N leave the list for another screen.
Shows(other, id) ==
    /\ screen = "list" /\ screen' = other
    /\ named' = id
    /\ UNCHANGED <<users, entries, seq, list, selected, scroll, conn, current, shorter>>

Read ==
    /\ list # <<>> /\ \E id \in SelectedId : Shows("viewer", id)
    /\ ViewerOpens

Edit == list # <<>> /\ \E id \in SelectedId : Shows("edit", id)
AskDelete == list # <<>> /\ \E id \in SelectedId : Shows("question", id)
New == Shows("new", NewEntry)

Returns == screen' = "list" /\ named' = NewEntry /\ UNCHANGED <<users, seq>>

\* The viewer is left, or the question is answered with any other key.
Back ==
    /\ screen \in {"viewer", "question"}
    /\ Returns /\ Highlights(selected)
    /\ UNCHANGED <<entries, list, conn, current, shorter>>

Views == screen = "viewer" /\ ViewerNext /\ UNCHANGED tableVars

\* The size of the terminal changes outside the viewer.  To the question it is
\* another key.
Resizes ==
    /\ screen \in {"list", "question", "edit", "new"}
    /\ text_rows' \in Heights /\ cols' \in ColSizes
    /\ lowest' = text_rows' /\ UNCHANGED <<text, total_vrows, view_top>>
    /\ \/ screen \in {"list", "question"}
          /\ screen' = "list" /\ named' = NewEntry
          /\ scroll' = Window(selected, text_rows' - 1) /\ UNCHANGED selected
       \/ screen \in {"edit", "new"} /\ UNCHANGED <<screen, named, selected, scroll>>
    /\ UNCHANGED <<users, entries, seq, list, conn, current, shorter>>

\* A save of the editor that reaches the server.  On a connection that is
\* behind, what the editor takes for its answer is an older one.
EditorSaves ==
    /\ screen \in {"edit", "new"} /\ conn # "down"
    /\ \/ /\ named = NewEntry
          /\ \E ts \in Stamps, data \in Data, id \in {-1} \cup Ids :
               /\ storage_add_entry(Me, data, ts, id)
               /\ \/ conn = "up" /\ id > 0 /\ named' = id
                  \/ conn = "behind" /\ named' \in 0..seq'
       \/ /\ named # NewEntry
          /\ \E data \in Data : storage_update_entry(Me, named, data, 0)
          /\ UNCHANGED named
    /\ current' = "old"
    /\ UNCHANGED <<screen, list, selected, scroll, conn, shorter>>

\* After N the last row is highlighted; after E the selection is not touched.
EditorReturns ==
    /\ screen \in {"edit", "new"}
    /\ Returns /\ UNCHANGED entries
    /\ Reloads
    /\ \/ screen = "new" /\ Highlights(Clamped(Len(list'), Len(list')))
          /\ shorter' = FALSE
       \/ screen = "edit" /\ Highlights(selected)
          /\ shorter' = (shorter \/ Len(list') < Len(list))

BadConfirm ==    \* the row is taken out of the array, without a new GET
    /\ screen = "question"
    /\ conn # "down" /\ \E rc \in {0, -1} : storage_delete_entry(Me, named, rc)
    /\ Returns
    /\ list' = SelectSeq(list, LAMBDA i : i # named)
    /\ UNCHANGED <<conn, current>>
    /\ Highlights(Clamped(selected, Len(list'))) /\ shorter' = FALSE

BadConfirmRow ==    \* the row number is taken for the id
    /\ screen = "question"
    /\ conn # "down" /\ \E rc \in {0, -1} : storage_delete_entry(Me, selected + 1, rc)
    /\ Returns
    /\ Reloads
    /\ Highlights(Clamped(selected, Len(list'))) /\ shorter' = FALSE

\* Y: the entry named by the question is deleted, unless the server refuses or
\* the command does not reach it.
Confirm ==
    /\ screen = "question"
    /\ Returns
    /\ \/ conn # "down" /\ \E rc \in {0, -1} : storage_delete_entry(Me, named, rc)
          /\ Reloads
       \/ UNCHANGED entries /\ GetCutOff
    /\ Highlights(Clamped(selected, Len(list'))) /\ shorter' = FALSE

Reload ==
    /\ screen = "list"
    /\ UNCHANGED <<users, entries, seq, screen, named>>
    /\ Reloads /\ Highlights(Clamped(selected, Len(list'))) /\ shorter' = FALSE

\* Another client of the same user adds or deletes an entry.
Elsewhere ==
    /\ \/ \E ts \in Stamps, data \in Data, id \in Ids :
            storage_add_entry(Me, data, ts, id)
       \/ \E id \in Own(Me) : storage_delete_entry(Me, id, 0)
    /\ current' = "old"
    /\ UNCHANGED <<screenVars, list, shorter>>

LosesConnection ==
    /\ conn # "down" /\ conn' = "down"
    /\ UNCHANGED <<users, entries, seq, screen, list, selected, scroll, named,
                   current, shorter>>

ListNext ==
    \/ Read \/ Views \/ Resizes
    \/ Back /\ ViewerCloses
    \/ Ends /\ ViewerCloses
    \/ /\ Starts \/ Moves \/ Edit \/ AskDelete \/ New
          \/ EditorSaves \/ EditorReturns
          \/ Confirm \/ Reload \/ Elsewhere \/ LosesConnection
       /\ UNCHANGED viewerVars

ListSpec == ListInit /\ [][ListNext]_listVars

-----------------------------------------------------------------------------
(* Properties *)

\* Every variable stays within the values its C counterpart can hold.
ListTypeOK ==
    /\ StorageTypeOK
    /\ screen \in {"down", "list", "question", "viewer", "edit", "new"}
    /\ list \in Seq(Ids)
    /\ selected \in Nat /\ scroll \in Nat
    /\ conn \in {"up", "behind", "down"} /\ named \in 0..MaxId
    /\ current \in {"whole", "part", "old"} /\ shorter \in BOOLEAN

\* README.md:214, "Read selected entry", 215, "Edit selected entry", 216, "Delete
\* selected entry": whenever the list has rows one of them is selected, and it
\* is on the screen, whatever was added, deleted and fetched meanwhile.  The
\* exception is the return from E, which does not look at the selection
\* (ui.c:508-510), when the new array is shorter than the old one.
SelectionIsShown ==
    screen = "list" /\ list # <<>> /\ ~shorter =>
        selected < Len(list) /\ selected \in scroll..(scroll + ListRows - 1)

\* The same, without the exception.
AlwaysShown ==
    screen = "list" /\ list # <<>> =>
        selected < Len(list) /\ selected \in scroll..(scroll + ListRows - 1)

\* client/architecture.md:118-121, "After any operation that changes the server
\* state it re-fetches the list": as long as nobody else does anything, the rows
\* are entries of the server, newest first, no entry twice; and all of them up
\* to MAX_ENTRIES, the oldest ones, unless the server's scan was cut short.
ListIsCurrent ==
    screen = "list" /\ current # "old" =>
        /\ {list[k] : k \in DOMAIN list} \subseteq Own(Me)
        /\ current = "whole" => FirstRows(Own(Me)) \subseteq {list[k] : k \in DOMAIN list}
        /\ \A k, l \in DOMAIN list : k < l => Newer(list[k], list[l])

\* What a delete removes is the row that was highlighted when the question was
\* asked, and nothing else this client does removes an entry (ui.c:512-527);
\* with the exception of SelectionIsShown.
OnlySelectedIsDeleted ==
    [][\A i \in Own(Me) : entries'[i] = NoRow =>
         \/ Elsewhere \/ shorter
         \/ /\ screen = "question"
            /\ selected < Len(list) /\ list[selected + 1] = i]_listVars
=============================================================================
