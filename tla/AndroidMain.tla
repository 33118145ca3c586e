----------------------------- MODULE AndroidMain -----------------------------
(***************************************************************************)
(* MainActivity.java, the list of the Android client: the entries field,   *)
(* the two dialogs of a long press, the one-thread executor that talks to  *)
(* the server and the queue of results that it posts to the main thread.   *)
(*                                                                         *)
(* The two threads take turns in any order.  A call to the server is one   *)
(* step of the executor.  Of EntryActivity there is here when it is opened *)
(* and left and what its own executor does to the server, before that or   *)
(* after; AndroidEntry looks inside.                                       *)
(***************************************************************************)
EXTENDS DiaryStorage, SequencesExt

CONSTANTS
    Me,             \* the user; nobody else touches the entries
    Undecodable,    \* ill-padded data, which another program has stored
    NoDialog,       \* no dialog is open
    Online,         \* does a connection attempt always succeed?
    StrictViews,    \* does changing a visible view's text check the thread?
    MaxQueue        \* bound: tasks and posts queued when the user acts

ASSUME MainAssumption ==
    Me \in Users /\ Undecodable \subseteq Data /\ Online \in BOOLEAN /\ StrictViews \in BOOLEAN
        /\ MaxQueue \in Nat \ {0}

Texts == Data \ Undecodable

VARIABLES
    up,         \* FALSE after an exception that nothing catches
    list,       \* the ids in the field entries, row by row
    conn,       \* "none" (null), "made" (connect() is under way), "open", "behind"
                \* (answers to earlier calls are unread) or "dead"
    status,     \* is the status line VISIBLE?
    dialog,     \* the open dialog: its kind and the position it was opened for
    editor,     \* EntryActivity: "none" yet, "open", or "left"
    tasks,      \* the executor's queue
    posts       \* what it posted to the main thread

(* History, read by the properties only. *)
VARIABLES
    pressed,    \* the id in the row that was pressed, 0 if none
    confirmed,  \* the ids whose deletion was confirmed
    awaited,    \* ids added under an open editor that no list has shown yet
    cut         \* has the last load brought less than all there is?

viewVars == <<up, list, status, dialog, editor, pressed>>
mainVars == <<users, entries, seq, up, list, conn, status, dialog, editor,
              tasks, posts, pressed, confirmed, awaited, cut>>

\* list.sort by the date, newest first; it is stable and the server sends the
\* entries by id.
Newer(i, j) ==
    \/ entries[i].ts > entries[j].ts
    \/ entries[i].ts = entries[j].ts /\ i < j

\* The lists with a row for each of these entries, in that order.
Sorted(ids) ==
    {rows \in [1..Cardinality(ids) -> ids] :
        /\ \A i \in ids : \E k \in DOMAIN rows : rows[k] = i
        /\ \A k, l \in DOMAIN rows : k < l => Newer(rows[k], rows[l])}

Connect == [op |-> "connect"]
Load == [op |-> "load"]

\* onCreate: the first connectAndLoad.  One entry may be there already.
MainInit ==
    /\ users \in [Users -> Keys]
    /\ seq \in {0, 1}
    /\ \E ts \in Stamps, data \in Data :
         entries = [i \in Ids |-> IF i > seq THEN NoRow
                                  ELSE [owner |-> Me, ts |-> ts, data |-> data]]
    /\ up = TRUE /\ list = <<>> /\ conn = "none" /\ status = TRUE
    /\ dialog = NoDialog /\ editor = "none"
    /\ tasks = <<Connect>> /\ posts = <<>>
    /\ pressed = 0 /\ confirmed = {} /\ awaited = {} /\ cut = FALSE

-----------------------------------------------------------------------------
(* The main thread *)

\* The user can act: a bound on what has piled up.
Acts == up /\ editor # "open" /\ Len(tasks) + Len(posts) < MaxQueue

\* loadEntries
loadEntries ==
    \/ conn = "none" /\ UNCHANGED <<status, tasks, cut>>
    \/ conn # "none" /\ status' = TRUE /\ tasks' = Append(tasks, Load) /\ cut' = FALSE

\* btn_reload.
PressesReload ==
    /\ Acts /\ dialog = NoDialog
    /\ loadEntries
    /\ UNCHANGED <<storageVars, up, list, conn, dialog, editor, posts, pressed,
                   confirmed, awaited>>

\* Is the question of confirmDelete on the screen?
Asked == dialog # NoDialog /\ dialog.kind = "question"

\* New, a short press of a row, or the item Edit: openEditor.
OpensEditor ==
    /\ Acts /\ ~Asked
    /\ editor' = "open" /\ dialog' = NoDialog /\ pressed' = 0
    /\ UNCHANGED <<storageVars, up, list, conn, status, tasks, posts,
                   confirmed, awaited, cut>>

\* The executor of an EntryActivity has a POST executed; it goes on after the
\* screen is left.  An UPDATE changes nothing that is modelled here.
EditorSaves ==
    /\ up /\ editor # "none"
    /\ \E ts \in Stamps, data \in Texts, id \in Ids :
         /\ storage_add_entry(Me, data, ts, id)
         /\ awaited' = IF editor = "open" THEN awaited \cup {id} ELSE awaited
    /\ UNCHANGED <<viewVars, conn, tasks, posts, confirmed, cut>>

BadEditorReturns ==    \* the list is loaded only after RESULT_OK
    /\ up /\ editor = "open" /\ editor' = "left"
    /\ loadEntries \/ UNCHANGED <<status, tasks, cut>>
    /\ UNCHANGED <<storageVars, up, list, conn, dialog, posts, pressed,
                   confirmed, awaited>>

\* onActivityResult: whatever the result is, the list is loaded.
EditorReturns ==
    /\ up /\ editor = "open" /\ editor' = "left"
    /\ loadEntries
    /\ UNCHANGED <<storageVars, up, list, conn, dialog, posts, pressed,
                   confirmed, awaited>>

BadLongPress ==    \* the positions of a list that has a header row
    /\ Acts /\ dialog = NoDialog
    /\ \E pos \in 2..(Len(list) + 1) :
         dialog' = [kind |-> "menu", pos |-> pos] /\ pressed' = list[pos - 1]
    /\ UNCHANGED <<storageVars, up, list, conn, status, editor, tasks, posts,
                   confirmed, awaited, cut>>

\* showEntryMenu(pos).
LongPress ==
    /\ Acts /\ dialog = NoDialog
    /\ \E pos \in DOMAIN list :
         dialog' = [kind |-> "menu", pos |-> pos] /\ pressed' = list[pos]
    /\ UNCHANGED <<storageVars, up, list, conn, status, editor, tasks, posts,
                   confirmed, awaited, cut>>

\* The item Delete, confirmDelete(pos).
ChoosesDelete ==
    /\ up /\ dialog # NoDialog /\ ~Asked
    /\ dialog' = [dialog EXCEPT !.kind = "question"]
    /\ UNCHANGED <<storageVars, up, list, conn, status, editor, tasks, posts,
                   pressed, confirmed, awaited, cut>>

Cancels ==
    /\ up /\ dialog # NoDialog /\ dialog' = NoDialog
    /\ pressed' = 0
    /\ UNCHANGED <<storageVars, up, list, conn, status, editor, tasks, posts,
                   confirmed, awaited, cut>>

\* deleteEntry(pos): the row is looked up again, in the list of now.
Confirms ==
    /\ up /\ Asked
    /\ dialog' = NoDialog
    /\ \/ /\ dialog.pos \in DOMAIN list
          /\ tasks' = Append(tasks, [op |-> "delete", pos |-> dialog.pos,
                                     id |-> list[dialog.pos]])
          /\ confirmed' = confirmed \cup {list[dialog.pos]}
          /\ UNCHANGED up
       \/ /\ dialog.pos \notin DOMAIN list
          /\ up' = FALSE /\ UNCHANGED <<tasks, confirmed>>
    /\ pressed' = 0
    /\ UNCHANGED <<storageVars, list, conn, status, editor, posts, awaited, cut>>

\* What a successful GET has posted.
Shows(post) ==
    /\ post.op = "show"
    /\ list' = post.list /\ status' = FALSE
    /\ awaited' = awaited \ ToSet(post.list)
    /\ UNCHANGED <<up, tasks, cut>>

\* entries.remove(pos), of a list that may be another one by now.
Removes(post) ==
    /\ post.op = "remove"
    /\ \/ post.pos \in DOMAIN list /\ list' = RemoveAt(list, post.pos) /\ UNCHANGED up
       \/ post.pos \notin DOMAIN list /\ up' = FALSE /\ UNCHANGED list
    /\ UNCHANGED <<status, tasks, awaited, cut>>

Connected(post) ==
    /\ post.op = "connected"
    /\ loadEntries
    /\ UNCHANGED <<up, list, awaited>>

\* "Connection failed: ...", "Error: ...".
Reports(post) ==
    /\ post.op = "error" /\ status' = TRUE
    /\ UNCHANGED <<up, list, tasks, awaited, cut>>

Posted ==
    /\ up /\ posts # <<>>
    /\ posts' = Tail(posts)
    /\ LET post == Head(posts) IN
         Shows(post) \/ Removes(post) \/ Connected(post) \/ Reports(post)
    /\ UNCHANGED <<storageVars, conn, dialog, editor, pressed, confirmed>>

-----------------------------------------------------------------------------
(* The executor *)

Post(p) == posts' = Append(posts, p)

\* The new object is assigned before connect() is called; the old socket, if
\* there is one, is not closed.
Makes(task) ==
    /\ task.op = "connect" /\ conn # "made"
    /\ conn' = "made"
    /\ UNCHANGED <<storageVars, up, status, tasks, posts, cut>>

RunsConnect(task) ==
    /\ task.op = "connect" /\ conn = "made"
    /\ \/ conn' = "open" /\ Post([op |-> "connected"])
       \/ ~Online /\ conn' = "dead" /\ Post([op |-> "error"])
    /\ tasks' = Tail(tasks)
    /\ UNCHANGED <<storageVars, up, status, cut>>

\* What setStatus("Connecting...") does on this thread: a GONE view asks for a
\* new layout, which only the main thread may do.
SetsStatus ==
    \/ (~status \/ StrictViews) /\ up' = FALSE /\ UNCHANGED <<status, posts, tasks>>
    \/ /\ status /\ UNCHANGED <<up, status>>
       /\ tasks' = Append(Tail(tasks), Connect)
       /\ Post([op |-> "error"])

Odd(rows) == {i \in rows : entries[i].data \in Undecodable}

\* A list that was asked for earlier: of entries that are there or have been.
LateLists ==
    UNION {SetToSeqs(ids) : ids \in SUBSET (1..seq \ Odd(Own(Me)))}

\* getEntries.  The rows of the answer are shown; or one of them cannot be
\* decoded and those after it stay unread; or the call fails, or reads what an
\* earlier one has left.  Any failure ends in connectAndLoad, called on this
\* thread.
RunsLoad(task) ==
    /\ task.op = "load"
    /\ \/ /\ conn = "open"
          /\ \E kept \in SUBSET Own(Me) :
               /\ GetRows(Me, kept) /\ Odd(kept) = {}
               /\ \E rows \in Sorted(kept) : Post([op |-> "show", list |-> rows])
               /\ cut' = (kept # Own(Me))
          /\ tasks' = Tail(tasks)
          /\ UNCHANGED <<up, status, conn>>
       \/ /\ conn = "open"
          /\ \E kept \in SUBSET Own(Me) :
               /\ GetRows(Me, kept) /\ Odd(kept) # {}
               /\ conn' = IF \E i \in Odd(kept), j \in kept : j > i
                          THEN "behind" ELSE "open"
          /\ SetsStatus /\ UNCHANGED cut
       \/ /\ conn # "open" \/ Fails("memory")    \* or an answer of FAIL
          /\ SetsStatus /\ UNCHANGED <<conn, cut>>
       \/ /\ conn = "behind"
          /\ \E rows \in LateLists : Post([op |-> "show", list |-> rows])
          /\ tasks' = Tail(tasks)
          /\ UNCHANGED <<up, status, conn, cut>>
    /\ UNCHANGED storageVars

BadRunsDelete(task) ==    \* the row is looked up when the task runs
    /\ task.op = "delete"
    /\ \/ /\ task.pos \in DOMAIN list /\ conn = "open"
          /\ storage_delete_entry(Me, list[task.pos], 0)
          /\ Post([op |-> "remove", pos |-> task.pos])
       \/ UNCHANGED <<storageVars, posts>>
    /\ tasks' = Tail(tasks)
    /\ UNCHANGED <<conn, up, status, cut>>

\* deleteEntry of the connection.  A delete that fails is reported by a toast and
\* that is all, also when it was executed and only the answer is lost; on a
\* connection that is behind an earlier answer is taken for its own.
RunsDelete(task) ==
    LET Removed == Post([op |-> "remove", pos |-> task.pos])
    IN  /\ task.op = "delete"
        /\ \/ /\ conn = "open" /\ storage_delete_entry(Me, task.id, 0)
              /\ Removed /\ UNCHANGED conn
           \/ /\ conn = "open" /\ storage_delete_entry(Me, task.id, 0)
              /\ conn' = "dead" /\ UNCHANGED posts
           \/ /\ conn = "open" /\ storage_delete_entry(Me, task.id, -1)
              /\ UNCHANGED <<posts, conn>>
           \/ /\ conn = "behind"
              /\ \E rc \in {0, -1} : storage_delete_entry(Me, task.id, rc)
              /\ Removed \/ UNCHANGED posts
              /\ UNCHANGED conn
           \/ conn \notin {"open", "behind"} /\ UNCHANGED <<storageVars, posts, conn>>
        /\ tasks' = Tail(tasks)
        /\ UNCHANGED <<up, status, cut>>

Runs ==
    /\ up /\ tasks # <<>>
    /\ LET task == Head(tasks) IN
         Makes(task) \/ RunsConnect(task) \/ RunsLoad(task) \/ RunsDelete(task)
    /\ UNCHANGED <<list, dialog, editor, pressed, confirmed, awaited>>

LosesConnection ==
    /\ up /\ conn \in {"open", "behind"} /\ conn' = "dead"
    /\ UNCHANGED <<storageVars, viewVars, tasks, posts, confirmed, awaited, cut>>

\* The app is started again after a crash.
Restarts ==
    /\ ~up /\ up' = TRUE
    /\ list' = <<>> /\ conn' = "none" /\ status' = TRUE
    /\ dialog' = NoDialog /\ editor' = "none"
    /\ tasks' = <<Connect>> /\ posts' = <<>>
    /\ pressed' = 0 /\ confirmed' = {} /\ awaited' = {} /\ cut' = FALSE
    /\ UNCHANGED storageVars

MainNext ==
    \/ PressesReload \/ OpensEditor \/ EditorSaves \/ EditorReturns
    \/ LongPress \/ ChoosesDelete \/ Cancels \/ Confirms
    \/ Posted \/ Runs \/ LosesConnection \/ Restarts

MainSpec == MainInit /\ [][MainNext]_mainVars

\* Both threads take what is in their queues; every call to the server ends,
\* with an answer or with an exception; the server does not always lack the
\* memory for an answer.
FairMainSpec ==
    /\ MainSpec
    /\ WF_mainVars(Posted) /\ WF_mainVars(Runs)
    /\ SF_mainVars(/\ Runs
                   /\ Head(tasks) = Load /\ tasks' = Tail(tasks))

-----------------------------------------------------------------------------
(* Properties *)

Tasks == {Connect, Load} \cup [op : {"delete"}, pos : Ids, id : Ids]
Lists == {rows \in Seq(Ids) : Len(rows) <= MaxId}
Conns == {"none", "made", "open", "behind", "dead"}
Results == [op : {"connected", "error"}] \cup [op : {"show"}, list : Lists]
              \cup [op : {"remove"}, pos : Ids]

\* Every variable stays within the values its field can hold, and no list is
\* longer than the entries there have been.
MainTypeOK ==
    /\ StorageTypeOK
    /\ up \in BOOLEAN /\ status \in BOOLEAN
    /\ list \in Lists /\ conn \in Conns /\ editor \in {"none", "open", "left"}
    /\ dialog \in {NoDialog} \cup [kind : {"menu", "question"}, pos : Ids]
    /\ tasks \in Seq(Tasks) /\ posts \in Seq(Results)

\* No entry is deleted but one that stood in the row of a question when that
\* was answered, however late the executor comes to it (MainActivity.java:151-155).
OnlyConfirmedIsDeleted ==
    [][\A i \in Ids : entries[i] # NoRow /\ entries'[i] = NoRow
                        => i \in confirmed]_mainVars

\* An entry that was added before the editor returned is shown by the load of
\* onActivityResult or a later one, unless the connection dies, the app does, or a
\* load brings less than all entries: above MAX_ENTRIES, after a scan that ended
\* early, without memory.  A row that cannot be decoded keeps every load from
\* succeeding (MainActivity.java:77-79, 107-124; RELEASE_NOTES.md:42).
NewEntryIsShown ==
    \A i \in Ids :
        (i \in awaited /\ editor = "left" /\ Odd(Own(Me)) = {})
            ~> (i \notin awaited \/ conn = "dead" \/ ~up \/ cut)

\* RELEASE_NOTES.md:38, "long-press an entry to edit or delete it": what is
\* deleted is the entry that was pressed.
PressedIsDeleted ==
    [][\A i \in Ids : i \in confirmed' \ confirmed => i = pressed]_mainVars

\* RELEASE_NOTES.md:42, "Entries reload automatically": when nothing is left to
\* do, no row is that of an entry which was deleted.
QuietRowsAreStored ==
    up /\ conn = "open" /\ tasks = <<>> /\ posts = <<>> => ToSet(list) \subseteq Own(Me)

\* RELEASE_NOTES.md:40, "Automatic reconnection on connection loss": a load that
\* finds the connection dead ends with a new one.
LossIsRepaired ==
    (conn = "dead" /\ Contains(tasks, Load)) ~> conn = "open"
=============================================================================
