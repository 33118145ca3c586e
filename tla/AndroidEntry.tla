---------------------------- MODULE AndroidEntry ----------------------------
(***************************************************************************)
(* EntryActivity.java, the editor of the Android client: the text field,   *)
(* the debounce timer, the one-thread executor that talks to the server    *)
(* and the queue of results that it posts back to the main thread; with    *)
(* the reload of MainActivity's list when the editor closes.               *)
(*                                                                         *)
(* The main thread and each executor take turns in any order.  A call to   *)
(* the server is one step of the executor; what it may do and answer is    *)
(* what DiaryStorage allows, and the connection may break under it.  Every *)
(* EntryActivity object has its own executor and connection, which outlive *)
(* the screen until the queue is empty.                                    *)
(***************************************************************************)
EXTENDS DiaryStorage, SequencesExt

CONSTANTS
    Me,         \* the user; nobody else touches the entries
    NoText,     \* not a text
    Recreates,  \* does the system rebuild the screen (rotation)?
    MaxScreens, \* bound: EntryActivity objects created
    MaxTyped,   \* bound: changes made to the text
    MaxTasks    \* bound: tasks and posts queued when Back is pressed

Empty == 0
NewEntry == 0   \* stands for the -1 of the Intent; the code tests entryId > 0

ASSUME EntryAssumption ==
    /\ Me \in Users /\ Empty \in Data /\ Data # {Empty} /\ NoText \notin Data
    /\ Recreates \in BOOLEAN
    /\ MaxScreens \in Nat \ {0} /\ MaxTyped \in Nat /\ MaxTasks \in Nat

Screens == 1..MaxScreens

VARIABLES
    shown,      \* MainActivity: id |-> text, the list as last loaded
    reload,     \* MainActivity: onActivityResult has asked for the list
    open,       \* is the editor on the screen?
    inst,       \* the last EntryActivity object created
    intent,     \* the entry in the Intent: its id and text
    text,       \* what editText holds
    timer,      \* is saveTask in the handler's queue?
    saving,     \* the field of the same name
    conn,       \* per object: "none" (null), "made" (connect() is under way),
                \* "open", or "dead"
    entryId,    \* per object
    tasks,      \* per object: the executor's queue
    posts,      \* what the executors posted to the main thread
    typed       \* bound: how often the text was changed

(* History, read by the properties only. *)
VARIABLES
    opening,    \* object |-> the object it was rebuilt from, or itself
    created,    \* object |-> the ids added by it
    last,       \* object |-> the text of the last save it has queued; NoText when
                \* that save has failed
    writer      \* id |-> the object that wrote the entry last

historyVars == <<opening, created, last, writer>>
mainVars == <<shown, reload, open, inst, intent, text, timer, saving, typed>>
entryVars == <<users, entries, seq, shown, reload, open, inst, intent, text,
               timer, saving, conn, entryId, tasks, posts, typed,
               opening, created, last, writer>>

Mine == [i \in Own(Me) |-> entries[i].data]

EntryInit ==
    /\ users \in [Users -> Keys]
    /\ seq \in {0, 1}    \* one entry may be there already, with some text
    /\ \E ts \in Stamps :
         entries = [i \in Ids |-> IF i > seq THEN NoRow
                                  ELSE [owner |-> Me, ts |-> ts,
                                        data |-> CHOOSE t \in Data : t # Empty]]
    /\ shown = Mine /\ reload = FALSE /\ open = FALSE /\ inst = 0
    /\ intent = [id |-> NewEntry, text |-> Empty] /\ text = Empty
    /\ timer = FALSE /\ saving = FALSE
    /\ conn = [i \in Screens |-> "none"]
    /\ entryId = [i \in Screens |-> NewEntry]
    /\ tasks = [i \in Screens |-> <<>>]
    /\ posts = <<>> /\ typed = 0
    /\ opening = [i \in Screens |-> i] /\ created = [i \in Screens |-> {}]
    /\ last = [i \in Screens |-> NoText] /\ writer = [e \in Ids |-> 0]

-----------------------------------------------------------------------------
(* The main thread *)

Queue(op, t) == [tasks EXCEPT ![inst] = Append(@, [op |-> op, text |-> t])]

\* onCreate: the connection is set up by the executor's first task.
Creates(root) ==
    /\ inst < MaxScreens /\ inst' = inst + 1
    /\ entryId' = [entryId EXCEPT ![inst + 1] = intent'.id]
    /\ opening' = [opening EXCEPT ![inst + 1] = root]
    /\ saving' = FALSE

Connect == [op |-> "connect", text |-> NoText]

\* openEditor, with an entry of the list or a new one.
Opens ==
    /\ ~open /\ open' = TRUE
    /\ \/ \E id \in DOMAIN shown : intent' = [id |-> id, text |-> shown[id]]
       \/ intent' = [id |-> NewEntry, text |-> Empty]
    /\ Creates(inst + 1)
    /\ tasks' = [tasks EXCEPT ![inst + 1] = <<Connect>>]
    /\ text' = intent'.text /\ timer' = FALSE
    /\ UNCHANGED <<users, entries, seq, shown, reload, conn, posts, typed,
                   created, last, writer>>

\* onDestroy and onCreate with the same Intent.  The field's text is restored
\* after the TextWatcher was added, so it counts as a change.
Rebuilt ==
    /\ Recreates /\ open
    /\ UNCHANGED <<open, intent, text>>
    /\ Creates(opening[inst])
    /\ tasks' = [Queue("disconnect", NoText) EXCEPT ![inst + 1] = <<Connect>>]
    /\ timer' = TRUE
    /\ UNCHANGED <<users, entries, seq, shown, reload, conn, posts, typed,
                   created, last, writer>>

\* afterTextChanged: the timer starts again.
Types ==
    /\ open /\ typed < MaxTyped /\ typed' = typed + 1
    /\ text' \in Data \ {text}
    /\ timer' = TRUE
    /\ UNCHANGED <<users, entries, seq, shown, reload, open, inst, intent,
                   saving, conn, entryId, tasks, posts, historyVars>>

BadSkipped ==    \* the test of saveAndClose, with the text of the Intent
    conn[inst] = "none" \/ saving \/ text \in {Empty, intent.text}

\* Does save() return at once?
Skipped == conn[inst] = "none" \/ saving \/ text = Empty

\* save: two seconds without a change.  When it is skipped nothing tries again.
Autosaves ==
    /\ open /\ timer /\ timer' = FALSE
    /\ \/ Skipped /\ UNCHANGED <<tasks, saving, last>>
       \/ /\ ~Skipped
          /\ tasks' = Queue("save", text) /\ last' = [last EXCEPT ![inst] = text]
          /\ saving' = TRUE
    /\ UNCHANGED <<users, entries, seq, shown, reload, open, inst, intent,
                   text, conn, entryId, posts, typed, opening, created, writer>>

\* finish, onDestroy, and onActivityResult in MainActivity.  The fields of the
\* object are of no further use, but for those its tasks read.
Finishes ==
    /\ open' = FALSE /\ timer' = FALSE /\ reload' = TRUE
    /\ text' = Empty /\ saving' = FALSE
    /\ tasks' = Queue("disconnect", NoText)

\* saveAndClose: neither the timer's save nor a second press is waited for.
Back ==
    /\ open /\ Len(tasks[inst]) + Len(posts) < MaxTasks
    /\ \/ /\ conn[inst] = "none" \/ text = Empty \/ text = intent.text
          /\ Finishes
          /\ UNCHANGED last
       \/ /\ conn[inst] # "none" /\ text # Empty /\ text # intent.text
          /\ tasks' = Queue("close", text) /\ last' = [last EXCEPT ![inst] = text]
          /\ saving' = TRUE /\ timer' = FALSE
          /\ UNCHANGED <<open, reload, text>>
    /\ UNCHANGED <<users, entries, seq, shown, inst, intent, conn,
                   entryId, posts, typed, opening, created, writer>>

BadPosted ==    \* saving is reset by the save that succeeds only
    /\ posts # <<>> /\ posts' = Tail(posts)
    /\ LET p == Head(posts) IN
       \/ p.inst = inst /\ open /\ p.op = "finish" /\ Finishes
       \/ /\ p.inst # inst \/ ~open \/ p.op # "finish"
          /\ saving' = IF p.inst = inst /\ p.op = "saved" THEN FALSE ELSE saving
          /\ UNCHANGED <<open, timer, reload, text, tasks>>
    /\ UNCHANGED <<users, entries, seq, shown, inst, intent, conn, entryId,
                   typed, historyVars>>

\* The main thread runs what an executor has posted; an object that is gone
\* takes no notice.
Posted ==
    /\ posts # <<>> /\ posts' = Tail(posts)
    /\ LET p == Head(posts) IN
       \/ p.inst = inst /\ open /\ p.op = "finish" /\ Finishes
       \/ /\ p.inst # inst \/ ~open \/ p.op # "finish"
          /\ saving' = IF p.inst = inst /\ p.op # "finish" THEN FALSE ELSE saving
          /\ UNCHANGED <<open, timer, reload, text, tasks>>
    /\ UNCHANGED <<users, entries, seq, shown, inst, intent, conn, entryId,
                   typed, historyVars>>

\* The list is loaded again after the editor has closed.  A load that fails is a
\* step that never comes: the list stays as it is and an editor can be opened
\* from it (AndroidMain has MainActivity's own steps).
ListLoads ==
    /\ reload /\ reload' = FALSE
    /\ \E kept \in SUBSET Ids :
         /\ GetRows(Me, kept)
         /\ shown' = [i \in kept |-> entries[i].data]
    /\ UNCHANGED <<users, entries, seq, open, inst, intent, text, timer,
                   saving, conn, entryId, tasks, posts, typed, historyVars>>

-----------------------------------------------------------------------------
(* The executors *)

BadReady(i) == DOMAIN tasks[i]    \* a pool of threads

\* The positions of the tasks that may run next: there is one thread.
Ready(i) == IF tasks[i] = <<>> THEN {} ELSE {1}

BadAdopts(i, result) == UNCHANGED entryId    \* the new id is not kept

\* entryId = conn.postEntry(text).
Adopts(i, result) == entryId' = [entryId EXCEPT ![i] = result]

\* POST or UPDATE as the server executes it; a new id is counted.
Executes(i, t, result) ==
    /\ writer' = [e \in Ids |-> IF e = result THEN i ELSE writer[e]]
    /\ \/ /\ entryId[i] = NewEntry
          /\ \E ts \in Stamps : storage_add_entry(Me, t, ts, result)
          /\ created' = IF result > 0
                        THEN [created EXCEPT ![i] = @ \cup {result}]
                        ELSE created
       \/ /\ entryId[i] # NewEntry
          /\ \E rc \in {0, -1} : /\ storage_update_entry(Me, entryId[i], t, rc)
                                 /\ result = IF rc = 0 THEN entryId[i] ELSE -1
          /\ UNCHANGED created

BadSucceeds(i, t) ==    \* the response is not compared with OK
    /\ conn[i] = "open"
    /\ \E result \in -1..MaxId : Executes(i, t, result) /\ Adopts(i, result)
    /\ UNCHANGED <<conn, last>>

Succeeds(i, t) ==
    /\ conn[i] = "open"
    /\ \E result \in Ids : Executes(i, t, result) /\ Adopts(i, result)
    /\ UNCHANGED <<conn, last>>

IsSave(task) == task.op \in {"save", "close"}

\* The saves that an object has queued.
Waiting(i) == {k \in DOMAIN tasks[i] : IsSave(tasks[i][k])}

\* The server refuses; the connection breaks before or after the command is
\* executed; or there is none.
FailsToSave(i, t) ==
    /\ \/ /\ conn[i] = "open" /\ Executes(i, t, -1) /\ UNCHANGED conn
       \/ /\ conn[i] = "open" /\ conn' = [conn EXCEPT ![i] = "dead"]
          /\ \/ \E result \in Ids : Executes(i, t, result)
             \/ UNCHANGED <<storageVars, created, writer>>
       \/ /\ conn[i] = "dead"
          /\ UNCHANGED <<storageVars, created, writer, conn>>
    /\ UNCHANGED entryId
    /\ last' = IF Cardinality(Waiting(i)) = 1 THEN [last EXCEPT ![i] = NoText] ELSE last

Posts(i, op) == posts' = Append(posts, [inst |-> i, op |-> op])

\* The lambda of save(): no backup is written.
RunsSave(i, task) ==
    /\ task.op = "save"
    /\ \/ Succeeds(i, task.text) /\ Posts(i, "saved")
       \/ FailsToSave(i, task.text) /\ Posts(i, "failed")

\* The lambda of saveAndClose(): a backup is written first, and the screen closes
\* either way.
RunsClose(i, task) ==
    /\ task.op = "close"
    /\ Succeeds(i, task.text) \/ FailsToSave(i, task.text)
    /\ Posts(i, "finish")

\* The object is assigned before connect() is called: from here on the main
\* thread queues saves.
Makes(i) ==
    /\ tasks[i] # <<>> /\ Head(tasks[i]).op = "connect" /\ conn[i] = "none"
    /\ conn' = [conn EXCEPT ![i] = "made"]
    /\ UNCHANGED <<storageVars, entryId, posts, tasks, mainVars, historyVars>>

\* connect() returns; after a failure the object cannot be used.
RunsConnect(i, task) ==
    /\ task.op = "connect" /\ conn[i] = "made"
    /\ \E c \in {"open", "dead"} : conn' = [conn EXCEPT ![i] = c]
    /\ UNCHANGED <<storageVars, entryId, posts, created, last, writer>>

RunsDisconnect(i, task) ==
    /\ task.op = "disconnect"
    /\ conn' = [conn EXCEPT ![i] = "dead"]
    /\ UNCHANGED <<storageVars, entryId, posts, created, last, writer>>

RunsTask(i) ==
    \E k \in Ready(i) :
        /\ LET task == tasks[i][k] IN
             \/ RunsSave(i, task) \/ RunsClose(i, task)
             \/ RunsConnect(i, task) \/ RunsDisconnect(i, task)
        /\ tasks' = [tasks EXCEPT ![i] = RemoveAt(@, k)]
        /\ UNCHANGED <<mainVars, opening>>

Runs(i) == Makes(i) \/ RunsTask(i)

EntryNext ==
    \/ Opens \/ Rebuilt \/ Types \/ Autosaves \/ Back \/ Posted
    \/ ListLoads
    \/ \E i \in Screens : Runs(i)

EntrySpec == EntryInit /\ [][EntryNext]_entryVars

\* Both threads take what is in their queues, timers fire, and every call to
\* the server ends, with an answer or with an exception.
FairEntrySpec ==
    /\ EntrySpec
    /\ WF_entryVars(Autosaves) /\ WF_entryVars(Posted)
    /\ \A i \in Screens : WF_entryVars(Runs(i))

-----------------------------------------------------------------------------
(* Properties *)

Tasks == [op : {"connect", "save", "close", "disconnect"},
          text : Data \cup {NoText}]

Conns == {"none", "made", "open", "dead"}

\* Every variable stays within the values its field can hold.
EntryTypeOK ==
    /\ StorageTypeOK
    /\ DOMAIN shown \subseteq Ids /\ \A i \in DOMAIN shown : shown[i] \in Data
    /\ reload \in BOOLEAN /\ open \in BOOLEAN /\ inst \in 0..MaxScreens
    /\ intent \in [id : 0..MaxId, text : Data] /\ text \in Data
    /\ timer \in BOOLEAN /\ saving \in BOOLEAN
    /\ conn \in [Screens -> Conns]
    /\ entryId \in [Screens -> 0..MaxId]
    /\ tasks \in [Screens -> Seq(Tasks)]
    /\ posts \in Seq([inst : Screens, op : {"saved", "failed", "finish"}])

\* One EntryActivity adds at most one entry, although the timer's save and that of
\* Back may both be queued before either has an id, and may go on after the
\* screen has closed or was rebuilt (EntryActivity.java:97-98 and 183-184).
OneEntryPerScreen == \A i \in Screens : Cardinality(created[i]) <= 1

\* RELEASE_NOTES.md:37, "Create and edit entries with autosave": from the user's
\* side one opening of the editor is one entry, however often it is rebuilt.
OneEntryPerOpening ==
    \A i \in Screens :
        Cardinality(UNION {created[j] : j \in {k \in Screens : opening[k] = i}}) <= 1

\* When none of its saves is waiting and the last one it queued has not failed, an
\* object has left that one's text under its id, never that of an earlier save,
\* unless another object wrote the entry since.  It holds for the objects whose
\* screen is gone or was rebuilt as well (EntryActivity.java:25, 67-73, 97-98 and
\* 181-182).
LastSaveWins ==
    \A i \in Screens : last[i] # NoText /\ Waiting(i) = {} =>
        /\ entryId[i] \in Own(Me)
        /\ writer[entryId[i]] = i => entries[entryId[i]].data = last[i]

\* RELEASE_NOTES.md:37, "Create and edit entries with autosave": what a newer
\* screen has saved is not overwritten by a save of an older one, whose executor
\* may still have some to do (EntryActivity.java:94).
NewerScreenWins == [][\A e \in Ids : writer'[e] >= writer[e]]_entryVars

\* The saving flag, which silences the autosave, is always lifted again while
\* the screen is there (EntryActivity.java:173 and 185-193).
SavingEnds == saving ~> (~saving \/ ~open)

Stored == IF entryId[inst] \in Own(Me) THEN entries[entryId[inst]].data ELSE NoText

\* A change that is waiting for its timer while no save is under way reaches the
\* server, whatever the text was before, or the user is told that the save has
\* failed (EntryActivity.java:56-61, 172-195).
IdleChangeIsSaved ==
    \A t \in Data \ {Empty} :
        (open /\ timer /\ ~saving /\ text = t /\ conn[inst] = "open")
            ~> (\/ ~open \/ text # t \/ conn[inst] # "open" \/ Stored = t
                \/ Contains(posts, [inst |-> inst, op |-> "failed"]))

\* RELEASE_NOTES.md:39, "saves 2 s after you stop typing": whatever is in the
\* field is on the server in the end, while the connection holds.
TypedIsSaved ==
    \A t \in Data \ {Empty} :
        (open /\ text = t /\ conn[inst] = "open")
            ~> (~open \/ text # t \/ conn[inst] # "open" \/ Stored = t)

\* RELEASE_NOTES.md:41, "Local TXT backup of entries before each server sync":
\* what changes the server is a task that writes a backup.
BackedUpBeforeSync ==
    [][entries' # entries =>
         \E i \in Screens : /\ Len(tasks'[i]) < Len(tasks[i])
                            /\ Head(tasks[i]).op = "close"]_entryVars

\* RELEASE_NOTES.md:42, "Entries reload automatically when returning from the
\* editor": the list that is then shown is what the editor has left behind.
ReturnShowsEdits == ~open /\ ~reload => shown = Mine
=============================================================================
