------------------------------- MODULE Editor -------------------------------
(***************************************************************************)
(* screen_editor() of client/ui.c: the buffer, the dirty flag, the backup  *)
(* files and the save that Ctrl+S, F2, Ctrl+W and the autosave share; with *)
(* the parts of screen_list() that open the editor and come back from it.  *)
(*                                                                         *)
(* The calls to net.c have the outcomes that DiaryService allows, and read *)
(* the connection as net.c does: the next line is taken for the answer.    *)
(* Other clients of the same user work on the same entries meanwhile.  A   *)
(* text is a number: what it says does not matter, only which text it is.  *)
(* One user's entries are all that is looked at.                           *)
(***************************************************************************)
EXTENDS DiaryStorage, Sequences

CONSTANTS
    Me,         \* the user
    Unreadable, \* data that does not open with the user's key
    Blank,      \* an empty data column
    CouldNotDecrypt,    \* the text that is shown for an Unreadable one
    NoFile,     \* the backup file does not exist
    Torn,       \* what a death has made of a file: open, and empty
    NoCommand,  \* no command outlived its call
    Shared,     \* do other programs change the same user's entries?
    OtherData,  \* what they store
    MaxUnread   \* bound: a connection this many answers behind is not used

Texts == Data \ {Unreadable, Blank}

ASSUME MeAssumption      == Me \in Users
ASSUME DataAssumption    == {Unreadable, Blank} \subseteq Data
ASSUME TextsAssumption   == Texts \subseteq Nat /\ {0, CouldNotDecrypt} \subseteq Texts
ASSUME SharedAssumption  == Shared \in BOOLEAN
ASSUME OtherDataAssumption == OtherData \subseteq Data
ASSUME NoFileAssumption  == NoFile \notin Data /\ Torn \notin Data \cup {NoFile}
ASSUME MaxUnreadAssumption == MaxUnread \in Nat

Empty == 0              \* the empty buffer
NewEntry == 0           \* entry_id before the first save

VARIABLES
    screen,     \* "down" (no process), "list" or "editor"
    list,       \* what the list shows: id |-> text, as of the last GET; forgotten
                \* in the editor, because it is fetched again on the way back
    conn,       \* is the connection alive?
    unread,     \* the answers on it that no call has read, or not to the end
    entry_id,   \* the entry being edited; NewEntry if it has none yet
    buf,        \* the text in the buffer
    dirty,      \* 1 changed, 0 clean, -1 changed and warned about
    at,         \* "key" waits in wgetch; "backup" (the file is open), "call",
                \* "ok" and "failed" in a save
    new_id,     \* what the save's call will return, when at = "ok"
    files,      \* entry_id |-> the text of its backup file
    pending,    \* a save whose caller has given up on it
    typed       \* bound: the last text that was typed

(* History, read by the properties only. *)
VARIABLES
    created,    \* how many rows this editing session has added
    attempted,  \* entry_id |-> the text last sent from it and not confirmed, if any;
                \* Torn if a death has caught its file open
    tried,      \* has this session sent what is attempted for its entry_id?
    touched     \* ids that others have changed since the list was read

processVars == <<screen, list, conn, unread, entry_id, buf, dirty, at, new_id>>
historyVars == <<created, attempted, tried, touched>>
editorVars == <<users, entries, seq, screen, list, conn, unread, entry_id, buf,
                dirty, at, new_id, files, pending, typed,
                created, attempted, tried, touched>>

Nothing == [i \in {} |-> Empty]

EditorInit ==
    /\ users \in [Users -> Keys]
    /\ entries = [i \in Ids |-> NoRow]
    /\ seq = 0
    /\ screen = "down" /\ list = Nothing /\ conn = FALSE /\ unread = <<>>
    /\ entry_id = NewEntry /\ buf = Empty /\ dirty = 0
    /\ at = "key" /\ new_id = -1
    /\ files = [i \in 0..MaxId |-> NoFile]
    /\ pending = NoCommand
    /\ typed = 0
    /\ created = 0 /\ attempted = [i \in 0..MaxId |-> NoFile]
    /\ tried = FALSE /\ touched = {}

\* The editing session is over; its files stay.
Abandon ==
    /\ created' = 0 /\ tried' = FALSE
    /\ pending' = IF pending = NoCommand THEN pending
                  ELSE [pending EXCEPT !.mine = FALSE]

-----------------------------------------------------------------------------
(* The connection: answers carry no mark of the command they belong to.    *)

Fail      == [what |-> "fail"]
SavedAs(id) == [what |-> "saved", id |-> id]        \* "OK <id>", or "OK" if 0
List(rows)  == [what |-> "list", rows |-> rows]

\* n rows of a list whose header has been read.
Rows(n) == IF n = 0 THEN <<>> ELSE <<[what |-> "rows", n |-> n]>>

Answers ==
         [what : {"fail"}]
    \cup [what : {"saved"}, id : 0..MaxId]
    \cup [what : {"list"}, rows : UNION {[S -> Data] : S \in SUBSET Ids}]
    \cup [what : {"rows"}, n : Ids]

\* What is left of an answer when its first line has been read.
AfterLine(m) ==
    CASE m.what = "list" -> Rows(Cardinality(DOMAIN m.rows))
      [] m.what = "rows" -> Rows(m.n - 1)
      [] OTHER           -> <<>>

\* The text of a row as net_get_entries hands it over.
Opened(data) == IF data \in Texts THEN data ELSE CouldNotDecrypt

\* The rows after the first that cannot be taken apart.
AfterBlank(rows) ==
    Cardinality({i \in DOMAIN rows : \E j \in DOMAIN rows :
                                         j < i /\ rows[j] = Blank})

\* net_get_entries behind the header of a list: "left" is what it leaves of
\* the list if it fails half way.
GetsRows(rows, left) ==
    \/ /\ \A i \in DOMAIN rows : rows[i] # Blank
       /\ list' = [i \in DOMAIN rows |-> Opened(rows[i])]
       /\ left = <<>>
    \/ /\ \E i \in DOMAIN rows : rows[i] = Blank
       /\ list' = Nothing
       /\ left = Rows(AfterBlank(rows))
    \/ /\ Fails("client memory") /\ DOMAIN rows # {}
       /\ list' = Nothing
       /\ left = Rows(Cardinality(DOMAIN rows))

\* net_get_entries on a connection with the answers of "queue", its own last.
Gets(queue) ==
    \/ /\ Head(queue).what = "list"
       /\ \E left \in {<<>>} \cup {Rows(n) : n \in Ids} :
            /\ GetsRows(Head(queue).rows, left)
            /\ unread' = left \o Tail(queue)
    \/ /\ Head(queue).what # "list"
       /\ list' = Nothing
       /\ unread' = AfterLine(Head(queue)) \o Tail(queue)

\* What the server may answer to a GET.
GetAnswers ==
    {List([i \in kept |-> entries[i].data]) :
        kept \in {ids \in SUBSET Ids : GetRows(Me, ids)}}
    \cup {m \in {Fail} : Fails("memory")}

-----------------------------------------------------------------------------
(* The list *)

\* reload_entries: the list is emptied first, and stays so if GET fails.
Fetches ==
    /\ \/ /\ conn /\ Len(unread) <= MaxUnread
          /\ \E m \in GetAnswers : Gets(Append(unread, m))
       \/ ~conn /\ list' = Nothing /\ UNCHANGED unread
    /\ touched' = {}

\* The process starts on a connection of its own.
Starts ==
    /\ screen = "down"
    /\ screen' = "list" /\ conn' = TRUE
    /\ \E m \in GetAnswers : Gets(<<m>>)
    /\ touched' = {}
    /\ UNCHANGED <<users, entries, seq, entry_id, buf, dirty, at, new_id,
                   files, pending, typed, created, attempted, tried>>

Reload ==
    /\ screen = "list"
    /\ Fetches
    /\ UNCHANGED <<users, entries, seq, screen, conn, entry_id, buf, dirty, at,
                   new_id, files, pending, typed, created, attempted, tried>>

Opens(id, text) ==
    /\ screen = "list"
    /\ screen' = "editor"
    /\ entry_id' = id /\ buf' = text /\ dirty' = 0
    /\ list' = Nothing
    /\ UNCHANGED <<users, entries, seq, conn, unread, at, new_id, files,
                   pending, typed, historyVars>>

New == Opens(NewEntry, Empty)

\* The buffer starts with the text of the list, however old that is.
Edit == \E id \in DOMAIN list : Opens(id, list[id])

-----------------------------------------------------------------------------
(* The editor *)

WaitsForKey == screen = "editor" /\ at = "key"

\* Any key that changes the buffer; the text it leaves is a new one.
Type ==
    /\ WaitsForKey
    /\ typed + 1 \in Texts \ {CouldNotDecrypt}
    /\ typed' = typed + 1
    /\ buf' = typed + 1
    /\ dirty' = 1
    /\ UNCHANGED <<users, entries, seq, screen, list, conn, unread, entry_id, at,
                   new_id, files, pending, historyVars>>

\* The editor returns and the list is fetched again.
Leave ==
    /\ screen' = "list"
    /\ entry_id' = NewEntry /\ buf' = Empty /\ dirty' = 0
    /\ Fetches
    /\ Abandon
    /\ UNCHANGED <<users, entries, seq, conn, at, new_id, files, typed,
                   attempted>>

\* realloc fails on an insertion: the loop is left and the text with it.
OutOfMemory == WaitsForKey /\ Fails("client memory") /\ Leave

\* The test is if (dirty): a buffer that was warned about, -1, is warned about
\* again.
Esc ==
    /\ WaitsForKey
    /\ \/ /\ dirty # 0 /\ dirty' = -1
          /\ UNCHANGED <<users, entries, seq, screen, list, conn, unread, entry_id,
                         buf, at, new_id, files, pending, typed, historyVars>>
       \/ dirty = 0 /\ Leave

\* The call of net.c starts; what is on disk by now is all there will be.
Sends ==
    /\ at' = "call"
    /\ attempted' = [attempted EXCEPT ![entry_id] = buf]
    /\ tried' = TRUE

BadSave ==    \* the backup is taken only of entries that have an id
    /\ WaitsForKey
    /\ dirty # 0 \/ entry_id = NewEntry
    /\ \/ /\ entry_id # NewEntry
          /\ files' = [files EXCEPT ![entry_id] = Empty]
          /\ at' = "backup"
          /\ UNCHANGED <<attempted, tried>>
       \/ entry_id = NewEntry /\ Sends /\ UNCHANGED files
    /\ UNCHANGED <<users, entries, seq, screen, list, conn, unread, entry_id, buf,
                   dirty, new_id, pending, typed, created, touched>>

\* A save opens the backup file, which empties it; a clean entry that has an id
\* is not saved again, a clean new one is.  If the file cannot be opened the
\* save goes on without it.
Save ==
    /\ WaitsForKey
    /\ dirty # 0 \/ entry_id = NewEntry
    /\ \/ /\ files' = [files EXCEPT ![entry_id] = Empty]
          /\ at' = "backup"
          /\ UNCHANGED <<attempted, tried>>
       \/ Fails("client disk") /\ Sends /\ UNCHANGED files
    /\ UNCHANGED <<users, entries, seq, screen, list, conn, unread, entry_id, buf,
                   dirty, new_id, pending, typed, created, touched>>

\* Then the text is written to the file, or what of it fits on the disk (Empty
\* stands for that), and the file is closed.
WritesBackup ==
    /\ at = "backup"
    /\ \/ files' = [files EXCEPT ![entry_id] = buf]
       \/ Fails("client disk") /\ UNCHANGED files
    /\ Sends
    /\ UNCHANGED <<users, entries, seq, screen, list, conn, unread, entry_id, buf,
                   dirty, new_id, pending, typed, created, touched>>

BadAutosave == dirty = 1 /\ Save    \* a warning stops the autosave

\* wgetch returns ERR after AUTOSAVE_MS without a key.
Autosave == dirty # 0 /\ Save

\* POST or UPDATE of a text as the server executes it, with the id that the
\* function returns for it.
Executes(id, text, result) ==
    \/ /\ id = NewEntry
       /\ \E ts \in Stamps : storage_add_entry(Me, text, ts, result)
    \/ /\ id # NewEntry
       /\ \E rc \in {0, -1} :
            /\ storage_update_entry(Me, id, text, rc)
            /\ result = IF rc = 0 THEN id ELSE -1

\* The answer to that, and the id that the function returns when it takes m
\* for its answer.
AnswerTo(id, result) ==
    IF result < 0 THEN Fail ELSE SavedAs(IF id = NewEntry THEN result ELSE 0)

TakenAs(id, m) ==
    IF m.what = "saved" /\ (id = NewEntry <=> m.id > 0)
    THEN IF id = NewEntry THEN m.id ELSE id
    ELSE -1

\* The server executes the command, and the call reads a line.
Served ==
    /\ screen = "editor" /\ at = "call" /\ conn /\ Len(unread) <= MaxUnread
    /\ \E result \in -1..MaxId :
         LET queue == Append(unread, AnswerTo(entry_id, result))
         IN  /\ Executes(entry_id, buf, result)
             /\ new_id' = TakenAs(entry_id, Head(queue))
             /\ unread' = AfterLine(Head(queue)) \o Tail(queue)
             /\ created' = IF entry_id = NewEntry /\ result > 0
                           THEN created + 1 ELSE created
    /\ at' = IF new_id' > 0 THEN "ok" ELSE "failed"
    /\ touched' = IF at' = "ok" THEN touched \ {entry_id} ELSE touched
    /\ UNCHANGED <<users, screen, list, conn, entry_id, buf, dirty, files,
                   pending, typed, attempted, tried>>

BadSaved ==    \* the assigned id is not adopted
    /\ at = "ok"
    /\ files' = [files EXCEPT ![entry_id] = NoFile]
    /\ attempted' = [attempted EXCEPT ![entry_id] = NoFile]
    /\ tried' = FALSE
    /\ dirty' = 0
    /\ at' = "key" /\ new_id' = -1
    /\ UNCHANGED <<users, entries, seq, screen, list, conn, unread, entry_id, buf,
                   pending, typed, created, touched>>

Saved ==
    /\ at = "ok"
    /\ files' = [files EXCEPT ![entry_id] = NoFile]
    /\ attempted' = [attempted EXCEPT ![entry_id] = NoFile]
    /\ tried' = FALSE
    /\ entry_id' = IF entry_id = NewEntry THEN new_id ELSE entry_id
    /\ dirty' = 0
    /\ at' = "key" /\ new_id' = -1
    /\ UNCHANGED <<users, entries, seq, screen, list, conn, unread, buf, pending,
                   typed, created, touched>>

BadSaveFailedAdopts ==    \* the result is adopted without looking at it
    /\ at = "failed" \/ (at = "call" /\ ~conn)
    /\ at' = "key" /\ new_id' = -1
    /\ entry_id' = IF entry_id = NewEntry THEN new_id ELSE entry_id
    /\ UNCHANGED <<users, entries, seq, screen, list, conn, unread, buf, dirty,
                   files, pending, typed, historyVars>>

BadSaveFailed ==    \* dirty is cleared on both paths
    /\ at = "failed" \/ (at = "call" /\ ~conn)
    /\ at' = "key" /\ new_id' = -1
    /\ dirty' = 0
    /\ UNCHANGED <<users, entries, seq, screen, list, conn, unread, entry_id, buf,
                   files, pending, typed, historyVars>>

\* The server said FAIL, or what was read is no success, or the connection is
\* dead: the buffer stays dirty and the backup stays on disk.
SaveFailed ==
    /\ at = "failed" \/ (at = "call" /\ ~conn)
    /\ at' = "key" /\ new_id' = -1
    /\ UNCHANGED <<users, entries, seq, screen, list, conn, unread, entry_id, buf,
                   dirty, files, pending, typed, historyVars>>

-----------------------------------------------------------------------------
(* Around the editor: the connection, the process, the other clients.      *)

\* A call that is cut off may leave its command with the server.
CutsOff ==
    IF screen = "editor" /\ at = "call" /\ conn /\ pending = NoCommand
    THEN \/ UNCHANGED pending
         \/ pending' = [id |-> entry_id, text |-> buf, mine |-> TRUE]
    ELSE UNCHANGED pending

\* The connection breaks; a call under way gets no answer.
LosesConnection ==
    /\ conn /\ conn' = FALSE
    /\ CutsOff
    /\ at' = IF at \in {"key", "backup"} THEN at ELSE "failed"
    /\ new_id' = -1
    /\ UNCHANGED <<users, entries, seq, screen, list, unread, entry_id, buf, dirty,
                   files, typed, historyVars>>

\* The process is killed; only the files are left.
Dies ==
    /\ screen # "down"
    /\ screen' = "down" /\ conn' = FALSE /\ list' = Nothing /\ unread' = <<>>
    /\ entry_id' = NewEntry /\ buf' = Empty /\ dirty' = 0
    /\ at' = "key" /\ new_id' = -1
    /\ created' = 0 /\ tried' = FALSE /\ touched' = {}
    /\ attempted' = [attempted EXCEPT ![entry_id] =
                        IF at = "backup" /\ @ # NoFile THEN Torn ELSE @]
    /\ \/ pending' = IF pending = NoCommand THEN pending
                     ELSE [pending EXCEPT !.mine = FALSE]
       \/ /\ at = "call" /\ conn /\ pending = NoCommand
          /\ pending' = [id |-> entry_id, text |-> buf, mine |-> FALSE]
    /\ UNCHANGED <<users, entries, seq, files, typed>>

\* The command left with the server runs after all, or is dropped.
PendingEnds ==
    /\ pending # NoCommand
    /\ \E result \in -1..MaxId :
         /\ Executes(pending.id, pending.text, result)
         /\ created' = IF pending.mine /\ pending.id = NewEntry /\ result > 0
                       THEN created + 1 ELSE created
         /\ touched' = IF result > 0 THEN touched \cup {result} ELSE touched
    /\ pending' = NoCommand
    /\ UNCHANGED <<users, processVars, files, typed, attempted, tried>>

PendingDropped ==
    /\ pending # NoCommand /\ pending' = NoCommand
    /\ UNCHANGED <<users, entries, seq, processVars, files, typed, historyVars>>

\* Another client of the same user edits or deletes an entry, or some other
\* program stores what no client can read.
Elsewhere ==
    /\ Shared
    /\ \E id \in Own(Me) :
         /\ \/ storage_delete_entry(Me, id, 0)
            \/ \E data \in OtherData :
                 storage_update_entry(Me, id, data, 0)
         /\ touched' = touched \cup {id}
    /\ UNCHANGED <<processVars, files, pending, typed,
                   created, attempted, tried>>

EditorStep ==
    \/ Type \/ OutOfMemory \/ Esc
    \/ Save \/ WritesBackup \/ Served \/ Saved \/ SaveFailed

EditorNext ==
    \/ Starts \/ Reload \/ New \/ Edit
    \/ EditorStep
    \/ LosesConnection \/ Dies \/ PendingEnds \/ PendingDropped \/ Elsewhere

EditorSpec == EditorInit /\ [][EditorNext]_editorVars

\* wgetch times out when nobody types; a call that is answered returns; and a
\* save that is tried again and again does not fail on the server every time.
FairEditorSpec ==
    /\ EditorSpec
    /\ WF_editorVars(Autosave)
    /\ WF_editorVars(WritesBackup \/ Served \/ Saved \/ SaveFailed)
    /\ SF_editorVars(Served /\ at' = "ok")

\* In addition the user presses ESC again and again: a key that is waiting is
\* read before any timeout.
ImpatientEditorSpec == FairEditorSpec /\ SF_editorVars(Esc)

-----------------------------------------------------------------------------
(* Properties *)

\* Every variable stays within the values its C counterpart can hold.
EditorTypeOK ==
    /\ StorageTypeOK
    /\ screen \in {"down", "list", "editor"}
    /\ DOMAIN list \subseteq Ids /\ \A i \in DOMAIN list : list[i] \in Texts
    /\ conn \in BOOLEAN /\ unread \in Seq(Answers)
    /\ entry_id \in 0..MaxId /\ buf \in Texts /\ dirty \in {-1, 0, 1}
    /\ at \in {"key", "backup", "call", "ok", "failed"} /\ new_id \in -1..MaxId
    /\ files \in [0..MaxId -> Texts \cup {NoFile}]
    /\ pending \in {NoCommand} \cup
                   [id : 0..MaxId, text : Texts, mine : BOOLEAN]
    /\ typed \in Texts
    /\ attempted \in [0..MaxId -> Texts \cup {NoFile, Torn}]

\* Is every answer that has arrived the answer to the last command?  A list
\* that failed half way ends this for the rest of the process's life
\* (net.c:76, 86; ui.c:424).
InStep == unread = <<>>

\* The text that was last sent from a file's entry and never confirmed is in
\* that file, in this editing session and after it, after failed saves, cut
\* connections and deaths, except where a death has caught the file open
\* (client/architecture.md:143-145, ui.c:318-330).
BackupCoversSave ==
    \A f \in 0..MaxId :
        (attempted[f] \notin {NoFile, Torn} /\ ~(at = "backup" /\ f = entry_id))
            => files[f] = attempted[f]

\* A clean buffer is what the server has: the entry exists and opens to
\* exactly this text unless someone else has changed it since (ui.c:328-333).
CleanMeansStored ==
    (/\ InStep /\ WaitsForKey /\ dirty = 0 /\ entry_id # NewEntry
     /\ entry_id \notin touched)
        => /\ entry_id \in Own(Me)
           /\ Opened(entries[entry_id].data) = buf

\* One editing session adds at most one entry, however many of its saves fail,
\* are cut off or are executed late, on a connection in step
\* (client/architecture.md:126-129).
OneEntryPerSession == InStep => created <= 1

\* Text that has been typed is saved without a further key, as long as the
\* connection holds and is in step, nobody else has changed or deleted the
\* entry, and the table has ids left: a save that fails is tried again
\* (ui.c:306-310).
AutosaveSaves ==
    dirty # 0 ~> \/ dirty = 0 \/ ~conn \/ ~InStep \/ screen # "editor"
                 \/ entry_id \in touched \/ seq = MaxId

\* client/architecture.md:147, "Leaving with unsaved changes takes a second
\* ESC after a warning": who is warned and presses ESC again gets out.
EscLeaves == dirty = -1 ~> screen # "editor"

\* client/architecture.md:145, "If a save fails or the client dies
\* mid-session, the plaintext survives on disk": no later session writes over
\* or removes the backup that is the only copy.
BackupSurvives ==
    [][\A f \in 0..MaxId :
        (attempted[f] # NoFile /\ ~(f = entry_id /\ tried))
            => files'[f] = files[f]]_editorVars

\* The same sentence: after a death every unconfirmed text is on disk.
DeathKeepsBackup ==
    screen = "down" =>
        \A f \in 0..MaxId : attempted[f] # NoFile => files[f] = attempted[f]

\* client/architecture.md:127-129, "later saves in the same session become
\* UPDATEs instead of duplicate POSTs": whatever state the connection is in.
SavesNeverDuplicate == created <= 1
=============================================================================
