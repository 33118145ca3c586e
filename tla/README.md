# A verification project for diary

TLA+ models of the diary system (an end-to-end encrypted diary: a server, a
terminal client and an Android client), the TLC configurations that check them
on small instances, and TLAPS proofs of what holds for every instance. The
source is the reference throughout: a definition is translated from the code it
names in `PROJECT.json` (`map`), never from a document; the documents, comments
and tests are used as *claims*, and section 7 lists the ones the code does not
keep.

Contents: [the system](#1-the-system) · [modules](#2-modules-and-the-code) ·
[runs](#3-the-runs) · [bounds](#4-bounds) · [fairness](#5-fairness) ·
[proofs](#6-what-is-proved) · [findings](#7-findings) ·
[abstractions](#8-abstractions) · [not modelled](#9-not-modelled).

## 1. The system

| part | source | state it keeps | operations |
|---|---|---|---|
| storage | `server/storage.c` | tables `users` and `entries`, the AUTOINCREMENT counter | `storage_init`, `_user_exists`, `_register_user`, `_add_entry`, `_get_entries`, `_update_entry`, `_delete_entry` |
| connection handler | `server/client_handler.c` | one forked child per connection: where it stands in `diary_handle`, the authenticated identity | greeting, REGISTER, POST, GET, UPDATE, DELETE, QUIT, everything else |
| server process | `server/main.c` | the one identity it was started for | start, accept and fork, restart with another key file |
| protocol library | `ForgeProtocol`, an empty submodule | the socket, line framing, authentication | `proto_serve`, `proto_connect`, `proto_send_line`, `proto_recv_line(_dyn)`, `proto_close` |
| network client | `client/net.c` | the connection of the process, nothing else | `net_post_entry`, `net_update_entry`, `net_delete_entry`, `net_get_entries` |
| client process | `client/main.c` | options, key | connect, one-shot post or `ui_run`, close |
| editor | `client/ui.c`, `screen_editor` | buffer and allocation, cursor, view, `dirty` flag (1, 0, -1), `entry_id`, backup file | edit, move, save, autosave, ESC |
| backup files | `client/ui.c:108-126` | one file per entry id, one for all new entries | write, remove |
| list and viewer | `client/ui.c`, `screen_list`, `screen_view` | the array of the last GET, selection, scroll; a text and its first row | open, edit, delete, reload, move, resize |
| text layout | `client/ui.c:27-105` | none: pure functions over UTF-8 | `u8_is_cont`, `u8_char_len`, `get_vpos`, `vpos_to_idx` |
| Android entry screen | `EntryActivity.java` | text field, debounce timer, `saving`, `entryId`; per object an executor and a connection | load, type, autosave, Back, rotation |
| Android list screen | `MainActivity.java` | the list, dialogs, status line; an executor and its posts | connect, reload, edit, long press, delete |
| Android connection | `DiaryConnection.java` | the connection | the four calls of `net.c`, with exceptions |

How they interact. `main.c` accepts a connection, the protocol library
authenticates the peer by its Ed25519 key and forks; the child runs
`diary_handle`, which opens the database for itself. Children share nothing but
the SQLite file, and one SQL statement is the unit of atomicity between them:
the code opens no transaction. On the wire a client sends one line and reads one
line (or a header and that many rows) back; there are no request ids and no
timeouts, so *which answer belongs to which command* is decided by counting
alone. The terminal client is a single thread: the editor calls `net.c` and
blocks. Each Android screen has a UI thread, which owns the views, and an
executor thread, which owns the connection; they exchange tasks and posts.

What is hard here, and what makes each part correct:

* **Check, then act, in separate statements** (`client_handler.c:38-65`).
  Children of the same identity race on REGISTER, a failed SELECT looks like an
  unknown user, a failed INSERT must end the session. Correct means: the loop is
  entered only for a committed user (`SessionRegistered`), every entry has a
  registered owner although no foreign key says so (`OwnersRegistered`), and a
  key to which entries are sealed is never replaced (`KeyWriteOnce`).
* **Ids that outlive what they name.** Answers are delayed or left unread while
  other sessions delete and add. Correct means: an id in an answer never comes
  to mean another entry (`LateRepliesHold`, `IdNamesOneEntry`), and no session
  touches a row of another identity (`OwnerOnly`).
* **Death and loss between a commit and its answer.** Correct means: a call
  takes effect at most once, and a success it reports is real
  (`ImplementsService`).
* **Counting answers.** Correct means: a client that is not waiting has nothing
  under way (`AnswersInStep`). It holds under conditions only, which the theorem
  names and the first finding breaks.
* **No timeouts anywhere.** Correct means: a call returns and a child ends if
  the two processes run and a broken connection is reported (`CallReturns`,
  `ChildrenEnd`).
* **An editor that saves by itself over a connection that breaks.** Correct
  means: the text of an unconfirmed save is on disk (`BackupCoversSave`), a
  clean buffer is what the server has (`CleanMeansStored`), retries do not
  duplicate the entry (`OneEntryPerSession`), typed text gets saved
  (`AutosaveSaves`), and the user can leave (`EscLeaves`, which fails). The
  middle three hold on a connection that is in step: a list that failed half way
  and left rows behind ends them for the process (`MCEditorTwice`).
* **Byte offsets, rows and columns** that are converted into each other by five
  hand-written scans. Correct means: the text keeps whole characters
  (`TextIsWhole`), the cursor is on one of them and on the screen
  (`CursorOnBoundary`, `CursorOnScreen`), the scans are inverse to each other
  where the code relies on it (`PositionsRoundTrip`, `ArrowsMoveByRows`), the
  NUL written at a save has its byte (`RoomForNul`), and the viewer gets to the
  last row of every text (`EndIsReached`).
* **A list that is a snapshot, and perhaps a part of one.** The server drops rows
  above its cap, after a failed scan step and without memory, and says nothing.
  Correct means: the selection is a row of it and visible (`SelectionIsShown`),
  the rows are entries of the server until somebody writes (`ListIsCurrent`),
  and D deletes the entry that was highlighted (`OnlySelectedIsDeleted`). The
  first and the last fail after E returns to a shorter list.
* **Two threads and a timer on Android.** Correct means: saves queued by the
  timer and by Back add one entry (`OneEntryPerScreen`) and the last one of an
  object wins over its earlier ones (`LastSaveWins`); the `saving` flag never stays up (`SavingEnds`); nothing is
  deleted that was not confirmed (`OnlyConfirmedIsDeleted`); what was added
  before the editor returned is shown after it (`NewEntryIsShown`).

`PROJECT.json` lists the hazards at their lines, with the properties that cover
each or the reason why none does. Two that no model here can express are named
in section 8: a silent network, and ids beyond 2^31.

## 2. Modules and the code

```
DiaryStorage             storage.c
  ├─ DiaryServer         client_handler.c, main.c; any peer
  │    └─ Diary          + net.c, DiaryConnection.java, connection set-up
  │         ⊑ DiaryService     what net.h promises (abstract)
  ├─ DiaryService ── NetResults   (the values net.h returns; also for Diary)
  ├─ Editor              screen_editor: saving, over the outcomes of DiaryService
  ├─ ListScreen ── Viewer         screen_list and screen_view, one terminal
  ├─ AndroidEntry        EntryActivity.java
  └─ AndroidMain         MainActivity.java
TextLayout               the UTF-8 scans of ui.c
  ├─ EditorText          screen_editor: bytes, cursor, view
  └─ Viewer              screen_view
*Proofs                  theorems about the module of that name (DiaryProofs: of
                         DiaryServer too; ListProofs: of Viewer too)
StorageProofs, LayoutProofs   lemmas that several of them rest on
MC*                      instances for TLC
```

**DiaryStorage.** The tables are functions: `users[u]` is the user's key or
`NoKey`, `entries[i]` a row or `NoRow`, `seq` SQLite's `sqlite_sequence`. Each
exported function of `storage.c` is one operator of the same name whose last
parameter is the C function's result; it is true of the outcomes that call can
have. `Faults` names the calls of the environment that may fail in an instance:
`storage_user_exists` answers "no" when its SELECT errors, `storage_get_entries`
stops half way without a sign, an INSERT or UPDATE returns -1. The ids are
`1..MaxId`, and a full table refuses (SQLITE_FULL). `GetRows` is what an answer
to GET may bring: what the scan got to, less what `collect_entry` drops at
`MAX_ENTRIES` or without memory; the models of all clients use it.

**DiaryServer.** A slot of `Sessions` is a connection. `pc` is where its child
stands: `start` (before `storage_init`), `register` (waiting for REGISTER),
`loop` (waiting in `proto_recv_line_dyn`), `prompt`/`reply`/`last` (about to
write `out` and go on to `register`, `loop` or exit). A handler is two actions:
`HandlePost` and the like read the line and make the database call, `SendReply`
writes the answer, so the child can die, and others can run, in between.
`ChildDies` kills a child at any point, `Restart` gives the server a new
`allowed` identity while the old children live on. The peer is any program: it
may send up to the bound without waiting, read part of a GET's rows, or close.

**Diary.** `DiaryServer` with `client/net.c` as the peer of the slots in
`Callers`, or `DiaryConnection.java` for those in `JavaCallers`; the other slots
remain arbitrary programs. Each client action is a peer action of `DiaryServer`
conjoined with the client's control state `cli`. A call is `Call` (up to the
send) and `Return` (from the receive): `ResultOf` is the value the function
returns and `RowsLeft` the rows it leaves unread, which is where a client loses
count. `Malformed` says which row ends the loop of which client: one with an
empty data column that of `net.c`; one whose base64 is ill-padded
(`Undecodable`) that of `DiaryConnection.java`, because `Base64.decode` throws
and `getEntries` does not catch it. Clients are killed and connections break at
any time. The server is started once (`Restart` is left to `DiaryServer`).

**DiaryService.** The abstract specification: a call begins, takes effect on the
tables at one instant, and returns; a call that fails may have taken effect, or
leaves its command behind as an `orphan` that may still take effect once, later.
`Diary` implements it under the mapping `absCall`, `absOrphan`, which reads the
stage of a call off the connection: command unread, executed, lost.

**Editor.** `screen_editor` with the parts of `screen_list` that open it. `dirty`
has its three C values, `at` is where a save stands: waiting for a key, backup
file open and empty, call under way, answer positive, answer negative. A death
may fall between any two of them, or the disk fail. `Saved` and `SaveFailed` are
the two branches after the call. `files` are the backup files; `backup_path`
gives every new entry the same name, index 0 here. The calls have the outcomes
that `DiaryService` allows, among them the command that runs after its caller
gave up (`pending`), and read the next line of the connection as their answer,
whatever it is: `Gets` is `net_get_entries` with its two failures in the middle of
a list, and `unread` is what it leaves to `Served`. An entry that does not open
is edited as `CouldNotDecrypt`. `created`, `attempted`, `tried` and `touched` are
history variables that only properties read.

**TextLayout, EditorText.** A byte is a newline, the first byte of a character of
so many bytes, or a continuation byte. `Scan` is the loop that `get_vpos`,
`vpos_to_idx` and the drawing loops share, `After` its body. A step of `EditorText` is one round
of the editor's loop: a key, its branch, and the top of the loop that brings the
cursor back into view. A multi-byte character arrives byte by byte
(`KeyContinues`, `due`). `OtherKey` is the `isprint` of a key code above 255,
which C leaves undefined: `OddBytes` are the low bytes a library would accept.

**ListScreen, Viewer.** `list` are the ids in the order `net.c` sorts them;
`selected` and `scroll` as in the code, with the terminal's height free to
change in every round. `Reloads` frees the array first and leaves it empty when
the GET fails; one that succeeds brings `GetRows`, or, on a connection that is
`behind`, some list of the past. `Viewer` has the text, the number of rows counted once at the
start, and the size of the terminal asked for again in every round.

**AndroidEntry.** Every `EntryActivity` object has an executor (`tasks[i]`) and a
connection of its own, which outlive the screen; `posts` is the main thread's
queue. A rotation (`Rebuilt`) destroys the object and makes the next one with
the same Intent and the text of the field. `Autosaves` is the debounce timer's
`save()`, `Back` is `saveAndClose()`; the task of each runs later (`RunsSave`,
`RunsClose`), and what it posts later still (`Posted`). `conn` is assigned
(`Makes`) before `connect()` returns (`RunsConnect`). `last` and `writer` are
history: the text each object queued last, and who wrote each entry last.

**AndroidMain.** The list, the two dialogs with the *position* they were opened
for, the executor's queue and its posts. `OpensEditor` and `EditorReturns` bracket
an `EntryActivity`, whose executor adds entries meanwhile and afterwards
(`EditorSaves`). A load brings `GetRows`; a row that cannot be decoded makes it
fail and leaves the connection `behind`. A task that fails runs `connectAndLoad`
on the executor; `SetsStatus` is its write to a view from the wrong thread,
which `StrictViews` lets fail or pass.

The operators named `Bad...` are plausible bugs in the definition that follows
each of them. No specification uses them; each property is checked to fail when
the definition is replaced by its bug (`mutants`).

## 3. The runs

| run | instance | distinct states | what it shows |
|---|---|---|---|
| `server` | 2 identities, 2 keys, 2 connections, all faults | 2.4 M | `TypeOK`, `SessionRegistered`, `OwnersRegistered`, `OwnerOnly`, `KeyWriteOnce`, `LateRepliesHold`: neither races, nor failed statements, nor a restart under another identity give anyone a row that is not theirs, and answers stay true however late they are read |
| `diary_service` | 2 callers of one user, 2 ids, all server faults, deaths, broken connections | 117 k | `ImplementsService`, `AnswersInStep`, `IdNamesOneEntry` |
| `diary_liveness` | 1 caller that may run out of memory for its list, 1 program that deletes; fairness | 139 k | `CallReturns`, `ChildrenEnd`, even with answers out of step |
| `diary_java` | the Android client among rows another program stored, some foreign, some empty, none ill-padded | 454 k | `AnswersInStep`, `CorruptEntryHidesNothing`, `SuccessIsReal`: on the rows of `diary_out_of_step` the Android client keeps count. It has a row of its own that it stops at: `MCDiaryCorruptJava` |
| `editor` | 2 entries, 4 texts, failing saves, lists that fail half way, rows that do not open, deaths, a second client; fairness | 1.3 M | `EditorTypeOK`, `BackupCoversSave`, `CleanMeansStored`, `OneEntryPerSession`, `AutosaveSaves` |
| `editor_text` | every text of up to 6 bytes, 3 columns, 2 rows | 3.8 k | the seven properties of bytes, cursor and view |
| `list` | 3 entries on 2 dates, a cap of 2, terminals of 1 and 2 list rows, lists that fail or are cut short, a second client | 2.3 M | the selection, the rows and the delete; the viewer on texts of up to 4 characters |
| `android_entry` | 2 screens, 2 changes, failing saves, broken connections, rotation; fairness | 600 k | `EntryTypeOK`, `OneEntryPerScreen`, `LastSaveWins`, `IdleChangeIsSaved`, `SavingEnds` |
| `android_main` | 2 entries on 2 dates, one perhaps undecodable, an editor that saves while it is open and after, everything fails that can; fairness | 154 k | `MainTypeOK`, `OnlyConfirmedIsDeleted`, `NewEntryIsShown` |
| `diary_out_of_step`, `editor_esc`, `android_main_pressed` | the smallest that shows it | | each refutes one claim: section 7 |

`SuccessIsReal` is asked of both clients among the same rows: `diary_java` and
`diary_out_of_step` differ in who calls, the Android client or the C client.

Deadlock is checked in every passing run but one: these programs run until they
are stopped and the user may always start again. `android_entry` cannot create
more than `MaxScreens` objects, so its behaviours end when those are used up.

## 4. Bounds

* `Sessions`: two. Every hazard between children involves a check and an act of
  one child and a statement of another; interchangeable slots, identities and
  keys are reduced by symmetry in safety runs. The proofs cover any number.
* `MaxId` (1 to 3) is the number of ids ever assigned. Two are enough to delete
  one and add another, and the last one makes the table refuse, so the refusal
  is reached; three make a list longer than the screen.
* `MaxEntries` stands for `MAX_ENTRIES` (1024): below `MaxId` where the cap should
  be hit (`diary_service`, `MCDiaryCap`, `list`), not where a property is about
  what happens without it.
* `MaxInFlight` bounds the commands and answers under way on a connection
  (`Room`). A client in step never has any when it sends, so 1 does not limit
  it; a client that is out of step has leftovers, without a bound in the code,
  and the runs about it allow 2.
* `Data`, `Stamps`, `Keys`: one value per case the properties tell apart: sealed
  blobs (`Sealed`), data no key opens, base64 that is ill-padded (`Undecodable`),
  an empty column (`Blank`); two
  dates where a date could be confused, two keys where one could be replaced.
* `Editor`: texts are `0..n`; each edit makes the next number, so `n` bounds the
  edits of a behaviour. Three edits suffice for: save, change, fail, change
  again. `pending` holds one command at a time. `MaxUnread` is 0: a connection
  that is behind is not used for further calls, because three of the properties
  say nothing of it, and the fourth, `BackupCoversSave`, is proved for every
  `MaxUnread`. `MCEditorTwice` goes on with one answer unread.
* `EditorText`: `MaxLen` 6 with an `InitialSize` of 2 makes the allocation grow
  twice; 3 columns make a text of two characters wrap; characters of up to 3
  bytes. `Viewer`: `MaxText` 4 makes up to five rows on screens of 2 and 3.
* `AndroidEntry`: `MaxScreens` 2 (one object and the next), `MaxTyped` 2 (a change
  and one that undoes or replaces it), `MaxTasks` 2 queued tasks and posts when
  Back is pressed: Back can be pressed twice. `AndroidMain`: `MaxQueue` 2 when
  the user acts; tasks may queue more.

## 5. Fairness

`FairDiarySpec`: weak fairness on each child's handler steps and on each
client's receive side: two processes that the kernel schedules, on a socket
whose end is reported to both of them. Sends of the user, operators, faults,
deaths and breaks owe nothing.

`FairEditorSpec`: weak fairness on `Autosave`, because `wgetch` returns ERR after
`AUTOSAVE_MS` when nobody types, and on the return of a call; strong fairness of
a save that succeeds, which says that a statement that is tried again and again
does not fail every time. Without it the server may refuse for ever and no text
is ever stored. `ImpatientEditorSpec` adds strong fairness of ESC: a user who
keeps pressing it. It makes `EscLeaves` a fair question, since `Esc` is not
enabled while a save is under way.

`FairEntrySpec`: weak fairness of the timer (the handler runs `saveTask` when its
delay is over), of the main thread's queue and of each executor: threads that
take what is in their queues, and calls that end with an answer or an exception.
`FairMainSpec`: the same for the list screen, and strong fairness of a load that
succeeds: the server does not lack the memory for an answer every time.

A network that falls silent without an error is excluded by all of these, and
then the code does block for ever: there is no `SO_RCVTIMEO` and no keep-alive.

## 6. What is proved

34 theorems, for every value of the constants that satisfies the named
assumptions: every invariant and every action property of the passing runs, and
the refinement. Induction is over behaviours: each proof has an invariant, a
lemma per action, and a temporal last step.

**Server** (`DiaryProofs`, its first part, seven theorems). `TypeOK` is inductive,
one case per action. `UsersStep` says that only `HandleRegister` writes `users`, which
with `INSERT OR IGNORE` gives `KeyWriteOnce`, and that makes `SessionRegistered`
inductive. `IdNamesOneEntry` does not follow from types: a row above `seq` could
be overwritten by the next insert. `LiveBelowSeq` (no live row above the
counter) is inductive, and with it `IdStep` describes everything one step can do
to one id; `OwnerOnly` and `OwnersRegistered` follow from it too.
`LateRepliesHold` needs that a slot that is used again has no old answer
(`QuietSlots`); then an answer that holds goes on holding whoever steps, an
answer just decided on holds, and a slot's answers after a step are answers it
had, parts of them, or that one.

**Clients and service** (`DiaryProofs`). `ClientsArePeers`: `DiarySpec` implies
`ServerSpec`, so the seven theorems hold in the composed system.
`AnswersAreInStep`, `SuccessesAreReal` and `CorruptEntriesHideNothing` assume
`Paced`: the clients send what `net.c` sends; if there is a C client among them
there is memory for its lists; and no other program stores a row that ends the
loop of a client over its list, which is an empty data column for `net.c` and
ill-padded base64 for `DiaryConnection.java`. Other programs may otherwise do what they like on connections of
their own. Each condition is needed: `diary_out_of_step` and
`MCDiaryCorruptJava` are what happens without the last one, and the client of
`diary_liveness`, which may run out of memory, gets out of step too. The
invariant is `InStep`: no row that ends a client's loop is in the table or in a
socket on its way there (`TableReadable`), and on each client's connection at most one command or one
answer is under way, the child stands where it reads or has just answered it,
what it is about to say fits the command the client is waiting for and can be
read to its end, and a client between two calls has nothing under way.
`DiaryImplementsService` assumes `Orderly`, which is `Paced` with no other
programs: `DiaryService` knows the calls of clients and nothing else that writes
rows, so it says nothing of a table that others share. Its
refinement has a lemma per step: connection set-up stutters, a `Call` begins, a
handler takes effect at one instant (for its caller, or for one that has given
up, as an orphan), a `Return` returns, and every death, broken connection and
failure is a failing call that leaves an orphan exactly if its command is still
unread.

**Editor** (`EditorProofs`). `OneEntryPerSession` needs `SessionInv`: on a
connection in step a session that has added a row knows its id, or is about to
be told it, or has lost its connection, and a command left behind that would add
one means that the connection is gone and nothing was added. `CleanMeansStored`
needs `StoredInv`: the rows of the list and the answer of a confirmed save are
what the server holds too, as `net_get_entries` opens it. Both theorems allow the
connection to get behind at any list, and say nothing from there on.
`BackupsCoverSaves` assumes a disk that can be written, and nothing of the
connection; it goes past the end of a session and the death of the client, and
excepts the file that a save has open at that moment.

**Text** (`EditorTextProofs`). `RoomForNulAlways`: the cursor is inside the bytes
in use and those leave one byte free. `CursorIsOnBoundary` assumes that
`isprint` takes no key code for a continuation byte; the strengthening says that
the cursor has a boundary also between the bytes of a character that is being
typed. `TextIsAlwaysWhole` assumes that it takes none but for single bytes; its
invariant `CharsOK` says of every character that it has all its bytes but those
that are due, if it is the last one before the cursor, and rests on lemmas about
what an insertion or a cut does to the characters before and behind it.

`LayoutProofs` is about the scan, for every text and width. `Scan` is a recursive
function; that it exists and satisfies its own equation is proved from runs of
growing length (`IsRun`, `RunExists`), and what holds of every offset by the
least offset where it would fail (`OffsetInduction`). The scan only goes forward
(`ScanStep`), so no two boundaries share a position (`ScanGrows`, `BeforeIs`), no
row is skipped (`RowsAreReached`) and a row ends where a character wraps
(`RowEnds`). So a lookup finds its offset (`LookupInverts`), stays on its row
(`LookupFindsRow`) and a character is drawn on a row that is counted
(`DrawnInText`). `PositionsAlwaysRoundTrip` and `ArrowsAlwaysMoveByRows` follow
from these and the type invariant, `TextTypeCorrect`. `CursorStaysOnScreen`: the
step at the top of the loop leaves the row of the cursor, which is a row of the
text (`RowOfCursor`), in the window whatever came before (`FollowIs`), and every
round ends with that step (`EveryStepFollows`). None of the four assumes anything of `isprint` or of the
size of the terminal beyond two columns and one row.

**List** (`ListProofs`). A list may come back with any rows missing, fail, or be
that of an earlier command. After N, D and R the selection is brought within the
array, whatever that is; after E it is not, and `shorter` remembers that the
array was then shorter than before. While it has nothing to remember the
selection is in the array (`SelectionInArray`). With the window that the top of
the loop moves, this is inductive. The viewer: `ViewAlwaysInText` holds for every
text, width and resize (`ViewerInv` adds that nothing has been lower than the lowest terminal).
`EndAlwaysReached` assumes a terminal of one width, because the rows are counted
once (`RowsCounted`); `MCViewerNarrow` shows that it is false otherwise.

**Android** (`AndroidEntryProofs`, `AndroidMainProofs`). `OneEntryPerScreen`: an
object has added nothing, or one id that it saves under, or its connection is
gone for good (`OneId`); it is connected once, by the first task in its queue.
`LastSaveWins`: for every object the save it queued last is the last in its queue
with its text, or the server holds it under the object's id, or another object
has written that entry since. Nothing resets the history when a screen is left
or rebuilt. `OnlyConfirmedIsDeleted`: a delete that is queued was confirmed.

`StorageProofs` has what every statement of `storage.c` preserves and changes;
the proofs of all modules that use the tables rest on it.

Model-checked only: liveness (`CallReturns`, `ChildrenEnd`, `AutosaveSaves`,
`IdleChangeIsSaved`, `SavingEnds`, `NewEntryIsShown`), which is out of the
prover's reach, and that no instance deadlocks, which is a statement about
ENABLED.

## 7. Findings

Three are listed in `PROJECT.json`, each with the line it contradicts:

1. `diary_out_of_step` (`client/net.c:86-102`): a list that meets a row it cannot
   parse returns -1 with the later rows unread. The next call reads one of them
   as its answer, and every call after that an answer of an earlier command: an
   UPDATE or DELETE reports success before the server has read it.
2. `editor_esc` (`client/ui.c:341`): `if (dirty)` is also true of -1, so the
   second ESC warns again. With a connection that is dead no key leaves the
   editor.
3. `android_main_pressed` (`MainActivity.java:152`): the dialogs carry the
   position of the row; a list that arrives, or a row that is removed, between
   the long press and the answer makes another entry the one deleted, or ends
   the app.

Further disagreements between the code and what is said of it. Each has a
configuration in which TLC finds it (`tlc -config <cfg> <module>`; the property
is the one the configuration names):

| configuration | module | claim | what the code does |
|---|---|---|---|
| `MCDiaryCap` | `MCDiary` | `client/net.h:33` "Downloads and decrypts all entries." | above `MAX_ENTRIES` the highest ids are left out of a list reported as complete (`client_handler.c:21`; `server/architecture.md:104` names the cap) |
| `MCDiaryCorrupt` | `MCDiary` | `client/architecture.md:102` "one corrupt or foreign-key entry must not hide the rest" | a row with an empty data column makes `net_get_entries` return -1 (`net.c:86`) |
| `MCDiaryCorruptJava` | `MCDiary` | the same sentence, of the Android client | an ill-padded row makes `Base64.decode` throw (`Crypto.java:18, 33`), which ends `getEntries` with the later rows unread (`DiaryConnection.java:105`) |
| `MCDiaryRace` | `MCDiary` | `tests/test_concurrent.py:11` "only one wins" | `INSERT OR IGNORE` succeeds for every racing child, and each is answered OK (`storage.c:71`) |
| `MCEditorBackup` | `MCEditor` | `client/architecture.md:145` "the plaintext survives on disk" | all new entries share one backup file; the next one overwrites and then removes it (`ui.c:112`) |
| `MCEditorDeath` | `MCEditor` | `client/architecture.md:145` "If a save fails or the client dies mid-session, the plaintext survives on disk" | `fopen` with `w` empties the copy of the failed save before (`ui.c:118`); a death before the `fwrite` leaves nothing |
| `MCEditorTwice` | `MCEditor` | `client/architecture.md:127` "later saves in the same session become UPDATEs instead of duplicate POSTs" | after a list that failed half way on a live connection (`net.c:76, 86`) a POST reads a row that was left, counts as failed, and is sent again by the autosave |
| `MCEditorDisk` | `MCEditor` | `client/architecture.md:143` "Before every network save the buffer is written to a local backup file" | a failing `fopen` or `fwrite` is ignored and the save goes on (`ui.c:119`) |
| `MCEditorTextWrap` | `MCEditorText` | `client/ui.c:85` "Returns the buffer index for visual position" | column 0 of a soft-wrapped row is never found (`ui.c:92`) |
| `MCEditorTextKeys` | `MCEditorText` | `client/ui.c:399` "ASCII or UTF-8 byte" | `isprint` of a key code above 255 is undefined; where the library looks it up as a character (0x19a, KEY_RESIZE, is one), its low byte, a continuation byte, goes into the text |
| `MCListScreenShared` | `MCListScreen` | `README.md:214` "Read selected entry" | after E the list is fetched without a clamp (`ui.c:510`); if it is shorter, because another client has deleted entries or the server has cut it, the next key reads past the array |
| `MCViewerNarrow` | `MCListScreen` | `client/architecture.md:122` "read-only, scrollable" | the rows are counted for the width of the start (`ui.c:145`): on a terminal made narrower the end of the text cannot be reached |
| `MCAndroidEntryTyped` | `MCAndroidEntry` | `RELEASE_NOTES.md:39` "saves 2 s after you stop typing" | the timer that runs out during a save, or before the connection is there, is not set again (`EntryActivity.java:173`) |
| `MCAndroidEntryBackup` | `MCAndroidEntry` | `RELEASE_NOTES.md:41` "before each server sync" | only Back writes a backup, the autosave does not (`:179`) |
| `MCAndroidEntryReturn` | `MCAndroidEntry` | `RELEASE_NOTES.md:42` "Entries reload automatically when returning from the editor." | the reload overtakes an autosave that is still queued (`:90`) |
| `MCAndroidEntryRotate` | `MCAndroidEntry` | `RELEASE_NOTES.md:39`, as above | the rebuilt screen reads the Intent again, which has no id, and posts the text as a second entry (`:41`) |
| `MCAndroidEntryOvertaken` | `MCAndroidEntry` | `RELEASE_NOTES.md:37` "Create and edit entries with autosave" | a save queued by the old object is executed after one of the rebuilt object, on a connection of its own, and the older text stays (`:94`) |
| `MCAndroidMainQuiet` | `MCAndroidMain` | `RELEASE_NOTES.md:42` "Entries reload automatically" | a position is removed from a list that a reload has replaced, so the row of a deleted entry stays (`MainActivity.java:156`) |
| `MCAndroidMainLoss` | `MCAndroidMain` | `RELEASE_NOTES.md:40` "Automatic reconnection on connection loss." | the failing load changes views from the executor's thread (`:120`), which ends the app |

## 8. Abstractions

* A line is sent and received whole, and a GET's header and rows are one message
  of which a reader may leave the last rows unread. A child that dies in the
  middle of sending rows is, for the client, a call that fails.
* `proto_recv_line` reads one whole line whatever the size of its buffer; a
  client that is out of step and reads a long row into its 64 bytes gets a
  failure here.
* A network that is silent without an error is not modelled (section 5). Ids stay
  below 2^31: beyond, `storage_add_entry` casts the 64-bit rowid to `int`
  (`storage.c:110`) and reports a failure for an entry that is stored.
* The order of rows in the result of `net_get_entries` is not part of the result
  in `Diary`; it belongs to `ListScreen`. The server's order, by id, decides
  which rows fall to the cap, and is modelled.
* Cryptography is opaque: a blob opens with the user's key or it does not.
  Authentication is the protocol library's: a connection that gets to
  `diary_handle` belongs to the allowed identity.
* A text is a number in `Editor` and `AndroidEntry`, and bytes without a save in
  `EditorText`: the two views of `screen_editor` share the buffer by name only.
  The calls are one step in `ListScreen` and `AndroidMain`, with their outcomes.
* Every character is one column wide in `TextLayout`, as in the code, which
  counts characters: text with two-column characters is drawn differently by
  the terminal.
* The size of the editor's window is constant in `EditorText`, while the code
  reads it anew in every round (`ui.c:251`): `CursorOnScreen` and the arrows are
  about a window that keeps its size. `Viewer` and `ListScreen` let it change.
* `shorter` (`ListScreen`) remembers that a return from E has brought fewer rows
  since the selection was last brought within the array; `SelectionIsShown` is
  stated for the rest, and `MCListScreenShared` shows that it is needed.
* A connection with unread answers. In `Diary` the answers are there one by one. In
  `Editor` so are they, but a command is executed in the step in which its call
  returns, although on such a connection the call may return before. In
  `ListScreen` and `AndroidMain` such a connection is `behind` for good, and a
  list read from it is any that there may have been, which is more than the code
  can produce. What can still be read from it after the server has closed it is
  left out. A row that `net.c` cannot take apart has the same effect in
  `ListScreen` as no memory for it.
* Memory is short in the code of this repository only where its result is tested;
  what the protocol library allocates is not modelled.
* `AndroidEntry`: the death of the process is not modelled, rotation is;
  `saveBackup` is left out but for the claim of `MCAndroidEntryBackup`. A load
  of the list that fails there is one that never comes.
* `AndroidMain`: of an `EntryActivity` there are the entries it adds; its updates
  change nothing that the list's properties tell apart. An undecodable row makes
  every load fail and the app reconnect each time; `NewEntryIsShown` says nothing
  while there is one. That the list screen itself is destroyed or rotated is
  left out.

## 9. Not modelled

* **Android set-up and cryptography** (`SetupActivity.java`, `Crypto.java`,
  `diary_crypto.c`): a form that imports keys, and wrappers of libsodium that
  convert byte arrays; no protocol state, and no order of steps to get wrong.
* **Option and key-file parsing** (`client/main.c`, `server/main.c`): sequential
  start-up that ends the process on any error.
* **Drawing** (the header, the status line, colours) beyond where a character is
  put and which row is highlighted.
* **Deployment** and **tests**: the tests are a source of claims.

What could be taken further: the Android process being killed and its instance
state restored; and one model in which `AndroidEntry` and `AndroidMain` are
composed with `Diary`, instead of the outcomes of a call.
