---------------------------- MODULE DiaryStorage ----------------------------
(***************************************************************************)
(* The database behind diary-server: server/storage.c, and the cap that    *)
(* client_handler.c puts on the rows it reads from there.                  *)
(*                                                                         *)
(* Two tables and one hidden counter are the whole persistent state.       *)
(* Every operator below is one exported function of storage.c.  A call is  *)
(* one SQL statement, so it is atomic with respect to the calls that other *)
(* server children make on the same file.  The value the C function        *)
(* returns is the operator's last parameter: an operator is true of the    *)
(* outcomes the call can have.                                             *)
(***************************************************************************)
EXTENDS Integers, FiniteSets

CONSTANTS
    Users,      \* Ed25519 identities (the auth_pubkey column)
    Keys,       \* X25519 encryption keys (the encrypt_pubkey column)
    Data,       \* what the data column may hold: opaque to the server
    Stamps,     \* the seconds since the epoch that clocks and clients use
    MaxId,      \* bound: stands for the largest rowid SQLite can assign
    MaxEntries, \* MAX_ENTRIES: the most rows one GET returns
    NoKey,      \* "this identity has no users row"
    NoRow,      \* "this id has no entries row"
    Faults      \* the calls of the environment that may fail in this instance

ASSUME MaxIdAssumption  == MaxId \in Nat \ {0}
ASSUME MaxEntriesAssumption == MaxEntries \in Nat \ {0}
ASSUME StampsAssumption == Stamps \subseteq Nat \ {0}
ASSUME NoKeyAssumption  == NoKey \notin Keys
ASSUME FaultsAssumption ==
    Faults \subseteq {"init",      \* the database cannot be opened
                      "read",      \* SELECT FROM users errors
                      "write",     \* INSERT, UPDATE or DELETE errors
                      "rows",      \* SELECT FROM entries errors half way
                      "memory",    \* malloc returns NULL in the server
                      "client memory",    \* or in the client
                      "client disk"}      \* the client cannot write a file

Ids == 1..MaxId
Row == [owner : Users, ts : Stamps, data : Data]

ASSUME NoRowAssumption  == NoRow \notin Row

VARIABLES
    users,      \* identity |-> its encryption key, the users table
    entries,    \* id |-> row, the entries table
    seq         \* sqlite_sequence: the largest id ever assigned

storageVars == <<users, entries, seq>>

StorageTypeOK ==
    /\ users \in [Users -> Keys \cup {NoKey}]
    /\ entries \in [Ids -> Row \cup {NoRow}]
    /\ seq \in 0..MaxId

\* The schema creates both tables empty.
StorageInit ==
    /\ users = [u \in Users |-> NoKey]
    /\ entries = [i \in Ids |-> NoRow]
    /\ seq = 0

Fails(fault) == fault \in Faults

(* The definitions named "Bad..." are each a plausible bug in the operator  *)
(* that follows it; no specification uses them, the runs must refute them. *)

Live == {i \in Ids : entries[i] # NoRow}
Own(u) == {i \in Live : entries[i].owner = u}

-----------------------------------------------------------------------------
BadUserExists(u, exists) ==    \* any result but "no row" means yes
    \/ exists = (users[u] # NoKey)
    \/ exists = TRUE /\ Fails("read")

\* An error of the SELECT is indistinguishable from "no such user".
storage_user_exists(u, exists) ==
    \/ exists = (users[u] # NoKey)
    \/ exists = FALSE /\ Fails("read")

BadRegisterUser(u, key, rc) ==    \* INSERT OR REPLACE
    \/ /\ rc = 0
       /\ users' = [users EXCEPT ![u] = key]
       /\ UNCHANGED <<entries, seq>>
    \/ rc = -1 /\ Fails("write") /\ UNCHANGED storageVars

\* INSERT OR IGNORE: a row that is already there is kept and still counts
\* as success.
storage_register_user(u, key, rc) ==
    \/ /\ rc = 0
       /\ users' = [users EXCEPT ![u] = IF @ = NoKey THEN key ELSE @]
       /\ UNCHANGED <<entries, seq>>
    \/ rc = -1 /\ Fails("write") /\ UNCHANGED storageVars

BadAddEntryUnchecked(u, data, ts, id) ==    \* last_insert_rowid after an error
    \/ /\ seq < MaxId
       /\ id = seq + 1
       /\ entries' = [entries EXCEPT ![seq + 1] =
                        [owner |-> u, ts |-> ts, data |-> data]]
       /\ seq' = seq + 1
       /\ UNCHANGED users
    \/ id = seq /\ (seq = MaxId \/ Fails("write")) /\ UNCHANGED storageVars

BadAddEntryReusing(u, data, ts, id) ==    \* INTEGER PRIMARY KEY alone
    \/ /\ id \in Ids \ Live
       /\ \A i \in Live : i < id
       /\ \A i \in 1..(id - 1) : \E j \in Live : i <= j
       /\ entries' = [entries EXCEPT ![id] =
                        [owner |-> u, ts |-> ts, data |-> data]]
       /\ seq' = IF id > seq THEN id ELSE seq
       /\ UNCHANGED users
    \/ id = -1 /\ (MaxId \in Live \/ Fails("write")) /\ UNCHANGED storageVars

\* The id is AUTOINCREMENT: one more than the largest ever assigned, deleted
\* rows included; a table whose ids are used up refuses (SQLITE_FULL).
storage_add_entry(u, data, ts, id) ==
    \/ /\ seq < MaxId
       /\ id = seq + 1
       /\ entries' = [entries EXCEPT ![seq + 1] =
                        [owner |-> u, ts |-> ts, data |-> data]]
       /\ seq' = seq + 1
       /\ UNCHANGED users
    \/ id = -1 /\ (seq = MaxId \/ Fails("write")) /\ UNCHANGED storageVars

\* The ids whose rows the callback is given, in ascending order.  An error
\* in the middle of the scan ends it and is not reported.
storage_get_entries(u, visited) ==
    \/ visited = Own(u)
    \/ /\ Fails("rows")
       /\ \E last \in 0..MaxId : visited = {i \in Own(u) : i <= last}

\* The first MaxEntries of the ids, in ascending order.
FirstRows(ids) ==
    {i \in ids : Cardinality({j \in ids : j < i}) < MaxEntries}

\* The rows the accumulator keeps: none after the cap, and none of those it
\* has no memory for.
collect_entry(visited, kept) ==
    \/ kept = FirstRows(visited)
    \/ Fails("memory") /\ \E got \in SUBSET visited : kept = FirstRows(got)

\* The ids of the rows in the answer to a GET: not always all there are, and
\* nothing in the answer tells.
GetRows(u, kept) ==
    \E visited \in SUBSET Ids :
        storage_get_entries(u, visited) /\ collect_entry(visited, kept)

\* Only the data column changes: the date and the owner of an entry stay.
storage_update_entry(u, id, data, rc) ==
    \/ /\ id \in Own(u)
       /\ rc = 0
       /\ entries' = [entries EXCEPT ![id] =
                        [owner |-> @.owner, ts |-> @.ts, data |-> data]]
       /\ UNCHANGED <<users, seq>>
    \/ rc = -1 /\ (id \notin Own(u) \/ Fails("write")) /\ UNCHANGED storageVars

BadDeleteEntry(u, id, rc) ==    \* WHERE id=? without the owner
    \/ /\ id \in Live
       /\ rc = 0
       /\ entries' = [entries EXCEPT ![id] = NoRow]
       /\ UNCHANGED <<users, seq>>
    \/ rc = -1 /\ (id \notin Live \/ Fails("write")) /\ UNCHANGED storageVars

storage_delete_entry(u, id, rc) ==
    \/ /\ id \in Own(u)
       /\ rc = 0
       /\ entries' = [entries EXCEPT ![id] = NoRow]
       /\ UNCHANGED <<users, seq>>
    \/ rc = -1 /\ (id \notin Own(u) \/ Fails("write")) /\ UNCHANGED storageVars
=============================================================================
