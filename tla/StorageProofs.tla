--------------------------- MODULE StorageProofs ----------------------------
(***************************************************************************)
(* What the operations of storage.c preserve, for the proofs about the     *)
(* modules that use them.                                                  *)
(***************************************************************************)
EXTENDS DiaryStorage, TLAPS

\* Every statement leaves the tables well typed, whatever it returns.
LEMMA StorageTyped ==
    ASSUME StorageTypeOK, NEW u \in Users, NEW rc,
           \/ \E key \in Keys : storage_register_user(u, key, rc)
           \/ \E data \in Data, ts \in Stamps : storage_add_entry(u, data, ts, rc)
           \/ \E id \in Ids \cup {0}, data \in Data : storage_update_entry(u, id, data, rc)
           \/ \E id : storage_delete_entry(u, id, rc)
    PROVE  StorageTypeOK'
<1> USE DEF StorageTypeOK, storageVars
<1>1. CASE \E key \in Keys : storage_register_user(u, key, rc)
    BY <1>1 DEF storage_register_user
<1>2. CASE \E data \in Data, ts \in Stamps : storage_add_entry(u, data, ts, rc)
    <2>1. PICK data \in Data, ts \in Stamps : storage_add_entry(u, data, ts, rc)
        BY <1>2
    <2>2. CASE seq < MaxId /\ entries' = [entries EXCEPT ![seq + 1] =
                                [owner |-> u, ts |-> ts, data |-> data]]
                           /\ seq' = seq + 1 /\ UNCHANGED users
        BY <2>2, MaxIdAssumption DEF Ids, Row
    <2>3. CASE UNCHANGED storageVars
        BY <2>3
    <2> QED  BY <2>1, <2>2, <2>3 DEF storage_add_entry
<1>3. CASE \E id \in Ids \cup {0}, data \in Data : storage_update_entry(u, id, data, rc)
    <2>1. PICK id \in Ids \cup {0}, data \in Data : storage_update_entry(u, id, data, rc)
        BY <1>3
    <2>2. CASE /\ id \in Own(u)
               /\ entries' = [entries EXCEPT ![id] =
                     [owner |-> @.owner, ts |-> @.ts, data |-> data]]
               /\ UNCHANGED <<users, seq>>
        <3>1. id \in Ids /\ entries[id] \in Row
            BY <2>2 DEF Own, Live
        <3> QED  BY <2>2, <3>1 DEF Row
    <2>3. CASE UNCHANGED storageVars
        BY <2>3
    <2> QED  BY <2>1, <2>2, <2>3 DEF storage_update_entry
<1>4. CASE \E id : storage_delete_entry(u, id, rc)
    BY <1>4 DEF storage_delete_entry
<1> QED  BY <1>1, <1>2, <1>3, <1>4

\* An INSERT that succeeds makes one row, of its caller; one that fails none.
LEMMA AddAddsOne ==
    ASSUME StorageTypeOK, NEW u \in Users, NEW data \in Data, NEW ts \in Stamps,
           NEW id, storage_add_entry(u, data, ts, id)
    PROVE  \/ /\ id \in Ids
              /\ entries'[id] = [owner |-> u, ts |-> ts, data |-> data]
              /\ entries'[id] # NoRow
              /\ \A j \in Ids : j # id => entries'[j] = entries[j]
           \/ id = -1 /\ UNCHANGED storageVars
<1>1. CASE /\ seq < MaxId /\ id = seq + 1
           /\ entries' = [entries EXCEPT ![seq + 1] =
                            [owner |-> u, ts |-> ts, data |-> data]]
    <2>1. id \in Ids
        BY <1>1, MaxIdAssumption DEF StorageTypeOK, Ids
    <2>2. [owner |-> u, ts |-> ts, data |-> data] # NoRow
        BY NoRowAssumption DEF Row
    <2> QED  BY <1>1, <2>1, <2>2 DEF StorageTypeOK
<1> QED  BY <1>1 DEF storage_add_entry

\* An UPDATE that succeeds changes the data of one of its caller's rows.
LEMMA UpdateChangesOne ==
    ASSUME StorageTypeOK, NEW u \in Users, NEW data \in Data, NEW id, NEW rc,
           storage_update_entry(u, id, data, rc)
    PROVE  \/ /\ rc = 0 /\ id \in Own(u)
              /\ entries'[id] # NoRow
              /\ entries'[id].owner = u /\ entries'[id].data = data
              /\ \A j \in Ids : j # id => entries'[j] = entries[j]
           \/ rc = -1 /\ UNCHANGED storageVars
<1>1. CASE /\ id \in Own(u) /\ rc = 0
           /\ entries' = [entries EXCEPT ![id] =
                            [owner |-> @.owner, ts |-> @.ts, data |-> data]]
    <2>1. id \in Ids /\ entries[id] \in Row /\ entries[id].owner = u
        BY <1>1 DEF Own, Live, StorageTypeOK
    <2>2. entries'[id] = [owner |-> u, ts |-> entries[id].ts, data |-> data]
        BY <1>1, <2>1 DEF StorageTypeOK
    <2>3. entries'[id] # NoRow
        BY <2>1, <2>2, NoRowAssumption DEF Row
    <2> QED  BY <1>1, <2>1, <2>2, <2>3 DEF StorageTypeOK
<1> QED  BY <1>1 DEF storage_update_entry

\* The rows in the answer to a GET are the user's.
LEMMA RowsAreOwn ==
    ASSUME NEW u, NEW kept, GetRows(u, kept)
    PROVE  kept \in SUBSET Own(u)
BY DEF GetRows, storage_get_entries, collect_entry, FirstRows

\* A DELETE disturbs no other row.
LEMMA DeleteRemovesOne ==
    ASSUME StorageTypeOK, NEW u \in Users, NEW id, NEW rc,
           storage_delete_entry(u, id, rc)
    PROVE  \A j \in Ids : j # id => entries'[j] = entries[j]
BY DEF storage_delete_entry, storageVars, StorageTypeOK
=============================================================================
