------------------------- MODULE AndroidEntryProofs -------------------------
(***************************************************************************)
(* Theorems of AndroidEntry, for any number of EntryActivity objects,      *)
(* texts, queued tasks and entries, with saves that fail and connections   *)
(* that break.                                                             *)
(***************************************************************************)
EXTENDS AndroidEntry, StorageProofs, SequenceTheorems, FiniteSetTheorems

-----------------------------------------------------------------------------
(* Types. *)

\* Only the tasks that save carry a text.
SavesHaveText ==
    \A i \in Screens : \A k \in DOMAIN tasks[i] :
        IsSave(tasks[i][k]) => tasks[i][k].text \in Data

Typed == EntryTypeOK /\ SavesHaveText /\ (open => inst # 0)

LEMMA Bounds == MaxScreens \in Nat \ {0} /\ MaxId \in Nat \ {0} /\ Me \in Users
BY EntryAssumption, MaxIdAssumption

\* Taking the first task out of a queue.
LEMMA Removed ==
    ASSUME NEW S, NEW q \in Seq(S), q # <<>>
    PROVE  /\ RemoveAt(q, 1) \in Seq(S) /\ Len(q) \in Nat \ {0}
           /\ Len(RemoveAt(q, 1)) = Len(q) - 1
           /\ \A k \in 1..(Len(q) - 1) : RemoveAt(q, 1)[k] = q[k + 1]
<1>1. SubSeq(q, 1, 0) = <<>>
    BY SubSeqEmpty
<1>2. SubSeq(q, 2, Len(q)) = Tail(q) /\ Tail(q) \in Seq(S)
    BY TailIsSubSeq, HeadTailProperties
<1>3. RemoveAt(q, 1) = Tail(q)
    BY <1>1, <1>2, ConcatEmptySeq DEF RemoveAt
<1>4. Len(q) \in Nat \ {0}
    BY EmptySeq
<1> QED  BY <1>3, <1>4, HeadTailProperties

LEMMA RowsTyped ==
    ASSUME StorageTypeOK, NEW kept \in SUBSET Own(Me)
    PROVE  LET rows == [i \in kept |-> entries[i].data]
           IN  DOMAIN rows \subseteq Ids /\ \A i \in DOMAIN rows : rows[i] \in Data
<1>1. \A i \in Own(Me) : i \in Ids /\ entries[i].data \in Data
    BY DEF Own, Live, StorageTypeOK, Row
<1> QED  BY <1>1

\* What a save that is executed leaves in the tables.
LEMMA ExecutesTyped ==
    ASSUME Typed, NEW i \in Screens, NEW t \in Data, NEW result, Executes(i, t, result)
    PROVE  StorageTypeOK'
<1>1. StorageTypeOK /\ entryId[i] \in Ids \cup {0}
    BY Bounds DEF Typed, EntryTypeOK, Ids
<1>2. CASE \E ts \in Stamps : storage_add_entry(Me, t, ts, result)
    BY <1>1, <1>2, StorageTyped, Bounds
<1>3. CASE \E rc \in {0, -1} : storage_update_entry(Me, entryId[i], t, rc)
    BY <1>1, <1>3, StorageTyped, Bounds
<1> QED  BY <1>2, <1>3 DEF Executes

\* The queue of the screen with a task at its end.
LEMMA Queued ==
    ASSUME Typed, NEW op \in {"save", "close", "disconnect"},
           NEW t \in Data \cup {NoText}, op # "disconnect" => t \in Data,
           inst \in Screens
    PROVE  /\ Queue(op, t) \in [Screens -> Seq(Tasks)]
           /\ \A i \in Screens : \A k \in DOMAIN Queue(op, t)[i] :
                \/ k \in DOMAIN tasks[i] /\ Queue(op, t)[i][k] = tasks[i][k]
                \/ i = inst /\ k = Len(tasks[i]) + 1
                     /\ Queue(op, t)[i][k] = [op |-> op, text |-> t]
           /\ Queue(op, t)[inst] = Append(tasks[inst], [op |-> op, text |-> t])
           /\ \A i \in Screens : i # inst => Queue(op, t)[i] = tasks[i]
<1>1. tasks \in [Screens -> Seq(Tasks)] /\ [op |-> op, text |-> t] \in Tasks
    BY DEF Typed, EntryTypeOK, Tasks
<1> DEFINE q == Append(tasks[inst], [op |-> op, text |-> t])
<1>2. /\ Queue(op, t) = [tasks EXCEPT ![inst] = q]
      /\ q \in Seq(Tasks) /\ Len(tasks[inst]) \in Nat
      /\ DOMAIN tasks[inst] = 1..Len(tasks[inst])
      /\ DOMAIN q = 1..(Len(tasks[inst]) + 1)
      /\ \A k \in 1..Len(tasks[inst]) : q[k] = tasks[inst][k]
      /\ q[Len(tasks[inst]) + 1] = [op |-> op, text |-> t]
    BY <1>1 DEF Queue
<1> HIDE DEF q
<1>3. /\ Queue(op, t) \in [Screens -> Seq(Tasks)]
      /\ Queue(op, t)[inst] = q
      /\ \A i \in Screens : i # inst => Queue(op, t)[i] = tasks[i]
    BY <1>1, <1>2
<1> QED  BY <1>2, <1>3 DEF q

\* One task of an executor.
LEMMA RunsTakesFirst ==
    ASSUME Typed, NEW i \in Screens, RunsTask(i)
    PROVE  /\ tasks[i][1] \in Tasks /\ 1 \in DOMAIN tasks[i]
           /\ IsSave(tasks[i][1]) => tasks[i][1].text \in Data
           /\ \/ RunsSave(i, tasks[i][1]) \/ RunsClose(i, tasks[i][1])
              \/ RunsConnect(i, tasks[i][1]) \/ RunsDisconnect(i, tasks[i][1])
           /\ UNCHANGED <<mainVars, opening>>
           /\ tasks' \in [Screens -> Seq(Tasks)]
           /\ \A j \in Screens : j # i => tasks'[j] = tasks[j]
           /\ \A k \in Nat : k \in DOMAIN tasks'[i] <=> k >= 1 /\ k + 1 \in DOMAIN tasks[i]
           /\ \A k \in DOMAIN tasks'[i] : /\ k \in Nat /\ k + 1 \in DOMAIN tasks[i]
                                         /\ tasks'[i][k] = tasks[i][k + 1]
<1>1. tasks \in [Screens -> Seq(Tasks)] /\ tasks[i] \in Seq(Tasks)
    BY DEF Typed, EntryTypeOK
<1>2. /\ tasks[i] # <<>>
      /\ \/ RunsSave(i, tasks[i][1]) \/ RunsClose(i, tasks[i][1])
         \/ RunsConnect(i, tasks[i][1]) \/ RunsDisconnect(i, tasks[i][1])
      /\ tasks' = [tasks EXCEPT ![i] = RemoveAt(@, 1)]
      /\ UNCHANGED <<mainVars, opening>>
    BY DEF RunsTask, Ready
<1> DEFINE q == RemoveAt(tasks[i], 1)
<1>3. /\ q \in Seq(Tasks) /\ Len(tasks[i]) \in Nat \ {0} /\ Len(q) = Len(tasks[i]) - 1
      /\ \A k \in 1..(Len(tasks[i]) - 1) : q[k] = tasks[i][k + 1]
    BY <1>1, <1>2, Removed
<1> HIDE DEF q
<1>4. /\ tasks' \in [Screens -> Seq(Tasks)] /\ tasks'[i] = q
      /\ \A j \in Screens : j # i => tasks'[j] = tasks[j]
    BY <1>1, <1>2, <1>3 DEF q
<1>5. DOMAIN tasks[i] = 1..Len(tasks[i]) /\ DOMAIN q = 1..(Len(tasks[i]) - 1)
    BY <1>1, <1>3
<1>6. 1 \in DOMAIN tasks[i] /\ tasks[i][1] \in Tasks
    BY <1>1, <1>3, <1>5
<1>7. IsSave(tasks[i][1]) => tasks[i][1].text \in Data
    BY <1>6 DEF Typed, SavesHaveText
<1>8. \A k \in Nat : k \in 1..(Len(tasks[i]) - 1) <=> k >= 1 /\ k + 1 \in 1..Len(tasks[i])
    BY <1>3
<1>9. \A k \in DOMAIN q : k \in Nat /\ k + 1 \in DOMAIN tasks[i] /\ q[k] = tasks[i][k + 1]
    BY <1>3, <1>5
<1> QED  BY <1>2, <1>4, <1>5, <1>6, <1>7, <1>8, <1>9

\* The fields of a task that has been taken.
LEMMA RunsTyped ==
    ASSUME Typed, NEW i \in Screens, RunsTask(i)
    PROVE  Typed'
<1> DEFINE task == tasks[i][1]
<1>1. /\ IsSave(task) => task.text \in Data
      /\ \/ RunsSave(i, task) \/ RunsClose(i, task)
         \/ RunsConnect(i, task) \/ RunsDisconnect(i, task)
      /\ UNCHANGED <<mainVars, opening>>
      /\ tasks' \in [Screens -> Seq(Tasks)]
      /\ \A j \in Screens : j # i => tasks'[j] = tasks[j]
      /\ \A k \in DOMAIN tasks'[i] : /\ k \in Nat /\ k + 1 \in DOMAIN tasks[i]
                                    /\ tasks'[i][k] = tasks[i][k + 1]
    BY RunsTakesFirst
<1> HIDE DEF task
<1>2. SavesHaveText'
    BY <1>1 DEF Typed, SavesHaveText, IsSave
<1>3. ASSUME NEW t \in Data, Succeeds(i, t) \/ FailsToSave(i, t)
      PROVE  /\ StorageTypeOK'
             /\ conn' \in [Screens -> Conns]
             /\ entryId' \in [Screens -> 0..MaxId]
    <2>0. /\ conn \in [Screens -> Conns]
          /\ entryId \in [Screens -> 0..MaxId] /\ StorageTypeOK
        BY DEF Typed, EntryTypeOK
    <2>1. CASE Succeeds(i, t)
        <3>1. PICK result \in Ids : Executes(i, t, result) /\ Adopts(i, result)
            BY <2>1 DEF Succeeds
        <3>2. StorageTypeOK'
            BY <3>1, ExecutesTyped
        <3>3. entryId' \in [Screens -> 0..MaxId]
            BY <2>0, <3>1, Bounds DEF Adopts, Ids
        <3> QED  BY <2>0, <2>1, <3>2, <3>3 DEF Succeeds
    <2>2. CASE FailsToSave(i, t)
        <3>1. StorageTypeOK'
            BY <2>0, <2>2, ExecutesTyped DEF FailsToSave, storageVars, StorageTypeOK
        <3>2. conn' \in [Screens -> Conns]
            BY <2>0, <2>2 DEF FailsToSave, Conns
        <3> QED  BY <2>0, <2>2, <3>1, <3>2 DEF FailsToSave
    <2> QED  BY <1>3, <2>1, <2>2
<1>4. ASSUME NEW op \in {"saved", "failed", "finish"}, Posts(i, op)
      PROVE  posts' \in Seq([inst : Screens, op : {"saved", "failed", "finish"}])
    BY <1>4 DEF Posts, Typed, EntryTypeOK
<1>5. /\ StorageTypeOK'
      /\ conn' \in [Screens -> Conns]
      /\ entryId' \in [Screens -> 0..MaxId]
      /\ posts' \in Seq([inst : Screens, op : {"saved", "failed", "finish"}])
    <2>1. CASE RunsSave(i, task)
        BY <1>1, <1>3, <1>4, <2>1 DEF RunsSave, IsSave
    <2>2. CASE RunsClose(i, task)
        BY <1>1, <1>3, <1>4, <2>2 DEF RunsClose, IsSave
    <2>3. CASE RunsConnect(i, task) \/ RunsDisconnect(i, task)
        BY <2>3 DEF RunsConnect, RunsDisconnect, Typed, EntryTypeOK, storageVars, StorageTypeOK,
                    Conns
    <2> QED  BY <1>1, <2>1, <2>2, <2>3
<1> QED  BY <1>1, <1>2, <1>5 DEF Typed, EntryTypeOK, mainVars

\* The object of the connection is made, and its task stays where it is.
LEMMA MakesTyped ==
    ASSUME Typed, NEW i \in Screens, Makes(i)
    PROVE  Typed'
<1>1. StorageTypeOK'
    BY DEF Typed, EntryTypeOK, Makes, storageVars, StorageTypeOK
<1>2. conn' \in [Screens -> Conns]
    BY DEF Typed, EntryTypeOK, Makes, Conns
<1>3. SavesHaveText'
    BY DEF Typed, SavesHaveText, Makes
<1> QED  BY <1>1, <1>2, <1>3 DEF Typed, EntryTypeOK, Makes, mainVars

LEMMA TypedInit == EntryInit => Typed
<1> SUFFICES ASSUME EntryInit PROVE Typed
    OBVIOUS
<1> DEFINE first == CHOOSE t \in Data : t # Empty
<1>1. first \in Data
    BY EntryAssumption
<1> HIDE DEF first
<1>2. PICK ts \in Stamps :
        entries = [i \in Ids |-> IF i > seq THEN NoRow
                                 ELSE [owner |-> Me, ts |-> ts, data |-> first]]
    BY DEF EntryInit, first
<1>3. [owner |-> Me, ts |-> ts, data |-> first] \in Row
    BY <1>1, Bounds DEF Row
<1>4. entries \in [Ids -> Row \cup {NoRow}] /\ seq \in {0, 1} /\ users \in [Users -> Keys]
    BY <1>2, <1>3 DEF EntryInit
<1>5. \A i \in Ids : i > seq => entries[i] = NoRow
    BY <1>2
<1>6. StorageTypeOK
    BY <1>4, <1>5, Bounds DEF StorageTypeOK
<1>7. DOMAIN shown \subseteq Ids /\ \A i \in DOMAIN shown : shown[i] \in Data
    BY <1>6, RowsTyped DEF EntryInit, Mine
<1>8. /\ intent \in [id : 0..MaxId, text : Data] /\ text \in Data /\ inst \in 0..MaxScreens
      /\ entryId \in [Screens -> 0..MaxId]
    BY Bounds, EntryAssumption DEF EntryInit, NewEntry, Empty
<1>9. /\ conn \in [Screens -> Conns]
      /\ tasks \in [Screens -> Seq(Tasks)]
      /\ posts \in Seq([inst : Screens, op : {"saved", "failed", "finish"}])
    BY DEF EntryInit, Conns
<1>10. /\ reload \in BOOLEAN /\ open \in BOOLEAN /\ timer \in BOOLEAN /\ saving \in BOOLEAN
       /\ ~open
    BY Zenon DEF EntryInit
<1>11. SavesHaveText
    BY DEF EntryInit, SavesHaveText
<1> QED  BY <1>6, <1>7, <1>8, <1>9, <1>10, <1>11 DEF Typed, EntryTypeOK

\* The queues of the screen that is opened or rebuilt.
LEMMA CreatedQueue ==
    ASSUME NEW q \in [Screens -> Seq(Tasks)], NEW j \in Screens
    PROVE  /\ [q EXCEPT ![j] = <<Connect>>] \in [Screens -> Seq(Tasks)]
           /\ [q EXCEPT ![j] = <<Connect>>][j] = <<Connect>>
           /\ DOMAIN <<Connect>> = {1} /\ <<Connect>>[1] = Connect
           /\ \A i \in Screens : i # j => [q EXCEPT ![j] = <<Connect>>][i] = q[i]
<1>1. Connect \in Tasks
    BY DEF Tasks, Connect
<1>2. <<Connect>> \in Seq(Tasks) /\ DOMAIN <<Connect>> = {1} /\ <<Connect>>[1] = Connect
    BY <1>1
<1> QED  BY <1>2

LEMMA TypedStep == Typed /\ [EntryNext]_entryVars => Typed'
<1> SUFFICES ASSUME Typed, [EntryNext]_entryVars PROVE Typed'
    OBVIOUS
<1>0. /\ EntryTypeOK /\ SavesHaveText /\ StorageTypeOK
      /\ tasks \in [Screens -> Seq(Tasks)] /\ inst \in 0..MaxScreens
      /\ open => inst \in Screens
    BY DEF Typed, EntryTypeOK, Screens
<1>1. ASSUME UNCHANGED <<users, entries, seq>> PROVE StorageTypeOK'
    BY <1>0, <1>1 DEF StorageTypeOK
<1>2. CASE Opens
    <2>1. inst + 1 \in Screens /\ inst' = inst + 1
        BY <1>0, <1>2, Bounds DEF Opens, Creates, Screens
    <2>2. intent' \in [id : 0..MaxId, text : Data]
        BY <1>0, <1>2, Bounds, EntryAssumption DEF Opens, EntryTypeOK, Ids, NewEntry
    <2>3. entryId' \in [Screens -> 0..MaxId]
        BY <1>0, <1>2, <2>1, <2>2 DEF Opens, Creates, EntryTypeOK
    <2>4. tasks' \in [Screens -> Seq(Tasks)] /\ SavesHaveText'
        BY <1>0, <1>2, <2>1, CreatedQueue DEF Opens, SavesHaveText, IsSave, Connect
    <2>5. open' \in BOOLEAN /\ timer' \in BOOLEAN /\ saving' \in BOOLEAN /\ reload' \in BOOLEAN
        BY <1>0, <1>2, Zenon DEF Opens, Creates, EntryTypeOK
    <2>6. text' \in Data /\ inst' \in 0..MaxScreens /\ inst' # 0
        BY <1>0, <1>2, <2>1, <2>2, Bounds DEF Opens, Screens
    <2> QED  BY <1>0, <1>1, <1>2, <2>2, <2>3, <2>4, <2>5, <2>6 DEF Opens, Typed, EntryTypeOK
<1>3. CASE Rebuilt
    <2>1. inst + 1 \in Screens /\ inst' = inst + 1 /\ inst \in Screens
        BY <1>0, <1>3, Bounds DEF Rebuilt, Creates, Screens
    <2>2. entryId' \in [Screens -> 0..MaxId]
        BY <1>0, <1>3, <2>1 DEF Rebuilt, Creates, EntryTypeOK
    <2>3. /\ Queue("disconnect", NoText) \in [Screens -> Seq(Tasks)]
          /\ \A i \in Screens : \A k \in DOMAIN Queue("disconnect", NoText)[i] :
               \/ k \in DOMAIN tasks[i] /\ Queue("disconnect", NoText)[i][k] = tasks[i][k]
               \/ Queue("disconnect", NoText)[i][k] = [op |-> "disconnect", text |-> NoText]
        BY <2>1, Queued
    <2>4. tasks' \in [Screens -> Seq(Tasks)] /\ SavesHaveText'
        <3> DEFINE q == Queue("disconnect", NoText)
        <3>1. tasks' = [q EXCEPT ![inst + 1] = <<Connect>>]
            BY <1>3 DEF Rebuilt
        <3> HIDE DEF q
        <3>2. /\ tasks' \in [Screens -> Seq(Tasks)]
              /\ DOMAIN tasks'[inst + 1] = {1} /\ tasks'[inst + 1][1] = Connect
              /\ \A i \in Screens : i # inst + 1 => tasks'[i] = q[i]
            BY <2>1, <2>3, <3>1, CreatedQueue DEF q
        <3>3. ASSUME NEW i \in Screens, NEW k \in DOMAIN tasks'[i], IsSave(tasks'[i][k])
              PROVE  tasks'[i][k].text \in Data
            <4>1. CASE i = inst + 1
                BY <3>2, <3>3, <4>1 DEF IsSave, Connect
            <4>2. CASE i # inst + 1
                <5>1. k \in DOMAIN q[i] /\ tasks'[i][k] = q[i][k]
                    BY <3>2, <3>3, <4>2
                <5>2. k \in DOMAIN tasks[i] /\ q[i][k] = tasks[i][k]
                    BY <2>3, <3>3, <5>1 DEF q, IsSave
                <5> QED  BY <1>0, <3>3, <5>1, <5>2 DEF SavesHaveText
            <4> QED  BY <4>1, <4>2
        <3> QED  BY <3>2, <3>3, Zenon DEF SavesHaveText
    <2>5. open' \in BOOLEAN /\ timer' \in BOOLEAN /\ saving' \in BOOLEAN /\ reload' \in BOOLEAN
        BY <1>0, <1>3, Zenon DEF Rebuilt, Creates, EntryTypeOK
    <2>6. inst' \in 0..MaxScreens /\ inst' # 0
        BY <2>1 DEF Screens
    <2> QED  BY <1>0, <1>1, <1>3, <2>2, <2>4, <2>5, <2>6 DEF Rebuilt, Typed, EntryTypeOK
<1>4. CASE Types
    BY <1>0, <1>1, <1>4 DEF Types, Typed, EntryTypeOK, SavesHaveText, historyVars
<1>5. ASSUME NEW op \in {"save", "close", "disconnect"}, NEW t \in Data \cup {NoText},
             op # "disconnect" => t \in Data, inst \in Screens, tasks' = Queue(op, t)
      PROVE  tasks' \in [Screens -> Seq(Tasks)] /\ SavesHaveText'
    <2>1. /\ Queue(op, t) \in [Screens -> Seq(Tasks)]
          /\ \A i \in Screens : \A k \in DOMAIN Queue(op, t)[i] :
               \/ k \in DOMAIN tasks[i] /\ Queue(op, t)[i][k] = tasks[i][k]
               \/ Queue(op, t)[i][k] = [op |-> op, text |-> t]
        BY <1>5, Queued
    <2> QED  BY <1>0, <1>5, <2>1 DEF SavesHaveText, IsSave
<1>6. CASE Autosaves
    <2>1. tasks' \in [Screens -> Seq(Tasks)] /\ SavesHaveText'
        BY <1>0, <1>5, <1>6 DEF Autosaves, EntryTypeOK, SavesHaveText
    <2>2. timer' \in BOOLEAN /\ saving' \in BOOLEAN
        BY <1>0, <1>6, Zenon DEF Autosaves, EntryTypeOK
    <2> QED  BY <1>0, <1>1, <1>6, <2>1, <2>2 DEF Autosaves, Typed, EntryTypeOK
<1>7. ASSUME Finishes, inst \in Screens
      PROVE  /\ tasks' \in [Screens -> Seq(Tasks)] /\ SavesHaveText'
             /\ open' \in BOOLEAN /\ timer' \in BOOLEAN /\ saving' \in BOOLEAN
             /\ reload' \in BOOLEAN /\ text' \in Data
    <2>1. tasks' \in [Screens -> Seq(Tasks)] /\ SavesHaveText'
        BY <1>5, <1>7 DEF Finishes
    <2>2. open' \in BOOLEAN /\ timer' \in BOOLEAN /\ saving' \in BOOLEAN /\ reload' \in BOOLEAN
        BY <1>7, Zenon DEF Finishes
    <2> QED  BY <1>7, <2>1, <2>2, EntryAssumption DEF Finishes
<1>8. CASE Back
    <2>1. CASE Finishes
        BY <1>0, <1>1, <1>7, <1>8, <2>1 DEF Back, Typed, EntryTypeOK
    <2>2. CASE /\ tasks' = Queue("close", text) /\ saving' = TRUE /\ timer' = FALSE
               /\ UNCHANGED <<open, reload, text>>
        <3>1. tasks' \in [Screens -> Seq(Tasks)] /\ SavesHaveText'
            BY <1>0, <1>5, <1>8, <2>2 DEF Back, EntryTypeOK
        <3>2. timer' \in BOOLEAN /\ saving' \in BOOLEAN
            BY <2>2, Zenon
        <3> QED  BY <1>0, <1>1, <1>8, <2>2, <3>1, <3>2 DEF Back, Typed, EntryTypeOK
    <2> QED  BY <1>8, <2>1, <2>2 DEF Back
<1>9. CASE Posted
    <2>1. posts' \in Seq([inst : Screens, op : {"saved", "failed", "finish"}])
        BY <1>0, <1>9 DEF Posted, EntryTypeOK
    <2>2. CASE open /\ Finishes
        BY <1>0, <1>1, <1>7, <1>9, <2>1, <2>2 DEF Posted, Typed, EntryTypeOK
    <2>3. CASE /\ \/ saving' = FALSE
                  \/ saving' = saving
               /\ UNCHANGED <<open, timer, reload, text, tasks>>
        <3>1. saving' \in BOOLEAN
            BY <1>0, <2>3, Zenon DEF EntryTypeOK
        <3>2. SavesHaveText'
            BY <1>0, <2>3 DEF SavesHaveText
        <3> QED  BY <1>0, <1>1, <1>9, <2>1, <2>3, <3>1, <3>2 DEF Posted, Typed, EntryTypeOK
    <2> QED  BY <1>9, <2>2, <2>3 DEF Posted
<1>10. CASE ListLoads
    <2>1. DOMAIN shown' \subseteq Ids /\ \A i \in DOMAIN shown' : shown'[i] \in Data
        BY <1>0, <1>10, RowsAreOwn, RowsTyped DEF ListLoads
    <2>2. SavesHaveText' /\ reload' \in BOOLEAN
        BY <1>0, <1>10, Zenon DEF ListLoads, SavesHaveText
    <2> QED  BY <1>0, <1>1, <1>10, <2>1, <2>2 DEF ListLoads, Typed, EntryTypeOK
<1>11. CASE \E i \in Screens : Runs(i)
    BY <1>11, RunsTyped, MakesTyped DEF Runs
<1>12. CASE UNCHANGED entryVars
    BY <1>0, <1>1, <1>12 DEF entryVars, Typed, EntryTypeOK, SavesHaveText
<1> QED
    BY <1>2, <1>3, <1>4, <1>6, <1>8, <1>9, <1>10, <1>11, <1>12 DEF EntryNext

-----------------------------------------------------------------------------
(* One entry per object: it has one id, and saves under it, or it has none,  *)
(* or its connection is gone for good.                                       *)

\* Objects that are not there yet.
Untouched ==
    \A i \in Screens : i > inst =>
        conn[i] = "none" /\ created[i] = {} /\ tasks[i] = <<>>

\* The connection is set up once, by the first task of all.
ConnectFirst ==
    \A i \in Screens : \A k \in DOMAIN tasks[i] :
        tasks[i][k].op = "connect" =>
            k = 1 /\ conn[i] \in {"none", "made"} /\ created[i] = {}

OneId ==
    \A i \in Screens :
        \/ created[i] = {}
        \/ \E id \in Ids : /\ created[i] = {id}
                           /\ entryId[i] = id \/ conn[i] = "dead"

SessionInv == created \in [Screens -> SUBSET Ids] /\ Untouched /\ ConnectFirst /\ OneId

LEMMA SessionInit == EntryInit => SessionInv
BY DEF EntryInit, SessionInv, Untouched, ConnectFirst, OneId

\* What an executed save adds to the ids of its object.
LEMMA ExecutesAdds ==
    ASSUME SessionInv, Typed, NEW i \in Screens, NEW t \in Data,
           NEW result \in Ids \cup {-1}, Executes(i, t, result)
    PROVE  /\ created' \in [Screens -> SUBSET Ids]
           /\ \A j \in Screens : j # i => created'[j] = created[j]
           /\ \/ created'[i] = created[i] /\ result \in {-1, entryId[i]}
              \/ entryId[i] = NewEntry /\ result \in Ids
                 /\ created'[i] = created[i] \cup {result}
<1>1. CASE /\ entryId[i] = NewEntry
           /\ created' = IF result > 0
                         THEN [created EXCEPT ![i] = @ \cup {result}]
                         ELSE created
    <2>1. CASE result = -1
        BY <1>1, <2>1 DEF SessionInv
    <2>2. CASE result \in Ids
        <3>1. result > 0
            BY <2>2, Bounds DEF Ids
        <3> QED  BY <1>1, <2>2, <3>1 DEF SessionInv
    <2> QED  BY <2>1, <2>2
<1>2. CASE UNCHANGED created /\ result \in {-1, entryId[i]}
    BY <1>2 DEF SessionInv
<1> QED  BY <1>1, <1>2 DEF Executes

LEMMA RunsOneEntry ==
    ASSUME Typed, SessionInv, NEW i \in Screens, RunsTask(i)
    PROVE  SessionInv'
<1> DEFINE task == tasks[i][1]
<1>1. /\ 1 \in DOMAIN tasks[i] /\ task \in Tasks
      /\ IsSave(task) => task.text \in Data
      /\ \/ RunsSave(i, task) \/ RunsClose(i, task)
         \/ RunsConnect(i, task) \/ RunsDisconnect(i, task)
      /\ UNCHANGED <<mainVars, opening>>
      /\ \A j \in Screens : j # i => tasks'[j] = tasks[j]
      /\ \A k \in DOMAIN tasks'[i] : /\ k \in Nat /\ k + 1 \in DOMAIN tasks[i]
                                    /\ tasks'[i][k] = tasks[i][k + 1]
    BY RunsTakesFirst
<1>2. tasks[i] # <<>> /\ DOMAIN tasks[i] \subseteq Nat \ {0}
    BY <1>1 DEF Typed, EntryTypeOK
<1>3. \A k \in DOMAIN tasks'[i] : tasks'[i][k].op # "connect"
    <2>1. ASSUME NEW k \in DOMAIN tasks'[i], tasks[i][k + 1].op = "connect" PROVE FALSE
        <3>1. k + 1 \in DOMAIN tasks[i] /\ k \in Nat
            BY <1>1, <2>1
        <3>2. k + 1 = 1
            BY <2>1, <3>1 DEF SessionInv, ConnectFirst
        <3>3. k = 0
            BY <3>1, <3>2
        <3>4. tasks' \in [Screens -> Seq(Tasks)]
            BY RunsTyped DEF Typed, EntryTypeOK
        <3> QED  BY <2>1, <3>3, <3>4
    <2> QED  BY <1>1, <2>1
<1>4. task.op = "connect" => created[i] = {}
    BY <1>1 DEF SessionInv, ConnectFirst
<1> HIDE DEF task
<1>5. /\ conn \in [Screens -> Conns]
      /\ entryId \in [Screens -> 0..MaxId] /\ inst' = inst /\ inst \in 0..MaxScreens
    BY <1>1 DEF Typed, EntryTypeOK, mainVars
<1>6. i <= inst
    BY <1>2, <1>5, Bounds DEF SessionInv, Untouched, Screens
<1>7. ASSUME created' \in [Screens -> SUBSET Ids],
             \A j \in Screens : j # i => created'[j] = created[j] /\ conn'[j] = conn[j]
                                           /\ entryId'[j] = entryId[j],
             \/ created'[i] = {}
             \/ \E id \in Ids : created'[i] = {id} /\ (entryId'[i] = id \/ conn'[i] = "dead")
      PROVE  SessionInv'
    <2>1. Untouched'
        <3>1. \A j \in Screens : j > inst => j # i
            BY <1>5, <1>6, Bounds DEF Screens
        <3> QED  BY <1>1, <1>5, <1>7, <3>1 DEF SessionInv, Untouched
    <2>2. ConnectFirst'
        BY <1>1, <1>3, <1>7 DEF SessionInv, ConnectFirst
    <2>3. OneId'
        BY <1>7 DEF SessionInv, OneId
    <2> QED  BY <1>7, <2>1, <2>2, <2>3 DEF SessionInv
<1>8. ASSUME NEW t \in Data, Succeeds(i, t) PROVE SessionInv'
    <2>1. PICK result \in Ids : Executes(i, t, result) /\ Adopts(i, result)
        BY <1>8 DEF Succeeds
    <2>2. conn[i] = "open" /\ conn' = conn
        BY <1>8 DEF Succeeds
    <2>3. entryId'[i] = result /\ \A j \in Screens : j # i => entryId'[j] = entryId[j]
        BY <1>5, <2>1 DEF Adopts
    <2>4. /\ created' \in [Screens -> SUBSET Ids]
          /\ \A j \in Screens : j # i => created'[j] = created[j]
          /\ \/ created'[i] = created[i] /\ result \in {-1, entryId[i]}
             \/ entryId[i] = NewEntry /\ result \in Ids
                /\ created'[i] = created[i] \cup {result}
        BY <2>1, ExecutesAdds
    <2>5. result # -1 /\ NewEntry \notin Ids
        BY Bounds DEF Ids, NewEntry
    <2>6. \/ created[i] = {}
          \/ \E id \in Ids : created[i] = {id} /\ entryId[i] = id
        BY <2>2 DEF SessionInv, OneId
    <2> QED  BY <1>7, <2>2, <2>3, <2>4, <2>5, <2>6
<1>9. ASSUME NEW t \in Data, FailsToSave(i, t) PROVE SessionInv'
    <2>1. entryId' = entryId
        BY <1>9 DEF FailsToSave
    <2>2. CASE conn[i] = "open" /\ Executes(i, t, -1) /\ UNCHANGED conn
        <3>1. /\ created' \in [Screens -> SUBSET Ids]
              /\ \A j \in Screens : j # i => created'[j] = created[j]
              /\ created'[i] = created[i]
            <4>1. -1 \notin Ids
                BY Bounds DEF Ids
            <4> QED  BY <2>2, <4>1, ExecutesAdds
        <3> QED  BY <1>7, <2>1, <2>2, <3>1 DEF SessionInv, OneId
    <2>3. CASE /\ conn[i] = "open" /\ conn' = [conn EXCEPT ![i] = "dead"]
               /\ \E result \in Ids : Executes(i, t, result)
        <3>1. PICK result \in Ids : Executes(i, t, result)
            BY <2>3
        <3>2. /\ created' \in [Screens -> SUBSET Ids]
              /\ \A j \in Screens : j # i => created'[j] = created[j]
              /\ \/ created'[i] = created[i]
                 \/ entryId[i] = NewEntry /\ created'[i] = created[i] \cup {result}
            BY <3>1, ExecutesAdds
        <3>3. conn'[i] = "dead" /\ \A j \in Screens : j # i => conn'[j] = conn[j]
            BY <1>5, <2>3
        <3>4. \/ created[i] = {}
              \/ \E id \in Ids : created[i] = {id} /\ entryId[i] = id
            BY <2>3 DEF SessionInv, OneId
        <3>5. NewEntry \notin Ids
            BY Bounds DEF Ids, NewEntry
        <3> QED  BY <1>7, <2>1, <3>1, <3>2, <3>3, <3>4, <3>5
    <2>4. CASE UNCHANGED created /\ (conn' = conn \/ conn' = [conn EXCEPT ![i] = "dead"])
        BY <1>5, <1>7, <2>1, <2>4 DEF SessionInv, OneId
    <2> QED  BY <1>9, <2>2, <2>3, <2>4 DEF FailsToSave
<1>10. CASE RunsSave(i, task) \/ RunsClose(i, task)
    BY <1>1, <1>8, <1>9, <1>10 DEF RunsSave, RunsClose, IsSave
<1>11. CASE RunsConnect(i, task)
    <2>1. /\ created' = created /\ entryId' = entryId /\ created[i] = {}
          /\ \E c : conn' = [conn EXCEPT ![i] = c]
        BY <1>4, <1>11 DEF RunsConnect
    <2> QED  BY <1>5, <1>7, <2>1 DEF SessionInv
<1>12. CASE RunsDisconnect(i, task)
    <2>1. /\ created' = created /\ entryId' = entryId
          /\ conn' = [conn EXCEPT ![i] = "dead"]
        BY <1>12 DEF RunsDisconnect
    <2> QED  BY <1>5, <1>7, <2>1 DEF SessionInv, OneId
<1> QED  BY <1>1, <1>10, <1>11, <1>12

LEMMA MakesOneEntry ==
    ASSUME Typed, SessionInv, NEW i \in Screens, Makes(i)
    PROVE  SessionInv'
<1>1. /\ conn[i] = "none" /\ conn' = [conn EXCEPT ![i] = "made"]
      /\ UNCHANGED <<entryId, tasks, created, inst>> /\ tasks[i] # <<>>
    BY DEF Makes, mainVars, historyVars
<1>2. Untouched'
    BY <1>1 DEF SessionInv, Untouched
<1>3. ConnectFirst'
    BY <1>1 DEF SessionInv, ConnectFirst, Typed, EntryTypeOK
<1>4. OneId'
    BY <1>1 DEF SessionInv, OneId, Typed, EntryTypeOK
<1> QED  BY <1>1, <1>2, <1>3, <1>4 DEF SessionInv

\* What an action of the main thread has to show.
LEMMA SessionStays ==
    ASSUME Typed, SessionInv, UNCHANGED <<conn, entryId, created, inst>>,
           inst \in Screens \/ UNCHANGED tasks,
           \/ UNCHANGED tasks
           \/ \E op \in {"save", "close", "disconnect"}, t \in Data \cup {NoText} :
                (op # "disconnect" => t \in Data) /\ tasks' = Queue(op, t)
    PROVE  SessionInv'
<1>1. CASE UNCHANGED tasks
    BY <1>1 DEF SessionInv, Untouched, ConnectFirst, OneId
<1>2. ASSUME NEW op \in {"save", "close", "disconnect"}, NEW t \in Data \cup {NoText},
             op # "disconnect" => t \in Data, tasks' = Queue(op, t), inst \in Screens
      PROVE  SessionInv'
    <2>1. /\ \A i \in Screens : \A k \in DOMAIN tasks'[i] :
               \/ k \in DOMAIN tasks[i] /\ tasks'[i][k] = tasks[i][k]
               \/ tasks'[i][k] = [op |-> op, text |-> t]
          /\ \A i \in Screens : i # inst => tasks'[i] = tasks[i]
        BY <1>2, Queued
    <2>2. \A i \in Screens : i > inst => i # inst
        BY DEF Screens
    <2>3. Untouched'
        BY <2>1, <2>2 DEF SessionInv, Untouched
    <2>4. ConnectFirst'
        BY <2>1 DEF SessionInv, ConnectFirst
    <2> QED  BY <2>3, <2>4 DEF SessionInv, OneId
<1> QED  BY <1>1, <1>2

\* An object is created: its executor is a new one.
LEMMA SessionCreates ==
    ASSUME Typed, SessionInv, inst + 1 \in Screens, inst' = inst + 1,
           UNCHANGED <<conn, created>>, NEW id,
           entryId' = [entryId EXCEPT ![inst + 1] = id],
           NEW q \in [Screens -> Seq(Tasks)],
           tasks' = [q EXCEPT ![inst + 1] = <<Connect>>],
           \A i \in Screens : i > inst => q[i] = tasks[i],
           \A i \in Screens : \A k \in DOMAIN q[i] :
               \/ k \in DOMAIN tasks[i] /\ q[i][k] = tasks[i][k]
               \/ q[i][k].op # "connect"
    PROVE  SessionInv'
<1>1. /\ inst \in Nat /\ entryId \in [Screens -> 0..MaxId]
      /\ Screens \subseteq Nat
    BY Bounds DEF Typed, EntryTypeOK, Screens
<1>2. /\ tasks'[inst + 1] = <<Connect>>
      /\ DOMAIN <<Connect>> = {1}
      /\ \A i \in Screens : i # inst + 1 => tasks'[i] = q[i]
    BY CreatedQueue
<1>3. conn[inst + 1] = "none" /\ created[inst + 1] = {}
    BY <1>1 DEF SessionInv, Untouched
<1>4. Untouched'
    <2>1. ASSUME NEW i \in Screens, i > inst + 1 PROVE i > inst /\ i # inst + 1
        BY <1>1, <2>1
    <2> QED  BY <1>2, <2>1 DEF SessionInv, Untouched
<1>5. ConnectFirst'
    <2>1. ASSUME NEW i \in Screens, NEW k \in DOMAIN tasks'[i], tasks'[i][k].op = "connect"
          PROVE  k = 1 /\ conn'[i] \in {"none", "made"} /\ created'[i] = {}
        <3>1. CASE i = inst + 1
            BY <1>2, <1>3, <2>1, <3>1
        <3>2. CASE i # inst + 1
            BY <1>2, <2>1, <3>2 DEF SessionInv, ConnectFirst
        <3> QED  BY <3>1, <3>2
    <2> QED  BY <2>1, Zenon DEF ConnectFirst
<1>6. OneId'
    <2>1. \A i \in Screens : i # inst + 1 => entryId'[i] = entryId[i]
        BY <1>1
    <2> QED  BY <1>3, <2>1 DEF SessionInv, OneId
<1> QED  BY <1>4, <1>5, <1>6 DEF SessionInv

LEMMA SessionStep == Typed /\ SessionInv /\ [EntryNext]_entryVars => SessionInv'
<1> SUFFICES ASSUME Typed, SessionInv, [EntryNext]_entryVars PROVE SessionInv'
    OBVIOUS
<1>0. /\ tasks \in [Screens -> Seq(Tasks)] /\ inst \in 0..MaxScreens
      /\ open => inst \in Screens
      /\ text \in Data
    BY DEF Typed, EntryTypeOK, Screens
<1>1. CASE Opens
    <2>1. /\ inst + 1 \in Screens /\ inst' = inst + 1
          /\ entryId' = [entryId EXCEPT ![inst + 1] = intent'.id]
        BY <1>0, <1>1, Bounds DEF Opens, Creates, Screens
    <2> QED  BY <1>0, <1>1, <2>1, SessionCreates DEF Opens
<1>2. CASE Rebuilt
    <2>1. /\ inst + 1 \in Screens /\ inst' = inst + 1 /\ inst \in Screens
          /\ entryId' = [entryId EXCEPT ![inst + 1] = intent'.id]
        BY <1>0, <1>2, Bounds DEF Rebuilt, Creates, Screens
    <2> DEFINE q == Queue("disconnect", NoText)
    <2>2. /\ q \in [Screens -> Seq(Tasks)]
          /\ \A i \in Screens : \A k \in DOMAIN q[i] :
               \/ k \in DOMAIN tasks[i] /\ q[i][k] = tasks[i][k]
               \/ q[i][k] = [op |-> "disconnect", text |-> NoText]
          /\ \A i \in Screens : i # inst => q[i] = tasks[i]
        BY <2>1, Queued
    <2>3. tasks' = [q EXCEPT ![inst + 1] = <<Connect>>]
        BY <1>2 DEF Rebuilt
    <2> HIDE DEF q
    <2>4. \A i \in Screens : i > inst => q[i] = tasks[i]
        BY <1>0, <2>2, Bounds DEF Screens
    <2>5. \A i \in Screens : \A k \in DOMAIN q[i] :
              \/ k \in DOMAIN tasks[i] /\ q[i][k] = tasks[i][k]
              \/ q[i][k].op # "connect"
        BY <2>2
    <2> QED  BY <1>2, <2>1, <2>2, <2>3, <2>4, <2>5, SessionCreates DEF Rebuilt
<1>3. CASE Types \/ ListLoads
    BY <1>3, SessionStays DEF Types, ListLoads, historyVars
<1>4. CASE Autosaves
    BY <1>0, <1>4, SessionStays DEF Autosaves
<1>5. CASE Back
    BY <1>0, <1>5, SessionStays DEF Back, Finishes
<1>6. CASE Posted
    BY <1>0, <1>6, SessionStays DEF Posted, Finishes, historyVars
<1>7. CASE \E i \in Screens : Runs(i)
    BY <1>7, RunsOneEntry, MakesOneEntry DEF Runs
<1>8. CASE UNCHANGED entryVars
    BY <1>8, SessionStays DEF entryVars
<1> QED  BY <1>1, <1>2, <1>3, <1>4, <1>5, <1>6, <1>7, <1>8 DEF EntryNext

LEMMA SessionInvariant == EntrySpec => [](Typed /\ SessionInv)
<1>1. EntryInit => Typed /\ SessionInv
    BY TypedInit, SessionInit
<1>2. Typed /\ SessionInv /\ [EntryNext]_entryVars => (Typed /\ SessionInv)'
    BY TypedStep, SessionStep
<1> QED  BY <1>1, <1>2, PTL DEF EntrySpec

\* No field leaves its type, whatever the threads do and however often the
\* screen is opened and rebuilt (EntryActivity.java:20-40).
THEOREM EntryTypeCorrect == EntrySpec => []EntryTypeOK
<1>1. Typed /\ SessionInv => EntryTypeOK
    BY DEF Typed
<1> QED  BY <1>1, SessionInvariant, PTL

\* However many saves are queued by the timer and by Back, before and after the
\* screen is gone, one object adds one entry at most (EntryActivity.java:179-184).
THEOREM OneEntryPerObject == EntrySpec => []OneEntryPerScreen
<1>1. ASSUME SessionInv PROVE OneEntryPerScreen
    <2>1. ASSUME NEW i \in Screens PROVE Cardinality(created[i]) <= 1
        <3>1. CASE created[i] = {}
            BY <3>1, FS_EmptySet
        <3>2. ASSUME NEW id \in Ids, created[i] = {id}
              PROVE  Cardinality(created[i]) <= 1
            <4>1. Cardinality({id}) = 1
                BY FS_Singleton
            <4> QED  BY <3>2, <4>1
        <3> QED  BY <1>1, <3>1, <3>2 DEF SessionInv, OneId
    <2> QED  BY <2>1 DEF OneEntryPerScreen
<1> QED  BY <1>1, SessionInvariant, PTL

-----------------------------------------------------------------------------
(* The save that an object queued last: it is still in the queue, behind all *)
(* others, or the server has its text.                                       *)

Held(i, t) ==
    /\ entryId[i] \in Own(Me)
    /\ writer[entryId[i]] = i => entries[entryId[i]].data = t

\* Task k is a save and no later one is.
LastSave(i, k) ==
    /\ IsSave(tasks[i][k])
    /\ \A l \in DOMAIN tasks[i] : l > k => ~IsSave(tasks[i][l])

Pending(i) == \A k \in DOMAIN tasks[i] : LastSave(i, k) => tasks[i][k].text = last[i]

Arrived(i) == last[i] # NoText /\ Waiting(i) = {} => Held(i, last[i])

SavedInv ==
    /\ last \in [Screens -> Data \cup {NoText}] /\ writer \in [Ids -> 0..MaxScreens]
    /\ \A i \in Screens : i > inst => last[i] = NoText /\ tasks[i] = <<>>
    /\ \A i \in Screens : Pending(i) /\ Arrived(i)

\* A save that is executed writes one entry of the user and no other.
LEMMA ExecutesWritesOne ==
    ASSUME Typed, NEW i \in Screens, NEW t \in Data, NEW result, Executes(i, t, result)
    PROVE  /\ \A e \in Own(Me) :
                /\ e \in Own(Me)'
                /\ e # result => entries'[e] = entries[e] /\ writer'[e] = writer[e]
           /\ result \in Ids =>
                result \in Own(Me)' /\ entries'[result].data = t /\ writer'[result] = i
           /\ writer' = [e \in Ids |-> IF e = result THEN i ELSE writer[e]]
<1>0. /\ StorageTypeOK /\ Me \in Users /\ -1 \notin Ids
      /\ writer' = [e \in Ids |-> IF e = result THEN i ELSE writer[e]]
    BY Bounds DEF Typed, EntryTypeOK, Executes, Ids
<1>1. ASSUME UNCHANGED entries, result \notin Ids
      PROVE  /\ \A e \in Own(Me) :
                  /\ e \in Own(Me)'
                  /\ e # result => entries'[e] = entries[e] /\ writer'[e] = writer[e]
             /\ result \notin Ids
    BY <1>0, <1>1 DEF Own, Live
<1>2. ASSUME result \in Ids, entries'[result] # NoRow, entries'[result].owner = Me,
             entries'[result].data = t,
             \A j \in Ids : j # result => entries'[j] = entries[j]
      PROVE  /\ \A e \in Own(Me) :
                  /\ e \in Own(Me)'
                  /\ e # result => entries'[e] = entries[e] /\ writer'[e] = writer[e]
             /\ result \in Own(Me)' /\ entries'[result].data = t /\ writer'[result] = i
    BY <1>0, <1>2 DEF Own, Live
<1>3. CASE \E ts \in Stamps : storage_add_entry(Me, t, ts, result)
    <2>1. PICK ts \in Stamps : storage_add_entry(Me, t, ts, result)
        BY <1>3
    <2>2. \/ /\ result \in Ids
             /\ entries'[result] = [owner |-> Me, ts |-> ts, data |-> t]
             /\ entries'[result] # NoRow
             /\ \A j \in Ids : j # result => entries'[j] = entries[j]
          \/ result = -1 /\ UNCHANGED entries
        BY <1>0, <2>1, AddAddsOne DEF storageVars
    <2> QED  BY <1>0, <1>1, <1>2, <2>2
<1>4. CASE \E rc \in {0, -1} : /\ storage_update_entry(Me, entryId[i], t, rc)
                               /\ result = IF rc = 0 THEN entryId[i] ELSE -1
    <2>1. PICK rc \in {0, -1} : /\ storage_update_entry(Me, entryId[i], t, rc)
                               /\ result = IF rc = 0 THEN entryId[i] ELSE -1
        BY <1>4
    <2>2. \/ /\ rc = 0 /\ entryId[i] \in Own(Me) /\ entries'[entryId[i]] # NoRow
             /\ entries'[entryId[i]].owner = Me /\ entries'[entryId[i]].data = t
             /\ \A j \in Ids : j # entryId[i] => entries'[j] = entries[j]
          \/ rc = -1 /\ UNCHANGED entries
        BY <1>0, <2>1, UpdateChangesOne DEF storageVars
    <2>3. CASE rc = 0
        <3>1. result = entryId[i] /\ result \in Ids
            BY <2>1, <2>2, <2>3 DEF Own, Live
        <3> QED  BY <1>0, <1>2, <2>2, <2>3, <3>1
    <2>4. CASE rc = -1
        BY <1>0, <1>1, <2>1, <2>2, <2>4
    <2> QED  BY <2>1, <2>3, <2>4
<1> QED  BY <1>0, <1>3, <1>4 DEF Executes

\* An executed save of one object takes nothing from what another has left.
LEMMA OthersHeld ==
    ASSUME Typed, NEW i \in Screens, NEW j \in Screens, i # j, NEW t, Held(j, t),
           entryId'[j] = entryId[j],
           \/ UNCHANGED <<entries, writer>>
           \/ \E x \in Data : \E result : Executes(i, x, result)
    PROVE  Held(j, t)'
<1>1. CASE UNCHANGED <<entries, writer>>
    BY <1>1 DEF Held, Own, Live
<1>2. CASE \E x \in Data : \E result : Executes(i, x, result)
    <2>1. PICK x : x \in Data /\ \E result : Executes(i, x, result)
        BY <1>2
    <2>2. PICK result : Executes(i, x, result)
        BY <2>1
    <2> DEFINE e == entryId[j]
    <2>3. e \in Own(Me) /\ e \in Ids /\ (writer[e] = j => entries[e].data = t)
        BY DEF Held, Own, Live
    <2> HIDE DEF e
    <2>4. /\ e \in Own(Me)'
          /\ e # result => entries'[e] = entries[e] /\ writer'[e] = writer[e]
          /\ writer' = [d \in Ids |-> IF d = result THEN i ELSE writer[d]]
        BY <2>1, <2>2, <2>3, ExecutesWritesOne
    <2>5. e = result => writer'[e] = i
        BY <2>3, <2>4
    <2>6. writer'[e] = j => entries'[e].data = t
        BY <2>3, <2>4, <2>5
    <2> QED  BY <2>4, <2>6 DEF Held, e
<1> QED  BY <1>1, <1>2

\* A save that succeeds leaves its text under the id of its object.
LEMMA SucceedsHeld ==
    ASSUME Typed, NEW i \in Screens, NEW t \in Data, Succeeds(i, t)
    PROVE  Held(i, t)'
<1>1. PICK result \in Ids : Executes(i, t, result) /\ Adopts(i, result)
    BY DEF Succeeds
<1>2. entryId'[i] = result
    BY <1>1 DEF Typed, EntryTypeOK, Adopts
<1>3. result \in Own(Me)' /\ entries'[result].data = t
    BY <1>1, ExecutesWritesOne
<1> QED  BY <1>2, <1>3 DEF Held

LEMMA WriterTyped ==
    ASSUME Typed, writer \in [Ids -> 0..MaxScreens], NEW i \in Screens,
           NEW t \in Data, NEW result, Executes(i, t, result)
    PROVE  writer' \in [Ids -> 0..MaxScreens]
<1>1. i \in 0..MaxScreens
    BY Bounds DEF Screens
<1> QED  BY <1>1 DEF Executes

\* A task of an executor is done.
LEMMA RunsSaved ==
    ASSUME Typed, SavedInv, NEW i \in Screens, RunsTask(i)
    PROVE  SavedInv'
<1> DEFINE task == tasks[i][1]
<1>1. /\ 1 \in DOMAIN tasks[i] /\ task \in Tasks
      /\ IsSave(task) => task.text \in Data
      /\ \/ RunsSave(i, task) \/ RunsClose(i, task)
         \/ RunsConnect(i, task) \/ RunsDisconnect(i, task)
      /\ UNCHANGED <<mainVars, opening>>
      /\ \A j \in Screens : j # i => tasks'[j] = tasks[j]
      /\ \A k \in Nat : k \in DOMAIN tasks'[i] <=> k >= 1 /\ k + 1 \in DOMAIN tasks[i]
      /\ \A k \in DOMAIN tasks'[i] : /\ k \in Nat /\ k + 1 \in DOMAIN tasks[i]
                                    /\ tasks'[i][k] = tasks[i][k + 1]
    BY RunsTakesFirst
<1>2. /\ DOMAIN tasks[i] \subseteq Nat \ {0} /\ IsFiniteSet(DOMAIN tasks[i])
      /\ tasks[i] # <<>> /\ tasks[i] \in Seq(Tasks)
    <2>1. tasks[i] \in Seq(Tasks)
        BY DEF Typed, EntryTypeOK
    <2>2. Len(tasks[i]) \in Nat /\ DOMAIN tasks[i] = 1..Len(tasks[i])
        BY <2>1
    <2>3. IsFiniteSet(1..Len(tasks[i]))
        BY <2>2, FS_Interval
    <2> QED  BY <1>1, <2>1, <2>2, <2>3
<1>3. inst' = inst /\ ~(i > inst)
    BY <1>1, <1>2 DEF mainVars, SavedInv
<1>4. /\ last \in [Screens -> Data \cup {NoText}] /\ writer \in [Ids -> 0..MaxScreens]
      /\ Pending(i) /\ Arrived(i)
    BY DEF SavedInv
<1> HIDE DEF task
<1>5. ASSUME \/ UNCHANGED <<entries, writer>>
             \/ \E x \in Data : \E result : Executes(i, x, result),
             \A j \in Screens : j # i => entryId'[j] = entryId[j] /\ last'[j] = last[j],
             last' \in [Screens -> Data \cup {NoText}], Pending(i)', Arrived(i)'
      PROVE  SavedInv'
    <2>1. writer' \in [Ids -> 0..MaxScreens]
        BY <1>4, <1>5, WriterTyped
    <2>2. \A j \in Screens : j > inst => last'[j] = NoText /\ tasks'[j] = <<>>
        BY <1>1, <1>3, <1>5 DEF SavedInv
    <2>3. ASSUME NEW j \in Screens, j # i PROVE Pending(j)' /\ Arrived(j)'
        <3>1. tasks'[j] = tasks[j] /\ last'[j] = last[j] /\ entryId'[j] = entryId[j]
            BY <1>1, <1>5, <2>3
        <3>2. Pending(j) /\ Arrived(j)
            BY DEF SavedInv
        <3>3. Pending(j)'
            BY <3>1, <3>2 DEF Pending, LastSave, IsSave
        <3>4. Held(j, last[j]) => Held(j, last[j])'
            BY <1>5, <2>3, <3>1, OthersHeld
        <3>5. Arrived(j)'
            BY <3>1, <3>2, <3>4 DEF Arrived, Waiting, IsSave, Held
        <3> QED  BY <3>3, <3>5
    <2> QED  BY <1>3, <1>5, <2>1, <2>2, <2>3 DEF SavedInv
<1>6. ASSUME last'[i] = last[i] PROVE Pending(i)'
    <2>1. ASSUME NEW k \in DOMAIN tasks'[i], LastSave(i, k)'
          PROVE  tasks'[i][k].text = last[i]
        <3>1. k \in Nat /\ k + 1 \in DOMAIN tasks[i] /\ tasks'[i][k] = tasks[i][k + 1]
            BY <1>1, <2>1
        <3>2. ASSUME NEW l \in DOMAIN tasks[i], l > k + 1
              PROVE  ~IsSave(tasks[i][l])
            <4>1. l - 1 \in Nat /\ l - 1 >= 1 /\ l - 1 > k /\ (l - 1) + 1 = l
                BY <1>2, <3>1, <3>2
            <4>2. l - 1 \in DOMAIN tasks'[i] /\ tasks'[i][l - 1] = tasks[i][l]
                BY <1>1, <4>1
            <4>3. ~IsSave(tasks'[i][l - 1])
                BY <2>1, <4>1, <4>2 DEF LastSave, IsSave
            <4> QED  BY <4>2, <4>3
        <3>3. IsSave(tasks[i][k + 1])
            BY <2>1, <3>1 DEF LastSave, IsSave
        <3>4. LastSave(i, k + 1)
            BY <3>2, <3>3 DEF LastSave
        <3> QED  BY <1>4, <3>1, <3>4 DEF Pending
    <2> QED  BY <1>6, <2>1 DEF Pending
<1>7. ASSUME Waiting(i)' = {} PROVE Waiting(i) \subseteq {1}
    <2>1. ASSUME NEW l \in DOMAIN tasks[i], l # 1 PROVE ~IsSave(tasks[i][l])
        <3>1. l - 1 \in Nat /\ l - 1 >= 1 /\ (l - 1) + 1 = l
            BY <1>2, <2>1
        <3>2. l - 1 \in DOMAIN tasks'[i] /\ tasks'[i][l - 1] = tasks[i][l]
            BY <1>1, <3>1
        <3> QED  BY <1>7, <3>2 DEF Waiting, IsSave
    <2> QED  BY <2>1 DEF Waiting
<1>8. IsSave(task) => 1 \in Waiting(i)
    BY <1>1 DEF Waiting, task
<1>9. ASSUME IsSave(task), Succeeds(i, task.text) PROVE SavedInv'
    <2>1. /\ last' = last /\ \A j \in Screens : j # i => entryId'[j] = entryId[j]
          /\ \E x \in Data : \E result : Executes(i, x, result)
        BY <1>1, <1>9 DEF Succeeds, Adopts, Typed, EntryTypeOK
    <2>2. ASSUME Waiting(i)' = {} PROVE Held(i, last[i])'
        <3>1. LastSave(i, 1)
            <4>1. ASSUME NEW l \in DOMAIN tasks[i], l > 1 PROVE ~IsSave(tasks[i][l])
                <5>1. l # 1
                    BY <1>2, <4>1
                <5> QED  BY <1>7, <2>2, <5>1 DEF Waiting
            <4>2. IsSave(tasks[i][1])
                BY <1>9 DEF task
            <4> QED  BY <4>1, <4>2 DEF LastSave
        <3>2. task.text = last[i]
            BY <1>1, <1>4, <3>1 DEF Pending, task
        <3> QED  BY <1>1, <1>9, <2>1, <3>2, SucceedsHeld DEF Held
    <2>3. Arrived(i)'
        BY <2>1, <2>2 DEF Arrived, Held
    <2> QED  BY <1>4, <1>5, <1>6, <2>1, <2>3
<1>10. ASSUME IsSave(task), FailsToSave(i, task.text) PROVE SavedInv'
    <2>1. /\ entryId' = entryId
          /\ last' = IF Cardinality(Waiting(i)) = 1 THEN [last EXCEPT ![i] = NoText] ELSE last
        BY <1>10 DEF FailsToSave
    <2>2. \/ UNCHANGED <<entries, writer>>
          \/ \E x \in Data : \E result : Executes(i, x, result)
        BY <1>1, <1>10 DEF FailsToSave, storageVars
    <2>3. Waiting(i) = {1} <=> Cardinality(Waiting(i)) = 1
        <3>1. IsFiniteSet(Waiting(i))
            BY <1>2, FS_Subset DEF Waiting
        <3>2. Cardinality(Waiting(i)) = 1 <=> \E x : Waiting(i) = {x}
            BY <3>1, FS_Singleton
        <3> QED  BY <1>8, <1>10, <3>2
    <2>4. CASE Waiting(i) = {1}
        <3>1. last' = [last EXCEPT ![i] = NoText]
            BY <2>1, <2>3, <2>4
        <3>2. ASSUME NEW k \in DOMAIN tasks'[i] PROVE ~IsSave(tasks'[i][k])
            <4>1. k \in Nat /\ k >= 1 /\ k + 1 \in DOMAIN tasks[i]
                  /\ tasks'[i][k] = tasks[i][k + 1]
                BY <1>1
            <4>2. k + 1 \notin Waiting(i)
                BY <2>4, <4>1
            <4> QED  BY <4>1, <4>2 DEF Waiting
        <3>3. Pending(i)' /\ Arrived(i)'
            BY <1>4, <3>1, <3>2 DEF Pending, LastSave, Arrived, IsSave
        <3>4. /\ last' \in [Screens -> Data \cup {NoText}]
              /\ \A j \in Screens : j # i => last'[j] = last[j]
            BY <1>4, <3>1
        <3> QED  BY <1>5, <2>1, <2>2, <3>3, <3>4
    <2>5. CASE Waiting(i) # {1}
        <3>1. last' = last
            BY <2>1, <2>3, <2>5
        <3>2. Waiting(i)' # {}
            BY <1>7, <1>8, <1>10, <2>5
        <3>3. Arrived(i)'
            BY <3>2 DEF Arrived
        <3> QED  BY <1>4, <1>5, <1>6, <2>1, <2>2, <3>1, <3>3
    <2> QED  BY <2>4, <2>5
<1>11. CASE RunsConnect(i, task) \/ RunsDisconnect(i, task)
    <2>1. ~IsSave(task) /\ UNCHANGED <<entries, entryId, last, writer>>
        BY <1>11 DEF RunsConnect, RunsDisconnect, IsSave, storageVars
    <2>2. 1 \notin Waiting(i)
        BY <2>1 DEF Waiting, task
    <2>3. Waiting(i)' = {} => Waiting(i) = {}
        BY <1>7, <2>2
    <2>4. Arrived(i)'
        BY <1>4, <2>1, <2>3 DEF Arrived, Held, Own, Live
    <2> QED  BY <1>4, <1>5, <1>6, <2>1, <2>4
<1> QED  BY <1>1, <1>9, <1>10, <1>11 DEF RunsSave, RunsClose, IsSave

\* A task is put behind the others of its object.
LEMMA QueuedSaved ==
    ASSUME Typed, SavedInv, inst \in Screens, UNCHANGED <<inst, entries, entryId, writer>>,
           NEW op \in {"save", "close", "disconnect"}, NEW t \in Data \cup {NoText},
           op # "disconnect" => t \in Data,
           tasks' = Queue(op, t),
           last' = IF op = "disconnect" THEN last ELSE [last EXCEPT ![inst] = t]
    PROVE  SavedInv'
<1> DEFINE task == [op |-> op, text |-> t]
<1>1. tasks[inst] \in Seq(Tasks) /\ task \in Tasks /\ inst \in Nat
    <2>1. inst \in Nat
        BY Bounds DEF Screens
    <2> QED  BY <2>1 DEF Typed, EntryTypeOK, Tasks
<1>2. /\ tasks'[inst] = Append(tasks[inst], task)
      /\ \A j \in Screens : j # inst => tasks'[j] = tasks[j]
    BY Queued
<1> HIDE DEF task
<1> DEFINE end == Len(tasks[inst]) + 1
<1>3. /\ end \in Nat \ {0} /\ DOMAIN tasks'[inst] = 1..end /\ tasks'[inst][end] = task
      /\ DOMAIN tasks[inst] = 1..(end - 1)
      /\ \A k \in 1..(end - 1) : tasks'[inst][k] = tasks[inst][k]
    BY <1>1, <1>2
<1> HIDE DEF end
<1>4. /\ last \in [Screens -> Data \cup {NoText}] /\ writer \in [Ids -> 0..MaxScreens]
      /\ Pending(inst) /\ Arrived(inst)
    BY DEF SavedInv
<1>5. ASSUME Pending(inst)', Arrived(inst)',
             last' \in [Screens -> Data \cup {NoText}],
             \A j \in Screens : j # inst => last'[j] = last[j]
      PROVE  SavedInv'
    <2>1. \A j \in Screens : j > inst => last'[j] = NoText /\ tasks'[j] = <<>>
        BY <1>1, <1>2, <1>5 DEF SavedInv
    <2>2. ASSUME NEW j \in Screens, j # inst PROVE Pending(j)' /\ Arrived(j)'
        BY <1>2, <1>5, <2>2
           DEF SavedInv, Pending, Arrived, LastSave, Waiting, IsSave, Held, Own, Live
    <2> QED  BY <1>4, <1>5, <2>1, <2>2 DEF SavedInv
<1>6. CASE op = "disconnect"
    <2>1. ~IsSave(task) /\ last' = last
        BY <1>6 DEF IsSave, task
    <2>2. ASSUME NEW k \in DOMAIN tasks'[inst], LastSave(inst, k)'
          PROVE  tasks'[inst][k].text = last[inst]
        <3>1. IsSave(tasks'[inst][k])
            BY <2>2 DEF LastSave, IsSave
        <3>2. k \in 1..(end - 1)
            BY <1>3, <2>1, <3>1
        <3>3. ASSUME NEW l \in DOMAIN tasks[inst], l > k PROVE ~IsSave(tasks[inst][l])
            <4>1. l \in DOMAIN tasks'[inst] /\ tasks'[inst][l] = tasks[inst][l]
                BY <1>3, <3>3
            <4>2. ~IsSave(tasks'[inst][l])
                BY <2>2, <3>3, <4>1 DEF LastSave, IsSave
            <4> QED  BY <4>1, <4>2
        <3>4. LastSave(inst, k)
            BY <1>3, <3>1, <3>2, <3>3 DEF LastSave
        <3> QED  BY <1>3, <1>4, <3>2, <3>4 DEF Pending
    <2>3. Pending(inst)'
        BY <2>1, <2>2 DEF Pending
    <2>4. Waiting(inst)' = {} => Waiting(inst) = {}
        BY <1>3 DEF Waiting, IsSave
    <2>5. Arrived(inst)'
        BY <1>4, <2>1, <2>4 DEF Arrived, Held, Own, Live
    <2> QED  BY <1>4, <1>5, <2>1, <2>3, <2>5
<1>7. CASE op # "disconnect"
    <2>1. IsSave(task) /\ task.text = t /\ t \in Data /\ last' = [last EXCEPT ![inst] = t]
        BY <1>7 DEF IsSave, task
    <2>2. last'[inst] = t /\ last' \in [Screens -> Data \cup {NoText}]
          /\ \A j \in Screens : j # inst => last'[j] = last[j]
        BY <1>4, <2>1
    <2>3. end \in DOMAIN tasks'[inst] /\ IsSave(tasks'[inst][end])
        BY <1>3, <2>1
    <2>4. ASSUME NEW k \in DOMAIN tasks'[inst], LastSave(inst, k)'
          PROVE  tasks'[inst][k].text = t
        <3>1. k \in 1..end
            BY <1>3
        <3>2. ~(end > k)
            BY <2>3, <2>4 DEF LastSave, IsSave
        <3>3. k = end
            BY <1>3, <3>1, <3>2
        <3> QED  BY <1>3, <2>1, <3>3
    <2>5. Pending(inst)'
        BY <2>2, <2>4 DEF Pending
    <2>6. Arrived(inst)'
        BY <2>3 DEF Arrived, Waiting, IsSave
    <2> QED  BY <1>5, <2>2, <2>5, <2>6
<1> QED  BY <1>6, <1>7

\* An object is created: it has saved nothing.
LEMMA SavedCreates ==
    ASSUME Typed, SavedInv, inst + 1 \in Screens, inst' = inst + 1,
           UNCHANGED <<entries, last, writer>>,
           \E id : entryId' = [entryId EXCEPT ![inst + 1] = id],
           tasks' \in [Screens -> Seq(Tasks)], tasks'[inst + 1] = <<Connect>>,
           \A i \in Screens : i > inst + 1 => tasks'[i] = tasks[i],
           \A i \in Screens : i # inst + 1 =>
               \/ tasks'[i] = tasks[i]
               \/ tasks'[i] = Append(tasks[i], [op |-> "disconnect", text |-> NoText])
    PROVE  SavedInv'
<1>1. inst \in Nat /\ Screens \subseteq Nat /\ \A i \in Screens : tasks[i] \in Seq(Tasks)
    BY Bounds DEF Typed, EntryTypeOK, Screens
<1>2. \A i \in Screens : i # inst + 1 => entryId'[i] = entryId[i]
    BY DEF Typed, EntryTypeOK
<1>3. \A i \in Screens : i > inst + 1 => last'[i] = NoText /\ tasks'[i] = <<>>
    BY <1>1 DEF SavedInv
<1>4. ASSUME NEW i \in Screens, i = inst + 1 PROVE Pending(i)' /\ Arrived(i)'
    <2>1. i > inst /\ last'[i] = NoText
        BY <1>1, <1>4 DEF SavedInv
    <2>2. \A k \in DOMAIN tasks'[i] : ~IsSave(tasks'[i][k])
        BY <1>4 DEF IsSave, Connect
    <2> QED  BY <2>1, <2>2 DEF Pending, LastSave, Arrived, IsSave
<1>5. ASSUME NEW i \in Screens, i # inst + 1 PROVE Pending(i)' /\ Arrived(i)'
    <2>0. Pending(i) /\ Arrived(i) /\ entryId'[i] = entryId[i]
        BY <1>2, <1>5 DEF SavedInv
    <2>1. CASE tasks'[i] = tasks[i]
        BY <2>0, <2>1 DEF Pending, LastSave, Arrived, Waiting, IsSave, Held, Own, Live
    <2>2. CASE tasks'[i] = Append(tasks[i], [op |-> "disconnect", text |-> NoText])
        <3> DEFINE task == [op |-> "disconnect", text |-> NoText]
                   end == Len(tasks[i]) + 1
        <3>1. /\ end \in Nat \ {0} /\ DOMAIN tasks'[i] = 1..end /\ tasks'[i][end] = task
              /\ DOMAIN tasks[i] = 1..(end - 1)
              /\ \A k \in 1..(end - 1) : tasks'[i][k] = tasks[i][k]
            <4>1. task \in Tasks /\ tasks[i] \in Seq(Tasks)
                BY <1>1 DEF Tasks
            <4> QED  BY <2>2, <4>1
        <3>2. ~IsSave(task)
            BY DEF IsSave
        <3> HIDE DEF task, end
        <3>3. ASSUME NEW k \in DOMAIN tasks'[i], LastSave(i, k)'
              PROVE  tasks'[i][k].text = last[i]
            <4>1. IsSave(tasks'[i][k])
                BY <3>3 DEF LastSave, IsSave
            <4>2. k \in 1..(end - 1)
                BY <3>1, <3>2, <4>1
            <4>3. ASSUME NEW l \in DOMAIN tasks[i], l > k PROVE ~IsSave(tasks[i][l])
                <5>1. l \in DOMAIN tasks'[i] /\ tasks'[i][l] = tasks[i][l]
                    BY <3>1, <4>3
                <5>2. ~IsSave(tasks'[i][l])
                    BY <3>3, <4>3, <5>1 DEF LastSave, IsSave
                <5> QED  BY <5>1, <5>2
            <4>4. LastSave(i, k)
                BY <3>1, <4>1, <4>2, <4>3 DEF LastSave
            <4> QED  BY <2>0, <3>1, <4>2, <4>4 DEF Pending
        <3>4. Waiting(i)' = {} => Waiting(i) = {}
            BY <3>1 DEF Waiting, IsSave
        <3>5. Arrived(i)'
            BY <2>0, <3>4 DEF Arrived, Held, Own, Live
        <3> QED  BY <3>3, <3>5 DEF Pending
    <2> QED  BY <1>5, <2>1, <2>2
<1>6. \A i \in Screens : Pending(i)' /\ Arrived(i)'
    BY <1>4, <1>5
<1>7. \A i \in Screens : i > inst' => last'[i] = NoText /\ tasks'[i] = <<>>
    BY <1>3
<1>8. last' \in [Screens -> Data \cup {NoText}] /\ writer' \in [Ids -> 0..MaxScreens]
    BY DEF SavedInv
<1> QED  BY <1>6, <1>7, <1>8 DEF SavedInv

LEMMA SavedStep == Typed /\ SavedInv /\ [EntryNext]_entryVars => SavedInv'
<1> SUFFICES ASSUME Typed, SavedInv, [EntryNext]_entryVars PROVE SavedInv'
    OBVIOUS
<1>0. /\ inst \in 0..MaxScreens /\ (open => inst \in Screens)
      /\ text \in Data /\ tasks \in [Screens -> Seq(Tasks)]
    BY DEF Typed, EntryTypeOK, Screens
<1>1. CASE Opens
    <2>1. /\ inst + 1 \in Screens /\ inst' = inst + 1
          /\ entryId' = [entryId EXCEPT ![inst + 1] = intent'.id]
          /\ tasks' = [tasks EXCEPT ![inst + 1] = <<Connect>>]
        BY <1>0, <1>1, Bounds DEF Opens, Creates, Screens
    <2>2. /\ tasks' \in [Screens -> Seq(Tasks)] /\ tasks'[inst + 1] = <<Connect>>
          /\ \A i \in Screens : i # inst + 1 => tasks'[i] = tasks[i]
        BY <1>0, <2>1, CreatedQueue
    <2>3. \A i \in Screens : i > inst + 1 => i # inst + 1
        BY <1>0 DEF Screens
    <2> QED  BY <1>1, <2>1, <2>2, <2>3, SavedCreates DEF Opens
<1>2. CASE Rebuilt
    <2>1. /\ inst + 1 \in Screens /\ inst' = inst + 1 /\ inst \in Screens
          /\ entryId' = [entryId EXCEPT ![inst + 1] = intent'.id]
        BY <1>0, <1>2, Bounds DEF Rebuilt, Creates, Screens
    <2> DEFINE q == Queue("disconnect", NoText)
    <2>2. /\ q \in [Screens -> Seq(Tasks)]
          /\ q[inst] = Append(tasks[inst], [op |-> "disconnect", text |-> NoText])
          /\ \A i \in Screens : i # inst => q[i] = tasks[i]
        BY <2>1, Queued
    <2>3. tasks' = [q EXCEPT ![inst + 1] = <<Connect>>]
        BY <1>2 DEF Rebuilt
    <2> HIDE DEF q
    <2>4. /\ tasks' \in [Screens -> Seq(Tasks)] /\ tasks'[inst + 1] = <<Connect>>
          /\ \A i \in Screens : i # inst + 1 => tasks'[i] = q[i]
        BY <2>1, <2>2, <2>3, CreatedQueue
    <2>5. \A i \in Screens : i > inst + 1 => i # inst + 1 /\ i # inst
        BY <1>0 DEF Screens
    <2>6. \A i \in Screens : i > inst + 1 => tasks'[i] = tasks[i]
        BY <2>2, <2>4, <2>5
    <2>7. \A i \in Screens : i # inst + 1 =>
             \/ tasks'[i] = tasks[i]
             \/ tasks'[i] = Append(tasks[i], [op |-> "disconnect", text |-> NoText])
        BY <2>2, <2>4
    <2> QED  BY <1>2, <2>1, <2>4, <2>6, <2>7, SavedCreates DEF Rebuilt
<1>3. ASSUME UNCHANGED <<inst, entries, entryId, tasks, last, writer>> PROVE SavedInv'
    BY <1>3 DEF SavedInv, Pending, Arrived, LastSave, Waiting, IsSave, Held, Own, Live
<1>4. CASE Types \/ ListLoads \/ UNCHANGED entryVars
    BY <1>3, <1>4 DEF Types, ListLoads, historyVars, entryVars
<1>5. CASE Autosaves
    BY <1>0, <1>3, <1>5, QueuedSaved DEF Autosaves
<1>6. CASE Back
    BY <1>0, <1>6, QueuedSaved DEF Back, Finishes
<1>7. CASE Posted
    BY <1>0, <1>3, <1>7, QueuedSaved DEF Posted, Finishes, historyVars
<1>8. CASE \E i \in Screens : Runs(i)
    BY <1>3, <1>8, RunsSaved DEF Runs, Makes, storageVars, mainVars, historyVars
<1> QED  BY <1>1, <1>2, <1>4, <1>5, <1>6, <1>7, <1>8 DEF EntryNext

\* Of every object, whether its screen is there, is gone or was rebuilt: once the
\* executor has done its saves and the last of them has not failed, the server has
\* that one's text under the object's id, unless another object has written the
\* entry since (EntryActivity.java:25, 67-73, 97-98 and 179-184).
THEOREM LastSaveAlwaysWins == EntrySpec => []LastSaveWins
<1>1. EntryInit => Typed /\ SavedInv
    <2>1. ASSUME EntryInit PROVE SavedInv
        BY <2>1, Bounds
           DEF EntryInit, SavedInv, Pending, Arrived, LastSave
    <2> QED  BY <2>1, TypedInit
<1>2. Typed /\ SavedInv /\ [EntryNext]_entryVars => (Typed /\ SavedInv)'
    BY TypedStep, SavedStep
<1>3. SavedInv => LastSaveWins
    BY DEF SavedInv, Arrived, Held, LastSaveWins
<1> QED  BY <1>1, <1>2, <1>3, PTL DEF EntrySpec
=============================================================================
