------------------------- MODULE AndroidMainProofs --------------------------
(***************************************************************************)
(* Theorems of AndroidMain, for any entries and queues, with loads that    *)
(* fail, connections that are lost and the app started again.              *)
(***************************************************************************)
EXTENDS AndroidMain, StorageProofs, SequenceTheorems, FiniteSetTheorems

-----------------------------------------------------------------------------
(* The inductive invariant: a delete that is queued was confirmed. *)

DeletesConfirmed ==
    \A k \in DOMAIN tasks : tasks[k].op = "delete" => tasks[k].id \in confirmed

MainInv == MainTypeOK /\ DeletesConfirmed

-----------------------------------------------------------------------------
(* Lemmas. *)

LEMMA Bounds == MaxId \in Nat \ {0} /\ Me \in Users /\ Ids = 1..MaxId
BY MaxIdAssumption, MainAssumption DEF Ids

\* A list that has a row for each of some ids.
LEMMA RowsTyped ==
    ASSUME NEW ids \in SUBSET Ids, NEW rows \in [1..Cardinality(ids) -> ids]
    PROVE  rows \in Lists
<1>1. IsFiniteSet(Ids) /\ Cardinality(Ids) = MaxId
    BY FS_Interval, Bounds
<1>2. Cardinality(ids) \in Nat /\ Cardinality(ids) <= MaxId
    BY <1>1, FS_Subset, FS_CardinalityType
<1> QED  BY <1>2 DEF Lists

\* What a GET hands over.
LEMMA SortedTyped ==
    ASSUME NEW kept \in SUBSET Own(Me), NEW rows \in Sorted(kept)
    PROVE  rows \in Lists
<1>1. kept \subseteq Ids
    BY DEF Own, Live
<1>2. rows \in [1..Cardinality(kept) -> kept]
    BY DEF Sorted
<1> QED  BY <1>1, <1>2, RowsTyped

LEMMA LateTyped ==
    ASSUME StorageTypeOK, NEW rows \in LateLists
    PROVE  rows \in Lists
<1>1. PICK ids \in SUBSET (1..seq) : rows \in SetToSeqs(ids)
    BY DEF LateLists
<1>2. ids \subseteq Ids
    BY <1>1, Bounds DEF StorageTypeOK
<1>3. rows \in [1..Cardinality(ids) -> ids]
    BY <1>1 DEF SetToSeqs
<1> QED  BY <1>2, <1>3, RowsTyped

\* list.remove(pos).
LEMMA RemovedTyped ==
    ASSUME NEW rows \in Seq(Ids), NEW pos \in DOMAIN rows
    PROVE  RemoveAt(rows, pos) \in Seq(Ids) /\ Len(RemoveAt(rows, pos)) = Len(rows) - 1
<1>1. pos \in 1..Len(rows) /\ Len(rows) \in Nat /\ \A i \in 1..Len(rows) : rows[i] \in Ids
    BY LenProperties, ElementOfSeq
<1>2. SubSeq(rows, 1, pos - 1) \in Seq(Ids) /\ Len(SubSeq(rows, 1, pos - 1)) = pos - 1
    BY <1>1, SubSeqProperties
<1>3. /\ SubSeq(rows, pos + 1, Len(rows)) \in Seq(Ids)
      /\ Len(SubSeq(rows, pos + 1, Len(rows))) = Len(rows) - pos
    BY <1>1, SubSeqProperties
<1> DEFINE above == SubSeq(rows, 1, pos - 1)
           below == SubSeq(rows, pos + 1, Len(rows))
<1>4. RemoveAt(rows, pos) = above \o below
    BY DEF RemoveAt
<1> HIDE DEF above, below
<1>5. /\ above \in Seq(Ids) /\ Len(above) = pos - 1
      /\ below \in Seq(Ids) /\ Len(below) = Len(rows) - pos
    BY <1>2, <1>3 DEF above, below
<1>6. above \o below \in Seq(Ids) /\ Len(above \o below) = Len(above) + Len(below)
    BY <1>5, ConcatProperties
<1>7. (pos - 1) + (Len(rows) - pos) = Len(rows) - 1
    BY <1>1
<1> QED  BY <1>4, <1>5, <1>6, <1>7

\* A task is put at the end of the queue.
LEMMA TaskAppended ==
    ASSUME MainInv, NEW task \in Tasks, tasks' = Append(tasks, task),
           confirmed \subseteq confirmed', task.op = "delete" => task.id \in confirmed'
    PROVE  tasks' \in Seq(Tasks) /\ DeletesConfirmed'
<1>1. tasks \in Seq(Tasks)
    BY DEF MainInv, MainTypeOK
<1>2. /\ tasks' \in Seq(Tasks) /\ DOMAIN tasks' = 1..(Len(tasks) + 1)
      /\ DOMAIN tasks = 1..Len(tasks) /\ Len(tasks) \in Nat
      /\ \A k \in 1..Len(tasks) : tasks'[k] = tasks[k]
      /\ tasks'[Len(tasks) + 1] = task
    BY <1>1
<1> QED  BY <1>2 DEF MainInv, DeletesConfirmed

\* The executor takes the first task.
LEMMA TaskTaken ==
    ASSUME MainInv, tasks # <<>>
    PROVE  /\ Head(tasks) \in Tasks /\ Tail(tasks) \in Seq(Tasks)
           /\ Head(tasks).op = "delete" => Head(tasks).id \in confirmed
           /\ \A k \in DOMAIN Tail(tasks) : Tail(tasks)[k].op = "delete"
                                              => Tail(tasks)[k].id \in confirmed
<1>1. tasks \in Seq(Tasks)
    BY DEF MainInv, MainTypeOK
<1>2. /\ Head(tasks) \in Tasks /\ Tail(tasks) \in Seq(Tasks)
      /\ Len(Tail(tasks)) = Len(tasks) - 1
      /\ \A k \in 1..Len(Tail(tasks)) : Tail(tasks)[k] = tasks[k + 1]
    BY <1>1, HeadTailProperties
<1>3. /\ Len(tasks) \in Nat \ {0} /\ DOMAIN tasks = 1..Len(tasks)
      /\ DOMAIN Tail(tasks) = 1..Len(Tail(tasks))
    BY <1>1, <1>2, EmptySeq, LenProperties
<1>4. Head(tasks) = tasks[1] /\ 1 \in DOMAIN tasks
    BY <1>1, <1>3
<1>5. \A k \in 1..Len(Tail(tasks)) : k + 1 \in DOMAIN tasks
    BY <1>2, <1>3
<1> QED  BY <1>2, <1>3, <1>4, <1>5 DEF MainInv, DeletesConfirmed

LEMMA PostTyped ==
    ASSUME MainInv, NEW p \in Results, Post(p)
    PROVE  posts' \in Seq(Results)
BY DEF MainInv, MainTypeOK, Post

LEMMA TaskKinds ==
    /\ Connect \in Tasks /\ Connect.op = "connect"
    /\ Load \in Tasks /\ Load.op = "load"
    /\ \A task \in Tasks : task.op = "delete" => task.pos \in Ids /\ task.id \in Ids
BY DEF Tasks, Connect, Load

LEMMA ResultKinds ==
    /\ [op |-> "connected"] \in Results /\ [op |-> "error"] \in Results
    /\ \A pos \in Ids : [op |-> "remove", pos |-> pos] \in Results
    /\ \A rows \in Lists : [op |-> "show", list |-> rows] \in Results
BY DEF Results

\* The editor takes no row away.
LEMMA AddKeepsRows ==
    ASSUME StorageTypeOK, NEW data \in Data, NEW ts \in Stamps, NEW id \in Ids,
           storage_add_entry(Me, data, ts, id)
    PROVE  \A j \in Ids : entries[j] # NoRow => entries'[j] # NoRow
<1>1. /\ entries'[id] = [owner |-> Me, ts |-> ts, data |-> data]
      /\ entries'[id] # NoRow
      /\ \A j \in Ids : j # id => entries'[j] = entries[j]
    BY AddAddsOne, MainAssumption, MaxIdAssumption DEF Ids
<1> QED  BY <1>1

-----------------------------------------------------------------------------
(* The invariant is inductive. *)

LEMMA MainInvInit == MainInit => MainInv
<1> SUFFICES ASSUME MainInit PROVE MainInv
    OBVIOUS
<1>1. StorageTypeOK
    <2>1. PICK ts \in Stamps, data \in Data :
            entries = [i \in Ids |-> IF i > seq THEN NoRow
                                     ELSE [owner |-> Me, ts |-> ts, data |-> data]]
        BY DEF MainInit
    <2>2. [owner |-> Me, ts |-> ts, data |-> data] \in Row
        BY Bounds DEF Row
    <2> QED  BY <2>1, <2>2, Bounds DEF MainInit, StorageTypeOK
<1>2. tasks \in Seq(Tasks) /\ DeletesConfirmed
    BY TaskKinds DEF MainInit, DeletesConfirmed
<1>3. posts \in Seq(Results) /\ list \in Lists
    BY Bounds DEF MainInit, Lists
<1>4. up \in BOOLEAN /\ status \in BOOLEAN
    BY Zenon DEF MainInit
<1> QED  BY <1>1, <1>2, <1>3, <1>4 DEF MainInit, MainInv, MainTypeOK, Conns

LEMMA MainInvStep == MainInv /\ [MainNext]_mainVars => MainInv'
<1> SUFFICES ASSUME MainInv, [MainNext]_mainVars PROVE MainInv'
    OBVIOUS
<1>0. /\ StorageTypeOK /\ up \in BOOLEAN /\ status \in BOOLEAN
      /\ list \in Seq(Ids) /\ Len(list) <= MaxId /\ Len(list) \in Nat
      /\ DOMAIN list = 1..Len(list)
      /\ conn \in Conns /\ editor \in {"none", "open", "left"}
      /\ dialog \in {NoDialog} \cup [kind : {"menu", "question"}, pos : Ids]
      /\ tasks \in Seq(Tasks) /\ posts \in Seq(Results) /\ DeletesConfirmed
    BY DEF MainInv, MainTypeOK, Lists
<1>1. ASSUME UNCHANGED storageVars PROVE StorageTypeOK'
    BY <1>0, <1>1 DEF storageVars, StorageTypeOK
<1>2. ASSUME loadEntries, UNCHANGED confirmed
      PROVE  /\ status' \in BOOLEAN /\ tasks' \in Seq(Tasks) /\ DeletesConfirmed'
    <2>1. status' \in BOOLEAN
        BY <1>0, <1>2, Zenon DEF loadEntries
    <2>2. tasks' \in Seq(Tasks) /\ DeletesConfirmed'
        BY <1>0, <1>2, TaskAppended, TaskKinds DEF loadEntries, DeletesConfirmed
    <2> QED  BY <2>1, <2>2
<1>3. CASE PressesReload \/ EditorReturns
    BY <1>0, <1>1, <1>2, <1>3 DEF PressesReload, EditorReturns, MainInv, MainTypeOK
<1>4. CASE EditorSaves
    <2>1. StorageTypeOK'
        BY <1>0, <1>4, StorageTyped, Bounds DEF EditorSaves, Texts
    <2> QED  BY <1>0, <1>4, <2>1
             DEF EditorSaves, viewVars, MainInv, MainTypeOK, DeletesConfirmed
<1>5. ASSUME UNCHANGED <<storageVars, up, list, conn, status, tasks, posts, confirmed>>,
             editor' \in {"none", "open", "left"},
             dialog' \in {NoDialog} \cup [kind : {"menu", "question"}, pos : Ids]
      PROVE  MainInv'
    BY <1>0, <1>1, <1>5 DEF MainInv, MainTypeOK, DeletesConfirmed
<1>6. CASE LongPress
    <2>1. PICK pos \in DOMAIN list : dialog' = [kind |-> "menu", pos |-> pos]
        BY <1>6 DEF LongPress
    <2>2. pos \in Ids
        BY <1>0, <2>1, Bounds
    <2> QED  BY <1>0, <1>5, <1>6, <2>1, <2>2 DEF LongPress
<1>7. CASE ChoosesDelete
    BY <1>0, <1>5, <1>7 DEF ChoosesDelete, Asked
<1>8. CASE Cancels \/ OpensEditor
    BY <1>0, <1>5, <1>8 DEF Cancels, OpensEditor
<1>9. CASE Confirms
    <2>1. CASE /\ dialog.pos \in DOMAIN list
               /\ tasks' = Append(tasks, [op |-> "delete", pos |-> dialog.pos,
                                          id |-> list[dialog.pos]])
               /\ confirmed' = confirmed \cup {list[dialog.pos]}
               /\ UNCHANGED up
        <3> DEFINE task == [op |-> "delete", pos |-> dialog.pos, id |-> list[dialog.pos]]
        <3>1. list[dialog.pos] \in Ids /\ dialog.pos \in Ids
            BY <1>0, <2>1, Bounds
        <3>2. task \in Tasks /\ task.id \in confirmed' /\ confirmed \subseteq confirmed'
            BY <2>1, <3>1 DEF Tasks
        <3>3. tasks' = Append(tasks, task)
            BY <2>1
        <3> HIDE DEF task
        <3>4. tasks' \in Seq(Tasks) /\ DeletesConfirmed'
            BY <3>2, <3>3, TaskAppended
        <3> QED  BY <1>0, <1>1, <1>9, <2>1, <3>4 DEF Confirms, MainInv, MainTypeOK
    <2>2. CASE up' = FALSE /\ UNCHANGED <<tasks, confirmed>>
        <3>1. up' \in BOOLEAN
            BY <2>2, Zenon
        <3>2. DeletesConfirmed'
            BY <1>0, <2>2 DEF DeletesConfirmed
        <3> QED  BY <1>0, <1>1, <1>9, <2>2, <3>1, <3>2 DEF Confirms, MainInv, MainTypeOK
    <2> QED  BY <1>9, <2>1, <2>2 DEF Confirms
<1>10. CASE Posted
    <2> DEFINE post == Head(posts)
    <2>1. post \in Results /\ posts' \in Seq(Results)
        BY <1>0, <1>10, HeadTailProperties DEF Posted
    <2>2. Shows(post) \/ Removes(post) \/ Connected(post) \/ Reports(post)
        BY <1>10 DEF Posted
    <2>3. /\ StorageTypeOK' /\ UNCHANGED <<conn, dialog, editor, confirmed>>
        BY <1>1, <1>10 DEF Posted
    <2> HIDE DEF post
    <2>4. CASE Shows(post)
        <3>1. list' \in Lists
            BY <2>1, <2>4 DEF Shows, Results
        <3>2. status' \in BOOLEAN
            BY <2>4, Zenon DEF Shows
        <3> QED  BY <1>0, <2>1, <2>3, <2>4, <3>1, <3>2
                 DEF Shows, MainInv, MainTypeOK, DeletesConfirmed
    <2>5. CASE Removes(post)
        <3>1. list' \in Lists
            BY <1>0, <2>5, RemovedTyped, Bounds DEF Removes, Lists
        <3>2. up' \in BOOLEAN
            BY <1>0, <2>5, Zenon DEF Removes
        <3> QED  BY <1>0, <2>1, <2>3, <2>5, <3>1, <3>2
                 DEF Removes, MainInv, MainTypeOK, DeletesConfirmed
    <2>6. CASE Connected(post)
        BY <1>0, <1>2, <2>1, <2>3, <2>6 DEF Connected, MainInv, MainTypeOK
    <2>7. CASE Reports(post)
        <3>1. status' \in BOOLEAN
            BY <2>7, Zenon DEF Reports
        <3> QED  BY <1>0, <2>1, <2>3, <2>7, <3>1
                 DEF Reports, MainInv, MainTypeOK, DeletesConfirmed
    <2> QED  BY <2>2, <2>4, <2>5, <2>6, <2>7
<1>11. CASE Runs
    <2> DEFINE task == Head(tasks)
    <2>1. /\ task \in Tasks /\ Tail(tasks) \in Seq(Tasks)
          /\ \A k \in DOMAIN Tail(tasks) : Tail(tasks)[k].op = "delete"
                                             => Tail(tasks)[k].id \in confirmed
        BY <1>11, TaskTaken DEF Runs
    <2>2. /\ Makes(task) \/ RunsConnect(task) \/ RunsLoad(task) \/ RunsDelete(task)
          /\ UNCHANGED <<list, dialog, editor, confirmed>>
        BY <1>11 DEF Runs
    <2> HIDE DEF task
    <2>3. tasks' = Tail(tasks) => tasks' \in Seq(Tasks) /\ DeletesConfirmed'
        BY <2>1, <2>2 DEF DeletesConfirmed
    <2>4. CASE RunsConnect(task)
        <3>1. posts' \in Seq(Results)
            BY <2>4, PostTyped, ResultKinds DEF RunsConnect
        <3>2. conn' \in Conns /\ tasks' = Tail(tasks)
            BY <2>4 DEF RunsConnect, Conns
        <3> QED  BY <1>0, <1>1, <2>2, <2>3, <2>4, <3>1, <3>2 DEF RunsConnect, MainInv, MainTypeOK
    <2>5. CASE RunsLoad(task)
        <3>0. conn' \in Conns /\ StorageTypeOK'
            BY <1>0, <1>1, <2>5 DEF RunsLoad, Conns
        <3>1. CASE /\ \E kept \in SUBSET Own(Me) : \E rows \in Sorted(kept) :
                        Post([op |-> "show", list |-> rows])
                   /\ tasks' = Tail(tasks) /\ UNCHANGED <<up, status>>
            <4>1. posts' \in Seq(Results)
                BY <3>1, PostTyped, ResultKinds, SortedTyped
            <4> QED  BY <1>0, <2>2, <2>3, <3>0, <3>1, <4>1 DEF MainInv, MainTypeOK
        <3>2. CASE SetsStatus
            <4>1. CASE up' = FALSE /\ UNCHANGED <<status, posts, tasks>>
                <5>1. up' \in BOOLEAN
                    BY <4>1, Zenon
                <5>2. DeletesConfirmed'
                    BY <1>0, <2>2, <4>1 DEF DeletesConfirmed
                <5> QED  BY <1>0, <2>2, <3>0, <4>1, <5>1, <5>2 DEF MainInv, MainTypeOK
            <4>2. CASE /\ UNCHANGED <<up, status>>
                       /\ tasks' = Append(Tail(tasks), Connect)
                       /\ Post([op |-> "error"])
                <5>1. posts' \in Seq(Results)
                    BY <4>2, PostTyped, ResultKinds
                <5>2. /\ tasks' \in Seq(Tasks) /\ DOMAIN tasks' = 1..(Len(Tail(tasks)) + 1)
                      /\ DOMAIN Tail(tasks) = 1..Len(Tail(tasks)) /\ Len(Tail(tasks)) \in Nat
                      /\ \A k \in 1..Len(Tail(tasks)) : tasks'[k] = Tail(tasks)[k]
                      /\ tasks'[Len(Tail(tasks)) + 1] = Connect
                    BY <2>1, <4>2, TaskKinds
                <5>3. DeletesConfirmed'
                    BY <2>1, <2>2, <5>2, TaskKinds DEF DeletesConfirmed
                <5> QED  BY <1>0, <2>2, <3>0, <4>2, <5>1, <5>2, <5>3 DEF MainInv, MainTypeOK
            <4> QED  BY <3>2, <4>1, <4>2 DEF SetsStatus
        <3>3. CASE /\ \E rows \in LateLists : Post([op |-> "show", list |-> rows])
                   /\ tasks' = Tail(tasks) /\ UNCHANGED <<up, status>>
            <4>1. posts' \in Seq(Results)
                BY <1>0, <3>3, PostTyped, ResultKinds, LateTyped
            <4> QED  BY <1>0, <2>2, <2>3, <3>0, <3>3, <4>1 DEF MainInv, MainTypeOK
        <3> QED  BY <2>5, <3>1, <3>2, <3>3 DEF RunsLoad
    <2>6. CASE RunsDelete(task)
        <3>1. task.pos \in Ids
            BY <2>1, <2>6, TaskKinds DEF RunsDelete
        <3>2. posts' \in Seq(Results)
            BY <1>0, <2>6, <3>1, PostTyped, ResultKinds DEF RunsDelete
        <3>3. StorageTypeOK' /\ conn' \in Conns
            BY <1>0, <1>1, <2>6, StorageTyped, Bounds DEF RunsDelete, Conns
        <3>4. tasks' = Tail(tasks)
            BY <2>6 DEF RunsDelete
        <3> QED  BY <1>0, <2>2, <2>3, <2>6, <3>2, <3>3, <3>4 DEF RunsDelete, MainInv, MainTypeOK
    <2>7. CASE Makes(task)
        BY <1>0, <1>1, <2>2, <2>7 DEF Makes, Conns, MainInv, MainTypeOK, DeletesConfirmed
    <2> QED  BY <2>2, <2>4, <2>5, <2>6, <2>7
<1>12. CASE LosesConnection
    BY <1>0, <1>1, <1>12
       DEF LosesConnection, viewVars, Conns, MainInv, MainTypeOK, DeletesConfirmed
<1>13. CASE Restarts
    <2>1. tasks' \in Seq(Tasks) /\ DeletesConfirmed'
        BY <1>13, TaskKinds DEF Restarts, DeletesConfirmed
    <2>2. up' \in BOOLEAN /\ status' \in BOOLEAN
        BY <1>13, Zenon DEF Restarts
    <2>3. posts' \in Seq(Results) /\ list' \in Lists
        BY <1>13, Bounds DEF Restarts, Lists
    <2> QED  BY <1>1, <1>13, <2>1, <2>2, <2>3 DEF Restarts, Conns, MainInv, MainTypeOK
<1>14. CASE UNCHANGED mainVars
    BY <1>5, <1>0, <1>14 DEF mainVars, storageVars
<1> QED
    BY <1>3, <1>4, <1>6, <1>7, <1>8, <1>9, <1>10, <1>11, <1>12, <1>13, <1>14 DEF MainNext

LEMMA MainInvHolds == MainSpec => []MainInv
<1>1. MainInit => MainInv
    BY MainInvInit
<1>2. MainInv /\ [MainNext]_mainVars => MainInv'
    BY MainInvStep
<1> QED  BY <1>1, <1>2, PTL DEF MainSpec

-----------------------------------------------------------------------------
(* Theorems. *)

\* Lists, dialogs, tasks and results stay within their types, and every
\* position in them is one that some list had (MainActivity.java:26-33, 107-160).
THEOREM MainTypeCorrect == MainSpec => []MainTypeOK
<1>1. MainInv => MainTypeOK
    BY DEF MainInv
<1> QED  BY <1>1, MainInvHolds, PTL

\* Whatever is reloaded between the answer and the executor's turn, only entries
\* that stood in the row of an answered question are deleted
\* (MainActivity.java:151-155).
THEOREM OnlyConfirmedDeleted == MainSpec => OnlyConfirmedIsDeleted
<1>1. ASSUME MainInv, MainNext, NEW i \in Ids, entries[i] # NoRow, entries'[i] = NoRow
      PROVE  i \in confirmed
    <2>0. StorageTypeOK
        BY <1>1 DEF MainInv, MainTypeOK
    <2>1. ~EditorSaves
        <3>1. ASSUME NEW ts \in Stamps, NEW data \in Data, NEW id \in Ids,
                     storage_add_entry(Me, data, ts, id)
              PROVE  FALSE
            BY <1>1, <2>0, <3>1, AddKeepsRows
        <3> QED  BY <3>1 DEF EditorSaves, Texts
    <2>2. Runs
        BY <1>1, <2>1 DEF MainNext, PressesReload, OpensEditor, EditorReturns, LongPress,
                          ChoosesDelete, Cancels, Confirms, Posted, LosesConnection, Restarts,
                          storageVars
    <2>3. tasks # <<>> /\ RunsDelete(Head(tasks))
        BY <1>1, <2>2 DEF Runs, Makes, RunsConnect, RunsLoad, storageVars
    <2>4. Head(tasks).op = "delete" /\ \E rc \in {0, -1} : storage_delete_entry(Me, Head(tasks).id, rc)
        BY <1>1, <2>3 DEF RunsDelete, storageVars
    <2>5. Head(tasks).id = i
        BY <1>1, <2>0, <2>4, DeleteRemovesOne, Bounds
    <2> QED  BY <1>1, <2>3, <2>4, <2>5, TaskTaken
<1>2. ASSUME MainInv, [MainNext]_mainVars
      PROVE  [\A i \in Ids : entries[i] # NoRow /\ entries'[i] = NoRow
                               => i \in confirmed]_mainVars
    BY <1>1, <1>2
<1> QED  BY <1>2, MainInvHolds, PTL DEF MainSpec, OnlyConfirmedIsDeleted
=============================================================================
