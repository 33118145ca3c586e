---------------------------- MODULE EditorProofs ----------------------------
(***************************************************************************)
(* Theorems of Editor, for any users, texts, dates, faults and bounds.     *)
(***************************************************************************)
EXTENDS Editor, StorageProofs, FiniteSetTheorems

-----------------------------------------------------------------------------
(* The answers and the queue they wait in. *)

\* The rows of an answer are no more than there are ids.
LEMMA FewRows ==
    ASSUME NEW S \in SUBSET Ids
    PROVE  Cardinality(S) \in 0..MaxId
<1>1. IsFiniteSet(Ids) /\ Cardinality(Ids) = MaxId
    BY FS_Interval, MaxIdAssumption DEF Ids
<1>2. IsFiniteSet(S) /\ Cardinality(S) <= MaxId
    BY <1>1, FS_Subset
<1>3. Cardinality(S) \in Nat
    BY <1>2, FS_CardinalityType
<1> QED  BY <1>2, <1>3, MaxIdAssumption

LEMMA RowsTyped ==
    ASSUME NEW n \in 0..MaxId
    PROVE  Rows(n) \in Seq(Answers)
<1>1. CASE n = 0
    BY <1>1 DEF Rows
<1>2. CASE n # 0
    <2>1. [what |-> "rows", n |-> n] \in Answers
        BY <1>2, MaxIdAssumption DEF Answers, Ids
    <2> QED  BY <1>2, <2>1 DEF Rows
<1> QED  BY <1>1, <1>2

LEMMA AfterLineTyped ==
    ASSUME NEW m \in Answers
    PROVE  AfterLine(m) \in Seq(Answers)
<1>1. CASE m.what = "list"
    <2>1. PICK S \in SUBSET Ids : m.rows \in [S -> Data]
        BY <1>1 DEF Answers
    <2>2. DOMAIN m.rows = S
        BY <2>1
    <2> QED  BY <1>1, <2>2, FewRows, RowsTyped DEF AfterLine
<1>2. CASE m.what = "rows"
    <2>1. m.n \in Ids
        BY <1>2 DEF Answers
    <2>2. m.n - 1 \in 0..MaxId
        BY <2>1, MaxIdAssumption DEF Ids
    <2> QED  BY <1>2, <2>2, RowsTyped DEF AfterLine
<1> QED  BY <1>1, <1>2 DEF AfterLine

\* What the server answers to a GET: rows of its user, or FAIL.
LEMMA GetAnswersTyped ==
    ASSUME StorageTypeOK, NEW m \in GetAnswers
    PROVE  /\ m \in Answers
           /\ m = Fail \/ \E kept \in SUBSET Own(Me) :
                              m = List([i \in kept |-> entries[i].data])
<1>1. CASE m = Fail
    BY <1>1 DEF Fail, Answers
<1>2. CASE \E kept \in SUBSET Ids :
             GetRows(Me, kept) /\ m = List([i \in kept |-> entries[i].data])
    <2>1. PICK kept \in SUBSET Ids :
             GetRows(Me, kept) /\ m = List([i \in kept |-> entries[i].data])
        BY <1>2
    <2>2. kept \in SUBSET Own(Me)
        BY <2>1, RowsAreOwn
    <2>3. \A i \in kept : entries[i].data \in Data
        BY <2>2 DEF StorageTypeOK, Own, Live, Row
    <2>4. [i \in kept |-> entries[i].data] \in [kept -> Data]
        BY <2>3
    <2>5. m \in Answers
        BY <2>1, <2>4 DEF List, Answers
    <2> QED  BY <2>1, <2>2, <2>5
<1> QED  BY <1>1, <1>2 DEF GetAnswers

LEMMA AppendTyped ==
    ASSUME NEW T, NEW queue \in Seq(T), NEW m \in T
    PROVE  /\ Append(queue, m) \in Seq(T) /\ Len(Append(queue, m)) = Len(queue) + 1
           /\ Head(Append(queue, m)) \in T
           /\ Tail(Append(queue, m)) \in Seq(T)
           /\ Len(Tail(Append(queue, m))) = Len(queue)
<1>1. Append(queue, m) \in Seq(T) /\ Len(Append(queue, m)) = Len(queue) + 1
    OBVIOUS
<1>2. Append(queue, m) # <<>>
    <2>1. Len(Append(queue, m)) # 0 /\ Len(<<>>) = 0
        BY <1>1
    <2> QED  BY <2>1
<1> QED  BY <1>1, <1>2

\* The last of a queue is read when there is no other: a connection that is
\* behind stays behind, whatever is read from it.
LEMMA BehindStays ==
    ASSUME NEW T, NEW queue \in Seq(T), NEW m \in T, NEW left \in Seq(T),
           left \o Tail(Append(queue, m)) = <<>>
    PROVE  queue = <<>>
<1>1. Len(left \o Tail(Append(queue, m))) = Len(left) + Len(queue)
    BY AppendTyped
<1>2. Len(left) \in Nat /\ Len(queue) \in Nat
    OBVIOUS
<1>3. Len(left \o Tail(Append(queue, m))) = 0
    <2> DEFINE rest == left \o Tail(Append(queue, m))
    <2>1. rest = <<>>
        OBVIOUS
    <2> HIDE DEF rest
    <2>2. Len(rest) = 0
        BY <2>1
    <2> QED  BY <2>2 DEF rest
<1>4. Len(queue) = 0
    BY <1>1, <1>2, <1>3
<1> QED  BY <1>4

\* On a connection in step the line that is read is that of the answer.
LEMMA InStepReads ==
    ASSUME NEW m
    PROVE  /\ Append(<<>>, m) = <<m>> /\ Head(<<m>>) = m /\ Tail(<<m>>) = <<>>
OBVIOUS

-----------------------------------------------------------------------------
(* Type correctness. *)

\* A save whose success was read returned the id of a row.
Typed ==
    /\ EditorTypeOK
    /\ at = "ok" => new_id \in Ids

\* What the server makes of a save leaves the tables in their types, and the id
\* it answers with is one.
LEMMA ExecutesTyped ==
    ASSUME StorageTypeOK, NEW id \in 0..MaxId, NEW text \in Data,
           NEW result \in -1..MaxId, Executes(id, text, result)
    PROVE  /\ StorageTypeOK'
           /\ result > 0 => result \in Ids
<1>1. CASE id = NewEntry
    <2>1. PICK ts \in Stamps : storage_add_entry(Me, text, ts, result)
        BY <1>1 DEF Executes
    <2> QED  BY <2>1, StorageTyped, MeAssumption, MaxIdAssumption DEF Ids
<1>2. CASE id # NewEntry
    <2>1. PICK rc \in {0, -1} : storage_update_entry(Me, id, text, rc)
        BY <1>2 DEF Executes
    <2>2. id \in Ids \cup {0}
        BY MaxIdAssumption DEF Ids
    <2> QED  BY <2>1, <2>2, StorageTyped, MeAssumption, MaxIdAssumption DEF Ids
<1> QED  BY <1>1, <1>2

LEMMA AnswerToTyped ==
    ASSUME NEW id \in 0..MaxId, NEW result \in -1..MaxId
    PROVE  AnswerTo(id, result) \in Answers
BY MaxIdAssumption DEF AnswerTo, Fail, SavedAs, Answers

LEMMA TakenAsTyped ==
    ASSUME NEW id \in 0..MaxId, NEW m \in Answers
    PROVE  TakenAs(id, m) \in {-1} \cup Ids
<1>1. CASE m.what = "saved" /\ (id = NewEntry <=> m.id > 0)
    <2>1. m.id \in 0..MaxId
        BY <1>1 DEF Answers
    <2> QED  BY <1>1, <2>1, MaxIdAssumption DEF TakenAs, NewEntry, Ids
<1> QED  BY <1>1 DEF TakenAs

LEMMA NothingTyped == DOMAIN Nothing = {}
BY DEF Nothing

LEMMA OpenedTyped == \A data : Opened(data) \in Texts
BY TextsAssumption DEF Opened

\* What a GET makes of the list and of the connection.
LEMMA GetsTyped ==
    ASSUME NEW queue \in Seq(Answers), NEW m \in Answers,
           Gets(Append(queue, m))
    PROVE  /\ DOMAIN list' \subseteq Ids /\ \A i \in DOMAIN list' : list'[i] \in Texts
           /\ unread' \in Seq(Answers)
           /\ unread' = <<>> => queue = <<>>
<1> DEFINE q == Append(queue, m)
<1>0. q \in Seq(Answers) /\ Head(q) \in Answers /\ Tail(q) \in Seq(Answers)
    BY AppendTyped
<1>1. CASE Head(q).what = "list"
    <2>1. PICK left \in {<<>>} \cup {Rows(n) : n \in Ids} :
            GetsRows(Head(q).rows, left) /\ unread' = left \o Tail(q)
        BY <1>1 DEF Gets
    <2>2. left \in Seq(Answers)
        <3>1. \A n \in Ids : Rows(n) \in Seq(Answers)
            BY RowsTyped DEF Ids
        <3>2. <<>> \in Seq(Answers)
            OBVIOUS
        <3> QED  BY <3>1, <3>2
    <2>3. PICK S \in SUBSET Ids : Head(q).rows \in [S -> Data]
        BY <1>0, <1>1 DEF Answers
    <2>4. DOMAIN list' \subseteq Ids /\ \A i \in DOMAIN list' : list'[i] \in Texts
        BY <2>1, <2>3, NothingTyped, OpenedTyped DEF GetsRows
    <2> QED  BY <1>0, <2>1, <2>2, <2>4, BehindStays
<1>2. CASE Head(q).what # "list"
    <2>1. list' = Nothing /\ unread' = AfterLine(Head(q)) \o Tail(q)
        BY <1>2 DEF Gets
    <2>2. AfterLine(Head(q)) \in Seq(Answers)
        BY <1>0, AfterLineTyped
    <2> QED  BY <1>0, <2>1, <2>2, NothingTyped, BehindStays
<1> QED  BY <1>1, <1>2

LEMMA FetchesTyped ==
    ASSUME StorageTypeOK, unread \in Seq(Answers), Fetches
    PROVE  /\ DOMAIN list' \subseteq Ids /\ \A i \in DOMAIN list' : list'[i] \in Texts
           /\ unread' \in Seq(Answers)
           /\ unread' = <<>> => unread = <<>>
<1>1. CASE \E m \in GetAnswers : Gets(Append(unread, m))
    BY <1>1, GetsTyped, GetAnswersTyped
<1>2. CASE list' = Nothing /\ UNCHANGED unread
    BY <1>2, NothingTyped
<1> QED  BY <1>1, <1>2 DEF Fetches

LEMMA StartsTyped ==
    ASSUME StorageTypeOK, Starts
    PROVE  /\ DOMAIN list' \subseteq Ids /\ \A i \in DOMAIN list' : list'[i] \in Texts
           /\ unread' \in Seq(Answers)
<1>1. PICK m \in GetAnswers : Gets(<<m>>)
    BY DEF Starts
<1>2. <<m>> = Append(<<>>, m) /\ <<>> \in Seq(Answers)
    OBVIOUS
<1> QED  BY <1>1, <1>2, GetsTyped, GetAnswersTyped

\* What a save's call makes of the connection and of its answer.
LEMMA ServedReads ==
    ASSUME Typed, Served
    PROVE  \E result \in -1..MaxId :
             /\ Executes(entry_id, buf, result)
             /\ created' = IF entry_id = NewEntry /\ result > 0
                           THEN created + 1 ELSE created
             /\ new_id' \in {-1} \cup Ids
             /\ unread' \in Seq(Answers)
             /\ unread' = <<>> => unread = <<>>
             /\ unread = <<>> => new_id' = TakenAs(entry_id, AnswerTo(entry_id, result))
<1>1. PICK result \in -1..MaxId :
        LET queue == Append(unread, AnswerTo(entry_id, result))
        IN  /\ Executes(entry_id, buf, result)
            /\ new_id' = TakenAs(entry_id, Head(queue))
            /\ unread' = AfterLine(Head(queue)) \o Tail(queue)
            /\ created' = IF entry_id = NewEntry /\ result > 0
                          THEN created + 1 ELSE created
    BY DEF Served
<1> DEFINE m == AnswerTo(entry_id, result)
           q == Append(unread, m)
<1>2. m \in Answers /\ entry_id \in 0..MaxId /\ unread \in Seq(Answers)
    BY AnswerToTyped DEF Typed, EditorTypeOK
<1>3. q \in Seq(Answers) /\ Head(q) \in Answers /\ Tail(q) \in Seq(Answers)
    BY <1>2, AppendTyped
<1>4. AfterLine(Head(q)) \in Seq(Answers)
    BY <1>3, AfterLineTyped
<1>5. unread' \in Seq(Answers) /\ (unread' = <<>> => unread = <<>>)
    <2> HIDE DEF m
    <2> QED  BY <1>1, <1>2, <1>3, <1>4, BehindStays DEF m
<1>6. new_id' \in {-1} \cup Ids
    BY <1>1, <1>2, <1>3, TakenAsTyped
<1>7. unread = <<>> => Head(q) = m
    BY InStepReads
<1> QED  BY <1>1, <1>5, <1>6, <1>7

Commands == [id : 0..MaxId, text : Texts, mine : BOOLEAN]

LEMMA CommandTyped ==
    /\ \A i \in 0..MaxId, t \in Texts, b \in BOOLEAN :
         [id |-> i, text |-> t, mine |-> b] \in Commands
    /\ \A p \in Commands : [p EXCEPT !.mine = FALSE] \in Commands
BY DEF Commands

LEMMA TypedInit == EditorInit => Typed
<1> SUFFICES ASSUME EditorInit PROVE Typed
    OBVIOUS
<1>1. StorageTypeOK
    BY MaxIdAssumption DEF EditorInit, StorageTypeOK
<1>2. <<>> \in Seq(Answers)
    OBVIOUS
<1> QED  BY <1>1, <1>2, NothingTyped, TextsAssumption, MaxIdAssumption
         DEF EditorInit, Typed, EditorTypeOK, Empty, NewEntry

LEMMA TypedStep == Typed /\ [EditorNext]_editorVars => Typed'
<1> SUFFICES ASSUME Typed, [EditorNext]_editorVars PROVE Typed'
    OBVIOUS
<1> USE TextsAssumption, MaxIdAssumption DEF Typed, EditorTypeOK, Empty, NewEntry
<1>0. UNCHANGED storageVars => StorageTypeOK'
    BY DEF StorageTypeOK, storageVars
<1>1. CASE Starts
    BY <1>1, <1>0, StartsTyped DEF Starts, storageVars
<1>2. CASE Reload
    BY <1>2, <1>0, FetchesTyped DEF Reload, storageVars
<1>3. CASE New
    BY <1>3, <1>0, NothingTyped DEF New, Opens, storageVars, historyVars
<1>4. CASE Edit
    BY <1>4, <1>0, NothingTyped DEF Edit, Opens, storageVars, historyVars, Ids
<1>5. CASE Type
    BY <1>5, <1>0 DEF Type, storageVars, historyVars
<1>6. ASSUME Leave PROVE Typed'
    <2>1. pending' \in {NoCommand} \cup Commands
        BY <1>6, CommandTyped DEF Leave, Abandon, Commands
    <2> QED  BY <1>6, <2>1, <1>0, FetchesTyped DEF Leave, Abandon, Commands, storageVars
<1>7. CASE OutOfMemory
    BY <1>7, <1>6 DEF OutOfMemory
<1>8. CASE Esc
    BY <1>8, <1>6, <1>0 DEF Esc, storageVars, historyVars
<1>9. CASE Save
    BY <1>9, <1>0 DEF Save, Sends, storageVars
<1>19. CASE WritesBackup
    BY <1>19, <1>0 DEF WritesBackup, Sends, storageVars
<1>10. CASE Served
    <2>1. PICK result \in -1..MaxId :
            /\ Executes(entry_id, buf, result)
            /\ new_id' \in {-1} \cup Ids
            /\ unread' \in Seq(Answers)
        BY <1>10, ServedReads
    <2>2. StorageTypeOK'
        BY <2>1, ExecutesTyped DEF Texts
    <2>3. new_id' \in -1..MaxId /\ (at' = "ok" => new_id' \in Ids)
            /\ at' \in {"ok", "failed"}
        BY <1>10, <2>1 DEF Served, Ids
    <2> QED  BY <1>10, <2>1, <2>2, <2>3 DEF Served
<1>11. CASE Saved
    BY <1>11, <1>0 DEF Saved, storageVars, Ids
<1>12. CASE SaveFailed
    BY <1>12, <1>0 DEF SaveFailed, storageVars, historyVars
<1>13. CASE LosesConnection
    <2>0. \/ pending' = pending
          \/ pending' = [id |-> entry_id, text |-> buf, mine |-> TRUE]
        BY <1>13 DEF LosesConnection, CutsOff
    <2>1. pending' \in {NoCommand} \cup Commands
        <3>1. pending \in {NoCommand} \cup Commands
                /\ entry_id \in 0..MaxId /\ buf \in Texts
            BY DEF Commands
        <3> HIDE DEF Typed, EditorTypeOK
        <3> QED  BY <2>0, <3>1, CommandTyped
    <2>2. at' \in {"key", "backup", "failed"} /\ new_id' \in -1..MaxId
        BY <1>13 DEF LosesConnection
    <2> QED  BY <1>13, <2>1, <2>2, <1>0 DEF Commands, LosesConnection, storageVars, historyVars
<1>14. CASE Dies
    <2>0. \/ pending' = pending
          \/ pending # NoCommand /\ pending' = [pending EXCEPT !.mine = FALSE]
          \/ pending' = [id |-> entry_id, text |-> buf, mine |-> FALSE]
        BY <1>14, Zenon DEF Dies
    <2>1. pending' \in {NoCommand} \cup Commands
        <3>1. pending \in {NoCommand} \cup Commands
                /\ entry_id \in 0..MaxId /\ buf \in Texts
            BY DEF Commands
        <3> HIDE DEF Typed, EditorTypeOK
        <3> QED  BY <2>0, <3>1, CommandTyped
    <2>2. /\ screen' = "down" /\ conn' = FALSE /\ list' = Nothing /\ unread' = <<>>
          /\ entry_id' = NewEntry /\ buf' = Empty /\ dirty' = 0
          /\ at' = "key" /\ new_id' = -1
          /\ attempted' = [attempted EXCEPT ![entry_id] =
                              IF at = "backup" /\ @ # NoFile THEN Torn ELSE @]
          /\ UNCHANGED <<users, entries, seq, files, typed>>
        BY <1>14, Zenon DEF Dies
    <2>3. unread' \in Seq(Answers)
        BY <2>2
    <2>4. attempted' \in [0..MaxId -> Texts \cup {NoFile, Torn}]
        <3>1. attempted \in [0..MaxId -> Texts \cup {NoFile, Torn}]
            OBVIOUS
        <3> HIDE DEF Typed, EditorTypeOK
        <3> QED  BY <2>2, <3>1
    <2>5. StorageTypeOK'
        BY <2>2, <1>0 DEF storageVars
    <2>6. DOMAIN list' \subseteq Ids /\ \A i \in DOMAIN list' : list'[i] \in Texts
        BY <2>2, NothingTyped
    <2>7. /\ buf' \in Texts /\ entry_id' \in 0..MaxId
          /\ dirty' \in {-1, 0, 1} /\ new_id' \in -1..MaxId
          /\ typed' \in Texts /\ files' \in [0..MaxId -> Texts \cup {NoFile}]
          /\ screen' \in {"down", "list", "editor"} /\ conn' \in BOOLEAN
          /\ at' \in {"key", "backup", "call", "ok", "failed"}
        BY <2>2
    <2>8. EditorTypeOK'
        BY <2>1, <2>2, <2>3, <2>4, <2>5, <2>6, <2>7, Zenon DEF Commands
    <2> QED  BY <2>2, <2>8
<1>15. CASE PendingEnds
    <2>1. PICK result \in -1..MaxId : Executes(pending.id, pending.text, result)
        BY <1>15 DEF PendingEnds
    <2>2. StorageTypeOK'
        BY <1>15, <2>1, ExecutesTyped DEF PendingEnds, Texts
    <2> QED  BY <1>15, <2>2 DEF PendingEnds, processVars
<1>16. CASE PendingDropped
    BY <1>16, <1>0 DEF PendingDropped, storageVars, processVars, historyVars
<1>17. CASE Elsewhere
    <2>1. PICK id \in Own(Me) : \/ storage_delete_entry(Me, id, 0)
                                \/ \E data \in OtherData :
                                     storage_update_entry(Me, id, data, 0)
        BY <1>17 DEF Elsewhere
    <2>2. id \in Ids \cup {0}
        BY DEF Own, Live
    <2>3. StorageTypeOK'
        BY <2>1, <2>2, StorageTyped, MeAssumption, OtherDataAssumption
    <2> QED  BY <1>17, <2>3 DEF Elsewhere, processVars
<1>18. CASE UNCHANGED editorVars
    BY <1>18, <1>0 DEF editorVars, storageVars
<1> QED  BY <1>1, <1>2, <1>3, <1>4, <1>5, <1>7, <1>8, <1>9, <1>10, <1>11, <1>12,
             <1>13, <1>14, <1>15, <1>16, <1>17, <1>18, <1>19 DEF EditorNext, EditorStep

\* Every variable of the editor stays in its type, whatever fails.
THEOREM EditorTypeCorrect == EditorSpec => []EditorTypeOK
<1>1. Typed => EditorTypeOK
    BY DEF Typed
<1> QED  BY <1>1, TypedInit, TypedStep, PTL DEF EditorSpec

-----------------------------------------------------------------------------
(* One entry per session, on a connection in step.  A row that the session   *)
(* has added and whose id is not in the editor yet is about to be adopted,   *)
(* or the connection is dead and the session cannot add another one; a POST  *)
(* that is still with the server belongs to a session that has added none    *)
(* and cannot any more.  A connection that is behind stays so while the      *)
(* editor is open, and nothing is said of it.                                *)

SessionInv ==
    /\ screen # "editor" => /\ entry_id = NewEntry /\ dirty = 0 /\ at = "key"
                            /\ created = 0
    /\ InStep => /\ created \in {0, 1}
                 /\ created = 1 /\ entry_id = NewEntry => at = "ok" \/ ~conn
    /\ pending # NoCommand /\ pending.mine => screen = "editor"
    /\ pending # NoCommand /\ pending.mine /\ pending.id = NewEntry =>
         ~conn /\ (InStep => created = 0)

LEMMA SessionInit == EditorInit => SessionInv
BY DEF EditorInit, SessionInv

\* In step, a save's call returns what the server has made of it.
LEMMA InStepTakes ==
    ASSUME NEW id \in 0..MaxId, NEW text \in Data, NEW result \in -1..MaxId,
           StorageTypeOK, Executes(id, text, result)
    PROVE  TakenAs(id, AnswerTo(id, result)) = result
<1>1. CASE id = NewEntry
    <2>1. PICK ts \in Stamps : storage_add_entry(Me, text, ts, result)
        BY <1>1 DEF Executes
    <2>2. result \in Ids \/ result = -1
        BY <2>1, MaxIdAssumption DEF storage_add_entry, StorageTypeOK, Ids
    <2> QED  BY <1>1, <2>2, MaxIdAssumption
             DEF Ids, TakenAs, AnswerTo, Fail, SavedAs
<1>2. CASE id # NewEntry
    <2>1. result = id \/ result = -1
        BY <1>2 DEF Executes
    <2> QED  BY <1>2, <2>1, MaxIdAssumption
             DEF NewEntry, TakenAs, AnswerTo, Fail, SavedAs
<1> QED  BY <1>1, <1>2

LEMMA SessionLeave ==
    ASSUME Typed, SessionInv, Leave, at = "key"
    PROVE  SessionInv'
<1>1. /\ screen' = "list" /\ entry_id' = NewEntry /\ dirty' = 0 /\ at' = "key"
      /\ created' = 0
    BY DEF Leave, Abandon
<1>2. pending' # NoCommand => pending'.mine = FALSE
    <2>1. pending # NoCommand => pending \in Commands
        BY DEF Typed, EditorTypeOK, Commands
    <2> QED  BY <2>1 DEF Leave, Abandon, Commands
<1> QED  BY <1>1, <1>2 DEF SessionInv

LEMMA SessionStep == Typed /\ SessionInv /\ [EditorNext]_editorVars => SessionInv'
<1> SUFFICES ASSUME Typed, SessionInv, [EditorNext]_editorVars PROVE SessionInv'
    OBVIOUS
<1>0. /\ conn \in BOOLEAN /\ (at = "ok" => new_id \in Ids)
      /\ pending # NoCommand => pending \in Commands
    BY DEF Typed, EditorTypeOK, Commands
<1> USE DEF InStep
<1>1. CASE Starts
    BY <1>1 DEF SessionInv, Starts
<1>2. CASE Reload
    BY <1>2 DEF SessionInv, Reload
<1>3. CASE New
    BY <1>3 DEF SessionInv, New, Opens, historyVars
<1>4. CASE Edit
    BY <1>4 DEF SessionInv, Edit, Opens, historyVars
<1>5. CASE Type
    BY <1>5 DEF SessionInv, Type, WaitsForKey, historyVars
<1>7. CASE OutOfMemory
    BY <1>7, SessionLeave DEF OutOfMemory, WaitsForKey
<1>8. CASE Esc
    <2>1. CASE Leave
        BY <2>1, <1>8, SessionLeave DEF Esc, WaitsForKey
    <2>2. CASE ~Leave
        BY <2>2, <1>8 DEF SessionInv, Esc, WaitsForKey, historyVars
    <2> QED  BY <2>1, <2>2
<1>9. CASE Save
    BY <1>9 DEF SessionInv, Save, Sends, WaitsForKey
<1>19. CASE WritesBackup
    BY <1>19 DEF SessionInv, WritesBackup, Sends
<1>10. CASE Served
    <2>1. PICK result \in -1..MaxId :
            /\ Executes(entry_id, buf, result)
            /\ created' = IF entry_id = NewEntry /\ result > 0
                          THEN created + 1 ELSE created
            /\ unread' = <<>> => unread = <<>>
            /\ unread = <<>> => new_id' = TakenAs(entry_id, AnswerTo(entry_id, result))
        BY <1>10, ServedReads
    <2>2. unread' = <<>> => new_id' = result
        BY <2>1, InStepTakes DEF Typed, EditorTypeOK, Texts
    <2>3. at' = IF new_id' > 0 THEN "ok" ELSE "failed"
        BY <1>10 DEF Served
    <2> QED  BY <1>10, <2>1, <2>2, <2>3 DEF SessionInv, Served
<1>11. CASE Saved
    BY <1>11, <1>0, MaxIdAssumption DEF SessionInv, Saved, NewEntry, Ids
<1>12. CASE SaveFailed
    BY <1>12 DEF SessionInv, SaveFailed, historyVars
<1>13. CASE LosesConnection
    <2>1. \/ pending' = pending
          \/ /\ screen = "editor" /\ at = "call" /\ conn
             /\ pending' = [id |-> entry_id, text |-> buf, mine |-> TRUE]
        BY <1>13 DEF LosesConnection, CutsOff
    <2>2. /\ conn' = FALSE /\ at' # "ok"
          /\ screen # "editor" => at' = "key"
          /\ UNCHANGED <<screen, unread, entry_id, dirty, created>>
        BY <1>13 DEF LosesConnection, SessionInv, historyVars
    <2>3. CASE pending' = pending
        BY <2>2, <2>3 DEF SessionInv
    <2>4. CASE /\ screen = "editor" /\ at = "call" /\ conn
               /\ pending' = [id |-> entry_id, text |-> buf, mine |-> TRUE]
        BY <2>2, <2>4 DEF SessionInv
    <2> QED  BY <2>1, <2>3, <2>4
<1>14. CASE Dies
    <2>1. \/ pending' = pending /\ pending = NoCommand
          \/ pending # NoCommand /\ pending' = [pending EXCEPT !.mine = FALSE]
          \/ pending' = [id |-> entry_id, text |-> buf, mine |-> FALSE]
        BY <1>14, Zenon DEF Dies
    <2>2. pending' # NoCommand => pending'.mine = FALSE
        BY <2>1, <1>0 DEF Commands
    <2>3. /\ entry_id' = NewEntry /\ dirty' = 0 /\ at' = "key" /\ created' = 0
        BY <1>14, Zenon DEF Dies
    <2> QED  BY <2>2, <2>3 DEF SessionInv
<1>15. CASE PendingEnds
    <2>1. PICK result \in -1..MaxId :
            created' = IF pending.mine /\ pending.id = NewEntry /\ result > 0
                       THEN created + 1 ELSE created
        BY <1>15 DEF PendingEnds
    <2> QED  BY <1>15, <2>1 DEF SessionInv, PendingEnds, processVars
<1>16. CASE PendingDropped
    BY <1>16 DEF SessionInv, PendingDropped, processVars, historyVars
<1>17. CASE Elsewhere
    BY <1>17 DEF SessionInv, Elsewhere, processVars
<1>18. CASE UNCHANGED editorVars
    BY <1>18 DEF SessionInv, editorVars
<1> QED  BY <1>1, <1>2, <1>3, <1>4, <1>5, <1>7, <1>8, <1>9, <1>10, <1>11, <1>12,
             <1>13, <1>14, <1>15, <1>16, <1>17, <1>18, <1>19 DEF EditorNext, EditorStep

LEMMA SessionInvariant == EditorSpec => [](Typed /\ SessionInv)
BY TypedInit, TypedStep, SessionInit, SessionStep, PTL DEF EditorSpec

\* One session adds at most one entry, however many of its saves fail, are cut
\* off or are executed late, unless a list that failed half way has put its
\* connection behind.
THEOREM SessionsAddOne == EditorSpec => []OneEntryPerSession
<1>1. SessionInv => OneEntryPerSession
    BY DEF SessionInv, OneEntryPerSession
<1> QED  BY <1>1, SessionInvariant, PTL

-----------------------------------------------------------------------------
(* The backup.  It is enough that the disk can be written: a file is opened  *)
(* by a save of its own entry only, the text is in it before the call is     *)
(* made, and a death that catches it open is seen on what it was to cover.   *)

LEMMA BackupStep ==
    ASSUME ~Fails("client disk"), Typed, SessionInv, BackupCoversSave,
           [EditorNext]_editorVars
    PROVE  BackupCoversSave'
<1> USE DEF BackupCoversSave
<1>0. /\ files \in [0..MaxId -> Texts \cup {NoFile}]
      /\ attempted \in [0..MaxId -> Texts \cup {NoFile, Torn}]
      /\ entry_id \in 0..MaxId
    BY DEF Typed, EditorTypeOK
<1>1. CASE UNCHANGED <<attempted, files, entry_id, at>>
    BY <1>1
<1>2. CASE at # "backup" /\ at' # "backup" /\ UNCHANGED <<attempted, files>>
    BY <1>2
<1>3. CASE Save
    <2>1. /\ files' = [files EXCEPT ![entry_id] = Empty] /\ at' = "backup"
          /\ at = "key" /\ UNCHANGED <<attempted, entry_id>>
        BY <1>3 DEF Save, WaitsForKey
    <2> QED  BY <2>1, <1>0
<1>12. CASE WritesBackup
    <2>1. /\ files' = [files EXCEPT ![entry_id] = buf]
          /\ attempted' = [attempted EXCEPT ![entry_id] = buf]
          /\ at = "backup" /\ at' = "call" /\ UNCHANGED entry_id
        BY <1>12 DEF WritesBackup, Sends
    <2> QED  BY <2>1, <1>0
<1>4. CASE New \/ Edit
    BY <1>2, <1>4 DEF New, Edit, Opens, SessionInv, historyVars
<1>5. ASSUME Leave, at = "key" PROVE BackupCoversSave'
    BY <1>2, <1>5 DEF Leave
<1>6. CASE Starts \/ Reload \/ Type
    BY <1>1, <1>6 DEF Starts, Reload, Type, historyVars
<1>13. CASE Served \/ SaveFailed
    BY <1>2, <1>13 DEF Served, SaveFailed, historyVars
<1>7. CASE LosesConnection
    <2>1. CASE at = "backup"
        BY <1>1, <1>7, <2>1 DEF LosesConnection, historyVars
    <2>2. CASE at # "backup"
        BY <1>2, <1>7, <2>2 DEF LosesConnection, historyVars
    <2> QED  BY <2>1, <2>2
<1>14. CASE PendingEnds \/ PendingDropped \/ Elsewhere
    BY <1>1, <1>14 DEF PendingEnds, PendingDropped, Elsewhere,
                       processVars, historyVars
<1>8. CASE OutOfMemory \/ Esc
    BY <1>1, <1>5, <1>8 DEF OutOfMemory, Esc, WaitsForKey, historyVars
<1>9. CASE Saved
    <2>1. /\ at = "ok" /\ at' = "key"
          /\ files' = [files EXCEPT ![entry_id] = NoFile]
          /\ attempted' = [attempted EXCEPT ![entry_id] = NoFile]
        BY <1>9 DEF Saved
    <2> QED  BY <2>1, <1>0
<1>10. CASE Dies
    <2>1. /\ attempted' = [attempted EXCEPT ![entry_id] =
                              IF at = "backup" /\ @ # NoFile THEN Torn ELSE @]
          /\ files' = files /\ at' = "key"
        BY <1>10, Zenon DEF Dies
    <2>2. ASSUME NEW f \in 0..MaxId, attempted'[f] \notin {NoFile, Torn}
          PROVE  files[f] = attempted'[f]
        <3>1. attempted'[f] = attempted[f] /\ ~(at = "backup" /\ f = entry_id)
            BY <2>1, <2>2, <1>0
        <3> QED  BY <2>2, <3>1
    <2> QED  BY <2>1, <2>2
<1>11. CASE UNCHANGED editorVars
    BY <1>1, <1>11 DEF editorVars
<1> QED  BY <1>3, <1>4, <1>6, <1>7, <1>8, <1>9, <1>10, <1>11, <1>12, <1>13, <1>14
         DEF EditorNext, EditorStep

\* On a disk that can be written the text that was last sent from a file's
\* entry and not confirmed is in the file, except where a death or the save
\* under way has it open.
THEOREM BackupsCoverSaves ==
    ASSUME ~Fails("client disk")
    PROVE  EditorSpec => []BackupCoversSave
<1>1. EditorInit => BackupCoversSave
    BY DEF EditorInit, BackupCoversSave
<1>2. Typed /\ SessionInv /\ BackupCoversSave /\ [EditorNext]_editorVars
        => BackupCoversSave'
    BY BackupStep
<1> QED  BY <1>1, <1>2, SessionInvariant, PTL DEF EditorSpec

-----------------------------------------------------------------------------
(* A clean buffer is stored.  In step, the text of the list is what the      *)
(* server has for every entry that nobody has touched since; a buffer is     *)
(* clean when it came from the list, or from a save whose success was read.  *)

Holds(i, text) == i \in Own(Me) /\ Opened(entries[i].data) = text

SavedId == IF entry_id = NewEntry THEN new_id ELSE entry_id

StoredInv ==
    /\ at # "key" => screen = "editor" /\ (dirty # 0 \/ entry_id = NewEntry)
    /\ (InStep /\ screen = "list") =>
         \A i \in DOMAIN list \ touched : Holds(i, list[i])
    /\ (/\ InStep /\ screen = "editor" /\ dirty = 0
        /\ entry_id \notin {NewEntry} \cup touched) => Holds(entry_id, buf)
    /\ (InStep /\ at = "ok" /\ SavedId \notin touched) => Holds(SavedId, buf)

\* A row that a step leaves alone holds what it held.
LEMMA HoldsStays ==
    ASSUME StorageTypeOK, NEW id,
           \A j \in Ids : j # id => entries'[j] = entries[j],
           NEW i, NEW text, i # id, Holds(i, text)
    PROVE  Holds(i, text)'
BY DEF Holds, Own, Live

\* What the server makes of a save, or of a command that was left with it.
LEMMA ExecutesHolds ==
    ASSUME StorageTypeOK, NEW id \in 0..MaxId, NEW text \in Data,
           NEW result \in -1..MaxId, Executes(id, text, result)
    PROVE  /\ \A j \in Ids : j # result => entries'[j] = entries[j]
           /\ result > 0 => result \in Own(Me)' /\ entries'[result].data = text
           /\ id # NewEntry /\ result > 0 => result = id
           /\ ~(result > 0) => \A j \in Ids : entries'[j] = entries[j]
<1>1. CASE id = NewEntry
    <2>1. PICK ts \in Stamps : storage_add_entry(Me, text, ts, result)
        BY <1>1 DEF Executes
    <2>2. CASE /\ result \in Ids
               /\ entries'[result] = [owner |-> Me, ts |-> ts, data |-> text]
               /\ entries'[result] # NoRow
               /\ \A j \in Ids : j # result => entries'[j] = entries[j]
        BY <1>1, <2>2, MaxIdAssumption DEF Holds, Own, Live, Ids
    <2>3. CASE result = -1 /\ UNCHANGED storageVars
        BY <2>3 DEF storageVars
    <2> QED  BY <2>1, <2>2, <2>3, AddAddsOne, MeAssumption
<1>2. CASE id # NewEntry
    <2>1. PICK rc \in {0, -1} : /\ storage_update_entry(Me, id, text, rc)
                                /\ result = IF rc = 0 THEN id ELSE -1
        BY <1>2 DEF Executes
    <2>2. CASE /\ rc = 0 /\ id \in Own(Me) /\ entries'[id] # NoRow
               /\ entries'[id].owner = Me /\ entries'[id].data = text
               /\ \A j \in Ids : j # id => entries'[j] = entries[j]
        BY <1>2, <2>1, <2>2, MaxIdAssumption DEF Holds, Own, Live, Ids
    <2>3. CASE rc = -1 /\ UNCHANGED storageVars
        BY <2>1, <2>3 DEF storageVars
    <2> QED  BY <2>1, <2>2, <2>3, UpdateChangesOne, MeAssumption
<1> QED  BY <1>1, <1>2

\* A list that has just been fetched, on a connection in step.
LEMMA GetsHolds ==
    ASSUME StorageTypeOK, UNCHANGED entries,
           NEW m \in GetAnswers, Gets(<<m>>)
    PROVE  (\A i \in DOMAIN list : Holds(i, list[i]))'
<1>1. Head(<<m>>) = m
    OBVIOUS
<1>2. CASE list' = Nothing
    BY <1>2, NothingTyped
<1>3. CASE list' # Nothing
    <2>1. PICK left : GetsRows(m.rows, left) /\ m.what = "list"
        BY <1>1, <1>3 DEF Gets
    <2>2. list' = [i \in DOMAIN m.rows |-> Opened(m.rows[i])]
        BY <1>3, <2>1 DEF GetsRows
    <2>3. PICK kept \in SUBSET Own(Me) : m = List([i \in kept |-> entries[i].data])
        <3>1. m # Fail
            BY <2>1 DEF Fail
        <3> QED  BY <3>1, GetAnswersTyped
    <2>4. m.rows = [i \in kept |-> entries[i].data]
        BY <2>3 DEF List
    <2>5. DOMAIN list' = kept /\ \A i \in kept : list'[i] = Opened(entries[i].data)
        BY <2>2, <2>4
    <2>6. \A i \in kept : i \in Own(Me)'
        BY DEF Own, Live
    <2> QED  BY <2>5, <2>6 DEF Holds
<1> QED  BY <1>2, <1>3

LEMMA FetchedHolds ==
    ASSUME Typed, UNCHANGED storageVars, Fetches, InStep'
    PROVE  (\A i \in DOMAIN list : Holds(i, list[i]))'
<1>1. unread = <<>>
    BY FetchesTyped DEF Typed, EditorTypeOK, InStep
<1>2. CASE \E m \in GetAnswers : Gets(Append(unread, m))
    <2>1. PICK m \in GetAnswers : Gets(Append(unread, m))
        BY <1>2
    <2>2. Append(unread, m) = <<m>>
        BY <1>1
    <2> QED  BY <2>1, <2>2, GetsHolds DEF Typed, EditorTypeOK, storageVars
<1>3. CASE list' = Nothing
    BY <1>3, NothingTyped
<1> QED  BY <1>2, <1>3 DEF Fetches

LEMMA StoredInit == EditorInit => StoredInv
BY DEF EditorInit, StoredInv

\* A step that touches neither the tables nor what the editor has of them.
LEMMA StoredStutter ==
    ASSUME StoredInv,
           UNCHANGED <<users, entries, seq, screen, list, unread, entry_id, buf,
                       dirty, at, new_id, touched>>
    PROVE  StoredInv'
BY DEF StoredInv, InStep, Holds, SavedId, Own, Live

LEMMA StoredLeave ==
    ASSUME Typed, Leave, at = "key"
    PROVE  StoredInv'
<1>1. /\ screen' = "list" /\ entry_id' = NewEntry /\ at' = "key"
      /\ UNCHANGED storageVars /\ Fetches
    BY DEF Leave, storageVars
<1>2. InStep' => (\A i \in DOMAIN list : Holds(i, list[i]))'
    BY <1>1, FetchedHolds
<1> QED  BY <1>1, <1>2 DEF StoredInv

LEMMA StoredStep ==
    Typed /\ SessionInv /\ StoredInv /\ [EditorNext]_editorVars => StoredInv'
<1> SUFFICES ASSUME Typed, SessionInv, StoredInv, [EditorNext]_editorVars
             PROVE  StoredInv'
    OBVIOUS
<1>0. /\ StorageTypeOK /\ entry_id \in 0..MaxId /\ buf \in Texts /\ buf \in Data
      /\ new_id \in -1..MaxId
      /\ (at = "ok" => new_id \in Ids) /\ DOMAIN list \subseteq Ids
      /\ screen \in {"down", "list", "editor"}
    BY DEF Typed, EditorTypeOK, Texts
<1> USE DEF InStep
<1>1. CASE Starts
    <2>1. PICK m \in GetAnswers : Gets(<<m>>)
        BY <1>1 DEF Starts
    <2>2. screen' = "list" /\ at' = at /\ screen # "editor" /\ UNCHANGED entries
        BY <1>1 DEF Starts
    <2>3. (\A i \in DOMAIN list : Holds(i, list[i]))'
        BY <1>0, <2>1, <2>2, GetsHolds
    <2> QED  BY <2>2, <2>3 DEF StoredInv, SessionInv
<1>2. CASE Reload
    <2>1. /\ screen' = "list" /\ at' = at /\ UNCHANGED storageVars
          /\ screen # "editor" /\ Fetches
        BY <1>2 DEF Reload, storageVars
    <2>2. InStep' => (\A i \in DOMAIN list : Holds(i, list[i]))'
        BY <2>1, FetchedHolds
    <2> QED  BY <2>1, <2>2 DEF StoredInv, SessionInv
<1>3. CASE New
    BY <1>3 DEF New, Opens, StoredInv, SessionInv, historyVars
<1>4. CASE Edit
    <2>1. PICK id \in DOMAIN list : Opens(id, list[id])
        BY <1>4 DEF Edit
    <2>2. InStep /\ id \notin touched => Holds(id, list[id])
        BY <2>1 DEF StoredInv, Opens
    <2>3. /\ screen' = "editor" /\ at' = "key" /\ entry_id' = id /\ buf' = list[id]
          /\ UNCHANGED <<entries, unread, touched>>
        BY <2>1 DEF Opens, SessionInv, historyVars
    <2>4. InStep /\ id \notin touched => Holds(entry_id, buf)'
        BY <2>2, <2>3 DEF Holds, Own, Live
    <2> QED  BY <2>3, <2>4 DEF StoredInv
<1>5. CASE Type
    BY <1>5 DEF StoredInv, Type, WaitsForKey, historyVars
<1>7. CASE OutOfMemory
    BY <1>7, StoredLeave DEF OutOfMemory, WaitsForKey
<1>8. CASE Esc
    <2>1. CASE Leave
        BY <2>1, <1>8, StoredLeave DEF Esc, WaitsForKey
    <2>2. CASE ~Leave
        BY <2>2, <1>8 DEF StoredInv, Esc, WaitsForKey, historyVars
    <2> QED  BY <2>1, <2>2
<1>9. CASE Save
    BY <1>9 DEF StoredInv, Save, Sends, WaitsForKey, Holds, Own, Live
<1>19. CASE WritesBackup
    BY <1>19 DEF StoredInv, WritesBackup, Sends, SavedId, Holds, Own, Live
<1>10. CASE Served
    <2>1. PICK result \in -1..MaxId :
            /\ Executes(entry_id, buf, result)
            /\ unread' = <<>> => unread = <<>>
            /\ unread = <<>> => new_id' = TakenAs(entry_id, AnswerTo(entry_id, result))
        BY <1>10, ServedReads
    <2>2. /\ screen = "editor" /\ (dirty # 0 \/ entry_id = NewEntry)
          /\ UNCHANGED <<screen, entry_id, buf, dirty>>
          /\ at' = IF new_id' > 0 THEN "ok" ELSE "failed"
        BY <1>10 DEF Served, StoredInv
    <2>3. InStep' => new_id' = result
        BY <1>0, <2>1, InStepTakes
    <2>4. result > 0 => /\ result \in Own(Me)' /\ entries'[result].data = buf
                        /\ entry_id # NewEntry => result = entry_id
        BY <1>0, <2>1, ExecutesHolds
    <2>5. InStep' /\ result > 0 => Holds(SavedId, buf)'
        <3>1. InStep' /\ result > 0 => SavedId' = result
            BY <2>2, <2>3, <2>4 DEF SavedId
        <3> QED  BY <1>0, <2>2, <2>4, <3>1 DEF Holds, Opened
    <2>6. InStep' /\ at' = "ok" => result > 0
        BY <2>2, <2>3
    <2> QED  BY <2>2, <2>5, <2>6 DEF StoredInv
<1>11. CASE Saved
    <2>1. /\ screen = "editor" /\ screen' = "editor" /\ at' = "key"
          /\ entry_id' = SavedId /\ buf' = buf
          /\ UNCHANGED <<users, entries, seq, unread, touched>>
        BY <1>11 DEF Saved, StoredInv, SavedId
    <2>2. InStep /\ SavedId \notin touched => Holds(SavedId, buf)
        BY <1>11 DEF Saved, StoredInv
    <2> QED  BY <2>1, <2>2 DEF StoredInv, Holds, Own, Live
<1>12. CASE SaveFailed
    BY <1>12 DEF StoredInv, SaveFailed, historyVars, Holds, Own, Live
<1>13. CASE LosesConnection
    BY <1>13 DEF StoredInv, LosesConnection, historyVars, Holds, Own, Live
<1>14. CASE Dies
    <2>1. screen' = "down" /\ at' = "key"
        BY <1>14, Zenon DEF Dies
    <2> QED  BY <2>1 DEF StoredInv
<1>15. CASE PendingEnds \/ Elsewhere
    <2>1. \E id : /\ \A j \in Ids : j # id => entries'[j] = entries[j]
                  /\ \/ touched' = touched \cup {id}
                     \/ id \notin Ids /\ touched' = touched
        <3>1. CASE PendingEnds
            <4>1. PICK result \in -1..MaxId :
                    /\ Executes(pending.id, pending.text, result)
                    /\ touched' = IF result > 0 THEN touched \cup {result} ELSE touched
                BY <3>1 DEF PendingEnds
            <4>2. pending.id \in 0..MaxId /\ pending.text \in Data
                BY <3>1 DEF PendingEnds, Typed, EditorTypeOK, Texts
            <4>3. CASE result > 0
                BY <1>0, <4>1, <4>2, <4>3, ExecutesHolds
            <4>4. CASE ~(result > 0)
                <5>1. \A j \in Ids : entries'[j] = entries[j]
                    BY <1>0, <4>1, <4>2, <4>4, ExecutesHolds
                <5>2. 0 \notin Ids /\ touched' = touched
                    BY <4>1, <4>4 DEF Ids
                <5> QED  BY <5>1, <5>2
            <4> QED  BY <4>3, <4>4
        <3>2. CASE Elsewhere
            <4>1. PICK id \in Own(Me) :
                    /\ \/ storage_delete_entry(Me, id, 0)
                       \/ \E data \in OtherData : storage_update_entry(Me, id, data, 0)
                    /\ touched' = touched \cup {id}
                BY <3>2 DEF Elsewhere
            <4>2. \A j \in Ids : j # id => entries'[j] = entries[j]
                BY <1>0, <4>1, DeleteRemovesOne, UpdateChangesOne, MeAssumption,
                   OtherDataAssumption
            <4> QED  BY <4>1, <4>2
        <3> QED  BY <1>15, <3>1, <3>2
    <2>2. UNCHANGED <<screen, list, unread, entry_id, buf, dirty, at, new_id>>
        BY <1>15 DEF PendingEnds, Elsewhere, processVars
    <2>3. \A i, text : i \notin touched' /\ Holds(i, text) => Holds(i, text)'
        <3> SUFFICES ASSUME NEW i, NEW text, i \notin touched', Holds(i, text)
                     PROVE  Holds(i, text)'
            OBVIOUS
        <3>1. i \in Ids
            BY DEF Holds, Own, Live
        <3> QED  BY <1>0, <2>1, <3>1, HoldsStays
    <2>4. touched \subseteq touched'
        BY <2>1
    <2> QED  BY <2>2, <2>3, <2>4 DEF StoredInv, SavedId
<1>16. CASE PendingDropped
    BY <1>16, StoredStutter DEF PendingDropped, processVars, historyVars
<1>18. CASE UNCHANGED editorVars
    BY <1>18, StoredStutter DEF editorVars
<1> QED  BY <1>1, <1>2, <1>3, <1>4, <1>5, <1>7, <1>8, <1>9, <1>10, <1>11, <1>12,
             <1>13, <1>14, <1>15, <1>16, <1>18, <1>19 DEF EditorNext, EditorStep

\* A clean buffer of an entry is what the server has, unless someone else has
\* changed the entry or the connection is behind.
THEOREM CleanBuffersAreStored == EditorSpec => []CleanMeansStored
<1>1. StoredInv => CleanMeansStored
    BY DEF StoredInv, CleanMeansStored, WaitsForKey, Holds
<1> QED  BY <1>1, SessionInvariant, StoredInit, StoredStep, PTL DEF EditorSpec
=============================================================================
