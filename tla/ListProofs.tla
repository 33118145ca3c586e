----------------------------- MODULE ListProofs -----------------------------
(***************************************************************************)
(* Theorems of ListScreen, for any entries, dates, terminal heights and    *)
(* bounds, with failing lists and other clients at work.                   *)
(***************************************************************************)
EXTENDS ListScreen, StorageProofs, LayoutProofs, FiniteSetTheorems

-----------------------------------------------------------------------------
(* The inductive invariant. *)

\* The array is that of the last GET and nothing has happened since.
Fresh ==
    /\ {list[k] : k \in DOMAIN list} \subseteq Own(Me)
    /\ current = "whole" => FirstRows(Own(Me)) \subseteq {list[k] : k \in DOMAIN list}
    /\ \A k, l \in DOMAIN list : k < l => Newer(list[k], list[l])

\* On every screen: the selection is a row of the array.
SelectionInArray == list # <<>> /\ ~shorter => selected < Len(list)

\* The question and the editor were entered from a row; the id of the question
\* is still that of the row that is highlighted.
EnteredFromRow ==
    /\ screen = "edit" => list # <<>>
    /\ screen = "question" /\ ~shorter =>
         selected < Len(list) /\ named = list[selected + 1]

ListInv ==
    /\ ListTypeOK /\ text_rows \in Heights
    /\ screen = "list" => selected \in scroll..(scroll + ListRows - 1)
    /\ SelectionInArray
    /\ EnteredFromRow
    /\ current # "old" => Fresh

-----------------------------------------------------------------------------
(* Lemmas. *)

LEMMA OwnFinite ==
    ASSUME NEW ids \in SUBSET Ids
    PROVE  IsFiniteSet(ids) /\ Cardinality(ids) \in Nat
<1>1. IsFiniteSet(Ids)
    BY FS_Interval, MaxIdAssumption DEF Ids
<1>2. IsFiniteSet(ids)
    BY <1>1, FS_Subset
<1> QED  BY <1>2, FS_CardinalityType

\* An array with a row for each of some entries.
LEMMA RowsTyped ==
    ASSUME NEW ids \in SUBSET Ids, NEW rows \in [1..Cardinality(ids) -> ids],
           \A i \in ids : \E k \in DOMAIN rows : rows[k] = i
    PROVE  /\ rows \in Seq(Ids) /\ Len(rows) = Cardinality(ids)
           /\ {rows[k] : k \in DOMAIN rows} = ids
<1>1. Cardinality(ids) \in Nat
    BY OwnFinite
<1>2. rows \in Seq(Ids) /\ Len(rows) = Cardinality(ids)
    BY <1>1
<1>3. {rows[k] : k \in DOMAIN rows} = ids
    OBVIOUS
<1> QED  BY <1>2, <1>3

LEMMA ArraysTyped ==
    ASSUME NEW ids \in SUBSET Ids, NEW rows \in Arrays(ids)
    PROVE  /\ rows \in Seq(Ids) /\ Len(rows) \in Nat /\ (rows # <<>> => Len(rows) > 0)
           /\ {rows[k] : k \in DOMAIN rows} = ids
<1>1. /\ rows \in [1..Cardinality(ids) -> ids]
      /\ \A i \in ids : \E k \in DOMAIN rows : rows[k] = i
    BY DEF Arrays
<1>2. rows \in Seq(Ids) /\ {rows[k] : k \in DOMAIN rows} = ids
    BY <1>1, RowsTyped
<1> QED  BY <1>2

LEMMA NothingListed == <<>> \in Seq(Ids) /\ Len(<<>>) = 0
OBVIOUS

\* The row of the selection is in the window after every round of the loop.
LEMMA WindowHolds ==
    ASSUME NEW sel \in Nat, scroll \in Nat, NEW rows \in Nat \ {0}
    PROVE  /\ Window(sel, rows) \in Nat
           /\ sel \in Window(sel, rows)..(Window(sel, rows) + rows - 1)
BY DEF Window

LEMMA HeightRows ==
    ASSUME NEW h \in Heights
    PROVE  h \in Nat /\ h - 1 \in Nat \ {0}
<1>1. h \in Nat /\ h # 0 /\ h # 1
    BY ViewerAssumption
<1> QED  BY <1>1

LEMMA HighlightsHolds ==
    ASSUME ListInv, NEW sel \in Nat, Highlights(sel), UNCHANGED text_rows
    PROVE  /\ selected' = sel /\ scroll' \in Nat
           /\ selected' \in scroll'..(scroll' + ListRows' - 1)
<1>1. ListRows \in Nat \ {0} /\ ListRows' = ListRows
    BY HeightRows DEF ListInv, ListRows
<1>2. scroll \in Nat
    BY DEF ListInv, ListTypeOK
<1> QED  BY <1>1, <1>2, WindowHolds DEF Highlights

\* What a GET leaves: an array of entries, or an empty one.
Lists ==
    /\ list' \in Seq(Ids) /\ Len(list') \in Nat
    /\ list' # <<>> => Len(list') > 0
    /\ conn' \in {"up", "behind", "down"}
    /\ current' \in {"whole", "part", "old"}
    /\ current' # "old" => Fresh'

LEMMA AnsweredLists == GetAnswered => Lists
<1> SUFFICES ASSUME GetAnswered PROVE Lists
    OBVIOUS
<1>1. ASSUME NEW kept \in SUBSET Ids, GetRows(Me, kept)',
             list' \in NewestFirst(kept)', conn' = "up",
             current' = IF kept = FirstRows(Own(Me))' THEN "whole" ELSE "part"
      PROVE  Lists
    <2>1. kept \in SUBSET Own(Me)'
        BY <1>1 DEF GetRows, storage_get_entries, collect_entry, FirstRows
    <2>2. /\ list' \in Arrays(kept)
          /\ \A k, l \in DOMAIN list' : k < l => Newer(list[k], list[l])'
        BY <1>1 DEF NewestFirst, Arrays, Newer
    <2>3. /\ list' \in Seq(Ids) /\ Len(list') \in Nat /\ (list' # <<>> => Len(list') > 0)
          /\ {list'[k] : k \in DOMAIN list'} = kept
        BY <2>2, ArraysTyped
    <2>4. current' = "whole" => FirstRows(Own(Me))' = kept
        BY <1>1
    <2>5. Fresh'
        BY <2>1, <2>2, <2>3, <2>4 DEF Fresh
    <2> QED  BY <1>1, <2>3, <2>5 DEF Lists
<1>2. CASE list' = <<>> /\ current' = "old" /\ conn' \in {"up", "behind"}
    BY <1>2, NothingListed DEF Lists
<1> QED  BY <1>1, <1>2 DEF GetAnswered

LEMMA CutOffLists == GetCutOff => Lists
BY NothingListed DEF GetCutOff, Lists

LEMMA ReloadsLists ==
    ASSUME StorageTypeOK, Reloads
    PROVE  Lists
<1>1. CASE GetBehind
    <2>1. PICK ids \in SUBSET (1..seq) : list' \in Arrays(ids)
        BY <1>1 DEF GetBehind
    <2>2. ids \in SUBSET Ids
        BY <2>1, MaxIdAssumption DEF StorageTypeOK, Ids
    <2> QED  BY <1>1, <2>1, <2>2, ArraysTyped DEF GetBehind, Lists
<1> QED  BY <1>1, AnsweredLists, CutOffLists DEF Reloads

LEMMA ClampedInArray ==
    ASSUME NEW sel \in Nat, NEW count \in Nat
    PROVE  /\ Clamped(sel, count) \in Nat
           /\ count > 0 => Clamped(sel, count) < count
BY DEF Clamped

\* An id of the array, whatever row is selected.
LEMMA SelectedIdTyped ==
    ASSUME ListTypeOK
    PROVE  SelectedId \subseteq 0..MaxId
<1>1. ASSUME selected < Len(list) PROVE list[selected + 1] \in 0..MaxId
    BY <1>1, MaxIdAssumption DEF ListTypeOK, Ids
<1> QED  BY <1>1 DEF SelectedId

LEMMA FreshStays ==
    ASSUME Fresh, UNCHANGED <<list, entries, current>>
    PROVE  Fresh'
<1>1. Own(Me)' = Own(Me)
    BY DEF Own, Live
<1>2. \A i, j : Newer(i, j)' = Newer(i, j)
    BY DEF Newer
<1>3. FirstRows(Own(Me))' = FirstRows(Own(Me))
    BY <1>1 DEF FirstRows
<1> QED  BY <1>1, <1>2, <1>3 DEF Fresh

\* What a step that leaves the array and the entries alone has to show.
LEMMA TablesStay ==
    ASSUME ListInv, UNCHANGED <<users, entries, seq, list, current, shorter>>
    PROVE  /\ StorageTypeOK'
           /\ list' \in Seq(Ids) /\ shorter' \in BOOLEAN
           /\ current' \in {"whole", "part", "old"} /\ (current' # "old" => Fresh')
<1>1. StorageTypeOK'
    BY DEF ListInv, ListTypeOK, StorageTypeOK
<1>2. current' # "old" => Fresh'
    BY FreshStays DEF ListInv
<1> QED  BY <1>1, <1>2 DEF ListInv, ListTypeOK

\* A row that is added or changed takes none of the others away.
LEMMA AddKeepsOwn ==
    ASSUME StorageTypeOK, NEW data \in Data, NEW ts \in Stamps, NEW id,
           storage_add_entry(Me, data, ts, id)
    PROVE  Own(Me) \subseteq Own(Me)'
<1>1. CASE /\ id \in Ids
           /\ entries'[id] = [owner |-> Me, ts |-> ts, data |-> data]
           /\ entries'[id] # NoRow
           /\ \A j \in Ids : j # id => entries'[j] = entries[j]
    BY <1>1 DEF Own, Live
<1>2. CASE UNCHANGED storageVars
    BY <1>2 DEF storageVars, Own, Live
<1> QED  BY <1>1, <1>2, AddAddsOne, ListAssumption

LEMMA UpdateKeepsOwn ==
    ASSUME StorageTypeOK, NEW data \in Data, NEW id, 
           storage_update_entry(Me, id, data, 0)
    PROVE  Own(Me) \subseteq Own(Me)'
<1>1. /\ id \in Own(Me) /\ entries'[id] # NoRow /\ entries'[id].owner = Me
      /\ \A j \in Ids : j # id => entries'[j] = entries[j]
    BY UpdateChangesOne, ListAssumption
<1> QED  BY <1>1 DEF Own, Live

-----------------------------------------------------------------------------
(* The invariant is inductive. *)

LEMMA ListInvInit == ListInit => ListInv
<1> SUFFICES ASSUME ListInit PROVE ListInv
    OBVIOUS
<1>1. StorageTypeOK
    BY MaxIdAssumption DEF ListInit, StorageTypeOK
<1>2. <<>> \in Seq(Ids)
    OBVIOUS
<1>3. text_rows \in Heights
    BY DEF ListInit, ViewerInit
<1>4. ListTypeOK
    <2>1. named \in 0..MaxId /\ selected \in Nat /\ scroll \in Nat
        BY MaxIdAssumption DEF ListInit, NewEntry
    <2>2. conn = "down" /\ current = "old" /\ shorter \in BOOLEAN
        BY Zenon DEF ListInit
    <2> QED  BY <1>1, <1>2, <2>1, <2>2 DEF ListInit, ListTypeOK
<1>5. SelectionInArray /\ EnteredFromRow
    BY DEF ListInit, SelectionInArray, EnteredFromRow
<1> QED  BY <1>3, <1>4, <1>5 DEF ListInit, ListInv

\* A step that ends in the list with a new array, or an empty one, and a
\* selection within it.
LEMMA NewArray ==
    ASSUME ListInv, StorageTypeOK', Lists, UNCHANGED text_rows,
           screen' = "list", named' \in 0..MaxId,
           NEW sel \in Nat, Highlights(sel), shorter' \in BOOLEAN,
           Len(list') > 0 /\ ~shorter' => sel < Len(list')
    PROVE  ListInv'
<1>2. /\ selected' = sel /\ scroll' \in Nat
      /\ selected' \in scroll'..(scroll' + ListRows' - 1)
    BY HighlightsHolds
<1>3. text_rows' \in Heights
    BY DEF ListInv
<1>4. SelectionInArray'
    BY <1>2 DEF SelectionInArray, Lists
<1>5. EnteredFromRow'
    BY DEF EnteredFromRow
<1> QED  BY <1>2, <1>3, <1>4, <1>5 DEF ListInv, ListTypeOK, Lists

LEMMA ListInvStep == ListInv /\ [ListNext]_listVars => ListInv'
<1> SUFFICES ASSUME ListInv, [ListNext]_listVars PROVE ListInv'
    OBVIOUS
<1>0. /\ selected \in Nat /\ scroll \in Nat /\ named \in 0..MaxId
      /\ list \in Seq(Ids) /\ Len(list) \in Nat
      /\ conn \in {"up", "behind", "down"} /\ shorter \in BOOLEAN
      /\ StorageTypeOK /\ text_rows \in Heights
      /\ NewEntry \in 0..MaxId
    BY MaxIdAssumption DEF ListInv, ListTypeOK, NewEntry
<1>1. ASSUME UNCHANGED <<users, entries, seq, list, current, shorter>>,
             text_rows' \in Heights, named' \in 0..MaxId,
             conn' \in {"up", "behind", "down"},
             UNCHANGED <<selected, scroll>>,
             screen' \in {"down", "list", "question", "viewer", "edit", "new"},
             screen' = "list" => screen = "list" /\ UNCHANGED text_rows,
             EnteredFromRow'
      PROVE  ListInv'
    <2>1. SelectionInArray'
        BY <1>1, TablesStay DEF ListInv, SelectionInArray
    <2> QED  BY <1>0, <1>1, <2>1, TablesStay DEF ListInv, ListTypeOK, ListRows
<1>2. ASSUME NEW other \in {"viewer", "edit", "question"}, list # <<>>,
             \E id \in SelectedId : Shows(other, id), text_rows' = text_rows
      PROVE  ListInv'
    <2>1. PICK id \in SelectedId : Shows(other, id)
        BY <1>2
    <2>2. id \in 0..MaxId
        BY <2>1, SelectedIdTyped DEF ListInv
    <2>3. EnteredFromRow'
        BY <1>2, <2>1 DEF Shows, EnteredFromRow, ListInv, SelectionInArray, SelectedId
    <2> QED  BY <1>0, <1>1, <1>2, <2>1, <2>2, <2>3 DEF Shows
<1>3. CASE Read
    BY <1>2, <1>3 DEF Read, ViewerOpens, terminal
<1>4. CASE Views
    <2>1. text_rows' \in Heights
        BY <1>0, <1>4 DEF Views, ViewerNext, LineDown, LineUp, WheelUp, WheelDown,
                          ScrollsTo, Resize
    <2>2. EnteredFromRow'
        BY <1>4 DEF Views, EnteredFromRow, tableVars
    <2> QED  BY <1>0, <1>1, <1>4, <2>1, <2>2 DEF Views, tableVars
<1>5. CASE Resizes
    <2>1. CASE screen \in {"edit", "new"} /\ UNCHANGED <<screen, named, selected, scroll>>
        <3>1. EnteredFromRow'
            BY <1>5, <2>1 DEF Resizes, EnteredFromRow, ListInv
        <3> QED  BY <1>0, <1>1, <1>5, <2>1, <3>1 DEF Resizes
    <2>2. CASE /\ screen' = "list" /\ named' = NewEntry
               /\ scroll' = Window(selected, text_rows' - 1) /\ UNCHANGED selected
        <3>1. text_rows' \in Heights /\ text_rows' - 1 \in Nat \ {0}
            BY <1>5, HeightRows DEF Resizes
        <3>2. scroll' \in Nat /\ selected \in scroll'..(scroll' + ListRows' - 1)
            BY <1>0, <2>2, <3>1, WindowHolds DEF ListRows
        <3>3. SelectionInArray'
            BY <1>5, <2>2, TablesStay DEF Resizes, ListInv, SelectionInArray
        <3>4. EnteredFromRow'
            BY <2>2 DEF EnteredFromRow
        <3> QED  BY <1>0, <1>5, <2>2, <3>1, <3>2, <3>3, <3>4, TablesStay
                 DEF Resizes, ListInv, ListTypeOK
    <2> QED  BY <1>5, <2>1, <2>2 DEF Resizes
<1>6. ASSUME UNCHANGED <<users, entries, seq, list, current, shorter, text_rows>>,
             UNCHANGED conn, named' \in 0..MaxId, screen' = "list",
             NEW sel \in Nat, Highlights(sel),
             sel = selected \/ sel < Len(list)
      PROVE  ListInv'
    <2>1. SelectionInArray'
        BY <1>6, TablesStay DEF ListInv, SelectionInArray, Highlights
    <2>2. EnteredFromRow'
        BY <1>6 DEF EnteredFromRow
    <2> QED  BY <1>0, <1>6, <2>1, <2>2, TablesStay, HighlightsHolds DEF ListInv, ListTypeOK
<1>7. CASE Back /\ ViewerCloses
    BY <1>0, <1>6, <1>7 DEF Back, Returns, ViewerCloses, terminal
<1>8. CASE Ends /\ ViewerCloses
    <2>1. StorageTypeOK' /\ <<>> \in Seq(Ids)
        BY <1>0, <1>8 DEF Ends, storageVars, StorageTypeOK
    <2> QED  BY <1>0, <1>8, <2>1, MaxIdAssumption
             DEF Ends, ViewerCloses, terminal, ListInv, ListTypeOK, SelectionInArray,
                 EnteredFromRow, NewEntry
<1> USE DEF viewerVars
<1>9. CASE Starts /\ UNCHANGED viewerVars
    <2>1. StorageTypeOK' /\ Lists
        BY <1>0, <1>9, AnsweredLists, CutOffLists DEF Starts, StorageTypeOK
    <2>2. selected' \in scroll'..(scroll' + ListRows' - 1)
        <3>1. ListRows' \in Nat \ {0}
            BY <1>0, <1>9, HeightRows DEF ListRows
        <3>2. selected' = 0 /\ scroll' = 0
            BY <1>9 DEF Starts
        <3>3. \A n \in Nat \ {0} : 0 \in 0..(0 + n - 1)
            OBVIOUS
        <3> QED  BY <3>1, <3>2, <3>3
    <2>3. SelectionInArray' /\ EnteredFromRow'
        BY <1>9, <2>1 DEF Starts, SelectionInArray, EnteredFromRow, Lists
    <2> QED  BY <1>0, <1>9, <2>1, <2>2, <2>3 DEF Starts, ListInv, ListTypeOK, Lists
<1>10. CASE Moves /\ UNCHANGED viewerVars
    <2>1. CASE selected > 0 /\ Highlights(selected - 1)
        <3>1. selected - 1 \in Nat
            BY <1>0, <2>1
        <3>2. SelectionInArray'
            BY <1>0, <1>10, <2>1, TablesStay DEF Moves, ListInv, SelectionInArray, Highlights
        <3>3. EnteredFromRow'
            BY <1>10 DEF Moves, EnteredFromRow
        <3> QED  BY <1>0, <1>10, <2>1, <3>1, <3>2, <3>3, TablesStay, HighlightsHolds
                 DEF Moves, ListInv, ListTypeOK
    <2>2. CASE selected < Len(list) - 1 /\ Highlights(selected + 1)
        BY <1>0, <1>6, <1>10, <2>2 DEF Moves
    <2> QED  BY <1>10, <2>1, <2>2 DEF Moves
<1>11. CASE (Edit \/ AskDelete) /\ UNCHANGED viewerVars
    BY <1>2, <1>11 DEF Edit, AskDelete
<1>12. CASE New /\ UNCHANGED viewerVars
    <2>1. EnteredFromRow'
        BY <1>12 DEF New, Shows, EnteredFromRow
    <2> QED  BY <1>0, <1>1, <1>12, <2>1 DEF New, Shows
<1>13. ASSUME StorageTypeOK', current' = "old",
              UNCHANGED <<screen, list, selected, scroll, conn, shorter, text_rows>>,
              named' \in 0..MaxId, screen = "question" => UNCHANGED named
       PROVE  ListInv'
    <2>1. SelectionInArray' /\ EnteredFromRow'
        BY <1>13 DEF ListInv, SelectionInArray, EnteredFromRow
    <2> QED  BY <1>0, <1>13, <2>1 DEF ListInv, ListTypeOK, ListRows
<1>14. CASE EditorSaves /\ UNCHANGED viewerVars
    <2>1. ASSUME NEW ts \in Stamps, NEW data \in Data, NEW id \in {-1} \cup Ids,
                 storage_add_entry(Me, data, ts, id),
                 \/ id > 0 /\ named' = id
                 \/ named' \in 0..seq'
          PROVE  ListInv'
        <3>1. StorageTypeOK'
            BY <1>0, <2>1, StorageTyped, ListAssumption
        <3>2. named' \in 0..MaxId
            BY <2>1, <3>1, MaxIdAssumption DEF StorageTypeOK, Ids
        <3> QED  BY <1>13, <1>14, <3>1, <3>2 DEF EditorSaves
    <2>2. CASE /\ named # NewEntry /\ UNCHANGED named
               /\ \E data \in Data : storage_update_entry(Me, named, data, 0)
        <3>1. PICK data \in Data : storage_update_entry(Me, named, data, 0)
            BY <2>2
        <3>2. named \in Ids \cup {0}
            BY <1>0 DEF Ids
        <3>3. StorageTypeOK'
            BY <1>0, <3>1, <3>2, StorageTyped, ListAssumption
        <3> QED  BY <1>0, <1>13, <1>14, <2>2, <3>3 DEF EditorSaves
    <2> QED  BY <1>14, <2>1, <2>2 DEF EditorSaves
<1>15. CASE EditorReturns /\ UNCHANGED viewerVars
    <2>1. StorageTypeOK' /\ Lists
        BY <1>0, <1>15, ReloadsLists DEF EditorReturns, Returns, StorageTypeOK
    <2>3. CASE screen = "new" /\ Highlights(Clamped(Len(list'), Len(list')))
                 /\ shorter' = FALSE
        BY <1>0, <1>15, <2>1, <2>3, NewArray, ClampedInArray
           DEF EditorReturns, Returns, Lists
    <2>4. CASE screen = "edit" /\ Highlights(selected)
                 /\ shorter' = (shorter \/ Len(list') < Len(list))
        <3>1. list # <<>>
            BY <2>4 DEF ListInv, EnteredFromRow
        <3>2. ~shorter => selected < Len(list)
            BY <3>1 DEF ListInv, SelectionInArray
        <3>5. ~shorter' => ~shorter /\ ~(Len(list') < Len(list))
            BY <2>4, Zenon
        <3>3. Len(list') > 0 /\ ~shorter' => selected < Len(list')
            BY <1>0, <2>1, <3>2, <3>5 DEF Lists
        <3>4. shorter' \in BOOLEAN
            BY <2>4, Zenon
        <3> QED  BY <1>0, <1>15, <2>1, <2>4, <3>3, <3>4, NewArray
                 DEF EditorReturns, Returns
    <2> QED  BY <1>15, <2>3, <2>4 DEF EditorReturns
<1>16. CASE Confirm /\ UNCHANGED viewerVars
    <2>1. StorageTypeOK'
        BY <1>0, <1>16, StorageTyped, ListAssumption
           DEF Confirm, Returns, StorageTypeOK
    <2>2. Lists
        BY <1>0, <1>16, ReloadsLists, CutOffLists DEF Confirm
    <2> QED  BY <1>0, <1>16, <2>1, <2>2, NewArray, ClampedInArray
             DEF Confirm, Returns, Lists
<1>17. CASE Reload /\ UNCHANGED viewerVars
    <2>1. StorageTypeOK' /\ Lists
        BY <1>0, <1>17, ReloadsLists DEF Reload, StorageTypeOK
    <2> QED  BY <1>0, <1>17, <2>1, NewArray, ClampedInArray DEF Reload, Lists
<1>18. CASE Elsewhere /\ UNCHANGED viewerVars
    <2>1. StorageTypeOK'
        <3>1. ASSUME NEW ts \in Stamps, NEW data \in Data, NEW id \in Ids,
                     storage_add_entry(Me, data, ts, id)
              PROVE  StorageTypeOK'
            BY <1>0, <3>1, StorageTyped, ListAssumption
        <3>2. ASSUME NEW id \in Own(Me), storage_delete_entry(Me, id, 0)
              PROVE  StorageTypeOK'
            BY <1>0, <3>2, StorageTyped, ListAssumption
        <3> QED  BY <1>18, <3>1, <3>2 DEF Elsewhere
    <2> QED  BY <1>0, <1>13, <1>18, <2>1 DEF Elsewhere, screenVars
<1>19. CASE LosesConnection /\ UNCHANGED viewerVars
    <2>1. EnteredFromRow'
        BY <1>19 DEF LosesConnection, ListInv, EnteredFromRow
    <2> QED  BY <1>0, <1>1, <1>19, <2>1 DEF LosesConnection, ListInv, ListTypeOK
<1>20. CASE UNCHANGED listVars
    <2>1. EnteredFromRow'
        BY <1>20 DEF listVars, tableVars, ListInv, EnteredFromRow
    <2> QED  BY <1>0, <1>1, <1>20, <2>1 DEF listVars, tableVars, ListInv, ListTypeOK
<1> QED
    BY <1>3, <1>4, <1>5, <1>7, <1>8, <1>9, <1>10, <1>11, <1>12, <1>14, <1>15, <1>16,
       <1>17, <1>18, <1>19, <1>20 DEF ListNext

LEMMA ListInvHolds == ListSpec => []ListInv
<1>1. ListInit => ListInv
    BY ListInvInit
<1>2. ListInv /\ [ListNext]_listVars => ListInv'
    BY ListInvStep
<1> QED  BY <1>1, <1>2, PTL DEF ListSpec

-----------------------------------------------------------------------------
(* Theorems. *)

\* Every variable of the list screen stays within its type: in particular the
\* rows are ids, and the selection and the window never become negative
\* (ui.c:430-539).
THEOREM ListTypeCorrect == ListSpec => []ListTypeOK
<1>1. ListInv => ListTypeOK
    BY DEF ListInv
<1> QED  BY <1>1, ListInvHolds, PTL

\* The selected row exists and is on the screen, for every number of entries,
\* every height of the terminal and whatever part of its rows the server sends,
\* until a return from E brings fewer rows than before, and from the next N, D or
\* R on again (ui.c:454-456, 508-511, 526, 531).
THEOREM SelectionIsAlwaysShown == ListSpec => []SelectionIsShown
<1>1. ListInv => SelectionIsShown
    BY DEF ListInv, SelectionInArray, SelectionIsShown
<1> QED  BY <1>1, ListInvHolds, PTL

\* While nobody has changed anything since the last GET, the rows are the
\* entries of the server, newest first; and the first MAX_ENTRIES of them by id if
\* its scan got to the end (ui.c:419-428, net.c:55-61, client_handler.c:21).
THEOREM ListsAreCurrent == ListSpec => []ListIsCurrent
<1>1. ListInv => ListIsCurrent
    BY DEF ListInv, ListIsCurrent, Fresh
<1> QED  BY <1>1, ListInvHolds, PTL

\* D removes the entry of the row that was highlighted when it was pressed, and
\* no other key removes any; with the exception of the selection's (ui.c:512-527).
THEOREM OnlySelectedDeleted == ListSpec => OnlySelectedIsDeleted
<1> DEFINE Safe(i) == entries'[i] = NoRow =>
                        \/ Elsewhere \/ shorter
                        \/ /\ screen = "question"
                           /\ selected < Len(list) /\ list[selected + 1] = i
<1>1. ASSUME ListInv, ListNext, NEW i \in Own(Me), entries'[i] = NoRow,
             ~Elsewhere, ~shorter
      PROVE  /\ screen = "question"
             /\ selected < Len(list) /\ list[selected + 1] = i
    <2>1. i \in Ids /\ entries[i] # NoRow /\ StorageTypeOK
        BY <1>1 DEF Own, Live, ListInv, ListTypeOK
    <2>2. i \notin Own(Me)'
        BY <1>1 DEF Own, Live
    <2>3. ~EditorSaves
        <3>1. ASSUME NEW ts \in Stamps, NEW data \in Data, NEW id \in {-1} \cup Ids,
                     storage_add_entry(Me, data, ts, id)
              PROVE  FALSE
            BY <1>1, <2>1, <2>2, <3>1, AddKeepsOwn
        <3>2. ASSUME NEW data \in Data, storage_update_entry(Me, named, data, 0)
              PROVE  FALSE
            BY <1>1, <2>1, <2>2, <3>2, UpdateKeepsOwn
        <3> QED  BY <3>1, <3>2 DEF EditorSaves
    <2>4. entries' # entries
        BY <1>1, <2>1
    <2>5. Confirm
        BY <1>1, <2>3, <2>4
           DEF ListNext, Read, Shows, Views, tableVars, Resizes, Back, Ends, storageVars,
               Starts, Moves, Edit, AskDelete, New, EditorReturns, Reload, LosesConnection
    <2>6. storage_delete_entry(Me, named, 0)
        BY <2>4, <2>5 DEF Confirm, storage_delete_entry, storageVars
    <2>7. named = i
        BY <1>1, <2>1, <2>6, DeleteRemovesOne, ListAssumption
    <2> QED  BY <1>1, <2>5, <2>7 DEF Confirm, ListInv, EnteredFromRow
<1>2. ASSUME ListInv, [ListNext]_listVars
      PROVE  [\A i \in Own(Me) : Safe(i)]_listVars
    BY <1>1, <1>2
<1> QED  BY <1>2, ListInvHolds, PTL DEF ListSpec, OnlySelectedIsDeleted

-----------------------------------------------------------------------------
(* The viewer. *)

\* The inductive invariant.  The terminal has had no fewer rows than lowest, and
\* on the other screens, where it may get lower still, there is no text.
ViewerInv ==
    /\ Len(text) \in Nat
    /\ text_rows \in Heights /\ cols \in ColSizes
    /\ lowest \in Nat /\ lowest <= text_rows
    /\ total_vrows \in Nat \ {0}
    /\ ViewStaysInText
    /\ screen # "viewer" => text = <<>> /\ total_vrows = 1 /\ view_top = 0

LEMMA SizesAre ==
    /\ \A h \in Heights : h \in Nat /\ h >= 2
    /\ \A c \in ColSizes : c \in Nat \ {0, 1}
<1>1. ASSUME NEW h \in Heights PROVE h \in Nat /\ h >= 2
    <2>1. h \in Nat \ {0, 1}
        BY ViewerAssumption
    <2> QED  BY <2>1
<1> QED  BY <1>1, ViewerAssumption

LEMMA TextsAre ==
    ASSUME NEW t \in Texts
    PROVE  Len(t) \in Nat
<1>1. PICK n \in 0..MaxText : t \in [1..n -> {Ascii, Newline}]
    BY DEF Texts
<1>2. n \in Nat
    BY ViewerAssumption
<1> QED  BY <1>1, <1>2

\* Where a step leaves the first row: at the top, or on a row from which the
\* lowest terminal is still filled.
LEMMA StaysInText ==
    ASSUME NEW top, NEW low \in Nat, NEW rows \in Nat, NEW total \in Nat \ {0},
           low <= rows, rows >= 2,
           \/ top = 0
           \/ top \in Nat /\ top + rows <= total
           \/ top \in 0..(total - 1) /\ top + low <= total
    PROVE  top \in 0..(total - 1) /\ (top = 0 \/ top + low <= total)
OBVIOUS

LEMMA ScrollsInText ==
    ASSUME ViewerInv, LineDown \/ LineUp \/ WheelUp \/ WheelDown
    PROVE  ViewStaysInText'
<1>1. /\ lowest \in Nat /\ text_rows \in Nat /\ text_rows >= 2 /\ lowest <= text_rows
      /\ total_vrows \in Nat \ {0} /\ view_top \in 0..(total_vrows - 1)
      /\ view_top = 0 \/ view_top + lowest <= total_vrows
      /\ ScrollLines \in Nat \ {0}
    BY SizesAre, ViewerAssumption DEF ViewerInv, ViewStaysInText
<1>2. total_vrows' = total_vrows /\ lowest' = lowest
    BY DEF LineDown, LineUp, WheelUp, WheelDown, ScrollsTo
<1>3. \/ view_top' = 0
      \/ view_top' \in Nat /\ view_top' + text_rows <= total_vrows
      \/ view_top' \in 0..(total_vrows - 1) /\ view_top' + lowest <= total_vrows
    <2>1. CASE LineDown
        BY <1>1, <2>1 DEF LineDown, ScrollsTo
    <2>2. CASE LineUp
        BY <1>1, <2>2 DEF LineUp, ScrollsTo
    <2>3. CASE WheelUp
        BY <1>1, <2>3 DEF WheelUp, ScrollsTo
    <2>4. CASE WheelDown
        BY <1>1, <2>4 DEF WheelDown, ScrollsTo
    <2> QED  BY <2>1, <2>2, <2>3, <2>4
<1>4. view_top' \in 0..(total_vrows - 1) /\ (view_top' = 0 \/ view_top' + lowest <= total_vrows)
    BY <1>1, <1>3, StaysInText
<1> QED  BY <1>2, <1>4 DEF ViewStaysInText

LEMMA ViewerInvInit == ListInit => ViewerInv
<1> SUFFICES ASSUME ListInit PROVE ViewerInv
    OBVIOUS
<1>1. ViewerInit
    BY DEF ListInit
<1>2. text_rows \in Heights /\ text_rows \in Nat /\ Len(<<>>) = 0
    BY <1>1, SizesAre DEF ViewerInit
<1> QED  BY <1>1, <1>2 DEF ViewerInit, ViewerInv, ViewStaysInText

LEMMA ViewerInvStep == ViewerInv /\ [ListNext]_listVars => ViewerInv'
<1> SUFFICES ASSUME ViewerInv, [ListNext]_listVars PROVE ViewerInv'
    OBVIOUS
<1>0. /\ text_rows \in Heights /\ cols \in ColSizes /\ lowest \in Nat
      /\ text_rows \in Nat /\ text_rows >= 2 /\ Len(<<>>) = 0
    BY SizesAre DEF ViewerInv
<1>1. CASE Read
    <2>1. ViewerOpens /\ screen' = "viewer"
        BY <1>1 DEF Read, Shows
    <2>2. Len(text') \in Nat /\ cols \in Nat \ {0, 1}
        BY <1>0, <2>1, TextsAre, SizesAre DEF ViewerOpens
    <2>3. total_vrows' \in Nat \ {0}
        <3>1. Len(text') \in 0..Len(text')
            BY <2>2
        <3> QED  BY <2>1, <2>2, <3>1, RowIs DEF ViewerOpens
    <2> QED  BY <1>0, <2>1, <2>2, <2>3 DEF ViewerOpens, terminal, ViewerInv, ViewStaysInText
<1>2. CASE Views
    <2>1. screen = "viewer" /\ screen' = "viewer"
        BY <1>2 DEF Views, tableVars
    <2>2. CASE LineDown \/ LineUp \/ WheelUp \/ WheelDown
        <3>1. ViewStaysInText'
            BY <2>2, ScrollsInText
        <3> QED  BY <2>1, <2>2, <3>1 DEF ViewerInv, LineDown, LineUp, WheelUp, WheelDown, ScrollsTo
    <2>3. CASE Resize
        <3>1. text_rows' \in Heights /\ text_rows' \in Nat /\ cols' \in ColSizes
            BY <2>3, SizesAre DEF Resize
        <3>2. {lowest, text_rows'} \in SUBSET Nat /\ {lowest, text_rows'} # {}
            BY <1>0, <3>1
        <3>3. lowest' \in {lowest, text_rows'} /\ lowest' <= lowest /\ lowest' <= text_rows'
            BY <2>3, <3>2, MinIs DEF Resize
        <3>4. ViewStaysInText'
            BY <1>0, <2>3, <3>1, <3>3 DEF Resize, ViewerInv, ViewStaysInText
        <3> QED  BY <1>0, <2>1, <2>3, <3>1, <3>3, <3>4 DEF Resize, ViewerInv
    <2> QED  BY <1>2, <2>2, <2>3 DEF Views, ViewerNext
<1>3. CASE Resizes
    <2>1. text_rows' \in Heights /\ text_rows' \in Nat /\ cols' \in ColSizes
        BY <1>3, SizesAre DEF Resizes
    <2>2. screen # "viewer"
        BY <1>3 DEF Resizes
    <2> QED  BY <1>3, <2>1, <2>2 DEF Resizes, ViewerInv, ViewStaysInText
<1>4. CASE ViewerCloses
    BY <1>0, <1>4 DEF ViewerCloses, terminal, ViewerInv, ViewStaysInText
<1>5. ASSUME UNCHANGED viewerVars, screen = "viewer" => screen' = "viewer"
      PROVE  ViewerInv'
    BY <1>5 DEF viewerVars, ViewerInv, ViewStaysInText
<1>6. CASE /\ \/ Starts \/ Moves \/ Edit \/ AskDelete \/ New \/ EditorSaves
              \/ EditorReturns \/ Confirm \/ Reload \/ Elsewhere \/ LosesConnection
           /\ UNCHANGED viewerVars
    <2>1. screen = "viewer" => screen' = "viewer"
        BY <1>6 DEF Starts, Moves, Edit, AskDelete, New, Shows, EditorSaves, EditorReturns,
                    Confirm, Reload, Elsewhere, screenVars, LosesConnection
    <2> QED  BY <1>5, <1>6, <2>1
<1>7. CASE UNCHANGED listVars
    BY <1>5, <1>7 DEF listVars, tableVars
<1> QED  BY <1>1, <1>2, <1>3, <1>4, <1>6, <1>7 DEF ListNext

LEMMA ViewerInvHolds == ListSpec => []ViewerInv
<1> QED  BY ViewerInvInit, ViewerInvStep, PTL DEF ListSpec

\* However keys, the wheel and changes of the terminal mix, on terminals of any
\* sizes the first row shown is one of the text, and the page it starts is full
\* on the lowest terminal there was (ui.c:186-199).
THEOREM ViewAlwaysInText == ListSpec => []ViewStaysInText
<1>1. ViewerInv => ViewStaysInText
    BY DEF ViewerInv
<1> QED  BY <1>1, ViewerInvHolds, PTL

\* On a terminal that keeps its width the rows counted at the start are those of
\* the text.
RowsCounted == total_vrows = RowsOf(text, cols)

LEMMA RowsCountedStep ==
    ASSUME NEW width, ColSizes = {width}, ViewerInv, RowsCounted, [ListNext]_listVars
    PROVE  RowsCounted'
<1>1. /\ cols = width
      /\ Len(<<>>) = 0 /\ width \in Nat \ {0, 1}
    BY SizesAre DEF ViewerInv
<1>2. RowsOf(<<>>, width) = 1
    <2>1. 0 \in 0..Len(<<>>)
        BY <1>1
    <2>2. Scan(<<>>, width)[0] = <<0, 0>>
        BY <1>1, ScanIs
    <2>3. RowsOf(<<>>, width) = Scan(<<>>, width)[Len(<<>>)][1] + 1
        BY <1>1, <2>1, RowIs
    <2> QED  BY <1>1, <2>2, <2>3
<1>3. CASE Read
    BY <1>3 DEF Read, ViewerOpens, terminal, RowsCounted
<1>4. CASE Views
    BY <1>1, <1>4 DEF Views, ViewerNext, LineDown, LineUp, WheelUp, WheelDown, ScrollsTo,
                      Resize, RowsCounted
<1>5. CASE Resizes
    BY <1>1, <1>5 DEF Resizes, RowsCounted
<1>6. CASE ViewerCloses
    BY <1>1, <1>2, <1>6 DEF ViewerCloses, terminal, RowsCounted
<1>7. CASE UNCHANGED viewerVars
    BY <1>7 DEF viewerVars, RowsCounted
<1> QED  BY <1>3, <1>4, <1>5, <1>6, <1>7 DEF ListNext, listVars

\* Where DOWN stops the last of the text is on the screen, for every text, every
\* height and every width that does not change while the text is open: the rows
\* are counted once and drawn again in every round (ui.c:154-161, 163-176, 188).
THEOREM EndAlwaysReached ==
    ASSUME NEW width, ColSizes = {width}
    PROVE  ListSpec => []EndIsReached
<1>1. ListInit => RowsCounted
    <2> SUFFICES ASSUME ListInit PROVE RowsCounted
        OBVIOUS
    <2>1. /\ text = <<>> /\ total_vrows = 1 /\ Len(<<>>) = 0 /\ 0 \in 0..0
          /\ cols \in Nat \ {0, 1}
        BY SizesAre DEF ListInit, ViewerInit
    <2>2. Scan(<<>>, cols)[0] = <<0, 0>>
        BY <2>1, ScanIs
    <2> QED  BY <2>1, <2>2, RowIs DEF RowsCounted
<1>2. ViewerInv /\ RowsCounted /\ [ListNext]_listVars => RowsCounted'
    BY RowsCountedStep
<1>3. ViewerInv /\ RowsCounted => EndIsReached
    <2> SUFFICES ASSUME ViewerInv, RowsCounted, total_vrows <= view_top + text_rows,
                        NEW i \in Boundaries(text) \ {Len(text)}
                 PROVE  DrawnAt(text, i, cols)[1] < view_top + text_rows
        BY DEF EndIsReached
    <2>1. Len(text) \in Nat /\ cols \in Nat \ {0, 1} /\ i \in 0..Len(text)
        BY SizesAre, OffsetsAre DEF ViewerInv
    <2>2. /\ DrawnAt(text, i, cols)[1] \in Nat /\ RowsOf(text, cols) \in Nat
          /\ DrawnAt(text, i, cols)[1] < RowsOf(text, cols)
        BY <2>1, DrawnInText, RowIs
    <2>3. view_top \in Nat /\ text_rows \in Nat
        BY SizesAre DEF ViewerInv, ViewStaysInText
    <2> QED  BY <2>2, <2>3 DEF RowsCounted
<1> QED  BY <1>1, <1>2, <1>3, ViewerInvHolds, PTL DEF ListSpec
=============================================================================
