----------------------------- MODULE EditorText -----------------------------
(***************************************************************************)
(* The text of screen_editor() of client/ui.c: the buffer and its          *)
(* allocation, the cursor, and the part of the text that is on the screen, *)
(* under every key that moves or edits.  Saving, and leaving, are Editor's *)
(* (module Editor, where a text is a number).                              *)
(*                                                                         *)
(* A step is one round of the loop: wgetch, the branch for the key, and    *)
(* the top of the loop that brings the cursor back into view.              *)
(***************************************************************************)
EXTENDS TextLayout

CONSTANTS
    MaxLen,         \* bound: bytes in a text that is opened or typed
    InitialSize,    \* the first allocation, 4096
    Widths,         \* continuation bytes in the longer characters of the user
    TextRows,       \* rows of the terminal less header and status line
    Cols,           \* its columns
    ScrollLines,    \* SCROLL_LINES
    OddBytes        \* (char) of the key codes above 255 that isprint accepts

ASSUME LayoutAssumption ==
    /\ MaxLen \in Nat /\ InitialSize \in Nat \ {0, 1}
    /\ Widths \subseteq Nat \ {0}
    /\ TextRows \in Nat \ {0} /\ Cols \in Nat \ {0, 1}
    /\ ScrollLines \in Nat \ {0}

Bytes == {Newline, Ascii, Cont} \cup {Lead(n) : n \in Widths}

ASSUME OddBytesAssumption == OddBytes \subseteq Bytes

VARIABLES
    buf,        \* the bytes in use, buf_len of them
    buf_sz,     \* the bytes allocated
    cursor,     \* offset in buf
    view_top,   \* the first row on the screen
    due         \* bytes of the character being typed that are still to come

textVars == <<buf, buf_sz, cursor, view_top, due>>

Size(byte) == IF byte = Newline THEN 1 ELSE byte + 1

\* Every character has all its bytes.
WholeCharacters(text) ==
    /\ Boundary(text, 0)
    /\ \A i \in Boundaries(text) \ {Len(text)} :
         LET next == i + Size(At(text, i)) IN
         next \in Boundaries(text) /\ \A j \in (i + 1)..(next - 1) : ~Boundary(text, j)

Texts == {text \in UNION {[1..n -> Bytes] : n \in 0..MaxLen} :
            WholeCharacters(text)}

\* while (buf_len + 1 >= buf_sz) buf_sz *= 2, from the first allocation on.
FirstSizes(len) ==
    {size \in (len + 2)..(2 * (len + InitialSize)) :
        \E k \in 0..(len + 1) :
            /\ size = InitialSize * 2^k
            /\ k = 0 \/ InitialSize * 2^(k - 1) <= len + 1}

BadGrown(size, len) == IF len >= size THEN 2 * size ELSE size    \* not for the NUL

Grown(size, len) == IF len + 1 >= size THEN 2 * size ELSE size

Row(text, at) == get_vpos(text, at, Cols)[1]
Col(text, at) == get_vpos(text, at, Cols)[2]

BadFollow(top, row) ==    \* off by one
    IF row < top THEN row
    ELSE IF row > top + TextRows THEN row - TextRows + 1 ELSE top

\* The top of the loop.
Follow(top, row) ==
    IF row < top THEN row
    ELSE IF row >= top + TextRows THEN row - TextRows + 1 ELSE top

Shows(top) == view_top' = Follow(top, Row(buf', cursor'))

\* A new entry is empty; an old one is opened with the cursor at its end.
TextInit ==
    /\ buf \in Texts
    /\ buf_sz \in FirstSizes(Len(buf))
    /\ cursor = Len(buf)
    /\ view_top = Follow(0, Row(buf, cursor))
    /\ due = 0

-----------------------------------------------------------------------------
(* Keys arrive between characters, the bytes of one character together.    *)

MovesTo(i) ==
    /\ due = 0
    /\ cursor' = i
    /\ UNCHANGED <<buf, buf_sz, due>>
    /\ Shows(view_top)

VisualMove(row, col) == MovesTo(vpos_to_idx(buf, Cols, row, col))

Up == Row(buf, cursor) > 0 /\ VisualMove(Row(buf, cursor) - 1, Col(buf, cursor))
Down == VisualMove(Row(buf, cursor) + 1, Col(buf, cursor))
Home == VisualMove(Row(buf, cursor), 0)
End == VisualMove(Row(buf, cursor), Cols)
Left == cursor > 0 /\ MovesTo(CharStart(buf, cursor))
Right == cursor < Len(buf) /\ MovesTo(cursor + u8_char_len(buf, cursor))

\* The wheel moves the view; the next round takes it back to the cursor.
Wheel ==
    /\ due = 0
    /\ UNCHANGED <<buf, buf_sz, cursor, due>>
    /\ \/ Shows(IF view_top < ScrollLines THEN 0 ELSE view_top - ScrollLines)
       \/ Shows(view_top + ScrollLines)

\* memmove of the tail over the bytes from offset i to offset j.
Cut(i, j) ==
    /\ buf' = [k \in 1..(Len(buf) - (j - i)) |->
                 IF k <= i THEN buf[k] ELSE buf[k + (j - i)]]
    /\ UNCHANGED <<buf_sz, due>>

BadBackspace ==    \* the cursor stays where it was
    /\ due = 0 /\ cursor > 0
    /\ Cut(CharStart(buf, cursor), cursor) /\ UNCHANGED cursor
    /\ Shows(view_top)

Backspace ==
    /\ due = 0 /\ cursor > 0
    /\ LET start == CharStart(buf, cursor) IN
       Cut(start, cursor) /\ cursor' = start
    /\ Shows(view_top)

Delete ==
    /\ due = 0 /\ cursor < Len(buf)
    /\ Cut(cursor, cursor + u8_char_len(buf, cursor))
    /\ UNCHANGED cursor
    /\ Shows(view_top)

\* One byte at the cursor, after growing the buffer if it has to.
Insert(byte) ==
    /\ Len(buf) < MaxLen
    /\ buf_sz' = Grown(buf_sz, Len(buf))
    /\ buf' = [k \in 1..(Len(buf) + 1) |->
                 CASE k <= cursor -> buf[k]
                   [] k = cursor + 1 -> byte
                   [] k > cursor + 1 -> buf[k - 1]]
    /\ cursor' = cursor + 1
    /\ Shows(view_top)

\* Enter, an ASCII character, or the first byte of a longer one.
Key ==
    /\ due = 0
    /\ \/ \E byte \in {Newline, Ascii} : Insert(byte) /\ due' = 0
       \/ \E n \in Widths :
            /\ Len(buf) + n < MaxLen
            /\ Insert(Lead(n)) /\ due' = n

KeyContinues == due > 0 /\ Insert(Cont) /\ due' = due - 1

\* A key without a branch of its own (KEY_RESIZE, PgUp...) comes to
\* isprint(ch), which C defines for 0..255 only.
OtherKey == due = 0 /\ \E byte \in OddBytes : Insert(byte) /\ due' = 0

TextNext ==
    \/ Up \/ Down \/ Home \/ End \/ Left \/ Right \/ Wheel
    \/ Backspace \/ Delete \/ Key \/ KeyContinues \/ OtherKey

TextSpec == TextInit /\ [][TextNext]_textVars

-----------------------------------------------------------------------------
(* Properties *)

\* Every variable stays within the values its C counterpart can hold, and
\* the cursor within the bytes in use.
TextTypeOK ==
    /\ buf \in Seq(Bytes)
    /\ buf_sz \in Nat \ {0}
    /\ cursor \in Offsets(buf)
    /\ view_top \in Nat
    /\ due \in Nat

\* The buffer has a byte left for the NUL that a save writes after the text,
\* however it grew (ui.c:228, 317, 391, 399).
RoomForNul == Len(buf) < buf_sz

\* Between characters the cursor is never inside one
\* (client/architecture.md:133).
CursorOnBoundary == due = 0 => Boundary(buf, cursor)

\* The bytes typed, moved over and deleted leave whole characters behind,
\* wherever the cursor was (client/architecture.md:133-135).
TextIsWhole == due = 0 => WholeCharacters(buf)

\* The two functions are inverse on the positions the cursor can have
\* (ui.c:74-102).
PositionsRoundTrip ==
    \A i \in Boundaries(buf) :
        vpos_to_idx(buf, Cols, Row(buf, i), Col(buf, i)) = i

\* The text a user sees around the cursor is the text the next key changes:
\* the row of the cursor is always on the screen, also after the wheel, and
\* the screen does not start beyond the text.
CursorOnScreen ==
    /\ view_top <= Row(buf, cursor) /\ Row(buf, cursor) < view_top + TextRows
    /\ view_top < RowsOf(buf, Cols)

\* UP and DOWN move by one row of the screen, or to the end of the text from
\* the last one; END stays on its row and does not go back.
ArrowsMoveByRows ==
    [][/\ Up => Row(buf, cursor') = Row(buf, cursor) - 1
       /\ Down => \/ Row(buf, cursor') = Row(buf, cursor) + 1
                  \/ Row(buf, cursor) + 1 = RowsOf(buf, Cols) /\ cursor' = Len(buf)
       /\ End => Row(buf, cursor') = Row(buf, cursor) /\ cursor' >= cursor]_textVars

\* ui.c:85, "Returns the buffer index for visual position (tvr, tvc)": a
\* character is found where it is drawn.
DrawnIsFound ==
    \A i \in Boundaries(buf) \ {Len(buf)} :
        buf[i + 1] # Newline =>
            LET at == DrawnAt(buf, i, Cols) IN
            vpos_to_idx(buf, Cols, at[1], at[2]) = i
=============================================================================
