----------------------------- MODULE TextLayout -----------------------------
(***************************************************************************)
(* The text buffer of client/ui.c and its layout on the screen: UTF-8      *)
(* bytes, soft wrapping at the last column but one, and the two functions  *)
(* that take a byte offset to a row and column and back.                   *)
(*                                                                         *)
(* A text is a sequence of bytes; offsets count from 0 as in C, so the     *)
(* byte at offset i is text[i + 1].  Of a byte only its part in the layout *)
(* is kept: a newline, a byte that starts a character of n more bytes      *)
(* (none: ASCII), or one of those, which UTF-8 marks 10xxxxxx.             *)
(***************************************************************************)
EXTENDS Integers, Sequences, FiniteSetsExt

Lead(n) == n
Ascii == Lead(0)
Newline == -1
Cont == -2

Offsets(text) == 0..Len(text)
At(text, i) == text[i + 1]

u8_is_cont(byte) == byte = Cont

\* Where a character starts, or the end of the text.
Boundary(text, i) == i = Len(text) \/ ~u8_is_cont(At(text, i))

Boundaries(text) == {i \in Offsets(text) : Boundary(text, i)}

BadCharLen(text, i) == 1    \* a byte is a character

\* The byte at i and the continuation bytes after it.
u8_char_len(text, i) == Min({j \in Boundaries(text) : j > i}) - i

BadCharStart(text, i) == i - 1    \* a byte is a character

\* The start of the character that ends before i.
CharStart(text, i) == Max({j \in Boundaries(text) \cup {0} : j < i})

-----------------------------------------------------------------------------
Wraps(byte, col, cols) == byte = Newline \/ col >= cols - 1

\* Row and column after a byte: a character that wraps is counted in its new
\* row.
After(byte, at, cols) ==
    IF u8_is_cont(byte) THEN at
    ELSE IF byte = Newline THEN <<at[1] + 1, 0>>
    ELSE IF Wraps(byte, at[2], cols) THEN <<at[1] + 1, 1>>
    ELSE <<at[1], at[2] + 1>>

\* The scan that get_vpos, vpos_to_idx, the viewer and both drawing loops
\* share: row and column when it comes to offset i.
Scan(text, cols) ==
    LET pos[i \in Offsets(text)] ==
          IF i = 0 THEN <<0, 0>> ELSE After(At(text, i - 1), pos[i - 1], cols)
    IN  pos

BadGetVpos(text, cursor, cols) ==    \* wraps one column later than the drawing
    Scan(text, cols + 1)[Min({cursor, Len(text)})]

get_vpos(text, cursor, cols) == Scan(text, cols)[Min({cursor, Len(text)})]

BadVposToIdx(text, cols, row, col) ==    \* a row that is too short is not noticed
    LET pos == Scan(text, cols) IN
    Min({i \in Boundaries(text) : i = Len(text) \/ pos[i] = <<row, col>>})

\* The first offset at that row and column; else the end of that row, or of
\* the text.
vpos_to_idx(text, cols, row, col) ==
    LET pos == Scan(text, cols) IN
    Min({i \in Boundaries(text) :
           \/ i = Len(text)
           \/ pos[i] = <<row, col>>
           \/ pos[i][1] = row /\ Wraps(At(text, i), pos[i][2], cols)})

\* Where the drawing loops put the character at offset i: on its new row, if
\* it wraps.
DrawnAt(text, i, cols) ==
    LET at == get_vpos(text, i, cols) IN
    IF Wraps(At(text, i), at[2], cols) THEN <<at[1] + 1, 0>> ELSE at

BadRowsOf(text, cols) == get_vpos(text, Len(text), cols)[1]    \* counts the breaks

\* The rows of the text: total_vrows of the viewer.
RowsOf(text, cols) == get_vpos(text, Len(text), cols)[1] + 1
=============================================================================
