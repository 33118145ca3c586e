-------------------------- MODULE EditorTextProofs --------------------------
(***************************************************************************)
(* Theorems of EditorText, for texts of any length, terminals of any size  *)
(* and characters of any width: what the keys do to the buffer, and what   *)
(* the layout of LayoutProofs makes of that on the screen.                 *)
(***************************************************************************)
EXTENDS EditorText, LayoutProofs, SequenceTheorems

-----------------------------------------------------------------------------
(* The buffer. *)

\* The cursor is inside the bytes in use, and those leave one byte free.
BufferOK ==
    /\ buf \in Seq(Bytes)
    /\ buf_sz \in Nat \ {0}
    /\ cursor \in 0..Len(buf)
    /\ due \in Nat
    /\ RoomForNul

\* The cut leaves the bytes before i and those from j on.
LEMMA CutIs ==
    ASSUME BufferOK, NEW i \in 0..Len(buf), NEW j \in 0..Len(buf), i <= j, Cut(i, j)
    PROVE  /\ buf' \in Seq(Bytes)
           /\ Len(buf') = Len(buf) - (j - i)
           /\ \A k \in 1..Len(buf') :
                buf'[k] = IF k <= i THEN buf[k] ELSE buf[k + (j - i)]
<1> DEFINE n == Len(buf) - (j - i)
<1>1. n \in Nat /\ Len(buf) \in Nat
    <2>1. Len(buf) \in Nat
        BY DEF BufferOK
    <2> QED  BY <2>1
<1>2. ASSUME NEW k \in 1..n
      PROVE  (IF k <= i THEN buf[k] ELSE buf[k + (j - i)]) \in Bytes
    <2>1. CASE k <= i
        <3>1. k \in 1..Len(buf)
            BY <1>1, <2>1
        <3> QED  BY <2>1, <3>1, ElementOfSeq DEF BufferOK
    <2>2. CASE ~(k <= i)
        <3>1. k + (j - i) \in 1..Len(buf)
            BY <1>1, <2>2
        <3> QED  BY <2>2, <3>1, ElementOfSeq DEF BufferOK
    <2> QED  BY <2>1, <2>2
<1>3. buf' = [k \in 1..n |-> IF k <= i THEN buf[k] ELSE buf[k + (j - i)]]
    BY DEF Cut
<1>4. buf' \in [1..n -> Bytes]
    BY <1>2, <1>3
<1>5. buf' \in Seq(Bytes) /\ Len(buf') = n
    BY <1>1, <1>4
<1> HIDE DEF n
<1> QED  BY <1>3, <1>5 DEF n

LEMMA InsertIs ==
    ASSUME BufferOK, NEW byte \in Bytes, Insert(byte)
    PROVE  /\ buf' \in Seq(Bytes)
           /\ Len(buf') = Len(buf) + 1
           /\ cursor' = cursor + 1 /\ cursor' \in 0..Len(buf')
           /\ buf'[cursor + 1] = byte
           /\ \A k \in 1..cursor : buf'[k] = buf[k]
           /\ \A k \in (cursor + 2)..Len(buf') : buf'[k] = buf[k - 1]
           /\ buf_sz' \in Nat \ {0} /\ RoomForNul'
<1> DEFINE n == Len(buf) + 1
           e(k) == CASE k <= cursor -> buf[k]
                     [] k = cursor + 1 -> byte
                     [] k > cursor + 1 -> buf[k - 1]
<1>1. Len(buf) \in Nat /\ cursor \in 0..Len(buf) /\ n \in Nat
    BY DEF BufferOK
<1>2. buf' = [k \in 1..n |-> e(k)]
    BY DEF Insert
<1>3. /\ \A k \in 1..cursor : e(k) = buf[k]
      /\ e(cursor + 1) = byte
      /\ \A k \in (cursor + 2)..n : e(k) = buf[k - 1]
    BY <1>1
<1>4. ASSUME NEW k \in 1..n PROVE e(k) \in Bytes
    <2>1. CASE k \in 1..cursor
        <3>1. k \in 1..Len(buf)
            BY <1>1, <2>1
        <3> QED  BY <1>3, <2>1, <3>1, ElementOfSeq DEF BufferOK
    <2>2. CASE k = cursor + 1
        BY <1>3, <2>2
    <2>3. CASE k \in (cursor + 2)..n
        <3>1. k - 1 \in 1..Len(buf)
            BY <1>1, <2>3
        <3> QED  BY <1>3, <2>3, <3>1, ElementOfSeq DEF BufferOK
    <2> HIDE DEF e
    <2> QED  BY <1>1, <2>1, <2>2, <2>3
<1> HIDE DEF e
<1>5. buf' \in [1..n -> Bytes]
    BY <1>2, <1>4
<1>6. buf' \in Seq(Bytes) /\ Len(buf') = n
    BY <1>1, <1>5
<1>7. cursor' = cursor + 1 /\ buf_sz' = Grown(buf_sz, Len(buf))
    BY DEF Insert
<1>8. buf_sz' \in Nat \ {0} /\ n < buf_sz'
    BY <1>1, <1>7 DEF Grown, BufferOK, RoomForNul
<1>9. /\ \A k \in 1..n : buf'[k] = e(k)
      /\ cursor + 1 \in 1..n
      /\ \A k \in 1..cursor : k \in 1..n
      /\ \A k \in (cursor + 2)..n : k \in 1..n
    BY <1>1, <1>2
<1> QED  BY <1>1, <1>3, <1>6, <1>7, <1>8, <1>9 DEF RoomForNul

LEMMA BytesAre ==
    /\ Newline \in Bytes /\ Ascii \in Bytes /\ Cont \in Bytes
    /\ \A n \in Widths : Lead(n) \in Bytes
    /\ \A byte \in OddBytes : byte \in Bytes
BY OddBytesAssumption DEF Bytes

LEMMA BufferStep ==
    ASSUME BufferOK, [TextNext]_textVars
    PROVE  BufferOK'
<1>1. /\ buf \in Seq(Bytes) /\ Len(buf) \in Nat /\ cursor \in 0..Len(buf)
      /\ buf_sz \in Nat \ {0} /\ due \in Nat /\ Len(buf) < buf_sz
    BY DEF BufferOK, RoomForNul
<1>2. CASE Up \/ Down \/ Home \/ End
    <2>1. PICK i \in Boundaries(buf) : MovesTo(i)
        BY <1>1, <1>2, LookupIs DEF Up, Down, Home, End, VisualMove
    <2> QED  BY <1>1, <2>1, OffsetsAre DEF MovesTo, BufferOK, RoomForNul
<1>3. CASE Left
    BY <1>1, <1>3, CharStartIs DEF Left, MovesTo, BufferOK, RoomForNul
<1>4. CASE Right
    <2>1. cursor + u8_char_len(buf, cursor) \in 0..Len(buf)
        BY <1>1, <1>4, CharLenIs, OffsetsAre DEF Right
    <2> QED  BY <1>1, <1>4, <2>1 DEF Right, MovesTo, BufferOK, RoomForNul
<1>5. CASE Wheel \/ UNCHANGED textVars
    BY <1>5 DEF Wheel, textVars, BufferOK, RoomForNul
<1>6. CASE Backspace
    <2>1. PICK i : i = CharStart(buf, cursor)
        OBVIOUS
    <2>2. i \in 0..Len(buf) /\ i < cursor
        BY <1>1, <1>6, <2>1, CharStartIs DEF Backspace
    <2>3. Cut(i, cursor) /\ cursor' = i
        BY <1>6, <2>1 DEF Backspace
    <2>4. buf' \in Seq(Bytes) /\ Len(buf') = Len(buf) - (cursor - i)
        BY <1>1, <2>2, <2>3, CutIs
    <2>5. buf_sz' = buf_sz /\ due' = due
        BY <2>3 DEF Cut
    <2> QED  BY <1>1, <2>2, <2>3, <2>4, <2>5 DEF BufferOK, RoomForNul
<1>7. CASE Delete
    <2>1. PICK j : j = cursor + u8_char_len(buf, cursor)
        OBVIOUS
    <2>2. j \in 0..Len(buf) /\ cursor < j
        BY <1>1, <1>7, <2>1, CharLenIs, OffsetsAre DEF Delete
    <2>3. Cut(cursor, j) /\ cursor' = cursor
        BY <1>7, <2>1 DEF Delete
    <2>4. buf' \in Seq(Bytes) /\ Len(buf') = Len(buf) - (j - cursor)
        BY <1>1, <2>2, <2>3, CutIs
    <2>5. buf_sz' = buf_sz /\ due' = due
        BY <2>3 DEF Cut
    <2> QED  BY <1>1, <2>2, <2>3, <2>4, <2>5 DEF BufferOK, RoomForNul
<1>8. CASE Key \/ KeyContinues \/ OtherKey
    <2>1. due' \in Nat
        BY <1>1, <1>8, LayoutAssumption DEF Key, KeyContinues, OtherKey
    <2>2. PICK byte \in Bytes : Insert(byte)
        BY <1>8, BytesAre DEF Key, KeyContinues, OtherKey
    <2> QED  BY <2>1, <2>2, InsertIs DEF BufferOK
<1> QED  BY <1>2, <1>3, <1>4, <1>5, <1>6, <1>7, <1>8 DEF TextNext

LEMMA TextStarts ==
    ASSUME TextInit
    PROVE  BufferOK
<1>1. buf \in Seq(Bytes)
    <2>1. PICK n \in 0..MaxLen : buf \in [1..n -> Bytes]
        BY DEF TextInit, Texts
    <2>2. n \in Nat
        BY LayoutAssumption
    <2> QED  BY <2>1, <2>2, SeqDef
<1>2. Len(buf) \in Nat
    BY <1>1
<1>3. buf_sz \in (Len(buf) + 2)..(2 * (Len(buf) + InitialSize))
    BY DEF TextInit, FirstSizes
<1>4. InitialSize \in Nat
    BY LayoutAssumption
<1>5. buf_sz \in Nat \ {0} /\ Len(buf) < buf_sz
    BY <1>2, <1>3, <1>4
<1>6. cursor \in 0..Len(buf) /\ due \in Nat
    BY <1>2 DEF TextInit
<1> QED  BY <1>1, <1>5, <1>6 DEF BufferOK, RoomForNul

LEMMA BufferInvariant == TextSpec => []BufferOK
<1>1. TextInit => BufferOK
    BY TextStarts
<1>2. BufferOK /\ [TextNext]_textVars => BufferOK'
    BY BufferStep
<1> QED  BY <1>1, <1>2, PTL DEF TextSpec

\* Whatever is typed and deleted, the NUL that a save writes behind the text
\* stays within the allocation (ui.c:228, 317, 391, 399).
THEOREM RoomForNulAlways == TextSpec => []RoomForNul
<1>1. BufferOK => RoomForNul
    BY DEF BufferOK
<1> QED  BY <1>1, BufferInvariant, PTL

-----------------------------------------------------------------------------
(* The cursor. *)

\* The strengthening: also while the bytes of one character come in, there is
\* a boundary behind the cursor; the text starts with one; and those bytes
\* never come first.
CursorBetween ==
    /\ Boundary(buf, cursor)
    /\ Boundary(buf, 0)
    /\ due > 0 => cursor > 0

\* isprint takes no key code for a continuation byte.
LEMMA BytesStart ==
    ASSUME Cont \notin OddBytes
    PROVE  /\ Newline # Cont /\ Ascii # Cont
           /\ \A n \in Widths : Lead(n) # Cont
           /\ \A byte \in OddBytes : byte # Cont
<1>1. \A n \in Widths : n \in Nat
    BY LayoutAssumption
<1> QED  BY <1>1 DEF Newline, Ascii, Cont, Lead

LEMMA CutBetween ==
    ASSUME BufferOK, BufferOK', CursorBetween,
           NEW i \in 0..Len(buf), NEW j \in 0..Len(buf), i < j, Cut(i, j),
           j \in Boundaries(buf), cursor' = i, due = 0
    PROVE  CursorBetween'
<1>1. /\ Len(buf) \in Nat /\ Len(buf') = Len(buf) - (j - i)
      /\ \A k \in 1..Len(buf') :
           buf'[k] = IF k <= i THEN buf[k] ELSE buf[k + (j - i)]
      /\ due' = 0
    BY CutIs DEF BufferOK, Cut
<1>2. Boundary(buf, j) /\ Boundary(buf, 0)
    BY DEF Boundaries, CursorBetween
<1>3. Boundary(buf, cursor)'
    <2>1. CASE j = Len(buf)
        <3>1. i = Len(buf')
            BY <1>1, <2>1
        <3> QED  BY <3>1 DEF Boundary
    <2>2. CASE j # Len(buf)
        <3>1. i + 1 \in 1..Len(buf') /\ ~(i + 1 <= i) /\ (i + 1) + (j - i) = j + 1
            BY <1>1, <2>2
        <3>2. buf'[i + 1] = buf[j + 1]
            BY <1>1, <3>1
        <3> QED  BY <1>2, <2>2, <3>2 DEF Boundary, At
    <2> QED  BY <2>1, <2>2
<1>4. Boundary(buf, 0)'
    <2>1. CASE i = 0
        BY <1>3, <2>1
    <2>2. CASE i # 0 /\ Len(buf') # 0
        <3>1. 1 \in 1..Len(buf') /\ 1 <= i /\ Len(buf) # 0
            BY <1>1, <2>2
        <3>2. buf'[1] = buf[1]
            BY <1>1, <3>1
        <3>3. 0 + 1 = 1
            OBVIOUS
        <3> QED  BY <1>2, <3>1, <3>2, <3>3 DEF Boundary, At
    <2>3. CASE Len(buf') = 0
        BY <2>3 DEF Boundary
    <2> QED  BY <2>1, <2>2, <2>3
<1> QED  BY <1>1, <1>3, <1>4 DEF CursorBetween

LEMMA InsertBetween ==
    ASSUME BufferOK, CursorBetween, NEW byte \in Bytes, Insert(byte),
           byte # Cont \/ cursor > 0
    PROVE  CursorBetween'
<1>1. /\ Len(buf) \in Nat /\ Len(buf') = Len(buf) + 1 /\ cursor \in 0..Len(buf)
      /\ cursor' = cursor + 1 /\ buf'[cursor + 1] = byte
      /\ \A k \in 1..cursor : buf'[k] = buf[k]
      /\ \A k \in (cursor + 2)..Len(buf') : buf'[k] = buf[k - 1]
    BY InsertIs DEF BufferOK
<1>2. Boundary(buf, cursor)'
    <2>1. CASE cursor = Len(buf)
        <3>1. cursor' = Len(buf')
            BY <1>1, <2>1
        <3> QED  BY <3>1 DEF Boundary
    <2>2. CASE cursor # Len(buf)
        <3>1. /\ cursor + 2 \in (cursor + 2)..Len(buf')
              /\ (cursor + 2) - 1 = cursor + 1 /\ cursor' + 1 = cursor + 2
            BY <1>1, <2>2
        <3>2. buf'[cursor' + 1] = buf[cursor + 1]
            BY <1>1, <3>1
        <3> QED  BY <2>2, <3>2 DEF CursorBetween, Boundary, At
    <2> QED  BY <2>1, <2>2
<1>3. Boundary(buf, 0)'
    <2>1. 0 + 1 = 1 /\ (cursor = 0 \/ 1 \in 1..cursor)
        BY <1>1
    <2>2. CASE cursor = 0
        <3>1. buf'[1] = byte /\ byte # Cont
            BY <1>1, <2>2
        <3> QED  BY <2>1, <3>1 DEF Boundary, At, u8_is_cont
    <2>3. CASE 1 \in 1..cursor
        <3>1. buf'[1] = buf[1] /\ Len(buf) # 0
            BY <1>1, <2>3
        <3> QED  BY <2>1, <3>1 DEF CursorBetween, Boundary, At
    <2> QED  BY <2>1, <2>2, <2>3
<1>4. cursor' > 0
    BY <1>1
<1> QED  BY <1>2, <1>3, <1>4 DEF CursorBetween

LEMMA BetweenStep ==
    ASSUME Cont \notin OddBytes, BufferOK, BufferOK', CursorBetween,
           [TextNext]_textVars
    PROVE  CursorBetween'
<1>1. /\ buf \in Seq(Bytes) /\ Len(buf) \in Nat /\ cursor \in 0..Len(buf)
      /\ due \in Nat
    BY DEF BufferOK
<1>2. cursor \in Boundaries(buf) /\ 0 \in Boundaries(buf)
    BY <1>1 DEF CursorBetween, Boundaries, Offsets
<1>3. CASE Up \/ Down \/ Home \/ End \/ Left \/ Right
    <2>1. PICK i \in Boundaries(buf) : MovesTo(i)
        <3>1. CASE Up \/ Down \/ Home \/ End
            BY <1>1, <3>1, LookupIs DEF Up, Down, Home, End, VisualMove
        <3>2. CASE Left
            BY <1>1, <1>2, <3>2, CharStartIs DEF Left
        <3>3. CASE Right
            BY <1>1, <3>3, CharLenIs DEF Right
        <3> QED  BY <1>3, <3>1, <3>2, <3>3
    <2>2. Boundary(buf, i) /\ buf' = buf /\ cursor' = i /\ due' = 0
        BY <2>1 DEF MovesTo, Boundaries
    <2> QED  BY <2>2 DEF CursorBetween, Boundary
<1>4. CASE Wheel \/ UNCHANGED textVars
    BY <1>4 DEF Wheel, textVars, CursorBetween, Boundary
<1>5. CASE Backspace
    <2>1. PICK i : i = CharStart(buf, cursor)
        OBVIOUS
    <2>2. i \in 0..Len(buf) /\ i < cursor
        BY <1>1, <1>5, <2>1, CharStartIs DEF Backspace
    <2>3. Cut(i, cursor) /\ cursor' = i /\ due = 0
        BY <1>5, <2>1 DEF Backspace
    <2> QED  BY <1>1, <1>2, <2>2, <2>3, CutBetween
<1>6. CASE Delete
    <2>1. PICK j : j = cursor + u8_char_len(buf, cursor)
        OBVIOUS
    <2>2. j \in 0..Len(buf) /\ cursor < j /\ j \in Boundaries(buf)
        BY <1>1, <1>6, <2>1, CharLenIs, OffsetsAre DEF Delete
    <2>3. Cut(cursor, j) /\ cursor' = cursor /\ due = 0
        BY <1>6, <2>1 DEF Delete
    <2> QED  BY <1>1, <2>2, <2>3, CutBetween
<1>7. CASE Key \/ OtherKey
    <2>1. PICK byte \in Bytes : Insert(byte) /\ byte # Cont
        BY <1>7, BytesAre, BytesStart DEF Key, OtherKey
    <2> QED  BY <2>1, InsertBetween
<1>8. CASE KeyContinues
    BY <1>8, BytesAre, InsertBetween DEF KeyContinues, CursorBetween
<1> QED  BY <1>3, <1>4, <1>5, <1>6, <1>7, <1>8 DEF TextNext

\* Where isprint accepts no continuation byte, the cursor is never inside a
\* character: not after any key, and not for any layout the scan computes
\* (client/architecture.md:133).
THEOREM CursorIsOnBoundary ==
    ASSUME Cont \notin OddBytes
    PROVE  TextSpec => []CursorOnBoundary
<1>1. TextInit => CursorBetween
    <2> SUFFICES ASSUME TextInit PROVE CursorBetween
        OBVIOUS
    <2> QED  BY DEF TextInit, Texts, WholeCharacters, CursorBetween, Boundary
<1>2. BufferOK /\ BufferOK' /\ CursorBetween /\ [TextNext]_textVars => CursorBetween'
    BY BetweenStep
<1>3. CursorBetween => CursorOnBoundary
    BY DEF CursorBetween, CursorOnBoundary
<1> QED  BY <1>1, <1>2, <1>3, BufferInvariant, PTL DEF TextSpec

-----------------------------------------------------------------------------
(* Whole characters. *)

\* The character that starts at offset i has n bytes.
IsChar(text, i, n) ==
    /\ n \in Nat \ {0} /\ i + n <= Len(text)
    /\ Boundary(text, i + n)
    /\ \A j \in (i + 1)..(i + n - 1) : ~Boundary(text, j)

\* u is t with one more byte, at offset c.
Inserted(t, u, c, byte) ==
    /\ Len(u) = Len(t) + 1 /\ u[c + 1] = byte
    /\ \A k \in 1..c : u[k] = t[k]
    /\ \A k \in (c + 2)..Len(u) : u[k] = t[k - 1]

\* u is t without the bytes from offset p to offset q.
Without(t, u, p, q) ==
    /\ Len(u) = Len(t) - (q - p)
    /\ \A k \in 1..Len(u) : u[k] = IF k <= p THEN t[k] ELSE t[k + (q - p)]

LEMMA InsertBoundaries ==
    ASSUME NEW t \in Seq(Bytes), NEW u \in Seq(Bytes), NEW c \in 0..Len(t),
           NEW byte \in Bytes, Inserted(t, u, c, byte), NEW m \in 0..Len(u)
    PROVE  /\ m < c => (Boundary(u, m) <=> Boundary(t, m)) /\ At(u, m) = At(t, m)
           /\ m = c => (Boundary(u, m) <=> byte # Cont) /\ At(u, m) = byte
           /\ m > c => /\ Boundary(u, m) <=> Boundary(t, m - 1)
                       /\ m < Len(u) => At(u, m) = At(t, m - 1)
<1>1. Len(t) \in Nat /\ Len(u) = Len(t) + 1 /\ c \in Nat /\ m \in Nat
    BY DEF Inserted
<1>2. CASE m < c
    <2>1. m + 1 \in 1..c /\ m # Len(u) /\ m # Len(t)
        BY <1>1, <1>2
    <2>2. u[m + 1] = t[m + 1]
        BY <2>1 DEF Inserted
    <2> QED  BY <1>1, <1>2, <2>1, <2>2 DEF Boundary, At
<1>3. CASE m = c
    <2>1. m # Len(u)
        BY <1>1, <1>3
    <2> QED  BY <1>1, <1>3, <2>1 DEF Boundary, At, u8_is_cont, Inserted
<1>4. CASE m > c /\ m < Len(u)
    <2>1. m + 1 \in (c + 2)..Len(u) /\ (m + 1) - 1 = (m - 1) + 1 /\ m - 1 # Len(t)
        BY <1>1, <1>4
    <2>2. u[m + 1] = t[(m - 1) + 1]
        BY <2>1 DEF Inserted
    <2> QED  BY <1>1, <1>4, <2>1, <2>2 DEF Boundary, At
<1>5. CASE m > c /\ m = Len(u)
    <2>1. m - 1 = Len(t) /\ m # c /\ ~(m < c) /\ ~(m < Len(u))
        BY <1>1, <1>5
    <2>2. Boundary(u, m) /\ Boundary(t, m - 1)
        BY <1>5, <2>1 DEF Boundary
    <2> QED  BY <2>1, <2>2
<1> QED  BY <1>1, <1>2, <1>3, <1>4, <1>5

\* A character that ends before an insertion stays as it is; so does one that
\* ends there, if what is inserted starts another.
LEMMA CharBeforeInsert ==
    ASSUME NEW t \in Seq(Bytes), NEW u \in Seq(Bytes), NEW c \in 0..Len(t),
           NEW byte \in Bytes, Inserted(t, u, c, byte),
           NEW i \in 0..Len(t), NEW n, IsChar(t, i, n), i + n <= c,
           byte # Cont \/ i + n < c
    PROVE  IsChar(u, i, n)
<1>1. Len(t) \in Nat /\ Len(u) = Len(t) + 1 /\ n \in Nat \ {0} /\ i + n \in 0..Len(u)
    BY DEF Inserted, IsChar
<1>2. Boundary(u, i + n)
    BY <1>1, InsertBoundaries DEF IsChar
<1>3. ASSUME NEW j \in (i + 1)..(i + n - 1) PROVE ~Boundary(u, j)
    <2>1. j \in 0..Len(u) /\ j < c
        BY <1>1
    <2>2. ~Boundary(t, j)
        BY DEF IsChar
    <2> QED  BY <2>1, <2>2, InsertBoundaries
<1> QED  BY <1>1, <1>2, <1>3 DEF IsChar

\* A continuation byte behind a character makes it one byte longer.
LEMMA CharGrows ==
    ASSUME NEW t \in Seq(Bytes), NEW u \in Seq(Bytes), NEW c \in 0..Len(t),
           NEW byte \in Bytes, Inserted(t, u, c, byte), byte = Cont,
           NEW i \in 0..Len(t), NEW n, IsChar(t, i, n), i + n = c
    PROVE  IsChar(u, i, n + 1)
<1>1. Len(t) \in Nat /\ Len(u) = Len(t) + 1 /\ n \in Nat \ {0}
      /\ c + 1 \in 0..Len(u) /\ (c + 1) - 1 = i + n /\ i + (n + 1) = c + 1
    BY DEF Inserted, IsChar
<1>2. Boundary(u, i + (n + 1))
    BY <1>1, InsertBoundaries DEF IsChar
<1>3. ASSUME NEW j \in (i + 1)..(i + (n + 1) - 1) PROVE ~Boundary(u, j)
    <2>1. j \in Int /\ i < j /\ j <= i + n /\ i \in Nat
        BY <1>1
    <2>2. j \in 0..Len(u) /\ (j = c \/ j < c)
        BY <1>1, <2>1
    <2>3. j < c => j \in (i + 1)..(i + n - 1)
        BY <1>1, <2>1
    <2>4. j < c => ~Boundary(t, j)
        BY <2>3 DEF IsChar
    <2> QED  BY <1>1, <2>2, <2>4, InsertBoundaries
<1> QED  BY <1>1, <1>2, <1>3 DEF IsChar

\* What follows an insertion moves by one.
LEMMA CharAfterInsert ==
    ASSUME NEW t \in Seq(Bytes), NEW u \in Seq(Bytes), NEW c \in 0..Len(t),
           NEW byte \in Bytes, Inserted(t, u, c, byte),
           NEW i \in 0..Len(t), NEW n, IsChar(t, i, n), c <= i
    PROVE  IsChar(u, i + 1, n)
<1>1. Len(t) \in Nat /\ Len(u) = Len(t) + 1 /\ n \in Nat \ {0}
      /\ (i + 1) + n \in 0..Len(u) /\ (i + 1) + n > c /\ ((i + 1) + n) - 1 = i + n
    BY DEF Inserted, IsChar
<1>2. Boundary(u, (i + 1) + n)
    BY <1>1, InsertBoundaries DEF IsChar
<1>3. ASSUME NEW j \in ((i + 1) + 1)..((i + 1) + n - 1) PROVE ~Boundary(u, j)
    <2>1. j \in 0..Len(u) /\ j > c /\ j - 1 \in (i + 1)..(i + n - 1)
        BY <1>1
    <2>2. ~Boundary(t, j - 1)
        BY <2>1 DEF IsChar
    <2> QED  BY <2>1, <2>2, InsertBoundaries
<1> QED  BY <1>1, <1>2, <1>3 DEF IsChar

LEMMA CutBoundaries ==
    ASSUME NEW t \in Seq(Bytes), NEW u \in Seq(Bytes),
           NEW p \in 0..Len(t), NEW q \in 0..Len(t), p < q,
           Without(t, u, p, q), NEW m \in 0..Len(u)
    PROVE  /\ m < p => (Boundary(u, m) <=> Boundary(t, m)) /\ At(u, m) = At(t, m)
           /\ m >= p => /\ Boundary(u, m) <=> Boundary(t, m + (q - p))
                        /\ m < Len(u) => At(u, m) = At(t, m + (q - p))
<1>1. /\ Len(t) \in Nat /\ Len(u) = Len(t) - (q - p) /\ p \in Nat /\ q \in Nat
      /\ m \in Nat /\ p <= Len(u) /\ q <= Len(t)
    BY DEF Without
<1>2. CASE m < p
    <2>1. m + 1 \in 1..Len(u) /\ m + 1 <= p /\ m # Len(u) /\ m # Len(t)
        BY <1>1, <1>2
    <2>2. u[m + 1] = t[m + 1]
        BY <2>1 DEF Without
    <2> QED  BY <1>1, <1>2, <2>1, <2>2 DEF Boundary, At
<1>3. CASE m >= p /\ m < Len(u)
    <2>1. /\ m + 1 \in 1..Len(u) /\ ~(m + 1 <= p) /\ m # Len(u)
          /\ (m + 1) + (q - p) = (m + (q - p)) + 1 /\ m + (q - p) # Len(t)
        BY <1>1, <1>3
    <2>2. u[m + 1] = t[(m + (q - p)) + 1]
        BY <2>1 DEF Without
    <2> QED  BY <1>1, <1>3, <2>1, <2>2 DEF Boundary, At
<1>4. CASE m >= p /\ m = Len(u)
    <2>1. m + (q - p) = Len(t) /\ ~(m < p) /\ ~(m < Len(u))
        BY <1>1, <1>4
    <2>2. Boundary(u, m) /\ Boundary(t, m + (q - p))
        BY <1>4, <2>1 DEF Boundary
    <2> QED  BY <2>1, <2>2
<1> QED  BY <1>1, <1>2, <1>3, <1>4

\* A character that ends before a cut stays as it is, if the cut ends with one.
LEMMA CharBeforeCut ==
    ASSUME NEW t \in Seq(Bytes), NEW u \in Seq(Bytes),
           NEW p \in 0..Len(t), NEW q \in 0..Len(t), p < q, Without(t, u, p, q),
           Boundary(t, q), NEW i \in 0..Len(t), NEW n, IsChar(t, i, n), i + n <= p
    PROVE  IsChar(u, i, n)
<1>1. /\ Len(t) \in Nat /\ Len(u) = Len(t) - (q - p) /\ n \in Nat \ {0}
      /\ p \in 0..Len(u) /\ i + n \in 0..Len(u) /\ p + (q - p) = q
    BY DEF Without, IsChar
<1>2. Boundary(u, i + n)
    <2>1. CASE i + n < p
        BY <1>1, <2>1, CutBoundaries DEF IsChar
    <2>2. CASE i + n = p
        <3>1. Boundary(u, p) <=> Boundary(t, p + (q - p))
            BY <1>1, CutBoundaries
        <3> QED  BY <1>1, <2>2, <3>1
    <2> QED  BY <1>1, <2>1, <2>2
<1>3. ASSUME NEW j \in (i + 1)..(i + n - 1) PROVE ~Boundary(u, j)
    <2>1. j \in 0..Len(u) /\ j < p
        BY <1>1
    <2>2. ~Boundary(t, j)
        BY DEF IsChar
    <2> QED  BY <2>1, <2>2, CutBoundaries
<1> QED  BY <1>1, <1>2, <1>3 DEF IsChar

\* What follows a cut moves up.
LEMMA CharAfterCut ==
    ASSUME NEW t \in Seq(Bytes), NEW u \in Seq(Bytes),
           NEW p \in 0..Len(t), NEW q \in 0..Len(t), p < q, Without(t, u, p, q),
           NEW i \in 0..Len(u), p <= i, NEW n, IsChar(t, i + (q - p), n)
    PROVE  IsChar(u, i, n)
<1>1. /\ Len(t) \in Nat /\ Len(u) = Len(t) - (q - p) /\ n \in Nat \ {0}
      /\ i + n \in 0..Len(u) /\ i + n >= p
      /\ (i + n) + (q - p) = (i + (q - p)) + n
    BY DEF Without, IsChar
<1>2. Boundary(u, i + n)
    BY <1>1, CutBoundaries DEF IsChar
<1>3. ASSUME NEW j \in (i + 1)..(i + n - 1) PROVE ~Boundary(u, j)
    <2>1. /\ j \in 0..Len(u) /\ j >= p
          /\ j + (q - p) \in ((i + (q - p)) + 1)..((i + (q - p)) + n - 1)
        BY <1>1
    <2>2. ~Boundary(t, j + (q - p))
        BY <2>1 DEF IsChar
    <2> QED  BY <2>1, <2>2, CutBoundaries
<1> QED  BY <1>1, <1>2, <1>3 DEF IsChar

\* A character does not go beyond a boundary behind its start.
LEMMA CharEnds ==
    ASSUME NEW t \in Seq(Bytes), NEW i \in 0..Len(t), NEW n, IsChar(t, i, n),
           NEW b \in 0..Len(t), Boundary(t, b), i < b
    PROVE  i + n <= b
<1>1. n \in Nat \ {0} /\ Len(t) \in Nat
    BY DEF IsChar
<1>2. CASE b < i + n
    <2>1. b \in (i + 1)..(i + n - 1)
        BY <1>1, <1>2
    <2> QED  BY <2>1 DEF IsChar
<1> QED  BY <1>1, <1>2

\* How many bytes the character at offset i still lacks: those that are due, if
\* it is the last one before the cursor.
Missing(i) ==
    IF due > 0 /\ i < cursor /\ \A j \in (i + 1)..(cursor - 1) : ~Boundary(buf, j)
    THEN due ELSE 0

\* The strengthening: between two bytes of a character that is being typed, all
\* others are whole.
CharsOK ==
    \A i \in 0..Len(buf) :
        i # Len(buf) /\ Boundary(buf, i) => IsChar(buf, i, Size(At(buf, i)) - Missing(i))

LEMMA SizeIs ==
    ASSUME NEW byte \in Bytes, byte # Cont
    PROVE  Size(byte) \in Nat \ {0}
BY LayoutAssumption DEF Bytes, Size, Newline, Ascii, Lead, Cont

LEMMA InsertIsInserted ==
    ASSUME BufferOK, NEW byte \in Bytes, Insert(byte)
    PROVE  /\ Inserted(buf, buf', cursor, byte)
           /\ buf' \in Seq(Bytes) /\ cursor' = cursor + 1
           /\ Len(buf) \in Nat /\ Len(buf') = Len(buf) + 1 /\ cursor \in 0..Len(buf)
BY InsertIs DEF BufferOK, Inserted

\* One byte of a character that is complete with it, or its first byte.
LEMMA StartChars ==
    ASSUME BufferOK, CursorBetween, CharsOK, due = 0, due' \in Nat,
           NEW byte \in Bytes, byte # Cont, Insert(byte), Size(byte) - due' = 1
    PROVE  CharsOK'
<1> SUFFICES ASSUME NEW i \in 0..Len(buf'), i # Len(buf'), Boundary(buf', i)
             PROVE  IsChar(buf', i, Size(At(buf', i)) - Missing(i)')
    BY DEF CharsOK
<1>1. /\ Inserted(buf, buf', cursor, byte) /\ cursor' = cursor + 1
      /\ Len(buf) \in Nat /\ Len(buf') = Len(buf) + 1 /\ cursor \in 0..Len(buf)
      /\ buf \in Seq(Bytes) /\ buf' \in Seq(Bytes)
    BY InsertIsInserted DEF BufferOK
<1>2. Boundary(buf, cursor) /\ Boundary(buf', cursor) /\ Boundary(buf', cursor')
    <2>1. cursor \in 0..Len(buf') /\ cursor + 1 \in 0..Len(buf') /\ (cursor + 1) - 1 = cursor
        BY <1>1
    <2> QED  BY <1>1, <2>1, InsertBoundaries DEF CursorBetween
<1>3. CASE i < cursor
    <2>1. i \in 0..Len(buf) /\ i # Len(buf) /\ Boundary(buf, i) /\ At(buf', i) = At(buf, i)
        BY <1>1, <1>3, InsertBoundaries
    <2>2. Missing(i) = 0 /\ At(buf, i) \in Bytes /\ At(buf, i) # Cont
        BY <1>1, <2>1, ElementOfSeq DEF Missing, At, Boundary, u8_is_cont
    <2>3. IsChar(buf, i, Size(At(buf, i)))
        BY <2>1, <2>2, SizeIs DEF CharsOK
    <2>4. i + Size(At(buf, i)) <= cursor
        BY <1>1, <1>2, <1>3, <2>1, <2>3, CharEnds
    <2>5. IsChar(buf', i, Size(At(buf, i)))
        BY <1>1, <2>1, <2>3, <2>4, CharBeforeInsert
    <2>6. Missing(i)' = 0
        <3>1. cursor \in (i + 1)..(cursor' - 1)
            BY <1>1, <1>3
        <3> QED  BY <1>2, <3>1 DEF Missing
    <2> QED  BY <2>1, <2>2, <2>5, <2>6, SizeIs
<1>4. CASE i = cursor
    <2>1. At(buf', i) = byte
        BY <1>1, <1>4, InsertBoundaries
    <2>2. Missing(i)' = due'
        <3>1. i < cursor' /\ (i + 1)..(cursor' - 1) = {}
            BY <1>1, <1>4
        <3> QED  BY <3>1 DEF Missing
    <2>3. IsChar(buf', i, 1)
        <3>1. i + 1 = cursor' /\ i + 1 <= Len(buf') /\ (i + 1)..(i + 1 - 1) = {}
            BY <1>1, <1>4
        <3> QED  BY <1>2, <3>1 DEF IsChar
    <2> QED  BY <2>1, <2>2, <2>3
<1>5. CASE i > cursor
    <2>1. /\ i - 1 \in 0..Len(buf) /\ i - 1 # Len(buf) /\ cursor <= i - 1
          /\ (i - 1) + 1 = i /\ ~(i - 1 < cursor) /\ ~(i < cursor') /\ i < Len(buf')
        BY <1>1, <1>5
    <2>2. Boundary(buf, i - 1) /\ At(buf', i) = At(buf, i - 1)
        BY <1>1, <1>5, <2>1, InsertBoundaries
    <2>3. Missing(i - 1) = 0 /\ Missing(i)' = 0
        BY <2>1 DEF Missing
    <2>4. At(buf, i - 1) \in Bytes /\ At(buf, i - 1) # Cont
        BY <1>1, <2>1, <2>2, ElementOfSeq DEF At, Boundary, u8_is_cont
    <2>5. IsChar(buf, i - 1, Size(At(buf, i - 1)))
        BY <2>1, <2>2, <2>3, <2>4, SizeIs DEF CharsOK
    <2>6. IsChar(buf', i, Size(At(buf, i - 1)))
        BY <1>1, <2>1, <2>5, CharAfterInsert
    <2> QED  BY <2>2, <2>3, <2>4, <2>6, SizeIs
<1> QED  BY <1>1, <1>3, <1>4, <1>5

\* One more byte of the character before the cursor.
LEMMA ContinueChars ==
    ASSUME BufferOK, CursorBetween, CharsOK, due > 0, due' = due - 1, Insert(Cont)
    PROVE  CharsOK'
<1> SUFFICES ASSUME NEW i \in 0..Len(buf'), i # Len(buf'), Boundary(buf', i)
             PROVE  IsChar(buf', i, Size(At(buf', i)) - Missing(i)')
    BY DEF CharsOK
<1>0. Cont \in Bytes /\ due \in Nat
    BY BytesAre DEF BufferOK
<1>1. /\ Inserted(buf, buf', cursor, Cont) /\ cursor' = cursor + 1
      /\ Len(buf) \in Nat /\ Len(buf') = Len(buf) + 1 /\ cursor \in 0..Len(buf)
      /\ buf \in Seq(Bytes) /\ buf' \in Seq(Bytes)
    BY <1>0, InsertIsInserted DEF BufferOK
<1>2. Boundary(buf, cursor) /\ ~Boundary(buf', cursor)
    <2>1. cursor \in 0..Len(buf')
        BY <1>1
    <2> QED  BY <1>0, <1>1, <2>1, InsertBoundaries DEF CursorBetween
<1>3. CASE i < cursor
    <2>1. i \in 0..Len(buf) /\ i # Len(buf) /\ Boundary(buf, i) /\ At(buf', i) = At(buf, i)
        BY <1>0, <1>1, <1>3, InsertBoundaries
    <2>2. At(buf, i) \in Bytes /\ At(buf, i) # Cont
        BY <1>1, <2>1, ElementOfSeq DEF At, Boundary, u8_is_cont
    <2>3. PICK n : n = Size(At(buf, i)) - Missing(i) /\ IsChar(buf, i, n)
        BY <2>1 DEF CharsOK
    <2>4. n \in Nat \ {0} /\ i + n <= cursor
        BY <1>1, <1>2, <1>3, <2>1, <2>3, CharEnds DEF IsChar
    <2>5. CASE \A j \in (i + 1)..(cursor - 1) : ~Boundary(buf, j)
        <3>1. Missing(i) = due
            BY <1>3, <2>5 DEF Missing
        <3>2. i + n = cursor
            <4>1. i + n < cursor => i + n \in (i + 1)..(cursor - 1)
                BY <1>1, <2>1, <2>4
            <4>2. Boundary(buf, i + n)
                BY <2>3 DEF IsChar
            <4> QED  BY <1>1, <2>1, <2>4, <2>5, <4>1, <4>2
        <3>3. IsChar(buf', i, n + 1)
            BY <1>0, <1>1, <2>1, <2>3, <3>2, CharGrows
        <3>4. Missing(i)' = due'
            <4>1. ASSUME NEW j \in (i + 1)..(cursor' - 1) PROVE ~Boundary(buf', j)
                <5>1. j \in 0..Len(buf') /\ (j = cursor \/ j < cursor)
                    BY <1>1
                <5>2. j < cursor => j \in (i + 1)..(cursor - 1)
                    BY <1>1
                <5> QED  BY <1>0, <1>1, <1>2, <2>5, <5>1, <5>2, InsertBoundaries
            <4>2. i < cursor' /\ (due' > 0 \/ due' = 0)
                BY <1>0, <1>1, <1>3
            <4> QED  BY <4>1, <4>2 DEF Missing
        <3>5. n + 1 = Size(At(buf, i)) - due'
            BY <1>0, <2>2, <2>3, <3>1, SizeIs
        <3> QED  BY <2>1, <3>3, <3>4, <3>5
    <2>6. CASE \E j \in (i + 1)..(cursor - 1) : Boundary(buf, j)
        <3>1. PICK j \in (i + 1)..(cursor - 1) : Boundary(buf, j)
            BY <2>6
        <3>2. j \in 0..Len(buf) /\ j \in 0..Len(buf') /\ i < j /\ j < cursor
              /\ j \in (i + 1)..(cursor' - 1)
            BY <1>1, <2>1
        <3>3. Missing(i) = 0
            BY <3>1 DEF Missing
        <3>4. i + n <= j
            BY <1>1, <2>1, <2>3, <3>1, <3>2, CharEnds
        <3>5. i + n < cursor
            BY <1>1, <2>1, <2>4, <3>2, <3>4
        <3>6. IsChar(buf', i, n)
            BY <1>0, <1>1, <2>1, <2>3, <2>4, <3>5, CharBeforeInsert
        <3>7. Boundary(buf', j)
            BY <1>0, <1>1, <3>1, <3>2, InsertBoundaries
        <3>8. Missing(i)' = 0
            BY <3>2, <3>7 DEF Missing
        <3> QED  BY <2>1, <2>3, <3>3, <3>6, <3>8
    <2> QED  BY <2>5, <2>6
<1>4. CASE i = cursor
    BY <1>2, <1>4
<1>5. CASE i > cursor
    <2>1. /\ i - 1 \in 0..Len(buf) /\ i - 1 # Len(buf) /\ cursor <= i - 1
          /\ (i - 1) + 1 = i /\ ~(i - 1 < cursor) /\ ~(i < cursor') /\ i < Len(buf')
        BY <1>1, <1>5
    <2>2. Boundary(buf, i - 1) /\ At(buf', i) = At(buf, i - 1)
        BY <1>0, <1>1, <1>5, <2>1, InsertBoundaries
    <2>3. Missing(i - 1) = 0 /\ Missing(i)' = 0
        BY <2>1 DEF Missing
    <2>4. IsChar(buf, i - 1, Size(At(buf, i - 1)) - 0)
        BY <2>1, <2>2, <2>3 DEF CharsOK
    <2>5. IsChar(buf', i, Size(At(buf, i - 1)) - 0)
        BY <1>0, <1>1, <2>1, <2>4, CharAfterInsert
    <2> QED  BY <2>2, <2>3, <2>5
<1> QED  BY <1>1, <1>3, <1>4, <1>5

\* Bytes between two boundaries are cut out.
LEMMA CutChars ==
    ASSUME BufferOK, CharsOK, due = 0, NEW p \in 0..Len(buf), NEW q \in 0..Len(buf),
           p < q, Cut(p, q), Boundary(buf, p), Boundary(buf, q)
    PROVE  CharsOK'
<1> SUFFICES ASSUME NEW i \in 0..Len(buf'), i # Len(buf'), Boundary(buf', i)
             PROVE  IsChar(buf', i, Size(At(buf', i)) - Missing(i)')
    BY DEF CharsOK
<1>1. /\ Without(buf, buf', p, q) /\ due' = 0
      /\ Len(buf) \in Nat /\ Len(buf') = Len(buf) - (q - p)
      /\ buf \in Seq(Bytes) /\ buf' \in Seq(Bytes)
    BY CutIs DEF BufferOK, Without, Cut
<1>2. Missing(i)' = 0
    BY <1>1 DEF Missing
<1>3. \A k : Missing(k) = 0
    BY DEF Missing
<1>4. CASE i < p
    <2>1. i \in 0..Len(buf) /\ i # Len(buf) /\ Boundary(buf, i) /\ At(buf', i) = At(buf, i)
        BY <1>1, <1>4, CutBoundaries
    <2>2. PICK n : n = Size(At(buf, i)) - 0 /\ IsChar(buf, i, n)
        BY <1>3, <2>1 DEF CharsOK
    <2>3. i + n <= p
        BY <1>1, <1>4, <2>1, <2>2, CharEnds
    <2>4. IsChar(buf', i, n)
        BY <1>1, <2>1, <2>2, <2>3, CharBeforeCut
    <2> QED  BY <1>2, <2>1, <2>2, <2>4
<1>5. CASE i >= p
    <2>1. i + (q - p) \in 0..Len(buf) /\ i + (q - p) # Len(buf) /\ i < Len(buf')
        BY <1>1, <1>5
    <2>2. Boundary(buf, i + (q - p)) /\ At(buf', i) = At(buf, i + (q - p))
        BY <1>1, <1>5, <2>1, CutBoundaries
    <2>3. PICK n : n = Size(At(buf, i + (q - p))) - 0 /\ IsChar(buf, i + (q - p), n)
        BY <1>3, <2>1, <2>2 DEF CharsOK
    <2>4. IsChar(buf', i, n)
        BY <1>1, <1>5, <2>3, CharAfterCut
    <2> QED  BY <1>2, <2>2, <2>3, <2>4
<1> QED  BY <1>1, <1>4, <1>5

LEMMA CharsStep ==
    ASSUME OddBytes \subseteq {Newline, Ascii},
           BufferOK, BufferOK', CursorBetween, CharsOK, [TextNext]_textVars
    PROVE  CharsOK'
<1>1. /\ buf \in Seq(Bytes) /\ Len(buf) \in Nat /\ cursor \in 0..Len(buf)
      /\ due \in Nat /\ due' \in Nat /\ Boundary(buf, cursor) /\ Boundary(buf, 0)
    BY DEF BufferOK, CursorBetween
<1>2. CASE Up \/ Down \/ Home \/ End \/ Left \/ Right \/ Wheel
    <2>1. buf' = buf /\ due = 0 /\ due' = 0
        BY <1>2 DEF Up, Down, Home, End, VisualMove, Left, Right, MovesTo, Wheel
    <2> QED  BY <2>1 DEF CharsOK, Missing
<1>3. CASE UNCHANGED textVars
    BY <1>3 DEF textVars, CharsOK, Missing
<1>4. CASE Backspace
    <2>1. PICK p : p = CharStart(buf, cursor)
        OBVIOUS
    <2>2. p \in Boundaries(buf) \cup {0} /\ p \in 0..Len(buf) /\ p < cursor
        BY <1>1, <1>4, <2>1, CharStartIs DEF Backspace
    <2>3. Cut(p, cursor) /\ due = 0 /\ Boundary(buf, p)
        BY <1>1, <1>4, <2>1, <2>2 DEF Backspace, Boundaries
    <2> QED  BY <1>1, <2>2, <2>3, CutChars
<1>5. CASE Delete
    <2>1. PICK q : q = cursor + u8_char_len(buf, cursor)
        OBVIOUS
    <2>2. q \in 0..Len(buf) /\ cursor < q /\ Boundary(buf, q)
        BY <1>1, <1>5, <2>1, CharLenIs, OffsetsAre DEF Delete, Boundaries
    <2>3. Cut(cursor, q) /\ due = 0
        BY <1>5, <2>1 DEF Delete
    <2> QED  BY <1>1, <2>2, <2>3, CutChars
<1>6. CASE Key \/ OtherKey
    <2>1. /\ Newline \in Bytes /\ Ascii \in Bytes /\ Newline # Cont /\ Ascii # Cont
          /\ Size(Newline) = 1 /\ Size(Ascii) = 1
        BY BytesAre DEF Size, Newline, Ascii, Lead, Cont
    <2>2. ASSUME NEW n \in Widths
          PROVE  n \in Nat /\ Lead(n) \in Bytes /\ Lead(n) # Cont /\ Size(Lead(n)) - n = 1
        <3>1. n \in Nat
            BY LayoutAssumption
        <3> QED  BY <3>1, BytesAre DEF Size, Newline, Lead, Cont
    <2>3. PICK byte \in Bytes :
            Insert(byte) /\ byte # Cont /\ due = 0 /\ Size(byte) - due' = 1
        BY <1>6, <2>1, <2>2 DEF Key, OtherKey
    <2> QED  BY <1>1, <2>3, StartChars
<1>7. CASE KeyContinues
    BY <1>7, ContinueChars DEF KeyContinues
<1> QED  BY <1>2, <1>3, <1>4, <1>5, <1>6, <1>7 DEF TextNext

\* The text is whole characters after any keys and deletions, in whatever places
\* and of whatever widths: no half of one stays behind. Of the key codes that
\* isprint accepts it is assumed that they insert single bytes (ui.c:378-407).
THEOREM TextIsAlwaysWhole ==
    ASSUME OddBytes \subseteq {Newline, Ascii}
    PROVE  TextSpec => []TextIsWhole
<1>1. Cont \notin OddBytes
    BY DEF Newline, Ascii, Lead, Cont
<1>2. TextInit => CursorBetween /\ CharsOK
    <2> SUFFICES ASSUME TextInit PROVE CursorBetween /\ CharsOK
        OBVIOUS
    <2>1. CursorBetween
        BY DEF TextInit, Texts, WholeCharacters, CursorBetween, Boundary
    <2>2. BufferOK
        BY TextStarts
    <2>3. ASSUME NEW i \in 0..Len(buf), i # Len(buf), Boundary(buf, i)
          PROVE  IsChar(buf, i, Size(At(buf, i)) - Missing(i))
        <3>1. Len(buf) \in Nat /\ Missing(i) = 0 /\ i \in Boundaries(buf) \ {Len(buf)}
            BY <2>2, <2>3 DEF BufferOK, TextInit, Missing, Boundaries, Offsets
        <3>2. /\ i + Size(At(buf, i)) \in Boundaries(buf)
              /\ \A j \in (i + 1)..((i + Size(At(buf, i))) - 1) : ~Boundary(buf, j)
            BY <3>1 DEF TextInit, Texts, WholeCharacters
        <3>3. At(buf, i) \in Bytes /\ At(buf, i) # Cont
            BY <2>2, <2>3, <3>1, ElementOfSeq DEF BufferOK, At, Boundary, u8_is_cont
        <3>4. Size(At(buf, i)) \in Nat \ {0}
            BY <3>3, SizeIs
        <3>5. Boundary(buf, i + Size(At(buf, i))) /\ i + Size(At(buf, i)) <= Len(buf)
            BY <3>1, <3>2 DEF Boundaries, Offsets
        <3>6. Size(At(buf, i)) - Missing(i) = Size(At(buf, i))
            BY <3>1, <3>4
        <3> QED  BY <3>2, <3>4, <3>5, <3>6 DEF IsChar
    <2> QED  BY <2>1, <2>3 DEF CharsOK
<1>3. BufferOK /\ BufferOK' /\ CursorBetween /\ CharsOK /\ [TextNext]_textVars
        => (CursorBetween /\ CharsOK)'
    BY <1>1, BetweenStep, CharsStep
<1>4. BufferOK /\ CursorBetween /\ CharsOK => TextIsWhole
    <2> SUFFICES ASSUME BufferOK, CursorBetween, CharsOK, due = 0
                 PROVE  WholeCharacters(buf)
        BY DEF TextIsWhole
    <2>1. ASSUME NEW i \in Boundaries(buf) \ {Len(buf)}
          PROVE  /\ i + Size(At(buf, i)) \in Boundaries(buf)
                 /\ \A j \in (i + 1)..((i + Size(At(buf, i))) - 1) : ~Boundary(buf, j)
        <3>1. i \in 0..Len(buf) /\ i # Len(buf) /\ Boundary(buf, i) /\ Len(buf) \in Nat
            BY DEF Boundaries, Offsets, BufferOK
        <3>2. Missing(i) = 0
            BY DEF Missing
        <3>3. At(buf, i) \in Bytes /\ At(buf, i) # Cont
            BY <3>1, ElementOfSeq DEF BufferOK, At, Boundary, u8_is_cont
        <3>4. IsChar(buf, i, Size(At(buf, i)))
            BY <3>1, <3>2, <3>3, SizeIs DEF CharsOK
        <3> QED  BY <3>1, <3>4 DEF IsChar, Boundaries, Offsets
    <2> QED  BY <2>1 DEF WholeCharacters, CursorBetween
<1> QED  BY <1>2, <1>3, <1>4, BufferInvariant, PTL DEF TextSpec

-----------------------------------------------------------------------------
(* The screen. *)

LEMMA RowOfCursor ==
    ASSUME BufferOK
    PROVE  /\ Len(buf) \in Nat
           /\ Row(buf, cursor) \in Nat /\ Row(buf, cursor) < RowsOf(buf, Cols)
<1>1. Len(buf) \in Nat /\ cursor \in 0..Len(buf) /\ Cols \in Nat \ {0, 1}
    BY LayoutAssumption DEF BufferOK
<1> QED  BY <1>1, RowIs DEF Row

\* The row of the cursor is on the screen.
ViewOK ==
    /\ view_top \in Nat
    /\ view_top <= Row(buf, cursor) /\ Row(buf, cursor) < view_top + TextRows

LEMMA FollowIs ==
    ASSUME NEW top \in Nat, NEW row \in Nat
    PROVE  /\ Follow(top, row) \in Nat
           /\ Follow(top, row) <= row /\ row < Follow(top, row) + TextRows
BY LayoutAssumption DEF Follow

\* Every round of the loop ends with the top of the loop.
LEMMA EveryStepFollows ==
    ASSUME TextNext, view_top \in Nat
    PROVE  \E top \in Nat : Shows(top)
<1>1. CASE Up \/ Down \/ Home \/ End \/ Left \/ Right
    BY <1>1 DEF Up, Down, Home, End, VisualMove, Left, Right, MovesTo
<1>2. CASE Wheel
    <2>1. /\ view_top + ScrollLines \in Nat
          /\ (IF view_top < ScrollLines THEN 0 ELSE view_top - ScrollLines) \in Nat
        BY LayoutAssumption
    <2> QED  BY <1>2, <2>1 DEF Wheel
<1>3. CASE Backspace \/ Delete
    BY <1>3 DEF Backspace, Delete
<1>4. CASE Key \/ KeyContinues \/ OtherKey
    BY <1>4 DEF Key, KeyContinues, OtherKey, Insert
<1> QED  BY <1>1, <1>2, <1>3, <1>4 DEF TextNext

LEMMA ViewStep ==
    ASSUME BufferOK', ViewOK, [TextNext]_textVars
    PROVE  ViewOK'
<1>1. CASE TextNext
    <2>1. PICK top \in Nat : Shows(top)
        BY <1>1, EveryStepFollows DEF ViewOK
    <2>2. PICK row : row = Row(buf', cursor')
        OBVIOUS
    <2>3. row \in Nat
        <3>1. Len(buf') \in Nat /\ cursor' \in 0..Len(buf') /\ Cols \in Nat \ {0, 1}
            BY LayoutAssumption DEF BufferOK
        <3> QED  BY <2>2, <3>1, RowIs DEF Row
    <2>4. view_top' = Follow(top, row)
        BY <2>1, <2>2 DEF Shows
    <2> QED  BY <2>2, <2>3, <2>4, FollowIs DEF ViewOK
<1>2. CASE UNCHANGED textVars
    BY <1>2 DEF textVars, ViewOK
<1> QED  BY <1>1, <1>2

LEMMA ViewInvariant == TextSpec => []ViewOK
<1>1. TextInit => ViewOK
    <2> SUFFICES ASSUME TextInit PROVE ViewOK
        OBVIOUS
    <2>1. Row(buf, cursor) \in Nat /\ 0 \in Nat
        BY TextStarts, RowOfCursor
    <2>2. view_top = Follow(0, Row(buf, cursor))
        BY DEF TextInit
    <2> QED  BY <2>1, <2>2, FollowIs DEF ViewOK
<1>2. BufferOK' /\ ViewOK /\ [TextNext]_textVars => ViewOK'
    BY ViewStep
<1> QED  BY <1>1, <1>2, BufferInvariant, PTL DEF TextSpec

\* No variable of the editor leaves the values of its C counterpart; in
\* particular the first row of the screen never becomes negative (ui.c:254-259,
\* 366-375).
THEOREM TextTypeCorrect == TextSpec => []TextTypeOK
<1>1. BufferOK /\ ViewOK => TextTypeOK
    BY DEF BufferOK, ViewOK, TextTypeOK, Offsets
<1> QED  BY <1>1, BufferInvariant, ViewInvariant, PTL

\* The row that the next key works on is on the screen after every key, every
\* turn of the wheel and every deletion, and the screen starts within the text
\* (ui.c:254-259).
THEOREM CursorStaysOnScreen == TextSpec => []CursorOnScreen
<1>1. BufferOK /\ ViewOK => CursorOnScreen
    <2> SUFFICES ASSUME BufferOK, ViewOK PROVE CursorOnScreen
        OBVIOUS
    <2>1. Row(buf, cursor) \in Nat /\ Row(buf, cursor) < RowsOf(buf, Cols)
        BY RowOfCursor
    <2>2. RowsOf(buf, Cols) \in Nat
        <3>1. Len(buf) \in Nat /\ cursor \in 0..Len(buf) /\ Cols \in Nat \ {0, 1}
            BY LayoutAssumption DEF BufferOK
        <3> QED  BY <3>1, RowIs
    <2> QED  BY <2>1, <2>2 DEF ViewOK, CursorOnScreen
<1> QED  BY <1>1, BufferInvariant, ViewInvariant, PTL

\* Of every text the keys can produce, the position of each character leads back
\* to that character and no other, whatever wraps (ui.c:74-102).
THEOREM PositionsAlwaysRoundTrip == TextSpec => []PositionsRoundTrip
<1>1. BufferOK => PositionsRoundTrip
    BY LookupInverts, LayoutAssumption DEF BufferOK, PositionsRoundTrip, Row, Col
<1> QED  BY <1>1, BufferInvariant, PTL

\* UP and DOWN go to the row above and below, whatever the widths and breaks of
\* the rows; only below the last one is there nothing but the end of the text.
\* END does not leave its row (ui.c:352-364).
THEOREM ArrowsAlwaysMoveByRows == TextSpec => ArrowsMoveByRows
<1>1. ASSUME BufferOK, BufferOK', TextNext
      PROVE  /\ Up => Row(buf, cursor') = Row(buf, cursor) - 1
             /\ Down => \/ Row(buf, cursor') = Row(buf, cursor) + 1
                        \/ /\ Row(buf, cursor) + 1 = RowsOf(buf, Cols)
                           /\ cursor' = Len(buf)
             /\ End => Row(buf, cursor') = Row(buf, cursor) /\ cursor' >= cursor
    <2>1. /\ Len(buf) \in Nat /\ cursor \in 0..Len(buf) /\ Cols \in Nat \ {0, 1}
          /\ cursor' \in 0..Len(buf')
        BY <1>1, LayoutAssumption DEF BufferOK
    <2>2. PICK R : R = Row(buf, cursor)
        OBVIOUS
    <2>3. R \in Nat /\ R < RowsOf(buf, Cols) /\ RowsOf(buf, Cols) \in Nat
        BY <2>1, <2>2, RowIs DEF Row
    <2>4. ASSUME NEW row \in Nat, NEW col, VisualMove(row, col)
          PROVE  /\ cursor' = vpos_to_idx(buf, Cols, row, col) /\ cursor' \in Nat
                 /\ \/ Row(buf, cursor') = row
                    \/ cursor' = Len(buf) /\ RowsOf(buf, Cols) <= row
        <3>1. cursor' = vpos_to_idx(buf, Cols, row, col)
            BY <2>4 DEF VisualMove, MovesTo
        <3>2. \/ get_vpos(buf, cursor', Cols)[1] = row
              \/ cursor' = Len(buf) /\ RowsOf(buf, Cols) <= row
            BY <2>1, <3>1, LookupFindsRow
        <3> QED  BY <1>1, <3>1, <3>2 DEF Row, BufferOK
    <2>5. Up => Row(buf, cursor') = R - 1
        BY <2>2, <2>3, <2>4 DEF Up
    <2>6. Down => Row(buf, cursor') = R + 1 \/ (R + 1 = RowsOf(buf, Cols) /\ cursor' = Len(buf))
        BY <2>2, <2>3, <2>4 DEF Down
    <2>7. ASSUME End PROVE Row(buf, cursor') = R /\ cursor' >= cursor
        <3>1. VisualMove(R, Cols)
            BY <2>2, <2>7 DEF End
        <3>2. cursor <= cursor' /\ cursor' \in Nat
            BY <2>1, <2>2, <2>3, <2>4, <3>1, LookupGoesOn DEF Row
        <3> QED  BY <2>1, <2>3, <2>4, <3>1, <3>2
    <2> QED  BY <2>2, <2>5, <2>6, <2>7
<1> QED  BY <1>1, BufferInvariant, PTL DEF TextSpec, ArrowsMoveByRows
=============================================================================
