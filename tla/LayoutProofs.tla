---------------------------- MODULE LayoutProofs ----------------------------
(***************************************************************************)
(* What the layout of TextLayout computes, for texts of any length and     *)
(* screens of any width: where the characters of a text begin, how the     *)
(* scan goes through the rows, and that the two functions of client/ui.c   *)
(* that use it are inverse.                                                *)
(*                                                                         *)
(* The scan is a recursive function.  What it computes is proved by        *)
(* induction over the offsets; that it exists at all, from a run of its    *)
(* steps that grows by one offset at a time.                               *)
(***************************************************************************)
EXTENDS TextLayout, WellFoundedInduction, TLAPS

-----------------------------------------------------------------------------
(* The least and the greatest of a set of offsets. *)

LEMMA MinIs ==
    ASSUME NEW S \in SUBSET Nat, S # {}
    PROVE  Min(S) \in S /\ \A j \in S : Min(S) <= j
<1>1. PICK i \in S : \A j \in S : <<j, i>> \notin OpToRel(<, Nat)
    BY NatLessThanWellFounded, WFMin
<1>2. ASSUME NEW j \in S PROVE i <= j
    <2>1. i \in Nat /\ j \in Nat /\ ~(j < i)
        BY <1>1 DEF OpToRel
    <2> QED  BY <2>1
<1> QED  BY <1>2 DEF Min

LEMMA MaxIs ==
    ASSUME NEW n \in Nat, NEW S \in SUBSET (0..n), S # {}
    PROVE  Max(S) \in S /\ \A j \in S : j <= Max(S)
<1> DEFINE T == {n - j : j \in S}
<1>1. T \in SUBSET Nat /\ T # {}
    <2>1. ASSUME NEW j \in S PROVE n - j \in Nat
        <3>1. j \in 0..n
            OBVIOUS
        <3> QED  BY <3>1
    <2> QED  BY <2>1
<1>2. Min(T) \in T /\ \A t \in T : Min(T) <= t
    BY <1>1, MinIs
<1>3. PICK i \in S : Min(T) = n - i
    BY <1>2
<1>4. ASSUME NEW j \in S PROVE i >= j
    <2>1. n - i <= n - j
        BY <1>2, <1>3
    <2>2. i \in 0..n /\ j \in 0..n
        OBVIOUS
    <2> QED  BY <2>1, <2>2
<1>5. Max(S) \in S /\ \A j \in S : Max(S) >= j
    BY <1>4 DEF Max
<1>6. ASSUME NEW j \in S PROVE j <= Max(S)
    <2>1. Max(S) >= j /\ j \in 0..n /\ Max(S) \in 0..n
        BY <1>5
    <2> QED  BY <2>1
<1> QED  BY <1>5, <1>6

-----------------------------------------------------------------------------
(* Characters. *)

LEMMA OffsetsAre ==
    ASSUME NEW text, Len(text) \in Nat
    PROVE  /\ Len(text) \in Nat
           /\ Boundaries(text) \in SUBSET (0..Len(text))
           /\ Boundaries(text) \in SUBSET Nat
           /\ Len(text) \in Boundaries(text)
<1>1. Len(text) \in Nat
    OBVIOUS
<1>2. Boundaries(text) \in SUBSET (0..Len(text))
    BY DEF Boundaries, Offsets
<1>3. Len(text) \in Boundaries(text)
    BY <1>1 DEF Boundaries, Boundary, Offsets
<1>4. ASSUME NEW i \in Boundaries(text) PROVE i \in Nat
    BY <1>1, <1>2
<1> QED  BY <1>1, <1>2, <1>3, <1>4

LEMMA CharLenIs ==
    ASSUME NEW text, Len(text) \in Nat, NEW i \in 0..Len(text), i < Len(text)
    PROVE  /\ i + u8_char_len(text, i) \in Boundaries(text)
           /\ i < i + u8_char_len(text, i)
           /\ i + u8_char_len(text, i) <= Len(text)
<1> DEFINE S == {j \in Boundaries(text) : j > i}
<1>1. S \in SUBSET Nat /\ S # {}
    BY OffsetsAre
<1>2. Min(S) \in S
    BY <1>1, MinIs
<1>3. u8_char_len(text, i) = Min(S) - i
    BY DEF u8_char_len
<1>4. Min(S) \in 0..Len(text) /\ Min(S) > i
    BY <1>2, OffsetsAre
<1> HIDE DEF S
<1>5. i + u8_char_len(text, i) = Min(S)
    BY <1>3, <1>4
<1> QED  BY <1>2, <1>4, <1>5 DEF S

LEMMA CharStartIs ==
    ASSUME NEW text, Len(text) \in Nat, NEW i \in 0..Len(text), 0 < i
    PROVE  /\ CharStart(text, i) \in Boundaries(text) \cup {0}
           /\ CharStart(text, i) \in 0..Len(text)
           /\ CharStart(text, i) < i
<1> DEFINE S == {j \in Boundaries(text) \cup {0} : j < i}
<1>1. Len(text) \in Nat /\ S \in SUBSET (0..Len(text)) /\ S # {}
    BY OffsetsAre
<1>2. Max(S) \in S
    BY <1>1, MaxIs
<1> QED  BY <1>1, <1>2 DEF CharStart

-----------------------------------------------------------------------------
(* The scan. *)

\* Induction over the offsets of a text, as a fact about a set of them.
LEMMA OffsetInduction ==
    ASSUME NEW n \in Nat, NEW S, 0 \in S,
           \A i \in 0..n : i < n /\ i \in S => i + 1 \in S
    PROVE  0..n \subseteq S
<1> DEFINE T == (0..n) \ S
<1> SUFFICES ASSUME T # {} PROVE FALSE
    OBVIOUS
<1>1. T \subseteq Nat
    OBVIOUS
<1>2. PICK i \in T : \A j \in T : <<j, i>> \notin OpToRel(<, Nat)
    BY <1>1, NatLessThanWellFounded, WFMin
<1>3. i \in 0..n /\ i \notin S /\ i # 0
    BY <1>2
<1>4. i - 1 \in 0..n /\ i - 1 < n /\ (i - 1) + 1 = i /\ i - 1 < i
    BY <1>3
<1>5. i - 1 \notin S
    BY <1>3, <1>4
<1>6. i - 1 \in T /\ i - 1 \in Nat /\ i \in Nat
    BY <1>3, <1>4, <1>5
<1> HIDE DEF T
<1> QED  BY <1>2, <1>4, <1>6 DEF OpToRel

\* g goes from z by one step after another.
IsRun(g, n, S, z, step) ==
    /\ g \in [0..n -> S] /\ g[0] = z
    /\ \A i \in 1..n : g[i] = step[i][g[i - 1]]

LEMMA RunExists ==
    ASSUME NEW n \in Nat, NEW S, NEW z \in S, NEW step \in [1..n -> [S -> S]]
    PROVE  \E g : IsRun(g, n, S, z, step)
<1> DEFINE T == {m \in 0..n : \E g : IsRun(g, m, S, z, step)}
<1>1. 0 \in T
    <2>1. IsRun([i \in 0..0 |-> z], 0, S, z, step)
        BY DEF IsRun
    <2> QED  BY <2>1
<1>2. ASSUME NEW m \in 0..n, m < n, m \in T PROVE m + 1 \in T
    <2>1. PICK g : IsRun(g, m, S, z, step)
        BY <1>2
    <2>2. m + 1 \in 1..n /\ m \in 0..m /\ m \in Nat
        BY <1>2
    <2>3. g[m] \in S /\ step[m + 1] \in [S -> S]
        BY <2>1, <2>2 DEF IsRun
    <2>4. PICK last \in S : last = step[m + 1][g[m]]
        BY <2>3
    <2> DEFINE h == [i \in 0..(m + 1) |-> IF i = m + 1 THEN last ELSE g[i]]
    <2>5. h \in [0..(m + 1) -> S]
        BY <2>1, <2>2 DEF IsRun
    <2>6. h[m + 1] = last /\ \A i \in 0..m : h[i] = g[i]
        BY <2>2
    <2> HIDE DEF h
    <2>7. ASSUME NEW i \in 1..(m + 1) PROVE h[i] = step[i][h[i - 1]]
        <3>1. CASE i = m + 1
            <4>1. i - 1 = m
                BY <2>2, <3>1
            <4> QED  BY <2>2, <2>4, <2>6, <3>1, <4>1
        <3>2. CASE i \in 1..m
            <4>1. i - 1 \in 0..m /\ i \in 0..m
                BY <2>2, <3>2
            <4> QED  BY <2>1, <2>6, <3>2, <4>1 DEF IsRun
        <3> QED  BY <2>2, <3>1, <3>2
    <2>8. h[0] = z
        BY <2>1, <2>2, <2>6 DEF IsRun
    <2>9. IsRun(h, m + 1, S, z, step)
        BY <2>5, <2>7, <2>8 DEF IsRun
    <2> QED  BY <2>2, <2>9
<1> HIDE DEF T
<1>3. 0..n \subseteq T
    BY <1>1, <1>2, OffsetInduction
<1>4. n \in 0..n
    OBVIOUS
<1> QED  BY <1>3, <1>4 DEF T

LEMMA AfterTyped ==
    ASSUME NEW byte, NEW at \in Nat \X Nat, NEW cols
    PROVE  After(byte, at, cols) \in Nat \X Nat
BY DEF After

\* The recursive function is what its equation says.
LEMMA ScanIs ==
    ASSUME NEW text, Len(text) \in Nat, NEW cols
    PROVE  /\ Scan(text, cols)[0] = <<0, 0>>
           /\ \A i \in 1..Len(text) :
                Scan(text, cols)[i] = After(At(text, i - 1), Scan(text, cols)[i - 1], cols)
<1> DEFINE n == Len(text)
           F(pos) == [i \in Offsets(text) |->
                        IF i = 0 THEN <<0, 0>>
                        ELSE After(At(text, i - 1), pos[i - 1], cols)]
           step == [i \in 1..n |-> [at \in Nat \X Nat |-> After(At(text, i - 1), at, cols)]]
<1>1. step \in [1..n -> [Nat \X Nat -> Nat \X Nat]]
    BY AfterTyped
<1>2. \A i \in 1..n, at \in Nat \X Nat : step[i][at] = After(At(text, i - 1), at, cols)
    OBVIOUS
<1> HIDE DEF step
<1>3. PICK g : IsRun(g, n, Nat \X Nat, <<0, 0>>, step)
    <2>1. <<0, 0>> \in Nat \X Nat /\ n \in Nat
        OBVIOUS
    <2> HIDE DEF n
    <2> QED  BY <1>1, <2>1, RunExists
<1>4. g = F(g)
    <2>1. ASSUME NEW i \in 0..n
          PROVE  g[i] = IF i = 0 THEN <<0, 0>> ELSE After(At(text, i - 1), g[i - 1], cols)
        <3>1. CASE i = 0
            BY <1>3, <3>1 DEF IsRun
        <3>2. CASE i \in 1..n
            <4>1. i - 1 \in 0..n /\ i # 0
                BY <3>2
            <4> QED  BY <1>2, <1>3, <3>2, <4>1 DEF IsRun
        <3> QED  BY <3>1, <3>2
    <2>2. g = [i \in 0..n |-> g[i]]
        BY <1>3 DEF IsRun
    <2> QED  BY <2>1, <2>2 DEF Offsets
<1>5. Scan(text, cols) = CHOOSE pos : pos = F(pos)
    BY DEF Scan
<1>6. PICK pos : pos = Scan(text, cols) /\ pos = F(pos)
    BY <1>4, <1>5
<1>7. /\ pos[0] = <<0, 0>>
      /\ \A i \in 1..n : pos[i] = After(At(text, i - 1), pos[i - 1], cols)
    <2>1. \A i \in 0..n : pos[i] = F(pos)[i]
        BY <1>6
    <2>2. \A i \in 0..n : F(pos)[i] = IF i = 0 THEN <<0, 0>>
                                    ELSE After(At(text, i - 1), pos[i - 1], cols)
        BY DEF Offsets
    <2> HIDE DEF F
    <2>3. 0 \in 0..n /\ \A i \in 1..n : i \in 0..n /\ i # 0
        OBVIOUS
    <2> QED  BY <2>1, <2>2, <2>3
<1> QED  BY <1>6, <1>7

\* Rows and columns are never negative, and no column is the last of the screen.
LEMMA ScanTyped ==
    ASSUME NEW text, Len(text) \in Nat, NEW cols \in Nat \ {0, 1}
    PROVE  \A i \in 0..Len(text) : Scan(text, cols)[i] \in Nat \X (0..(cols - 1))
<1> DEFINE n == Len(text)
           pos == Scan(text, cols)
           T == {i \in 0..n : pos[i] \in Nat \X (0..(cols - 1))}
<1>1. 0 \in T
    <2>1. pos[0] = <<0, 0>> /\ 0 \in 0..n /\ 0 \in 0..(cols - 1)
        BY ScanIs
    <2>2. <<0, 0>> \in Nat \X (0..(cols - 1))
        BY <2>1
    <2> HIDE DEF pos
    <2> QED  BY <2>1, <2>2
<1>2. ASSUME NEW i \in 0..n, i < n, i \in T PROVE i + 1 \in T
    <2>1. i + 1 \in 1..n /\ (i + 1) - 1 = i
        BY <1>2
    <2>2. pos[i + 1] = After(At(text, i), pos[i], cols)
        BY <2>1, ScanIs
    <2>3. pos[i] \in Nat \X (0..(cols - 1))
        BY <1>2
    <2> HIDE DEF pos
    <2>4. After(At(text, i), pos[i], cols) \in Nat \X (0..(cols - 1))
        BY <2>3 DEF After, Wraps
    <2> QED  BY <2>1, <2>2, <2>4
<1>3. n \in Nat
    OBVIOUS
<1> HIDE DEF T, n, pos
<1>4. 0..n \subseteq T
    BY <1>1, <1>2, <1>3, OffsetInduction
<1> QED  BY <1>4 DEF T, n, pos

\* One byte further: the same place after a continuation byte, the next row
\* after a byte that wraps, the next column otherwise.
LEMMA ScanStep ==
    ASSUME NEW text, Len(text) \in Nat, NEW cols \in Nat \ {0, 1},
           NEW i \in 0..Len(text), i < Len(text),
           NEW pos, pos = Scan(text, cols)
    PROVE  /\ i + 1 \in 0..Len(text)
           /\ pos[i] \in Nat \X (0..(cols - 1)) /\ pos[i + 1] \in Nat \X (0..(cols - 1))
           /\ pos[i + 1][1] = pos[i][1] \/ pos[i + 1][1] = pos[i][1] + 1
           /\ ~Boundary(text, i) => pos[i + 1] = pos[i]
           /\ Boundary(text, i) => IF Wraps(At(text, i), pos[i][2], cols)
                                  THEN pos[i + 1][1] = pos[i][1] + 1
                                  ELSE /\ pos[i + 1][1] = pos[i][1]
                                       /\ pos[i + 1][2] = pos[i][2] + 1
<1>1. i + 1 \in 1..Len(text) /\ i + 1 \in 0..Len(text) /\ (i + 1) - 1 = i
    OBVIOUS
<1>2. pos[i] \in Nat \X (0..(cols - 1)) /\ pos[i + 1] \in Nat \X (0..(cols - 1))
    BY <1>1, ScanTyped
<1>3. pos[i + 1] = After(At(text, i), pos[i], cols)
    BY <1>1, ScanIs
<1>4. Boundary(text, i) <=> ~u8_is_cont(At(text, i))
    BY DEF Boundary
<1> QED  BY <1>1, <1>2, <1>3, <1>4 DEF After, Wraps

\* Where a row ends: it is a boundary, and its byte wraps.
LEMMA RowEnds ==
    ASSUME NEW text, Len(text) \in Nat, NEW cols \in Nat \ {0, 1},
           NEW i \in 0..Len(text), i < Len(text),
           NEW pos, pos = Scan(text, cols)
    PROVE  pos[i + 1][1] # pos[i][1] <=>
             Boundary(text, i) /\ Wraps(At(text, i), pos[i][2], cols)
<1>1. pos[i][1] \in Nat
    BY ScanStep
<1> QED  BY <1>1, ScanStep

\* Reading order on positions.
Before(p, q) == p[1] < q[1] \/ (p[1] = q[1] /\ p[2] < q[2])

LEMMA BeforeIs ==
    ASSUME NEW p \in Nat \X Nat, NEW q \in Nat \X Nat, NEW r \in Nat \X Nat,
           Before(p, q)
    PROVE  p # q /\ p[1] <= q[1] /\ (Before(q, r) => Before(p, r))
<1>1. /\ p[1] \in Nat /\ p[2] \in Nat /\ q[1] \in Nat /\ q[2] \in Nat
      /\ r[1] \in Nat /\ r[2] \in Nat
    OBVIOUS
<1> QED  BY <1>1 DEF Before

LEMMA BeforeNext ==
    ASSUME NEW p \in Nat \X Nat, NEW q \in Nat \X Nat,
           q[1] = p[1] + 1 \/ (q[1] = p[1] /\ q[2] = p[2] + 1)
    PROVE  Before(p, q)
<1>1. p[1] \in Nat /\ p[2] \in Nat
    OBVIOUS
<1> QED  BY <1>1 DEF Before

\* The rows never go back, and a character further on in the text is further on
\* in reading order.
LEMMA ScanGrows ==
    ASSUME NEW text, Len(text) \in Nat, NEW cols \in Nat \ {0, 1},
           NEW i \in 0..Len(text), NEW j \in 0..Len(text), i <= j,
           NEW pos, pos = Scan(text, cols)
    PROVE  /\ pos[i][1] <= pos[j][1]
           /\ pos[i] = pos[j] \/ Before(pos[i], pos[j])
           /\ i < j /\ Boundary(text, i) => Before(pos[i], pos[j])
<1> DEFINE n == Len(text)
           Ordered(k) == /\ pos[i] = pos[k] \/ Before(pos[i], pos[k])
                         /\ i < k /\ Boundary(text, i) => Before(pos[i], pos[k])
           T == {k \in 0..n : i <= k => Ordered(k)}
<1>1. 0 \in T
    OBVIOUS
<1>2. ASSUME NEW k \in 0..n, k < n, k \in T PROVE k + 1 \in T
    <2>1. k + 1 \in 0..n
        BY <1>2
    <2>2. CASE k + 1 < i
        BY <2>1, <2>2
    <2>3. CASE i = k + 1
        BY <2>1, <2>3
    <2>4. CASE i <= k
        <3>1. Ordered(k)
            BY <1>2, <2>4
        <3>2. pos[i] \in Nat \X Nat /\ pos[k] \in Nat \X Nat /\ pos[k + 1] \in Nat \X Nat
            BY <2>1, ScanTyped
        <3>3. /\ pos[k] = pos[k + 1] \/ Before(pos[k], pos[k + 1])
              /\ Boundary(text, k) => Before(pos[k], pos[k + 1])
            <4>1. CASE ~Boundary(text, k)
                BY <1>2, <4>1, ScanStep
            <4>2. CASE Boundary(text, k)
                <5>1. \/ pos[k + 1][1] = pos[k][1] + 1
                      \/ pos[k + 1][1] = pos[k][1] /\ pos[k + 1][2] = pos[k][2] + 1
                    BY <1>2, <4>2, ScanStep
                <5> QED  BY <3>2, <5>1, BeforeNext
            <4> QED  BY <4>1, <4>2
        <3>4. Before(pos[i], pos[k]) /\ Before(pos[k], pos[k + 1])
                => Before(pos[i], pos[k + 1])
            BY <3>2, BeforeIs
        <3>5. pos[i] = pos[k + 1] \/ Before(pos[i], pos[k + 1])
            BY <3>1, <3>3, <3>4
        <3>6. Boundary(text, i) => Before(pos[i], pos[k + 1])
            <4>1. CASE i = k
                BY <3>3, <4>1
            <4>2. CASE i < k
                BY <3>1, <3>3, <3>4, <4>2
            <4> QED  BY <2>4, <4>1, <4>2
        <3> QED  BY <2>1, <3>5, <3>6
    <2> QED  BY <2>2, <2>3, <2>4
<1>3. n \in Nat
    OBVIOUS
<1> HIDE DEF T
<1>4. 0..n \subseteq T
    BY <1>1, <1>2, <1>3, OffsetInduction
<1>5. Ordered(j)
    BY <1>4 DEF T
<1>6. pos[i] \in Nat \X Nat /\ pos[j] \in Nat \X Nat
    BY ScanTyped
<1>7. pos[i][1] <= pos[j][1]
    BY <1>5, <1>6, BeforeIs
<1> QED  BY <1>5, <1>7

\* Every row up to that of an offset has an end before it.
LEMMA RowsAreReached ==
    ASSUME NEW text, Len(text) \in Nat, NEW cols \in Nat \ {0, 1},
           NEW j \in 0..Len(text), NEW pos, pos = Scan(text, cols),
           NEW row \in Nat, row < pos[j][1]
    PROVE  \E i \in Boundaries(text) :
             i < j /\ pos[i][1] = row /\ Wraps(At(text, i), pos[i][2], cols)
<1> DEFINE n == Len(text)
<1> SUFFICES ASSUME \A i \in 0..n : i < j /\ pos[i][1] = row => pos[i + 1][1] = pos[i][1]
             PROVE  FALSE
    BY RowEnds DEF Boundaries, Offsets
<1> DEFINE S == {k \in 0..n : k <= j => pos[k][1] <= row}
<1>1. 0 \in S
    BY ScanIs
<1>2. ASSUME NEW k \in 0..n, k < n, k \in S PROVE k + 1 \in S
    <2>1. /\ k + 1 \in 0..n /\ pos[k][1] \in Nat
          /\ pos[k + 1][1] = pos[k][1] \/ pos[k + 1][1] = pos[k][1] + 1
        BY <1>2, ScanStep
    <2>2. CASE k < j
        BY <1>2, <2>1, <2>2
    <2>3. CASE ~(k < j)
        BY <2>1, <2>3
    <2> QED  BY <2>2, <2>3
<1>3. n \in Nat
    OBVIOUS
<1> HIDE DEF S
<1>4. 0..n \subseteq S
    BY <1>1, <1>2, <1>3, OffsetInduction
<1>5. pos[j][1] <= row /\ pos[j][1] \in Nat
    BY <1>4, ScanTyped DEF S
<1> QED  BY <1>5

-----------------------------------------------------------------------------
(* From offsets to positions and back. *)

\* get_vpos is the scan, as far as the text goes.
LEMMA VposIsScan ==
    ASSUME NEW text, Len(text) \in Nat, NEW cols, NEW i \in 0..Len(text)
    PROVE  get_vpos(text, i, cols) = Scan(text, cols)[i]
<1>1. {i, Len(text)} \in SUBSET Nat /\ {i, Len(text)} # {}
    OBVIOUS
<1>2. Min({i, Len(text)}) \in {i, Len(text)} /\ Min({i, Len(text)}) <= i
    BY <1>1, MinIs
<1>3. Min({i, Len(text)}) <= Len(text)
    BY <1>1, MinIs
<1>4. Min({i, Len(text)}) = i
    BY <1>2, <1>3
<1> QED  BY <1>4 DEF get_vpos

\* The rows of an offset and of the end of the text.
LEMMA RowIs ==
    ASSUME NEW text, Len(text) \in Nat, NEW cols \in Nat \ {0, 1},
           NEW i \in 0..Len(text)
    PROVE  /\ get_vpos(text, i, cols)[1] \in Nat
           /\ RowsOf(text, cols) = Scan(text, cols)[Len(text)][1] + 1
           /\ RowsOf(text, cols) \in Nat \ {0}
           /\ get_vpos(text, i, cols)[1] < RowsOf(text, cols)
<1>1. Len(text) \in 0..Len(text)
    OBVIOUS
<1>2. /\ get_vpos(text, i, cols) = Scan(text, cols)[i]
      /\ get_vpos(text, Len(text), cols) = Scan(text, cols)[Len(text)]
    BY <1>1, VposIsScan
<1>3. /\ Scan(text, cols)[i][1] \in Nat /\ Scan(text, cols)[Len(text)][1] \in Nat
      /\ Scan(text, cols)[i][1] <= Scan(text, cols)[Len(text)][1]
    BY <1>1, ScanTyped, ScanGrows
<1> QED  BY <1>2, <1>3 DEF RowsOf

\* Where vpos_to_idx may stop, looking for a position.
Stops(text, cols, row, col) ==
    {i \in Boundaries(text) :
       \/ i = Len(text)
       \/ Scan(text, cols)[i] = <<row, col>>
       \/ /\ Scan(text, cols)[i][1] = row
          /\ Wraps(At(text, i), Scan(text, cols)[i][2], cols)}

\* It stops at a character, at the first of these.
LEMMA LookupIs ==
    ASSUME NEW text, Len(text) \in Nat, NEW cols, NEW row, NEW col
    PROVE  /\ vpos_to_idx(text, cols, row, col) \in Boundaries(text)
           /\ vpos_to_idx(text, cols, row, col) \in 0..Len(text)
           /\ vpos_to_idx(text, cols, row, col) \in Stops(text, cols, row, col)
           /\ \A i \in Stops(text, cols, row, col) :
                vpos_to_idx(text, cols, row, col) <= i
<1> DEFINE S == Stops(text, cols, row, col)
<1>1. S \subseteq Boundaries(text) /\ Len(text) \in S
    BY OffsetsAre DEF Stops
<1>2. vpos_to_idx(text, cols, row, col) = Min(S)
    BY DEF vpos_to_idx, Stops
<1> HIDE DEF S
<1>3. S \in SUBSET Nat /\ S # {}
    BY <1>1, OffsetsAre
<1> QED  BY <1>1, <1>2, <1>3, MinIs, OffsetsAre DEF S

\* The position of a character leads back to it.
LEMMA LookupInverts ==
    ASSUME NEW text, Len(text) \in Nat, NEW cols \in Nat \ {0, 1},
           NEW i \in Boundaries(text)
    PROVE  vpos_to_idx(text, cols, get_vpos(text, i, cols)[1],
                       get_vpos(text, i, cols)[2]) = i
<1> DEFINE n == Len(text)
<1>1. PICK pos : pos = Scan(text, cols)
    OBVIOUS
<1>2. i \in 0..n /\ pos[i] = get_vpos(text, i, cols)
    BY <1>1, OffsetsAre, VposIsScan
<1>3. pos[i] \in Nat \X (0..(cols - 1)) /\ pos[i] = <<pos[i][1], pos[i][2]>>
    BY <1>1, <1>2, ScanTyped
<1>4. PICK m : m = vpos_to_idx(text, cols, pos[i][1], pos[i][2])
    OBVIOUS
<1>5. /\ m \in 0..n /\ m \in Boundaries(text) /\ m <= i
      /\ m \in Stops(text, cols, pos[i][1], pos[i][2])
    <2>1. i \in Stops(text, cols, pos[i][1], pos[i][2])
        BY <1>1, <1>3 DEF Stops
    <2> QED  BY <1>4, <2>1, LookupIs
<1>6. ASSUME m < i PROVE FALSE
    <2>1. m < n /\ Boundary(text, m) /\ m + 1 \in 0..n /\ m + 1 <= i
        BY <1>2, <1>5, <1>6 DEF Boundaries
    <2>2. /\ pos[m] \in Nat \X Nat /\ pos[i] \in Nat \X Nat /\ pos[m + 1] \in Nat \X Nat
        BY <1>1, <1>2, <1>5, <2>1, ScanTyped
    <2>3. Before(pos[m], pos[i])
        BY <1>1, <1>2, <1>5, <1>6, <2>1, ScanGrows
    <2>4. pos[m] # pos[i]
        BY <2>2, <2>3, BeforeIs
    <2>5. pos[m][1] = pos[i][1] /\ Wraps(At(text, m), pos[m][2], cols)
        BY <1>1, <1>3, <1>5, <2>1, <2>4 DEF Stops
    <2>6. pos[m + 1][1] = pos[m][1] + 1
        BY <1>1, <1>5, <2>1, <2>5, ScanStep
    <2>7. pos[m + 1][1] <= pos[i][1]
        BY <1>1, <1>2, <2>1, ScanGrows
    <2> QED  BY <2>2, <2>5, <2>6, <2>7
<1> QED  BY <1>2, <1>4, <1>5, <1>6

\* A row of the text is found; beyond the last one, its end.
LEMMA LookupFindsRow ==
    ASSUME NEW text, Len(text) \in Nat, NEW cols \in Nat \ {0, 1},
           NEW row \in Nat, NEW col,
           NEW m, m = vpos_to_idx(text, cols, row, col)
    PROVE  \/ get_vpos(text, m, cols)[1] = row
           \/ m = Len(text) /\ RowsOf(text, cols) <= row
<1> DEFINE n == Len(text)
<1>1. PICK pos : pos = Scan(text, cols)
    OBVIOUS
<1>2. /\ m \in 0..n /\ n \in 0..n /\ m \in Stops(text, cols, row, col)
      /\ \A i \in Stops(text, cols, row, col) : m <= i
    BY LookupIs
<1>3. /\ get_vpos(text, m, cols) = pos[m] /\ pos[n][1] \in Nat
      /\ RowsOf(text, cols) = pos[n][1] + 1
    BY <1>1, <1>2, VposIsScan, RowIs, ScanTyped
<1>4. CASE m # n
    <2>1. pos[m] = <<row, col>> \/ pos[m][1] = row
        BY <1>1, <1>2, <1>4 DEF Stops
    <2> QED  BY <1>3, <2>1
<1>5. CASE m = n /\ row < pos[n][1]
    <2>1. PICK i \in Boundaries(text) :
            i < n /\ pos[i][1] = row /\ Wraps(At(text, i), pos[i][2], cols)
        BY <1>1, <1>2, <1>5, RowsAreReached
    <2>2. i \in Stops(text, cols, row, col)
        BY <1>1, <2>1 DEF Stops
    <2> QED  BY <1>2, <1>5, <2>1, <2>2, OffsetsAre
<1>6. CASE m = n /\ pos[n][1] <= row
    BY <1>3, <1>6
<1> QED  BY <1>3, <1>4, <1>5, <1>6

\* Looked up in its own row, a column that is not there is not found before it.
LEMMA LookupGoesOn ==
    ASSUME NEW text, Len(text) \in Nat, NEW cols \in Nat \ {0, 1},
           NEW i \in 0..Len(text)
    PROVE  i <= vpos_to_idx(text, cols, get_vpos(text, i, cols)[1], cols)
<1> DEFINE n == Len(text)
<1>1. PICK pos : pos = Scan(text, cols)
    OBVIOUS
<1>2. pos[i] = get_vpos(text, i, cols) /\ pos[i][1] \in Nat
    BY <1>1, VposIsScan, ScanTyped
<1>3. PICK m : m = vpos_to_idx(text, cols, pos[i][1], cols)
    OBVIOUS
<1>4. m \in 0..n /\ m \in Boundaries(text) /\ m \in Stops(text, cols, pos[i][1], cols)
    BY <1>3, LookupIs
<1>5. ASSUME m < i PROVE FALSE
    <2>1. m < n /\ Boundary(text, m) /\ m + 1 \in 0..n /\ m + 1 <= i
        BY <1>4, <1>5 DEF Boundaries
    <2>2. pos[m][2] \in 0..(cols - 1) /\ pos[m][1] \in Nat
        BY <1>1, <1>4, ScanTyped
    <2>3. pos[m] # <<pos[i][1], cols>>
        BY <2>2
    <2>4. pos[m][1] = pos[i][1] /\ Wraps(At(text, m), pos[m][2], cols)
        BY <1>1, <1>4, <2>1, <2>3 DEF Stops
    <2>5. pos[m + 1][1] = pos[m][1] + 1
        BY <1>1, <1>4, <2>1, <2>4, ScanStep
    <2>6. pos[m + 1][1] <= pos[i][1]
        BY <1>1, <2>1, ScanGrows
    <2> QED  BY <1>2, <2>4, <2>5, <2>6
<1> QED  BY <1>2, <1>3, <1>4, <1>5

\* What is drawn is drawn in a row of the text.
LEMMA DrawnInText ==
    ASSUME NEW text, Len(text) \in Nat, NEW cols \in Nat \ {0, 1},
           NEW i \in Boundaries(text) \ {Len(text)}
    PROVE  /\ DrawnAt(text, i, cols)[1] \in Nat
           /\ DrawnAt(text, i, cols)[1] < RowsOf(text, cols)
<1> DEFINE n == Len(text)
<1>1. PICK pos : pos = Scan(text, cols)
    OBVIOUS
<1>2. i \in 0..n /\ i < n /\ Boundary(text, i) /\ i + 1 \in 0..n /\ n \in 0..n
    BY OffsetsAre DEF Boundaries
<1>3. /\ pos[i] = get_vpos(text, i, cols) /\ RowsOf(text, cols) = pos[n][1] + 1
      /\ pos[i][1] \in Nat /\ pos[n][1] \in Nat
      /\ pos[i][1] <= pos[n][1] /\ pos[i + 1][1] <= pos[n][1]
    <2>1. pos[i] = get_vpos(text, i, cols) /\ RowsOf(text, cols) = pos[n][1] + 1
        BY <1>1, <1>2, VposIsScan, RowIs
    <2>2. pos[i][1] \in Nat /\ pos[n][1] \in Nat
        BY <1>1, <1>2, ScanTyped
    <2>3. pos[i][1] <= pos[n][1] /\ pos[i + 1][1] <= pos[n][1]
        BY <1>1, <1>2, ScanGrows
    <2> QED  BY <2>1, <2>2, <2>3
<1>4. Wraps(At(text, i), pos[i][2], cols) => pos[i + 1][1] = pos[i][1] + 1
    BY <1>1, <1>2, ScanStep
<1>5. DrawnAt(text, i, cols)[1] =
        IF Wraps(At(text, i), pos[i][2], cols) THEN pos[i][1] + 1 ELSE pos[i][1]
    BY <1>3 DEF DrawnAt
<1> QED  BY <1>3, <1>4, <1>5
=============================================================================
