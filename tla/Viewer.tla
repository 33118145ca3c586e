------------------------------- MODULE Viewer -------------------------------
(***************************************************************************)
(* screen_view() of client/ui.c: a text that is scrolled by rows, on a     *)
(* terminal whose size is asked for again in every round of the loop,      *)
(* while the rows are counted once, when the screen opens.  ListScreen     *)
(* opens it and has the same terminal.                                     *)
(***************************************************************************)
EXTENDS TextLayout

CONSTANTS
    MaxText,        \* bound: characters of the text
    Heights,        \* rows of text that the terminal may have
    ColSizes,       \* columns that it may have
    ScrollLines     \* SCROLL_LINES

ASSUME ViewerAssumption ==
    /\ MaxText \in Nat
    /\ Heights \subseteq Nat \ {0, 1} /\ ColSizes \subseteq Nat \ {0, 1}
    /\ ScrollLines \in Nat \ {0}

VARIABLES
    text,
    text_rows, cols,
    total_vrows,    \* the rows of the text, as counted at the start
    view_top,       \* the first row on the screen
    lowest          \* history: the fewest rows the terminal has had

terminal == <<text_rows, cols>>
viewerVars == <<text, text_rows, cols, total_vrows, view_top, lowest>>

Texts == UNION {[1..n -> {Ascii, Newline}] : n \in 0..MaxText}

\* No text is shown.
ViewerInit ==
    /\ text_rows \in Heights /\ cols \in ColSizes
    /\ text = <<>> /\ total_vrows = 1 /\ view_top = 0 /\ lowest = text_rows

ViewerOpens ==
    /\ text' \in Texts
    /\ total_vrows' = RowsOf(text', cols)
    /\ view_top' = 0 /\ lowest' = text_rows
    /\ UNCHANGED terminal

ViewerCloses ==
    /\ text' = <<>> /\ total_vrows' = 1 /\ view_top' = 0 /\ lowest' = text_rows
    /\ UNCHANGED terminal

ScrollsTo(top) ==
    /\ view_top' = top
    /\ UNCHANGED <<text, text_rows, cols, total_vrows, lowest>>

LineDown == view_top + text_rows < total_vrows /\ ScrollsTo(view_top + 1)
LineUp == view_top > 0 /\ ScrollsTo(view_top - 1)

WheelUp == ScrollsTo(IF view_top < ScrollLines THEN 0 ELSE view_top - ScrollLines)

BadWheelDown ==    \* a text shorter than the screen gets a negative top
    ScrollsTo(IF view_top + ScrollLines + text_rows > total_vrows
              THEN total_vrows - text_rows ELSE view_top + ScrollLines)

WheelDown ==
    LET top == view_top + ScrollLines
        last == IF top + text_rows > total_vrows THEN total_vrows - text_rows
                                                 ELSE top
    IN  ScrollsTo(IF last < 0 THEN 0 ELSE last)

\* KEY_RESIZE has no branch; the loop asks for the new size.
Resize ==
    /\ text_rows' \in Heights /\ cols' \in ColSizes
    /\ lowest' = Min({lowest, text_rows'})
    /\ UNCHANGED <<text, total_vrows, view_top>>

ViewerNext == LineDown \/ LineUp \/ WheelUp \/ WheelDown \/ Resize

-----------------------------------------------------------------------------
(* Properties *)

\* However the keys, the wheel and resizes mix, the first row on the screen is
\* a row of the text, and no further down than the last page of the lowest
\* terminal there was (ui.c:186-197).
ViewStaysInText ==
    /\ view_top \in 0..(total_vrows - 1)
    /\ view_top = 0 \/ view_top + lowest <= total_vrows

\* client/architecture.md:122, "read-only, scrollable": where DOWN stops, the
\* last of the text is on the screen.
EndIsReached ==
    total_vrows <= view_top + text_rows =>
        \A i \in Boundaries(text) \ {Len(text)} :
            text[i + 1] # Newline =>
                DrawnAt(text, i, cols)[1] < view_top + text_rows
=============================================================================
