\* A character that starts a soft-wrapped row.
SPECIFICATION TextSpec
CONSTANTS
    MaxLen = 6
    InitialSize = 2
    Widths = {1, 2}
    TextRows = 2
    Cols = 3
    ScrollLines = 3
    OddBytes <- NoKeyCode
INVARIANTS DrawnIsFound
