\* Every text of up to six bytes, three columns and two rows.
SPECIFICATION TextSpec
CONSTANTS
    MaxLen = 6
    InitialSize = 2
    Widths = {1, 2}
    TextRows = 2
    Cols = 3
    ScrollLines = 3
    OddBytes <- PageDown
INVARIANTS TextTypeOK RoomForNul CursorOnBoundary TextIsWhole
    PositionsRoundTrip CursorOnScreen
PROPERTIES ArrowsMoveByRows
