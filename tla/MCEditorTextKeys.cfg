\* isprint accepts the code of KEY_RESIZE, 0x19a, whose low byte is 10xxxxxx.
SPECIFICATION TextSpec
CONSTANTS
    MaxLen = 3
    InitialSize = 2
    Widths = {1, 2}
    TextRows = 2
    Cols = 3
    ScrollLines = 3
    OddBytes <- Resize
INVARIANTS TextIsWhole
