\* The user who has been warned presses ESC again.
SPECIFICATION ImpatientEditorSpec
CONSTANTS
    Users = {alice}
    Keys = {k1}
    Data = {0, 1, 2, 9, Unreadable, Blank}
    Unreadable = Unreadable
    Blank = Blank
    CouldNotDecrypt = 9
    Stamps = {1}
    MaxId = 2
    MaxEntries = 2
    NoKey = NoKey
    NoRow = NoRow
    Me = alice
    NoFile = NoFile
    Torn = Torn
    NoCommand = NoCommand
    Shared = FALSE
    OtherData = {Unreadable, Blank}
    MaxUnread = 1
    Faults = {}
PROPERTIES EscLeaves
