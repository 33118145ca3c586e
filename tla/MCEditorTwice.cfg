\* A list that failed half way leaves its rows to the saves that follow.
SPECIFICATION EditorSpec
CONSTANTS
    Users = {alice}
    Keys = {k1}
    Data = {0, 1, 2, 9, Unreadable, Blank}
    Unreadable = Unreadable
    Blank = Blank
    CouldNotDecrypt = 9
    Stamps = {1}
    MaxId = 3
    MaxEntries = 2
    NoKey = NoKey
    NoRow = NoRow
    Me = alice
    NoFile = NoFile
    Torn = Torn
    NoCommand = NoCommand
    Shared = FALSE
    OtherData = {Unreadable, Blank}
    MaxUnread = 1
    Faults = {"client memory"}
INVARIANTS SavesNeverDuplicate
