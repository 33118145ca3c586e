\* A save of the old object that runs after one of the new object.
SPECIFICATION EntrySpec
CONSTANTS
    Users = {alice}
    Keys = {k1}
    Data = {0, 1, 2}
    Stamps = {1}
    MaxId = 2
    MaxEntries = 2
    NoKey = NoKey
    NoRow = NoRow
    NoText = NoText
    Me = alice
    Recreates = TRUE
    MaxScreens = 2
    MaxTyped = 2
    MaxTasks = 3
    Faults = {}
PROPERTIES NewerScreenWins
CHECK_DEADLOCK FALSE
