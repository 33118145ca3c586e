\* A change while a save is under way.
SPECIFICATION FairEntrySpec
CONSTANTS
    Users = {alice}
    Keys = {k1}
    Data = {0, 1, 2}
    Stamps = {1}
    MaxId = 2
    MaxEntries = 2
    NoKey = NoKey
    NoRow = NoRow
    NoText = NoText
    Me = alice
    Recreates = FALSE
    MaxScreens = 1
    MaxTyped = 2
    MaxTasks = 3
    Faults = {}
PROPERTIES TypedIsSaved
CHECK_DEADLOCK FALSE
