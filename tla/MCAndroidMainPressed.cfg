\* The list changes while the question is open.
SPECIFICATION MainSpec
CONSTANTS
    Users = {alice}
    Keys = {k1}
    Data = {d1}
    Stamps = {1}
    MaxId = 3
    MaxEntries = 3
    NoKey = NoKey
    NoRow = NoRow
    Me = alice
    Undecodable = {}
    NoDialog = NoDialog
    Online = TRUE
    StrictViews = FALSE
    MaxQueue = 3
    Faults = {}
PROPERTIES PressedIsDeleted
