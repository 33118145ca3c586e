\* A list arrives between the confirmation and its post.
SPECIFICATION MainSpec
CONSTANTS
    Users = {alice}
    Keys = {k1}
    Data = {d1}
    Stamps = {1, 2}
    MaxId = 3
    MaxEntries = 3
    NoKey = NoKey
    NoRow = NoRow
    Me = alice
    Undecodable = {}
    NoDialog = NoDialog
    Online = TRUE
    StrictViews = FALSE
    MaxQueue = 3
    Faults = {}
INVARIANTS QuietRowsAreStored
