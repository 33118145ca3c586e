\* The second of two loads finds the connection dead.
SPECIFICATION FairMainSpec
CONSTANTS
    Users = {alice}
    Keys = {k1}
    Data = {d1}
    Stamps = {1}
    MaxId = 1
    MaxEntries = 1
    NoKey = NoKey
    NoRow = NoRow
    Me = alice
    Undecodable = {}
    NoDialog = NoDialog
    Online = TRUE
    StrictViews = FALSE
    MaxQueue = 3
    Faults = {}
PROPERTIES LossIsRepaired
