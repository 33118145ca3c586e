\* Two entries on two dates, the first perhaps one that cannot be decoded; everything
\* that can fail does; time passes.
SPECIFICATION FairMainSpec
CONSTANTS
    Users = {alice}
    Keys = {k1}
    Data = {d1, odd}
    Stamps = {1, 2}
    MaxId = 2
    MaxEntries = 2
    NoKey = NoKey
    NoRow = NoRow
    Me = alice
    Undecodable = {odd}
    NoDialog = NoDialog
    Online = FALSE
    StrictViews = TRUE
    MaxQueue = 2
    Faults = {"write", "memory", "rows"}
INVARIANTS MainTypeOK
PROPERTIES OnlyConfirmedIsDeleted NewEntryIsShown
