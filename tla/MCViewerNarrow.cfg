\* A terminal that gets narrower while an entry is read.
SPECIFICATION ListSpec
CONSTANTS
    Users = {alice}
    Keys = {k1}
    Data = {d1}
    Stamps = {1}
    MaxId = 1
    MaxEntries = 1
    NoKey = NoKey
    NoRow = NoRow
    Me = alice
    Faults = {}
    MaxText = 4
    Heights = {2, 3}
    ColSizes = {3, 6}
    ScrollLines = 3
INVARIANTS EndIsReached
