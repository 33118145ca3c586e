\* A second client deletes an entry while this one is in the editor.
SPECIFICATION ListSpec
CONSTANTS
    Users = {alice}
    Keys = {k1}
    Data = {d1}
    Stamps = {1}
    MaxId = 2
    MaxEntries = 2
    NoKey = NoKey
    NoRow = NoRow
    Me = alice
    Faults = {}
    MaxText = 4
    Heights = {2, 3}
    ColSizes = {3}
    ScrollLines = 3
INVARIANTS AlwaysShown
