\* One client, and others of the same user: three entries on two dates, terminals of one and two rows for the
\* list, texts of up to four characters; a list may fail.
SPECIFICATION ListSpec
CONSTANTS
    Users = {alice}
    Keys = {k1}
    Data = {d1}
    Stamps = {1, 2}
    MaxId = 3
    MaxEntries = 2
    NoKey = NoKey
    NoRow = NoRow
    Me = alice
    Faults = {"write", "memory", "rows", "client memory"}
    MaxText = 4
    Heights = {2, 3}
    ColSizes = {3}
    ScrollLines = 3
INVARIANTS ListTypeOK SelectionIsShown ListIsCurrent ViewStaysInText EndIsReached
PROPERTIES OnlySelectedIsDeleted
