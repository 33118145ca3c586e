\* Two identities, as when the operator restarts the server with another key
\* file: who may touch which row.  Every fault may happen.
SPECIFICATION ServerSpec
CONSTANTS
    Users = {alice, bob}
    Keys = {k1, k2}
    Junk = {foreign}
    Data = {foreign}
    Stamps = {1, 2}
    MaxId = 1
    NoKey = NoKey
    NoRow = NoRow
    BadKey = BadKey
    Faults = {"init", "read", "write", "rows", "memory"}
    Sessions = {s1, s2}
    MaxEntries = 1
    MaxInFlight = 1
SYMMETRY Interchangeable
INVARIANTS TypeOK SessionRegistered OwnersRegistered LateRepliesHold
PROPERTIES OwnerOnly KeyWriteOnce
