\* Two clients of one user, every failure of the server, of the processes and
\* of the network: the detailed system against DiaryService.
SPECIFICATION DiarySpec
CONSTANTS
    Users = {alice}
    Keys = {k1}
    Junk = {foreign}
    Blank = Blank
    Undecodable = {unpadded}
    d1 = d1
    d2 = d2
    Odd = {foreign, Blank}
    Sealed = {d1, d2}
    Data = {d1, d2, foreign, unpadded, Blank}
    NoText = NoText
    Stamps = {1}
    MaxId = 2
    NoKey = NoKey
    NoRow = NoRow
    BadKey = BadKey
    MyKey = k1
    NoOrphan = NoOrphan
    Faults = {"init", "read", "write", "rows", "memory"}
    Sessions = {s1, s2}
    Callers = {s1, s2}
    JavaCallers = {}
    MaxEntries = 1
    MaxInFlight = 1
    ClientCalls <- AllCalls
    RawRequests = {}
SYMMETRY SlotSymmetry
INVARIANTS AnswersInStep
PROPERTIES ImplementsService IdNamesOneEntry
