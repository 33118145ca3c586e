\* The calls that follow a list that failed half way.
SPECIFICATION DiarySpec
CONSTANTS
    Users = {alice}
    Keys = {k1}
    Junk = {foreign}
    Blank = Blank
    Undecodable = {unpadded}
    d1 = d1
    d2 = d2
    Odd = {foreign, Blank}
    Sealed = {d1, d2}
    Data = {d1, d2, foreign, unpadded, Blank}
    NoText = NoText
    Stamps = {1}
    MaxId = 2
    NoKey = NoKey
    NoRow = NoRow
    BadKey = BadKey
    MyKey = k1
    NoOrphan = NoOrphan
    Faults = {}
    Sessions = {s1, s2}
    Callers = {s1}
    JavaCallers = {}
    MaxEntries = 2
    MaxInFlight = 2
    ClientCalls <- AllCalls
    RawRequests <- OddPosts
PROPERTIES SuccessIsReal
