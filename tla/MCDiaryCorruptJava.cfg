\* A row whose base64 is cut short, stored by another program, and the Android
\* client.
SPECIFICATION DiarySpec
CONSTANTS
    Users = {alice}
    Keys = {k1}
    Junk = {unpadded}
    Blank = Blank
    Undecodable = {unpadded}
    d1 = d1
    d2 = d2
    Odd = {unpadded}
    Sealed = {d1, d2}
    Data = {d1, d2, foreign, unpadded, Blank}
    NoText = NoText
    Stamps = {1}
    MaxId = 2
    NoKey = NoKey
    NoRow = NoRow
    BadKey = BadKey
    MyKey = k1
    NoOrphan = NoOrphan
    Faults = {}
    Sessions = {s1, s2}
    Callers = {s1}
    JavaCallers = {s1}
    MaxEntries = 2
    MaxInFlight = 2
    ClientCalls <- AllCalls
    RawRequests <- OddPosts
PROPERTIES CorruptEntryHidesNothing
