\* A client that may run out of memory for its list, another program, and
\* fair scheduling: nobody waits for ever, not even a client whose answers are
\* out of step.
SPECIFICATION FairDiarySpec
CONSTANTS
    Users = {alice}
    Keys = {k1}
    Junk = {foreign}
    Blank = Blank
    Undecodable = {unpadded}
    d1 = d1
    d2 = d2
    Odd = {foreign, Blank}
    Sealed = {d1, d2}
    Data = {d1, d2, foreign, unpadded, Blank}
    NoText = NoText
    Stamps = {1}
    MaxId = 1
    NoKey = NoKey
    NoRow = NoRow
    BadKey = BadKey
    MyKey = k1
    NoOrphan = NoOrphan
    Faults = {"init", "memory", "client memory"}
    Sessions = {s1, s2}
    Callers = {s1}
    JavaCallers = {}
    MaxEntries = 1
    MaxInFlight = 2
    ClientCalls <- AllCalls
    RawRequests <- RawDeletes
PROPERTIES CallReturns ChildrenEnd
