\* Two EntryActivity objects, the second opened by the user or rebuilt from the
\* first; two changes, saves that fail; time passes.
SPECIFICATION FairEntrySpec
CONSTANTS
    Users = {alice}
    Keys = {k1}
    Data = {0, 1, 2}
    Stamps = {1}
    MaxId = 2
    MaxEntries = 2
    NoKey = NoKey
    NoRow = NoRow
    NoText = NoText
    Me = alice
    Recreates = TRUE
    MaxScreens = 2
    MaxTyped = 2
    MaxTasks = 2
    Faults = {"write"}
INVARIANTS EntryTypeOK OneEntryPerScreen LastSaveWins
PROPERTIES IdleChangeIsSaved SavingEnds
\* When MaxScreens objects are used up and idle, nothing is left to happen.
CHECK_DEADLOCK FALSE
