\* One user at the editor, with failing saves, a connection that breaks, lists
\* that fail half way, a process that is killed, commands executed late and a
\* second client.
SPECIFICATION FairEditorSpec
CONSTANTS
    Users = {alice}
    Keys = {k1}
    Data = {0, 1, 2, 9, Unreadable, Blank}
    Unreadable = Unreadable
    Blank = Blank
    CouldNotDecrypt = 9
    Stamps = {1}
    MaxId = 2
    MaxEntries = 2
    NoKey = NoKey
    NoRow = NoRow
    Me = alice
    NoFile = NoFile
    Torn = Torn
    NoCommand = NoCommand
    Shared = TRUE
    OtherData = {Unreadable, Blank}
    MaxUnread = 0
    Faults = {"write", "client memory"}
INVARIANTS EditorTypeOK BackupCoversSave CleanMeansStored OneEntryPerSession
PROPERTIES AutosaveSaves
