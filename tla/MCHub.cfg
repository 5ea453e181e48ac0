SPECIFICATION Spec
CONSTANTS
    ClientIds = {h, c}
    HubId = h
    NoAction = NoAction
    MAX_ACTION_STACK_SIZE = 2
    REDO_LIST_MAX_SIZE = 2
    MaxDispatch = 3
    MaxRemote = 1
    MaxSyncs = 2
    MaxQuits = 1
INVARIANTS
    TypeOK
    NeverFails
    UndoneIffPending
    UndoesLatestOwn
    UndoneInOrder
    TournamentFollowsLists
    SyncingExact
    RedoMenuExact
    ServerAgrees
    IInv
PROPERTIES
    TrimmedStaysForever
\* Quit ends the application.
CHECK_DEADLOCK FALSE
