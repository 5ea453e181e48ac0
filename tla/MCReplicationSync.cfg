SPECIFICATION RSpec
CONSTANTS
    ClientIds = {h, c}
    HubId = h
    NoAction = NoAction
    MAX_ACTION_STACK_SIZE = 1
    REDO_LIST_MAX_SIZE = 1
    MaxDispatch = 2
    MaxRemote = 1
    MaxSyncs = 1
    MaxQuits = 0
    MaxClientDispatch = 1
    MaxConns = 1
    MaxBreaks = 0
    MaxDisconnects = 0
INVARIANTS
    UndoFindsAction
    ClientsUndoInOrder
    ClientsFollow
    ConfirmedIsOnServer

    
\* A client's user may never connect.
CHECK_DEADLOCK FALSE
