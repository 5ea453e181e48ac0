SPECIFICATION RSpec
CONSTANTS
    ClientIds = {h, c}
    HubId = h
    NoAction = NoAction
    MAX_ACTION_STACK_SIZE = 1
    REDO_LIST_MAX_SIZE = 1
    MaxDispatch = 1
    MaxRemote = 2
    MaxSyncs = 0
    MaxQuits = 0
    MaxClientDispatch = 1
    MaxConns = 2
    MaxBreaks = 1
    MaxDisconnects = 0
INVARIANTS
    UndoFindsAction
    ClientsFollow
    ConfirmedIsOnServer
\* A client's user may never connect.
CHECK_DEADLOCK FALSE
