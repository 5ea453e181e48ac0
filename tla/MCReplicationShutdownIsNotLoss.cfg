SPECIFICATION RSpec
CONSTANTS
    ClientIds = {h, c}
    HubId = h
    NoAction = NoAction
    MAX_ACTION_STACK_SIZE = 1
    REDO_LIST_MAX_SIZE = 1
    MaxDispatch = 0
    MaxRemote = 2
    MaxSyncs = 0
    MaxQuits = 0
    MaxClientDispatch = 0
    MaxConns = 2
    MaxBreaks = 0
    MaxDisconnects = 1
INVARIANTS
    ShutdownIsNotLoss
\* A client's user may never connect.
CHECK_DEADLOCK FALSE
