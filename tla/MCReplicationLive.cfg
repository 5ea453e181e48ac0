SPECIFICATION FairRSpec
CONSTANTS
    ClientIds = {h, c}
    HubId = h
    NoAction = NoAction
    MAX_ACTION_STACK_SIZE = 1
    REDO_LIST_MAX_SIZE = 1
    MaxDispatch = 0
    MaxRemote = 2
    MaxSyncs = 0
    MaxQuits = 1
    MaxClientDispatch = 1
    MaxConns = 1
    MaxBreaks = 1
    MaxDisconnects = 1
PROPERTIES
    
    ParticipantsLeave
\* A client's user may never connect.
CHECK_DEADLOCK FALSE
