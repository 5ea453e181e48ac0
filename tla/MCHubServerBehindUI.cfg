SPECIFICATION Spec
CONSTANTS
    ClientIds = {h, c}
    HubId = h
    NoAction = NoAction
    MAX_ACTION_STACK_SIZE = 1
    REDO_LIST_MAX_SIZE = 2
    MaxDispatch = 2
    MaxRemote = 1
    MaxSyncs = 1
    MaxQuits = 0
INVARIANTS
    ServerBehindUI
CHECK_DEADLOCK FALSE
