SPECIFICATION FairSpec
CONSTANTS
    ClientIds = {h, c}
    HubId = h
    NoAction = NoAction
    MAX_ACTION_STACK_SIZE = 1
    REDO_LIST_MAX_SIZE = 2
    MaxDispatch = 2
    MaxRemote = 1
    MaxSyncs = 1
    MaxQuits = 1
PROPERTIES
    EventuallyConfirmed
    SyncsSettle
\* Quit ends the application.
CHECK_DEADLOCK FALSE
