CONSTANTS
    BLOCK_SIZE = 3
    InitialSize = 2
    MaxPlain = 7
SPECIFICATION Spec
INVARIANTS TypeOK KeyedOnce
PROPERTIES IsStream
CHECK_DEADLOCK FALSE
