CONSTANTS
    Mask = 2
    SizeLen = 2
    TagLen = 1
    NonceBase = 2
    NonceLen = 4
    IvLen = 2
    MaxPlain = 5
    Backends = {"openssl", "sodium"}
SPECIFICATION Spec
INVARIANTS TypeOK Prompt Waiting NeverRaises SameNonce NonceOnce
PROPERTIES IsStream
CHECK_DEADLOCK FALSE
