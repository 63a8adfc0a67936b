CONSTANTS
    v1 = v1
    v2 = v2
    NULL = NULL
    Versions <- MCVersions
SPECIFICATION Spec
INVARIANT InitAcceptsURL
CHECK_DEADLOCK FALSE
