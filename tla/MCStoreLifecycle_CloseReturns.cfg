CONSTANTS
    c1 = c1  c2 = c2  c3 = c3
    Callers <- MCCallers

SPECIFICATION Spec

INVARIANT CloseReturns

\* The process stops only when it crashes
CHECK_DEADLOCK FALSE
