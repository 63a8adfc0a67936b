\* Every combination of the enumerated inputs; DefaultTimeout is the 20s
\* that SqliteAuthMetadata.Reset sets
CONSTANTS
    Absent = Absent
    DefaultTimeout = 20000
SPECIFICATION Spec
INVARIANT DefaultUpdateInterval
