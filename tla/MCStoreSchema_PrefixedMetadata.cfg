\* Two stores whose metadata table is named as Cleanup drops it; the property holds
CONSTANTS
    s1 = s1  s2 = s2
    Stores <- MCStores
    TablePrefix <- MCPrefixShared
    MetadataTableName <- MCPrefixedShared

SPECIFICATION Spec

PROPERTY InitLeavesSchemaReady

\* Every store ends cleaned up or with a failed Init
CHECK_DEADLOCK FALSE
