\* Two stores with the default configuration but distinct prefixes
CONSTANTS
    s1 = s1  s2 = s2
    Stores <- MCStores
    TablePrefix <- MCPrefixShared
    MetadataTableName <- MCDefaultMetadataTable

SPECIFICATION Spec

PROPERTY InitLeavesSchemaReady

\* Every store ends cleaned up or with a failed Init
CHECK_DEADLOCK FALSE
