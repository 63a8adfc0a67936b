\* One component, a conformance-test run after the Cleanup of another
CONSTANTS
    s1 = s1  s2 = s2
    Stores <- MCStores
    TablePrefix <- MCPrefixRerun
    MetadataTableName <- MCDefaultMetadataTable

SPECIFICATION Spec

PROPERTY InitLeavesSchemaReady

\* Every store ends cleaned up or with a failed Init
CHECK_DEADLOCK FALSE
