---------------------------- MODULE MCStoreSchema ----------------------------
(* Store configurations for checking StoreSchema with TLC.                 *)
EXTENDS StoreSchema

CONSTANTS s1, s2

MCStores == {s1, s2}

\* Two components on one database, told apart by their prefixes (spec 3)
MCPrefixShared == [s \in MCStores |-> IF s = s1 THEN "" ELSE "a_"]

\* Two conformance-test runs of one component, one after the other
MCPrefixRerun == [s \in MCStores |-> ""]

\* Both keep the default metadata table
MCDefaultMetadataTable == [s \in MCStores |-> "dapr_metadata"]

\* The metadata table named as Cleanup drops it, prefix \o "metadata"
MCPrefixedMetadataTable(prefix) == [s \in MCStores |-> prefix[s] \o "metadata"]

MCPrefixedShared == MCPrefixedMetadataTable(MCPrefixShared)
MCPrefixedRerun == MCPrefixedMetadataTable(MCPrefixRerun)
=============================================================================
