--------------------------- MODULE SqliteMetadata ---------------------------
(***************************************************************************)
(* The SQLite name resolver's configuration parser                        *)
(* (src/nameresolution/sqlite/sqlite_metadata.go): InitWithMetadata        *)
(* resets the object, checks the instance properties the runtime passes,   *)
(* decodes the Configuration over the defaults and validates it.           *)
(* Durations are in milliseconds.  The decoder, the SQLite authentication  *)
(* part (with its Timeout) and ValidIdentifier are collaborators outside   *)
(* this file: the input says how each fares.                               *)
(***************************************************************************)
EXTENDS Integers

CONSTANTS
    Absent,          \* a property that is not in the configuration
    DefaultTimeout   \* the Timeout SqliteAuthMetadata.Reset sets

Second == 1000
Hour == 3600 * Second
defaultUpdateInterval == 5 * Second
defaultCleanupInternal == Hour

\* Identifiers ValidIdentifier accepts, and one it rejects
ValidIds == {"hosts", "metadata", "nr_hosts"}

Inputs == [appID : {"", "app"}, hostAddress : {"", "10.0.0.1"}, port : {0, 3500},
           decodeFails : BOOLEAN, authFails : BOOLEAN,
           tableName : {Absent, "nr_hosts", "bad;id"},
           metadataTableName : {Absent, "bad;id"},
           updateInterval : {Absent, 2500, 2 * Second, 5 * Second, 30 * Second},
           timeout : {Absent, Second, DefaultTimeout}]

VARIABLE meta   \* the nameresolution.Metadata passed to InitWithMetadata

Decoded(v, dflt) == IF v = Absent THEN dflt ELSE v

\* reset(): the defaults InitWithMetadata decodes over
Reset == [TableName |-> "hosts", MetadataTableName |-> "metadata",
          UpdateInterval |-> defaultCleanupInternal,
          CleanupInterval |-> defaultCleanupInternal,
          Timeout |-> DefaultTimeout]

\* The object after DecodeMetadata, before validation
Configured(in) ==
    [err |-> "none",
     TableName |-> Decoded(in.tableName, Reset.TableName),
     MetadataTableName |-> Decoded(in.metadataTableName, Reset.MetadataTableName),
     UpdateInterval |-> Decoded(in.updateInterval, Reset.UpdateInterval),
     CleanupInterval |-> Reset.CleanupInterval,
     Timeout |-> Decoded(in.timeout, Reset.Timeout)]

\* sqliteMetadata.InitWithMetadata, its checks in the order of the code
InitWithMetadata(in) ==
    LET m == Configured(in) IN
    CASE in.appID = "" -> [err |-> "ErrName"]
      [] in.hostAddress = "" -> [err |-> "ErrAddress"]
      [] in.port = 0 -> [err |-> "ErrPort"]
      [] in.decodeFails -> [err |-> "ErrDecode"]
      [] in.authFails -> [err |-> "ErrAuth"]
      [] m.TableName \notin ValidIds -> [err |-> "ErrTableName"]
      [] m.MetadataTableName \notin ValidIds -> [err |-> "ErrMetadataTableName"]
      [] m.UpdateInterval % Second # 0 -> [err |-> "ErrFraction"]
      [] m.UpdateInterval - m.Timeout < Second -> [err |-> "ErrUpdateInterval"]
      [] OTHER -> m

Init == meta \in Inputs
Next == meta' \in Inputs
Spec == Init /\ [][Next]_meta

(***************************************************************************)
(* Properties                                                              *)
(***************************************************************************)

\* Without an updateInterval property, the update interval is the declared
\* default defaultUpdateInterval (5s), as it is defaultCleanupInternal for
\* the cleanup interval.
DefaultUpdateInterval ==
    LET m == InitWithMetadata(meta) IN
    m.err = "none" /\ meta.updateInterval = Absent =>
        m.UpdateInterval = defaultUpdateInterval

=============================================================================
