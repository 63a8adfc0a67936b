----------------------------- MODULE PgMetadata -----------------------------
(***************************************************************************)
(* The actor store's configuration parser                                 *)
(* (src/actorstore/postgresql/actorstore_metadata.go): InitWithMetadata   *)
(* resets the defaults, decodes the property map over them, validates the  *)
(* authentication part and the timeout; TableName prefixes a table.        *)
(* Durations are in milliseconds.  The decoder and the authentication     *)
(* parser are collaborators outside this file: each either succeeds or     *)
(* fails, as the input says.                                               *)
(***************************************************************************)
EXTENDS Integers, Sequences

CONSTANTS Absent   \* a property that is not in the map

Second == 1000

\* A property map, already decoded per property, and how the collaborators fare
Inputs == [tablePrefix : {Absent, "", "app1_"},
           metadataTableName : {Absent, "meta"},
           timeout : {Absent, -Second, 0, 500, Second, 20 * Second},
           decodeFails : BOOLEAN,
           authFails : BOOLEAN]

Tables == {"hosts", "hosts_actor_types", "actors"}

VARIABLE meta   \* the metadata passed to InitWithMetadata

\* The property if present, the value reset put there otherwise
Decoded(v, dflt) == IF v = Absent THEN dflt ELSE v

\* pgMetadata.InitWithMetadata: reset, decode, authentication, timeout
InitWithMetadata(in) ==
    LET timeout == Decoded(in.timeout, 20 * Second) IN
    CASE in.decodeFails -> [err |-> "ErrDecode"]
      [] in.authFails -> [err |-> "ErrAuth"]
      [] timeout < Second -> [err |-> "ErrTimeout"]
      [] OTHER -> [err |-> "none",
                   TablePrefix |-> Decoded(in.tablePrefix, ""),
                   MetadataTableName |-> Decoded(in.metadataTableName, "dapr_metadata"),
                   Timeout |-> timeout]

\* pgMetadata.TableName: the prefix followed by the table's name
TableName(m, table) == m.TablePrefix \o table

Init == meta \in Inputs
Next == meta' \in Inputs
Spec == Init /\ [][Next]_meta

=============================================================================
