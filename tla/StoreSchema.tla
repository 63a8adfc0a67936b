---------------------------- MODULE StoreSchema ----------------------------
(***************************************************************************)
(* The tables of PostgreSQL actor stores that share one database, as Init *)
(* creates them (performMigrations, src/unnamed/part_000) and the         *)
(* conformance tests' Cleanup drops them                                  *)
(* (src/actorstore/postgresql/actorstore_postgres_conftests.go).  Each    *)
(* store has its own configuration: a table prefix and the name of the    *)
(* metadata table in which the migration runner records the version it   *)
(* applied, under the fixed key "migrations-actorstore".  Table names are *)
(* strings, built by pgMetadata.TableName as prefix \o table.  Init's     *)
(* steps before the migrations are modelled in StoreLifecycle; here they  *)
(* are one outcome that may fail.                                         *)
(***************************************************************************)
EXTENDS Naturals, Sequences, SequencesExt

CONSTANTS
    Stores,             \* store instances (one per component or test run)
    TablePrefix,        \* per store: pgMetadata.TablePrefix
    MetadataTableName   \* per store: pgMetadata.MetadataTableName

VARIABLES
    tables,     \* names of the tables that exist in the database
    migrated,   \* <<metadata table, key>> rows recording migration 1 applied
    spc,        \* per store: "new", "running", "failed", "cleaned"
    returned    \* the return made by the last step

vars == <<tables, migrated, spc, returned>>

\* performMigrations: MetadataKey
MigrationKey == "migrations-actorstore"

\* pgMetadata.TableName
TableName(s, t) == TablePrefix[s] \o t

\* The tables migration 1 creates (migration1Query, spec 6)
StoreTables(s) ==
    {TableName(s, t) : t \in {"hosts", "hosts_actor_types", "actors"}}

\* Cleanup's DROP TABLE IF EXISTS, in its order
CleanupOrder == <<"reminders", "actors", "hosts_actor_types", "hosts", "metadata">>

\* Spec 6: hosts_actor_types and actors reference hosts, so a DROP TABLE of
\* hosts (without CASCADE) fails while either of them exists
Referenced(s, name, existing) ==
    /\ name = TableName(s, "hosts")
    /\ \E t \in {"hosts_actor_types", "actors"} : TableName(s, t) \in existing

Init ==
    /\ tables = {}
    /\ migrated = {}
    /\ spc = [s \in Stores |-> "new"]
    /\ returned = [store |-> "none", res |-> "none"]

\* The migration runner (spec 2, pgmigrations.Perform): create the metadata
\* table if missing; run migration 1 unless the row for the key records it,
\* then record it.
Perform(s) ==
    LET meta == MetadataTableName[s] IN
    /\ tables' = tables \cup {meta}
                 \cup (IF <<meta, MigrationKey>> \in migrated
                       THEN {} ELSE StoreTables(s))
    /\ migrated' = migrated \cup {<<meta, MigrationKey>>}

\* PostgreSQL.Init: the CAS, parsing the metadata, connecting and pinging
\* (any of which may fail and change no table), then performMigrations,
\* whose failure rolls back.  Init returns nil after the migrations.
InitStore(s) ==
    /\ spc[s] = "new"
    /\ \/ /\ Perform(s)
          /\ spc' = [spc EXCEPT ![s] = "running"]
          /\ returned' = [store |-> s, res |-> "ok"]
       \/ /\ spc' = [spc EXCEPT ![s] = "failed"]
          /\ returned' = [store |-> s, res |-> "error"]
          /\ UNCHANGED <<tables, migrated>>

\* One DROP TABLE IF EXISTS of Cleanup: it removes the table (and the rows
\* it held) unless it fails, or is still referenced
DropTable(s, failing, existing, t) ==
    LET name == TableName(s, t) IN
    IF t \in failing \/ Referenced(s, name, existing)
    THEN existing ELSE existing \ {name}

\* PostgreSQL.Cleanup: the DROP TABLEs in CleanupOrder, then DROP FUNCTION;
\* each error is collected and the next statement runs anyway.  The table
\* it drops as "metadata" is TableName("metadata"), whatever the metadata
\* table is called.
Cleanup(s) ==
    /\ spc[s] = "running"
    /\ \E failing \in SUBSET {"actors", "hosts_actor_types", "function"} :
        /\ tables' = FoldLeft(LAMBDA ex, t : DropTable(s, failing, ex, t),
                              tables, CleanupOrder)
        /\ migrated' = {row \in migrated : row[1] \in tables'}
        /\ returned' = [store |-> s,
                        res |-> IF failing = {} THEN "ok" ELSE "error"]
    /\ spc' = [spc EXCEPT ![s] = "cleaned"]

Next == \E s \in Stores : InitStore(s) \/ Cleanup(s)

Spec == Init /\ [][Next]_vars

(***************************************************************************)
(* Properties                                                              *)
(***************************************************************************)

\* Init returns nil only when the store's tables exist (spec 2: the
\* migration runner guarantees the tables exist before any store operation;
\* spec 4.3: distinct prefixes let stores share one database).  Another
\* store's Init, with another prefix, and a Cleanup before a new test run
\* are the cases where the migration record and the tables it stands for
\* can disagree.
InitLeavesSchemaReady ==
    [][\A s \in Stores :
         spc[s] = "new" /\ spc'[s] = "running" => StoreTables(s) \subseteq tables'
      ]_vars

=============================================================================
