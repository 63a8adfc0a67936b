----------------------------- MODULE ActorStore -----------------------------
(***************************************************************************)
(* The PostgreSQL actor store of src/unnamed/part_000 (package postgresql): *)
(* concurrent goroutines (Callers) calling AddActorHost, UpdateActorHost,  *)
(* RemoveActorHost, LookupActor and RemoveActor against the three tables   *)
(* hosts, hosts_actor_types and actors.                                    *)
(*                                                                         *)
(* The tables hold the COMMITTED database state.  A call that issues one   *)
(* statement, or one transaction whose writes become visible together, is *)
(* one action.  Calls whose statements other callers can interleave with   *)
(* are split at those statements:                                          *)
(*   - UpdateActorHost with actor types: the transaction's UPDATE of the   *)
(*     hosts row, the DELETE of the old types (issued on p.db, outside the *)
(*     transaction), then the insert of the new types and the commit;      *)
(*   - LookupActor: each attempt of the retry loop is the lookup query,    *)
(*     whose snapshot read and whose INSERT of the assignment row are two  *)
(*     steps (the race the loop retries on), then the 50ms back-off.       *)
(* SpecWithTests adds GetAllHosts, the conformance tests' read of all    *)
(* three tables, as three queries of a READ COMMITTED transaction.         *)
(* All statements take their connection from one pgxpool of MaxConns:    *)
(* db.Begin holds one until the commit or rollback, a statement on p.db   *)
(* holds one while it runs, and one that finds none free waits until its  *)
(* context times out.                                                     *)
(* Health-check timestamps, idle timeouts and the text of errors are left  *)
(* out; a host row is represented by its (address, app ID) pair.          *)
(***************************************************************************)
EXTENDS Naturals, FiniteSets

CONSTANTS
    Callers,     \* goroutines calling the store concurrently
    HostIds,     \* host IDs the database may generate (never reused)
    Addrs,       \* (address, app ID) pairs a host registers with
    ActorTypes,
    ActorIds,
    MaxConns,    \* the pgxpool's MaxConns (pool_max_conns)
    NULL

ASSUME NULL \notin HostIds \cup Addrs /\ MaxConns \in Nat \ {0}

\* The loop bound of LookupActor: `for i := 0; i < 3; i++`
LookupAttempts == 3

Actors == ActorTypes \X ActorIds

\* Results a call returns (errors named after the actorstore.Err* values)
Errors == {"ErrInvalidRequest", "ErrActorHostConflict", "ErrActorHostNotFound",
           "ErrActorNotFound", "ErrNoActorHost", "ErrDatabase", "ErrCanceled",
           "ErrInconsistent"}
\* A result: "ok" or an error, and the host a LookupActor returns (NULL
\* when its response is empty)
Results == [caller : Callers, res : {"ok"} \cup Errors, host : HostIds \cup {NULL}]
NoReturn == [caller |-> NULL, res |-> NULL, host |-> NULL]

\* The request a caller is serving; NoReq while idle.  snap is what
\* GetAllHosts has loaded so far: per host ID, NULL when the host was not
\* loaded, else the actor types loaded for it.
NoReq == [host |-> NULL, hc |-> FALSE, types |-> NULL, actor |-> NULL, snap |-> NULL]

VARIABLES
    hostsTable,    \* hosts: host ID -> (address, app ID), NULL when no row
    hostTypes,     \* hosts_actor_types: host ID -> committed actor types
    actorsTable,   \* actors: (actor type, actor ID) -> host ID, NULL when no row
    rowLock,       \* hosts row locked by the open transaction of a caller
    usedIds,       \* host IDs generated so far
    pc,            \* where each caller is in its call
    req,           \* the arguments of each caller's call
    attempt,       \* LookupActor: the loop index i
    chosen,        \* LookupActor: the host the query's snapshot picked
    returned       \* the return made by the last step, NoReturn if none

vars == <<hostsTable, hostTypes, actorsTable, rowLock, usedIds,
          pc, req, attempt, chosen, returned>>
tables == <<hostsTable, hostTypes, actorsTable>>

PCs == {"idle", "upd_delete", "upd_insert", "remove_wait",
        "lookup_query", "lookup_insert", "lookup_backoff",
        "all_types", "all_actors"}

TypeOK ==
    /\ hostsTable \in [HostIds -> Addrs \cup {NULL}]
    /\ hostTypes \in [HostIds -> SUBSET ActorTypes]
    /\ actorsTable \in [Actors -> HostIds \cup {NULL}]
    /\ rowLock \in [HostIds -> Callers \cup {NULL}]
    /\ usedIds \subseteq HostIds
    /\ pc \in [Callers -> PCs]
    /\ req \in [Callers -> [host : HostIds \cup {NULL}, hc : BOOLEAN,
                            types : SUBSET ActorTypes \cup {NULL},
                            actor : Actors \cup {NULL},
                            snap : [HostIds -> SUBSET ActorTypes \cup {NULL}] \cup {NULL}]]
    /\ attempt \in [Callers -> 0..(LookupAttempts - 1)]
    /\ chosen \in [Callers -> HostIds \cup {NULL}]
    /\ returned \in Results \cup {NoReturn}

Init ==
    /\ hostsTable = [h \in HostIds |-> NULL]
    /\ hostTypes = [h \in HostIds |-> {}]
    /\ actorsTable = [a \in Actors |-> NULL]
    /\ rowLock = [h \in HostIds |-> NULL]
    /\ usedIds = {}
    /\ pc = [c \in Callers |-> "idle"]
    /\ req = [c \in Callers |-> NoReq]
    /\ attempt = [c \in Callers |-> 0]
    /\ chosen = [c \in Callers |-> NULL]
    /\ returned = NoReturn

(***************************************************************************)
(* Helpers                                                                 *)
(***************************************************************************)

\* The caller's call returns r with host h and the caller is idle again
ReturnHost(c, r, h) ==
    /\ pc' = [pc EXCEPT ![c] = "idle"]
    /\ req' = [req EXCEPT ![c] = NoReq]
    /\ attempt' = [attempt EXCEPT ![c] = 0]
    /\ chosen' = [chosen EXCEPT ![c] = NULL]
    /\ returned' = [caller |-> c, res |-> r, host |-> h]

Return(c, r) == ReturnHost(c, r, NULL)

\* The hosts row of h is locked by an open transaction of another caller:
\* a statement writing that row waits, and fails when its context times out
LockedByOther(c, h) == rowLock[h] \notin {NULL, c}

\* The callers holding a pool connection: an open transaction (of
\* UpdateActorHost or GetAllHosts), the lookup query between its snapshot
\* and its INSERT, or a DELETE of RemoveActorHost waiting on a row lock
Holding == {c \in Callers :
              pc[c] \in {"upd_delete", "upd_insert", "remove_wait", "lookup_insert",
                         "all_types", "all_actors"}}

\* pgxpool.Acquire finds a free connection; without one the statement waits
\* for its context's timeout and fails (the ErrDatabase branches)
ConnAvailable == Cardinality(Holding) < MaxConns

\* Hosts the lookup query may place an actor of type t on: registered hosts
\* that declare t (the query text is not in the repository: spec 4.1)
Candidates(t) == {h \in HostIds : hostsTable[h] # NULL /\ t \in hostTypes[h]}

(***************************************************************************)
(* AddActorHost: one transaction (executeInTransaction) inserting the host *)
(* row and, with CopyFrom, its actor types.  Nothing it writes is visible  *)
(* before the commit, and a failure of begin, insert, copy or commit rolls *)
(* everything back.                                                        *)
(***************************************************************************)
AddActorHost(c) ==
    /\ pc[c] = "idle"
    /\ \E addr \in Addrs \cup {NULL}, types \in SUBSET ActorTypes :
        \/ /\ addr = NULL
           /\ Return(c, "ErrInvalidRequest")
           /\ UNCHANGED <<tables, usedIds>>
        \/ /\ addr # NULL
           /\ Return(c, "ErrDatabase")
           /\ UNCHANGED <<tables, usedIds>>
        \/ /\ addr # NULL /\ ConnAvailable
           /\ \E h \in HostIds : hostsTable[h] = addr
           /\ Return(c, "ErrActorHostConflict")
           /\ UNCHANGED <<tables, usedIds>>
        \/ /\ addr # NULL /\ ConnAvailable
           /\ \A h \in HostIds : hostsTable[h] # addr
           /\ \E h \in HostIds \ usedIds :
                /\ hostsTable' = [hostsTable EXCEPT ![h] = addr]
                /\ hostTypes' = [hostTypes EXCEPT ![h] = types]
                /\ usedIds' = usedIds \cup {h}
           /\ Return(c, "ok")
           /\ UNCHANGED actorsTable
    /\ UNCHANGED rowLock

(***************************************************************************)
(* UpdateActorHost(hostID, {LastHealthCheck?, ActorTypes?}).  hc says      *)
(* whether LastHealthCheck is set; types = NULL is ActorTypes == nil.      *)
(* Without actor types it is the single UPDATE of updateHostsTable.  With  *)
(* actor types it begins a transaction whose UPDATE (when hc) locks the    *)
(* hosts row.                                                              *)
(***************************************************************************)
\* updateHostsTable succeeds: the UPDATE gets the row lock and affects the
\* host's row
HostRowUpdated(c, h) == ~LockedByOther(c, h) /\ hostsTable[h] # NULL

\* Mutant: updateHostsTable is given p.db instead of tx, so its UPDATE
\* commits on its own and holds no lock on the hosts row
UpdateActorHostNoTx(c) ==
    /\ pc[c] = "idle"
    /\ \E h \in usedIds, hc \in BOOLEAN, types \in SUBSET ActorTypes \cup {NULL} :
        \/ /\ ~hc /\ types = NULL
           /\ Return(c, "ErrInvalidRequest")
           /\ UNCHANGED rowLock
        \* updateHostsTable: the UPDATE fails (an error, or its timeout while
        \* another transaction holds the row), or affects no row
        \/ /\ hc
           /\ \/ Return(c, "ErrDatabase")
              \/ ConnAvailable /\ ~LockedByOther(c, h) /\ hostsTable[h] = NULL
                 /\ Return(c, "ErrActorHostNotFound")
           /\ UNCHANGED rowLock
        \* db.Begin fails
        \/ /\ types # NULL
           /\ Return(c, "ErrDatabase")
           /\ UNCHANGED rowLock
        \* no transaction: the UPDATE of the health check is the whole call
        \/ /\ hc /\ types = NULL /\ ConnAvailable
           /\ HostRowUpdated(c, h)
           /\ Return(c, "ok")
           /\ UNCHANGED rowLock
        \* the transaction is open; with hc its UPDATE holds the hosts row lock
        \/ /\ types # NULL /\ ConnAvailable
           /\ hc => HostRowUpdated(c, h)
           /\ UNCHANGED rowLock
           /\ pc' = [pc EXCEPT ![c] = "upd_delete"]
           /\ req' = [req EXCEPT ![c] = [NoReq EXCEPT !.host = h, !.hc = hc,
                                                      !.types = types]]
           /\ UNCHANGED <<attempt, chosen>>
           /\ returned' = NoReturn
    /\ UNCHANGED <<tables, usedIds>>

UpdateActorHost(c) ==
    /\ pc[c] = "idle"
    /\ \E h \in usedIds, hc \in BOOLEAN, types \in SUBSET ActorTypes \cup {NULL} :
        \/ /\ ~hc /\ types = NULL
           /\ Return(c, "ErrInvalidRequest")
           /\ UNCHANGED rowLock
        \* updateHostsTable: the UPDATE fails (an error, or its timeout while
        \* another transaction holds the row), or affects no row
        \/ /\ hc
           /\ \/ Return(c, "ErrDatabase")
              \/ ConnAvailable /\ ~LockedByOther(c, h) /\ hostsTable[h] = NULL
                 /\ Return(c, "ErrActorHostNotFound")
           /\ UNCHANGED rowLock
        \* db.Begin fails
        \/ /\ types # NULL
           /\ Return(c, "ErrDatabase")
           /\ UNCHANGED rowLock
        \* no transaction: the UPDATE of the health check is the whole call
        \/ /\ hc /\ types = NULL /\ ConnAvailable
           /\ HostRowUpdated(c, h)
           /\ Return(c, "ok")
           /\ UNCHANGED rowLock
        \* the transaction is open; with hc its UPDATE holds the hosts row lock
        \/ /\ types # NULL /\ ConnAvailable
           /\ hc => HostRowUpdated(c, h)
           /\ rowLock' = IF hc THEN [rowLock EXCEPT ![h] = c] ELSE rowLock
           /\ pc' = [pc EXCEPT ![c] = "upd_delete"]
           /\ req' = [req EXCEPT ![c] = [NoReq EXCEPT !.host = h, !.hc = hc,
                                                      !.types = types]]
           /\ UNCHANGED <<attempt, chosen>>
           /\ returned' = NoReturn
    /\ UNCHANGED <<tables, usedIds>>

\* The transaction ends (commit or rollback): the row lock is released
Unlock(c) ==
    rowLock' = [h \in HostIds |-> IF rowLock[h] = c THEN NULL ELSE rowLock[h]]

\* `DELETE FROM hosts_actor_types WHERE host_id = $1` is run on p.db, not on
\* tx: it commits on its own, whatever the transaction does next, and it
\* needs a second pool connection while the transaction holds its own.
\* When it fails the transaction is rolled back.
UpdateDeleteTypes(c) ==
    /\ pc[c] = "upd_delete"
    /\ \/ /\ ConnAvailable
          /\ hostTypes' = [hostTypes EXCEPT ![req[c].host] = {}]
          /\ pc' = [pc EXCEPT ![c] = "upd_insert"]
          /\ UNCHANGED <<req, attempt, chosen, rowLock>>
          /\ returned' = NoReturn
       \/ /\ Return(c, "ErrDatabase")
          /\ Unlock(c)
          /\ UNCHANGED hostTypes
    /\ UNCHANGED <<hostsTable, actorsTable, usedIds>>

\* Mutant: the new rows are inserted without the foreign key check
UpdateInsertTypesNoFK(c) ==
    LET h == req[c].host
        types == req[c].types
    IN
    /\ pc[c] = "upd_insert"
    /\ \/ /\ types = {} \/ hostTypes[h] \cap types = {}
          /\ hostTypes' = [hostTypes EXCEPT ![h] = @ \cup types]
          /\ ReturnHost(c, "ok", NULL)
       \/ /\ ReturnHost(c, "ErrDatabase", NULL)
          /\ UNCHANGED hostTypes
    /\ rowLock' = [x \in HostIds |-> IF rowLock[x] = c THEN NULL ELSE rowLock[x]]
    /\ UNCHANGED <<hostsTable, actorsTable, usedIds>>

\* insertHostActorTypes (CopyFrom in tx) and the commit.  The rows reference
\* the host row (foreign key) and (host_id, actor_type) is unique; a failed
\* copy or commit rolls the transaction back.
UpdateInsertTypes(c) ==
    LET h == req[c].host
        types == req[c].types
    IN
    /\ pc[c] = "upd_insert"
    /\ \/ /\ types = {} \/ (hostsTable[h] # NULL /\ hostTypes[h] \cap types = {})
          /\ hostTypes' = [hostTypes EXCEPT ![h] = @ \cup types]
          /\ Return(c, "ok")
       \/ /\ Return(c, "ErrDatabase")
          /\ UNCHANGED hostTypes
    /\ Unlock(c)
    /\ UNCHANGED <<hostsTable, actorsTable, usedIds>>

(***************************************************************************)
(* RemoveActorHost: one DELETE of the hosts row; the foreign keys cascade  *)
(* to hosts_actor_types and actors in the same statement.                  *)
(***************************************************************************)
\* The DELETE of the hosts row runs: it affects no row, or removes the row
\* and, through the foreign keys, the host's actor types and actors
RemoveRow(c, h) ==
    \/ /\ hostsTable[h] = NULL
       /\ Return(c, "ErrActorHostNotFound")
       /\ UNCHANGED tables
    \/ /\ hostsTable[h] # NULL
       /\ hostsTable' = [hostsTable EXCEPT ![h] = NULL]
       /\ hostTypes' = [hostTypes EXCEPT ![h] = {}]
       /\ actorsTable' = [a \in Actors |->
                            IF actorsTable[a] = h THEN NULL ELSE actorsTable[a]]
       /\ Return(c, "ok")

\* p.db.Exec of the DELETE: it fails (no connection before the timeout, an
\* error), runs, or, when an open transaction holds the row lock, waits on
\* it while holding its connection
RemoveActorHost(c) ==
    /\ pc[c] = "idle"
    /\ \E h \in usedIds :
        \/ /\ Return(c, "ErrDatabase")
           /\ UNCHANGED tables
        \/ /\ ConnAvailable /\ ~LockedByOther(c, h)
           /\ RemoveRow(c, h)
        \/ /\ ConnAvailable /\ LockedByOther(c, h)
           /\ pc' = [pc EXCEPT ![c] = "remove_wait"]
           /\ req' = [req EXCEPT ![c] = [NoReq EXCEPT !.host = h]]
           /\ returned' = NoReturn
           /\ UNCHANGED <<tables, attempt, chosen>>
    /\ UNCHANGED <<rowLock, usedIds>>

\* The waiting DELETE runs once the transaction holding the row lock ends,
\* or fails when queryCtx times out first
RemoveLocked(c) ==
    /\ pc[c] = "remove_wait"
    /\ \/ /\ ~LockedByOther(c, req[c].host)
          /\ RemoveRow(c, req[c].host)
       \/ /\ Return(c, "ErrDatabase")
          /\ UNCHANGED tables
    /\ UNCHANGED <<rowLock, usedIds>>

(***************************************************************************)
(* LookupActor: up to LookupAttempts runs of the lookup query, retrying    *)
(* after 50ms only when it fails with a unique violation.                  *)
(***************************************************************************)
LookupActor(c) ==
    /\ pc[c] = "idle"
    /\ \E a \in Actors :
        /\ pc' = [pc EXCEPT ![c] = "lookup_query"]
        /\ req' = [req EXCEPT ![c] = [NoReq EXCEPT !.actor = a]]
    /\ UNCHANGED <<tables, rowLock, usedIds, attempt, chosen>>
    /\ returned' = NoReturn

\* The query's snapshot: an existing assignment is returned; with none, a
\* candidate host is picked for the INSERT; with no candidate the query
\* returns no rows (ErrNoActorHost).
LookupQuery(c) ==
    LET a == req[c].actor IN
    /\ pc[c] = "lookup_query"
    /\ \/ /\ ConnAvailable /\ actorsTable[a] # NULL
          /\ ReturnHost(c, "ok", actorsTable[a])
       \/ /\ ConnAvailable /\ actorsTable[a] = NULL
          /\ Candidates(a[1]) = {}
          /\ Return(c, "ErrNoActorHost")
       \/ /\ ConnAvailable /\ actorsTable[a] = NULL
          /\ \E h \in Candidates(a[1]) :
                /\ chosen' = [chosen EXCEPT ![c] = h]
                /\ pc' = [pc EXCEPT ![c] = "lookup_insert"]
          /\ UNCHANGED <<req, attempt>>
          /\ returned' = NoReturn
       \/ /\ Return(c, "ErrDatabase")
    /\ UNCHANGED <<tables, rowLock, usedIds>>

\* Mutant: the INSERT overwrites a row committed since the snapshot (an
\* upsert instead of a unique violation)
LookupInsertUpsert(c) ==
    LET a == req[c].actor
        h == chosen[c]
    IN
    /\ pc[c] = "lookup_insert"
    /\ \/ /\ hostsTable[h] = NULL
          /\ ReturnHost(c, "ErrDatabase", NULL)
          /\ UNCHANGED actorsTable
       \/ /\ hostsTable[h] # NULL
          /\ actorsTable' = [actorsTable EXCEPT ![a] = h]
          /\ ReturnHost(c, "ok", h)
    /\ UNCHANGED <<hostsTable, hostTypes, rowLock, usedIds>>

\* The query's INSERT of the assignment row: a row committed since the
\* snapshot is a unique violation (retried); a host removed since the
\* snapshot is a foreign key violation ("database error").
LookupInsert(c) ==
    LET a == req[c].actor
        h == chosen[c]
    IN
    /\ pc[c] = "lookup_insert"
    /\ \/ /\ actorsTable[a] # NULL
          /\ pc' = [pc EXCEPT ![c] = "lookup_backoff"]
          /\ chosen' = [chosen EXCEPT ![c] = NULL]
          /\ UNCHANGED <<actorsTable, req, attempt>>
          /\ returned' = NoReturn
       \/ /\ actorsTable[a] = NULL
          /\ hostsTable[h] = NULL
          /\ Return(c, "ErrDatabase")
          /\ UNCHANGED actorsTable
       \/ /\ actorsTable[a] = NULL
          /\ hostsTable[h] # NULL
          /\ actorsTable' = [actorsTable EXCEPT ![a] = h]
          /\ ReturnHost(c, "ok", h)
    /\ UNCHANGED <<hostsTable, hostTypes, rowLock, usedIds>>

\* Mutant: the loop condition is `i <= 3`
LookupBackoffOffByOne(c) ==
    /\ pc[c] = "lookup_backoff"
    /\ \/ /\ attempt[c] + 1 <= LookupAttempts
          /\ attempt' = [attempt EXCEPT ![c] = @ + 1]
          /\ pc' = [pc EXCEPT ![c] = "lookup_query"]
          /\ UNCHANGED <<req, chosen>>
          /\ returned' = NoReturn
       \/ /\ attempt[c] + 1 > LookupAttempts
          /\ ReturnHost(c, "ok", NULL)
       \/ /\ ReturnHost(c, "ErrCanceled", NULL)
    /\ UNCHANGED <<tables, rowLock, usedIds>>

\* Mutant: the loop never increments i
LookupBackoffNoIncrement(c) ==
    /\ pc[c] = "lookup_backoff"
    /\ \/ /\ pc' = [pc EXCEPT ![c] = "lookup_query"]
          /\ UNCHANGED <<req, chosen, attempt>>
          /\ returned' = NoReturn
       \/ /\ ReturnHost(c, "ErrCanceled", NULL)
    /\ UNCHANGED <<tables, rowLock, usedIds>>

\* `select` on time.After(50ms) and ctx.Done(), then `continue`.  When the
\* loop runs out of attempts it falls through to `return res, nil` with res
\* still empty.
LookupBackoff(c) ==
    /\ pc[c] = "lookup_backoff"
    /\ \/ /\ attempt[c] + 1 < LookupAttempts
          /\ attempt' = [attempt EXCEPT ![c] = @ + 1]
          /\ pc' = [pc EXCEPT ![c] = "lookup_query"]
          /\ UNCHANGED <<req, chosen>>
          /\ returned' = NoReturn
       \/ /\ attempt[c] + 1 = LookupAttempts
          /\ Return(c, "ok")
       \/ /\ Return(c, "ErrCanceled")
    /\ UNCHANGED <<tables, rowLock, usedIds>>

(***************************************************************************)
(* RemoveActor: one DELETE of the assignment row.                          *)
(***************************************************************************)
RemoveActor(c) ==
    /\ pc[c] = "idle"
    /\ \E a \in Actors :
        \/ /\ Return(c, "ErrDatabase")
           /\ UNCHANGED actorsTable
        \/ /\ ConnAvailable /\ actorsTable[a] = NULL
           /\ Return(c, "ErrActorNotFound")
           /\ UNCHANGED actorsTable
        \/ /\ ConnAvailable /\ actorsTable[a] # NULL
           /\ actorsTable' = [actorsTable EXCEPT ![a] = NULL]
           /\ Return(c, "ok")
    /\ UNCHANGED <<hostsTable, hostTypes, rowLock, usedIds>>

(***************************************************************************)
(* GetAllHosts, the conformance-test helper of                             *)
(* actorstore_postgres_conftests.go: three SELECTs in one transaction,     *)
(* opened by executeInTransaction with db.Begin, so at PostgreSQL's        *)
(* default READ COMMITTED level: each query sees what was committed when   *)
(* it started.  A row of a host or actor type not loaded before is an     *)
(* error the comments say should never happen (ErrInconsistent).           *)
(***************************************************************************)
\* db.Begin, then `SELECT ... FROM hosts`; a failure rolls back
GetAllHosts(c) ==
    /\ pc[c] = "idle"
    /\ \/ Return(c, "ErrDatabase")
       \/ /\ ConnAvailable
          /\ pc' = [pc EXCEPT ![c] = "all_types"]
          /\ req' = [req EXCEPT ![c] = [NoReq EXCEPT !.snap =
                       [h \in HostIds |-> IF hostsTable[h] # NULL THEN {} ELSE NULL]]]
          /\ UNCHANGED <<attempt, chosen>>
          /\ returned' = NoReturn
    /\ UNCHANGED <<tables, rowLock, usedIds>>

\* `SELECT ... FROM hosts_actor_types`: every row must be of a loaded host
GetAllActorTypes(c) ==
    LET snap == req[c].snap IN
    /\ pc[c] = "all_types"
    /\ \/ Return(c, "ErrDatabase")
       \/ /\ \E h \in HostIds : hostTypes[h] # {} /\ snap[h] = NULL
          /\ Return(c, "ErrInconsistent")
       \/ /\ \A h \in HostIds : hostTypes[h] # {} => snap[h] # NULL
          /\ pc' = [pc EXCEPT ![c] = "all_actors"]
          /\ req' = [req EXCEPT ![c].snap =
                       [h \in HostIds |-> IF snap[h] = NULL THEN NULL ELSE hostTypes[h]]]
          /\ UNCHANGED <<attempt, chosen>>
          /\ returned' = NoReturn
    /\ UNCHANGED <<tables, rowLock, usedIds>>

\* `SELECT ... FROM actors`: every row must be of a loaded host and of an
\* actor type loaded for it; then the commit
GetAllActors(c) ==
    LET snap == req[c].snap
        Loaded(a) == snap[actorsTable[a]] # NULL /\ a[1] \in snap[actorsTable[a]]
    IN
    /\ pc[c] = "all_actors"
    /\ \/ Return(c, "ErrDatabase")
       \/ /\ \E a \in Actors : actorsTable[a] # NULL /\ ~Loaded(a)
          /\ Return(c, "ErrInconsistent")
       \/ /\ \A a \in Actors : actorsTable[a] # NULL => Loaded(a)
          /\ Return(c, "ok")
    /\ UNCHANGED <<tables, rowLock, usedIds>>

(***************************************************************************)
(* Specification                                                           *)
(***************************************************************************)

\* The steps of a call in progress; the database and the Go runtime run
\* them, and every statement ends by completing or by its timeout.
Step(c) ==
    \/ UpdateDeleteTypes(c)
    \/ UpdateInsertTypes(c)
    \/ RemoveLocked(c)
    \/ LookupQuery(c)
    \/ LookupInsert(c)
    \/ LookupBackoff(c)

\* The calls a caller may start, or not
Call(c) ==
    \/ AddActorHost(c)
    \/ UpdateActorHost(c)
    \/ RemoveActorHost(c)
    \/ LookupActor(c)
    \/ RemoveActor(c)

Next == \E c \in Callers : Call(c) \/ Step(c)

Spec == Init /\ [][Next]_vars /\ \A c \in Callers : WF_vars(Step(c))

\* The store as the conformance tests drive it: the calls above, and
\* GetAllHosts reading the tables while they run
NextWithTests ==
    \/ Next
    \/ \E c \in Callers : GetAllHosts(c) \/ GetAllActorTypes(c) \/ GetAllActors(c)

SpecWithTests == Init /\ [][NextWithTests]_vars

(***************************************************************************)
(* Refinement: the committed tables implement ActorPlacement.  A host is  *)
(* registered while its row exists, its types are its hosts_actor_types   *)
(* rows, an actor's placement is its actors row, and the IDs used are the *)
(* IDs the database generated.                                            *)
(***************************************************************************)
AP == INSTANCE ActorPlacement WITH
        hosts <- {h \in HostIds : hostsTable[h] # NULL},
        types <- hostTypes,
        placement <- actorsTable,
        used <- usedIds

(***************************************************************************)
(* Properties                                                              *)
(***************************************************************************)

\* The store keeps ActorPlacement's promise in every interleaving of its
\* callers: an actor is placed only while unplaced and only on a host that
\* is registered at that moment, so concurrent first lookups never move an
\* assignment and a host removed between the lookup's snapshot and its
\* INSERT gets none (the foreign key); actor types are only declared for a
\* registered host, even when it is removed while an UpdateActorHost
\* transaction is open; a removed host takes its types and actors with it
\* in one step (the cascade); and no host ID is reused.
ImplementsPlacement == AP!Spec

\* Every call returns: the retry loop of LookupActor is bounded, and a
\* transaction left open by UpdateActorHost ends, so no caller waits on its
\* row lock forever.
CallsReturn == \A c \in Callers : pc[c] # "idle" ~> pc[c] = "idle"

\* A LookupActor that returns without error returns the host the actor is
\* assigned to (spec 8: concurrent first lookups all succeed and converge on
\* one assignment row).
LookupReturnsOwner ==
    [][\A c \in Callers :
          (pc[c] \in {"lookup_query", "lookup_insert", "lookup_backoff"}
           /\ returned'.caller = c /\ returned'.res = "ok")
          => returned'.host = actorsTable'[req[c].actor]
             /\ returned'.host # NULL]_vars

\* The actor types of a host change only when its row is inserted or
\* deleted, or when the transaction of an UpdateActorHost on it commits:
\* the transaction's writes are never visible before the commit, and a
\* rolled-back update changes nothing (spec 5 and 7).
TypesChangeOnlyAtCommit ==
    [][\A h \in HostIds :
          hostTypes'[h] # hostTypes[h] =>
            \/ hostsTable'[h] # hostsTable[h]
            \/ \E c \in Callers : /\ pc[c] = "upd_insert" /\ req[c].host = h
                                 /\ returned'.caller = c /\ returned'.res = "ok"]_vars

\* An UpdateActorHost that updates the health check and the actor types
\* succeeds only for a host that still exists when it commits: its UPDATE
\* holds the hosts row lock, so a concurrent RemoveActorHost waits until
\* the transaction ends.
UpdatedHostExists ==
    [][\A c \in Callers :
          (pc[c] = "upd_insert" /\ req[c].hc
           /\ returned'.caller = c /\ returned'.res = "ok")
          => hostsTable'[req[c].host] # NULL]_vars

\* A connection holder that can only go on once another holder does: the
\* DELETE of an UpdateActorHost transaction waiting for a connection, or
\* the DELETE of a RemoveActorHost waiting on the row lock of a transaction
Stalled(c) ==
    \/ pc[c] = "upd_delete"
    \/ pc[c] = "remove_wait" /\ LockedByOther(c, req[c].host)

\* The pool never stalls on itself: it is never the case that every pool
\* connection is held by a caller that waits for another holder, the
\* UpdateActorHost transactions whose DELETE of the old actor types (issued
\* on p.db) needs one more connection and the RemoveActorHost DELETEs
\* waiting for those transactions' row locks.  In that state no statement
\* of any caller can run until the contexts time out (spec 5: no operation
\* holds a connection beyond its own statement or transaction).
PoolNeverDeadlocked ==
    ~(/\ Cardinality(Holding) = MaxConns
      /\ \A c \in Holding : Stalled(c))

\* GetAllHosts never fails on what it reads itself: its comments say the
\* transaction is "for consistency" and that an actor type row of a host,
\* or an actor row of a host or actor type, that it did not load "should
\* never happen".  Either can: the three SELECTs see different commits, and
\* UpdateActorHost leaves the actors of the types it replaced in place.
GetAllHostsConsistent == returned.res # "ErrInconsistent"

=============================================================================
