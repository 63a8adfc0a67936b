# TLA+ models of components-contrib

This directory holds TLA+ models of the code under `src/`, the TLC
configurations that check them, and `PROJECT.json`. That file lists the
components, the runs, the mutants, the map from each definition to the source
lines it models, the findings and the hazards.

Run a check from this directory with `tlc -workers 2 -config <cfg> <module>`.
The module of each run is listed in section 3.

## 1. The system

| Component | Source | State | Operations |
|---|---|---|---|
| Actor placement store | `src/unnamed/part_000` (package `postgresql`) | PostgreSQL tables `hosts`, `hosts_actor_types` and `actors` | `AddActorHost`, `UpdateActorHost`, `RemoveActorHost`, `LookupActor`, `RemoveActor` |
| Store lifecycle | `src/unnamed/part_000` l.35-143 | `running` (an `atomic.Bool`), `db` (a `*pgxpool.Pool`); the tables and migration records of the database | `Init` with `performMigrations`, `Ping`, `Close` |
| Store metadata | `src/actorstore/postgresql/actorstore_metadata.go` | `pgMetadata` | `InitWithMetadata`, `TableName` |
| Conformance-test helpers | `src/actorstore/postgresql/actorstore_postgres_conftests.go` | the tables above | `GetAllHosts`, `LoadActorStateTestData`, `Cleanup`, reminder helpers |
| Reminder store | not in the repository (spec 4.2 only) | `reminders` table | fetch-and-lease |
| Storage Queues binding | `src/bindings/azure/storagequeues/storagequeues.go` l.1-272 | the remote queue, with message visibility and pop receipts | `Invoke` → `Write`; `Read` goroutines → helper `Read` |
| Key Vault crypto | same file, from l.273 | a public-key cache (`PubKeyCache`); the vault's key versions | `GetKey`, `Encrypt`, `Decrypt`, `WrapKey`, `UnwrapKey`, `Sign`, `Verify` |
| JWKS crypto | `src/crypto/jwks/component.go` | `jwks` under `jwksLock`; a watcher goroutine and a reload goroutine | `Init`/`initJWKS`, `parseJWKSFile`, `retrieveKeyFromSecretFn`, `Close` |
| Kubernetes secrets crypto | `src/unnamed/part_001` | `defaultNamespace` | `parseKeyString`, secret reads |
| SQLite name-resolution metadata | `src/nameresolution/sqlite/sqlite_metadata.go` | `sqliteMetadata` | `InitWithMetadata`, `reset` |
| Pub/sub conformance tests, `go.mod` | `src/tests/...`, `src/.build-tools` | none | excluded by spec 1 |

**How the parts interact.** The runtime calls the actor store from many
goroutines at once. The store keeps no lock of its own: mutual exclusion
comes from the database. That means:
- the unique keys on `actors(actor_type, actor_id)` and on the host's
  (address, app);
- the foreign keys to `hosts`, which cascade on delete;
- the row lock an `UPDATE` of a `hosts` row holds until its transaction ends.

`Init` must finish before any other call, because it creates the pool and
runs the migrations. Several stores may share one database, told apart by
their table prefixes (spec 4.3); the conformance tests drop the tables
again with `Cleanup`. The
conformance tests read the tables back with `GetAllHosts` while calls run.

The crypto providers are used by the runtime's crypto API. Key Vault and
Kubernetes secrets parse a key string argument on every call.

The queue binding's reader goroutines share one remote queue. The queue
service provides:
- visibility timeouts;
- pop receipts;
- TTLs.

## 2. Modules

### `ActorStore.tla` (+ `MCActorStore.tla`) and `ActorPlacement.tla`

This module models the placement store.

**State**
- `hostsTable`, `hostTypes` and `actorsTable` hold the committed tables. A
  host row is its (address, app) pair.
- `rowLock` is the `hosts` row held by an open transaction.
- The pgx pool has `MaxConns` connections. `Holding` is the set of callers
  that hold one: an open transaction, the lookup query between its
  snapshot and its INSERT, or a `RemoveActorHost` DELETE waiting on a row
  lock. Every other statement needs a free connection (`ConnAvailable`);
  without one it waits until its context times out.
- `usedIds` are the generated host IDs.
- Per caller goroutine there are:
  - `pc`, the point reached in the call;
  - `req`, its arguments, plus the rows `GetAllHosts` has loaded so far;
  - `attempt`, the loop index of `LookupActor`;
  - `chosen`, the host the lookup's snapshot picked.
- `returned` is the return made by the last step.

**Actions.** A call whose writes become visible at once is one action. The
other calls are split where another caller can interleave:
- `UpdateActorHost`: the UPDATE, then `UpdateDeleteTypes`, which runs on
  `p.db` outside the transaction (l.257), then `UpdateInsertTypes` with the
  commit.
- `LookupActor`: per attempt, `LookupQuery` (the snapshot) and
  `LookupInsert`, then `LookupBackoff`.
- `RemoveActorHost`: one DELETE with its cascade (`RemoveRow`). When an
  open `UpdateActorHost` transaction holds the host's row lock, the DELETE
  waits on it while holding its connection, and `RemoveLocked` runs it
  once the lock is released, or fails it at its timeout.

Every statement can fail (`ErrDatabase`, which also stands for a timeout).
A crash of the calling process is one of these failures: the server rolls
back an open transaction when its connection drops, and what was committed
stays.

**Tests spec.** `SpecWithTests` adds `GetAllHosts`, the conformance tests'
read of all three tables. It is three SELECTs in one transaction opened by
`db.Begin`, that is, at PostgreSQL's default READ COMMITTED level.

**Refinement.** `ActorPlacement.tla` is the abstract promise of the
committed state: hosts register under fresh IDs, declare types, are
deregistered together with their types and placements, and an actor is
placed only while unplaced and only on a registered host. `ActorStore`
maps onto it through `AP`: the registered hosts are the hosts rows, the
types are `hostTypes`, the placement is `actorsTable`, and the used IDs
are `usedIds`. A health-check UPDATE, a failed statement and the steps of
a lookup before its INSERT are stuttering steps. The DELETE of
`UpdateActorHost` outside its transaction is a `SetTypes` to the empty
set, which the abstract spec allows; `TypesChangeOnlyAtCommit` is the
property that rejects it.

**From the spec.** The lookup query text and the schema are not in the
repository. `Candidates`, the keys and the cascades come from spec 4.1 and 6.

### `StoreLifecycle.tla` (+ `MCStoreLifecycle.tla`)

This module models `Init`, split at each step that can fail, together with
`Ping` and `Close`, all called concurrently. `crash` records a nil-pointer
panic or a stack overflow.

### `QueueBinding.tla` (+ `MCQueueBinding.tla`) and `MessageQueue.tla`

**QueueBinding** models the Storage Queues binding against the queue service.

Per message:
- `queue`: unsent, visible, invisible, deleted or expired;
- `pops`: dequeues so far, which also serves as the current pop receipt;
- `handled`: the receipts whose handler call succeeded.

Per reader goroutine:
- `rpc`: the point reached in the loop;
- `rmsg` and `receipt`: the message held and its pop receipt.

Actions:
- `BindingInit` is `Init`: `parseMetadata`, then `decodeBase64`, then
  `HelperInit` (the credential, `getEndpoint` and the queue's `Create`).
  The runtime calls `Invoke` and `Read` only after it succeeded.
- `Read` starts a reader goroutine.
- `Invoke` is the TTL choice followed by `Write`. The TTL only bounds when
  `Expire` may fire, so it is abstracted.
- `ReadLoop` is the loop test and `Dequeue`;
- `Handle` is the decode and the callback. A message in `Undecodable`
  fails to decode only when `decodeBase64` is set (`Undecodes`);
- `Delete` is the delete by pop receipt.

The service adds `VisibilityTimeout` and `Expire`, and `Cancel` cancels
`Read`'s context. `Restart` is the process running the binding dying and
starting again with the same metadata: the reader goroutines and the
messages and receipts they held are lost, and the new binding must call
`Init` and `Read` again. The service keeps every message, so a message
whose handler succeeded just before the restart comes back after its
visibility timeout and is handled a second time.

**MessageQueue** is the abstract promise. Each message is enqueued, delivered
any number of times, and then either expires or is completed, and it is
completed only when its latest delivery was handled. `QueueBinding` maps
onto it:
- visible and invisible map to queued;
- deleted maps to done;
- "latest delivery handled" is `pops[m] \in handled[m]`.

### `StoreSchema.tla` (+ `MCStoreSchema.tla`)

This module models the tables of several store instances that share one
database. Each store has its own `TablePrefix` and `MetadataTableName`.
Table names are strings built by `TableName` as prefix plus table.

State:
- `tables`: the tables that exist;
- `migrated`: the rows of the metadata tables, one per (table, key) that
  records migration 1 applied;
- `spc` and `returned`: where each store is, and its last return.

Actions:
- `InitStore` is the whole of `Init`. The steps before the migrations are
  one outcome that may fail; `StoreLifecycle` models them in detail. Then
  comes `Perform`, the migration runner: it creates the metadata table, and
  runs migration 1 unless the row for the key `migrations-actorstore`
  already records it.
- `Cleanup` is the conformance tests' `Cleanup`. Its DROP TABLEs run in
  their order (`CleanupOrder`), folded with `DropTable`. Each may fail, and
  the drop of `hosts` fails while a table that references it remains
  (`Referenced`). The table it drops as metadata is `TableName("metadata")`.

The migration runner (`internal/`, spec 2) and the foreign keys (spec 6)
are not under `src/`, so `Perform`'s contract and `Referenced` come from
the spec.

### `JwksProvider.tla` (+ `MCJwksProvider.tla`)

This module models `Init` for each kind of `jwks` property: none, empty, URL,
file, inline, or garbage.

For a file, `Init` starts the watcher goroutine and the reload goroutine,
then:
- sends on the unbuffered `eventCh` (`InitSend`);
- waits on `firstLoad` (`InitReturn`).

The watcher goroutine is `"starting"` until `fswatcher.Watch` has
registered the folder (`WatcherStart`); only then does a change to the
file produce an event. It ends on cancellation (`WatcherExit`) or when
`Watch` returns an error of its own (`WatcherFail`, l.151-153), after
which the reload goroutine keeps waiting on `eventCh`. The other goroutine
steps are `WatcherSend`, `ReloadOnEvent` and `ReloaderExit`. `Close` cancels the context. `RetrieveKey` reads the set
under the lock. `FileChange` is the environment rewriting the file.

A key set is abstracted to where it came from: a file version, `"inline"` or
`"url_set"`.

### `KeyReferences.tla`

This module holds pure operators on Go strings, modelled as sequences of
one-character strings:
- `IndexRune`, `Split` and `ToLower`;
- Key Vault's `NewKeyID` and `Cacheable`;
- Kubernetes' `ParseKeyString`.

`ParseKeyString` has a reference definition written from the documented
format (`RefParseKeyString`).

### `KeyVault.tla` (+ `MCKeyVault.tla`)

This module models every Key Vault method as one action. The state is:
- `cache`: per key string, the version the `PubKeyCache` holds;
- the vault's `latest` version per key name;
- the `expired` versions.

A method routes as the code does:
- a Cacheable key with an asymmetric algorithm (or `GetKey`, or `Verify`)
  uses the cache;
- every other call goes to the vault (`InVault`).

The vault is the environment: `Rotate`, `ExpireVersion`, and `Evict` for
the cache's eviction policy, which is not in the repository.

### `PgMetadata.tla` and `SqliteMetadata.tla`

These model the two `InitWithMetadata` functions as operators over every
enumerated property map. The collaborators outside the file (the decoder,
the authentication metadata and `ValidIdentifier`) are inputs that succeed
or fail. For SQLite the checks are kept in code order. `DefaultTimeout` is
the 20s that `SqliteAuthMetadata.Reset` sets; that code is not in the
repository. `PgMetadata.TableName` is the operator `StoreSchema` names
tables with.

The actor store's timeout check refuses anything below 1s, as spec 6 says
("must be ≥1s"); its own error message ("must be greater than 0") and
spec 4.3 (">0") say otherwise. The two statements contradict each other,
so no run checks the check against either.

## 3. Runs

| Run | Module / cfg | Expect | What it shows |
|---|---|---|---|
| `store_safety` | `MCActorStore` / `MCActorStore_safety.cfg` | pass | Two callers, two hosts, one type, two actors, a pool of two connections. Checks `TypeOK`, `ImplementsPlacement` (refinement of `ActorPlacement`), `CallsReturn` (liveness, including a `RemoveActorHost` waiting on a row lock) and `UpdatedHostExists`. 132k states, about 1.5 min. |
| `queue_binding` | `MCQueueBinding` / `MCQueueBinding.cfg` | pass | `ImplementsMessageQueue` (refinement) and `ReadersStopAfterCancel` (liveness). Init with and without `decodeBase64`, two readers started by `Read`, and two messages (one not base64), each dequeued up to twice, and restarts of the process. 36k states. |
| `jwks` | `MCJwksProvider` / `MCJwksProvider.cfg` | pass | `GoroutinesEndAfterClose` (liveness): both goroutines end after `Close`, whether the watcher was starting, running or had failed. Two valid file versions and a bad one. 1.7k states. |
| `keyvault` | `MCKeyVault` / `MCKeyVault.cfg` | pass | `UsesServedVersion` and `NoUseOfExpiredKey` over the key strings `k`, `k/1`, `k/2`, `k/latest` and `k/LATEST`, with up to 2 versions, expiry and eviction. 1.3k states. |
| `lookup_empty_success` | `MCActorStore_LookupReturnsOwner.cfg` | violation | `LookupActor` returns an empty success after three lost insert races. |
| `update_types_not_atomic` | `MCActorStore_TypesChangeOnlyAtCommit.cfg` | violation | The host's types change at the DELETE, before the commit. |
| `update_pool_deadlock` | `MCActorStore_PoolNeverDeadlocked.cfg` | violation | Two type updates hold both pool connections in their transactions while each DELETE waits for one more. 4 states. One update and a `RemoveActorHost` of the same host, waiting on its row lock, stall the pool in 4 states as well. |
| `lifecycle_ping_nil` | `MCStoreLifecycle_PingNeverUsesNilPool.cfg` | violation | `Ping` after `Init`'s CAS but before the pool exists. |
| `jwks_init_returns` | `MCJwksProvider_InitReturns.cfg` | violation | `Close` before `Init` on a file: `Init` blocks forever on `eventCh <-`. |
| `schema_shared_database` | `MCStoreSchema` / `MCStoreSchema.cfg` | violation | Two stores with prefixes `""` and `"a_"` and the default metadata table: the second `Init` returns nil without creating its tables. 3 states. |

### Bounds

**Placement store.** Two callers produce every race listed in the hazards:
- the insert race, repeated three times;
- a removal between snapshot and insert;
- a write waiting on a held row lock;
- `GetAllHosts` interleaved with a commit.

Two hosts let a lookup lose its host while another remains. The pool has
as many connections as there are callers (`MaxConns = 2`), so each caller
can hold one. This is the small instance of N concurrent type updates
against a pool of N connections; pgxpool's default is max(4, NumCPU).

**Queue binding.** Two readers and `MaxPops = 2` give:
- a redelivery;
- a delete with a stale pop receipt;
- a message that fails to decode on every delivery.

**Schema.** Two stores are enough: one writes the migration record, the
other trusts it. `MCStoreSchema_Rerun.cfg` gives both the same prefix, so
the second is a later test run after the first one's `Cleanup`.
`MCStoreSchema_PrefixedMetadata.cfg` names each metadata table as `Cleanup`
drops it (prefix plus `metadata`); with that configuration the property
holds (99 states).

**JWKS.** Two valid versions let a change to a different set be seen,
and a bad one a reload that keeps the old set.

**Key Vault.** `MaxVersion = 2` gives one rotation. The five key strings
cover an unversioned key, `latest` in two cases, and both pinned versions.

**SQLite metadata.** The inputs reach every check: update intervals of
2.5s, 2s, 5s and 30s or none, against timeouts of 1s and 20s or none.

### Fairness

- **Placement store:** `Step(c)` is fair. Every statement carries a context
  timeout, so a started statement ends. Starting a call is not fair.
- **Queue binding:** each reader goroutine and each message's visibility
  timer are fair. `Restart`, like `Cancel`, is not. The loop never blocks, and the timer runs on the service.
- **JWKS:**
  - Fair: `Init`'s send and wait, and the goroutines' steps, when enabled
    (`fswatcher.Watch` registering its folder included).
  - Not fair: `Close`, lookups and file changes, which are the caller's and
    the environment's choices, and `WatcherFail`, a failure that may or
    may not happen.
  - `WatcherSend` needs the reload goroutine in its select, which is the
    unbuffered channel handoff.

### Deadlock

`store_safety`, the other `MCActorStore` runs and the SQLite run check for
deadlock. The runs of the other modules set `CHECK_DEADLOCK FALSE`, for
these reasons:
- after a panic the process stops;
- after cancellation every goroutine ends;
- Key Vault has no bound on calls but its versions stop.

### Mutants

Each property of a passing run is broken by a plausible bug (`PROJECT.json`
"mutants"):
- `LookupBackoff`: a loop bound of `i <= 3`, and a missing `i++`;
- the insert of actor types made without the foreign-key check (caught by
  `ImplementsPlacement`);
- the lookup `INSERT` made an upsert;
- `updateHostsTable` given `p.db` instead of `tx`;
- the callback's error ignored, or a delete that ignores the pop receipt;
- a read loop that never tests the context;
- `break` instead of `return` on `ctx.Done`;
- `Cacheable` treating `latest` as pinned;
- local encryption without `IsValid`.

## 4. Findings

The findings are in `PROJECT.json` under "findings":
1. `LookupActor` returns an empty response with a nil error after three
   lost races (part_000 l.371).
2. `UpdateActorHost` deletes the old types outside its transaction (l.257).
3. Stores with distinct prefixes cannot share a database (part_000 l.99).
   Migration 1 is recorded under the fixed key `migrations-actorstore` in
   the metadata table, by default `dapr_metadata` for every prefix. A second
   store finds the record, skips the migration and returns nil from `Init`
   with no tables. The conformance tests' `Cleanup` leads to the same state
   with one prefix (conftests l.39): it drops `TableName("metadata")`, not
   the metadata table, so the next run's `Init` creates nothing
   (`MCStoreSchema_Rerun.cfg`, 4 states).
4. `UpdateActorHost` can deadlock the pool until the timeouts fire (l.257).
   Its DELETE runs on `p.db` inside the transaction's callback, so it needs
   a second connection while the transaction holds one. With as many
   concurrent type updates as the pool has connections, every connection is
   held and every DELETE waits. A `RemoveActorHost` of the host holds a
   connection while it waits on the transaction's row lock, so one update
   and one removal are enough for a pool of two. Meanwhile no other
   statement of the store can run.
5. `Ping` dereferences a nil pool while `Init` runs or after it failed.
6. JWKS `Init` never returns when the component was closed before the
   reload goroutine took its event (l.173).
7. The JWKS key set stops following the file (l.149-153). `Init` does not
   wait for `fswatcher.Watch` to register the folder, so a change made
   before that produces no event. When `Watch` fails with an error of its
   own, the goroutine logs it and ends; the log passes `err` (the nil
   `os.Stat` error), not `watchErr`. Every later change is then missed
   while the component keeps running with the old set.
8. SQLite `reset` sets `UpdateInterval` to `defaultCleanupInternal` (1h)
   instead of `defaultUpdateInterval` (5s), which is never used
   (`sqlite_metadata.go` l.114).

One more concurrency defect is checked by configurations outside the runs.
`GetAllHosts` is not a consistent
read (conftests l.100). It runs at READ COMMITTED, so a host added between
its queries triggers its "should never happen" error
(`MCActorStore_GetAllHostsConsistent.cfg`). With a single caller it fails
as well, after `UpdateActorHost` drops a type that placed actors still use
(l.136; `MCActorStore_GetAllHostsOneCaller.cfg`, 11 states).

Four more defects are plain sequential bugs that any unit test reaches. The
project checks them with configurations outside its runs:
- `Close` of the actor store calls itself until the stack overflows
  (`MCStoreLifecycle_CloseReturns.cfg`).
- JWKS `Init` refuses every http(s) URL: the URL branch falls through to
  `jwk.Parse`, which resets `k.jwks` to nil (l.137;
  `MCJwksProvider_InitAcceptsURL.cfg`).
- JWKS `Init` returns nil with no key set when the file does not read or
  parse: the reload goroutine closes `firstLoad` either way (l.163;
  `MCJwksProvider_LoadedAfterInit.cfg`).
- `parseKeyString` splits its empty named result `key` instead of `param`,
  so it rejects every key (part_001 l.116;
  `MCKeyReferences_ParseKeyStringFollowsFormat.cfg`).

## 5. Not modelled

- **Reminder store and fetch-and-lease.** The code is not in the repository.
  A model would rest entirely on spec 4.2.
- **Conformance-test helpers other than `GetAllHosts` and `Cleanup`.**
  - `LoadActorStateTestData` is sequential test setup, run by one goroutine
    before a test; no property tells its steps apart.
  - `GetAllReminders` and `LoadReminderTestData` work on the reminders
    table, whose store code is not in the repository. `Cleanup` is
    modelled, in `StoreSchema`; of its drops of the reminders table and
    function, only the failure is kept.
- **Kubernetes secrets provider, beyond `parseKeyString`.** The rest is
  Kubernetes API reads and JWK conversion, with no state of its own.
- **The details of Storage Queues `Init` and of Key Vault client
  construction.** These are credential and URL setup against SDKs, so the
  models keep only whether setup succeeded (the binding's `decodeBase64`
  included). The binding's TTL choice only affects when `Expire` may fire,
  and `Expire` is always enabled in the model.
- **Logging, SQL text, error wording, health-check and idle-timeout values.**
  No property tells these apart.
