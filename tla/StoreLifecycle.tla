--------------------------- MODULE StoreLifecycle ---------------------------
(***************************************************************************)
(* The lifecycle of the PostgreSQL actor store (src/unnamed/part_000):     *)
(* Init, Ping and Close called by concurrent goroutines on one store.      *)
(* `running` is the atomic.Bool of the store, `db` its *pgxpool.Pool.     *)
(* Init is split at each statement that may fail: the CompareAndSwap,      *)
(* parsing the metadata and the pool config, connecting, pinging and       *)
(* migrating.  A nil pointer dereference or an unbounded recursion ends    *)
(* the process: `crash` records which.                                     *)
(***************************************************************************)
EXTENDS Naturals

CONSTANTS Callers

VARIABLES
    running,   \* p.running
    db,        \* p.db: "nil" or "open"
    pc,        \* where each caller is in its call
    returned,  \* the return made by the last step, NoReturn if none
    crash      \* "none", or why the process died

vars == <<running, db, pc, returned, crash>>

InitPCs == {"init_parse", "init_connect", "init_ping"}

Results == {"ok", "ErrAlreadyRunning", "ErrNotRunning", "ErrInit", "ErrPing"}
NoReturn == [caller |-> "none", res |-> "none"]

Init ==
    /\ running = FALSE
    /\ db = "nil"
    /\ pc = [c \in Callers |-> "idle"]
    /\ returned = NoReturn
    /\ crash = "none"

\* A goroutine runs only while the process is alive
Alive == crash = "none"

Goto(c, l) == /\ pc' = [pc EXCEPT ![c] = l]
              /\ returned' = NoReturn

Return(c, r) == /\ pc' = [pc EXCEPT ![c] = "idle"]
                /\ returned' = [caller |-> c, res |-> r]

\* `if !p.running.CompareAndSwap(false, true) { return errors.New("already running") }`
InitCAS(c) ==
    /\ Alive /\ pc[c] = "idle"
    /\ \/ /\ ~running
          /\ running' = TRUE
          /\ Goto(c, "init_parse")
       \/ /\ running
          /\ Return(c, "ErrAlreadyRunning")
          /\ UNCHANGED running
    /\ UNCHANGED <<db, crash>>

\* InitWithMetadata, then GetPgxPoolConfig: either may return an error,
\* which leaves running = TRUE
InitParse(c) ==
    /\ Alive /\ pc[c] = "init_parse"
    /\ \/ Goto(c, "init_connect")
       \/ Return(c, "ErrInit")
    /\ UNCHANGED <<running, db, crash>>

\* `p.db, err = pgxpool.NewWithConfig(connCtx, config)`: nil on error
InitConnect(c) ==
    /\ Alive /\ pc[c] = "init_connect"
    /\ \/ /\ db' = "open"
          /\ Goto(c, "init_ping")
       \/ /\ db' = "nil"
          /\ Return(c, "ErrInit")
    /\ UNCHANGED <<running, crash>>

\* p.Ping(ctx) on the new pool, then performMigrations: a failure of either
\* returns an error and leaves running = TRUE and the pool open
InitPingMigrate(c) ==
    /\ Alive /\ pc[c] = "init_ping"
    /\ \/ Return(c, "ok")
       \/ Return(c, "ErrInit")
    /\ UNCHANGED <<running, db, crash>>

\* Ping: `if !p.running.Load() { return error }`, then p.db.Ping(ctx), which
\* dereferences a nil pool
Ping(c) ==
    /\ Alive /\ pc[c] = "idle"
    /\ \/ /\ ~running
          /\ Return(c, "ErrNotRunning")
          /\ UNCHANGED crash
       \/ /\ running /\ db = "open"
          /\ \E r \in {"ok", "ErrPing"} : Return(c, r)
          /\ UNCHANGED crash
       \/ /\ running /\ db = "nil"
          /\ crash' = "nil_pool"
          /\ UNCHANGED <<pc, returned>>
    /\ UNCHANGED <<running, db>>

\* Close: `if !p.running.Load() { return nil }`; then `if p.db != nil { err =
\* p.Close() }` calls itself until the stack overflows.  No path closes the
\* pool or clears running.
Close(c) ==
    /\ Alive /\ pc[c] = "idle"
    /\ \/ /\ ~running \/ db = "nil"
          /\ Return(c, "ok")
          /\ UNCHANGED crash
       \/ /\ running /\ db = "open"
          /\ crash' = "stack_overflow"
          /\ UNCHANGED <<pc, returned>>
    /\ UNCHANGED <<running, db>>

Next == \E c \in Callers :
    \/ InitCAS(c) \/ InitParse(c) \/ InitConnect(c) \/ InitPingMigrate(c)
    \/ Ping(c) \/ Close(c)

Spec == Init /\ [][Next]_vars

(***************************************************************************)
(* Properties                                                              *)
(***************************************************************************)

\* Ping never dereferences a nil pool, whatever Init did before it or is
\* doing concurrently (spec 9: Uninitialized -> Running -> Closed).
PingNeverUsesNilPool == crash # "nil_pool"

\* Close returns (spec 9: Close should close the pool).
CloseReturns == crash # "stack_overflow"

=============================================================================
