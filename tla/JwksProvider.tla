---------------------------- MODULE JwksProvider ----------------------------
(***************************************************************************)
(* The JWKS crypto provider (src/crypto/jwks/component.go).  Init reads    *)
(* the `jwks` property and treats it as a URL, a path to a local file, or  *)
(* inline JSON.  For a file it starts two goroutines: one runs             *)
(* fswatcher.Watch on the folder and sends on the unbuffered eventCh, the  *)
(* other reloads the file on every event and closes firstLoad after the    *)
(* first one.  Init sends one event itself and waits on firstLoad.  Close  *)
(* cancels the component's context; retrieveKeyFromSecretFn reads the set  *)
(* under jwksLock.  A key set is abstracted to where it came from: a file  *)
(* version, the inline value or the URL's cached set.                      *)
(***************************************************************************)
EXTENDS Naturals

CONSTANTS
    Versions,   \* contents of the JWKS file that parse as a key set
    NULL

\* What the `jwks` metadata property holds; "no_properties" is an empty map
Sources == {"no_properties", "empty", "url", "file", "inline", "garbage"}
\* What the file holds: a key set, or bytes that do not read or parse
FileContents == Versions \cup {"bad"}

ASSUME NULL \notin Versions \cup {"url_set", "inline", "bad"}

VARIABLES
    src,        \* the property given to Init, NULL before Init
    ipc,        \* Init: "idle", "send" (eventCh <-), "wait" (<-firstLoad), "ok", "err"
    jwks,       \* k.jwks: NULL, "url_set", "inline" or a version
    file,       \* what the file on disk holds now
    rpc,        \* reload goroutine: "none", "select", "parse", "exited"
    watcher,    \* watcher goroutine: "none", "starting", "running", "exited"
    pending,    \* the watcher has a change event to send on eventCh
    loaded,     \* firstLoad has been closed
    cancelled,  \* k.ctx is cancelled (Close was called)
    lookup      \* the result of the last retrieveKeyFromSecretFn, or NULL

vars == <<src, ipc, jwks, file, rpc, watcher, pending, loaded, cancelled, lookup>>

\* NewJWKSCrypto: a fresh component; the file already holds some content
Init ==
    /\ src = NULL
    /\ ipc = "idle"
    /\ jwks = NULL
    /\ file \in FileContents
    /\ rpc = "none"
    /\ watcher = "none"
    /\ pending = FALSE
    /\ loaded = FALSE
    /\ cancelled = FALSE
    /\ lookup = NULL

\* jwk.Parse of the bytes os.ReadFile returned; on an error parseJWKSFile
\* logs and returns, keeping the set it had
ParseJWKSFile(f) == IF f \in Versions THEN f ELSE jwks

\* initJWKS(md).  A URL sets k.jwks to a cached set and falls through: the
\* URL is not a file (os.Stat fails) and does not parse as JSON, so
\* `k.jwks, err = jwk.Parse(mdJSON)` sets it to nil and returns an error.
\* A file starts both goroutines and sends the first event.
InitJWKS(s) ==
    \/ /\ s = "empty"
       /\ ipc' = "err" /\ UNCHANGED <<jwks, rpc, watcher>>
    \/ /\ s \in {"url", "garbage"}
       /\ jwks' = NULL /\ ipc' = "err" /\ UNCHANGED <<rpc, watcher>>
    \/ /\ s = "inline"
       /\ jwks' = "inline" /\ ipc' = "ok" /\ UNCHANGED <<rpc, watcher>>
    \/ /\ s = "file"
       /\ rpc' = "select" /\ watcher' = "starting" /\ ipc' = "send"
       /\ UNCHANGED jwks

\* Init(metadata): an empty property map is an error, then initJWKS.  The
\* request timeout it also parses plays no part in the file or inline paths.
InitCall(s) ==
    /\ ipc = "idle"
    /\ src' = s
    /\ \/ /\ s = "no_properties"
          /\ ipc' = "err" /\ UNCHANGED <<jwks, rpc, watcher>>
       \/ /\ s # "no_properties"
          /\ InitJWKS(s)
    /\ UNCHANGED <<file, pending, loaded, cancelled, lookup>>

\* `eventCh <- struct{}{}`: Init's own event, taken by the reload goroutine
\* when its select picks the eventCh case
InitSend ==
    /\ ipc = "send" /\ rpc = "select"
    /\ ipc' = "wait" /\ rpc' = "parse"
    /\ UNCHANGED <<src, jwks, file, watcher, pending, loaded, cancelled, lookup>>

\* `<-firstLoad; return nil`
InitReturn ==
    /\ ipc = "wait" /\ loaded
    /\ ipc' = "ok"
    /\ UNCHANGED <<src, jwks, file, rpc, watcher, pending, loaded, cancelled, lookup>>

\* The watcher goroutine: fswatcher.Watch sends a change event on eventCh,
\* taken when the reload goroutine is in its select
WatcherSend ==
    /\ watcher = "running" /\ pending /\ rpc = "select"
    /\ pending' = FALSE /\ rpc' = "parse"
    /\ UNCHANGED <<src, ipc, jwks, file, watcher, loaded, cancelled, lookup>>

\* fswatcher.Watch has registered the folder: from now on it reports changes
WatcherStart ==
    /\ watcher = "starting" /\ ~cancelled
    /\ watcher' = "running"
    /\ UNCHANGED <<src, ipc, jwks, file, rpc, pending, loaded, cancelled, lookup>>

\* fswatcher.Watch returns when k.ctx is cancelled; the goroutine ends
WatcherExit ==
    /\ watcher \in {"starting", "running"} /\ cancelled
    /\ watcher' = "exited" /\ pending' = FALSE
    /\ UNCHANGED <<src, ipc, jwks, file, rpc, loaded, cancelled, lookup>>

\* fswatcher.Watch returns an error of its own (the folder cannot be
\* watched, the watcher fails): the goroutine logs it and ends, and the
\* reload goroutine keeps waiting on eventCh
WatcherFail ==
    /\ watcher \in {"starting", "running"} /\ ~cancelled
    /\ watcher' = "exited" /\ pending' = FALSE
    /\ UNCHANGED <<src, ipc, jwks, file, rpc, loaded, cancelled, lookup>>

\* `case <-eventCh:` k.parseJWKSFile(md), storing the parsed set under
\* jwksLock; then `if firstLoad != nil { close(firstLoad) }`, whether or
\* not the file was read and parsed
ReloadOnEvent ==
    /\ rpc = "parse"
    /\ jwks' = ParseJWKSFile(file)
    /\ loaded' = TRUE
    /\ rpc' = "select"
    /\ UNCHANGED <<src, ipc, file, watcher, pending, cancelled, lookup>>

\* Mutant: `break` instead of `return` in the ctx.Done case leaves only the
\* select, and the goroutine waits on it again
ReloaderExitBreak ==
    /\ rpc = "select" /\ cancelled
    /\ UNCHANGED vars

\* `case <-k.ctx.Done(): return`
ReloaderExit ==
    /\ rpc = "select" /\ cancelled
    /\ rpc' = "exited"
    /\ UNCHANGED <<src, ipc, jwks, file, watcher, pending, loaded, cancelled, lookup>>

\* Close: `if k.cancel != nil { k.cancel() }`; the constructor always sets it
Close ==
    /\ ~cancelled
    /\ cancelled' = TRUE
    /\ UNCHANGED <<src, ipc, jwks, file, rpc, watcher, pending, loaded, lookup>>

\* retrieveKeyFromSecretFn: copy k.jwks under jwksLock, fail if it is nil,
\* else look the kid up in the copy
RetrieveKey ==
    /\ lookup' = IF jwks = NULL THEN [res |-> "ErrNoJWKS", set |-> NULL]
                                ELSE [res |-> "ok", set |-> jwks]
    /\ UNCHANGED <<src, ipc, jwks, file, rpc, watcher, pending, loaded, cancelled>>

\* The environment rewrites the file; a watcher that has registered the
\* folder reports the change, one that is starting or has ended does not
FileChange ==
    /\ \E f \in FileContents \ {file} : file' = f
    /\ pending' = (watcher = "running")
    /\ UNCHANGED <<src, ipc, jwks, rpc, watcher, loaded, cancelled, lookup>>

Next ==
    \/ \E s \in Sources : InitCall(s)
    \/ InitSend \/ InitReturn
    \/ WatcherStart \/ WatcherSend \/ WatcherExit \/ WatcherFail
    \/ ReloadOnEvent \/ ReloaderExit
    \/ Close \/ RetrieveKey \/ FileChange

\* Goroutines that can run are scheduled: Init's send and wait, both
\* goroutines' steps.  Close, lookups and file changes are up to the
\* caller, and a failure of the watcher may or may not happen.
Spec == Init /\ [][Next]_vars
        /\ WF_vars(InitSend) /\ WF_vars(InitReturn)
        /\ WF_vars(WatcherStart) /\ WF_vars(WatcherSend) /\ WF_vars(WatcherExit)
        /\ WF_vars(ReloadOnEvent) /\ WF_vars(ReloaderExit)

(***************************************************************************)
(* Properties                                                              *)
(***************************************************************************)

\* After Close, both goroutines that Init started for a file end: the
\* reload loop returns on ctx.Done and fswatcher.Watch returns on the
\* cancelled context, whatever event was pending.
GoroutinesEndAfterClose ==
    cancelled ~> (rpc \in {"none", "exited"} /\ watcher \in {"none", "exited"})

\* While the component runs, a file that holds a valid key set and is left
\* alone is eventually the set lookups see (initJWKS's comments: the file
\* is watched for changes and reloaded on every change).  A change made
\* before fswatcher.Watch has registered the folder, or after it returned
\* an error, reaches no reload.
JwksFollowsFile ==
    \A v \in Versions :
        (file = v /\ rpc # "none" /\ ~cancelled)
            ~> (jwks = v \/ file # v \/ cancelled)

\* Once Init returned nil, a key set is loaded: the comment on the send
\* says Init waits for the first reload, and retrieveKeyFromSecretFn
\* fails with "no JWKS loaded" otherwise.
LoadedAfterInit == ipc = "ok" => jwks # NULL

\* A JWKS given as an http(s) URL is accepted by Init (the branch that
\* builds the cached set exists for it).
InitAcceptsURL == src = "url" /\ ipc \in {"ok", "err"} => ipc = "ok"

\* Every Init call returns, also when Close is called while it waits for
\* the first reload.
InitReturns == ipc \in {"send", "wait"} ~> ipc \in {"ok", "err"}

=============================================================================
