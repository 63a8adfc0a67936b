---------------------------- MODULE QueueBinding ----------------------------
(***************************************************************************)
(* The Azure Storage Queues binding                                        *)
(* (src/bindings/azure/storagequeues/storagequeues.go) against the queue  *)
(* service it talks to.  Init parses the metadata and creates the queue;  *)
(* the runtime calls Invoke and Read only after it succeeded.  Invoke     *)
(* enqueues a message (AzureQueueHelper.Write).                           *)
(* Each Read call starts a goroutine that loops `for ctx.Err() == nil` on  *)
(* AzureQueueHelper.Read: dequeue one message, making it invisible for     *)
(* 30s under a new pop receipt; decode it; call the handler; delete it     *)
(* with the pop receipt.  Any error returns to the loop, and the message   *)
(* becomes visible again when its visibility timeout passes.  Messages are *)
(* model values; their text is abstracted to whether it is base64, which   *)
(* matters only when the decodeBase64 property is set.  The process that *)
(* runs the binding may die and start again (Restart): the queue service   *)
(* keeps the messages, the new process must call Init and Read again.     *)
(***************************************************************************)
EXTENDS Naturals

CONSTANTS
    Msgs,         \* messages the output binding may enqueue
    Undecodable,  \* messages whose text is not base64
    Readers,      \* goroutines started by Read (one per Read call)
    MaxPops,      \* bound on the dequeues of one message
    NULL

ASSUME Undecodable \subseteq Msgs /\ MaxPops \in Nat \ {0} /\ NULL \notin Msgs

VARIABLES
    queue,      \* per message: "unsent", "visible", "invisible", "deleted", "expired"
    pops,       \* per message: dequeues so far; the current pop receipt
    handled,    \* per message: the pop receipts whose handler call succeeded
    inited,     \* Init returned nil
    decodeBase64, \* the decodeBase64 metadata property (AzureQueueHelper.decodeBase64)
    rpc,        \* per reader: "unstarted", "loop", "handle", "delete", "stopped"
    rmsg,       \* per reader: res.Message(0), the message it holds
    receipt,    \* per reader: res.Message(0).PopReceipt
    cancelled   \* ctx.Err() != nil for the context given to Read

vars == <<queue, pops, handled, inited, decodeBase64, rpc, rmsg, receipt, cancelled>>
binding == <<inited, decodeBase64>>

\* NewAzureStorageQueues: a binding not yet initialised; no reader runs.
\* The component's metadata sets decodeBase64 or not.
Init ==
    /\ queue = [m \in Msgs |-> "unsent"]
    /\ pops = [m \in Msgs |-> 0]
    /\ handled = [m \in Msgs |-> {}]
    /\ inited = FALSE
    /\ decodeBase64 \in BOOLEAN
    /\ rpc = [r \in Readers |-> "unstarted"]
    /\ rmsg = [r \in Readers |-> NULL]
    /\ receipt = [r \in Readers |-> 0]
    /\ cancelled = FALSE

\* The reader goes back to the top of the loop, dropping the message
BackToLoop(r) == /\ rpc' = [rpc EXCEPT ![r] = "loop"]
                 /\ rmsg' = [rmsg EXCEPT ![r] = NULL]
                 /\ receipt' = [receipt EXCEPT ![r] = 0]

\* A message the reader cannot decode: base64 decoding is on and its text
\* is not base64
Undecodes(m) == decodeBase64 /\ m \in Undecodable

\* AzureQueueHelper.Init: the shared key credential, the queue URL
\* (getEndpoint) and queueURL.Create; it keeps decodeBase64
HelperInit == inited' = TRUE

\* AzureStorageQueues.Init: parseMetadata (WeakDecode and the ttl
\* property), decodeBase64 = utils.IsTruthy(DecodeBase64), then
\* helper.Init.  A failure of any of them changes nothing the model keeps:
\* the binding stays unusable.
BindingInit ==
    /\ ~inited
    /\ HelperInit
    /\ UNCHANGED <<queue, pops, handled, decodeBase64, rpc, rmsg, receipt, cancelled>>

\* AzureQueueHelper.Write: strconv.Unquote of the data (or the data as it
\* is), the ttl or defaultTTL, then `messagesURL.Enqueue(ctx, s, 0, *ttl)`:
\* the message is visible at once.  The TTL only bounds when Expire fires.
Write(m) ==
    /\ queue[m] = "unsent"
    /\ queue' = [queue EXCEPT ![m] = "visible"]

\* AzureStorageQueues.Invoke: the request's ttlInSeconds, else the
\* binding's, then Write.  A bad ttl or a failed Enqueue changes nothing.
Invoke(m) ==
    /\ inited
    /\ Write(m)
    /\ UNCHANGED <<pops, handled, binding, rpc, rmsg, receipt, cancelled>>

\* AzureStorageQueues.Read: starts the reading goroutine and returns nil
Read(r) ==
    /\ inited /\ rpc[r] = "unstarted"
    /\ rpc' = [rpc EXCEPT ![r] = "loop"]
    /\ UNCHANGED <<queue, pops, handled, binding, rmsg, receipt, cancelled>>

\* Mutant: the loop is `for {}`, the context is never looked at
ReadLoopNoCtx(r) ==
    /\ rpc[r] = "loop"
    /\ \E m \in Msgs :
        /\ queue[m] = "visible" /\ pops[m] < MaxPops
        /\ queue' = [queue EXCEPT ![m] = "invisible"]
        /\ pops' = [pops EXCEPT ![m] = @ + 1]
        /\ rpc' = [rpc EXCEPT ![r] = "handle"]
        /\ rmsg' = [rmsg EXCEPT ![r] = m]
        /\ receipt' = [receipt EXCEPT ![r] = pops[m] + 1]
    /\ UNCHANGED <<handled, binding, cancelled>>

\* `for ctx.Err() == nil`, then `messagesURL.Dequeue(ctx, 1, 30s)`.  A
\* cancelled context ends the goroutine (Dequeue fails with it, and the loop
\* test fails next).  An empty queue (sleep 10s) or a Dequeue error changes
\* nothing.  A dequeued message is invisible under a fresh pop receipt.
ReadLoop(r) ==
    /\ rpc[r] = "loop"
    /\ \/ /\ cancelled
          /\ rpc' = [rpc EXCEPT ![r] = "stopped"]
          /\ UNCHANGED <<queue, pops, rmsg, receipt>>
       \/ /\ ~cancelled
          /\ \E m \in Msgs :
              /\ queue[m] = "visible" /\ pops[m] < MaxPops
              /\ queue' = [queue EXCEPT ![m] = "invisible"]
              /\ pops' = [pops EXCEPT ![m] = @ + 1]
              /\ rpc' = [rpc EXCEPT ![r] = "handle"]
              /\ rmsg' = [rmsg EXCEPT ![r] = m]
              /\ receipt' = [receipt EXCEPT ![r] = pops[m] + 1]
    /\ UNCHANGED <<handled, binding, cancelled>>

\* Mutant: the error of consumer.callback is not checked
HandleIgnoreError(r) ==
    /\ rpc[r] = "handle"
    /\ \/ /\ Undecodes(rmsg[r])
          /\ BackToLoop(r)
          /\ UNCHANGED handled
       \/ /\ ~Undecodes(rmsg[r])
          /\ \/ handled' = [handled EXCEPT ![rmsg[r]] = @ \cup {receipt[r]}]
             \/ UNCHANGED handled
          /\ rpc' = [rpc EXCEPT ![r] = "delete"]
          /\ UNCHANGED <<rmsg, receipt>>
    /\ UNCHANGED <<queue, pops, binding, cancelled>>

\* base64.StdEncoding.DecodeString(mt) when decodeBase64: an error returns
\* to the loop.  Then consumer.callback(ctx, ...): an error returns to the
\* loop, success goes on to the delete.
Handle(r) ==
    /\ rpc[r] = "handle"
    /\ \/ /\ Undecodes(rmsg[r])
          /\ BackToLoop(r)
          /\ UNCHANGED handled
       \/ /\ ~Undecodes(rmsg[r])
          /\ handled' = [handled EXCEPT ![rmsg[r]] = @ \cup {receipt[r]}]
          /\ rpc' = [rpc EXCEPT ![r] = "delete"]
          /\ UNCHANGED <<rmsg, receipt>>
       \/ /\ ~Undecodes(rmsg[r])
          /\ BackToLoop(r)
          /\ UNCHANGED handled
    /\ UNCHANGED <<queue, pops, binding, cancelled>>

\* Mutant: the message is deleted whatever pop receipt the reader holds
DeleteAnyReceipt(r) ==
    /\ rpc[r] = "delete"
    /\ LET m == rmsg[r] IN
       \/ /\ queue[m] = "invisible"
          /\ queue' = [queue EXCEPT ![m] = "deleted"]
       \/ UNCHANGED queue
    /\ BackToLoop(r)
    /\ UNCHANGED <<pops, handled, binding, cancelled>>

\* `messageIDURL.Delete(ctx, pr)`: the service deletes the message only
\* while pr is its current pop receipt; a stale receipt (the message was
\* dequeued again), an expired message or another error fails.  Either way
\* the reader is back at the top of the loop.
Delete(r) ==
    /\ rpc[r] = "delete"
    /\ LET m == rmsg[r] IN
       \/ /\ queue[m] = "invisible" /\ pops[m] = receipt[r]
          /\ queue' = [queue EXCEPT ![m] = "deleted"]
       \/ UNCHANGED queue
    /\ BackToLoop(r)
    /\ UNCHANGED <<pops, handled, binding, cancelled>>

\* The service: 30s after a dequeue the message is visible again
VisibilityTimeout(m) ==
    /\ queue[m] = "invisible"
    /\ queue' = [queue EXCEPT ![m] = "visible"]
    /\ UNCHANGED <<pops, handled, binding, rpc, rmsg, receipt, cancelled>>

\* The service: the message's TTL (defaultTTL or the ttlInSeconds given)
\* passes and it is removed, handled or not
Expire(m) ==
    /\ queue[m] \in {"visible", "invisible"}
    /\ queue' = [queue EXCEPT ![m] = "expired"]
    /\ UNCHANGED <<pops, handled, binding, rpc, rmsg, receipt, cancelled>>

\* The context given to Read is cancelled (the binding shuts down)
Cancel ==
    /\ ~cancelled
    /\ cancelled' = TRUE
    /\ UNCHANGED <<queue, pops, handled, binding, rpc, rmsg, receipt>>

\* The process running the binding dies and a new one starts with the same
\* metadata: the reader goroutines and the messages and receipts they held
\* are gone, the new binding is not initialised and its context is fresh.
\* The service keeps every message; one a reader held stays invisible until
\* its visibility timeout, even when the handler already succeeded on it.
Restart ==
    /\ inited
    /\ inited' = FALSE
    /\ rpc' = [r \in Readers |-> "unstarted"]
    /\ rmsg' = [r \in Readers |-> NULL]
    /\ receipt' = [r \in Readers |-> 0]
    /\ cancelled' = FALSE
    /\ UNCHANGED <<queue, pops, handled, decodeBase64>>

ReaderStep(r) == ReadLoop(r) \/ Handle(r) \/ Delete(r)

Next ==
    \/ BindingInit
    \/ \E m \in Msgs : Invoke(m) \/ VisibilityTimeout(m) \/ Expire(m)
    \/ \E r \in Readers : Read(r) \/ ReaderStep(r)
    \/ Cancel
    \/ Restart

\* The reader goroutines run on their own; the service's visibility timer
\* fires.  Init, Read and Invoke calls, expiry, cancellation and restarts
\* are up to the runtime and the environment.
Spec == Init /\ [][Next]_vars
        /\ \A r \in Readers : WF_vars(ReaderStep(r))
        /\ \A m \in Msgs : WF_vars(VisibilityTimeout(m))

(***************************************************************************)
(* Refinement: the binding implements MessageQueue.  A message is queued  *)
(* while it is visible or invisible, done once deleted; its latest        *)
(* delivery was handled when the current pop receipt is among the handled *)
(* ones.                                                                   *)
(***************************************************************************)
AbstractState ==
    [m \in Msgs |-> CASE queue[m] = "unsent" -> "unsent"
                      [] queue[m] \in {"visible", "invisible"} -> "queued"
                      [] queue[m] = "deleted" -> "done"
                      [] queue[m] = "expired" -> "expired"]

MQ == INSTANCE MessageQueue WITH
        state <- AbstractState,
        ok <- [m \in Msgs |-> pops[m] \in handled[m]]

(***************************************************************************)
(* Properties                                                              *)
(***************************************************************************)

\* The binding keeps the queue's promise (MessageQueue): a message leaves
\* the queue by a delete only when the handler succeeded on the very
\* delivery whose pop receipt is current.  Read deletes only after
\* consumer.callback returned no error, and a delete under a receipt that
\* a later dequeue replaced must not remove the message, whatever other
\* readers, redeliveries and failed handlers did in between.  Every other
\* step is an enqueue, a new delivery, a successful handling, an expiry,
\* or no change to the message at all.
ImplementsMessageQueue == MQ!Spec

\* Once the context given to Read is cancelled, every reader goroutine ends:
\* the loop re-tests ctx.Err() after each helper Read, whatever it held.
ReadersStopAfterCancel ==
    cancelled ~> \A r \in Readers : rpc[r] \in {"unstarted", "stopped"}

=============================================================================
