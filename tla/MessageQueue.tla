---------------------------- MODULE MessageQueue ----------------------------
(***************************************************************************)
(* What the Azure Storage Queues input binding promises about a message,   *)
(* whatever readers, visibility timeouts and pop receipts do: it is        *)
(* enqueued, delivered to the handler any number of times, and removed     *)
(* from the queue either by its TTL or, as completed, only when the        *)
(* delivery made last was handled successfully.  QueueBinding implements   *)
(* it (see QueueBinding's refinement mapping).                             *)
(***************************************************************************)
CONSTANTS Msgs

VARIABLES
    state,   \* per message: "unsent", "queued", "done", "expired"
    ok       \* per message: the latest delivery was handled successfully

vars == <<state, ok>>

Init ==
    /\ state = [m \in Msgs |-> "unsent"]
    /\ ok = [m \in Msgs |-> FALSE]

Send(m) ==
    /\ state[m] = "unsent"
    /\ state' = [state EXCEPT ![m] = "queued"]
    /\ UNCHANGED ok

\* A new delivery: the handler has not handled it yet
Deliver(m) ==
    /\ state[m] = "queued"
    /\ ok' = [ok EXCEPT ![m] = FALSE]
    /\ UNCHANGED state

\* The handler returns success; it may do so after the message expired
Handled(m) ==
    /\ state[m] # "unsent"
    /\ ok' = [ok EXCEPT ![m] = TRUE]
    /\ UNCHANGED state

Complete(m) ==
    /\ state[m] = "queued" /\ ok[m]
    /\ state' = [state EXCEPT ![m] = "done"]
    /\ UNCHANGED ok

Expire(m) ==
    /\ state[m] = "queued"
    /\ state' = [state EXCEPT ![m] = "expired"]
    /\ UNCHANGED ok

Next == \E m \in Msgs :
    Send(m) \/ Deliver(m) \/ Handled(m) \/ Complete(m) \/ Expire(m)

Spec == Init /\ [][Next]_vars

=============================================================================
