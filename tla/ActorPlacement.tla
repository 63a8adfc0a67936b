--------------------------- MODULE ActorPlacement ---------------------------
(***************************************************************************)
(* What the actor placement store promises about its committed state       *)
(* (spec 3 and 4.1), whatever concurrent calls, retries and failures do:   *)
(* a host ID is registered once and never reused; a registered host       *)
(* declares a set of actor types; an actor is placed on a registered host *)
(* only while it is not placed, stays there until it is removed, and is    *)
(* removed with its host when the host is deregistered.  ActorStore        *)
(* implements it (see its refinement mapping).                             *)
(***************************************************************************)
CONSTANTS HostIds, ActorTypes, Actors, NULL

VARIABLES
    hosts,      \* the registered host IDs
    types,      \* per host ID: the actor types it declares
    placement,  \* per actor: the host it is placed on, or NULL
    used        \* the host IDs registered at some point

vars == <<hosts, types, placement, used>>

Init ==
    /\ hosts = {}
    /\ types = [h \in HostIds |-> {}]
    /\ placement = [a \in Actors |-> NULL]
    /\ used = {}

Register(h, ts) ==
    /\ h \notin used
    /\ hosts' = hosts \cup {h}
    /\ types' = [types EXCEPT ![h] = ts]
    /\ used' = used \cup {h}
    /\ UNCHANGED placement

\* A registered host changes the actor types it declares
SetTypes(h, ts) ==
    /\ h \in hosts
    /\ types' = [types EXCEPT ![h] = ts]
    /\ UNCHANGED <<hosts, placement, used>>

\* Deregistration takes the host's types and placements with it, at once
Deregister(h) ==
    /\ h \in hosts
    /\ hosts' = hosts \ {h}
    /\ types' = [types EXCEPT ![h] = {}]
    /\ placement' = [a \in Actors |-> IF placement[a] = h THEN NULL ELSE placement[a]]
    /\ UNCHANGED used

Place(a, h) ==
    /\ placement[a] = NULL /\ h \in hosts
    /\ placement' = [placement EXCEPT ![a] = h]
    /\ UNCHANGED <<hosts, types, used>>

Unplace(a) ==
    /\ placement[a] # NULL
    /\ placement' = [placement EXCEPT ![a] = NULL]
    /\ UNCHANGED <<hosts, types, used>>

Next ==
    \/ \E h \in HostIds, ts \in SUBSET ActorTypes : Register(h, ts) \/ SetTypes(h, ts)
    \/ \E h \in HostIds : Deregister(h)
    \/ \E a \in Actors : Unplace(a) \/ \E h \in HostIds : Place(a, h)

Spec == Init /\ [][Next]_vars

=============================================================================
