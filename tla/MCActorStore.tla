---------------------------- MODULE MCActorStore ----------------------------
(* Model values for checking ActorStore with TLC.                          *)
EXTENDS ActorStore

CONSTANTS c1, c2, c3, h1, h2, addr1, addr2, t1, t2, id1, id2

MCCallers1 == {c1}
MCCallers2 == {c1, c2}
MCCallers3 == {c1, c2, c3}
MCHostIds == {h1, h2}
MCAddrs == {addr1, addr2}
MCActorTypes1 == {t1}
MCActorTypes2 == {t1, t2}
MCActorIds1 == {id1}
MCActorIds2 == {id1, id2}
\* As many pool connections as callers: each caller can hold one
MCMaxConns == 2

=============================================================================
