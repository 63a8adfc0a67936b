\* Two callers, two hosts, one actor type, one actor
CONSTANTS
    c1 = c1  c2 = c2  c3 = c3
    h1 = h1  h2 = h2
    addr1 = addr1  addr2 = addr2
    t1 = t1  t2 = t2
    id1 = id1  id2 = id2
    NULL = NULL
    Callers <- MCCallers2
    HostIds <- MCHostIds
    Addrs <- MCAddrs
    ActorTypes <- MCActorTypes1
    ActorIds <- MCActorIds1
    MaxConns <- MCMaxConns


SPECIFICATION Spec

PROPERTY LookupReturnsOwner
