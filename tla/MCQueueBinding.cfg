\* Two messages, one of them undecodable, and two readers competing for them.
\* Each message can be dequeued twice, so a redelivery after a failed handler,
\* a failed delete or an expired visibility timeout happens.
CONSTANTS
    m1 = m1
    m2 = m2
    r1 = r1
    r2 = r2
    NULL = NULL
    Msgs <- MCMsgs
    Undecodable <- MCUndecodable
    Readers <- MCReaders
    MaxPops <- MCMaxPops
SPECIFICATION Spec
PROPERTY ReadersStopAfterCancel
PROPERTY ImplementsMessageQueue
\* After cancellation every reader ends and the process may stop
CHECK_DEADLOCK FALSE
