--------------------------- MODULE MCQueueBinding ---------------------------
EXTENDS QueueBinding

CONSTANTS m1, m2, r1, r2

MCMsgs == {m1, m2}
MCUndecodable == {m2}
MCReaders == {r1, r2}
MCMaxPops == 2
=============================================================================
