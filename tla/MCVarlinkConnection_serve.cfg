\* Peers that pipeline and peers that wait for each reply.
SPECIFICATION FairConnSpec
CONSTANTS
    MaxMsg = 3
    Chunk = 2
    OutCap = 1
    SendBound = 7
INVARIANTS IdleMeansAnswered BufferBounded RefusalIsForOneCall
PROPERTIES ServesInOrder CallsAnswered
CHECK_DEADLOCK FALSE
