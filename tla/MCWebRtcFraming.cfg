\* One channel, opened once, whose data channel may open, fail or close at
\* any point, and three sends of messages within the channel limit over a
\* channel whose sends succeed.  The system stops when everything is done.
CONSTANTS
    M1 = M1
    M2 = M2
    M3 = M3
    Msgs <- MCMsgsWithinLimit
    Enc <- MCEnc
    MaxMsgSize = 2
    ChunkSize = 5
    MaxSends = 3
    SendMayFail = FALSE
SPECIFICATION Spec
INVARIANT TypeOK ReceivedInOrder
PROPERTY AllDelivered OpenResultReported
CHECK_DEADLOCK FALSE
