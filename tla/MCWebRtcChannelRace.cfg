\* Does the peer loop forget a data channel that closes, whatever order its
\* callbacks fire in?
CONSTANTS
    M1 = M1
    M2 = M2
    M3 = M3
    Msgs <- MCMsgsWithinLimit
    Enc <- MCEnc
    MaxMsgSize = 2
    ChunkSize = 5
    MaxSends = 1
    SendMayFail = FALSE
SPECIFICATION Spec
PROPERTY ClosedChannelForgotten
CHECK_DEADLOCK FALSE
