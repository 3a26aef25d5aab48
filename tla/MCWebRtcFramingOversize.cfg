\* A message over the channel limit followed by more traffic: does the
\* on_message loop still finish every chunk?
CONSTANTS
    M1 = M1
    M2 = M2
    M3 = M3
    Msgs <- MCMsgsWithOversize
    Enc <- MCEnc
    MaxMsgSize = 2
    ChunkSize = 5
    MaxSends = 2
    SendMayFail = FALSE
SPECIFICATION Spec
PROPERTY ChunkConsumed
CHECK_DEADLOCK FALSE
