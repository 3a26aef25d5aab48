CONSTANTS
    NetEvents = {n1, n2, n3}
    RpcEvents = {r1}
    NonDet = {n3}
    IsReplay = TRUE
    CallEvents = {c1}
SPECIFICATION Spec
INVARIANT ReplayDropsNonDet
\* next_pending_event waits for ever once every bounded event is consumed.
CHECK_DEADLOCK FALSE
