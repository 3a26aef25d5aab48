\* Is Closed the last event the node hears about a peer?
CONSTANTS MaxCmds = 4
SPECIFICATION Spec
INVARIANT ClosedIsLast
CHECK_DEADLOCK FALSE
