\* One peer, outgoing or incoming, and up to four commands from the service.
\* The task may stop for good (waiting for a command or a callback that
\* never comes), so deadlock is not an error.
CONSTANTS MaxCmds = 4
SPECIFICATION Spec
INVARIANT  EventOrder
PROPERTY ClosedAfterEnd PermitReleasedAfterDisconnect
CHECK_DEADLOCK FALSE
