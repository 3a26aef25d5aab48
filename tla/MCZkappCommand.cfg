CONSTANTS
    A = A  B = B  C = C  FP = FP  U1 = U1  U2 = U2  U3 = U3
    Absent = Absent
    Ids = {A, B, C}
    FeePayer = A
    FeePayerAU = FP
    MaxBalance = 3
    NoSlot = NoSlot
    MaxSlot = 3
    Commands <- MCCommands
    Ledgers <- MCLedgers
    StateView <- MCStateView
SPECIFICATION Spec
INVARIANT TypeOK TraversalOrder StatusTableAligned FailedCommandRollsBack OriginalStates FeePayerGuardsReplay HashesMatchReference PreconditionsSeePriorUpdates TxHashIgnoresAuthorization
CHECK_DEADLOCK FALSE
