CONSTANTS
    A = A
    B = B
    C = C
    Pks <- MCPks
    Absent = Absent
    NoPk = NoPk
    AccountCreationFee = 1
    MaxAmount = 4
    Fees = {0, 1}
    Amounts = {1, 2}
    CoinbaseAmounts = {1, 3}
    Nonces = {0, 1}
    ValidUntils = {1}
    Slots = {0, 1, 2}
    Tokens = {DefaultToken, CustomToken}
    DefaultToken = DefaultToken
    CustomToken = CustomToken
    InitLedgers <- MCInitLedgers
    MaxTxns = 2

SPECIFICATION Spec

INVARIANT TypeOK
INVARIANT SupplyConservation
INVARIANT VestingHonoured
PROPERTY FailedCommandChargesOnlyFee
PROPERTY TimingNeverFailsCommand
PROPERTY AccessedCoversChanges
PROPERTY FailureRowsMatchBurn

CHECK_DEADLOCK FALSE
