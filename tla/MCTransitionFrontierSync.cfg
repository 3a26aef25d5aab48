\* A block that fails to apply (B2), a block we produce (A2) while our won
\* slot ranks between A1 and A2, and up to two requests per peer; the
\* kernel, the ledger service and the peers' answers are fair.
CONSTANTS
    G = G  A1 = A1  A2 = A2  B2 = B2  A3 = A3  P1 = P1  P2 = P2
    Blocks <- MCBlocks
    Peers <- MCPeers
    Genesis = G
    NoTip = NoTip
    NoPeer = NoPeer
    ChainOf <- MCChainOf
    Height <- MCHeight
    Rank <- MCRank
    NeedsNextEpoch = {A3}
    OwnBlocks = {A2}
    WonSlot = {2}
    BadBlocks = {B2}
    MaxPeerRequests = 2
SPECIFICATION FairSpec
INVARIANT TypeOK AppliedInChainOrder PendingFetchHasRequest
PROPERTY FrontierOnlyToAppliedChain SyncCompletes FrontierRefinement
\* The blocks run out: once synced to the best of them, or stuck on a block
\* that failed to apply until a better tip comes, the node waits for a new
\* best tip that this model does not supply.
CHECK_DEADLOCK FALSE
