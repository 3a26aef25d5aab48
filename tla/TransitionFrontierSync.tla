------------------------ MODULE TransitionFrontierSync ------------------------
(* The transition frontier sync state machine of the node. Every sync      *)
(* action is an action here, guarded by its enabling condition from         *)
(* transition_frontier_sync_actions.rs; the state each one moves to follows *)
(* the sync state machine of the spec, since the reducers are not in the    *)
(* source tree. The kernel runs an action's child actions before the next   *)
(* event; here every action stands alone, so TLC explores at least every    *)
(* order the kernel can produce. Around it: peers that advertise best tips  *)
(* and answer block requests (or time out), the ledger service that applies *)
(* blocks one at a time and commits, and the ledger sync sub-machine, which *)
(* is reduced to its final success.                                         *)
EXTENDS Integers, Sequences, FiniteSets, SequencesExt

CONSTANTS
    Peers,          \* peers that can serve blocks
    Blocks,         \* block hashes; every block can be a best tip
    Genesis,        \* the genesis block, the frontier's first best tip
    NoTip,          \* no best tip (Option::None)
    NoPeer,
    ChainOf,        \* tip -> <<root, blocks in between, tip>>
    Height,         \* block -> blockchain length
    Rank,           \* block -> its place in the consensus order
    NeedsNextEpoch, \* tips whose next epoch ledger must be synced
    OwnBlocks,      \* blocks this node produced
    WonSlot,        \* {} or {rank of the block this node is producing}
    BadBlocks,      \* blocks the ledger service fails to apply
    MaxPeerRequests \* RPC requests a peer's channel accepts at once

VARIABLES
    phase,      \* TransitionFrontierSyncState variant
    target,     \* the sync best tip
    ledger,     \* the ledger sub-machine of a *LedgerPending phase
    chain,      \* BlocksPending chain: <<[hash, st, peer, rpc]>>
    frontier,   \* transition_frontier.best_tip()
    peer_tip,   \* best tip each peer advertises
    inflight,   \* block requests sent and not yet answered
    apply_req,  \* blocks sent to the ledger service for application
    commit_req, \* a commit was sent to the ledger service
    blacklist,  \* blocks that failed to apply
    ledger_applied \* blocks the ledger service has applied

vars == <<phase, target, ledger, chain, frontier, peer_tip, inflight,
          apply_req, commit_req, blacklist, ledger_applied>>

Phases == {"Idle", "Init", "StakingLedgerPending", "StakingLedgerSuccess",
           "NextEpochLedgerPending", "NextEpochLedgerSuccess",
           "RootLedgerPending", "RootLedgerSuccess", "BlocksPending",
           "BlocksSuccess", "CommitPending", "CommitSuccess", "Synced"}

BlockStates == {"Missing", "FetchPending", "FetchError", "FetchSuccess",
                "Fetched", "ApplyPending", "Applied", "ApplyError"}

RpcIds == 1..MaxPeerRequests

Root(t) == ChainOf[t][1]

(***************************************************************************)
(* Queries on the sync state (TransitionFrontierSyncState methods).        *)
(***************************************************************************)
IsPending == phase \notin {"Idle", "Synced"}
IsSynced == phase = "Synced"

SyncBestTip == IF phase \in {"Idle", "Synced"} THEN NoTip ELSE target

InBlocksPhase == phase = "BlocksPending"

\* The first chain position whose block is in state st, or 0 outside the
\* BlocksPending phase.
FirstIn(st) ==
    IF InBlocksPhase THEN SelectInSeq(chain, LAMBDA b : b.st = st) ELSE 0

\* blocks_fetch_next: the first block nobody fetches yet.
BlocksFetchNext == FirstIn("Missing")

\* Never retries a block whose fetch failed.
BlocksFetchRetryNextNone == 0

\* blocks_fetch_retry_iter().next(): the first block whose fetch failed.
BlocksFetchRetryNext == FirstIn("FetchError")

\* Applies whichever fetched block comes first, parent applied or not.
BlocksApplyNextAnyFetched == FirstIn("Fetched")

\* blocks_apply_next: the first block not applied, if it is fetched.
BlocksApplyNext ==
    LET i == SelectInSeq(chain, LAMBDA b : b.st # "Applied")
    IN  IF InBlocksPhase /\ i # 0 /\ chain[i].st = "Fetched" THEN i ELSE 0

\* blocks_apply_pending: the position of the block being applied, or 0.
BlocksApplyPending == FirstIn("ApplyPending")

\* is_fetch_pending_from_peer(peer, rpc_id) at position i.
IsFetchPendingFromPeer(i, p, r) ==
    chain[i].st = "FetchPending" /\ chain[i].peer = p /\ chain[i].rpc = r

(***************************************************************************)
(* Peers and consensus.                                                    *)
(***************************************************************************)
Requests(p) == {m \in inflight : m.peer = p}

\* get_ready_peer(p) whose best tip is the sync best tip and whose RPC
\* channel can_send_request.
PeerAvailable(p) ==
    /\ SyncBestTip # NoTip
    /\ peer_tip[p] = SyncBestTip
    /\ Cardinality(Requests(p)) < MaxPeerRequests

\* The candidates' best verified block: the best tip advertised.
Advertised == {peer_tip[p] : p \in Peers}
BestVerified == CHOOSE b \in Advertised : \A c \in Advertised : Rank[c] <= Rank[b]

\* consensus_take(tip, candidate), with the genesis special case.
ConsensusTake(tip, b) ==
    IF tip = Genesis THEN Height[b] > Height[tip] ELSE Rank[b] > Rank[tip]

\* Gives every request the first rpc id, whatever is in flight.
NextRpcIdFirst(p) == 1

\* The rpc id the peer's channel gives the next request: one no request of
\* that peer in flight holds (the code's counter never repeats an id; only
\* ids of requests still in flight can be compared with it).
NextRpcId(p) == Min(RpcIds \ {m.rpc : m \in Requests(p)})

\* A chain entry for block b: the root is applied, any other block missing.
NewEntry(b, isRoot) ==
    [hash |-> b, st |-> IF isRoot THEN "Applied" ELSE "Missing",
     peer |-> NoPeer, rpc |-> 0]

FreshChain(t) == [i \in 1..Len(ChainOf[t]) |-> NewEntry(ChainOf[t][i], i = 1)]

\* Reuses the old chain's entries by position rather than by hash.
RechainByPosition(t) ==
    [i \in 1..Len(ChainOf[t]) |->
        IF 1 < i /\ i <= Len(chain) THEN chain[i] ELSE NewEntry(ChainOf[t][i], i = 1)]

\* The chain of a new target over the same root keeps the state of every
\* block the old chain already had (fetches in flight, applied blocks).
Rechain(t) ==
    [i \in 1..Len(ChainOf[t]) |->
        LET b == ChainOf[t][i]
            old == {j \in 1..Len(chain) : chain[j].hash = b}
        IN  IF i > 1 /\ old # {} THEN chain[CHOOSE j \in old : TRUE]
            ELSE NewEntry(b, i = 1)]

SetSt(i, st) == chain' = [chain EXCEPT ![i].st = st]

(***************************************************************************)
(* Sync actions.                                                           *)
(***************************************************************************)
Init(t) ==
    /\ ~IsPending /\ ~IsSynced
    /\ frontier # t
    /\ t = BestVerified
    /\ phase' = "Init"
    /\ target' = t
    /\ UNCHANGED <<ledger, chain, frontier, peer_tip, inflight, apply_req,
                   commit_req, blacklist, ledger_applied>>

\* Compares a new best tip with the frontier's even while syncing.
TipToBeatFrontierFirst == frontier

\* The tip a new best tip must beat: the sync's, or else the frontier's.
TipToBeat == IF SyncBestTip # NoTip THEN SyncBestTip ELSE frontier

BestTipUpdateGuard(t) ==
    /\ IsPending \/ IsSynced
    /\ phase \notin {"CommitPending", "CommitSuccess"}
    /\ frontier # t
    /\ SyncBestTip # t
    /\ ConsensusTake(TipToBeat, t)
    /\ \A i \in 1..Len(ChainOf[t]) : ChainOf[t][i] \notin blacklist
    /\ t \notin OwnBlocks => \A w \in WonSlot : w < Rank[t]

\* A new target over the same root keeps the synced root ledger and the
\* blocks already fetched or applied; any other restarts the ledger sync.
BestTipUpdate(t) ==
    /\ t \in Advertised
    /\ BestTipUpdateGuard(t)
    /\ target' = t
    /\ IF phase \in {"RootLedgerSuccess", "BlocksPending", "BlocksSuccess", "Synced"}
          /\ Root(t) = Root(target)
       THEN IF phase = "RootLedgerSuccess"
            THEN UNCHANGED <<phase, chain>>
            ELSE phase' = "BlocksPending" /\ chain' = Rechain(t)
       ELSE phase' = "Init" /\ chain' = <<>>
    /\ UNCHANGED <<ledger, frontier, peer_tip, inflight, apply_req, commit_req,
                   blacklist, ledger_applied>>

LedgerPendingPhases == {"StakingLedgerPending", "NextEpochLedgerPending",
                        "RootLedgerPending"}

\* Move from phase `from' (with the ledger sub-machine in state `lst') to
\* phase `to', the ledger sub-machine starting afresh in a pending phase.
LedgerStep(from, lst, to) ==
    /\ phase \in from
    /\ phase \in LedgerPendingPhases => ledger = lst
    /\ phase' = to
    /\ ledger' = IF to \in LedgerPendingPhases THEN "pending" ELSE ledger
    /\ UNCHANGED <<target, chain, frontier, peer_tip, inflight, apply_req,
                   commit_req, blacklist, ledger_applied>>

LedgerStakingPending == LedgerStep({"Init"}, "", "StakingLedgerPending")

LedgerStakingSuccess ==
    LedgerStep({"StakingLedgerPending"}, "success", "StakingLedgerSuccess")

LedgerNextEpochPending ==
    /\ target \in NeedsNextEpoch
    /\ LedgerStep({"Init", "StakingLedgerSuccess"}, "", "NextEpochLedgerPending")

LedgerNextEpochSuccess ==
    LedgerStep({"NextEpochLedgerPending"}, "success", "NextEpochLedgerSuccess")

LedgerRootPending ==
    \/ /\ target \notin NeedsNextEpoch
       /\ LedgerStep({"Init", "StakingLedgerSuccess"}, "", "RootLedgerPending")
    \/ LedgerStep({"NextEpochLedgerSuccess"}, "", "RootLedgerPending")

LedgerRootSuccess ==
    LedgerStep({"RootLedgerPending"}, "success", "RootLedgerSuccess")

\* The ledger sync sub-machine (TransitionFrontierSyncLedgerAction) reaches
\* its Success state.
LedgerSyncSuccess ==
    /\ phase \in LedgerPendingPhases
    /\ ledger = "pending"
    /\ ledger' = "success"
    /\ UNCHANGED <<phase, target, chain, frontier, peer_tip, inflight, apply_req,
                   commit_req, blacklist, ledger_applied>>

BlocksPending ==
    /\ phase = "RootLedgerSuccess"
    /\ phase' = "BlocksPending"
    /\ chain' = FreshChain(target)
    /\ UNCHANGED <<target, ledger, frontier, peer_tip, inflight, apply_req,
                   commit_req, blacklist, ledger_applied>>

\* BlocksPeerQueryPending: the block at position i is now fetched from p
\* under the request's rpc id, and the request is on its way.
FetchFromPeer(i, p) ==
    LET r == NextRpcId(p)
    IN  /\ chain' = [chain EXCEPT ![i].st = "FetchPending", ![i].peer = p,
                                  ![i].rpc = r]
        /\ inflight' = inflight \cup {[peer |-> p, rpc |-> r, hash |-> chain[i].hash]}

\* BlocksPeersQuery with BlocksPeerQueryInit: the next missing block is
\* requested from a peer whose best tip is the sync target.
BlocksPeerQueryInit(p) ==
    /\ BlocksFetchNext # 0
    /\ PeerAvailable(p)
    /\ FetchFromPeer(BlocksFetchNext, p)
    /\ UNCHANGED <<phase, target, ledger, frontier, peer_tip, apply_req,
                   commit_req, blacklist, ledger_applied>>

\* BlocksPeersQuery with BlocksPeerQueryRetry: a block whose fetch failed is
\* requested again.
BlocksPeerQueryRetry(p) ==
    /\ BlocksFetchRetryNext # 0
    /\ PeerAvailable(p)
    /\ FetchFromPeer(BlocksFetchRetryNext, p)
    /\ UNCHANGED <<phase, target, ledger, frontier, peer_tip, apply_req,
                   commit_req, blacklist, ledger_applied>>

\* The positions whose block waits for the answer to request m.
Awaiting(m) == {i \in 1..Len(chain) : IsFetchPendingFromPeer(i, m.peer, m.rpc)}

\* The peer answers request m with the block asked for. The kernel takes
\* BlocksPeerQuerySuccess only if that block still waits for this answer,
\* and drops it otherwise (a stale answer).
BlocksPeerQuerySuccess(m) ==
    /\ m \in inflight
    /\ inflight' = inflight \ {m}
    /\ LET ok == {i \in Awaiting(m) : chain[i].hash = m.hash}
       IN  IF ok # {} THEN SetSt(CHOOSE i \in ok : TRUE, "FetchSuccess")
           ELSE UNCHANGED chain
    /\ UNCHANGED <<phase, target, ledger, frontier, peer_tip, apply_req,
                   commit_req, blacklist, ledger_applied>>

\* Request m fails (timeout found by CheckTimeouts, peer error); the kernel
\* takes BlocksPeerQueryError if some block waits for it, else drops it.
BlocksPeerQueryError(m) ==
    /\ m \in inflight
    /\ inflight' = inflight \ {m}
    /\ IF Awaiting(m) # {} THEN SetSt(CHOOSE i \in Awaiting(m) : TRUE, "FetchError")
       ELSE UNCHANGED chain
    /\ UNCHANGED <<phase, target, ledger, frontier, peer_tip, apply_req,
                   commit_req, blacklist, ledger_applied>>

BlocksFetchSuccess(i) ==
    /\ InBlocksPhase
    /\ chain[i].st = "FetchSuccess"
    /\ SetSt(i, "Fetched")
    /\ UNCHANGED <<phase, target, ledger, frontier, peer_tip, inflight,
                   apply_req, commit_req, blacklist, ledger_applied>>

\* BlocksNextApplyInit with BlocksNextApplyPending: the next block in chain
\* order goes to the ledger service.
BlocksNextApplyInit ==
    /\ BlocksApplyNext # 0
    /\ SetSt(BlocksApplyNext, "ApplyPending")
    /\ apply_req' = apply_req \cup {chain[BlocksApplyNext].hash}
    /\ UNCHANGED <<phase, target, ledger, frontier, peer_tip, inflight,
                   commit_req, blacklist, ledger_applied>>

\* The ledger service applies block b (or fails on a bad one) and answers
\* with BlocksNextApplySuccess or BlocksNextApplyError, which the kernel
\* takes only if b is the block being applied; taking the error
\* blacklists b.
LedgerApplyDone(b) ==
    /\ b \in apply_req
    /\ apply_req' = apply_req \ {b}
    /\ LET i == BlocksApplyPending
           current == i # 0 /\ chain[i].hash = b
       IN  IF b \in BadBlocks
           THEN /\ IF current THEN SetSt(i, "ApplyError") /\ blacklist' = blacklist \cup {b}
                   ELSE UNCHANGED <<chain, blacklist>>
                /\ UNCHANGED ledger_applied
           ELSE /\ IF current THEN SetSt(i, "Applied") ELSE UNCHANGED chain
                /\ ledger_applied' = ledger_applied \cup {b}
                /\ UNCHANGED blacklist
    /\ UNCHANGED <<phase, target, ledger, frontier, peer_tip, inflight,
                   commit_req>>

\* Marks the sync done when any one block of the chain is applied.
BlocksSuccessAny ==
    \E i \in 1..Len(chain) : chain[i].st = "Applied"

\* The enabling condition of BlocksSuccess: every block of the chain applied.
BlocksAllApplied ==
    \A i \in 1..Len(chain) : chain[i].st = "Applied"

BlocksSuccess ==
    /\ phase = "BlocksPending"
    /\ BlocksAllApplied
    /\ phase' = "BlocksSuccess"
    /\ UNCHANGED <<target, ledger, chain, frontier, peer_tip, inflight,
                   apply_req, commit_req, blacklist, ledger_applied>>

\* CommitInit with CommitPending: the commit goes to the ledger service.
CommitInit ==
    /\ phase = "BlocksSuccess"
    /\ phase' = "CommitPending"
    /\ commit_req' = TRUE
    /\ UNCHANGED <<target, ledger, chain, frontier, peer_tip, inflight,
                   apply_req, blacklist, ledger_applied>>

\* The ledger service has committed; CommitSuccess.
CommitSuccess ==
    /\ commit_req
    /\ phase = "CommitPending"
    /\ phase' = "CommitSuccess"
    /\ commit_req' = FALSE
    /\ UNCHANGED <<target, ledger, chain, frontier, peer_tip, inflight,
                   apply_req, blacklist, ledger_applied>>

\* TransitionFrontierAction::Synced: the frontier takes the synced chain.
Synced ==
    /\ phase = "CommitSuccess"
    /\ phase' = "Synced"
    /\ frontier' = target
    /\ UNCHANGED <<target, ledger, chain, peer_tip, inflight, apply_req,
                   commit_req, blacklist, ledger_applied>>

(***************************************************************************)
(* Environment: a peer advertises a better best tip.                       *)
(***************************************************************************)
PeerBestTip(p, t) ==
    /\ Rank[t] > Rank[peer_tip[p]]
    /\ peer_tip' = [peer_tip EXCEPT ![p] = t]
    /\ UNCHANGED <<phase, target, ledger, chain, frontier, inflight, apply_req,
                   commit_req, blacklist, ledger_applied>>

(***************************************************************************)
(* Specification.                                                          *)
(***************************************************************************)
SyncInit ==
    /\ phase = "Idle"
    /\ target = NoTip
    /\ ledger = "success"
    /\ chain = <<>>
    /\ frontier = Genesis
    /\ peer_tip = [p \in Peers |-> Genesis]
    /\ inflight = {}
    /\ apply_req = {}
    /\ commit_req = FALSE
    /\ blacklist = {}
    /\ ledger_applied = {}

KernelStep ==
    \/ \E t \in Blocks : Init(t) \/ BestTipUpdate(t)
    \/ LedgerStakingPending \/ LedgerStakingSuccess
    \/ LedgerNextEpochPending \/ LedgerNextEpochSuccess
    \/ LedgerRootPending \/ LedgerRootSuccess
    \/ BlocksPending
    \/ \E p \in Peers : BlocksPeerQueryInit(p) \/ BlocksPeerQueryRetry(p)
    \/ \E i \in 1..Len(chain) : BlocksFetchSuccess(i)
    \/ BlocksNextApplyInit \/ BlocksSuccess \/ CommitInit \/ Synced

ServiceStep ==
    \/ LedgerSyncSuccess
    \/ \E m \in inflight : BlocksPeerQuerySuccess(m) \/ BlocksPeerQueryError(m)
    \/ \E b \in apply_req : LedgerApplyDone(b)
    \/ CommitSuccess

Next ==
    \/ KernelStep
    \/ ServiceStep
    \/ \E p \in Peers, t \in Blocks : PeerBestTip(p, t)

Spec == SyncInit /\ [][Next]_vars

\* The kernel takes every action its effects dispatch while it is enabled;
\* the ledger service answers every request; a request to a peer ends in an
\* answer or an error (CheckTimeouts), and a peer serving the blocks answers
\* some request now and then (the live peer of spec 8.1.7).
Fairness ==
    /\ \A t \in Blocks : WF_vars(Init(t)) /\ WF_vars(BestTipUpdate(t))
    /\ WF_vars(LedgerStakingPending) /\ WF_vars(LedgerStakingSuccess)
    /\ WF_vars(LedgerNextEpochPending) /\ WF_vars(LedgerNextEpochSuccess)
    /\ WF_vars(LedgerRootPending) /\ WF_vars(LedgerRootSuccess)
    /\ WF_vars(BlocksPending)
    /\ WF_vars(\E p \in Peers : BlocksPeerQueryInit(p))
    /\ WF_vars(\E p \in Peers : BlocksPeerQueryRetry(p))
    /\ WF_vars(\E i \in 1..Len(chain) : BlocksFetchSuccess(i))
    /\ WF_vars(BlocksNextApplyInit) /\ WF_vars(BlocksSuccess)
    /\ WF_vars(CommitInit) /\ WF_vars(Synced)
    /\ WF_vars(LedgerSyncSuccess)
    /\ WF_vars(\E b \in apply_req : LedgerApplyDone(b))
    /\ WF_vars(CommitSuccess)
    /\ WF_vars(\E m \in inflight : BlocksPeerQuerySuccess(m) \/ BlocksPeerQueryError(m))
    /\ SF_vars(\E m \in inflight : BlocksPeerQuerySuccess(m))

FairSpec == Spec /\ Fairness

(***************************************************************************)
(* Properties.                                                             *)
(***************************************************************************)
Entries == [hash : Blocks, st : BlockStates, peer : Peers \cup {NoPeer},
            rpc : RpcIds \cup {0}]
RequestRecords == [peer : Peers, rpc : RpcIds, hash : Blocks]

\* Types, and the BlocksPending chain is the chain of the sync target, block
\* for block, whenever there is one (BestTipUpdate rebuilds it by hash).
TypeOK ==
    /\ phase \in Phases
    /\ target \in Blocks \cup {NoTip}
    /\ ledger \in {"pending", "success"}
    /\ chain \in Seq(Entries)
    /\ frontier \in Blocks
    /\ peer_tip \in [Peers -> Blocks]
    /\ inflight \subseteq RequestRecords
    /\ apply_req \subseteq Blocks
    /\ commit_req \in BOOLEAN
    /\ blacklist \subseteq Blocks /\ ledger_applied \subseteq Blocks
    /\ phase \in {"BlocksPending", "BlocksSuccess", "CommitPending",
                  "CommitSuccess", "Synced"}
       => /\ Len(chain) = Len(ChainOf[target])
          /\ \A i \in 1..Len(chain) : chain[i].hash = ChainOf[target][i]

\* Blocks are applied in chain order: a block is being applied, or has been,
\* only when its parent in the chain has been applied. A stale apply result
\* or a new target reusing the old chain must not break this.
AppliedInChainOrder ==
    \A i \in 2..Len(chain) :
        chain[i].st \in {"ApplyPending", "Applied"} => chain[i - 1].st = "Applied"

\* A block waiting for a peer's answer has its request in flight: no answer
\* or error meant for another request (another block, or the same peer's
\* other rpc id) has consumed it.
PendingFetchHasRequest ==
    \A i \in 1..Len(chain) :
        chain[i].st = "FetchPending"
            => [peer |-> chain[i].peer, rpc |-> chain[i].rpc, hash |-> chain[i].hash]
                \in inflight

\* The frontier moves only to the sync target, and only once the ledger
\* service has applied every block of the target's chain above its root.
FrontierOnlyToAppliedChain ==
    [][frontier' # frontier =>
         /\ frontier' = target
         /\ \A i \in 2..Len(ChainOf[target]) : ChainOf[target][i] \in ledger_applied]_vars

\* A tip the sync can reach: no block of its chain fails to apply, and it
\* is this node's own block or beats the slot this node is producing.
Syncable(t) ==
    /\ ToSet(ChainOf[t]) \cap BadBlocks = {}
    /\ t \notin OwnBlocks => \A w \in WonSlot : w < Rank[t]

\* With peers serving the blocks, the frontier eventually reaches the best
\* tip the peers advertise and stays there (spec 8.1.7), whenever that tip
\* can be reached: a sync stalled on a blacklisted block resumes once a
\* better tip that avoids it is advertised.
SyncCompletes == <>[](Syncable(BestVerified) => frontier = BestVerified)

\* The sync implements FrontierTarget: targets only improve in the consensus
\* order, and the frontier moves only to the target, which it eventually
\* reaches.
Abstract == INSTANCE FrontierTarget
    WITH Tips <- Blocks, target <- SyncBestTip,
         Better <- LAMBDA a, b : Rank[b] > Rank[a],
         Unreachable <- {t \in Blocks : ToSet(ChainOf[t]) \cap BadBlocks # {}}

FrontierRefinement == Abstract!Spec
=============================================================================
