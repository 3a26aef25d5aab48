--------------------- MODULE MCTransitionFrontierSync ---------------------
(* Five blocks: genesis G; A1 on G; two competing blocks A2 and B2 on A1  *)
(* (B2 wins the consensus tie-break); A3 on A2, whose chain starts at A1   *)
(* (k = 2), so a target of A3 has another root and restarts the ledger    *)
(* sync. Two peers.                                                        *)
EXTENDS TransitionFrontierSync

CONSTANTS G, A1, A2, B2, A3, P1, P2

MCBlocks == {G, A1, A2, B2, A3}
MCPeers == {P1, P2}

MCChainOf ==
    (G :> <<G>>) @@ (A1 :> <<G, A1>>) @@ (A2 :> <<G, A1, A2>>)
    @@ (B2 :> <<G, A1, B2>>) @@ (A3 :> <<A1, A2, A3>>)

MCHeight == (G :> 1) @@ (A1 :> 2) @@ (A2 :> 3) @@ (B2 :> 3) @@ (A3 :> 4)

MCRank == (G :> 0) @@ (A1 :> 1) @@ (A2 :> 2) @@ (B2 :> 3) @@ (A3 :> 4)
=============================================================================
