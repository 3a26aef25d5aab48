--------------------------- MODULE MCZkappCommand ---------------------------
(* Every zkApp command over accounts A (the fee payer, present), B        *)
(* (present) and C (absent), with a call forest of up to three account    *)
(* updates u1, u2, u3 in any shape (labelled in preorder), each with an   *)
(* account, a balance change of -1 or +1, and one update with one of four *)
(* preconditions; a fee the fee payer can or cannot pay.  The fee payer's *)
(* nonce is the account's and it has no valid_until, except in commands   *)
(* whose updates all accept, which may carry a nonce ahead of the        *)
(* account's or a valid_until at or before the view's slot.              *)
EXTENDS ZkappCommand

CONSTANTS A, B, C, FP, U1, U2, U3

T(u, calls) == [au |-> u, calls |-> calls]

MCForests ==
    { <<>>,
      <<T(U1, <<>>)>>,
      <<T(U1, <<>>), T(U2, <<>>)>>,
      <<T(U1, <<T(U2, <<>>)>>)>>,
      <<T(U1, <<>>), T(U2, <<>>), T(U3, <<>>)>>,
      <<T(U1, <<T(U2, <<>>)>>), T(U3, <<>>)>>,
      <<T(U1, <<>>), T(U2, <<T(U3, <<>>)>>)>>,
      <<T(U1, <<T(U2, <<>>), T(U3, <<>>)>>)>>,
      <<T(U1, <<T(U2, <<T(U3, <<>>)>>)>>)>> }

\* the labels a forest uses
Labels(fo) == ToSet(ToAccountUpdates(fo))

\* the preconditions an update may carry: balance exactly 1, nonce exactly 1
\* (the fee payer's after its increment), a new account, or a global slot
\* the view is not at
MCAccept == [account |-> AccountAccept, network |-> NetworkAccept]
MCPreconditions ==
    { [account |-> [AccountAccept EXCEPT !.balance = Check(ClosedInterval(1, 1))],
       network |-> NetworkAccept],
      [account |-> WithNonce(1), network |-> NetworkAccept],
      [account |-> [AccountAccept EXCEPT !.is_new = Check(TRUE)], network |-> NetworkAccept],
      [account |-> AccountAccept,
       network |-> [global_slot_since_genesis |-> Check(ClosedInterval(2, 3))]] }

\* at most one update of a command has a precondition other than accept
MCPreAssignments(us) ==
    { [u \in us |-> MCAccept] } \cup
    { [u \in us |-> IF u = v THEN p ELSE MCAccept] : v \in us, p \in MCPreconditions }

MCStateView == [global_slot_since_genesis |-> 1]

\* the fee payer's (nonce, valid_until) besides (0, None): a nonce ahead of
\* the account's 0, a valid_until already passed at the view's slot 1, and
\* one that ends at that very slot
MCFeePayerBodies == {[nonce |-> 1, valid_until |-> NoSlot], [nonce |-> 0, valid_until |-> 0],
                     [nonce |-> 0, valid_until |-> 1]}

MCCommands ==
    UNION { { [fee |-> f, nonce |-> 0, valid_until |-> NoSlot, forest |-> fo, acct |-> a,
               delta |-> d, pre |-> p] :
                a \in [Labels(fo) -> {A, B, C}], d \in [Labels(fo) -> {-1, 1}],
                p \in MCPreAssignments(Labels(fo)) } :
            f \in {1, 3}, fo \in MCForests }
    \cup
    UNION { { [fee |-> f, nonce |-> fb.nonce, valid_until |-> fb.valid_until, forest |-> fo,
               acct |-> a, delta |-> d, pre |-> [u \in Labels(fo) |-> MCAccept]] :
                a \in [Labels(fo) -> {A, B, C}], d \in [Labels(fo) -> {-1, 1}] } :
            f \in {1}, fo \in MCForests, fb \in MCFeePayerBodies }

MCLedgers == { (A :> [bal |-> 2, nonce |-> 0]) @@ (B :> [bal |-> 1, nonce |-> 0])
               @@ (C :> Absent) }
=============================================================================
