------------------------- MODULE MCTransactionLogic -------------------------
(* TransactionLogic instantiated for TLC: three keys of which the third    *)
(* starts without an account, balances up to 4 (so that credits overflow), *)
(* a creation fee of 1, one vesting schedule whose minimum balance is 2,  *)
(* 1 and 0 at slots 0, 1 and 2, and batches of two transactions.          *)
EXTENDS TransactionLogic

CONSTANTS A, B, C, CustomToken

MCPks == {A, B, C}

Vesting == [timed |-> TRUE, initial_minimum_balance |-> 2, cliff_time |-> 1,
            cliff_amount |-> 1, vesting_period |-> 1, vesting_increment |-> 1]

\* An existing account: balance, timing and the aspects it forbids (a
\* payment to it and a delegation by it fail together, so the two checks of
\* compute_updates are each reached).
Templates(pk) ==
    { [balance |-> b, nonce |-> 0, timing |-> t, forbid |-> f, delegate |-> pk,
       receipt |-> <<>>] :
         b \in {1, 3}, t \in {Untimed, Vesting},
         f \in {{}, {"send"}, {"increment_nonce"}, {"receive", "set_delegate"}} }

\* A timed account holds at least its initial minimum balance.
MCInitLedgers ==
    { (A :> a) @@ (B :> b) @@ (C :> Absent) :
        <<a, b>> \in {<<x, y>> \in Templates(A) \X Templates(B) :
                        \A acc \in {x, y} : acc.timing.timed => acc.balance >= 2} }
=============================================================================
