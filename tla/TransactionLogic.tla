--------------------------- MODULE TransactionLogic ---------------------------
(***************************************************************************)
(* The first pass of apply_transactions (ledger/src/scan_state/            *)
(* transaction_logic.rs) for the transactions that finish in their first   *)
(* pass: signed commands (payment, stake delegation), fee transfers (One,   *)
(* Two) and coinbases with an optional fee transfer.  Each transaction is   *)
(* applied to the ledger as one atomic step: the whole apply_* function,    *)
(* every ledger write it makes included.  A hard error (the Err of the     *)
(* Rust function) ends the batch, as the `?` of apply_transactions does;   *)
(* the writes the function made before the error stay in the ledger.       *)
(*                                                                         *)
(* Data is abstracted: public keys are model values, all accounts are of   *)
(* the default token, amounts are small naturals with MaxAmount standing   *)
(* for the u64 maximum, the receipt chain hash is the sequence of payloads *)
(* it commits to, permissions are the set of aspects an account forbids    *)
(* to an authorisation of kind NoneGiven / Signature.                      *)
(***************************************************************************)
EXTENDS Integers, Sequences, FiniteSets, FiniteSetsExt, TLC

CONSTANTS
    Pks,                 \* public keys (model values)
    Absent,              \* an empty ledger slot: location_of_account = None
    NoPk,                \* no key (fields of a summary that do not apply)
    AccountCreationFee,  \* constraint_constants.account_creation_fee
    MaxAmount,           \* the largest Balance / Amount / Fee (u64::MAX)
    Fees,                \* fees a transaction may carry
    Amounts,             \* payment amounts
    CoinbaseAmounts,     \* coinbase amounts
    Nonces,              \* nonces a signed command may carry
    ValidUntils,         \* valid_until slots of signed commands
    Slots,               \* global slots a batch may be applied at
    Tokens,              \* fee tokens of fee transfers
    DefaultToken,        \* TokenId::default()
    InitLedgers,         \* ledgers apply_transactions may be called with
    MaxTxns              \* transactions in a batch

Aspects == {"send", "receive", "set_delegate", "increment_nonce"}

Untimed == [timed |-> FALSE, initial_minimum_balance |-> 0, cliff_time |-> 0,
            cliff_amount |-> 0, vesting_period |-> 1, vesting_increment |-> 0]

Timings == {Untimed} \cup
    [timed : {TRUE}, initial_minimum_balance : 0..MaxAmount, cliff_time : Slots,
     cliff_amount : 0..MaxAmount, vesting_period : 1..2, vesting_increment : 0..MaxAmount]

Failures == {"UpdateNotPermittedBalance", "UpdateNotPermittedDelegate",
             "ReceiverNotPresent", "SourceInsufficientBalance",
             "SourceMinimumBalanceViolation", "AmountInsufficientToCreateAccount",
             "Overflow"}

ASSUME /\ AccountCreationFee \in 0..MaxAmount
       /\ Fees \cup Amounts \cup CoinbaseAmounts \subseteq 0..MaxAmount
       /\ DefaultToken \in Tokens
       /\ MaxTxns \in Nat

VARIABLES
    ledger,          \* the ledger apply_transactions mutates in place
    global_slot,     \* the slot the batch is applied at
    ledger0,         \* the ledger apply_transactions was called with
    txns,            \* transactions whose first pass has run
    aborted,         \* apply_transactions returned Err
    supply_increase, \* sum of the returned TransactionApplied::supply_increase
    fee_excess,      \* sum of the returned transactions' fee_excess
    last,            \* summary of the last transaction applied
    partials,        \* the first pass's TransactionPartiallyApplied, in order
    returned,        \* apply_transactions has run the second pass and returned
    applied          \* the Varying of each TransactionApplied it returned

vars == <<ledger, global_slot, ledger0, txns, aborted, supply_increase,
          fee_excess, last, partials, returned, applied>>

-----------------------------------------------------------------------------
(* Accounts and the ledger                                                 *)

Balance(acc) == IF acc = Absent THEN 0 ELSE acc.balance

\* Account::initialize / Account::create_with(id, 0): default permissions
\* allow everything to NoneGiven for receive, the delegate is the key itself.
NewAccount(pk) == [balance |-> 0, nonce |-> 0, timing |-> Untimed,
                   forbid |-> {}, delegate |-> pk, receipt |-> <<>>]

HasPermission(acc, aspect) == aspect \notin acc.forbid

TotalBalance(l) == MapThenSumSet(LAMBDA pk : Balance(l[pk]), Pks)

\* (mutant) an add without the overflow check
CanAddUnchecked(b, a) == TRUE

\* Amount checked arithmetic: checked_add fails above the type's maximum.
CanAdd(b, a) == b + a <= MaxAmount

\* sub_amount: Balance::sub_amount succeeds unless the amount exceeds it.
SubAmount(balance, amount) == amount <= balance

\* validate_time: Ok while the slot has not passed valid_until.
ValidateTime(valid_until, slot) == slot <= valid_until

\* validate_nonces: Ok when the account's nonce is the transaction's.
ValidateNonces(txn_nonce, account_nonce) == account_nonce = txn_nonce

\* set_with_location: set an existing account, or create_new_account for a
\* new one (a full ledger, the only Err of create_new_account, is out of
\* the model's reach: every key has a slot).
SetWithLocation(l, pk, acc) == [l EXCEPT ![pk] = acc]

-----------------------------------------------------------------------------
(* Timing (account.rs min_balance_at_slot) and validate_timing             *)

MinBalanceAtSlot(acc, slot) ==
    LET t == acc.timing IN
    IF ~t.timed THEN 0
    ELSE IF slot < t.cliff_time THEN t.initial_minimum_balance
    ELSE IF t.initial_minimum_balance < t.cliff_amount THEN 0
    ELSE LET past_cliff == t.initial_minimum_balance - t.cliff_amount
             decrement == ((slot - t.cliff_time) \div t.vesting_period) * t.vesting_increment
         IN  IF past_cliff < decrement THEN 0 ELSE past_cliff - decrement

\* (mutant) the minimum balance compared with the balance before the debit
ValidateTimingBeforeDebit(acc, amount, slot) ==
    IF ~acc.timing.timed \/ acc.balance < amount
    THEN [err |-> IF acc.balance < amount THEN "insufficient" ELSE "none",
          timing |-> acc.timing]
    ELSE LET cm == MinBalanceAtSlot(acc, slot) IN
         [err |-> IF acc.balance < cm THEN "min_balance" ELSE "none",
          timing |-> IF cm > 0 THEN acc.timing ELSE Untimed]

\* validate_timing_with_min_balance_impl: the error ("none", "insufficient"
\* for InsufficientBalance(true), "min_balance" for InvalidTiming(true)) and
\* the timing the account keeps: Untimed once the minimum balance is zero.
ValidateTimingImpl(acc, amount, slot) ==
    IF ~acc.timing.timed
    THEN [err |-> IF acc.balance < amount THEN "insufficient" ELSE "none",
          timing |-> Untimed]
    ELSE IF acc.balance < amount
    THEN [err |-> "insufficient",
          timing |-> IF acc.timing.initial_minimum_balance > 0
                     THEN acc.timing ELSE Untimed]
    ELSE LET cm == MinBalanceAtSlot(acc, slot) IN
         [err |-> IF acc.balance - amount < cm THEN "min_balance" ELSE "none",
          timing |-> IF cm > 0 THEN acc.timing ELSE Untimed]

\* validate_timing_with_min_balance: Err for InsufficientBalance(true) and
\* InvalidTiming(true), otherwise Ok with the timing the account keeps.
ValidateTimingWithMinBalance(acc, amount, slot) ==
    LET r == ValidateTimingImpl(acc, amount, slot)
    IN  [ok |-> r.err = "none", timing |-> r.timing]

\* timing_error_to_user_command_status: the error text names the failure.
TimingFailure(err) ==
    IF err = "min_balance" THEN "SourceMinimumBalanceViolation"
    ELSE "SourceInsufficientBalance"

-----------------------------------------------------------------------------
(* Results of an apply function                                             *)

\* WithStatus: Applied when every row of the failure collection is empty.
Status(failures) ==
    [applied |-> \A i \in DOMAIN failures : failures[i] = <<>>,
     failures |-> failures]

Applied == Status(<<>>)

\* (mutant) a later entry put in front of the table
AppendEntryFront(list, s) == <<list>> \o s

\* FailureCollection::append_entry: the first entry starts the table, a later
\* one is inserted at index 1.
AppendEntry(list, s) ==
    IF s = <<>> THEN <<list>>
    ELSE <<s[1]>> \o <<list>> \o SubSeq(s, 2, Len(s))

SingleFailure == <<<<"UpdateNotPermittedBalance">>>>
UpdateFailed == <<"UpdateNotPermittedBalance">>

Err(l) == [ok |-> FALSE, ledger |-> l]

Done(l, status, burned, new) ==
    [ok |-> TRUE, ledger |-> l, status |-> status, burned |-> burned, new |-> new]

\* has_permission_to_receive: the account (or Account::initialize), whether
\* it is Added, and whether NoneGiven may receive into it.
Receiver(l, pk) ==
    IF l[pk] = Absent
    THEN [acc |-> NewAccount(pk), added |-> TRUE, can |-> TRUE]
    ELSE [acc |-> l[pk], added |-> FALSE, can |-> HasPermission(l[pk], "receive")]

\* (mutant) the creation fee not taken from a new account's credit
CreditBalanceNoFee(r, amount) ==
    IF ~CanAdd(r.acc.balance, amount) THEN -1 ELSE r.acc.balance + amount

\* sub_account_creation_fee then add_amount: the credited balance, or -1
\* for the Err of either.
CreditBalance(r, amount) ==
    LET credited == IF r.added THEN amount - AccountCreationFee ELSE amount
    IN  IF credited < 0 \/ ~CanAdd(r.acc.balance, credited) THEN -1
        ELSE r.acc.balance + credited

\* get_new_accounts
NewAccounts(r, pk) == IF r.added THEN {pk} ELSE {}

-----------------------------------------------------------------------------
(* Signed commands: apply_user_command_unchecked                          *)

\* Commands: fee payer, signer, fee, nonce, valid_until and a body that is
\* a payment [receiver, amount] or a stake delegation [receiver].
Bodies == [kind : {"payment"}, receiver : Pks, amount : Amounts]
          \cup [kind : {"delegation"}, receiver : Pks]

Commands == [fee_payer : Pks, signer : Pks, fee : Fees, nonce : Nonces,
             valid_until : ValidUntils, body : Bodies]

\* SignedCommand's accessors: valid_until, fee_payer (the account of the
\* default token), fee, nonce and amount (a stake delegation has none).
SignedValidUntil(cmd) == cmd.valid_until
SignedFeePayer(cmd) == cmd.fee_payer
SignedFee(cmd) == cmd.fee
SignedNonce(cmd) == cmd.nonce
SignedAmount(cmd) == IF cmd.body.kind = "payment" THEN {cmd.body.amount} ELSE {}
\* SignedCommand::receiver: the payment's receiver or the new delegate.
SignedReceiver(cmd) == cmd.body.receiver

\* (mutant) the fee taken without the nonce bump
PayFeeNoNonce(l, cmd, slot) ==
    LET acc == l[SignedFeePayer(cmd)] IN
    IF SignedFeePayer(cmd) # cmd.signer \/ acc = Absent \/ ~SubAmount(acc.balance, SignedFee(cmd))
       \/ ~ValidateNonces(SignedNonce(cmd), acc.nonce)
       \/ ~ValidateTimingWithMinBalance(acc, SignedFee(cmd), slot).ok
    THEN Absent
    ELSE [acc EXCEPT !.balance = @ - SignedFee(cmd), !.receipt = Append(@, cmd),
                     !.timing = ValidateTimingImpl(acc, SignedFee(cmd), slot).timing]

\* (mutant) the vesting schedule checked for amount zero instead of the fee
PayFeeTimingNoFee(l, cmd, slot) ==
    LET acc == l[SignedFeePayer(cmd)]
        t == IF acc = Absent THEN [ok |-> TRUE]
             ELSE ValidateTimingWithMinBalance(acc, 0, slot)
    IN  IF \/ SignedFeePayer(cmd) # cmd.signer
           \/ acc = Absent
           \/ ~SubAmount(acc.balance, SignedFee(cmd))
           \/ ~ValidateNonces(SignedNonce(cmd), acc.nonce)
           \/ ~t.ok
        THEN Absent
        ELSE [acc EXCEPT !.balance = @ - SignedFee(cmd), !.nonce = @ + 1,
                         !.receipt = Append(@, cmd), !.timing = t.timing]

\* pay_fee / pay_fee_impl: the fee payer account with the fee taken, the
\* nonce bumped, the payload consed onto the receipt chain, or Absent for
\* the Err of the signer check, the missing account, the fee, the nonce or
\* the timing.
PayFee(l, cmd, slot) ==
    LET acc == l[SignedFeePayer(cmd)]
        t == IF acc = Absent THEN [ok |-> TRUE]
             ELSE ValidateTimingWithMinBalance(acc, SignedFee(cmd), slot)
    IN  IF \/ SignedFeePayer(cmd) # cmd.signer
           \/ acc = Absent
           \/ ~SubAmount(acc.balance, SignedFee(cmd))
           \/ ~ValidateNonces(SignedNonce(cmd), acc.nonce)
           \/ ~t.ok
        THEN Absent
        ELSE [acc EXCEPT !.balance = @ - SignedFee(cmd), !.nonce = @ + 1,
                         !.receipt = Append(@, cmd), !.timing = t.timing]

\* compute_updates: the accounts to write ([pk |-> account]) and the new
\* accounts, or a failure, with reject set on the path the code turns into
\* a hard error (the payer cannot cover the amount).
Fail(f) == [ok |-> FALSE, reject |-> FALSE, failure |-> f]

ComputeUpdates(l, cmd, payer, slot) ==
    LET pk == SignedFeePayer(cmd)
        rpk == SignedReceiver(cmd)
    IN
    IF cmd.body.kind = "delegation"
    THEN LET t == ValidateTimingImpl(payer, 0, slot) IN
         IF l[rpk] = Absent THEN Fail("ReceiverNotPresent")
         ELSE IF ~HasPermission(payer, "set_delegate")
              THEN Fail("UpdateNotPermittedDelegate")
         ELSE IF t.err # "none" THEN Fail(TimingFailure(t.err))
         ELSE [ok |-> TRUE, new |-> {},
               writes |-> (pk :> [payer EXCEPT !.delegate = rpk, !.timing = t.timing])]
    ELSE
    LET amount == CHOOSE a \in SignedAmount(cmd) : TRUE
        t == ValidateTimingImpl(payer, amount, slot)
        payer2 == [payer EXCEPT !.balance = @ - amount, !.timing = t.timing]
        recv == IF rpk = pk THEN payer2
                ELSE IF l[rpk] = Absent THEN NewAccount(rpk) ELSE l[rpk]
        is_new == rpk # pk /\ l[rpk] = Absent
        received == IF is_new THEN amount - AccountCreationFee ELSE amount
        recv2 == [recv EXCEPT !.balance = @ + received]
    IN
    IF payer.balance < amount \/ t.err # "none"
    THEN [ok |-> FALSE, reject |-> TRUE,
          failure |-> IF payer.balance < amount THEN "SourceInsufficientBalance"
                      ELSE TimingFailure(t.err)]
    ELSE IF ~HasPermission(payer2, "send") THEN Fail("UpdateNotPermittedBalance")
    ELSE IF ~HasPermission(recv, "receive") THEN Fail("UpdateNotPermittedBalance")
    ELSE IF received < 0 THEN Fail("AmountInsufficientToCreateAccount")
    ELSE IF ~CanAdd(recv.balance, received) THEN Fail("Overflow")
    ELSE [ok |-> TRUE, new |-> IF is_new THEN {rpk} ELSE {},
          writes |-> IF rpk = pk THEN (pk :> recv2)
                     ELSE (rpk :> recv2) @@ (pk :> payer2)]

\* apply_user_command_unchecked: validate_time, pay_fee, the send and
\* increment_nonce permissions, the fee written to the ledger, then
\* compute_updates and its writes; a rejected command is a hard error after
\* the fee has been written.
ApplyUserCommand(l, cmd, slot) ==
    LET payer == PayFee(l, cmd, slot)
        charged == SetWithLocation(l, SignedFeePayer(cmd), payer)
        u == ComputeUpdates(charged, cmd, payer, slot)
    IN
    IF ~ValidateTime(SignedValidUntil(cmd), slot) THEN Err(l)
    ELSE IF payer = Absent THEN Err(l)
    ELSE IF ~HasPermission(payer, "send") \/ ~HasPermission(payer, "increment_nonce")
         THEN Err(l)
    ELSE IF u.ok
         THEN Done([pk \in Pks |-> IF pk \in DOMAIN u.writes THEN u.writes[pk]
                                   ELSE charged[pk]],
                   Applied, 0, u.new)
    ELSE IF ~u.reject THEN Done(charged, Status(<<<<u.failure>>>>), 0, {})
    ELSE Err(charged)

-----------------------------------------------------------------------------
(* Fee transfers: apply_fee_transfer / process_fee_transfer                *)

SingleFeeTransfers == [receiver : Pks, fee : Fees]

\* One or Two single fee transfers; of_singles lets two share one token.
FeeTransfers == [token : Tokens, singles : {<<s>> : s \in SingleFeeTransfers}
                                      \cup (SingleFeeTransfers \X SingleFeeTransfers)]

\* The receiver credited with fee, its timing refreshed when keep_timing
\* (update_timing_when_no_deduction), written through get_or_create.
Credit(l, pk, r, balance, keep_timing, slot) ==
    [l EXCEPT ![pk] = [r.acc EXCEPT !.balance = balance,
                       !.timing = IF keep_timing THEN @
                                  ELSE ValidateTimingImpl(r.acc, 0, slot).timing]]

TimingErr(r, slot) == ValidateTimingImpl(r.acc, 0, slot).err # "none"

ApplyFeeTransfer(l, ft, slot) ==
    LET s1 == ft.singles[1]
        r1 == Receiver(l, s1.receiver)
    IN
    IF ft.token # DefaultToken THEN Err(l)
    ELSE IF Len(ft.singles) = 1
    THEN LET b == CreditBalance(r1, s1.fee) IN
         IF TimingErr(r1, slot) \/ b < 0 THEN Err(l)
         ELSE IF r1.can
              THEN Done(Credit(l, s1.receiver, r1, b, FALSE, slot), Applied, 0,
                        NewAccounts(r1, s1.receiver))
         ELSE Done(l, Status(SingleFailure), s1.fee, {})
    ELSE
    LET s2 == ft.singles[2]
        r2 == Receiver(l, s2.receiver)
        fee == s1.fee + s2.fee
    IN
    IF s1.receiver = s2.receiver
    THEN LET b == CreditBalance(r1, fee) IN
         IF ~CanAdd(s1.fee, s2.fee) \/ TimingErr(r1, slot) \/ b < 0 THEN Err(l)
         ELSE IF r1.can
              THEN Done(Credit(l, s1.receiver, r1, b, FALSE, slot), Applied, 0,
                        NewAccounts(r1, s1.receiver))
         ELSE Done(l, Status(AppendEntry(UpdateFailed, SingleFailure)), fee, {})
    ELSE
    LET b1 == CreditBalance(r1, s1.fee)
        b2 == CreditBalance(r2, s2.fee)
        \* the first receiver keeps its timing (#5973)
        l1 == IF r1.can THEN Credit(l, s1.receiver, r1, b1, TRUE, slot) ELSE l
        f1 == IF r1.can THEN AppendEntry(<<>>, <<>>) ELSE SingleFailure
        l2 == IF r2.can THEN Credit(l1, s2.receiver, r2, b2, FALSE, slot) ELSE l1
        f2 == AppendEntry(IF r2.can THEN <<>> ELSE UpdateFailed, f1)
        burned == (IF r1.can THEN 0 ELSE s1.fee) + (IF r2.can THEN 0 ELSE s2.fee)
    IN
    IF b1 < 0 \/ TimingErr(r2, slot) \/ b2 < 0 THEN Err(l)
    ELSE IF ~CanAdd(0, burned) THEN Err(l2)
    ELSE Done(l2, Status(f2), burned,
              (IF r1.can THEN NewAccounts(r1, s1.receiver) ELSE {})
              \cup (IF r2.can THEN NewAccounts(r2, s2.receiver) ELSE {}))

-----------------------------------------------------------------------------
(* Coinbase: apply_coinbase                                                 *)

\* A coinbase and its optional fee transfer to a transferee other than the
\* receiver (Coinbase::create drops a fee transfer to the receiver itself).
Coinbases ==
    [receiver : Pks, amount : CoinbaseAmounts, ft : {<<>>}]
    \cup {cb \in [receiver : Pks, amount : CoinbaseAmounts,
                  ft : {<<t>> : t \in SingleFeeTransfers}] :
            cb.ft[1].receiver # cb.receiver /\ cb.ft[1].fee <= cb.amount}

ApplyCoinbase(l, cb, slot) ==
    LET has_ft == cb.ft # <<>>
        tpk == IF has_ft THEN cb.ft[1].receiver ELSE NoPk
        fee == IF has_ft THEN cb.ft[1].fee ELSE 0
        rt == IF has_ft THEN Receiver(l, tpk) ELSE [can |-> FALSE]
        bt == IF has_ft THEN CreditBalance(rt, fee) ELSE 0
        transferred == has_ft /\ rt.can
        \* get_or_create makes the transferee's account before the receiver
        \* is looked at; its balance and timing are set at the end.
        l1 == IF transferred /\ l[tpk] = Absent
              THEN [l EXCEPT ![tpk] = NewAccount(tpk)] ELSE l
        failures1 == IF ~has_ft THEN <<>>
                     ELSE IF rt.can THEN AppendEntry(<<>>, <<>>) ELSE SingleFailure
        burned1 == IF has_ft /\ ~rt.can THEN fee ELSE 0
        reward == cb.amount - fee
        rr == Receiver(l1, cb.receiver)
        br == CreditBalance(rr, reward)
        \* the receiver's timing is refreshed only without a fee transfer
        l2 == IF rr.can THEN Credit(l1, cb.receiver, rr, br, transferred, slot) ELSE l1
        failures == AppendEntry(IF rr.can THEN <<>> ELSE UpdateFailed, failures1)
        burned == burned1 + (IF rr.can THEN 0 ELSE reward)
        l3 == IF transferred THEN Credit(l2, tpk, rt, bt, FALSE, slot) ELSE l2
    IN
    IF has_ft /\ (TimingErr(rt, slot) \/ bt < 0) THEN Err(l)
    ELSE IF (~transferred /\ TimingErr(rr, slot)) \/ br < 0 THEN Err(l1)
    ELSE IF ~CanAdd(0, burned) THEN Err(l3)
    ELSE Done(l3, Status(failures), burned,
              (IF transferred THEN NewAccounts(rt, tpk) ELSE {})
              \cup NewAccounts(rr, cb.receiver))

-----------------------------------------------------------------------------
(* apply_transactions: the first pass of each transaction, in order        *)

\* The TransactionPartiallyApplied a first pass returns: signed commands,
\* fee transfers and coinbases are all FullyApplied, holding the applied
\* record (Applied or Failed, new accounts, burned tokens) and the transaction, of
\* which the model keeps the expected supply increase and the fee excess.
PartiallyApplied(kind, res, expected, excess) ==
    [variant |-> kind, applied |-> res.status.applied, new |-> res.new,
     burned |-> res.burned, expected |-> expected, excess |-> excess]

\* The Varying of a TransactionApplied, by the first pass's variant.
VaryingOf(variant) ==
    IF variant = "signed" THEN "Command"
    ELSE IF variant = "fee_transfer" THEN "FeeTransfer" ELSE "Coinbase"

\* apply_transaction_second_pass: a FullyApplied transaction becomes its
\* TransactionApplied, the applied record under the Varying of its
\* variant; the ledger is not touched.
SecondPass(p) == [p EXCEPT !.variant = VaryingOf(p.variant)]

\* SignedCommandApplied::new_accounts: only a Payments body has any; a
\* delegation or a Failed command has none.
SignedNewAccounts(ta) == IF ta.applied THEN ta.new ELSE {}

\* TransactionApplied::new_accounts and burned_tokens.
NewAccountsOf(ta) == IF ta.variant = "Command" THEN SignedNewAccounts(ta) ELSE ta.new
BurnedTokens(ta) == IF ta.variant = "Command" THEN 0 ELSE ta.burned

\* TransactionApplied::supply_increase: the coinbase's
\* expected_supply_increase less the burned tokens and the creation fees.
SupplyIncrease(ta) ==
    (IF ta.variant = "Coinbase" THEN ta.expected ELSE 0)
    - BurnedTokens(ta) - AccountCreationFee * Cardinality(NewAccountsOf(ta))

NoTxn == [kind |-> "none", ok |-> TRUE, status |-> Applied, burned |-> 0,
          shares |-> <<>>, payer |-> NoPk, fee |-> 0, accessed |-> {},
          referenced |-> {}]

\* One transaction's first pass: the result res of its apply function, the
\* expected supply increase and fee excess it carries, and its shares (what
\* each row of its failure table stands for).
Step(kind, res, expected, excess, shares, payer, fee, accessed, referenced) ==
    /\ ~aborted /\ ~returned
    /\ txns < MaxTxns
    /\ txns' = txns + 1
    /\ ledger' = res.ledger
    /\ aborted' = ~res.ok
    /\ IF res.ok
       THEN /\ last' = [kind |-> kind, ok |-> TRUE, status |-> res.status,
                        burned |-> res.burned, shares |-> shares,
                        payer |-> payer, fee |-> fee, accessed |-> accessed,
                        referenced |-> referenced]
            /\ partials' = Append(partials, PartiallyApplied(kind, res, expected, excess))
       ELSE /\ UNCHANGED partials
            /\ last' = [NoTxn EXCEPT !.kind = kind, !.ok = FALSE,
                                     !.payer = payer, !.fee = fee]
    /\ UNCHANGED <<global_slot, ledger0, returned, applied, supply_increase, fee_excess>>

\* SignedCommand::fee_excess: the fee, in the fee token.
SignedFeeExcess(cmd) == SignedFee(cmd)

\* Transaction::fee_excess, for the default token: a command's fee, minus
\* the fees a fee transfer pays out (FeeTransfer::fee_excess), and nothing
\* for a coinbase (Coinbase::fee_excess is empty).
TransactionFeeExcess(kind, t) ==
    CASE kind = "signed"       -> SignedFeeExcess(t)
      [] kind = "fee_transfer" -> -MapThenSumSet(LAMBDA i : t.singles[i].fee, DOMAIN t.singles)
      [] kind = "coinbase"     -> 0

(* Transaction::account_access_statuses: the accounts a transaction      *)
(* references, each Accessed or NotAccessed by the status it ended with.  *)


\* (mutant) a failed command marks the fee payer NotAccessed as well
SignedAccessStatusesAllOrNothing(cmd, is_applied) ==
    LET st == IF is_applied THEN "Accessed" ELSE "NotAccessed" IN
    << <<SignedFeePayer(cmd), st>>, <<SignedReceiver(cmd), st>> >>

\* SignedCommand::account_access_statuses: the fee payer is accessed even
\* when the command fails; the receiver only when it is applied.
SignedAccessStatuses(cmd, is_applied) ==
    << <<SignedFeePayer(cmd), "Accessed">>,
       <<SignedReceiver(cmd), IF is_applied THEN "Accessed" ELSE "NotAccessed">> >>

\* Transaction::account_access_statuses of a fee transfer: every receiver
\* is accessed, whatever the status.
FeeTransferAccessStatuses(ft) ==
    [i \in DOMAIN ft.singles |-> <<ft.singles[i].receiver, "Accessed">>]

\* Coinbase::account_access_statuses: the fee transfer's receiver, if any,
\* then the coinbase receiver, both Accessed when the coinbase is Applied
\* and both NotAccessed when it Failed.
CoinbaseAccessStatuses(cb, is_applied) ==
    LET st == IF is_applied THEN "Accessed" ELSE "NotAccessed" IN
    [i \in DOMAIN cb.ft |-> <<cb.ft[i].receiver, st>>] \o <<<<cb.receiver, st>>>>

\* The accounts the statuses mark Accessed.
AccessedIds(statuses) == {statuses[i][1] : i \in {j \in DOMAIN statuses : statuses[j][2] = "Accessed"}}

\* accounts_referenced: the ids of the statuses for Applied.
AccountsReferenced(statuses) == {statuses[i][1] : i \in DOMAIN statuses}

ApplySignedCommand ==
    \E cmd \in Commands :
        LET res == ApplyUserCommand(ledger, cmd, global_slot) IN
        Step("signed", res, 0,
             TransactionFeeExcess("signed", cmd),
             <<0>>, SignedFeePayer(cmd), SignedFee(cmd),
             AccessedIds(SignedAccessStatuses(cmd, res.ok /\ res.status.applied)),
             AccountsReferenced(SignedAccessStatuses(cmd, TRUE)))

ApplyFeeTransferTxn ==
    \E ft \in FeeTransfers :
        LET fees == [i \in DOMAIN ft.singles |-> ft.singles[i].fee] IN
        Step("fee_transfer", ApplyFeeTransfer(ledger, ft, global_slot), 0,
             TransactionFeeExcess("fee_transfer", ft),
             fees, NoPk, 0, AccessedIds(FeeTransferAccessStatuses(ft)),
             AccountsReferenced(FeeTransferAccessStatuses(ft)))

\* Coinbase::expected_supply_increase is the amount.
ApplyCoinbaseTxn ==
    \E cb \in Coinbases :
        LET fee == IF cb.ft = <<>> THEN 0 ELSE cb.ft[1].fee
            res == ApplyCoinbase(ledger, cb, global_slot)
        IN
        Step("coinbase", res, cb.amount,
             TransactionFeeExcess("coinbase", cb),
             IF cb.ft = <<>> THEN <<cb.amount>> ELSE <<fee, cb.amount - fee>>,
             NoPk, 0, AccessedIds(CoinbaseAccessStatuses(cb, res.ok /\ res.status.applied)),
             AccountsReferenced(CoinbaseAccessStatuses(cb, TRUE)))

Init ==
    /\ ledger \in InitLedgers
    /\ global_slot \in Slots
    /\ ledger0 = ledger
    /\ txns = 0
    /\ aborted = FALSE
    /\ supply_increase = 0
    /\ fee_excess = 0
    /\ last = NoTxn
    /\ partials = <<>>
    /\ returned = FALSE
    /\ applied = <<>>

\* apply_transactions, once every first pass of the batch returned Ok: the
\* second pass of each partially applied transaction, in order, and the
\* Vec<TransactionApplied> collected from them; supply_increase and
\* fee_excess sum what the returned transactions report.
ApplySecondPasses ==
    /\ ~aborted /\ ~returned
    /\ LET tas == [i \in DOMAIN partials |-> SecondPass(partials[i])] IN
       /\ returned' = TRUE
       /\ applied' = [i \in DOMAIN tas |-> tas[i].variant]
       /\ supply_increase' = MapThenSumSet(LAMBDA i : SupplyIncrease(tas[i]), DOMAIN tas)
       /\ fee_excess' = MapThenSumSet(LAMBDA i : tas[i].excess, DOMAIN tas)
    /\ UNCHANGED <<ledger, global_slot, ledger0, txns, aborted, last, partials>>

Next == ApplySignedCommand \/ ApplyFeeTransferTxn \/ ApplyCoinbaseTxn
        \/ ApplySecondPasses

Spec == Init /\ [][Next]_vars

-----------------------------------------------------------------------------
(* Properties                                                               *)

Accounts == [balance : 0..MaxAmount, nonce : Nat, timing : Timings,
             forbid : SUBSET Aspects, delegate : Pks, receipt : Seq(Commands)]

TypeOK ==
    /\ ledger \in [Pks -> Accounts \cup {Absent}]
    /\ global_slot \in Slots
    /\ txns \in 0..MaxTxns
    /\ aborted \in BOOLEAN
    /\ supply_increase \in Int /\ fee_excess \in Int
    /\ last.kind \in {"none", "signed", "fee_transfer", "coinbase"}
    /\ Len(partials) = txns - (IF aborted THEN 1 ELSE 0)
    /\ returned \in BOOLEAN
    /\ applied \in Seq({"Command", "FeeTransfer", "Coinbase"})
    /\ \A i \in DOMAIN last.status.failures :
          \A j \in DOMAIN last.status.failures[i] : last.status.failures[i][j] \in Failures

\* When apply_transactions returns Ok, the balances in the ledger have
\* changed by exactly the supply increase less the fee excess of the
\* TransactionApplied list it returns: every fee charged by a signed command, every fee transfer and
\* coinbase credit, every creation fee and every burned share is accounted
\* for, whichever of the apply functions' failure paths was taken.
SupplyConservation ==
    returned =>
        TotalBalance(ledger) = TotalBalance(ledger0) + supply_increase - fee_excess

\* The vesting schedule each account started the batch with holds at every
\* point of it: no sequence of fee payments, payments, delegations and
\* credits (some of which rewrite the timing field to Untimed) takes a
\* balance below the minimum that schedule sets at the batch's slot.
VestingHonoured ==
    \A pk \in Pks :
        ledger0[pk] # Absent =>
            Balance(ledger[pk]) >= MinBalanceAtSlot(ledger0[pk], global_slot)

\* A signed command included with a Failed status charges its fee, bumps the
\* fee payer's nonce, and makes no other change: no other account and no
\* other field of the fee payer (apply_user_command_unchecked writes the fee
\* before compute_updates and drops its updates when it fails).
FailedCommandChargesOnlyFee ==
    [][ (txns' > txns /\ last'.kind = "signed" /\ last'.ok /\ ~last'.status.applied) =>
          LET p == last'.payer IN
          /\ \A pk \in Pks \ {p} : ledger'[pk] = ledger[pk]
          /\ ledger'[p].balance = ledger[p].balance - last'.fee
          /\ ledger'[p].nonce = ledger[p].nonce + 1
          /\ ledger'[p].delegate = ledger[p].delegate
          /\ ledger'[p].forbid = ledger[p].forbid ]_vars

\* A signed command never ends with a timing failure in its status: a
\* payment whose debit breaks the vesting schedule is rejected as a hard
\* error (reject_command), and a stake delegation re-validates the timing
\* for amount zero after pay_fee already checked the fee against the same
\* minimum balance, so the error text timing_error_to_user_command_status
\* matches on can only reach a status through a path the code says cannot
\* fail ("Timing is always valid").
TimingNeverFailsCommand ==
    [][ (txns' > txns /\ last'.kind = "signed" /\ last'.ok /\ ~last'.status.applied) =>
          \A i \in DOMAIN last'.status.failures :
             \A j \in DOMAIN last'.status.failures[i] :
                last'.status.failures[i][j] \notin
                   {"SourceMinimumBalanceViolation", "SourceInsufficientBalance"} ]_vars

\* The failure table of a fee transfer or coinbase names the shares that
\* were burned: a row is non-empty exactly for the receivers whose share was
\* burned (FailureCollection::append_entry puts the later entry at index 1),
\* and an Applied status burns nothing.
FailureRowsMatchBurn ==
    [][ (txns' > txns /\ last'.kind \in {"fee_transfer", "coinbase"} /\ last'.ok) =>
          LET f == last'.status.failures IN
          IF last'.status.applied THEN last'.burned = 0
          ELSE /\ Len(f) = Len(last'.shares)
               /\ last'.burned =
                    MapThenSumSet(LAMBDA i : last'.shares[i],
                                  {i \in DOMAIN f : f[i] # <<>>}) ]_vars

\* Every account a transaction changes is among its accounts_referenced,
\* and, for a signed command or a fee transfer, is marked Accessed by
\* account_access_statuses for the status it ended with (the fee payer of
\* a failed command included).  A Failed coinbase is left out of the second
\* half: Coinbase::account_access_statuses marks both of its accounts
\* NotAccessed, yet apply_coinbase still credits the coinbase receiver when
\* only the fee transfer's receiver refused the fee.
AccessedCoversChanges ==
    [][ (txns' > txns /\ last'.ok) =>
          \A pk \in Pks : ledger'[pk] # ledger[pk] =>
             /\ pk \in last'.referenced
             /\ last'.kind # "coinbase" => pk \in last'.accessed ]_vars

\* A transaction whose apply function returns Err leaves the ledger as it
\* found it: a hard error is a transaction that is never included.
AbortLeavesLedgerUnchanged ==
    [][ (~aborted /\ aborted') => ledger' = ledger ]_vars

=============================================================================
