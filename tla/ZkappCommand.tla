---------------------------- MODULE ZkappCommand ----------------------------
(* Application of one zkApp command (ledger/src/scan_state/               *)
(* transaction_logic.rs): apply_zkapp_command_first_pass_aux (the fee     *)
(* payer segment, run by zkapps::non_snark::start), then                  *)
(* apply_zkapp_command_second_pass_aux: it records the original account   *)
(* states, installs the ledger, runs step_all (one zkapps::non_snark::step *)
(* per account update, depth first over the call forest with a stack     *)
(* frame and a call stack) and builds the status table.  The interpreter  *)
(* (start, step) lives outside this tree and is modelled from the spec:   *)
(* a balance precondition, a signed balance change with overflow, and the *)
(* local ledger that is written back only if every update succeeded.     *)
EXTENDS Integers, Sequences, SequencesExt

TH == INSTANCE TransactionHashing

CONSTANTS
    Ids,          \* account ids
    FeePayer,     \* the fee payer's account id
    FeePayerAU,   \* the label of the fee payer's account update
    Absent,       \* "no account at this id"
    MaxBalance,   \* the largest balance (stands for the u64 maximum)
    Commands,     \* candidate commands: [fee, nonce, valid_until, forest,
                  \* acct, delta, pre] (fee, nonce and valid_until form
                  \* the fee payer's body)
    NoSlot,       \* valid_until = None
    MaxSlot,      \* Slot::max() (stands for the u32 maximum)
                  \* (pre: each update's [account, network] preconditions)
    StateView,    \* the protocol state view: [global_slot_since_genesis]
    Ledgers       \* candidate ledgers before the command

Account == [bal : 0..MaxBalance, nonce : Nat]

VARIABLES
    cmd, ledger0,     \* the command and the ledger it was applied to
    phase,            \* first, partial, stepping, done, err
    ledger,           \* the (first and second pass) ledger
    frame, stack,     \* local_state.stack_frame.calls and call_stack
    local,            \* local_state.ledger
    tbl,              \* local_state.failure_status_tbl (newest row first)
    success,          \* local_state.success
    orig_fp,          \* original_first_pass_account_states
    orig,             \* original_account_states of the second pass
    result,           \* the ZkappCommandApplied, or the Err (status "Err")
    visited,          \* the account updates stepped, in order
    fails,            \* the failure row each account update produced
    ledger_fp         \* the ledger right after the first pass

vars == <<cmd, ledger0, phase, ledger, frame, stack, local, tbl, success, orig_fp,
          orig, result, visited, fails, ledger_fp>>

(* ---- Call forests: sequences of [au |-> label, calls |-> forest]. ---- *)

\* CallForest::fold / to_account_updates: each update, then its calls.
RECURSIVE ToAccountUpdates(_)
ToAccountUpdates(f) ==
    IF f = <<>> THEN <<>>
    ELSE <<Head(f).au>> \o ToAccountUpdates(Head(f).calls) \o ToAccountUpdates(Tail(f))

\* CallForest::cons: a new tree at the front.
ConsTree(f, calls, au) == <<[au |-> au, calls |-> calls]>> \o f

(* Hashing, with the hash functions as constructors: hash_with_kimchi of *)
(* MINA_ACCOUNT_UPDATE_NODE and MINA_ACCOUNT_UPDATE_CONS, and the update's *)
(* digest.                                                               *)
Zero == <<"zero">>
AuDigest(u) == <<"digest", u>>
NodeHash(d, sh) == <<"node", d, sh>>
ConsHash(h, tl) == <<"cons", h, tl>>

\* accumulate_hashes' local hash: the stack hash of element index + 1.
NextHashOffByOne(f, index, done) == IF index + 2 <= Len(f) THEN done[2] ELSE Zero
NextHash(f, index, done) == IF index + 1 <= Len(f) THEN done[1] ELSE Zero

(* CallForest::accumulate_hashes: from the last element to the first,     *)
(* hash the calls, then stack_hash = cons(digest, next's stack_hash).    *)
(* done holds the stack hashes of elements index + 1 .. Len(f).          *)
RECURSIVE StackHashes(_), AccumulateFrom(_, _, _), TreeDigest(_)
StackHashes(f) == AccumulateFrom(f, Len(f), <<>>)
AccumulateFrom(f, index, done) ==
    IF index = 0 THEN done
    ELSE AccumulateFrom(f, index - 1,
                        <<ConsHash(TreeDigest(f[index]), NextHash(f, index, done))>> \o done)
\* Tree::digest: node(account update digest, the calls' first stack hash).
TreeDigest(t) == NodeHash(AuDigest(t.au), IF t.calls = <<>> THEN Zero ELSE StackHashes(t.calls)[1])

\* CallForest::hash after ensure_hashed: the first stack hash, or zero.
CallForestHash(f) == IF f = <<>> THEN Zero ELSE StackHashes(f)[1]

\* CallForest::cons_tree: the new element's stack hash.
ConsTreeHash(f, t) == ConsHash(TreeDigest(t), CallForestHash(f))

\* ZkAppCommand::all_account_updates: the fee payer, with no calls, first.
AllAccountUpdates(c) == ConsTree(c.forest, <<>>, FeePayerAU)
AllAccountUpdatesList(c) == <<FeePayerAU>> \o ToAccountUpdates(c.forest)

\* account_access_statuses(Applied) and accounts_referenced: the fee payer
\* then each update's account in fold order, duplicates removed.
AccountsReferenced(c) ==
    LET ids == <<FeePayer>> \o [i \in 1..Len(ToAccountUpdates(c.forest)) |->
                                  c.acct[ToAccountUpdates(c.forest)[i]]]
    IN ToSet(ids)

\* CallForest::pop_exn: the first tree's update and calls, and the rest.
PopExnLast(f) == [au |-> f[Len(f)].au, calls |-> f[Len(f)].calls, rest |-> Front(f)]
PopExn(f) == [au |-> Head(f).au, calls |-> Head(f).calls, rest |-> Tail(f)]

\* StackFrame::empty (its calls), CallStack::new and CallStack::is_empty.
StackFrameEmpty == <<>>
CallStackNew == <<>>
CallStackIsEmpty(s) == s = <<>>

\* CallStack::push and CallStack::pop work at the end of the vector.
CallStackPush(s, fr) == Append(s, fr)
CallStackPop(s) == [frame |-> Last(s), rest |-> Front(s)]

(* The interpreter's next account update: pop the current frame; descend  *)
(* into the popped update's calls (pushing the remainder, if any), or go  *)
(* on with the remainder, or return to the frame on top of the stack.     *)
GetNext(fr, st) ==
    LET p == PopExn(fr)
    IN IF p.calls # <<>>
       THEN [au |-> p.au, frame |-> p.calls,
             stack |-> IF p.rest = <<>> THEN st ELSE CallStackPush(st, p.rest)]
       ELSE IF p.rest # <<>> THEN [au |-> p.au, frame |-> p.rest, stack |-> st]
       ELSE IF CallStackIsEmpty(st) THEN [au |-> p.au, frame |-> <<>>, stack |-> <<>>]
       ELSE [au |-> p.au, frame |-> CallStackPop(st).frame, stack |-> CallStackPop(st).rest]

(* Preconditions (zkapp_precondition.ml): every field is an OrIgnore,   *)
(* Ignore or Check of a value, and a numeric one checks a ClosedInterval. *)
(* Only the balance, nonce and is_new fields of the account precondition *)
(* and the global slot of the network precondition are kept; the others  *)
(* (hashes, delegate, app and action state, epoch data) are Ignore.      *)
Ignore == [tag |-> "Ignore"]
Check(x) == [tag |-> "Check", value |-> x]
ClosedInterval(lower, upper) == [lower |-> lower, upper |-> upper]
\* the zcheck of an OrIgnore: Ignore passes, a Check tests the value
IntervalHolds(p, v) == p.tag = "Ignore" \/ (p.value.lower <= v /\ v <= p.value.upper)
EqHolds(p, v) == p.tag = "Ignore" \/ p.value = v

\* Account::accept, AccountPreconditions::with_nonce, ZkAppPreconditions::accept.
AccountAccept == [balance |-> Ignore, nonce |-> Ignore, is_new |-> Ignore]
WithNonce(nonce) == [AccountAccept EXCEPT !.nonce = Check(ClosedInterval(nonce, nonce))]
NetworkAccept == [global_slot_since_genesis |-> Ignore]

\* FeePayerBody and the ZkAppCommand accessors that read it: fee_payer (the
\* account id of the default token), fee and applicable_at_nonce.
FeePayerBody(c) == [public_key |-> FeePayer, fee |-> c.fee,
                    valid_until |-> c.valid_until, nonce |-> c.nonce]
ZkAppFeePayer(c) == FeePayerBody(c).public_key
ZkAppFee(c) == FeePayerBody(c).fee
ApplicableAtNonce(c) == FeePayerBody(c).nonce

\* (mutant) the fee payer's update without its nonce precondition
OfFeePayerNoNonce(b) ==
    [balance_change |-> -b.fee, increment_nonce |-> TRUE,
     pre |-> [account |-> AccountAccept,
              network |-> [global_slot_since_genesis |->
                   Check(ClosedInterval(0, IF b.valid_until = NoSlot THEN MaxSlot
                                           ELSE b.valid_until))]]]

\* AccountUpdate::of_fee_payer: the fee as a negative balance change, the
\* nonce incremented, the account precondition with_nonce(nonce) and the
\* network's global slot checked against 0 .. valid_until (Slot::max when
\* there is none); the update, events and actions are empty.
OfFeePayer(b) ==
    [balance_change |-> -b.fee, increment_nonce |-> TRUE,
     pre |-> [account |-> WithNonce(b.nonce),
              network |-> [global_slot_since_genesis |->
                   Check(ClosedInterval(0, IF b.valid_until = NoSlot THEN MaxSlot
                                           ELSE b.valid_until))]]]

\* Account::zchecks: (failure, passed) pairs, in the order they are reported.
Zchecks(p, account, new_account) ==
    << <<"AccountBalancePreconditionUnsatisfied", IntervalHolds(p.balance, account.bal)>>,
       <<"AccountNoncePreconditionUnsatisfied", IntervalHolds(p.nonce, account.nonce)>>,
       <<"AccountIsNewPreconditionUnsatisfied", EqHolds(p.is_new, new_account)>> >>

\* ZkAppPreconditions::zcheck against the protocol state view.
NetworkZcheck(p, s) == IntervalHolds(p.global_slot_since_genesis, s.global_slot_since_genesis)

\* local_state.add_check: a failed check is consed onto the update's row.
AddCheck(row, c) == IF c[2] THEN row ELSE <<c[1]>> \o row

\* AccountPreconditions::zcheck: every check of zchecks handed to add_check.
AccountPreconditionsZcheck(row, p, account, new_account) ==
    FoldLeft(AddCheck, row, Zchecks(p, account, new_account))

(* Account update application: the account preconditions (zcheck on the *)
(* account as it is before the update), the network precondition, then  *)
(* the signed balance change, flagged Overflow outside 0..MaxBalance.    *)
(* A missing account is created empty and counts as new.                 *)
AccountFor(l, id) == IF l[id] = Absent THEN [bal |-> 0, nonce |-> 0] ELSE l[id]
UpdateRow(delta, p, acc, new_account) ==
    LET nb == acc.bal + delta
        pre == AccountPreconditionsZcheck(<<>>, p.account, acc, new_account)
        net == AddCheck(pre, <<"ProtocolStatePreconditionUnsatisfied",
                               NetworkZcheck(p.network, StateView)>>)
    IN (IF nb < 0 \/ nb > MaxBalance THEN <<"Overflow">> ELSE <<>>) \o net
Row(c, u, acc, new_account) == UpdateRow(c.delta[u], c.pre[u], acc, new_account)
\* the fee payer's row, of its of_fee_payer update on its existing account
FeePayerRow(c, acc) ==
    LET fpu == OfFeePayer(FeePayerBody(c))
    IN UpdateRow(fpu.balance_change, fpu.pre, acc, FALSE)
AppliedUnchecked(c, u, acc) == [acc EXCEPT !.bal = acc.bal + c.delta[u]]
Applied(c, u, acc) ==
    LET nb == acc.bal + c.delta[u]
    IN IF nb < 0 \/ nb > MaxBalance THEN acc ELSE [acc EXCEPT !.bal = nb]

(* GlobalState's ledgers: the getters hand out a mask over the ledger     *)
(* (reads go through to it), the setters apply a mask's changes to the    *)
(* ledger only when should_update holds.                                  *)
SecondPassLedger(g) == g
SetFirstPassLedger(should_update, g, l) == IF should_update THEN l ELSE g
SetSecondPassLedger(should_update, g, l) == IF should_update THEN l ELSE g

-----------------------------------------------------------------------------
Init ==
    /\ cmd \in Commands
    /\ ledger0 \in Ledgers
    /\ ledger = ledger0
    /\ phase = "first"
    /\ frame = StackFrameEmpty /\ stack = CallStackNew /\ local = ledger0
    /\ tbl = <<>> /\ success = TRUE
    /\ orig_fp = <<>> /\ orig = <<>>
    /\ result = [status |-> "none"] /\ visited = <<>> /\ fails = <<>> /\ ledger_fp = ledger0

(* apply_zkapp_command_first_pass_aux: note the fee payer's state, then   *)
(* start runs the fee payer's segment on the ledger: the fee is charged   *)
(* and the nonce incremented, or the whole command is an Err: the fee     *)
(* payer's update (of_fee_payer) must succeed, its nonce and valid_until  *)
(* preconditions and its balance change included.                        *)
FirstPass ==
    /\ phase = "first"
    /\ LET fp == ledger[ZkAppFeePayer(cmd)]
           n == GetNext(AllAccountUpdates(cmd), <<>>)
       IN IF fp = Absent \/ FeePayerRow(cmd, fp) # <<>>
          THEN /\ phase' = "err" /\ result' = [status |-> "Err"]
               /\ UNCHANGED <<ledger, frame, stack, tbl, orig_fp, visited, fails, ledger_fp>>
          ELSE LET l2 == [ledger EXCEPT ![FeePayer] =
                                   [bal |-> fp.bal - ZkAppFee(cmd), nonce |-> fp.nonce + 1]]
               IN /\ phase' = "partial"
                  /\ ledger' = SetFirstPassLedger(TRUE, ledger, l2) /\ ledger_fp' = l2
                  /\ orig_fp' = <<FeePayer, fp>>
                  /\ frame' = n.frame /\ stack' = n.stack
                  /\ tbl' = <<<<>>>>
                  /\ visited' = <<n.au>> /\ fails' = n.au :> <<>>
                  /\ UNCHANGED result
    /\ UNCHANGED <<cmd, ledger0, local, success, orig>>

\* original_account_states: an entry goes in only if its id is vacant.
InsertOverwrite(m, p) == [i \in DOMAIN m \cup {p[1]} |-> IF i = p[1] THEN p[2] ELSE m[i]]
InsertVacant(m, p) ==
    IF p[1] \in DOMAIN m THEN m
    ELSE [i \in DOMAIN m \cup {p[1]} |-> IF i = p[1] THEN p[2] ELSE m[i]]

(* apply_zkapp_command_second_pass_aux up to step_all: the original       *)
(* states (the fee payer's from the first pass, then every referenced     *)
(* account as the ledger has it now, first entry kept), and the ledger    *)
(* installed as the local ledger if there are calls left.  The states     *)
(* "after the fee payer" are a lazy iterator over the ledger: nothing is  *)
(* read here, they are read when the result is built (Finish).            *)
SecondPassStart ==
    /\ phase = "partial"
    /\ LET refs == SetToSeq(AccountsReferenced(cmd))
           pairs == <<orig_fp>> \o [i \in 1..Len(refs) |-> <<refs[i], ledger[refs[i]]>>]
       IN orig' = FoldLeft(InsertVacant, <<>>, pairs)
    /\ local' = IF frame # StackFrameEmpty THEN SecondPassLedger(ledger) ELSE local
    /\ phase' = "stepping"
    /\ UNCHANGED <<cmd, ledger0, ledger, frame, stack, tbl, success, orig_fp, result,
                   visited, fails, ledger_fp>>

\* local_state.success after an update: every update so far succeeded.
SuccessLast(prev, row) == row = <<>>
Success(prev, row) == prev /\ row = <<>>

\* (mutant) the update's account read from the ledger as the first pass left it
StepStale ==
    /\ phase = "stepping"
    /\ frame # <<>>
    /\ LET n == GetNext(frame, stack)
           u == n.au
           acc == AccountFor(ledger, cmd.acct[u])
           row == Row(cmd, u, acc, ledger[cmd.acct[u]] = Absent)
           l2 == [local EXCEPT ![cmd.acct[u]] = Applied(cmd, u, acc)]
           ok == Success(success, row)
       IN /\ frame' = n.frame /\ stack' = n.stack
          /\ local' = l2
          /\ tbl' = <<row>> \o tbl
          /\ success' = ok
          /\ ledger' = SetSecondPassLedger(n.frame = StackFrameEmpty /\ CallStackIsEmpty(n.stack) /\ ok,
                                           ledger, l2)
          /\ visited' = Append(visited, u)
          /\ fails' = fails @@ (u :> row)
    /\ UNCHANGED <<cmd, ledger0, phase, orig_fp, orig, result, ledger_fp>>


(* One iteration of step_all: zkapps::non_snark::step applies the next    *)
(* account update to the local ledger and conses its failure row onto    *)
(* the table; after the last update the local ledger is written back to  *)
(* the ledger if, and only if, every update succeeded.                   *)
Step ==
    /\ phase = "stepping"
    /\ frame # <<>>
    /\ LET n == GetNext(frame, stack)
           u == n.au
           acc == AccountFor(local, cmd.acct[u])
           row == Row(cmd, u, acc, local[cmd.acct[u]] = Absent)
           l2 == [local EXCEPT ![cmd.acct[u]] = Applied(cmd, u, acc)]
           ok == Success(success, row)
       IN /\ frame' = n.frame /\ stack' = n.stack
          /\ local' = l2
          /\ tbl' = <<row>> \o tbl
          /\ success' = ok
          /\ ledger' = SetSecondPassLedger(n.frame = StackFrameEmpty /\ CallStackIsEmpty(n.stack) /\ ok,
                                           ledger, l2)
          /\ visited' = Append(visited, u)
          /\ fails' = fails @@ (u :> row)
    /\ UNCHANGED <<cmd, ledger0, phase, orig_fp, orig, result, ledger_fp>>

\* The status table: the reversed rows; if any row has a failure, every
\* empty row but the fee payer's (index 0) becomes [Cancelled].
FailureStatusTblNoRev(rev_tbl) ==
    IF FlattenSeq(rev_tbl) = <<>> THEN rev_tbl
    ELSE [i \in 1..Len(rev_tbl) |->
            IF i > 1 /\ rev_tbl[i] = <<>> THEN <<"Cancelled">> ELSE rev_tbl[i]]
FailureStatusTbl(rev_tbl) ==
    LET rows == Reverse(rev_tbl)
    IN IF FlattenSeq(rows) = <<>> THEN rows
       ELSE [i \in 1..Len(rows) |->
               IF i > 1 /\ rows[i] = <<>> THEN <<"Cancelled">> ELSE rows[i]]

(* The rest of apply_zkapp_command_second_pass_aux after step_all: status *)
(* Applied iff no row has a failure; new_accounts are the originally      *)
(* absent ids the ledger now has.  A failed command is an Err if it made  *)
(* new accounts or changed a referenced account since the fee payer; the  *)
(* states to compare with are read only now, from the same ledger, so the *)
(* second half of that check compares the ledger with itself.            *)
Finish ==
    /\ phase = "stepping"
    /\ frame = <<>>
    /\ LET applied == FlattenSeq(tbl) = <<>>
           new_accounts == {i \in DOMAIN orig : orig[i] = Absent /\ ledger[i] # Absent}
           after_fee_payer == [i \in AccountsReferenced(cmd) |-> ledger[i]]
           unchanged == \A i \in DOMAIN after_fee_payer :
                           after_fee_payer[i] = Absent \/ ledger[i] = after_fee_payer[i]
           r == [accounts |-> orig, status |-> IF applied THEN "Applied" ELSE "Failed",
                 tbl |-> FailureStatusTbl(tbl), new_accounts |-> new_accounts]
       IN IF applied \/ (new_accounts = {} /\ unchanged)
          THEN result' = r /\ phase' = "done"
          ELSE result' = [status |-> "Err"] /\ phase' = "err"
    /\ UNCHANGED <<cmd, ledger0, ledger, frame, stack, local, tbl, success, orig_fp, orig,
                   visited, fails, ledger_fp>>

Next == FirstPass \/ SecondPassStart \/ Step \/ Finish

\* Applying a command is one sequential call; each step is taken.
Spec == Init /\ [][Next]_vars /\ WF_vars(Next)

-----------------------------------------------------------------------------

TypeOK ==
    /\ phase \in {"first", "partial", "stepping", "done", "err"}
    /\ \A i \in Ids : ledger[i] = Absent \/ ledger[i] \in Account
    /\ \A i \in Ids : local[i] = Absent \/ local[i] \in Account
    /\ success \in BOOLEAN
    /\ result.status \in {"none", "Err", "Applied", "Failed"}
    /\ result.status \in {"Applied", "Failed"} =>
         /\ result.new_accounts \subseteq Ids
         /\ \A k \in 1..Len(result.tbl) : \A j \in 1..Len(result.tbl[k]) :
              result.tbl[k][j] \in {"Overflow", "AccountBalancePreconditionUnsatisfied",
                                    "AccountNoncePreconditionUnsatisfied",
                                    "AccountIsNewPreconditionUnsatisfied",
                                    "ProtocolStatePreconditionUnsatisfied", "Cancelled"}

\* step_all, with pop_exn and the call stack, visits the account updates in
\* the order of all_account_updates (fee payer first, then each update
\* before its calls), and visits every one of them.
TraversalOrder ==
    /\ IsPrefix(visited, AllAccountUpdatesList(cmd))
    /\ phase = "done" => visited = AllAccountUpdatesList(cmd)

\* The status table of the result has row k for the k-th account update
\* (row 1 the fee payer's): its own failures, or [Cancelled] when another
\* update failed; the status is Applied exactly when no update failed.
StatusTableAligned ==
    phase = "done" =>
      LET rows == result.tbl
          failed == \E i \in 1..Len(visited) : fails[visited[i]] # <<>>
      IN /\ Len(rows) = Len(visited)
         /\ (result.status = "Applied") = ~failed
         /\ \A i \in 1..Len(rows) :
              rows[i] = IF failed /\ i > 1 /\ fails[visited[i]] = <<>>
                        THEN <<"Cancelled">> ELSE fails[visited[i]]

\* A failed command keeps only the fee payer's changes: the ledger is as the
\* first pass left it and no account was created (spec, failure semantics).
FailedCommandRollsBack ==
    phase = "done" /\ result.status = "Failed" =>
      /\ ledger = ledger_fp
      /\ result.new_accounts = {}

\* The stack hashes accumulate_hashes computes from the last element back,
\* and the one cons_tree gives the fee payer in all_account_updates, are
\* those of the recursive definition (zkapp_command.ml's hash of a forest,
\* a right fold of cons over node hashes).
RECURSIVE RefForestHash(_)
RefForestHash(f) ==
    IF f = <<>> THEN Zero
    ELSE ConsHash(NodeHash(AuDigest(Head(f).au), RefForestHash(Head(f).calls)),
                  RefForestHash(Tail(f)))
HashesMatchReference ==
    /\ ConsTreeHash(cmd.forest, [au |-> FeePayerAU, calls |-> <<>>])
         = RefForestHash(AllAccountUpdates(cmd))
    /\ \A i \in 1..Len(cmd.forest) :
         StackHashes(cmd.forest)[i] = RefForestHash(SubSeq(cmd.forest, i, Len(cmd.forest)))

\* The result's accounts are the referenced accounts as they were before the
\* command, the fee payer's included (not as the first pass left it).
OriginalStates ==
    phase = "done" => result.accounts = [i \in AccountsReferenced(cmd) |-> ledger0[i]]

\* A zkApp command gets past the fee payer only if its nonce is the fee
\* payer account's nonce before the command and its valid_until slot has
\* not passed: a replayed command (nonce already used), one ahead of the
\* account, or an expired one is an Err before any account changes.  It
\* takes of_fee_payer's preconditions, their zcheck in the fee payer's row
\* and the first pass's rejection of a failed fee payer together.
FeePayerGuardsReplay ==
    phase \in {"partial", "stepping", "done"} =>
      /\ ledger0[ZkAppFeePayer(cmd)].nonce = ApplicableAtNonce(cmd)
      /\ cmd.valid_until = NoSlot
         \/ StateView.global_slot_since_genesis <= cmd.valid_until

\* Each account update's preconditions are checked against its account as
\* the fee payer's charge (fee and nonce increment of the first pass) and
\* the updates stepped before it, in order, left it, never against the
\* ledger as it was before the command or as the first pass left it: the
\* precondition failures of step's row are those of the reference.
RECURSIVE RefApply(_, _)
RefApply(l, us) ==
    IF us = <<>> THEN l
    ELSE LET id == cmd.acct[Head(us)]
         IN RefApply([l EXCEPT ![id] = Applied(cmd, Head(us), AccountFor(l, id))], Tail(us))
FeeCharged(l) ==
    [l EXCEPT ![FeePayer] = [bal |-> l[FeePayer].bal - cmd.fee, nonce |-> l[FeePayer].nonce + 1]]
PreconditionFailures(row) ==
    SelectSeq(row, LAMBDA f : f # "Overflow")
PreconditionsSeePriorUpdates ==
    phase \in {"stepping", "done"} =>
      \A i \in 2..Len(visited) :
        LET u == visited[i]
            before == RefApply(FeeCharged(ledger0), SubSeq(visited, 2, i - 1))
            id == cmd.acct[u]
        IN PreconditionFailures(fails[u])
             = PreconditionFailures(Row(cmd, u, AccountFor(before, id), before[id] = Absent))

\* The command's transaction hash (hashing.rs, MinaTransactionTransactionStableV2
\* ::hash) does not depend on its signatures or proofs, at any depth of the
\* call forest, but does depend on each authorization's kind: it is the
\* hash of the wire command with every authorization the default of its
\* kind.  The wire command is the model's command with the fee payer's and
\* each update's authorization; the command never changes, so checking it
\* in the initial states covers every command.
RECURSIVE Wire(_, _)
Wire(f, auth) ==
    [i \in DOMAIN f |-> [account_update |-> [body |-> f[i].au, authorization |-> auth[f[i].au]],
                         calls |-> Wire(f[i].calls, auth)]]
WireCommand(c, fp_auth, auth) ==
    [fee_payer |-> [body |-> FeePayerAU, authorization |-> fp_auth],
     account_updates |-> Wire(c.forest, auth)]
AuthSamples == {TH!Proof("p"), TH!Signature("s"), TH!NoneGiven}
DefaultByKind ==
    [Proof |-> TH!DefaultProof, Signature |-> TH!DefaultSignature, NoneGiven |-> TH!NoneGiven]
TxHashIgnoresAuthorization ==
    phase = "first" =>
      \A auth \in [ToSet(ToAccountUpdates(cmd.forest)) -> AuthSamples] :
        LET tx == [kind |-> "Command",
                   cmd |-> [kind |-> "ZkappCommand",
                            cmd |-> WireCommand(cmd, TH!Signature("s"), auth)]]
            ref == WireCommand(cmd, TH!DefaultSignature,
                               [u \in DOMAIN auth |-> DefaultByKind[auth[u].kind]])
        IN TH!MinaTransactionHash(tx) = [ok |-> TH!Blake2b(TH!BinprotWrite(ref))]
=============================================================================
