------------------------- MODULE TransactionHashing -------------------------
(* Transaction hashes (mina-p2p-messages/src/v2/hashing.rs).  A command  *)
(* is hashed with blake2b over its bin_prot encoding, every authorization *)
(* first replaced by a default one of the same kind, so that the hash     *)
(* names the transaction and not one of its signings.  The encoding and   *)
(* blake2b are constructors: equal inputs, and only those, give equal     *)
(* outputs.  Wire zkApp commands are records                              *)
(*   [fee_payer |-> [body, authorization], account_updates |-> forest],   *)
(* a forest a sequence of [account_update |-> [body, authorization],      *)
(* calls |-> forest]; signed commands are [payload, signer, signature].   *)
EXTENDS Sequences

\* MinaBaseControlStableV2: Proof, Signature or NoneGiven.
Proof(p) == [kind |-> "Proof", value |-> p]
Signature(s) == [kind |-> "Signature", value |-> s]
NoneGiven == [kind |-> "NoneGiven", value |-> "none"]

\* MinaBaseSignatureStableV1(1, 1) and dummy_transaction_proof().
DefaultSignature == Signature("(1, 1)")
DefaultProof == Proof("dummy_transaction_proof")

BinprotWrite(x) == <<"bin_prot", x>>
Blake2b(bytes) == <<"blake2b", bytes>>

\* replace_auth: a proof or a signature becomes the default of its kind.
ReplaceAuth(auth) ==
    CASE auth.kind = "Proof"     -> DefaultProof
      [] auth.kind = "Signature" -> DefaultSignature
      [] OTHER                   -> NoneGiven

\* (mutant) only the top-level updates' authorizations replaced
ReplaceAuthRecursiveShallow(elt) ==
    [elt EXCEPT !.account_update.authorization = ReplaceAuth(@)]

\* replace_auth_recursive: the update's authorization, then its calls'.
RECURSIVE ReplaceAuthRecursive(_)
ReplaceAuthRecursive(elt) ==
    [elt EXCEPT !.account_update.authorization = ReplaceAuth(@),
                !.calls = [i \in DOMAIN @ |-> ReplaceAuthRecursive(@[i])]]

\* ZkappCommand binprot_write_with_default: the fee payer's authorization
\* set to the default signature, every account update's replaced.
ZkappBinprotWriteWithDefault(cmd) ==
    BinprotWrite([cmd EXCEPT !.fee_payer.authorization = DefaultSignature,
                             !.account_updates =
                                [i \in DOMAIN @ |-> ReplaceAuthRecursive(@[i])]])
ZkappHash(cmd) == Blake2b(ZkappBinprotWriteWithDefault(cmd))

\* SignedCommand binprot_write_with_default_sig: payload, signer, default
\* signature in place of the command's.
SignedBinprotWriteWithDefaultSig(cmd) ==
    BinprotWrite(<<cmd.payload, cmd.signer, DefaultSignature>>)
SignedHash(cmd) == Blake2b(SignedBinprotWriteWithDefaultSig(cmd))

\* MinaBaseUserCommandStableV2::hash and MinaTransactionTransactionStableV2::
\* hash: fee transfers and coinbases have no hash (an Unsupported error).
UserCommandHash(uc) ==
    IF uc.kind = "SignedCommand" THEN SignedHash(uc.cmd) ELSE ZkappHash(uc.cmd)
MinaTransactionHash(tx) ==
    IF tx.kind = "Command" THEN [ok |-> UserCommandHash(tx.cmd)]
    ELSE [err |-> "Unsupported"]
=============================================================================
