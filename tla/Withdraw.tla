------------------------------ MODULE Withdraw -------------------------------
(* Withdrawals of L2 outputs to the L1 (Withdraw.sol).                     *)
EXTENDS BlockContent, YieldRouter

VARIABLE withdrawn     \* the <<block number, transaction, output>> already paid

withdrawVars == <<withdrawn>>

(* Mutant: inclusion is enough, the challenge period may still run.        *)
IsIncludedOnly(b) == IsBlockIncluded(b)

IsWithdrawable(b) == IsConfirmed(b)

(* Mutant: the mark of an earlier withdrawal is not looked at.             *)
WithdrawAgain(b, txNr, which) ==
    LET leaf == Tx(b, txNr).leaves[which + 1]
    IN  /\ IsWithdrawable(b)
        /\ txNr < b.numTransactions
        /\ leaf # ZeroLeaf
        /\ leaf.publicKey = 0
        /\ withdrawn' = withdrawn \cup {<<b.blockNr, txNr, which>>}
        /\ TriggerWithdraw(leaf.asset, leaf.amount)
        /\ UNCHANGED spineVars

(* The caller shows the leaf; the opening ties it to the field in the blob.*)
(* Outputs are numbered 0 to 2, so the packed key of the code, txNr * 4 +  *)
(* which, is the pair.                                                     *)
WithdrawLeaf(b, txNr, which) ==
    LET leaf == Tx(b, txNr).leaves[which + 1]
    IN  /\ IsWithdrawable(b)
        /\ <<b.blockNr, txNr, which>> \notin withdrawn
        /\ txNr < b.numTransactions
        /\ leaf # ZeroLeaf
        /\ leaf.publicKey = 0
        /\ withdrawn' = withdrawn \cup {<<b.blockNr, txNr, which>>}
        /\ TriggerWithdraw(leaf.asset, leaf.amount)
        /\ UNCHANGED spineVars
=============================================================================
