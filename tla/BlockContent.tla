---------------------------- MODULE BlockContent -----------------------------
(* What the blobs of a block say, read the way the contract reads them.    *)
(*                                                                         *)
(* The blobs of a block are one memory of fields; a blob hash stands for   *)
(* what it commits to, so the first hash of a block is the record of its   *)
(* whole memory: deposits (padded to groups of three), the root after each *)
(* group, and the transactions.  BlobLayout shows that the fields named    *)
(* here are distinct places of that memory.  Roots stand for the list of   *)
(* updates they contain.                                                   *)
EXTENDS Spine

CONSTANTS
    ZeroLeaf,   \* the empty field where a leaf goes
    NoKey       \* the Ethereum key of a transaction that has none

Update(b, leaves) == [slot |-> TreeIndex(b), leaves |-> leaves]

(* The root after leaves are inserted in block b: what the circuit of a    *)
(* tree update proves.                                                     *)
TrueRoot(prior, b, leaves) == Append(prior, Update(b, leaves))

Memory(b) == b.blobhashes[1]

(* The number of update groups of the deposits of a block.                 *)
Groups(b) == (b.numDeposits + 2) \div 3

GroupLeaves(b, group) ==
    <<Memory(b).deposits[3 * group + 1], Memory(b).deposits[3 * group + 2],
      Memory(b).deposits[3 * group + 3]>>

Tx(b, txNr) == Memory(b).txs[txNr + 1]

TxNumbers(b) == 0 .. b.numTransactions - 1

(* The anchor a transaction refers to is named by numbers, whatever the    *)
(* bytes are that the blobs of an acceptable block have in its place.      *)
Reference == [blockNr : Nat, updateNr : Nat, isDeposit : BOOLEAN]

ASSUME ContentAssumption ==
    \A d \in Submissions :
        BlobUse(d) < BLOB_SIZE * d.numBlobs =>
            \A txNr \in TxNumbers(d) : Tx(d, txNr).ref \in Reference

GroupNumbers(b) == 0 .. Groups(b) - 1

UpdateNumbers(b, isTx) == IF isTx THEN TxNumbers(b) ELSE GroupNumbers(b)

UpdateLeaves(b, updateNr, isTx) ==
    IF isTx THEN Tx(b, updateNr).leaves ELSE GroupLeaves(b, updateNr)

UpdateRoot(b, updateNr, isTx) ==
    IF isTx THEN Tx(b, updateNr).root ELSE Memory(b).groupRoots[updateNr + 1]

IsFirstUpdate(b, updateNr, isDeposit) ==
    updateNr = 0 /\ (isDeposit \/ b.numDeposits = 0)

(* The root in the blob just before an update that is not the first.       *)
RootBefore(b, updateNr, isDeposit) ==
    IF isDeposit \/ updateNr > 0
    THEN UpdateRoot(b, updateNr - 1, ~isDeposit)
    ELSE UpdateRoot(b, Groups(b) - 1, FALSE)

(* Mutant: the first update of any block may start from any known anchor.  *)
AnyPriorAnchor(anchor, b, updateNr, isDeposit) ==
    IF IsFirstUpdate(b, updateNr, isDeposit)
    THEN IsAnchorIncluded(anchor)
    ELSE anchor = RootBefore(b, updateNr, isDeposit)

(* validatePriorAnchor, Spine.sol *)
ValidPriorAnchor(anchor, b, updateNr, isDeposit) ==
    IF IsFirstUpdate(b, updateNr, isDeposit)
    THEN IsPriorBlockAnchor(anchor, b.blockNr)
    ELSE anchor = RootBefore(b, updateNr, isDeposit)
=============================================================================
