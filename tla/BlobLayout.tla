----------------------------- MODULE BlobLayout ------------------------------
(* Where the fields of a block are in its blobs, as a memory that runs on  *)
(* from one blob to the next (library/BlobData.sol): groups of three       *)
(* deposits and their root, then the transactions.                         *)
EXTENDS Integers

CONSTANT BLOB_SIZE     \* fields of a blob

ASSUME BlobSizeAssumption == BLOB_SIZE \in Nat

NumDepositsToMemoryLength(num) == (num \div 3 + IF num % 3 = 0 THEN 0 ELSE 1) * 4

TxMemoryAddress(txNumber, numDeposits) == NumDepositsToMemoryLength(numDeposits) + txNumber * 15

(* Mutant: the roots between the groups are not skipped.                   *)
LeafMemoryAddressPacked(number, numDeposits, isDeposit, which) ==
    IF isDeposit THEN number ELSE TxMemoryAddress(number, numDeposits) + 11 + which

LeafMemoryAddress(number, numDeposits, isDeposit, which) ==
    IF isDeposit THEN number + number \div 3
    ELSE TxMemoryAddress(number, numDeposits) + 11 + which

NullifierMemoryAddress(txNumber, numDeposits, which) ==
    TxMemoryAddress(txNumber, numDeposits) + 9 + which

(* Only asked for an update that is not the first of its block.            *)
PriorRootMemoryLocation(number, isDeposit, numDeposits) ==
    IF isDeposit THEN number * 4 - 1 ELSE TxMemoryAddress(number, numDeposits) - 1

(* Where the three leaves and the root of an update start.                 *)
UpdateMemoryAddress(updateNr, isTx, numDeposits) ==
    IF isTx THEN TxMemoryAddress(updateNr, numDeposits) + 11 ELSE updateNr * 4
=============================================================================
