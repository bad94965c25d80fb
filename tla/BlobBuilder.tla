----------------------------- MODULE BlobBuilder -----------------------------
(* How the sequencer lays out a block in blobs and submits it              *)
(* (blob_builder.rs, block_submitter.rs), how the challenger takes the     *)
(* blobs apart again (common/blob.rs), and what the contract finds there.  *)
(* A field is the name of what was written into it.                        *)
EXTENDS BlobLayout, Sequences

CONSTANTS
    MAX_DEPOSITS,           \* deposits of a block
    MAX_LEAVES,             \* leaves of a block
    MAX_BLOBS_PER_BLOCK,    \* blobs of an L1 transaction
    MaxDepositsTried,       \* bound: deposits of the blocks that are built
    MaxTxsTried             \* bound: transactions of the blocks that are built

ASSUME BuilderAssumption ==
    /\ BLOB_SIZE >= 15
    /\ MAX_DEPOSITS \in Nat /\ MAX_LEAVES \in Nat /\ MAX_BLOBS_PER_BLOCK \in Nat
    /\ MaxDepositsTried \in Nat /\ MaxTxsTried \in Nat

VARIABLES
    numDeposits,      \* deposits of the block being built
    numTransactions,  \* its transactions
    groupIdx,         \* deposit groups written
    txIdx,            \* transactions written
    builtBlobs,       \* the finished blobs
    currentFields,    \* the fields of the current blob
    fieldIdx,         \* the next field to write
    phase             \* "building", "built", "failed", "posted" or "reverted"

blockVars == <<numDeposits, numTransactions>>

builderVars == <<blockVars, groupIdx, txIdx, builtBlobs, currentFields, fieldIdx, phase>>

ZeroField == <<"zero">>

LeafField(i) == IF i < numDeposits THEN <<"leaf", i>> ELSE ZeroField

GroupRootField(g) == <<"groupRoot", g>>

(* The 15 fields of a transaction: eight of the proof, the anchor info,    *)
(* two nullifiers, three leaves and the root.                              *)
TxField(t, k) == <<"tx", t, k>>

Fields == 0 .. BLOB_SIZE - 1

EmptyFields == [f \in Fields |-> ZeroField]

Groups == (numDeposits + 2) \div 3

-----------------------------------------------------------------------------
(* Building.                                                               *)

TotalMemoryLength == Groups * 4 + numTransactions * 15

(* Ceiling division, but a block that ends with a blob needs another one.  *)
RequiredBlobs == TotalMemoryLength \div BLOB_SIZE + 1

IsBuildable ==
    /\ ~(numDeposits = 0 /\ numTransactions = 0)
    /\ numDeposits <= MAX_DEPOSITS
    /\ numDeposits + numTransactions * 3 <= MAX_LEAVES
    /\ RequiredBlobs <= MAX_BLOBS_PER_BLOCK

(* An update that does not fit in the rest of the blob starts a new one.   *)
WriteUpdate(fields) ==
    LET fits == fieldIdx + Len(fields) <= BLOB_SIZE
        start == IF fits THEN fieldIdx ELSE 0
        base == IF fits THEN currentFields ELSE EmptyFields
    IN  /\ builtBlobs' = IF fits THEN builtBlobs ELSE Append(builtBlobs, currentFields)
        /\ currentFields' =
               [f \in Fields |->
                   IF f \in start .. start + Len(fields) - 1 THEN fields[f - start + 1]
                   ELSE base[f]]
        /\ fieldIdx' = start + Len(fields)
        /\ UNCHANGED <<blockVars, phase>>

AddDepositGroup ==
    /\ phase = "building"
    /\ groupIdx < Groups
    /\ WriteUpdate(<<LeafField(3 * groupIdx), LeafField(3 * groupIdx + 1),
                     LeafField(3 * groupIdx + 2), GroupRootField(groupIdx)>>)
    /\ groupIdx' = groupIdx + 1
    /\ UNCHANGED txIdx

AddTransaction ==
    /\ phase = "building"
    /\ groupIdx = Groups
    /\ txIdx < numTransactions
    /\ WriteUpdate([k \in 1 .. 15 |-> TxField(txIdx, k - 1)])
    /\ txIdx' = txIdx + 1
    /\ UNCHANGED groupIdx

FinishBlobs ==
    /\ phase = "building"
    /\ groupIdx = Groups
    /\ txIdx = numTransactions
    /\ builtBlobs' = Append(builtBlobs, currentFields)
    /\ phase' = "built"
    /\ UNCHANGED <<blockVars, groupIdx, txIdx, currentFields, fieldIdx>>

(* post is called with the one blob index 0 whatever was built, and        *)
(* addBlock compares the block's length with the blobs of the call.        *)
BlobIndices == <<0>>

SubmitBlock ==
    /\ phase = "built"
    /\ phase' = IF NumDepositsToMemoryLength(numDeposits) + numTransactions * 15
                       < BLOB_SIZE * Len(BlobIndices)
                THEN "posted" ELSE "reverted"
    /\ UNCHANGED <<blockVars, groupIdx, txIdx, builtBlobs, currentFields, fieldIdx>>

BuilderInit ==
    /\ numDeposits \in 0 .. MaxDepositsTried
    /\ numTransactions \in 0 .. MaxTxsTried
    /\ groupIdx = 0
    /\ txIdx = 0
    /\ builtBlobs = <<>>
    /\ currentFields = EmptyFields
    /\ fieldIdx = 0
    /\ phase = IF IsBuildable THEN "building" ELSE "failed"

BuilderNext == AddDepositGroup \/ AddTransaction \/ FinishBlobs \/ SubmitBlock

BuilderSpec == BuilderInit /\ [][BuilderNext]_builderVars

-----------------------------------------------------------------------------
(* Reading.                                                                *)

ReadField(address) == builtBlobs[address \div BLOB_SIZE + 1][address % BLOB_SIZE]

(* Mutant: the parser rounds the number of groups down.                    *)
ParsedTxStartFloor(t) == (numDeposits \div 3) * 4 + t * 15

ParsedTxStart(t) == Groups * 4 + t * 15

ParsedGroupStart(g) == g * 4

IsBuilt == phase \in {"built", "posted", "reverted"}

(* What the contract finds at each address it opens is what was meant to   *)
(* be there.                                                               *)
ContractFindsAll ==
    /\ \A i \in 0 .. 3 * Groups - 1 :
           ReadField(LeafMemoryAddress(i, numDeposits, TRUE, 0)) = LeafField(i)
    /\ \A g \in 0 .. Groups - 1 :
           /\ ReadField(UpdateMemoryAddress(g, FALSE, numDeposits)) = LeafField(3 * g)
           /\ ReadField(UpdateMemoryAddress(g, FALSE, numDeposits) + 3) = GroupRootField(g)
           /\ g > 0 => ReadField(PriorRootMemoryLocation(g, TRUE, numDeposits)) =
                           GroupRootField(g - 1)
    /\ \A t \in 0 .. numTransactions - 1 :
           /\ \A k \in 0 .. 13 :
                  ReadField(TxMemoryAddress(t, numDeposits) + k) = TxField(t, k)
           /\ \A w \in 0 .. 1 :
                  ReadField(NullifierMemoryAddress(t, numDeposits, w)) = TxField(t, 9 + w)
           /\ \A w \in 0 .. 2 :
                  ReadField(LeafMemoryAddress(t, numDeposits, FALSE, w)) = TxField(t, 11 + w)
           /\ ReadField(UpdateMemoryAddress(t, TRUE, numDeposits) + 3) = TxField(t, 14)
           /\ t > 0 \/ Groups > 0 =>
                  ReadField(PriorRootMemoryLocation(t, FALSE, numDeposits)) =
                      IF t > 0 THEN TxField(t - 1, 14) ELSE GroupRootField(Groups - 1)

(* Whatever the sequencer gets posted reads on the contract's side as it   *)
(* was built: every leaf, root, nullifier and proof is where the           *)
(* challenges look for it, so that no honest block can be challenged for   *)
(* its layout.                                                             *)
PostedIsReadable == phase = "posted" => ContractFindsAll

(* The challenger's parser takes a posted block apart into the fields it   *)
(* was built from.                                                         *)
PostedIsParsed ==
    phase = "posted" =>
        /\ \A g \in 0 .. Groups - 1 :
               /\ \A j \in 0 .. 2 : ReadField(ParsedGroupStart(g) + j) = LeafField(3 * g + j)
               /\ ReadField(ParsedGroupStart(g) + 3) = GroupRootField(g)
        /\ \A t \in 0 .. numTransactions - 1, k \in 0 .. 14 :
               ReadField(ParsedTxStart(t) + k) = TxField(t, k)

Phases == {"building", "built", "failed", "posted", "reverted"}

BuilderTypeOK ==
    /\ numDeposits \in Nat
    /\ numTransactions \in Nat
    /\ groupIdx \in 0 .. Groups
    /\ txIdx \in 0 .. numTransactions
    /\ phase \in Phases

WrittenInOrder ==
    /\ txIdx > 0 \/ IsBuilt => groupIdx = Groups
    /\ IsBuilt => txIdx = numTransactions

GroupsAreWritten ==
    \A g \in 0 .. groupIdx - 1 :
        /\ \A j \in 0 .. 2 : currentFields[4 * g + j] = LeafField(3 * g + j)
        /\ currentFields[4 * g + 3] = GroupRootField(g)

TxsAreWritten ==
    \A t \in 0 .. txIdx - 1 : \A k \in 0 .. 14 :
        currentFields[4 * Groups + 15 * t + k] = TxField(t, k)

OneBlobIsLinear ==
    TotalMemoryLength <= BLOB_SIZE =>
        /\ fieldIdx = 4 * groupIdx + 15 * txIdx
        /\ builtBlobs = IF IsBuilt THEN <<currentFields>> ELSE <<>>
        /\ GroupsAreWritten
        /\ TxsAreWritten

PostedFits == phase = "posted" => TotalMemoryLength < BLOB_SIZE

(* The inductive invariant: as long as the block fits in one blob, what    *)
(* was written lies in it without gaps, in the order of the updates, and   *)
(* only such a block is posted.                                            *)
BuilderInv ==
    /\ BuilderTypeOK
    /\ WrittenInOrder
    /\ OneBlobIsLinear
    /\ PostedFits
=============================================================================
