----------------------------- MODULE PartsProofs ------------------------------
(* Proofs about the instances of MCParts, for every value of the constants:*)
(* the registry with the history of challenges, the yield router with the  *)
(* history of claims, the blob providers, and, under its own               *)
(* specification, the blob builder: whatever the sequencer gets posted is  *)
(* laid out as the contract and the challenger read it, for every blob     *)
(* size and every mixture of deposits and transactions.                    *)
EXTENDS MCParts, RegistryProofs

-----------------------------------------------------------------------------
(* The blob builder.                                                       *)

(* The length the contract computes for the deposits is that of their      *)
(* groups.                                                                 *)
LEMMA DepositsLength ==
    ASSUME NEW n \in Nat
    PROVE  /\ (n + 2) \div 3 \in Nat
           /\ NumDepositsToMemoryLength(n) = ((n + 2) \div 3) * 4
BY DEF NumDepositsToMemoryLength

(* A deposit is in its group, at its place.                                *)
LEMMA LeafIsInGroup ==
    ASSUME NEW i \in Nat
    PROVE  \E g \in Nat, j \in 0 .. 2 : i = 3 * g + j /\ i + i \div 3 = 4 * g + j
<1>1. i \div 3 \in Nat /\ i - 3 * (i \div 3) \in 0 .. 2
  OBVIOUS
<1>2. i = 3 * (i \div 3) + (i - 3 * (i \div 3))
  BY <1>1
<1>3. i + i \div 3 = 4 * (i \div 3) + (i - 3 * (i \div 3))
  BY <1>1
<1> QED BY <1>1, <1>2, <1>3

(* An address inside the first blob is read there.                         *)
LEMMA ReadFirstBlob ==
    ASSUME NEW address \in Nat, address < BLOB_SIZE, builtBlobs = <<currentFields>>
    PROVE  ReadField(address) = currentFields[address]
<1>1. address \div BLOB_SIZE = 0 /\ address % BLOB_SIZE = address
  BY BlobSizeAssumption
<1> QED BY <1>1 DEF ReadField

-----------------------------------------------------------------------------
(* The builder starts with nothing written.                                *)
LEMMA BuilderInitInv == ASSUME BuilderInit PROVE BuilderInv
<1>1. Groups \in Nat /\ groupIdx \in 0 .. Groups /\ txIdx \in 0 .. numTransactions
  BY BuilderAssumption DEF BuilderInit, Groups
<1>2. phase \in {"building", "failed"}
  BY DEF BuilderInit
<1>3. BuilderTypeOK
  BY <1>1, <1>2, BuilderAssumption DEF BuilderInit, BuilderTypeOK, Phases
<1>4. WrittenInOrder /\ PostedFits
  BY <1>2 DEF BuilderInit, WrittenInOrder, IsBuilt, PostedFits
<1>5. OneBlobIsLinear
  BY <1>2 DEF BuilderInit, OneBlobIsLinear, IsBuilt, GroupsAreWritten, TxsAreWritten
<1> QED BY <1>3, <1>4, <1>5 DEF BuilderInv

(* Writing n fields that fit behind the others touches no earlier field.   *)
LEMMA WriteFits ==
    ASSUME NEW fields, NEW n \in Nat, Len(fields) = n,
           fieldIdx \in Nat, fieldIdx + n <= BLOB_SIZE, WriteUpdate(fields)
    PROVE  /\ builtBlobs' = builtBlobs
           /\ fieldIdx' = fieldIdx + n
           /\ \A f \in 0 .. fieldIdx - 1 : currentFields'[f] = currentFields[f]
           /\ \A k \in 0 .. n - 1 : currentFields'[fieldIdx + k] = fields[k + 1]
<1>1. /\ builtBlobs' = builtBlobs
      /\ fieldIdx' = fieldIdx + n
      /\ currentFields' =
             [f \in Fields |->
                 IF f \in fieldIdx .. fieldIdx + n - 1 THEN fields[f - fieldIdx + 1]
                 ELSE currentFields[f]]
  BY DEF WriteUpdate
<1>2. ASSUME NEW f \in 0 .. fieldIdx - 1
      PROVE  currentFields'[f] = currentFields[f]
  <2>1. f \in Fields /\ f \notin fieldIdx .. fieldIdx + n - 1
    BY BlobSizeAssumption DEF Fields
  <2> QED BY <2>1, <1>1
<1>3. ASSUME NEW k \in 0 .. n - 1
      PROVE  currentFields'[fieldIdx + k] = fields[k + 1]
  <2>1. /\ fieldIdx + k \in Fields
        /\ fieldIdx + k \in fieldIdx .. fieldIdx + n - 1
        /\ fieldIdx + k - fieldIdx + 1 = k + 1
    BY BlobSizeAssumption DEF Fields
  <2> QED BY <2>1, <1>1
<1> QED BY <1>1, <1>2, <1>3

(* AddDepositGroup preserves the invariant.                                *)
LEMMA GroupPreserves ==
    ASSUME BuilderInv, AddDepositGroup
    PROVE  BuilderInv'
<1> DEFINE new == <<LeafField(3 * groupIdx), LeafField(3 * groupIdx + 1),
                    LeafField(3 * groupIdx + 2), GroupRootField(groupIdx)>>
<1>1. /\ phase = "building" /\ phase' = phase
      /\ groupIdx \in Nat /\ groupIdx < Groups /\ groupIdx' = groupIdx + 1
      /\ txIdx' = txIdx
      /\ numDeposits' = numDeposits /\ numTransactions' = numTransactions
      /\ WriteUpdate(new)
      /\ Groups \in Nat
  BY BuilderInv DEF BuilderInv, BuilderTypeOK, AddDepositGroup, WriteUpdate, blockVars, Groups
<1>2. /\ Groups' = Groups
      /\ TotalMemoryLength' = TotalMemoryLength
      /\ \A i : LeafField(i)' = LeafField(i)
      /\ ~IsBuilt /\ ~IsBuilt'
  BY <1>1 DEF Groups, TotalMemoryLength, LeafField, IsBuilt
<1>3. txIdx = 0
  BY <1>1, BuilderInv DEF BuilderInv, BuilderTypeOK, WrittenInOrder
<1>4. BuilderTypeOK' /\ WrittenInOrder' /\ PostedFits'
  BY <1>1, <1>2, <1>3 DEF BuilderInv, BuilderTypeOK, WrittenInOrder, PostedFits
<1>5. OneBlobIsLinear'
  <2> SUFFICES ASSUME TotalMemoryLength <= BLOB_SIZE
               PROVE  /\ fieldIdx' = 4 * groupIdx' + 15 * txIdx'
                      /\ builtBlobs' = <<>>
                      /\ GroupsAreWritten'
                      /\ TxsAreWritten'
    BY <1>2 DEF OneBlobIsLinear
  <2>1. /\ fieldIdx = 4 * groupIdx
        /\ builtBlobs = <<>>
        /\ GroupsAreWritten
    BY <1>1, <1>2, <1>3 DEF BuilderInv, OneBlobIsLinear
  <2>2. fieldIdx \in Nat /\ fieldIdx + 4 <= BLOB_SIZE
    <3>1. 4 * groupIdx + 4 <= Groups * 4
      BY <1>1
    <3>2. Groups * 4 <= TotalMemoryLength /\ TotalMemoryLength \in Nat
      BY <1>1, BuilderInv DEF TotalMemoryLength, BuilderInv, BuilderTypeOK
    <3> QED BY <3>1, <3>2, <2>1, <1>1, BlobSizeAssumption
  <2>3. /\ builtBlobs' = builtBlobs
        /\ fieldIdx' = fieldIdx + 4
        /\ \A f \in 0 .. fieldIdx - 1 : currentFields'[f] = currentFields[f]
        /\ \A k \in 0 .. 3 : currentFields'[fieldIdx + k] = new[k + 1]
    <3>1. Len(new) = 4 /\ 4 \in Nat
      OBVIOUS
    <3>2. 4 - 1 = 3
      OBVIOUS
    <3> HIDE DEF new
    <3> QED BY <1>1, <2>2, <3>1, <3>2, WriteFits
  <2>4. ASSUME NEW g \in 0 .. groupIdx
        PROVE  /\ \A j \in 0 .. 2 : currentFields'[4 * g + j] = LeafField(3 * g + j)
               /\ currentFields'[4 * g + 3] = GroupRootField(g)
    <3>1. CASE g = groupIdx
      <4>1. /\ new[1] = LeafField(3 * groupIdx) /\ new[2] = LeafField(3 * groupIdx + 1)
            /\ new[3] = LeafField(3 * groupIdx + 2) /\ new[4] = GroupRootField(groupIdx)
        OBVIOUS
      <4>2. /\ currentFields'[4 * g + 0] = new[1] /\ currentFields'[4 * g + 1] = new[2]
            /\ currentFields'[4 * g + 2] = new[3] /\ currentFields'[4 * g + 3] = new[4]
        BY <3>1, <2>1, <2>3
      <4>3. 3 * g + 0 = 3 * groupIdx
        BY <3>1, <1>1
      <4> HIDE DEF new
      <4> QED BY <4>1, <4>2, <4>3, <3>1
    <3>2. CASE g # groupIdx
      <4>1. g \in 0 .. groupIdx - 1 /\ \A j \in 0 .. 3 : 4 * g + j \in 0 .. fieldIdx - 1
        BY <3>2, <2>1, <1>1
      <4>2. \A j \in 0 .. 3 : currentFields'[4 * g + j] = currentFields[4 * g + j]
        BY <4>1, <2>3
      <4>3. /\ \A j \in 0 .. 2 : currentFields[4 * g + j] = LeafField(3 * g + j)
            /\ currentFields[4 * g + 3] = GroupRootField(g)
        BY <4>1, <2>1 DEF GroupsAreWritten
      <4>4. 3 \in 0 .. 3 /\ \A j \in 0 .. 2 : j \in 0 .. 3
        OBVIOUS
      <4> QED BY <4>2, <4>3, <4>4
    <3> QED BY <3>1, <3>2
  <2>5. GroupsAreWritten'
    <3>1. groupIdx' - 1 = groupIdx
      BY <1>1
    <3> QED BY <2>4, <3>1, <1>1 DEF GroupsAreWritten, GroupRootField, LeafField
  <2>6. TxsAreWritten'
    BY <1>1, <1>3 DEF TxsAreWritten
  <2> QED BY <2>1, <2>3, <2>5, <2>6, <1>1, <1>3
<1> QED BY <1>4, <1>5 DEF BuilderInv

(* AddTransaction preserves the invariant.                                 *)
LEMMA TransactionPreserves ==
    ASSUME BuilderInv, AddTransaction
    PROVE  BuilderInv'
<1> DEFINE new == [k \in 1 .. 15 |-> TxField(txIdx, k - 1)]
<1>1. /\ phase = "building" /\ phase' = phase
      /\ groupIdx = Groups /\ groupIdx' = groupIdx
      /\ txIdx \in Nat /\ txIdx < numTransactions /\ txIdx' = txIdx + 1
      /\ numDeposits' = numDeposits /\ numTransactions' = numTransactions
      /\ numTransactions \in Nat
      /\ WriteUpdate(new)
      /\ Groups \in Nat
  BY BuilderInv DEF BuilderInv, BuilderTypeOK, AddTransaction, WriteUpdate, blockVars, Groups
<1>2. /\ Groups' = Groups
      /\ TotalMemoryLength' = TotalMemoryLength
      /\ ~IsBuilt /\ ~IsBuilt'
  BY <1>1 DEF Groups, TotalMemoryLength, IsBuilt
<1>3. BuilderTypeOK' /\ WrittenInOrder' /\ PostedFits'
  BY <1>1, <1>2, BuilderInv DEF BuilderInv, BuilderTypeOK, WrittenInOrder, PostedFits
<1>4. OneBlobIsLinear'
  <2> SUFFICES ASSUME TotalMemoryLength <= BLOB_SIZE
               PROVE  /\ fieldIdx' = 4 * groupIdx' + 15 * txIdx'
                      /\ builtBlobs' = <<>>
                      /\ GroupsAreWritten'
                      /\ TxsAreWritten'
    BY <1>2 DEF OneBlobIsLinear
  <2>1. /\ fieldIdx = 4 * Groups + 15 * txIdx
        /\ builtBlobs = <<>>
        /\ GroupsAreWritten
        /\ TxsAreWritten
    BY <1>1, <1>2 DEF BuilderInv, OneBlobIsLinear
  <2>2. fieldIdx \in Nat /\ fieldIdx + 15 <= BLOB_SIZE
    <3>1. 15 * txIdx + 15 <= numTransactions * 15
      BY <1>1
    <3>2. TotalMemoryLength = Groups * 4 + numTransactions * 15
      BY DEF TotalMemoryLength
    <3> QED BY <3>1, <3>2, <2>1, <1>1, BlobSizeAssumption
  <2>3. /\ builtBlobs' = builtBlobs
        /\ fieldIdx' = fieldIdx + 15
        /\ \A f \in 0 .. fieldIdx - 1 : currentFields'[f] = currentFields[f]
        /\ \A k \in 0 .. 14 : currentFields'[fieldIdx + k] = new[k + 1]
    <3>1. Len(new) = 15 /\ 15 \in Nat
      OBVIOUS
    <3>2. 15 - 1 = 14
      OBVIOUS
    <3> HIDE DEF new
    <3> QED BY <1>1, <2>2, <3>1, <3>2, WriteFits
  <2>4. GroupsAreWritten'
    <3> SUFFICES ASSUME NEW g \in 0 .. groupIdx - 1
                 PROVE  /\ \A j \in 0 .. 2 : currentFields'[4 * g + j] = LeafField(3 * g + j)
                        /\ currentFields'[4 * g + 3] = GroupRootField(g)
      BY <1>1 DEF GroupsAreWritten, LeafField, GroupRootField
    <3>1. \A j \in 0 .. 3 : 4 * g + j \in 0 .. fieldIdx - 1
      BY <1>1, <2>1
    <3>2. \A j \in 0 .. 3 : currentFields'[4 * g + j] = currentFields[4 * g + j]
      BY <3>1, <2>3
    <3>3. 3 \in 0 .. 3 /\ \A j \in 0 .. 2 : j \in 0 .. 3
      OBVIOUS
    <3> QED BY <3>2, <3>3, <2>1 DEF GroupsAreWritten
  <2>5. ASSUME NEW t \in 0 .. txIdx, NEW k \in 0 .. 14
        PROVE  currentFields'[4 * Groups + 15 * t + k] = TxField(t, k)
    <3>1. CASE t = txIdx
      <4>1. new[k + 1] = TxField(txIdx, k)
        BY DEF TxField
      <4>2. 4 * Groups + 15 * t + k = fieldIdx + k
        BY <3>1, <2>1
      <4> HIDE DEF new
      <4> QED BY <4>1, <4>2, <2>3, <3>1
    <3>2. CASE t # txIdx
      <4>1. t \in 0 .. txIdx - 1 /\ 4 * Groups + 15 * t + k \in 0 .. fieldIdx - 1
        BY <3>2, <2>1, <1>1
      <4> QED BY <4>1, <2>1, <2>3 DEF TxsAreWritten
    <3> QED BY <3>1, <3>2
  <2>6. TxsAreWritten'
    <3>1. txIdx' - 1 = txIdx /\ Groups' = Groups
      BY <1>1, <1>2
    <3> SUFFICES ASSUME NEW t \in 0 .. txIdx, NEW k \in 0 .. 14
                 PROVE  currentFields'[4 * Groups + 15 * t + k] = TxField(t, k)
      BY <3>1 DEF TxsAreWritten, TxField
    <3> QED BY <2>5
  <2>7. fieldIdx' = 4 * groupIdx' + 15 * txIdx' /\ builtBlobs' = <<>>
    <3> HIDE DEF new
    <3> QED BY <2>1, <2>2, <2>3, <1>1
  <2> QED BY <2>4, <2>6, <2>7
<1> QED BY <1>3, <1>4 DEF BuilderInv

(* FinishBlobs preserves the invariant.                                    *)
LEMMA FinishPreserves ==
    ASSUME BuilderInv, FinishBlobs
    PROVE  BuilderInv'
<1>1. /\ phase = "building" /\ phase' = "built"
      /\ groupIdx = Groups /\ groupIdx' = groupIdx
      /\ txIdx = numTransactions /\ txIdx' = txIdx
      /\ numDeposits' = numDeposits /\ numTransactions' = numTransactions
      /\ fieldIdx' = fieldIdx /\ currentFields' = currentFields
      /\ builtBlobs' = Append(builtBlobs, currentFields)
  BY DEF FinishBlobs, blockVars
<1>2. /\ Groups' = Groups
      /\ TotalMemoryLength' = TotalMemoryLength
      /\ ~IsBuilt /\ IsBuilt'
  BY <1>1 DEF Groups, TotalMemoryLength, IsBuilt
<1>3. BuilderTypeOK' /\ WrittenInOrder' /\ PostedFits'
  BY <1>1, <1>2, BuilderInv
     DEF BuilderInv, BuilderTypeOK, WrittenInOrder, PostedFits, Phases
<1>4. (GroupsAreWritten => GroupsAreWritten') /\ (TxsAreWritten => TxsAreWritten')
  BY <1>1, <1>2 DEF GroupsAreWritten, TxsAreWritten, LeafField, GroupRootField, TxField
<1>5. builtBlobs = <<>> => builtBlobs' = <<currentFields'>>
  BY <1>1
<1>6. OneBlobIsLinear'
  BY <1>1, <1>2, <1>4, <1>5, BuilderInv DEF BuilderInv, OneBlobIsLinear
<1> QED BY <1>3, <1>6 DEF BuilderInv

(* SubmitBlock preserves the invariant.                                    *)
LEMMA SubmitPreserves ==
    ASSUME BuilderInv, SubmitBlock
    PROVE  BuilderInv'
<1>1. /\ phase = "built" /\ phase' \in {"posted", "reverted"}
      /\ groupIdx' = groupIdx /\ txIdx' = txIdx
      /\ numDeposits' = numDeposits /\ numTransactions' = numTransactions
      /\ fieldIdx' = fieldIdx /\ currentFields' = currentFields /\ builtBlobs' = builtBlobs
  BY DEF SubmitBlock, blockVars
<1>2. /\ Groups' = Groups
      /\ TotalMemoryLength' = TotalMemoryLength
      /\ IsBuilt /\ IsBuilt'
  BY <1>1 DEF Groups, TotalMemoryLength, IsBuilt
<1>3. BuilderTypeOK' /\ WrittenInOrder'
  BY <1>1, <1>2, BuilderInv DEF BuilderInv, BuilderTypeOK, WrittenInOrder, Phases
<1>4. (GroupsAreWritten => GroupsAreWritten') /\ (TxsAreWritten => TxsAreWritten')
  BY <1>1, <1>2 DEF GroupsAreWritten, TxsAreWritten, LeafField, GroupRootField, TxField
<1>5. OneBlobIsLinear'
  BY <1>1, <1>2, <1>4, BuilderInv DEF BuilderInv, OneBlobIsLinear
<1>6. PostedFits'
  <2>1. NumDepositsToMemoryLength(numDeposits) + numTransactions * 15 = TotalMemoryLength
    BY DepositsLength, BuilderInv DEF BuilderInv, BuilderTypeOK, TotalMemoryLength, Groups
  <2>2. phase' = "posted" => TotalMemoryLength < BLOB_SIZE * Len(BlobIndices)
    BY <2>1 DEF SubmitBlock
  <2>3. BLOB_SIZE * Len(BlobIndices) = BLOB_SIZE
    BY BlobSizeAssumption DEF BlobIndices
  <2> QED BY <2>2, <2>3, <1>2 DEF PostedFits
<1> QED BY <1>3, <1>5, <1>6 DEF BuilderInv

-----------------------------------------------------------------------------
(* The invariant holds in every reachable state, for every blob size and   *)
(* every block (blob_builder.rs, build).                                   *)
THEOREM BuilderInvariant == BuilderSpec => []BuilderInv
<1>1. BuilderInit => BuilderInv
  BY BuilderInitInv
<1>2. BuilderInv /\ [BuilderNext]_builderVars => BuilderInv'
  <2>1. ASSUME BuilderInv, UNCHANGED builderVars
        PROVE  BuilderInv'
    BY <2>1 DEF builderVars, blockVars, BuilderInv, BuilderTypeOK, WrittenInOrder,
                OneBlobIsLinear, PostedFits, GroupsAreWritten, TxsAreWritten, IsBuilt,
                Groups, TotalMemoryLength, LeafField
  <2> QED BY <2>1, GroupPreserves, TransactionPreserves, FinishPreserves, SubmitPreserves
          DEF BuilderNext
<1> QED BY <1>1, <1>2, PTL DEF BuilderSpec

(* What a posted block looks like: one blob with every update at its       *)
(* place.                                                                  *)
LEMMA PostedShape ==
    ASSUME BuilderInv, phase = "posted"
    PROVE  /\ Groups \in Nat /\ numTransactions \in Nat /\ numDeposits \in Nat
           /\ \A a \in 0 .. 4 * Groups + 15 * numTransactions - 1 :
                  ReadField(a) = currentFields[a]
           /\ \A g \in 0 .. Groups - 1 :
                  /\ \A j \in 0 .. 2 : ReadField(4 * g + j) = LeafField(3 * g + j)
                  /\ ReadField(4 * g + 3) = GroupRootField(g)
           /\ \A t \in 0 .. numTransactions - 1 : \A k \in 0 .. 14 :
                  ReadField(4 * Groups + 15 * t + k) = TxField(t, k)
<1>1. /\ Groups \in Nat /\ numTransactions \in Nat /\ numDeposits \in Nat
      /\ IsBuilt /\ groupIdx = Groups /\ txIdx = numTransactions
  BY DEF BuilderInv, BuilderTypeOK, WrittenInOrder, IsBuilt, Groups
<1>2. /\ TotalMemoryLength < BLOB_SIZE
      /\ TotalMemoryLength = 4 * Groups + 15 * numTransactions
  BY <1>1 DEF BuilderInv, PostedFits, TotalMemoryLength
<1>3. /\ builtBlobs = <<currentFields>>
      /\ GroupsAreWritten
      /\ TxsAreWritten
  BY <1>1, <1>2, BlobSizeAssumption DEF BuilderInv, OneBlobIsLinear
<1>4. ASSUME NEW a \in 0 .. 4 * Groups + 15 * numTransactions - 1
      PROVE  ReadField(a) = currentFields[a]
  <2>1. a \in Nat /\ a < BLOB_SIZE
    BY <1>1, <1>2, BlobSizeAssumption
  <2> QED BY <2>1, <1>3, ReadFirstBlob
<1>5. ASSUME NEW g \in 0 .. Groups - 1
      PROVE  /\ \A j \in 0 .. 2 : ReadField(4 * g + j) = LeafField(3 * g + j)
             /\ ReadField(4 * g + 3) = GroupRootField(g)
  <2>1. \A j \in 0 .. 3 : 4 * g + j \in 0 .. 4 * Groups + 15 * numTransactions - 1
    BY <1>1
  <2>2. \A j \in 0 .. 3 : ReadField(4 * g + j) = currentFields[4 * g + j]
    BY <2>1, <1>4
  <2>3. 3 \in 0 .. 3 /\ \A j \in 0 .. 2 : j \in 0 .. 3
    OBVIOUS
  <2> QED BY <2>2, <2>3, <1>1, <1>3 DEF GroupsAreWritten
<1>6. ASSUME NEW t \in 0 .. numTransactions - 1, NEW k \in 0 .. 14
      PROVE  ReadField(4 * Groups + 15 * t + k) = TxField(t, k)
  <2>1. 4 * Groups + 15 * t + k \in 0 .. 4 * Groups + 15 * numTransactions - 1
    BY <1>1
  <2> QED BY <2>1, <1>4, <1>3, <1>1 DEF TxsAreWritten
<1> QED BY <1>1, <1>4, <1>5, <1>6

(* Whatever is posted reads on the contract's side as it was built         *)
(* (BlobData.sol against blob_builder.rs): no honest block can be          *)
(* challenged for its layout.                                              *)
THEOREM PostedIsReadableAlways == BuilderSpec => []PostedIsReadable
<1>1. BuilderInv => PostedIsReadable
  <2> SUFFICES ASSUME BuilderInv, phase = "posted"
               PROVE  ContractFindsAll
    BY DEF PostedIsReadable
  <2>1. /\ Groups \in Nat /\ numTransactions \in Nat /\ numDeposits \in Nat
        /\ \A g \in 0 .. Groups - 1 :
               /\ \A j \in 0 .. 2 : ReadField(4 * g + j) = LeafField(3 * g + j)
               /\ ReadField(4 * g + 3) = GroupRootField(g)
        /\ \A t \in 0 .. numTransactions - 1 : \A k \in 0 .. 14 :
               ReadField(4 * Groups + 15 * t + k) = TxField(t, k)
    BY PostedShape
  <2>2. \A t \in Nat : TxMemoryAddress(t, numDeposits) = 4 * Groups + 15 * t
    BY <2>1, DepositsLength DEF TxMemoryAddress, Groups
  <2>3. ASSUME NEW i \in 0 .. 3 * Groups - 1
        PROVE  ReadField(LeafMemoryAddress(i, numDeposits, TRUE, 0)) = LeafField(i)
    <3>1. PICK g \in Nat, j \in 0 .. 2 : i = 3 * g + j /\ i + i \div 3 = 4 * g + j
      BY <2>1, LeafIsInGroup
    <3>2. g \in 0 .. Groups - 1
      BY <3>1, <2>1
    <3> QED BY <3>1, <3>2, <2>1 DEF LeafMemoryAddress
  <2>4. ASSUME NEW g \in 0 .. Groups - 1
        PROVE  /\ ReadField(UpdateMemoryAddress(g, FALSE, numDeposits)) = LeafField(3 * g)
               /\ ReadField(UpdateMemoryAddress(g, FALSE, numDeposits) + 3) = GroupRootField(g)
               /\ g > 0 => ReadField(PriorRootMemoryLocation(g, TRUE, numDeposits)) =
                               GroupRootField(g - 1)
    <3>1. UpdateMemoryAddress(g, FALSE, numDeposits) = 4 * g
      BY <2>1 DEF UpdateMemoryAddress
    <3>2. 4 * g + 0 = 4 * g /\ 3 * g + 0 = 3 * g
      BY <2>1
    <3>3. g > 0 => /\ g - 1 \in 0 .. Groups - 1
                   /\ PriorRootMemoryLocation(g, TRUE, numDeposits) = 4 * (g - 1) + 3
      BY <2>1 DEF PriorRootMemoryLocation
    <3>4. 0 \in 0 .. 2
      OBVIOUS
    <3> QED BY <3>1, <3>2, <3>3, <3>4, <2>1
  <2>5. ASSUME NEW t \in 0 .. numTransactions - 1
        PROVE  /\ \A k \in 0 .. 13 :
                      ReadField(TxMemoryAddress(t, numDeposits) + k) = TxField(t, k)
               /\ \A w \in 0 .. 1 :
                      ReadField(NullifierMemoryAddress(t, numDeposits, w)) = TxField(t, 9 + w)
               /\ \A w \in 0 .. 2 :
                      ReadField(LeafMemoryAddress(t, numDeposits, FALSE, w)) = TxField(t, 11 + w)
               /\ ReadField(UpdateMemoryAddress(t, TRUE, numDeposits) + 3) = TxField(t, 14)
    <3>1. t \in Nat /\ TxMemoryAddress(t, numDeposits) = 4 * Groups + 15 * t
      BY <2>1, <2>2
    <3>2. \A k \in 0 .. 14 : ReadField(TxMemoryAddress(t, numDeposits) + k) = TxField(t, k)
      BY <3>1, <2>1
    <3>3. ASSUME NEW w \in 0 .. 1
          PROVE  ReadField(NullifierMemoryAddress(t, numDeposits, w)) = TxField(t, 9 + w)
      <4>1. /\ 9 + w \in 0 .. 14
            /\ NullifierMemoryAddress(t, numDeposits, w) = TxMemoryAddress(t, numDeposits) + (9 + w)
        BY <3>1, <2>1 DEF NullifierMemoryAddress
      <4> QED BY <4>1, <3>2
    <3>4. ASSUME NEW w \in 0 .. 2
          PROVE  ReadField(LeafMemoryAddress(t, numDeposits, FALSE, w)) = TxField(t, 11 + w)
      <4>1. /\ 11 + w \in 0 .. 14
            /\ LeafMemoryAddress(t, numDeposits, FALSE, w) =
                   TxMemoryAddress(t, numDeposits) + (11 + w)
        BY <3>1, <2>1 DEF LeafMemoryAddress
      <4> QED BY <4>1, <3>2
    <3>5. /\ 14 \in 0 .. 14
          /\ UpdateMemoryAddress(t, TRUE, numDeposits) + 3 = TxMemoryAddress(t, numDeposits) + 14
      BY <3>1, <2>1 DEF UpdateMemoryAddress
    <3>6. \A k \in 0 .. 13 : k \in 0 .. 14
      OBVIOUS
    <3> QED BY <3>2, <3>3, <3>4, <3>5, <3>6
  <2>6. ASSUME NEW t \in 0 .. numTransactions - 1, t > 0 \/ Groups > 0
        PROVE  ReadField(PriorRootMemoryLocation(t, FALSE, numDeposits)) =
                   IF t > 0 THEN TxField(t - 1, 14) ELSE GroupRootField(Groups - 1)
    <3>1. PriorRootMemoryLocation(t, FALSE, numDeposits) = 4 * Groups + 15 * t - 1
      BY <2>1, <2>2 DEF PriorRootMemoryLocation
    <3>2. CASE t > 0
      <4>1. /\ t - 1 \in 0 .. numTransactions - 1 /\ 14 \in 0 .. 14
            /\ 4 * Groups + 15 * t - 1 = 4 * Groups + 15 * (t - 1) + 14
        BY <3>2, <2>1
      <4> QED BY <4>1, <3>1, <3>2, <2>1
    <3>3. CASE t = 0
      <4>1. /\ Groups - 1 \in 0 .. Groups - 1
            /\ 4 * Groups + 15 * t - 1 = 4 * (Groups - 1) + 3
        BY <3>3, <2>6, <2>1
      <4>2. ReadField(4 * (Groups - 1) + 3) = GroupRootField(Groups - 1)
        BY <4>1, <2>1
      <4>3. ~(t > 0)
        BY <3>3
      <4> QED BY <4>1, <4>2, <4>3, <3>1
    <3>4. t > 0 \/ t = 0
      BY <2>1
    <3> QED BY <3>2, <3>3, <3>4
  <2> QED BY <2>3, <2>4, <2>5, <2>6 DEF ContractFindsAll
<1> QED BY <1>1, BuilderInvariant, PTL

(* The challenger's parser takes a posted block apart into the fields it   *)
(* was built from (common/blob.rs against blob_builder.rs).                *)
THEOREM PostedIsParsedAlways == BuilderSpec => []PostedIsParsed
<1>1. BuilderInv => PostedIsParsed
  <2> SUFFICES ASSUME BuilderInv, phase = "posted"
               PROVE  /\ \A g \in 0 .. Groups - 1 :
                             /\ \A j \in 0 .. 2 :
                                    ReadField(ParsedGroupStart(g) + j) = LeafField(3 * g + j)
                             /\ ReadField(ParsedGroupStart(g) + 3) = GroupRootField(g)
                      /\ \A t \in 0 .. numTransactions - 1, k \in 0 .. 14 :
                             ReadField(ParsedTxStart(t) + k) = TxField(t, k)
    BY DEF PostedIsParsed
  <2>1. /\ Groups \in Nat /\ numTransactions \in Nat
        /\ \A g \in 0 .. Groups - 1 :
               /\ \A j \in 0 .. 2 : ReadField(4 * g + j) = LeafField(3 * g + j)
               /\ ReadField(4 * g + 3) = GroupRootField(g)
        /\ \A t \in 0 .. numTransactions - 1 : \A k \in 0 .. 14 :
               ReadField(4 * Groups + 15 * t + k) = TxField(t, k)
    BY PostedShape
  <2>2. ASSUME NEW g \in 0 .. Groups - 1
        PROVE  /\ \A j \in 0 .. 2 : ReadField(ParsedGroupStart(g) + j) = LeafField(3 * g + j)
               /\ ReadField(ParsedGroupStart(g) + 3) = GroupRootField(g)
    <3>1. ParsedGroupStart(g) = 4 * g
      BY <2>1 DEF ParsedGroupStart
    <3> QED BY <3>1, <2>1
  <2>3. ASSUME NEW t \in 0 .. numTransactions - 1, NEW k \in 0 .. 14
        PROVE  ReadField(ParsedTxStart(t) + k) = TxField(t, k)
    <3>1. ParsedTxStart(t) = 4 * Groups + 15 * t
      BY <2>1 DEF ParsedTxStart
    <3> QED BY <3>1, <2>1
  <2> QED BY <2>2, <2>3
<1> QED BY <1>1, BuilderInvariant, PTL

-----------------------------------------------------------------------------
(* The registry with the history of challenges.                            *)

SameReward(new, old) ==
    /\ new.challenger = old.challenger
    /\ new.blocknumberChallenged = old.blocknumberChallenged

Challenge == [by : Accounts, block : Nat \ {0}]

(* The record of each sequencer is that of the lowest block proved against *)
(* it since the record was last deleted.                                   *)
RewardOK ==
    /\ earliest \in [Accounts -> {Nothing} \cup Challenge]
    /\ \A who \in Accounts :
           /\ earliest[who].by = sequencers[who].challenger
           /\ earliest[who] # Nothing =>
                  earliest[who].block = sequencers[who].blocknumberChallenged

(* Only the payouts change who is rewarded, and they delete the record.    *)
LEMMA CallKeepsReward ==
    ASSUME RegistryInv, RegistryCall, UNCHANGED now
    PROVE  \A x \in Accounts : \/ SameReward(sequencers'[x], sequencers[x])
                               \/ sequencers'[x] = DeletedStatus
<1>1. sequencers \in [Accounts -> SequencerStatus] /\ RegistryTypeOK
  BY DEF RegistryInv, RegistryTypeOK
<1>2. ASSUME NEW who \in Accounts, NEW wei \in FundAmounts, Fund(who, wei)
      PROVE  \A x \in Accounts : SameReward(sequencers'[x], sequencers[x])
  <2> DEFINE raised == sequencers[who].stakeAmount + wei \div STAKE_DIVISOR
  <2>1. sequencers' = [sequencers EXCEPT ![who].isActive = TRUE, ![who].stakeAmount = raised]
    BY <1>2 DEF Fund, Funded
  <2> HIDE DEF raised
  <2> QED BY <1>1, <2>1 DEF SequencerStatus, SameReward
<1>3. ASSUME NEW who \in Accounts, NEW amount, PayAndDelete(who, amount)
      PROVE  \A x \in Accounts : \/ SameReward(sequencers'[x], sequencers[x])
                                 \/ sequencers'[x] = DeletedStatus
  BY <1>1, <1>3 DEF PayAndDelete, SameReward
<1>4. ASSUME NEW who \in Accounts, ClaimChallengeReward(who) \/ Exit(who)
      PROVE  \A x \in Accounts : \/ SameReward(sequencers'[x], sequencers[x])
                                 \/ sequencers'[x] = DeletedStatus
  BY <1>3, <1>4 DEF ClaimChallengeReward, Exit, Refunded
<1>5. ASSUME NEW who \in Accounts, RegisterExit(who)
      PROVE  \A x \in Accounts : SameReward(sequencers'[x], sequencers[x])
  <2> DEFINE left == [sequencers[who] EXCEPT !.isActive = FALSE]
             statuses == [sequencers EXCEPT ![who] = left]
  <2>1. left \in SequencerStatus /\ SameReward(left, sequencers[who])
    BY <1>1 DEF SequencerStatus, SameReward
  <2>2. LeaveList(statuses, who)
    BY <1>1, <1>5 DEF RegisterExit
  <2> HIDE DEF left
  <2>3. /\ statuses \in [Accounts -> SequencerStatus]
        /\ \A x \in Accounts : SameReward(statuses[x], sequencers[x])
    BY <1>1, <2>1 DEF SameReward
  <2> HIDE DEF statuses
  <2>4. \A x \in Accounts : SameChallenge(sequencers'[x], statuses[x])
    BY <1>1, <2>2, <2>3, LeaveListFacts
  <2> QED BY <2>3, <2>4 DEF SameReward, SameChallenge
<1>6. ASSUME NEW who \in Accounts, AddFirstLook(who)
      PROVE  \A x \in Accounts : SameReward(sequencers'[x], sequencers[x])
  BY <1>6, AddedStatuses DEF SameChallenge, SameReward
<1>7. ASSUME NEW which \in 0 .. Len(firstLookSequencers) - 1, RemoveFirstLook(which)
      PROVE  \A x \in Accounts : SameReward(sequencers'[x], sequencers[x])
  <2>1. /\ firstLookSequencers \in Seq(Accounts) /\ which \in Nat
        /\ which < Len(firstLookSequencers) /\ sequencers' = Unlisted(sequencers, which)
    BY <1>1, <1>7 DEF RemoveFirstLook, RegistryTypeOK
  <2> QED BY <1>1, <2>1, UnlistedFacts DEF SameChallenge, SameReward
<1>8. ASSUME UNCHANGED sequencers
      PROVE  \A x \in Accounts : SameReward(sequencers'[x], sequencers[x])
  BY <1>8 DEF SameReward
<1> QED BY <1>2, <1>4, <1>5, <1>6, <1>7, <1>8 DEF RegistryCall, UpdateStakeRequirement

(* ... and slash only that of the slashed one.                             *)
LEMMA SlashSetsReward ==
    ASSUME RegistryInv, NEW who \in Accounts, NEW n \in Nat, NEW sender \in Accounts,
           Slash(who, n, sender)
    PROVE  LET onRecord == sequencers[who].blocknumberChallenged
           IN  /\ \A x \in Accounts \ {who} : SameReward(sequencers'[x], sequencers[x])
               /\ IF onRecord = 0 \/ onRecord > n
                  THEN /\ sequencers'[who].challenger = sender
                       /\ sequencers'[who].blocknumberChallenged = n
                  ELSE SameReward(sequencers'[who], sequencers[who])
<1> DEFINE onRecord == sequencers[who].blocknumberChallenged
           isEarliest == onRecord = 0 \/ onRecord > n
           status == SlashedStatus(who, n, sender, isEarliest)
           statuses == [sequencers EXCEPT ![who] = status]
<1>1. sequencers \in [Accounts -> SequencerStatus] /\ RegistryTypeOK
  BY DEF RegistryInv, RegistryTypeOK
<1>2. LeaveList(statuses, who)
  BY DEF Slash
<1>3. /\ status \in SequencerStatus
      /\ IF isEarliest THEN status.challenger = sender /\ status.blocknumberChallenged = n
         ELSE SameReward(status, sequencers[who])
  <2>1. status \in SequencerStatus
    BY SlashedStatusFacts
  <2>2. sequencers[who] \in SequencerStatus
    BY <1>1
  <2> HIDE DEF isEarliest
  <2>3. /\ status.challenger = IF isEarliest THEN sender ELSE sequencers[who].challenger
        /\ status.blocknumberChallenged =
               IF isEarliest THEN n ELSE sequencers[who].blocknumberChallenged
    BY <2>2 DEF SlashedStatus, SequencerStatus
  <2> QED BY <2>1, <2>3 DEF SameReward
<1> HIDE DEF status
<1>4. /\ statuses \in [Accounts -> SequencerStatus] /\ statuses[who] = status
      /\ \A x \in Accounts \ {who} : statuses[x] = sequencers[x]
  BY <1>1, <1>3
<1> HIDE DEF statuses
<1>5. \A x \in Accounts : SameChallenge(sequencers'[x], statuses[x])
  BY <1>1, <1>2, <1>4, LeaveListFacts
<1>6. /\ SameReward(sequencers'[who], status)
      /\ \A x \in Accounts \ {who} : SameReward(sequencers'[x], sequencers[x])
  BY <1>4, <1>5 DEF SameChallenge, SameReward
<1> QED BY <1>3, <1>6 DEF SameReward

(* The history follows the records.                                        *)
LEMMA RewardStep ==
    ASSUME RegistryInv, RewardOK, RegistryInv', MCRegistryNext
    PROVE  RewardOK'
<1>1. /\ earliest \in [Accounts -> {Nothing} \cup Challenge]
      /\ \A x \in Accounts :
             /\ earliest[x].by = sequencers[x].challenger
             /\ earliest[x] # Nothing => earliest[x].block = sequencers[x].blocknumberChallenged
  BY DEF RewardOK
<1>2. \A x \in Accounts : InOrder(sequencers[x]) /\ InOrder(sequencers'[x])
  BY DEF RegistryInv
<1>3. Nothing.by = NoOne /\ NoOne \notin Accounts
  BY RegistryAssumption DEF Nothing
<1>4. CASE RegistryCall /\ earliest' = Forgotten /\ UNCHANGED now
  <2>1. earliest' = [x \in Accounts |->
            IF sequencers'[x].timestampChallenged = 0 THEN Nothing ELSE earliest[x]]
    BY <1>4 DEF Forgotten
  <2>2. earliest' \in [Accounts -> {Nothing} \cup Challenge]
    BY <1>1, <2>1
  <2>3. ASSUME NEW x \in Accounts
        PROVE  /\ earliest'[x].by = sequencers'[x].challenger
               /\ earliest'[x] # Nothing =>
                      earliest'[x].block = sequencers'[x].blocknumberChallenged
    <3>1. CASE sequencers'[x].timestampChallenged = 0
      <4>1. earliest'[x] = Nothing
        BY <2>1, <3>1
      <4>2. sequencers'[x].challenger = NoOne
        BY <1>2, <3>1 DEF InOrder
      <4> QED BY <1>3, <4>1, <4>2
    <3>2. CASE sequencers'[x].timestampChallenged # 0
      <4>1. earliest'[x] = earliest[x]
        BY <2>1, <3>2
      <4>2. SameReward(sequencers'[x], sequencers[x])
        BY <1>4, <3>2, CallKeepsReward DEF DeletedStatus
      <4> QED BY <1>1, <4>1, <4>2 DEF SameReward
    <3> QED BY <3>1, <3>2
  <2> QED BY <2>2, <2>3 DEF RewardOK
<1>5. ASSUME NEW who \in Accounts, NEW sender \in Accounts, NEW n \in SlashBlocks,
             Slash(who, n, sender),
             earliest' = IF earliest[who] = Nothing \/ n < earliest[who].block
                         THEN [earliest EXCEPT ![who] = [by |-> sender, block |-> n]]
                         ELSE earliest
      PROVE  RewardOK'
  <2>1. n \in Nat /\ n # 0
    BY PartsAssumption
  <2> DEFINE onRecord == sequencers[who].blocknumberChallenged
             c == [by |-> sender, block |-> n]
  <2>2. c \in Challenge /\ c.by = sender /\ c.block = n
    BY <2>1 DEF Challenge
  <2> HIDE DEF c
  <2>3. (earliest[who] = Nothing \/ n < earliest[who].block) <=> (onRecord = 0 \/ onRecord > n)
    <3>1. CASE earliest[who] = Nothing
      <4>1. sequencers[who].challenger = NoOne
        BY <1>1, <1>3, <3>1
      <4> QED BY <1>2, <3>1, <4>1 DEF InOrder
    <3>2. CASE earliest[who] # Nothing
      <4>1. earliest[who].block = onRecord /\ earliest[who].block \in Nat \ {0}
        BY <1>1, <3>2 DEF Challenge
      <4> QED BY <2>1, <3>2, <4>1
    <3> QED BY <3>1, <3>2
  <2>4. /\ \A x \in Accounts \ {who} : SameReward(sequencers'[x], sequencers[x])
        /\ IF onRecord = 0 \/ onRecord > n
           THEN sequencers'[who].challenger = sender /\ sequencers'[who].blocknumberChallenged = n
           ELSE SameReward(sequencers'[who], sequencers[who])
    BY <1>5, <2>1, SlashSetsReward
  <2>5. CASE onRecord = 0 \/ onRecord > n
    <3>1. earliest' = [earliest EXCEPT ![who] = c]
      BY <1>5, <2>3, <2>5 DEF c
    <3> QED BY <1>1, <2>2, <2>4, <2>5, <3>1 DEF RewardOK, SameReward
  <2>6. CASE ~(onRecord = 0 \/ onRecord > n)
    <3>1. earliest' = earliest
      BY <1>5, <2>3, <2>6
    <3> QED BY <1>1, <2>4, <2>6, <3>1 DEF RewardOK, SameReward
  <2> QED BY <2>5, <2>6
<1>6. CASE UNCHANGED <<registryVars, earliest>>
  BY <1>6 DEF RewardOK, registryVars
<1> QED BY <1>4, <1>5, <1>6 DEF MCRegistryNext

-----------------------------------------------------------------------------
(* The router with the history of claims.                                  *)

ClaimsOf(t) == {c \in DOMAIN claims : c[3] = t}

(* The shares of an epoch add up to at most one.                           *)
SharesOK ==
    /\ shares \in [Epochs -> [Claimants -> Nat]]
    /\ \A e \in Epochs : Total(shares[e], Claimants) <= FIXED_BASE

(* A claim was paid at most what it would be paid now.                     *)
ClaimsOK ==
    /\ claims \in [paidOut -> Nat]
    /\ IsFiniteSet(paidOut)
    /\ \A c \in paidOut :
           /\ c \in Claimants \X Epochs \X Tokens
           /\ Period(c[2]) \in Periods
           /\ claims[c] <= Claim(c[3], c[2], shares[c[2]][c[1]])

(* Before a loss the principal exceeds the value by the claims at most.    *)
CoverOK ==
    ~lost => \A t \in Tokens :
                 IF HasSource(t) THEN priorBalances[t] - Invested(t) <= Total(claims, ClaimsOf(t))
                 ELSE priorBalances[t] = 0

RouterInv == RouterTypeOK /\ SharesOK /\ ClaimsOK /\ CoverOK

(* The shares of every table are such.                                     *)
LEMMA TablesAreShares ==
    /\ \A f \in ShareTables : shares = f => SharesOK
    /\ shares = NoShares => SharesOK
<1>1. ASSUME NEW f \in ShareTables, shares = f PROVE SharesOK
  <2>1. /\ f \in [Epochs -> [Claimants -> Nat]]
        /\ \A e \in Epochs : MapThenSumSet(LAMBDA who : f[e][who], Claimants) <= FIXED_BASE
    BY SharesAssumption
  <2>2. ASSUME NEW e \in Epochs PROVE Total(f[e], Claimants) <= FIXED_BASE
    <3> DEFINE g == f[e]
    <3>1. MapThenSumSet(LAMBDA who : g[who], Claimants) <= FIXED_BASE
      BY <2>1
    <3> HIDE DEF g
    <3>2. Total(g, Claimants) <= FIXED_BASE
      BY <3>1, TotalIsMapThenSum
    <3> QED BY <3>2 DEF g
  <2> QED BY <1>1, <2>1, <2>2 DEF SharesOK
<1>2. ASSUME shares = NoShares PROVE SharesOK
  <2> DEFINE g == [who \in Claimants |-> 0]
  <2>1. IsFiniteSet(Claimants) /\ \A who \in Claimants : g[who] \in Nat /\ g[who] <= 0
    BY PartsAssumption
  <2>2. \A e \in Epochs : shares[e] = g
    BY <1>2 DEF NoShares
  <2>3. shares \in [Epochs -> [Claimants -> Nat]]
    BY <1>2 DEF NoShares
  <2> HIDE DEF g
  <2>4. /\ Total(g, Claimants) <= Cardinality(Claimants) * 0 /\ Total(g, Claimants) \in Nat
        /\ Cardinality(Claimants) \in Nat
    BY <2>1, TotalWithin, TotalIsSum, FS_CardinalityType
  <2>5. Total(g, Claimants) <= FIXED_BASE
    BY <2>4, RouterAssumption
  <2> QED BY <2>2, <2>3, <2>5 DEF SharesOK
<1> QED BY <1>1, <1>2

(* The claims for one token.                                               *)
LEMMA ClaimsOfFacts ==
    ASSUME ClaimsOK, NEW t
    PROVE  /\ IsFiniteSet(ClaimsOf(t))
           /\ \A c \in ClaimsOf(t) : claims[c] \in Nat
           /\ Total(claims, ClaimsOf(t)) \in Nat
<1>1. ClaimsOf(t) \in SUBSET paidOut /\ \A c \in ClaimsOf(t) : claims[c] \in Nat
  BY DEF ClaimsOf, ClaimsOK
<1>2. IsFiniteSet(ClaimsOf(t))
  BY <1>1, FS_Subset DEF ClaimsOK
<1> QED BY <1>1, <1>2, TotalIsSum

(* More yield for a period does not make its claims smaller.               *)
LEMMA ClaimsKept ==
    ASSUME RouterTypeOK, RouterTypeOK', SharesOK, ClaimsOK,
           UNCHANGED <<shares, claims, paidOut>>,
           \A t \in Tokens, p \in Periods :
               periodPayouts[t][p] # 0 => periodPayouts'[t][p] = periodPayouts[t][p]
    PROVE  ClaimsOK'
<1> SUFFICES ASSUME NEW c \in paidOut PROVE claims[c] <= Claim(c[3], c[2], shares[c[2]][c[1]])'
  BY DEF ClaimsOK
<1> DEFINE t == c[3]
           p == Period(c[2])
           share == shares[c[2]][c[1]]
<1>1. /\ t \in Tokens /\ p \in Periods /\ claims[c] \in Nat
      /\ claims[c] <= Claim(t, c[2], share)
  BY DEF ClaimsOK
<1>2. /\ Claim(t, c[2], share) =
             ((periodPayouts[t][p] \div EPOCHS_PER_PERIOD) * share) \div FIXED_BASE
      /\ Claim(c[3], c[2], shares[c[2]][c[1]])' =
             ((periodPayouts'[t][p] \div EPOCHS_PER_PERIOD) * share) \div FIXED_BASE
  BY DEF Claim, Period
<1>3. share \in Nat
  <2>1. c[1] \in Claimants /\ c[2] \in Epochs
    BY DEF ClaimsOK
  <2> QED BY <2>1 DEF SharesOK
<1>4. periodPayouts[t][p] \in Nat /\ periodPayouts'[t][p] \in Nat
  BY <1>1 DEF RouterTypeOK
<1> HIDE DEF share, t, p
<1>5. CASE periodPayouts[t][p] # 0
  BY <1>1, <1>2, <1>5
<1>6. CASE periodPayouts[t][p] = 0
  <2> DEFINE q == periodPayouts'[t][p] \div EPOCHS_PER_PERIOD
  <2>1. q \in Nat
    BY <1>4, RouterAssumption, QuotientIsNat
  <2> HIDE DEF q
  <2>2. (q * share) \div FIXED_BASE \in Nat
    BY <1>3, <2>1, RouterAssumption, QuotientIsNat
  <2>3. 0 \div EPOCHS_PER_PERIOD = 0 /\ 0 * share = 0 /\ 0 \div FIXED_BASE = 0
    BY <1>3, RouterAssumption
  <2>4. claims[c] = 0
    BY <1>1, <1>2, <1>6, <2>3
  <2> QED BY <1>2, <2>2, <2>4 DEF q
<1> QED BY <1>5, <1>6

(* Every step of the router keeps the claims below what they would be now. *)
LEMMA RouterClaimsStep ==
    ASSUME RouterTypeOK, SharesOK, ClaimsOK, MCRouterNext
    PROVE  RouterTypeOK' /\ ClaimsOK' /\ UNCHANGED shares
<1> SUFFICES RouterTypeOK' /\ ClaimsOK'
  BY DEF MCRouterNext, Quietly, routerHistory
<1>1. \A a \in Amounts : a \in Nat
  BY PartsAssumption
<1>2. ASSUME NEW t \in Tokens, NEW a \in Amounts,
             Quietly(TriggerDeposit(t, a)) \/ Quietly(TriggerWithdraw(t, a))
      PROVE  RouterTypeOK' /\ ClaimsOK'
  <2>1. RouterTypeOK' /\ UNCHANGED <<shares, claims, paidOut, periodPayouts>>
    BY <1>1, <1>2, TriggerDepositFacts, TriggerWithdrawFacts DEF Quietly, routerHistory
  <2> QED BY <2>1, ClaimsKept
<1>3. ASSUME NEW t \in Tokens, NEW a \in Amounts,
             Quietly(Donate(t, a)) \/ Quietly(SetMaxInterest(t, a))
      PROVE  RouterTypeOK' /\ ClaimsOK'
  <2>1. /\ idle' \in [Tokens -> Nat] /\ maxInterest' \in [Tokens -> Nat]
        /\ UNCHANGED <<sources, value, tracked, priorBalances, periodPayouts, reportedPeriod,
                       paidOut, claims, shares>>
    <3>1. /\ a \in Nat /\ idle \in [Tokens -> Nat] /\ maxInterest \in [Tokens -> Nat]
      BY <1>1 DEF RouterTypeOK
    <3>2. CASE Quietly(Donate(t, a))
      BY <3>1, <3>2 DEF Quietly, routerHistory, Donate
    <3>3. CASE Quietly(SetMaxInterest(t, a))
      BY <3>1, <3>3 DEF Quietly, routerHistory, SetMaxInterest
    <3> QED BY <1>3, <3>2, <3>3
  <2>2. RouterTypeOK'
    BY <2>1 DEF RouterTypeOK
  <2> QED BY <2>1, <2>2, ClaimsKept
<1>4. ASSUME NEW t \in Tokens, NEW v \in Vaults, Quietly(ChangeYieldSource(t, v))
      PROVE  RouterTypeOK' /\ ClaimsOK'
  <2>1. RouterTypeOK' /\ UNCHANGED <<shares, claims, paidOut, periodPayouts>>
    BY <1>4, MigrationFacts DEF Quietly, routerHistory
  <2> QED BY <2>1, ClaimsKept
<1>5. ASSUME NEW ts \in SUBSET Tokens, Quietly(ChangeTrackedYieldSources(ts))
      PROVE  RouterTypeOK' /\ ClaimsOK'
  <2>1. RouterTypeOK' /\ UNCHANGED <<shares, claims, paidOut, periodPayouts>>
    BY <1>5 DEF Quietly, routerHistory, ChangeTrackedYieldSources, RouterTypeOK
  <2> QED BY <2>1, ClaimsKept
<1>6. ASSUME NEW ts \in SUBSET Tokens, CurrentPeriod \in Periods, Record(ts),
             reportedPeriod' \subseteq Periods,
             UNCHANGED <<routerConfig, sources, value, paidOut, claims, shares>>
      PROVE  RouterTypeOK' /\ ClaimsOK'
  <2>1. RouterTypeOK'
    BY <1>6, RecordFacts DEF RouterTypeOK, routerConfig
  <2>2. \A t \in Tokens, p \in Periods :
            periodPayouts[t][p] # 0 => periodPayouts'[t][p] = periodPayouts[t][p]
    BY <1>6, RecordFacts
  <2> QED BY <1>6, <2>1, <2>2, ClaimsKept
<1>7. CASE Quietly(Poke)
  <2>1. tracked \in SUBSET Tokens /\ reportedPeriod \subseteq Periods
    BY DEF RouterTypeOK
  <2>2. /\ CurrentPeriod \in Periods /\ Record(tracked)
        /\ reportedPeriod' = reportedPeriod \cup {CurrentPeriod}
        /\ UNCHANGED <<routerConfig, sources, value, paidOut, claims, shares>>
    BY <1>7 DEF Quietly, routerHistory, Poke
  <2> QED BY <1>6, <2>1, <2>2
<1>8. ASSUME NEW t \in Tokens, Quietly(RecognizeYield(t))
      PROVE  RouterTypeOK' /\ ClaimsOK'
  <2>1. {t} \in SUBSET Tokens /\ reportedPeriod \subseteq Periods
    BY DEF RouterTypeOK
  <2>2. /\ CurrentPeriod \in Periods /\ Record({t})
        /\ UNCHANGED <<routerConfig, sources, value, paidOut, claims, shares, reportedPeriod>>
    BY <1>8 DEF Quietly, routerHistory, RecognizeYield
  <2> QED BY <1>6, <2>1, <2>2
<1>9. ASSUME NEW t \in Tokens, NEW s \in Claimants, NEW e \in Epochs, NEW b, NEW f,
             SequencerWithdrawAsset(t, s, e, b, f, shares[e][s]),
             claims' = [c \in DOMAIN claims \cup {<<s, e, t>>} |->
                           IF c = <<s, e, t>> THEN Claim(t, e, shares[e][s]) ELSE claims[c]],
             UNCHANGED shares
      PROVE  RouterTypeOK' /\ ClaimsOK'
  <2> DEFINE k == <<s, e, t>>
             Now(c) == Claim(c[3], c[2], shares[c[2]][c[1]])
  <2>1. e \in Nat /\ shares[e][s] \in Nat
    BY PartsAssumption DEF SharesOK
  <2>2. /\ RouterTypeOK' /\ Period(e) \in Periods /\ Claim(t, e, shares[e][s]) \in Nat
        /\ paidOut' = paidOut \cup {k} /\ UNCHANGED periodPayouts
    BY <1>9, <2>1, ClaimedFacts
  <2>3. claims \in [paidOut -> Nat] /\ IsFiniteSet(paidOut')
    BY <2>2, FS_AddElement DEF ClaimsOK
  <2>4. k \in Claimants \X Epochs \X Tokens /\ Period(k[2]) \in Periods
        /\ Claim(t, e, shares[e][s]) = Now(k) /\ Now(k) \in Nat
    BY <2>2
  <2>5. \A c \in paidOut : /\ c \in Claimants \X Epochs \X Tokens /\ Period(c[2]) \in Periods
                           /\ claims[c] <= Now(c)
    BY DEF ClaimsOK
  <2>6. \A c : Now(c)' = Now(c) /\ Period(c[2])' = Period(c[2])
    BY <1>9, <2>2 DEF Claim, Period
  <2>7. claims' = [c \in paidOut \cup {k} |-> IF c = k THEN Now(k) ELSE claims[c]]
    <3>1. DOMAIN claims = paidOut
      BY <2>3
    <3> HIDE DEF Now
    <3> QED BY <1>9, <2>4, <3>1
  <2>8. ClaimsOK' <=> /\ (claims \in [paidOut -> Nat])' /\ IsFiniteSet(paidOut')
                      /\ \A c \in paidOut' : /\ c \in Claimants \X Epochs \X Tokens
                                             /\ Period(c[2])' \in Periods
                                             /\ claims'[c] <= Now(c)'
    BY DEF ClaimsOK
  <2> HIDE DEF k, Now
  <2>9. /\ claims' \in [paidOut' -> Nat] /\ claims'[k] = Now(k)
        /\ \A c \in paidOut \ {k} : claims'[c] = claims[c]
    BY <2>2, <2>3, <2>4, <2>7
  <2>10. Now(k) <= Now(k)
    BY <2>4
  <2>11. \A c \in paidOut' : /\ c \in Claimants \X Epochs \X Tokens /\ Period(c[2]) \in Periods
                             /\ claims'[c] <= Now(c)
    BY <2>2, <2>4, <2>5, <2>9, <2>10
  <2> QED BY <2>2, <2>3, <2>6, <2>8, <2>9, <2>11
<1>10. ASSUME NEW t \in Tokens, NEW v \in Vaults, NEW worth \in 0 .. MaxValue,
              VaultReturn(t, v, worth), UNCHANGED <<claims, shares>>
       PROVE  RouterTypeOK' /\ ClaimsOK'
  <2>1. worth \in Nat
    BY RouterAssumption
  <2>2. RouterTypeOK' /\ UNCHANGED <<shares, claims, paidOut, periodPayouts>>
    BY <1>10, <2>1, ReturnFacts
  <2> QED BY <2>2, ClaimsKept
<1>11. CASE UNCHANGED <<routerVars, routerHistory>>
  <2>1. RouterTypeOK' /\ UNCHANGED <<shares, claims, paidOut, periodPayouts>>
    BY <1>11 DEF RouterTypeOK, routerVars, routerHistory
  <2> QED BY <2>1, ClaimsKept
<1>12. CASE \E t \in Tokens, a \in Amounts :
                \/ Quietly(TriggerDeposit(t, a)) \/ Quietly(TriggerWithdraw(t, a))
                \/ Quietly(Donate(t, a)) \/ Quietly(SetMaxInterest(t, a))
  BY <1>2, <1>3, <1>12
<1> QED BY <1>4, <1>5, <1>7, <1>8, <1>9, <1>10, <1>11, <1>12 DEF MCRouterNext

(* A new claim adds what it pays to the claims of its token.               *)
LEMMA ClaimsOfMore ==
    ASSUME ClaimsOK, NEW k, k \notin paidOut, NEW n \in Nat,
           claims' = [c \in paidOut \cup {k} |-> IF c = k THEN n ELSE claims[c]],
           NEW x
    PROVE  Total(claims', ClaimsOf(x)') =
               IF k[3] = x THEN Total(claims, ClaimsOf(x)) + n ELSE Total(claims, ClaimsOf(x))
<1> DEFINE S == ClaimsOf(x)
<1>1. IsFiniteSet(S) /\ (\A c \in S : claims[c] \in Nat) /\ Total(claims, S) \in Nat
  BY ClaimsOfFacts
<1>2. DOMAIN claims = paidOut
  BY DEF ClaimsOK
<1>3. k \notin S /\ ClaimsOf(x)' = IF k[3] = x THEN S \cup {k} ELSE S
  BY <1>2 DEF ClaimsOf
<1>4. claims'[k] = n /\ \A c \in S : claims'[c] = claims[c]
  BY <1>2 DEF ClaimsOf
<1> DEFINE f == claims'
<1> HIDE DEF S
<1>5. Total(f, S) = Total(claims, S)
  BY <1>1, <1>4, TotalOfSame
<1>6. CASE k[3] = x
  <2>1. \A c \in S \cup {k} : f[c] \in Nat
    BY <1>1, <1>4
  <2>2. Total(f, S \cup {k}) = f[k] + Total(f, S)
    <3> HIDE DEF f
    <3> QED BY <1>1, <1>3, <2>1, TotalOfMore
  <2> QED BY <1>1, <1>3, <1>4, <1>5, <1>6, <2>2 DEF S
<1>7. CASE k[3] # x
  BY <1>3, <1>5, <1>7 DEF S
<1> QED BY <1>6, <1>7

(* Every step of the router keeps the principal covered.                   *)
LEMMA RouterCoverStep ==
    ASSUME RouterInv, MCRouterNext
    PROVE  CoverOK'
<1>1. RouterTypeOK /\ SharesOK /\ ClaimsOK /\ RouterTypeOK' /\ ClaimsOK'
  BY RouterClaimsStep DEF RouterInv
<1>2. /\ sources \in [Tokens -> Vaults \cup {NoVault}]
      /\ value \in [Tokens -> [Vaults -> Nat]] /\ priorBalances \in [Tokens -> Nat]
  BY <1>1 DEF RouterTypeOK
<1>3. \A a \in Amounts : a \in Nat
  BY PartsAssumption
<1>4. SUFFICES ASSUME ~lost', NEW x \in Tokens
               PROVE  IF sources'[x] # NoVault
                      THEN priorBalances'[x] - value'[x][sources'[x]] <=
                               Total(claims', ClaimsOf(x)')
                      ELSE priorBalances'[x] = 0
  BY DEF CoverOK, HasSource, Invested
<1>5. ~lost
  BY <1>4 DEF MCRouterNext, Quietly, routerHistory
<1> DEFINE T == Total(claims, ClaimsOf(x))
           gap == priorBalances[x] - value[x][sources[x]]
<1>6. /\ T \in Nat
      /\ sources[x] # NoVault => /\ value[x][sources[x]] \in Nat /\ gap \in Int /\ gap <= T
      /\ sources[x] = NoVault => priorBalances[x] = 0
  <2>1. T \in Nat
    BY <1>1, ClaimsOfFacts
  <2>2. sources[x] # NoVault => value[x][sources[x]] \in Nat
    BY <1>2
  <2> QED BY <1>2, <1>5, <2>1, <2>2 DEF RouterInv, CoverOK, HasSource, Invested
<1>7. ASSUME UNCHANGED claims PROVE Total(claims', ClaimsOf(x)') = T
  BY <1>7 DEF ClaimsOf
<1> HIDE DEF T
<1>8. ASSUME NEW t \in Tokens, NEW a \in Amounts, Quietly(TriggerDeposit(t, a))
      PROVE  IF sources'[x] # NoVault
             THEN priorBalances'[x] - value'[x][sources'[x]] <= Total(claims', ClaimsOf(x)')
             ELSE priorBalances'[x] = 0
  <2>1. /\ sources' = sources /\ claims' = claims
        /\ \/ /\ sources[x] # NoVault
              /\ value'[x][sources[x]] = value[x][sources[x]] + a
              /\ priorBalances'[x] = priorBalances[x] + a
           \/ /\ sources[x] # NoVault => value'[x][sources[x]] = value[x][sources[x]]
              /\ priorBalances'[x] = priorBalances[x]
    BY <1>1, <1>3, <1>8, TriggerDepositFacts DEF Quietly, routerHistory, HasSource, Invested
  <2>2. a \in Nat /\ priorBalances[x] \in Nat
    BY <1>2, <1>3
  <2> QED BY <1>6, <1>7, <2>1, <2>2
<1>9. ASSUME NEW t \in Tokens, NEW a \in Amounts, Quietly(TriggerWithdraw(t, a))
      PROVE  IF sources'[x] # NoVault
             THEN priorBalances'[x] - value'[x][sources'[x]] <= Total(claims', ClaimsOf(x)')
             ELSE priorBalances'[x] = 0
  <2>1. PICK paid \in Nat :
        /\ sources' = sources /\ claims' = claims
        /\ \/ /\ sources[x] # NoVault
              /\ value'[x][sources[x]] = value[x][sources[x]] - paid
              /\ priorBalances'[x] = priorBalances[x] - paid
           \/ /\ sources[x] # NoVault => value'[x][sources[x]] = value[x][sources[x]]
              /\ priorBalances'[x] = priorBalances[x]
    BY <1>1, <1>3, <1>9, TriggerWithdrawFacts DEF Quietly, routerHistory, HasSource, Invested
  <2>2. priorBalances[x] \in Nat
    BY <1>2
  <2> QED BY <1>6, <1>7, <2>1, <2>2
<1>10. ASSUME UNCHANGED <<sources, value, priorBalances, claims>>
       PROVE  IF sources'[x] # NoVault
              THEN priorBalances'[x] - value'[x][sources'[x]] <= Total(claims', ClaimsOf(x)')
              ELSE priorBalances'[x] = 0
  BY <1>6, <1>7, <1>10
<1>11. ASSUME NEW t \in Tokens, NEW v \in Vaults, Quietly(ChangeYieldSource(t, v))
       PROVE  IF sources'[x] # NoVault
              THEN priorBalances'[x] - value'[x][sources'[x]] <= Total(claims', ClaimsOf(x)')
              ELSE priorBalances'[x] = 0
  <2>1. /\ sources'[t] \in Vaults /\ value'[t][sources'[t]] \in Nat
        /\ sources[t] # NoVault => value'[t][sources'[t]] >= value[t][sources[t]]
        /\ \A y \in Tokens \ {t} : sources'[y] = sources[y] /\ value'[y] = value[y]
        /\ UNCHANGED priorBalances /\ claims' = claims
    BY <1>1, <1>11, MigrationFacts DEF Quietly, routerHistory, HasSource, Invested
  <2>2. CASE x = t
    <3>1. priorBalances[x] \in Nat /\ sources'[x] # NoVault
      BY <1>2, <2>1, <2>2, RouterAssumption
    <3> QED BY <1>6, <1>7, <2>1, <2>2, <3>1
  <2>3. CASE x # t
    BY <1>6, <1>7, <2>1, <2>3
  <2> QED BY <2>2, <2>3
<1>12. ASSUME NEW ts \in SUBSET Tokens, CurrentPeriod \in Periods, Record(ts),
              UNCHANGED <<sources, value, claims>>
       PROVE  IF sources'[x] # NoVault
              THEN priorBalances'[x] - value'[x][sources'[x]] <= Total(claims', ClaimsOf(x)')
              ELSE priorBalances'[x] = 0
  <2>1. \/ priorBalances'[x] = priorBalances[x]
        \/ HasSource(x) /\ priorBalances'[x] = priorBalances[x] + Yield(x)
    BY <1>1, <1>12, RecordFacts
  <2>2. CASE priorBalances'[x] = priorBalances[x]
    BY <1>6, <1>7, <1>12, <2>2
  <2>3. CASE HasSource(x) /\ priorBalances'[x] = priorBalances[x] + Yield(x)
    <3> DEFINE worth == value[x][sources[x]]
    <3>1. worth \in Nat /\ priorBalances[x] \in Nat /\ maxInterest[x] \in Nat
      BY <1>1, <1>2, <1>6, <2>3 DEF HasSource, RouterTypeOK
    <3>2. Yield(x) = LET gain == IF worth >= priorBalances[x] THEN worth - priorBalances[x] ELSE 0
                     IN  IF maxInterest[x] # 0 /\ gain > maxInterest[x] THEN maxInterest[x] ELSE gain
      BY DEF Yield, Invested
    <3> HIDE DEF worth
    <3>3. IF worth >= priorBalances[x] THEN priorBalances[x] + Yield(x) <= worth ELSE Yield(x) = 0
      BY <3>1, <3>2
    <3>4. Yield(x) \in Nat
      BY <3>1, <3>2
    <3> QED BY <1>6, <1>7, <1>12, <2>3, <3>1, <3>3, <3>4 DEF worth, HasSource
  <2> QED BY <2>1, <2>2, <2>3
<1>13. ASSUME NEW t \in Tokens, NEW s \in Claimants, NEW e \in Epochs, NEW b, NEW f,
              SequencerWithdrawAsset(t, s, e, b, f, shares[e][s]),
              claims' = [c \in DOMAIN claims \cup {<<s, e, t>>} |->
                            IF c = <<s, e, t>> THEN Claim(t, e, shares[e][s]) ELSE claims[c]]
       PROVE  IF sources'[x] # NoVault
              THEN priorBalances'[x] - value'[x][sources'[x]] <= Total(claims', ClaimsOf(x)')
              ELSE priorBalances'[x] = 0
  <2> DEFINE k == <<s, e, t>>
             n == Claim(t, e, shares[e][s])
  <2>1. e \in Nat /\ shares[e][s] \in Nat
    BY <1>1, PartsAssumption DEF SharesOK
  <2>2. /\ sources[t] # NoVault /\ n \in Nat /\ k \notin paidOut
        /\ value'[t][sources'[t]] = value[t][sources[t]] - n
        /\ x # t /\ sources[x] # NoVault => value'[x][sources'[x]] = value[x][sources[x]]
        /\ UNCHANGED <<sources, priorBalances>>
    <3>1. /\ HasSource(t) /\ n \in Nat /\ k \notin paidOut
          /\ Invested(t)' = Invested(t) - n
          /\ \A y \in Tokens \ {t} : HasSource(y) => Invested(y)' = Invested(y)
          /\ UNCHANGED <<sources, priorBalances>>
      BY <1>1, <1>13, <2>1, ClaimedFacts
    <3> HIDE DEF n, k
    <3> QED BY <3>1 DEF HasSource, Invested
  <2>3. DOMAIN claims = paidOut /\ k[3] = t
    BY <1>1 DEF ClaimsOK
  <2> HIDE DEF n
  <2>4. claims' = [c \in paidOut \cup {k} |-> IF c = k THEN n ELSE claims[c]]
    BY <1>13, <2>3 DEF n
  <2> HIDE DEF k
  <2>5. Total(claims', ClaimsOf(x)') = IF t = x THEN T + n ELSE T
    BY <1>1, <2>2, <2>3, <2>4, ClaimsOfMore DEF T
  <2>6. priorBalances[x] \in Nat
    BY <1>2
  <2>7. CASE x = t
    BY <1>6, <2>2, <2>5, <2>6, <2>7
  <2>8. CASE x # t
    BY <1>6, <2>2, <2>5, <2>6, <2>8
  <2> QED BY <2>7, <2>8
<1>14. ASSUME NEW t \in Tokens, NEW v \in Vaults, NEW worth \in 0 .. MaxValue,
              VaultReturn(t, v, worth), lost' = (lost \/ worth < value[t][v]), UNCHANGED claims
       PROVE  IF sources'[x] # NoVault
              THEN priorBalances'[x] - value'[x][sources'[x]] <= Total(claims', ClaimsOf(x)')
              ELSE priorBalances'[x] = 0
  <2>1. worth \in Nat /\ value[t][v] \in Nat
    BY <1>2, RouterAssumption
  <2>2. worth >= value[t][v]
    <3>1. ~(worth < value[t][v])
      BY <1>4, <1>14, Zenon
    <3> QED BY <2>1, <3>1
  <2>3. /\ UNCHANGED <<sources, priorBalances>>
        /\ sources[x] # NoVault => value'[x][sources'[x]] >= value[x][sources[x]]
    <3>1. /\ UNCHANGED <<sources, priorBalances>>
          /\ \A y \in Tokens : HasSource(y) => Invested(y)' >= Invested(y)
      BY <1>1, <1>14, <2>1, <2>2, ReturnFacts
    <3> QED BY <3>1 DEF HasSource, Invested
  <2>4. priorBalances[x] \in Nat /\ (sources'[x] # NoVault => value'[x][sources'[x]] \in Nat)
    BY <1>1, <1>2 DEF RouterTypeOK
  <2> QED BY <1>6, <1>7, <1>14, <2>3, <2>4
<1>15. CASE UNCHANGED <<routerVars, routerHistory>>
  BY <1>10, <1>15 DEF routerVars, routerHistory
<1>16. ASSUME NEW t \in Tokens, NEW a \in Amounts,
              Quietly(Donate(t, a)) \/ Quietly(SetMaxInterest(t, a))
       PROVE  UNCHANGED <<sources, value, priorBalances, claims>>
  BY <1>16 DEF Quietly, routerHistory, Donate, SetMaxInterest
<1>17. ASSUME NEW ts \in SUBSET Tokens, Quietly(ChangeTrackedYieldSources(ts))
       PROVE  UNCHANGED <<sources, value, priorBalances, claims>>
  BY <1>17 DEF Quietly, routerHistory, ChangeTrackedYieldSources
<1>18. CASE Quietly(Poke)
  <2>1. tracked \in SUBSET Tokens
    BY <1>1 DEF RouterTypeOK
  <2> QED BY <1>12, <1>18, <2>1 DEF Quietly, routerHistory, Poke
<1>19. ASSUME NEW t \in Tokens, Quietly(RecognizeYield(t))
       PROVE  IF sources'[x] # NoVault
              THEN priorBalances'[x] - value'[x][sources'[x]] <= Total(claims', ClaimsOf(x)')
              ELSE priorBalances'[x] = 0
  <2>1. {t} \in SUBSET Tokens
    OBVIOUS
  <2> QED BY <1>12, <1>19, <2>1 DEF Quietly, routerHistory, RecognizeYield
<1>20. CASE \E t \in Tokens, a \in Amounts :
                \/ Quietly(TriggerDeposit(t, a)) \/ Quietly(TriggerWithdraw(t, a))
                \/ Quietly(Donate(t, a)) \/ Quietly(SetMaxInterest(t, a))
  BY <1>8, <1>9, <1>10, <1>16, <1>20
<1> QED BY <1>10, <1>11, <1>13, <1>14, <1>15, <1>17, <1>18, <1>19, <1>20 DEF MCRouterNext

-----------------------------------------------------------------------------
(* What the claims of one period come to.                                  *)

(* A period has so many epochs.                                            *)
LEMMA EpochsOfPeriod ==
    ASSUME NEW p \in Nat
    PROVE  \E K : /\ IsFiniteSet(K) /\ Cardinality(K) = EPOCHS_PER_PERIOD
                  /\ \A e \in Nat : Period(e) = p => e \in K
<1> DEFINE E == EPOCHS_PER_PERIOD
           low == E * p
           high == low + (E - 1)
<1>1. E \in Nat \ {0}
  BY RouterAssumption
<1>2. low \in Nat
  BY <1>1
<1>3. ASSUME NEW a \in Nat, Period(a) = p PROVE a \in low .. high
  <2>1. a \div E = p
    BY <1>3 DEF Period
  <2> HIDE DEF E
  <2>2. E * (a \div E) <= a /\ a < E * (a \div E) + E
    BY <1>1, QuotientBounds
  <2>3. low <= a /\ a < low + E
    BY <2>1, <2>2
  <2> HIDE DEF low
  <2> QED BY <1>1, <1>2, <2>3
<1>4. low \in Int /\ high \in Int /\ ~(low > high) /\ high - low + 1 = E
  <2> HIDE DEF E, low
  <2> QED BY <1>1, <1>2
<1> HIDE DEF low, high
<1>5. IsFiniteSet(low .. high) /\ Cardinality(low .. high) = E
  BY <1>4, FS_Interval
<1> QED BY <1>3, <1>5

(* Claimants paid by their shares of one quota are paid the quota at most. *)
LEMMA QuotaOfEpoch ==
    ASSUME SharesOK, NEW q \in Nat, NEW t, NEW e \in Epochs, NEW S, IsFiniteSet(S),
           S \subseteq Claimants \X {e} \X {t}, NEW g,
           \A c \in S : g[c] \in Nat /\ g[c] <= (q * shares[e][c[1]]) \div FIXED_BASE
    PROVE  Total(g, S) <= q
<1> DEFINE f == shares[e]
           w == [c \in S |-> f[c[1]]]
           i == [c \in S |-> c[1]]
           b == FIXED_BASE
<1>1. /\ IsFiniteSet(Claimants) /\ b \in Nat \ {0}
      /\ \A who \in Claimants : f[who] \in Nat
      /\ Total(f, Claimants) <= b
  BY PartsAssumption, RouterAssumption DEF SharesOK
<1>2. \A c \in S : c[1] \in Claimants /\ c = <<c[1], e, t>>
  OBVIOUS
<1> HIDE DEF f
<1>3. \A c \in S : w[c] \in Nat /\ w[c] = f[i[c]]
  BY <1>1, <1>2
<1>4. \A c \in S : g[c] \in Nat /\ b * g[c] <= q * w[c]
  <2> SUFFICES ASSUME NEW c \in S PROVE b * g[c] <= q * w[c]
    OBVIOUS
  <2> DEFINE n == w[c]
             m == g[c]
             r == (q * n) \div b
  <2>1. n \in Nat /\ m \in Nat /\ m <= r
    BY <1>3 DEF f
  <2> HIDE DEF n, m
  <2>2. r \in Nat /\ b * r <= q * n
    BY <1>1, <2>1, ShareOfQuota
  <2> HIDE DEF r, b
  <2>3. b * m <= b * r /\ b * m \in Nat /\ b * r \in Nat /\ q * n \in Nat
    BY <1>1, <2>1, <2>2
  <2> DEFINE x == b * m
             y == b * r
             z == q * n
  <2> HIDE DEF x, y, z
  <2>4. x <= y /\ y <= z /\ x \in Nat /\ y \in Nat /\ z \in Nat
    BY <2>2, <2>3 DEF x, y, z
  <2>5. x <= z
    BY <2>4
  <2> QED BY <2>5 DEF x, z, m, n
<1>5. i \in Injection(S, Claimants)
  <2>1. i \in [S -> Claimants] /\ \A c, d \in S : i[c] = i[d] => c = d
    BY <1>2
  <2> HIDE DEF i
  <2> QED BY <2>1 DEF Injection, IsInjective
<1> HIDE DEF w, i, b
<1>6. b * Total(g, S) <= q * Total(w, S)
  BY <1>1, <1>3, <1>4, TotalInProportion
<1>7. Total(w, S) <= Total(f, Claimants)
  <2>1. \A c \in S : w[c] \in Nat /\ w[c] <= f[i[c]]
    BY <1>3
  <2> QED BY <1>1, <1>5, <2>1, TotalInjected
<1> DEFINE x == Total(g, S)
           y == Total(w, S)
<1>8. x \in Nat /\ y \in Nat /\ Total(f, Claimants) \in Nat
  BY <1>1, <1>3, <1>4, TotalIsSum
<1>9. y <= b /\ b * x <= q * y
  BY <1>1, <1>6, <1>7, <1>8
<1> HIDE DEF x, y
<1>10. q * y <= q * b
  BY <1>1, <1>8, <1>9
<1>11. b * x <= b * q
  <2>1. b * x \in Nat /\ q * y \in Nat /\ q * b \in Nat /\ q * b = b * q
    BY <1>1, <1>8
  <2> DEFINE k == b * x
             l == q * y
             m == q * b
  <2>2. k \in Nat /\ l \in Nat /\ m \in Nat /\ k <= l /\ l <= m
    BY <1>9, <1>10, <2>1
  <2> HIDE DEF k, l, m
  <2>3. k <= m
    BY <2>2
  <2> QED BY <2>1, <2>3 DEF k, m
<1>12. x <= q
  <2>1. \A n \in Nat : b * n <= b * q => n <= q
    BY <1>1
  <2> QED BY <1>8, <1>11, <2>1
<1> QED BY <1>12 DEF x

(* The claims against a period stay within its yield.                      *)
LEMMA ClaimsWithin ==
    ASSUME RouterInv, NEW t \in Tokens, NEW p \in Periods
    PROVE  Total(claims, {c \in DOMAIN claims : c[3] = t /\ Period(c[2]) = p}) <=
               periodPayouts[t][p]
<1> DEFINE S == {c \in DOMAIN claims : c[3] = t /\ Period(c[2]) = p}
           P == periodPayouts[t][p]
           E == EPOCHS_PER_PERIOD
           q == P \div E
           key == [c \in S |-> c[2]]
<1>1. /\ P \in Nat /\ E \in Nat \ {0} /\ p \in Nat
      /\ claims \in [paidOut -> Nat] /\ IsFiniteSet(paidOut)
      /\ \A c \in paidOut : /\ c \in Claimants \X Epochs \X Tokens
                            /\ claims[c] <= Claim(c[3], c[2], shares[c[2]][c[1]])
  BY RouterAssumption DEF RouterInv, RouterTypeOK, ClaimsOK
<1>2. /\ S \subseteq paidOut /\ S \subseteq Claimants \X Epochs \X {t}
      /\ \A c \in S : /\ c[2] \in Epochs /\ Period(c[2]) = p /\ claims[c] \in Nat
                      /\ claims[c] <= Claim(t, c[2], shares[c[2]][c[1]])
  BY <1>1
<1>3. \A c \in S : claims[c] <= (q * shares[c[2]][c[1]]) \div FIXED_BASE
  BY <1>2 DEF Claim
<1>4. IsFiniteSet(S)
  BY <1>1, <1>2, FS_Subset
<1> HIDE DEF S, P
<1>5. q \in Nat /\ E * q <= P
  BY <1>1, QuotientBounds
<1> HIDE DEF q
<1>6. PICK K : IsFiniteSet(K) /\ Cardinality(K) = E /\ \A e \in Nat : Period(e) = p => e \in K
  BY <1>1, EpochsOfPeriod
<1>7. \A c \in S : key[c] \in K
  BY <1>2, <1>6, PartsAssumption
<1> DEFINE h == [e \in K |-> Total(claims, {c \in S : key[c] = e})]
<1>8. ASSUME NEW e \in K PROVE h[e] \in Nat /\ h[e] <= q
  <2> DEFINE R == {c \in S : key[c] = e}
  <2>1. IsFiniteSet(R) /\ R \subseteq S
    BY <1>4, FS_Subset
  <2>2. \A c \in R : /\ claims[c] \in Nat /\ c[2] = e
                     /\ claims[c] <= (q * shares[e][c[1]]) \div FIXED_BASE
    BY <1>2, <1>3
  <2>3. CASE e \in Epochs
    <3>1. R \subseteq Claimants \X {e} \X {t}
      BY <1>2
    <3> HIDE DEF R
    <3>2. Total(claims, R) \in Nat /\ Total(claims, R) <= q
      BY <1>5, <2>1, <2>2, <2>3, <3>1, QuotaOfEpoch, TotalIsSum DEF RouterInv
    <3> QED BY <3>2 DEF R
  <2>4. CASE e \notin Epochs
    <3>1. R = {}
      BY <1>2, <2>4
    <3> HIDE DEF R
    <3>2. Total(claims, R) = 0
      BY <3>1, TotalOfNothing
    <3> QED BY <1>5, <3>2 DEF R
  <2> QED BY <2>3, <2>4
<1>9. Total(claims, S) = Total(h, K)
  <2>1. \A c \in S : claims[c] \in Nat
    BY <1>2
  <2> HIDE DEF key
  <2> QED BY <1>4, <1>6, <1>7, <2>1, TotalByGroup
<1> HIDE DEF h, E
<1>10. Total(h, K) <= E * q /\ Total(h, K) \in Nat
  BY <1>5, <1>6, <1>8, TotalWithin, TotalIsSum
<1> DEFINE x == Total(h, K)
           y == E * q
<1>11. x \in Nat /\ y \in Nat /\ x <= y /\ y <= P
  BY <1>1, <1>5, <1>10
<1> HIDE DEF x, y
<1>12. x <= P
  BY <1>1, <1>11
<1> QED BY <1>9, <1>12 DEF x, S, P

-----------------------------------------------------------------------------
(* The parts side by side.                                                 *)

PartsInv == RegistryInv /\ RewardOK /\ RouterInv

(* The parts start in their invariants.                                    *)
LEMMA PartsInitial == ASSUME MCInit PROVE PartsInv
<1>1. RegistryInv
  BY RegistryInitial DEF MCInit
<1>2. RewardOK
  BY DEF MCInit, RegistryInit, RewardOK, Nothing, DeletedStatus
<1>3. RouterTypeOK
  BY DEF MCInit, RouterInit, RouterTypeOK
<1>4. ClaimsOK
  <2>1. claims = <<>> /\ paidOut = {}
    BY DEF MCInit, RouterInit
  <2> QED BY <2>1, FS_EmptySet DEF ClaimsOK
<1>5. CoverOK
  BY DEF MCInit, RouterInit, CoverOK, HasSource
<1>6. SharesOK
  BY TablesAreShares DEF MCInit
<1> QED BY <1>1, <1>2, <1>3, <1>4, <1>5, <1>6 DEF PartsInv, RouterInv

(* Each part moves alone.                                                  *)
partsVars == <<part, now, registryVars, earliest, routerVars, routerHistory, builderVars,
               providerVars>>

(* Every step of a part keeps its invariant.                               *)
LEMMA PartsStep ==
    ASSUME PartsInv, [MCNext]_partsVars
    PROVE  PartsInv'
<1>1. ASSUME UNCHANGED <<routerVars, routerHistory>> PROVE RouterInv'
  <2>1. RouterInv /\ UNCHANGED <<sources, value, idle, tracked, priorBalances, periodPayouts,
                                 reportedPeriod, paidOut, maxInterest, shares, claims, lost>>
    BY <1>1 DEF PartsInv, routerVars, routerHistory
  <2>2. RouterTypeOK'
    BY <2>1 DEF RouterInv, RouterTypeOK
  <2>3. ClaimsOK'
    BY <2>1, <2>2, ClaimsKept DEF RouterInv
  <2>4. CoverOK'
    BY <2>1 DEF RouterInv, CoverOK, HasSource, Invested, ClaimsOf
  <2>5. SharesOK'
    BY <2>1 DEF RouterInv, SharesOK
  <2> QED BY <2>2, <2>3, <2>4, <2>5 DEF RouterInv
<1>2. ASSUME UNCHANGED registryVars, UNCHANGED now \/ Tick, UNCHANGED earliest
      PROVE  RegistryInv' /\ RewardOK'
  <2>1. RegistryInv'
    BY <1>2, RegistryInvStep DEF PartsInv, RegistryNext
  <2>2. RewardOK'
    BY <1>2 DEF PartsInv, RewardOK, registryVars
  <2> QED BY <2>1, <2>2
<1>3. CASE MCRegistryNext /\ UNCHANGED <<routerVars, routerHistory>>
  <2>1. [RegistryNext]_<<now, registryVars>>
    BY <1>3, PartsAssumption DEF MCRegistryNext, RegistryNext
  <2>2. RegistryInv'
    BY <2>1, RegistryInvStep DEF PartsInv
  <2>3. RewardOK'
    BY <1>3, <2>2, RewardStep DEF PartsInv
  <2> QED BY <1>1, <1>3, <2>2, <2>3 DEF PartsInv
<1>4. CASE MCRouterNext /\ UNCHANGED <<registryVars, earliest>>
  <2>1. RouterInv'
    <3>1. RouterTypeOK' /\ ClaimsOK' /\ UNCHANGED shares
      BY <1>4, RouterClaimsStep DEF PartsInv, RouterInv
    <3>2. CoverOK'
      BY <1>4, RouterCoverStep DEF PartsInv
    <3>3. SharesOK'
      BY <3>1 DEF PartsInv, RouterInv, SharesOK
    <3> QED BY <3>1, <3>2, <3>3 DEF RouterInv
  <2>2. UNCHANGED now \/ Tick
    BY <1>4 DEF MCRouterNext, Quietly
  <2> QED BY <1>2, <1>4, <2>1, <2>2 DEF PartsInv
<1>5. CASE UNCHANGED <<now, registryVars, earliest, routerVars, routerHistory>>
  BY <1>1, <1>2, <1>5 DEF PartsInv
<1> QED BY <1>3, <1>4, <1>5 DEF MCNext, partsVars

(* The inductive invariant of the parts.                                   *)
THEOREM PartsInvariant == MCSpec => []PartsInv
<1>1. MCInit => PartsInv
  BY PartsInitial
<1>2. PartsInv /\ [MCNext]_partsVars => PartsInv'
  BY PartsStep
<1> QED BY <1>1, <1>2, PTL DEF MCSpec, partsVars

(* Whoever proved fraud at the lowest block is the one on record for the   *)
(* reward, in whatever order challenges, payouts and exits come.           *)
THEOREM EarliestIsRewarded == MCSpec => []EarliestFraudWins
<1>1. PartsInv => EarliestFraudWins
  BY DEF PartsInv, RewardOK, EarliestFraudWins
<1> QED BY <1>1, PartsInvariant, PTL

(* What sequencers claim for the epochs of a period never exceeds the      *)
(* yield on record for it.                                                 *)
THEOREM PayoutsStayWithinYield == MCSpec => []PayoutsWithinYield
<1>1. PartsInv => PayoutsWithinYield
  <2> SUFFICES ASSUME RouterInv, NEW t \in Tokens, NEW p \in Periods
               PROVE  periodPayouts[t][p] >=
                          MapThenSumSet(LAMBDA c : claims[c],
                              {c \in DOMAIN claims : c[3] = t /\ Period(c[2]) = p})
    BY DEF PartsInv, PayoutsWithinYield
  <2> DEFINE S == {c \in DOMAIN claims : c[3] = t /\ Period(c[2]) = p}
  <2>1. Total(claims, S) <= periodPayouts[t][p]
    BY ClaimsWithin
  <2> HIDE DEF S
  <2>2. MapThenSumSet(LAMBDA c : claims[c], S) = Total(claims, S)
    BY TotalIsMapThenSum
  <2> QED BY <2>1, <2>2 DEF S
<1> QED BY <1>1, PartsInvariant, PTL

(* Until a vault loses value, what the principal on record exceeds the     *)
(* value of the source by was paid to sequencers.                          *)
THEOREM ShortfallIsPaidOut == MCSpec => []ShortfallWasPaidOut
<1>1. PartsInv => ShortfallWasPaidOut
  <2> SUFFICES ASSUME RouterInv, NEW t \in Tokens, ~lost, HasSource(t)
               PROVE  priorBalances[t] - Invested(t) <=
                          MapThenSumSet(LAMBDA c : claims[c], ClaimsOf(t))
    BY DEF PartsInv, ShortfallWasPaidOut, ClaimsOf
  <2>1. priorBalances[t] - Invested(t) <= Total(claims, ClaimsOf(t))
    BY DEF RouterInv, CoverOK
  <2>2. MapThenSumSet(LAMBDA c : claims[c], ClaimsOf(t)) = Total(claims, ClaimsOf(t))
    BY TotalIsMapThenSum
  <2> QED BY <2>1, <2>2
<1> QED BY <1>1, PartsInvariant, PTL

(* A payout on record never changes, and the principal grows by exactly    *)
(* the yield put on record.                                                *)
THEOREM YieldIsRecordedOnce == MCSpec => RecordedOnce
<1> DEFINE Once == \A t \in Tokens, p \in Periods :
               /\ periodPayouts[t][p] # 0 => periodPayouts'[t][p] = periodPayouts[t][p]
               /\ periodPayouts'[t][p] # periodPayouts[t][p] =>
                      priorBalances'[t] - priorBalances[t] = periodPayouts'[t][p]
<1>1. ASSUME RouterTypeOK, MCRouterNext PROVE Once
  <2>1. ASSUME NEW ts \in SUBSET Tokens, CurrentPeriod \in Periods, Record(ts) PROVE Once
    <3> SUFFICES ASSUME NEW t \in Tokens, NEW p \in Periods
                 PROVE  /\ periodPayouts[t][p] # 0 => periodPayouts'[t][p] = periodPayouts[t][p]
                        /\ periodPayouts'[t][p] # periodPayouts[t][p] =>
                               priorBalances'[t] - priorBalances[t] = periodPayouts'[t][p]
      OBVIOUS
    <3>1. \/ periodPayouts'[t] = periodPayouts[t]
          \/ /\ HasSource(t)
             /\ priorBalances'[t] = priorBalances[t] + Yield(t)
             /\ periodPayouts[t][CurrentPeriod] = 0
             /\ periodPayouts'[t][CurrentPeriod] = Yield(t)
             /\ \A x \in Periods \ {CurrentPeriod} : periodPayouts'[t][x] = periodPayouts[t][x]
      BY <1>1, <2>1, RecordFacts
    <3>2. CASE periodPayouts'[t] = periodPayouts[t]
      BY <3>2
    <3>3. CASE /\ HasSource(t)
               /\ priorBalances'[t] = priorBalances[t] + Yield(t)
               /\ periodPayouts[t][CurrentPeriod] = 0
               /\ periodPayouts'[t][CurrentPeriod] = Yield(t)
               /\ \A x \in Periods \ {CurrentPeriod} : periodPayouts'[t][x] = periodPayouts[t][x]
      <4>1. priorBalances[t] \in Nat /\ Yield(t) \in Nat
        BY <1>1, <3>3, InvestedFacts DEF RouterTypeOK
      <4>2. priorBalances'[t] - priorBalances[t] = Yield(t)
        BY <3>3, <4>1
      <4> QED BY <3>3, <4>2
    <3> QED BY <3>1, <3>2, <3>3
  <2>2. tracked \in SUBSET Tokens /\ \A t \in Tokens : {t} \in SUBSET Tokens
    BY <1>1 DEF RouterTypeOK
  <2>3. CASE Quietly(Poke) \/ \E t \in Tokens : Quietly(RecognizeYield(t))
    BY <2>1, <2>2, <2>3 DEF Quietly, Poke, RecognizeYield
  <2>4. ASSUME UNCHANGED periodPayouts PROVE Once
    BY <2>4
  <2>5. ASSUME NEW t \in Tokens, NEW a \in Amounts,
               \/ Quietly(TriggerDeposit(t, a)) \/ Quietly(TriggerWithdraw(t, a))
               \/ Quietly(Donate(t, a)) \/ Quietly(SetMaxInterest(t, a))
        PROVE  UNCHANGED periodPayouts
    BY <2>5 DEF Quietly, TriggerDeposit, TriggerWithdraw, Donate, SetMaxInterest
  <2>6. ASSUME NEW t \in Tokens, NEW v \in Vaults, Quietly(ChangeYieldSource(t, v))
        PROVE  UNCHANGED periodPayouts
    BY <2>6 DEF Quietly, ChangeYieldSource
  <2>7. ASSUME NEW ts \in SUBSET Tokens, Quietly(ChangeTrackedYieldSources(ts))
        PROVE  UNCHANGED periodPayouts
    BY <2>7 DEF Quietly, ChangeTrackedYieldSources
  <2>8. ASSUME NEW t \in Tokens, NEW s \in Claimants, NEW e \in Epochs, NEW b, NEW f,
               SequencerWithdrawAsset(t, s, e, b, f, shares[e][s])
        PROVE  UNCHANGED periodPayouts
    BY <2>8 DEF SequencerWithdrawAsset
  <2>9. ASSUME NEW t \in Tokens, NEW v \in Vaults, NEW worth, VaultReturn(t, v, worth)
        PROVE  UNCHANGED periodPayouts
    BY <2>9 DEF VaultReturn
  <2>10. CASE UNCHANGED routerVars
    BY <2>4, <2>10 DEF routerVars
  <2>11. CASE \E t \in Tokens, a \in Amounts :
                 \/ Quietly(TriggerDeposit(t, a)) \/ Quietly(TriggerWithdraw(t, a))
                 \/ Quietly(Donate(t, a)) \/ Quietly(SetMaxInterest(t, a))
    BY <2>4, <2>5, <2>11
  <2>12. CASE \E t \in Tokens, s \in Claimants, e \in Epochs, b \in BOOLEAN :
                 SequencerWithdrawAsset(t, s, e, b, e + FINALITY < EpochNow, shares[e][s])
    BY <2>4, <2>8, <2>12
  <2>13. CASE \E t \in Tokens, v \in Vaults, worth \in 0 .. MaxValue : VaultReturn(t, v, worth)
    BY <2>4, <2>9, <2>13
  <2> HIDE DEF Once
  <2> QED
    BY <1>1, <2>3, <2>4, <2>6, <2>7, <2>10, <2>11, <2>12, <2>13 DEF MCRouterNext
<1>2. PartsInv /\ [MCNext]_partsVars => [Once]_routerVars
  <2> SUFFICES ASSUME PartsInv, MCNext PROVE Once \/ UNCHANGED routerVars
    BY DEF partsVars
  <2>1. RouterTypeOK
    BY DEF PartsInv, RouterInv
  <2> HIDE DEF Once
  <2> QED BY <1>1, <2>1 DEF MCNext
<1> QED BY <1>2, PartsInvariant, PTL DEF MCSpec, partsVars, RecordedOnce

-----------------------------------------------------------------------------
(* The blobs of recorded blocks.                                           *)

BlobNames == Nat \X Nat

Fetches == [ok : BOOLEAN, cache : Seq(BlobNames), saving : SUBSET BlobNames]

(* What the table has, or will have when the threads end, and what was     *)
(* refused, should the saving threads be those of f.                       *)
ServedBy(f) == blobTable \cup f.saving \cup refused

(* The fetch so far: what the cache has is served.                         *)
FetchOK(f) ==
    /\ f \in Fetches
    /\ saving \subseteq f.saving
    /\ ToSet(f.cache) \subseteq ServedBy(f)

(* One blob more.                                                          *)
LEMMA CachingServes ==
    ASSUME NEW f, FetchOK(f), NEW b \in BlobNames, NEW answered
    PROVE  LET g == Caching(f, b, answered)
           IN  /\ FetchOK(g)
               /\ f.saving \subseteq g.saving
               /\ g.ok => b \in ServedBy(g)
<1> DEFINE inner == Fallback(f, b, answered)
           g == Caching(f, b, answered)
           put == Put(f.cache, b)
<1>1. /\ f.ok \in BOOLEAN /\ f.cache \in Seq(BlobNames) /\ f.saving \in SUBSET BlobNames
      /\ f = [ok |-> f.ok, cache |-> f.cache, saving |-> f.saving]
  BY DEF FetchOK, Fetches
<1>2. put \in Seq(BlobNames) /\ ToSet(put) \subseteq ToSet(f.cache) \cup {b}
  <2>1. CASE Len(f.cache) < CACHE_SIZE
    <3>1. put = Append(f.cache, b)
      BY <2>1 DEF Put
    <3> QED BY <1>1, <3>1 DEF ToSet
  <2>2. CASE ~(Len(f.cache) < CACHE_SIZE)
    <3>1. put = Append(Tail(f.cache), b)
      BY <2>2 DEF Put
    <3>2. f.cache # <<>>
      BY <1>1, <2>2, BlobProviderAssumption
    <3>3. Tail(f.cache) \in Seq(BlobNames) /\ ToSet(Tail(f.cache)) \subseteq ToSet(f.cache)
      BY <1>1, <3>2 DEF ToSet
    <3> HIDE DEF put
    <3> DEFINE rest == Tail(f.cache)
    <3>4. ToSet(Append(rest, b)) \subseteq ToSet(rest) \cup {b} /\ Append(rest, b) \in Seq(BlobNames)
      <4> HIDE DEF rest
      <4>1. rest \in Seq(BlobNames)
        BY <3>3 DEF rest
      <4> QED BY <4>1 DEF ToSet
    <3> QED BY <3>1, <3>3, <3>4
  <2> QED BY <2>1, <2>2
<1> HIDE DEF put
<1>3. CASE b \in ToSet(f.cache)
  <2>1. g = f
    BY <1>3 DEF Caching
  <2> QED BY <1>3, <2>1 DEF FetchOK
<1>4. CASE b \notin ToSet(f.cache)
  <2>1. g = IF inner.ok THEN [inner EXCEPT !.cache = Put(inner.cache, b)] ELSE inner
    BY <1>4 DEF Caching
  <2>2. CASE b \in blobTable
    <3>1. inner = f
      BY <2>2 DEF Fallback, InDatabase
    <3>2. g = IF f.ok THEN [f EXCEPT !.cache = put] ELSE f
      BY <2>1, <3>1 DEF put
    <3>3. g \in Fetches /\ g.saving = f.saving /\ ToSet(g.cache) \subseteq ToSet(f.cache) \cup {b}
      BY <1>1, <1>2, <3>2 DEF Fetches
    <3> QED BY <2>2, <3>3 DEF FetchOK, ServedBy
  <2>3. CASE b \notin blobTable /\ b \in answered
    <3>1. inner = [f EXCEPT !.saving = @ \cup {b}]
      BY <2>3 DEF Fallback, InDatabase, BeaconAnswers
    <3>2. g = IF f.ok THEN [f EXCEPT !.saving = @ \cup {b}, !.cache = put]
              ELSE [f EXCEPT !.saving = @ \cup {b}]
      BY <1>1, <2>1, <3>1 DEF put
    <3>3. /\ g \in Fetches /\ g.saving = f.saving \cup {b}
          /\ ToSet(g.cache) \subseteq ToSet(f.cache) \cup {b}
      BY <1>1, <1>2, <3>2 DEF Fetches
    <3> QED BY <3>3 DEF FetchOK, ServedBy
  <2>4. CASE b \notin blobTable /\ b \notin answered
    <3>1. inner = [f EXCEPT !.ok = FALSE]
      BY <2>4 DEF Fallback, InDatabase, BeaconAnswers
    <3>2. g = [f EXCEPT !.ok = FALSE]
      BY <1>1, <2>1, <3>1
    <3>3. g \in Fetches /\ ~g.ok /\ g.saving = f.saving /\ g.cache = f.cache
      BY <1>1, <3>2 DEF Fetches
    <3> QED BY <3>3 DEF FetchOK, ServedBy
  <2> QED BY <2>2, <2>3, <2>4
<1> QED BY <1>3, <1>4

(* The fetch goes on with the blob at x, unless an earlier one failed.     *)
Fetched(f, b, answered) == IF f.ok THEN Caching(f, b, answered) ELSE f

(* h is the function that GetBlobs builds over the places of bs.           *)
IsFetch(h, bs, answered) ==
    h = [s \in SUBSET DOMAIN bs |->
            IF s = {} THEN [ok |-> TRUE, cache |-> blobCache, saving |-> saving]
            ELSE LET x == Max(s) IN Fetched(h[s \ {x}], bs[x], answered)]

(* GetBlobs is what that function has at all the places.                   *)
LEMMA GetBlobsIsFetch ==
    ASSUME NEW bs, NEW answered
    PROVE  GetBlobs(bs, answered) = (CHOOSE h : IsFetch(h, bs, answered))[DOMAIN bs]
BY DEF GetBlobs, FoldLeft, MapThenFoldSet, IsFetch, Fetched

(* A set of places has a last one.                                         *)
LEMMA LastPlace ==
    ASSUME NEW n \in Nat, NEW s \in SUBSET (1 .. n), s # {}
    PROVE  Max(s) \in s
<1> DEFINE Rest == {n - y : y \in s}
<1>1. Rest \in SUBSET Nat /\ Rest # {}
  <2>1. \A y \in s : y \in 1 .. n /\ n - y \in Nat
    OBVIOUS
  <2> QED BY <2>1
<1>2. PICK k \in Rest : \A m \in Rest : k <= m
  <2> HIDE DEF Rest
  <2> QED BY <1>1, LeastNumber
<1>3. PICK x \in s : k = n - x
  BY <1>2
<1>4. \A y \in s : x >= y
  <2>1. ASSUME NEW y \in s PROVE x >= y
    <3>1. n - y \in Rest
      OBVIOUS
    <3>2. n - x <= n - y
      BY <1>2, <1>3, <3>1
    <3> QED BY <3>2
  <2> QED BY <2>1
<1> QED BY <1>3, <1>4 DEF Max

(* The function exists, and is built up by smaller sets.                   *)
LEMMA FetchExists ==
    ASSUME NEW n \in Nat, NEW bs, DOMAIN bs = 1 .. n, NEW answered
    PROVE  IsFetch(CHOOSE h : IsFetch(h, bs, answered), bs, answered)
<1> DEFINE D == 1 .. n
           start == [ok |-> TRUE, cache |-> blobCache, saving |-> saving]
           Small(k) == {s \in SUBSET D : Cardinality(s) <= k}
           Goes(h, s) == IF s = {} THEN start
                          ELSE Fetched(h[s \ {Max(s)}], bs[Max(s)], answered)
           Has(k) == \E h : h = [s \in Small(k) |-> Goes(h, s)]
           Bad == {k \in Nat : ~Has(k)}
<1>1. \A s \in SUBSET D : IsFiniteSet(s) /\ Cardinality(s) \in Nat /\ Cardinality(s) <= n
  <2>1. IsFiniteSet(D) /\ Cardinality(D) = n
    BY FS_Interval
  <2> QED BY <2>1, FS_Subset, FS_CardinalityType
<1>2. \A s \in SUBSET D : s # {} =>
          /\ Max(s) \in s /\ s \ {Max(s)} \in SUBSET D
          /\ Cardinality(s \ {Max(s)}) = Cardinality(s) - 1
  <2> SUFFICES ASSUME NEW s \in SUBSET D, s # {}
               PROVE  /\ Max(s) \in s /\ s \ {Max(s)} \in SUBSET D
                      /\ Cardinality(s \ {Max(s)}) = Cardinality(s) - 1
    OBVIOUS
  <2>1. Max(s) \in s
    BY LastPlace
  <2> QED BY <1>1, <2>1, FS_RemoveElement
<1>3. \A s \in SUBSET D : Cardinality(s) = 0 <=> s = {}
  BY <1>1, FS_EmptySet
<1> HIDE DEF D, start
<1>4. Has(0)
  <2> DEFINE h == [s \in Small(0) |-> start]
  <2>1. \A s \in Small(0) : s = {}
    BY <1>1, <1>3
  <2>2. h = [s \in Small(0) |-> Goes(h, s)]
    BY <2>1
  <2> QED BY <2>2
<1>5. ASSUME NEW k \in Nat, Has(k) PROVE Has(k + 1)
  <2>1. PICK h : h = [s \in Small(k) |-> Goes(h, s)]
    BY <1>5
  <2> DEFINE g == [s \in Small(k + 1) |-> Goes(h, s)]
  <2>2. \A s \in Small(k + 1) : s # {} => s \ {Max(s)} \in Small(k)
    BY <1>1, <1>2
  <2>3. \A s \in Small(k) : s \in Small(k + 1)
    BY <1>1
  <2>4. \A s \in Small(k) : g[s] = h[s]
    <3>1. \A s \in Small(k) : h[s] = Goes(h, s) /\ g[s] = Goes(h, s)
      <4> HIDE DEF Goes
      <4> QED BY <2>1, <2>3
    <3> QED BY <3>1
  <2>5. \A s \in Small(k + 1) : Goes(g, s) = Goes(h, s)
    <3> HIDE DEF g, Small
    <3> QED BY <2>2, <2>4
  <2>6. g = [s \in Small(k + 1) |-> Goes(g, s)]
    <3>1. g = [s \in Small(k + 1) |-> Goes(h, s)]
      OBVIOUS
    <3> HIDE DEF g, Goes, Small
    <3> QED BY <2>5, <3>1
  <2> HIDE DEF g
  <2> QED BY <2>6
<1>6. Bad = {}
  <2>1. SUFFICES ASSUME Bad # {} PROVE FALSE
    OBVIOUS
  <2> HIDE DEF Has
  <2>2. PICK k \in Bad : \A m \in Bad : k <= m
    BY <2>1, LeastNumber
  <2>3. k # 0
    BY <1>4, <2>2
  <2>4. k - 1 \in Nat /\ k - 1 \notin Bad
    BY <2>2, <2>3
  <2>5. Has(k - 1 + 1)
    BY <1>5, <2>4
  <2> QED BY <2>2, <2>5
<1>7. Has(n) /\ Small(n) = SUBSET D
  <2>1. Small(n) = SUBSET D
    BY <1>1
  <2> HIDE DEF Has
  <2> QED BY <1>6, <2>1
<1>8. \E h : IsFetch(h, bs, answered)
  BY <1>7 DEF IsFetch, D, start
<1> QED BY <1>8

(* After a fetch that succeeds every blob asked for is served.             *)
LEMMA GetBlobsServes ==
    ASSUME NEW n \in Nat, NEW bs \in [1 .. n -> BlobNames], NEW answered,
           blobCache \in Seq(BlobNames), saving \in SUBSET BlobNames,
           ToSet(blobCache) \subseteq blobTable \cup saving \cup refused
    PROVE  LET f == GetBlobs(bs, answered)
           IN  FetchOK(f) /\ (f.ok => ToSet(bs) \subseteq ServedBy(f))
<1> DEFINE h == CHOOSE h : IsFetch(h, bs, answered)
           D == 1 .. n
           Serves(s) == FetchOK(h[s]) /\ (h[s].ok => \A x \in s : bs[x] \in ServedBy(h[s]))
           Bad == {Cardinality(s) : s \in {s \in SUBSET D : ~Serves(s)}}
<1>1. IsFetch(h, bs, answered) /\ GetBlobs(bs, answered) = h[D]
  BY FetchExists, GetBlobsIsFetch
<1> HIDE DEF h
<1>2. /\ h[{}] = [ok |-> TRUE, cache |-> blobCache, saving |-> saving]
      /\ \A s \in SUBSET D : s # {} => h[s] = Fetched(h[s \ {Max(s)}], bs[Max(s)], answered)
  BY <1>1 DEF IsFetch
<1>3. \A s \in SUBSET D : IsFiniteSet(s) /\ Cardinality(s) \in Nat
  <2>1. IsFiniteSet(D)
    BY FS_Interval
  <2> QED BY <2>1, FS_Subset, FS_CardinalityType
<1>4. Serves({})
  BY <1>2 DEF FetchOK, Fetches, ServedBy
<1>5. ASSUME Bad # {} PROVE FALSE
  <2>1. Bad \in SUBSET Nat
    BY <1>3
  <2>2. PICK k \in Bad : \A m \in Bad : k <= m
    <3> HIDE DEF Bad
    <3> QED BY <1>5, <2>1, LeastNumber
  <2>3. PICK s \in SUBSET D : ~Serves(s) /\ Cardinality(s) = k
    BY <2>2
  <2>4. s # {}
    <3> HIDE DEF Serves
    <3> QED BY <1>4, <2>3
  <2> DEFINE x == Max(s)
             r == s \ {x}
  <2>5. x \in s /\ h[s] = Fetched(h[r], bs[x], answered)
    BY <1>2, <2>4, LastPlace
  <2> HIDE DEF x
  <2>6. r \in SUBSET D /\ Cardinality(r) = k - 1 /\ k \in Nat
    BY <1>3, <2>1, <2>2, <2>3, <2>5, FS_RemoveElement
  <2>7. Serves(r)
    <3> HIDE DEF Serves
    <3>1. k - 1 \notin Bad
      <4> HIDE DEF Bad
      <4> QED BY <2>1, <2>2, <2>6
    <3> QED BY <2>6, <3>1
  <2>8. bs[x] \in BlobNames
    BY <2>5
  <2>9. CASE ~h[r].ok
    BY <2>3, <2>5, <2>7, <2>9 DEF Fetched
  <2>10. CASE h[r].ok
    <3>1. h[s] = Caching(h[r], bs[x], answered)
      BY <2>5, <2>10 DEF Fetched
    <3>2. /\ FetchOK(h[s]) /\ h[r].saving \subseteq h[s].saving
          /\ h[s].ok => bs[x] \in ServedBy(h[s])
      BY <2>7, <2>8, <3>1, CachingServes
    <3>3. \A y \in r : bs[y] \in ServedBy(h[s])
      BY <2>7, <2>10, <3>2 DEF ServedBy
    <3>4. Serves(s)
      BY <3>2, <3>3
    <3> QED BY <2>3, <3>4
  <2> QED BY <2>9, <2>10
<1>6. Serves(D)
  <2> HIDE DEF Serves
  <2> QED BY <1>5
<1> QED BY <1>1, <1>6 DEF ToSet

Served == blobTable \cup saving \cup refused

(* What the cache has and what the recorded blocks and those of the open   *)
(* transaction consist of is served: a hit in the cache saves nothing.     *)
ProviderInv ==
    /\ posted \in Nat /\ listener \in Nat /\ progress \in Nat
    /\ toProcess \in Seq(Nat)
    /\ opened \subseteq Nat /\ recorded \subseteq Nat
    /\ blobCache \in Seq(BlobNames)
    /\ saving \in SUBSET BlobNames
    /\ ToSet(blobCache) \subseteq Served
    /\ \A k \in recorded \cup opened : ToSet(BlobsOf(k)) \subseteq Served

(* Fetching the blobs of a block.                                          *)
LEMMA FetchKeepsServed ==
    ASSUME ProviderInv, NEW k \in Nat, NEW answered,
           blobCache' = GetBlobs(BlobsOf(k), answered).cache,
           saving' = GetBlobs(BlobsOf(k), answered).saving,
           UNCHANGED <<blobTable, refused>>
    PROVE  /\ blobCache' \in Seq(BlobNames) /\ saving' \in SUBSET BlobNames
           /\ ToSet(blobCache') \subseteq Served'
           /\ Served \subseteq Served'
           /\ GetBlobs(BlobsOf(k), answered).ok => ToSet(BlobsOf(k)) \subseteq Served'
<1>1. BLOBS_PER_BLOCK \in Nat /\ BlobsOf(k) \in [1 .. BLOBS_PER_BLOCK -> BlobNames]
  BY BlobProviderAssumption DEF BlobsOf, BlobNames
<1> DEFINE f == GetBlobs(BlobsOf(k), answered)
<1>2. FetchOK(f) /\ (f.ok => ToSet(BlobsOf(k)) \subseteq ServedBy(f))
  BY <1>1, GetBlobsServes DEF ProviderInv, Served
<1>3. blobCache' = f.cache /\ saving' = f.saving
  OBVIOUS
<1> HIDE DEF f
<1>4. ServedBy(f) = Served'
  BY <1>3 DEF ServedBy, Served
<1>5. f \in Fetches /\ saving \subseteq f.saving /\ ToSet(f.cache) \subseteq ServedBy(f)
  BY <1>2 DEF FetchOK
<1>6. f.cache \in Seq(BlobNames) /\ f.saving \in SUBSET BlobNames
  BY <1>5 DEF Fetches
<1>7. Served \subseteq Served'
  BY <1>3, <1>5 DEF Served
<1> QED BY <1>2, <1>3, <1>4, <1>5, <1>6, <1>7 DEF f

(* Every step of the providers keeps that.                                 *)
LEMMA ProviderStep ==
    ASSUME ProviderInv, ProviderNext \/ UNCHANGED providerVars
    PROVE  ProviderInv'
<1>0. /\ posted \in Nat /\ listener \in Nat /\ progress \in Nat
      /\ toProcess \in Seq(Nat)
      /\ opened \subseteq Nat /\ recorded \subseteq Nat
      /\ blobCache \in Seq(BlobNames)
      /\ saving \in SUBSET BlobNames
      /\ ToSet(blobCache) \subseteq Served
      /\ \A k \in recorded \cup opened : ToSet(BlobsOf(k)) \subseteq Served
  BY DEF ProviderInv
<1>1. CASE Post
  BY <1>0, <1>1 DEF Post, ProviderInv, Served, loopVars
<1>2. CASE Prune
  BY <1>0, <1>2 DEF Prune, ProviderInv, Served, loopVars
<1>3. CASE PollBlocks
  <2>1. toProcess' = [i \in 1 .. posted - listener |-> listener + i] /\ posted - listener \in Nat
    BY <1>0, <1>3 DEF PollBlocks
  <2>2. toProcess' \in Seq(Nat)
    <3>1. toProcess' \in [1 .. posted - listener -> Nat]
      BY <1>0, <2>1
    <3> QED BY <2>1, <3>1
  <2>3. listener' \in Nat /\ UNCHANGED <<posted, blobTable, blobCache, saving, progress, opened, recorded, refused>>
    BY <1>0, <1>3 DEF PollBlocks
  <2> QED BY <1>0, <2>2, <2>3 DEF ProviderInv, Served
<1>4. CASE ProcessBlock
  <2> DEFINE k == Head(toProcess)
  <2>1. k \in Nat /\ Tail(toProcess) \in Seq(Nat)
    BY <1>0, <1>4 DEF ProcessBlock
  <2>2. PICK answered :
            /\ blobCache' = GetBlobs(BlobsOf(k), answered).cache
            /\ saving' = GetBlobs(BlobsOf(k), answered).saving
            /\ opened' = IF GetBlobs(BlobsOf(k), answered).ok THEN opened \cup {k} ELSE opened
    BY <1>4 DEF ProcessBlock
  <2>3. toProcess' = Tail(toProcess)
        /\ UNCHANGED <<posted, blobTable, listener, progress, recorded, refused>>
    BY <1>4 DEF ProcessBlock
  <2> HIDE DEF k
  <2>4. /\ blobCache' \in Seq(BlobNames) /\ saving' \in SUBSET BlobNames
        /\ ToSet(blobCache') \subseteq Served'
        /\ Served \subseteq Served'
        /\ GetBlobs(BlobsOf(k), answered).ok => ToSet(BlobsOf(k)) \subseteq Served'
    BY <2>1, <2>2, <2>3, FetchKeepsServed
  <2>5. opened' \subseteq Nat /\ \A l \in recorded' \cup opened' : ToSet(BlobsOf(l)) \subseteq Served'
    BY <1>0, <2>1, <2>2, <2>3, <2>4
  <2>6. toProcess' \in Seq(Nat)
    BY <2>1, <2>3
  <2> QED BY <1>0, <2>3, <2>4, <2>5, <2>6 DEF ProviderInv, Served, BlobsOf
<1>5. CASE CommitBlocks
  BY <1>0, <1>5 DEF CommitBlocks, ProviderInv, Served
<1>6. CASE AbandonBlocks
  BY <1>0, <1>6 DEF AbandonBlocks, ProviderInv, Served
<1>7. ASSUME NEW k \in 1 .. posted, FetchAgain(k) PROVE ProviderInv'
  <2>1. PICK answered :
            /\ blobCache' = GetBlobs(BlobsOf(k), answered).cache
            /\ saving' = GetBlobs(BlobsOf(k), answered).saving
    BY <1>7 DEF FetchAgain
  <2>2. UNCHANGED <<posted, blobTable, loopVars, refused>> /\ k \in Nat
    BY <1>7 DEF FetchAgain
  <2>3. /\ blobCache' \in Seq(BlobNames) /\ saving' \in SUBSET BlobNames
        /\ ToSet(blobCache') \subseteq Served'
        /\ Served \subseteq Served'
    BY <2>1, <2>2, FetchKeepsServed
  <2>4. UNCHANGED <<posted, listener, progress, toProcess, opened, recorded>>
    BY <2>2 DEF loopVars
  <2>5. \A l \in recorded' \cup opened' : ToSet(BlobsOf(l)) \subseteq Served'
    BY <1>0, <2>3, <2>4
  <2> QED BY <1>0, <2>3, <2>4, <2>5 DEF ProviderInv, BlobsOf
<1>8. ASSUME NEW b \in saving, SaveBlob(b) PROVE ProviderInv'
  <2>1. Served \subseteq Served' /\ saving' \in SUBSET BlobNames
        /\ UNCHANGED <<posted, blobCache, listener, progress, toProcess, opened, recorded>>
    <3>1. saving' = saving \ {b} /\ UNCHANGED <<posted, blobCache, loopVars>>
          /\ \/ blobTable' = blobTable \cup {b} /\ refused' = refused \ {b}
             \/ refused' = refused \cup {b} /\ UNCHANGED blobTable
      BY <1>8 DEF SaveBlob
    <3> QED BY <1>0, <3>1 DEF Served, loopVars
  <2>2. \A l \in recorded' \cup opened' : ToSet(BlobsOf(l)) \subseteq Served'
    BY <1>0, <2>1
  <2>3. ToSet(blobCache') \subseteq Served'
    BY <1>0, <2>1
  <2> QED BY <1>0, <2>1, <2>2, <2>3 DEF ProviderInv, BlobsOf
<1>9. CASE RestartProvider
  <2>1. /\ blobCache' = <<>> /\ saving' = {} /\ listener' = progress /\ toProcess' = <<>>
        /\ opened' = {} /\ UNCHANGED <<posted, progress, recorded>>
        /\ Served' = Served
    BY <1>9 DEF RestartProvider, Served
  <2>2. ToSet(blobCache') \subseteq Served'
    BY <2>1 DEF ToSet
  <2>3. \A l \in recorded' \cup opened' : ToSet(BlobsOf(l)) \subseteq Served'
    BY <1>0, <2>1
  <2>4. blobCache' \in Seq(BlobNames) /\ toProcess' \in Seq(Nat)
    BY <2>1
  <2> QED BY <1>0, <2>1, <2>2, <2>3, <2>4 DEF ProviderInv, BlobsOf
<1>10. CASE UNCHANGED providerVars
  BY <1>0, <1>10 DEF providerVars, ProviderInv, Served
<1> QED
  BY <1>1, <1>2, <1>3, <1>4, <1>5, <1>6, <1>7, <1>8, <1>9, <1>10 DEF ProviderNext

(* The blobs of every recorded block are in the table, or are being saved, *)
(* unless a save was refused or cut off: for every size of the cache,      *)
(* whatever it has thrown out and the beacon chain has forgotten, and      *)
(* wherever a fetch fails half-way.                                        *)
THEOREM RecordedBlocksAreServed == MCSpec => []RecordedIsServed
<1>1. MCInit => ProviderInv
  <2> SUFFICES ASSUME MCInit PROVE ProviderInv
    OBVIOUS
  <2>1. ProviderInit
    BY DEF MCInit
  <2>2. ToSet(blobCache) \subseteq Served
    BY <2>1 DEF ProviderInit, ToSet
  <2> QED BY <2>1, <2>2 DEF ProviderInit, ProviderInv
<1>2. ProviderInv /\ [MCNext]_<<part, now, registryVars, earliest, routerVars, routerHistory,
                                builderVars, providerVars>> => ProviderInv'
  BY ProviderStep DEF MCNext
<1>3. ProviderInv => RecordedIsServed
  BY DEF ProviderInv, RecordedIsServed, Served
<1> QED BY <1>1, <1>2, <1>3, PTL DEF MCSpec
=============================================================================
