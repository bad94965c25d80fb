------------------------------ MODULE Validators ------------------------------
(***************************************************************************)
(* What a challenger finds wrong with a block (validators/) and what        *)
(* becomes of the challenges it sends (submit_challenge, runner.rs, and     *)
(* challenge.rs).                                                          *)
(*                                                                         *)
(* The challenger has processed the blocks of the chain up to the one it   *)
(* accuses, one after the other, with their nullifiers and roots saved.    *)
(* A challenge is sent when it can be built; it is accepted when the       *)
(* contract does not revert it: its openings are where the contract looks. *)
(***************************************************************************)
EXTENDS Challenges

(* A root is the list of the updates in its tree, which begins empty.       *)
ASSUME ValidatorsAssumption == GENESIS_ANCHOR = <<>>

None == -1

-----------------------------------------------------------------------------
(* The addresses of fields as challenge.rs computes them.                  *)

DepositsLength(numDeposits) ==
    4 * (numDeposits \div 3 + IF numDeposits % 3 = 0 THEN 0 ELSE 1)

TxAddress(txNr, numDeposits) == DepositsLength(numDeposits) + 15 * txNr

DepositLeafAddress(depositNr) == depositNr + depositNr \div 3

NullifierAddress(txNr, numDeposits, which) == TxAddress(txNr, numDeposits) + 9 + which

(* The root after an update.                                               *)
AnchorAddress(updateNr, numDeposits, isDeposit) ==
    IF isDeposit THEN 4 * updateNr + 3 ELSE TxAddress(updateNr, numDeposits) + 14

(* generate_proof_multi_blob finds the blob of an address.                 *)
IsInBlobs(b, address) == address \div BLOB_SIZE < Len(b.blobhashes)

(* build_region_with_extension: a run of fields, the end of it in the next *)
(* blob when the first is at its end.                                      *)
RegionIsInBlobs(b, address, length) ==
    /\ IsInBlobs(b, address)
    /\ (address % BLOB_SIZE) + length > BLOB_SIZE => IsInBlobs(b, address + BLOB_SIZE)

(* The block before the accused one, which the rollback needs.  Block 0 is *)
(* never looked up: an empty block takes its place.                        *)
TargetIsRight(n) == n # 1

-----------------------------------------------------------------------------
(* Deposits.                                                               *)

(* Mutant: the padding is not looked at.                                   *)
DepositReportsUnpadded(n) ==
    {i \in 0 .. Block(n).numDeposits - 1 :
        i < Len(perBlockDeposits[n]) /\ Memory(Block(n)).deposits[i + 1] # perBlockDeposits[n][i + 1]}

(* The deposit numbers that are reported: leaves that differ from the      *)
(* contract's and padding that is not zero.                                *)
DepositReports(n) ==
    LET leaves == Memory(Block(n)).deposits
    IN  {i \in 0 .. Block(n).numDeposits - 1 :
            i < Len(perBlockDeposits[n]) /\ leaves[i + 1] # perBlockDeposits[n][i + 1]}
        \cup {i \in Block(n).numDeposits .. 3 * Groups(Block(n)) - 1 : leaves[i + 1] # ZeroLeaf}

DepositSent(n, i) == IsInBlobs(Block(n), DepositLeafAddress(i))

DepositAccepted(n, i) ==
    /\ DepositLeafAddress(i) = LeafMemoryAddress(i, Block(n).numDeposits, TRUE, 0)
    /\ DepositFraud(Block(n), i)
    /\ TargetIsRight(n)

-----------------------------------------------------------------------------
(* Nullifiers.                                                             *)

IsBefore(p, q) ==
    \/ p[1] < q[1]
    \/ p[1] = q[1] /\ p[2] < q[2]
    \/ p[1] = q[1] /\ p[2] = q[2] /\ p[3] < q[3]

(* The first place among those in which the nullifier at p is used.        *)
FirstUse(places, p) ==
    CHOOSE q \in places :
        /\ NullifierAt(q) = NullifierAt(p)
        /\ \A r \in places : NullifierAt(r) = NullifierAt(p) => r = q \/ IsBefore(q, r)

PlacesIn(n) == {p \in NullifierPlaces(n) : p[1] = n}

(* The table has the nullifiers of the blocks before.                      *)
IsOnRecord(n, p) == \E q \in NullifierPlaces(n - 1) : NullifierAt(q) = NullifierAt(p)

(* Within the block a place is held against the first in the block, and    *)
(* that one against the record of the blocks before.                       *)
NullifierReports(n) ==
    LET again  == {p \in PlacesIn(n) : FirstUse(PlacesIn(n), p) # p}
        record == {p \in PlacesIn(n) \ again : IsOnRecord(n, p)}
    IN  {<<FirstUse(PlacesIn(n), p), p>> : p \in again}
        \cup {<<FirstUse(NullifierPlaces(n - 1), p), p>> : p \in record}

NullifierPlace(p) == NullifierAddress(p[2], Block(p[1]).numDeposits, p[3])

OpensNullifier(p) == IsInBlobs(Block(p[1]), NullifierPlace(p))

(* Both blocks are on record and have blobs.                               *)
NullifierSent(report) ==
    \A k \in 1 .. 2 :
        /\ report[k][1] \in BlockNumbers
        /\ Block(report[k][1]).blobhashes # <<>>
        /\ OpensNullifier(report[k])

NullifierAccepted(n, report) ==
    LET p == report[1]
        q == report[2]
    IN  /\ \A r \in {p, q} :
               NullifierPlace(r) = NullifierMemoryAddress(r[2], Block(r[1]).numDeposits, r[3])
        /\ NullifierFraud(Block(p[1]), p[2], p[3], Block(q[1]), q[2], q[3])
        /\ TargetIsRight(n)

-----------------------------------------------------------------------------
(* Transactions.                                                           *)

(* How many anchors the lookup has of a block: those of its updates.       *)
Anchored(m, isDeposit) == IF isDeposit THEN Groups(Block(m)) ELSE Block(m).numTransactions

(* The lookup has the root after the update a transaction refers to, where *)
(* the contract takes the root before it.                                  *)
LookedUp(ref) == UpdateRoot(Block(ref.blockNr), ref.updateNr, ~ref.isDeposit)

IsAuthorized(tx) == tx.ethKey = NoKey \/ Query(tx.ethKey, Fields(tx))

(* A reference into this block is not compared with the transaction's own  *)
(* place, and one to a block without such updates is passed over.          *)
TxIsReported(n, txNr) ==
    LET tx    == Tx(Block(n), txNr)
        known == Anchored(tx.ref.blockNr, tx.ref.isDeposit)
    IN  \/ tx.ref.blockNr > n
        \/ known > 0 /\ tx.ref.updateNr >= known
        \/ /\ tx.ref.updateNr < known
           /\ ~VerifyProof(tx, LookedUp(tx.ref)) \/ ~IsAuthorized(tx)

TxReports(n) == {txNr \in TxNumbers(Block(n)) : TxIsReported(n, txNr)}

AnchorPlace(ref) == AnchorAddress(ref.updateNr, Block(ref.blockNr).numDeposits, ref.isDeposit)

(* rebuild_anchor_from_blob, for an anchor the lookup does not have: the   *)
(* field at its address, whatever it is.                                   *)
Rebuilds(ref) == IsInBlobs(Block(ref.blockNr), AnchorPlace(ref))

(* The transaction without its root, and the opening of the anchor.        *)
TxBuilt(b, txNr) ==
    /\ RegionIsInBlobs(b, TxAddress(txNr, b.numDeposits), 14)
    /\ IsInBlobs(Block(Tx(b, txNr).ref.blockNr), AnchorPlace(Tx(b, txNr).ref))

TxSent(n, txNr) ==
    LET ref == Tx(Block(n), txNr).ref
    IN  /\ ref.blockNr <= n
        /\ ref.updateNr < Anchored(ref.blockNr, ref.isDeposit) \/ Rebuilds(ref)
        /\ TxBuilt(Block(n), txNr)

(* The contract validates the anchor of a reference in range: it must be   *)
(* the one before the update, and opened there.                            *)
TxAccepted(n, txNr) ==
    LET b     == Block(n)
        ref   == Tx(b, txNr).ref
        named == Block(ref.blockNr)
    IN  /\ TxAddress(txNr, b.numDeposits) = TxMemoryAddress(txNr, b.numDeposits)
        /\ RefNotAhead(b, txNr) /\ RefInBlock(ref) =>
              /\ TxFraud(b, txNr, LookedUp(ref))
              /\ \/ IsFirstUpdate(named, ref.updateNr, ref.isDeposit)
                 \/ AnchorPlace(ref) =
                       PriorRootMemoryLocation(ref.updateNr, ref.isDeposit, named.numDeposits)
        /\ TargetIsRight(n)

-----------------------------------------------------------------------------
(* Tree updates, groups and transactions counted together from 0.          *)

Updates(b) == Groups(b) + b.numTransactions

IsTxUpdate(b, k) == k >= Groups(b)

NumberInKind(b, k) == IF IsTxUpdate(b, k) THEN k - Groups(b) ELSE k

LeavesAt(b, k) == UpdateLeaves(b, NumberInKind(b, k), IsTxUpdate(b, k))

SubmittedRoot(b, k) == UpdateRoot(b, NumberInKind(b, k), IsTxUpdate(b, k))

UpdatesBefore(b, k) == [j \in 1 .. k |-> Update(b, LeavesAt(b, j - 1))]

(* The root the tracker has after the blocks before n, from their leaves.  *)
TrackedAnchor(n) ==
    LET after[m \in 0 .. n] ==
            IF m = 0 THEN GENESIS_ANCHOR
            ELSE after[m - 1] \o UpdatesBefore(Block(m - 1), Updates(Block(m - 1)))
    IN  after[n]

(* The root before update k of block n.                                    *)
ExpectedBefore(n, k) == TrackedAnchor(n) \o UpdatesBefore(Block(n), k)

(* The root an update starts from is the one the block says came before.   *)
WrongRoot(n, k) ==
    [updateNr |-> k, isTx |-> IsTxUpdate(Block(n), k), expected |-> ExpectedBefore(n, k + 1),
     prior |-> IF k = 0 THEN TrackedAnchor(n) ELSE SubmittedRoot(Block(n), k - 1),
     priorUpdate |-> IF k = 0 THEN None ELSE k - 1]

(* For a wrong anchor of the block, the root after the last update is      *)
(* named as the one before it.                                             *)
WrongAnchor(n) ==
    LET last == Updates(Block(n)) - 1
    IN  [updateNr |-> last, isTx |-> Block(n).numTransactions > 0,
         expected |-> ExpectedBefore(n, last + 1), prior |-> SubmittedRoot(Block(n), last),
         priorUpdate |-> last]

TreeReports(n) ==
    LET b == Block(n)
    IN  {WrongRoot(n, k) : k \in {j \in 0 .. Updates(b) - 1 : SubmittedRoot(b, j) # ExpectedBefore(n, j + 1)}}
        \cup IF b.anchor # ExpectedBefore(n, Updates(b)) THEN {WrongAnchor(n)} ELSE {}

(* Where the root before the update is opened: in this block, or behind    *)
(* the last update of the block before.  The number counts both kinds of   *)
(* updates, the address only one.                                          *)
OpenedPrior(n, report) ==
    LET b == IF report.priorUpdate # None THEN Block(n) ELSE Block(n - 1)
        k == IF report.priorUpdate # None THEN report.priorUpdate
             ELSE IF Updates(b) = 0 THEN 0 ELSE Updates(b) - 1
        isTx == IF report.priorUpdate # None THEN report.isTx ELSE b.numTransactions > 0
    IN  [place |-> AnchorAddress(k, b.numDeposits, ~isTx), block |-> b]

(* The four fields of the update, from its number less the groups.         *)
UpdateAddress(b, report) ==
    IF report.isTx THEN TxAddress(report.updateNr - Groups(b), b.numDeposits) + 11
    ELSE report.updateNr * 4

TreeBuilt(n, report) ==
    LET opened == OpenedPrior(n, report)
    IN  /\ RegionIsInBlobs(Block(n), UpdateAddress(Block(n), report), 4)
        /\ IsInBlobs(opened.block, opened.place)

(* In block 0 the genesis anchor comes before the first update, and there  *)
(* is nothing to open.                                                     *)
IsGenesis(n, report) == n = 0 /\ report.priorUpdate = None

GenesisTreeBuilt(n, report) ==
    /\ report.updateNr = 0
    /\ RegionIsInBlobs(Block(n), IF report.isTx THEN TxAddress(0, Block(n).numDeposits) + 11 ELSE 0, 4)

(* The prover proves the update of the tree before it, so the root named   *)
(* must be that tree's and the one it leads to the one expected.           *)
UpdateIsProved(n, report) ==
    /\ report.prior = ExpectedBefore(n, report.updateNr)
    /\ report.expected = ExpectedBefore(n, report.updateNr + 1)

TreeSent(n, report) ==
    /\ report.priorUpdate < report.updateNr
    /\ UpdateIsProved(n, report)
    /\ IF IsGenesis(n, report) THEN GenesisTreeBuilt(n, report) ELSE TreeBuilt(n, report)

TreeAccepted(n, report) ==
    LET b == Block(n)
    IN  /\ report.updateNr \in UpdateNumbers(b, report.isTx)
        /\ UpdateAddress(b, report) = UpdateMemoryAddress(report.updateNr, report.isTx, b.numDeposits)
        /\ \/ IsFirstUpdate(b, report.updateNr, ~report.isTx)
           \/ OpenedPrior(n, report).place =
                 PriorRootMemoryLocation(report.updateNr, ~report.isTx, b.numDeposits)
        /\ TreeFraud(b, report.updateNr, report.isTx, report.prior)
        /\ TargetIsRight(n)

-----------------------------------------------------------------------------
(* Everything the challenger has against the block at n.                   *)
IsReported(n) ==
    \/ DepositReports(n) # {}
    \/ NullifierReports(n) # {}
    \/ TxReports(n) # {}
    \/ TreeReports(n) # {}

(* Some challenge of it is sent and accepted.                              *)
IsProved(n) ==
    \/ \E i \in DepositReports(n) : DepositSent(n, i) /\ DepositAccepted(n, i)
    \/ \E report \in NullifierReports(n) : NullifierSent(report) /\ NullifierAccepted(n, report)
    \/ \E txNr \in TxReports(n) : TxSent(n, txNr) /\ TxAccepted(n, txNr)
    \/ \E report \in TreeReports(n) : TreeSent(n, report) /\ TreeAccepted(n, report)

(* A challenge that failed is made again from what its validator finds     *)
(* first, the block being in the record and in the tree by now: a          *)
(* nullifier is found where it is itself, and the first update is taken to *)
(* follow the whole block.                                                 *)
FoundAgain(n) ==
    LET start == TrackedAnchor(n + 1)
        expected == start \o UpdatesBefore(Block(n), 1)
    IN  [deposits |-> {i \in DepositReports(n) : \A j \in DepositReports(n) : i <= j},
         nullifiers |-> {<<FirstUse(NullifierPlaces(n), p), p>> : p \in PlacesIn(n) \cap {<<n, 0, 0>>}},
         txs |-> {t \in TxReports(n) : \A u \in TxReports(n) : t <= u},
         updates |-> IF Updates(Block(n)) = 0 \/ SubmittedRoot(Block(n), 0) = expected THEN {}
                     ELSE {[WrongRoot(n, 0) EXCEPT
                               !.prior = IF n = 0 THEN GENESIS_ANCHOR ELSE start,
                               !.expected = expected]}]

IsProvedAgain(n) ==
    \/ \E i \in FoundAgain(n).deposits : DepositSent(n, i) /\ DepositAccepted(n, i)
    \/ \E report \in FoundAgain(n).nullifiers : NullifierSent(report) /\ NullifierAccepted(n, report)
    \/ \E txNr \in FoundAgain(n).txs : TxSent(n, txNr) /\ TxAccepted(n, txNr)
    \/ \E report \in FoundAgain(n).updates : TreeSent(n, report) /\ TreeAccepted(n, report)

(* The first wrong root of a block, when it is one that the challenge can  *)
(* name: that of a deposit group, or of a transaction in a block without   *)
(* any.                                                                    *)
IsFirstWrong(n, k) ==
    /\ SubmittedRoot(Block(n), k) # ExpectedBefore(n, k + 1)
    /\ \A j \in 0 .. k - 1 : SubmittedRoot(Block(n), j) = ExpectedBefore(n, j + 1)
    /\ Groups(Block(n)) = 0 \/ ~IsTxUpdate(Block(n), k)

(* Where the last root of the block before is looked for, there is a field *)
(* at all.  It is looked for too far on when that block has deposits and   *)
(* transactions: the contract does not mind another field, but behind the  *)
(* end of the blobs there is none, and no challenge is sent.               *)
FindsRootBefore(n, k) ==
    LET opened == OpenedPrior(n, WrongRoot(n, k))
    IN  n > 0 /\ k = 0 => IsInBlobs(opened.block, opened.place)

HasProvableRoot(n) ==
    \E k \in 0 .. Updates(Block(n)) - 1 : IsFirstWrong(n, k) /\ FindsRootBefore(n, k)

(* The blocks before n are valid and the openings they give are accepted.  *)
IsFirstInvalidPlace(n) == n > 0 => Resolves(n) /\ ValidUpTo(n - 1)

(* One honest challenger is enough against wrong deposits, notes spent     *)
(* twice and most wrong roots: in the first invalid block of a chain it    *)
(* finds the fraud, sends the right openings and the contract accepts,     *)
(* but for block 1, which it cannot roll back.  Wrong deposits it also     *)
(* proves when it tries again after a failure; the others it may not.      *)
OrdinaryFraudIsProved ==
    \A n \in BlockNumbers \ {1} :
        /\ IsFirstInvalidPlace(n)
        /\ ~DepositsAreTrue(Block(n)) \/ ~SpendsOnce(n) \/ HasProvableRoot(n)
        => IsProved(n) /\ (~DepositsAreTrue(Block(n)) => IsProvedAgain(n))
=============================================================================
