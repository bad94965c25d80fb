----------------------------- MODULE Challenges ------------------------------
(* The four fraud proofs against a posted block (DepositChallenge.sol,     *)
(* NullifierChallenge.sol, TransactionChallenge.sol and                    *)
(* TreeUpdateChallenge.sol).                                               *)
(*                                                                         *)
(* For each there is the condition under which the contract accepts it and *)
(* the handler, which slashes the block's sequencer and rolls back.  What  *)
(* openings of blobs and zero-knowledge proofs the caller needs is fixed   *)
(* by the block, so the parameters are only its choices.                   *)
EXTENDS Deposits, BlockContent, SequencerRegistry, TransactionRegistry

-----------------------------------------------------------------------------
(* DepositChallenge.sol                                                    *)

(* Mutant: the padding of the last group is not compared with zero.        *)
DepositFraudUnpadded(b, depositNr) ==
    b.numDeposits = Len(perBlockDeposits[b.blockNr]) =>
        /\ depositNr < b.numDeposits
        /\ Memory(b).deposits[depositNr + 1] # perBlockDeposits[b.blockNr][depositNr + 1]

DepositFraud(b, depositNr) ==
    b.numDeposits = Len(perBlockDeposits[b.blockNr]) =>
        /\ depositNr < 3 * Groups(b)
        /\ Memory(b).deposits[depositNr + 1] #
               IF depositNr >= b.numDeposits THEN ZeroLeaf
               ELSE perBlockDeposits[b.blockNr][depositNr + 1]

-----------------------------------------------------------------------------
(* NullifierChallenge.sol                                                  *)

NullifierFraud(b1, txNr1, which1, b2, txNr2, which2) ==
    /\ ~(b1.blockNr = b2.blockNr /\ txNr1 = txNr2 /\ which1 = which2)
    /\ b1.blockNr <= b2.blockNr
    /\ txNr1 < b1.numTransactions /\ IsBlockIncluded(b1)
    /\ txNr2 < b2.numTransactions /\ IsBlockIncluded(b2)
    /\ Tx(b1, txNr1).nullifiers[which1 + 1] = Tx(b2, txNr2).nullifiers[which2 + 1]

-----------------------------------------------------------------------------
(* TransactionChallenge.sol                                                *)

(* The anchor a transaction names: its block is not after b and, when it   *)
(* is b, its update is not after the transaction.                          *)
RefNotAhead(b, txNr) ==
    LET ref == Tx(b, txNr).ref
    IN  /\ ref.blockNr <= b.blockNr
        /\ ref.blockNr = b.blockNr => ref.updateNr <= txNr \/ ref.isDeposit

RefInBlock(ref) ==
    IF ref.isDeposit THEN ref.updateNr < Groups(Block(ref.blockNr))
    ELSE ref.updateNr < Block(ref.blockNr).numTransactions

(* A proof verifies for the anchor it was made for and no other.           *)
VerifyProof(tx, anchor) == tx.provenAnchor = anchor

Fields(tx) == <<tx.nullifiers, tx.leaves>>

TxFraud(b, txNr, anchor) ==
    LET tx == Tx(b, txNr)
    IN  RefNotAhead(b, txNr) /\ RefInBlock(tx.ref) =>
            /\ ValidPriorAnchor(anchor, Block(tx.ref.blockNr), tx.ref.updateNr, tx.ref.isDeposit)
            /\ ~VerifyProof(tx, anchor) \/ (tx.ethKey # NoKey /\ ~Query(tx.ethKey, Fields(tx)))

-----------------------------------------------------------------------------
(* TreeUpdateChallenge.sol                                                 *)

(* As the code has it: in a block with transactions the update is counted  *)
(* against them even when it is a deposit group.                           *)
IsLastUpdate(b, updateNr) ==
    IF b.numTransactions = 0
    THEN updateNr = (b.numDeposits - 1) \div 3
    ELSE updateNr = b.numTransactions - 1

TreeFraud(b, updateNr, isTx, priorAnchor) ==
    LET trueAnchor == TrueRoot(priorAnchor, b, UpdateLeaves(b, updateNr, isTx))
    IN  /\ ValidPriorAnchor(priorAnchor, b, updateNr, ~isTx)
        /\ \/ trueAnchor # UpdateRoot(b, updateNr, isTx)
           \/ IsLastUpdate(b, updateNr) /\ trueAnchor # b.anchor

-----------------------------------------------------------------------------
(* The handlers.  Rollback needs no block but the one before, which the    *)
(* chain fixes.                                                            *)

SlashAndRollback(b, sender) ==
    /\ IsBlockIncluded(b)
    /\ Slash(b.sequencer, b.blockNr, sender)
    /\ Rollback(b.blockNr)
    /\ UNCHANGED <<depositVars, allowed>>

ChallengeDepositWrongLeaf(b, depositNr, sender) ==
    DepositFraud(b, depositNr) /\ SlashAndRollback(b, sender)

ChallengeNullifier(b1, txNr1, which1, b2, txNr2, which2, sender) ==
    /\ NullifierFraud(b1, txNr1, which1, b2, txNr2, which2)
    /\ SlashAndRollback(b2, sender)

ChallengeTxZK(b, txNr, anchor, sender) ==
    TxFraud(b, txNr, anchor) /\ SlashAndRollback(b, sender)

ChallengeTreeUpdate(b, updateNr, isTx, priorAnchor, sender) ==
    TreeFraud(b, updateNr, isTx, priorAnchor) /\ SlashAndRollback(b, sender)

(* Every anchor that can pass validatePriorAnchor is the genesis anchor,   *)
(* one on record, or the root in the blob.                                 *)
PriorAnchors(b, updateNr, isDeposit) ==
    IF IsFirstUpdate(b, updateNr, isDeposit)
    THEN DOMAIN anchorToIndex \cup {GENESIS_ANCHOR}
    ELSE {RootBefore(b, updateNr, isDeposit)}

TruePriorAnchor(n) == IF n = 0 THEN GENESIS_ANCHOR ELSE Block(n - 1).anchor

(* Those but for one, when exceptGenesis: the genesis anchor counts as     *)
(* included whatever its entry holds, so it passes for the anchor of the   *)
(* block number where it was last claimed, by a block that stands or by    *)
(* one that was rolled back, or of block 0 when nobody ever claimed it.    *)
Candidates(b, updateNr, isDeposit, exceptGenesis) ==
    IF exceptGenesis /\ TruePriorAnchor(b.blockNr) # GENESIS_ANCHOR
            /\ IsFirstUpdate(b, updateNr, isDeposit)
    THEN PriorAnchors(b, updateNr, isDeposit) \ {GENESIS_ANCHOR}
    ELSE PriorAnchors(b, updateNr, isDeposit)

(* A reference that is out of range needs no anchor to be proved wrong.    *)
RefAnchors(b, txNr, exceptGenesis) ==
    LET ref == Tx(b, txNr).ref
    IN  IF RefNotAhead(b, txNr) /\ RefInBlock(ref)
        THEN Candidates(Block(ref.blockNr), ref.updateNr, ref.isDeposit, exceptGenesis)
        ELSE {GENESIS_ANCHOR}

(* Some fraud proof against the block at n, with one of these anchors, is  *)
(* accepted.                                                               *)
CanChallengeWith(n, exceptGenesis) ==
    LET b == Block(n)
    IN  \/ \E i \in 0 .. 3 * Groups(b) : DepositFraud(b, i)
        \/ \E m \in 0 .. n : \E t1 \in TxNumbers(Block(m)), t2 \in TxNumbers(b), w1, w2 \in 0 .. 1 :
               NullifierFraud(Block(m), t1, w1, b, t2, w2)
        \/ \E t \in TxNumbers(b) : \E a \in RefAnchors(b, t, exceptGenesis) : TxFraud(b, t, a)
        \/ \E isTx \in BOOLEAN : \E u \in UpdateNumbers(b, isTx) :
               \E a \in Candidates(b, u, ~isTx, exceptGenesis) : TreeFraud(b, u, isTx, a)

CanChallenge(n) == CanChallengeWith(n, FALSE)

(* Any fraud proof that is accepted, by any sender.                        *)
Challenge(n, sender) ==
    LET b == Block(n)
    IN  \/ \E i \in 0 .. 3 * Groups(b) : ChallengeDepositWrongLeaf(b, i, sender)
        \/ \E m \in 0 .. n : \E t1 \in TxNumbers(Block(m)), t2 \in TxNumbers(b), w1, w2 \in 0 .. 1 :
               ChallengeNullifier(Block(m), t1, w1, b, t2, w2, sender)
        \/ \E t \in TxNumbers(b) : \E a \in RefAnchors(b, t, FALSE) : ChallengeTxZK(b, t, a, sender)
        \/ \E isTx \in BOOLEAN : \E u \in UpdateNumbers(b, isTx) :
               \E a \in PriorAnchors(b, u, ~isTx) : ChallengeTreeUpdate(b, u, isTx, a, sender)

-----------------------------------------------------------------------------
(* The chain, its deposits, its challenges and the approvals they ask for, *)
(* on their own: anybody posts, and blocks are from proposals.             *)
ChallengesInit ==
    SpineInit /\ DepositsInit /\ RouterInit /\ RegistryInit /\ allowed = {}

ChallengesNext(proposals, approvals) ==
    \/ /\ \E d \in proposals : AddBlockWithDeposits(d)
       /\ UNCHANGED <<routerVars, registryVars, allowed>>
    \/ \E leaf \in Leaves : Deposit(leaf) /\ UNCHANGED <<registryVars, allowed>>
    \/ \E n \in BlockNumbers, sender \in Accounts : Challenge(n, sender) /\ UNCHANGED routerVars
    \/ \E key \in Signers, fields \in approvals :
           /\ Allow(key, fields)
           /\ UNCHANGED <<spineVars, depositVars, routerVars, registryVars>>
    \/ \E token \in Tokens, vault \in Vaults :
           /\ ~HasSource(token)
           /\ ChangeYieldSource(token, vault)
           /\ UNCHANGED <<spineVars, depositVars, registryVars, allowed>>

-----------------------------------------------------------------------------
(* What a block must be like, said without the challenges.                 *)

(* The root a block's update starts from.                                  *)
RootInto(b, updateNr, isDeposit) ==
    IF IsFirstUpdate(b, updateNr, isDeposit) THEN TruePriorAnchor(b.blockNr)
    ELSE RootBefore(b, updateNr, isDeposit)

RootsAreTrue(b) ==
    /\ \A isTx \in BOOLEAN : \A u \in UpdateNumbers(b, isTx) :
           UpdateRoot(b, u, isTx) = TrueRoot(RootInto(b, u, ~isTx), b, UpdateLeaves(b, u, isTx))
    /\ b.anchor = IF b.numTransactions > 0
                  THEN UpdateRoot(b, b.numTransactions - 1, TRUE)
                  ELSE UpdateRoot(b, Groups(b) - 1, FALSE)

DepositsAreTrue(b) ==
    /\ b.numDeposits = Len(perBlockDeposits[b.blockNr])
    /\ \A i \in 1 .. 3 * Groups(b) :
           Memory(b).deposits[i] = IF i <= b.numDeposits THEN perBlockDeposits[b.blockNr][i]
                                   ELSE ZeroLeaf

TxIsTrue(b, txNr) ==
    LET tx == Tx(b, txNr)
    IN  /\ RefNotAhead(b, txNr)
        /\ RefInBlock(tx.ref)
        /\ VerifyProof(tx, RootInto(Block(tx.ref.blockNr), tx.ref.updateNr, tx.ref.isDeposit))
        /\ tx.ethKey = NoKey \/ Query(tx.ethKey, Fields(tx))

(* The places nullifiers have in the blocks up to n.                       *)
NullifierPlaces(n) ==
    UNION {{<<m, t, w>> : t \in TxNumbers(Block(m)), w \in 0 .. 1} : m \in 0 .. n}

NullifierAt(place) == Tx(Block(place[1]), place[2]).nullifiers[place[3] + 1]

SpendsOnce(n) ==
    \A p, q \in NullifierPlaces(n) : p[1] = n /\ p # q => NullifierAt(p) # NullifierAt(q)

IsValid(n) ==
    /\ RootsAreTrue(Block(n))
    /\ DepositsAreTrue(Block(n))
    /\ \A t \in TxNumbers(Block(n)) : TxIsTrue(Block(n), t)
    /\ SpendsOnce(n)

ValidUpTo(n) == \A m \in 0 .. n : IsValid(m)

(* A deposit group that the tree challenge takes for the last update of a  *)
(* block with transactions.                                                *)
HasMistakenGroup(b) == b.numTransactions > 0 /\ b.numTransactions <= Groups(b)

(* The anchor of the block before n is looked up as that block's.          *)
Resolves(n) == IsPriorBlockAnchor(TruePriorAnchor(n), n)

(* The challenges on the block at n can name every anchor they need.       *)
AnchorsResolve(n) ==
    /\ Resolves(n)
    /\ \A t \in TxNumbers(Block(n)) :
           RefNotAhead(Block(n), t) => Resolves(Tx(Block(n), t).ref.blockNr)

(* No honest sequencer is slashed: a valid block on a valid chain has no   *)
(* fraud proof, whatever was approved, deposited, rolled back or posted    *)
(* again before and after it.  The exceptions are a group mistaken for the *)
(* last update and the genesis anchor passed off as that of another block. *)
ValidIsSafe ==
    \A n \in BlockNumbers :
        ValidUpTo(n) /\ ~HasMistakenGroup(Block(n)) => ~CanChallengeWith(n, TRUE)

(* The first invalid block of the chain can be challenged, as long as the  *)
(* anchors that the fraud proof needs were not claimed by another block.   *)
InvalidIsChallengeable ==
    \A n \in BlockNumbers :
        (\A m \in 0 .. n - 1 : IsValid(m)) /\ ~IsValid(n) /\ AnchorsResolve(n) => CanChallenge(n)

(* No honest sequencer is slashed, in blocks of any kind.                  *)
(* TreeUpdateChallenge.sol: only the last update's root must be the        *)
(* block's anchor.                                                         *)
ValidIsAlwaysSafe ==
    \A n \in BlockNumbers : ValidUpTo(n) => ~CanChallengeWith(n, TRUE)
=============================================================================
