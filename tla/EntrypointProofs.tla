-------------------------- MODULE EntrypointProofs ---------------------------
(* Proofs about Entrypoint and, at the end, about the instances of it in   *)
(* MCEntrypoint, for every value of the constants.  A step of the bridge   *)
(* is a step of the chain and of the registry or leaves them alone, so     *)
(* what is proved of those two on their own carries over; with what the    *)
(* blocks contain, the invariant of the chain makes the fraud proofs sound *)
(* and complete, and the challenger of Validators able to prove ordinary   *)
(* frauds, as the deposits of a block do not change once it is included.   *)
(* What is told with the history of MCSpec, who posted a block and which   *)
(* rollbacks came late, is proved over MCSpec: a stake is held behind      *)
(* every block that its poster answers for, and the bridge implements      *)
(* Settlement.                                                             *)
EXTENDS MCEntrypoint, Validators, DepositsProofs, RegistryProofs

USE L1Assumption, SpineAssumption, EntrypointAssumption

-----------------------------------------------------------------------------
(* The steps, by what they do to the chain.                                *)

(* A challenge slashes the poster and removes the block it is about.       *)
LEMMA ChallengeEffect ==
    ASSUME SpineInv, NEW n \in BlockNumbers, NEW sender, Challenge(n, sender)
    PROVE  /\ Block(n) \in BlockData /\ Block(n).blockNr = n
           /\ Slash(Block(n).sequencer, n, sender)
           /\ Rollback(n)
           /\ UNCHANGED <<depositVars, allowed>>
<1>1. SlashAndRollback(Block(n), sender)
  BY DEF Challenge, ChallengeDepositWrongLeaf, ChallengeNullifier, ChallengeTxZK,
     ChallengeTreeUpdate
<1>2. Block(n) \in BlockData /\ Block(n).blockNr = n
  BY BlockType DEF SpineInv, ChainOrdered
<1> QED BY <1>1, <1>2 DEF SlashAndRollback

(* What each step of the bridge does to the chain and to the registry.     *)
LEMMA EntrypointEffect ==
    ASSUME SpineInv, [EntrypointNext]_entrypointVars
    PROVE  /\ [SpineNext]_spineVars
           /\ [RegistryNext]_<<now, registryVars>>
<1> DEFINE Chained == [SpineNext]_spineVars
           Registered == [RegistryNext]_<<now, registryVars>>
<1> SUFFICES Chained /\ Registered
  OBVIOUS
<1>1. ASSUME NEW sender \in Accounts, PostStep(sender, Submissions)
      PROVE  Chained /\ Registered
  BY <1>1 DEF PostStep, Post, AddBlockWithDeposits, AddBlock, SpineNext
<1>2. CASE DepositStep
  BY <1>2 DEF DepositStep, Deposit, spineVars
<1>3. CASE WithdrawStep
  BY <1>3 DEF WithdrawStep, WithdrawLeaf, spineVars
<1>4. CASE ChallengeStep(BlockNumbers, Accounts)
  <2>1. PICK n \in BlockNumbers, sender \in Accounts : Challenge(n, sender)
    BY <1>4 DEF ChallengeStep
  <2>2. /\ Block(n) \in BlockData /\ Slash(Block(n).sequencer, n, sender) /\ Rollback(n)
    BY <2>1, ChallengeEffect
  <2>3. Block(n).sequencer \in Accounts /\ n \in Nat /\ UNCHANGED now
    BY <2>2, BlockType DEF BlockData, Rollback, SpineInv
  <2> QED BY <2>2, <2>3 DEF SpineNext, RegistryNext
<1>5. CASE RegistryStep
  BY <1>5 DEF RegistryStep, RegistryNext, spineVars
<1>6. CASE ApprovalStep(Approvals)
  BY <1>6 DEF ApprovalStep, spineVars
<1>7. CASE PayoutStep
  BY <1>7 DEF PayoutStep, spineVars
<1>8. CASE YieldStep
  BY <1>8 DEF YieldStep, spineVars
<1>9. CASE MigrateStep
  BY <1>9 DEF MigrateStep, spineVars
<1>10. CASE OwnerStep
  BY <1>10 DEF OwnerStep, spineVars
<1>11. CASE MarketStep
  BY <1>11 DEF MarketStep, spineVars
<1>12. CASE TimeStep
  BY <1>12 DEF TimeStep, SpineTick, SpineNext, RegistryNext
<1>13. CASE UNCHANGED entrypointVars
  BY <1>13 DEF entrypointVars, spineVars
<1> HIDE DEF Chained, Registered
<1> QED
  BY <1>1, <1>2, <1>3, <1>4, <1>5, <1>6, <1>7, <1>8, <1>9, <1>10, <1>11, <1>12, <1>13
     DEF EntrypointNext

(* The chain keeps its invariant in the bridge.                            *)
LEMMA EntrypointKeepsSpine == EntrypointSpec => []SpineInv
<1>1. EntrypointInit => SpineInv
  BY SpineInitial DEF EntrypointInit
<1>2. SpineInv /\ [EntrypointNext]_entrypointVars => SpineInv'
  BY EntrypointEffect, SpineStep
<1> QED BY <1>1, <1>2, PTL DEF EntrypointSpec

(* Seen from the chain's variables the bridge is the chain of Spine: its   *)
(* posts, challenges and clock do to them what Spine allows, and nothing   *)
(* else touches them.                                                      *)
THEOREM BridgeIsChain == EntrypointSpec => SpineSpec
<1>1. EntrypointInit => SpineInit
  BY DEF EntrypointInit
<1>2. SpineInv /\ [EntrypointNext]_entrypointVars => [SpineNext]_spineVars
  BY EntrypointEffect
<1> QED BY <1>1, <1>2, EntrypointKeepsSpine, PTL DEF EntrypointSpec, SpineSpec

(* Seen from the registry's variables it is the registry: challenges slash *)
(* with the block's number and sequencer, so all that is proved of stakes, *)
(* exits and rewards holds in the bridge.                                  *)
THEOREM BridgeIsRegistry == EntrypointSpec => RegistrySpec
<1>1. EntrypointInit => now = START /\ RegistryInit
  BY DEF EntrypointInit, SpineInit
<1>2. SpineInv /\ [EntrypointNext]_entrypointVars => [RegistryNext]_<<now, registryVars>>
  BY EntrypointEffect
<1> QED BY <1>1, <1>2, EntrypointKeepsSpine, PTL DEF EntrypointSpec, RegistrySpec

(* What each step of the bridge does to the chain and its deposits.        *)
LEMMA BridgeEffect ==
    ASSUME SpineInv, [EntrypointNext]_entrypointVars
    PROVE  DepositsEffect
<1>1. CASE ChallengeStep(BlockNumbers, Accounts)
  <2>1. PICK n \in BlockNumbers, sender \in Accounts : Challenge(n, sender)
    BY <1>1 DEF ChallengeStep
  <2>2. Rollback(n) /\ UNCHANGED depositVars
    BY <2>1, ChallengeEffect
  <2> QED BY <2>2 DEF DepositsEffect
<1>2. CASE DepositStep
  BY <1>2 DEF DepositStep, DepositsEffect
<1>3. ASSUME NEW sender \in Accounts, PostStep(sender, Submissions)
      PROVE  DepositsEffect
  BY <1>3 DEF PostStep, Post, DepositsEffect
<1>4. CASE TimeStep
  BY <1>4 DEF TimeStep, DepositsEffect
<1>5. CASE WithdrawStep
  BY <1>5 DEF WithdrawStep, WithdrawLeaf, DepositsEffect
<1>6. CASE \/ RegistryStep \/ ApprovalStep(Approvals) \/ PayoutStep \/ YieldStep
           \/ MigrateStep \/ OwnerStep \/ MarketStep
  <2>1. UNCHANGED spineVars /\ UNCHANGED depositVars
    BY <1>6 DEF RegistryStep, ApprovalStep, PayoutStep, YieldStep, MigrateStep, OwnerStep, MarketStep
  <2> QED BY <2>1 DEF DepositsEffect
<1>7. CASE UNCHANGED entrypointVars
  BY <1>7 DEF entrypointVars, DepositsEffect
<1> QED BY <1>1, <1>2, <1>3, <1>4, <1>5, <1>6, <1>7 DEF EntrypointNext

(* So the bridge keeps the invariant of the deposits.                      *)
LEMMA BridgeKeepsDepositsInv == EntrypointSpec => []DepositsInv
<1>1. EntrypointInit => DepositsInv
  BY DepositsInitial DEF EntrypointInit
<1>2. DepositsInv /\ [EntrypointNext]_entrypointVars => DepositsInv'
  BY BridgeEffect, EffectKeepsDeposits DEF DepositsInv
<1> QED BY <1>1, <1>2, PTL DEF EntrypointSpec

(* Whatever is challenged, registered, paid out or migrated meanwhile: the *)
(* deposits of an included block never change, and a deposit changes       *)
(* neither the two blocks to come nor the order, once the chain has three. *)
THEOREM BridgeKeepsDeposits ==
    EntrypointSpec => []DepositsFrozen /\ SubmissionWindow /\ AssignedInOrder
<1>1. DepositsInv => DepositsFrozen
  BY DEF DepositsInv
<1>2. DepositsInv /\ [EntrypointNext]_entrypointVars =>
          /\ [Height > 2 => KeepsWindow]_<<spineVars, depositVars>>
          /\ [Height > 2 => AssignsBehindNone]_<<spineVars, depositVars>>
  BY BridgeEffect, EffectKeepsWindow DEF DepositsInv
<1> QED BY <1>1, <1>2, BridgeKeepsDepositsInv, PTL
        DEF SubmissionWindow, AssignedInOrder, EntrypointSpec

-----------------------------------------------------------------------------
(* What the blocks of the chain contain.                                   *)

(* No block is empty, and what its transactions refer to can be read.      *)
ContentOK ==
    \A n \in BlockNumbers :
        /\ Block(n).numTransactions # 0 \/ Block(n).numDeposits # 0
        /\ \A t \in TxNumbers(Block(n)) : Tx(Block(n), t).ref \in Reference

(* A post puts one block behind the others.                                *)
LEMMA ChainGrows ==
    ASSUME SpineInv, NEW d \in Submissions, AddBlock(d)
    PROVE  /\ Height \in Nat /\ BlockNumbers' = BlockNumbers \cup {Height}
           /\ \A n \in BlockNumbers : Block(n)' = Block(n)
           /\ \A n : n = Height => Block(n)' = Stamped(d)
<1>1. /\ roots' = Append(roots, Stamped(d)) /\ roots \in Seq(BlockData)
      /\ Stamped(d) \in BlockData
  BY StampedType, SubmissionsAssumption DEF AddBlock, SpineInv, SpineTypeOK
<1>2. /\ Len(roots') = Len(roots) + 1 /\ Len(roots) \in Nat
      /\ roots'[Len(roots) + 1] = Stamped(d)
      /\ \A i \in 1 .. Len(roots) : roots'[i] = roots[i]
  BY <1>1, AppendFacts
<1>3. \A n \in BlockNumbers : n + 1 \in 1 .. Len(roots)
  BY <1>2 DEF BlockNumbers, Height
<1>4. BlockNumbers' = 0 .. Len(roots) /\ BlockNumbers = 0 .. Len(roots) - 1
  BY <1>2 DEF BlockNumbers, Height
<1>5. Height \in Nat /\ BlockNumbers' = BlockNumbers \cup {Height}
  BY <1>2, <1>4 DEF Height
<1>6. \A n \in BlockNumbers : Block(n)' = Block(n)
  BY <1>2, <1>3 DEF Block
<1> QED BY <1>2, <1>5, <1>6 DEF Block, Height

(* A rollback keeps the blocks before the one removed.                     *)
LEMMA ChainShrinks ==
    ASSUME SpineInv, NEW n \in BlockNumbers, Rollback(n)
    PROVE  /\ BlockNumbers' = 0 .. n - 1
           /\ \A m \in BlockNumbers' : m \in BlockNumbers /\ Block(m)' = Block(m)
<1>1. /\ roots' = SubSeq(roots, 1, n) /\ roots \in Seq(BlockData)
      /\ n \in Nat /\ n <= Len(roots) /\ Len(roots) \in Nat
  BY DEF Rollback, BlockNumbers, Height, SpineInv, SpineTypeOK
<1>2. Len(roots') = n /\ \A i \in 1 .. n : roots'[i] = roots[i]
  BY <1>1, PrefixFacts
<1>3. BlockNumbers' = 0 .. n - 1
  BY <1>2 DEF BlockNumbers, Height
<1>4. ASSUME NEW m \in BlockNumbers' PROVE m \in BlockNumbers /\ Block(m)' = Block(m)
  <2>1. m \in 0 .. Len(roots) - 1 /\ m + 1 \in 1 .. n
    BY <1>1, <1>3
  <2> QED BY <1>2, <2>1 DEF BlockNumbers, Height, Block
<1> QED BY <1>3, <1>4

(* Every step of the chain keeps that.                                     *)
LEMMA ContentStep == SpineInv /\ ContentOK /\ [SpineNext]_spineVars => ContentOK'
<1> SUFFICES ASSUME SpineInv, ContentOK, [SpineNext]_spineVars PROVE ContentOK'
  OBVIOUS
<1>1. ASSUME NEW d \in Submissions, AddBlock(d) PROVE ContentOK'
  <2> DEFINE b == Stamped(d)
  <2>1. d \in Submission /\ IsAcceptable(d)
    BY <1>1, SubmissionsAssumption DEF AddBlock
  <2>2. /\ b.numTransactions = d.numTransactions /\ b.numDeposits = d.numDeposits
        /\ b.blobhashes = d.blobhashes
    BY DEF Stamped
  <2>3. b.numTransactions # 0 \/ b.numDeposits # 0
    BY <2>1, <2>2 DEF IsAcceptable, Submission
  <2>4. \A t \in TxNumbers(d) : Tx(d, t).ref \in Reference
    BY <2>1, ContentAssumption DEF IsAcceptable
  <2>5. TxNumbers(b) = TxNumbers(d) /\ \A t : Tx(b, t) = Tx(d, t)
    BY <2>2 DEF TxNumbers, Tx, Memory
  <2> HIDE DEF b
  <2>6. ASSUME NEW n \in BlockNumbers'
        PROVE  /\ Block(n)'.numTransactions # 0 \/ Block(n)'.numDeposits # 0
               /\ \A t \in TxNumbers(Block(n)') : Tx(Block(n)', t).ref \in Reference
    <3>1. CASE n \in BlockNumbers
      BY <1>1, <3>1, ChainGrows DEF ContentOK
    <3>2. CASE n = Height
      <4>1. Block(n)' = b
        BY <1>1, <3>2, ChainGrows DEF b
      <4>2. /\ b.numTransactions # 0 \/ b.numDeposits # 0
            /\ \A t \in TxNumbers(b) : Tx(b, t).ref \in Reference
        BY <2>3, <2>4, <2>5
      <4> QED BY <4>1, <4>2
    <3> QED BY <1>1, <3>1, <3>2, ChainGrows
  <2> QED BY <2>6 DEF ContentOK, TxNumbers, Tx, Memory
<1>2. ASSUME NEW n \in BlockNumbers, Rollback(n) PROVE ContentOK'
  <2>1. \A m \in BlockNumbers' : m \in BlockNumbers /\ Block(m)' = Block(m)
    BY <1>2, ChainShrinks
  <2> QED BY <2>1 DEF ContentOK, TxNumbers, Tx, Memory
<1>3. CASE SpineTick \/ UNCHANGED spineVars
  BY <1>3 DEF SpineTick, spineVars, ContentOK, BlockNumbers, Height, Block, TxNumbers, Tx, Memory
<1> QED BY <1>1, <1>2, <1>3 DEF SpineNext

(* The blocks of the chain can be read throughout.                         *)
LEMMA ChainIsReadable == SpineSpec => []ContentOK
<1>1. SpineInit => ContentOK
  BY DEF SpineInit, ContentOK, BlockNumbers, Height
<1> QED BY <1>1, ContentStep, SpineInvariant, PTL DEF SpineSpec

-----------------------------------------------------------------------------
(* The fraud proofs.                                                       *)

(* The anchor accepted for the block before r is that block's, unless it   *)
(* is the genesis anchor.                                                  *)
LEMMA AcceptedPriorIsTrue ==
    ASSUME SpineInv, NEW r \in BlockNumbers,
           NEW a \in DOMAIN anchorToIndex \cup {GENESIS_ANCHOR}, IsPriorBlockAnchor(a, r),
           a = GENESIS_ANCHOR => TruePriorAnchor(r) = GENESIS_ANCHOR
    PROVE  a = TruePriorAnchor(r)
<1>1. CASE r = 0
  BY <1>1 DEF IsPriorBlockAnchor, TruePriorAnchor
<1>2. CASE r # 0 /\ a # GENESIS_ANCHOR
  <2>1. Block(Entry(a).index).anchor = a
    BY <1>2, InvAnchorLookupSound DEF AnchorLookupSound, IsPriorBlockAnchor
  <2> QED BY <1>2, <2>1 DEF IsPriorBlockAnchor, TruePriorAnchor
<1> QED BY <1>1, <1>2

(* So the root a challenger shows for an update is the one it starts from. *)
LEMMA ShownRootIsTrue ==
    ASSUME SpineInv, NEW r \in BlockNumbers, NEW u, NEW isDeposit,
           NEW a \in Candidates(Block(r), u, isDeposit, TRUE),
           ValidPriorAnchor(a, Block(r), u, isDeposit)
    PROVE  a = RootInto(Block(r), u, isDeposit)
<1>1. Block(r).blockNr = r
  BY DEF SpineInv, ChainOrdered
<1>2. CASE IsFirstUpdate(Block(r), u, isDeposit)
  <2>1. /\ IsPriorBlockAnchor(a, r)
        /\ a \in DOMAIN anchorToIndex \cup {GENESIS_ANCHOR}
        /\ a = GENESIS_ANCHOR => TruePriorAnchor(r) = GENESIS_ANCHOR
    BY <1>1, <1>2 DEF ValidPriorAnchor, Candidates, PriorAnchors
  <2> QED BY <1>1, <1>2, <2>1, AcceptedPriorIsTrue DEF RootInto
<1>3. CASE ~IsFirstUpdate(Block(r), u, isDeposit)
  BY <1>3 DEF ValidPriorAnchor, RootInto
<1> QED BY <1>2, <1>3

(* Conversely that root can be shown, when the anchor before resolves.     *)
LEMMA TrueRootCanBeShown ==
    ASSUME SpineInv, NEW r \in BlockNumbers, NEW u, NEW isDeposit, Resolves(r)
    PROVE  /\ RootInto(Block(r), u, isDeposit) \in Candidates(Block(r), u, isDeposit, FALSE)
           /\ RootInto(Block(r), u, isDeposit) \in PriorAnchors(Block(r), u, isDeposit)
           /\ ValidPriorAnchor(RootInto(Block(r), u, isDeposit), Block(r), u, isDeposit)
<1>1. Block(r).blockNr = r /\ r \in Nat /\ r < Height
  BY DEF SpineInv, SpineTypeOK, ChainOrdered, BlockNumbers, Height
<1>2. TruePriorAnchor(r) \in DOMAIN anchorToIndex \cup {GENESIS_ANCHOR}
  <2>1. CASE r = 0
    BY <2>1 DEF TruePriorAnchor
  <2>2. CASE r # 0
    <3>1. r - 1 \in BlockNumbers
      BY <1>1, <2>2 DEF BlockNumbers, Height, SpineInv, SpineTypeOK
    <3> QED BY <2>2, <3>1 DEF TruePriorAnchor, SpineInv, AnchorLookupNewest
  <2> QED BY <2>1, <2>2
<1>3. CASE IsFirstUpdate(Block(r), u, isDeposit)
  BY <1>1, <1>2, <1>3 DEF Candidates, PriorAnchors, ValidPriorAnchor, RootInto, Resolves
<1>4. CASE ~IsFirstUpdate(Block(r), u, isDeposit)
  BY <1>4 DEF Candidates, PriorAnchors, ValidPriorAnchor, RootInto
<1> QED BY <1>3, <1>4
(* The numbers a block is made of.                                         *)
LEMMA BlockCounts ==
    ASSUME SpineInv, NEW n \in BlockNumbers
    PROVE  /\ n \in Nat /\ n < Height /\ Height \in Nat
           /\ Block(n).blockNr = n /\ IsBlockIncluded(Block(n))
           /\ Block(n).numTransactions \in Nat /\ Block(n).numDeposits \in Nat
           /\ Groups(Block(n)) \in Nat
           /\ \A m \in 0 .. n : m \in BlockNumbers /\ m \in Nat
<1>1. /\ Block(n) \in BlockData /\ Block(n).blockNr = n /\ n \in Nat
  BY BlockType DEF SpineInv, ChainOrdered
<1>2. n < Height /\ Height \in Nat
  BY DEF BlockNumbers, Height, SpineInv, SpineTypeOK
<1>3. Block(n).numTransactions \in Nat /\ Block(n).numDeposits \in Nat
  BY <1>1 DEF BlockData
<1>4. Groups(Block(n)) \in Nat
  BY <1>3 DEF Groups
<1> QED BY <1>1, <1>2, <1>3, <1>4 DEF IsBlockIncluded, BlockNumbers

(* A group of deposits more is three deposits more.                        *)
LEMMA GroupArithmetic ==
    ASSUME NEW n \in Nat
    PROVE  /\ n # 0 => (n - 1) \div 3 = (n + 2) \div 3 - 1
           /\ n = 0 => (n + 2) \div 3 = 0
           /\ n # 0 => (n + 2) \div 3 > 0
  OBVIOUS

(* An accepted deposit challenge contradicts DepositsAreTrue.              *)
LEMMA TrueDepositsAreSafe ==
    ASSUME SpineInv, NEW n \in BlockNumbers, DepositsAreTrue(Block(n)),
           NEW i \in 0 .. 3 * Groups(Block(n))
    PROVE  ~DepositFraud(Block(n), i)
<1> DEFINE b == Block(n)
           true(k) == IF k <= b.numDeposits THEN perBlockDeposits[b.blockNr][k] ELSE ZeroLeaf
<1>1. Groups(b) \in Nat /\ b.numDeposits \in Nat
  BY BlockCounts
<1>2. SUFFICES ASSUME i < 3 * Groups(b)
               PROVE  Memory(b).deposits[i + 1] = IF i >= b.numDeposits THEN ZeroLeaf
                                                  ELSE perBlockDeposits[b.blockNr][i + 1]
  BY DEF DepositFraud, DepositsAreTrue
<1>3. i + 1 \in 1 .. 3 * Groups(b)
  BY <1>1, <1>2
<1>4. Memory(b).deposits[i + 1] = true(i + 1)
  BY <1>3 DEF DepositsAreTrue
<1> QED BY <1>1, <1>3, <1>4

(* A nullifier challenge shows two places of one nullifier.                *)
LEMMA SpentOnceIsSafe ==
    ASSUME SpineInv, NEW n \in BlockNumbers, SpendsOnce(n), NEW m \in 0 .. n,
           NEW t1 \in TxNumbers(Block(m)), NEW t2 \in TxNumbers(Block(n)),
           NEW w1 \in 0 .. 1, NEW w2 \in 0 .. 1
    PROVE  ~NullifierFraud(Block(m), t1, w1, Block(n), t2, w2)
<1> DEFINE p == <<n, t2, w2>>
           q == <<m, t1, w1>>
<1>1. Block(m).blockNr = m /\ Block(n).blockNr = n /\ n \in 0 .. n
  BY BlockCounts
<1>2. p \in NullifierPlaces(n) /\ q \in NullifierPlaces(n)
  BY <1>1 DEF NullifierPlaces
<1>3. p # q => NullifierAt(p) # NullifierAt(q)
  BY <1>2 DEF SpendsOnce
<1>4. p = q \/ Tx(Block(n), t2).nullifiers[w2 + 1] # Tx(Block(m), t1).nullifiers[w1 + 1]
  BY <1>3 DEF NullifierAt
<1> QED BY <1>1, <1>4 DEF NullifierFraud

(* A transaction that proved what it must for the anchor it refers to.     *)
LEMMA TrueTxIsSafe ==
    ASSUME SpineInv, ContentOK, NEW n \in BlockNumbers, NEW t \in TxNumbers(Block(n)),
           TxIsTrue(Block(n), t), NEW a \in RefAnchors(Block(n), t, TRUE)
    PROVE  ~TxFraud(Block(n), t, a)
<1> DEFINE tx == Tx(Block(n), t)
           r == tx.ref.blockNr
<1>1. RefNotAhead(Block(n), t) /\ RefInBlock(tx.ref)
  BY DEF TxIsTrue
<1>2. r \in BlockNumbers
  <2>1. r \in Nat /\ r <= n
    BY <1>1, BlockCounts DEF ContentOK, Reference, RefNotAhead
  <2> QED BY <2>1, BlockCounts
<1>3. a \in Candidates(Block(r), tx.ref.updateNr, tx.ref.isDeposit, TRUE)
  BY <1>1 DEF RefAnchors
<1>4. SUFFICES ASSUME ValidPriorAnchor(a, Block(r), tx.ref.updateNr, tx.ref.isDeposit)
               PROVE  VerifyProof(tx, a) /\ (tx.ethKey = NoKey \/ Query(tx.ethKey, Fields(tx)))
  BY <1>1 DEF TxFraud
<1>5. a = RootInto(Block(r), tx.ref.updateNr, tx.ref.isDeposit)
  <2> HIDE DEF r
  <2> QED BY <1>2, <1>3, <1>4, ShownRootIsTrue
<1> QED BY <1>5 DEF TxIsTrue

(* An update whose root is true, and the block's anchor the last of them.  *)
LEMMA TrueRootsAreSafe ==
    ASSUME SpineInv, ContentOK, NEW n \in BlockNumbers, RootsAreTrue(Block(n)),
           ~HasMistakenGroup(Block(n)), NEW isTx \in BOOLEAN,
           NEW u \in UpdateNumbers(Block(n), isTx),
           NEW a \in Candidates(Block(n), u, ~isTx, TRUE)
    PROVE  ~TreeFraud(Block(n), u, isTx, a)
<1> DEFINE b == Block(n)
<1>1. SUFFICES ASSUME ValidPriorAnchor(a, b, u, ~isTx)
               PROVE  LET root == TrueRoot(a, b, UpdateLeaves(b, u, isTx))
                      IN  root = UpdateRoot(b, u, isTx) /\ (IsLastUpdate(b, u) => root = b.anchor)
  BY DEF TreeFraud
<1>2. a = RootInto(b, u, ~isTx)
  BY <1>1, ShownRootIsTrue
<1>3. TrueRoot(a, b, UpdateLeaves(b, u, isTx)) = UpdateRoot(b, u, isTx)
  BY <1>2 DEF RootsAreTrue
<1>4. b.anchor = IF b.numTransactions > 0 THEN UpdateRoot(b, b.numTransactions - 1, TRUE)
                 ELSE UpdateRoot(b, Groups(b) - 1, FALSE)
  BY DEF RootsAreTrue
<1>5. ASSUME IsLastUpdate(b, u) PROVE UpdateRoot(b, u, isTx) = b.anchor
  <2>1. b.numTransactions \in Nat /\ b.numDeposits \in Nat
    BY BlockCounts
  <2>2. CASE b.numTransactions = 0
    <3>1. isTx = FALSE
      BY <2>2 DEF UpdateNumbers, TxNumbers
    <3>2. b.numDeposits # 0
      BY <2>2 DEF ContentOK
    <3>3. u = Groups(b) - 1
      BY <1>5, <2>1, <2>2, <3>2, GroupArithmetic DEF IsLastUpdate, Groups
    <3>4. b.anchor = UpdateRoot(b, Groups(b) - 1, FALSE)
      BY <1>4, <2>2
    <3> QED BY <3>1, <3>3, <3>4, Zenon
  <2>3. CASE b.numTransactions # 0
    <3>1. u = b.numTransactions - 1
      BY <1>5, <2>3 DEF IsLastUpdate
    <3>2. isTx = TRUE
      <4>1. SUFFICES ASSUME isTx = FALSE PROVE FALSE
        OBVIOUS
      <4>2. u \in 0 .. Groups(b) - 1
        BY <4>1 DEF UpdateNumbers, GroupNumbers
      <4>3. Groups(b) \in Nat
        BY BlockCounts
      <4> HIDE DEF b
      <4>4. HasMistakenGroup(b)
        BY <2>1, <2>3, <3>1, <4>2, <4>3 DEF HasMistakenGroup
      <4> QED BY <4>4 DEF b
    <3>3. b.anchor = UpdateRoot(b, b.numTransactions - 1, TRUE)
      <4>1. b.numTransactions > 0
        BY <2>1, <2>3
      <4> QED BY <1>4, <4>1, Zenon
    <3> QED BY <3>1, <3>2, <3>3, Zenon
  <2> QED BY <2>2, <2>3
<1> QED BY <1>3, <1>5

(* No fraud proof against a valid block is accepted.                       *)
LEMMA InvValidIsSafe == SpineInv /\ ContentOK => ValidIsSafe
<1> SUFFICES ASSUME SpineInv, ContentOK, NEW n \in BlockNumbers, ValidUpTo(n),
                    ~HasMistakenGroup(Block(n)), CanChallengeWith(n, TRUE)
             PROVE  FALSE
  BY DEF ValidIsSafe
<1>1. n \in 0 .. n
  BY BlockCounts
<1>2. IsValid(n)
  BY <1>1 DEF ValidUpTo
<1>3. \A i \in 0 .. 3 * Groups(Block(n)) : ~DepositFraud(Block(n), i)
  BY <1>2, TrueDepositsAreSafe DEF IsValid
<1>4. \A m \in 0 .. n : \A t1 \in TxNumbers(Block(m)), t2 \in TxNumbers(Block(n)),
          w1, w2 \in 0 .. 1 : ~NullifierFraud(Block(m), t1, w1, Block(n), t2, w2)
  BY <1>2, SpentOnceIsSafe DEF IsValid
<1>5. \A t \in TxNumbers(Block(n)) : \A a \in RefAnchors(Block(n), t, TRUE) :
          ~TxFraud(Block(n), t, a)
  BY <1>2, TrueTxIsSafe DEF IsValid
<1>6. \A isTx \in BOOLEAN : \A u \in UpdateNumbers(Block(n), isTx) :
          \A a \in Candidates(Block(n), u, ~isTx, TRUE) : ~TreeFraud(Block(n), u, isTx, a)
  BY <1>2, TrueRootsAreSafe DEF IsValid
<1> QED BY <1>3, <1>4, <1>5, <1>6 DEF CanChallengeWith
(* A deposit that is not the recorded one can be challenged.               *)
LEMMA FalseDepositIsFraud ==
    ASSUME SpineInv, NEW n \in BlockNumbers, ~DepositsAreTrue(Block(n))
    PROVE  \E i \in 0 .. 3 * Groups(Block(n)) : DepositFraud(Block(n), i)
<1> DEFINE b == Block(n)
<1>1. Groups(b) \in Nat /\ b.numDeposits \in Nat
  BY BlockCounts
<1>2. CASE b.numDeposits # Len(perBlockDeposits[b.blockNr])
  BY <1>1, <1>2 DEF DepositFraud
<1>3. CASE b.numDeposits = Len(perBlockDeposits[b.blockNr])
  <2>1. PICK k \in 1 .. 3 * Groups(b) :
            Memory(b).deposits[k] # IF k <= b.numDeposits THEN perBlockDeposits[b.blockNr][k]
                                    ELSE ZeroLeaf
    BY <1>3 DEF DepositsAreTrue
  <2> DEFINE i == k - 1
  <2>2. /\ i \in 0 .. 3 * Groups(b) /\ i < 3 * Groups(b) /\ i + 1 = k
        /\ (i >= b.numDeposits) <=> ~(k <= b.numDeposits)
    BY <1>1
  <2> HIDE DEF i
  <2>3. Memory(b).deposits[i + 1] # IF i >= b.numDeposits THEN ZeroLeaf
                                    ELSE perBlockDeposits[b.blockNr][i + 1]
    BY <2>1, <2>2
  <2>4. DepositFraud(b, i)
    BY <2>2, <2>3 DEF DepositFraud
  <2> QED BY <2>2, <2>4
<1> QED BY <1>2, <1>3

(* So can a nullifier that comes again.                                    *)
LEMMA SpentAgainIsFraud ==
    ASSUME SpineInv, NEW n \in BlockNumbers, ~SpendsOnce(n)
    PROVE  \E m \in 0 .. n : \E t1 \in TxNumbers(Block(m)), t2 \in TxNumbers(Block(n)),
               w1, w2 \in 0 .. 1 : NullifierFraud(Block(m), t1, w1, Block(n), t2, w2)
<1>1. PICK p \in NullifierPlaces(n), q \in NullifierPlaces(n) :
          p[1] = n /\ p # q /\ NullifierAt(p) = NullifierAt(q)
  BY DEF SpendsOnce
<1>2. PICK m \in 0 .. n : \E t \in TxNumbers(Block(m)), w \in 0 .. 1 : q = <<m, t, w>>
  BY DEF NullifierPlaces
<1>3. PICK t1 \in TxNumbers(Block(m)), w1 \in 0 .. 1 : q = <<m, t1, w1>>
  BY <1>2
<1>4. PICK t2 \in TxNumbers(Block(n)), w2 \in 0 .. 1 : p = <<n, t2, w2>>
  BY <1>1 DEF NullifierPlaces
<1>5. /\ m \in BlockNumbers /\ m <= n
      /\ Block(m).blockNr = m /\ IsBlockIncluded(Block(m)) /\ Block(m).numTransactions \in Nat
      /\ Block(n).blockNr = n /\ IsBlockIncluded(Block(n)) /\ Block(n).numTransactions \in Nat
  BY BlockCounts
<1>6. t1 < Block(m).numTransactions /\ t2 < Block(n).numTransactions
  BY <1>5 DEF TxNumbers
<1>7. ~(m = n /\ t1 = t2 /\ w1 = w2)
  BY <1>1, <1>3, <1>4
<1>8. Tx(Block(m), t1).nullifiers[w1 + 1] = Tx(Block(n), t2).nullifiers[w2 + 1]
  BY <1>1, <1>3, <1>4 DEF NullifierAt
<1>9. NullifierFraud(Block(m), t1, w1, Block(n), t2, w2)
  BY <1>5, <1>6, <1>7, <1>8 DEF NullifierFraud
<1> QED BY <1>9

(* So can a transaction without a proof for the anchor it refers to, with  *)
(* a reference that is out of range, or with an approval missing.          *)
LEMMA FalseTxIsFraud ==
    ASSUME SpineInv, ContentOK, NEW n \in BlockNumbers, NEW t \in TxNumbers(Block(n)),
           AnchorsResolve(n), ~TxIsTrue(Block(n), t)
    PROVE  \E a \in RefAnchors(Block(n), t, FALSE) : TxFraud(Block(n), t, a)
<1> DEFINE tx == Tx(Block(n), t)
           r == tx.ref.blockNr
<1>1. CASE ~(RefNotAhead(Block(n), t) /\ RefInBlock(tx.ref))
  BY <1>1 DEF RefAnchors, TxFraud
<1>2. CASE RefNotAhead(Block(n), t) /\ RefInBlock(tx.ref)
  <2>1. r \in BlockNumbers
    <3>1. r \in Nat /\ r <= n
      BY <1>2, BlockCounts DEF ContentOK, Reference, RefNotAhead
    <3> QED BY <3>1, BlockCounts
  <2>2. Resolves(r)
    BY <1>2 DEF AnchorsResolve
  <2> DEFINE a == RootInto(Block(r), tx.ref.updateNr, tx.ref.isDeposit)
  <2>3. /\ a \in Candidates(Block(r), tx.ref.updateNr, tx.ref.isDeposit, FALSE)
        /\ ValidPriorAnchor(a, Block(r), tx.ref.updateNr, tx.ref.isDeposit)
    <3> HIDE DEF r
    <3> QED BY <2>1, <2>2, TrueRootCanBeShown
  <2>4. ~VerifyProof(tx, a) \/ (tx.ethKey # NoKey /\ ~Query(tx.ethKey, Fields(tx)))
    BY <1>2 DEF TxIsTrue
  <2> HIDE DEF a
  <2>5. a \in RefAnchors(Block(n), t, FALSE)
    BY <1>2, <2>3 DEF RefAnchors
  <2>6. TxFraud(Block(n), t, a)
    BY <2>3, <2>4 DEF TxFraud
  <2> QED BY <2>5, <2>6
<1> QED BY <1>1, <1>2

(* So can a root that is not the one of its update, or a block's anchor    *)
(* that is not the root of its last.                                       *)
LEMMA FalseRootIsFraud ==
    ASSUME SpineInv, ContentOK, NEW n \in BlockNumbers, AnchorsResolve(n),
           ~RootsAreTrue(Block(n))
    PROVE  \E isTx \in BOOLEAN : \E u \in UpdateNumbers(Block(n), isTx) :
               \E a \in Candidates(Block(n), u, ~isTx, FALSE) : TreeFraud(Block(n), u, isTx, a)
<1> DEFINE b == Block(n)
           into(u, isTx) == RootInto(b, u, ~isTx)
           root(u, isTx) == TrueRoot(into(u, isTx), b, UpdateLeaves(b, u, isTx))
<1>1. b.numTransactions \in Nat /\ b.numDeposits \in Nat
  BY BlockCounts
<1>2. Resolves(n)
  BY DEF AnchorsResolve
<1>3. ASSUME NEW isTx \in BOOLEAN, NEW u \in UpdateNumbers(b, isTx),
             \/ root(u, isTx) # UpdateRoot(b, u, isTx)
             \/ IsLastUpdate(b, u) /\ root(u, isTx) # b.anchor
      PROVE  \E a \in Candidates(b, u, ~isTx, FALSE) : TreeFraud(b, u, isTx, a)
  <2>1. /\ into(u, isTx) \in Candidates(b, u, ~isTx, FALSE)
        /\ ValidPriorAnchor(into(u, isTx), b, u, ~isTx)
    BY <1>2, TrueRootCanBeShown
  <2>2. TreeFraud(b, u, isTx, into(u, isTx))
    BY <1>3, <2>1 DEF TreeFraud
  <2> QED BY <2>1, <2>2
<1>4. CASE \E isTx \in BOOLEAN : \E u \in UpdateNumbers(b, isTx) :
               root(u, isTx) # UpdateRoot(b, u, isTx)
  BY <1>3, <1>4
<1>5. CASE \A isTx \in BOOLEAN : \A u \in UpdateNumbers(b, isTx) :
               root(u, isTx) = UpdateRoot(b, u, isTx)
  <2>1. b.anchor # IF b.numTransactions > 0 THEN UpdateRoot(b, b.numTransactions - 1, TRUE)
                   ELSE UpdateRoot(b, Groups(b) - 1, FALSE)
    BY <1>5 DEF RootsAreTrue
  <2>2. CASE b.numTransactions > 0
    <3> DEFINE u == b.numTransactions - 1
    <3>1. u \in UpdateNumbers(b, TRUE) /\ IsLastUpdate(b, u)
      BY <1>1, <2>2 DEF UpdateNumbers, TxNumbers, IsLastUpdate
    <3> HIDE DEF u, b, root
    <3>2. root(u, TRUE) = UpdateRoot(b, u, TRUE)
      BY <1>5, <3>1
    <3>3. UpdateRoot(b, u, TRUE) # b.anchor
      BY <2>1, <2>2 DEF u
    <3>4. root(u, TRUE) # b.anchor
      BY <3>2, <3>3
    <3> QED BY <1>3, <3>1, <3>4 DEF b
  <2>3. CASE ~(b.numTransactions > 0)
    <3> DEFINE u == Groups(b) - 1
    <3>1. b.numTransactions = 0 /\ b.numDeposits # 0
      BY <1>1, <2>3 DEF ContentOK
    <3>2. u \in UpdateNumbers(b, FALSE) /\ IsLastUpdate(b, u)
      <4>1. u = (b.numDeposits - 1) \div 3 /\ Groups(b) > 0 /\ Groups(b) \in Nat
        BY <1>1, <3>1, GroupArithmetic, BlockCounts DEF Groups
      <4> QED BY <3>1, <4>1 DEF UpdateNumbers, GroupNumbers, IsLastUpdate
    <3> HIDE DEF u, b, root
    <3>3. root(u, FALSE) = UpdateRoot(b, u, FALSE)
      BY <1>5, <3>2
    <3>4. UpdateRoot(b, u, FALSE) # b.anchor
      BY <2>1, <2>3 DEF u
    <3>5. root(u, FALSE) # b.anchor
      BY <3>3, <3>4
    <3> QED BY <1>3, <3>2, <3>5 DEF b
  <2> QED BY <2>2, <2>3
<1> QED BY <1>4, <1>5

(* A block that is not valid can be challenged.                            *)
LEMMA InvInvalidIsChallengeable == SpineInv /\ ContentOK => InvalidIsChallengeable
<1> SUFFICES ASSUME SpineInv, ContentOK, NEW n \in BlockNumbers, ~IsValid(n), AnchorsResolve(n)
             PROVE  CanChallengeWith(n, FALSE)
  BY DEF InvalidIsChallengeable, CanChallenge
<1>1. CASE ~RootsAreTrue(Block(n))
  BY <1>1, FalseRootIsFraud DEF CanChallengeWith
<1>2. CASE ~DepositsAreTrue(Block(n))
  BY <1>2, FalseDepositIsFraud DEF CanChallengeWith
<1>3. CASE \E t \in TxNumbers(Block(n)) : ~TxIsTrue(Block(n), t)
  BY <1>3, FalseTxIsFraud DEF CanChallengeWith
<1>4. CASE ~SpendsOnce(n)
  BY <1>4, SpentAgainIsFraud DEF CanChallengeWith
<1> QED BY <1>1, <1>2, <1>3, <1>4 DEF IsValid

(* No honest sequencer is slashed, whatever was posted, rolled back and    *)
(* posted again: the fraud proofs are sound but for the two exceptions     *)
(* that ValidIsSafe names.                                                 *)
THEOREM ValidBlocksAreSafe == EntrypointSpec => []ValidIsSafe
  BY BridgeIsChain, SpineInvariant, ChainIsReadable, InvValidIsSafe, PTL

(* The fraud proofs are complete: nothing that makes a block invalid       *)
(* escapes all four of them, when the anchors they show resolve.           *)
THEOREM InvalidBlocksAreChallengeable == EntrypointSpec => []InvalidIsChallengeable
  BY BridgeIsChain, SpineInvariant, ChainIsReadable, InvInvalidIsChallengeable, PTL

-----------------------------------------------------------------------------
(* Where the fields of a block are.                                        *)

(* Dividing once more, by a number that is not zero.                       *)
LEMMA EpochBounds ==
    ASSUME NEW x \in Nat, NEW d \in Nat \ {0}
    PROVE  /\ x \div d \in Nat
           /\ d * (x \div d) <= x
           /\ x < d * (x \div d) + d
           /\ \A y \in Nat : x <= y => x \div d <= y \div d
<1>1. x \div d \in Nat /\ d * (x \div d) <= x /\ x < d * (x \div d) + d
  OBVIOUS
<1>2. ASSUME NEW y \in Nat, x <= y PROVE x \div d <= y \div d
  <2> DEFINE p == x \div d
             q == y \div d
  <2>1. p \in Nat /\ q \in Nat /\ d * p <= x /\ y < d * q + d
    OBVIOUS
  <2> HIDE DEF p, q
  <2>2. SUFFICES ASSUME p > q PROVE FALSE
    BY <2>1 DEF p, q
  <2>3. d * p >= d * (q + 1) /\ d * (q + 1) = d * q + d
    BY <2>1, <2>2
  <2>4. d * p \in Nat /\ d * q \in Nat
    BY <2>1
  <2> HIDE <2>3
  <2> QED BY <1>2, <2>1, <2>3, <2>4
<1> QED BY <1>1, <1>2

(* The fields of a block are in its blobs.                                 *)
SizesOK == \A n \in BlockNumbers : BlobUse(Block(n)) < BLOB_SIZE * Len(Block(n).blobhashes)

(* Deposits take four fields for each group of three.                      *)
LEMMA DepositFields ==
    ASSUME NEW k \in Nat
    PROVE  /\ DepositBlobUse(k) \in Nat
           /\ DepositBlobUse(k) = 4 * ((k + 2) \div 3)
           /\ DepositsLength(k) = DepositBlobUse(k)
           /\ NumDepositsToMemoryLength(k) = DepositBlobUse(k)
<1>1. k \div 3 \in Nat /\ k % 3 \in 0 .. 2 /\ k = 3 * (k \div 3) + (k % 3)
  OBVIOUS
<1>2. (k + 2) \div 3 = k \div 3 + IF k % 3 = 0 THEN 0 ELSE 1
  OBVIOUS
<1>3. DepositsLength(k) = 4 * (k \div 3 + IF k % 3 = 0 THEN 0 ELSE 1)
  BY DEF DepositsLength
<1>4. NumDepositsToMemoryLength(k) = (k \div 3 + IF k % 3 = 0 THEN 0 ELSE 1) * 4
  BY DEF NumDepositsToMemoryLength
<1>5. DepositBlobUse(k) = IF k % 3 = 0 THEN (k \div 3) * 4 ELSE (k \div 3 + 1) * 4
  BY DEF DepositBlobUse
<1> DEFINE q == k \div 3
           r == k % 3
<1> HIDE DEF q, r
<1>6. q \in Nat /\ r \in 0 .. 2
  BY <1>1 DEF q, r
<1>7. DepositBlobUse(k) = IF r = 0 THEN q * 4 ELSE (q + 1) * 4
  BY <1>5 DEF q, r
<1>8. (k + 2) \div 3 = IF r = 0 THEN q ELSE q + 1
  BY <1>2, <1>6 DEF q, r
<1>9. DepositsLength(k) = IF r = 0 THEN 4 * q ELSE 4 * (q + 1)
  BY <1>3, <1>6 DEF q, r
<1>10. NumDepositsToMemoryLength(k) = IF r = 0 THEN q * 4 ELSE (q + 1) * 4
  BY <1>4, <1>6 DEF q, r
<1> QED BY <1>6, <1>7, <1>8, <1>9, <1>10

(* The deposits come first, then the transactions with fifteen fields each.*)
LEMMA UseOfBlobs ==
    ASSUME NEW d, d.numTransactions \in Nat, d.numDeposits \in Nat
    PROVE  /\ BlobUse(d) \in Nat
           /\ BlobUse(d) = 4 * Groups(d) + 15 * d.numTransactions
<1>1. /\ DepositBlobUse(d.numDeposits) \in Nat
      /\ DepositBlobUse(d.numDeposits) = 4 * Groups(d)
  BY DepositFields DEF Groups
<1>2. BlobUse(d) = DepositBlobUse(d.numDeposits) + d.numTransactions * 15
  BY DEF BlobUse
<1> QED BY <1>1, <1>2

(* What a product bounds: a factor, when the other one is known.           *)
LEMMA FactorBound ==
    ASSUME NEW d \in Nat, NEW p \in Nat, NEW q \in Nat, d * p < d * q
    PROVE  p < q
<1>1. SUFFICES ASSUME q <= p PROVE FALSE
  OBVIOUS
<1>2. PICK e \in Nat : p = q + e
  <2>1. p - q \in Nat /\ p = q + (p - q)
    BY <1>1
  <2> QED BY <2>1
<1>3. d * p = d * q + d * e
  BY <1>2
<1>4. d * e \in Nat /\ d * q \in Nat
  BY <1>2
<1> QED BY <1>3, <1>4

(* A post has room for its block, and later steps keep the block.          *)
LEMMA SizesStep == SpineInv /\ SizesOK /\ [SpineNext]_spineVars => SizesOK'
<1> SUFFICES ASSUME SpineInv, SizesOK, [SpineNext]_spineVars PROVE SizesOK'
  OBVIOUS
<1>1. ASSUME NEW d \in Submissions, AddBlock(d) PROVE SizesOK'
  <2> DEFINE b == Stamped(d)
  <2>1. d \in Submission /\ IsAcceptable(d)
    BY <1>1, SubmissionsAssumption DEF AddBlock
  <2>2. BlobUse(b) = BlobUse(d) /\ b.blobhashes = d.blobhashes
    BY DEF Stamped, BlobUse
  <2>3. /\ BlobUse(d) < BLOB_SIZE * d.numBlobs /\ d.numBlobs <= Len(d.blobhashes)
        /\ d.numBlobs \in Nat /\ Len(d.blobhashes) \in Nat /\ BlobUse(d) \in Nat
        /\ BLOB_SIZE \in Nat
    <3>1. d.numBlobs \in Nat /\ Len(d.blobhashes) \in Nat
      BY <2>1 DEF Submission
    <3>2. d.numTransactions \in Nat /\ d.numDeposits \in Nat
      BY <2>1 DEF Submission
    <3>3. BlobUse(d) \in Nat
      BY <3>2, UseOfBlobs
    <3> QED BY <2>1, <3>1, <3>3, BlobSizeAssumption DEF IsAcceptable
  <2>4. BLOB_SIZE * d.numBlobs <= BLOB_SIZE * Len(d.blobhashes)
    <3>1. PICK e \in Nat : Len(d.blobhashes) = d.numBlobs + e
      <4>1. Len(d.blobhashes) - d.numBlobs \in Nat
        BY <2>3
      <4> QED BY <2>3, <4>1
    <3>2. BLOB_SIZE * Len(d.blobhashes) = BLOB_SIZE * d.numBlobs + BLOB_SIZE * e
      BY <2>3, <3>1
    <3>3. BLOB_SIZE * d.numBlobs \in Nat /\ BLOB_SIZE * e \in Nat
      BY <2>3
    <3> QED BY <3>2, <3>3
  <2>5. BLOB_SIZE * d.numBlobs \in Nat /\ BLOB_SIZE * Len(d.blobhashes) \in Nat
    BY <2>3
  <2>6. BlobUse(b) < BLOB_SIZE * Len(b.blobhashes)
    BY <2>2, <2>3, <2>4, <2>5
  <2> HIDE DEF b
  <2>7. ASSUME NEW n \in BlockNumbers'
        PROVE  BlobUse(Block(n)') < BLOB_SIZE * Len(Block(n)'.blobhashes)
    <3>1. CASE n \in BlockNumbers
      BY <1>1, <3>1, ChainGrows DEF SizesOK
    <3>2. CASE n = Height
      <4>1. Block(n)' = b
        BY <1>1, <3>2, ChainGrows DEF b
      <4> QED BY <4>1, <2>6
    <3> QED BY <1>1, <3>1, <3>2, ChainGrows
  <2> QED BY <2>7 DEF SizesOK, BlobUse
<1>2. ASSUME NEW n \in BlockNumbers, Rollback(n) PROVE SizesOK'
  <2>1. \A m \in BlockNumbers' : m \in BlockNumbers /\ Block(m)' = Block(m)
    BY <1>2, ChainShrinks
  <2> QED BY <2>1 DEF SizesOK, BlobUse
<1>3. CASE SpineTick \/ UNCHANGED spineVars
  BY <1>3 DEF SpineTick, spineVars, SizesOK, BlockNumbers, Height, Block, BlobUse
<1> QED BY <1>1, <1>2, <1>3 DEF SpineNext

LEMMA BlocksFitBlobs == SpineSpec => []SizesOK
<1>1. SpineInit => SizesOK
  BY DEF SpineInit, SizesOK, BlockNumbers, Height
<1> QED BY <1>1, SizesStep, SpineInvariant, PTL DEF SpineSpec

(* So every field is found, alone or at the start of a run of fields.      *)
LEMMA FieldIsFound ==
    ASSUME SpineInv, SizesOK, NEW n \in BlockNumbers, NEW a \in Nat,
           NEW length \in Nat \ {0}, a + length <= BlobUse(Block(n))
    PROVE  /\ IsInBlobs(Block(n), a)
           /\ RegionIsInBlobs(Block(n), a, length)
<1> DEFINE b == Block(n)
           L == Len(b.blobhashes)
           d == BLOB_SIZE
           q == a \div d
           q2 == (a + d) \div d
<1>1. /\ L \in Nat /\ BlobUse(b) \in Nat /\ BlobUse(b) < d * L /\ d \in Nat
  <2>1. b \in BlockData
    BY BlockType DEF SpineInv
  <2>2. L \in Nat /\ b.numTransactions \in Nat /\ b.numDeposits \in Nat
    BY <2>1 DEF BlockData
  <2> QED BY <2>2, BlobSizeAssumption, UseOfBlobs DEF SizesOK
<1> HIDE DEF b, L
<1>2. d # 0
  BY <1>1
<1>3. /\ q \in Nat /\ d * q <= a /\ a < d * q + d
      /\ q2 \in Nat /\ d * q2 <= a + d
  <2>1. a + d \in Nat /\ d \in Nat \ {0}
    BY <1>1, <1>2
  <2> QED BY <2>1, EpochBounds
<1>4. a % d = a - d * q
  BY <1>1, <1>2
<1> HIDE DEF q, q2
<1>5. a < d * L /\ a + length < d * L
  <2>1. d * L \in Nat /\ a + length <= BlobUse(b)
    BY <1>1 DEF b
  <2> QED BY <1>1, <2>1
<1>6. q < L
  <2>1. d * q < d * L
    BY <1>1, <1>3, <1>5
  <2> QED BY <1>1, <1>3, <2>1, FactorBound
<1>7. ASSUME (a % d) + length > d PROVE q2 < L
  <2>1. d * (q + 1) = d * q + d /\ d * (q + 2) = d * q + d + d /\ d * q \in Nat /\ d * L \in Nat
    BY <1>1, <1>3
  <2>2. d * (q + 1) < d * L
    BY <1>1, <1>3, <1>4, <1>5, <1>7, <2>1
  <2>3. q + 1 < L
    BY <1>1, <1>3, <2>2, FactorBound
  <2>4. d * q2 < d * (q + 2)
    BY <1>1, <1>3, <2>1
  <2>5. q2 < q + 2
    BY <1>1, <1>3, <2>4, FactorBound
  <2> QED BY <1>1, <1>3, <2>3, <2>5
<1> QED BY <1>6, <1>7 DEF IsInBlobs, RegionIsInBlobs, q, q2, L, b

-----------------------------------------------------------------------------
(* What one honest challenger finds and proves.                            *)

(* The challenge of a leaf that is reported opens it where the contract    *)
(* looks, and is accepted.                                                 *)
LEMMA DepositReportIsProved ==
    ASSUME SpineInv, SizesOK, DepositsFrozen, NEW n \in BlockNumbers, n # 1,
           NEW i \in DepositReports(n)
    PROVE  DepositSent(n, i) /\ DepositAccepted(n, i)
<1> DEFINE b == Block(n)
           leaf == Memory(b).deposits[i + 1]
<1>1. /\ b.numDeposits \in Nat /\ Groups(b) \in Nat /\ b.numDeposits <= 3 * Groups(b)
      /\ b.numTransactions \in Nat /\ b.blockNr = n
  BY BlockCounts DEF Groups
<1>2. b.numDeposits = Len(perBlockDeposits[n])
  BY DEF DepositsFrozen
<1>3. /\ i \in Nat /\ i < 3 * Groups(b)
      /\ i < b.numDeposits => leaf # perBlockDeposits[n][i + 1]
      /\ i >= b.numDeposits => leaf # ZeroLeaf
  BY <1>1 DEF DepositReports
<1>4. DepositFraud(b, i)
  BY <1>1, <1>3 DEF DepositFraud
<1>5. /\ DepositLeafAddress(i) \in Nat
      /\ DepositLeafAddress(i) = LeafMemoryAddress(i, b.numDeposits, TRUE, 0)
      /\ DepositLeafAddress(i) + 1 <= 4 * Groups(b)
  BY <1>1, <1>3 DEF DepositLeafAddress, LeafMemoryAddress
<1>6. BlobUse(b) \in Nat /\ 4 * Groups(b) <= BlobUse(b)
  BY <1>1, UseOfBlobs
<1>7. IsInBlobs(b, DepositLeafAddress(i))
  <2>1. DepositLeafAddress(i) + 1 <= BlobUse(Block(n)) /\ 1 \in Nat \ {0}
    <3> DEFINE x == DepositLeafAddress(i)
               y == 4 * Groups(b)
               z == BlobUse(b)
    <3>1. x \in Nat /\ x + 1 <= y /\ y <= z /\ y \in Nat /\ z \in Nat
      <4>1. x \in Nat /\ x + 1 <= y
        BY <1>5
      <4>2. y <= z /\ z \in Nat
        BY <1>6
      <4>3. y \in Nat
        BY <1>1
      <4> QED BY <4>1, <4>2, <4>3
    <3> HIDE DEF x, y, z
    <3>2. x + 1 <= z
      BY <3>1
    <3> QED BY <3>2 DEF x, z
  <2> HIDE DEF b
  <2>2. IsInBlobs(Block(n), DepositLeafAddress(i))
    BY <1>5, <2>1, FieldIsFound
  <2> QED BY <2>2 DEF b
<1> QED BY <1>4, <1>5, <1>7 DEF DepositSent, DepositAccepted, TargetIsRight

(* One is reported when the deposits are not the recorded ones.            *)
LEMMA FalseDepositIsReported ==
    ASSUME SpineInv, DepositsFrozen, NEW n \in BlockNumbers, ~DepositsAreTrue(Block(n))
    PROVE  DepositReports(n) # {} /\ DepositReports(n) \subseteq Nat
<1> DEFINE b == Block(n)
<1>1. Groups(b) \in Nat /\ b.numDeposits \in Nat /\ b.blockNr = n
  BY BlockCounts
<1>2. b.numDeposits = Len(perBlockDeposits[n])
  BY DEF DepositsFrozen
<1>3. PICK k \in 1 .. 3 * Groups(b) :
          Memory(b).deposits[k] # IF k <= b.numDeposits THEN perBlockDeposits[n][k] ELSE ZeroLeaf
  BY <1>1, <1>2 DEF DepositsAreTrue
<1>0. DepositReports(n) \subseteq Nat
  <2> DEFINE A == {i \in 0 .. b.numDeposits - 1 : i < Len(perBlockDeposits[n])
                       /\ Memory(b).deposits[i + 1] # perBlockDeposits[n][i + 1]}
             B == {i \in b.numDeposits .. 3 * Groups(b) - 1 : Memory(b).deposits[i + 1] # ZeroLeaf}
  <2>1. A \subseteq Nat /\ B \subseteq Nat
    BY <1>1
  <2>2. DepositReports(n) = A \cup B
    BY DEF DepositReports
  <2> HIDE DEF A, B
  <2> QED BY <2>1, <2>2
<1> DEFINE i == k - 1
<1>4. i \in 0 .. 3 * Groups(b) - 1 /\ i + 1 = k
  BY <1>1
<1> HIDE DEF i
<1>5. CASE k <= b.numDeposits
  <2>1. i \in 0 .. b.numDeposits - 1 /\ i < Len(perBlockDeposits[n])
    BY <1>1, <1>2, <1>4, <1>5
  <2>2. Memory(b).deposits[i + 1] # perBlockDeposits[n][i + 1]
    BY <1>3, <1>4, <1>5
  <2>3. i \in DepositReports(n)
    BY <2>1, <2>2 DEF DepositReports
  <2> QED BY <1>0, <2>3
<1>6. CASE ~(k <= b.numDeposits)
  <2>1. i \in b.numDeposits .. 3 * Groups(b) - 1
    BY <1>1, <1>4, <1>6
  <2>2. Memory(b).deposits[i + 1] # ZeroLeaf
    BY <1>3, <1>4, <1>6
  <2>3. i \in DepositReports(n)
    BY <2>1, <2>2 DEF DepositReports
  <2> QED BY <1>0, <2>3
<1> QED BY <1>5, <1>6

(* So wrong deposits are proved, and proved again.                         *)
LEMMA WrongDepositIsProved ==
    ASSUME SpineInv, SizesOK, DepositsFrozen, NEW n \in BlockNumbers, n # 1,
           ~DepositsAreTrue(Block(n))
    PROVE  IsProved(n) /\ IsProvedAgain(n)
<1>1. PICK i \in DepositReports(n) : \A j \in DepositReports(n) : i <= j
  BY FalseDepositIsReported, LeastNumber
<1>2. DepositSent(n, i) /\ DepositAccepted(n, i)
  BY DepositReportIsProved
<1>3. i \in FoundAgain(n).deposits
  BY <1>1 DEF FoundAgain
<1> QED BY <1>1, <1>2, <1>3 DEF IsProved, IsProvedAgain

(* A place is a block, a transaction in it and one of its two nullifiers.  *)
LEMMA PlaceIsTriple ==
    ASSUME SpineInv, NEW n, n \in BlockNumbers \/ n = -1, NEW p \in NullifierPlaces(n)
    PROVE  /\ p = <<p[1], p[2], p[3]>>
           /\ p[1] \in 0 .. n /\ p[1] \in BlockNumbers
           /\ p[2] \in TxNumbers(Block(p[1])) /\ p[2] \in Nat
           /\ p[3] \in 0 .. 1
<1>1. PICK m \in 0 .. n : \E t \in TxNumbers(Block(m)), w \in 0 .. 1 : p = <<m, t, w>>
  BY DEF NullifierPlaces
<1>2. PICK t \in TxNumbers(Block(m)), w \in 0 .. 1 : p = <<m, t, w>>
  BY <1>1
<1>3. m \in BlockNumbers /\ Block(m).numTransactions \in Nat
  BY BlockCounts
<1>4. t \in Nat
  BY <1>3 DEF TxNumbers
<1> QED BY <1>2, <1>3, <1>4

(* Of the places of a nullifier one comes first.                           *)
LEMMA FirstPlace ==
    ASSUME NEW P \in SUBSET (Nat \X Nat \X Nat), NEW p \in P
    PROVE  /\ FirstUse(P, p) \in P
           /\ NullifierAt(FirstUse(P, p)) = NullifierAt(p)
<1> DEFINE A == {q \in P : NullifierAt(q) = NullifierAt(p)}
           N1 == {q[1] : q \in A}
<1>1. PICK a \in N1 : \A x \in N1 : a <= x
  <2>1. N1 \in SUBSET Nat /\ p[1] \in N1
    OBVIOUS
  <2> HIDE DEF N1
  <2> QED BY <2>1, LeastNumber
<1> DEFINE N2 == {q[2] : q \in {r \in A : r[1] = a}}
<1>2. PICK b \in N2 : \A x \in N2 : b <= x
  <2>1. N2 \in SUBSET Nat /\ N2 # {}
    BY <1>1
  <2> HIDE DEF N2
  <2> QED BY <2>1, LeastNumber
<1> DEFINE N3 == {q[3] : q \in {r \in A : r[1] = a /\ r[2] = b}}
<1>3. PICK c \in N3 : \A x \in N3 : c <= x
  <2>1. N3 \in SUBSET Nat /\ N3 # {}
    BY <1>2
  <2> HIDE DEF N3
  <2> QED BY <2>1, LeastNumber
<1>4. PICK f \in A : f[1] = a /\ f[2] = b /\ f[3] = c
  BY <1>3
<1>5. \A r \in P : NullifierAt(r) = NullifierAt(p) => r = f \/ IsBefore(f, r)
  <2> SUFFICES ASSUME NEW r \in A PROVE r = f \/ IsBefore(f, r)
    OBVIOUS
  <2>1. r = <<r[1], r[2], r[3]>> /\ f = <<f[1], f[2], f[3]>>
    <3>1. \A q \in Nat \X Nat \X Nat : q = <<q[1], q[2], q[3]>>
      OBVIOUS
    <3>2. r \in Nat \X Nat \X Nat /\ f \in Nat \X Nat \X Nat
      BY <1>4
    <3> QED BY <3>1, <3>2
  <2>2. r[1] \in Nat /\ r[2] \in Nat /\ r[3] \in Nat /\ a \in Nat /\ b \in Nat /\ c \in Nat
    BY <1>4
  <2>3. a <= r[1]
    BY <1>1
  <2>4. r[1] = a => b <= r[2]
    BY <1>2
  <2>5. r[1] = a /\ r[2] = b => c <= r[3]
    BY <1>3
  <2>6. CASE r[1] = a /\ r[2] = b /\ r[3] = c
    BY <1>4, <2>1, <2>6
  <2>7. CASE ~(r[1] = a /\ r[2] = b /\ r[3] = c)
    <3> HIDE DEF A, N1, N2, N3
    <3>1. \/ a < r[1]
          \/ a = r[1] /\ b < r[2]
          \/ a = r[1] /\ b = r[2] /\ c < r[3]
      BY <2>2, <2>3, <2>4, <2>5, <2>7
    <3> QED BY <1>4, <3>1 DEF IsBefore
  <2> QED BY <2>6, <2>7
<1> QED BY <1>4, <1>5 DEF FirstUse

(* The places of a block are triples of numbers.                           *)
LEMMA PlacesAreTriples ==
    ASSUME SpineInv, NEW n, n \in BlockNumbers \/ n = -1
    PROVE  NullifierPlaces(n) \in SUBSET (Nat \X Nat \X Nat)
<1> SUFFICES ASSUME NEW p \in NullifierPlaces(n) PROVE p \in Nat \X Nat \X Nat
  OBVIOUS
<1>1. /\ p = <<p[1], p[2], p[3]>>
      /\ p[1] \in BlockNumbers /\ p[2] \in Nat /\ p[3] \in 0 .. 1
  BY PlaceIsTriple
<1>2. p[1] \in Nat
  BY <1>1, BlockCounts
<1> QED BY <1>1, <1>2

(* A nullifier is in the blobs, where the contract looks for it.           *)
LEMMA NullifierIsFound ==
    ASSUME SpineInv, SizesOK, NEW n \in BlockNumbers, NEW p \in NullifierPlaces(n)
    PROVE  /\ Block(p[1]).blobhashes # <<>>
           /\ OpensNullifier(p)
           /\ NullifierPlace(p) = NullifierMemoryAddress(p[2], Block(p[1]).numDeposits, p[3])
<1> DEFINE m == p[1]
           t == p[2]
           b == Block(p[1])
<1>1. m \in BlockNumbers /\ t \in TxNumbers(b) /\ t \in Nat /\ p[3] \in 0 .. 1
  BY PlaceIsTriple
<1>2. b.numTransactions \in Nat /\ b.numDeposits \in Nat /\ Groups(b) \in Nat
  BY <1>1, BlockCounts
<1> HIDE DEF m, t, b
<1>3. t + 1 <= b.numTransactions
  BY <1>1, <1>2 DEF TxNumbers
<1>4. /\ BlobUse(b) \in Nat /\ BlobUse(b) = 4 * Groups(b) + 15 * b.numTransactions
      /\ DepositsLength(b.numDeposits) = 4 * Groups(b)
      /\ NumDepositsToMemoryLength(b.numDeposits) = 4 * Groups(b)
  BY <1>2, UseOfBlobs, DepositFields DEF Groups
<1>5. NullifierPlace(p) = 4 * Groups(b) + 15 * t + 9 + p[3]
  BY <1>4 DEF NullifierPlace, NullifierAddress, TxAddress, m, t, b
<1>6. NullifierMemoryAddress(t, b.numDeposits, p[3]) = 4 * Groups(b) + t * 15 + 9 + p[3]
  BY <1>4 DEF NullifierMemoryAddress, TxMemoryAddress
<1>7. NullifierPlace(p) \in Nat /\ NullifierPlace(p) + 1 <= BlobUse(b)
  <2> DEFINE g == Groups(b)
             txs == b.numTransactions
             x == NullifierPlace(p)
             use == BlobUse(b)
             w == p[3]
  <2>1. g \in Nat /\ txs \in Nat /\ t \in Nat /\ t + 1 <= txs /\ w \in 0 .. 1
    BY <1>1, <1>2, <1>3
  <2>2. x = 4 * g + 15 * t + 9 + w
    BY <1>5
  <2>3. use = 4 * g + 15 * txs
    BY <1>4
  <2> HIDE DEF g, txs, x, use, w
  <2>4. x \in Nat /\ x + 1 <= use
    BY <2>1, <2>2, <2>3
  <2> QED BY <2>4 DEF x, use
<1>8. IsInBlobs(b, NullifierPlace(p))
  <2>1. 1 \in Nat \ {0}
    OBVIOUS
  <2> QED BY <1>1, <1>7, <2>1, FieldIsFound DEF b, m
<1>9. b.blobhashes # <<>>
  <2>1. BlobUse(b) < BLOB_SIZE * Len(b.blobhashes)
    BY <1>1 DEF SizesOK, b, m
  <2>2. BLOB_SIZE * 0 = 0 /\ Len(<<>>) = 0
    BY BlobSizeAssumption
  <2> QED BY <1>4, <2>1, <2>2
<1>10. NullifierPlace(p) = NullifierMemoryAddress(t, b.numDeposits, p[3])
  BY <1>1, <1>2, <1>5, <1>6
<1> QED BY <1>8, <1>9, <1>10 DEF OpensNullifier, b, t

(* Two places of one nullifier, the second in the accused block, are a     *)
(* challenge that is sent and accepted.                                    *)
LEMMA NullifierReportIsProved ==
    ASSUME SpineInv, SizesOK, NEW n \in BlockNumbers, n # 1,
           NEW p \in NullifierPlaces(n), NEW q \in PlacesIn(n), p # q,
           NullifierAt(p) = NullifierAt(q)
    PROVE  NullifierSent(<<p, q>>) /\ NullifierAccepted(n, <<p, q>>)
<1>1. q \in NullifierPlaces(n) /\ q[1] = n
  BY DEF PlacesIn
<1>2. /\ p = <<p[1], p[2], p[3]>> /\ q = <<q[1], q[2], q[3]>>
      /\ p[1] \in 0 .. n /\ p[1] \in BlockNumbers
      /\ p[2] \in TxNumbers(Block(p[1])) /\ q[2] \in TxNumbers(Block(n))
  BY <1>1, PlaceIsTriple
<1>3. \A r \in {p, q} :
          /\ Block(r[1]).blobhashes # <<>> /\ OpensNullifier(r)
          /\ NullifierPlace(r) = NullifierMemoryAddress(r[2], Block(r[1]).numDeposits, r[3])
  BY <1>1, NullifierIsFound
<1>4. /\ Block(p[1]).blockNr = p[1] /\ IsBlockIncluded(Block(p[1]))
      /\ Block(p[1]).numTransactions \in Nat
      /\ Block(n).blockNr = n /\ IsBlockIncluded(Block(n))
      /\ Block(n).numTransactions \in Nat
  BY <1>2, BlockCounts
<1>5. p[2] < Block(p[1]).numTransactions /\ q[2] < Block(n).numTransactions
  BY <1>2, <1>4 DEF TxNumbers
<1>6. ~(p[1] = n /\ p[2] = q[2] /\ p[3] = q[3])
  BY <1>1, <1>2
<1>7. Tx(Block(p[1]), p[2]).nullifiers[p[3] + 1] = Tx(Block(q[1]), q[2]).nullifiers[q[3] + 1]
  BY DEF NullifierAt
<1>8. NullifierFraud(Block(p[1]), p[2], p[3], Block(q[1]), q[2], q[3])
  BY <1>1, <1>2, <1>4, <1>5, <1>6, <1>7 DEF NullifierFraud
<1>9. <<p, q>>[1] = p /\ <<p, q>>[2] = q
  OBVIOUS
<1>10. NullifierAccepted(n, <<p, q>>)
  BY <1>3, <1>8, <1>9 DEF NullifierAccepted, TargetIsRight
<1>11. NullifierSent(<<p, q>>)
  <2> SUFFICES ASSUME NEW k \in 1 .. 2
               PROVE  /\ <<p, q>>[k][1] \in BlockNumbers
                      /\ Block(<<p, q>>[k][1]).blobhashes # <<>>
                      /\ OpensNullifier(<<p, q>>[k])
    BY DEF NullifierSent
  <2>1. CASE k = 1
    BY <1>2, <1>3, <1>9, <2>1
  <2>2. CASE k = 2
    BY <1>1, <1>3, <1>9, <2>2
  <2> QED BY <2>1, <2>2
<1> QED BY <1>10, <1>11

(* A nullifier that comes again is reported against its first place, in    *)
(* the block or on record.                                                 *)
LEMMA SpentAgainIsProved ==
    ASSUME SpineInv, SizesOK, NEW n \in BlockNumbers, n # 1, ~SpendsOnce(n)
    PROVE  IsProved(n)
<1>0. n \in Nat /\ \A m \in 0 .. n : m \in BlockNumbers
  BY BlockCounts
<1>1. PICK p \in NullifierPlaces(n), q \in NullifierPlaces(n) :
          p[1] = n /\ p # q /\ NullifierAt(p) = NullifierAt(q)
  BY DEF SpendsOnce
<1>2. n - 1 \in BlockNumbers \/ n - 1 = -1
  BY <1>0
<1>3. /\ NullifierPlaces(n) \in SUBSET (Nat \X Nat \X Nat)
      /\ NullifierPlaces(n - 1) \in SUBSET (Nat \X Nat \X Nat)
      /\ PlacesIn(n) \in SUBSET (Nat \X Nat \X Nat)
  <2>1. /\ NullifierPlaces(n) \in SUBSET (Nat \X Nat \X Nat)
        /\ NullifierPlaces(n - 1) \in SUBSET (Nat \X Nat \X Nat)
    BY <1>2, PlacesAreTriples
  <2> QED BY <2>1 DEF PlacesIn
<1>4. p \in PlacesIn(n)
  BY <1>1 DEF PlacesIn
<1> SUFFICES \E f \in NullifierPlaces(n), r \in PlacesIn(n) :
                 /\ f # r /\ NullifierAt(f) = NullifierAt(r)
                 /\ <<f, r>> \in NullifierReports(n)
  BY NullifierReportIsProved DEF IsProved
<1>5. ASSUME NEW r \in PlacesIn(n), FirstUse(PlacesIn(n), r) # r
      PROVE  \E f \in NullifierPlaces(n) :
                 /\ f # r /\ NullifierAt(f) = NullifierAt(r)
                 /\ <<f, r>> \in NullifierReports(n)
  <2> DEFINE f == FirstUse(PlacesIn(n), r)
  <2>1. f \in PlacesIn(n) /\ NullifierAt(f) = NullifierAt(r)
    BY <1>3, FirstPlace
  <2>2. f \in NullifierPlaces(n)
    BY <2>1 DEF PlacesIn
  <2>3. <<f, r>> \in NullifierReports(n)
    BY <1>5 DEF NullifierReports
  <2> QED BY <1>5, <2>1, <2>2, <2>3
<1>6. CASE FirstUse(PlacesIn(n), p) # p
  BY <1>4, <1>5, <1>6
<1>7. CASE FirstUse(PlacesIn(n), p) = p /\ q[1] = n
  <2>1. q \in PlacesIn(n)
    BY <1>7 DEF PlacesIn
  <2>2. FirstUse(PlacesIn(n), q) = FirstUse(PlacesIn(n), p)
    BY <1>1 DEF FirstUse
  <2> QED BY <1>1, <1>5, <1>7, <2>1, <2>2
<1>8. CASE FirstUse(PlacesIn(n), p) = p /\ q[1] # n
  <2> DEFINE f == FirstUse(NullifierPlaces(n - 1), p)
  <2>1. q \in NullifierPlaces(n - 1)
    <3>1. PICK m \in 0 .. n : q \in {<<m, t, w>> : t \in TxNumbers(Block(m)), w \in 0 .. 1}
      BY DEF NullifierPlaces
    <3>2. q[1] = m
      BY <3>1
    <3>3. m \in 0 .. (n - 1)
      BY <1>0, <1>8, <3>2
    <3> QED BY <3>1, <3>3 DEF NullifierPlaces
  <2>2. f = FirstUse(NullifierPlaces(n - 1), q)
    BY <1>1 DEF FirstUse
  <2> HIDE DEF f
  <2>3. f \in NullifierPlaces(n - 1) /\ NullifierAt(f) = NullifierAt(p)
    BY <1>1, <1>3, <2>1, <2>2, FirstPlace
  <2>4. f \in NullifierPlaces(n) /\ f # p
    <3>1. PICK m \in 0 .. (n - 1) :
              f \in {<<m, t, w>> : t \in TxNumbers(Block(m)), w \in 0 .. 1}
      BY <2>3 DEF NullifierPlaces
    <3>2. f[1] = m /\ m \in 0 .. n /\ m # n
      BY <1>0, <3>1
    <3>3. f \in NullifierPlaces(n)
      BY <3>1, <3>2 DEF NullifierPlaces
    <3> QED BY <1>1, <3>2, <3>3
  <2>5. IsOnRecord(n, p)
    BY <1>1, <2>1 DEF IsOnRecord
  <2>6. <<f, p>> \in NullifierReports(n)
    BY <1>4, <1>8, <2>5 DEF NullifierReports, f
  <2> QED BY <1>4, <2>3, <2>4, <2>6
<1> QED BY <1>6, <1>7, <1>8

(* Updates follow one another in a root: one more is put behind the others.*)
LEMMA MoreUpdates ==
    ASSUME NEW T, NEW A \in Seq(T), NEW g, \A j \in Nat : g[j] \in T, NEW k \in Nat
    PROVE  LET s == [j \in 1 .. k |-> g[j - 1]]
               t == [j \in 1 .. k + 1 |-> g[j - 1]]
           IN  /\ A \o s \in Seq(T)
               /\ k = 0 => A \o s = A
               /\ A \o t = Append(A \o s, g[k])
<1> DEFINE s == [j \in 1 .. k |-> g[j - 1]]
           t == [j \in 1 .. k + 1 |-> g[j - 1]]
<1>1. /\ s \in Seq(T) /\ Len(s) = k /\ \A j \in 1 .. k : s[j] = g[j - 1]
      /\ t \in Seq(T) /\ Len(t) = k + 1 /\ \A j \in 1 .. k + 1 : t[j] = g[j - 1]
      /\ g[k] \in T
  <2>1. \A j \in 1 .. k : g[j - 1] \in T
    OBVIOUS
  <2>2. \A j \in 1 .. k + 1 : g[j - 1] \in T
    OBVIOUS
  <2> QED BY <2>1, <2>2
<1>2. k = 0 => s = <<>>
  OBVIOUS
<1> HIDE DEF s, t
<1>3. A \o s \in Seq(T) /\ A \o t \in Seq(T) /\ Len(A \o s) = Len(A) + k
  BY <1>1, ConcatProperties
<1>4. k = 0 => A \o s = A
  BY <1>2, ConcatEmptySeq
<1>5. A \o t = Append(A \o s, g[k])
  <2> DEFINE u == A \o t
             v == A \o s
             w == Append(v, g[k])
  <2>0. /\ u \in Seq(T) /\ Len(u) = Len(A) + Len(t)
        /\ \A j \in 1 .. Len(A) + Len(t) : u[j] = IF j <= Len(A) THEN A[j] ELSE t[j - Len(A)]
    BY <1>1, ConcatProperties
  <2>1. /\ Len(A) \in Nat
        /\ u \in Seq(T) /\ Len(u) = Len(A) + k + 1
        /\ \A j \in 1 .. Len(A) + k + 1 : u[j] = IF j <= Len(A) THEN A[j] ELSE t[j - Len(A)]
    <3>1. Len(A) \in Nat /\ Len(t) = k + 1
      BY <1>1
    <3>2. Len(A) + Len(t) = Len(A) + k + 1
      BY <3>1
    <3> HIDE DEF u
    <3> QED BY <2>0, <3>1, <3>2
  <2>2. /\ v \in Seq(T) /\ Len(v) = Len(A) + k
        /\ \A j \in 1 .. Len(A) + k : v[j] = IF j <= Len(A) THEN A[j] ELSE s[j - Len(A)]
    BY <1>1, ConcatProperties
  <2> HIDE DEF u, v
  <2>3. /\ w \in Seq(T) /\ Len(w) = Len(A) + k + 1 /\ w[Len(A) + k + 1] = g[k]
        /\ \A j \in 1 .. Len(A) + k : w[j] = v[j]
    <3>1. /\ w \in Seq(T) /\ Len(w) = Len(v) + 1 /\ w[Len(v) + 1] = g[k]
          /\ \A j \in 1 .. Len(v) : w[j] = v[j]
      <4> DEFINE e == g[k]
      <4>1. e \in T /\ v \in Seq(T)
        BY <1>1, <2>2
      <4> HIDE DEF e
      <4> QED BY <4>1, AppendFacts
    <3> HIDE DEF w
    <3> QED BY <2>2, <3>1
  <2> HIDE DEF w
  <2>4. ASSUME NEW j \in 1 .. Len(A) + k + 1 PROVE u[j] = w[j]
    <3>1. CASE j = Len(A) + k + 1
      <4>1. j - Len(A) = k + 1 /\ ~(j <= Len(A)) /\ t[k + 1] = g[k]
        BY <1>1, <2>1, <3>1
      <4> QED BY <2>1, <2>3, <3>1, <4>1
    <3>2. CASE j \in 1 .. Len(A) + k
      <4>1. w[j] = IF j <= Len(A) THEN A[j] ELSE s[j - Len(A)]
        BY <2>2, <2>3, <3>2
      <4>2. ~(j <= Len(A)) => j - Len(A) \in 1 .. k /\ j - Len(A) \in 1 .. k + 1
        BY <2>1, <3>2
      <4>3. ~(j <= Len(A)) => s[j - Len(A)] = t[j - Len(A)]
        BY <1>1, <4>2
      <4> QED BY <2>1, <4>1, <4>3
    <3>3. j = Len(A) + k + 1 \/ j \in 1 .. Len(A) + k
      BY <2>1
    <3> QED BY <3>1, <3>2, <3>3
  <2>5. u = w
    BY <2>1, <2>3, <2>4, SeqEqual
  <2> QED BY <2>5 DEF u, v, w
<1> QED BY <1>3, <1>4, <1>5 DEF s, t

(* The root an update starts from is the one written just before it.       *)
LEMMA UpdateFollows ==
    ASSUME SpineInv, NEW n \in BlockNumbers, NEW k \in 0 .. Updates(Block(n)) - 1
    PROVE  LET b == Block(n)
               u == NumberInKind(b, k)
               isTx == IsTxUpdate(b, k)
           IN  /\ u \in UpdateNumbers(b, isTx) /\ isTx \in BOOLEAN
               /\ IsFirstUpdate(b, u, ~isTx) <=> k = 0
               /\ k # 0 => RootBefore(b, u, ~isTx) = SubmittedRoot(b, k - 1)
<1> DEFINE b == Block(n)
           u == NumberInKind(b, k)
           isTx == IsTxUpdate(b, k)
           g == Groups(b)
<1>1. g \in Nat /\ b.numTransactions \in Nat /\ b.numDeposits \in Nat /\ k \in Nat
  BY BlockCounts DEF Updates
<1>2. g = 0 <=> b.numDeposits = 0
  BY <1>1, GroupArithmetic DEF Groups
<1>3. k < g + b.numTransactions
  BY <1>1 DEF Updates
<1>4. isTx <=> k >= g
  BY DEF IsTxUpdate
<1>5. u = IF isTx THEN k - g ELSE k
  BY DEF NumberInKind
<1>6. UpdateNumbers(b, isTx) = IF isTx THEN 0 .. b.numTransactions - 1 ELSE 0 .. g - 1
  BY DEF UpdateNumbers, TxNumbers, GroupNumbers
<1>7. IsFirstUpdate(b, u, ~isTx) <=> u = 0 /\ (~isTx \/ g = 0)
  BY <1>2 DEF IsFirstUpdate
<1> DEFINE txRoot(i) == Tx(b, i).root
           groupRoot(i) == Memory(b).groupRoots[i + 1]
<1>8. RootBefore(b, u, ~isTx) = IF isTx /\ u > 0 THEN txRoot(u - 1)
                               ELSE IF isTx THEN groupRoot(g - 1) ELSE groupRoot(u - 1)
  BY DEF RootBefore, UpdateRoot
<1>9. SubmittedRoot(b, k - 1) = IF k - 1 >= g THEN txRoot(k - 1 - g) ELSE groupRoot(k - 1)
  BY DEF SubmittedRoot, NumberInKind, IsTxUpdate, UpdateRoot
<1>10. isTx \in BOOLEAN
  BY DEF IsTxUpdate
<1> DEFINE txs == b.numTransactions
<1>11. txs \in Nat /\ k < g + txs /\ UpdateNumbers(b, isTx) = IF isTx THEN 0 .. txs - 1 ELSE 0 .. g - 1
  BY <1>1, <1>3, <1>6
<1> HIDE DEF b, u, isTx, g, txs, txRoot, groupRoot
<1>12. u \in UpdateNumbers(b, isTx)
  BY <1>1, <1>4, <1>5, <1>11
<1>13. u = 0 /\ (~isTx \/ g = 0) <=> k = 0
  BY <1>1, <1>4, <1>5
<1>14. ASSUME k # 0 PROVE RootBefore(b, u, ~isTx) = SubmittedRoot(b, k - 1)
  <2>1. CASE ~isTx
    <3>1. u = k /\ ~(k - 1 >= g)
      BY <1>1, <1>4, <1>5, <2>1
    <3> QED BY <1>8, <1>9, <2>1, <3>1
  <2>2. CASE isTx /\ u > 0
    <3>1. k - 1 >= g /\ k - 1 - g = u - 1
      BY <1>1, <1>4, <1>5, <2>2
    <3> QED BY <1>8, <1>9, <2>2, <3>1
  <2>3. CASE isTx /\ ~(u > 0)
    <3>1. k = g /\ ~(k - 1 >= g)
      BY <1>1, <1>4, <1>5, <2>3
    <3> QED BY <1>8, <1>9, <2>3, <3>1
  <2> QED BY <2>1, <2>2, <2>3
<1> QED BY <1>7, <1>10, <1>12, <1>13, <1>14 DEF b, u, isTx

(* In a block with true roots each is the anchor before it and the updates *)
(* since, and so is the anchor after it.                                   *)
LEMMA RootsAddUp ==
    ASSUME SpineInv, ContentOK, NEW n \in BlockNumbers, RootsAreTrue(Block(n)),
           NEW T, TruePriorAnchor(n) \in Seq(T),
           \A j \in Nat : Update(Block(n), LeavesAt(Block(n), j)) \in T
    PROVE  /\ Block(n).anchor = TruePriorAnchor(n) \o UpdatesBefore(Block(n), Updates(Block(n)))
           /\ Block(n).anchor \in Seq(T)
<1> DEFINE b == Block(n)
           A == TruePriorAnchor(n)
           g == [j \in Nat |-> Update(b, LeavesAt(b, j))]
           R(k) == A \o UpdatesBefore(b, k)
           N == {k \in 0 .. Updates(b) - 1 : SubmittedRoot(b, k) # R(k + 1)}
<1>1. /\ Groups(b) \in Nat /\ b.numTransactions \in Nat /\ b.numDeposits \in Nat
      /\ b.blockNr = n /\ Updates(b) \in Nat
  BY BlockCounts DEF Updates
<1>2. \A j \in Nat : g[j] \in T
  OBVIOUS
<1>3. \A k \in Nat : UpdatesBefore(b, k) = [j \in 1 .. k |-> g[j - 1]]
  BY DEF UpdatesBefore
<1>4. ASSUME NEW k \in Nat
      PROVE  R(k) \in Seq(T) /\ (k = 0 => R(k) = A) /\ R(k + 1) = TrueRoot(R(k), b, LeavesAt(b, k))
  <2> DEFINE s == [j \in 1 .. k |-> g[j - 1]]
             t == [j \in 1 .. k + 1 |-> g[j - 1]]
  <2>1. g[k] = Update(b, LeavesAt(b, k)) /\ A \in Seq(T)
    OBVIOUS
  <2>2. UpdatesBefore(b, k) = s /\ UpdatesBefore(b, k + 1) = t
    <3>1. k + 1 \in Nat
      OBVIOUS
    <3> HIDE DEF g, b
    <3>2. UpdatesBefore(b, k) = s
      BY <1>3
    <3>3. UpdatesBefore(b, k + 1) = t
      BY <1>3, <3>1
    <3> QED BY <3>2, <3>3
  <2> HIDE DEF g, b, A
  <2>3. A \o s \in Seq(T) /\ (k = 0 => A \o s = A) /\ A \o t = Append(A \o s, g[k])
    BY <1>2, <2>1, MoreUpdates
  <2> HIDE DEF s, t
  <2> QED BY <2>1, <2>2, <2>3 DEF TrueRoot
<1>5. ASSUME NEW k \in 0 .. Updates(b) - 1
      PROVE  SubmittedRoot(b, k) =
                 TrueRoot(IF k = 0 THEN A ELSE SubmittedRoot(b, k - 1), b, LeavesAt(b, k))
  <2> DEFINE u == NumberInKind(b, k)
             isTx == IsTxUpdate(b, k)
  <2>1. /\ u \in UpdateNumbers(b, isTx) /\ isTx \in BOOLEAN
        /\ IsFirstUpdate(b, u, ~isTx) <=> k = 0
        /\ k # 0 => RootBefore(b, u, ~isTx) = SubmittedRoot(b, k - 1)
    BY UpdateFollows
  <2>2. SubmittedRoot(b, k) = UpdateRoot(b, u, isTx) /\ LeavesAt(b, k) = UpdateLeaves(b, u, isTx)
    BY DEF SubmittedRoot, LeavesAt
  <2>3. RootInto(b, u, ~isTx) = IF k = 0 THEN A ELSE SubmittedRoot(b, k - 1)
    BY <1>1, <2>1 DEF RootInto
  <2>4. UpdateRoot(b, u, isTx) = TrueRoot(RootInto(b, u, ~isTx), b, UpdateLeaves(b, u, isTx))
    BY <2>1 DEF RootsAreTrue
  <2> QED BY <2>2, <2>3, <2>4
<1> HIDE DEF A, b, R
<1>6. N = {}
  <2> SUFFICES ASSUME N # {} PROVE FALSE
    OBVIOUS
  <2>1. N \in SUBSET Nat
    BY <1>1
  <2>2. PICK k \in N : \A j \in N : k <= j
    BY <2>1, LeastNumber
  <2>3. CASE k = 0
    BY <1>4, <1>5, <2>3
  <2>4. CASE k # 0
    <3>1. k - 1 \in 0 .. Updates(b) - 1 /\ k \in Nat /\ k - 1 + 1 = k
      BY <1>1, <2>4
    <3>2. k - 1 \notin N
      BY <2>2, <3>1
    <3>3. SubmittedRoot(b, k - 1) = R(k)
      BY <3>1, <3>2
    <3>4. SubmittedRoot(b, k) = R(k + 1)
      BY <1>4, <1>5, <2>4, <3>1, <3>3
    <3> QED BY <3>4
  <2> QED BY <2>3, <2>4
<1>7. b.numTransactions # 0 \/ b.numDeposits # 0
  BY DEF ContentOK, b
<1> DEFINE last == Updates(b) - 1
<1>8. last \in 0 .. Updates(b) - 1 /\ last + 1 = Updates(b)
  <2>1. b.numDeposits # 0 => Groups(b) > 0
    BY <1>1, GroupArithmetic DEF Groups
  <2> QED BY <1>1, <1>7, <2>1 DEF Updates
<1>9. b.anchor = SubmittedRoot(b, last)
  <2>1. b.anchor = IF b.numTransactions > 0 THEN Tx(b, b.numTransactions - 1).root
                   ELSE Memory(b).groupRoots[Groups(b) - 1 + 1]
    BY DEF RootsAreTrue, UpdateRoot, b
  <2>2. IsTxUpdate(b, last) <=> b.numTransactions > 0
    BY <1>1 DEF IsTxUpdate, Updates
  <2>3. NumberInKind(b, last) = IF b.numTransactions > 0 THEN b.numTransactions - 1 ELSE Groups(b) - 1
    BY <1>1, <2>2 DEF NumberInKind, Updates
  <2> QED BY <2>1, <2>2, <2>3 DEF SubmittedRoot, UpdateRoot
<1>10. SubmittedRoot(b, last) = R(Updates(b))
  BY <1>6, <1>8
<1> QED BY <1>1, <1>4, <1>9, <1>10 DEF R, A, b

(* What the trees of the chain are made of.                                *)
TreeUpdates == {Update(Block(m), LeavesAt(Block(m), j)) : m \in BlockNumbers, j \in Nat}

(* After valid blocks the tracker has the anchor of the last one.          *)
LEMMA TrackedIsTrue ==
    ASSUME SpineInv, ContentOK, NEW n \in BlockNumbers, \A m \in 0 .. n - 1 : IsValid(m)
    PROVE  /\ TrackedAnchor(n) = TruePriorAnchor(n)
           /\ TruePriorAnchor(n) \in Seq(TreeUpdates)
<1> DEFINE before(m) == TruePriorAnchor(m)
           more(m) == UpdatesBefore(Block(m - 1), Updates(Block(m - 1)))
           T == TreeUpdates
<1>1. n \in Nat /\ \A m \in 0 .. n : m \in BlockNumbers /\ m \in Nat
  BY BlockCounts
<1>2. before(0) = GENESIS_ANCHOR /\ GENESIS_ANCHOR \in Seq(T)
  <2>1. before(0) = GENESIS_ANCHOR
    BY DEF TruePriorAnchor
  <2>2. <<>> \in Seq(T) /\ GENESIS_ANCHOR = <<>>
    <3> HIDE DEF T
    <3> QED BY EmptySeq, ValidatorsAssumption
  <2> QED BY <2>1, <2>2
<1>3. ASSUME NEW m \in 1 .. n, before(m - 1) \in Seq(T)
      PROVE  before(m) = before(m - 1) \o more(m) /\ before(m) \in Seq(T)
  <2>1. m - 1 \in 0 .. n - 1 /\ m - 1 \in BlockNumbers /\ m # 0
    BY <1>1
  <2>2. RootsAreTrue(Block(m - 1))
    BY <2>1 DEF IsValid
  <2>3. \A j \in Nat : Update(Block(m - 1), LeavesAt(Block(m - 1), j)) \in T
    BY <2>1 DEF TreeUpdates
  <2>4. before(m) = Block(m - 1).anchor
    BY <2>1 DEF TruePriorAnchor
  <2> HIDE DEF T
  <2> QED BY <1>3, <2>1, <2>2, <2>3, <2>4, RootsAddUp
<1> HIDE DEF before, T
<1>4. \A m \in 0 .. n : before(m) \in Seq(T)
  <2> DEFINE N == {m \in 0 .. n : before(m) \notin Seq(T)}
  <2> SUFFICES ASSUME N # {} PROVE FALSE
    OBVIOUS
  <2>1. N \in SUBSET Nat
    BY <1>1
  <2>2. PICK m \in N : \A j \in N : m <= j
    BY <2>1, LeastNumber
  <2>3. m # 0
    BY <1>2, <2>2
  <2>4. m \in 1 .. n /\ m - 1 \in 0 .. n /\ ~(m <= m - 1)
    BY <1>1, <2>3
  <2>5. before(m - 1) \in Seq(T)
    BY <2>2, <2>4
  <2> QED BY <1>3, <2>4, <2>5
<1>5. \A m \in 1 .. n : before(m) = before(m - 1) \o more(m)
  <2> SUFFICES ASSUME NEW m \in 1 .. n PROVE before(m) = before(m - 1) \o more(m)
    OBVIOUS
  <2>1. m - 1 \in 0 .. n
    BY <1>1
  <2> QED BY <1>3, <1>4, <2>1
<1> HIDE DEF more
<1> DEFINE IsAfter(f) == f = [m \in 0 .. n |-> IF m = 0 THEN GENESIS_ANCHOR ELSE f[m - 1] \o more(m)]
           after == CHOOSE f : IsAfter(f)
<1>6. IsAfter([m \in 0 .. n |-> before(m)])
  <2> DEFINE f == [m \in 0 .. n |-> before(m)]
  <2>1. ASSUME NEW m \in 0 .. n
        PROVE  f[m] = IF m = 0 THEN GENESIS_ANCHOR ELSE f[m - 1] \o more(m)
    <3>1. CASE m = 0
      BY <1>2, <3>1
    <3>2. CASE m # 0
      <4>1. m \in 1 .. n /\ m - 1 \in 0 .. n
        BY <1>1, <3>2
      <4>2. f[m] = before(m) /\ f[m - 1] = before(m - 1)
        BY <4>1
      <4> QED BY <1>5, <3>2, <4>1, <4>2
    <3> QED BY <3>1, <3>2
  <2> QED BY <2>1
<1>7. IsAfter(after)
  BY <1>6
<1>8. TrackedAnchor(n) = after[n]
  BY DEF TrackedAnchor, more
<1> HIDE DEF after
<1>9. \A m \in 0 .. n : after[m] = IF m = 0 THEN GENESIS_ANCHOR ELSE after[m - 1] \o more(m)
  BY <1>7
<1>10. \A m \in 0 .. n : after[m] = before(m)
  <2> DEFINE N == {m \in 0 .. n : after[m] # before(m)}
  <2> SUFFICES ASSUME N # {} PROVE FALSE
    OBVIOUS
  <2>1. N \in SUBSET Nat
    BY <1>1
  <2>2. PICK m \in N : \A j \in N : m <= j
    BY <2>1, LeastNumber
  <2>3. m # 0
    BY <1>2, <1>9, <2>2
  <2>4. m \in 1 .. n /\ m - 1 \in 0 .. n /\ ~(m <= m - 1)
    BY <1>1, <2>3
  <2>5. after[m - 1] = before(m - 1)
    BY <2>2, <2>4
  <2>6. after[m] = before(m)
    BY <1>5, <1>9, <2>3, <2>4, <2>5
  <2> QED BY <2>6
<1>11. n \in 0 .. n
  BY <1>1
<1> QED BY <1>4, <1>8, <1>10, <1>11 DEF before, T

(* So is the root it expects before an update.                             *)
LEMMA ExpectedAddsUp ==
    ASSUME SpineInv, ContentOK, NEW n \in BlockNumbers, \A m \in 0 .. n - 1 : IsValid(m),
           NEW k \in Nat
    PROVE  /\ k = 0 => ExpectedBefore(n, k) = TruePriorAnchor(n)
           /\ ExpectedBefore(n, k + 1) =
                 TrueRoot(ExpectedBefore(n, k), Block(n), LeavesAt(Block(n), k))
<1> DEFINE b == Block(n)
           A == TrackedAnchor(n)
           T == TreeUpdates
           g == [j \in Nat |-> Update(b, LeavesAt(b, j))]
           s == [j \in 1 .. k |-> g[j - 1]]
           t == [j \in 1 .. k + 1 |-> g[j - 1]]
<1>1. A = TruePriorAnchor(n) /\ A \in Seq(T)
  BY TrackedIsTrue
<1>2. (\A j \in Nat : g[j] \in T) /\ g[k] = Update(b, LeavesAt(b, k))
  BY DEF TreeUpdates
<1>3. UpdatesBefore(b, k) = s
  BY DEF UpdatesBefore
<1>4. UpdatesBefore(b, k + 1) = t
  BY DEF UpdatesBefore
<1> HIDE DEF b, A, T, g
<1>5. (k = 0 => A \o s = A) /\ A \o t = Append(A \o s, g[k])
  BY <1>1, <1>2, MoreUpdates
<1> HIDE DEF s, t
<1> QED BY <1>1, <1>2, <1>3, <1>4, <1>5 DEF ExpectedBefore, TrueRoot, A, b

(* The first wrong root is reported, opened where the contract looks and   *)
(* accepted.                                                               *)
LEMMA WrongRootIsProved ==
    ASSUME SpineInv, ContentOK, SizesOK, NEW n \in BlockNumbers, n # 1,
           IsFirstInvalidPlace(n), HasProvableRoot(n)
    PROVE  IsProved(n)
<1> DEFINE b == Block(n)
<1>0. PICK k \in 0 .. Updates(b) - 1 : IsFirstWrong(n, k) /\ FindsRootBefore(n, k)
  BY DEF HasProvableRoot
<1> DEFINE g == Groups(b)
           txs == b.numTransactions
           isTx == IsTxUpdate(b, k)
           report == WrongRoot(n, k)
           D == DepositsLength(b.numDeposits)
<1>1. /\ n \in Nat /\ g \in Nat /\ txs \in Nat /\ b.numDeposits \in Nat /\ b.blockNr = n
      /\ k \in Nat /\ k < g + txs
  BY BlockCounts DEF Updates
<1>2. \A m \in 0 .. n - 1 : IsValid(m)
  BY <1>1 DEF IsFirstInvalidPlace, ValidUpTo
<1>3. /\ BlobUse(b) = 4 * g + 15 * txs /\ D = 4 * g
      /\ NumDepositsToMemoryLength(b.numDeposits) = D
  BY <1>1, UseOfBlobs, DepositFields DEF Groups
<1>4. /\ report.updateNr = k /\ report.isTx = isTx /\ report.expected = ExpectedBefore(n, k + 1)
      /\ report.prior = IF k = 0 THEN TrackedAnchor(n) ELSE SubmittedRoot(b, k - 1)
      /\ report.priorUpdate = IF k = 0 THEN -1 ELSE k - 1
  BY DEF WrongRoot, None
<1>5. isTx \in BOOLEAN /\ (isTx <=> k >= g)
  BY DEF IsTxUpdate
<1>6. isTx => g = 0
  BY <1>0 DEF IsFirstWrong
<1>7. report \in TreeReports(n)
  BY <1>0 DEF TreeReports, IsFirstWrong
<1>8. report.prior = ExpectedBefore(n, k)
  <2>1. CASE k = 0
    BY <1>2, <1>4, <2>1, ExpectedAddsUp, TrackedIsTrue
  <2>2. CASE k # 0
    <3>1. k - 1 \in 0 .. k - 1 /\ k - 1 + 1 = k
      BY <1>1, <2>2
    <3>2. SubmittedRoot(b, k - 1) = ExpectedBefore(n, k)
      BY <1>0, <3>1 DEF IsFirstWrong
    <3> QED BY <1>4, <2>2, <3>2
  <2> QED BY <2>1, <2>2
<1>9. ExpectedBefore(n, k + 1) = TrueRoot(ExpectedBefore(n, k), b, LeavesAt(b, k))
  BY <1>1, <1>2, ExpectedAddsUp
<1>10. /\ NumberInKind(b, k) = k
       /\ LeavesAt(b, k) = UpdateLeaves(b, k, isTx)
       /\ SubmittedRoot(b, k) = UpdateRoot(b, k, isTx)
  BY <1>1, <1>5, <1>6 DEF NumberInKind, LeavesAt, SubmittedRoot
<1>11. /\ k \in UpdateNumbers(b, isTx)
       /\ IsFirstUpdate(b, k, ~isTx) <=> k = 0
       /\ k # 0 => RootBefore(b, k, ~isTx) = SubmittedRoot(b, k - 1)
  BY <1>10, UpdateFollows
<1>12. TreeFraud(b, k, isTx, report.prior)
  <2>1. ValidPriorAnchor(report.prior, b, k, ~isTx)
    <3>1. CASE k = 0
      <4>1. report.prior = TruePriorAnchor(n)
        BY <1>2, <1>4, <3>1, TrackedIsTrue
      <4>2. Resolves(n)
        BY <1>1 DEF IsFirstInvalidPlace, Resolves, IsPriorBlockAnchor, TruePriorAnchor, IsAnchorIncluded
      <4> QED BY <1>1, <1>11, <3>1, <4>1, <4>2 DEF ValidPriorAnchor, Resolves
    <3>2. CASE k # 0
      BY <1>4, <1>11, <3>2 DEF ValidPriorAnchor
    <3> QED BY <3>1, <3>2
  <2>2. TrueRoot(report.prior, b, UpdateLeaves(b, k, isTx)) # UpdateRoot(b, k, isTx)
    <3>1. SubmittedRoot(b, k) # ExpectedBefore(n, k + 1)
      BY <1>0 DEF IsFirstWrong
    <3> QED BY <1>8, <1>9, <1>10, <3>1
  <2> QED BY <2>1, <2>2 DEF TreeFraud
<1>13. OpenedPrior(n, report).place = PriorRootMemoryLocation(k, ~isTx, b.numDeposits) \/ k = 0
  <2> SUFFICES ASSUME k # 0
               PROVE  OpenedPrior(n, report).place = PriorRootMemoryLocation(k, ~isTx, b.numDeposits)
    OBVIOUS
  <2>1. report.priorUpdate = k - 1 /\ report.priorUpdate # None
    BY <1>1, <1>4 DEF None
  <2>2. OpenedPrior(n, report).place = AnchorAddress(k - 1, b.numDeposits, ~isTx)
    BY <1>4, <2>1 DEF OpenedPrior
  <2>3. CASE isTx
    BY <1>1, <1>3, <2>2, <2>3 DEF AnchorAddress, TxAddress, PriorRootMemoryLocation, TxMemoryAddress
  <2>4. CASE ~isTx
    BY <1>1, <2>2, <2>4 DEF AnchorAddress, PriorRootMemoryLocation
  <2> QED BY <1>5, <2>3, <2>4
<1>14. UpdateAddress(b, report) = UpdateMemoryAddress(k, isTx, b.numDeposits)
  BY <1>1, <1>3, <1>4, <1>5, <1>6 DEF UpdateAddress, TxAddress, UpdateMemoryAddress, TxMemoryAddress
<1>15. RegionIsInBlobs(b, UpdateAddress(b, report), 4)
  <2> DEFINE x == UpdateAddress(b, report)
             use == BlobUse(b)
  <2>1. x = IF isTx THEN D + 15 * k + 11 ELSE k * 4
    BY <1>1, <1>4, <1>6 DEF UpdateAddress, TxAddress
  <2> HIDE DEF x, use, g, txs, isTx, D
  <2>2. use = 4 * g + 15 * txs
    BY <1>3 DEF use
  <2>3. x \in Nat /\ x + 4 <= use
    BY <1>1, <1>3, <1>5, <1>6, <2>1, <2>2
  <2>4. 4 \in Nat \ {0}
    OBVIOUS
  <2>5. RegionIsInBlobs(Block(n), x, 4)
    BY <2>3, <2>4, FieldIsFound DEF use
  <2> QED BY <2>5 DEF x
<1>16. IsGenesis(n, report) => GenesisTreeBuilt(n, report)
  <2> SUFFICES ASSUME IsGenesis(n, report) PROVE GenesisTreeBuilt(n, report)
    OBVIOUS
  <2>1. k = 0
    BY <1>1, <1>4 DEF IsGenesis, None
  <2>2. UpdateAddress(b, report) = IF report.isTx THEN TxAddress(0, b.numDeposits) + 11 ELSE 0
    BY <1>1, <1>4, <1>6, <2>1 DEF UpdateAddress
  <2> QED BY <1>4, <1>15, <2>1, <2>2 DEF GenesisTreeBuilt
<1>17. ~IsGenesis(n, report) => TreeBuilt(n, report)
  <2> SUFFICES ASSUME ~IsGenesis(n, report)
               PROVE  IsInBlobs(OpenedPrior(n, report).block, OpenedPrior(n, report).place)
    BY <1>15 DEF TreeBuilt
  <2>1. CASE k = 0
    <3>1. n > 0
      BY <1>1, <1>4, <2>1 DEF IsGenesis, None
    <3> QED BY <1>0, <2>1, <3>1 DEF FindsRootBefore
  <2>2. CASE k # 0
    <3> DEFINE x == OpenedPrior(n, report).place
               use == BlobUse(b)
    <3>1. report.priorUpdate # None
      BY <1>1, <1>4, <2>2 DEF None
    <3>2. OpenedPrior(n, report).block = b
      BY <3>1 DEF OpenedPrior
    <3>3. x = IF isTx THEN (D + k * 15) - 1 ELSE k * 4 - 1
      <4>1. x = PriorRootMemoryLocation(k, ~isTx, b.numDeposits)
        BY <1>13, <2>2
      <4>2. PriorRootMemoryLocation(k, ~isTx, b.numDeposits) =
                IF isTx THEN (NumDepositsToMemoryLength(b.numDeposits) + k * 15) - 1 ELSE k * 4 - 1
        <5>1. CASE isTx
          BY <5>1 DEF PriorRootMemoryLocation, TxMemoryAddress
        <5>2. CASE ~isTx
          BY <5>2 DEF PriorRootMemoryLocation
        <5> QED BY <1>5, <5>1, <5>2
      <4> QED BY <1>3, <4>1, <4>2
    <3> HIDE DEF x, use, g, txs, isTx, D
    <3>4. use = 4 * g + 15 * txs
      BY <1>3 DEF use
    <3>5. x \in Nat /\ x + 1 <= use
      BY <1>1, <1>3, <1>5, <1>6, <2>2, <3>3, <3>4
    <3>6. 1 \in Nat \ {0}
      OBVIOUS
    <3>7. IsInBlobs(Block(n), x)
      BY <3>5, <3>6, FieldIsFound DEF use
    <3> QED BY <3>2, <3>7 DEF x
  <2> QED BY <2>1, <2>2
<1>18. TreeSent(n, report)
  <2>1. report.priorUpdate < report.updateNr
    BY <1>1, <1>4
  <2>2. UpdateIsProved(n, report)
    BY <1>4, <1>8 DEF UpdateIsProved
  <2> QED BY <1>16, <1>17, <2>1, <2>2 DEF TreeSent
<1>19. TreeAccepted(n, report)
  BY <1>4, <1>11, <1>12, <1>13, <1>14 DEF TreeAccepted, TargetIsRight
<1> QED BY <1>7, <1>18, <1>19 DEF IsProved

(* Ordinary fraud is found, and proved.                                    *)
LEMMA InvOrdinaryFraudIsProved ==
    SpineInv /\ ContentOK /\ SizesOK /\ DepositsFrozen => OrdinaryFraudIsProved
<1> SUFFICES ASSUME SpineInv, ContentOK, SizesOK, DepositsFrozen,
                    NEW n \in BlockNumbers \ {1}, IsFirstInvalidPlace(n),
                    ~DepositsAreTrue(Block(n)) \/ ~SpendsOnce(n) \/ HasProvableRoot(n)
             PROVE  IsProved(n) /\ (~DepositsAreTrue(Block(n)) => IsProvedAgain(n))
  BY DEF OrdinaryFraudIsProved
<1> QED BY WrongDepositIsProved, SpentAgainIsProved, WrongRootIsProved

(* One honest challenger is enough: in the first invalid block it finds    *)
(* wrong deposits, notes spent twice and the wrong roots it can open,      *)
(* sends the openings the contract looks at, and is not reverted.          *)
THEOREM OrdinaryFraudProved == EntrypointSpec => []OrdinaryFraudIsProved
<1>1. DepositsInv => DepositsFrozen
  BY DEF DepositsInv
<1> QED BY <1>1, BridgeIsChain, SpineInvariant, ChainIsReadable, BlocksFitBlobs,
           BridgeKeepsDepositsInv, InvOrdinaryFraudIsProved, PTL

-----------------------------------------------------------------------------
(* Yield is paid for epochs that are out of reach of a timely challenge.   *)

PaidIsFinal ==
    \A claim \in paidOut : claim[2] \in Nat /\ IsFinalized(claim[2])

(* The epoch only moves on.                                                *)
LEMMA EpochMovesOn ==
    ASSUME SpineInv, [SpineNext]_spineVars
    PROVE  CurrentEpoch \in Nat /\ CurrentEpoch' \in Nat /\ CurrentEpoch <= CurrentEpoch'
<1>1. now \in Nat /\ now >= START /\ (now' = now \/ now' = now + 1)
  BY DEF SpineInv, SpineTypeOK, ChainOrdered, SpineNext, AddBlock, Rollback, SpineTick, Tick,
     spineVars
<1>2. now - START \in Nat /\ now' - START \in Nat /\ now - START <= now' - START
  BY <1>1
<1>3. EPOCH_LENGTH \in Nat \ {0}
  BY RegistryAssumption
<1>4. /\ (now - START) \div EPOCH_LENGTH \in Nat /\ (now' - START) \div EPOCH_LENGTH \in Nat
      /\ (now - START) \div EPOCH_LENGTH <= (now' - START) \div EPOCH_LENGTH
  <2> DEFINE x == now - START
             y == now' - START
  <2>1. x \in Nat /\ y \in Nat /\ x <= y
    BY <1>2
  <2> HIDE DEF x, y
  <2>2. x \div EPOCH_LENGTH \in Nat /\ y \div EPOCH_LENGTH \in Nat
        /\ x \div EPOCH_LENGTH <= y \div EPOCH_LENGTH
    BY <1>3, <2>1, EpochBounds
  <2> QED BY <2>2 DEF x, y
<1> QED BY <1>4 DEF CurrentEpoch

(* Claims are only added for epochs that are final.                        *)
LEMMA PaidStep ==
    ASSUME SpineInv, PaidIsFinal, [EntrypointNext]_entrypointVars
    PROVE  PaidIsFinal'
<1>1. CurrentEpoch \in Nat /\ CurrentEpoch' \in Nat /\ CurrentEpoch <= CurrentEpoch'
  BY EntrypointEffect, EpochMovesOn
<1>2. CHALLENGE_PERIOD \div EPOCH_LENGTH \in Nat
  BY EpochBounds, RegistryAssumption
<1>3. \A e \in Nat : IsFinalized(e) => IsFinalized(e)'
  BY <1>1, <1>2 DEF IsFinalized
<1>4. CASE UNCHANGED paidOut
  BY <1>3, <1>4 DEF PaidIsFinal
<1>5. CASE PayoutStep
  <2>1. PICK token \in Tokens, who \in Accounts, epoch \in Epochs :
            SequencerWithdrawAsset(token, who, epoch, IsChallenged(who), IsFinalized(epoch),
                                   GetPercentInEpoch(who, epoch))
    BY <1>5 DEF PayoutStep
  <2>2. /\ paidOut' = paidOut \cup {<<who, epoch, token>>} /\ IsFinalized(epoch)
    BY <2>1 DEF SequencerWithdrawAsset
  <2>3. epoch \in Nat
    BY DEF Epochs
  <2> QED BY <1>3, <2>2, <2>3 DEF PaidIsFinal
<1>6. ASSUME NEW sender \in Accounts, PostStep(sender, Submissions) PROVE UNCHANGED paidOut
  BY <1>6 DEF PostStep, routerVars
<1>7. CASE DepositStep
  BY <1>4, <1>7 DEF DepositStep, Deposit, TriggerDeposit
<1>8. CASE WithdrawStep
  BY <1>4, <1>8 DEF WithdrawStep, WithdrawLeaf, TriggerWithdraw
<1>9. CASE ChallengeStep(BlockNumbers, Accounts)
  BY <1>4, <1>9 DEF ChallengeStep, routerVars
<1>10. CASE RegistryStep \/ ApprovalStep(Approvals) \/ TimeStep \/ UNCHANGED entrypointVars
  BY <1>4, <1>10 DEF RegistryStep, ApprovalStep, TimeStep, entrypointVars, routerVars
<1>11. CASE YieldStep
  BY <1>4, <1>11 DEF YieldStep, Poke, RecognizeYield
<1>12. CASE MigrateStep
  BY <1>4, <1>12 DEF MigrateStep, ChangeYieldSource
<1>13. CASE OwnerStep
  BY <1>4, <1>13 DEF OwnerStep, ChangeTrackedYieldSources, SetMaxInterest
<1>14. CASE MarketStep
  BY <1>4, <1>14 DEF MarketStep, VaultReturn, Donate
<1> QED
  BY <1>4, <1>5, <1>6, <1>7, <1>8, <1>9, <1>10, <1>11, <1>12, <1>13, <1>14 DEF EntrypointNext

(* Blocks of a final epoch are confirmed.                                  *)
LEMMA FinalIsConfirmed ==
    ASSUME SpineInv, NEW n \in BlockNumbers, NEW e \in Nat, EpochOf(Block(n)) = e,
           IsFinalized(e)
    PROVE  IsConfirmed(Block(n))
<1> DEFINE L == EPOCH_LENGTH
           x == Block(n).timestamp - START
           y == now - START
           q == CHALLENGE_PERIOD \div L
           c == y \div L
<1>1. L \in Nat \ {0} /\ CHALLENGE_PERIOD \in Nat
  BY RegistryAssumption
<1>2. /\ x \in Nat /\ y \in Nat /\ Block(n).timestamp = START + x /\ now = START + y
      /\ START \in Nat
  <2>1. Block(n) \in BlockData /\ START <= Block(n).timestamp /\ START <= now /\ now \in Nat
    BY BlockType DEF SpineInv, SpineTypeOK, ChainOrdered
  <2>2. Block(n).timestamp \in Nat
    BY <2>1 DEF BlockData
  <2> QED BY <2>1, <2>2
<1>3. e = x \div L /\ e + q + 1 < c
  BY DEF EpochOf, IsFinalized, CurrentEpoch
<1> HIDE DEF L, x, y, q, c
<1>4. x < L * e + L
  BY <1>1, <1>2, <1>3, EpochBounds
<1>5. c \in Nat /\ L * c <= y
  BY <1>1, <1>2, EpochBounds DEF c
<1>6. q \in Nat /\ CHALLENGE_PERIOD < L * q + L
  BY <1>1, EpochBounds DEF q
<1>7. L * (e + q + 2) <= L * c /\ L * (e + q + 2) = L * e + L * q + 2 * L
  <2>1. e + q + 2 <= c
    BY <1>3, <1>5, <1>6
  <2> QED BY <1>1, <1>5, <1>6, <2>1
<1> DEFINE le == L * e
           lq == L * q
           lc == L * c
<1>8. le \in Nat /\ lq \in Nat /\ lc \in Nat
  BY <1>1, <1>5, <1>6
<1>9. x < le + L /\ lc <= y /\ CHALLENGE_PERIOD < lq + L /\ le + lq + 2 * L <= lc
  BY <1>4, <1>5, <1>6, <1>7
<1> HIDE DEF le, lq, lc
<1>10. Block(n).timestamp + CHALLENGE_PERIOD < now
  BY <1>1, <1>2, <1>8, <1>9
<1> QED BY <1>10, BlockCounts DEF IsConfirmed

(* The claims paid are for epochs whose blocks are all confirmed, from the *)
(* claim on and for good.                                                  *)
THEOREM PaidEpochsAreConfirmed == EntrypointSpec => []PaidIsConfirmed
<1>1. EntrypointInit => PaidIsFinal
  BY DEF EntrypointInit, RouterInit, PaidIsFinal
<1>2. SpineInv /\ PaidIsFinal /\ [EntrypointNext]_entrypointVars => PaidIsFinal'
  BY PaidStep
<1>3. SpineInv /\ PaidIsFinal => PaidIsConfirmed
  BY FinalIsConfirmed DEF PaidIsFinal, PaidIsConfirmed
<1> QED BY <1>1, <1>2, <1>3, EntrypointKeepsSpine, PTL DEF EntrypointSpec

-----------------------------------------------------------------------------
(* The shares of an epoch.                                                 *)

(* The use of an epoch is the sum of what its sequencers used.             *)
UseAddsUp ==
    /\ totalBlobUse \in [Epochs -> Nat]
    /\ sequencerBlobUse \in [Epochs -> [Accounts -> Nat]]
    /\ \A e \in Epochs : totalBlobUse[e] = Total(sequencerBlobUse[e], Accounts)

(* A post adds the same to both, weighted the same way.                    *)
LEMMA CreditStep ==
    ASSUME UseAddsUp, NEW sender \in Accounts, NEW use \in Nat, Credit(sender, use)
    PROVE  UseAddsUp'
<1> DEFINE adjusted == IF IsClosedPeriod THEN (use * PRIORITY_BONUS) \div BASE ELSE use
           c == CurrentEpoch
<1>1. adjusted \in Nat
  BY QuotientIsNat
<1> HIDE DEF adjusted
<1>2. /\ totalBlobUse' = [totalBlobUse EXCEPT ![c] = @ + adjusted]
      /\ sequencerBlobUse' = [sequencerBlobUse EXCEPT ![c][sender] = @ + adjusted]
  BY DEF Credit, adjusted
<1> HIDE DEF c
<1>3. CASE c \notin Epochs
  <2>1. totalBlobUse' = totalBlobUse /\ sequencerBlobUse' = sequencerBlobUse
    BY <1>2, <1>3 DEF UseAddsUp
  <2> QED BY <2>1 DEF UseAddsUp
<1>4. CASE c \in Epochs
  <2> DEFINE g == sequencerBlobUse[c]
             f == sequencerBlobUse'[c]
  <2>1. /\ totalBlobUse' \in [Epochs -> Nat] /\ sequencerBlobUse' \in [Epochs -> [Accounts -> Nat]]
        /\ totalBlobUse'[c] = totalBlobUse[c] + adjusted
        /\ f[sender] = g[sender] + adjusted
        /\ \A x \in Accounts : x # sender => f[x] = g[x]
        /\ \A e \in Epochs : e # c => /\ totalBlobUse'[e] = totalBlobUse[e]
                                      /\ sequencerBlobUse'[e] = sequencerBlobUse[e]
    BY <1>1, <1>2, <1>4 DEF UseAddsUp
  <2>2. \A x \in Accounts : g[x] \in Nat /\ f[x] \in Nat /\ (x # sender => f[x] = g[x])
    BY <1>4, <2>1 DEF UseAddsUp
  <2> HIDE DEF f, g
  <2>3. Total(f, Accounts) = Total(g, Accounts) - g[sender] + f[sender]
    BY <2>2, TotalOfChange, AccountsAssumption
  <2>4. totalBlobUse[c] = Total(g, Accounts) /\ totalBlobUse[c] \in Nat
    BY <1>4 DEF UseAddsUp, g
  <2>5. totalBlobUse'[c] = Total(f, Accounts)
    BY <1>1, <2>1, <2>2, <2>3, <2>4
  <2> QED BY <2>1, <2>5 DEF UseAddsUp, f
<1> QED BY <1>3, <1>4

(* Nothing else counts as use.                                             *)
LEMMA UseStep ==
    ASSUME SpineInv, UseAddsUp, [EntrypointNext]_entrypointVars
    PROVE  UseAddsUp'
<1>1. ASSUME UNCHANGED useVars PROVE UseAddsUp'
  BY <1>1 DEF useVars, UseAddsUp
<1>2. ASSUME NEW sender \in Accounts, PostStep(sender, Submissions) PROVE UseAddsUp'
  <2>1. PICK d \in Submissions : Credit(sender, BlobUse(d))
    BY <1>2 DEF PostStep, Post
  <2>2. d \in Submission
    BY SubmissionsAssumption
  <2>3. BlobUse(d) \in Nat
    BY <2>2 DEF Submission, BlobUse, DepositBlobUse
  <2> QED BY <2>1, <2>3, CreditStep
<1>3. CASE DepositStep \/ WithdrawStep \/ RegistryStep \/ ApprovalStep(Approvals) \/ PayoutStep
  BY <1>1, <1>3 DEF DepositStep, WithdrawStep, RegistryStep, ApprovalStep, PayoutStep
<1>4. CASE ChallengeStep(BlockNumbers, Accounts)
  BY <1>1, <1>4 DEF ChallengeStep
<1>5. CASE YieldStep \/ MigrateStep \/ OwnerStep \/ MarketStep \/ TimeStep
  BY <1>1, <1>5 DEF YieldStep, MigrateStep, OwnerStep, MarketStep, TimeStep
<1>6. CASE UNCHANGED entrypointVars
  BY <1>1, <1>6 DEF entrypointVars
<1> QED BY <1>2, <1>3, <1>4, <1>5, <1>6 DEF EntrypointNext

(* The sum of zeros.                                                       *)
LEMMA TotalOfZeros ==
    ASSUME NEW g, \A x \in Accounts : g[x] = 0
    PROVE  Total(g, Accounts) = 0
<1>1. IsFiniteSet(Accounts) /\ Cardinality(Accounts) \in Nat
  BY AccountsAssumption, FS_CardinalityType
<1>2. \A x \in Accounts : g[x] \in Nat /\ g[x] <= 0
  OBVIOUS
<1>3. Total(g, Accounts) <= Cardinality(Accounts) * 0
  BY <1>1, <1>2, TotalWithin
<1>4. Total(g, Accounts) \in Nat
  BY <1>1, <1>2, TotalIsSum
<1> QED BY <1>1, <1>3, <1>4

SharesOf(e) == [who \in Accounts |-> GetPercentInEpoch(who, e)]

(* The sum of the shares is a sum as above.                                *)
LEMMA ShareSumIsTotal ==
    ASSUME NEW e
    PROVE  MapThenSumSet(LAMBDA who : GetPercentInEpoch(who, e), Accounts)
               = Total(SharesOf(e), Accounts)
<1> DEFINE K(h) == [s \in SUBSET Accounts |->
                       IF s = {} THEN 0
                       ELSE LET x == CHOOSE x \in s : TRUE
                            IN  GetPercentInEpoch(x, e) + h[s \ {x}]]
<1>1. ASSUME NEW h PROVE (h = K(h)) <=> IsSum(h, SharesOf(e), Accounts)
  <2>1. \A s \in SUBSET Accounts : s # {} => (CHOOSE x \in s : TRUE) \in Accounts
    OBVIOUS
  <2> QED BY <2>1 DEF IsSum, SharesOf
<1>2. (CHOOSE h : h = K(h)) = CHOOSE h : IsSum(h, SharesOf(e), Accounts)
  <2> HIDE DEF K
  <2> QED BY <1>1
<1> QED BY <1>2 DEF MapThenSumSet, MapThenFoldSet, Total

(* A share is rounded down, so the whole times the shares is within the    *)
(* fixed-point one times the use.                                          *)
LEMMA ShareIsRoundedDown ==
    ASSUME NEW u \in Nat, NEW t \in Nat \ {0}, NEW k \in Nat
    PROVE  /\ (u * k) \div t \in Nat
           /\ t * ((u * k) \div t) <= k * u
<1> DEFINE v == u * k
<1>1. v \in Nat /\ v = k * u
  OBVIOUS
<1> HIDE DEF v
<1>2. v \div t \in Nat /\ t * (v \div t) <= v
  BY <1>1, EpochBounds
<1> QED BY <1>1, <1>2 DEF v

(* Nor is more than the whole shared out when the shares are added up.     *)
LEMMA InvSharesWithinWhole == UseAddsUp => SharesWithinWhole
<1> SUFFICES ASSUME UseAddsUp, NEW e \in Epochs
             PROVE  FIXED_BASE >= Total(SharesOf(e), Accounts)
  BY ShareSumIsTotal DEF SharesWithinWhole
<1> DEFINE t == totalBlobUse[e]
           g == sequencerBlobUse[e]
           f == SharesOf(e)
<1>1. /\ t \in Nat /\ g \in [Accounts -> Nat] /\ t = Total(g, Accounts)
      /\ FIXED_BASE \in Nat \ {0} /\ IsFiniteSet(Accounts)
  BY RouterAssumption, AccountsAssumption DEF UseAddsUp
<1>2. CASE t = 0
  <2>1. \A x \in Accounts : f[x] = 0
    BY <1>2 DEF SharesOf, GetPercentInEpoch
  <2> HIDE DEF f
  <2>2. Total(f, Accounts) = 0
    BY <2>1, TotalOfZeros
  <2> QED BY <1>1, <2>2 DEF f
<1>3. CASE t # 0
  <2>1. \A x \in Accounts : f[x] = (g[x] * FIXED_BASE) \div t
    BY <1>3 DEF SharesOf, GetPercentInEpoch
  <2> HIDE DEF f, g, t
  <2>2. \A x \in Accounts : f[x] \in Nat /\ g[x] \in Nat /\ t * f[x] <= FIXED_BASE * g[x]
    <3> SUFFICES ASSUME NEW x \in Accounts
                 PROVE  f[x] \in Nat /\ g[x] \in Nat /\ t * f[x] <= FIXED_BASE * g[x]
      OBVIOUS
    <3>1. g[x] \in Nat /\ t \in Nat \ {0} /\ FIXED_BASE \in Nat
      BY <1>1, <1>3
    <3>2. /\ (g[x] * FIXED_BASE) \div t \in Nat
          /\ t * ((g[x] * FIXED_BASE) \div t) <= FIXED_BASE * g[x]
      BY <3>1, ShareIsRoundedDown
    <3> QED BY <2>1, <3>1, <3>2
  <2>3. t * Total(f, Accounts) <= FIXED_BASE * t
    BY <1>1, <2>2, TotalInProportion
  <2>4. Total(f, Accounts) \in Nat
    BY <1>1, <2>2, TotalIsSum
  <2> DEFINE w == Total(f, Accounts)
  <2>5. w \in Nat /\ t * w <= FIXED_BASE * t
    BY <2>3, <2>4
  <2> HIDE DEF w
  <2>6. FIXED_BASE >= w
    <3>1. SUFFICES ASSUME w >= FIXED_BASE + 1 PROVE FALSE
      BY <1>1, <2>5
    <3>2. t * w >= t * (FIXED_BASE + 1) /\ t * (FIXED_BASE + 1) = t * FIXED_BASE + t
      BY <1>1, <2>5, <3>1
    <3>3. t * FIXED_BASE = FIXED_BASE * t /\ t * FIXED_BASE \in Nat /\ t * w \in Nat
      BY <1>1, <2>5
    <3> QED BY <1>1, <1>3, <2>5, <3>2, <3>3
  <2> QED BY <2>6 DEF w, f
<1> QED BY <1>2, <1>3

(* No use at first.                                                        *)
LEMMA UseInitial == EntrypointInit => UseAddsUp
<1> SUFFICES ASSUME EntrypointInit PROVE UseAddsUp
  OBVIOUS
<1> DEFINE g == [who \in Accounts |-> 0]
<1>1. /\ totalBlobUse = [e \in Epochs |-> 0] /\ sequencerBlobUse = [e \in Epochs |-> g]
      /\ g \in [Accounts -> Nat] /\ \A x \in Accounts : g[x] = 0
  BY DEF EntrypointInit
<1> HIDE DEF g
<1>2. Total(g, Accounts) = 0
  BY <1>1, TotalOfZeros
<1>3. /\ totalBlobUse \in [Epochs -> Nat] /\ sequencerBlobUse \in [Epochs -> [Accounts -> Nat]]
      /\ \A e \in Epochs : totalBlobUse[e] = 0 /\ sequencerBlobUse[e] = g
  BY <1>1
<1> QED BY <1>2, <1>3 DEF UseAddsUp

(* In every epoch the shares of the sequencers add up to at most one.      *)
THEOREM SharesAddUp == EntrypointSpec => []SharesWithinWhole
<1>1. EntrypointInit => UseAddsUp
  BY UseInitial
<1>2. SpineInv /\ UseAddsUp /\ [EntrypointNext]_entrypointVars => UseAddsUp'
  BY UseStep
<1> QED BY <1>1, <1>2, InvSharesWithinWhole, EntrypointKeepsSpine, PTL DEF EntrypointSpec

-----------------------------------------------------------------------------
(* A stake to lose behind every block, over MCSpec.                        *)

(* What a call of the registry does to one account: nothing that matters   *)
(* here, or it funds it, registers its exit, or pays it out after a window.*)
LEMMA CallEffect ==
    ASSUME RegistryInv, RegistryCall, UNCHANGED now, NEW x \in Accounts
    PROVE  LET old == sequencers[x]
               new == sequencers'[x]
           IN  \/ /\ new.isActive = old.isActive /\ new.stakeAmount = old.stakeAmount
                  /\ new.timestampChallenged = old.timestampChallenged
                  /\ exits'[x] = exits[x]
               \/ /\ new.isActive /\ new.stakeAmount >= old.stakeAmount
                  /\ new.timestampChallenged = old.timestampChallenged
                  /\ exits'[x] = exits[x]
               \/ /\ old.isActive /\ ~new.isActive /\ new.stakeAmount = old.stakeAmount
                  /\ new.timestampChallenged = old.timestampChallenged
                  /\ exits'[x] = now
               \/ /\ ~new.isActive /\ exits'[x] \in {0, exits[x]}
                  /\ \E t \in {old.timestampChallenged, exits[x]} :
                         t # 0 /\ now - t >= CHALLENGE_WINDOW
<1> DEFINE old == sequencers[x]
           new == sequencers'[x]
           Same == /\ new.isActive = old.isActive /\ new.stakeAmount = old.stakeAmount
                   /\ new.timestampChallenged = old.timestampChallenged
                   /\ exits'[x] = exits[x]
           More == /\ new.isActive /\ new.stakeAmount >= old.stakeAmount
                   /\ new.timestampChallenged = old.timestampChallenged
                   /\ exits'[x] = exits[x]
           Leaving == /\ old.isActive /\ ~new.isActive /\ new.stakeAmount = old.stakeAmount
                      /\ new.timestampChallenged = old.timestampChallenged
                      /\ exits'[x] = now
           Paid == /\ ~new.isActive /\ exits'[x] \in {0, exits[x]}
                   /\ \E t \in {old.timestampChallenged, exits[x]} :
                          t # 0 /\ now - t >= CHALLENGE_WINDOW
<1> SUFFICES Same \/ More \/ Leaving \/ Paid
  OBVIOUS
<1>0. /\ sequencers \in [Accounts -> SequencerStatus] /\ exits \in [Accounts -> Nat]
      /\ RegistryTypeOK /\ old \in SequencerStatus
  BY DEF RegistryInv, RegistryTypeOK
<1>1. ASSUME NEW who \in Accounts, NEW wei \in FundAmounts, Fund(who, wei)
      PROVE  Same \/ More
  <2> DEFINE units == wei \div STAKE_DIVISOR
             funded == [sequencers[who] EXCEPT !.isActive = TRUE, !.stakeAmount = @ + units]
  <2>1. units \in Nat
    BY RegistryAssumption
  <2>2. sequencers' = [sequencers EXCEPT ![who].isActive = TRUE, ![who].stakeAmount = @ + units]
        /\ exits' = exits
    BY <1>1 DEF Fund, Funded
  <2> HIDE DEF units
  <2>3. sequencers' = [sequencers EXCEPT ![who] = funded]
    BY <2>2, <1>0
  <2>4. sequencers[who].stakeAmount \in Nat
    BY <1>0 DEF SequencerStatus
  <2>5. /\ funded.isActive
        /\ funded.stakeAmount = sequencers[who].stakeAmount + units
        /\ funded.timestampChallenged = sequencers[who].timestampChallenged
    BY <1>0 DEF SequencerStatus
  <2> HIDE DEF funded
  <2>6. CASE x = who
    <3>1. new = funded /\ exits'[x] = exits[x] /\ old = sequencers[who]
      BY <2>2, <2>3, <2>6, <1>0
    <3>2. funded.stakeAmount >= sequencers[who].stakeAmount
      BY <2>1, <2>4, <2>5
    <3> QED BY <3>1, <3>2, <2>5
  <2>7. CASE x # who
    BY <2>2, <2>3, <2>7, <1>0
  <2> QED BY <2>6, <2>7
<1>2. ASSUME NEW who \in Accounts, ClaimChallengeReward(who)
      PROVE  Same \/ Paid
  BY <1>0, <1>2 DEF ClaimChallengeReward, PayAndDelete, DeletedStatus
<1>3. ASSUME NEW who \in Accounts, RegisterExit(who)
      PROVE  Same \/ Leaving
  <2> DEFINE left == [sequencers[who] EXCEPT !.isActive = FALSE]
             statuses == [sequencers EXCEPT ![who] = left]
  <2>1. /\ left \in SequencerStatus /\ ~left.isActive
        /\ left.stakeAmount = sequencers[who].stakeAmount
        /\ left.timestampChallenged = sequencers[who].timestampChallenged
    BY <1>0 DEF SequencerStatus
  <2>2. LeaveList(statuses, who) /\ sequencers[who].isActive /\ exits' = [exits EXCEPT ![who] = now]
    BY <1>3, <1>0 DEF RegisterExit
  <2> HIDE DEF left
  <2>3. statuses \in [Accounts -> SequencerStatus] /\ statuses[who] = left
        /\ (x # who => statuses[x] = old)
    BY <2>1, <1>0
  <2> HIDE DEF statuses
  <2>4. SameChallenge(new, statuses[x])
    BY <2>2, <2>3, <1>0, LeaveListFacts
  <2> QED BY <2>1, <2>2, <2>3, <2>4, <1>0 DEF SameChallenge
<1>4. ASSUME NEW who \in Accounts, Exit(who)
      PROVE  Same \/ Paid
  BY <1>0, <1>4 DEF Exit, Refunded, PayAndDelete, DeletedStatus
<1>5. ASSUME NEW who \in Accounts, AddFirstLook(who)
      PROVE  Same
  <2>1. SameChallenge(new, old)
    BY <1>5, AddedStatuses
  <2> QED BY <1>5, <2>1 DEF SameChallenge, AddFirstLook
<1>6. ASSUME NEW which \in 0 .. Len(firstLookSequencers) - 1, RemoveFirstLook(which)
      PROVE  Same
  <2>1. /\ Len(firstLookSequencers) \in Nat /\ which \in Nat /\ which < Len(firstLookSequencers)
        /\ sequencers' = Unlisted(sequencers, which) /\ exits' = exits
        /\ firstLookSequencers \in Seq(Accounts)
    BY <1>0, <1>6 DEF RemoveFirstLook, RegistryTypeOK
  <2>2. SameChallenge(new, old)
    BY <1>0, <2>1, UnlistedFacts
  <2> QED BY <2>1, <2>2 DEF SameChallenge
<1>7. ASSUME NEW amount \in 0 .. MAX_STAKE, UpdateStakeRequirement(amount)
      PROVE  Same
  BY <1>7 DEF UpdateStakeRequirement
<1> HIDE DEF Same, More, Leaving, Paid
<1> QED BY <1>1, <1>2, <1>3, <1>4, <1>5, <1>6, <1>7 DEF RegistryCall

(* What slashing one account does to another or to the same.               *)
LEMMA SlashEffect ==
    ASSUME RegistryInv, NEW who \in Accounts, NEW n \in Nat, NEW sender \in Accounts,
           Slash(who, n, sender), UNCHANGED now, NEW x \in Accounts
    PROVE  /\ sequencers'[x].isActive => sequencers[x].isActive
           /\ sequencers'[x].stakeAmount = sequencers[x].stakeAmount
           /\ sequencers'[x].timestampChallenged \in {sequencers[x].timestampChallenged, now}
           /\ UNCHANGED exits
<1> DEFINE recorded == sequencers[who].blocknumberChallenged
           status == SlashedStatus(who, n, sender, recorded = 0 \/ recorded > n)
           statuses == [sequencers EXCEPT ![who] = status]
<1>1. /\ sequencers \in [Accounts -> SequencerStatus] /\ RegistryTypeOK
      /\ LeaveList(statuses, who) /\ UNCHANGED exits
  BY DEF RegistryInv, RegistryTypeOK, Slash
<1>2. /\ status \in SequencerStatus /\ status.stakeAmount = sequencers[who].stakeAmount
  BY SlashedStatusFacts
<1>3. ~status.isActive /\ status.timestampChallenged = now
  BY <1>1 DEF SlashedStatus, SequencerStatus
<1> HIDE DEF status
<1>4. /\ statuses \in [Accounts -> SequencerStatus] /\ statuses[who] = status
      /\ x # who => statuses[x] = sequencers[x]
  BY <1>1, <1>2
<1> HIDE DEF statuses
<1>5. SameChallenge(sequencers'[x], statuses[x])
  BY <1>1, <1>4, LeaveListFacts
<1> QED BY <1>1, <1>2, <1>3, <1>4, <1>5 DEF SameChallenge

(* The blocks are where their numbers say, each with who posted it and the *)
(* stake required then.                                                    *)
PostedOK ==
    /\ \E T : roots \in Seq(T)
    /\ posted \in Seq([by : Posters, required : Nat])
    /\ Len(posted) = Len(roots)
    /\ \A n \in BlockNumbers :
           /\ Block(n).blockNr = n
           /\ Block(n).timestamp \in START .. now
           /\ Block(n).sequencer \in Accounts

(* An exit on record is that of an account that registers exits, and keeps *)
(* it inactive unless it funded again.                                     *)
ExitsOK ==
    \A who \in Accounts :
        exits[who] # 0 =>
            /\ who \in Stakers
            /\ who \notin refunded => ~sequencers[who].isActive

(* A stake of r that was there at time t and that nothing has set free     *)
(* since.                                                                  *)
HeldSince(who, t, r) ==
    /\ sequencers[who].stakeAmount >= r
    /\ sequencers[who].timestampChallenged # 0 => sequencers[who].timestampChallenged >= t
    /\ exits[who] # 0 => exits[who] >= t

HeldFor(n) == HeldSince(Block(n).sequencer, Block(n).timestamp, posted[n + 1].required)

HeldOK == \A n \in AnsweredFor : Block(n).sequencer \notin refunded => HeldFor(n)

StakeInv == RegistryInv /\ PostedOK /\ ExitsOK /\ HeldOK

(* A block that is posted goes to the end of the chain, and who posts it   *)
(* to the end of the record.                                               *)
LEMMA PostedStep ==
    ASSUME PostedOK, RegistryInv, NEW d, AddBlock(d), d.sequencer \in Accounts,
           NEW sender \in Posters,
           posted' = Append(posted, [by |-> sender, required |-> requiredStake])
    PROVE  /\ PostedOK'
           /\ UNCHANGED now
           /\ \A n \in BlockNumbers' :
                  \/ n \in BlockNumbers /\ Block(n)' = Block(n) /\ posted'[n + 1] = posted[n + 1]
                  \/ /\ Block(n)'.timestamp = now
                     /\ posted'[n + 1] = [by |-> sender, required |-> requiredStake]
<1>1. PICK T : roots \in Seq(T)
  BY DEF PostedOK
<1> DEFINE b == Stamped(d)
           r == [by |-> sender, required |-> requiredStake]
           R == [by : Posters, required : Nat]
<1>2. /\ roots' = Append(roots, b) /\ UNCHANGED now /\ d.blockNr = Len(roots)
  BY DEF AddBlock, IsAcceptable, Height
<1>3. b.sequencer = d.sequencer /\ b.timestamp = now /\ b.blockNr = d.blockNr
  BY DEF Stamped
<1>4. r \in R /\ posted \in Seq(R) /\ Len(posted) = Len(roots) /\ posted' = Append(posted, r)
  BY DEF PostedOK, RegistryInv, RegistryTypeOK
<1> HIDE DEF b, r, R
<1>5. /\ Len(roots) \in Nat
      /\ roots' \in Seq(T \cup {b})
      /\ Len(roots') = Len(roots) + 1
      /\ roots'[Len(roots) + 1] = b
      /\ \A i \in 1 .. Len(roots) : roots'[i] = roots[i]
  <2>1. roots \in Seq(T \cup {b})
    BY <1>1
  <2> QED BY <1>2, <2>1
<1>6. /\ posted' \in Seq(R) /\ Len(posted') = Len(roots) + 1
      /\ posted'[Len(roots) + 1] = r
      /\ \A i \in 1 .. Len(roots) : posted'[i] = posted[i]
  BY <1>4
<1>7. \A n \in BlockNumbers' :
          \/ n \in BlockNumbers /\ Block(n)' = Block(n) /\ posted'[n + 1] = posted[n + 1]
          \/ n = Len(roots) /\ Block(n)' = b /\ posted'[n + 1] = r
  BY <1>5, <1>6 DEF BlockNumbers, Height, Block
<1>8. now \in START .. now
  BY DEF RegistryInv
<1>9. PostedOK'
  <2>1. ASSUME NEW n \in BlockNumbers'
        PROVE  /\ Block(n)'.blockNr = n
               /\ Block(n)'.timestamp \in START .. now'
               /\ Block(n)'.sequencer \in Accounts
    BY <1>2, <1>3, <1>7, <1>8 DEF PostedOK
  <2>2. \E U : roots' \in Seq(U)
    BY <1>5
  <2>3. posted' \in Seq([by : Posters, required : Nat]) /\ Len(posted') = Len(roots')
    BY <1>5, <1>6 DEF R
  <2> QED BY <2>1, <2>2, <2>3 DEF PostedOK
<1> QED BY <1>2, <1>3, <1>7, <1>9 DEF r

(* A rollback leaves a beginning of the chain and of the record.           *)
LEMMA RolledBackStep ==
    ASSUME PostedOK, NEW n \in BlockNumbers, Rollback(n), posted' = SubSeq(posted, 1, n)
    PROVE  /\ PostedOK'
           /\ UNCHANGED now
           /\ \A m \in BlockNumbers' : /\ m \in BlockNumbers /\ Block(m)' = Block(m)
                                       /\ posted'[m + 1] = posted[m + 1]
<1> DEFINE R == [by : Posters, required : Nat]
<1>1. PICK T : roots \in Seq(T)
  BY DEF PostedOK
<1>2. n \in Nat /\ n <= Len(roots) /\ roots' = SubSeq(roots, 1, n) /\ UNCHANGED now
  BY <1>1 DEF Rollback, BlockNumbers, Height
<1>3. /\ roots' \in Seq(T) /\ Len(roots') = n
      /\ \A i \in 1 .. n : roots'[i] = roots[i]
  BY <1>1, <1>2
<1>4. posted \in Seq(R) /\ Len(posted) = Len(roots)
  BY DEF PostedOK
<1> HIDE DEF R
<1>5. /\ posted' \in Seq(R) /\ Len(posted') = n
      /\ \A i \in 1 .. n : posted'[i] = posted[i]
  BY <1>2, <1>4
<1>6. \A m \in BlockNumbers' : /\ m \in BlockNumbers /\ Block(m)' = Block(m)
                               /\ posted'[m + 1] = posted[m + 1]
  BY <1>1, <1>2, <1>3, <1>5 DEF BlockNumbers, Height, Block
<1>7. (\E U : roots' \in Seq(U)) /\ posted' \in Seq([by : Posters, required : Nat])
      /\ Len(posted') = Len(roots')
  BY <1>3, <1>5 DEF R
<1> QED BY <1>2, <1>6, <1>7 DEF PostedOK

(* Whatever is posted names some account.                                  *)
LEMMA PostedName ==
    ASSUME NEW d \in Proposals(Named) \cup Submissions
    PROVE  d.sequencer \in Accounts
<1>1. CASE d \in Proposals(Named)
  <2>1. PICK name \in Named : \E kind, txs : d = Proposal(name, kind, txs)
    BY <1>1 DEF Proposals
  <2>2. PICK kind, txs : d = Proposal(name, kind, txs)
    BY <2>1
  <2>3. d.sequencer = name
    BY <2>2 DEF Proposal
  <2> QED BY <2>3, MCEntrypointAssumption
<1>2. CASE d \in Submissions
  BY <1>2, SubmissionsAssumption DEF Submission
<1> QED BY <1>1, <1>2

(* Nothing sets a stake free that was there at a time the window reaches   *)
(* back to: an exit and a reward wait for that long.                       *)
LEMMA CallKeepsHeld ==
    ASSUME CHALLENGE_PERIOD <= CHALLENGE_WINDOW, RegistryInv, RegistryCall, UNCHANGED now,
           NEW who \in Accounts, NEW t \in Nat, NEW r \in Nat, t <= now,
           now < t + CHALLENGE_PERIOD, HeldSince(who, t, r)
    PROVE  HeldSince(who, t, r)'
<1>1. /\ sequencers[who].stakeAmount \in Nat /\ sequencers[who].timestampChallenged \in Nat
      /\ exits[who] \in Nat /\ now \in Nat
      /\ sequencers'[who].stakeAmount \in Nat
  <2>1. RegistryInv'
    BY RegistryInvStep DEF RegistryNext
  <2> QED BY <2>1 DEF RegistryInv, RegistryTypeOK, SequencerStatus
<1>2. CHALLENGE_PERIOD \in Nat /\ CHALLENGE_WINDOW \in Nat
  BY SpineAssumption, RegistryAssumption
<1> QED BY <1>1, <1>2, CallEffect DEF HeldSince

(* What is on record of a block.                                           *)
LEMMA PostedFacts ==
    ASSUME PostedOK, NEW n \in BlockNumbers
    PROVE  /\ n \in Nat /\ posted[n + 1].by \in Posters /\ posted[n + 1].required \in Nat
           /\ Block(n).sequencer \in Accounts
           /\ Block(n).timestamp \in Nat /\ Block(n).timestamp <= now
<1>1. n \in Nat /\ n + 1 \in 1 .. Len(posted)
  BY DEF PostedOK, BlockNumbers, Height
<1>2. posted[n + 1] \in [by : Posters, required : Nat]
  <2> DEFINE R == [by : Posters, required : Nat]
  <2>1. posted \in Seq(R)
    BY DEF PostedOK
  <2> HIDE DEF R
  <2>2. posted[n + 1] \in R
    BY <1>1, <2>1
  <2> QED BY <2>2 DEF R
<1>3. Block(n).timestamp \in START .. now
  BY DEF PostedOK
<1> QED BY <1>1, <1>2, <1>3 DEF PostedOK

(* A call keeps what is held behind every block.                           *)
LEMMA CallKeepsHeldOK ==
    ASSUME CHALLENGE_PERIOD <= CHALLENGE_WINDOW, StakeInv, RegistryCall,
           refunded \subseteq refunded', UNCHANGED <<now, roots, posted>>
    PROVE  HeldOK'
<1>1. AnsweredFor' = AnsweredFor
  BY DEF AnsweredFor, BlockNumbers, Height, Block
<1> SUFFICES ASSUME NEW n \in AnsweredFor, Block(n).sequencer \notin refunded
             PROVE  HeldFor(n)'
  BY <1>1 DEF HeldOK, Block
<1> DEFINE who == Block(n).sequencer
           t == Block(n).timestamp
           r == posted[n + 1].required
<1>2. n \in BlockNumbers /\ now < t + CHALLENGE_PERIOD
  BY DEF AnsweredFor
<1>3. who \in Accounts /\ t \in Nat /\ t <= now /\ r \in Nat /\ UNCHANGED <<who, t, r>>
  BY <1>2, PostedFacts DEF StakeInv, Block
<1>4. HeldSince(who, t, r)
  BY DEF StakeInv, HeldOK, HeldFor
<1> HIDE DEF who, t, r
<1>5. ASSUME NEW w, NEW u, NEW k, w = who, u = t, k = r PROVE HeldSince(w, u, k)'
  <2>1. w \in Accounts /\ u \in Nat /\ k \in Nat /\ u <= now /\ now < u + CHALLENGE_PERIOD
        /\ HeldSince(w, u, k)
    BY <1>2, <1>3, <1>4, <1>5
  <2> QED BY <2>1, CallKeepsHeld DEF StakeInv
<1>6. HeldSince(who, t, r)'
  BY <1>3, <1>5 DEF HeldSince
<1> QED BY <1>6 DEF HeldFor, who, t, r

(* A registry call: who funds with an exit on record counts as refunded.   *)
LEMMA CallStep ==
    ASSUME CHALLENGE_PERIOD <= CHALLENGE_WINDOW, StakeInv, RegistryCall,
           \A who \in Accounts \ Stakers : sequencers'[who] = sequencers[who],
           refunded' = refunded \cup
              {who \in Accounts : /\ exits[who] # 0
                                 /\ ~sequencers[who].isActive /\ sequencers'[who].isActive},
           UNCHANGED <<now, roots, posted>>
    PROVE  ExitsOK' /\ HeldOK'
<1>1. ExitsOK'
  <2> SUFFICES ASSUME NEW who \in Accounts, exits'[who] # 0
               PROVE  who \in Stakers /\ (who \notin refunded' => ~sequencers'[who].isActive)
    BY DEF ExitsOK
  <2>1. now # 0
    BY DEF StakeInv, RegistryInv
  <2>2. exits[who] # 0 => who \in Stakers /\ (who \notin refunded => ~sequencers[who].isActive)
    BY DEF StakeInv, ExitsOK
  <2> QED BY <2>1, <2>2, CallEffect DEF StakeInv
<1>2. HeldOK'
  BY CallKeepsHeldOK
<1> QED BY <1>1, <1>2

(* Whoever never registers an exit has none on record when it funds.       *)
LEMMA FundStep ==
    ASSUME CHALLENGE_PERIOD <= CHALLENGE_WINDOW, StakeInv, NEW poster \in Accounts \ Stakers,
           NEW wei \in FundAmounts, Fund(poster, wei),
           UNCHANGED <<now, roots, posted, refunded>>
    PROVE  ExitsOK' /\ HeldOK'
<1>1. RegistryCall
  BY DEF RegistryCall
<1>2. exits[poster] = 0 /\ exits' = exits
  BY DEF StakeInv, ExitsOK, Fund, Funded
<1>3. \A who \in Accounts : who # poster => sequencers'[who] = sequencers[who]
  <2>1. sequencers \in [Accounts -> SequencerStatus]
    BY DEF StakeInv, RegistryInv, RegistryTypeOK
  <2> DEFINE units == wei \div STAKE_DIVISOR
             funded == [sequencers[poster] EXCEPT !.isActive = TRUE, !.stakeAmount = @ + units]
  <2>2. sequencers' = [sequencers EXCEPT ![poster].isActive = TRUE,
                                         ![poster].stakeAmount = @ + units]
    BY DEF Fund, Funded
  <2> HIDE DEF units
  <2>3. sequencers' = [sequencers EXCEPT ![poster] = funded]
    BY <2>1, <2>2
  <2> HIDE DEF funded
  <2> QED BY <2>1, <2>3
<1>4. ExitsOK'
  BY <1>2, <1>3 DEF StakeInv, ExitsOK
<1>5. HeldOK'
  BY <1>1, CallKeepsHeldOK
<1> QED BY <1>4, <1>5

(* A step that moves neither chain, clock nor registry.                    *)
LEMMA StakeStays ==
    ASSUME StakeInv, UNCHANGED <<now, roots, registryVars, posted, refunded>>
    PROVE  StakeInv'
<1>1. UNCHANGED <<now, roots, sequencers, exits, firstLookSequencers, requiredStake, balance,
                  posted, refunded>>
  BY DEF registryVars
<1>2. RegistryInv'
  BY <1>1, RegistryInvStep DEF StakeInv, registryVars
<1>3. PostedOK' /\ ExitsOK' /\ HeldOK'
  BY <1>1 DEF StakeInv, PostedOK, ExitsOK, HeldOK, HeldFor, HeldSince, AnsweredFor,
     BlockNumbers, Height, Block
<1> QED BY <1>2, <1>3 DEF StakeInv

(* A step of the chain and the registry: what was held behind the blocks   *)
(* that stay still is, when a stake never shrinks and neither an exit nor  *)
(* a challenge is put on record but those of now.                          *)
LEMMA HeldStays ==
    ASSUME StakeInv, PostedOK', UNCHANGED <<now, refunded, exits>>,
           \A x \in Accounts :
               /\ sequencers'[x].stakeAmount = sequencers[x].stakeAmount
               /\ sequencers'[x].timestampChallenged \in {sequencers[x].timestampChallenged, now},
           NEW n \in BlockNumbers, n \in AnsweredFor', Block(n)' = Block(n),
           posted'[n + 1] = posted[n + 1], Block(n).sequencer \notin refunded
    PROVE  HeldFor(n)'
<1>1. n \in AnsweredFor
  BY DEF AnsweredFor
<1>2. HeldFor(n)
  BY <1>1 DEF StakeInv, HeldOK
<1>3. Block(n).sequencer \in Accounts /\ Block(n).timestamp <= now
  BY PostedFacts DEF StakeInv
<1> QED BY <1>2, <1>3 DEF HeldFor, HeldSince

(* Every step keeps the invariant.                                         *)
LEMMA StakeStep ==
    ASSUME CHALLENGE_PERIOD <= CHALLENGE_WINDOW, StakeInv,
           [MCNext]_<<entrypointVars, historyVars>>
    PROVE  StakeInv'
<1>0. /\ RegistryInv /\ PostedOK /\ ExitsOK /\ HeldOK
      /\ now \in Nat /\ CHALLENGE_PERIOD \in Nat
  BY SpineAssumption DEF StakeInv, RegistryInv
<1>1. ASSUME NEW sender \in Posters, PostStep(sender, Proposals(Named) \cup Submissions),
             posted' = Append(posted, [by |-> sender, required |-> requiredStake]),
             UNCHANGED refunded
      PROVE  StakeInv'
  <2>1. PICK d \in Proposals(Named) \cup Submissions :
            IsAllowed(sender) /\ AddBlock(d) /\ UNCHANGED registryVars
    BY <1>1 DEF PostStep, Post, AddBlockWithDeposits
  <2>2. d.sequencer \in Accounts
    BY PostedName
  <2>3. /\ PostedOK' /\ UNCHANGED now
        /\ \A n \in BlockNumbers' :
               \/ n \in BlockNumbers /\ Block(n)' = Block(n) /\ posted'[n + 1] = posted[n + 1]
               \/ /\ Block(n)'.timestamp = now
                  /\ posted'[n + 1] = [by |-> sender, required |-> requiredStake]
    BY <1>0, <1>1, <2>1, <2>2, PostedStep
  <2>4. UNCHANGED <<sequencers, exits, firstLookSequencers, requiredStake, balance>>
    BY <2>1 DEF registryVars
  <2>5. RegistryInv'
    BY <1>0, <2>3, <2>4, RegistryInvStep DEF registryVars
  <2>6. ExitsOK'
    BY <1>0, <1>1, <2>4 DEF ExitsOK
  <2>7. ASSUME sender \notin refunded PROVE HeldSince(sender, now, requiredStake)
    <3>1. sender \in Accounts /\ sequencers[sender].isActive
          /\ sequencers[sender].stakeAmount >= requiredStake
      BY <2>1, MCEntrypointAssumption DEF IsAllowed, IsActiveWithStake
    <3>2. sequencers[sender].timestampChallenged = 0
      BY <3>1, <1>0 DEF RegistryInv, InOrder
    <3>3. exits[sender] = 0
      BY <2>7, <3>1, <1>0 DEF ExitsOK
    <3> QED BY <3>1, <3>2, <3>3 DEF HeldSince
  <2>8. HeldOK'
    <3> SUFFICES ASSUME NEW n \in AnsweredFor', Block(n)'.sequencer \notin refunded
                 PROVE  HeldFor(n)'
      BY <1>1 DEF HeldOK
    <3>0. n \in BlockNumbers' /\ posted'[n + 1].by = Block(n)'.sequencer
      BY DEF AnsweredFor
    <3>1. CASE n \in BlockNumbers /\ Block(n)' = Block(n) /\ posted'[n + 1] = posted[n + 1]
      BY <1>1, <2>3, <2>4, <3>1, HeldStays
    <3>2. CASE /\ Block(n)'.timestamp = now
               /\ posted'[n + 1] = [by |-> sender, required |-> requiredStake]
      <4>1. Block(n)'.sequencer = sender /\ posted'[n + 1].required = requiredStake
        BY <3>0, <3>2
      <4> QED BY <2>4, <2>7, <3>2, <4>1 DEF HeldFor, HeldSince
    <3> QED BY <2>3, <3>0, <3>1, <3>2
  <2> QED BY <2>3, <2>5, <2>6, <2>8 DEF StakeInv
<1>2. ASSUME NEW n \in BlockNumbers, NEW sender \in Challengers, Challenge(n, sender),
             posted' = SubSeq(posted, 1, n), UNCHANGED refunded
      PROVE  StakeInv'
  <2>1. Slash(Block(n).sequencer, n, sender) /\ Rollback(n)
    <3>1. SlashAndRollback(Block(n), sender)
      BY <1>2 DEF Challenge, ChallengeDepositWrongLeaf, ChallengeNullifier, ChallengeTxZK,
         ChallengeTreeUpdate
    <3> QED BY <3>1, <1>0 DEF SlashAndRollback, PostedOK
  <2>2. /\ PostedOK' /\ UNCHANGED now
        /\ \A m \in BlockNumbers' : /\ m \in BlockNumbers /\ Block(m)' = Block(m)
                                    /\ posted'[m + 1] = posted[m + 1]
    BY <1>0, <1>2, <2>1, RolledBackStep
  <2>3. Block(n).sequencer \in Accounts /\ sender \in Accounts /\ n \in Nat
    BY <1>0, PostedFacts, MCEntrypointAssumption
  <2>4. RegistryInv'
    BY <1>0, <2>1, <2>2, <2>3, SlashPreserves
  <2>5. \A x \in Accounts :
            /\ sequencers'[x].isActive => sequencers[x].isActive
            /\ sequencers'[x].stakeAmount = sequencers[x].stakeAmount
            /\ sequencers'[x].timestampChallenged \in {sequencers[x].timestampChallenged, now}
            /\ UNCHANGED exits
    BY <1>0, <2>1, <2>2, <2>3, SlashEffect
  <2>6. UNCHANGED exits
    BY <2>3, <2>5
  <2>7. ExitsOK'
    BY <1>0, <1>2, <2>5, <2>6 DEF ExitsOK
  <2>8. HeldOK'
    <3> SUFFICES ASSUME NEW m \in AnsweredFor', Block(m)'.sequencer \notin refunded
                 PROVE  HeldFor(m)'
      BY <1>2 DEF HeldOK
    <3>1. m \in BlockNumbers'
      BY DEF AnsweredFor
    <3> QED BY <1>2, <2>2, <2>5, <2>6, <3>1, HeldStays
  <2> QED BY <2>2, <2>4, <2>7, <2>8 DEF StakeInv
<1>3. CASE /\ RegistryStep
           /\ \A who \in Accounts \ Stakers : sequencers'[who] = sequencers[who]
           /\ refunded' = refunded \cup
                  {who \in Accounts : /\ exits[who] # 0
                                     /\ ~sequencers[who].isActive /\ sequencers'[who].isActive}
           /\ UNCHANGED posted
  <2>1. RegistryCall /\ UNCHANGED <<now, roots, posted>>
    BY <1>3 DEF RegistryStep, spineVars
  <2>2. RegistryInv'
    BY <1>0, <2>1, RegistryInvStep DEF RegistryNext
  <2>3. PostedOK'
    BY <1>0, <2>1 DEF PostedOK, BlockNumbers, Height, Block
  <2> QED BY <1>3, <2>1, <2>2, <2>3, CallStep DEF StakeInv
<1>4. ASSUME NEW who \in Posters \ Stakers, NEW wei \in FundAmounts, Fund(who, wei),
             UNCHANGED <<spineVars, posted, refunded>>
      PROVE  StakeInv'
  <2>1. RegistryCall /\ UNCHANGED <<now, roots, posted>> /\ who \in Accounts
    BY <1>4, MCEntrypointAssumption DEF RegistryCall, spineVars
  <2>2. RegistryInv'
    BY <1>0, <2>1, RegistryInvStep DEF RegistryNext
  <2>3. PostedOK'
    BY <1>0, <2>1 DEF PostedOK, BlockNumbers, Height, Block
  <2> QED BY <1>4, <2>1, <2>2, <2>3, FundStep DEF StakeInv
<1>5. CASE TimeStep /\ UNCHANGED <<posted, refunded>>
  <2>1. Tick /\ UNCHANGED <<roots, registryVars, posted, refunded>> /\ now' \in Nat /\ now <= now'
    BY <1>0, <1>5 DEF TimeStep, SpineTick, Tick
  <2>2. RegistryInv'
    BY <1>0, <2>1, RegistryInvStep DEF RegistryNext
  <2>3. UNCHANGED <<sequencers, exits, firstLookSequencers, requiredStake, balance>>
    BY <2>1 DEF registryVars
  <2>4. PostedOK'
    <3>1. \A n \in BlockNumbers : Block(n).timestamp \in START .. now'
      BY <1>0, <2>1 DEF PostedOK
    <3> QED BY <1>0, <2>1, <3>1 DEF PostedOK, BlockNumbers, Height, Block
  <2>5. ExitsOK'
    BY <1>0, <2>1, <2>3 DEF ExitsOK
  <2>6. HeldOK'
    <3>1. BlockNumbers' = BlockNumbers /\ \A n : Block(n)' = Block(n)
      BY <2>1 DEF BlockNumbers, Height, Block
    <3>2. ASSUME NEW n \in BlockNumbers, now' < Block(n).timestamp + CHALLENGE_PERIOD
          PROVE  now < Block(n).timestamp + CHALLENGE_PERIOD
      <4>1. Block(n).timestamp \in Nat
        BY <1>0, PostedFacts
      <4> HIDE DEF Block
      <4> QED BY <1>0, <2>1, <3>2, <4>1
    <3>3. AnsweredFor' \subseteq AnsweredFor
      BY <2>1, <3>1, <3>2 DEF AnsweredFor
    <3> QED BY <1>0, <2>1, <2>3, <3>1, <3>3 DEF HeldOK, HeldFor, HeldSince
  <2> QED BY <2>2, <2>4, <2>5, <2>6 DEF StakeInv
<1>6. CASE /\ \/ DepositStep \/ WithdrawStep \/ PayoutStep \/ YieldStep
              \/ MigrateStep \/ OwnerStep \/ MarketStep
           /\ UNCHANGED <<posted, refunded>>
  <2>1. UNCHANGED <<now, roots, registryVars>>
    BY <1>6 DEF DepositStep, WithdrawStep, PayoutStep, YieldStep, MigrateStep, OwnerStep,
       MarketStep, Deposit, WithdrawLeaf, spineVars
  <2> QED BY <1>6, <2>1, StakeStays
<1>7. CASE UNCHANGED <<entrypointVars, historyVars>>
  BY <1>7, StakeStays DEF entrypointVars, historyVars, spineVars
<1> QED
  BY <1>1, <1>2, <1>3, <1>4, <1>5, <1>6, <1>7 DEF MCNext, ChallengeStep, historyVars

(* Within the challenge period of a block that its poster answers for, the *)
(* stake required when it was posted is there to lose, unless the account  *)
(* funded again with an exit on record: neither an exit nor a reward pays  *)
(* out before the window, which is as long.                                *)
THEOREM StakesAreHeld ==
    ASSUME CHALLENGE_PERIOD <= CHALLENGE_WINDOW
    PROVE  MCSpec => []StakeHeldInWindow
<1>1. MCInit => StakeInv
  <2> SUFFICES ASSUME MCInit PROVE StakeInv
    OBVIOUS
  <2>1. now = START /\ RegistryInit /\ roots = <<>> /\ posted = <<>>
    BY DEF MCInit, EntrypointInit, SpineInit
  <2>2. RegistryInv
    BY <2>1, RegistryInitial
  <2>3. BlockNumbers = {} /\ roots \in Seq({}) /\ AnsweredFor = {}
        /\ posted \in Seq([by : Posters, required : Nat]) /\ Len(posted) = Len(roots)
    BY <2>1 DEF BlockNumbers, Height, AnsweredFor
  <2> QED BY <2>1, <2>2, <2>3 DEF StakeInv, PostedOK, ExitsOK, HeldOK, RegistryInit
<1>2. StakeInv /\ [MCNext]_<<entrypointVars, historyVars>> => StakeInv'
  BY StakeStep
<1>3. StakeInv => StakeHeldInWindow
  BY DEF StakeInv, HeldOK, HeldFor, HeldSince, StakeHeldInWindow
<1> QED BY <1>1, <1>2, <1>3, PTL DEF MCSpec

-----------------------------------------------------------------------------
(* The bridge seen from the L1, over MCSpec.                               *)

(* The blocks are where their numbers say, in the order of their times.    *)
StandsOK ==
    /\ \E T : roots \in Seq(T)
    /\ now \in Nat
    /\ \A n \in BlockNumbers :
           /\ Block(n).blockNr = n
           /\ Block(n).timestamp \in Nat
           /\ Block(n).timestamp <= now
           /\ \A m \in 0 .. n : Block(m).timestamp <= Block(n).timestamp

(* An output that is paid out is worth an amount of a known asset.         *)
LeavesOK ==
    \A n \in BlockNumbers : \A t \in TxNumbers(Block(n)), which \in 0 .. 2 :
        LET leaf == Tx(Block(n), t).leaves[which + 1]
        IN  leaf # ZeroLeaf => leaf.asset \in Tokens /\ leaf.amount \in Nat

(* The amounts that the router moves are numbers: what it holds, and what  *)
(* the shares of an epoch are computed from.                               *)
AmountsOK ==
    /\ RouterTypeOK
    /\ UseAddsUp
    /\ perBlockDeposits \in [0 .. MaxDepositBlock -> Seq(Leaves)]

MarksOK == withdrawn \subseteq Nat \X Nat \X (0 .. 2)

SettleInv == StandsOK /\ LeavesOK /\ AmountsOK /\ MarksOK

(* What the ledger, the payments and the losses of Settlement stand for.   *)
Ledger == [i \in 1 .. Cardinality(Settled) |-> Worth(Block(i - 1))]

Paid == {<<w[1], <<w[2], w[3]>>>> : w \in withdrawn}

Short == {t \in Tokens : HasSource(t) /\ priorBalances[t] > Invested(t)}

(* The steps of MCSpec, by who takes them.                                 *)
LEMMA MCNextCases ==
    ASSUME [MCNext]_<<entrypointVars, historyVars>>
    PROVE  \/ \E sender \in Posters :
                  PostStep(sender, Proposals(Named) \cup Submissions) /\ UNCHANGED late
           \/ \E n \in BlockNumbers :
                  /\ ChallengeStep({n}, Challengers)
                  /\ late' = IF IsConfirmed(Block(n)) THEN late + 1 ELSE late
           \/ /\ DepositStep \/ WithdrawStep \/ PayoutStep \/ YieldStep \/ MigrateStep
                 \/ OwnerStep \/ MarketStep \/ TimeStep
              /\ UNCHANGED late
           \/ UNCHANGED <<spineVars, depositVars, routerVars, withdrawVars, useVars, late>>
<1>1. CASE MCNext
  BY <1>1 DEF MCNext, RegistryStep, historyVars
<1>2. CASE UNCHANGED <<entrypointVars, historyVars>>
  BY <1>2 DEF entrypointVars, historyVars
<1> QED BY <1>1, <1>2

(* Which blocks are settled is a matter of time.                           *)
LEMMA SettledByTime ==
    /\ StandsOK =>
           \A n \in BlockNumbers :
               n \in Settled <=> Block(n).timestamp + CHALLENGE_PERIOD < now
    /\ (StandsOK =>
            \A n \in BlockNumbers :
                n \in Settled <=> Block(n).timestamp + CHALLENGE_PERIOD < now)'
<1>1. StandsOK => \A n \in BlockNumbers :
                     n \in Settled <=> Block(n).timestamp + CHALLENGE_PERIOD < now
  <2> SUFFICES ASSUME StandsOK, NEW n \in BlockNumbers
               PROVE  n \in Settled <=> Block(n).timestamp + CHALLENGE_PERIOD < now
    OBVIOUS
  <2>1. Height \in Nat /\ BlockNumbers = 0 .. Height - 1 /\ Block(n).blockNr = n
    BY DEF StandsOK, Height, BlockNumbers
  <2> QED BY <2>1 DEF Settled, IsConfirmed, IsBlockIncluded
<1> QED BY <1>1, PTL

(* The settled blocks are the first ones.                                  *)
LEMMA SettledFirst ==
    ASSUME StandsOK
    PROVE  /\ Height \in Nat
           /\ Cardinality(Settled) \in 0 .. Height
           /\ Settled = 0 .. Cardinality(Settled) - 1
<1> DEFINE Open == {n \in BlockNumbers : n \notin Settled} \cup {Height}
<1>1. Height \in Nat /\ BlockNumbers = 0 .. Height - 1 /\ CHALLENGE_PERIOD \in Nat
  BY SpineAssumption DEF StandsOK, Height, BlockNumbers
<1>2. Open \in SUBSET Nat /\ Open # {}
  BY <1>1
<1>3. PICK k \in Open : \A m \in Open : k <= m
  <2> HIDE DEF Open
  <2> QED BY <1>2, LeastNumber
<1>4. k \in 0 .. Height
  BY <1>1, <1>3
<1>5. \A n \in BlockNumbers : n \in Settled <=> Block(n).timestamp + CHALLENGE_PERIOD < now
  BY SettledByTime
<1>6. \A n \in BlockNumbers : n < k => n \in Settled
  BY <1>1, <1>3
<1>7. \A n \in BlockNumbers : n >= k => n \notin Settled
  <2>1. k \in BlockNumbers => k \notin Settled
    BY <1>1, <1>3
  <2>2. ASSUME NEW n \in BlockNumbers, n >= k PROVE n \notin Settled
    <3>1. k \in BlockNumbers /\ k \in 0 .. n
      BY <1>1, <1>4, <2>2
    <3>2. Block(k).timestamp <= Block(n).timestamp
          /\ Block(k).timestamp \in Nat /\ Block(n).timestamp \in Nat /\ now \in Nat
      BY <3>1 DEF StandsOK
    <3> QED BY <1>1, <1>5, <2>1, <3>1, <3>2
  <2> QED BY <2>2
<1>8. Settled \subseteq BlockNumbers
  BY DEF Settled
<1> HIDE DEF Open
<1>9. Settled = 0 .. k - 1
  <2>1. \A n \in 0 .. k - 1 : n \in BlockNumbers /\ n < k
    BY <1>1, <1>4
  <2>2. \A n \in BlockNumbers : n < k => n \in 0 .. k - 1
    BY <1>1, <1>4
  <2>3. \A n \in BlockNumbers : n < k \/ n >= k
    BY <1>1, <1>4
  <2> QED BY <1>6, <1>7, <1>8, <2>1, <2>2, <2>3
<1>10. Cardinality(Settled) = k
  <2>1. 0 \in Int /\ k - 1 \in Int
    BY <1>4
  <2>2. Cardinality(0 .. k - 1) = IF 0 > k - 1 THEN 0 ELSE k - 1 - 0 + 1
    BY <2>1, FS_Interval
  <2> QED BY <1>4, <1>9, <2>2
<1> QED BY <1>1, <1>4, <1>9, <1>10

(* What the ledger is made of.                                             *)
LEMMA LedgerFacts ==
    ASSUME StandsOK
    PROVE  /\ \E U : Ledger \in Seq(U)
           /\ Cardinality(Settled) \in Nat /\ Len(Ledger) = Cardinality(Settled)
           /\ \A i \in 1 .. Len(Ledger) : i - 1 \in Settled /\ Ledger[i] = Worth(Block(i - 1))
<1> DEFINE k == Cardinality(Settled)
           U == {Worth(Block(i - 1)) : i \in 1 .. k}
<1>1. k \in Nat /\ Settled = 0 .. k - 1
  BY SettledFirst
<1>2. Ledger = [i \in 1 .. k |-> Worth(Block(i - 1))]
  BY DEF Ledger
<1> HIDE DEF k
<1>3. Ledger \in [1 .. k -> U]
  BY <1>2
<1> HIDE DEF U
<1>4. Ledger \in Seq(U) /\ Len(Ledger) = k
  BY <1>1, <1>3
<1>5. \A i \in 1 .. k : i - 1 \in Settled /\ Ledger[i] = Worth(Block(i - 1))
  BY <1>1, <1>2
<1> QED BY <1>1, <1>4, <1>5 DEF k

(* A sequence that goes on from another one.                               *)
LEMMA GoesOn ==
    ASSUME NEW U, NEW V, NEW s \in Seq(U), NEW r \in Seq(V), Len(s) < Len(r),
           \A i \in 1 .. Len(s) : s[i] = r[i]
    PROVE  S!IsStrictPrefix(s, r)
<1>1. Len(s) \in Nat /\ Len(r) \in Nat /\ s # r
  OBVIOUS
<1>2. /\ SubSeq(s, 1, Len(s)) = [i \in 1 .. Len(s) |-> s[i]]
      /\ SubSeq(r, 1, Len(s)) = [i \in 1 .. Len(s) |-> r[i]]
  BY <1>1
<1>3. SubSeq(s, 1, Len(s)) = SubSeq(r, 1, Len(s))
  BY <1>2
<1> QED BY <1>1, <1>3 DEF S!IsStrictPrefix, S!IsPrefix

(* When settled blocks stay settled the ledger stays or grows.             *)
LEMMA LedgerGrows ==
    ASSUME StandsOK, StandsOK',
           \A n \in Settled : n \in Settled' /\ Block(n)' = Block(n)
    PROVE  Ledger' = Ledger \/ S!IsStrictPrefix(Ledger, Ledger')
<1> DEFINE k == Len(Ledger)
           l == Len(Ledger')
<1>1. /\ \E U : Ledger \in Seq(U)
      /\ k \in Nat /\ k = Cardinality(Settled) /\ Settled = 0 .. k - 1
      /\ \A i \in 1 .. k : i - 1 \in Settled /\ Ledger[i] = Worth(Block(i - 1))
  BY LedgerFacts, SettledFirst
<1>2. /\ \E U : Ledger' \in Seq(U)
      /\ l \in Nat /\ l = Cardinality(Settled)' /\ Settled' = 0 .. l - 1
      /\ \A i \in 1 .. l : i - 1 \in Settled' /\ Ledger'[i] = Worth(Block(i - 1)')
  <2>1. (/\ \E U : Ledger \in Seq(U)
         /\ Cardinality(Settled) \in Nat /\ Len(Ledger) = Cardinality(Settled)
         /\ \A i \in 1 .. Len(Ledger) :
                i - 1 \in Settled /\ Ledger[i] = Worth(Block(i - 1)))'
    BY LedgerFacts, PTL
  <2>2. (Settled = 0 .. Cardinality(Settled) - 1)'
    BY SettledFirst, PTL
  <2> QED BY <2>1, <2>2 DEF Worth, Payable
<1> HIDE DEF k, l
<1>3. \A i \in 1 .. k : i \in 1 .. l /\ Ledger[i] = Ledger'[i]
  <2> SUFFICES ASSUME NEW i \in 1 .. k PROVE i \in 1 .. l /\ Ledger[i] = Ledger'[i]
    OBVIOUS
  <2>1. i - 1 \in Settled /\ i - 1 \in Settled' /\ Block(i - 1)' = Block(i - 1)
    BY <1>1
  <2>2. Settled' = 0 .. l - 1 /\ l \in Nat /\ i \in Nat
    BY <1>1, <1>2
  <2>3. i - 1 \in 0 .. l - 1
    BY <2>1, <2>2
  <2>4. i \in 1 .. l
    BY <2>2, <2>3
  <2> QED BY <1>1, <1>2, <2>1, <2>4
<1>4. k <= l
  BY <1>1, <1>2, <1>3
<1>5. CASE k = l
  <2>1. Ledger' = Ledger
    BY <1>1, <1>2, <1>3, <1>5 DEF k, l
  <2> QED BY <2>1
<1>6. CASE k < l
  BY <1>1, <1>2, <1>3, <1>6, GoesOn DEF k, l
<1> QED BY <1>1, <1>2, <1>4, <1>5, <1>6

(* When the settled blocks from n on go the ledger shrinks.                *)
LEMMA LedgerShrinks ==
    ASSUME StandsOK, StandsOK', NEW n \in Settled,
           Settled' = 0 .. n - 1, \A m \in 0 .. n - 1 : Block(m)' = Block(m)
    PROVE  S!IsStrictPrefix(Ledger', Ledger)
<1>1. /\ \E U : Ledger \in Seq(U)
      /\ Len(Ledger) \in Nat /\ Settled = 0 .. Len(Ledger) - 1
      /\ \A i \in 1 .. Len(Ledger) : Ledger[i] = Worth(Block(i - 1))
  BY LedgerFacts, SettledFirst
<1>2. n \in Nat /\ n < Len(Ledger)
  BY <1>1
<1>3. /\ \E U : Ledger' \in Seq(U)
      /\ Len(Ledger') \in Nat /\ Settled' = 0 .. Len(Ledger') - 1
      /\ \A i \in 1 .. Len(Ledger') : Ledger'[i] = Worth(Block(i - 1)')
  <2>1. (/\ \E U : Ledger \in Seq(U)
         /\ Cardinality(Settled) \in Nat /\ Len(Ledger) = Cardinality(Settled)
         /\ \A i \in 1 .. Len(Ledger) :
                i - 1 \in Settled /\ Ledger[i] = Worth(Block(i - 1)))'
    BY LedgerFacts, PTL
  <2>2. (Settled = 0 .. Cardinality(Settled) - 1)'
    BY SettledFirst, PTL
  <2> QED BY <2>1, <2>2 DEF Worth, Payable
<1>4. Len(Ledger') = n
  <2>1. \A l \in Nat : 0 .. l - 1 = 0 .. n - 1 => l = n
    BY <1>2
  <2> QED BY <1>3, <2>1
<1>5. \A i \in 1 .. n : Ledger'[i] = Ledger[i]
  <2> SUFFICES ASSUME NEW i \in 1 .. n PROVE Ledger'[i] = Ledger[i]
    OBVIOUS
  <2>1. i - 1 \in 0 .. n - 1 /\ i \in 1 .. Len(Ledger)
    BY <1>1, <1>2
  <2> QED BY <1>1, <1>3, <1>4, <2>1
<1> QED BY <1>1, <1>2, <1>3, <1>4, <1>5, GoesOn

(* What a proposal pays out.                                               *)
LEMMA ProposalLeaves ==
    ASSUME NEW names, NEW d \in Proposals(names), NEW t \in TxNumbers(d)
    PROVE  Tx(d, t).leaves = TxLeaves
<1>1. PICK kinds : \E name \in names, kt \in kinds \X TxCounts : d = Proposal(name, kt[1], kt[2])
  BY DEF Proposals
<1>2. PICK name \in names, kt \in kinds \X TxCounts : d = Proposal(name, kt[1], kt[2])
  BY <1>1
<1> DEFINE kind == kt[1]
           txs == kt[2]
<1>3. d = Proposal(name, kind, txs) /\ txs \in Nat
  BY <1>2, MCProposalsAssumption
<1> HIDE DEF kind, txs
<1>4. d.numTransactions = txs
  BY <1>3 DEF Proposal
<1>5. t + 1 \in 1 .. txs /\ (t + 1) - 1 = t
  BY <1>3, <1>4 DEF TxNumbers
<1> QED BY <1>3, <1>5 DEF Proposal, Tx, Memory

(* What any post pays out, whatever it contains.                           *)
LEMMA PostedLeaves ==
    ASSUME NEW names, NEW d \in Proposals(names) \cup Submissions,
           NEW t \in TxNumbers(d), NEW which \in 0 .. 2,
           Tx(d, t).leaves[which + 1] # ZeroLeaf
    PROVE  LET leaf == Tx(d, t).leaves[which + 1]
           IN  leaf.asset \in Tokens /\ leaf.amount \in Nat
<1>1. CASE d \in Submissions
  BY <1>1, LeafAssumption
<1>2. CASE d \in Proposals(names)
  <2>1. Tx(d, t).leaves = TxLeaves
    BY <1>2, ProposalLeaves
  <2>2. TxLeaves[1] = Payout /\ TxLeaves[2] = ZeroLeaf /\ TxLeaves[3] = ZeroLeaf
    BY DEF TxLeaves
  <2>3. which + 1 = 1
    BY <2>1, <2>2
  <2> QED BY <2>1, <2>2, <2>3, MCProposalsAssumption DEF Payout
<1> QED BY <1>1, <1>2

(* A block that is posted stands at the end, and its outputs are known.    *)
LEMMA SettlePost ==
    ASSUME StandsOK, LeavesOK, NEW names, NEW d \in Proposals(names) \cup Submissions,
           AddBlock(d)
    PROVE  /\ StandsOK' /\ LeavesOK' /\ UNCHANGED now
           /\ \A n \in BlockNumbers : n \in BlockNumbers' /\ Block(n)' = Block(n)
<1>1. PICK T : roots \in Seq(T)
  BY DEF StandsOK
<1> DEFINE b == Stamped(d)
           h == Len(roots)
<1>2. /\ roots' = Append(roots, b) /\ UNCHANGED now /\ d.blockNr = h
  BY DEF AddBlock, IsAcceptable, Height
<1>3. /\ b.timestamp = now /\ b.blockNr = d.blockNr
      /\ TxNumbers(b) = TxNumbers(d) /\ \A t \in TxNumbers(d) : Tx(b, t) = Tx(d, t)
  BY DEF Stamped, TxNumbers, Tx, Memory
<1> HIDE DEF b
<1>4. /\ h \in Nat
      /\ roots' \in Seq(T \cup {b})
      /\ Len(roots') = h + 1
      /\ roots'[h + 1] = b
      /\ \A i \in 1 .. h : roots'[i] = roots[i]
  <2>1. roots \in Seq(T \cup {b})
    BY <1>1
  <2> QED BY <1>2, <2>1
<1>5. BlockNumbers = 0 .. h - 1 /\ BlockNumbers' = 0 .. h
  BY <1>4 DEF BlockNumbers, Height
<1> HIDE DEF h
<1>6. /\ \A n \in BlockNumbers : n \in BlockNumbers' /\ Block(n)' = Block(n)
      /\ \A n : n = h => Block(n)' = b
      /\ \A n \in BlockNumbers' : n \in BlockNumbers \/ n = h
  BY <1>4, <1>5 DEF Block
<1> DEFINE B(n) == Block(n)'
<1>7. \A n \in BlockNumbers' :
          /\ B(n).blockNr = n
          /\ B(n).timestamp \in Nat
          /\ B(n).timestamp <= now
          /\ \A m \in 0 .. n : B(m).timestamp <= B(n).timestamp
  <2> SUFFICES ASSUME NEW n \in BlockNumbers'
               PROVE  /\ B(n).blockNr = n
                      /\ B(n).timestamp \in Nat
                      /\ B(n).timestamp <= now
                      /\ \A m \in 0 .. n : B(m).timestamp <= B(n).timestamp
    OBVIOUS
  <2>1. \A m \in BlockNumbers : B(m) = Block(m)
    BY <1>6
  <2>2. \A m : m = h => B(m) = b
    BY <1>6
  <2> HIDE DEF B
  <2>3. CASE n \in BlockNumbers
    <3>1. 0 .. n \subseteq BlockNumbers
      BY <1>4, <1>5, <2>3
    <3> QED BY <2>1, <2>3, <3>1 DEF StandsOK
  <2>4. CASE n = h
    <3>1. \A m \in 0 .. n : m \in BlockNumbers \/ m = h
      BY <1>4, <1>5, <2>4
    <3> QED BY <1>2, <1>3, <2>1, <2>2, <2>4, <3>1 DEF StandsOK
  <2> QED BY <1>6, <2>3, <2>4
<1>8. StandsOK'
  <2>1. \E U : roots' \in Seq(U)
    BY <1>4
  <2>2. now' \in Nat
    BY <1>2 DEF StandsOK
  <2> QED BY <1>2, <1>7, <2>1, <2>2 DEF StandsOK
<1>9. LeavesOK'
  <2> SUFFICES ASSUME NEW n \in BlockNumbers', NEW t \in TxNumbers(B(n)), NEW which \in 0 .. 2,
                      Tx(B(n), t).leaves[which + 1] # ZeroLeaf
               PROVE  LET leaf == Tx(B(n), t).leaves[which + 1]
                      IN  leaf.asset \in Tokens /\ leaf.amount \in Nat
    BY DEF LeavesOK, TxNumbers, Tx, Memory
  <2>1. CASE n \in BlockNumbers
    <3>1. B(n) = Block(n)
      BY <1>6, <2>1
    <3> HIDE DEF B
    <3> QED BY <2>1, <3>1 DEF LeavesOK
  <2>2. CASE n = h
    <3>1. B(n) = b
      BY <1>6, <2>2
    <3> HIDE DEF B
    <3>2. t \in TxNumbers(d) /\ Tx(B(n), t) = Tx(d, t)
      BY <1>3, <3>1
    <3> QED BY <3>2, PostedLeaves
  <2> QED BY <1>6, <2>1, <2>2
<1> QED BY <1>2, <1>6, <1>8, <1>9

(* What is left after a rollback stood before.                             *)
LEMMA SettleRollback ==
    ASSUME StandsOK, LeavesOK, NEW n \in BlockNumbers, Rollback(n)
    PROVE  /\ StandsOK' /\ LeavesOK' /\ UNCHANGED now /\ BlockNumbers' = 0 .. n - 1
           /\ \A m \in BlockNumbers : m < n => m \in BlockNumbers' /\ Block(m)' = Block(m)
<1>1. PICK T : roots \in Seq(T)
  BY DEF StandsOK
<1>2. n \in Nat /\ n < Len(roots) /\ roots' = SubSeq(roots, 1, n) /\ UNCHANGED now
  BY <1>1 DEF Rollback, BlockNumbers, Height
<1>3. /\ roots' \in Seq(T) /\ Len(roots') = n
      /\ \A i \in 1 .. n : roots'[i] = roots[i]
  BY <1>1, <1>2
<1>4. BlockNumbers' = 0 .. n - 1 /\ BlockNumbers = 0 .. Len(roots) - 1 /\ Len(roots) \in Nat
  BY <1>1, <1>3 DEF BlockNumbers, Height
<1>5. \A m \in BlockNumbers' : m \in BlockNumbers /\ Block(m)' = Block(m) /\ 0 .. m \subseteq BlockNumbers'
  BY <1>2, <1>3, <1>4 DEF Block
<1>6. StandsOK'
  <2>1. \E U : roots' \in Seq(U)
    BY <1>3
  <2>2. ASSUME NEW k \in BlockNumbers'
        PROVE  /\ Block(k)'.blockNr = k
               /\ Block(k)'.timestamp \in Nat
               /\ Block(k)'.timestamp <= now
               /\ \A m \in 0 .. k : Block(m)'.timestamp <= Block(k)'.timestamp
    BY <1>5 DEF StandsOK
  <2>3. now' \in Nat
    BY <1>2 DEF StandsOK
  <2> QED BY <1>2, <2>1, <2>2, <2>3 DEF StandsOK
<1>7. LeavesOK'
  BY <1>5 DEF LeavesOK, TxNumbers, Tx, Memory
<1>8. \A m \in BlockNumbers : m < n => m \in BlockNumbers' /\ Block(m)' = Block(m)
  BY <1>2, <1>4, <1>5
<1> QED BY <1>2, <1>4, <1>6, <1>7, <1>8

(* A step that leaves chain and clock alone leaves the ledger alone.       *)
LEMMA SettleStays ==
    ASSUME StandsOK, LeavesOK, UNCHANGED <<now, roots>>
    PROVE  StandsOK' /\ LeavesOK' /\ Ledger' = Ledger
<1>1. BlockNumbers' = BlockNumbers /\ \A n : Block(n)' = Block(n)
  BY DEF BlockNumbers, Height, Block
<1>2. StandsOK'
  BY <1>1 DEF StandsOK
<1>3. LeavesOK'
  BY <1>1 DEF LeavesOK, TxNumbers, Tx, Memory
<1>4. Ledger' = Ledger
  BY DEF Ledger, Worth, Payable, Settled, BlockNumbers, Height, Block, IsConfirmed,
     IsBlockIncluded
<1> QED BY <1>2, <1>3, <1>4

(* The use that a post is credited with is a number.                       *)
LEMMA PostedUse ==
    ASSUME StandsOK, AmountsOK, NEW names, NEW d \in Proposals(names) \cup Submissions,
           AddBlockWithDeposits(d)
    PROVE  BlobUse(d) \in Nat
<1>1. d.numDeposits = Len(perBlockDeposits[Height]) /\ Height <= MaxDepositBlock
  BY DEF AddBlockWithDeposits
<1>2. Height \in Nat /\ Height \in 0 .. MaxDepositBlock
  BY <1>1, DepositsAssumption DEF StandsOK, Height
<1>3. d.numDeposits \in Nat
  BY <1>1, <1>2 DEF AmountsOK
<1>4. d.numTransactions \in Nat
  <2>1. CASE d \in Submissions
    BY <2>1, SubmissionsAssumption DEF Submission
  <2>2. CASE d \in Proposals(names)
    <3>1. PICK kinds : \E name \in names, kt \in kinds \X TxCounts :
                           d = Proposal(name, kt[1], kt[2])
      BY <2>2 DEF Proposals
    <3>2. PICK name \in names, kt \in kinds \X TxCounts : d = Proposal(name, kt[1], kt[2])
      BY <3>1
    <3>3. kt[2] \in Nat
      BY <3>2, MCProposalsAssumption
    <3> QED BY <3>2, <3>3 DEF Proposal
  <2> QED BY <2>1, <2>2
<1> DEFINE x == d.numDeposits
<1>5. DepositBlobUse(x) \in Nat
  <2> HIDE DEF x
  <2> QED BY <1>3 DEF DepositBlobUse, x
<1> QED BY <1>4, <1>5 DEF BlobUse

(* The share of a sequencer is a number.                                   *)
LEMMA ShareIsNat ==
    ASSUME UseAddsUp, NEW who \in Accounts, NEW e \in Epochs
    PROVE  GetPercentInEpoch(who, e) \in Nat /\ e \in Nat
<1>1. totalBlobUse[e] \in Nat /\ sequencerBlobUse[e][who] \in Nat
  BY DEF UseAddsUp
<1>2. totalBlobUse[e] # 0 =>
          (sequencerBlobUse[e][who] * FIXED_BASE) \div totalBlobUse[e] \in Nat
  BY <1>1, QuotientIsNat, RouterAssumption
<1> QED BY <1>2 DEF GetPercentInEpoch, Epochs

(* Recognising yield: the principal only grows, never beyond what there is,*)
(* and not at all where there is less.                                     *)
LEMMA EarnFacts ==
    ASSUME RouterTypeOK, NEW ts \in SUBSET Tokens, CurrentPeriod \in Periods, Record(ts),
           UNCHANGED <<sources, value>>
    PROVE  /\ DOMAIN priorBalances' = Tokens
           /\ \A t \in Tokens : IF t \in Short THEN priorBalances'[t] = priorBalances[t]
                                ELSE priorBalances'[t] >= priorBalances[t]
           /\ Short' = Short
<1>1. /\ priorBalances' \in [Tokens -> Nat]
      /\ \A t \in Tokens : \/ priorBalances'[t] = priorBalances[t]
                           \/ HasSource(t) /\ priorBalances'[t] = priorBalances[t] + Yield(t)
  BY RecordFacts
<1>2. \A t \in Tokens : HasSource(t)' = HasSource(t) /\ Invested(t)' = Invested(t)
  BY DEF HasSource, Invested
<1>3. ASSUME NEW t \in Tokens
      PROVE  /\ IF t \in Short THEN priorBalances'[t] = priorBalances[t]
                ELSE priorBalances'[t] >= priorBalances[t]
             /\ HasSource(t) =>
                    (priorBalances'[t] > Invested(t) <=> priorBalances[t] > Invested(t))
  <2>1. priorBalances[t] \in Nat
    BY DEF RouterTypeOK
  <2>2. CASE ~HasSource(t)
    BY <1>1, <2>1, <2>2 DEF Short
  <2>3. CASE HasSource(t)
    <3>1. Invested(t) \in Nat /\ maxInterest[t] \in Nat
      BY <2>3, InvestedFacts DEF RouterTypeOK
    <3>2. IF priorBalances[t] > Invested(t) THEN Yield(t) = 0
          ELSE Yield(t) \in Nat /\ priorBalances[t] + Yield(t) <= Invested(t)
      BY <2>1, <3>1 DEF Yield
    <3> QED BY <1>1, <2>1, <2>3, <3>1, <3>2 DEF Short
  <2> QED BY <2>2, <2>3
<1>4. Short' = Short
  BY <1>2, <1>3 DEF Short
<1> QED BY <1>1, <1>3, <1>4

(* Every step keeps the amounts numbers.                                   *)
LEMMA AmountsStep ==
    ASSUME SettleInv, [MCNext]_<<entrypointVars, historyVars>>
    PROVE  AmountsOK'
<1>0. StandsOK /\ LeavesOK /\ RouterTypeOK /\ AmountsOK /\ UseAddsUp
  BY DEF SettleInv, AmountsOK
<1>1. ASSUME RouterTypeOK', UNCHANGED <<perBlockDeposits, useVars>> PROVE AmountsOK'
  BY <1>0, <1>1 DEF AmountsOK, UseAddsUp, useVars
<1>2. UNCHANGED routerVars => RouterTypeOK'
  BY <1>0 DEF RouterTypeOK, routerVars
<1>3. ASSUME NEW sender \in Posters, PostStep(sender, Proposals(Named) \cup Submissions)
      PROVE  AmountsOK'
  <2>1. PICK d \in Proposals(Named) \cup Submissions :
            /\ AddBlockWithDeposits(d) /\ Credit(sender, BlobUse(d))
            /\ UNCHANGED <<routerVars, perBlockDeposits>>
    BY <1>3 DEF PostStep, Post, AddBlockWithDeposits, depositVars
  <2>2. BlobUse(d) \in Nat /\ sender \in Accounts
    BY <1>0, <2>1, PostedUse, MCEntrypointAssumption
  <2>3. UseAddsUp'
    BY <1>0, <2>1, <2>2, CreditStep
  <2> QED BY <1>0, <1>2, <2>1, <2>3 DEF AmountsOK
<1>4. CASE DepositStep
  <2>1. PICK leaf \in Leaves :
            /\ TriggerDeposit(leaf.asset, leaf.amount)
            /\ perBlockDeposits' =
                   [perBlockDeposits EXCEPT ![DepositTarget] = Append(@, leaf)]
            /\ UNCHANGED useVars
    BY <1>4 DEF DepositStep, Deposit
  <2>2. leaf.asset \in Tokens /\ leaf.amount \in Nat
    BY DepositsAssumption
  <2>3. RouterTypeOK'
    BY <1>0, <2>1, <2>2, TriggerDepositFacts
  <2>4. perBlockDeposits' \in [0 .. MaxDepositBlock -> Seq(Leaves)]
    <3> DEFINE k == DepositTarget
    <3>1. perBlockDeposits' = [perBlockDeposits EXCEPT ![k] = Append(@, leaf)]
      BY <2>1
    <3> HIDE DEF k
    <3>2. perBlockDeposits \in [0 .. MaxDepositBlock -> Seq(Leaves)]
      BY <1>0 DEF AmountsOK
    <3>3. \A s \in Seq(Leaves) : Append(s, leaf) \in Seq(Leaves)
      OBVIOUS
    <3> QED BY <3>1, <3>2, <3>3
  <2> QED BY <1>0, <2>1, <2>3, <2>4 DEF AmountsOK, UseAddsUp, useVars
<1>5. CASE WithdrawStep
  <2>1. PICK n \in BlockNumbers : \E t \in TxNumbers(Block(n)), which \in 0 .. 2 :
            /\ WithdrawLeaf(Block(n), t, which) /\ UNCHANGED <<depositVars, useVars>>
    BY <1>5 DEF WithdrawStep
  <2>2. PICK t \in TxNumbers(Block(n)), which \in 0 .. 2 :
            WithdrawLeaf(Block(n), t, which) /\ UNCHANGED <<depositVars, useVars>>
    BY <2>1
  <2> DEFINE leaf == Tx(Block(n), t).leaves[which + 1]
  <2>3. TriggerWithdraw(leaf.asset, leaf.amount) /\ leaf # ZeroLeaf
    BY <2>2 DEF WithdrawLeaf
  <2>4. leaf.asset \in Tokens /\ leaf.amount \in Nat
    BY <1>0, <2>3 DEF LeavesOK
  <2> HIDE DEF leaf
  <2>5. RouterTypeOK'
    BY <1>0, <2>3, <2>4, TriggerWithdrawFacts
  <2> QED BY <1>1, <2>2, <2>5 DEF depositVars
<1>6. CASE PayoutStep
  <2>1. PICK token \in Tokens, who \in Accounts, epoch \in Epochs :
            /\ SequencerWithdrawAsset(token, who, epoch, IsChallenged(who), IsFinalized(epoch),
                                      GetPercentInEpoch(who, epoch))
            /\ UNCHANGED <<depositVars, useVars>>
    BY <1>6 DEF PayoutStep
  <2>2. GetPercentInEpoch(who, epoch) \in Nat /\ epoch \in Nat
    BY <1>0, ShareIsNat
  <2>3. RouterTypeOK'
    BY <1>0, <2>1, <2>2, ClaimedFacts
  <2> QED BY <1>1, <2>1, <2>3 DEF depositVars
<1>7. CASE YieldStep
  <2>1. PICK ts \in SUBSET Tokens :
            /\ CurrentPeriod \in Periods /\ Record(ts) /\ reportedPeriod' \subseteq Periods
            /\ UNCHANGED <<routerConfig, sources, value, depositVars, useVars>>
    <3>1. CASE Poke
      <4>1. tracked \in SUBSET Tokens /\ reportedPeriod \subseteq Periods
        BY <1>0 DEF RouterTypeOK
      <4>2. /\ CurrentPeriod \in Periods /\ Record(tracked)
            /\ reportedPeriod' = reportedPeriod \cup {CurrentPeriod}
            /\ UNCHANGED <<routerConfig, sources, value, depositVars, useVars>>
        BY <1>7, <3>1 DEF YieldStep, Poke
      <4> QED BY <4>1, <4>2
    <3>2. ASSUME NEW t \in Tokens, RecognizeYield(t)
          PROVE  /\ CurrentPeriod \in Periods /\ Record({t}) /\ reportedPeriod' \subseteq Periods
                 /\ UNCHANGED <<routerConfig, sources, value, depositVars, useVars>>
      BY <1>0, <1>7, <3>2 DEF YieldStep, RecognizeYield, RouterTypeOK
    <3>3. \A t \in Tokens : {t} \in SUBSET Tokens
      OBVIOUS
    <3> QED BY <1>7, <3>1, <3>2, <3>3 DEF YieldStep
  <2>2. RouterTypeOK'
    BY <1>0, <2>1, RecordFacts DEF RouterTypeOK, routerConfig
  <2> QED BY <1>1, <2>1, <2>2 DEF depositVars
<1>8. CASE MigrateStep
  <2>1. RouterTypeOK' /\ UNCHANGED <<depositVars, useVars>>
    BY <1>0, <1>8, MigrationFacts DEF MigrateStep
  <2> QED BY <1>1, <2>1 DEF depositVars
<1>9. CASE OwnerStep
  <2>1. \A t \in Tokens, max \in 0 .. MaxValue :
            SetMaxInterest(t, max) => RouterTypeOK'
    <3>1. \A max \in 0 .. MaxValue : max \in Nat
      BY RouterAssumption
    <3> QED BY <1>0, <3>1 DEF SetMaxInterest, RouterTypeOK
  <2>2. \A tokens \in SUBSET Tokens : ChangeTrackedYieldSources(tokens) => RouterTypeOK'
    BY <1>0 DEF ChangeTrackedYieldSources, RouterTypeOK
  <2>3. RouterTypeOK' /\ UNCHANGED <<depositVars, useVars>>
    BY <1>9, <2>1, <2>2 DEF OwnerStep
  <2> QED BY <1>1, <2>3 DEF depositVars
<1>10. CASE MarketStep
  <2>1. \A t \in Tokens, vault \in Vaults, worth \in 0 .. MaxValue :
            VaultReturn(t, vault, worth) => RouterTypeOK'
    <3>1. \A worth \in 0 .. MaxValue : worth \in Nat
      BY RouterAssumption
    <3> QED BY <1>0, <3>1, ReturnFacts
  <2>2. \A t \in Tokens, amount \in 1 .. MaxIdle : Donate(t, amount) => RouterTypeOK'
    <3>1. \A amount \in 1 .. MaxIdle : amount \in Nat
      BY RouterAssumption
    <3> QED BY <1>0, <3>1 DEF Donate, RouterTypeOK
  <2>3. RouterTypeOK' /\ UNCHANGED <<depositVars, useVars>>
    BY <1>10, <2>1, <2>2 DEF MarketStep
  <2> QED BY <1>1, <2>3 DEF depositVars
<1>11. CASE \/ TimeStep
            \/ \E n \in BlockNumbers : ChallengeStep({n}, Challengers)
            \/ UNCHANGED <<spineVars, depositVars, routerVars, withdrawVars, useVars, late>>
  <2>1. UNCHANGED <<routerVars, depositVars, useVars>>
    BY <1>11 DEF TimeStep, ChallengeStep, Challenge, ChallengeDepositWrongLeaf,
       ChallengeNullifier, ChallengeTxZK, ChallengeTreeUpdate, SlashAndRollback
  <2> QED BY <1>1, <1>2, <2>1 DEF depositVars
<1> QED
  BY <1>3, <1>4, <1>5, <1>6, <1>7, <1>8, <1>9, <1>10, <1>11, MCNextCases

(* A step in which settled blocks stay settled, and nothing is paid.       *)
LEMMA SettleMore ==
    ASSUME StandsOK, StandsOK', MarksOK,
           \A n \in Settled : n \in Settled' /\ Block(n)' = Block(n),
           UNCHANGED <<routerVars, withdrawn, late>>
    PROVE  MarksOK' /\ [S!Next]_<<Ledger, Paid, priorBalances, Short, late>>
<1>1. UNCHANGED <<Paid, priorBalances, Short, late>> /\ MarksOK'
  BY DEF Paid, Short, HasSource, Invested, MarksOK, routerVars
<1>2. Ledger' = Ledger \/ S!IsStrictPrefix(Ledger, Ledger')
  BY LedgerGrows
<1> QED BY <1>1, <1>2 DEF S!Next, S!Settle, Ledger, Paid, Short

(* A step that neither moves the chain nor pays: the market, at most.      *)
LEMMA SettleMove ==
    ASSUME StandsOK, LeavesOK, MarksOK, UNCHANGED <<now, roots, withdrawn, priorBalances, late>>
    PROVE  /\ StandsOK' /\ LeavesOK' /\ MarksOK'
           /\ [S!Next]_<<Ledger, Paid, priorBalances, Short, late>>
<1>1. StandsOK' /\ LeavesOK' /\ UNCHANGED <<Ledger, Paid, priorBalances, late>> /\ MarksOK'
  BY SettleStays DEF Paid, MarksOK
<1> QED BY <1>1 DEF S!Next, S!Move, Ledger, Paid, Short

(* Fraud proved in block n: open blocks go, or settled ones with them.     *)
LEMMA SettleChallenge ==
    ASSUME StandsOK, LeavesOK, MarksOK, NEW n \in BlockNumbers, NEW sender, Challenge(n, sender),
           UNCHANGED <<routerVars, withdrawn>>,
           late' = IF IsConfirmed(Block(n)) THEN late + 1 ELSE late
    PROVE  /\ StandsOK' /\ LeavesOK' /\ MarksOK'
           /\ [S!Next]_<<Ledger, Paid, priorBalances, Short, late>>
<1>1. Rollback(n)
  <2>1. SlashAndRollback(Block(n), sender)
    BY DEF Challenge, ChallengeDepositWrongLeaf, ChallengeNullifier, ChallengeTxZK,
       ChallengeTreeUpdate
  <2> QED BY <2>1 DEF SlashAndRollback, StandsOK
<1>2. /\ StandsOK' /\ LeavesOK' /\ UNCHANGED now /\ BlockNumbers' = 0 .. n - 1
      /\ \A m \in BlockNumbers : m < n => m \in BlockNumbers' /\ Block(m)' = Block(m)
  BY <1>1, SettleRollback
<1>3. Settled = 0 .. Cardinality(Settled) - 1 /\ Cardinality(Settled) \in Nat
      /\ Settled \subseteq BlockNumbers /\ n \in Nat /\ (n \in Settled <=> IsConfirmed(Block(n)))
  BY SettledFirst DEF Settled, BlockNumbers
<1>4. CASE ~IsConfirmed(Block(n))
  <2>1. \A m \in Settled : m \in BlockNumbers /\ m < n
    BY <1>3, <1>4
  <2>2. \A m \in Settled : m \in Settled' /\ Block(m)' = Block(m)
    BY <1>2, <2>1, SettledByTime
  <2>3. late' = late
    BY <1>4
  <2> QED BY <1>2, <2>2, <2>3, SettleMore
<1>5. CASE IsConfirmed(Block(n))
  <2>1. \A m \in 0 .. n - 1 : m \in Settled /\ m \in BlockNumbers /\ m < n
    BY <1>3, <1>5
  <2>2. \A m \in 0 .. n - 1 : m \in Settled' /\ Block(m)' = Block(m)
    BY <1>2, <2>1, SettledByTime
  <2>3. Settled' = 0 .. n - 1
    <3>1. Settled' \subseteq BlockNumbers'
      BY DEF Settled
    <3> QED BY <1>2, <2>2, <3>1
  <2>4. S!IsStrictPrefix(Ledger', Ledger)
    BY <1>2, <1>3, <1>5, <2>2, <2>3, LedgerShrinks
  <2>5. /\ UNCHANGED <<Paid, priorBalances, Short>> /\ MarksOK'
        /\ late' = late + 1
    BY <1>5 DEF Paid, Short, HasSource, Invested, MarksOK, routerVars
  <2> QED BY <1>2, <2>4, <2>5 DEF S!Next, S!Revoke, Ledger, Paid, Short
<1> QED BY <1>4, <1>5

(* An output of a confirmed block is paid once, in full, and out of what   *)
(* is held.                                                                *)
LEMMA SettlePay ==
    ASSUME StandsOK, LeavesOK, MarksOK, RouterTypeOK, UNCHANGED late,
           NEW n \in BlockNumbers, NEW t \in TxNumbers(Block(n)), NEW which \in 0 .. 2,
           WithdrawLeaf(Block(n), t, which)
    PROVE  StandsOK' /\ LeavesOK' /\ MarksOK' /\ S!Pay
<1> DEFINE leaf == Tx(Block(n), t).leaves[which + 1]
           output == <<t, which>>
<1>1. /\ IsConfirmed(Block(n)) /\ <<n, t, which>> \notin withdrawn
      /\ leaf # ZeroLeaf /\ leaf.publicKey = 0
      /\ withdrawn' = withdrawn \cup {<<n, t, which>>}
      /\ TriggerWithdraw(leaf.asset, leaf.amount)
      /\ UNCHANGED spineVars
  BY DEF WithdrawLeaf, IsWithdrawable, StandsOK
<1>2. PICK asset \in Tokens, amount \in Nat : leaf.asset = asset /\ leaf.amount = amount
  BY <1>1 DEF LeavesOK
<1>3. /\ output \in DOMAIN Worth(Block(n))
      /\ Worth(Block(n))[output] = [asset |-> asset, amount |-> amount]
  BY <1>1, <1>2 DEF Worth, Payable
<1>4. TriggerWithdraw(asset, amount)
  BY <1>1, <1>2
<1>5. n \in Settled
  BY <1>1 DEF Settled
<1> HIDE DEF leaf
<1>6. PICK taken \in Nat :
        /\ Invested(asset)' = Invested(asset) - taken
        /\ priorBalances'[asset] = priorBalances[asset] - taken
        /\ priorBalances' = [priorBalances EXCEPT ![asset] = @ - taken]
        /\ amount <= taken /\ taken <= priorBalances[asset]
        /\ priorBalances[asset] > Invested(asset) \/ taken = amount
  BY <1>4, TriggerWithdrawFacts
<1>7. /\ HasSource(asset) /\ sources' = sources
      /\ \A x \in Tokens \ {asset} : /\ priorBalances'[x] = priorBalances[x]
                                     /\ HasSource(x) => Invested(x)' = Invested(x)
  BY <1>4, TriggerWithdrawFacts
<1>8. priorBalances[asset] \in Nat /\ Invested(asset) \in Nat
  BY <1>7, InvestedFacts DEF RouterTypeOK
<1>9. Short' = Short
  <2>1. ASSUME NEW x \in Tokens, HasSource(x)
        PROVE  priorBalances'[x] > Invested(x)' <=> priorBalances[x] > Invested(x)
    <3>1. CASE x = asset
      BY <1>6, <1>8, <3>1
    <3>2. CASE x # asset
      BY <1>7, <2>1, <3>2
    <3> QED BY <3>1, <3>2
  <2>2. \A x \in Tokens : HasSource(x)' = HasSource(x)
    BY <1>7 DEF HasSource
  <2> QED BY <2>1, <2>2 DEF Short
<1>10. taken \in amount .. priorBalances[asset] /\ (asset \notin Short => taken = amount)
  BY <1>6, <1>7, <1>8 DEF Short
<1>11. StandsOK' /\ LeavesOK' /\ Ledger' = Ledger
  BY <1>1, SettleStays DEF spineVars
<1>12. n + 1 \in DOMAIN Ledger /\ Ledger[n + 1] = Worth(Block(n)) /\ n \in Nat
  <2>1. Settled = 0 .. Cardinality(Settled) - 1 /\ Cardinality(Settled) \in Nat
    BY SettledFirst
  <2>2. n + 1 \in 1 .. Cardinality(Settled) /\ (n + 1) - 1 = n /\ n \in Nat
    BY <1>5, <2>1
  <2> QED BY <2>2 DEF Ledger
<1>13. t \in Nat
  BY DEF TxNumbers
<1>14. Paid' = Paid \cup {<<n, output>>} /\ <<n, output>> \notin Paid
  BY <1>1 DEF Paid, MarksOK
<1>15. MarksOK'
  BY <1>1, <1>12, <1>13 DEF MarksOK
<1>16. S!Pay
  <2>1. /\ n + 1 \in DOMAIN Ledger /\ output \in DOMAIN Ledger[n + 1] /\ (n + 1) - 1 = n
        /\ Ledger[n + 1][output].asset = asset
        /\ Ledger[n + 1][output].amount = amount
    BY <1>3, <1>12
  <2> HIDE DEF output
  <2>2. \E m \in DOMAIN Ledger : \E o \in DOMAIN Ledger[m] :
            /\ <<m - 1, o>> \notin Paid
            /\ Paid' = Paid \cup {<<m - 1, o>>}
            /\ \E x \in Ledger[m][o].amount .. priorBalances[Ledger[m][o].asset] :
                   /\ Ledger[m][o].asset \notin Short => x = Ledger[m][o].amount
                   /\ priorBalances' = [priorBalances EXCEPT ![Ledger[m][o].asset] = @ - x]
            /\ Ledger' = Ledger /\ Short' = Short /\ late' = late
    BY <1>6, <1>9, <1>10, <1>11, <1>14, <2>1
  <2> QED BY <2>2 DEF S!Pay, Ledger, Paid, Short
<1> QED BY <1>11, <1>15, <1>16

(* Time goes on, and more blocks are confirmed.                            *)
LEMMA SettleTick ==
    ASSUME StandsOK, LeavesOK, SpineTick
    PROVE  StandsOK' /\ LeavesOK' /\ now' \in Nat /\ now <= now' /\ UNCHANGED roots
<1>1. now' = now + 1 /\ UNCHANGED roots /\ now \in Nat
  BY DEF SpineTick, Tick, StandsOK
<1>2. BlockNumbers' = BlockNumbers /\ \A n : Block(n)' = Block(n)
  BY <1>1 DEF BlockNumbers, Height, Block
<1>3. \A n \in BlockNumbers : Block(n).timestamp <= now'
  <2>1. ASSUME NEW n \in BlockNumbers PROVE Block(n).timestamp <= now + 1
    <3>1. Block(n).timestamp \in Nat /\ Block(n).timestamp <= now
      BY DEF StandsOK
    <3> QED BY <1>1, <3>1
  <2> QED BY <1>1, <2>1
<1>4. StandsOK'
  <2>1. ASSUME NEW n \in BlockNumbers'
        PROVE  /\ Block(n)'.blockNr = n
               /\ Block(n)'.timestamp \in Nat
               /\ Block(n)'.timestamp <= now'
               /\ \A m \in 0 .. n : Block(m)'.timestamp <= Block(n)'.timestamp
    BY <1>2, <1>3 DEF StandsOK
  <2> QED BY <1>1, <2>1 DEF StandsOK
<1>5. LeavesOK'
  BY <1>2 DEF LeavesOK, TxNumbers, Tx, Memory
<1> QED BY <1>1, <1>4, <1>5

(* Every step of the bridge is one of Settlement, or none.                 *)
LEMMA SettleStep ==
    ASSUME SettleInv, [MCNext]_<<entrypointVars, historyVars>>
    PROVE  SettleInv' /\ [S!Next]_<<Ledger, Paid, priorBalances, Short, late>>
<1> DEFINE Step == /\ StandsOK' /\ LeavesOK' /\ MarksOK'
                   /\ [S!Next]_<<Ledger, Paid, priorBalances, Short, late>>
<1> SUFFICES Step
  BY AmountsStep DEF SettleInv
<1>0. StandsOK /\ LeavesOK /\ MarksOK /\ RouterTypeOK
  BY DEF SettleInv, AmountsOK
<1>1. ASSUME NEW sender, PostStep(sender, Proposals(Named) \cup Submissions), UNCHANGED late
      PROVE  Step
  <2>1. PICK d \in Proposals(Named) \cup Submissions :
            AddBlock(d) /\ UNCHANGED <<routerVars, withdrawn>>
    BY <1>1 DEF PostStep, Post, AddBlockWithDeposits, withdrawVars
  <2>2. /\ StandsOK' /\ LeavesOK' /\ UNCHANGED now
        /\ \A n \in BlockNumbers : n \in BlockNumbers' /\ Block(n)' = Block(n)
    BY <1>0, <2>1, SettlePost
  <2>3. \A n \in Settled : n \in Settled' /\ Block(n)' = Block(n)
    BY <1>0, <2>2, SettledByTime DEF Settled
  <2> QED BY <1>0, <1>1, <2>1, <2>2, <2>3, SettleMore
<1>2. ASSUME NEW n \in BlockNumbers, ChallengeStep({n}, Challengers),
             late' = IF IsConfirmed(Block(n)) THEN late + 1 ELSE late
      PROVE  Step
  <2>1. PICK sender \in Challengers : Challenge(n, sender) /\ UNCHANGED <<routerVars, withdrawn>>
    BY <1>2 DEF ChallengeStep, withdrawVars
  <2> QED BY <1>0, <1>2, <2>1, SettleChallenge
<1>3. ASSUME TimeStep, UNCHANGED late PROVE Step
  <2>1. /\ StandsOK' /\ LeavesOK' /\ now' \in Nat /\ now <= now'
        /\ UNCHANGED <<roots, routerVars, withdrawn>>
    BY <1>0, <1>3, SettleTick DEF TimeStep, withdrawVars
  <2>2. BlockNumbers' = BlockNumbers /\ \A n : Block(n)' = Block(n)
    BY <2>1 DEF BlockNumbers, Height, Block
  <2>3. \A n \in Settled : n \in Settled' /\ Block(n)' = Block(n)
    <3>1. ASSUME NEW n \in BlockNumbers, Block(n).timestamp + CHALLENGE_PERIOD < now
          PROVE  Block(n).timestamp + CHALLENGE_PERIOD < now'
      <4>1. Block(n).timestamp + CHALLENGE_PERIOD \in Nat /\ now \in Nat
        BY <1>0, SpineAssumption DEF StandsOK
      <4> QED BY <2>1, <3>1, <4>1
    <3> QED BY <1>0, <2>1, <2>2, <3>1, SettledByTime DEF Settled
  <2> QED BY <1>0, <1>3, <2>1, <2>3, SettleMore
<1>4. ASSUME DepositStep, UNCHANGED late PROVE Step
  <2>1. PICK leaf \in Leaves : /\ TriggerDeposit(leaf.asset, leaf.amount)
                               /\ UNCHANGED <<spineVars, withdrawVars>>
    BY <1>4 DEF DepositStep, Deposit
  <2>2. leaf.asset \in Tokens /\ leaf.amount \in Nat
    BY DepositsAssumption
  <2>3. priorBalances' = [priorBalances EXCEPT ![leaf.asset] = @ + leaf.amount]
    BY <2>1 DEF TriggerDeposit
  <2>4. Short' = Short
    <3> DEFINE a == leaf.asset
    <3>1. /\ HasSource(a) /\ Invested(a)' = Invested(a) + leaf.amount
          /\ priorBalances'[a] = priorBalances[a] + leaf.amount
          /\ \A x \in Tokens \ {a} : /\ priorBalances'[x] = priorBalances[x]
                                     /\ HasSource(x) => Invested(x)' = Invested(x)
          /\ sources' = sources
      BY <1>0, <2>1, <2>2, TriggerDepositFacts
    <3>2. priorBalances[a] \in Nat /\ Invested(a) \in Nat
      BY <1>0, <2>2, <3>1, InvestedFacts DEF RouterTypeOK
    <3>3. \A x \in Tokens : HasSource(x)' = HasSource(x)
      BY <3>1 DEF HasSource
    <3>4. ASSUME NEW x \in Tokens, HasSource(x)
          PROVE  priorBalances'[x] > Invested(x)' <=> priorBalances[x] > Invested(x)
      <4>1. CASE x = a
        BY <2>2, <3>1, <3>2, <4>1
      <4>2. CASE x # a
        BY <3>1, <3>4, <4>2
      <4> QED BY <4>1, <4>2
    <3> QED BY <3>3, <3>4 DEF Short
  <2>5. /\ StandsOK' /\ LeavesOK' /\ Ledger' = Ledger /\ Paid' = Paid /\ MarksOK'
    BY <1>0, <2>1, SettleStays DEF spineVars, withdrawVars, MarksOK, Paid
  <2>6. S!Deposit
    BY <1>4, <2>2, <2>3, <2>4, <2>5 DEF S!Deposit, Ledger, Paid, Short
  <2> QED BY <2>5, <2>6 DEF S!Next
<1>5. ASSUME WithdrawStep, UNCHANGED late PROVE Step
  BY <1>0, <1>5, SettlePay DEF WithdrawStep, S!Next
<1>6. ASSUME YieldStep, UNCHANGED late PROVE Step
  <2>1. PICK ts \in SUBSET Tokens :
            /\ CurrentPeriod \in Periods /\ Record(ts)
            /\ UNCHANGED <<sources, value, spineVars, withdrawVars>>
    <3>1. /\ tracked \in SUBSET Tokens
          /\ \A t \in Tokens : {t} \in SUBSET Tokens
      BY <1>0 DEF RouterTypeOK
    <3> QED BY <1>6, <3>1 DEF YieldStep, Poke, RecognizeYield
  <2>2. /\ DOMAIN priorBalances' = Tokens
        /\ \A t \in Tokens : IF t \in Short THEN priorBalances'[t] = priorBalances[t]
                             ELSE priorBalances'[t] >= priorBalances[t]
        /\ Short' = Short
    BY <1>0, <2>1, EarnFacts
  <2>3. /\ StandsOK' /\ LeavesOK' /\ Ledger' = Ledger /\ Paid' = Paid /\ MarksOK'
    BY <1>0, <2>1, SettleStays DEF spineVars, withdrawVars, MarksOK, Paid
  <2>4. S!Earn
    BY <1>6, <2>2, <2>3 DEF S!Earn, Ledger, Paid, Short
  <2> QED BY <2>3, <2>4 DEF S!Next
<1>7. ASSUME PayoutStep \/ MigrateStep \/ OwnerStep \/ MarketStep, UNCHANGED late
      PROVE  Step
  <2>1. UNCHANGED <<now, roots, withdrawn, priorBalances>>
    BY <1>7 DEF PayoutStep, SequencerWithdrawAsset, MigrateStep, ChangeYieldSource, OwnerStep,
       ChangeTrackedYieldSources, SetMaxInterest, MarketStep, VaultReturn, Donate,
       spineVars, withdrawVars
  <2> QED BY <1>0, <1>7, <2>1, SettleMove
<1>8. ASSUME UNCHANGED <<spineVars, depositVars, routerVars, withdrawVars, useVars, late>>
      PROVE  Step
  <2>1. UNCHANGED <<now, roots, withdrawn, priorBalances, late>>
    BY <1>8 DEF spineVars, withdrawVars, routerVars
  <2> QED BY <1>0, <2>1, SettleMove
<1> HIDE DEF Step
<1> QED BY <1>1, <1>2, <1>3, <1>4, <1>5, <1>6, <1>7, <1>8, MCNextCases

(* The bridge implements Settlement, for any number of posters, blocks,    *)
(* tokens and vaults, for every kind of block, however late it is          *)
(* challenged, and whatever the vaults, the owner of the router and those  *)
(* who recognise yield and claim it do: a confirmed block goes only with   *)
(* fraud in it or before it, and every output is paid once, while its      *)
(* block is confirmed, out of the principal, and exactly what it is worth  *)
(* unless its asset has lost value, and then no less.                      *)
THEOREM BridgeSettles == MCSpec => SettlementHolds
<1>1. MCInit => SettleInv /\ S!Init
  <2> SUFFICES ASSUME MCInit PROVE SettleInv /\ S!Init
    OBVIOUS
  <2>1. /\ now = START /\ roots = <<>> /\ RouterInit /\ withdrawn = {} /\ late = 0
        /\ EntrypointInit /\ DepositsInit
    BY DEF MCInit, EntrypointInit, SpineInit
  <2>2. BlockNumbers = {} /\ roots \in Seq({})
    BY <2>1 DEF BlockNumbers, Height
  <2>3. StandsOK /\ LeavesOK /\ MarksOK
    BY <2>1, <2>2, L1Assumption DEF StandsOK, LeavesOK, MarksOK
  <2>4. RouterTypeOK
    BY <2>1 DEF RouterTypeOK, RouterInit
  <2>5. AmountsOK
    BY <2>1, <2>4, UseInitial DEF AmountsOK, DepositsInit
  <2>6. Settled = {} /\ Cardinality({}) = 0
    BY <2>2, FS_EmptySet DEF Settled
  <2>7. Ledger = <<>>
    <3>1. 1 .. Cardinality(Settled) = {}
      BY <2>6
    <3> QED BY <3>1 DEF Ledger
  <2>8. Paid = {} /\ priorBalances = [t \in Tokens |-> 0] /\ Short = {}
    BY <2>1 DEF Paid, RouterInit, Short, HasSource
  <2> QED BY <2>1, <2>3, <2>5, <2>7, <2>8 DEF SettleInv, S!Init, Ledger, Paid, Short
<1>2. SettleInv /\ [MCNext]_<<entrypointVars, historyVars>> => SettleInv' /\ [S!Next]_S!vars
  BY SettleStep DEF S!vars, Ledger, Paid, Short
<1> QED BY <1>1, <1>2, PTL DEF MCSpec, SettlementHolds, S!Spec
=============================================================================
