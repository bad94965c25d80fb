-------------------------------- MODULE Spine --------------------------------
(***************************************************************************)
(* The chain of L2 blocks that the L1 contract Spine.sol keeps.            *)
(*                                                                         *)
(* The contract stores one keccak256 hash per block and is handed the      *)
(* block again whenever it needs a field of it.  A hash stands for the     *)
(* record it commits to, so roots holds the records themselves; the        *)
(* 24-byte partial hash of anchorToIndex is the record too.                *)
(***************************************************************************)
EXTENDS L1, BlobLayout, Sequences

CONSTANTS
    DAY,               \* seconds of a day of the tree
    CHALLENGE_PERIOD,  \* seconds before a block is confirmed
    MAX_DEPOSITS,      \* deposits a block may carry
    MAX_LEAVES,        \* leaves a block may add to the tree
    BLOCKS_PER_DAY,    \* tree slots reserved for one day
    Anchors,           \* tree roots
    GENESIS_ANCHOR,    \* root of the empty tree
    Sequencers,        \* addresses of sequencers
    Blobs,             \* contents a blob can have
    NoHash,            \* the zero hash of an empty storage slot
    Submissions        \* the blocks that callers of post may submit

ASSUME SpineAssumption ==
    /\ DAY \in Nat \ {0}
    /\ CHALLENGE_PERIOD \in Nat
    /\ MAX_DEPOSITS \in Nat
    /\ MAX_LEAVES \in Nat
    /\ BLOCKS_PER_DAY \in Nat \ {0}
    /\ GENESIS_ANCHOR \in Anchors

VARIABLES
    roots,          \* the included blocks; block number n is roots[n + 1]
    lastTimestamp,  \* tree slot of the last block added
    anchorToIndex   \* for each anchor claimed so far, the block that last claimed it

spineVars == <<now, roots, lastTimestamp, anchorToIndex>>

TimestampAndIndex == [day : Nat, index : Nat]

(* What the caller of post supplies: timestamp and blockIndex are          *)
(* overwritten, so they are not part of it.  Only the first numBlobs       *)
(* blobhashes are read from the L1 transaction, and only those count as    *)
(* capacity; the caller may pass a longer array and fill in the rest.      *)
Submission ==
    [anchor : Anchors, numTransactions : Nat, numDeposits : Nat, blockNr : Nat,
     sequencer : Sequencers, blobhashes : Seq(Blobs), numBlobs : Nat]

BlockData ==
    [anchor : Anchors, timestamp : Nat, numTransactions : Nat, numDeposits : Nat,
     blockNr : Nat, blockIndex : TimestampAndIndex, sequencer : Sequencers,
     blobhashes : Seq(Blobs)]

ASSUME SubmissionsAssumption == Submissions \subseteq Submission

ASSUME NoHashAssumption == NoHash \notin BlockData

IndexAndPartialHash == [index : Nat, partialHash : BlockData]

-----------------------------------------------------------------------------
(* Reading the chain.                                                      *)

Height == Len(roots)

BlockNumbers == 0 .. Height - 1

Block(n) == roots[n + 1]

IsBlockIncluded(b) == b.blockNr < Height /\ Block(b.blockNr) = b

IsConfirmed(b) == IsBlockIncluded(b) /\ b.timestamp + CHALLENGE_PERIOD < now

(* An anchor nobody claimed has the zero entry, index 0 included.          *)
Entry(a) ==
    IF a \in DOMAIN anchorToIndex THEN anchorToIndex[a]
    ELSE [index |-> 0, partialHash |-> NoHash]

(* Mutant: the stored partial hash is not compared.                        *)
IsAnchorIncludedByIndex(a) == a = GENESIS_ANCHOR \/ Entry(a).index < Height

IsAnchorIncluded(a) ==
    \/ a = GENESIS_ANCHOR
    \/ /\ Entry(a).index < Height
       /\ Entry(a).partialHash = Block(Entry(a).index)

(* Mutant: the anchor is looked for one block too late.                    *)
IsPriorBlockAnchorLate(a, n) ==
    IsAnchorIncluded(a) /\ IF n = 0 THEN a = GENESIS_ANCHOR ELSE Entry(a).index = n

(* The first update of block number n builds on the anchor of the block    *)
(* before it; this is the test that anchor a is that one.                  *)
IsPriorBlockAnchor(a, n) ==
    /\ IsAnchorIncluded(a)
    /\ IF n = 0 THEN a = GENESIS_ANCHOR ELSE Entry(a).index = n - 1

TreeIndex(b) == b.blockIndex.day * BLOCKS_PER_DAY + b.blockIndex.index

-----------------------------------------------------------------------------
(* Changing the chain.                                                     *)

DepositBlobUse(n) == IF n % 3 = 0 THEN (n \div 3) * 4 ELSE (n \div 3 + 1) * 4

BlobUse(d) == DepositBlobUse(d.numDeposits) + d.numTransactions * 15

(* Mutant: the block number is not checked.                                *)
IsAcceptableAnywhere(d) == BlobUse(d) < BLOB_SIZE * d.numBlobs

IsAcceptable(d) ==
    /\ d.blockNr = Height
    /\ d.numBlobs <= Len(d.blobhashes)
    /\ d.numDeposits <= MAX_DEPOSITS
    /\ d.numDeposits + d.numTransactions * 3 <= MAX_LEAVES
    /\ BlobUse(d) < BLOB_SIZE * d.numBlobs
    /\ ~(d.numTransactions = 0 /\ d.numDeposits = 0)

CurrentDay == (now - START) \div DAY

(* Mutant: no special case for the very first block.                       *)
NextBlockIndexPlain ==
    [day |-> CurrentDay,
     index |-> IF lastTimestamp.day = CurrentDay THEN lastTimestamp.index + 1 ELSE 0]

NextBlockIndex ==
    [day   |-> CurrentDay,
     index |-> IF Height # 0 /\ lastTimestamp.day = CurrentDay
               THEN lastTimestamp.index + 1
               ELSE 0]

Stamped(d) ==
    [anchor |-> d.anchor, timestamp |-> now, numTransactions |-> d.numTransactions,
     numDeposits |-> d.numDeposits, blockNr |-> d.blockNr, blockIndex |-> NextBlockIndex,
     sequencer |-> d.sequencer, blobhashes |-> d.blobhashes]

AddBlock(d) ==
    /\ IsAcceptable(d)
    /\ lastTimestamp' = NextBlockIndex
    /\ anchorToIndex' =
           [a \in DOMAIN anchorToIndex \cup {d.anchor} |->
               IF a = d.anchor THEN [index |-> d.blockNr, partialHash |-> Stamped(d)]
               ELSE anchorToIndex[a]]
    /\ roots' = Append(roots, Stamped(d))
    /\ UNCHANGED now

(* The caller proves knowledge of the block before n, which the stored     *)
(* hash determines, so it is not a parameter.  anchorToIndex keeps the     *)
(* entries of the removed blocks.                                          *)
Rollback(n) ==
    /\ n < Height
    /\ lastTimestamp' = IF n # 0 THEN Block(n - 1).blockIndex ELSE [day |-> 0, index |-> 0]
    /\ roots' = SubSeq(roots, 1, n)
    /\ UNCHANGED <<now, anchorToIndex>>

SpineTick == Tick /\ UNCHANGED <<roots, lastTimestamp, anchorToIndex>>

SpineInit ==
    /\ now = START
    /\ roots = <<>>
    /\ lastTimestamp = [day |-> 0, index |-> 0]
    /\ anchorToIndex = [a \in {} |-> [index |-> 0, partialHash |-> NoHash]]

SpineNext ==
    \/ \E d \in Submissions : AddBlock(d)
    \/ \E n \in BlockNumbers : Rollback(n)
    \/ SpineTick

SpineSpec == SpineInit /\ [][SpineNext]_spineVars

-----------------------------------------------------------------------------
(* What the chain guarantees.                                              *)

SpineTypeOK ==
    /\ now \in Nat
    /\ roots \in Seq(BlockData)
    /\ lastTimestamp \in TimestampAndIndex
    /\ DOMAIN anchorToIndex \subseteq Anchors
    /\ anchorToIndex \in [DOMAIN anchorToIndex -> IndexAndPartialHash]

(* Blocks sit at their own number with timestamps that never decrease, so  *)
(* the confirmed blocks are a prefix of the chain: a withdrawal never      *)
(* comes from a block that builds on a challengeable one                   *)
(* (isConfirmed, Spine.sol).                                               *)
ConfirmedPrefix ==
    \A n \in BlockNumbers :
        IsConfirmed(Block(n)) => \A m \in 0 .. n : IsConfirmed(Block(m))

(* The slot of a block is the one after its predecessor's when both were   *)
(* posted on one day and the first slot of its day otherwise, whatever     *)
(* posts and rollbacks came before.  Challengers and sequencers recompute  *)
(* the tree from exactly this rule.                                        *)
SlotAfterPredecessor ==
    \A n \in BlockNumbers :
        /\ Block(n).blockIndex.day = (Block(n).timestamp - START) \div DAY
        /\ Block(n).blockIndex.index =
               IF n # 0 /\ Block(n - 1).blockIndex.day = Block(n).blockIndex.day
               THEN Block(n - 1).blockIndex.index + 1
               ELSE 0

(* isAnchorIncluded never vouches for an anchor of a rolled-back block,    *)
(* although rollback leaves its entry behind: the block it points at is    *)
(* included and has that anchor.                                           *)
AnchorLookupSound ==
    \A a \in DOMAIN anchorToIndex \ {GENESIS_ANCHOR} :
        IsAnchorIncluded(a) => Block(Entry(a).index).anchor = a

(* As long as no later post claimed the anchor of an included block, that  *)
(* block is accepted as the prior anchor of the block after it, so that    *)
(* the first update of the next block can be challenged.                   *)
PriorAnchorResolves ==
    \A n \in BlockNumbers :
        \/ IsPriorBlockAnchor(Block(n).anchor, n + 1)
        \/ Entry(Block(n).anchor).index > n

-----------------------------------------------------------------------------
(* The inductive invariant behind these properties.                        *)

(* The next block goes right behind the head: lastTimestamp is the slot of *)
(* the last included block, also after any rollback.                       *)
LastTimestampIsHead == Height # 0 => lastTimestamp = Block(Height - 1).blockIndex

ChainOrdered ==
    /\ START <= now
    /\ \A n \in BlockNumbers :
           /\ Block(n).blockNr = n
           /\ START <= Block(n).timestamp
           /\ Block(n).timestamp <= now
           /\ \A m \in 0 .. n : Block(m).timestamp <= Block(n).timestamp

(* The entry of an included block's anchor is that block or a block that   *)
(* came after it with the same anchor, never an older one.                 *)
AnchorLookupNewest ==
    \A n \in BlockNumbers :
        LET a == Block(n).anchor
        IN  /\ a \in DOMAIN anchorToIndex
            /\ anchorToIndex[a].index >= n
            /\ anchorToIndex[a].index = n => anchorToIndex[a].partialHash = Block(n)

EntriesHaveTheirAnchor ==
    \A a \in DOMAIN anchorToIndex : anchorToIndex[a].partialHash.anchor = a

(* Holds in every reachable state and is preserved by every step: the head *)
(* is where lastTimestamp says, blocks are ordered and stamped by rule,    *)
(* and the anchor table never points below an included block's claim.      *)
SpineInv ==
    /\ SpineTypeOK
    /\ LastTimestampIsHead
    /\ ChainOrdered
    /\ SlotAfterPredecessor
    /\ AnchorLookupNewest
    /\ EntriesHaveTheirAnchor
=============================================================================
