----------------------------- MODULE MCEventLoop -----------------------------
(* Instances of EventLoop for TLC: blocks with one deposit, correct or     *)
(* not, and blocks with a transaction.                                     *)
EXTENDS EventLoop

CONSTANTS
    MaxBlocks,     \* bound: greatest height
    TxBlocks,      \* bound: numbers of the blocks that may have a transaction
    Good, Bad      \* blobs with correct leaves and with a wrong one

MCHasWrongLeaf(blob) == blob = Bad

MCSubmissions ==
    {[anchor |-> GENESIS_ANCHOR, numTransactions |-> 0, numDeposits |-> 1, blockNr |-> n,
      sequencer |-> s, blobhashes |-> <<b>>, numBlobs |-> 1] :
         b \in {Good, Bad}, n \in 0 .. MaxBlocks - 1, s \in Sequencers}
    \cup
    {[anchor |-> GENESIS_ANCHOR, numTransactions |-> 1, numDeposits |-> 1, blockNr |-> n,
      sequencer |-> s, blobhashes |-> <<Good>>, numBlobs |-> 1] :
         n \in TxBlocks, s \in Sequencers}
=============================================================================
