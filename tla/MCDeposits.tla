----------------------------- MODULE MCDeposits ------------------------------
(* Instances of Deposits for TLC: one kind of leaf and one kind of block,  *)
(* which carries any number of deposits up to MAX_DEPOSITS.                *)
EXTENDS Deposits

CONSTANTS
    MaxBlocks,     \* bound: greatest height reached
    Token          \* the asset deposited

MCLeaves == {[asset |-> Token, amount |-> 1, publicKey |-> 1]}

MCTokens == {Token}

MCSubmissions ==
    [anchor : Anchors, numTransactions : {1}, numDeposits : 0 .. MAX_DEPOSITS,
     blockNr : 0 .. MaxBlocks - 1, sequencer : Sequencers,
     blobhashes : {<<b>> : b \in Blobs}, numBlobs : {1}]
=============================================================================
