----------------------------- MODULE BlobProvider -----------------------------
(***************************************************************************)
(* How the challenger and the sequencer come by the blobs of blocks         *)
(* (beacon.rs): a cache over the database over the beacon chain, which     *)
(* keeps blobs for a while only.  What comes from the beacon chain is put  *)
(* into the database by a thread with a connection of its own, which is    *)
(* refused while the transaction of the event loop holds the database.     *)
(* Of the event loop there is only when it fetches and what it holds.      *)
(***************************************************************************)
EXTENDS Naturals, Sequences, SequencesExt

CONSTANTS
    CACHE_SIZE,       \* blobs in the cache, create_production_blob_provider
    BLOBS_PER_BLOCK,
    MaxPosted         \* bound: blocks posted

ASSUME BlobProviderAssumption ==
    /\ CACHE_SIZE \in Nat \ {0}
    /\ BLOBS_PER_BLOCK \in Nat \ {0}
    /\ MaxPosted \in Nat

VARIABLES
    posted,     \* blocks posted
    pruned,     \* blocks whose blobs the beacon chain has no more
    blobTable,  \* the rows of table blobs
    blobCache,  \* the blobs in the cache, the first to go first
    saving,     \* blobs whose saving thread has not ended
    listener,   \* the last block polled by the loop
    progress,   \* the last block polled, as in the database
    toProcess,  \* blocks polled and not processed, in order
    opened,     \* blocks written in the open transaction
    recorded,   \* blocks in the database
    refused     \* history: blobs whose last saving came to nothing

providerVars ==
    <<posted, pruned, blobTable, blobCache, saving, listener, progress, toProcess, opened,
      recorded, refused>>

loopVars == <<listener, progress, toProcess, opened, recorded>>

BlobsOf(k) == [i \in 1 .. BLOBS_PER_BLOCK |-> <<k, i>>]

OnBeacon(k) == IF k > pruned THEN ToSet(BlobsOf(k)) ELSE {}

-----------------------------------------------------------------------------
(* The providers, one around the other.  A fetch is [ok, cache, saving];    *)
(* answered are the blobs that the beacon chain answers with.               *)

InDatabase(b) == b \in blobTable

BeaconAnswers(b, answered) == b \in answered

(* Mutant: nothing is handed to the thread.                                *)
FallbackUnsaved(f, b, answered) ==
    IF InDatabase(b) \/ BeaconAnswers(b, answered) THEN f ELSE [f EXCEPT !.ok = FALSE]

(* What the fallback provides is handed to the thread that saves it.       *)
Fallback(f, b, answered) ==
    IF InDatabase(b) THEN f
    ELSE IF BeaconAnswers(b, answered) THEN [f EXCEPT !.saving = @ \cup {b}]
    ELSE [f EXCEPT !.ok = FALSE]

(* A hit does not move a blob up: the cache forgets them in the order in   *)
(* which they came.                                                        *)
Put(cached, b) ==
    IF Len(cached) < CACHE_SIZE THEN Append(cached, b) ELSE Append(Tail(cached), b)

Caching(f, b, answered) ==
    LET inner == Fallback(f, b, answered)
    IN  IF b \in ToSet(f.cache) THEN f
        ELSE IF inner.ok THEN [inner EXCEPT !.cache = Put(@, b)] ELSE inner

(* get_blobs: one after the other, until one fails.                        *)
GetBlobs(bs, answered) ==
    FoldLeft(LAMBDA f, b : IF f.ok THEN Caching(f, b, answered) ELSE f,
             [ok |-> TRUE, cache |-> blobCache, saving |-> saving], bs)

-----------------------------------------------------------------------------
Post ==
    /\ posted < MaxPosted
    /\ posted' = posted + 1
    /\ UNCHANGED <<pruned, blobTable, blobCache, saving, loopVars, refused>>

(* The beacon chain forgets the oldest first.                              *)
Prune ==
    /\ pruned < posted
    /\ pruned' = pruned + 1
    /\ UNCHANGED <<posted, blobTable, blobCache, saving, loopVars, refused>>

PollBlocks ==
    /\ toProcess = <<>> /\ opened = {} /\ listener < posted
    /\ toProcess' = [i \in 1 .. posted - listener |-> listener + i]
    /\ listener' = posted
    /\ UNCHANGED <<posted, pruned, blobTable, blobCache, saving, progress, opened, recorded,
                   refused>>

(* The loop fetches the blobs of a block and writes the block; without     *)
(* them it drops the block and goes on.  From the first block it writes    *)
(* until the end of the transaction it holds the database.                 *)
ProcessBlock ==
    /\ toProcess # <<>>
    /\ \E answered \in SUBSET OnBeacon(Head(toProcess)) :
           LET f == GetBlobs(BlobsOf(Head(toProcess)), answered)
           IN  /\ blobCache' = f.cache
               /\ saving' = f.saving
               /\ opened' = IF f.ok THEN opened \cup {Head(toProcess)} ELSE opened
    /\ toProcess' = Tail(toProcess)
    /\ UNCHANGED <<posted, pruned, blobTable, listener, progress, recorded, refused>>

CommitBlocks ==
    /\ toProcess = <<>> /\ progress < listener
    /\ recorded' = recorded \cup opened
    /\ opened' = {}
    /\ progress' = listener
    /\ UNCHANGED <<posted, pruned, blobTable, blobCache, saving, listener, toProcess, refused>>

(* The loop is told to shut down, or cannot commit.                        *)
AbandonBlocks ==
    /\ toProcess # <<>> \/ opened # {}
    /\ toProcess' = <<>>
    /\ opened' = {}
    /\ UNCHANGED <<posted, pruned, blobTable, blobCache, saving, listener, progress, recorded,
                   refused>>

(* A challenge is submitted in the transaction, or retried outside of it:  *)
(* the blobs of its block, or of the one before, are fetched again.        *)
FetchAgain(k) ==
    /\ toProcess # <<>> => opened # {}
    /\ k \in recorded \cup opened
    /\ \E answered \in SUBSET OnBeacon(k) :
           LET f == GetBlobs(BlobsOf(k), answered)
           IN  blobCache' = f.cache /\ saving' = f.saving
    /\ UNCHANGED <<posted, pruned, blobTable, loopVars, refused>>

-----------------------------------------------------------------------------
(* The saving thread of a blob, which waits for the database and gives up. *)
SaveBlob(b) ==
    /\ saving' = saving \ {b}
    /\ IF opened = {}
       THEN blobTable' = blobTable \cup {b} /\ refused' = refused \ {b}
       ELSE refused' = refused \cup {b} /\ UNCHANGED blobTable
    /\ UNCHANGED <<posted, pruned, blobCache, loopVars>>

(* The process ends, and the threads with it, and is started again.        *)
RestartProvider ==
    /\ blobCache' = <<>>
    /\ saving' = {}
    /\ refused' = refused \cup saving
    /\ listener' = progress
    /\ toProcess' = <<>>
    /\ opened' = {}
    /\ UNCHANGED <<posted, pruned, blobTable, progress, recorded>>

ProviderInit ==
    /\ posted = 0 /\ pruned = 0 /\ blobTable = {} /\ blobCache = <<>> /\ saving = {}
    /\ listener = 0 /\ progress = 0 /\ toProcess = <<>> /\ opened = {} /\ recorded = {}
    /\ refused = {}

ProviderNext ==
    \/ Post
    \/ Prune
    \/ PollBlocks
    \/ ProcessBlock
    \/ CommitBlocks
    \/ AbandonBlocks
    \/ \E k \in 1 .. posted : FetchAgain(k)
    \/ \E b \in saving : SaveBlob(b)
    \/ RestartProvider

-----------------------------------------------------------------------------
(* The wallet's proofs are made from table blobs alone (load_blobs_for_    *)
(* block, withdrawal_proof).  A recorded block is served, or will be when  *)
(* its threads end, whatever the beacon chain has forgotten since and the  *)
(* cache has thrown out, unless a save was refused or cut off.  A refused  *)
(* blob is not saved again while it is in the cache.                       *)
RecordedIsServed ==
    \A k \in recorded : ToSet(BlobsOf(k)) \subseteq blobTable \cup saving \cup refused
=============================================================================
