------------------------------ MODULE EventLoop ------------------------------
(***************************************************************************)
(* The event loop of the challenger, which the sequencer runs too          *)
(* (event_loop.rs): retry the pending challenges, poll the L1 for events   *)
(* (events.rs), process them in one database transaction (runner.rs,       *)
(* state.rs), challenge the frauds found, sleep.  The loop is one task; the *)
(* L1 and the signal to shut down interleave with its steps.               *)
(*                                                                         *)
(* A deposit leaf that is not the one the contract expects stands for the  *)
(* frauds of a block's content.  A root of the tree is what it commits to, *)
(* the blobs of a block, so two trees are equal exactly when their roots   *)
(* are.  Left out: the beacon chain and the blob cache, dry_run, and the   *)
(* in-memory anchors, which only blocks with transactions read.            *)
(***************************************************************************)
EXTENDS Spine

CONSTANTS
    CONFIRMATIONS,      \* L1 blocks behind the newest that are not looked at
    LOOKBACK,           \* L1 blocks looked back when nothing is recorded
    MAX_RETRIES,        \* retries of a challenge
    HasWrongLeaf(_),    \* whether a blob has a deposit leaf nobody deposited
    None,               \* no progress recorded
    MaxEvents,          \* bound: events when others still post and challenge
    MaxFaults           \* bound: failing calls, crashes and shutdowns together

ASSUME EventLoopAssumption ==
    /\ CONFIRMATIONS \in Nat
    /\ LOOKBACK \in Nat
    /\ MAX_RETRIES \in Nat
    /\ None \notin Nat
    /\ MaxEvents \in Nat
    /\ MaxFaults \in Nat

VARIABLES
    log,        \* events of the L1: kind, chain after it, timestamp of its L1 block
    db,         \* the database, as committed
    work,       \* the database as the loop sees it; db unless a transaction is open
    pc,         \* what the loop does next
    shutdown,   \* the flag the signal handler sets
    listener,   \* last_processed_block of the event listener
    batch,      \* events polled and not processed, as places in log
    tracker,    \* the tree in memory: tree slot to root
    frauds,     \* frauds found in the last event and not yet submitted
    retries,    \* pending challenges to retry in this iteration
    faults,     \* failing calls, crashes and shutdowns so far
    missed      \* history: an event was passed over without being recorded

loopVars == <<db, work, pc, listener, batch, tracker, frauds, retries, missed>>

eventVars == <<spineVars, log, loopVars, shutdown, faults>>

-----------------------------------------------------------------------------
(* The L1.                                                                 *)

Emit(kind) == log' = Append(log, [kind |-> kind, chain |-> roots', at |-> now])

(* Posts and challenges of others.                                         *)
L1Post ==
    /\ Len(log) < MaxEvents
    /\ \E d \in Submissions : AddBlock(d)
    /\ Emit("NewRoot")
    /\ UNCHANGED <<loopVars, shutdown, faults>>

L1Rollback ==
    /\ Len(log) < MaxEvents
    /\ \E n \in BlockNumbers : Rollback(n)
    /\ Emit("Rollback")
    /\ UNCHANGED <<loopVars, shutdown, faults>>

L1Tick == SpineTick /\ UNCHANGED <<log, loopVars, shutdown, faults>>

WrongLeaf(b) == \E i \in DOMAIN b.blobhashes : HasWrongLeaf(b.blobhashes[i])

(* The tree that the blocks of a chain make.                               *)
Tree(chain) ==
    [s \in {chain[i].blockIndex : i \in DOMAIN chain} |->
        (CHOOSE b \in {chain[i] : i \in DOMAIN chain} : b.blockIndex = s).blobhashes]

-----------------------------------------------------------------------------
(* The tables.                                                             *)

EmptyDatabase ==
    [blocks  |-> [n \in {} |-> None],      \* blocks: number to block
     roots   |-> [s \in {} |-> None],      \* block_roots: tree slot to number and root
     pending |-> {},                       \* pending_challenges
     progress |-> None]                    \* last_processed_block

Recorded(w) == IF w.progress = None THEN 0 ELSE w.progress

SaveBlock(w, b) ==
    [w EXCEPT !.blocks = [n \in DOMAIN @ \cup {b.blockNr} |->
                             IF n = b.blockNr THEN b ELSE @[n]]]

SaveRoot(w, b) ==
    [w EXCEPT !.roots = [s \in DOMAIN @ \cup {b.blockIndex} |->
                            IF s = b.blockIndex THEN [nr |-> b.blockNr, root |-> b.blobhashes]
                            ELSE @[s]]]

(* Mutant: pending challenges of removed blocks are kept.                  *)
DeleteFromKeepingPending(w, to) ==
    [w EXCEPT !.blocks = [n \in {n \in DOMAIN @ : n < to} |-> @[n]],
              !.roots  = [s \in {s \in DOMAIN @ : @[s].nr < to} |-> @[s]]]

(* Rows of block number to and later go.                                   *)
DeleteFrom(w, to) ==
    [w EXCEPT !.blocks  = [n \in {n \in DOMAIN @ : n < to} |-> @[n]],
              !.roots   = [s \in {s \in DOMAIN @ : @[s].nr < to} |-> @[s]],
              !.pending = {p \in @ : p.nr < to}]

(* from_database.  No day root is ever saved: insert_block_root hands out  *)
(* the former root of the day it moves to, which has none.                 *)
TrackerOf(w) == [s \in DOMAIN w.roots |-> w.roots[s].root]

(* load_block_data: the tree slot comes from the other table and is the    *)
(* first one when it is not there.                                         *)
LoadBlock(w, n) ==
    [w.blocks[n] EXCEPT !.blockIndex =
        IF \E s \in DOMAIN w.roots : w.roots[s].nr = n
        THEN CHOOSE s \in DOMAIN w.roots : w.roots[s].nr = n
        ELSE [day |-> 0, index |-> 0]]

-----------------------------------------------------------------------------
(* Challenges.                                                             *)

(* The contract takes the challenge of block n built from the tables: the  *)
(* block and the one before it are what was posted.  submit_challenge      *)
(* passes an empty block before for block 1 as for block 0.                *)
Accepted(w, n, type) ==
    /\ type = "deposit"
    /\ n \in DOMAIN w.blocks
    /\ n < Height
    /\ LoadBlock(w, n) = Block(n)
    /\ WrongLeaf(Block(n))
    /\ n > 0 => n > 1 /\ n - 1 \in DOMAIN w.blocks /\ LoadBlock(w, n - 1) = Block(n - 1)

(* The transaction is mined; the contract rolls the chain back.            *)
Challenge(n) == Rollback(n) /\ Emit("Rollback")

(* Someone else's challenge of this block was mined first.  The receipt's  *)
(* status is not looked at, so this counts as success.                     *)
Overtaken(w, n) == n \in DOMAIN w.blocks /\ ~(n < Height /\ Block(n) = w.blocks[n])

Fault == faults < MaxFaults /\ faults' = faults + 1

(* submit_challenge returns Ok, or an error.                               *)
SubmitOk(n, type) ==
    \/ Accepted(work, n, type) /\ Challenge(n)
    \/ type = "deposit" /\ Overtaken(work, n) /\ UNCHANGED <<spineVars, log>>

SubmitErr(n, type) ==
    /\ \/ ~Accepted(work, n, type) /\ UNCHANGED faults
       \/ Accepted(work, n, type) /\ Fault
    /\ UNCHANGED <<spineVars, log>>

-----------------------------------------------------------------------------
(* The loop.                                                               *)

(* Mutant: the first retry is the last.                                    *)
RetryableOnce(w) == {p \in w.pending : p.count = 0}

Retryable(w) == {p \in w.pending : p.count < MAX_RETRIES}

WithoutPending(w, p) == [w EXCEPT !.pending = @ \ {p}]

Counted(w, p) == [w EXCEPT !.pending = (@ \ {p}) \cup {[p EXCEPT !.count = @ + 1]}]

(* Outside of a transaction every statement commits.                       *)
Autocommit(w) == db' = w /\ work' = w

RetryChallenge ==
    /\ pc = "retry"
    /\ \E p \in retries :
           /\ retries' = retries \ {p}
           /\ \/ SubmitOk(p.nr, p.type) /\ Autocommit(WithoutPending(db, p)) /\ UNCHANGED faults
              \/ SubmitErr(p.nr, p.type) /\ Autocommit(Counted(db, p))
    /\ UNCHANGED <<pc, shutdown, listener, batch, tracker, frauds, missed>>

(* The newest L1 block is the one before the one being made now.           *)
SafeBlock == IF now > CONFIRMATIONS + 1 THEN now - 1 - CONFIRMATIONS ELSE 0

Polled == {i \in DOMAIN log : listener < log[i].at /\ log[i].at <= SafeBlock}

(* The listener moves on when the events are fetched, before they are      *)
(* processed; with no events there is no transaction.                      *)
Poll ==
    /\ pc = "retry" /\ retries = {}
    /\ listener' = IF SafeBlock > listener THEN SafeBlock ELSE listener
    /\ batch' = Polled
    /\ pc' = IF Polled = {} THEN "sleep" ELSE "event"
    /\ UNCHANGED <<spineVars, log, db, work, shutdown, tracker, frauds, retries, faults, missed>>

(* The events cannot be fetched and the listener stays; or the database    *)
(* transaction cannot be begun, and the listener has moved on.             *)
PollFails ==
    /\ pc = "retry" /\ retries = {}
    /\ Fault
    /\ pc' = "sleep"
    /\ \/ UNCHANGED <<listener, missed>>
       \/ /\ Polled # {}
          /\ listener' = SafeBlock
          /\ missed' = TRUE
    /\ UNCHANGED <<spineVars, log, db, work, shutdown, batch, tracker, frauds, retries>>

(* Sorted by L1 block, the new roots of one block before its rollbacks.    *)
Before(i, j) ==
    \/ log[i].at < log[j].at
    \/ /\ log[i].at = log[j].at
       /\ \/ log[i].kind = "NewRoot" /\ log[j].kind = "Rollback"
          \/ log[i].kind = log[j].kind /\ i < j

NextEvent == CHOOSE i \in batch : \A j \in batch \ {i} : Before(i, j)

(* The tree update validator recomputes the roots along the tree in memory *)
(* and takes a correct block for a fraud when that is not the chain's.     *)
LooksWrong(e, b) ==
    LET base == Tree(SubSeq(log[e].chain, 1, b.blockNr))
    IN  [s \in DOMAIN tracker \ {b.blockIndex} |-> tracker[s]] # base

Alarms(e, b) ==
    (IF WrongLeaf(b) THEN <<"deposit">> ELSE <<>>)
    \o (IF LooksWrong(e, b) THEN <<"tree">> ELSE <<>>)

(* A block with transactions has nullifiers that the table does not have,  *)
(* and to save them save_nullifiers_batch begins a transaction inside the  *)
(* one the loop has open, which SQLite refuses.  The handler returns the   *)
(* error after it saved the block, and the loop goes on with the next      *)
(* event.  So the table of nullifiers stays empty and is left out.         *)
NullifiersRefused(b) == b.numTransactions > 0

ProcessNewRoot ==
    /\ pc = "event" /\ ~shutdown /\ batch # {}
    /\ log[NextEvent].kind = "NewRoot"
    /\ LET e == NextEvent
           b == log[e].chain[Len(log[e].chain)]
       IN  /\ batch' = batch \ {e}
           /\ IF NullifiersRefused(b)
              THEN /\ work' = SaveBlock(work, b)
                   /\ UNCHANGED <<pc, tracker, frauds>>
              ELSE /\ work' = SaveRoot(SaveBlock(work, b), b)
                   /\ tracker' = [s \in DOMAIN tracker \cup {b.blockIndex} |->
                                     IF s = b.blockIndex THEN b.blobhashes ELSE tracker[s]]
                   /\ frauds' = [i \in DOMAIN Alarms(e, b) |->
                                    [nr |-> b.blockNr, at |-> log[e].at, type |-> Alarms(e, b)[i]]]
                   /\ pc' = IF Alarms(e, b) = <<>> THEN "event" ELSE "submit"
    /\ UNCHANGED <<spineVars, log, db, shutdown, listener, retries, faults, missed>>

(* The deposits or the blobs cannot be fetched; the event is dropped.      *)
FetchFails ==
    /\ pc = "event" /\ ~shutdown /\ batch # {}
    /\ log[NextEvent].kind = "NewRoot"
    /\ Fault
    /\ batch' = batch \ {NextEvent}
    /\ missed' = TRUE
    /\ UNCHANGED <<spineVars, log, db, work, pc, shutdown, listener, tracker, frauds, retries>>

(* Mutant: the tree in memory is not rebuilt.                              *)
ProcessRollbackOfTables ==
    /\ pc = "event" /\ ~shutdown /\ batch # {}
    /\ log[NextEvent].kind = "Rollback"
    /\ batch' = batch \ {NextEvent}
    /\ work' = DeleteFrom(work, Len(log[NextEvent].chain))
    /\ UNCHANGED <<spineVars, log, db, pc, shutdown, listener, tracker, frauds, retries, faults,
                   missed>>

ProcessRollback ==
    /\ pc = "event" /\ ~shutdown /\ batch # {}
    /\ log[NextEvent].kind = "Rollback"
    /\ batch' = batch \ {NextEvent}
    /\ work' = DeleteFrom(work, Len(log[NextEvent].chain))
    /\ tracker' = TrackerOf(work')
    /\ UNCHANGED <<spineVars, log, db, pc, shutdown, listener, frauds, retries, faults, missed>>

SavePending(w, f) ==
    [w EXCEPT !.pending = @ \cup {[nr |-> f.nr, at |-> f.at, type |-> f.type, count |-> 0]}]

(* Mutant: a challenge that failed is not recorded.                        *)
SubmitChallengeOnce ==
    /\ pc = "submit"
    /\ LET f == Head(frauds)
       IN  \/ SubmitOk(f.nr, f.type) /\ UNCHANGED <<work, faults>>
           \/ SubmitErr(f.nr, f.type) /\ UNCHANGED work
    /\ frauds' = Tail(frauds)
    /\ pc' = IF Tail(frauds) = <<>> THEN "event" ELSE "submit"
    /\ UNCHANGED <<db, shutdown, listener, batch, tracker, retries, missed>>

(* submit_fraud_challenges, within the transaction.                        *)
SubmitChallenge ==
    /\ pc = "submit"
    /\ LET f == Head(frauds)
       IN  \/ SubmitOk(f.nr, f.type) /\ UNCHANGED <<work, faults>>
           \/ SubmitErr(f.nr, f.type) /\ work' = SavePending(work, f)
    /\ frauds' = Tail(frauds)
    /\ pc' = IF Tail(frauds) = <<>> THEN "event" ELSE "submit"
    /\ UNCHANGED <<db, shutdown, listener, batch, tracker, retries, missed>>

(* Mutant: the progress is saved outside of the transaction.               *)
CommitTwice ==
    /\ pc = "event" /\ batch = {}
    /\ IF db.progress # listener
       THEN db' = [db EXCEPT !.progress = listener] /\ UNCHANGED <<work, pc>>
       ELSE db' = [work EXCEPT !.progress = listener] /\ work' = db' /\ pc' = "sleep"
    /\ UNCHANGED <<spineVars, log, shutdown, listener, batch, tracker, frauds, retries, faults,
                   missed>>

(* The progress is part of the transaction.                                *)
Commit ==
    /\ pc = "event" /\ batch = {}
    /\ db' = [work EXCEPT !.progress = listener]
    /\ work' = db'
    /\ pc' = "sleep"
    /\ UNCHANGED <<spineVars, log, shutdown, listener, batch, tracker, frauds, retries, faults,
                   missed>>

(* The loop is told to shut down before it reached the last event, or the  *)
(* progress cannot be saved or committed.  The database forgets the batch, *)
(* the tree in memory and the listener do not.                             *)
Abandon ==
    /\ pc = "event"
    /\ \/ shutdown /\ batch # {} /\ UNCHANGED faults
       \/ batch = {} /\ Fault
    /\ work' = db
    /\ batch' = {}
    /\ missed' = TRUE
    /\ pc' = "sleep"
    /\ UNCHANGED <<spineVars, log, db, shutdown, listener, tracker, frauds, retries>>

Sleep ==
    /\ pc = "sleep" /\ ~shutdown
    /\ pc' = "retry"
    /\ retries' = Retryable(db)
    /\ UNCHANGED <<spineVars, log, db, work, shutdown, listener, batch, tracker, frauds, faults,
                   missed>>

(* The process ends and what was in memory is gone.                        *)
Down ==
    /\ pc' = "down"
    /\ shutdown' = FALSE
    /\ listener' = 0
    /\ tracker' = [s \in {} |-> None]
    /\ batch' = {}
    /\ frauds' = <<>>
    /\ retries' = {}

(* On the way out the listener's progress is saved.                        *)
Exit ==
    /\ pc = "sleep" /\ shutdown
    /\ Autocommit([db EXCEPT !.progress = listener])
    /\ Down
    /\ UNCHANGED <<spineVars, log, faults, missed>>

(* The listener begins after the progress on record.  Without one it looks *)
(* back LOOKBACK blocks and no further.                                    *)
FirstListened(w) ==
    IF w.progress # None THEN w.progress
    ELSE IF now > LOOKBACK + 1 THEN now - 1 - LOOKBACK
    ELSE 0

Start ==
    /\ pc = "down"
    /\ pc' = "retry"
    /\ tracker' = TrackerOf(db)
    /\ listener' = FirstListened(db)
    /\ missed' = (missed \/ \E i \in DOMAIN log : Recorded(db) < log[i].at /\ log[i].at <= listener')
    /\ retries' = Retryable(db)
    /\ UNCHANGED <<spineVars, log, db, work, shutdown, batch, frauds, faults>>

Crash ==
    /\ pc # "down"
    /\ Fault
    /\ Down
    /\ work' = db
    /\ UNCHANGED <<spineVars, log, db, missed>>

Signal ==
    /\ pc # "down" /\ ~shutdown
    /\ Fault
    /\ shutdown' = TRUE
    /\ UNCHANGED <<spineVars, log, loopVars>>

-----------------------------------------------------------------------------
EventLoopInit ==
    /\ SpineInit
    /\ log = <<>>
    /\ db = EmptyDatabase
    /\ work = EmptyDatabase
    /\ pc = "down"
    /\ shutdown = FALSE
    /\ listener = 0
    /\ batch = {}
    /\ tracker = [s \in {} |-> None]
    /\ frauds = <<>>
    /\ retries = {}
    /\ faults = 0
    /\ missed = FALSE

LoopStep ==
    \/ RetryChallenge
    \/ Poll
    \/ PollFails
    \/ ProcessNewRoot
    \/ FetchFails
    \/ ProcessRollback
    \/ SubmitChallenge
    \/ Commit
    \/ Abandon
    \/ Sleep
    \/ Exit
    \/ Start

EventLoopNext == L1Post \/ L1Rollback \/ L1Tick \/ LoopStep \/ Crash \/ Signal

EventLoopSpec == EventLoopInit /\ [][EventLoopNext]_eventVars

(* The task is scheduled and the service manager restarts the process.     *)
FairEventLoopSpec == EventLoopSpec /\ WF_eventVars(LoopStep)

-----------------------------------------------------------------------------
(* The chain as the L1 had it at the end of L1 block k.                    *)
ChainAt(k) ==
    LET past == {i \in DOMAIN log : log[i].at <= k}
    IN  IF past = {} THEN <<>>
        ELSE log[CHOOSE i \in past : \A j \in past : j <= i].chain

(* A block was posted after a rollback within one L1 block; the events are *)
(* processed in the other order.                                           *)
Reordered ==
    \E i, j \in DOMAIN log :
        i < j /\ log[i].at = log[j].at /\ log[i].kind = "Rollback" /\ log[j].kind = "NewRoot"

(* Whatever the interleaving of posts, rollbacks, crashes and restarts,    *)
(* the committed blocks are the chain as of the committed progress.  So    *)
(* the loop resumes where the tables are, and the sequencer that reads     *)
(* them builds on a state the chain once had.  Not if an event was passed  *)
(* over, or a rollback and a post share an L1 block.                       *)
DatabaseIsChain ==
    missed \/ Reordered \/
        LET chain == ChainAt(Recorded(db))
        IN  db.blocks = [n \in 0 .. Len(chain) - 1 |-> chain[n + 1]]

(* Between transactions the tree in memory is the one in the database, and *)
(* the tables agree on the blocks they have, up to those with              *)
(* transactions, whose roots are never saved.                              *)
TreeIsOfBlocks ==
    missed \/ Reordered \/
        /\ pc \in {"retry", "sleep"} => tracker = TrackerOf(db)
        /\ \A n \in DOMAIN db.blocks :
               db.blocks[n].numTransactions = 0 =>
                   LET s == db.blocks[n].blockIndex
                   IN  s \in DOMAIN db.roots /\ db.roots[s].nr = n

(* Once the progress is past a fraudulent block, the block is gone or its  *)
(* challenge is on record: no crash, failed call or retry forgets it.      *)
FraudNotForgotten ==
    missed \/ Reordered \/
        \A n \in BlockNumbers :
            /\ WrongLeaf(Block(n))
            /\ ~NullifiersRefused(Block(n))
            /\ Block(n).timestamp <= Recorded(db)
            => \E p \in db.pending : p.nr = n /\ p.type = "deposit"

(* A pending challenge is of the block that has its number now, not of one *)
(* that was rolled back: a retry never accuses a later block.              *)
PendingStands ==
    missed \/ Reordered \/
        \A p \in db.pending : p.nr \in DOMAIN db.blocks /\ db.blocks[p.nr].timestamp = p.at

(* The challenger can have block n rolled back: it is the first block, or  *)
(* its predecessor is in the tables with its slot in the tree; and it is   *)
(* not block 1.                                                            *)
CanBeChallenged(n) == n = 0 \/ (n > 1 /\ ~NullifiersRefused(Block(n - 1)))

(* In the end no fraud stands that the challenger has seen and can have    *)
(* rolled back, as long as fewer calls fail than a challenge has tries.    *)
FraudRolledBack ==
    <>[](missed \/ Reordered \/
            \A n \in BlockNumbers :
                Block(n).timestamp <= SafeBlock /\ WrongLeaf(Block(n)) =>
                    NullifiersRefused(Block(n)) \/ ~CanBeChallenged(n))
=============================================================================
