------------------------------ MODULE Sequencer -------------------------------
(***************************************************************************)
(* The sequencer: mempool, block builder (block_builder_loop.rs), block    *)
(* submitter (block_submitter.rs) and epoch watcher (epoch.rs), against    *)
(* the L1 and the database of the event loop.                              *)
(*                                                                         *)
(* The builder runs as the hook of the event loop, in its task, so the     *)
(* database does not change while a block is under way; the mempool, the   *)
(* L1 and other sequencers do not wait.                                    *)
(***************************************************************************)
EXTENDS Mempool, BlobLayout

CONSTANTS
    IsPriority,       \* is_priority, as read at the start
    Periods,          \* the halves of an epoch there are
    MinTransactions,  \* min_transactions of the configuration
    MaxTransactions,  \* max_transactions
    MaxBlobs,         \* blobs' worth of transactions taken in the closed period
    RecordsSaved,     \* whether saving the nullifiers of a block can succeed, fail
    OtherSpends,      \* nullifiers a block of another sequencer may spend
    MaxPosts,         \* bound: blocks ever posted
    MaxDay,           \* bound: last day reached
    MaxDeposits,      \* bound: deposits of a block
    MaxFaults         \* bound: failures of the L1 node, restarts and disconnects

ASSUME SequencerAssumption ==
    /\ {MinTransactions, MaxTransactions, MaxBlobs} \subseteq Nat
    /\ {MaxPosts, MaxDay, MaxDeposits, MaxFaults} \subseteq Nat

TRANSACTIONS_PER_BLOB == BLOB_SIZE \div 15

VARIABLES
    chain,     \* the blocks of the Entrypoint, those of this sequencer marked own
    deposits,  \* how many deposits each block must carry
    db,        \* the blocks the event loop has stored
    recorded,  \* places of the blocks whose nullifiers it has stored too
    day,       \* day of the tree
    period,    \* the half of an epoch: open, or closed and ours or theirs
    slashed,   \* this sequencer was proved wrong
    builder,   \* the block under way
    wire,      \* blob transactions sent and not mined yet
    posts,     \* blocks posted so far
    faults,    \* faults so far
    mined,     \* submissions that were mined once
    contested  \* nullifiers that ever had two live spends

l1Vars == <<chain, deposits, day, slashed, wire, posts, mined>>

dbVars == <<db, recorded>>

programVars == <<mempoolVars, l1Vars, period, dbVars, builder, faults>>

vars == <<programVars, contested>>

Idle == [pc |-> "idle", batch |-> <<>>, deposits |-> 0, slot |-> <<0, 0>>, try |-> 0]

(* The blob transaction of the block under way.                            *)
BlobTransaction ==
    [nr |-> Len(db), base |-> db, batch |-> builder.batch,
     deposits |-> builder.deposits, slot |-> builder.slot, try |-> builder.try]

OnRecord == UNION {db[n].spent : n \in recorded}

Latest == IF db = <<>> THEN 0 ELSE Len(db) - 1

Closed == period # "open"

(* isAllowed: in a closed half only those whose turn it is.                *)
Allowed == ~slashed /\ period # "theirs"

-----------------------------------------------------------------------------
(* The L1.                                                                 *)

SlotBehind(c, d) ==
    IF c # <<>> /\ Last(c).slot[1] = d THEN <<d, Last(c).slot[2] + 1>> ELSE <<d, 0>>

SpentIn(c) == UNION {c[n].spent : n \in DOMAIN c}

Twice(batch, n) == \E i, j \in DOMAIN batch : i < j /\ n \in Spends(batch[i]) \cap Spends(batch[j])

(* Nullifiers that a block on top of c spends again.                       *)
SpentAgain(c, batch) == (SpentBy(batch) \cap SpentIn(c)) \cup {n \in SpentBy(batch) : Twice(batch, n)}

FieldsOf(batch, deps) == NumDepositsToMemoryLength(deps) + Len(batch) * 15

(* post is given the index of one blob, whatever the block needs.          *)
FitsPosted(batch, deps) == FieldsOf(batch, deps) < BLOB_SIZE

Accepts(t) ==
    /\ Allowed
    /\ t.nr = Len(chain)
    /\ t.deposits = deposits[t.nr]
    /\ FitsPosted(t.batch, t.deposits)

(* What the contract and the challengers see of the block of a transaction *)
(* t: it is fraud if it spends a nullifier again, if its roots were        *)
(* computed on other blocks than those it lands on, or for another slot.   *)
Landed(t) ==
    [own |-> TRUE, batch |-> t.batch, spent |-> SpentBy(t.batch), slot |-> SlotBehind(chain, day),
     again |-> SpentAgain(chain, t.batch),
     misplaced |-> t.slot # SlotBehind(chain, day) \/ t.base # chain]

IsFraud(b) == b.own /\ (b.again # {} \/ b.misplaced)

(* A transaction is mined.  A builder that still waits for it gets the     *)
(* receipt.                                                                *)
Mine(t) ==
    /\ t \in wire
    /\ wire' = wire \ {t}
    /\ IF Accepts(t)
       THEN /\ posts < MaxPosts
            /\ chain' = Append(chain, Landed(t))
            /\ posts' = posts + 1
            /\ mined' = mined \cup ToSet(t.batch)
       ELSE UNCHANGED <<chain, posts, mined>>
    /\ builder' = IF builder.pc = "sent" /\ t = BlobTransaction
                  THEN [builder EXCEPT !.pc = IF Accepts(t) THEN "included" ELSE "failed"]
                  ELSE builder
    /\ UNCHANGED <<mempoolVars, period, dbVars, deposits, day, slashed, faults>>

(* Another sequencer posts a block, perhaps with a transaction this one    *)
(* was sent too.                                                           *)
OtherPost(spent) ==
    /\ posts < MaxPosts
    /\ period = "open"
    /\ spent \cap SpentIn(chain) = {}
    /\ chain' = Append(chain, [own |-> FALSE, batch |-> <<>>, spent |-> spent,
                               slot |-> SlotBehind(chain, day), again |-> {}, misplaced |-> FALSE])
    /\ posts' = posts + 1
    /\ UNCHANGED <<mempoolVars, period, dbVars, deposits, day, slashed, wire, mined, builder, faults>>

(* Somebody proves a block of this sequencer wrong: it and what was built  *)
(* on it are rolled back.                                                  *)
Challenge(n) ==
    /\ n \in DOMAIN chain /\ IsFraud(chain[n])
    /\ chain' = SubSeq(chain, 1, n - 1)
    /\ slashed' = TRUE
    /\ UNCHANGED <<mempoolVars, period, dbVars, deposits, day, wire, posts, mined, builder, faults>>

(* A deposit for the next block, as the first blocks of the chain get them *)
(* (Deposits.tla).                                                         *)
DepositMade ==
    /\ Len(chain) < MaxPosts
    /\ deposits[Len(chain)] < MaxDeposits
    /\ deposits' = [deposits EXCEPT ![Len(chain)] = @ + 1]
    /\ UNCHANGED <<mempoolVars, period, dbVars, chain, day, slashed, wire, posts, mined, builder, faults>>

DayPasses ==
    /\ day < MaxDay
    /\ day' = day + 1
    /\ UNCHANGED <<mempoolVars, period, dbVars, chain, deposits, slashed, wire, posts, mined, builder, faults>>

(* The halves of the epochs alternate; whose turn it is in a closed half   *)
(* is for the registry to say.                                             *)
EpochTurns ==
    /\ period' \in IF Closed THEN {"open"} ELSE Periods \ {"open"}
    /\ UNCHANGED <<mempoolVars, l1Vars, dbVars, builder, faults>>

-----------------------------------------------------------------------------
(* The event loop, as far as the mempool and the builder see it.           *)

(* It takes up the next block, or drops those that were rolled back.  The  *)
(* nullifiers of a block are saved apart from the block, which may fail.   *)
Store ==
    /\ builder.pc = "idle"
    /\ \/ /\ IsStrictPrefix(db, chain)
          /\ db' = Append(db, chain[Len(db) + 1])
          /\ \E saved \in RecordsSaved : recorded' = IF saved THEN recorded \cup {Len(db')} ELSE recorded
       \/ /\ ~IsPrefix(db, chain)
          /\ db' = LongestCommonPrefix({db, chain})
          /\ recorded' = recorded \cap DOMAIN db'
    /\ UNCHANGED <<mempoolVars, l1Vars, period, builder, faults>>

-----------------------------------------------------------------------------
(* The block builder.                                                      *)

InWindow == IsPriority /\ Closed

(* Mutant: one transaction more than needed is waited for.                 *)
MayStartLate ==
    /\ queue # <<>>
    /\ Allowed
    /\ IsPriority /\ ~forceSubmit => Closed
    /\ forceSubmit \/ InWindow \/ Len(queue) > MinTransactions

MayStart ==
    /\ queue # <<>>
    /\ Allowed
    /\ IsPriority /\ ~forceSubmit => Closed
    /\ forceSubmit \/ InWindow \/ Len(queue) >= MinTransactions

ToTake == IF InWindow THEN MaxBlobs * TRANSACTIONS_PER_BLOB ELSE MaxTransactions

(* The head of try_build_and_submit_block, up to the taken batch.  A poke  *)
(* is used up whether or not a block comes of it.                          *)
StartBuild ==
    /\ builder.pc = "idle"
    /\ forceSubmit' = FALSE
    /\ IF MayStart
       THEN /\ Take(TakeUpTo(ToTake))
            /\ builder' = [Idle EXCEPT !.pc = "taken", !.batch = TakeUpTo(ToTake), !.try = faults]
       ELSE UNCHANGED <<queue, pending, builder>>
    /\ UNCHANGED <<anchors, handler, l1Vars, period, dbVars, faults>>

(* getDepositArray of the block after the last one stored.                 *)
FetchDeposits ==
    /\ builder.pc = "taken"
    /\ builder' = [builder EXCEPT !.pc = "loaded",
                                  !.deposits = deposits[Len(db)]]
    /\ UNCHANGED <<mempoolVars, l1Vars, period, dbVars, faults>>

(* predict_next_block_index and the build: the clock of the sequencer is   *)
(* read, with three seconds added, so it may be in the next day already.   *)
Predict ==
    /\ builder.pc = "loaded"
    /\ \E d \in {day, day + 1} :
           builder' = [builder EXCEPT !.pc = "built", !.slot = SlotBehind(chain, d)]
    /\ UNCHANGED <<mempoolVars, l1Vars, period, dbVars, faults>>

(* submit_block waits for an open period in which we are allowed, also     *)
(* when the batch was taken for the closed one, and sends.                 *)
Send ==
    /\ builder.pc = "built"
    /\ period = "open" /\ Allowed
    /\ wire' = wire \cup {BlobTransaction}
    /\ builder' = [builder EXCEPT !.pc = "sent"]
    /\ UNCHANGED <<mempoolVars, chain, deposits, day, slashed, posts, mined, period, dbVars, faults>>

(* The receipt shows the block: the transactions are done with.            *)
Receive ==
    /\ builder.pc = "included"
    /\ builder' = Idle
    /\ UNCHANGED <<mempoolVars, l1Vars, period, dbVars, faults>>

(* Mutant: a failed submission drops its transactions.                     *)
GiveUpDropping ==
    /\ builder.pc = "failed"
    /\ builder' = Idle
    /\ UNCHANGED <<mempoolVars, l1Vars, period, dbVars, faults>>

(* The transaction was reverted.                                           *)
GiveUp ==
    /\ builder.pc = "failed"
    /\ ReturnToFront(builder.batch)
    /\ builder' = Idle
    /\ UNCHANGED <<anchors, handler, forceSubmit, l1Vars, period, dbVars, faults>>

(* A call of the L1 node fails or the submission times out, in whatever    *)
(* part of the submission: even a sent transaction counts as failed when   *)
(* its receipt does not come.                                              *)
Fault ==
    /\ faults < MaxFaults
    /\ builder.pc \in {"taken", "loaded", "built", "sent", "included"}
    /\ ReturnToFront(builder.batch)
    /\ builder' = Idle
    /\ faults' = faults + 1
    /\ UNCHANGED <<anchors, handler, forceSubmit, l1Vars, period, dbVars>>

Restart ==
    /\ faults < MaxFaults
    /\ faults' = faults + 1
    /\ LoseMempool
    /\ builder' = Idle
    /\ UNCHANGED <<l1Vars, period, dbVars>>

-----------------------------------------------------------------------------
Init ==
    /\ MempoolInit
    /\ chain = <<>> /\ deposits = [n \in 0 .. MaxPosts |-> 0] /\ day = 0 /\ slashed = FALSE /\ wire = {}
    /\ posts = 0 /\ mined = {}
    /\ period \in Periods
    /\ db = <<>> /\ recorded = {}
    /\ builder = Idle
    /\ faults = 0
    /\ contested = {}

MempoolStep ==
    /\ \/ \E s \in Submitted : Handle(s, OnRecord, Latest)
       \/ \E n \in {AnchorBlock[s] : s \in Submitted} : RegisterAnchor(n)
       \/ Poke
    /\ UNCHANGED <<l1Vars, period, dbVars, builder, faults>>

Leaves(s) ==
    /\ faults < MaxFaults
    /\ faults' = faults + 1
    /\ Disconnect(s)
    /\ UNCHANGED <<l1Vars, period, dbVars, builder>>

BuilderStep == StartBuild \/ FetchDeposits \/ Predict \/ Send \/ Receive \/ GiveUp \/ Fault \/ Restart

L1Step ==
    \/ \E t \in wire : Mine(t)
    \/ \E spent \in OtherSpends : OtherPost(spent)
    \/ \E n \in DOMAIN chain : Challenge(n)
    \/ DepositMade
    \/ DayPasses
    \/ EpochTurns

(* A spend of nullifier n is alive from the moment its handler found it    *)
(* not pending until its block is in the database.                         *)
LiveSpends(n) ==
    LET InPipeline == {s \in Submitted : handler[s] \in {"looked", "verified", "tracked"} /\ n \in Spends(s)}
        Count(q)   == Cardinality({i \in DOMAIN q : n \in Spends(q[i])})
        OnChain    == {i \in DOMAIN chain : n \in chain[i].spent /\ ~IsPrefix(SubSeq(chain, 1, i), db)}
    IN  Cardinality(InPipeline) + Count(queue)
        + (IF builder.pc \in {"sent", "included"} THEN 0 ELSE Count(builder.batch))
        + Cardinality(OnChain) + Cardinality({t \in wire : n \in SpentBy(t.batch)})

Nullifiers == UNION {Spends(s) : s \in Submitted}

Contested == {n \in Nullifiers : LiveSpends(n) > 1}

Next ==
    /\ \/ MempoolStep
       \/ \E s \in Submitted : Leaves(s)
       \/ BuilderStep
       \/ L1Step
       \/ Store
    /\ contested' = contested \cup Contested'

Spec == Init /\ [][Next]_vars

(* The loop comes round several times in each half of an epoch, and a      *)
(* submission that waits for an open half looks again in each of them.     *)
(* The L1 goes on, its node answers unless it fails (Fault), and not every *)
(* transaction sent in an open half is mined only in the next closed one.  *)
Fairness ==
    /\ SF_programVars(MayStart /\ StartBuild)
    /\ WF_programVars(FetchDeposits) /\ WF_programVars(Predict)
    /\ SF_programVars(Send)
    /\ WF_programVars(Receive) /\ WF_programVars(GiveUp)
    /\ WF_programVars(Store)
    /\ WF_programVars(\E t \in wire : Mine(t))
    /\ SF_programVars(period = "open" /\ \E t \in wire : Mine(t))
    /\ WF_programVars(EpochTurns)

FairSpec == Spec /\ Fairness

-----------------------------------------------------------------------------
(* What the sequencer guarantees.                                          *)

(* The transactions it answers for: those under way and those that wait.   *)
Line == builder.batch \o queue

(* A transaction that add accepted is in the queue or in the block under   *)
(* way until a block with it was mined, whatever call fails on the way     *)
(* (return_to_front); only a restart loses it.                             *)
AcceptedNotLost == \A s \in Submitted : handler[s] = "accepted" => s \in ToSet(Line) \cup mined

(* First come, first served: of two transactions the sequencer has, the    *)
(* one in front stays in front, also when a block fails and its            *)
(* transactions come back.                                                 *)
FirstComeFirstServed ==
    [][\A i, j \in DOMAIN Line' : \A k, l \in DOMAIN Line :
           Line[k] = Line'[i] /\ Line[l] = Line'[j] /\ k < l => i < j]_vars

(* A pending nullifier keeps a note from being spent, so it is there for a *)
(* transaction that waits or is being entered.  Only a client that went    *)
(* away leaves one behind.                                                 *)
PendingHasOwner ==
    \A n \in pending : \E s \in Submitted :
        /\ n \in Spends(s)
        /\ s \in ToSet(queue) \/ handler[s] \in {"tracked", "dropped"}

(* The other way round, the nullifiers of a transaction that waits are     *)
(* pending, unless another spend of the same note was alive with it.       *)
WaitingIsPending == \A s \in ToSet(queue) : Spends(s) \subseteq pending \cup contested

(* A block of this sequencer that spends a note again does so because two  *)
(* spends of the note were alive at one time, one of them perhaps in a     *)
(* block of another sequencer or in a submission whose receipt was lost,   *)
(* or because the nullifiers of the first were never recorded: once they   *)
(* are on record, no later submission of the note gets in.                 *)
SpentAgainWasContested ==
    \A n \in DOMAIN chain : chain[n].again \subseteq
        contested \cup UNION {chain[m].spent : m \in (1 .. n - 1) \cap (DOMAIN db \ recorded)}

MustLeave == Len(Line) >= MinTransactions

Ended == slashed \/ posts = MaxPosts

(* Transactions enough for a block do not wait for ever, unless the next   *)
(* block has deposits to carry with them: their fields may not fit.        *)
FullBlobLeavesAlone == MustLeave ~> (~MustLeave \/ Ended \/ deposits[Len(chain)] > 0)
=============================================================================
