------------------------------ MODULE SyncState -------------------------------
(* What the sequencer answers to a wallet: the database tables of blocks and *)
(* day roots that the processing of chain events writes, the tree over days  *)
(* kept in memory beside them, and the endpoints that read both.             *)
(*                                                                           *)
(* A tree is the function from the positions of its leaves that are not zero *)
(* to these leaves, and stands for its own root: the leaves of the tree over *)
(* days are the trees over a day's blocks, whose leaves are the blocks'      *)
(* note commitments. A path is the tree without the leaf it belongs to. One  *)
(* leaf stands for the three of an update.                                   *)
EXTENDS Naturals, Sequences, SequencesExt

CONSTANTS
    Contents,     \* what a block may hold: [deposits, outputs], sequences of leaves
    MaxBlocks,    \* bound: blocks standing at one time
    LastDay       \* bound: the last day

ASSUME SyncConstants == MaxBlocks \in Nat /\ LastDay \in Nat

VARIABLES
    blocks,       \* tables blocks, block_roots, blobs; block nr n is blocks[n + 1]
    dayRows,      \* table day_roots
    tracker,      \* HierarchicalRootTracker: its day roots and the last day touched
    today         \* the day the next block is posted on

server == <<blocks, dayRows, tracker, today>>

Zero == <<>>      \* B256::ZERO, in place of a root

(* Paths: the siblings of a leaf, and the root computed from leaf and path.  *)
Siblings(tree, i) == [j \in DOMAIN tree \ {i} |-> tree[j]]
RootFrom(siblings, i, leaf) ==
    [j \in DOMAIN siblings \cup {i} |-> IF j = i THEN leaf ELSE siblings[j]]

(* Rows written to a table: they replace those of the same key.              *)
Merged(rows, table) ==
    [d \in DOMAIN rows \cup DOMAIN table |-> IF d \in DOMAIN rows THEN rows[d] ELSE table[d]]

(* The leaves of a block in the order build_block_tree inserts them.         *)
Leaves(b) == b.deposits \o b.outputs

DaysOf(bs) == {bs[i].day : i \in DOMAIN bs}
InDay(bs, day) == {i \in DOMAIN bs : bs[i].day = day}
DayTree(bs, day) ==
    [k \in {bs[i].index : i \in InDay(bs, day)} |->
        Leaves(bs[CHOOSE i \in InDay(bs, day) : bs[i].index = k])]

(* HierarchicalRootTracker::from_database: stored day roots come first, the  *)
(* other days are computed from their blocks.                                *)
FromDatabase(rows, bs) ==
    [roots |-> Merged(rows, [d \in DaysOf(bs) |-> DayTree(bs, d)]),
     last |-> IF bs = <<>> THEN {} ELSE {Max(DaysOf(bs))}]

Inserted(bs, day) ==
    [roots |-> Merged([d \in {day} |-> DayTree(bs, d)], tracker.roots), last |-> {day}]

(* What insert_block_root hands back as the previous day's root: the entry   *)
(* it found for the day of the block.                                        *)
PreviousDayRoot(day) ==
    IF tracker.last # {day} /\ day \in DOMAIN tracker.roots THEN {tracker.roots[day]} ELSE {}

DayBefore(day) == IF day = 0 THEN 0 ELSE day - 1    \* saturating_sub

(* An addRoot event is processed.                                            *)
AddBlock(content) ==
    /\ Len(blocks) < MaxBlocks
    /\ blocks' = Append(blocks, [day |-> today, index |-> Cardinality(InDay(blocks, today)),
                                 deposits |-> content.deposits, outputs |-> content.outputs])
    /\ tracker' = Inserted(blocks', today)
    /\ dayRows' = Merged([d \in {DayBefore(today) : r \in PreviousDayRoot(today)} |->
                             tracker.roots[today]], dayRows)
    /\ UNCHANGED today

(* A rollback event is processed: rows of day_roots stay, and the tree is    *)
(* built again from what the database holds.                                 *)
Rollback(to) ==
    /\ to < Len(blocks)
    /\ blocks' = SubSeq(blocks, 1, to)
    /\ tracker' = FromDatabase(dayRows, blocks')
    /\ UNCHANGED <<dayRows, today>>

(* save_day_root as the set-up of the sync tests calls it (finalize_day).    *)
SaveDayRoot(day) ==
    /\ day \in DaysOf(blocks)
    /\ dayRows' = Merged([d \in {day} |-> tracker.roots[d]], dayRows)
    /\ UNCHANGED <<blocks, tracker, today>>

NextDay ==
    /\ today < LastDay
    /\ today' = today + 1
    /\ UNCHANGED <<blocks, dayRows, tracker>>

SyncInit ==
    /\ blocks = <<>> /\ dayRows = <<>> /\ today = 0
    /\ tracker = [roots |-> <<>>, last |-> {}]

-----------------------------------------------------------------------------
(* The answers.                                                              *)

LatestNr == IF blocks = <<>> THEN 0 ELSE Len(blocks) - 1
LatestDay == IF dayRows = <<>> THEN 0 ELSE Max(DOMAIN dayRows)

GetSyncStatus == [nr |-> LatestNr, day |-> LatestDay, anchor |-> tracker.roots]

GetDayRoots(from, to) == [d \in DOMAIN dayRows \cap from..to |-> dayRows[d]]

GetBlockRoots(day) ==
    [roots |-> DayTree(blocks, day),
     dayRoot |-> IF day \in DOMAIN dayRows THEN dayRows[day] ELSE Zero]

(* The path of a leaf in its block: none when the block or the leaf is not   *)
(* there.                                                                    *)
GetBlockTreeProof(nr, leaf) ==
    {Siblings(Leaves(blocks[i]), leaf) :
        i \in {i \in DOMAIN blocks : i = nr + 1 /\ leaf \in DOMAIN Leaves(blocks[i])}}

(* The transactions of a block with this output, and the one reported.       *)
TxsWith(leaf, nr) ==
    IF nr + 1 \in DOMAIN blocks
    THEN {t \in DOMAIN blocks[nr + 1].outputs : blocks[nr + 1].outputs[t] = leaf} ELSE {}
WithdrawalProof(leaf, nr) == {Min(TxsWith(leaf, nr)) : t \in TxsWith(leaf, nr)}

-----------------------------------------------------------------------------
(* Every day with blocks is on record with the root the tree has for it.     *)
Tidy == dayRows = tracker.roots
=============================================================================
