------------------------------- MODULE MCClient -------------------------------
(* The client beside a sequencer whose blocks come, go and turn into days.   *)
(* A behaviour has one of two parts: the owner spends notes, or follows      *)
(* withdrawals that the sequencer has accepted to their payment. The two     *)
(* share the sequencer and nothing else.                                     *)
EXTENDS PendingWithdrawals

CONSTANTS
    Parts,       \* bound: the parts explored
    MaxMoves,    \* bound: steps of the sequencer that wallets can notice
    MaxNoteBlocks, \* bound: blocks standing while the owner spends notes
    n1, n2, n3, w1, w2
ASSUME MCClientAssumption ==
    Contents \subseteq [deposits : Seq(Notes \cup {"other"}),
                       outputs : Seq(Commitments \cup {"other"})]

VARIABLES part, moves

Amounts == n1 :> 1 @@ n2 :> 3 @@ n3 :> 2
BothCommitments == {w1, w2}
EitherCommitment == Permutations(BothCommitments)
DepositBlocks ==
    {[deposits |-> d, outputs |-> <<>>] : d \in {<<"other">>, <<n1, n2, n3>>}}

clientVars == <<server, walletVars, pendingVars, part, moves>>

NoHistory == [rolled |-> FALSE, untidy |-> FALSE, moved |-> FALSE, cut |-> FALSE]

Init ==
    /\ SyncInit
    /\ PendingInit
    /\ file = <<>> /\ cacheFile = NewCache /\ mem = <<>> /\ cache = NewCache
    /\ pc = "idle" /\ cmd = "sync" /\ days = {} /\ picked = {} /\ queue = <<>>
    /\ status = [nr |-> 0, day |-> 0, anchor |-> Zero]
    /\ spends = {} /\ commands = 0 /\ faults = 0 /\ history = NoHistory
    /\ part \in Parts /\ moves = 0

-----------------------------------------------------------------------------
(* The sequencer. history remembers what the properties except: rolled, a    *)
(* block was taken back; untidy, a sync began while a day's root was not on  *)
(* record; moved, the sequencer went on since the command asked for its      *)
(* status; cut, a command ended between an acceptance and the saved wallet.  *)

Moved ==
    /\ moves < MaxMoves
    /\ moves' = moves + 1
    /\ history' = [history EXCEPT !.moved = pc # "idle"]

WalletKept == UNCHANGED <<file, cacheFile, mem, cache, pc, cmd, status, days, picked, queue,
                          spends, commands, part>>
ListKept == UNCHANGED <<pendFile, list, search, held, withdrawn, paid>>

PostDeposits ==
    /\ part = "spend"
    /\ Len(blocks) < MaxNoteBlocks
    /\ \E c \in Contents :
          /\ AddBlock(c)
          /\ \A i \in DOMAIN blocks : Range(blocks[i].deposits) \cap Range(c.deposits) \cap Notes = {}
    /\ Moved
    /\ WalletKept /\ ListKept
    /\ UNCHANGED <<faults, waiting, confirmed>>

(* A block takes accepted withdrawals in order, or one of somebody else's.   *)
PostWithdrawals ==
    /\ part = "withdraw"
    /\ \E k \in 0..Len(waiting) :
          /\ AddBlock([deposits |-> <<>>,
                       outputs |-> IF k = 0 THEN <<"other">> ELSE SubSeq(waiting, 1, k)])
          /\ waiting' = SubSeq(waiting, k + 1, Len(waiting))
    /\ Moved
    /\ WalletKept /\ ListKept
    /\ UNCHANGED <<faults, confirmed>>

(* Blocks that are not confirmed are taken back; their withdrawals may be    *)
(* included again.                                                           *)
RolledBack ==
    /\ faults < MaxFaults
    /\ \E to \in confirmed..Len(blocks) :
          /\ Rollback(to)
          /\ waiting' \in {waiting,
                 SelectSeq(FlattenSeq([k \in 1..(Len(blocks) - to) |-> blocks[to + k].outputs]),
                           LAMBDA l : l # "other") \o waiting}
    /\ faults' = faults + 1
    /\ history' = [history EXCEPT !.moved = pc # "idle", !.rolled = TRUE]
    /\ WalletKept /\ ListKept
    /\ UNCHANGED <<confirmed, moves>>

Confirm ==
    /\ part = "withdraw"
    /\ confirmed < Len(blocks)
    /\ confirmed' = confirmed + 1
    /\ WalletKept /\ ListKept
    /\ UNCHANGED <<server, faults, waiting, history, moves>>

DayPasses ==
    /\ part = "spend"
    /\ NextDay
    /\ Moved
    /\ WalletKept /\ ListKept
    /\ UNCHANGED <<faults, waiting, confirmed>>

DayRootSaved ==
    /\ part = "spend"
    /\ \E d \in DaysOf(blocks) : SaveDayRoot(d)
    /\ dayRows' # dayRows
    /\ history' = [history EXCEPT !.moved = pc # "idle"]
    /\ WalletKept /\ ListKept
    /\ UNCHANGED <<moves, faults, waiting, confirmed>>

(* Anyone may have a withdrawal paid out.                                    *)
PaidByOthers ==
    /\ part = "withdraw"
    /\ \E i \in 1..confirmed : \E t \in DOMAIN blocks[i].outputs :
          /\ blocks[i].outputs[t] \in Commitments
          /\ Payable(i - 1, t, blocks[i])
          /\ Pay(i - 1, t, blocks[i].outputs[t])
    /\ WalletKept
    /\ UNCHANGED <<server, faults, history, pendFile, list, search, held, waiting, confirmed, moves>>

(* The owner learns of the notes of a block (add_note).                      *)
NotesAdded ==
    /\ part = "spend"
    /\ pc = "idle"
    /\ \E i \in DOMAIN blocks :
          LET new == {l \in DOMAIN Leaves(blocks[i]) :
                        /\ Leaves(blocks[i])[l] \in Notes
                        /\ \A k \in DOMAIN file : file[k].c # Leaves(blocks[i])[l]}
          IN  /\ new # {}
              /\ \E order \in SetToSeqs(new) :
                    /\ \A j, k \in DOMAIN order : j < k => order[j] < order[k]
                    /\ file' = file \o [k \in DOMAIN order |->
                           NewNote(Leaves(blocks[i])[order[k]], i, order[k])]
    /\ UNCHANGED <<server, cacheFile, mem, cache, pc, cmd, status, days, picked, queue,
                   spends, commands, faults, history>>
    /\ UNCHANGED <<pendingVars, moves, part>>

-----------------------------------------------------------------------------
WalletStep ==
    /\ part = "spend"
    /\ \/ \E full \in BOOLEAN : StartSync(full)
       \/ StartTransfer
       \/ \E selection \in SUBSET DOMAIN file : StartWithdraw(selection)
       \/ StartConsolidate
       \/ GetStatus \/ FetchDayRoots \/ FetchCurrentDay
       \/ FetchBlockProof \/ BlockProofsStored
       \/ \E d \in days : FinalizeOneDay(d)
       \/ EndSync \/ SaveCache
       \/ BuildTransfer \/ BuildWithdrawal \/ BuildConsolidation \/ CannotSelect
       \/ RequestFails \/ SubmitAccepted \/ SubmitRefused \/ SaveWallet
    /\ UNCHANGED <<server, pendingVars, moves, part>>

Stopped ==
    /\ StopProcess
    /\ list' = <<>> /\ search' = NoSearch /\ held' = NotHeld
    /\ UNCHANGED <<server, pendFile, waiting, withdrawn, paid, confirmed, moves, part>>

PendingStep ==
    /\ \/ /\ part = "withdraw"
          /\ \/ SyncOfNoNotes
             \/ \E l \in Commitments : StageOneAccepted(l)
             \/ \E i \in DOMAIN pendFile : ExecuteProof(i)
             \/ \E i \in DOMAIN pendFile, n \in 0..LatestNr : Update(i, n)
       \/ RecordWithdrawal \/ BeginSearch \/ AskBlock \/ EndSearch
       \/ AlreadyWithdrawn \/ CallWithdraw \/ CallFails \/ SaveExecuted
    /\ UNCHANGED <<server, file, cacheFile, mem, cache, cmd, status, days, picked, queue,
                   spends, faults, history, moves, part>>

Next ==
    \/ PostDeposits \/ PostWithdrawals \/ RolledBack \/ Confirm \/ DayPasses
    \/ DayRootSaved \/ PaidByOthers \/ NotesAdded
    \/ WalletStep \/ Stopped \/ PendingStep

Spec == Init /\ [][Next]_clientVars

-----------------------------------------------------------------------------
(* Whatever the sequencer posted, whichever day roots it recorded and        *)
(* whichever commands were cut short before: after a sync, every unspent     *)
(* note's path leads to the anchor the command will prove against, so stored *)
(* parts and cached roots never go stale unseen. Excepted are a sequencer    *)
(* that moves on during the sync, one that had a day root missing at an      *)
(* earlier sync, and rolled-back blocks.                                     *)
SyncedProvesAnchor ==
    (pc = "cache" /\ ~history.moved /\ ~history.untidy /\ ~history.rolled) =>
        \A i \in Unspent(mem) : PathRoots(mem[i], cache) = {cache.anchor}

(* The saved wallet marks only notes whose spending the sequencer accepted,  *)
(* and between commands all of them, unless a command was cut after an       *)
(* acceptance.                                                               *)
SpentIffAccepted ==
    LET marked == {file[i].c : i \in {i \in DOMAIN file : file[i].spent}}
    IN  /\ marked \subseteq spends
        /\ pc = "idle" /\ ~history.cut => marked = spends

(* A withdrawal that the client reports as executed has been paid: no more   *)
(* entries of a commitment are marked than payments were made, unless two    *)
(* withdrawals share a commitment or blocks were rolled back, when numbers   *)
(* on record may be those of another withdrawal.                             *)
ExecutedWasPaid ==
    LET entries(l) == {i \in DOMAIN pendFile : pendFile[i].leaf = l}
    IN  \A l \in Commitments :
            Cardinality({i \in entries(l) : pendFile[i].executed}) > paid[l] =>
                history.rolled \/ Cardinality(entries(l)) > 1
=============================================================================
