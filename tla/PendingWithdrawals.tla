-------------------------- MODULE PendingWithdrawals --------------------------
(* The second half of a withdrawal in pgp-client: the list of pending        *)
(* withdrawals, the search of sync for the blocks that include them, and     *)
(* withdraw-execute, against the sequencer's answers and the marks that the  *)
(* contract keeps. One transaction has one output here.                      *)
EXTENDS Wallet

CONSTANTS
    Commitments,    \* commitments of withdrawal outputs: recipient and amount
    SEARCH_DEPTH,   \* blocks sync looks back
    MaxActions      \* bound: commands run

VARIABLES
    pendFile,       \* the list on disk: [leaf, nr, tx, executed]
    list,           \* the list in the process
    search,         \* sync: entries still to find, from the first; latest block; next block
    held,           \* withdraw-execute: [place, tx, block] once it has the proof
    waiting,        \* withdrawals accepted by the sequencer and in no block
    withdrawn,      \* the contract's marks: {<<nr, tx>>}
    paid,           \* payments made by the contract, for each commitment
    confirmed       \* blocks past the challenge period

pendingVars == <<pendFile, list, search, held, waiting, withdrawn, paid, confirmed>>

NoSearch == [todo |-> {}, latest |-> 0, nr |-> 0, found |-> FALSE]
NotHeld == [place |-> 0, tx |-> 0, block |-> <<>>]

Unexecuted(l) == {i \in DOMAIN l : ~l[i].executed}

MarkExecutedInBlock(l, nr, tx) ==
    [i \in DOMAIN l |-> [l[i] EXCEPT !.executed = @ \/ l[i].nr = nr]]

(* mark_executed: every entry recorded with these numbers.                   *)
MarkExecuted(l, nr, tx) ==
    [i \in DOMAIN l |-> [l[i] EXCEPT !.executed = @ \/ (l[i].nr = nr /\ l[i].tx = tx)]]

EndProcess ==
    /\ pc' = "idle" /\ list' = <<>> /\ search' = NoSearch /\ held' = NotHeld

(* withdraw, once the sequencer has accepted the transaction and the wallet  *)
(* is saved; the entry is added in a step of its own.                        *)
StageOneAccepted(leaf) ==
    /\ pc = "idle"
    /\ commands < MaxActions
    /\ commands' = commands + 1
    /\ waiting' = Append(waiting, leaf)
    /\ list' = <<[leaf |-> leaf, nr |-> 0, tx |-> 0, executed |-> FALSE]>>
    /\ pc' = "record"
    /\ UNCHANGED <<pendFile, search, held, withdrawn, paid, confirmed>>

RecordWithdrawal ==
    /\ pc = "record"
    /\ pendFile' = pendFile \o list
    /\ EndProcess
    /\ UNCHANGED <<commands, waiting, withdrawn, paid, confirmed>>

-----------------------------------------------------------------------------
(* sync_pending_withdrawals. Block number 0 stands for "not included".       *)

ToFind(l) == {i \in Unexecuted(l) : l[i].nr = 0}

(* A sync on its own: what it does before the search is in Wallet and leaves *)
(* the list alone. The search works with the status from before the sync.    *)
SyncOfNoNotes ==
    /\ pc = "idle"
    /\ commands < MaxActions
    /\ commands' = commands + 1
    /\ pc' = "search"
    /\ search' = [NoSearch EXCEPT !.latest = LatestNr]
    /\ UNCHANGED <<pendFile, list, held, waiting, withdrawn, paid, confirmed>>

BeginSearch ==
    /\ pc = "search"
    /\ IF ToFind(pendFile) = {}
       THEN EndProcess
       ELSE /\ search' = [search EXCEPT !.todo = ToFind(pendFile), !.nr = search.latest]
            /\ list' = pendFile
            /\ pc' = "ask"
            /\ UNCHANGED held
    /\ UNCHANGED <<pendFile, commands, waiting, withdrawn, paid, confirmed>>

FirstSearched == IF search.latest > SEARCH_DEPTH THEN search.latest - SEARCH_DEPTH ELSE 0

NextEntry(found) ==
    [search EXCEPT !.todo = @ \ {Min(@)}, !.nr = search.latest, !.found = found]

(* One request: newest block first, the first hit is taken.                  *)
AskBlock ==
    /\ pc = "ask"
    /\ search.todo # {}
    /\ LET i == Min(search.todo)
           answer == WithdrawalProof(list[i].leaf, search.nr)
       IN  IF answer # {}
           THEN /\ list' = [list EXCEPT ![i].nr = search.nr,
                                        ![i].tx = CHOOSE t \in answer : TRUE]
                /\ search' = NextEntry(TRUE)
           ELSE /\ search' = IF search.nr > FirstSearched
                             THEN [search EXCEPT !.nr = @ - 1] ELSE NextEntry(search.found)
                /\ UNCHANGED list
    /\ UNCHANGED <<pc, commands, pendFile, held, waiting, withdrawn, paid, confirmed>>

EndSearch ==
    /\ pc = "ask"
    /\ search.todo = {}
    /\ pendFile' = IF search.found THEN list ELSE pendFile
    /\ EndProcess
    /\ UNCHANGED <<commands, waiting, withdrawn, paid, confirmed>>

(* withdraw-update, with the numbers that withdraw-execute printed when it   *)
(* found the output.                                                         *)
Update(i, nr) ==
    /\ pc = "idle"
    /\ commands < MaxActions
    /\ commands' = commands + 1
    /\ i \in Unexecuted(pendFile)
    /\ WithdrawalProof(pendFile[i].leaf, nr) # {}
    /\ pendFile' = [pendFile EXCEPT ![i].nr = nr,
                        ![i].tx = CHOOSE t \in WithdrawalProof(pendFile[i].leaf, nr) : TRUE]
    /\ UNCHANGED <<pc, list, search, held, waiting, withdrawn, paid, confirmed>>

-----------------------------------------------------------------------------
(* withdraw-execute: the proof from the sequencer, the contract's mark, the  *)
(* call, and the entry marked in the list that was loaded at the start.      *)

ExecuteProof(i) ==
    /\ pc = "idle"
    /\ commands < MaxActions
    /\ commands' = commands + 1
    /\ i \in Unexecuted(pendFile)
    /\ pendFile[i].nr # 0
    /\ WithdrawalProof(pendFile[i].leaf, pendFile[i].nr) # {}
    /\ list' = pendFile
    /\ held' = [place |-> i, tx |-> Min(TxsWith(pendFile[i].leaf, pendFile[i].nr)),
                block |-> blocks[pendFile[i].nr + 1]]
    /\ pc' = "execute"
    /\ UNCHANGED <<pendFile, search, waiting, withdrawn, paid, confirmed>>

Entry == list[held.place]
Key == <<Entry.nr, held.tx>>

MarkEntry(step) ==
    /\ list' = MarkExecuted(list, Entry.nr, Entry.tx)
    /\ pc' = step

AlreadyWithdrawn ==
    /\ pc = "execute"
    /\ Key \in withdrawn
    /\ MarkEntry("executed")
    /\ UNCHANGED <<commands, pendFile, search, held, waiting, withdrawn, paid, confirmed>>

(* What the contract asks for: the block stands, is past the challenge       *)
(* period, and holds the output, which is not marked.                        *)
Payable(nr, tx, block) ==
    /\ nr < confirmed
    /\ blocks[nr + 1] = block
    /\ <<nr, tx>> \notin withdrawn

Pay(nr, tx, leaf) ==
    /\ withdrawn' = withdrawn \cup {<<nr, tx>>}
    /\ paid' = [paid EXCEPT ![leaf] = @ + 1]

CallWithdraw ==
    /\ pc = "execute"
    /\ Payable(Entry.nr, held.tx, held.block)
    /\ Pay(Entry.nr, held.tx, Entry.leaf)
    /\ MarkEntry("executed")
    /\ UNCHANGED <<commands, pendFile, search, held, waiting, confirmed>>

CallFails ==
    /\ pc = "execute"
    /\ Key \notin withdrawn
    /\ ~Payable(Entry.nr, held.tx, held.block)
    /\ EndProcess
    /\ UNCHANGED <<commands, pendFile, waiting, withdrawn, paid, confirmed>>

SaveExecuted ==
    /\ pc = "executed"
    /\ pendFile' = list
    /\ EndProcess
    /\ UNCHANGED <<commands, waiting, withdrawn, paid, confirmed>>

PendingInit ==
    /\ pendFile = <<>> /\ list = <<>> /\ search = NoSearch /\ held = NotHeld
    /\ waiting = <<>> /\ withdrawn = {} /\ confirmed = 0
    /\ paid = [l \in Commitments |-> 0]
=============================================================================
