-------------------------------- MODULE Wallet --------------------------------
(* The wallet of pgp-client: its file of notes, its cache of roots, and the  *)
(* commands sync, transfer, withdraw and consolidate as a process that asks  *)
(* the sequencer one question at a time and may be stopped between any two.  *)
EXTENDS SyncState

CONSTANTS
    Amount,       \* the notes the owner will ever get, with their amounts
    Targets,      \* bound: amounts to send
    MaxCommands,  \* bound: commands run
    MaxFaults     \* bound: processes stopped, answers lost, rollbacks

Notes == DOMAIN Amount

VARIABLES
    file, cacheFile,    \* wallet and cache on disk
    mem, cache,         \* the same, in the process
    pc, cmd,            \* the command under way and its next step
    status,             \* the sync status it works with
    days,               \* days whose notes it has still to finalize
    picked,             \* withdraw: the copies of the notes it selected
    queue,              \* transactions built and not submitted: sets of notes
    spends,             \* notes whose spending the sequencer has accepted
    commands, faults,   \* counts for the bounds
    history             \* what happened: [rolled, untidy, moved, cut], see MCClient

walletVars == <<file, cacheFile, mem, cache, pc, cmd, status, days, picked, queue,
                spends, commands, faults, history>>

-----------------------------------------------------------------------------
(* wallet/: a note is [c, nr, day, index, leaf, spent, proof]; the proof is  *)
(* {} or one [block, inDay], inDay being {} until the day is finalized.      *)

NewNote(c, i, leaf) ==
    [c |-> c, nr |-> i - 1, day |-> blocks[i].day, index |-> blocks[i].index,
     leaf |-> leaf, spent |-> FALSE, proof |-> {}]

Unspent(w) == {i \in DOMAIN w : ~w[i].spent}
IsComplete(n) == \E p \in n.proof : p.inDay # {}
NeedingBlockProof(w) == {i \in Unspent(w) : w[i].proof = {}}
NeedingDayFinalization(w, day) ==
    {i \in Unspent(w) : w[i].proof # {} /\ ~IsComplete(w[i]) /\ w[i].day < day}

StoreBlockProof(w, i, siblings) ==
    [w EXCEPT ![i].proof = {[block |-> siblings, inDay |-> {}]}]

FinalizeDay(w, day, tree) ==
    [i \in DOMAIN w |->
        IF i \in NeedingDayFinalization(w, day + 1) /\ w[i].day = day
        THEN [w[i] EXCEPT !.proof =
                  {[p EXCEPT !.inDay = {Siblings(tree, w[i].index)}] : p \in @}]
        ELSE w[i]]

MarkFirstSpent(w, cs) ==
    [i \in DOMAIN w |->
        [w[i] EXCEPT !.spent = @ \/ (w[i].c \in cs /\ \A j \in 1..(i - 1) : w[j].c \notin cs)]]

MarkSpent(w, cs) == [i \in DOMAIN w |-> [w[i] EXCEPT !.spent = @ \/ w[i].c \in cs]]

Total(w, is) == FoldSet(LAMBDA i, sum : sum + Amount[w[i].c], 0, is)

(* select_notes_for_amount: the largest notes, until they cover the target.  *)
Selections(w, target) ==
    {is \in SUBSET Unspent(w) :
        /\ Total(w, is) >= target
        /\ \A i \in is : \A j \in Unspent(w) \ is : Amount[w[i].c] >= Amount[w[j].c]
        /\ \E i \in is : /\ Total(w, is \ {i}) < target
                         /\ \A j \in is : Amount[w[i].c] <= Amount[w[j].c]}

-----------------------------------------------------------------------------
(* cache/proof_cache.rs: dayRoots[d + 1] is the root of day d or Zero,       *)
(* current is {} or one [day, roots, nr].                                    *)

NewCache == [anchor |-> Zero, nr |-> 0, dayRoots |-> <<>>, current |-> {}]

UpdateDayRoots(c, rows) ==
    LET length == Max({Len(c.dayRoots)} \cup {d + 1 : d \in DOMAIN rows})
    IN  [c EXCEPT !.dayRoots = [i \in 1..length |->
            IF i - 1 \in DOMAIN rows THEN rows[i - 1]
            ELSE IF i \in DOMAIN c.dayRoots THEN c.dayRoots[i] ELSE Zero]]

SetCurrentDayRootsOnly(c, day, answer, nr) ==
    [c EXCEPT !.current = {[day |-> day, roots |-> answer.roots, nr |-> nr]}]

SetCurrentDayBlockRoots(c, day, answer, nr) ==
    [UpdateDayRoots(c, [d \in {day} |-> answer.dayRoot])
        EXCEPT !.current = {[day |-> day, roots |-> answer.roots, nr |-> nr]}]

NeedsCurrentDayRefresh(c, day, nr) == \A r \in c.current : r.day # day \/ r.nr < nr

FinalizedDaysCached(c) ==
    LET cached == Len(c.dayRoots)
    IN  IF c.current = {} THEN DayBefore(cached)
        ELSE Min({cached} \cup {r.day : r \in c.current})

(* The tree over days that compute_day_path and compute_global_root build.   *)
CachedTree(c) ==
    [d \in {i - 1 : i \in {i \in DOMAIN c.dayRoots : c.dayRoots[i] # Zero}} |->
        c.dayRoots[d + 1]]

InDaySiblings(n, c) ==
    UNION {IF p.inDay # {} THEN p.inDay
           ELSE {Siblings(r.roots, n.index) : r \in {r \in c.current : r.day = n.day}} :
              p \in n.proof}

(* The roots that the path built for a note leads to: none when a part of    *)
(* the path is missing.                                                      *)
PathRoots(n, c) ==
    {RootFrom(Siblings(CachedTree(c), n.day), n.day,
              RootFrom(s, n.index, RootFrom(p.block, n.leaf, n.c))) :
        p \in n.proof, s \in InDaySiblings(n, c)}

(* validate: conservation and equal assets hold by how the outputs are       *)
(* chosen, so the number of inputs is what is left.                          *)
Validates(ns) == Cardinality(ns) \in 1..2

(* The circuit takes two inputs: a single one is padded with a note of no    *)
(* value, public key zero and the circuit's key constant.                    *)
CircuitInputs(ns, c) ==
    {[roots |-> PathRoots(n, c), key |-> "own", owner |-> "own"] : n \in ns}
    \cup IF Cardinality(ns) = 1
         THEN {[roots |-> {}, key |-> "constant", owner |-> "zero"]} ELSE {}

(* An input lies under the anchor or has the key constant, one does lie      *)
(* there, and each public key is derived from its key.                       *)
Circuit(inputs, anchor) ==
    /\ \E i \in inputs : i.roots = {anchor}
    /\ \A i \in inputs : i.roots = {anchor} \/ i.key = "constant"
    /\ \A i \in inputs : i.key = i.owner

Proves(ns, c) ==
    /\ c.anchor # Zero
    /\ \A n \in ns : PathRoots(n, c) # {}
    /\ Validates(ns) /\ Circuit(CircuitInputs(ns, c), c.anchor)

-----------------------------------------------------------------------------
(* A command.                                                                *)

IsSync == cmd \in {"sync", "full"}

Stop(step) ==
    /\ pc' = step /\ mem' = <<>> /\ cache' = NewCache /\ picked' = {} /\ queue' = <<>>
    /\ days' = {} /\ status' = [nr |-> 0, day |-> 0, anchor |-> Zero]

(* Every command loads the wallet and the cache and begins with a sync.      *)
Begin(k, loaded, selected) ==
    /\ pc = "idle"
    /\ commands < MaxCommands
    /\ mem' = file /\ cache' = loaded /\ picked' = selected
    /\ cmd' = k /\ pc' = "status" /\ commands' = commands + 1
    /\ UNCHANGED <<file, cacheFile, status, days, queue, spends, faults, history>>

StartSync(full) ==
    IF full THEN Begin("full", NewCache, {}) ELSE Begin("sync", cacheFile, {})

StartTransfer == Begin("transfer", cacheFile, {})

(* withdraw selects, and copies, the notes before it syncs.                  *)
StartWithdraw(selection) ==
    /\ \E t \in Targets : selection \in Selections(file, t)
    /\ Begin("withdraw", cacheFile, {file[i] : i \in selection})

StartConsolidate ==
    /\ Cardinality(Unspent(file)) > 1
    /\ Begin("consolidate", cacheFile, {})

GetStatus ==
    /\ pc = "status"
    /\ status' = GetSyncStatus
    /\ history' = [history EXCEPT !.moved = FALSE, !.untidy = @ \/ ~Tidy]
    /\ pc' = "days"
    /\ UNCHANGED <<file, cacheFile, mem, cache, cmd, days, picked, queue, spends,
                   commands, faults>>

FirstMissing == FinalizedDaysCached(cache)

FetchDayRoots ==
    /\ pc = "days"
    /\ cache' = IF status.day > 0 /\ FirstMissing <= status.day - 1
                THEN UpdateDayRoots(cache, GetDayRoots(FirstMissing, status.day - 1))
                ELSE cache
    /\ pc' = "current"
    /\ UNCHANGED <<file, cacheFile, mem, cmd, status, days, picked, queue, spends,
                   commands, faults, history>>

FetchCurrentDay ==
    /\ pc = "current"
    /\ cache' = IF NeedsCurrentDayRefresh(cache, status.day, status.nr) \/ cmd = "full"
                THEN SetCurrentDayBlockRoots(cache, status.day,
                                             GetBlockRoots(status.day), status.nr)
                ELSE cache
    /\ pc' = IF Unspent(mem) = {} THEN "finalize" ELSE "proofs"
    /\ UNCHANGED <<file, cacheFile, mem, cmd, status, days, picked, queue, spends,
                   commands, faults, history>>

FetchBlockProof ==
    /\ pc = "proofs"
    /\ NeedingBlockProof(mem) # {}
    /\ LET i == Min(NeedingBlockProof(mem))
           answer == GetBlockTreeProof(mem[i].nr, mem[i].leaf)
       IN  IF answer = {}
           THEN Stop("idle")
           ELSE /\ mem' = StoreBlockProof(mem, i, CHOOSE s \in answer : TRUE)
                /\ UNCHANGED <<pc, cache, picked, queue, days, status>>
    /\ UNCHANGED <<file, cacheFile, cmd, spends, commands, faults, history>>

BlockProofsStored ==
    /\ pc = "proofs"
    /\ NeedingBlockProof(mem) = {}
    /\ days' = {mem[i].day : i \in NeedingDayFinalization(mem, status.day)}
    /\ pc' = "finalize"
    /\ UNCHANGED <<file, cacheFile, mem, cache, cmd, status, picked, queue, spends,
                   commands, faults, history>>

FinalizeOneDay(day) ==
    /\ pc = "finalize"
    /\ day \in days
    /\ mem' = FinalizeDay(mem, day, GetBlockRoots(day).roots)
    /\ days' = days \ {day}
    /\ UNCHANGED <<file, cacheFile, cache, pc, cmd, status, picked, queue, spends,
                   commands, faults, history>>

(* The sync point is set; sync itself saves the wallet, every command saves  *)
(* the cache.                                                                *)
EndSync ==
    /\ pc = "finalize"
    /\ days = {}
    /\ cache' = [cache EXCEPT !.anchor = status.anchor, !.nr = status.nr]
    /\ file' = IF IsSync THEN mem ELSE file
    /\ pc' = "cache"
    /\ UNCHANGED <<cacheFile, mem, cmd, status, days, picked, queue, spends, commands,
                   faults, history>>

SaveCache ==
    /\ pc = "cache"
    /\ cacheFile' = cache
    /\ IF IsSync THEN Stop("search")
       ELSE pc' = "build" /\ UNCHANGED <<mem, cache, picked, queue, days, status>>
    /\ UNCHANGED <<file, cmd, spends, commands, faults, history>>

(* Pairs of unspent notes in the order of the file.                          *)
Pairs(w) ==
    LET place(i) == Cardinality({j \in Unspent(w) : j <= i})
    IN  [k \in 1..(Cardinality(Unspent(w)) \div 2) |->
            {w[i] : i \in {i \in Unspent(w) : place(i) \in {2 * k - 1, 2 * k}}}]

(* All proofs of a command are generated before the first is submitted.      *)
ProveAll(txs) ==
    /\ IF \A k \in DOMAIN txs : Proves(txs[k], cache)
       THEN /\ queue' = [k \in DOMAIN txs |-> {n.c : n \in txs[k]}]
            /\ pc' = "submit"
            /\ UNCHANGED <<mem, cache, picked, days, status>>
       ELSE Stop("idle")
    /\ UNCHANGED <<file, cacheFile, cmd, spends, commands, faults, history>>

(* transfer selects among the notes in memory, after the sync.               *)
BuildTransfer ==
    /\ pc = "build" /\ cmd = "transfer"
    /\ \E t \in Targets : \E is \in Selections(mem, t) : ProveAll(<<{mem[i] : i \in is}>>)

(* withdraw goes on with the copies it made before the sync.                 *)
BuildWithdrawal ==
    /\ pc = "build" /\ cmd = "withdraw"
    /\ ProveAll(<<picked>>)

BuildConsolidation ==
    /\ pc = "build" /\ cmd = "consolidate"
    /\ ProveAll(Pairs(mem))

CannotSelect ==
    /\ pc = "build" /\ cmd = "transfer"
    /\ \E t \in Targets : Selections(mem, t) = {}
    /\ Stop("idle")
    /\ UNCHANGED <<file, cacheFile, cmd, spends, commands, faults, history>>

Accepted(cs) == cs \cap spends = {}

(* The inputs are marked in memory only; after the last transaction the      *)
(* wallet is saved.                                                          *)
SubmitAccepted ==
    /\ pc = "submit"
    /\ queue # <<>>
    /\ Accepted(Head(queue))
    /\ spends' = spends \cup Head(queue)
    /\ mem' = MarkSpent(mem, Head(queue))
    /\ queue' = Tail(queue)
    /\ UNCHANGED <<file, cacheFile, cache, pc, cmd, status, days, picked, commands,
                   faults, history>>

HasUnsavedMarks == \E i \in DOMAIN mem : mem[i].spent /\ ~file[i].spent

(* Every answer that is not "accepted" ends the command, and what it marked  *)
(* before is not saved. The mempool may also refuse what it could accept.    *)
SubmitRefused ==
    /\ pc = "submit"
    /\ queue # <<>>
    /\ ~Accepted(Head(queue)) \/ faults < MaxFaults
    /\ faults' = IF Accepted(Head(queue)) THEN faults + 1 ELSE faults
    /\ history' = [history EXCEPT !.cut = @ \/ HasUnsavedMarks]
    /\ Stop("idle")
    /\ UNCHANGED <<file, cacheFile, cmd, spends, commands>>

SaveWallet ==
    /\ pc = "submit"
    /\ queue = <<>>
    /\ file' = mem
    /\ Stop("idle")
    /\ UNCHANGED <<cacheFile, cmd, spends, commands, faults, history>>

(* A question the sequencer does not answer with success ends the command.   *)
RequestFails ==
    /\ pc \in {"status", "days", "current", "proofs", "finalize"}
    /\ faults < MaxFaults
    /\ faults' = faults + 1
    /\ Stop("idle")
    /\ UNCHANGED <<file, cacheFile, cmd, spends, commands, history>>

(* The process is stopped, or the answer to a submission is lost; it may     *)
(* have been accepted all the same.                                          *)
StopProcess ==
    /\ pc # "idle"
    /\ faults < MaxFaults
    /\ faults' = faults + 1
    /\ spends' \in {spends} \cup {spends \cup cs :
                      cs \in {cs \in {queue[1] : k \in DOMAIN queue} : Accepted(cs)}}
    /\ history' = [history EXCEPT !.cut = @ \/ HasUnsavedMarks \/ spends' # spends]
    /\ Stop("idle")
    /\ UNCHANGED <<file, cacheFile, cmd, commands>>
=============================================================================
