----------------------------- MODULE ClientProofs -----------------------------
(* Three results about the client of MCClient. The marks in the saved wallet *)
(* are those of notes whose spending the sequencer accepted, whatever part   *)
(* of a command was cut: the invariant SpendInv follows the copy of the      *)
(* wallet that a command works on and the transactions it has still to       *)
(* submit. A withdrawal reported as executed was paid: PaidInv follows the   *)
(* numbers of an entry from the answers of the sequencer to the marks of the *)
(* contract, as long as no block is taken back. The path of every unspent    *)
(* note leads to the anchor after a sync: SyncedInv says what the wallet and *)
(* the cache on disk may be left with by commands that ended anywhere, and   *)
(* what each step of a sync makes of it while the sequencer goes on.         *)
EXTENDS MCClient, FiniteSetTheorems, SequenceTheorems, WellFoundedInduction, TLAPS

-----------------------------------------------------------------------------
(* Wallets.                                                                  *)

IsNote(n) ==
    /\ n = [f \in DOMAIN n |-> n[f]]
    /\ {"c", "spent", "proof"} \subseteq DOMAIN n
    /\ n.spent \in BOOLEAN

IsWallet(w) ==
    /\ Len(w) \in Nat
    /\ w = [i \in 1..Len(w) |-> w[i]]
    /\ \A i \in 1..Len(w) : IsNote(w[i])

Marks(w) == {w[i].c : i \in {i \in DOMAIN w : w[i].spent}}
Cs(w) == {w[i].c : i \in DOMAIN w}

(* A copy of wallet v that a command works on: the same notes in the same    *)
(* places, no mark taken off.                                                *)
CopyOf(w, v) ==
    /\ IsWallet(w)
    /\ Len(w) = Len(v)
    /\ \A i \in 1..Len(v) : w[i].c = v[i].c /\ (v[i].spent => w[i].spent)

(* The steps of a command between loading the wallet and its end.            *)
Loaded == {"status", "days", "current", "proofs", "finalize", "cache", "build", "submit"}

HistoryOK == history \in [rolled : BOOLEAN, untidy : BOOLEAN, moved : BOOLEAN, cut : BOOLEAN]
FileOK == IsWallet(file) /\ Marks(file) \subseteq spends
CopyOK == IF pc \in Loaded THEN CopyOf(mem, file) ELSE mem = <<>>
CopyMarks == Marks(mem) \subseteq spends
QueueOK == queue \in Seq(SUBSET Cs(file)) /\ \A n \in picked : n.c \in Cs(file)
NoneUnsaved == pc # "submit" => queue = <<>> /\ \A i \in DOMAIN mem : mem[i].spent => file[i].spent
MarksAgree == ~history.cut => (IF pc = "submit" THEN Marks(mem) ELSE Marks(file)) = spends

(* What holds between any two steps of a command. Before the first           *)
(* submission the copy has no mark that the file lacks; from then on the     *)
(* marks of the copy are those the sequencer accepted, and what is left to   *)
(* submit are notes of the wallet.                                           *)
SpendInv ==
    /\ HistoryOK /\ FileOK /\ CopyOK /\ CopyMarks /\ QueueOK /\ NoneUnsaved /\ MarksAgree

(* One list after another, place by place.                                   *)
LEMMA Joined ==
  ASSUME NEW m \in Nat, NEW n \in Nat, NEW v, NEW w,
         v = [k \in 1..m |-> v[k]], w = [k \in 1..n |-> w[k]]
  PROVE  v \o w = [k \in 1..(m + n) |-> IF k <= m THEN v[k] ELSE w[k - m]]
<1> DEFINE S == {v[k] : k \in 1..m} \cup {w[k] : k \in 1..n}
<1>1. (\A k \in 1..m : v[k] \in S) /\ (\A k \in 1..n : w[k] \in S)
  OBVIOUS
<1> HIDE DEF S
<1>2. v \in Seq(S) /\ w \in Seq(S) /\ Len(v) = m /\ Len(w) = n
  BY <1>1
<1>3. v \o w \in Seq(S) /\ Len(v \o w) = m + n
      /\ \A k \in 1..(m + n) : (v \o w)[k] = IF k <= m THEN v[k] ELSE w[k - m]
  BY <1>2, ConcatProperties
<1> DEFINE u == v \o w
<1> HIDE DEF u
<1>4. u \in Seq(S) /\ Len(u) = m + n
  BY <1>3 DEF u
<1>5. u = [k \in 1..(m + n) |-> u[k]]
  BY <1>4
<1>6. \A k \in 1..(m + n) : u[k] = IF k <= m THEN v[k] ELSE w[k - m]
  BY <1>3 DEF u
<1> QED BY <1>5, <1>6 DEF u

(* Some numbers have a least one, and Min is it.                             *)
LEMMA MinOfNumbers ==
  ASSUME NEW S, S \subseteq Nat, S # {}
  PROVE  Min(S) \in S /\ \A y \in S : Min(S) <= y
<1>1. PICK x \in S : \A y \in S : <<y, x>> \notin OpToRel(<, Nat)
  BY NatLessThanWellFounded, WFMin
<1>2. \A y \in S : ~(y < x)
  BY <1>1 DEF OpToRel
<1>3. \A y \in S : x <= y
  BY <1>2
<1> QED BY <1>3 DEF Min

(* The empty list is a wallet without marks.                                 *)
LEMMA EmptyWallet == IsWallet(<<>>) /\ Marks(<<>>) = {} /\ DOMAIN <<>> = {}
  BY DEF IsWallet, Marks

(* A function changed at one argument.                                       *)
LEMMA ChangedAt ==
  ASSUME NEW n, n = [f \in DOMAIN n |-> n[f]], NEW x \in DOMAIN n, NEW b
  PROVE  /\ [n EXCEPT ![x] = b] = [f \in DOMAIN n |-> [n EXCEPT ![x] = b][f]]
         /\ DOMAIN [n EXCEPT ![x] = b] = DOMAIN n
         /\ [n EXCEPT ![x] = b][x] = b
         /\ \A f \in DOMAIN n : f # x => [n EXCEPT ![x] = b][f] = n[f]
  OBVIOUS

(* Storing or finalizing a proof changes neither the note nor its mark       *)
(* (store_block_proof, finalize_day of wallet/notes.rs).                     *)
LEMMA ProofOfNote ==
  ASSUME NEW n, IsNote(n), NEW p
  PROVE  /\ IsNote([n EXCEPT !.proof = p])
         /\ [n EXCEPT !.proof = p].c = n.c
         /\ [n EXCEPT !.proof = p].spent = n.spent
<1> DEFINE m == [n EXCEPT !["proof"] = p]
<1>1. /\ m = [f \in DOMAIN n |-> m[f]] /\ DOMAIN m = DOMAIN n
      /\ \A f \in DOMAIN n : f # "proof" => m[f] = n[f]
  BY ChangedAt DEF IsNote
<1>2. [n EXCEPT !.proof = p] = m
  OBVIOUS
<1> HIDE DEF m
<1>3. IsNote(m) /\ m.c = n.c /\ m.spent = n.spent
  BY <1>1 DEF IsNote
<1> QED BY <1>2, <1>3

(* Marking a note leaves everything else of it alone (mark_spent).           *)
LEMMA MarkOfNote ==
  ASSUME NEW n, IsNote(n), NEW b, b \in BOOLEAN
  PROVE  /\ IsNote([n EXCEPT !.spent = b])
         /\ [n EXCEPT !.spent = b].c = n.c
         /\ [n EXCEPT !.spent = b].spent = b
<1> DEFINE m == [n EXCEPT !["spent"] = b]
<1>1. /\ m = [f \in DOMAIN n |-> m[f]] /\ DOMAIN m = DOMAIN n /\ m["spent"] = b
      /\ \A f \in DOMAIN n : f # "spent" => m[f] = n[f]
  BY ChangedAt DEF IsNote
<1>2. [n EXCEPT !.spent = b] = m
  OBVIOUS
<1> HIDE DEF m
<1>3. IsNote(m) /\ m.c = n.c /\ m.spent = b
  BY <1>1 DEF IsNote
<1> QED BY <1>2, <1>3

(* A wallet given place by place.                                            *)
LEMMA WalletByPlace ==
  ASSUME NEW k \in Nat, NEW w, w = [i \in 1..k |-> w[i]], \A i \in 1..k : IsNote(w[i])
  PROVE  IsWallet(w) /\ Len(w) = k /\ DOMAIN w = 1..k
  BY DEF IsWallet

(* A block proof stored in a copy (store_block_proof): the same notes, the   *)
(* same marks.                                                               *)
LEMMA StoringCopies ==
  ASSUME NEW v, NEW w, CopyOf(w, v), NEW i \in DOMAIN w, NEW s,
         \A j \in DOMAIN w : w[j].spent => v[j].spent
  PROVE  /\ CopyOf(StoreBlockProof(w, i, s), v)
         /\ Marks(StoreBlockProof(w, i, s)) = Marks(w)
         /\ \A j \in DOMAIN StoreBlockProof(w, i, s) :
               StoreBlockProof(w, i, s)[j].spent => v[j].spent
<1> DEFINE p == {[block |-> s, inDay |-> {}]}
           u == StoreBlockProof(w, i, s)
<1>1. /\ Len(w) \in Nat /\ w = [j \in 1..Len(w) |-> w[j]] /\ DOMAIN w = 1..Len(w)
      /\ \A j \in 1..Len(w) : IsNote(w[j])
  BY DEF CopyOf, IsWallet
<1>2. u = [w EXCEPT ![i] = [w[i] EXCEPT !.proof = p]]
  BY DEF StoreBlockProof
<1>3. u = [j \in 1..Len(w) |-> u[j]]
  BY <1>1, <1>2
<1>4. \A j \in 1..Len(w) : IsNote(u[j]) /\ u[j].c = w[j].c /\ u[j].spent = w[j].spent
  <2> TAKE j \in 1..Len(w)
  <2>1. CASE j = i
    <3> DEFINE n == w[i]
               m == [n EXCEPT !.proof = p]
    <3> HIDE DEF n, p
    <3>1. IsNote(n)
      BY <1>1, <2>1 DEF n
    <3>2. IsNote(m) /\ m.c = n.c /\ m.spent = n.spent
      BY <3>1, ProofOfNote
    <3>3. u[i] = m
      BY <1>1, <1>2, <2>1 DEF n
    <3> HIDE DEF m, u
    <3> QED BY <2>1, <3>2, <3>3 DEF n
  <2>2. CASE j # i
    BY <2>2, <1>1, <1>2
  <2> QED BY <2>1, <2>2
<1> HIDE DEF u
<1>5. IsWallet(u) /\ Len(u) = Len(w) /\ DOMAIN u = 1..Len(w)
  BY <1>1, <1>3, <1>4, WalletByPlace
<1> QED
  BY <1>1, <1>4, <1>5 DEF CopyOf, Marks, u

(* A day finalized in a copy (finalize_day): the same notes, the same marks. *)
LEMMA FinalizingCopies ==
  ASSUME NEW v, NEW w, CopyOf(w, v), NEW day, NEW tree,
         \A j \in DOMAIN w : w[j].spent => v[j].spent
  PROVE  /\ CopyOf(FinalizeDay(w, day, tree), v)
         /\ Marks(FinalizeDay(w, day, tree)) = Marks(w)
         /\ \A j \in DOMAIN FinalizeDay(w, day, tree) :
               FinalizeDay(w, day, tree)[j].spent => v[j].spent
<1> DEFINE u == FinalizeDay(w, day, tree)
<1>1. /\ Len(w) \in Nat /\ w = [j \in 1..Len(w) |-> w[j]] /\ DOMAIN w = 1..Len(w)
      /\ \A j \in 1..Len(w) : IsNote(w[j])
  BY DEF CopyOf, IsWallet
<1>2. /\ u = [j \in 1..Len(w) |-> u[j]]
      /\ \A j \in 1..Len(w) : \/ u[j] = w[j]
                             \/ \E p : u[j] = [w[j] EXCEPT !.proof = p]
  BY <1>1 DEF FinalizeDay
<1>4. \A j \in 1..Len(w) : IsNote(u[j]) /\ u[j].c = w[j].c /\ u[j].spent = w[j].spent
  <2> TAKE j \in 1..Len(w)
  <2>1. CASE u[j] = w[j]
    BY <2>1, <1>1
  <2>2. ASSUME NEW p, u[j] = [w[j] EXCEPT !.proof = p]
        PROVE  IsNote(u[j]) /\ u[j].c = w[j].c /\ u[j].spent = w[j].spent
    <3> DEFINE n == w[j]
               m == [n EXCEPT !.proof = p]
    <3> HIDE DEF n, u
    <3>1. IsNote(n)
      BY <1>1 DEF n
    <3>2. IsNote(m) /\ m.c = n.c /\ m.spent = n.spent
      BY <3>1, ProofOfNote
    <3>3. u[j] = m
      BY <2>2 DEF n
    <3> HIDE DEF m
    <3> QED BY <3>2, <3>3 DEF n
  <2> QED BY <1>2, <2>1, <2>2
<1> HIDE DEF u
<1>5. IsWallet(u) /\ Len(u) = Len(w) /\ DOMAIN u = 1..Len(w)
  BY <1>1, <1>2, <1>4, WalletByPlace
<1> QED
  BY <1>1, <1>4, <1>5 DEF CopyOf, Marks, u

(* Marking the inputs of a transaction marks these notes and no others.      *)
LEMMA MarkingCopies ==
  ASSUME NEW v, NEW w, CopyOf(w, v), NEW cs
  PROVE  /\ CopyOf(MarkSpent(w, cs), v)
         /\ Marks(MarkSpent(w, cs)) = Marks(w) \cup (cs \cap Cs(w))
<1> DEFINE u == MarkSpent(w, cs)
<1>1. /\ Len(w) \in Nat /\ DOMAIN w = 1..Len(w)
      /\ \A j \in 1..Len(w) : IsNote(w[j]) /\ w[j].spent \in BOOLEAN
  BY DEF CopyOf, IsWallet, IsNote
<1>2. u = [j \in 1..Len(w) |-> [w[j] EXCEPT !.spent = w[j].spent \/ w[j].c \in cs]]
  BY <1>1 DEF MarkSpent
<1>4. \A j \in 1..Len(w) : /\ IsNote(u[j]) /\ u[j].c = w[j].c
                           /\ u[j].spent = (w[j].spent \/ w[j].c \in cs)
  <2> TAKE j \in 1..Len(w)
  <2> DEFINE n == w[j]
             b == n.spent \/ n.c \in cs
             m == [n EXCEPT !.spent = b]
  <2>1. u[j] = m
    BY <1>2
  <2> HIDE DEF n, u
  <2>2. IsNote(n) /\ b \in BOOLEAN
    BY <1>1 DEF n
  <2> HIDE DEF b
  <2>3. IsNote(m) /\ m.c = n.c /\ m.spent = b
    BY <2>2, MarkOfNote
  <2> HIDE DEF m
  <2> QED BY <2>1, <2>3 DEF n, b
<1>3. u = [j \in 1..Len(w) |-> u[j]]
  BY <1>2
<1> HIDE DEF u
<1>5. IsWallet(u) /\ Len(u) = Len(w) /\ DOMAIN u = 1..Len(w)
  BY <1>1, <1>3, <1>4, WalletByPlace
<1>6. CopyOf(u, v)
  BY <1>1, <1>4, <1>5 DEF CopyOf
<1>7. Marks(u) = Marks(w) \cup (cs \cap Cs(w))
  BY <1>1, <1>4, <1>5 DEF Marks, Cs
<1> QED BY <1>6, <1>7 DEF u

(* A copy has the notes of what it was copied from.                          *)
LEMMA CopyHasNotes ==
  ASSUME NEW v, NEW w, IsWallet(v), CopyOf(w, v)
  PROVE  /\ Cs(w) = Cs(v) /\ DOMAIN w = DOMAIN v /\ DOMAIN w = 1..Len(w)
         /\ (\A i \in DOMAIN w : w[i].spent => v[i].spent) => Marks(w) = Marks(v)
  BY DEF CopyOf, IsWallet, Cs, Marks

-----------------------------------------------------------------------------
(* Steps that leave the wallet and its copy alone.                           *)
LEMMA WalletUntouched ==
  ASSUME SpendInv, UNCHANGED <<file, mem, picked, queue, spends>>,
         history' \in [rolled : BOOLEAN, untidy : BOOLEAN, moved : BOOLEAN, cut : BOOLEAN],
         history'.cut = history.cut,
         pc' \in Loaded <=> pc \in Loaded, pc' = "submit" <=> pc = "submit"
  PROVE  SpendInv'
  BY DEF SpendInv, HistoryOK, FileOK, CopyOK, CopyMarks, QueueOK, NoneUnsaved, MarksAgree

(* What the steps outside of the client remember of themselves.              *)
LEMMA HistoryOfOthers ==
  ASSUME HistoryOK,
         \/ history' = history
         \/ history' = [history EXCEPT !.moved = (pc # "idle")]
         \/ history' = [history EXCEPT !.moved = (pc # "idle"), !.rolled = TRUE]
         \/ history' = [history EXCEPT !.moved = FALSE, !.untidy = @ \/ ~Tidy]
  PROVE  /\ history' \in [rolled : BOOLEAN, untidy : BOOLEAN, moved : BOOLEAN, cut : BOOLEAN]
         /\ history'.cut = history.cut
  BY DEF HistoryOK

(* What a rollback remembers.                                                *)
LEMMA RolledRemembered ==
  ASSUME HistoryOK, history' = [history EXCEPT !.moved = (pc # "idle"), !.rolled = TRUE]
  PROVE  history'.rolled = TRUE
  BY DEF HistoryOK

(* What the end of a command remembers.                                      *)
LEMMA CutRemembered ==
  ASSUME HistoryOK, NEW b, b \in BOOLEAN, history' = [history EXCEPT !.cut = @ \/ b]
  PROVE  /\ history' \in [rolled : BOOLEAN, untidy : BOOLEAN, moved : BOOLEAN, cut : BOOLEAN]
         /\ history'.cut = (history.cut \/ b)
  BY DEF HistoryOK

(* The end of a command, or of the process, from which the file is left as   *)
(* it was. Nothing is lost without the history saying so.                    *)
LEMMA StopKeeps ==
  ASSUME SpendInv, NEW step, step \notin Loaded, Stop(step), file' = file,
         spends \subseteq spends',
         history' \in [rolled : BOOLEAN, untidy : BOOLEAN, moved : BOOLEAN, cut : BOOLEAN],
         history'.cut = (history.cut \/ HasUnsavedMarks \/ spends' # spends)
  PROVE  SpendInv'
<1> USE DEF SpendInv, FileOK, CopyOK
<1>1. pc' = step /\ pc' # "submit" /\ mem' = <<>> /\ queue' = <<>> /\ picked' = {}
  BY DEF Stop, Loaded
<1>2. CopyOK' /\ CopyMarks' /\ QueueOK' /\ NoneUnsaved'
  BY <1>1, EmptyWallet DEF CopyMarks, QueueOK, NoneUnsaved
<1>3. FileOK' /\ HistoryOK'
  BY DEF HistoryOK
<1>4. MarksAgree'
  <2> SUFFICES ASSUME ~history'.cut PROVE Marks(file) = spends
    BY <1>1 DEF MarksAgree, Marks
  <2>1. ~history.cut /\ ~HasUnsavedMarks /\ spends' = spends
    OBVIOUS
  <2>2. CASE pc # "submit"
    BY <2>1, <2>2 DEF MarksAgree
  <2>3. CASE pc = "submit"
    <3>1. Marks(mem) = spends /\ CopyOf(mem, file)
      BY <2>1, <2>3 DEF MarksAgree, Loaded
    <3>2. \A i \in DOMAIN mem : mem[i].spent => file[i].spent
      BY <2>1 DEF HasUnsavedMarks
    <3> QED BY <3>1, <3>2, CopyHasNotes
  <2> QED BY <2>2, <2>3
<1> QED BY <1>2, <1>3, <1>4

(* A stop before the first submission cuts nothing.                          *)
LEMMA EarlyStopKeeps ==
  ASSUME SpendInv, NEW step, step \notin Loaded, Stop(step), UNCHANGED <<file, spends, history>>,
         pc # "submit"
  PROVE  SpendInv'
<1>1. ~HasUnsavedMarks
  BY DEF SpendInv, NoneUnsaved, HasUnsavedMarks
<1>2. /\ history' \in [rolled : BOOLEAN, untidy : BOOLEAN, moved : BOOLEAN, cut : BOOLEAN]
      /\ history.cut \in BOOLEAN
  BY DEF SpendInv, HistoryOK
<1>3. history'.cut = (history.cut \/ HasUnsavedMarks \/ spends' # spends)
  BY <1>1, <1>2
<1> QED BY <1>2, <1>3, StopKeeps

(* Loading the wallet (Begin): the copy has the marks of the file.           *)
LEMMA BeginKeeps ==
  ASSUME SpendInv, NEW k, NEW loaded, NEW selected, Begin(k, loaded, selected),
         \A n \in selected : n.c \in Cs(file)
  PROVE  SpendInv'
<1>1. /\ pc = "idle" /\ pc' = "status" /\ mem' = file /\ picked' = selected
      /\ UNCHANGED <<file, queue, spends, history>>
  BY DEF Begin
<1>2. IsWallet(file) /\ Marks(file) \subseteq spends /\ queue = <<>>
  BY <1>1 DEF SpendInv, FileOK, NoneUnsaved
<1>3. CopyOf(file, file)
  BY <1>2 DEF CopyOf
<1>4. CopyOK' /\ CopyMarks' /\ FileOK' /\ HistoryOK'
  BY <1>1, <1>2, <1>3 DEF CopyOK, CopyMarks, FileOK, HistoryOK, SpendInv, Loaded
<1>5. QueueOK'
  BY <1>1 DEF QueueOK, SpendInv
<1>6. NoneUnsaved' /\ MarksAgree'
  BY <1>1, <1>2 DEF NoneUnsaved, MarksAgree, SpendInv
<1> QED BY <1>4, <1>5, <1>6 DEF SpendInv

(* Proofs that arrive during the sync are written into the copy.             *)
LEMMA CopyChanges ==
  ASSUME SpendInv, pc \in Loaded, pc' = pc, pc # "submit",
         UNCHANGED <<file, picked, queue, spends, history>>,
         CopyOf(mem', file), Marks(mem') = Marks(mem),
         \A i \in DOMAIN mem' : mem'[i].spent => file[i].spent
  PROVE  SpendInv'
  BY DEF SpendInv, HistoryOK, FileOK, CopyOK, CopyMarks, QueueOK, NoneUnsaved, MarksAgree

(* The wallet's steps, one lemma for each kind. A note's block proof         *)
(* arrives, or there is none and the command ends.                           *)
LEMMA FetchBlockProofKeeps == SpendInv /\ FetchBlockProof => SpendInv'
<1> SUFFICES ASSUME SpendInv, FetchBlockProof PROVE SpendInv'
  OBVIOUS
<1> DEFINE i == Min(NeedingBlockProof(mem))
           answer == GetBlockTreeProof(mem[i].nr, mem[i].leaf)
           s == CHOOSE s \in answer : TRUE
<1>1. /\ pc = "proofs" /\ NeedingBlockProof(mem) # {}
      /\ UNCHANGED <<file, spends, history>>
      /\ \/ Stop("idle")
         \/ /\ mem' = StoreBlockProof(mem, i, s)
            /\ UNCHANGED <<pc, picked, queue>>
  BY DEF FetchBlockProof
<1> HIDE DEF i, s
<1>2. CASE Stop("idle")
  BY <1>1, <1>2, EarlyStopKeeps DEF Loaded
<1>3. CASE mem' = StoreBlockProof(mem, i, s) /\ UNCHANGED <<pc, picked, queue>>
  <2>1. CopyOf(mem, file) /\ \A j \in DOMAIN mem : mem[j].spent => file[j].spent
    BY <1>1 DEF SpendInv, CopyOK, Loaded, NoneUnsaved
  <2>2. NeedingBlockProof(mem) \subseteq DOMAIN mem /\ DOMAIN mem = 1..Len(mem) /\ Len(mem) \in Nat
    BY <2>1 DEF NeedingBlockProof, Unspent, CopyOf, IsWallet
  <2>3. i \in NeedingBlockProof(mem)
    <3> DEFINE S == NeedingBlockProof(mem)
    <3>1. S \subseteq Nat /\ S # {}
      BY <1>1, <2>2
    <3> HIDE DEF S
    <3> QED BY <3>1, MinOfNumbers DEF i, S
  <2>4. /\ CopyOf(mem', file) /\ Marks(mem') = Marks(mem)
        /\ \A j \in DOMAIN mem' : mem'[j].spent => file[j].spent
    <3>1. i \in DOMAIN mem
      BY <2>2, <2>3
    <3>2. /\ CopyOf(StoreBlockProof(mem, i, s), file)
          /\ Marks(StoreBlockProof(mem, i, s)) = Marks(mem)
          /\ \A j \in DOMAIN StoreBlockProof(mem, i, s) :
                StoreBlockProof(mem, i, s)[j].spent => file[j].spent
      BY <2>1, <3>1, StoringCopies
    <3> QED BY <1>3, <3>2
  <2> QED BY <1>1, <1>3, <2>4, CopyChanges DEF Loaded
<1> QED BY <1>1, <1>2, <1>3

(* The paths of a finished day arrive.                                       *)
LEMMA FinalizeOneDayKeeps ==
  ASSUME SpendInv, NEW d, FinalizeOneDay(d)
  PROVE  SpendInv'
<1>1. /\ pc = "finalize" /\ mem' = FinalizeDay(mem, d, GetBlockRoots(d).roots)
      /\ UNCHANGED <<file, pc, picked, queue, spends, history>>
  BY DEF FinalizeOneDay
<1>2. CopyOf(mem, file) /\ \A j \in DOMAIN mem : mem[j].spent => file[j].spent
  BY <1>1 DEF SpendInv, CopyOK, Loaded, NoneUnsaved
<1>3. /\ CopyOf(mem', file) /\ Marks(mem') = Marks(mem)
      /\ \A j \in DOMAIN mem' : mem'[j].spent => file[j].spent
  BY <1>1, <1>2, FinalizingCopies
<1> QED BY <1>1, <1>3, CopyChanges DEF Loaded

(* The wallet is saved: what was the copy is the file.                       *)
LEMMA SavingKeeps ==
  ASSUME SpendInv, pc \in Loaded, file' = mem,
         UNCHANGED <<spends, history>>
  PROVE  /\ FileOK' /\ HistoryOK' /\ Cs(file') = Cs(file)
         /\ ~history'.cut => Marks(file') = spends'
<1>1. CopyOf(mem, file) /\ IsWallet(file) /\ IsWallet(mem) /\ Cs(mem) = Cs(file)
  BY CopyHasNotes DEF SpendInv, CopyOK, FileOK, CopyOf
<1>2. ~history.cut => Marks(mem) = spends
  BY <1>1, CopyHasNotes DEF SpendInv, MarksAgree, NoneUnsaved
<1> QED
  BY <1>1, <1>2 DEF SpendInv, FileOK, HistoryOK, CopyMarks

(* The sync ends; the command sync saves the wallet here.                    *)
LEMMA EndSyncKeeps == SpendInv /\ EndSync => SpendInv'
<1> SUFFICES ASSUME SpendInv, EndSync PROVE SpendInv'
  OBVIOUS
<1>1. /\ pc = "finalize" /\ pc' = "cache" /\ file' \in {mem, file}
      /\ UNCHANGED <<mem, picked, queue, spends, history>>
  BY DEF EndSync
<1>2. CASE file' = file
  <2>1. history' \in [rolled : BOOLEAN, untidy : BOOLEAN, moved : BOOLEAN, cut : BOOLEAN]
    BY <1>1 DEF SpendInv, HistoryOK
  <2> QED BY <1>1, <1>2, <2>1, WalletUntouched DEF Loaded
<1>3. CASE file' = mem
  <2>1. /\ FileOK' /\ HistoryOK' /\ Cs(file') = Cs(file)
        /\ ~history'.cut => Marks(file') = spends'
    BY <1>1, <1>3, SavingKeeps DEF Loaded
  <2>2. IsWallet(mem) /\ CopyOf(mem, mem)
    BY <1>1 DEF SpendInv, CopyOK, CopyOf, Loaded
  <2>3. CopyOK' /\ CopyMarks'
    BY <1>1, <1>3, <2>2 DEF SpendInv, CopyOK, CopyMarks, Loaded
  <2>4. QueueOK' /\ NoneUnsaved' /\ MarksAgree'
    BY <1>1, <1>3, <2>1 DEF SpendInv, QueueOK, NoneUnsaved, MarksAgree
  <2> QED BY <2>1, <2>3, <2>4 DEF SpendInv
<1> QED BY <1>1, <1>2, <1>3

(* After the last submission the wallet is saved and the command ends.       *)
LEMMA SaveWalletKeeps == SpendInv /\ SaveWallet => SpendInv'
<1> SUFFICES ASSUME SpendInv, SaveWallet PROVE SpendInv'
  OBVIOUS
<1>1. /\ pc = "submit" /\ pc' = "idle" /\ file' = mem
      /\ mem' = <<>> /\ queue' = <<>> /\ picked' = {}
      /\ UNCHANGED <<spends, history>>
  BY DEF SaveWallet, Stop
<1>2. /\ FileOK' /\ HistoryOK' /\ Cs(file') = Cs(file)
      /\ ~history'.cut => Marks(file') = spends'
  BY <1>1, SavingKeeps DEF Loaded
<1>3. CopyOK' /\ CopyMarks' /\ QueueOK' /\ NoneUnsaved'
  BY <1>1, EmptyWallet DEF CopyOK, CopyMarks, QueueOK, NoneUnsaved, Loaded
<1> QED BY <1>1, <1>2, <1>3 DEF SpendInv, MarksAgree

(* The transactions that a command builds spend notes of the wallet.         *)
LEMMA ProveAllKeeps ==
  ASSUME SpendInv, NEW txs, ProveAll(txs), pc = "build",
         txs = [k \in 1..Len(txs) |-> txs[k]], Len(txs) \in Nat,
         \A k \in 1..Len(txs) : \A n \in txs[k] : n.c \in Cs(file)
  PROVE  SpendInv'
<1>1. CASE Stop("idle")
  BY <1>1, EarlyStopKeeps DEF Loaded, ProveAll
<1>2. CASE ~Stop("idle")
  <2>1. /\ queue' = [k \in DOMAIN txs |-> {n.c : n \in txs[k]}] /\ pc' = "submit"
        /\ UNCHANGED <<file, mem, picked, spends, history>>
    BY <1>2 DEF ProveAll
  <2>2. queue' \in Seq(SUBSET Cs(file))
    <3>1. \A k \in 1..Len(txs) : {n.c : n \in txs[k]} \in SUBSET Cs(file)
      OBVIOUS
    <3>2. queue' \in [1..Len(txs) -> SUBSET Cs(file)]
      BY <2>1, <3>1
    <3> QED BY <3>2
  <2>3. CopyOf(mem, file) /\ IsWallet(file) /\ Marks(mem) = Marks(file)
    BY CopyHasNotes DEF SpendInv, CopyOK, FileOK, NoneUnsaved, Loaded
  <2>4. QueueOK' /\ NoneUnsaved' /\ FileOK' /\ HistoryOK' /\ CopyMarks'
    BY <2>1, <2>2 DEF SpendInv, QueueOK, NoneUnsaved, FileOK, HistoryOK, CopyMarks, Cs
  <2>5. CopyOK' /\ MarksAgree'
    BY <2>1, <2>3 DEF SpendInv, CopyOK, MarksAgree, Loaded
  <2> QED BY <2>4, <2>5 DEF SpendInv
<1> QED BY <1>1, <1>2

(* Each command chooses among the notes of its copy, or of the file.         *)
LEMMA BuildKeeps == SpendInv /\ (BuildTransfer \/ BuildWithdrawal \/ BuildConsolidation) => SpendInv'
<1> SUFFICES ASSUME SpendInv, BuildTransfer \/ BuildWithdrawal \/ BuildConsolidation PROVE SpendInv'
  OBVIOUS
<1>1. pc = "build"
  BY DEF BuildTransfer, BuildWithdrawal, BuildConsolidation
<1>2. IsWallet(file) /\ CopyOf(mem, file) /\ Cs(mem) = Cs(file) /\ DOMAIN mem = 1..Len(mem)
      /\ Len(mem) \in Nat
  BY <1>1, CopyHasNotes DEF SpendInv, FileOK, CopyOK, Loaded, CopyOf, IsWallet
<1>3. ASSUME NEW t, NEW is \in Selections(mem, t), ProveAll(<<{mem[i] : i \in is}>>)
      PROVE  SpendInv'
  <2>1. \A n \in {mem[i] : i \in is} : n.c \in Cs(file)
    BY <1>2, <1>3 DEF Selections, Unspent, Cs
  <2> DEFINE tx == {mem[i] : i \in is}
  <2> HIDE DEF tx
  <2>2. /\ <<tx>> = [k \in 1..Len(<<tx>>) |-> <<tx>>[k]] /\ Len(<<tx>>) \in Nat
        /\ \A k \in 1..Len(<<tx>>) : <<tx>>[k] = tx
    OBVIOUS
  <2> QED BY <1>1, <1>3, <2>1, <2>2, ProveAllKeeps DEF tx
<1>4. ASSUME ProveAll(<<picked>>) PROVE SpendInv'
  <2>1. \A n \in picked : n.c \in Cs(file)
    BY DEF SpendInv, QueueOK
  <2>2. /\ <<picked>> = [k \in 1..Len(<<picked>>) |-> <<picked>>[k]] /\ Len(<<picked>>) \in Nat
        /\ \A k \in 1..Len(<<picked>>) : <<picked>>[k] = picked
    OBVIOUS
  <2> QED BY <1>1, <1>4, <2>1, <2>2, ProveAllKeeps
<1>5. ASSUME ProveAll(Pairs(mem)) PROVE SpendInv'
  <2>1. IsFiniteSet(Unspent(mem)) /\ Unspent(mem) \subseteq DOMAIN mem
    <3>1. IsFiniteSet(1..Len(mem))
      BY <1>2, FS_Interval
    <3> QED BY <3>1, <1>2, FS_Subset DEF Unspent
  <2>2. Cardinality(Unspent(mem)) \in Nat
    BY <2>1, FS_CardinalityType
  <2> DEFINE n == Cardinality(Unspent(mem)) \div 2
             place(i) == Cardinality({j \in Unspent(mem) : j <= i})
             at(k) == {i \in Unspent(mem) : place(i) \in {2 * k - 1, 2 * k}}
  <2>3. n \in Nat
    BY <2>2
  <2>4. Pairs(mem) = [k \in 1..n |-> {mem[i] : i \in at(k)}]
    BY DEF Pairs
  <2>5. \A k \in 1..n : \A m \in {mem[i] : i \in at(k)} : m.c \in Cs(file)
    <3>1. \A k \in 1..n : at(k) \subseteq DOMAIN mem
      BY <2>1
    <3> HIDE DEF at
    <3> QED BY <3>1, <1>2 DEF Cs
  <2> HIDE DEF at, place, n
  <2>6. Len(Pairs(mem)) = n /\ Pairs(mem) = [k \in 1..n |-> Pairs(mem)[k]]
    BY <2>3, <2>4
  <2>7. \A k \in 1..n : \A m \in Pairs(mem)[k] : m.c \in Cs(file)
    BY <2>4, <2>5
  <2> QED BY <1>1, <1>5, <2>3, <2>6, <2>7, ProveAllKeeps
<1> QED BY <1>3, <1>4, <1>5 DEF BuildTransfer, BuildWithdrawal, BuildConsolidation

(* An accepted transaction: its notes are spent, and marked in the copy.     *)
LEMMA SubmitAcceptedKeeps == SpendInv /\ SubmitAccepted => SpendInv'
<1> SUFFICES ASSUME SpendInv, SubmitAccepted PROVE SpendInv'
  OBVIOUS
<1> DEFINE cs == Head(queue)
<1>1. /\ pc = "submit" /\ pc' = "submit" /\ queue # <<>>
      /\ spends' = spends \cup cs /\ mem' = MarkSpent(mem, cs) /\ queue' = Tail(queue)
      /\ UNCHANGED <<file, picked, history>>
  BY DEF SubmitAccepted
<1>2. CopyOf(mem, file) /\ IsWallet(file) /\ Cs(mem) = Cs(file)
  BY <1>1, CopyHasNotes DEF SpendInv, CopyOK, FileOK, Loaded
<1>3. cs \subseteq Cs(file) /\ queue' \in Seq(SUBSET Cs(file))
  BY <1>1 DEF SpendInv, QueueOK
<1> HIDE DEF cs
<1>4. CopyOf(mem', file) /\ Marks(mem') = Marks(mem) \cup cs
  BY <1>1, <1>2, <1>3, MarkingCopies
<1>5. FileOK' /\ HistoryOK'
  BY <1>1 DEF SpendInv, FileOK, HistoryOK, Marks
<1>8. CopyOK' /\ CopyMarks'
  BY <1>1, <1>4 DEF SpendInv, CopyOK, CopyMarks, Loaded
<1>6. QueueOK' /\ NoneUnsaved'
  BY <1>1, <1>3 DEF SpendInv, QueueOK, NoneUnsaved, Cs
<1>7. MarksAgree'
  BY <1>1, <1>4 DEF SpendInv, MarksAgree
<1> QED BY <1>5, <1>6, <1>7, <1>8 DEF SpendInv

(* The commands load the wallet; withdraw also copies the notes it chose.    *)
LEMMA StartKeeps ==
  ASSUME SpendInv,
         \/ \E full \in BOOLEAN : StartSync(full)
         \/ StartTransfer
         \/ \E selection \in SUBSET DOMAIN file : StartWithdraw(selection)
         \/ StartConsolidate
  PROVE  SpendInv'
<1>1. \A n \in {} : n.c \in Cs(file)
  OBVIOUS
<1>2. ASSUME NEW full \in BOOLEAN, StartSync(full) PROVE SpendInv'
  BY <1>1, <1>2, BeginKeeps DEF StartSync
<1>3. CASE StartTransfer
  BY <1>1, <1>3, BeginKeeps DEF StartTransfer
<1>4. ASSUME NEW selection \in SUBSET DOMAIN file, StartWithdraw(selection) PROVE SpendInv'
  <2> DEFINE copies == {file[i] : i \in selection}
  <2>1. \A n \in copies : n.c \in Cs(file)
    BY DEF Cs
  <2>2. Begin("withdraw", cacheFile, copies)
    BY <1>4 DEF StartWithdraw
  <2> HIDE DEF copies
  <2> QED BY <2>1, <2>2, BeginKeeps
<1>5. CASE StartConsolidate
  BY <1>1, <1>5, BeginKeeps DEF StartConsolidate
<1> QED BY <1>2, <1>3, <1>4, <1>5

(* Every step of a command.                                                  *)
LEMMA WalletStepKeeps == SpendInv /\ WalletStep => SpendInv'
<1> SUFFICES ASSUME SpendInv, WalletStep PROVE SpendInv'
  OBVIOUS
<1>1. HistoryOK
  BY DEF SpendInv
<1>2. CASE GetStatus
  <2>1. /\ pc = "status" /\ pc' = "days" /\ UNCHANGED <<file, mem, picked, queue, spends>>
        /\ history' = [history EXCEPT !.moved = FALSE, !.untidy = @ \/ ~Tidy]
    BY <1>2 DEF GetStatus
  <2>2. /\ history' \in [rolled : BOOLEAN, untidy : BOOLEAN, moved : BOOLEAN, cut : BOOLEAN]
        /\ history'.cut = history.cut
    BY <1>1, <2>1, HistoryOfOthers
  <2> QED BY <2>1, <2>2, WalletUntouched DEF Loaded
<1>3. CASE FetchDayRoots \/ FetchCurrentDay \/ BlockProofsStored
  <2>1. /\ UNCHANGED <<file, mem, picked, queue, spends, history>>
        /\ pc \in {"days", "current", "proofs"} /\ pc' \in {"current", "proofs", "finalize"}
    BY <1>3 DEF FetchDayRoots, FetchCurrentDay, BlockProofsStored
  <2>2. history' \in [rolled : BOOLEAN, untidy : BOOLEAN, moved : BOOLEAN, cut : BOOLEAN]
    BY <1>1, <2>1 DEF HistoryOK
  <2> QED BY <2>1, <2>2, WalletUntouched DEF Loaded
<1>4. CASE SaveCache
  <2>1. pc = "cache" /\ UNCHANGED <<file, spends, history>>
        /\ (Stop("search") \/ (pc' = "build" /\ UNCHANGED <<mem, picked, queue>>))
    BY <1>4 DEF SaveCache
  <2>2. CASE Stop("search")
    BY <2>1, <2>2, EarlyStopKeeps DEF Loaded
  <2>3. CASE pc' = "build" /\ UNCHANGED <<mem, picked, queue>>
    <3>1. history' \in [rolled : BOOLEAN, untidy : BOOLEAN, moved : BOOLEAN, cut : BOOLEAN]
      BY <1>1, <2>1 DEF HistoryOK
    <3> QED BY <2>1, <2>3, <3>1, WalletUntouched DEF Loaded
  <2> QED BY <2>1, <2>2, <2>3
<1>5. CASE CannotSelect \/ RequestFails
  <2>1. Stop("idle") /\ UNCHANGED <<file, spends, history>> /\ pc # "submit"
    BY <1>5 DEF CannotSelect, RequestFails
  <2> QED BY <2>1, EarlyStopKeeps DEF Loaded
<1>6. CASE SubmitRefused
  <2>1. /\ Stop("idle") /\ UNCHANGED <<file, spends>>
        /\ history' = [history EXCEPT !.cut = @ \/ HasUnsavedMarks]
    BY <1>6 DEF SubmitRefused
  <2>2. /\ history' \in [rolled : BOOLEAN, untidy : BOOLEAN, moved : BOOLEAN, cut : BOOLEAN]
        /\ history'.cut = (history.cut \/ HasUnsavedMarks)
    BY <1>1, <2>1, CutRemembered
  <2>3. history'.cut = (history.cut \/ HasUnsavedMarks \/ spends' # spends)
    BY <2>1, <2>2
  <2> QED BY <2>1, <2>2, <2>3, StopKeeps DEF Loaded
<1>7. CASE \/ \E full \in BOOLEAN : StartSync(full)
           \/ StartTransfer
           \/ \E selection \in SUBSET DOMAIN file : StartWithdraw(selection)
           \/ StartConsolidate
  BY <1>7, StartKeeps
<1>8. CASE FetchBlockProof \/ \E d \in days : FinalizeOneDay(d)
  BY <1>8, FetchBlockProofKeeps, FinalizeOneDayKeeps
<1>9. CASE EndSync \/ SaveWallet \/ SubmitAccepted
  BY <1>9, EndSyncKeeps, SaveWalletKeeps, SubmitAcceptedKeeps
<1>10. CASE BuildTransfer \/ BuildWithdrawal \/ BuildConsolidation
  BY <1>10, BuildKeeps
<1> QED
  BY <1>2, <1>3, <1>4, <1>5, <1>6, <1>7, <1>8, <1>9, <1>10 DEF WalletStep

(* A process stopped while a submission is on its way (StopProcess).         *)
LEMMA StoppedKeeps == SpendInv /\ Stopped => SpendInv'
<1> SUFFICES ASSUME SpendInv, Stopped PROVE SpendInv'
  OBVIOUS
<1>1. /\ Stop("idle") /\ file' = file
      /\ spends' \in {spends} \cup {spends \cup cs :
                        cs \in {cs \in {queue[1] : k \in DOMAIN queue} : Accepted(cs)}}
      /\ history' = [history EXCEPT !.cut = @ \/ HasUnsavedMarks \/ spends' # spends]
  BY DEF Stopped, StopProcess
<1>2. spends \subseteq spends'
  BY <1>1
<1>3. /\ history' \in [rolled : BOOLEAN, untidy : BOOLEAN, moved : BOOLEAN, cut : BOOLEAN]
      /\ history'.cut = (history.cut \/ HasUnsavedMarks \/ spends' # spends)
  BY <1>1, CutRemembered DEF SpendInv
<1> QED BY <1>1, <1>2, <1>3, StopKeeps DEF Loaded

(* The sequencer and other users do not touch the wallet.                    *)
LEMMA OthersKeep ==
  ASSUME SpendInv,
         \/ PostDeposits \/ PostWithdrawals \/ RolledBack \/ Confirm \/ DayPasses
         \/ DayRootSaved \/ PaidByOthers
  PROVE  SpendInv'
<1>1. UNCHANGED <<file, mem, picked, queue, spends, pc>>
  BY DEF PostDeposits, PostWithdrawals, RolledBack, Confirm, DayPasses, DayRootSaved,
         PaidByOthers, WalletKept
<1>2. \/ history' = history
      \/ history' = [history EXCEPT !.moved = (pc # "idle")]
      \/ history' = [history EXCEPT !.moved = (pc # "idle"), !.rolled = TRUE]
  BY DEF PostDeposits, PostWithdrawals, RolledBack, Confirm, DayPasses, DayRootSaved,
         PaidByOthers, Moved
<1>3. /\ history' \in [rolled : BOOLEAN, untidy : BOOLEAN, moved : BOOLEAN, cut : BOOLEAN]
      /\ history'.cut = history.cut
  BY <1>2, HistoryOfOthers DEF SpendInv
<1> QED BY <1>1, <1>3, WalletUntouched

(* The second half of a withdrawal runs while no wallet is loaded.           *)
LEMMA PendingStepKeepsWallet == SpendInv /\ PendingStep => SpendInv'
<1> SUFFICES ASSUME SpendInv, PendingStep PROVE SpendInv'
  OBVIOUS
<1>1. UNCHANGED <<file, mem, picked, queue, spends, history>>
  BY DEF PendingStep
<1>2. pc \notin Loaded /\ pc' \notin Loaded
  BY DEF PendingStep, SyncOfNoNotes, StageOneAccepted, ExecuteProof, Update, RecordWithdrawal,
         BeginSearch, AskBlock, EndSearch, AlreadyWithdrawn, CallWithdraw, CallFails,
         SaveExecuted, EndProcess, MarkEntry, Loaded
<1>3. history' \in [rolled : BOOLEAN, untidy : BOOLEAN, moved : BOOLEAN, cut : BOOLEAN]
  BY <1>1 DEF SpendInv, HistoryOK
<1> QED BY <1>1, <1>2, <1>3, WalletUntouched DEF Loaded

-----------------------------------------------------------------------------
(* The sequencer's blocks. Withdrawals that a rollback puts back are flattened *)
(* from blocks by a fold, so after one nothing is said of what waits.        *)
Block == [day : Nat, index : Nat,
          deposits : Seq(Notes \cup {"other"}), outputs : Seq(Commitments \cup {"other"})]

BlocksOK ==
    /\ today \in Nat /\ confirmed \in Nat /\ history.rolled \in BOOLEAN
    /\ part = "spend" \/ ~history.rolled => blocks \in Seq(Block)
    /\ ~history.rolled => waiting \in Seq(Commitments)

(* A block of well-formed contents makes well-formed blocks.                 *)
LEMMA AddBlockTyped ==
  ASSUME blocks \in Seq(Block), today \in Nat, NEW c, AddBlock(c),
         c.deposits \in Seq(Notes \cup {"other"}), c.outputs \in Seq(Commitments \cup {"other"})
  PROVE  blocks' \in Seq(Block) /\ today' = today
<1> DEFINE b == [day |-> today, index |-> Cardinality(InDay(blocks, today)),
                 deposits |-> c.deposits, outputs |-> c.outputs]
<1>1. Cardinality(InDay(blocks, today)) \in Nat
  <2>1. IsFiniteSet(1..Len(blocks)) /\ InDay(blocks, today) \subseteq 1..Len(blocks)
    BY FS_Interval DEF InDay
  <2> QED BY <2>1, FS_Subset, FS_CardinalityType
<1>2. b \in Block
  BY <1>1 DEF Block
<1>3. blocks' = Append(blocks, b) /\ today' = today
  BY DEF AddBlock
<1> HIDE DEF b
<1> QED BY <1>2, <1>3

(* Only a rollback is remembered as one.                                     *)
LEMMA RolledKept ==
  ASSUME HistoryOK, Next, ~RolledBack
  PROVE  history'.rolled = history.rolled
<1>1. CASE PostDeposits \/ PostWithdrawals \/ Confirm \/ DayPasses \/ DayRootSaved \/ PaidByOthers
  <2>1. history' = history \/ history' = [history EXCEPT !.moved = (pc # "idle")]
    BY <1>1 DEF PostDeposits, PostWithdrawals, Confirm, DayPasses, DayRootSaved, PaidByOthers, Moved
  <2> QED BY <2>1 DEF HistoryOK
<1>2. CASE NotesAdded \/ WalletStep \/ Stopped
  <2>1. \/ history' = history
        \/ history' = [history EXCEPT !.moved = FALSE, !.untidy = @ \/ ~Tidy]
        \/ history' = [history EXCEPT !.cut = @ \/ HasUnsavedMarks]
        \/ history' = [history EXCEPT !.cut = @ \/ HasUnsavedMarks \/ spends' # spends]
    BY <1>2 DEF NotesAdded, WalletStep, Stopped, StopProcess, StartSync, StartTransfer,
                StartWithdraw, StartConsolidate, Begin, GetStatus, FetchDayRoots,
                FetchCurrentDay, FetchBlockProof, BlockProofsStored, FinalizeOneDay, EndSync,
                SaveCache, BuildTransfer, BuildWithdrawal, BuildConsolidation, ProveAll,
                CannotSelect, RequestFails, SubmitAccepted, SubmitRefused, SaveWallet
  <2> QED BY <2>1 DEF HistoryOK
<1>3. CASE PendingStep
  BY <1>3 DEF PendingStep
<1> QED BY <1>1, <1>2, <1>3 DEF Next

(* The sequencer's blocks stay well-formed.                                  *)
LEMMA BlocksStep == HistoryOK /\ BlocksOK /\ Next => BlocksOK'
<1> SUFFICES ASSUME HistoryOK, BlocksOK, Next PROVE BlocksOK'
  OBVIOUS
<1> USE DEF BlocksOK
<1>0. ~RolledBack => history'.rolled = history.rolled
  BY RolledKept
<1>1. CASE ~RolledBack /\ PostDeposits
  <2>1. PICK c \in Contents : AddBlock(c)
    BY <1>1 DEF PostDeposits
  <2>2. part = "spend" /\ part' = part /\ UNCHANGED <<waiting, confirmed>>
    BY <1>1 DEF PostDeposits, WalletKept
  <2>4. blocks' \in Seq(Block) /\ today' = today
    BY <2>1, <2>2, AddBlockTyped, MCClientAssumption
  <2> QED BY <1>0, <1>1, <2>2, <2>4
<1>2. CASE ~RolledBack /\ PostWithdrawals
  <2>1. PICK k \in 0..Len(waiting) :
           /\ AddBlock([deposits |-> <<>>,
                        outputs |-> IF k = 0 THEN <<"other">> ELSE SubSeq(waiting, 1, k)])
           /\ waiting' = SubSeq(waiting, k + 1, Len(waiting))
    BY <1>2 DEF PostWithdrawals
  <2>2. part = "withdraw" /\ part' = part /\ confirmed' = confirmed
    BY <1>2 DEF PostWithdrawals, WalletKept
  <2> DEFINE c == [deposits |-> <<>>,
                   outputs |-> IF k = 0 THEN <<"other">> ELSE SubSeq(waiting, 1, k)]
  <2>4. ASSUME ~history.rolled PROVE waiting' \in Seq(Commitments) /\ blocks' \in Seq(Block)
    <3>1. waiting' \in Seq(Commitments) /\ SubSeq(waiting, 1, k) \in Seq(Commitments \cup {"other"})
      BY <2>1, <2>4
    <3>2. c.deposits \in Seq(Notes \cup {"other"}) /\ c.outputs \in Seq(Commitments \cup {"other"})
      <4>1. <<"other">> \in Seq(Commitments \cup {"other"}) /\ <<>> \in Seq(Notes \cup {"other"})
        OBVIOUS
      <4> QED BY <3>1, <4>1, Zenon
    <3>3. AddBlock(c)
      BY <2>1
    <3> HIDE DEF c
    <3> QED BY <3>1, <3>2, <3>3, <2>4, AddBlockTyped
  <2>5. today' = today
    BY <2>1 DEF AddBlock
  <2> QED BY <1>0, <1>2, <2>2, <2>4, <2>5
<1>3. CASE RolledBack
  <2>1. PICK to \in confirmed..Len(blocks) : Rollback(to)
    BY <1>3 DEF RolledBack
  <2>2. part' = part /\ confirmed' = confirmed
        /\ history' = [history EXCEPT !.moved = (pc # "idle"), !.rolled = TRUE]
    BY <1>3 DEF RolledBack, WalletKept
  <2>3. history'.rolled = TRUE
    BY <2>2, RolledRemembered
  <2>4. today' = today /\ blocks' = SubSeq(blocks, 1, to)
    BY <2>1 DEF Rollback
  <2>5. part = "spend" => blocks' \in Seq(Block)
    BY <2>1, <2>4
  <2> QED BY <2>2, <2>3, <2>4, <2>5
<1>4. CASE ~RolledBack /\ (Confirm \/ DayPasses \/ DayRootSaved \/ PaidByOthers)
  <2>1. /\ UNCHANGED <<blocks, part, waiting>>
        /\ confirmed' \in {confirmed, confirmed + 1} /\ today' \in {today, today + 1}
    BY <1>4 DEF Confirm, DayPasses, DayRootSaved, PaidByOthers, NextDay, SaveDayRoot, Moved,
                WalletKept, ListKept, server
  <2> QED BY <1>0, <1>4, <2>1
<1>5. CASE ~RolledBack /\ (NotesAdded \/ WalletStep \/ Stopped)
  <2>1. UNCHANGED <<blocks, today, part, waiting, confirmed>>
    BY <1>5 DEF NotesAdded, WalletStep, Stopped, server, pendingVars
  <2> QED BY <1>0, <1>5, <2>1
<1>6. CASE ~RolledBack /\ PendingStep
  <2>1. UNCHANGED <<blocks, today, part, history>>
    BY <1>6 DEF PendingStep, server
  <2>2. confirmed' = confirmed
    BY <1>6 DEF PendingStep, SyncOfNoNotes, StageOneAccepted, ExecuteProof, Update,
                RecordWithdrawal, BeginSearch, AskBlock, EndSearch, AlreadyWithdrawn,
                CallWithdraw, CallFails, SaveExecuted
  <2>3. waiting' = waiting \/ \E l \in Commitments : waiting' = Append(waiting, l)
    BY <1>6 DEF PendingStep, SyncOfNoNotes, StageOneAccepted, ExecuteProof, Update,
                RecordWithdrawal, BeginSearch, AskBlock, EndSearch, AlreadyWithdrawn,
                CallWithdraw, CallFails, SaveExecuted
  <2>4. ~history.rolled => waiting' \in Seq(Commitments)
    BY <2>3
  <2> QED BY <2>1, <2>2, <2>4
<1> QED BY <1>1, <1>2, <1>3, <1>4, <1>5, <1>6 DEF Next

(* A note that is added is one, without a mark.                              *)
LEMMA NewNoteIsNote ==
  ASSUME NEW c, NEW i, NEW l
  PROVE  IsNote(NewNote(c, i, l)) /\ NewNote(c, i, l).spent = FALSE
  BY DEF NewNote, IsNote

(* The leaves of a block are a sequence.                                     *)
LEMMA LeavesTyped ==
  ASSUME NEW b \in Block
  PROVE  /\ Leaves(b) \in Seq(Notes \cup Commitments \cup {"other"})
         /\ DOMAIN Leaves(b) = 1..Len(Leaves(b)) /\ Len(Leaves(b)) \in Nat
         /\ Leaves(b) = [x \in DOMAIN Leaves(b) |-> Leaves(b)[x]]
<1>1. Leaves(b) \in Seq(Notes \cup Commitments \cup {"other"})
  BY DEF Leaves, Block
<1> QED BY <1>1

(* Notes that the owner learns of are added at the end, as notes of leaves   *)
(* of a block.                                                               *)
LEMMA NotesAtTheEnd ==
  ASSUME IsWallet(file), blocks \in Seq(Block), NotesAdded
  PROVE  /\ IsWallet(file') /\ Len(file) <= Len(file')
         /\ \A k \in 1..Len(file) : file'[k] = file[k]
         /\ \A k \in 1..Len(file') : k > Len(file) =>
               \E i \in 1..Len(blocks) : \E l \in DOMAIN Leaves(blocks[i]) :
                  file'[k] = NewNote(Leaves(blocks[i])[l], i, l)
<1> DEFINE New(i) == {l \in DOMAIN Leaves(blocks[i]) :
                        /\ Leaves(blocks[i])[l] \in Notes
                        /\ \A k \in DOMAIN file : file[k].c # Leaves(blocks[i])[l]}
<1>0. PICK i \in DOMAIN blocks : \E order \in SetToSeqs(New(i)) :
         file' = file \o [k \in DOMAIN order |->
                             NewNote(Leaves(blocks[i])[order[k]], i, order[k])]
  BY DEF NotesAdded
<1>1. PICK order \in SetToSeqs(New(i)) :
         file' = file \o [k \in DOMAIN order |->
                             NewNote(Leaves(blocks[i])[order[k]], i, order[k])]
  BY <1>0
<1> DEFINE n == Cardinality(New(i))
           tail == [k \in DOMAIN order |-> NewNote(Leaves(blocks[i])[order[k]], i, order[k])]
<1>2. i \in 1..Len(blocks) /\ blocks[i] \in Block
  OBVIOUS
<1>3. n \in Nat
  <2>1. IsFiniteSet(1..Len(Leaves(blocks[i]))) /\ New(i) \subseteq 1..Len(Leaves(blocks[i]))
    BY <1>2, LeavesTyped, FS_Interval
  <2> QED BY <2>1, FS_Subset, FS_CardinalityType
<1>4. order \in [1..n -> New(i)]
  BY DEF SetToSeqs
<1>5. \A k \in 1..n : order[k] \in DOMAIN Leaves(blocks[i])
  BY <1>4
<1> HIDE DEF n
<1>6. /\ tail = [k \in 1..n |-> tail[k]]
      /\ \A k \in 1..n : tail[k] = NewNote(Leaves(blocks[i])[order[k]], i, order[k])
  BY <1>4
<1> HIDE DEF tail
<1>7. \A k \in 1..n : IsNote(tail[k])
  <2> TAKE k \in 1..n
  <2>1. IsNote(NewNote(Leaves(blocks[i])[order[k]], i, order[k]))
    BY NewNoteIsNote
  <2> QED BY <1>6, <2>1
<1>8. file' = file \o tail
  BY <1>1 DEF tail
<1>9. file' = [k \in 1..(Len(file) + n) |-> IF k <= Len(file) THEN file[k] ELSE tail[k - Len(file)]]
  <2>1. Len(file) \in Nat /\ file = [k \in 1..Len(file) |-> file[k]]
    BY DEF IsWallet
  <2> QED BY <2>1, <1>3, <1>6, <1>8, Joined
<1>10. /\ file' = [k \in 1..(Len(file) + n) |-> file'[k]]
       /\ \A k \in 1..(Len(file) + n) : IsNote(file'[k])
       /\ \A k \in 1..Len(file) : file'[k] = file[k]
       /\ \A k \in 1..(Len(file) + n) : k > Len(file) =>
             k - Len(file) \in 1..n /\ file'[k] = tail[k - Len(file)]
  <2>1. file' = [k \in 1..(Len(file) + n) |-> file'[k]]
    BY <1>9
  <2>2. Len(file) \in Nat /\ \A k \in 1..Len(file) : IsNote(file[k])
    BY DEF IsWallet
  <2>3. \A k \in 1..Len(file) : file'[k] = file[k]
    BY <1>3, <1>9, <2>2
  <2>4. \A k \in 1..(Len(file) + n) : k > Len(file) =>
           k - Len(file) \in 1..n /\ file'[k] = tail[k - Len(file)]
    BY <1>3, <1>9, <2>2
  <2>5. \A k \in 1..(Len(file) + n) : IsNote(file'[k])
    <3> TAKE k \in 1..(Len(file) + n)
    <3>1. k \in 1..Len(file) \/ k > Len(file)
      BY <2>2
    <3> QED BY <1>7, <2>2, <2>3, <2>4, <3>1
  <2> QED BY <2>1, <2>3, <2>4, <2>5
<1>11. IsWallet(file') /\ Len(file') = Len(file) + n /\ Len(file) \in Nat
  BY <1>3, <1>10, WalletByPlace DEF IsWallet
<1>12. ASSUME NEW k \in 1..Len(file'), k > Len(file)
       PROVE  \E l \in DOMAIN Leaves(blocks[i]) : file'[k] = NewNote(Leaves(blocks[i])[l], i, l)
  <2> DEFINE m == k - Len(file)
  <2>1. m \in 1..n /\ file'[k] = tail[m]
    BY <1>10, <1>11, <1>12
  <2> HIDE DEF m
  <2> QED BY <1>5, <1>6, <2>1
<1>13. Len(file) <= Len(file') /\ \A k \in 1..Len(file) : file'[k] = file[k]
  BY <1>3, <1>10, <1>11
<1>14. \A k \in 1..Len(file') : k > Len(file) =>
          \E j \in 1..Len(blocks) : \E l \in DOMAIN Leaves(blocks[j]) :
             file'[k] = NewNote(Leaves(blocks[j])[l], j, l)
  BY <1>2, <1>12
<1> QED BY <1>11, <1>13, <1>14

(* They come without a mark.                                                 *)
LEMMA NotesAddedKeeps ==
  ASSUME SpendInv, BlocksOK, NotesAdded
  PROVE  SpendInv'
<1>1. /\ part = "spend" /\ pc = "idle"
      /\ UNCHANGED <<mem, pc, picked, queue, spends, history>>
  BY DEF NotesAdded
<1>2. IsWallet(file) /\ DOMAIN file = 1..Len(file) /\ Len(file) \in Nat
  BY DEF SpendInv, FileOK, IsWallet
<1>3. /\ IsWallet(file') /\ Len(file) <= Len(file')
      /\ \A k \in 1..Len(file) : file'[k] = file[k]
      /\ \A k \in 1..Len(file') : k > Len(file) =>
            \E i \in 1..Len(blocks) : \E l \in DOMAIN Leaves(blocks[i]) :
               file'[k] = NewNote(Leaves(blocks[i])[l], i, l)
  BY <1>1, <1>2, NotesAtTheEnd DEF BlocksOK
<1>4. \A k \in 1..Len(file') : k > Len(file) => file'[k].spent = FALSE
  <2> TAKE k \in 1..Len(file')
  <2> HAVE k > Len(file)
  <2>1. PICK i \in 1..Len(blocks) : \E l \in DOMAIN Leaves(blocks[i]) :
           file'[k] = NewNote(Leaves(blocks[i])[l], i, l)
    BY <1>3
  <2>2. PICK l \in DOMAIN Leaves(blocks[i]) : file'[k] = NewNote(Leaves(blocks[i])[l], i, l)
    BY <2>1
  <2>3. NewNote(Leaves(blocks[i])[l], i, l).spent = FALSE
    BY NewNoteIsNote
  <2> QED BY <2>2, <2>3
<1>5. DOMAIN file' = 1..Len(file') /\ Len(file') \in Nat
  BY <1>3 DEF IsWallet
<1>10. Marks(file') = Marks(file) /\ Cs(file) \subseteq Cs(file')
  BY <1>2, <1>3, <1>4, <1>5 DEF Marks, Cs
<1>11. mem = <<>> /\ queue = <<>>
  BY <1>1 DEF SpendInv, CopyOK, Loaded, NoneUnsaved
<1>12. FileOK' /\ HistoryOK' /\ CopyOK' /\ CopyMarks' /\ MarksAgree'
  BY <1>1, <1>3, <1>10, <1>11, EmptyWallet
     DEF SpendInv, FileOK, HistoryOK, CopyOK, CopyMarks, MarksAgree, Loaded
<1>13. QueueOK' /\ NoneUnsaved'
  BY <1>1, <1>10, <1>11, EmptyWallet DEF SpendInv, QueueOK, NoneUnsaved
<1> QED BY <1>12, <1>13 DEF SpendInv

(* Both hold at the start.                                                   *)
LEMMA InitKeepsWallet == Init => SpendInv /\ BlocksOK
<1> SUFFICES ASSUME Init PROVE SpendInv /\ BlocksOK
  OBVIOUS
<1>1. /\ file = <<>> /\ mem = <<>> /\ pc = "idle" /\ picked = {} /\ queue = <<>>
      /\ spends = {} /\ history = NoHistory
      /\ today = 0 /\ confirmed = 0 /\ blocks = <<>> /\ waiting = <<>>
  BY DEF Init, SyncInit, PendingInit
<1>2. SpendInv
  BY <1>1, EmptyWallet DEF SpendInv, HistoryOK, FileOK, CopyOK, CopyMarks, QueueOK, NoneUnsaved,
                           MarksAgree, NoHistory, Loaded
<1>3. BlocksOK
  BY <1>1 DEF BlocksOK, NoHistory
<1> QED BY <1>2, <1>3

(* Every step keeps both.                                                    *)
LEMMA StepKeepsWallet == SpendInv /\ BlocksOK /\ [Next]_clientVars => SpendInv' /\ BlocksOK'
<1> SUFFICES ASSUME SpendInv, BlocksOK, [Next]_clientVars PROVE SpendInv' /\ BlocksOK'
  OBVIOUS
<1>1. CASE UNCHANGED clientVars
  BY <1>1 DEF clientVars, server, walletVars, pendingVars, SpendInv, HistoryOK, FileOK, CopyOK,
              CopyMarks, QueueOK, NoneUnsaved, MarksAgree, BlocksOK
<1>2. CASE Next
  <2>1. SpendInv'
    BY <1>2, OthersKeep, NotesAddedKeeps, WalletStepKeeps, StoppedKeeps, PendingStepKeepsWallet
       DEF Next
  <2>2. BlocksOK'
    BY <1>2, BlocksStep DEF SpendInv
  <2> QED BY <2>1, <2>2
<1> QED BY <1>1, <1>2

(* The saved wallet marks only notes whose spending the sequencer accepted,  *)
(* and between commands all of them unless one was cut after an acceptance:  *)
(* whatever notes, amounts and transactions there are, and wherever commands *)
(* stop.                                                                     *)
THEOREM MarksAreAccepted == Spec => []SpentIffAccepted
<1>1. SpendInv /\ BlocksOK => SpentIffAccepted
  BY DEF SpendInv, FileOK, MarksAgree, Marks, SpentIffAccepted
<1> QED BY <1>1, InitKeepsWallet, StepKeepsWallet, PTL DEF Spec

-----------------------------------------------------------------------------
(* Withdrawals. The numbers of an entry are those of the first output of the *)
(* block with the entry's commitment, and an entry marked as executed has    *)
(* numbers that the contract has marked.                                     *)
PendingEntry == [leaf : Commitments, nr : Int, tx : Int, executed : BOOLEAN]

Holding(bs, leaf, nr) == {t \in DOMAIN bs[nr + 1].outputs : bs[nr + 1].outputs[t] = leaf}

EntryOK(e, bs, marks) ==
    /\ e \in PendingEntry
    /\ e.nr # 0 => /\ e.nr + 1 \in DOMAIN bs /\ Holding(bs, e.leaf, e.nr) # {}
                   /\ e.tx = Min(Holding(bs, e.leaf, e.nr))
    /\ e.executed => e.nr # 0 /\ <<e.nr, e.tx>> \in marks

EntriesOK(l, bs, marks) ==
    l \in Seq(PendingEntry) /\ \A i \in DOMAIN l : EntryOK(l[i], bs, marks)

(* Every mark of the contract is that of an output for which it paid.        *)
PaidFor(k, bs, amounts) ==
    \E nr, t \in Int :
        /\ k = <<nr, t>> /\ nr + 1 \in DOMAIN bs /\ t \in DOMAIN bs[nr + 1].outputs
        /\ bs[nr + 1].outputs[t] \in Commitments
        /\ amounts[bs[nr + 1].outputs[t]] >= 1

MarksPaid(bs, marks, amounts) ==
    amounts \in [Commitments -> Nat] /\ \A k \in marks : PaidFor(k, bs, amounts)

SearchOK ==
    /\ search \in [todo : SUBSET Nat, latest : Int, nr : Int, found : BOOLEAN]
    /\ \A i \in search.todo : i \in DOMAIN list /\ ~list[i].executed
    /\ pc # "ask" => search.todo = {}

HeldOK ==
    pc = "execute" => held.place \in DOMAIN list /\ Entry.nr # 0 /\ held.tx = Entry.tx

(* What holds as long as no block was taken back.                            *)
PaidInv ==
    ~history.rolled =>
        /\ EntriesOK(pendFile, blocks, withdrawn) /\ EntriesOK(list, blocks, withdrawn)
        /\ MarksPaid(blocks, withdrawn, paid)
        /\ SearchOK /\ HeldOK
        /\ confirmed <= Len(blocks)

Extends(bs, cs) == Len(bs) <= Len(cs) /\ \A i \in 1..Len(bs) : cs[i] = bs[i]

(* New blocks and new marks leave what was found and what was marked right.  *)
LEMMA EntryStaysOK ==
  ASSUME NEW bs \in Seq(Block), NEW cs \in Seq(Block), Extends(bs, cs),
         NEW marks, NEW marks2, marks \subseteq marks2, NEW e, EntryOK(e, bs, marks)
  PROVE  EntryOK(e, cs, marks2)
<1>1. e \in PendingEntry /\ e.nr \in Int
  BY DEF EntryOK, PendingEntry
<1>2. e.nr # 0 => /\ e.nr + 1 \in DOMAIN cs /\ cs[e.nr + 1] = bs[e.nr + 1]
  BY <1>1 DEF EntryOK, Extends
<1>3. e.nr # 0 => Holding(cs, e.leaf, e.nr) = Holding(bs, e.leaf, e.nr)
  BY <1>2 DEF Holding
<1> QED BY <1>1, <1>2, <1>3 DEF EntryOK

(* The same for a list.                                                      *)
LEMMA EntriesStayOK ==
  ASSUME NEW bs \in Seq(Block), NEW cs \in Seq(Block), Extends(bs, cs),
         NEW marks, NEW marks2, marks \subseteq marks2, NEW l, EntriesOK(l, bs, marks)
  PROVE  EntriesOK(l, cs, marks2)
  BY EntryStaysOK DEF EntriesOK

(* The same for the contract's marks.                                        *)
LEMMA MarksStayPaid ==
  ASSUME NEW bs \in Seq(Block), NEW cs \in Seq(Block), Extends(bs, cs),
         NEW marks, NEW amounts, MarksPaid(bs, marks, amounts)
  PROVE  MarksPaid(cs, marks, amounts)
<1>1. ASSUME NEW k \in marks PROVE PaidFor(k, cs, amounts)
  <2>1. PICK nr \in Int, t \in Int :
           /\ k = <<nr, t>> /\ nr + 1 \in DOMAIN bs /\ t \in DOMAIN bs[nr + 1].outputs
           /\ bs[nr + 1].outputs[t] \in Commitments
           /\ amounts[bs[nr + 1].outputs[t]] >= 1
    BY DEF MarksPaid, PaidFor
  <2>2. nr + 1 \in DOMAIN cs /\ cs[nr + 1] = bs[nr + 1]
    BY <2>1 DEF Extends
  <2> QED BY <2>1, <2>2 DEF PaidFor
<1> QED BY <1>1 DEF MarksPaid

(* A payment makes its mark paid for and takes nothing from the others.      *)
LEMMA PayingPays ==
  ASSUME NEW nr \in Int, NEW t \in Int, NEW leaf \in Commitments, Pay(nr, t, leaf),
         nr + 1 \in DOMAIN blocks, t \in DOMAIN blocks[nr + 1].outputs,
         blocks[nr + 1].outputs[t] = leaf, MarksPaid(blocks, withdrawn, paid)
  PROVE  MarksPaid(blocks, withdrawn', paid') /\ withdrawn \subseteq withdrawn'
         /\ <<nr, t>> \in withdrawn'
<1>1. paid' = [paid EXCEPT ![leaf] = @ + 1] /\ withdrawn' = withdrawn \cup {<<nr, t>>}
  BY DEF Pay
<1>2. paid \in [Commitments -> Nat]
  BY DEF MarksPaid
<1>3. /\ paid' \in [Commitments -> Nat] /\ paid'[leaf] >= 1
      /\ \A l \in Commitments : paid'[l] >= paid[l]
  BY <1>1, <1>2
<1>4. ASSUME NEW k \in withdrawn PROVE PaidFor(k, blocks, paid')
  <2>1. PICK n \in Int, u \in Int :
           /\ k = <<n, u>> /\ n + 1 \in DOMAIN blocks /\ u \in DOMAIN blocks[n + 1].outputs
           /\ blocks[n + 1].outputs[u] \in Commitments
           /\ paid[blocks[n + 1].outputs[u]] >= 1
    BY DEF MarksPaid, PaidFor
  <2> DEFINE l == blocks[n + 1].outputs[u]
  <2>2. paid'[l] >= 1
    BY <2>1, <1>2, <1>3
  <2> QED BY <2>1, <2>2 DEF PaidFor
<1>5. PaidFor(<<nr, t>>, blocks, paid')
  BY <1>3 DEF PaidFor
<1> QED BY <1>1, <1>3, <1>4, <1>5 DEF MarksPaid

(* Marking an entry leaves everything else of it alone.                      *)
LEMMA MarkOfEntry ==
  ASSUME NEW e \in PendingEntry, NEW b, b \in BOOLEAN
  PROVE  /\ [e EXCEPT !.executed = b] \in PendingEntry
         /\ [e EXCEPT !.executed = b].leaf = e.leaf
         /\ [e EXCEPT !.executed = b].nr = e.nr
         /\ [e EXCEPT !.executed = b].tx = e.tx
         /\ [e EXCEPT !.executed = b].executed = b
<1> DEFINE m == [e EXCEPT !["executed"] = b]
<1>1. e = [x \in DOMAIN e |-> e[x]] /\ DOMAIN e = {"leaf", "nr", "tx", "executed"}
  BY DEF PendingEntry
<1>2. /\ m = [x \in DOMAIN e |-> m[x]] /\ m["executed"] = b
      /\ \A x \in DOMAIN e : x # "executed" => m[x] = e[x]
  BY <1>1, ChangedAt
<1>3. [e EXCEPT !.executed = b] = m
  OBVIOUS
<1> HIDE DEF m
<1>4. /\ m.leaf \in Commitments /\ m.nr \in Int /\ m.tx \in Int /\ m.executed \in BOOLEAN
      /\ DOMAIN m = {"leaf", "nr", "tx", "executed"}
  BY <1>1, <1>2 DEF PendingEntry
<1>5. m \in PendingEntry
  BY <1>1, <1>2, <1>4 DEF PendingEntry
<1> QED BY <1>1, <1>2, <1>3, <1>5

(* mark_executed on numbers that the contract has marked.                    *)
LEMMA MarkingExecuted ==
  ASSUME NEW l, NEW bs, NEW marks, EntriesOK(l, bs, marks),
         NEW nr, NEW t, nr # 0, <<nr, t>> \in marks
  PROVE  EntriesOK(MarkExecuted(l, nr, t), bs, marks)
<1> DEFINE m == MarkExecuted(l, nr, t)
<1>1. /\ l \in Seq(PendingEntry) /\ DOMAIN l = 1..Len(l) /\ Len(l) \in Nat
      /\ \A i \in 1..Len(l) : EntryOK(l[i], bs, marks) /\ l[i] \in PendingEntry
  BY DEF EntriesOK, EntryOK
<1>2. m = [i \in 1..Len(l) |-> [l[i] EXCEPT !.executed = l[i].executed \/ (l[i].nr = nr /\ l[i].tx = t)]]
  BY <1>1 DEF MarkExecuted
<1>3. ASSUME NEW i \in 1..Len(l) PROVE m[i] \in PendingEntry /\ EntryOK(m[i], bs, marks)
  <2> DEFINE e == l[i]
             b == e.executed \/ (e.nr = nr /\ e.tx = t)
             f == [e EXCEPT !.executed = b]
  <2>1. m[i] = f
    BY <1>2
  <2> HIDE DEF e, m
  <2>2. EntryOK(e, bs, marks) /\ e \in PendingEntry
    BY <1>1 DEF e
  <2>3. b \in BOOLEAN /\ (b => e.nr # 0 /\ <<e.nr, e.tx>> \in marks)
    BY <2>2 DEF EntryOK, PendingEntry
  <2> HIDE DEF b
  <2>4. f \in PendingEntry /\ f.leaf = e.leaf /\ f.nr = e.nr /\ f.tx = e.tx /\ f.executed = b
    BY <2>2, <2>3, MarkOfEntry, Zenon
  <2> HIDE DEF f
  <2> QED BY <2>1, <2>2, <2>3, <2>4 DEF EntryOK
<1> HIDE DEF m
<1>4. m \in Seq(PendingEntry) /\ DOMAIN m = 1..Len(l)
  <2>1. m \in [1..Len(l) -> PendingEntry]
    BY <1>2, <1>3
  <2> QED BY <1>1, <2>1
<1> QED BY <1>3, <1>4 DEF EntriesOK, m

(* What the sequencer answers with is the place of a transaction.            *)
LEMMA AnswerIsNumber ==
  ASSUME blocks \in Seq(Block), NEW nr \in Int, NEW leaf, NEW t, t \in WithdrawalProof(leaf, nr)
  PROVE  t \in Int
<1>1. /\ nr + 1 \in DOMAIN blocks /\ TxsWith(leaf, nr) = Holding(blocks, leaf, nr)
      /\ Holding(blocks, leaf, nr) # {} /\ t = Min(Holding(blocks, leaf, nr))
  BY DEF WithdrawalProof, TxsWith, Holding
<1>2. t \in Int
  <2>1. blocks[nr + 1] \in Block
    BY <1>1
  <2>2. Holding(blocks, leaf, nr) \subseteq Nat
    BY <2>1 DEF Holding, Block
  <2> DEFINE S == Holding(blocks, leaf, nr)
  <2> HIDE DEF S
  <2>3. S \subseteq Nat /\ S # {} /\ t = Min(S)
    BY <1>1, <2>2 DEF S
  <2>4. Min(S) \in S
    BY <2>3, MinOfNumbers
  <2>5. t \in Nat
    BY <2>3, <2>4
  <2> QED BY <2>5
<1> QED BY <1>2

(* An entry given the numbers that the sequencer answers with.               *)
LEMMA FindingEntry ==
  ASSUME NEW l, NEW marks, EntriesOK(l, blocks, marks), NEW i \in DOMAIN l,
         NEW f \in PendingEntry, ~f.executed, f.tx \in WithdrawalProof(f.leaf, f.nr)
  PROVE  /\ EntriesOK([l EXCEPT ![i] = f], blocks, marks)
         /\ DOMAIN [l EXCEPT ![i] = f] = DOMAIN l
         /\ \A j \in DOMAIN l : ~l[j].executed => ~[l EXCEPT ![i] = f][j].executed
<1> DEFINE m == [l EXCEPT ![i] = f]
<1>1. /\ f.nr + 1 \in DOMAIN blocks
      /\ Holding(blocks, f.leaf, f.nr) # {} /\ f.tx = Min(Holding(blocks, f.leaf, f.nr))
  BY DEF WithdrawalProof, TxsWith, Holding
<1>2. EntryOK(f, blocks, marks)
  BY <1>1 DEF EntryOK
<1>3. l \in Seq(PendingEntry) /\ \A j \in DOMAIN l : EntryOK(l[j], blocks, marks)
  BY DEF EntriesOK
<1>4. /\ m \in Seq(PendingEntry) /\ DOMAIN m = DOMAIN l /\ m[i] = f
      /\ \A j \in DOMAIN l : j # i => m[j] = l[j]
  BY <1>3
<1> HIDE DEF m
<1>5. EntriesOK(m, blocks, marks) /\ \A j \in DOMAIN l : ~l[j].executed => ~m[j].executed
  BY <1>2, <1>3, <1>4 DEF EntriesOK
<1> QED BY <1>4, <1>5 DEF m

(* No search is under way.                                                   *)
LEMMA EmptySearch ==
  /\ NoSearch \in [todo : SUBSET Nat, latest : Int, nr : Int, found : BOOLEAN]
  /\ NoSearch.todo = {}
  BY DEF NoSearch

(* Steps of others and of the wallet: blocks are added, payments made.       *)
LEMMA OthersKeepPaid ==
  ASSUME BlocksOK, BlocksOK', PaidInv, ~history.rolled, ~history'.rolled,
         Extends(blocks, blocks'), withdrawn \subseteq withdrawn',
         MarksPaid(blocks, withdrawn', paid'), confirmed' <= Len(blocks'),
         pendFile' = pendFile,
         \/ UNCHANGED <<list, search, held>> /\ (pc = "ask" => pc' = "ask")
         \/ list' = <<>> /\ search' = NoSearch /\ held' = NotHeld,
         pc' = "execute" => pc = "execute" /\ UNCHANGED <<list, held>>
  PROVE  PaidInv'
<1>1. blocks \in Seq(Block) /\ blocks' \in Seq(Block)
  BY DEF BlocksOK
<1>2. EntriesOK(pendFile', blocks', withdrawn') /\ EntriesOK(list, blocks', withdrawn')
  BY <1>1, EntriesStayOK DEF PaidInv
<1>3. EntriesOK(<<>>, blocks', withdrawn')
  BY DEF EntriesOK
<1>4. EntriesOK(list', blocks', withdrawn')
  BY <1>2, <1>3
<1>5. MarksPaid(blocks', withdrawn', paid')
  BY <1>1, MarksStayPaid
<1>6. SearchOK'
  <2>1. CASE UNCHANGED <<list, search, held>> /\ (pc = "ask" => pc' = "ask")
    BY <2>1 DEF PaidInv, SearchOK
  <2>2. CASE search' = NoSearch
    BY <2>2, EmptySearch DEF SearchOK
  <2> QED BY <2>1, <2>2
<1>7. HeldOK'
  BY DEF PaidInv, HeldOK, Entry
<1> QED BY <1>2, <1>4, <1>5, <1>6, <1>7 DEF PaidInv

(* Blocks extend themselves.                                                 *)
LEMMA ExtendsItself == ASSUME NEW bs \in Seq(Block) PROVE Extends(bs, bs)
  BY DEF Extends

(* Blocks are extended by one more.                                          *)
LEMMA AppendExtends ==
  ASSUME NEW bs \in Seq(Block), NEW b
  PROVE  Extends(bs, Append(bs, b)) /\ Len(Append(bs, b)) = Len(bs) + 1
<1> DEFINE S == Block \cup {b}
<1>1. bs \in Seq(S) /\ b \in S
  OBVIOUS
<1> HIDE DEF S
<1> QED BY <1>1, AppendProperties DEF Extends

(* The sequencer, others who have withdrawals paid, and the wallet.          *)
LEMMA PaidStepOfOthers ==
  ASSUME BlocksOK, BlocksOK', PaidInv, ~history.rolled, ~history'.rolled,
         \/ PostDeposits \/ PostWithdrawals \/ Confirm \/ DayPasses \/ DayRootSaved
         \/ PaidByOthers \/ NotesAdded \/ WalletStep \/ Stopped
  PROVE  PaidInv'
<1>1. /\ blocks \in Seq(Block) /\ blocks' \in Seq(Block) /\ confirmed \in Nat
      /\ MarksPaid(blocks, withdrawn, paid) /\ confirmed <= Len(blocks)
  BY DEF BlocksOK, PaidInv
<1>2. CASE PostDeposits \/ PostWithdrawals
  <2>1. /\ UNCHANGED <<confirmed, pendFile, list, search, held, withdrawn, paid, pc>>
        /\ \E c : AddBlock(c)
    BY <1>2 DEF PostDeposits, PostWithdrawals, WalletKept, ListKept
  <2>2. \E b : blocks' = Append(blocks, b)
    BY <2>1 DEF AddBlock
  <2>3. Extends(blocks, blocks') /\ confirmed' <= Len(blocks')
    BY <1>1, <2>1, <2>2, AppendExtends
  <2> QED BY <1>1, <2>1, <2>3, OthersKeepPaid
<1>3. CASE Confirm \/ DayPasses \/ DayRootSaved
  <2>1. /\ UNCHANGED <<blocks, pendFile, list, search, held, withdrawn, paid, pc>>
        /\ confirmed' = confirmed \/ (confirmed' = confirmed + 1 /\ confirmed < Len(blocks))
    BY <1>3 DEF Confirm, DayPasses, DayRootSaved, WalletKept, ListKept, NextDay, SaveDayRoot, server
  <2>2. Extends(blocks, blocks') /\ confirmed' <= Len(blocks')
    BY <1>1, <2>1, ExtendsItself
  <2> QED BY <1>1, <2>1, <2>2, OthersKeepPaid
<1>4. CASE PaidByOthers
  <2>1. /\ UNCHANGED <<blocks, confirmed, pendFile, list, search, held, pc>>
    BY <1>4 DEF PaidByOthers, WalletKept, server
  <2>2. PICK i \in 1..confirmed : \E t \in DOMAIN blocks[i].outputs :
           blocks[i].outputs[t] \in Commitments /\ Pay(i - 1, t, blocks[i].outputs[t])
    BY <1>4 DEF PaidByOthers
  <2>3. PICK t \in DOMAIN blocks[i].outputs :
           blocks[i].outputs[t] \in Commitments /\ Pay(i - 1, t, blocks[i].outputs[t])
    BY <2>2
  <2>4. blocks[i] \in Block /\ i - 1 \in Int /\ (i - 1) + 1 = i /\ i \in DOMAIN blocks
    BY <1>1
  <2>5. t \in Int
    BY <2>4 DEF Block
  <2> DEFINE nr == i - 1
             leaf == blocks[i].outputs[t]
  <2>6. /\ nr \in Int /\ nr + 1 \in DOMAIN blocks /\ leaf \in Commitments /\ Pay(nr, t, leaf)
        /\ t \in DOMAIN blocks[nr + 1].outputs /\ blocks[nr + 1].outputs[t] = leaf
    BY <2>3, <2>4
  <2> HIDE DEF nr, leaf
  <2>7. MarksPaid(blocks, withdrawn', paid') /\ withdrawn \subseteq withdrawn'
    BY <1>1, <2>5, <2>6, PayingPays
  <2>8. Extends(blocks, blocks') /\ confirmed' <= Len(blocks')
    BY <1>1, <2>1, ExtendsItself
  <2> QED BY <2>1, <2>7, <2>8, OthersKeepPaid
<1>5. CASE NotesAdded \/ WalletStep \/ Stopped
  <2>1. /\ UNCHANGED <<blocks, confirmed, pendFile, withdrawn, paid>>
        /\ \/ UNCHANGED <<list, search, held>> /\ ~Stopped
           \/ list' = <<>> /\ search' = NoSearch /\ held' = NotHeld
    BY <1>5 DEF NotesAdded, WalletStep, Stopped, server, pendingVars
  <2>2. pc' # "execute" /\ (~Stopped => pc # "ask")
    <3>1. CASE NotesAdded
      BY <3>1 DEF NotesAdded
    <3>2. CASE Stopped
      BY <3>2 DEF Stopped, StopProcess, Stop
    <3>3. CASE WalletStep
      BY <3>3 DEF WalletStep, StartSync, StartTransfer,
                StartWithdraw, StartConsolidate, Begin, GetStatus, FetchDayRoots,
                FetchCurrentDay, FetchBlockProof, BlockProofsStored, FinalizeOneDay, EndSync,
                SaveCache, BuildTransfer, BuildWithdrawal, BuildConsolidation, ProveAll,
                CannotSelect, RequestFails, SubmitAccepted, SubmitRefused, SaveWallet, Stop
    <3> QED BY <1>5, <3>1, <3>2, <3>3
  <2>3. Extends(blocks, blocks') /\ confirmed' <= Len(blocks')
    BY <1>1, <2>1, ExtendsItself
  <2> QED BY <1>1, <2>1, <2>2, <2>3, OthersKeepPaid
<1> QED BY <1>2, <1>3, <1>4, <1>5

(* A command on the list of pending withdrawals.                             *)
LEMMA ListStep ==
  ASSUME PaidInv, ~history.rolled, UNCHANGED <<blocks, confirmed, history>>,
         EntriesOK(pendFile', blocks, withdrawn'), EntriesOK(list', blocks, withdrawn'),
         MarksPaid(blocks, withdrawn', paid'), SearchOK', HeldOK'
  PROVE  PaidInv'
  BY DEF PaidInv

(* A process that ended holds nothing.                                       *)
LEMMA EndOfProcess ==
  ASSUME NEW marks, EndProcess
  PROVE  EntriesOK(list', blocks, marks) /\ SearchOK' /\ HeldOK'
<1>1. pc' = "idle" /\ list' = <<>> /\ search' = NoSearch
  BY DEF EndProcess
<1>2. EntriesOK(<<>>, blocks, marks)
  BY DEF EntriesOK
<1>3. SearchOK'
  BY <1>1, EmptySearch DEF SearchOK
<1> QED BY <1>1, <1>2, <1>3 DEF HeldOK

(* The commands on pending withdrawals, one case for each step.              *)
LEMMA PaidPendingStep ==
  ASSUME BlocksOK, PaidInv, ~history.rolled, PendingStep
  PROVE  PaidInv'
<1>1. /\ blocks \in Seq(Block) /\ confirmed \in Nat /\ confirmed <= Len(blocks)
      /\ EntriesOK(pendFile, blocks, withdrawn) /\ EntriesOK(list, blocks, withdrawn)
      /\ MarksPaid(blocks, withdrawn, paid) /\ SearchOK /\ HeldOK
  BY DEF BlocksOK, PaidInv
<1>2. UNCHANGED <<blocks, history>>
  BY DEF PendingStep, server
<1>3. CASE SyncOfNoNotes
  <2>1. /\ UNCHANGED <<pendFile, list, held, withdrawn, paid, confirmed>> /\ pc' = "search"
        /\ search' = [NoSearch EXCEPT !.latest = LatestNr]
    BY <1>3 DEF SyncOfNoNotes
  <2>2. LatestNr \in Int
    BY <1>1 DEF LatestNr
  <2>3. SearchOK' /\ HeldOK'
    <3>1. /\ search' \in [todo : SUBSET Nat, latest : Int, nr : Int, found : BOOLEAN]
          /\ search'.todo = {}
      BY <2>1, <2>2, EmptySearch
    <3> QED BY <2>1, <3>1 DEF SearchOK, HeldOK
  <2> QED BY <1>1, <1>2, <2>1, <2>3, ListStep
<1>4. ASSUME NEW l \in Commitments, StageOneAccepted(l) PROVE PaidInv'
  <2>1. /\ UNCHANGED <<pendFile, search, held, withdrawn, paid, confirmed>> /\ pc = "idle"
        /\ pc' = "record" /\ list' = <<[leaf |-> l, nr |-> 0, tx |-> 0, executed |-> FALSE]>>
    BY <1>4 DEF StageOneAccepted
  <2>2. EntriesOK(list', blocks, withdrawn)
    <3> DEFINE e == [leaf |-> l, nr |-> 0, tx |-> 0, executed |-> FALSE]
    <3>1. e \in PendingEntry /\ EntryOK(e, blocks, withdrawn)
      BY DEF EntryOK, PendingEntry
    <3>2. list' = <<e>>
      BY <2>1
    <3> HIDE DEF e
    <3> QED BY <3>1, <3>2 DEF EntriesOK
  <2>3. SearchOK' /\ HeldOK'
    BY <1>1, <2>1 DEF SearchOK, HeldOK
  <2> QED BY <1>1, <1>2, <2>1, <2>2, <2>3, ListStep
<1>5. CASE RecordWithdrawal
  <2>1. /\ pendFile' = pendFile \o list /\ EndProcess
        /\ UNCHANGED <<withdrawn, paid, confirmed>>
    BY <1>5 DEF RecordWithdrawal
  <2>2. EntriesOK(pendFile', blocks, withdrawn)
    <3>1. /\ pendFile' \in Seq(PendingEntry) /\ Len(pendFile') = Len(pendFile) + Len(list)
          /\ \A i \in 1..(Len(pendFile) + Len(list)) :
                pendFile'[i] = IF i <= Len(pendFile) THEN pendFile[i] ELSE list[i - Len(pendFile)]
      BY <1>1, <2>1, ConcatProperties DEF EntriesOK
    <3>2. ASSUME NEW i \in DOMAIN pendFile' PROVE EntryOK(pendFile'[i], blocks, withdrawn)
      <4>1. CASE i <= Len(pendFile)
        BY <1>1, <3>1, <4>1 DEF EntriesOK
      <4>2. CASE ~(i <= Len(pendFile))
        <5>1. i - Len(pendFile) \in DOMAIN list
          BY <1>1, <3>1, <4>2 DEF EntriesOK
        <5> QED BY <1>1, <3>1, <4>2, <5>1 DEF EntriesOK
      <4> QED BY <4>1, <4>2
    <3> QED BY <3>1, <3>2 DEF EntriesOK
  <2> QED BY <1>1, <1>2, <2>1, <2>2, EndOfProcess, ListStep
<1>6. CASE BeginSearch
  <2>1. pc = "search" /\ UNCHANGED <<pendFile, withdrawn, paid, confirmed>>
    BY <1>6 DEF BeginSearch
  <2>2. CASE EndProcess
    BY <1>1, <1>2, <2>1, <2>2, EndOfProcess, ListStep
  <2>3. CASE ~EndProcess
    <3>1. /\ search' = [search EXCEPT !.todo = ToFind(pendFile), !.nr = search.latest]
          /\ list' = pendFile /\ pc' = "ask"
      BY <1>6, <2>3 DEF BeginSearch
    <3>2. /\ ToFind(pendFile) \in SUBSET Nat
          /\ \A i \in ToFind(pendFile) : i \in DOMAIN pendFile /\ ~pendFile[i].executed
      BY <1>1 DEF ToFind, Unexecuted, EntriesOK
    <3>3. /\ search' \in [todo : SUBSET Nat, latest : Int, nr : Int, found : BOOLEAN]
          /\ search'.todo = ToFind(pendFile)
      BY <1>1, <3>1, <3>2 DEF SearchOK
    <3>4. SearchOK' /\ HeldOK'
      BY <3>1, <3>2, <3>3 DEF SearchOK, HeldOK
    <3> QED BY <1>1, <1>2, <2>1, <3>1, <3>4, ListStep
  <2> QED BY <2>2, <2>3
<1>7. CASE AskBlock
  <2> DEFINE i == Min(search.todo)
             answer == WithdrawalProof(list[i].leaf, search.nr)
             t == CHOOSE t \in answer : TRUE
  <2>1. /\ pc = "ask" /\ pc' = pc /\ UNCHANGED <<pendFile, withdrawn, paid, confirmed>>
        /\ search.todo # {}
        /\ \/ /\ answer # {}
              /\ list' = [list EXCEPT ![i].nr = search.nr, ![i].tx = t]
              /\ search' = NextEntry(TRUE)
           \/ /\ list' = list
              /\ search' \in {[search EXCEPT !.nr = @ - 1], NextEntry(search.found)}
    BY <1>7 DEF AskBlock
  <2>2. i \in search.todo /\ i \in DOMAIN list /\ ~list[i].executed
    <3> DEFINE S == search.todo
    <3>1. S \subseteq Nat /\ S # {}
      BY <1>1, <2>1 DEF SearchOK
    <3> HIDE DEF S
    <3>2. Min(S) \in S
      BY <3>1, MinOfNumbers
    <3> QED BY <1>1, <3>2 DEF S, SearchOK
  <2> HIDE DEF i
  <2>3. /\ search' \in [todo : SUBSET Nat, latest : Int, nr : Int, found : BOOLEAN]
        /\ search'.todo \subseteq search.todo
    <3>1. ASSUME NEW b \in BOOLEAN
          PROVE  /\ NextEntry(b) \in [todo : SUBSET Nat, latest : Int, nr : Int, found : BOOLEAN]
                 /\ NextEntry(b).todo \subseteq search.todo
      BY <1>1 DEF NextEntry, SearchOK
    <3>2. search.found \in BOOLEAN
      BY <1>1 DEF SearchOK
    <3>3. /\ [search EXCEPT !.nr = @ - 1] \in [todo : SUBSET Nat, latest : Int, nr : Int, found : BOOLEAN]
          /\ [search EXCEPT !.nr = @ - 1].todo = search.todo
      BY <1>1 DEF SearchOK
    <3> QED BY <2>1, <3>1, <3>2, <3>3
  <2>4. /\ EntriesOK(list', blocks, withdrawn) /\ DOMAIN list' = DOMAIN list
        /\ \A j \in DOMAIN list : ~list[j].executed => ~list'[j].executed
    <3>1. CASE list' = list
      BY <1>1, <3>1
    <3>2. CASE answer # {} /\ list' = [list EXCEPT ![i].nr = search.nr, ![i].tx = t]
      <4> DEFINE nr == search.nr
                 leaf == list[i].leaf
                 e == list[i]
      <4>1. t \in WithdrawalProof(leaf, nr) /\ WithdrawalProof(leaf, nr) # {} /\ nr \in Int
        BY <1>1, <3>2 DEF SearchOK
      <4>2. leaf = e.leaf /\ list' = [list EXCEPT ![i] = [[e EXCEPT !.nr = nr] EXCEPT !.tx = t]]
        BY <3>2
      <4>3. e \in PendingEntry
        BY <1>1, <2>2 DEF EntriesOK
      <4> HIDE DEF t, nr, leaf, answer, e
      <4>4. t \in Int
        BY <1>1, <4>1, AnswerIsNumber
      <4> DEFINE f == [[e EXCEPT !.nr = nr] EXCEPT !.tx = t]
      <4>5. /\ f \in PendingEntry /\ f.leaf = e.leaf /\ f.nr = nr /\ f.tx = t
            /\ f.executed = e.executed
        BY <4>1, <4>3, <4>4 DEF PendingEntry
      <4>7. list' = [list EXCEPT ![i] = f]
        BY <4>2
      <4> HIDE DEF f
      <4>6. f \in PendingEntry /\ ~f.executed /\ f.tx \in WithdrawalProof(f.leaf, f.nr)
        BY <2>2, <4>1, <4>2, <4>5 DEF e
      <4>8. EntriesOK(list, blocks, withdrawn) /\ i \in DOMAIN list
        BY <1>1, <2>2
      <4> QED BY <4>6, <4>7, <4>8, FindingEntry
    <3> QED BY <2>1, <3>1, <3>2
  <2>5. SearchOK' /\ HeldOK'
    BY <1>1, <2>1, <2>3, <2>4 DEF SearchOK, HeldOK
  <2> QED BY <1>1, <1>2, <2>1, <2>4, <2>5, ListStep
<1>8. CASE EndSearch
  <2>1. /\ pendFile' \in {list, pendFile} /\ EndProcess /\ UNCHANGED <<withdrawn, paid, confirmed>>
    BY <1>8 DEF EndSearch
  <2> QED BY <1>1, <1>2, <2>1, EndOfProcess, ListStep
<1>9. ASSUME NEW i \in DOMAIN pendFile, NEW n \in 0..LatestNr, Update(i, n) PROVE PaidInv'
  <2> DEFINE t == CHOOSE t \in WithdrawalProof(pendFile[i].leaf, n) : TRUE
  <2>1. /\ UNCHANGED <<pc, list, search, held, withdrawn, paid, confirmed>>
        /\ ~pendFile[i].executed /\ WithdrawalProof(pendFile[i].leaf, n) # {}
        /\ pendFile' = [pendFile EXCEPT ![i].nr = n, ![i].tx = t]
    BY <1>9 DEF Update, Unexecuted
  <2>2. t \in WithdrawalProof(pendFile[i].leaf, n) /\ n \in Int
    <3>1. LatestNr \in Int
      BY <1>1 DEF LatestNr
    <3>2. n \in Int
      BY <3>1
    <3> DEFINE W == WithdrawalProof(pendFile[i].leaf, n)
    <3>3. W # {}
      BY <2>1
    <3> HIDE DEF W
    <3>4. (CHOOSE x \in W : TRUE) \in W
      BY <3>3
    <3> QED BY <3>2, <3>4 DEF W
  <2> HIDE DEF t
  <2>3. EntriesOK(pendFile', blocks, withdrawn)
    <3> DEFINE e == pendFile[i]
               leaf == pendFile[i].leaf
    <3>1. pendFile' = [pendFile EXCEPT ![i] = [[e EXCEPT !.nr = n] EXCEPT !.tx = t]]
      BY <2>1
    <3>2. e \in PendingEntry /\ leaf = e.leaf
      BY <1>1 DEF EntriesOK
    <3>3. t \in WithdrawalProof(leaf, n) /\ WithdrawalProof(leaf, n) # {} /\ n \in Int
      BY <2>1, <2>2
    <3> HIDE DEF e, leaf
    <3>4. t \in Int
      BY <1>1, <3>3, AnswerIsNumber
    <3> DEFINE f == [[e EXCEPT !.nr = n] EXCEPT !.tx = t]
    <3>5. /\ f \in PendingEntry /\ f.leaf = e.leaf /\ f.nr = n /\ f.tx = t
          /\ f.executed = e.executed
      BY <3>2, <3>3, <3>4 DEF PendingEntry
    <3>7. pendFile' = [pendFile EXCEPT ![i] = f]
      BY <3>1
    <3>8. ~pendFile[i].executed
      BY <2>1
    <3> HIDE DEF f
    <3>6. f \in PendingEntry /\ ~f.executed /\ f.tx \in WithdrawalProof(f.leaf, f.nr)
      BY <3>2, <3>3, <3>5, <3>8 DEF e
    <3>9. EntriesOK(pendFile, blocks, withdrawn)
      BY <1>1
    <3> QED BY <3>6, <3>7, <3>9, FindingEntry
  <2>4. SearchOK' /\ HeldOK'
    BY <1>1, <2>1 DEF SearchOK, HeldOK, Entry
  <2> QED BY <1>1, <1>2, <2>1, <2>3, <2>4, ListStep
<1>10. ASSUME NEW i \in DOMAIN pendFile, ExecuteProof(i) PROVE PaidInv'
  <2>1. /\ pc = "idle" /\ pc' = "execute" /\ list' = pendFile
        /\ UNCHANGED <<pendFile, search, withdrawn, paid, confirmed>>
        /\ pendFile[i].nr # 0
        /\ held' = [place |-> i, tx |-> Min(TxsWith(pendFile[i].leaf, pendFile[i].nr)),
                    block |-> blocks[pendFile[i].nr + 1]]
    BY <1>10 DEF ExecuteProof
  <2>2. EntryOK(pendFile[i], blocks, withdrawn)
    BY <1>1 DEF EntriesOK
  <2>3. TxsWith(pendFile[i].leaf, pendFile[i].nr) = Holding(blocks, pendFile[i].leaf, pendFile[i].nr)
    BY <2>1, <2>2 DEF EntryOK, TxsWith, Holding
  <2>4. held'.place = i /\ held'.tx = pendFile[i].tx
    BY <2>1, <2>2, <2>3 DEF EntryOK
  <2>5. SearchOK' /\ HeldOK'
    BY <1>1, <2>1, <2>4 DEF SearchOK, HeldOK, Entry
  <2> QED BY <1>1, <1>2, <2>1, <2>5, ListStep
<1>11. CASE AlreadyWithdrawn \/ CallWithdraw
  <2>1. /\ pc = "execute" /\ pc' = "executed" /\ list' = MarkExecuted(list, Entry.nr, Entry.tx)
        /\ UNCHANGED <<pendFile, search, confirmed>>
    BY <1>11 DEF AlreadyWithdrawn, CallWithdraw, MarkEntry
  <2>2. /\ held.place \in DOMAIN list /\ Entry.nr # 0 /\ held.tx = Entry.tx
        /\ EntryOK(Entry, blocks, withdrawn)
    BY <1>1, <2>1 DEF HeldOK, Entry, EntriesOK
  <2>3. /\ Entry.nr \in Int /\ Entry.tx \in Int /\ Entry.leaf \in Commitments
        /\ Entry.nr + 1 \in DOMAIN blocks
    BY <2>2 DEF EntryOK, PendingEntry
  <2>4. Entry.tx \in Holding(blocks, Entry.leaf, Entry.nr)
    <3> DEFINE S == Holding(blocks, Entry.leaf, Entry.nr)
    <3>1. S # {} /\ Entry.tx = Min(S)
      BY <2>2 DEF EntryOK
    <3>2. S \subseteq Nat
      <4>1. blocks[Entry.nr + 1] \in Block
        BY <1>1, <2>3
      <4> QED BY <4>1 DEF Holding, Block
    <3> HIDE DEF S
    <3>3. Min(S) \in S
      BY <3>1, <3>2, MinOfNumbers
    <3> QED BY <3>1, <3>3 DEF S
  <2>5. /\ MarksPaid(blocks, withdrawn', paid') /\ withdrawn \subseteq withdrawn'
        /\ <<Entry.nr, Entry.tx>> \in withdrawn'
    <3>1. CASE AlreadyWithdrawn
      BY <1>1, <2>2, <3>1 DEF AlreadyWithdrawn, Key
    <3>2. CASE CallWithdraw
      <4>1. Pay(Entry.nr, Entry.tx, Entry.leaf)
        BY <2>2, <3>2 DEF CallWithdraw
      <4>2. /\ Entry.tx \in DOMAIN blocks[Entry.nr + 1].outputs
            /\ blocks[Entry.nr + 1].outputs[Entry.tx] = Entry.leaf
        BY <2>4 DEF Holding
      <4> QED BY <1>1, <2>3, <4>1, <4>2, PayingPays
    <3> QED BY <1>11, <3>1, <3>2
  <2>6. EntriesOK(pendFile, blocks, withdrawn') /\ EntriesOK(list, blocks, withdrawn')
    BY <1>1, <2>5, ExtendsItself, EntriesStayOK
  <2>7. EntriesOK(list', blocks, withdrawn')
    BY <2>1, <2>2, <2>5, <2>6, MarkingExecuted
  <2>8. SearchOK' /\ HeldOK'
    BY <1>1, <2>1 DEF SearchOK, HeldOK
  <2> QED BY <1>1, <1>2, <2>1, <2>5, <2>6, <2>7, <2>8, ListStep
<1>12. CASE CallFails
  <2>1. EndProcess /\ UNCHANGED <<pendFile, withdrawn, paid, confirmed>>
    BY <1>12 DEF CallFails
  <2> QED BY <1>1, <1>2, <2>1, EndOfProcess, ListStep
<1>13. CASE SaveExecuted
  <2>1. pendFile' = list /\ EndProcess /\ UNCHANGED <<withdrawn, paid, confirmed>>
    BY <1>13 DEF SaveExecuted
  <2> QED BY <1>1, <1>2, <2>1, EndOfProcess, ListStep
<1> QED
  BY <1>3, <1>4, <1>5, <1>6, <1>7, <1>8, <1>9, <1>10, <1>11, <1>12, <1>13 DEF PendingStep

(* A withdrawal that the client reports as executed has been paid, unless    *)
(* blocks were rolled back or the list holds its commitment twice: for any   *)
(* commitments, blocks and depth of the search, whatever command is cut and  *)
(* whoever else has withdrawals paid out.                                    *)
THEOREM ReportedIsPaid == Spec => []ExecutedWasPaid
<1> DEFINE Inv == SpendInv /\ BlocksOK /\ PaidInv
<1>1. Init => Inv
  <2> SUFFICES ASSUME Init PROVE Inv
    OBVIOUS
  <2>1. SpendInv /\ BlocksOK
    BY InitKeepsWallet
  <2>2. /\ pendFile = <<>> /\ list = <<>> /\ search = NoSearch /\ pc = "idle"
        /\ withdrawn = {} /\ confirmed = 0 /\ paid = [l \in Commitments |-> 0] /\ blocks = <<>>
    BY DEF Init, SyncInit, PendingInit
  <2>3. SearchOK /\ HeldOK
    BY <2>2, EmptySearch DEF SearchOK, HeldOK
  <2>4. EntriesOK(<<>>, blocks, withdrawn) /\ MarksPaid(blocks, withdrawn, paid)
    BY <2>2 DEF EntriesOK, MarksPaid
  <2> QED BY <2>1, <2>2, <2>3, <2>4 DEF PaidInv
<1>2. Inv /\ [Next]_clientVars => Inv'
  <2> SUFFICES ASSUME Inv, [Next]_clientVars PROVE Inv'
    OBVIOUS
  <2>1. SpendInv' /\ BlocksOK'
    BY StepKeepsWallet
  <2>2. CASE UNCHANGED clientVars
    <3>1. UNCHANGED <<history, pendFile, blocks, withdrawn, list, paid, search, held, pc, confirmed>>
      BY <2>2 DEF clientVars, server, walletVars, pendingVars
    <3>2. SearchOK => SearchOK'
      BY <3>1 DEF SearchOK
    <3>3. HeldOK => HeldOK'
      BY <3>1 DEF HeldOK, Entry
    <3>4. /\ EntriesOK(pendFile', blocks', withdrawn') = EntriesOK(pendFile, blocks, withdrawn)
          /\ EntriesOK(list', blocks', withdrawn') = EntriesOK(list, blocks, withdrawn)
          /\ MarksPaid(blocks', withdrawn', paid') = MarksPaid(blocks, withdrawn, paid)
      BY <3>1
    <3> QED BY <2>1, <3>1, <3>2, <3>3, <3>4 DEF PaidInv
  <2>3. CASE Next
    <3> SUFFICES ASSUME ~history'.rolled PROVE PaidInv'
      BY <2>1 DEF PaidInv
    <3>1. ~RolledBack /\ ~history.rolled
      <4>1. ~RolledBack
        BY RolledRemembered DEF RolledBack, SpendInv
      <4> QED BY <2>3, <4>1, RolledKept DEF SpendInv
    <3> QED BY <2>1, <2>3, <3>1, PaidStepOfOthers, PaidPendingStep DEF Next
  <2> QED BY <2>1, <2>2, <2>3
<1>3. Inv => ExecutedWasPaid
  <2> SUFFICES ASSUME Inv, ~history.rolled, NEW l \in Commitments,
                      Cardinality({i \in {i \in DOMAIN pendFile : pendFile[i].leaf = l} :
                                     pendFile[i].executed}) > paid[l]
               PROVE  Cardinality({i \in DOMAIN pendFile : pendFile[i].leaf = l}) > 1
    BY DEF ExecutedWasPaid
  <2> DEFINE all == {i \in DOMAIN pendFile : pendFile[i].leaf = l}
             marked == {i \in all : pendFile[i].executed}
  <2>1. /\ EntriesOK(pendFile, blocks, withdrawn) /\ MarksPaid(blocks, withdrawn, paid)
        /\ paid[l] \in Nat /\ blocks \in Seq(Block)
    BY DEF PaidInv, MarksPaid, BlocksOK
  <2>2. IsFiniteSet(all) /\ IsFiniteSet(marked) /\ marked \subseteq all
    <3>1. IsFiniteSet(1..Len(pendFile)) /\ all \subseteq 1..Len(pendFile)
      <4>1. Len(pendFile) \in Nat /\ DOMAIN pendFile = 1..Len(pendFile)
        BY <2>1 DEF EntriesOK
      <4> DEFINE n == Len(pendFile)
      <4>3. n \in Nat
        BY <4>1
      <4> HIDE DEF n
      <4>4. IsFiniteSet(1..n)
        BY <4>3, FS_Interval
      <4>2. IsFiniteSet(1..Len(pendFile))
        BY <4>4 DEF n
      <4> QED BY <4>1, <4>2
    <3>2. IsFiniteSet(all)
      BY <3>1, FS_Subset
    <3> QED BY <3>2, FS_Subset
  <2>3. Cardinality(all) \in Nat /\ Cardinality(marked) \in Nat /\ Cardinality(marked) <= Cardinality(all)
    BY <2>2, FS_CardinalityType, FS_Subset
  <2>4. marked # {}
    <3>1. Cardinality(marked) > 0
      BY <2>1, <2>3
    <3>2. Cardinality({}) = 0
      BY FS_EmptySet
    <3> QED BY <3>1, <3>2
  <2>5. PICK i \in DOMAIN pendFile : pendFile[i].leaf = l /\ pendFile[i].executed
    BY <2>4
  <2>6. paid[l] >= 1
    <3> DEFINE e == pendFile[i]
    <3>1. EntryOK(e, blocks, withdrawn)
      BY <2>1, <2>5 DEF EntriesOK
    <3>2. e.leaf = l /\ e.executed
      BY <2>5
    <3> HIDE DEF e
    <3>3. /\ e.nr # 0 /\ <<e.nr, e.tx>> \in withdrawn /\ e.nr \in Int /\ e.tx \in Int
          /\ e.nr + 1 \in DOMAIN blocks
      BY <3>1, <3>2 DEF EntryOK, PendingEntry
    <3>4. e.tx \in Holding(blocks, l, e.nr)
      <4> DEFINE S == Holding(blocks, l, e.nr)
      <4>1. S # {} /\ e.tx = Min(S)
        BY <3>1, <3>2, <3>3 DEF EntryOK
      <4>2. S \subseteq Nat
        <5>1. blocks[e.nr + 1] \in Block
          BY <2>1, <3>3
        <5> QED BY <5>1 DEF Holding, Block
      <4> HIDE DEF S
      <4>3. Min(S) \in S
        BY <4>1, <4>2, MinOfNumbers
      <4> QED BY <4>1, <4>3 DEF S
    <3>5. PaidFor(<<e.nr, e.tx>>, blocks, paid)
      BY <2>1, <3>3 DEF MarksPaid
    <3>6. paid[blocks[e.nr + 1].outputs[e.tx]] >= 1
      BY <3>3, <3>5 DEF PaidFor
    <3> QED BY <3>4, <3>6 DEF Holding
  <2> HIDE DEF all, marked
  <2>7. Cardinality(marked) > paid[l]
    BY DEF marked, all
  <2> QED BY <2>1, <2>3, <2>6, <2>7 DEF all
<1> QED BY <1>1, <1>2, <1>3, PTL DEF Spec

-----------------------------------------------------------------------------
(* Synced paths. Blocks come in order of their days, each at the next index  *)
(* of its day; the day of the tip, its number, the root of every day with    *)
(* blocks, and the root of a day, Zero without blocks.                       *)
HeadDay(bs) == IF bs = <<>> THEN 0 ELSE bs[Len(bs)].day
Tip(bs) == IF bs = <<>> THEN 0 ELSE Len(bs) - 1
DayRoots(bs) == [d \in DaysOf(bs) |-> DayTree(bs, d)]
RootOf(bs, d) == IF d \in DaysOf(bs) THEN DayTree(bs, d) ELSE Zero

(* Blocks as the sequencer numbers them.                                     *)
InOrder(bs) ==
    /\ bs \in Seq(Block)
    /\ \A i \in 1..Len(bs) : bs[i].index < Cardinality(InDay(bs, bs[i].day))
    /\ \A i, j \in 1..Len(bs) : i <= j => bs[i].day <= bs[j].day
    /\ \A i, j \in 1..Len(bs) : bs[i].day = bs[j].day /\ bs[i].index = bs[j].index => i = j

(* Blocks bs and none or some more of the same day or later ones: the trees  *)
(* of the days before the last are what they were.                           *)
GrowsTo(bs, cs) ==
    /\ InOrder(bs) /\ InOrder(cs)
    /\ cs = bs \/ Len(bs) < Len(cs)
    /\ \A i \in 1..Len(bs) : cs[i] = bs[i]
    /\ HeadDay(bs) <= HeadDay(cs)
    /\ \A d \in Nat : d < HeadDay(bs) =>
          DayTree(cs, d) = DayTree(bs, d) /\ (d \in DaysOf(cs) <=> d \in DaysOf(bs))

(* The fields of a block.                                                    *)
LEMMA BlockFields ==
  ASSUME NEW bs \in Seq(Block), NEW i \in 1..Len(bs)
  PROVE  bs[i] \in Block /\ bs[i].day \in Nat /\ bs[i].index \in Nat
<1>1. bs[i] \in Block
  OBVIOUS
<1> QED BY <1>1 DEF Block

(* Some bounded numbers have a greatest one, and Max is it.                  *)
LEMMA MaxOfNumbers ==
  ASSUME NEW S, S \subseteq Nat, S # {}, NEW n \in Nat, \A y \in S : y <= n
  PROVE  Max(S) \in S /\ \A y \in S : y <= Max(S)
<1> DEFINE B == {k \in Nat : \A y \in S : y <= k}
<1>1. B \subseteq Nat /\ B # {} /\ \A k \in B, y \in S : y <= k
  OBVIOUS
<1>2. \A k \in Nat : (\A y \in S : y <= k) => k \in B
  OBVIOUS
<1> HIDE DEF B
<1>3. PICK m \in B : \A k \in B : m <= k
  BY <1>1, MinOfNumbers
<1>4. m \in S
  <2> SUFFICES ASSUME m \notin S PROVE FALSE
    OBVIOUS
  <2>1. m \in Nat /\ \A y \in S : y \in Nat /\ y < m
    BY <1>1, <1>3
  <2>2. m > 0 /\ \A y \in S : y <= m - 1
    <3>1. PICK x \in S : TRUE
      OBVIOUS
    <3>2. m > 0
      BY <2>1, <3>1
    <3>3. \A y \in S : y <= m - 1
      BY <2>1
    <3> QED BY <3>2, <3>3
  <2>3. m - 1 \in B
    BY <2>1, <2>2, <1>2
  <2> QED BY <2>1, <2>3, <1>3
<1>5. \A y \in S : m >= y
  BY <1>1, <1>3
<1> QED BY <1>1, <1>4, <1>5 DEF Max

(* The tree of a day has each of its blocks at its index.                    *)
LEMMA TreeOfDay ==
  ASSUME NEW bs, InOrder(bs)
  PROVE  /\ \A i \in 1..Len(bs) :
               /\ bs[i].index \in DOMAIN DayTree(bs, bs[i].day)
               /\ DayTree(bs, bs[i].day)[bs[i].index] = Leaves(bs[i])
         /\ \A d : /\ \A k : k \in DOMAIN DayTree(bs, d) <=> \E i \in InDay(bs, d) : bs[i].index = k
                   /\ DayTree(bs, d) = [k \in DOMAIN DayTree(bs, d) |-> DayTree(bs, d)[k]]
<1>1. DOMAIN bs = 1..Len(bs)
  BY DEF InOrder
<1>2. \A d, k : k \in DOMAIN DayTree(bs, d) <=> \E i \in InDay(bs, d) : bs[i].index = k
  BY DEF DayTree
<1>3. \A d : DayTree(bs, d) = [k \in DOMAIN DayTree(bs, d) |-> DayTree(bs, d)[k]]
  BY DEF DayTree
<1>4. ASSUME NEW i \in 1..Len(bs)
      PROVE  /\ bs[i].index \in DOMAIN DayTree(bs, bs[i].day)
             /\ DayTree(bs, bs[i].day)[bs[i].index] = Leaves(bs[i])
  <2> DEFINE d == bs[i].day
             k == bs[i].index
             S == InDay(bs, d)
             j == CHOOSE j \in S : bs[j].index = k
  <2>1. i \in S
    BY <1>1 DEF InDay
  <2>2. j \in S /\ bs[j].index = k
    BY <2>1
  <2>3. \A x \in S : x \in 1..Len(bs) /\ bs[x].day = d
    BY <1>1 DEF InDay
  <2>4. j = i
    BY <2>2, <2>3 DEF InOrder
  <2>5. k \in DOMAIN DayTree(bs, d)
    BY <1>2, <2>1
  <2>6. DayTree(bs, d)[k] = Leaves(bs[j])
    <3>1. k \in {bs[x].index : x \in InDay(bs, d)}
      BY <2>1
    <3> HIDE DEF k, d
    <3> QED BY <3>1 DEF DayTree
  <2> QED BY <2>4, <2>5, <2>6
<1> QED BY <1>2, <1>3, <1>4

(* The days of blocks in order.                                              *)
LEMMA DaysInOrder ==
  ASSUME NEW bs, InOrder(bs)
  PROVE  /\ HeadDay(bs) \in Nat /\ Tip(bs) \in Nat /\ Len(bs) \in Nat
         /\ DaysOf(bs) \subseteq 0..HeadDay(bs)
         /\ bs # <<>> => HeadDay(bs) \in DaysOf(bs)
         /\ \A i \in 1..Len(bs) : bs[i].day \in DaysOf(bs)
         /\ \A d \in DaysOf(bs) : DayTree(bs, d) # Zero
         /\ \A d : d \notin DaysOf(bs) => DayTree(bs, d) = Zero
<1>1. bs \in Seq(Block) /\ DOMAIN bs = 1..Len(bs) /\ Len(bs) \in Nat
      /\ \A i \in 1..Len(bs) : bs[i] \in Block /\ bs[i].day \in Nat
  BY BlockFields DEF InOrder
<1>2. bs # <<>> => Len(bs) \in 1..Len(bs)
  BY <1>1
<1>3. \A i \in 1..Len(bs) : bs[i].day \in DaysOf(bs) /\ bs[i].day <= HeadDay(bs)
  <2> TAKE i \in 1..Len(bs)
  <2>1. bs # <<>>
    BY <1>1
  <2>2. i <= Len(bs)
    BY <1>1
  <2> QED BY <1>1, <1>2, <2>1, <2>2 DEF DaysOf, HeadDay, InOrder
<1>4. DaysOf(bs) \subseteq 0..HeadDay(bs) /\ HeadDay(bs) \in Nat /\ Tip(bs) \in Nat
  BY <1>1, <1>2, <1>3 DEF DaysOf, HeadDay, Tip
<1>5. bs # <<>> => HeadDay(bs) \in DaysOf(bs)
  BY <1>1, <1>2 DEF DaysOf, HeadDay
<1>6. ASSUME NEW d \in DaysOf(bs) PROVE DayTree(bs, d) # Zero
  <2>1. PICK i \in 1..Len(bs) : bs[i].day = d
    BY <1>1 DEF DaysOf
  <2>2. bs[i].index \in DOMAIN DayTree(bs, d)
    BY <2>1, TreeOfDay
  <2> QED BY <2>2, EmptyWallet DEF Zero
<1>7. ASSUME NEW d, d \notin DaysOf(bs) PROVE DayTree(bs, d) = Zero
  <2>1. InDay(bs, d) = {}
    BY <1>7 DEF InDay, DaysOf
  <2>2. DOMAIN DayTree(bs, d) = {}
    BY <2>1 DEF DayTree
  <2>3. DayTree(bs, d) = [k \in {} |-> DayTree(bs, d)[k]]
    BY <2>2, TreeOfDay
  <2>4. <<>> = [k \in {} |-> DayTree(bs, d)[k]]
    OBVIOUS
  <2> QED BY <2>3, <2>4 DEF Zero
<1> QED BY <1>1, <1>3, <1>4, <1>5, <1>6, <1>7

(* Days with the same blocks have the same tree.                             *)
LEMMA SameTree ==
  ASSUME NEW bs, NEW cs, InOrder(bs), InOrder(cs), NEW d,
         InDay(cs, d) = InDay(bs, d), \A i \in InDay(bs, d) : cs[i] = bs[i]
  PROVE  DayTree(cs, d) = DayTree(bs, d)
<1> DEFINE s == DayTree(cs, d)
           t == DayTree(bs, d)
<1>1. /\ s = [k \in DOMAIN s |-> s[k]] /\ t = [k \in DOMAIN t |-> t[k]]
      /\ \A k : k \in DOMAIN s <=> \E i \in InDay(cs, d) : cs[i].index = k
      /\ \A k : k \in DOMAIN t <=> \E i \in InDay(bs, d) : bs[i].index = k
  BY TreeOfDay
<1>2. \A i \in InDay(bs, d) : i \in 1..Len(bs) /\ bs[i].day = d /\ i \in 1..Len(cs) /\ cs[i].day = d
  BY DEF InDay, InOrder
<1>3. \A i \in InDay(bs, d) : s[cs[i].index] = Leaves(cs[i]) /\ t[bs[i].index] = Leaves(bs[i])
  BY <1>2, TreeOfDay
<1> HIDE DEF s, t
<1>4. DOMAIN s = DOMAIN t
  BY <1>1
<1>5. ASSUME NEW k \in DOMAIN t PROVE s[k] = t[k]
  <2>1. PICK i \in InDay(bs, d) : k = bs[i].index
    BY <1>1
  <2> QED BY <2>1, <1>3
<1>6. s = t
  BY <1>1, <1>4, <1>5
<1> QED BY <1>6 DEF s, t

(* A block for the tip, and what the tip then is.                            *)
NextBlock(bs, b, cs) ==
    /\ InOrder(bs) /\ b \in Block /\ HeadDay(bs) <= b.day
    /\ b.index = Cardinality(InDay(bs, b.day)) /\ cs = Append(bs, b)
BlockAdded(bs, b, cs) ==
    /\ GrowsTo(bs, cs) /\ Len(cs) = Len(bs) + 1
    /\ HeadDay(cs) = b.day /\ DaysOf(cs) = DaysOf(bs) \cup {b.day}
    /\ \A d : d # b.day => DayTree(cs, d) = DayTree(bs, d)

(* One more block on the last day or a later one.                            *)
LEMMA OneMoreBlock ==
  ASSUME NEW bs, NEW b, NEW cs, NextBlock(bs, b, cs)
  PROVE  BlockAdded(bs, b, cs)
<1> SUFFICES ASSUME InOrder(bs), b \in Block, HeadDay(bs) <= b.day,
                    b.index = Cardinality(InDay(bs, b.day)), cs = Append(bs, b)
             PROVE  /\ GrowsTo(bs, cs) /\ Len(cs) = Len(bs) + 1
                    /\ HeadDay(cs) = b.day /\ DaysOf(cs) = DaysOf(bs) \cup {b.day}
                    /\ \A d : d # b.day => DayTree(cs, d) = DayTree(bs, d)
  BY DEF NextBlock, BlockAdded
<1> DEFINE n == Len(bs)
<1>1. /\ bs \in Seq(Block) /\ n \in Nat /\ DOMAIN bs = 1..n
      /\ cs \in Seq(Block) /\ Len(cs) = n + 1 /\ DOMAIN cs = 1..(n + 1)
      /\ cs[n + 1] = b /\ \A i \in 1..n : cs[i] = bs[i]
  BY DEF InOrder
<1>2. /\ b.day \in Nat /\ b.index \in Nat
      /\ \A i \in 1..n : bs[i].day \in Nat /\ bs[i].index \in Nat
  <2>1. b.day \in Nat /\ b.index \in Nat
    BY DEF Block
  <2> QED BY <1>1, <2>1, BlockFields
<1>3. \A d : InDay(cs, d) = IF d = b.day THEN InDay(bs, d) \cup {n + 1} ELSE InDay(bs, d)
  BY <1>1 DEF InDay
<1>4. \A d : IsFiniteSet(InDay(bs, d)) /\ Cardinality(InDay(bs, d)) \in Nat /\ n + 1 \notin InDay(bs, d)
  <2> TAKE d
  <2>1. IsFiniteSet(1..n) /\ InDay(bs, d) \subseteq 1..n
    BY <1>1, FS_Interval DEF InDay
  <2> QED BY <1>1, <2>1, FS_Subset, FS_CardinalityType
<1>5. \A d : Cardinality(InDay(cs, d)) =
               IF d = b.day THEN Cardinality(InDay(bs, d)) + 1 ELSE Cardinality(InDay(bs, d))
  BY <1>3, <1>4, FS_AddElement
<1>6. \A i \in 1..n : bs[i].day <= b.day
  BY <1>1, <1>2, DaysInOrder
<1>7. InOrder(cs)
  <2>1. \A i \in 1..(n + 1) : cs[i].index < Cardinality(InDay(cs, cs[i].day))
    <3> TAKE i \in 1..(n + 1)
    <3>1. CASE i = n + 1
      BY <1>1, <1>2, <1>4, <1>5, <3>1
    <3>2. CASE i \in 1..n
      <4>1. bs[i].index < Cardinality(InDay(bs, bs[i].day))
        BY <3>2 DEF InOrder
      <4> QED BY <4>1, <1>1, <1>2, <1>4, <1>5, <3>2
    <3> QED BY <1>1, <3>1, <3>2
  <2>2. \A i, j \in 1..(n + 1) : i <= j => cs[i].day <= cs[j].day
    <3> TAKE i, j \in 1..(n + 1)
    <3>1. CASE j = n + 1
      BY <1>1, <1>2, <1>6, <3>1
    <3>2. CASE j \in 1..n
      BY <1>1, <3>2 DEF InOrder
    <3> QED BY <1>1, <3>1, <3>2
  <2>3. \A i \in 1..n : bs[i].day = b.day => bs[i].index # b.index
    <3> TAKE i \in 1..n
    <3>1. bs[i].index < Cardinality(InDay(bs, bs[i].day))
      BY DEF InOrder
    <3> QED BY <3>1, <1>2
  <2>4. \A i, j \in 1..(n + 1) : cs[i].day = cs[j].day /\ cs[i].index = cs[j].index => i = j
    <3> TAKE i, j \in 1..(n + 1)
    <3>1. CASE i \in 1..n /\ j \in 1..n
      BY <1>1, <3>1 DEF InOrder
    <3>2. CASE i \notin 1..n \/ j \notin 1..n
      BY <1>1, <2>3, <3>2
    <3> QED BY <3>1, <3>2
  <2> QED BY <1>1, <2>1, <2>2, <2>4 DEF InOrder
<1>8. HeadDay(cs) = b.day
  <2>1. cs # <<>>
    BY <1>1
  <2> QED BY <2>1, <1>1 DEF HeadDay
<1>9. DaysOf(cs) = DaysOf(bs) \cup {b.day}
  BY <1>1 DEF DaysOf
<1>10. ASSUME NEW d, d # b.day PROVE DayTree(cs, d) = DayTree(bs, d)
  <2>1. InDay(cs, d) = InDay(bs, d)
    BY <1>3, <1>10
  <2>2. \A i \in InDay(bs, d) : cs[i] = bs[i]
    BY <1>1 DEF InDay
  <2> QED BY <1>7, <2>1, <2>2, SameTree
<1>11. \A d \in Nat : d < HeadDay(bs) =>
          DayTree(cs, d) = DayTree(bs, d) /\ (d \in DaysOf(cs) <=> d \in DaysOf(bs))
  <2> TAKE d \in Nat
  <2> HAVE d < HeadDay(bs)
  <2>1. d # b.day
    BY <1>2, DaysInOrder
  <2> QED BY <2>1, <1>9, <1>10
<1>12. HeadDay(bs) <= HeadDay(cs) /\ Len(bs) < Len(cs)
  BY <1>1, <1>8
<1>13. GrowsTo(bs, cs)
  BY <1>1, <1>7, <1>11, <1>12 DEF GrowsTo
<1> HIDE DEF n
<1> QED BY <1>1, <1>8, <1>9, <1>10, <1>13 DEF n

(* No blocks more.                                                           *)
LEMMA GrowsToItself == ASSUME NEW bs, InOrder(bs) PROVE GrowsTo(bs, bs)
  BY DaysInOrder DEF GrowsTo

-----------------------------------------------------------------------------
(* A leaf and its siblings make the tree again.                              *)
LEMMA RootFromSiblings ==
  ASSUME NEW t, t = [x \in DOMAIN t |-> t[x]], NEW i \in DOMAIN t
  PROVE  RootFrom(Siblings(t, i), i, t[i]) = t
<1> DEFINE s == Siblings(t, i)
           r == RootFrom(s, i, t[i])
<1>1. DOMAIN s = DOMAIN t \ {i} /\ \A x \in DOMAIN t \ {i} : s[x] = t[x]
  BY DEF Siblings
<1> HIDE DEF s
<1>2. r = [x \in DOMAIN s \cup {i} |-> IF x = i THEN t[i] ELSE s[x]]
  BY DEF RootFrom
<1> HIDE DEF r
<1>3. DOMAIN r = DOMAIN t /\ \A x \in DOMAIN t : r[x] = t[x]
  BY <1>1, <1>2
<1>4. r = [x \in DOMAIN t |-> r[x]]
  BY <1>2, <1>3
<1>5. r = t
  BY <1>3, <1>4
<1> QED BY <1>5 DEF r, s

(* The stored proof of a note, in its block and then in its day, as the      *)
(* blocks have it, and a note that says of itself what is so: once its path  *)
(* in the day is stored, the day is over and its tree will not change.       *)
ProofWith(n, bs, inDay) == [block |-> Siblings(Leaves(bs[n.nr + 1]), n.leaf), inDay |-> inDay]
DayPath(n, bs) == Siblings(DayTree(bs, n.day), n.index)
NoteOK(n, bs) ==
    /\ IsNote(n) /\ {"nr", "day", "index", "leaf"} \subseteq DOMAIN n
    /\ n.nr \in Nat /\ n.nr < Len(bs)
    /\ n.day = bs[n.nr + 1].day /\ n.index = bs[n.nr + 1].index
    /\ n.leaf \in DOMAIN Leaves(bs[n.nr + 1]) /\ Leaves(bs[n.nr + 1])[n.leaf] = n.c
    /\ \/ n.proof = {}
       \/ n.proof = {ProofWith(n, bs, {})}
       \/ n.day < HeadDay(bs) /\ n.proof = {ProofWith(n, bs, {DayPath(n, bs)})}
WalletOK(w, bs) == \A i \in DOMAIN w : NoteOK(w[i], bs)

(* The cache is a record, its day roots a sequence, its current day none or  *)
(* one.                                                                      *)
IsCache(c) ==
    /\ c = [anchor |-> c.anchor, nr |-> c.nr, dayRoots |-> c.dayRoots, current |-> c.current]
    /\ Len(c.dayRoots) \in Nat
    /\ c.dayRoots = [i \in 1..Len(c.dayRoots) |-> c.dayRoots[i]]
    /\ c.current = {} \/ \E d \in Nat, k \in Nat : \E t :
                            c.current = {[day |-> d, roots |-> t, nr |-> k]}

(* A cache whose current day is r. The roots of the days before are right,   *)
(* as these were over when r was taken. The tree and the root of the day of  *)
(* r may be old: they are right when r was taken at the present tip. With    *)
(* block 0 at the tip, that cannot be told from no blocks, and the tree has  *)
(* no other leaf.                                                            *)
UpToDate(c, r, bs) ==
    IF r.nr = 0 THEN DOMAIN r.roots \subseteq {0}
    ELSE r.roots = DayTree(bs, r.day) /\ c.dayRoots[r.day + 1] = r.roots
CurrentOK(c, r, bs) ==
    /\ r.nr <= Tip(bs) /\ r.day <= HeadDay(bs)
    /\ Len(c.dayRoots) = r.day + 1
    /\ \A d \in Nat : d < r.day => c.dayRoots[d + 1] = RootOf(bs, d)
    /\ c.dayRoots[r.day + 1] # Zero => r.day \in DaysOf(bs)
    /\ r.nr = Tip(bs) /\ r.day = HeadDay(bs) => UpToDate(c, r, bs)
CacheOK(c, bs) ==
    /\ IsCache(c)
    /\ c.current = {} => c.dayRoots = <<>>
    /\ \A r \in c.current : CurrentOK(c, r, bs)

(* All days before this one are on record, with their roots.                 *)
RowsOK(rows, bs, day) ==
    \A d \in Nat : d < day =>
        /\ d \in DOMAIN rows <=> d \in DaysOf(bs)
        /\ d \in DOMAIN rows => rows[d] = DayTree(bs, d)

(* The root the cache has of a day, a cache that was not taken later than a  *)
(* status, and a cache that has the roots of all days before that of the     *)
(* status.                                                                   *)
Known(c, d) == IF d + 1 \in 1..Len(c.dayRoots) THEN c.dayRoots[d + 1] ELSE Zero
Behind(c, nr, day) == \A r \in c.current : r.nr <= nr /\ r.day <= day
FetchedOK(c, bs, nr, day) ==
    /\ IsCache(c) /\ Behind(c, nr, day)
    /\ Len(c.dayRoots) <= day + 1
    /\ \A d \in Nat : d < day => Known(c, d) = RootOf(bs, d)
    /\ \A r \in c.current : r.day = day => CurrentOK(c, r, bs)

(* What is right of blocks stays right when more come: notes,                *)
LEMMA NoteStays ==
  ASSUME NEW bs, NEW cs, GrowsTo(bs, cs), NEW n, NoteOK(n, bs)
  PROVE  NoteOK(n, cs)
<1>1. Len(bs) \in Nat /\ Len(cs) \in Nat /\ Len(bs) <= Len(cs) /\ HeadDay(bs) \in Nat /\ HeadDay(cs) \in Nat
      /\ HeadDay(bs) <= HeadDay(cs)
  BY DaysInOrder DEF GrowsTo
<1>2. n.nr + 1 \in 1..Len(bs) /\ cs[n.nr + 1] = bs[n.nr + 1] /\ n.nr < Len(cs) /\ n.nr \in Nat
  BY <1>1 DEF GrowsTo, NoteOK
<1>3. n.day \in Nat
  BY <1>2, BlockFields DEF NoteOK, GrowsTo, InOrder
<1>4. n.day < HeadDay(bs) => n.day < HeadDay(cs) /\ DayPath(n, cs) = DayPath(n, bs)
  BY <1>1, <1>3 DEF GrowsTo, DayPath
<1>5. \A s : ProofWith(n, cs, s) = ProofWith(n, bs, s)
  BY <1>2 DEF ProofWith
<1>6. \/ n.proof = {}
      \/ n.proof = {ProofWith(n, cs, {})}
      \/ n.day < HeadDay(cs) /\ n.proof = {ProofWith(n, cs, {DayPath(n, cs)})}
  BY <1>4, <1>5 DEF NoteOK
<1> QED BY <1>2, <1>6 DEF NoteOK

(* the current day of a cache,                                               *)
LEMMA CurrentStays ==
  ASSUME NEW bs, NEW cs, GrowsTo(bs, cs), NEW c, NEW r, r.day \in Nat, r.nr \in Nat,
         CurrentOK(c, r, bs)
  PROVE  CurrentOK(c, r, cs)
<1>1. /\ Len(bs) \in Nat /\ Len(cs) \in Nat /\ HeadDay(bs) \in Nat /\ HeadDay(cs) \in Nat
      /\ Tip(bs) \in Nat /\ Tip(cs) \in Nat /\ HeadDay(bs) <= HeadDay(cs)
      /\ DaysOf(bs) \subseteq 0..HeadDay(bs)
  BY DaysInOrder DEF GrowsTo
<1>2. (bs = <<>> => Len(bs) = 0) /\ (cs = <<>> => Len(cs) = 0)
  OBVIOUS
<1>3. cs = bs \/ Tip(bs) < Tip(cs) \/ (bs = <<>> /\ Tip(bs) = 0 /\ Len(cs) = 1 /\ HeadDay(bs) = 0)
  <2>1. cs = bs \/ Len(bs) < Len(cs)
    BY DEF GrowsTo
  <2>2. CASE Len(bs) < Len(cs)
    <3>1. cs # <<>> /\ Tip(cs) = Len(cs) - 1
      BY <1>1, <1>2, <2>2 DEF Tip
    <3>2. CASE bs = <<>>
      <4>1. Tip(bs) = 0 /\ HeadDay(bs) = 0
        BY <3>2 DEF Tip, HeadDay
      <4>2. Len(cs) \in Nat /\ 0 < Len(cs)
        BY <1>1, <1>2, <3>2, <2>2
      <4>3. Len(cs) = 1 \/ Tip(cs) > 0
        BY <3>1, <4>2
      <4> QED BY <3>2, <4>1, <4>3
    <3>3. CASE bs # <<>>
      <4>1. Tip(bs) = Len(bs) - 1
        BY <3>3 DEF Tip
      <4> QED BY <1>1, <3>1, <4>1, <2>2
    <3> QED BY <3>2, <3>3
  <2> QED BY <2>1, <2>2
<1>4. Tip(bs) <= Tip(cs)
  BY <1>1, <1>3 DEF Tip
<1>5. \A d \in Nat : d < r.day => RootOf(cs, d) = RootOf(bs, d)
  BY <1>1 DEF CurrentOK, GrowsTo, RootOf
<1>6. DaysOf(bs) \subseteq DaysOf(cs)
  <2>1. DOMAIN bs = 1..Len(bs) /\ DOMAIN cs = 1..Len(cs)
    BY DEF GrowsTo, InOrder
  <2> QED BY <1>1, <2>1 DEF GrowsTo, DaysOf
<1>7. ASSUME r.nr = Tip(cs), r.day = HeadDay(cs) PROVE UpToDate(c, r, cs)
  <2>1. r.nr = Tip(bs) /\ r.day = HeadDay(bs)
    BY <1>1, <1>4, <1>7 DEF CurrentOK
  <2>2. UpToDate(c, r, bs)
    BY <2>1 DEF CurrentOK
  <2>3. CASE cs = bs
    BY <2>2, <2>3
  <2>4. CASE Tip(bs) = 0
    BY <2>1, <2>2, <2>4 DEF UpToDate
  <2> QED BY <1>3, <1>1, <1>7, <2>1, <2>3, <2>4
<1> QED BY <1>1, <1>4, <1>5, <1>6, <1>7 DEF CurrentOK

(* (which is one record,)                                                    *)
LEMMA CurrentTyped ==
  ASSUME NEW c, IsCache(c), NEW r \in c.current
  PROVE  r.day \in Nat /\ r.nr \in Nat /\ c.current = {r} /\ r = [day |-> r.day, roots |-> r.roots, nr |-> r.nr]
<1>1. PICK d \in Nat, k \in Nat : \E t : c.current = {[day |-> d, roots |-> t, nr |-> k]}
  BY DEF IsCache
<1>2. PICK t : c.current = {[day |-> d, roots |-> t, nr |-> k]}
  BY <1>1
<1>3. r = [day |-> d, roots |-> t, nr |-> k]
  BY <1>2
<1> QED BY <1>2, <1>3

(* the cache,                                                                *)
LEMMA CacheStays ==
  ASSUME NEW bs, NEW cs, GrowsTo(bs, cs), NEW c, CacheOK(c, bs)
  PROVE  CacheOK(c, cs)
  BY CurrentStays, CurrentTyped DEF CacheOK

(* the cache during a sync,                                                  *)
LEMMA FetchedStays ==
  ASSUME NEW bs, NEW cs, GrowsTo(bs, cs), NEW c, NEW nr, NEW day \in Nat, day <= HeadDay(bs),
         FetchedOK(c, bs, nr, day)
  PROVE  FetchedOK(c, cs, nr, day)
<1>1. HeadDay(bs) \in Nat
  BY DaysInOrder DEF GrowsTo
<1>2. \A d \in Nat : d < day => RootOf(cs, d) = RootOf(bs, d)
  BY <1>1 DEF GrowsTo, RootOf
<1> QED BY <1>2, CurrentStays, CurrentTyped DEF FetchedOK

(* and the rows of days that are over.                                       *)
LEMMA RowsStay ==
  ASSUME NEW bs, NEW cs, GrowsTo(bs, cs), NEW rows, NEW day \in Nat, day <= HeadDay(bs),
         RowsOK(rows, bs, day)
  PROVE  RowsOK(rows, cs, day)
<1>1. HeadDay(bs) \in Nat
  BY DaysInOrder DEF GrowsTo
<1> QED BY <1>1 DEF GrowsTo, RowsOK

(* update_day_roots writes the rows it is given and keeps the rest.          *)
LEMMA RowsWritten ==
  ASSUME NEW c, IsCache(c), NEW rows, NEW m \in Nat,
         Len(c.dayRoots) <= m, DOMAIN rows \subseteq Nat, \A d \in DOMAIN rows : d < m
  PROVE  /\ IsCache(UpdateDayRoots(c, rows))
         /\ UpdateDayRoots(c, rows).current = c.current
         /\ Len(UpdateDayRoots(c, rows).dayRoots) <= m
         /\ Len(c.dayRoots) <= Len(UpdateDayRoots(c, rows).dayRoots)
         /\ \A d \in DOMAIN rows : d < Len(UpdateDayRoots(c, rows).dayRoots)
         /\ \A d \in Nat : Known(UpdateDayRoots(c, rows), d) =
                              IF d \in DOMAIN rows THEN rows[d] ELSE Known(c, d)
<1> DEFINE S == {Len(c.dayRoots)} \cup {d + 1 : d \in DOMAIN rows}
           n == Max(S)
           f == [i \in 1..n |-> IF i - 1 \in DOMAIN rows THEN rows[i - 1]
                                ELSE IF i \in DOMAIN c.dayRoots THEN c.dayRoots[i] ELSE Zero]
           u == UpdateDayRoots(c, rows)
<1>1. S \subseteq Nat /\ S # {} /\ (\A y \in S : y <= m) /\ Len(c.dayRoots) \in S
      /\ \A d \in DOMAIN rows : d + 1 \in S
  BY DEF IsCache
<1> HIDE DEF S
<1>2. n \in S /\ \A y \in S : y <= n
  BY <1>1, MaxOfNumbers
<1>3. u = [c EXCEPT !.dayRoots = f]
  BY DEF UpdateDayRoots, S
<1> HIDE DEF n
<1>4. n \in Nat /\ n <= m /\ Len(c.dayRoots) <= n /\ \A d \in DOMAIN rows : d < n
  <2>1. n \in Nat /\ n <= m /\ Len(c.dayRoots) <= n
    BY <1>1, <1>2
  <2>2. ASSUME NEW d \in DOMAIN rows PROVE d < n
    <3>1. d + 1 <= n /\ d \in Nat
      BY <1>1, <1>2
    <3> QED BY <2>1, <3>1
  <2> QED BY <2>1, <2>2
<1>5. DOMAIN c.dayRoots = 1..Len(c.dayRoots) /\ Len(c.dayRoots) \in Nat
  BY DEF IsCache
<1>6. /\ Len(f) = n /\ f = [i \in 1..n |-> f[i]]
      /\ \A i \in 1..n : f[i] = IF i - 1 \in DOMAIN rows THEN rows[i - 1]
                                ELSE IF i \in DOMAIN c.dayRoots THEN c.dayRoots[i] ELSE Zero
  BY <1>4
<1> HIDE DEF f
<1>7. u = [anchor |-> c.anchor, nr |-> c.nr, dayRoots |-> f, current |-> c.current]
  <2>1. c = [anchor |-> c.anchor, nr |-> c.nr, dayRoots |-> c.dayRoots, current |-> c.current]
    BY DEF IsCache
  <2> QED BY <1>3, <2>1
<1> HIDE DEF u
<1>8. u.anchor = c.anchor /\ u.nr = c.nr /\ u.dayRoots = f /\ u.current = c.current
  BY <1>7
<1>9. IsCache(u)
  <2>1. u = [anchor |-> u.anchor, nr |-> u.nr, dayRoots |-> u.dayRoots, current |-> u.current]
    BY <1>7, <1>8
  <2>2. u.current = {} \/ \E d \in Nat, k \in Nat : \E t : u.current = {[day |-> d, roots |-> t, nr |-> k]}
    BY <1>8 DEF IsCache
  <2>3. Len(u.dayRoots) \in Nat /\ u.dayRoots = [i \in 1..Len(u.dayRoots) |-> u.dayRoots[i]]
    BY <1>4, <1>6, <1>8
  <2> QED BY <2>1, <2>2, <2>3 DEF IsCache
<1>10. ASSUME NEW d \in Nat
       PROVE  Known(u, d) = IF d \in DOMAIN rows THEN rows[d] ELSE Known(c, d)
  <2>1. (d + 1) - 1 = d
    OBVIOUS
  <2>2. CASE d + 1 \in 1..n
    <3>1. Known(u, d) = f[d + 1]
      BY <1>6, <1>8, <2>2 DEF Known
    <3> QED BY <1>5, <1>6, <2>1, <2>2, <3>1 DEF Known
  <2>3. CASE d + 1 \notin 1..n
    <3>1. Known(u, d) = Zero /\ Known(c, d) = Zero /\ d \notin DOMAIN rows
      BY <1>4, <1>5, <1>6, <1>8, <2>3 DEF Known
    <3> QED BY <3>1
  <2> QED BY <2>2, <2>3
<1> QED BY <1>4, <1>6, <1>8, <1>9, <1>10 DEF u

(* The first day that is asked for.                                          *)
LEMMA FirstMissingDay ==
  ASSUME NEW c, NEW bs, CacheOK(c, bs)
  PROVE  /\ c.current = {} => FinalizedDaysCached(c) = 0 /\ Len(c.dayRoots) = 0
         /\ \A r \in c.current : FinalizedDaysCached(c) = r.day
<1>1. Len(<<>>) = 0
  OBVIOUS
<1>2. c.current = {} => FinalizedDaysCached(c) = 0 /\ Len(c.dayRoots) = 0
  BY <1>1 DEF CacheOK, FinalizedDaysCached, DayBefore
<1>3. ASSUME NEW r \in c.current PROVE FinalizedDaysCached(c) = r.day
  <2> DEFINE S == {Len(c.dayRoots)} \cup {q.day : q \in c.current}
  <2>1. r.day \in Nat /\ c.current = {r} /\ Len(c.dayRoots) = r.day + 1
    BY CurrentTyped DEF CacheOK, CurrentOK
  <2>2. S = {r.day + 1, r.day}
    BY <2>1
  <2>3. FinalizedDaysCached(c) = Min(S)
    BY DEF FinalizedDaysCached
  <2>4. S \subseteq Nat /\ S # {}
    BY <2>1, <2>2
  <2> HIDE DEF S
  <2>5. Min(S) \in S /\ \A y \in S : Min(S) <= y
    BY <2>4, MinOfNumbers
  <2> QED BY <2>1, <2>2, <2>3, <2>5
<1> QED BY <1>2, <1>3

(* What a cache knows of the days before its current one.                    *)
LEMMA KnownDays ==
  ASSUME NEW c, NEW bs, CacheOK(c, bs), NEW r \in c.current
  PROVE  /\ Len(c.dayRoots) = r.day + 1
         /\ \A d \in Nat : d < r.day => Known(c, d) = RootOf(bs, d)
         /\ \A d \in Nat : d >= r.day /\ d \notin DaysOf(bs) => Known(c, d) = Zero
<1>1. r.day \in Nat /\ CurrentOK(c, r, bs)
  BY CurrentTyped DEF CacheOK
<1>2. Len(c.dayRoots) = r.day + 1
  BY <1>1 DEF CurrentOK
<1>3. \A d \in Nat : d < r.day => d + 1 \in 1..Len(c.dayRoots)
  BY <1>1, <1>2
<1>4. \A d \in Nat : d >= r.day /\ d + 1 \in 1..Len(c.dayRoots) => d = r.day
  BY <1>1, <1>2
<1> QED BY <1>1, <1>2, <1>3, <1>4 DEF CurrentOK, Known

(* The day roots that a sync fetches: with those it had, of all the days     *)
(* before the current one.                                                   *)
LEMMA DaysFetched ==
  ASSUME NEW c, NEW bs, InOrder(bs), CacheOK(c, bs), NEW nr \in Nat, NEW day \in Nat,
         Behind(c, nr, day), NEW rows, DOMAIN rows \subseteq Nat, RowsOK(rows, bs, day),
         NEW u, NEW first, first = FinalizedDaysCached(c),
         u = IF day > 0 /\ first <= day - 1
             THEN UpdateDayRoots(c, [d \in DOMAIN rows \cap first..(day - 1) |-> rows[d]]) ELSE c
  PROVE  FetchedOK(u, bs, nr, day)
<1>1. IsCache(c)
  BY DEF CacheOK
<1>2. \A d \in Nat : d < day /\ d \in DOMAIN rows => rows[d] = RootOf(bs, d)
  BY DEF RowsOK, RootOf
<1>3. \A d \in Nat : d < day /\ d \notin DOMAIN rows => RootOf(bs, d) = Zero /\ d \notin DaysOf(bs)
  BY DEF RowsOK, RootOf
<1>4. /\ first \in Nat /\ Len(c.dayRoots) <= day + 1
      /\ \A d \in Nat : d < first => Known(c, d) = RootOf(bs, d)
      /\ \A d \in Nat : d >= first /\ d \notin DaysOf(bs) => Known(c, d) = Zero
  <2>1. CASE c.current = {}
    <3>1. first = 0 /\ Len(c.dayRoots) = 0
      BY <2>1, FirstMissingDay
    <3>2. \A d \in Nat : Known(c, d) = Zero
      BY <3>1 DEF Known
    <3> QED BY <3>1, <3>2
  <2>2. ASSUME NEW r \in c.current
        PROVE  /\ first \in Nat /\ Len(c.dayRoots) <= day + 1
               /\ \A d \in Nat : d < first => Known(c, d) = RootOf(bs, d)
               /\ \A d \in Nat : d >= first /\ d \notin DaysOf(bs) => Known(c, d) = Zero
    <3>1. first = r.day /\ r.day \in Nat /\ r.day <= day
      BY <1>1, FirstMissingDay, CurrentTyped DEF Behind
    <3> QED BY <3>1, KnownDays
  <2> QED BY <2>1, <2>2
<1>5. CASE day > 0 /\ first <= day - 1
  <2> DEFINE g == [d \in DOMAIN rows \cap first..(day - 1) |-> rows[d]]
  <2>1. /\ DOMAIN g \subseteq Nat /\ (\A d \in DOMAIN g : d < day + 1)
        /\ \A d \in Nat : d \in DOMAIN g <=> d \in DOMAIN rows /\ first <= d /\ d < day
        /\ \A d \in DOMAIN g : g[d] = rows[d]
    BY <1>4
  <2>2. u = UpdateDayRoots(c, g)
    BY <1>5
  <2> HIDE DEF g
  <2>3. /\ IsCache(u) /\ u.current = c.current /\ Len(u.dayRoots) <= day + 1
        /\ \A d \in Nat : Known(u, d) = IF d \in DOMAIN g THEN g[d] ELSE Known(c, d)
    <3>1. day + 1 \in Nat
      OBVIOUS
    <3>2. /\ IsCache(UpdateDayRoots(c, g)) /\ UpdateDayRoots(c, g).current = c.current
          /\ Len(UpdateDayRoots(c, g).dayRoots) <= day + 1
          /\ \A d \in Nat : Known(UpdateDayRoots(c, g), d) =
                               IF d \in DOMAIN g THEN g[d] ELSE Known(c, d)
      BY <1>1, <1>4, <2>1, <3>1, RowsWritten
    <3> QED BY <2>2, <3>2
  <2>4. ASSUME NEW d \in Nat, d < day PROVE Known(u, d) = RootOf(bs, d)
    <3>1. CASE d \in DOMAIN g
      BY <1>2, <2>1, <2>3, <2>4, <3>1
    <3>2. CASE d \notin DOMAIN g /\ d < first
      BY <1>4, <2>3, <3>2
    <3>3. CASE d \notin DOMAIN g /\ d >= first
      BY <1>3, <1>4, <2>1, <2>3, <2>4, <3>3
    <3> QED BY <1>4, <3>1, <3>2, <3>3
  <2>5. \A r \in u.current : r.day # day
    BY <1>1, <1>5, <2>3, FirstMissingDay, CurrentTyped
  <2> QED BY <2>3, <2>4, <2>5 DEF FetchedOK, Behind
<1>6. CASE ~(day > 0 /\ first <= day - 1)
  <2>1. u = c
    BY <1>6
  <2>2. \A d \in Nat : d < day => Known(c, d) = RootOf(bs, d)
    BY <1>4, <1>6
  <2> QED BY <1>1, <1>4, <2>1, <2>2 DEF FetchedOK, CacheOK
<1> QED BY <1>5, <1>6

(* What the sequencer with these blocks and these rows answers about a day,  *)
(* and what the cache is once command k has asked for it if need be.         *)
IsAnswer(answer, bs, day, rows) ==
    answer = [roots |-> DayTree(bs, day),
              dayRoot |-> IF day \in DOMAIN rows THEN rows[day] ELSE Zero]
Refreshed(u, c, day, nr, k, answer) ==
    u = IF NeedsCurrentDayRefresh(c, day, nr) \/ k = "full"
        THEN SetCurrentDayBlockRoots(c, day, answer, nr) ELSE c

(* A cache that is as of this day and block, and a table that is complete    *)
(* when the status is that of the present tip.                               *)
HasCurrent(c, day, nr) == \E t : c.current = {[day |-> day, roots |-> t, nr |-> nr]}
Recorded(rows, bs, nr, day) ==
    nr = Tip(bs) /\ nr > 0 => rows = DayRoots(bs) /\ day = HeadDay(bs)

(* The tree of the current day and its root are taken over, or are those of  *)
(* the same blocks already.                                                  *)
LEMMA CurrentFetched ==
  ASSUME NEW c, NEW bs, InOrder(bs), NEW nr \in Nat, NEW day \in Nat, FetchedOK(c, bs, nr, day),
         nr <= Tip(bs), day <= HeadDay(bs), NEW rows, DOMAIN rows \subseteq DaysOf(bs),
         Recorded(rows, bs, nr, day),
         NEW k, NEW answer, IsAnswer(answer, bs, day, rows),
         NEW u, Refreshed(u, c, day, nr, k, answer)
  PROVE  CacheOK(u, bs) /\ HasCurrent(u, day, nr)
<1> USE DEF FetchedOK, IsAnswer, Refreshed, HasCurrent, Recorded
<1>1. CASE ~(NeedsCurrentDayRefresh(c, day, nr) \/ k = "full")
  <2>1. PICK r \in c.current : r.day = day /\ ~(r.nr < nr)
    BY <1>1 DEF NeedsCurrentDayRefresh
  <2>2. r.nr \in Nat /\ c.current = {r} /\ r = [day |-> r.day, roots |-> r.roots, nr |-> r.nr]
    BY CurrentTyped
  <2>3. r.nr = nr
    BY <2>1, <2>2 DEF Behind
  <2>4. CacheOK(c, bs)
    BY <2>1, <2>2 DEF CacheOK
  <2> QED BY <1>1, <2>1, <2>2, <2>3, <2>4
<1>2. CASE NeedsCurrentDayRefresh(c, day, nr) \/ k = "full"
  <2> DEFINE row == [d \in {day} |-> answer.dayRoot]
             v == UpdateDayRoots(c, row)
             r == [day |-> day, roots |-> DayTree(bs, day), nr |-> nr]
             root == IF day \in DOMAIN rows THEN rows[day] ELSE Zero
  <2>1. answer.dayRoot = root /\ answer.roots = DayTree(bs, day)
    OBVIOUS
  <2>2. u = [v EXCEPT !.current = {r}]
    BY <1>2, <2>1 DEF SetCurrentDayBlockRoots
  <2>3. DOMAIN row = {day} /\ row[day] = root
    BY <2>1
  <2> HIDE DEF row, v, root
  <2>4. /\ IsCache(v) /\ Len(v.dayRoots) = day + 1
        /\ \A d \in Nat : Known(v, d) = IF d = day THEN root ELSE Known(c, d)
    <3>1. day + 1 \in Nat /\ Len(c.dayRoots) <= day + 1 /\ DOMAIN row \subseteq Nat
          /\ \A d \in DOMAIN row : d < day + 1
      BY <2>3
    <3>2. /\ IsCache(v) /\ Len(v.dayRoots) <= day + 1 /\ day < Len(v.dayRoots)
          /\ \A d \in Nat : Known(v, d) = IF d \in DOMAIN row THEN row[d] ELSE Known(c, d)
      BY <2>3, <3>1, RowsWritten DEF v
    <3>3. Len(v.dayRoots) \in Nat
      BY <3>2 DEF IsCache
    <3> QED BY <2>3, <3>2, <3>3
  <2>5. u = [anchor |-> v.anchor, nr |-> v.nr, dayRoots |-> v.dayRoots, current |-> {r}]
    <3>1. v = [anchor |-> v.anchor, nr |-> v.nr, dayRoots |-> v.dayRoots, current |-> v.current]
      BY <2>4 DEF IsCache
    <3> HIDE DEF r
    <3> QED BY <2>2, <3>1
  <2>6. u.current = {r} /\ u.dayRoots = v.dayRoots /\ u.anchor = v.anchor /\ u.nr = v.nr
    BY <2>5
  <2>7. IsCache(u)
    <3>1. u = [anchor |-> u.anchor, nr |-> u.nr, dayRoots |-> u.dayRoots, current |-> u.current]
      BY <2>5, <2>6
    <3>2. \E d \in Nat, h \in Nat : \E t : u.current = {[day |-> d, roots |-> t, nr |-> h]}
      BY <2>6
    <3>3. Len(u.dayRoots) \in Nat /\ u.dayRoots = [i \in 1..Len(u.dayRoots) |-> u.dayRoots[i]]
      BY <2>4, <2>6 DEF IsCache
    <3> QED BY <3>1, <3>2, <3>3 DEF IsCache
  <2>8. \A d \in Nat : d <= day => v.dayRoots[d + 1] = Known(v, d)
    BY <2>4 DEF Known
  <2>9. v.dayRoots[day + 1] = root /\ \A d \in Nat : d < day => v.dayRoots[d + 1] = RootOf(bs, d)
    BY <2>4, <2>8
  <2>10. root # Zero => day \in DaysOf(bs)
    BY DEF root
  <2>11. ASSUME nr = Tip(bs), day = HeadDay(bs) PROVE UpToDate(u, r, bs)
    <3>1. CASE nr = 0
      <4>1. Len(bs) \in Nat /\ DOMAIN bs = 1..Len(bs) /\ Len(bs) <= 1
        <5>1. Len(bs) \in Nat /\ DOMAIN bs = 1..Len(bs)
          BY DEF InOrder
        <5>2. bs = <<>> => Len(bs) = 0
          OBVIOUS
        <5> QED BY <2>11, <3>1, <5>1, <5>2 DEF Tip
      <4>2. \A i \in InDay(bs, day) : i = 1 /\ bs[i].index \in Nat /\ bs[i].index < Cardinality(InDay(bs, bs[i].day))
        BY <4>1, BlockFields DEF InDay, InOrder
      <4>3. \A d : Cardinality(InDay(bs, d)) \in Nat /\ Cardinality(InDay(bs, d)) <= 1
        <5> TAKE d
        <5>1. \A i \in InDay(bs, d) : i = 1
          BY <4>1 DEF InDay
        <5>2. IsFiniteSet({1}) /\ Cardinality({1}) = 1
          BY FS_Singleton
        <5>3. InDay(bs, d) \subseteq {1}
          BY <5>1
        <5> HIDE DEF InDay
        <5> QED BY <5>2, <5>3, FS_Subset, FS_CardinalityType
      <4>4. \A i \in InDay(bs, day) : bs[i].index = 0
        BY <4>2, <4>3
      <4>5. DOMAIN DayTree(bs, day) \subseteq {0}
        BY <4>4, TreeOfDay
      <4> QED BY <3>1, <4>5 DEF UpToDate
    <3>2. CASE nr > 0
      <4>1. rows = DayRoots(bs) /\ bs # <<>>
        BY <2>11, <3>2 DEF Tip
      <4>2. day \in DaysOf(bs)
        BY <2>11, <4>1, DaysInOrder
      <4>3. root = DayTree(bs, day)
        BY <4>1, <4>2 DEF root, DayRoots
      <4> QED BY <2>6, <2>9, <3>2, <4>3 DEF UpToDate
    <3> QED BY <3>1, <3>2
  <2>12. CurrentOK(u, r, bs)
    BY <2>4, <2>6, <2>9, <2>10, <2>11 DEF CurrentOK
  <2> QED BY <2>6, <2>7, <2>12 DEF CacheOK
<1> QED BY <1>1, <1>2

(* The trees over days that a client and the sequencer compute a path in     *)
(* agree beside the path.                                                    *)
LEMMA SameOtherDays ==
  ASSUME NEW bs, InOrder(bs), bs # <<>>, NEW c, CacheOK(c, bs), NEW r \in c.current,
         r.day = HeadDay(bs), r.nr = Tip(bs), NEW day \in DaysOf(bs)
  PROVE  Siblings(CachedTree(c), day) = Siblings(DayRoots(bs), day)
<1> DEFINE S == {i - 1 : i \in {i \in DOMAIN c.dayRoots : c.dayRoots[i] # Zero}}
           s == Siblings(CachedTree(c), day)
           t == Siblings(DayRoots(bs), day)
           h == HeadDay(bs)
<1>1. /\ h \in Nat /\ DaysOf(bs) \subseteq 0..h /\ h \in DaysOf(bs)
      /\ \A d \in DaysOf(bs) : DayTree(bs, d) # Zero
  BY DaysInOrder
<1>2. CurrentOK(c, r, bs) /\ UpToDate(c, r, bs) /\ DOMAIN c.dayRoots = 1..(h + 1)
  BY CurrentTyped DEF CacheOK, CurrentOK, IsCache
<1>3. \A d : d \in S <=> d \in 0..h /\ c.dayRoots[d + 1] # Zero
  <2>1. ASSUME NEW d \in S PROVE d \in 0..h /\ c.dayRoots[d + 1] # Zero
    <3>1. PICK i \in DOMAIN c.dayRoots : c.dayRoots[i] # Zero /\ d = i - 1
      OBVIOUS
    <3>2. i \in 1..(h + 1) /\ d + 1 = i
      BY <1>1, <1>2, <3>1
    <3> QED BY <1>1, <3>1, <3>2
  <2>2. ASSUME NEW d \in 0..h, c.dayRoots[d + 1] # Zero PROVE d \in S
    <3>1. d + 1 \in DOMAIN c.dayRoots /\ (d + 1) - 1 = d
      BY <1>1, <1>2
    <3> QED BY <2>2, <3>1
  <2> QED BY <2>1, <2>2
<1>4. CachedTree(c) = [d \in S |-> c.dayRoots[d + 1]]
  BY DEF CachedTree
<1> HIDE DEF S
<1>5. /\ \A d \in Nat : d < h => c.dayRoots[d + 1] = RootOf(bs, d)
      /\ c.dayRoots[h + 1] = DayTree(bs, h) \/ DaysOf(bs) = {h}
  <2>1. \A d \in Nat : d < h => c.dayRoots[d + 1] = RootOf(bs, d)
    BY <1>2 DEF CurrentOK
  <2>2. CASE r.nr # 0
    BY <1>2, <2>1, <2>2 DEF UpToDate
  <2>3. CASE r.nr = 0
    <3>1. Len(bs) \in Nat /\ DOMAIN bs = 1..Len(bs) /\ Len(bs) = 1
      <4>1. Len(bs) \in Nat /\ DOMAIN bs = 1..Len(bs)
        BY DEF InOrder
      <4> QED BY <2>3, <4>1 DEF Tip
    <3>2. DaysOf(bs) = {h}
      BY <3>1 DEF DaysOf, HeadDay
    <3> QED BY <2>1, <3>2
  <2> QED BY <2>2, <2>3
<1>6. \A d : d # day => (d \in S <=> d \in DaysOf(bs))
  <2> TAKE d
  <2> HAVE d # day
  <2>1. CASE d \in 0..(h - 1)
    BY <1>1, <1>3, <1>5, <2>1 DEF RootOf
  <2>2. CASE d = h
    BY <1>1, <1>3, <1>5, <2>2
  <2>3. CASE d \notin 0..h
    BY <1>1, <1>3, <2>3
  <2> QED BY <1>1, <2>1, <2>2, <2>3
<1>7. \A d \in DaysOf(bs) : d # day => c.dayRoots[d + 1] = DayTree(bs, d)
  BY <1>1, <1>5 DEF RootOf
<1>8. /\ s = [d \in S \ {day} |-> c.dayRoots[d + 1]]
  BY <1>4 DEF Siblings
<1>9. t = [d \in DaysOf(bs) \ {day} |-> DayTree(bs, d)]
  BY DEF Siblings, DayRoots
<1>10. S \ {day} = DaysOf(bs) \ {day}
  BY <1>6
<1> QED BY <1>7, <1>8, <1>9, <1>10

(* A complete path from the note to the root over all days.                  *)
LEMMA PathLeadsUp ==
  ASSUME NEW bs, InOrder(bs), NEW n, NoteOK(n, bs)
  PROVE  /\ n.day \in DaysOf(bs)
         /\ RootFrom(Siblings(DayRoots(bs), n.day), n.day,
              RootFrom(DayPath(n, bs), n.index,
                RootFrom(Siblings(Leaves(bs[n.nr + 1]), n.leaf), n.leaf, n.c))) = DayRoots(bs)
<1> DEFINE b == bs[n.nr + 1]
           l == Leaves(b)
           t == DayTree(bs, n.day)
           u == DayRoots(bs)
<1>1. n.nr + 1 \in 1..Len(bs) /\ b \in Block
  BY DEF NoteOK, InOrder
<1>2. l = [x \in DOMAIN l |-> l[x]]
  <2>1. l \in Seq(Notes \cup Commitments \cup {"other"})
    BY <1>1 DEF Leaves, Block
  <2> QED BY <2>1
<1>3. RootFrom(Siblings(l, n.leaf), n.leaf, n.c) = l
  <2>1. n.leaf \in DOMAIN l /\ l[n.leaf] = n.c
    BY DEF NoteOK
  <2> HIDE DEF l
  <2> QED BY <1>2, <2>1, RootFromSiblings
<1>4. /\ n.index \in DOMAIN t /\ t[n.index] = l
      /\ t = [x \in DOMAIN t |-> t[x]]
  BY <1>1, TreeOfDay DEF NoteOK
<1>5. RootFrom(DayPath(n, bs), n.index, l) = t
  <2>1. DayPath(n, bs) = Siblings(t, n.index)
    BY DEF DayPath
  <2> HIDE DEF t, l
  <2> QED BY <1>4, <2>1, RootFromSiblings
<1>6. n.day \in DaysOf(bs)
  BY <1>1, DaysInOrder DEF NoteOK
<1>7. n.day \in DOMAIN u /\ u[n.day] = t /\ u = [x \in DOMAIN u |-> u[x]]
  BY <1>6 DEF DayRoots
<1>8. RootFrom(Siblings(u, n.day), n.day, t) = u
  <2> HIDE DEF u, t
  <2> QED BY <1>7, RootFromSiblings
<1> QED BY <1>3, <1>5, <1>6, <1>8

(* The path that the client builds for a note is that path.                  *)
LEMMA NotePath ==
  ASSUME NEW bs, InOrder(bs), NEW c, CacheOK(c, bs), NEW r \in c.current,
         r.day = HeadDay(bs), r.nr = Tip(bs), NEW n, NoteOK(n, bs), n.proof # {},
         IsComplete(n) \/ n.day >= HeadDay(bs)
  PROVE  PathRoots(n, c) = {DayRoots(bs)}
<1>1. /\ n.nr + 1 \in 1..Len(bs) /\ Len(bs) \in Nat /\ n.day = bs[n.nr + 1].day
      /\ n.index = bs[n.nr + 1].index /\ n.index \in Nat /\ n.day \in Nat
  BY BlockFields DEF NoteOK, InOrder
<1>2. bs # <<>>
  BY <1>1, EmptyWallet
<1>3. n.day \in DaysOf(bs)
  BY PathLeadsUp
<1>4. Siblings(CachedTree(c), n.day) = Siblings(DayRoots(bs), n.day)
  BY <1>2, <1>3, SameOtherDays
<1>5. c.current = {r} /\ UpToDate(c, r, bs)
  BY CurrentTyped DEF CacheOK, CurrentOK
<1>6. n.day <= HeadDay(bs) /\ HeadDay(bs) \in Nat
  BY <1>3, DaysInOrder
<1>7. ASSUME n.day = r.day PROVE Siblings(r.roots, n.index) = DayPath(n, bs)
  <2>1. CASE r.nr # 0
    BY <1>5, <1>7, <2>1 DEF UpToDate, DayPath
  <2>2. CASE r.nr = 0
    <3>1. DOMAIN r.roots \subseteq {0}
      BY <1>5, <2>2 DEF UpToDate
    <3>2. Len(bs) = 1
      <4>1. Len(bs) - 1 = 0
        BY <1>2, <2>2 DEF Tip
      <4> QED BY <1>1, <4>1
    <3>3. DOMAIN bs = 1..Len(bs)
      BY DEF InOrder
    <3>4. n.index < Cardinality(InDay(bs, n.day))
      BY <1>1 DEF InOrder
    <3>5. Cardinality(InDay(bs, n.day)) \in Nat /\ Cardinality(InDay(bs, n.day)) <= 1
      <4>1. \A i \in InDay(bs, n.day) : i = 1
        BY <3>2, <3>3 DEF InDay
      <4>2. IsFiniteSet({1}) /\ Cardinality({1}) = 1
        BY FS_Singleton
      <4>3. InDay(bs, n.day) \subseteq {1}
        BY <4>1
      <4> QED BY <4>2, <4>3, FS_Subset, FS_CardinalityType
    <3>6. n.index = 0
      BY <1>1, <3>4, <3>5
    <3>7. \A i \in InDay(bs, n.day) : i = n.nr + 1
      BY <1>1, <3>2, <3>3 DEF InDay
    <3>8. \A k \in DOMAIN DayTree(bs, n.day) : k = 0
      <4> TAKE k \in DOMAIN DayTree(bs, n.day)
      <4> DEFINE d == n.day
      <4>1. k \in DOMAIN DayTree(bs, d)
        OBVIOUS
      <4> HIDE DEF d
      <4>2. PICK i \in InDay(bs, d) : bs[i].index = k
        BY <4>1, TreeOfDay
      <4>3. bs[i].index = n.index
        BY <1>1, <3>7, <4>2 DEF d
      <4> QED BY <3>6, <4>2, <4>3
    <3>9. DOMAIN r.roots \ {0} = {} /\ DOMAIN DayTree(bs, n.day) \ {0} = {}
      BY <3>1, <3>8
    <3> QED BY <3>6, <3>9 DEF Siblings, DayPath
  <2> QED BY <2>1, <2>2
<1>8. PICK p : n.proof = {p} /\ p.block = Siblings(Leaves(bs[n.nr + 1]), n.leaf)
               /\ (p.inDay = {} \/ p.inDay = {DayPath(n, bs)})
  <2>1. CASE n.proof = {ProofWith(n, bs, {})}
    <3> DEFINE p == ProofWith(n, bs, {})
    <3>1. n.proof = {p} /\ p.block = Siblings(Leaves(bs[n.nr + 1]), n.leaf) /\ p.inDay = {}
      BY <2>1 DEF ProofWith
    <3> HIDE DEF p
    <3> QED BY <3>1
  <2>2. CASE n.proof = {ProofWith(n, bs, {DayPath(n, bs)})}
    <3> DEFINE p == ProofWith(n, bs, {DayPath(n, bs)})
    <3>1. /\ n.proof = {p} /\ p.block = Siblings(Leaves(bs[n.nr + 1]), n.leaf)
          /\ p.inDay = {DayPath(n, bs)}
      BY <2>2 DEF ProofWith
    <3> HIDE DEF p
    <3> QED BY <3>1
  <2> QED BY <2>1, <2>2 DEF NoteOK
<1>9. InDaySiblings(n, c) = {DayPath(n, bs)}
  <2> DEFINE f == IF p.inDay # {} THEN p.inDay
                  ELSE {Siblings(q.roots, n.index) : q \in {q \in c.current : q.day = n.day}}
  <2>1. InDaySiblings(n, c) = UNION {f}
    BY <1>8 DEF InDaySiblings
  <2>2. CASE p.inDay # {}
    BY <1>8, <2>1, <2>2
  <2>3. CASE p.inDay = {}
    <3>1. n.day = r.day
      BY <1>1, <1>6, <1>8, <2>3 DEF IsComplete
    <3>2. {q \in c.current : q.day = n.day} = {r}
      BY <1>5, <3>1
    <3>3. f = {Siblings(r.roots, n.index)}
      BY <2>3, <3>2
    <3> QED BY <1>7, <2>1, <3>1, <3>3
  <2> QED BY <2>2, <2>3
<1>10. PathRoots(n, c) = {RootFrom(Siblings(CachedTree(c), n.day), n.day,
                            RootFrom(DayPath(n, bs), n.index, RootFrom(p.block, n.leaf, n.c)))}
  BY <1>8, <1>9 DEF PathRoots
<1> QED BY <1>4, <1>8, <1>10, PathLeadsUp

(* The invariant of the sync. The sequencer: its tree over days is that of   *)
(* its blocks, and there are rows only for days with blocks.                 *)
ServerOK ==
    /\ InOrder(blocks) /\ today \in Nat /\ HeadDay(blocks) <= today
    /\ tracker.roots = DayRoots(blocks)
    /\ tracker.last = IF blocks = <<>> THEN {} ELSE {HeadDay(blocks)}
    /\ DOMAIN dayRows \subseteq DaysOf(blocks)
    /\ dayRows = [d \in DOMAIN dayRows |-> dayRows[d]]

(* The steps of a sync after the first answer.                               *)
Syncing == {"days", "current", "proofs", "finalize", "cache"}

(* What is stored, and the copy of the wallet, is right of the blocks.       *)
FilesOK == WalletOK(file, blocks) /\ WalletOK(mem, blocks) /\ CacheOK(cacheFile, blocks)

(* The status a sync works with: not later than the tip, all days before its *)
(* own on record, and of the tip itself if the sequencer has not gone on. A  *)
(* status of the tip also means that no day root was recorded since.         *)
StatusOK ==
    /\ status.nr \in Nat /\ status.day \in Nat
    /\ status.nr <= Tip(blocks) /\ status.day <= HeadDay(blocks)
    /\ RowsOK(dayRows, blocks, status.day)
    /\ status.nr = Tip(blocks) /\ status.nr > 0 => Tidy /\ status.day = HeadDay(blocks)
    /\ ~history.moved =>
          /\ status.nr = Tip(blocks) /\ status.day = HeadDay(blocks)
          /\ status.anchor = tracker.roots

(* The cache at each step: right of the blocks before and after it is        *)
(* brought up to date, and then as of the status.                            *)
AtCurrentDay == HasCurrent(cache, status.day, status.nr)

InSync ==
    /\ pc \in {"status", "days", "proofs", "finalize", "cache"} => CacheOK(cache, blocks)
    /\ pc \in Syncing => StatusOK
    /\ pc = "days" => Behind(cache, status.nr, status.day)
    /\ pc = "current" => FetchedOK(cache, blocks, status.nr, status.day)
    /\ pc \in {"proofs", "finalize", "cache"} => AtCurrentDay
    /\ pc = "cache" => cache.anchor = status.anchor

(* Of the unspent notes none is without a block proof once these are stored, *)
(* and one whose day is over has its path or its day is still to be asked    *)
(* for.                                                                      *)
ToFinalize ==
    /\ \A d \in days : pc = "finalize" /\ d \in Nat /\ d < status.day
    /\ pc \in {"finalize", "cache"} =>
          \A i \in Unspent(mem) :
             /\ mem[i].proof # {}
             /\ IsComplete(mem[i]) \/ mem[i].day >= status.day \/ mem[i].day \in days

(* All of it, unless a block was taken back or a sync began while the root   *)
(* of a day was missing.                                                     *)
SyncParts == ServerOK /\ FilesOK /\ InSync /\ ToFinalize
Excepted == history.rolled \/ history.untidy
SyncedInv == ~Excepted => SyncParts

-----------------------------------------------------------------------------
(* An empty cache and an empty wallet say nothing wrong.                     *)
LEMMA EmptyCache ==
  ASSUME NEW bs
  PROVE  CacheOK(NewCache, bs) /\ WalletOK(<<>>, bs) /\ Unspent(<<>>) = {}
<1>1. NewCache = [anchor |-> NewCache.anchor, nr |-> NewCache.nr, dayRoots |-> NewCache.dayRoots,
                  current |-> NewCache.current]
      /\ NewCache.current = {} /\ NewCache.dayRoots = <<>>
  BY DEF NewCache
<1>2. Len(<<>>) \in Nat /\ <<>> = [i \in 1..Len(<<>>) |-> <<>>[i]] /\ DOMAIN <<>> = {}
  OBVIOUS
<1>3. IsCache(NewCache)
  BY <1>1, <1>2 DEF IsCache
<1> QED BY <1>1, <1>2, <1>3 DEF CacheOK, WalletOK, Unspent

(* What is stored stays good while the sequencer goes on.                    *)
LEMMA ServerGoesOn ==
  ASSUME SyncParts, GrowsTo(blocks, blocks'), ServerOK',
         UNCHANGED <<file, cacheFile, mem, cache, pc, status, days>>,
         history'.moved = (pc # "idle"),
         pc \in Syncing =>
            /\ RowsOK(dayRows', blocks', status.day)
            /\ status.nr = Tip(blocks') /\ status.nr > 0 => Tidy' /\ status.day = HeadDay(blocks')
  PROVE  SyncParts'
<1>1. FilesOK'
  <2>1. WalletOK(file', blocks') /\ WalletOK(mem', blocks')
    BY NoteStays DEF SyncParts, FilesOK, WalletOK
  <2>2. CacheOK(cacheFile', blocks')
    BY CacheStays DEF SyncParts, FilesOK
  <2> QED BY <2>1, <2>2 DEF FilesOK
<1>2. InOrder(blocks) /\ InOrder(blocks') /\ Tip(blocks) <= Tip(blocks') /\ HeadDay(blocks) <= HeadDay(blocks')
      /\ Tip(blocks) \in Nat /\ Tip(blocks') \in Nat /\ HeadDay(blocks) \in Nat /\ HeadDay(blocks') \in Nat
  <2>1. InOrder(blocks) /\ InOrder(blocks') /\ HeadDay(blocks) <= HeadDay(blocks')
    BY DEF GrowsTo
  <2>2. Len(blocks) <= Len(blocks') /\ Len(blocks) \in Nat /\ Len(blocks') \in Nat
    BY <2>1, DaysInOrder DEF GrowsTo
  <2>3. (blocks' = <<>> => Len(blocks') = 0) /\ (blocks # <<>> => Len(blocks) > 0)
    BY <2>1 DEF InOrder
  <2>4. Tip(blocks) <= Tip(blocks')
    BY <2>2, <2>3 DEF Tip
  <2> QED BY <2>1, <2>4, DaysInOrder
<1>3. ASSUME pc \in Syncing PROVE StatusOK'
  <2>1. StatusOK /\ history'.moved
    BY <1>3 DEF SyncParts, InSync, Syncing
  <2> QED BY <1>2, <1>3, <2>1 DEF StatusOK
<1>4. InSync'
  <2>1. CacheOK(cache, blocks) => CacheOK(cache', blocks')
    BY CacheStays
  <2>2. pc = "current" => FetchedOK(cache', blocks', status'.nr, status'.day)
    <3>1. pc = "current" => StatusOK /\ FetchedOK(cache, blocks, status.nr, status.day)
      BY DEF SyncParts, InSync, Syncing
    <3> QED BY <3>1, FetchedStays DEF StatusOK
  <2> QED BY <1>3, <2>1, <2>2 DEF SyncParts, InSync, AtCurrentDay
<1>5. ToFinalize'
  BY DEF SyncParts, ToFinalize
<1> QED BY <1>1, <1>4, <1>5 DEF SyncParts

(* Table h is table g with the rows f written to it.                         *)
IsMerge(f, g, h) ==
    /\ h = [x \in DOMAIN h |-> h[x]] /\ DOMAIN h = DOMAIN f \cup DOMAIN g
    /\ \A x \in DOMAIN f : h[x] = f[x]
    /\ \A x \in DOMAIN g : x \notin DOMAIN f => h[x] = g[x]

(* Writing rows: the table that has the new ones and, for other keys, the    *)
(* old ones.                                                                 *)
LEMMA MergedRows ==
  ASSUME NEW f, NEW g, NEW h, IsMerge(f, g, h)
  PROVE  Merged(f, g) = h
<1>1. Merged(f, g) = [x \in DOMAIN h |-> IF x \in DOMAIN f THEN f[x] ELSE g[x]]
  BY DEF Merged, IsMerge
<1>2. \A x \in DOMAIN h : h[x] = IF x \in DOMAIN f THEN f[x] ELSE g[x]
  BY DEF IsMerge
<1>3. h = [x \in DOMAIN h |-> h[x]]
  BY DEF IsMerge
<1> QED BY <1>1, <1>2, <1>3

(* A block is processed: the tree over days is again that of the blocks, and *)
(* no row of a day is written.                                               *)
LEMMA BlockProcessed ==
  ASSUME ServerOK, NEW c, AddBlock(c), blocks' \in Seq(Block)
  PROVE  /\ ServerOK' /\ GrowsTo(blocks, blocks') /\ Len(blocks') = Len(blocks) + 1
         /\ dayRows' = dayRows
<1> DEFINE b == [day |-> today, index |-> Cardinality(InDay(blocks, today)),
                 deposits |-> c.deposits, outputs |-> c.outputs]
           cs == blocks'
<1>1. /\ cs = Append(blocks, b) /\ tracker' = Inserted(cs, today) /\ today' = today
      /\ dayRows' = Merged([d \in {DayBefore(today) : r \in PreviousDayRoot(today)} |->
                               tracker.roots[today]], dayRows)
  BY DEF AddBlock
<1>2. b.day = today /\ b.index = Cardinality(InDay(blocks, b.day))
  OBVIOUS
<1> HIDE DEF b
<1>3. b \in Block
  <2>1. blocks \in Seq(Block) /\ Len(blocks) \in Nat
    BY DEF ServerOK, InOrder
  <2>2. cs[Len(blocks) + 1] = b /\ Len(cs) = Len(blocks) + 1
    BY <1>1, <2>1
  <2> QED BY <2>1, <2>2
<1>4. /\ GrowsTo(blocks, cs) /\ Len(cs) = Len(blocks) + 1
      /\ HeadDay(cs) = today /\ DaysOf(cs) = DaysOf(blocks) \cup {today}
      /\ \A d : d # today => DayTree(cs, d) = DayTree(blocks, d)
  <2>1. InOrder(blocks) /\ HeadDay(blocks) <= b.day
    BY <1>2 DEF ServerOK
  <2> HIDE DEF cs
  <2>2. /\ GrowsTo(blocks, cs) /\ Len(cs) = Len(blocks) + 1
        /\ HeadDay(cs) = b.day /\ DaysOf(cs) = DaysOf(blocks) \cup {b.day}
        /\ \A d : d # b.day => DayTree(cs, d) = DayTree(blocks, d)
    <3>1. b \in Block /\ cs = Append(blocks, b)
      BY <1>1, <1>3
    <3>2. HeadDay(blocks) <= b.day
      BY <2>1
    <3>3. b.index = Cardinality(InDay(blocks, b.day))
      BY <1>2
    <3>4. InOrder(blocks)
      BY <2>1
    <3>5. NextBlock(blocks, b, cs)
      BY <3>1, <3>2, <3>3, <3>4 DEF NextBlock
    <3>6. BlockAdded(blocks, b, cs)
      BY <3>5, OneMoreBlock
    <3> QED BY <3>6 DEF BlockAdded
  <2> QED BY <1>2, <2>2
<1>5. tracker'.roots = DayRoots(cs) /\ tracker'.last = {today}
  <2> DEFINE f == [d \in {today} |-> DayTree(cs, d)]
             g == DayRoots(blocks)
             h == DayRoots(cs)
  <2>1. tracker'.last = {today} /\ tracker'.roots = Merged(f, g)
    BY <1>1 DEF Inserted, ServerOK
  <2>2. DOMAIN f = {today} /\ f[today] = DayTree(cs, today)
    OBVIOUS
  <2>3. /\ DOMAIN g = DaysOf(blocks) /\ \A d \in DaysOf(blocks) : g[d] = DayTree(blocks, d)
        /\ DOMAIN h = DaysOf(cs) /\ h = [d \in DOMAIN h |-> h[d]]
        /\ \A d \in DaysOf(cs) : h[d] = DayTree(cs, d)
    BY DEF DayRoots
  <2> HIDE DEF f, g, h
  <2>4. Merged(f, g) = h
    <3>1. h = [x \in DOMAIN h |-> h[x]]
      BY <2>3
    <3>2. DOMAIN h = DOMAIN f \cup DOMAIN g
      BY <1>4, <2>2, <2>3
    <3>3. \A x \in DOMAIN f : h[x] = f[x]
      BY <1>4, <2>2, <2>3
    <3>4. \A x \in DOMAIN g : x \notin DOMAIN f => h[x] = g[x]
      BY <1>4, <2>2, <2>3
    <3>5. IsMerge(f, g, h)
      BY <3>1, <3>2, <3>3, <3>4 DEF IsMerge
    <3> QED BY <3>5, MergedRows
  <2> QED BY <2>1, <2>4 DEF h
<1>6. PreviousDayRoot(today) = {}
  <2>1. CASE blocks = <<>>
    <3>1. DaysOf(blocks) = {}
      BY <2>1 DEF DaysOf
    <3> QED BY <3>1 DEF PreviousDayRoot, ServerOK, DayRoots
  <2>2. CASE blocks # <<>> /\ today \in DaysOf(blocks)
    <3>1. HeadDay(blocks) = today
      BY <2>2, DaysInOrder DEF ServerOK
    <3> QED BY <2>2, <3>1 DEF PreviousDayRoot, ServerOK
  <2>3. CASE today \notin DaysOf(blocks)
    BY <2>3 DEF PreviousDayRoot, ServerOK, DayRoots
  <2> QED BY <2>1, <2>2, <2>3
<1>7. dayRows' = dayRows
  <2> DEFINE f == [d \in {DayBefore(today) : r \in PreviousDayRoot(today)} |-> tracker.roots[today]]
  <2>1. DOMAIN f = {}
    BY <1>6
  <2> HIDE DEF f
  <2>2. dayRows = [d \in DOMAIN dayRows |-> dayRows[d]]
    BY DEF ServerOK
  <2>3. Merged(f, dayRows) = dayRows
    <3>1. DOMAIN dayRows = DOMAIN f \cup DOMAIN dayRows
      BY <2>1
    <3>2. \A x \in DOMAIN f : dayRows[x] = f[x]
      BY <2>1
    <3>3. \A x \in DOMAIN dayRows : x \notin DOMAIN f => dayRows[x] = dayRows[x]
      OBVIOUS
    <3>4. IsMerge(f, dayRows, dayRows)
      BY <2>2, <3>1, <3>2, <3>3 DEF IsMerge
    <3> QED BY <3>4, MergedRows
  <2> QED BY <1>1, <2>3 DEF f
<1>8. cs # <<>>
  <2>1. Len(blocks) \in Nat
    BY DEF ServerOK, InOrder
  <2> QED BY <1>4, <2>1, EmptyWallet
<1>9. ServerOK'
  <2>1. InOrder(blocks') /\ today' \in Nat /\ HeadDay(blocks') <= today'
    BY <1>1, <1>4 DEF ServerOK, GrowsTo
  <2>2. tracker'.last = IF blocks' = <<>> THEN {} ELSE {HeadDay(blocks')}
    BY <1>4, <1>5, <1>8
  <2>3. DOMAIN dayRows' \subseteq DaysOf(blocks') /\ dayRows' = [d \in DOMAIN dayRows' |-> dayRows'[d]]
    BY <1>4, <1>7 DEF ServerOK
  <2> QED BY <1>5, <2>1, <2>2, <2>3 DEF ServerOK
<1> QED BY <1>4, <1>7, <1>9

(* A block is posted while a sync may be under way: the sync works with a    *)
(* status that is older.                                                     *)
LEMMA PostingGoesOn ==
  ASSUME SyncParts, NEW c, AddBlock(c), blocks' \in Seq(Block),
         UNCHANGED <<file, cacheFile, mem, cache, pc, status, days>>,
         history'.moved = (pc # "idle")
  PROVE  SyncParts'
<1>1. /\ ServerOK' /\ GrowsTo(blocks, blocks') /\ Len(blocks') = Len(blocks) + 1
      /\ dayRows' = dayRows
  BY BlockProcessed DEF SyncParts
<1>2. ASSUME pc \in Syncing
      PROVE  /\ RowsOK(dayRows', blocks', status.day)
             /\ ~(status.nr = Tip(blocks') /\ status.nr > 0)
  <2>1. StatusOK
    BY <1>2 DEF SyncParts, InSync
  <2>2. RowsOK(dayRows, blocks', status.day)
    BY <1>1, <2>1, RowsStay DEF StatusOK
  <2>3. status.nr > 0 => status.nr < Tip(blocks')
    <3>1. status.nr \in Nat /\ status.nr <= Tip(blocks)
      BY <2>1 DEF StatusOK
    <3>2. InOrder(blocks)
      BY DEF SyncParts, ServerOK
    <3>3. Len(blocks) \in Nat /\ Tip(blocks) \in Nat
      BY <3>2, DaysInOrder
    <3>4. blocks' # <<>> \/ Len(blocks') = 0
      OBVIOUS
    <3>5. Tip(blocks') = Len(blocks)
      BY <1>1, <3>3, <3>4 DEF Tip
    <3>6. Tip(blocks) > 0 => Tip(blocks) < Len(blocks)
      BY <3>3 DEF Tip
    <3> QED BY <3>1, <3>3, <3>5, <3>6
  <2>4. status.nr \in Nat
    BY <2>1 DEF StatusOK
  <2>5. Tip(blocks') \in Nat
    BY <1>1, DaysInOrder DEF GrowsTo
  <2> QED BY <1>1, <2>2, <2>3, <2>4, <2>5
<1> QED BY <1>1, <1>2, ServerGoesOn

(* The root of a day is recorded: the table was not complete, so no status   *)
(* of before can be up to date, unless the tip is the first block.           *)
LEMMA RecordingGoesOn ==
  ASSUME SyncParts, NEW d \in DaysOf(blocks), SaveDayRoot(d), dayRows' # dayRows,
         UNCHANGED <<file, cacheFile, mem, cache, pc, status, days>>,
         history'.moved = (pc # "idle")
  PROVE  SyncParts'
<1> DEFINE f == [x \in {d} |-> tracker.roots[x]]
<1>1. dayRows' = Merged([x \in {d} |-> tracker.roots[d]], dayRows) /\ UNCHANGED <<blocks, tracker, today>>
  BY DEF SaveDayRoot
<1>2. ServerOK /\ tracker.roots = DayRoots(blocks) /\ InOrder(blocks)
      /\ DOMAIN dayRows \subseteq DaysOf(blocks) /\ dayRows = [x \in DOMAIN dayRows |-> dayRows[x]]
  BY DEF SyncParts, ServerOK
<1>3. tracker.roots[d] = DayTree(blocks, d)
  BY <1>2 DEF DayRoots
<1>4. /\ DOMAIN dayRows' = {d} \cup DOMAIN dayRows
      /\ \A x \in DOMAIN dayRows' :
            dayRows'[x] = IF x = d THEN DayTree(blocks, d) ELSE dayRows[x]
      /\ dayRows' = [x \in DOMAIN dayRows' |-> dayRows'[x]]
  BY <1>1, <1>3 DEF Merged
<1>5. ServerOK'
  <2>1. DOMAIN dayRows' \subseteq DaysOf(blocks')
    BY <1>1, <1>2, <1>4
  <2> QED BY <1>1, <1>4, <2>1, <1>2 DEF ServerOK
<1>6. GrowsTo(blocks, blocks')
  BY <1>1, <1>2, GrowsToItself
<1>7. ~Tidy
  <2> SUFFICES ASSUME Tidy PROVE FALSE
    OBVIOUS
  <2>1. dayRows = DayRoots(blocks)
    BY <1>2 DEF Tidy
  <2>2. DOMAIN dayRows = DaysOf(blocks) /\ dayRows[d] = DayTree(blocks, d)
    BY <2>1 DEF DayRoots
  <2>3. DOMAIN dayRows' = DOMAIN dayRows
    BY <1>4, <2>2
  <2>4. \A x \in DOMAIN dayRows : dayRows'[x] = dayRows[x]
    BY <1>4, <2>2, <2>3
  <2> QED BY <1>2, <1>4, <2>3, <2>4
<1>8. ASSUME pc \in Syncing
      PROVE  /\ RowsOK(dayRows', blocks', status.day)
             /\ ~(status.nr = Tip(blocks') /\ status.nr > 0)
  <2>1. StatusOK
    BY <1>8 DEF SyncParts, InSync
  <2>2. RowsOK(dayRows, blocks, status.day)
    BY <2>1 DEF StatusOK
  <2>3. RowsOK(dayRows', blocks, status.day)
    BY <1>4, <2>2 DEF RowsOK
  <2>4. ~(status.nr = Tip(blocks) /\ status.nr > 0)
    BY <1>7, <2>1 DEF StatusOK
  <2> QED BY <1>1, <2>3, <2>4
<1> QED BY <1>5, <1>6, <1>8, ServerGoesOn

(* A day passes: nothing of it is seen before the next block.                *)
LEMMA DayGoesOn ==
  ASSUME SyncParts, NextDay,
         UNCHANGED <<file, cacheFile, mem, cache, pc, status, days>>,
         history'.moved = (pc # "idle")
  PROVE  SyncParts'
<1>1. today' = today + 1 /\ UNCHANGED <<blocks, dayRows, tracker>>
  BY DEF NextDay
<1>2. ServerOK /\ InOrder(blocks) /\ HeadDay(blocks) \in Nat
  BY DaysInOrder DEF SyncParts, ServerOK
<1>3. ServerOK'
  BY <1>1, <1>2 DEF ServerOK
<1>4. GrowsTo(blocks, blocks')
  BY <1>1, <1>2, GrowsToItself
<1>5. pc \in Syncing => StatusOK
  BY DEF SyncParts, InSync
<1>6. Tidy' = Tidy
  BY <1>1 DEF Tidy
<1>7. pc \in Syncing =>
         /\ RowsOK(dayRows', blocks', status.day)
         /\ status.nr = Tip(blocks') /\ status.nr > 0 => Tidy' /\ status.day = HeadDay(blocks')
  BY <1>1, <1>5, <1>6 DEF StatusOK
<1> QED BY <1>3, <1>4, <1>7, ServerGoesOn

(* Steps that nothing of this sees.                                          *)
LEMMA OutOfSight ==
  ASSUME SyncParts, UNCHANGED <<blocks, dayRows, tracker, today>>,
         UNCHANGED <<file, cacheFile, mem, cache, pc, status, days, history>>
  PROVE  SyncParts'
<1>1. ServerOK' /\ FilesOK' /\ Tidy' = Tidy
  BY DEF SyncParts, ServerOK, FilesOK, Tidy
<1>2. pc \in Syncing => StatusOK'
  <2>1. pc \in Syncing => StatusOK
    BY DEF SyncParts, InSync
  <2> QED BY <1>1, <2>1 DEF StatusOK
<1>3. InSync'
  <2>1. UNCHANGED <<blocks, dayRows, pc, cache, status, history>>
    OBVIOUS
  <2> QED BY <1>2, <2>1 DEF SyncParts, InSync, AtCurrentDay
<1>4. ToFinalize'
  BY DEF SyncParts, ToFinalize
<1> QED BY <1>1, <1>3, <1>4 DEF SyncParts

(* The sequencer and other users.                                            *)
LEMMA OthersInSight ==
  ASSUME SyncParts, HistoryOK, BlocksOK, BlocksOK', ~history'.rolled,
         PostDeposits \/ PostWithdrawals \/ Confirm \/ DayPasses \/ DayRootSaved \/ PaidByOthers
  PROVE  SyncParts'
<1>1. UNCHANGED <<file, cacheFile, mem, cache, pc, status, days>>
  BY DEF PostDeposits, PostWithdrawals, Confirm, DayPasses, DayRootSaved, PaidByOthers, WalletKept
<1>2. blocks' \in Seq(Block)
  BY DEF BlocksOK
<1>3. PostDeposits \/ PostWithdrawals \/ DayPasses \/ DayRootSaved => history'.moved = (pc # "idle")
  BY DEF PostDeposits, PostWithdrawals, DayPasses, DayRootSaved, Moved, HistoryOK
<1>4. CASE PostDeposits
  <2>1. \E c : AddBlock(c)
    BY <1>4 DEF PostDeposits
  <2> QED BY <1>1, <1>2, <1>3, <1>4, <2>1, PostingGoesOn
<1>5. CASE PostWithdrawals
  <2>1. \E c : AddBlock(c)
    BY <1>5 DEF PostWithdrawals
  <2> QED BY <1>1, <1>2, <1>3, <1>5, <2>1, PostingGoesOn
<1>6. CASE DayPasses
  BY <1>1, <1>3, <1>6, DayGoesOn DEF DayPasses
<1>7. CASE DayRootSaved
  <2>1. PICK d \in DaysOf(blocks) : SaveDayRoot(d)
    BY <1>7 DEF DayRootSaved
  <2>2. dayRows' # dayRows
    BY <1>7 DEF DayRootSaved
  <2> QED BY <1>1, <1>3, <1>7, <2>1, <2>2, RecordingGoesOn
<1>8. CASE Confirm \/ PaidByOthers
  <2>1. UNCHANGED <<blocks, dayRows, tracker, today>> /\ UNCHANGED history
    BY <1>8 DEF Confirm, PaidByOthers, server
  <2> QED BY <1>1, <2>1, OutOfSight
<1> QED BY <1>4, <1>5, <1>6, <1>7, <1>8

(* Steps of the client leave the sequencer alone.                            *)
LEMMA ServerUntouched ==
  ASSUME SyncParts, UNCHANGED server
  PROVE  /\ ServerOK' /\ Tidy' = Tidy /\ UNCHANGED <<blocks, dayRows, tracker, today>>
         /\ InOrder(blocks) /\ tracker.roots = DayRoots(blocks)
         /\ DOMAIN dayRows \subseteq DaysOf(blocks)
  BY DEF SyncParts, ServerOK, Tidy, server

(* No days are left to finalize but in that part of a sync.                  *)
LEMMA NoDaysLeft == ASSUME SyncParts, pc # "finalize" PROVE days = {}
  BY DEF SyncParts, ToFinalize

(* What is known of the status while nobody but the client moves.            *)
LEMMA StatusStays ==
  ASSUME SyncParts, UNCHANGED server, pc \in Syncing, UNCHANGED <<status, history>>
  PROVE  StatusOK /\ StatusOK'
<1>1. StatusOK
  BY DEF SyncParts, InSync
<1> QED BY <1>1, ServerUntouched DEF StatusOK

(* A command ends (Stop), wherever it was.                                   *)
LEMMA SyncEnds ==
  ASSUME SyncParts, UNCHANGED server, NEW step, Stop(step), step \notin {"status"} \cup Syncing,
         WalletOK(file', blocks), CacheOK(cacheFile', blocks)
  PROVE  SyncParts'
<1>1. pc' = step /\ mem' = <<>> /\ cache' = NewCache /\ days' = {}
  BY DEF Stop
<1>2. ServerOK' /\ blocks' = blocks
  BY ServerUntouched
<1>3. FilesOK'
  BY <1>1, <1>2, EmptyCache DEF FilesOK
<1>4. InSync'
  BY <1>1 DEF InSync, Syncing
<1>5. ToFinalize'
  BY <1>1 DEF ToFinalize, Syncing
<1> QED BY <1>2, <1>3, <1>4, <1>5 DEF SyncParts

(* A command begins with the wallet of the file.                             *)
LEMMA SyncBegins ==
  ASSUME SyncParts, UNCHANGED server, NEW k, NEW loaded, NEW selected, Begin(k, loaded, selected),
         CacheOK(loaded, blocks)
  PROVE  SyncParts'
<1>1. /\ pc = "idle" /\ pc' = "status" /\ mem' = file /\ cache' = loaded
      /\ UNCHANGED <<file, cacheFile, days>>
  BY DEF Begin
<1>2. ServerOK' /\ blocks' = blocks
  BY ServerUntouched
<1>3. FilesOK'
  BY <1>1, <1>2 DEF SyncParts, FilesOK
<1>4. InSync'
  BY <1>1, <1>2 DEF InSync, Syncing
<1>5. ToFinalize'
  BY <1>1, NoDaysLeft DEF ToFinalize
<1> QED BY <1>2, <1>3, <1>4, <1>5 DEF SyncParts

(* The status of a sequencer that has all day roots on record.               *)
LEMMA TidyStatus ==
  ASSUME ServerOK, Tidy
  PROVE  /\ GetSyncStatus.nr = Tip(blocks) /\ GetSyncStatus.day = HeadDay(blocks)
         /\ GetSyncStatus.anchor = tracker.roots
         /\ RowsOK(dayRows, blocks, HeadDay(blocks))
<1>1. InOrder(blocks) /\ dayRows = DayRoots(blocks) /\ dayRows = [d \in DOMAIN dayRows |-> dayRows[d]]
  BY DEF ServerOK, Tidy
<1>2. DOMAIN dayRows = DaysOf(blocks) /\ \A d \in DaysOf(blocks) : dayRows[d] = DayTree(blocks, d)
  BY <1>1 DEF DayRoots
<1>3. HeadDay(blocks) \in Nat /\ DaysOf(blocks) \subseteq 0..HeadDay(blocks)
      /\ (blocks # <<>> => HeadDay(blocks) \in DaysOf(blocks))
  BY <1>1, DaysInOrder
<1>4. LatestDay = HeadDay(blocks)
  <2>1. CASE blocks = <<>>
    <3>1. DOMAIN dayRows = {}
      BY <1>2, <2>1 DEF DaysOf
    <3>2. dayRows = <<>>
      <4>1. <<>> = [d \in DOMAIN <<>> |-> <<>>[d]] /\ DOMAIN <<>> = {}
        OBVIOUS
      <4> QED BY <1>1, <3>1, <4>1
    <3> QED BY <2>1, <3>2 DEF LatestDay, HeadDay
  <2>2. CASE blocks # <<>>
    <3>1. dayRows # <<>>
      BY <1>2, <1>3, <2>2, EmptyWallet
    <3> DEFINE S == DaysOf(blocks)
    <3>2. S \subseteq Nat /\ S # {} /\ HeadDay(blocks) \in S /\ \A y \in S : y <= HeadDay(blocks)
      BY <1>3, <2>2
    <3> HIDE DEF S
    <3>3. Max(S) \in S /\ \A y \in S : y <= Max(S)
      BY <1>3, <3>2, MaxOfNumbers
    <3>4. Max(S) = HeadDay(blocks)
      <4>1. Max(S) \in Nat /\ Max(S) <= HeadDay(blocks)
        BY <3>2, <3>3
      <4>2. HeadDay(blocks) <= Max(S) /\ HeadDay(blocks) \in Nat
        BY <1>3, <3>2, <3>3
      <4> DEFINE m == Max(S)
                 h == HeadDay(blocks)
      <4> HIDE DEF m, h
      <4>3. m \in Nat /\ h \in Nat /\ m <= h /\ h <= m
        BY <4>1, <4>2 DEF m, h
      <4> QED BY <4>3 DEF m, h
    <3> QED BY <1>2, <3>1, <3>4 DEF LatestDay, S
  <2> QED BY <2>1, <2>2
<1>5. LatestNr = Tip(blocks)
  BY DEF LatestNr, Tip
<1>6. RowsOK(dayRows, blocks, HeadDay(blocks))
  BY <1>2 DEF RowsOK
<1> QED BY <1>4, <1>5, <1>6 DEF GetSyncStatus

(* The cache was right about no more than there is.                          *)
LEMMA CacheBehind ==
  ASSUME NEW c, NEW bs, CacheOK(c, bs)
  PROVE  Behind(c, Tip(bs), HeadDay(bs))
  BY DEF CacheOK, CurrentOK, Behind

(* The status arrives.                                                       *)
LEMMA GetStatusInSync ==
  ASSUME SyncParts, UNCHANGED server, HistoryOK, GetStatus, ~history'.untidy
  PROVE  SyncParts'
<1>1. /\ pc = "status" /\ pc' = "days" /\ status' = GetSyncStatus
      /\ history' = [history EXCEPT !.moved = FALSE, !.untidy = @ \/ ~Tidy]
      /\ UNCHANGED <<file, cacheFile, mem, cache, days>>
  BY DEF GetStatus
<1>2. history'.moved = FALSE /\ Tidy
  BY <1>1 DEF HistoryOK
<1>3. ServerOK /\ ServerOK' /\ Tidy' /\ UNCHANGED <<blocks, dayRows, tracker>> /\ InOrder(blocks)
  BY <1>2, ServerUntouched DEF SyncParts
<1>4. /\ status'.nr = Tip(blocks) /\ status'.day = HeadDay(blocks)
      /\ status'.anchor = tracker.roots /\ RowsOK(dayRows, blocks, HeadDay(blocks))
  BY <1>1, <1>2, <1>3, TidyStatus
<1>5. Tip(blocks) \in Nat /\ HeadDay(blocks) \in Nat
  BY <1>3, DaysInOrder
<1>6. StatusOK'
  BY <1>3, <1>4, <1>5 DEF StatusOK
<1>7. CacheOK(cache, blocks)
  BY <1>1 DEF SyncParts, InSync
<1>8. InSync'
  BY <1>1, <1>3, <1>4, <1>6, <1>7, CacheBehind DEF InSync
<1>9. FilesOK'
  BY <1>1, <1>3 DEF SyncParts, FilesOK
<1>10. ToFinalize'
  BY <1>1, NoDaysLeft DEF ToFinalize
<1> QED BY <1>3, <1>8, <1>9, <1>10 DEF SyncParts

(* The roots of the days before the current one arrive.                      *)
LEMMA FetchDayRootsInSync ==
  ASSUME SyncParts, UNCHANGED server, FetchDayRoots
  PROVE  SyncParts'
<1>1. /\ pc = "days" /\ pc' = "current"
      /\ cache' = IF status.day > 0 /\ FirstMissing <= status.day - 1
                  THEN UpdateDayRoots(cache, GetDayRoots(FirstMissing, status.day - 1))
                  ELSE cache
      /\ UNCHANGED <<file, cacheFile, mem, status, days, history>>
  BY DEF FetchDayRoots
<1>2. ServerOK' /\ UNCHANGED <<blocks, dayRows>> /\ InOrder(blocks) /\ DOMAIN dayRows \subseteq DaysOf(blocks)
  BY ServerUntouched
<1>3. StatusOK /\ StatusOK'
  BY <1>1, StatusStays DEF Syncing
<1>4. CacheOK(cache, blocks) /\ Behind(cache, status.nr, status.day)
  BY <1>1 DEF SyncParts, InSync
<1>5. DOMAIN dayRows \subseteq Nat
  BY <1>2, DaysInOrder
<1> DEFINE first == FinalizedDaysCached(cache)
           u == cache'
<1>6. u = IF status.day > 0 /\ first <= status.day - 1
          THEN UpdateDayRoots(cache, [d \in DOMAIN dayRows \cap first..(status.day - 1) |-> dayRows[d]])
          ELSE cache
  BY <1>1 DEF FirstMissing, GetDayRoots
<1>7. first = FinalizedDaysCached(cache)
  OBVIOUS
<1> HIDE DEF first, u
<1>8. status.nr \in Nat /\ status.day \in Nat /\ RowsOK(dayRows, blocks, status.day)
  BY <1>3 DEF StatusOK
<1>9. FetchedOK(u, blocks, status.nr, status.day)
  BY <1>2, <1>4, <1>5, <1>6, <1>7, <1>8, DaysFetched
<1>10. InSync'
  BY <1>1, <1>2, <1>3, <1>9 DEF InSync, u
<1>11. FilesOK'
  BY <1>1, <1>2 DEF SyncParts, FilesOK
<1>12. ToFinalize'
  BY <1>1, NoDaysLeft DEF ToFinalize
<1> QED BY <1>2, <1>10, <1>11, <1>12 DEF SyncParts

(* The roots of the current day's blocks arrive.                             *)
LEMMA FetchCurrentDayInSync ==
  ASSUME SyncParts, UNCHANGED server, FetchCurrentDay
  PROVE  SyncParts'
<1>1. /\ pc = "current" /\ pc' = (IF Unspent(mem) = {} THEN "finalize" ELSE "proofs")
      /\ cache' = IF NeedsCurrentDayRefresh(cache, status.day, status.nr) \/ cmd = "full"
                  THEN SetCurrentDayBlockRoots(cache, status.day, GetBlockRoots(status.day), status.nr)
                  ELSE cache
      /\ UNCHANGED <<file, cacheFile, mem, status, days, history>>
  BY DEF FetchCurrentDay
<1>2. /\ ServerOK' /\ UNCHANGED <<blocks, dayRows>> /\ InOrder(blocks)
      /\ DOMAIN dayRows \subseteq DaysOf(blocks) /\ tracker.roots = DayRoots(blocks)
  BY ServerUntouched
<1>3. StatusOK /\ StatusOK'
  BY <1>1, StatusStays DEF Syncing
<1>4. FetchedOK(cache, blocks, status.nr, status.day)
  BY <1>1 DEF SyncParts, InSync
<1> DEFINE answer == GetBlockRoots(status.day)
           u == cache'
<1>5. /\ Refreshed(u, cache, status.day, status.nr, cmd, answer)
      /\ IsAnswer(answer, blocks, status.day, dayRows)
  BY <1>1 DEF GetBlockRoots, Refreshed, IsAnswer
<1> HIDE DEF answer, u
<1>6. /\ status.nr \in Nat /\ status.day \in Nat
      /\ status.nr <= Tip(blocks) /\ status.day <= HeadDay(blocks)
      /\ Recorded(dayRows, blocks, status.nr, status.day)
  BY <1>2, <1>3 DEF StatusOK, Tidy, Recorded
<1>7. CacheOK(u, blocks) /\ HasCurrent(u, status.day, status.nr)
  BY <1>2, <1>4, <1>5, <1>6, CurrentFetched
<1>8. InSync'
  BY <1>1, <1>2, <1>3, <1>7 DEF InSync, AtCurrentDay, u
<1>9. FilesOK'
  BY <1>1, <1>2 DEF SyncParts, FilesOK
<1>10. ToFinalize'
  BY <1>1, NoDaysLeft DEF ToFinalize
<1> QED BY <1>2, <1>8, <1>9, <1>10 DEF SyncParts

(* The proofs that may be written into a note.                               *)
IsProofOf(p, n, bs) ==
    \/ p = {ProofWith(n, bs, {})}
    \/ n.day < HeadDay(bs) /\ p = {ProofWith(n, bs, {DayPath(n, bs)})}

(* The inner path of a proof is added.                                       *)
LEMMA InDayAdded ==
  ASSUME NEW b, NEW x, NEW y
  PROVE  [[block |-> b, inDay |-> x] EXCEPT !.inDay = y] = [block |-> b, inDay |-> y]
  OBVIOUS

(* A proof that is written into a note is the proof of that note.            *)
LEMMA NoteGetsProof ==
  ASSUME NEW bs, NEW n, NoteOK(n, bs), NEW p, IsProofOf(p, n, bs)
  PROVE  /\ NoteOK([n EXCEPT !.proof = p], bs)
         /\ [n EXCEPT !.proof = p].proof = p
         /\ [n EXCEPT !.proof = p].spent = n.spent /\ [n EXCEPT !.proof = p].day = n.day
<1> DEFINE m == [n EXCEPT !["proof"] = p]
<1>1. IsNote(n) /\ n = [f \in DOMAIN n |-> n[f]]
      /\ {"c", "spent", "proof", "nr", "day", "index", "leaf"} \subseteq DOMAIN n
  BY DEF NoteOK, IsNote
<1>2. /\ m = [f \in DOMAIN n |-> m[f]] /\ DOMAIN m = DOMAIN n /\ m["proof"] = p
      /\ \A f \in DOMAIN n : f # "proof" => m[f] = n[f]
  BY <1>1, ChangedAt
<1>3. [n EXCEPT !.proof = p] = m
  OBVIOUS
<1> HIDE DEF m
<1>4. /\ m.c = n.c /\ m.spent = n.spent /\ m.nr = n.nr /\ m.day = n.day /\ m.index = n.index
      /\ m.leaf = n.leaf /\ m.proof = p
  BY <1>1, <1>2
<1>5. IsNote(m) /\ {"nr", "day", "index", "leaf"} \subseteq DOMAIN m
  BY <1>1, <1>2, <1>4 DEF IsNote
<1>6. \A d : ProofWith(m, bs, d) = ProofWith(n, bs, d)
  BY <1>4 DEF ProofWith
<1>7. DayPath(m, bs) = DayPath(n, bs)
  BY <1>4 DEF DayPath
<1>8. \/ m.proof = {ProofWith(m, bs, {})}
      \/ m.day < HeadDay(bs) /\ m.proof = {ProofWith(m, bs, {DayPath(m, bs)})}
  BY <1>4, <1>6, <1>7 DEF IsProofOf
<1>9. NoteOK(m, bs)
  <2>1. /\ m.nr \in Nat /\ m.nr < Len(bs)
        /\ m.day = bs[m.nr + 1].day /\ m.index = bs[m.nr + 1].index
        /\ m.leaf \in DOMAIN Leaves(bs[m.nr + 1]) /\ Leaves(bs[m.nr + 1])[m.leaf] = m.c
    BY <1>4 DEF NoteOK
  <2> QED BY <1>5, <1>8, <2>1 DEF NoteOK
<1> QED BY <1>3, <1>4, <1>9

(* A mark changes nothing else of a note.                                    *)
LEMMA NoteGetsMark ==
  ASSUME NEW bs, NEW n, NoteOK(n, bs), NEW b \in BOOLEAN
  PROVE  NoteOK([n EXCEPT !.spent = b], bs)
<1> DEFINE m == [n EXCEPT !["spent"] = b]
<1>1. IsNote(n) /\ n = [f \in DOMAIN n |-> n[f]]
      /\ {"c", "spent", "proof", "nr", "day", "index", "leaf"} \subseteq DOMAIN n
  BY DEF NoteOK, IsNote
<1>2. /\ m = [f \in DOMAIN n |-> m[f]] /\ DOMAIN m = DOMAIN n /\ m["spent"] = b
      /\ \A f \in DOMAIN n : f # "spent" => m[f] = n[f]
  BY <1>1, ChangedAt
<1>3. [n EXCEPT !.spent = b] = m
  OBVIOUS
<1> HIDE DEF m
<1>4. /\ m.c = n.c /\ m.spent = b /\ m.nr = n.nr /\ m.day = n.day /\ m.index = n.index
      /\ m.leaf = n.leaf /\ m.proof = n.proof
  BY <1>1, <1>2
<1>5. IsNote(m) /\ {"nr", "day", "index", "leaf"} \subseteq DOMAIN m
  BY <1>1, <1>2, <1>4 DEF IsNote
<1>6. \A d : ProofWith(m, bs, d) = ProofWith(n, bs, d)
  BY <1>4 DEF ProofWith
<1>7. DayPath(m, bs) = DayPath(n, bs)
  BY <1>4 DEF DayPath
<1>8. \/ m.proof = {}
      \/ m.proof = {ProofWith(m, bs, {})}
      \/ m.day < HeadDay(bs) /\ m.proof = {ProofWith(m, bs, {DayPath(m, bs)})}
  BY <1>4, <1>6, <1>7 DEF NoteOK
<1>9. NoteOK(m, bs)
  <2>1. /\ m.nr \in Nat /\ m.nr < Len(bs)
        /\ m.day = bs[m.nr + 1].day /\ m.index = bs[m.nr + 1].index
        /\ m.leaf \in DOMAIN Leaves(bs[m.nr + 1]) /\ Leaves(bs[m.nr + 1])[m.leaf] = m.c
    BY <1>4 DEF NoteOK
  <2> QED BY <1>5, <1>8, <2>1 DEF NoteOK
<1> QED BY <1>3, <1>9

(* What a new note says of itself is so.                                     *)
LEMMA NewNoteOK ==
  ASSUME blocks \in Seq(Block), NEW i \in 1..Len(blocks), NEW l \in DOMAIN Leaves(blocks[i])
  PROVE  NoteOK(NewNote(Leaves(blocks[i])[l], i, l), blocks)
<1> DEFINE n == NewNote(Leaves(blocks[i])[l], i, l)
<1>1. IsNote(n)
  BY NewNoteIsNote
<1>2. /\ n.nr = i - 1 /\ n.day = blocks[i].day /\ n.index = blocks[i].index /\ n.leaf = l
      /\ n.c = Leaves(blocks[i])[l] /\ n.proof = {} /\ {"nr", "day", "index", "leaf"} \subseteq DOMAIN n
  BY DEF NewNote
<1> HIDE DEF n
<1>3. n.nr \in Nat /\ n.nr < Len(blocks) /\ n.nr + 1 = i
  BY <1>2
<1>4. NoteOK(n, blocks)
  BY <1>1, <1>2, <1>3 DEF NoteOK
<1> QED BY <1>4 DEF n

-----------------------------------------------------------------------------
(* The copy of the wallet while a command works on it.                       *)
LEMMA CopyIsWallet ==
  ASSUME SpendInv, pc \in Loaded
  PROVE  /\ Len(mem) \in Nat /\ DOMAIN mem = 1..Len(mem) /\ mem = [i \in 1..Len(mem) |-> mem[i]]
         /\ \A i \in 1..Len(mem) : IsNote(mem[i])
  BY DEF SpendInv, CopyOK, CopyOf, IsWallet

(* The copy changes during a sync and nothing else does.                     *)
LEMMA CopyInSync ==
  ASSUME SyncParts, UNCHANGED server, UNCHANGED <<file, cacheFile, cache, pc, status, history>>,
         WalletOK(mem', blocks), ToFinalize'
  PROVE  SyncParts'
<1>1. ServerOK' /\ UNCHANGED <<blocks, dayRows>>
  BY ServerUntouched
<1>2. FilesOK'
  BY <1>1 DEF SyncParts, FilesOK
<1>3. pc \in Syncing => StatusOK'
  BY StatusStays
<1>4. InSync'
  BY <1>1, <1>3 DEF SyncParts, InSync, AtCurrentDay
<1> QED BY <1>1, <1>2, <1>4 DEF SyncParts

(* A block proof arrives.                                                    *)
LEMMA FetchBlockProofInSync ==
  ASSUME SyncParts, SpendInv, UNCHANGED server, FetchBlockProof
  PROVE  SyncParts'
<1> DEFINE i == Min(NeedingBlockProof(mem))
           answer == GetBlockTreeProof(mem[i].nr, mem[i].leaf)
           s == CHOOSE s \in answer : TRUE
<1>1. /\ pc = "proofs" /\ NeedingBlockProof(mem) # {}
      /\ UNCHANGED <<file, cacheFile, history>>
      /\ \/ Stop("idle")
         \/ /\ answer # {} /\ mem' = StoreBlockProof(mem, i, s)
            /\ UNCHANGED <<pc, cache, days, status>>
  BY DEF FetchBlockProof
<1>2. s \in answer \/ answer = {}
  OBVIOUS
<1> HIDE DEF i, s
<1>3. CASE Stop("idle")
  <2>1. WalletOK(file', blocks) /\ CacheOK(cacheFile', blocks)
    BY <1>1 DEF SyncParts, FilesOK
  <2> QED BY <1>3, <2>1, SyncEnds DEF Syncing
<1>4. CASE answer # {} /\ mem' = StoreBlockProof(mem, i, s) /\ UNCHANGED <<pc, cache, days, status>>
  <2>1. /\ Len(mem) \in Nat /\ DOMAIN mem = 1..Len(mem) /\ mem = [j \in 1..Len(mem) |-> mem[j]]
    BY <1>1, CopyIsWallet DEF Loaded
  <2>2. i \in 1..Len(mem)
    <3> DEFINE S == NeedingBlockProof(mem)
    <3>1. S \subseteq 1..Len(mem) /\ S # {}
      BY <1>1, <2>1 DEF NeedingBlockProof, Unspent
    <3>2. S \subseteq Nat
      BY <3>1
    <3> HIDE DEF S
    <3> QED BY <3>1, <3>2, MinOfNumbers DEF i, S
  <2> DEFINE n == mem[i]
             p == {[block |-> s, inDay |-> {}]}
             m == [n EXCEPT !.proof = p]
  <2>3. NoteOK(n, blocks) /\ \A j \in 1..Len(mem) : NoteOK(mem[j], blocks)
    BY <2>1, <2>2 DEF SyncParts, FilesOK, WalletOK
  <2>4. s = Siblings(Leaves(blocks[n.nr + 1]), n.leaf)
    BY <1>2, <1>4 DEF GetBlockTreeProof
  <2>5. p = {ProofWith(n, blocks, {})}
    BY <2>4 DEF ProofWith
  <2>10. IsProofOf(p, n, blocks)
    BY <2>5 DEF IsProofOf
  <2>6. mem' = [mem EXCEPT ![i] = m]
    BY <1>4 DEF StoreBlockProof
  <2> HIDE DEF n, p, m
  <2>7. NoteOK(m, blocks)
    BY <2>3, <2>10, NoteGetsProof DEF m
  <2>8. DOMAIN mem' = 1..Len(mem) /\ mem'[i] = m /\ \A j \in 1..Len(mem) : j # i => mem'[j] = mem[j]
    BY <2>1, <2>2, <2>6
  <2>9. WalletOK(mem', blocks)
    BY <2>3, <2>7, <2>8 DEF WalletOK
  <2>11. ToFinalize'
    BY <1>1, <1>4, NoDaysLeft DEF ToFinalize
  <2> QED BY <1>1, <1>4, <2>9, <2>11, CopyInSync
<1> QED BY <1>1, <1>3, <1>4

(* The paths of a finished day arrive.                                       *)
LEMMA FinalizeOneDayInSync ==
  ASSUME SyncParts, SpendInv, UNCHANGED server, NEW day, FinalizeOneDay(day)
  PROVE  SyncParts'
<1> DEFINE tree == DayTree(blocks, day)
           S == NeedingDayFinalization(mem, day + 1)
<1>1. /\ pc = "finalize" /\ day \in days /\ days' = days \ {day}
      /\ mem' = FinalizeDay(mem, day, tree)
      /\ UNCHANGED <<file, cacheFile, cache, pc, status, history>>
  BY DEF FinalizeOneDay, GetBlockRoots
<1>2. /\ Len(mem) \in Nat /\ DOMAIN mem = 1..Len(mem)
  BY <1>1, CopyIsWallet DEF Loaded
<1>3. day \in Nat /\ day < status.day /\ StatusOK
  BY <1>1 DEF SyncParts, ToFinalize, InSync, Syncing
<1>4. InOrder(blocks) /\ HeadDay(blocks) \in Nat
  BY DaysInOrder DEF SyncParts, ServerOK
<1>5. day < HeadDay(blocks)
  BY <1>3, <1>4 DEF StatusOK
<1>6. \A i \in 1..Len(mem) : NoteOK(mem[i], blocks)
  BY <1>2 DEF SyncParts, FilesOK, WalletOK
<1>7. /\ DOMAIN mem' = 1..Len(mem)
      /\ \A i \in 1..Len(mem) :
            mem'[i] = IF i \in S /\ mem[i].day = day
                      THEN [mem[i] EXCEPT !.proof =
                              {[p EXCEPT !.inDay = {Siblings(tree, mem[i].index)}] : p \in mem[i].proof}]
                      ELSE mem[i]
  BY <1>1, <1>2 DEF FinalizeDay
<1> HIDE DEF tree, S
<1>8. ASSUME NEW i \in 1..Len(mem), i \in S, mem[i].day = day
      PROVE  /\ NoteOK(mem'[i], blocks) /\ mem'[i].day = mem[i].day
             /\ mem'[i].spent = mem[i].spent /\ mem'[i].proof # {} /\ IsComplete(mem'[i])
  <2> DEFINE n == mem[i]
             q == {[p EXCEPT !.inDay = {Siblings(tree, n.index)}] : p \in n.proof}
  <2>1. NoteOK(n, blocks) /\ n.proof # {} /\ ~IsComplete(n) /\ n.day = day
    BY <1>6, <1>8 DEF S, NeedingDayFinalization
  <2>2. mem'[i] = [n EXCEPT !.proof = q]
    BY <1>7, <1>8
  <2> HIDE DEF n
  <2>3. n.proof = {ProofWith(n, blocks, {})}
    <3>1. n.proof = {ProofWith(n, blocks, {DayPath(n, blocks)})} => IsComplete(n)
      BY DEF IsComplete, ProofWith
    <3> QED BY <2>1, <3>1 DEF NoteOK
  <2>4. DayPath(n, blocks) = Siblings(tree, n.index)
    BY <2>1 DEF DayPath, tree
  <2>5. q = {ProofWith(n, blocks, {DayPath(n, blocks)})}
    <3>1. [ProofWith(n, blocks, {}) EXCEPT !.inDay = {DayPath(n, blocks)}]
             = ProofWith(n, blocks, {DayPath(n, blocks)})
      BY InDayAdded DEF ProofWith
    <3> DEFINE a == ProofWith(n, blocks, {})
               b == ProofWith(n, blocks, {DayPath(n, blocks)})
               y == {Siblings(tree, n.index)}
    <3>2. [a EXCEPT !.inDay = y] = b /\ n.proof = {a}
      BY <2>3, <2>4, <3>1
    <3> HIDE DEF a, b, y
    <3>3. {[p EXCEPT !.inDay = y] : p \in {a}} = {[a EXCEPT !.inDay = y]}
      OBVIOUS
    <3>4. q = {b}
      BY <3>2, <3>3 DEF y
    <3> QED BY <3>4 DEF b
  <2> HIDE DEF q
  <2> DEFINE m == [n EXCEPT !.proof = q]
  <2>6. /\ NoteOK(m, blocks) /\ m.proof = q /\ m.spent = n.spent /\ m.day = n.day
    <3>1. IsProofOf(q, n, blocks)
      BY <1>5, <2>1, <2>5 DEF IsProofOf
    <3> QED BY <2>1, <3>1, NoteGetsProof
  <2> HIDE DEF m
  <2>7. IsComplete(m) /\ m.proof # {}
    BY <2>5, <2>6 DEF IsComplete, ProofWith
  <2> QED BY <2>2, <2>6, <2>7 DEF m, n
<1>9. WalletOK(mem', blocks)
  BY <1>6, <1>7, <1>8 DEF WalletOK
<1>10. ToFinalize'
  <2>1. \A d \in days' : pc' = "finalize" /\ d \in Nat /\ d < status'.day
    BY <1>1 DEF SyncParts, ToFinalize
  <2>2. ASSUME NEW i \in Unspent(mem')
        PROVE  /\ mem'[i].proof # {}
               /\ IsComplete(mem'[i]) \/ mem'[i].day >= status.day \/ mem'[i].day \in days'
    <3>1. i \in 1..Len(mem) /\ ~mem'[i].spent
      BY <1>7 DEF Unspent
    <3>2. CASE i \in S /\ mem[i].day = day
      BY <1>8, <3>1, <3>2
    <3>3. CASE ~(i \in S /\ mem[i].day = day)
      <4>1. mem'[i] = mem[i]
        BY <1>7, <3>1, <3>3
      <4>2. i \in Unspent(mem)
        BY <1>2, <3>1, <4>1 DEF Unspent
      <4>3. /\ mem[i].proof # {}
            /\ IsComplete(mem[i]) \/ mem[i].day >= status.day \/ mem[i].day \in days
        BY <1>1, <4>2 DEF SyncParts, ToFinalize
      <4>4. mem[i].day = day => IsComplete(mem[i])
        BY <1>3, <3>3, <4>2, <4>3 DEF S, NeedingDayFinalization
      <4> QED BY <1>1, <4>1, <4>3, <4>4
    <3> QED BY <3>2, <3>3
  <2> QED BY <1>1, <2>1, <2>2 DEF ToFinalize
<1> QED BY <1>1, <1>9, <1>10, CopyInSync

(* All block proofs are stored: the days to finalize are those of the notes  *)
(* whose path is not complete.                                               *)
LEMMA BlockProofsStoredInSync ==
  ASSUME SyncParts, SpendInv, UNCHANGED server, BlockProofsStored
  PROVE  SyncParts'
<1>1. /\ pc = "proofs" /\ pc' = "finalize" /\ NeedingBlockProof(mem) = {}
      /\ days' = {mem[i].day : i \in NeedingDayFinalization(mem, status.day)}
      /\ UNCHANGED <<file, cacheFile, mem, cache, status, history>>
  BY DEF BlockProofsStored
<1>2. ServerOK' /\ UNCHANGED <<blocks, dayRows>> /\ InOrder(blocks)
  BY ServerUntouched
<1>3. StatusOK /\ StatusOK'
  BY <1>1, StatusStays DEF Syncing
<1>4. FilesOK'
  BY <1>1, <1>2 DEF SyncParts, FilesOK
<1>5. InSync'
  BY <1>1, <1>2, <1>3 DEF SyncParts, InSync, AtCurrentDay
<1>6. DOMAIN mem = 1..Len(mem)
  BY <1>1, CopyIsWallet DEF Loaded
<1>7. \A i \in DOMAIN mem : mem[i].day \in Nat
  <2> TAKE i \in DOMAIN mem
  <2>1. NoteOK(mem[i], blocks)
    BY DEF SyncParts, FilesOK, WalletOK
  <2>2. mem[i].nr + 1 \in 1..Len(blocks) /\ mem[i].day = blocks[mem[i].nr + 1].day
    BY <1>2, <2>1 DEF NoteOK, InOrder
  <2> QED BY <1>2, <2>2, BlockFields DEF InOrder
<1>8. \A d \in days' : d \in Nat /\ d < status.day
  BY <1>1, <1>7 DEF NeedingDayFinalization, Unspent
<1>9. ASSUME NEW i \in Unspent(mem)
      PROVE  /\ mem[i].proof # {}
             /\ IsComplete(mem[i]) \/ mem[i].day >= status.day \/ mem[i].day \in days'
  <2>1. mem[i].proof # {}
    BY <1>1 DEF NeedingBlockProof
  <2>2. mem[i].day \in Nat /\ status.day \in Nat
    BY <1>3, <1>7 DEF StatusOK, Unspent
  <2>3. ~IsComplete(mem[i]) /\ mem[i].day < status.day => mem[i].day \in days'
    BY <1>1, <2>1 DEF NeedingDayFinalization
  <2> QED BY <2>1, <2>2, <2>3
<1>10. ToFinalize'
  BY <1>1, <1>8, <1>9 DEF ToFinalize
<1> QED BY <1>2, <1>4, <1>5, <1>10 DEF SyncParts

(* Cache u is c with this anchor and number.                                 *)
IsAnchored(u, c, a, k) == u = [c EXCEPT !.anchor = a, !.nr = k]

(* The sync point is set (set_sync_point).                                   *)
LEMMA AnchorSet ==
  ASSUME NEW c, NEW bs, CacheOK(c, bs), NEW a, NEW k, NEW u, IsAnchored(u, c, a, k)
  PROVE  CacheOK(u, bs) /\ u.anchor = a /\ u.current = c.current
<1>0. u = [c EXCEPT !.anchor = a, !.nr = k]
  BY DEF IsAnchored
<1>1. c = [anchor |-> c.anchor, nr |-> c.nr, dayRoots |-> c.dayRoots, current |-> c.current]
  BY DEF CacheOK, IsCache
<1>2. u = [anchor |-> a, nr |-> k, dayRoots |-> c.dayRoots, current |-> c.current]
  BY <1>0, <1>1
<1>3. u.anchor = a /\ u.nr = k /\ u.dayRoots = c.dayRoots /\ u.current = c.current
  BY <1>2
<1>4. IsCache(u)
  <2>1. u = [anchor |-> u.anchor, nr |-> u.nr, dayRoots |-> u.dayRoots, current |-> u.current]
    BY <1>2, <1>3
  <2>2. Len(u.dayRoots) \in Nat /\ u.dayRoots = [i \in 1..Len(u.dayRoots) |-> u.dayRoots[i]]
    BY <1>3 DEF CacheOK, IsCache
  <2>3. u.current = {} \/ \E d \in Nat, n \in Nat : \E t : u.current = {[day |-> d, roots |-> t, nr |-> n]}
    BY <1>3 DEF CacheOK, IsCache
  <2> QED BY <2>1, <2>2, <2>3 DEF IsCache
<1>5. \A r \in c.current : CurrentOK(c, r, bs) => CurrentOK(u, r, bs)
  BY <1>3 DEF CurrentOK, UpToDate
<1> QED BY <1>3, <1>4, <1>5 DEF CacheOK

(* The sync ends.                                                            *)
LEMMA EndSyncInSync ==
  ASSUME SyncParts, UNCHANGED server, EndSync
  PROVE  SyncParts'
<1>1. /\ pc = "finalize" /\ pc' = "cache" /\ days = {} /\ file' \in {mem, file}
      /\ cache' = [cache EXCEPT !.anchor = status.anchor, !.nr = status.nr]
      /\ UNCHANGED <<cacheFile, mem, status, days, history>>
  BY DEF EndSync
<1>2. ServerOK' /\ UNCHANGED <<blocks, dayRows>>
  BY ServerUntouched
<1>3. StatusOK /\ StatusOK'
  BY <1>1, StatusStays DEF Syncing
<1>4. FilesOK'
  BY <1>1, <1>2 DEF SyncParts, FilesOK
<1>5. CacheOK(cache, blocks) /\ AtCurrentDay
  BY <1>1 DEF SyncParts, InSync
<1> DEFINE u == cache'
           a == status.anchor
           k == status.nr
<1>6. IsAnchored(u, cache, a, k)
  BY <1>1 DEF IsAnchored
<1> HIDE DEF u, a, k
<1>7. CacheOK(u, blocks) /\ u.anchor = a /\ u.current = cache.current
  BY <1>5, <1>6, AnchorSet
<1>8. CacheOK(cache', blocks') /\ AtCurrentDay' /\ cache'.anchor = status.anchor
  BY <1>1, <1>2, <1>5, <1>7 DEF u, a, AtCurrentDay, HasCurrent
<1>9. InSync'
  BY <1>1, <1>3, <1>8 DEF InSync
<1>10. ToFinalize'
  BY <1>1 DEF SyncParts, ToFinalize
<1> QED BY <1>2, <1>4, <1>9, <1>10 DEF SyncParts

(* The cache is saved.                                                       *)
LEMMA SaveCacheInSync ==
  ASSUME SyncParts, UNCHANGED server, SaveCache
  PROVE  SyncParts'
<1>1. /\ pc = "cache" /\ cacheFile' = cache /\ UNCHANGED <<file, history>>
      /\ \/ Stop("search")
         \/ pc' = "build" /\ UNCHANGED <<mem, cache, days, status>>
  BY DEF SaveCache
<1>2. ServerOK' /\ blocks' = blocks
  BY ServerUntouched
<1>3. CacheOK(cacheFile', blocks) /\ WalletOK(file', blocks) /\ WalletOK(mem, blocks)
  BY <1>1 DEF SyncParts, InSync, FilesOK
<1>4. CASE Stop("search")
  BY <1>3, <1>4, SyncEnds DEF Syncing
<1>5. CASE pc' = "build" /\ UNCHANGED <<mem, cache, days, status>>
  <2>1. FilesOK' /\ InSync' /\ ToFinalize'
    BY <1>1, <1>2, <1>3, <1>5, NoDaysLeft DEF FilesOK, InSync, ToFinalize, Syncing
  <2> QED BY <1>2, <2>1 DEF SyncParts
<1> QED BY <1>1, <1>4, <1>5

(* After the sync, transactions are built from the copy and its notes        *)
(* marked.                                                                   *)
LEMMA AfterSync ==
  ASSUME SyncParts, UNCHANGED server, UNCHANGED <<file, cacheFile, days>>,
         pc \in {"build", "submit"}, pc' \in {"build", "submit"}, WalletOK(mem', blocks)
  PROVE  SyncParts'
<1>1. ServerOK' /\ blocks' = blocks
  BY ServerUntouched
<1>2. FilesOK'
  BY <1>1 DEF SyncParts, FilesOK
<1>3. InSync' /\ ToFinalize'
  BY NoDaysLeft DEF InSync, ToFinalize, Syncing
<1> QED BY <1>1, <1>2, <1>3 DEF SyncParts

(* The transactions of a command are proved (ProveAll), or it ends.          *)
LEMMA BuildInSync ==
  ASSUME SyncParts, UNCHANGED server, BuildTransfer \/ BuildWithdrawal \/ BuildConsolidation
  PROVE  SyncParts'
<1>1. pc = "build" /\ \E txs : ProveAll(txs)
  BY DEF BuildTransfer, BuildWithdrawal, BuildConsolidation
<1>2. PICK txs : ProveAll(txs)
  BY <1>1
<1>3. UNCHANGED <<file, cacheFile>> /\ (Stop("idle") \/ (pc' = "submit" /\ UNCHANGED <<mem, days>>))
  BY <1>2 DEF ProveAll
<1>4. WalletOK(file', blocks) /\ CacheOK(cacheFile', blocks) /\ WalletOK(mem, blocks)
  BY <1>3 DEF SyncParts, FilesOK
<1>5. CASE Stop("idle")
  BY <1>4, <1>5, SyncEnds DEF Syncing
<1>6. CASE pc' = "submit" /\ UNCHANGED <<mem, days>>
  BY <1>1, <1>3, <1>4, <1>6, AfterSync
<1> QED BY <1>3, <1>5, <1>6

(* One is accepted, and its inputs are marked in the copy.                   *)
LEMMA SubmitInSync ==
  ASSUME SyncParts, SpendInv, UNCHANGED server, SubmitAccepted
  PROVE  SyncParts'
<1>1. /\ pc = "submit" /\ mem' = MarkSpent(mem, Head(queue))
      /\ UNCHANGED <<file, cacheFile, pc, days>>
  BY DEF SubmitAccepted
<1>2. DOMAIN mem = 1..Len(mem)
  BY <1>1, CopyIsWallet DEF Loaded
<1>3. ASSUME NEW i \in DOMAIN mem PROVE NoteOK(mem'[i], blocks)
  <2> DEFINE n == mem[i]
             b == n.spent \/ n.c \in Head(queue)
             m == [n EXCEPT !.spent = b]
  <2>1. mem'[i] = m
    BY <1>1 DEF MarkSpent
  <2>2. NoteOK(n, blocks)
    BY DEF SyncParts, FilesOK, WalletOK
  <2>3. b \in BOOLEAN
    BY <2>2 DEF NoteOK, IsNote
  <2> HIDE DEF n, b
  <2>4. NoteOK(m, blocks)
    BY <2>2, <2>3, NoteGetsMark
  <2> QED BY <2>1, <2>4
<1>4. WalletOK(mem', blocks)
  <2>1. DOMAIN mem' = DOMAIN mem
    BY <1>1 DEF MarkSpent
  <2> QED BY <1>3, <2>1 DEF WalletOK
<1> QED BY <1>1, <1>4, AfterSync

(* Every command starts with what is stored, or with no cache.               *)
LEMMA StartInSync ==
  ASSUME SyncParts, UNCHANGED server,
         \/ \E full \in BOOLEAN : StartSync(full)
         \/ StartTransfer
         \/ \E selection \in SUBSET DOMAIN file : StartWithdraw(selection)
         \/ StartConsolidate
  PROVE  SyncParts'
<1>1. CacheOK(cacheFile, blocks) /\ CacheOK(NewCache, blocks)
  BY EmptyCache DEF SyncParts, FilesOK
<1>2. \E k, loaded, selected : Begin(k, loaded, selected) /\ CacheOK(loaded, blocks)
  <2>1. ASSUME NEW full \in BOOLEAN, StartSync(full)
        PROVE  \E k, loaded, selected : Begin(k, loaded, selected) /\ CacheOK(loaded, blocks)
    <3>1. Begin("full", NewCache, {}) \/ Begin("sync", cacheFile, {})
      BY <2>1 DEF StartSync
    <3> QED BY <1>1, <3>1
  <2>2. ASSUME NEW selection \in SUBSET DOMAIN file, StartWithdraw(selection)
        PROVE  \E k, loaded, selected : Begin(k, loaded, selected) /\ CacheOK(loaded, blocks)
    <3>1. Begin("withdraw", cacheFile, {file[i] : i \in selection})
      BY <2>2 DEF StartWithdraw
    <3> QED BY <1>1, <3>1
  <2>3. ASSUME StartTransfer \/ StartConsolidate
        PROVE  \E k, loaded, selected : Begin(k, loaded, selected) /\ CacheOK(loaded, blocks)
    <3>1. Begin("transfer", cacheFile, {}) \/ Begin("consolidate", cacheFile, {})
      BY <2>3 DEF StartTransfer, StartConsolidate
    <3> QED BY <1>1, <3>1
  <2> QED BY <2>1, <2>2, <2>3
<1> QED BY <1>2, SyncBegins

(* Every step of a command.                                                  *)
LEMMA WalletStepInSync ==
  ASSUME SyncParts, SpendInv, WalletStep, ~history'.untidy
  PROVE  SyncParts'
<1>1. UNCHANGED server /\ HistoryOK
  BY DEF WalletStep, SpendInv
<1>2. WalletOK(file, blocks) /\ WalletOK(mem, blocks) /\ CacheOK(cacheFile, blocks)
  BY DEF SyncParts, FilesOK
<1>3. CASE CannotSelect \/ RequestFails \/ SubmitRefused \/ SaveWallet
  <2>1. Stop("idle") /\ file' \in {file, mem} /\ cacheFile' = cacheFile
    BY <1>3 DEF CannotSelect, RequestFails, SubmitRefused, SaveWallet
  <2> QED BY <1>1, <1>2, <2>1, SyncEnds DEF Syncing
<1>4. CASE \/ \E full \in BOOLEAN : StartSync(full)
           \/ StartTransfer
           \/ \E selection \in SUBSET DOMAIN file : StartWithdraw(selection)
           \/ StartConsolidate
  BY <1>1, <1>4, StartInSync
<1>5. CASE GetStatus \/ FetchDayRoots \/ FetchCurrentDay
  BY <1>1, <1>5, GetStatusInSync, FetchDayRootsInSync, FetchCurrentDayInSync
<1>6. CASE FetchBlockProof \/ BlockProofsStored \/ \E d \in days : FinalizeOneDay(d)
  BY <1>1, <1>6, FetchBlockProofInSync, BlockProofsStoredInSync, FinalizeOneDayInSync
<1>7. CASE EndSync \/ SaveCache
  BY <1>1, <1>7, EndSyncInSync, SaveCacheInSync
<1>8. CASE BuildTransfer \/ BuildWithdrawal \/ BuildConsolidation
  BY <1>1, <1>8, BuildInSync
<1>9. CASE SubmitAccepted
  BY <1>1, <1>9, SubmitInSync
<1> QED BY <1>3, <1>4, <1>5, <1>6, <1>7, <1>8, <1>9 DEF WalletStep

(* Notes that the owner learns of are notes of standing blocks.              *)
LEMMA NotesAddedInSync ==
  ASSUME SyncParts, SpendInv, NotesAdded
  PROVE  SyncParts'
<1>1. /\ pc = "idle" /\ UNCHANGED server
      /\ UNCHANGED <<cacheFile, mem, cache, pc, days>>
  BY DEF NotesAdded
<1>2. ServerOK' /\ blocks' = blocks /\ blocks \in Seq(Block)
  BY <1>1, ServerUntouched DEF InOrder
<1>3. IsWallet(file) /\ DOMAIN file = 1..Len(file)
  BY DEF SpendInv, FileOK, IsWallet
<1>4. /\ IsWallet(file') /\ Len(file) <= Len(file')
      /\ \A k \in 1..Len(file) : file'[k] = file[k]
      /\ \A k \in 1..Len(file') : k > Len(file) =>
            \E i \in 1..Len(blocks) : \E l \in DOMAIN Leaves(blocks[i]) :
               file'[k] = NewNote(Leaves(blocks[i])[l], i, l)
  BY <1>2, <1>3, NotesAtTheEnd
<1>5. \A k \in 1..Len(file) : NoteOK(file'[k], blocks)
  BY <1>3, <1>4 DEF SyncParts, FilesOK, WalletOK
<1>6. \A k \in 1..Len(file') : k > Len(file) => NoteOK(file'[k], blocks)
  <2> TAKE k \in 1..Len(file')
  <2> HAVE k > Len(file)
  <2>1. PICK i \in 1..Len(blocks) : \E l \in DOMAIN Leaves(blocks[i]) :
           file'[k] = NewNote(Leaves(blocks[i])[l], i, l)
    BY <1>4
  <2>2. PICK l \in DOMAIN Leaves(blocks[i]) : file'[k] = NewNote(Leaves(blocks[i])[l], i, l)
    BY <2>1
  <2>3. NoteOK(NewNote(Leaves(blocks[i])[l], i, l), blocks)
    BY <1>2, NewNoteOK
  <2> QED BY <2>2, <2>3
<1>7. DOMAIN file' = 1..Len(file') /\ Len(file) \in Nat
  BY <1>3, <1>4 DEF IsWallet
<1>8. WalletOK(file', blocks)
  <2> SUFFICES ASSUME NEW k \in 1..Len(file') PROVE NoteOK(file'[k], blocks)
    BY <1>7 DEF WalletOK
  <2>1. k \in 1..Len(file) \/ k > Len(file)
    BY <1>7
  <2> QED BY <1>5, <1>6, <2>1
<1>9. FilesOK'
  BY <1>1, <1>2, <1>8 DEF SyncParts, FilesOK
<1>10. InSync' /\ ToFinalize'
  BY <1>1, NoDaysLeft DEF InSync, ToFinalize, Syncing
<1> QED BY <1>2, <1>9, <1>10 DEF SyncParts

(* The second half of a withdrawal runs outside of a sync.                   *)
LEMMA PendingInSync ==
  ASSUME SyncParts, PendingStep
  PROVE  SyncParts'
<1>1. UNCHANGED server /\ UNCHANGED <<file, cacheFile, mem, cache, days>>
  BY DEF PendingStep
<1>2. pc \notin Loaded /\ pc' \notin Loaded
  BY DEF PendingStep, SyncOfNoNotes, StageOneAccepted, ExecuteProof, Update, RecordWithdrawal,
         BeginSearch, AskBlock, EndSearch, AlreadyWithdrawn, CallWithdraw, CallFails,
         SaveExecuted, EndProcess, MarkEntry, Loaded
<1>3. ServerOK' /\ blocks' = blocks
  BY <1>1, ServerUntouched
<1>4. FilesOK'
  BY <1>1, <1>3 DEF SyncParts, FilesOK
<1>5. InSync' /\ ToFinalize'
  BY <1>1, <1>2, NoDaysLeft DEF InSync, ToFinalize, Syncing, Loaded
<1> QED BY <1>3, <1>4, <1>5 DEF SyncParts

-----------------------------------------------------------------------------
(* What is excepted stays so.                                                *)
LEMMA ExceptedStays ==
  ASSUME HistoryOK, Next, ~Excepted'
  PROVE  ~Excepted /\ ~RolledBack /\ ~history'.rolled /\ ~history'.untidy
<1>1. ~history'.rolled /\ ~history'.untidy
  BY DEF Excepted
<1>2. ~RolledBack
  BY <1>1, RolledRemembered DEF RolledBack
<1>3. ~history.rolled
  BY <1>1, <1>2, RolledKept
<1>4. \/ history' = history
      \/ history' = [history EXCEPT !.moved = (pc # "idle")]
      \/ history' = [history EXCEPT !.moved = FALSE, !.untidy = @ \/ ~Tidy]
      \/ history' = [history EXCEPT !.cut = @ \/ HasUnsavedMarks]
      \/ history' = [history EXCEPT !.cut = @ \/ HasUnsavedMarks \/ spends' # spends]
  <2>1. CASE PostDeposits \/ PostWithdrawals \/ Confirm \/ DayPasses \/ DayRootSaved \/ PaidByOthers
    BY <2>1 DEF PostDeposits, PostWithdrawals, Confirm, DayPasses, DayRootSaved, PaidByOthers, Moved
  <2>2. CASE NotesAdded \/ WalletStep \/ Stopped
    BY <2>2 DEF NotesAdded, WalletStep, Stopped, StopProcess, StartSync, StartTransfer,
                StartWithdraw, StartConsolidate, Begin, GetStatus, FetchDayRoots,
                FetchCurrentDay, FetchBlockProof, BlockProofsStored, FinalizeOneDay, EndSync,
                SaveCache, BuildTransfer, BuildWithdrawal, BuildConsolidation, ProveAll,
                CannotSelect, RequestFails, SubmitAccepted, SubmitRefused, SaveWallet
  <2>3. CASE PendingStep
    BY <2>3 DEF PendingStep
  <2> QED BY <1>2, <2>1, <2>2, <2>3 DEF Next
<1>5. ~history.untidy
  BY <1>1, <1>4 DEF HistoryOK
<1> QED BY <1>1, <1>2, <1>3, <1>5 DEF Excepted

(* Every step keeps the invariant.                                           *)
LEMMA SyncedStep ==
  ASSUME SpendInv, BlocksOK, SyncedInv, Next, BlocksOK'
  PROVE  SyncedInv'
<1> SUFFICES ASSUME ~Excepted' PROVE SyncParts'
  BY DEF SyncedInv
<1>1. HistoryOK
  BY DEF SpendInv
<1>2. ~Excepted /\ ~RolledBack /\ ~history'.rolled /\ ~history'.untidy
  BY <1>1, ExceptedStays
<1>3. SyncParts
  BY <1>2 DEF SyncedInv
<1>4. CASE PostDeposits \/ PostWithdrawals \/ Confirm \/ DayPasses \/ DayRootSaved \/ PaidByOthers
  BY <1>1, <1>2, <1>3, <1>4, OthersInSight
<1>5. CASE NotesAdded
  BY <1>3, <1>5, NotesAddedInSync
<1>6. CASE WalletStep
  BY <1>2, <1>3, <1>6, WalletStepInSync
<1>7. CASE Stopped
  <2>1. Stop("idle") /\ UNCHANGED <<file, cacheFile>> /\ UNCHANGED server
    BY <1>7 DEF Stopped, StopProcess
  <2>2. WalletOK(file', blocks) /\ CacheOK(cacheFile', blocks)
    BY <1>3, <2>1 DEF SyncParts, FilesOK
  <2> QED BY <1>3, <2>1, <2>2, SyncEnds DEF Syncing
<1>8. CASE PendingStep
  BY <1>3, <1>8, PendingInSync
<1> QED BY <1>2, <1>4, <1>5, <1>6, <1>7, <1>8 DEF Next

(* It holds at the start.                                                    *)
LEMMA SyncedInit == Init => SyncedInv
<1> SUFFICES ASSUME Init PROVE SyncParts
  BY DEF SyncedInv
<1>1. /\ file = <<>> /\ mem = <<>> /\ pc = "idle" /\ cacheFile = NewCache /\ days = {}
      /\ today = 0 /\ blocks = <<>> /\ dayRows = <<>> /\ tracker = [roots |-> <<>>, last |-> {}]
  BY DEF Init, SyncInit
<1>2. DOMAIN <<>> = {} /\ <<>> = [d \in DOMAIN <<>> |-> <<>>[d]] /\ Len(<<>>) = 0
  OBVIOUS
<1>3. DaysOf(<<>>) = {} /\ HeadDay(<<>>) = 0
  BY DEF DaysOf, HeadDay
<1>4. DayRoots(<<>>) = <<>>
  BY <1>2, <1>3 DEF DayRoots
<1>5. InOrder(<<>>)
  BY DEF InOrder
<1>6. ServerOK
  BY <1>1, <1>2, <1>3, <1>4, <1>5 DEF ServerOK
<1>7. FilesOK
  BY <1>1, EmptyCache DEF FilesOK
<1>8. InSync /\ ToFinalize
  BY <1>1 DEF InSync, ToFinalize, Syncing
<1> QED BY <1>6, <1>7, <1>8 DEF SyncParts

(* A finished sync leaves each unspent note with a path to the anchor.       *)
LEMMA SyncedLeadsToAnchor == SyncedInv => SyncedProvesAnchor
<1> SUFFICES ASSUME SyncedInv, pc = "cache", ~history.moved, ~history.untidy, ~history.rolled,
                    NEW i \in Unspent(mem)
             PROVE  PathRoots(mem[i], cache) = {cache.anchor}
  BY DEF SyncedProvesAnchor
<1>1. ServerOK /\ FilesOK /\ InSync /\ ToFinalize
  BY DEF SyncedInv, Excepted, SyncParts
<1>2. InOrder(blocks) /\ tracker.roots = DayRoots(blocks)
  BY <1>1 DEF ServerOK
<1>3. CacheOK(cache, blocks) /\ StatusOK /\ AtCurrentDay /\ cache.anchor = status.anchor
  BY <1>1 DEF InSync, Syncing
<1>4. status.nr = Tip(blocks) /\ status.day = HeadDay(blocks) /\ status.anchor = DayRoots(blocks)
  BY <1>2, <1>3 DEF StatusOK
<1>5. PICK t : cache.current = {[day |-> status.day, roots |-> t, nr |-> status.nr]}
  BY <1>3 DEF AtCurrentDay, HasCurrent
<1> DEFINE r == [day |-> status.day, roots |-> t, nr |-> status.nr]
           n == mem[i]
<1>6. r \in cache.current /\ r.day = HeadDay(blocks) /\ r.nr = Tip(blocks)
  BY <1>4, <1>5
<1>7. /\ NoteOK(n, blocks) /\ n.proof # {}
      /\ IsComplete(n) \/ n.day >= HeadDay(blocks)
  <2>1. NoteOK(n, blocks)
    BY <1>1 DEF FilesOK, WalletOK, Unspent
  <2>2. n.proof # {} /\ (IsComplete(n) \/ n.day >= status.day \/ n.day \in days) /\ days = {}
    BY <1>1 DEF ToFinalize
  <2> QED BY <1>4, <2>1, <2>2
<1> HIDE DEF r, n
<1>8. PathRoots(n, cache) = {DayRoots(blocks)}
  BY <1>2, <1>3, <1>6, <1>7, NotePath
<1> QED BY <1>3, <1>4, <1>8 DEF n

(* After a sync, every unspent note's path leads to the anchor the command   *)
(* will prove against: for any notes, blocks and days, whatever the cache    *)
(* and the stored paths were left with by earlier commands, while nothing    *)
(* excepted has happened.                                                    *)
THEOREM SyncedPathsProve == Spec => []SyncedProvesAnchor
<1> DEFINE Inv == SpendInv /\ BlocksOK /\ SyncedInv
<1>1. Init => Inv
  BY InitKeepsWallet, SyncedInit
<1>2. Inv /\ [Next]_clientVars => Inv'
  <2> SUFFICES ASSUME Inv, [Next]_clientVars PROVE Inv'
    OBVIOUS
  <2>1. SpendInv' /\ BlocksOK'
    BY StepKeepsWallet
  <2>2. CASE UNCHANGED clientVars
    <3>1. /\ UNCHANGED <<blocks, dayRows, tracker, today>>
          /\ UNCHANGED <<file, cacheFile, mem, cache, pc, status, days, history>>
      BY <2>2 DEF clientVars, server, walletVars
    <3>2. Excepted' = Excepted
      BY <3>1 DEF Excepted
    <3> QED BY <2>1, <3>1, <3>2, OutOfSight DEF SyncedInv
  <2>3. CASE Next
    BY <2>1, <2>3, SyncedStep
  <2> QED BY <2>1, <2>2, <2>3
<1>3. Inv => SyncedProvesAnchor
  BY SyncedLeadsToAnchor
<1> QED BY <1>1, <1>2, <1>3, PTL DEF Spec
=============================================================================
