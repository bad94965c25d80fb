--------------------------- MODULE SequencerProofs ---------------------------
(* Proofs about Sequencer for every value of its constants.  SequencerInv  *)
(* is inductive and implies its four invariants; LineMoves is what a step  *)
(* can do to the line, from which follows FirstComeFirstServed.            *)
EXTENDS Sequencer, FiniteSetTheorems, SequenceTheorems, TLAPS

Stages == {"new", "looked", "verified", "tracked", "accepted", "refused", "dropped"}

Phases == {"idle", "taken", "loaded", "built", "sent", "included", "failed"}

Slots == Nat \X Nat

Notes == Nullifiers \cup UNION OtherSpends

ChainBlock ==
    [own : BOOLEAN, batch : Seq(Submitted), spent : SUBSET Notes, slot : Slots,
     again : SUBSET Notes, misplaced : BOOLEAN]

Transaction ==
    [nr : Nat, base : Seq(ChainBlock), batch : Seq(Submitted), deposits : Nat, slot : Slots,
     try : Nat]

Begun == {s \in Submitted : handler[s] # "new"}

MempoolTypeOK ==
    /\ queue \in Seq(Submitted)
    /\ handler \in [Submitted -> Stages]
    /\ IsFiniteSet(Begun)

BuilderTypeOK ==
    /\ builder \in [pc : Phases, batch : Seq(Submitted), deposits : Nat, slot : Slots, try : Nat]
    /\ builder.pc = "idle" => builder.batch = <<>>
    /\ faults \in Nat

L1TypeOK ==
    /\ chain \in Seq(ChainBlock)
    /\ Len(chain) <= posts /\ posts <= MaxPosts /\ posts \in Nat
    /\ deposits \in [0 .. MaxPosts -> Nat]
    /\ day \in Nat
    /\ wire \subseteq Transaction /\ IsFiniteSet(wire)

DbTypeOK ==
    /\ db \in Seq(ChainBlock) /\ Len(db) <= MaxPosts
    /\ recorded \subseteq DOMAIN db

TypeOK == MempoolTypeOK /\ BuilderTypeOK /\ L1TypeOK /\ DbTypeOK

-----------------------------------------------------------------------------
(* Lemmas about sequences.                                                 *)

(* A set of numbers has a least one.                                       *)
LEMMA Least ==
    ASSUME NEW T, T \subseteq Nat, T # {}
    PROVE  \E x \in T : \A y \in T : x <= y
<1>1. PICK x \in T : \A y \in T : ~ (<<y, x>> \in OpToRel(<, Nat))
  BY NatLessThanWellFounded, WFMin
<1>2. \A y \in T : ~(y < x)
  BY <1>1 DEF OpToRel
<1> QED BY <1>2

(* A bounded set of numbers has a greatest one.                            *)
LEMMA Greatest ==
    ASSUME NEW T, T \subseteq Nat, T # {}, NEW b \in Nat, \A x \in T : x <= b
    PROVE  \E x \in T : \A y \in T : y <= x
<1> DEFINE U == {b - x : x \in T}
<1>1. U \subseteq Nat /\ U # {}
  <2>1. \A x \in T : b - x \in Nat
    OBVIOUS
  <2> QED BY <2>1
<1> HIDE DEF U
<1>2. PICK u \in U : \A v \in U : u <= v
  BY <1>1, Least
<1>3. PICK x \in T : u = b - x
  BY DEF U
<1>4. \A y \in T : b - x <= b - y
  BY <1>2, <1>3 DEF U
<1> QED BY <1>4

(* The first entries of a sequence.                                        *)
LEMMA FirstEntries ==
    ASSUME NEW S, NEW s \in Seq(S), NEW m \in 0 .. Len(s)
    PROVE  /\ SubSeq(s, 1, m) \in Seq(S)
           /\ Len(SubSeq(s, 1, m)) = m
           /\ \A i \in 1 .. m : SubSeq(s, 1, m)[i] = s[i]
  OBVIOUS

(* Prefixes, place by place.                                               *)
LEMMA PrefixFacts ==
    ASSUME NEW S, NEW s \in Seq(S), NEW t \in Seq(S)
    PROVE  IsPrefix(s, t) <=> Len(s) <= Len(t) /\ \A i \in 1 .. Len(s) : s[i] = t[i]
<1>1. SubSeq(s, 1, Len(s)) = s
  BY SubSeqFull
<1>2. ASSUME Len(s) <= Len(t)
      PROVE  s = SubSeq(t, 1, Len(s)) <=> \A i \in 1 .. Len(s) : s[i] = t[i]
  <2> DEFINE p == SubSeq(t, 1, Len(s))
  <2>1. p \in Seq(S) /\ Len(p) = Len(s) /\ \A i \in 1 .. Len(s) : p[i] = t[i]
    BY <1>2, FirstEntries
  <2> HIDE DEF p
  <2>2. ASSUME \A i \in 1 .. Len(s) : s[i] = p[i] PROVE s = p
    BY <2>1, <2>2, SeqEqual
  <2> QED BY <2>1, <2>2 DEF p
<1> QED BY <1>1, <1>2 DEF IsPrefix

(* To append to the second of two sequences is to append to both.          *)
LEMMA ConcatAppend ==
    ASSUME NEW S, NEW u \in Seq(S), NEW v \in Seq(S), NEW e \in S
    PROVE  u \o Append(v, e) = Append(u \o v, e)
<1>1. u \o v \in Seq(S) /\ <<e>> \in Seq(S)
  BY ConcatProperties
<1>2. Append(v, e) = v \o <<e>> /\ Append(u \o v, e) = (u \o v) \o <<e>>
  BY <1>1, AppendIsConcat
<1>3. (u \o v) \o <<e>> = u \o (v \o <<e>>)
  BY <1>1, ConcatAssociative
<1> QED BY <1>2, <1>3

(* Two sequences in a row, place by place.                                 *)
LEMMA ConcatFacts ==
    ASSUME NEW S, NEW u \in Seq(S), NEW v \in Seq(S)
    PROVE  /\ u \o v \in Seq(S) /\ Len(u \o v) = Len(u) + Len(v)
           /\ \A i \in 1 .. Len(u) : (u \o v)[i] = u[i]
           /\ \A i \in 1 .. Len(v) : (u \o v)[Len(u) + i] = v[i]
           /\ ToSet(u \o v) = ToSet(u) \cup ToSet(v)
<1> DEFINE m == Len(u)
           n == Len(v)
           w == u \o v
<1>1. m \in Nat /\ n \in Nat
  OBVIOUS
<1>2. /\ w \in Seq(S) /\ Len(w) = m + n
      /\ \A i \in 1 .. m + n : w[i] = IF i <= m THEN u[i] ELSE v[i - m]
  BY ConcatProperties
<1>3. /\ ToSet(w) = {w[i] : i \in 1 .. m + n}
      /\ ToSet(u) = {u[i] : i \in 1 .. m}
      /\ ToSet(v) = {v[i] : i \in 1 .. n}
  BY <1>2 DEF ToSet
<1> HIDE DEF m, n, w
<1>4. \A i \in 1 .. m : w[i] = u[i] /\ i \in 1 .. m + n
  BY <1>1, <1>2
<1>5. ASSUME NEW i \in 1 .. n PROVE w[m + i] = v[i] /\ m + i \in 1 .. m + n
  <2>1. m + i \in 1 .. m + n /\ ~(m + i <= m) /\ (m + i) - m = i
    BY <1>1
  <2> QED BY <1>2, <2>1
<1>6. ASSUME NEW i \in 1 .. m + n PROVE w[i] \in ToSet(u) \cup ToSet(v)
  <2>1. i \in 1 .. m \/ (~(i <= m) /\ i - m \in 1 .. n)
    BY <1>1
  <2> QED BY <1>2, <1>3, <2>1
<1>7. ToSet(w) \subseteq ToSet(u) \cup ToSet(v)
  BY <1>3, <1>6
<1>8. ToSet(u) \subseteq ToSet(w) /\ ToSet(v) \subseteq ToSet(w)
  BY <1>3, <1>4, <1>5
<1> QED BY <1>2, <1>4, <1>5, <1>7, <1>8 DEF m, n, w

(* How far one sequence follows another.                                   *)
LEMMA PrefixOf ==
    ASSUME NEW S, NEW s \in Seq(S), NEW t \in Seq(S), NEW m \in 0 .. Len(s)
    PROVE  IsPrefix(SubSeq(s, 1, m), t) <=> m <= Len(t) /\ \A i \in 1 .. m : s[i] = t[i]
<1> DEFINE p == SubSeq(s, 1, m)
<1>1. p \in Seq(S) /\ Len(p) = m /\ \A i \in 1 .. m : p[i] = s[i]
  BY FirstEntries
<1> HIDE DEF p
<1>2. IsPrefix(p, t) <=> Len(p) <= Len(t) /\ \A i \in 1 .. Len(p) : p[i] = t[i]
  BY <1>1, PrefixFacts
<1> QED BY <1>1, <1>2 DEF p

(* The longest common prefix of two sequences is a prefix of both, and     *)
(* what both have in common is in it.                                      *)
LEMMA LongestCommonPrefixFacts ==
    ASSUME NEW S, NEW s \in Seq(S), NEW t \in Seq(S)
    PROVE  LET l == LongestCommonPrefix({s, t})
           IN  /\ l \in Seq(S)
               /\ IsPrefix(l, s) /\ IsPrefix(l, t)
               /\ \A m \in 0 .. Len(t) : IsPrefix(SubSeq(t, 1, m), s) => m <= Len(l)
<1> DEFINE C == CommonPrefixes({s, t})
           T == {m \in 0 .. Len(s) : IsPrefix(SubSeq(s, 1, m), t)}
<1>1. \A m \in T : SubSeq(s, 1, m) \in C
  <2> SUFFICES ASSUME NEW m \in T PROVE SubSeq(s, 1, m) \in C
    OBVIOUS
  <2>1. IsPrefix(SubSeq(s, 1, m), s)
    BY PrefixOf
  <2> QED BY <2>1 DEF CommonPrefixes, Prefixes
<1>2. ASSUME NEW p \in C
      PROVE  /\ p \in Seq(S) /\ Len(p) \in T
             /\ IsPrefix(p, s) /\ IsPrefix(p, t)
             /\ p = SubSeq(s, 1, Len(p))
  <2>1. IsPrefix(p, s) /\ IsPrefix(p, t)
    BY DEF CommonPrefixes
  <2>2. p \in Prefixes(s) \cup Prefixes(t)
    BY DEF CommonPrefixes
  <2>3. p \in Seq(S)
    <3>1. PICK q \in {s, t} : \E k \in 0 .. Len(q) : p = SubSeq(q, 1, k)
      BY <2>2 DEF Prefixes
    <3> QED BY <3>1, FirstEntries
  <2>4. Len(p) \in 0 .. Len(s) /\ \A i \in 1 .. Len(p) : p[i] = s[i]
    BY <2>1, <2>3, PrefixFacts
  <2>5. p = SubSeq(s, 1, Len(p))
    <3>1. /\ SubSeq(s, 1, Len(p)) \in Seq(S) /\ Len(SubSeq(s, 1, Len(p))) = Len(p)
          /\ \A i \in 1 .. Len(p) : SubSeq(s, 1, Len(p))[i] = s[i]
      BY <2>4, FirstEntries
    <3> QED BY <3>1, <2>3, <2>4, SeqEqual
  <2> QED BY <2>1, <2>3, <2>4, <2>5
<1>3. 0 \in T
  BY PrefixOf
<1>4. PICK m \in T : \A k \in T : k <= m
  <2>1. T \subseteq Nat /\ T # {} /\ Len(s) \in Nat /\ \A k \in T : k <= Len(s)
    BY <1>3
  <2> HIDE DEF T
  <2> QED BY <2>1, Greatest
<1>5. \A other \in C : Len(other) <= Len(SubSeq(s, 1, m))
  BY <1>2, <1>4, FirstEntries
<1>6. \E longest \in C : \A other \in C : Len(other) <= Len(longest)
  BY <1>1, <1>4, <1>5
<1> DEFINE l == LongestCommonPrefix({s, t})
<1>7. l \in C /\ \A other \in C : Len(other) <= Len(l)
  BY <1>6 DEF LongestCommonPrefix
<1>8. ASSUME NEW k \in 0 .. Len(t), IsPrefix(SubSeq(t, 1, k), s)
      PROVE  k <= Len(l)
  <2>1. k <= Len(s) /\ \A i \in 1 .. k : t[i] = s[i]
    BY <1>8, PrefixOf
  <2>2. k \in T
    BY <2>1, PrefixOf
  <2>3. SubSeq(s, 1, k) \in C /\ Len(SubSeq(s, 1, k)) = k
    BY <2>2, <1>1, FirstEntries
  <2> QED BY <2>3, <1>7
<1> HIDE DEF l, C
<1>9. l \in Seq(S) /\ IsPrefix(l, s) /\ IsPrefix(l, t)
  BY <1>7, <1>2
<1> QED BY <1>8, <1>9 DEF l

-----------------------------------------------------------------------------
(* The types.                                                              *)

(* What a submission spends is a nullifier.                                *)
LEMMA SpendsFacts ==
    ASSUME NEW batch \in Seq(Submitted)
    PROVE  /\ SpentBy(batch) \subseteq Nullifiers
           /\ \A n : n \in SpentBy(batch) <=> \E i \in 1 .. Len(batch) : n \in Spends(batch[i])
  BY DEF SpentBy, ToSet, Nullifiers

(* The slot after a chain.                                                 *)
LEMMA SlotBehindType ==
    ASSUME NEW c \in Seq(ChainBlock), NEW d \in Nat
    PROVE  SlotBehind(c, d) \in Slots
<1>1. CASE c = <<>>
  BY <1>1 DEF SlotBehind, Slots
<1>2. CASE c # <<>>
  <2>1. Last(c) \in ChainBlock
    BY <1>2 DEF Last
  <2>2. Last(c).slot[2] \in Nat
    BY <2>1 DEF ChainBlock, Slots
  <2> QED BY <2>2 DEF SlotBehind, Slots
<1> QED BY <1>1, <1>2

(* The batch StartBuild takes, with what it leaves, is the queue.          *)
LEMMA TakeFacts ==
    ASSUME queue \in Seq(Submitted)
    PROVE  LET batch == TakeUpTo(ToTake)
               rest  == SubSeq(queue, Len(batch) + 1, Len(queue))
           IN  /\ batch \in Seq(Submitted) /\ rest \in Seq(Submitted)
               /\ batch \o rest = queue
<1>1. ToTake \in Nat
  <2>1. TRANSACTIONS_PER_BLOB \in Nat
    BY BlobSizeAssumption DEF TRANSACTIONS_PER_BLOB
  <2>2. MaxBlobs \in Nat /\ MaxTransactions \in Nat
    BY SequencerAssumption
  <2>3. ASSUME NEW a \in Nat, NEW b \in Nat PROVE a * b \in Nat
    OBVIOUS
  <2>4. MaxBlobs * TRANSACTIONS_PER_BLOB \in Nat
    BY <2>1, <2>2, <2>3
  <2> QED BY <2>2, <2>4 DEF ToTake
<1>2. PICK c \in 0 .. Len(queue) : TakeUpTo(ToTake) = SubSeq(queue, 1, c)
  BY <1>1 DEF TakeUpTo
<1> DEFINE batch == SubSeq(queue, 1, c)
           rest  == SubSeq(queue, c + 1, Len(queue))
<1>3. batch \in Seq(Submitted) /\ Len(batch) = c
  BY FirstEntries
<1>4. rest \in Seq(Submitted)
  OBVIOUS
<1>5. batch \o rest = queue
  <2>1. batch \o rest = SubSeq(queue, 1, Len(queue))
    <3>1. /\ 1 \in 1 .. Len(queue) + 1 /\ c \in 1 - 1 .. Len(queue)
          /\ Len(queue) \in c .. Len(queue)
      OBVIOUS
    <3> QED BY <3>1, ConcatAdjacentSubSeq
  <2> QED BY <2>1, SubSeqFull
<1> HIDE DEF batch, rest
<1> QED BY <1>2, <1>3, <1>4, <1>5 DEF batch, rest

(* A handler that moves on leaves finitely many that have begun.           *)
LEMMA MoveFacts ==
    ASSUME MempoolTypeOK, NEW s \in Submitted, NEW from, NEW to \in Stages, Moves(s, from, to)
    PROVE  /\ handler' \in [Submitted -> Stages]
           /\ IsFiniteSet(Begun')
           /\ handler[s] = from /\ handler'[s] = to
           /\ \A x \in Submitted \ {s} : handler'[x] = handler[x]
<1>1. /\ handler' \in [Submitted -> Stages]
      /\ handler[s] = from /\ handler'[s] = to
      /\ \A x \in Submitted \ {s} : handler'[x] = handler[x]
  BY DEF MempoolTypeOK, Moves
<1>2. IsFiniteSet(Begun \cup {s})
  BY FS_AddElement DEF MempoolTypeOK
<1>3. Begun' \subseteq Begun \cup {s}
  BY <1>1 DEF Begun
<1>4. IsFiniteSet(Begun')
  BY <1>2, <1>3, FS_Subset
<1> QED BY <1>1, <1>4

(* The mempool keeps its type.                                             *)
LEMMA MempoolTypeStep ==
    ASSUME TypeOK, Next
    PROVE  MempoolTypeOK'
<1>0. MempoolTypeOK /\ builder.batch \in Seq(Submitted)
  BY DEF TypeOK, BuilderTypeOK
<1>1. ASSUME NEW s \in Submitted, Handle(s, OnRecord, Latest)
      PROVE  MempoolTypeOK'
  <2>1. queue' = queue \/ queue' = Append(queue, s)
    BY <1>1 DEF Handle, LookUp, Verify, Track, Enqueue
  <2>2. \E from, to \in Stages : Moves(s, from, to)
    BY <1>1 DEF Handle, LookUp, Verify, Track, Enqueue, Stages
  <2>3. queue' \in Seq(Submitted)
    BY <1>0, <2>1 DEF MempoolTypeOK
  <2> QED BY <1>0, <2>2, <2>3, MoveFacts DEF MempoolTypeOK
<1>2. ASSUME NEW s \in Submitted, Leaves(s)
      PROVE  MempoolTypeOK'
  <2>1. Moves(s, handler[s], "dropped") /\ queue' = queue
    BY <1>2 DEF Leaves, Disconnect
  <2> QED BY <1>0, <2>1, MoveFacts DEF MempoolTypeOK, Stages
<1>3. ASSUME queue' \in Seq(Submitted), UNCHANGED handler
      PROVE  MempoolTypeOK'
  BY <1>0, <1>3 DEF MempoolTypeOK, Begun
<1>4. CASE StartBuild
  BY <1>0, <1>3, <1>4, TakeFacts DEF StartBuild, Take, MempoolTypeOK
<1>5. CASE GiveUp \/ Fault
  <2>1. queue' = builder.batch \o queue /\ handler' = handler
    BY <1>5 DEF GiveUp, Fault, ReturnToFront
  <2> QED BY <1>0, <1>3, <2>1, ConcatProperties DEF MempoolTypeOK
<1>6. CASE Restart
  <2>1. queue' = <<>> /\ handler' \in [Submitted -> Stages] /\ Begun' = Begun
    BY <1>6 DEF Restart, LoseMempool, Stages, Begun
  <2> QED BY <1>0, <2>1 DEF MempoolTypeOK
<1>7. CASE UNCHANGED <<queue, handler>>
  BY <1>0, <1>7 DEF MempoolTypeOK, Begun
<1> QED
  BY <1>1, <1>2, <1>4, <1>5, <1>6, <1>7
     DEF Next, MempoolStep, BuilderStep, L1Step, RegisterAnchor, Poke, FetchDeposits, Predict,
         Send, Receive, Mine, OtherPost, Challenge, DepositMade, DayPasses, EpochTurns, Store,
         mempoolVars

(* The builder keeps its type.                                             *)
LEMMA BuilderTypeStep ==
    ASSUME TypeOK, Next
    PROVE  BuilderTypeOK'
<1>0. /\ BuilderTypeOK
      /\ queue \in Seq(Submitted)
      /\ chain \in Seq(ChainBlock) /\ day \in Nat
      /\ deposits \in [0 .. MaxPosts -> Nat] /\ Len(db) \in 0 .. MaxPosts
  BY DEF TypeOK, MempoolTypeOK, L1TypeOK, DbTypeOK
<1> DEFINE Builders ==
        [pc : Phases, batch : Seq(Submitted), deposits : Nat, slot : Slots, try : Nat]
<1>1. Idle \in Builders /\ Idle.batch = <<>>
  BY DEF Idle, Phases, Slots
<1>2. ASSUME NEW pc \in Phases \ {"idle"}, builder' = [builder EXCEPT !.pc = pc], UNCHANGED faults
      PROVE  BuilderTypeOK'
  BY <1>0, <1>2 DEF BuilderTypeOK
<1>3. CASE StartBuild
  <2>1. faults \in Nat /\ faults' = faults
    BY <1>0, <1>3 DEF StartBuild, BuilderTypeOK
  <2>2. CASE UNCHANGED builder
    BY <1>0, <2>1, <2>2 DEF BuilderTypeOK
  <2>3. CASE builder' = [Idle EXCEPT !.pc = "taken", !.batch = TakeUpTo(ToTake), !.try = faults]
    <3>1. TakeUpTo(ToTake) \in Seq(Submitted)
      BY <1>0, TakeFacts
    <3> QED BY <1>1, <2>1, <2>3, <3>1 DEF Idle, Phases, Slots, BuilderTypeOK
  <2> QED BY <1>3, <2>2, <2>3 DEF StartBuild
<1>4. CASE FetchDeposits
  <2>1. deposits[Len(db)] \in Nat
    BY <1>0
  <2> QED BY <1>0, <1>4, <2>1 DEF FetchDeposits, BuilderTypeOK, Phases
<1>5. CASE Predict
  <2>1. PICK d \in {day, day + 1} :
            builder' = [builder EXCEPT !.pc = "built", !.slot = SlotBehind(chain, d)]
    BY <1>5 DEF Predict
  <2>2. SlotBehind(chain, d) \in Slots
    BY <1>0, <2>1, SlotBehindType
  <2> QED BY <1>0, <1>5, <2>1, <2>2 DEF Predict, BuilderTypeOK, Phases
<1>6. CASE Send
  BY <1>2, <1>6 DEF Send, Phases
<1>7. ASSUME NEW t \in wire, Mine(t)
      PROVE  BuilderTypeOK'
  BY <1>0, <1>2, <1>7 DEF Mine, Phases, BuilderTypeOK
<1>8. CASE Receive \/ GiveUp \/ Fault \/ Restart
  <2>1. builder' = Idle /\ faults' \in Nat
    BY <1>0, <1>8 DEF Receive, GiveUp, Fault, Restart, BuilderTypeOK
  <2> QED BY <1>1, <2>1 DEF BuilderTypeOK
<1>9. CASE UNCHANGED builder /\ faults' \in {faults, faults + 1}
  BY <1>0, <1>9 DEF BuilderTypeOK
<1> QED
  BY <1>3, <1>4, <1>5, <1>6, <1>7, <1>8, <1>9
     DEF Next, MempoolStep, BuilderStep, L1Step, Leaves, OtherPost, Challenge, DepositMade,
         DayPasses, EpochTurns, Store

(* A block of this sequencer, and the transaction that brings it.          *)
LEMMA LandedType ==
    ASSUME TypeOK
    PROVE  /\ BlobTransaction \in Transaction
           /\ \A t \in Transaction : Landed(t) \in ChainBlock
<1>0. /\ builder \in [pc : Phases, batch : Seq(Submitted), deposits : Nat, slot : Slots, try : Nat]
      /\ chain \in Seq(ChainBlock) /\ db \in Seq(ChainBlock) /\ day \in Nat
  BY DEF TypeOK, BuilderTypeOK, L1TypeOK, DbTypeOK
<1>1. BlobTransaction \in Transaction
  BY <1>0 DEF BlobTransaction, Transaction
<1>2. ASSUME NEW t \in Transaction
      PROVE  Landed(t) \in ChainBlock
  <2>1. t.batch \in Seq(Submitted)
    BY DEF Transaction
  <2>2. SpentBy(t.batch) \subseteq Notes /\ SpentAgain(chain, t.batch) \subseteq Notes
    BY <2>1, SpendsFacts DEF Notes, SpentAgain
  <2>3. SlotBehind(chain, day) \in Slots
    BY <1>0, SlotBehindType
  <2> QED BY <2>1, <2>2, <2>3 DEF Landed, ChainBlock
<1> QED BY <1>1, <1>2

(* The L1 keeps its type.                                                  *)
LEMMA L1TypeStep ==
    ASSUME TypeOK, Next
    PROVE  L1TypeOK'
<1>0. L1TypeOK /\ MaxPosts \in Nat
  BY SequencerAssumption DEF TypeOK
<1>1. ASSUME NEW b \in ChainBlock, chain' = Append(chain, b), posts < MaxPosts, posts' = posts + 1,
             UNCHANGED <<deposits, day>>, wire' \subseteq wire
      PROVE  L1TypeOK'
  <2>1. chain' \in Seq(ChainBlock) /\ Len(chain') = Len(chain) + 1
    BY <1>0, <1>1 DEF L1TypeOK
  <2>2. IsFiniteSet(wire')
    BY <1>0, <1>1, FS_Subset DEF L1TypeOK
  <2> QED BY <1>0, <1>1, <2>1, <2>2 DEF L1TypeOK
<1>2. ASSUME NEW t \in wire, Mine(t)
      PROVE  L1TypeOK'
  <2>1. t \in Transaction /\ wire' \subseteq wire /\ IsFiniteSet(wire')
    BY <1>0, <1>2, FS_Subset DEF Mine, L1TypeOK
  <2>2. CASE Accepts(t)
    BY <1>1, <1>2, <2>1, <2>2, LandedType DEF Mine
  <2>3. CASE ~Accepts(t)
    BY <1>0, <1>2, <2>1, <2>3 DEF Mine, L1TypeOK
  <2> QED BY <2>2, <2>3
<1>3. ASSUME NEW spent \in OtherSpends, OtherPost(spent)
      PROVE  L1TypeOK'
  <2> DEFINE b == [own |-> FALSE, batch |-> <<>>, spent |-> spent, slot |-> SlotBehind(chain, day),
                   again |-> {}, misplaced |-> FALSE]
  <2>1. SlotBehind(chain, day) \in Slots
    BY <1>0, SlotBehindType DEF L1TypeOK
  <2>2. b \in ChainBlock
    BY <2>1 DEF ChainBlock, Notes
  <2> HIDE DEF b
  <2>3. /\ chain' = Append(chain, b) /\ posts < MaxPosts /\ posts' = posts + 1
        /\ UNCHANGED <<deposits, day, wire>>
    BY <1>3 DEF OtherPost, b
  <2> QED BY <1>1, <2>2, <2>3
<1>4. ASSUME NEW n \in DOMAIN chain, Challenge(n)
      PROVE  L1TypeOK'
  <2>1. chain' = SubSeq(chain, 1, n - 1) /\ n - 1 \in 0 .. Len(chain)
    BY <1>0, <1>4 DEF Challenge, L1TypeOK
  <2>2. chain' \in Seq(ChainBlock) /\ Len(chain') = n - 1
    BY <1>0, <2>1, FirstEntries DEF L1TypeOK
  <2> QED BY <1>0, <1>4, <2>1, <2>2 DEF Challenge, L1TypeOK
<1>5. CASE DepositMade
  BY <1>0, <1>5 DEF DepositMade, L1TypeOK
<1>6. CASE DayPasses
  BY <1>0, <1>6 DEF DayPasses, L1TypeOK
<1>7. CASE Send
  <2>1. wire' \subseteq Transaction /\ IsFiniteSet(wire')
    BY <1>0, <1>7, LandedType, FS_AddElement DEF Send, L1TypeOK
  <2> QED BY <1>0, <1>7, <2>1 DEF Send, L1TypeOK
<1>8. CASE UNCHANGED <<chain, deposits, day, wire, posts>>
  BY <1>0, <1>8 DEF L1TypeOK
<1> QED
  BY <1>2, <1>3, <1>4, <1>5, <1>6, <1>7, <1>8
     DEF Next, MempoolStep, BuilderStep, L1Step, Leaves, StartBuild, FetchDeposits, Predict,
         Receive, GiveUp, Fault, Restart, EpochTurns, Store, l1Vars

(* What Store does to the database: the next block, or back to what it has *)
(* in common with the chain.                                               *)
LEMMA StoreFacts ==
    ASSUME TypeOK, Store
    PROVE  /\ db' \in Seq(ChainBlock) /\ IsPrefix(db', chain)
           /\ \/ /\ IsPrefix(db, chain) /\ Len(db) < Len(chain)
                 /\ db' = Append(db, chain[Len(db) + 1])
                 /\ recorded' \in {recorded, recorded \cup {Len(db')}}
              \/ /\ IsPrefix(db', db)
                 /\ \A m \in 0 .. Len(chain) : IsPrefix(SubSeq(chain, 1, m), db) => m <= Len(db')
                 /\ recorded' = recorded \cap DOMAIN db'
<1>0. chain \in Seq(ChainBlock) /\ db \in Seq(ChainBlock)
  BY DEF TypeOK, L1TypeOK, DbTypeOK
<1>1. ASSUME IsStrictPrefix(db, chain), db' = Append(db, chain[Len(db) + 1])
      PROVE  /\ IsPrefix(db, chain) /\ Len(db) < Len(chain)
             /\ db' \in Seq(ChainBlock) /\ IsPrefix(db', chain)
  <2>1. /\ IsPrefix(db, chain) /\ db # chain
        /\ Len(db) <= Len(chain) /\ \A i \in 1 .. Len(db) : db[i] = chain[i]
    BY <1>0, <1>1, PrefixFacts DEF IsStrictPrefix
  <2>2. Len(db) # Len(chain)
    BY <1>0, <2>1, SeqEqual
  <2>3. chain[Len(db) + 1] \in ChainBlock
    BY <1>0, <2>1, <2>2
  <2>4. /\ db' \in Seq(ChainBlock) /\ Len(db') = Len(db) + 1
        /\ \A i \in 1 .. Len(db') : db'[i] = chain[i]
    BY <1>0, <1>1, <2>1, <2>3, AppendProperties
  <2> QED BY <1>0, <2>1, <2>2, <2>4, PrefixFacts
<1> QED BY <1>0, <1>1, LongestCommonPrefixFacts DEF Store

(* The database of the event loop keeps its type.                          *)
LEMMA DbTypeStep ==
    ASSUME TypeOK, Next
    PROVE  DbTypeOK'
<1>0. DbTypeOK /\ chain \in Seq(ChainBlock) /\ Len(chain) <= MaxPosts /\ MaxPosts \in Nat
  BY SequencerAssumption DEF TypeOK, L1TypeOK
<1>1. CASE Store
  <2>1. db' \in Seq(ChainBlock) /\ Len(db') <= Len(chain)
    BY <1>0, <1>1, StoreFacts, PrefixFacts
  <2>2. Len(db') <= MaxPosts /\ DOMAIN db' = 1 .. Len(db') /\ DOMAIN db = 1 .. Len(db)
    BY <1>0, <2>1 DEF DbTypeOK
  <2>3. \/ Len(db') = Len(db) + 1 /\ recorded' \in {recorded, recorded \cup {Len(db')}}
        \/ recorded' = recorded \cap DOMAIN db'
    <3>1. ASSUME db' = Append(db, chain[Len(db) + 1])
          PROVE  Len(db') = Len(db) + 1
      BY <1>0, <3>1 DEF DbTypeOK
    <3> QED BY <1>1, <3>1, StoreFacts
  <2>4. recorded' \subseteq DOMAIN db'
    <3>1. recorded \subseteq 1 .. Len(db)
      BY <1>0, <2>2 DEF DbTypeOK
    <3>2. CASE recorded' = recorded \cap DOMAIN db'
      BY <3>2
    <3>3. CASE Len(db') = Len(db) + 1 /\ recorded' \in {recorded, recorded \cup {Len(db')}}
      <4>1. recorded' \subseteq recorded \cup {Len(db')}
        BY <3>3
      <4>2. 1 .. Len(db) \cup {Len(db')} \subseteq 1 .. Len(db')
        BY <1>0, <2>1, <3>3 DEF DbTypeOK
      <4> QED BY <2>2, <3>1, <4>1, <4>2
    <3> QED BY <2>3, <3>2, <3>3
  <2> QED BY <2>1, <2>2, <2>4 DEF DbTypeOK
<1>2. CASE UNCHANGED dbVars
  BY <1>0, <1>2 DEF DbTypeOK, dbVars
<1> QED
  BY <1>1, <1>2
     DEF Next, MempoolStep, BuilderStep, L1Step, Leaves, StartBuild, FetchDeposits, Predict,
         Send, Receive, GiveUp, Fault, Restart, Mine, OtherPost, Challenge, DepositMade,
         DayPasses, EpochTurns

(* The initial states have their types.                                    *)
LEMMA TypeInitial == Init => TypeOK
<1> SUFFICES ASSUME Init PROVE TypeOK
  OBVIOUS
<1>1. MempoolTypeOK
  <2>1. Begun = {}
    BY DEF Init, MempoolInit, Begun
  <2> QED BY <2>1, FS_EmptySet DEF Init, MempoolInit, MempoolTypeOK, Stages
<1>2. BuilderTypeOK
  BY DEF Init, Idle, BuilderTypeOK, Phases, Slots
<1>3. L1TypeOK /\ DbTypeOK
  BY FS_EmptySet, SequencerAssumption DEF Init, L1TypeOK, DbTypeOK
<1> QED BY <1>1, <1>2, <1>3 DEF TypeOK

(* Every step keeps the types.                                             *)
LEMMA TypeStep == TypeOK /\ [Next]_vars => TypeOK'
<1>1. ASSUME TypeOK, Next PROVE TypeOK'
  BY <1>1, MempoolTypeStep, BuilderTypeStep, L1TypeStep, DbTypeStep DEF TypeOK
<1>2. ASSUME TypeOK, UNCHANGED vars PROVE TypeOK'
  BY <1>2 DEF TypeOK, MempoolTypeOK, Begun, BuilderTypeOK, L1TypeOK, DbTypeOK, vars, programVars,
      mempoolVars, l1Vars, dbVars
<1> QED BY <1>1, <1>2

-----------------------------------------------------------------------------
(* The line.                                                               *)

(* What is in line was accepted and is there once.  The batch of a block   *)
(* whose receipt came was mined.                                           *)
LineOK ==
    /\ \A i \in 1 .. Len(Line) : handler[Line[i]] = "accepted"
    /\ \A i, j \in 1 .. Len(Line) : Line[i] = Line[j] => i = j
    /\ builder.pc = "included" => ToSet(builder.batch) \subseteq mined

(* The line, place by place.                                               *)
LEMMA LineFacts ==
    ASSUME TypeOK
    PROVE  /\ Line \in Seq(Submitted) /\ Len(Line) = Len(builder.batch) + Len(queue)
           /\ \A i \in 1 .. Len(builder.batch) : Line[i] = builder.batch[i]
           /\ \A i \in 1 .. Len(queue) : Line[Len(builder.batch) + i] = queue[i]
           /\ ToSet(Line) = ToSet(builder.batch) \cup ToSet(queue)
<1> DEFINE b == builder.batch
<1>1. b \in Seq(Submitted) /\ queue \in Seq(Submitted) /\ Line = b \o queue
  BY DEF TypeOK, BuilderTypeOK, MempoolTypeOK, Line
<1> HIDE DEF b
<1>2. /\ Line \in Seq(Submitted) /\ Len(Line) = Len(b) + Len(queue)
      /\ \A i \in 1 .. Len(b) : Line[i] = b[i]
      /\ \A i \in 1 .. Len(queue) : Line[Len(b) + i] = queue[i]
      /\ ToSet(Line) = ToSet(b) \cup ToSet(queue)
  BY <1>1, ConcatFacts
<1> QED BY <1>2 DEF b

(* A submission that enters the queue enters the line.                     *)
LEMMA LineAppend ==
    ASSUME queue \in Seq(Submitted), builder.batch \in Seq(Submitted),
           NEW s \in Submitted, queue' = Append(queue, s), UNCHANGED builder
    PROVE  Line' = Append(Line, s)
<1> DEFINE b == builder.batch
<1>1. Line = b \o queue /\ Line' = b \o Append(queue, s)
  BY DEF Line
<1> HIDE DEF b
<1>2. ASSUME b \in Seq(Submitted) PROVE b \o Append(queue, s) = Append(b \o queue, s)
  BY <1>2, ConcatAppend
<1> QED BY <1>1, <1>2 DEF b

(* What a step does to the line: nothing, a submission goes to its end,    *)
(* the block under way leaves it as its receipt comes, or a restart.       *)
LEMMA LineMoves ==
    ASSUME TypeOK, Next
    PROVE  \/ Line' = Line
           \/ \E s \in Submitted :
                  handler[s] = "tracked" /\ handler'[s] = "accepted" /\ Line' = Append(Line, s)
           \/ builder.pc = "included" /\ builder' = Idle /\ Line' = queue
           \/ Line' = <<>> /\ \A s \in Submitted : handler'[s] # "accepted"
<1>0. /\ builder.batch \in Seq(Submitted) /\ queue \in Seq(Submitted)
      /\ builder.pc = "idle" => builder.batch = <<>>
      /\ Line \in Seq(Submitted) /\ MempoolTypeOK
  BY LineFacts DEF TypeOK, BuilderTypeOK, MempoolTypeOK
<1>1. ASSUME NEW s \in Submitted, Handle(s, OnRecord, Latest), UNCHANGED builder
      PROVE  \/ Line' = Line
             \/ handler[s] = "tracked" /\ handler'[s] = "accepted" /\ Line' = Append(Line, s)
  <2>1. \/ queue' = queue
        \/ handler[s] = "tracked" /\ handler'[s] = "accepted" /\ queue' = Append(queue, s)
    BY <1>0, <1>1 DEF Handle, LookUp, Verify, Track, Enqueue, Moves, MempoolTypeOK
  <2>2. CASE queue' = queue
    BY <1>1, <2>2 DEF Line
  <2>3. CASE /\ handler[s] = "tracked" /\ handler'[s] = "accepted"
             /\ queue' = Append(queue, s)
    BY <1>0, <1>1, <2>3, LineAppend
  <2> QED BY <2>1, <2>2, <2>3
<1>2. CASE StartBuild
  <2>1. CASE UNCHANGED <<queue, builder>>
    BY <2>1 DEF Line
  <2>2. CASE Take(TakeUpTo(ToTake)) /\ builder'.batch = TakeUpTo(ToTake)
    <3>1. Line' = queue
      BY <1>0, <2>2, TakeFacts DEF Take, Line
    <3>2. Line = queue
      BY <1>0, <1>2 DEF StartBuild, Line
    <3> QED BY <3>1, <3>2
  <2> QED BY <1>2, <2>1, <2>2 DEF StartBuild, Idle
<1>3. CASE GiveUp \/ Fault
  <2>1. builder'.batch = <<>> /\ queue' = builder.batch \o queue
    BY <1>3 DEF GiveUp, Fault, ReturnToFront, Idle
  <2> QED BY <1>0, <2>1 DEF Line
<1>4. CASE Receive
  BY <1>0, <1>4 DEF Receive, Line, Idle, mempoolVars
<1>5. CASE Restart
  BY <1>5 DEF Restart, LoseMempool, Line, Idle
<1>6. CASE UNCHANGED queue /\ builder'.batch = builder.batch
  BY <1>6 DEF Line
<1>7. ASSUME NEW t \in wire, Mine(t) PROVE UNCHANGED queue /\ builder'.batch = builder.batch
  BY <1>7 DEF Mine, TypeOK, BuilderTypeOK, mempoolVars
<1>8. CASE FetchDeposits \/ Predict \/ Send
  BY <1>6, <1>8 DEF FetchDeposits, Predict, Send, TypeOK, BuilderTypeOK, mempoolVars
<1> QED
  BY <1>1, <1>2, <1>3, <1>4, <1>5, <1>6, <1>7, <1>8
     DEF Next, MempoolStep, BuilderStep, L1Step, Leaves, Disconnect, RegisterAnchor, Poke,
         OtherPost, Challenge, DepositMade, DayPasses, EpochTurns, Store, mempoolVars

(* A handler that has accepted stays so until a restart.                   *)
LEMMA AcceptedStays ==
    ASSUME TypeOK, Next
    PROVE  \/ Line' = <<>> /\ \A s \in Submitted : handler'[s] # "accepted"
           \/ /\ \A s \in Submitted : handler[s] = "accepted" => handler'[s] = "accepted"
              /\ \A s \in Submitted :
                     handler'[s] = "accepted" =>
                         \/ handler[s] = "accepted"
                         \/ handler[s] = "tracked" /\ Line' = Append(Line, s)
<1>0. MempoolTypeOK /\ builder.batch \in Seq(Submitted)
  BY DEF TypeOK, BuilderTypeOK
<1>1. ASSUME NEW s \in Submitted, NEW from \in Stages \ {"accepted"}, NEW to \in Stages \ {"accepted"},
             Moves(s, from, to)
      PROVE  \A x \in Submitted : handler'[x] = "accepted" <=> handler[x] = "accepted"
  BY <1>0, <1>1, MoveFacts
<1>2. ASSUME NEW s \in Submitted, Handle(s, OnRecord, Latest), UNCHANGED builder
      PROVE  /\ \A x \in Submitted : handler[x] = "accepted" => handler'[x] = "accepted"
             /\ \A x \in Submitted :
                    handler'[x] = "accepted" =>
                        \/ handler[x] = "accepted"
                        \/ handler[x] = "tracked" /\ Line' = Append(Line, x)
  <2>1. CASE LookUp(s) \/ Verify(s, OnRecord, Latest) \/ Track(s)
    BY <1>1, <2>1 DEF LookUp, Verify, Track, Stages
  <2>2. CASE Enqueue(s) /\ Moves(s, "tracked", "refused")
    BY <1>1, <2>2 DEF Stages
  <2>3. CASE Moves(s, "tracked", "accepted") /\ queue' = Append(queue, s)
    <3>1. Line' = Append(Line, s)
      BY <1>0, <1>2, <2>3, LineAppend DEF MempoolTypeOK
    <3>2. handler[s] = "tracked" /\ \A x \in Submitted \ {s} : handler'[x] = handler[x]
      BY <1>0, <2>3, MoveFacts DEF Stages
    <3>3. handler'[s] = "accepted"
      BY <1>0, <2>3 DEF Moves, MempoolTypeOK
    <3> QED BY <3>1, <3>2, <3>3
  <2> QED BY <1>2, <2>1, <2>2, <2>3 DEF Handle, Enqueue
<1>3. ASSUME NEW s \in Submitted, Leaves(s)
      PROVE  \A x \in Submitted : handler'[x] = "accepted" <=> handler[x] = "accepted"
  <2>1. handler[s] \in Stages \ {"accepted"} /\ Moves(s, handler[s], "dropped")
    BY <1>0, <1>3 DEF Leaves, Disconnect, MempoolTypeOK, Stages
  <2> QED BY <1>1, <2>1 DEF Stages
<1>4. CASE Restart
  BY <1>4 DEF Restart, LoseMempool, Line, Idle
<1>5. CASE UNCHANGED handler
  BY <1>5
<1> QED
  BY <1>2, <1>3, <1>4, <1>5
     DEF Next, MempoolStep, BuilderStep, L1Step, RegisterAnchor, Poke, StartBuild, FetchDeposits,
         Predict, Send, Receive, GiveUp, Fault, Mine, OtherPost, Challenge, DepositMade,
         DayPasses, EpochTurns, Store, mempoolVars

(* The line stays in order.                                                *)
LEMMA LineStep ==
    ASSUME TypeOK, LineOK, Next
    PROVE  LineOK'
<1>0. /\ Line \in Seq(Submitted) /\ TypeOK'
      /\ queue \in Seq(Submitted) /\ builder.batch \in Seq(Submitted)
  BY LineFacts, TypeStep DEF TypeOK, MempoolTypeOK, BuilderTypeOK
<1> DEFINE Ordered(line) ==
        /\ \A i \in 1 .. Len(line) : handler'[line[i]] = "accepted"
        /\ \A i, j \in 1 .. Len(line) : line[i] = line[j] => i = j
<1>1. ASSUME Line' = <<>> PROVE Ordered(Line')
  BY <1>1
<1>2. ASSUME \A s \in Submitted : handler[s] = "accepted" => handler'[s] = "accepted"
      PROVE  Ordered(Line')
  <2>1. Ordered(Line)
    <3>1. \A i \in 1 .. Len(Line) : Line[i] \in Submitted
      BY <1>0
    <3> QED BY <1>2, <3>1 DEF LineOK
  <2>2. ASSUME NEW s \in Submitted, handler[s] = "tracked", handler'[s] = "accepted",
               Line' = Append(Line, s)
        PROVE  Ordered(Line')
    <3>1. \A i \in 1 .. Len(Line) : Line[i] # s
      BY <2>2 DEF LineOK
    <3>2. /\ Len(Line') = Len(Line) + 1 /\ Line'[Len(Line) + 1] = s
          /\ \A i \in 1 .. Len(Line) : Line'[i] = Line[i]
      BY <1>0, <2>2, AppendProperties
    <3>3. \A i \in 1 .. Len(Line') : i \in 1 .. Len(Line) \/ i = Len(Line) + 1
      BY <1>0, <3>2
    <3> QED BY <2>1, <2>2, <3>1, <3>2, <3>3
  <2>3. CASE Line' = queue
    <3>1. \A i \in 1 .. Len(queue) :
              Len(builder.batch) + i \in 1 .. Len(Line) /\ Line[Len(builder.batch) + i] = queue[i]
      BY <1>0, LineFacts
    <3>2. \A i \in 1 .. Len(queue) : handler'[queue[i]] = "accepted"
      BY <2>1, <3>1
    <3>3. ASSUME NEW i \in 1 .. Len(queue), NEW j \in 1 .. Len(queue), queue[i] = queue[j]
          PROVE  i = j
      <4> DEFINE m == Len(builder.batch)
      <4>1. m \in Nat /\ m + i = m + j
        BY <1>0, <2>1, <3>1, <3>3
      <4> HIDE DEF m
      <4> QED BY <4>1
    <3> QED BY <2>3, <3>2, <3>3
  <2> HIDE DEF Ordered
  <2>4. CASE Line' = Line
    BY <2>1, <2>4
  <2> QED BY <1>1, <2>2, <2>3, <2>4, LineMoves
<1>3. Ordered(Line')
  BY <1>1, <1>2, AcceptedStays
<1>4. builder'.pc = "included" => ToSet(builder'.batch) \subseteq mined'
  <2>1. ASSUME NEW t \in wire, Mine(t)
        PROVE  builder'.pc = "included" => ToSet(builder'.batch) \subseteq mined'
    <3>1. mined \subseteq mined' /\ builder'.batch = builder.batch
      BY <2>1 DEF Mine, TypeOK, BuilderTypeOK
    <3>2. CASE builder.pc = "sent" /\ t = BlobTransaction /\ Accepts(t)
      BY <2>1, <3>1, <3>2 DEF Mine, BlobTransaction
    <3>3. CASE ~(builder.pc = "sent" /\ t = BlobTransaction /\ Accepts(t))
      BY <2>1, <3>1, <3>3 DEF Mine, TypeOK, BuilderTypeOK, LineOK
    <3> QED BY <3>2, <3>3
  <2>2. CASE builder' = builder /\ mined' = mined
    BY <2>2 DEF LineOK
  <2>3. CASE FetchDeposits \/ Predict \/ Send
    BY <2>3 DEF FetchDeposits, Predict, Send, TypeOK, BuilderTypeOK
  <2>4. CASE Receive \/ GiveUp \/ Fault \/ Restart
    BY <2>4 DEF Receive, GiveUp, Fault, Restart, Idle
  <2>5. CASE StartBuild
    <3>1. builder'.pc = "taken" \/ UNCHANGED <<builder, mined>>
      BY <2>5 DEF StartBuild, Idle, l1Vars
    <3> QED BY <2>2, <3>1
  <2>6. CASE MempoolStep \/ Store \/ \E s \in Submitted : Leaves(s)
    BY <2>2, <2>6 DEF MempoolStep, Store, Leaves, l1Vars
  <2>7. CASE L1Step
    BY <2>1, <2>2, <2>7 DEF L1Step, OtherPost, Challenge, DepositMade, DayPasses, EpochTurns, l1Vars
  <2> QED
    BY <2>3, <2>4, <2>5, <2>6, <2>7 DEF Next, BuilderStep
<1> QED BY <1>3, <1>4 DEF LineOK

(* Nothing mined is forgotten.                                             *)
LEMMA MinedGrows == Next => mined \subseteq mined'
  BY DEF Next, MempoolStep, BuilderStep, L1Step, Leaves, StartBuild, FetchDeposits, Predict, Send,
         Receive, GiveUp, Fault, Restart, Mine, OtherPost, Challenge, DepositMade, DayPasses,
         EpochTurns, Store, l1Vars

(* No step loses an accepted transaction.                                  *)
LEMMA AcceptedNotLostStep ==
    ASSUME TypeOK, LineOK, AcceptedNotLost, Next
    PROVE  AcceptedNotLost'
<1>0. Line \in Seq(Submitted) /\ ToSet(Line) = ToSet(builder.batch) \cup ToSet(queue)
  BY LineFacts
<1> SUFFICES ASSUME NEW s \in Submitted, handler'[s] = "accepted"
             PROVE  s \in ToSet(Line)' \cup mined'
  BY DEF AcceptedNotLost
<1>1. CASE Line' = Append(Line, s)
  BY <1>0, <1>1, AppendProperties DEF ToSet
<1>2. CASE handler[s] = "accepted"
  <2>1. s \in ToSet(Line) \cup mined
    BY <1>2 DEF AcceptedNotLost
  <2>2. CASE Line' = Line
    BY <2>1, <2>2, MinedGrows
  <2>3. ASSUME NEW x \in Submitted, Line' = Append(Line, x)
        PROVE  ToSet(Line) \subseteq ToSet(Line)'
    BY <1>0, <2>3, AppendProperties DEF ToSet
  <2>4. CASE builder.pc = "included" /\ Line' = queue
    BY <1>0, <2>1, <2>4, MinedGrows DEF LineOK
  <2> QED BY <2>1, <2>2, <2>3, <2>4, LineMoves, MinedGrows
<1> QED BY <1>1, <1>2, AcceptedStays

(* What a step does to the line keeps those in it in order.                *)
LEMMA OrderStep ==
    ASSUME TypeOK, LineOK, Next,
           NEW i \in DOMAIN Line', NEW j \in DOMAIN Line', NEW k \in DOMAIN Line, NEW l \in DOMAIN Line,
           Line[k] = Line'[i], Line[l] = Line'[j], k < l
    PROVE  i < j
<1>0. /\ Line \in Seq(Submitted) /\ queue \in Seq(Submitted) /\ builder.batch \in Seq(Submitted)
      /\ DOMAIN Line = 1 .. Len(Line)
      /\ \A m, n \in 1 .. Len(Line) : Line[m] = Line[n] => m = n
  BY LineFacts DEF TypeOK, MempoolTypeOK, BuilderTypeOK, LineOK
<1>1. CASE Line' = Line
  BY <1>0, <1>1
<1>2. ASSUME NEW s \in Submitted, handler[s] = "tracked", Line' = Append(Line, s)
      PROVE  i < j
  <2>1. \A n \in 1 .. Len(Line) : Line[n] # s
    BY <1>2 DEF LineOK
  <2>2. /\ DOMAIN Line' = 1 .. Len(Line) + 1 /\ Line'[Len(Line) + 1] = s
        /\ \A n \in 1 .. Len(Line) : Line'[n] = Line[n]
    BY <1>0, <1>2, AppendProperties
  <2>3. i \in 1 .. Len(Line) /\ j \in 1 .. Len(Line)
    BY <1>0, <2>1, <2>2
  <2>4. i = k /\ j = l
    BY <1>0, <2>2, <2>3
  <2> QED BY <2>4
<1>3. CASE Line' = queue
  <2> DEFINE m == Len(builder.batch)
  <2>0. /\ m \in Nat /\ Len(queue) \in Nat /\ Len(Line) = m + Len(queue)
        /\ \A n \in 1 .. Len(queue) : Line[m + n] = queue[n]
    <3>1. m \in Nat /\ Len(queue) \in Nat
      BY <1>0
    <3>2. Len(Line) = m + Len(queue) /\ \A n \in 1 .. Len(queue) : Line[m + n] = queue[n]
      BY LineFacts
    <3> QED BY <3>1, <3>2
  <2> HIDE DEF m
  <2>1. /\ i \in 1 .. Len(queue) /\ j \in 1 .. Len(queue)
        /\ m + i \in 1 .. Len(Line) /\ m + j \in 1 .. Len(Line)
        /\ Line[m + i] = queue[i] /\ Line[m + j] = queue[j]
    BY <1>0, <1>3, <2>0
  <2>2. m + i = k /\ m + j = l
    BY <1>0, <1>3, <2>1
  <2> QED BY <1>0, <2>0, <2>1, <2>2
<1>4. CASE Line' = <<>>
  BY <1>4
<1> QED BY <1>1, <1>2, <1>3, <1>4, LineMoves

-----------------------------------------------------------------------------
(* The pending nullifiers.                                                 *)

(* The places of the queue that the builder takes and those it leaves.     *)
LEMMA TakenPlaces ==
    ASSUME TypeOK, Take(TakeUpTo(ToTake))
    PROVE  LET batch == TakeUpTo(ToTake)
           IN  /\ batch \in Seq(Submitted) /\ queue' \in Seq(Submitted)
               /\ Len(queue) = Len(batch) + Len(queue')
               /\ \A i \in 1 .. Len(batch) : queue[i] = batch[i]
               /\ \A i \in 1 .. Len(queue') : queue[Len(batch) + i] = queue'[i]
               /\ ToSet(queue) = ToSet(batch) \cup ToSet(queue')
<1> DEFINE batch == TakeUpTo(ToTake)
<1>1. batch \in Seq(Submitted) /\ queue' \in Seq(Submitted) /\ batch \o queue' = queue
  BY TakeFacts DEF TypeOK, MempoolTypeOK, Take
<1> DEFINE rest == queue'
<1> HIDE DEF batch, rest
<1>2. ASSUME batch \in Seq(Submitted), rest \in Seq(Submitted)
      PROVE  /\ Len(batch \o rest) = Len(batch) + Len(rest)
             /\ \A i \in 1 .. Len(batch) : (batch \o rest)[i] = batch[i]
             /\ \A i \in 1 .. Len(rest) : (batch \o rest)[Len(batch) + i] = rest[i]
             /\ ToSet(batch \o rest) = ToSet(batch) \cup ToSet(rest)
  BY <1>2, ConcatFacts
<1> QED BY <1>1, <1>2 DEF batch, rest

(* A pending nullifier keeps an owner.                                     *)
LEMMA PendingHasOwnerStep ==
    ASSUME TypeOK, PendingHasOwner, Next
    PROVE  PendingHasOwner'
<1>0. MempoolTypeOK /\ queue \in Seq(Submitted) /\ builder.batch \in Seq(Submitted)
  BY DEF TypeOK, MempoolTypeOK, BuilderTypeOK
<1> DEFINE Owns(s) == s \in ToSet(queue) \/ handler[s] \in {"tracked", "dropped"}
<1>1. ASSUME pending' \subseteq pending,
             \A s \in Submitted : Owns(s) /\ Spends(s) \cap pending' # {} => Owns(s)'
      PROVE  PendingHasOwner'
  BY <1>1 DEF PendingHasOwner
<1>2. ASSUME NEW s \in Submitted, Handle(s, OnRecord, Latest)
      PROVE  PendingHasOwner'
  <2>1. ASSUME NEW from \in Stages, NEW to \in Stages, Moves(s, from, to)
        PROVE  handler[s] = from /\ handler'[s] = to /\ \A x \in Submitted \ {s} : handler'[x] = handler[x]
    BY <1>0, <2>1, MoveFacts
  <2>2. CASE LookUp(s) \/ Verify(s, OnRecord, Latest)
    BY <1>1, <2>1, <2>2 DEF LookUp, Verify, Stages
  <2>3. CASE Track(s)
    BY <2>1, <2>3 DEF Track, Stages, PendingHasOwner
  <2>4. CASE /\ Moves(s, "tracked", "accepted") /\ queue' = Append(queue, s) /\ UNCHANGED pending
    <3>1. ToSet(queue') = ToSet(queue) \cup {s}
      BY <1>0, <2>4, AppendProperties DEF ToSet
    <3> QED BY <1>1, <2>1, <2>4, <3>1 DEF Stages
  <2>5. CASE /\ Moves(s, "tracked", "refused") /\ pending' = pending \ Spends(s) /\ UNCHANGED queue
    BY <1>1, <2>1, <2>5 DEF Stages
  <2> QED BY <1>2, <2>2, <2>3, <2>4, <2>5 DEF Handle, Enqueue
<1>3. ASSUME NEW s \in Submitted, Leaves(s)
      PROVE  PendingHasOwner'
  BY <1>0, <1>1, <1>3 DEF Leaves, Disconnect, Moves, MempoolTypeOK
<1>4. CASE StartBuild
  <2>1. CASE Take(TakeUpTo(ToTake))
    <3>1. \A s \in Submitted : s \in ToSet(queue) \ ToSet(queue)' => Spends(s) \cap pending' = {}
      BY <2>1, TakenPlaces DEF Take, SpentBy
    <3> QED BY <1>1, <1>4, <2>1, <3>1 DEF StartBuild, Take
  <2>2. CASE UNCHANGED <<queue, pending>>
    BY <1>1, <1>4, <2>2 DEF StartBuild
  <2> QED BY <1>4, <2>1, <2>2 DEF StartBuild
<1>5. CASE GiveUp \/ Fault
  <2>1. /\ pending' = pending \cup SpentBy(builder.batch) /\ queue' = builder.batch \o queue
        /\ handler' = handler
    BY <1>5 DEF GiveUp, Fault, ReturnToFront
  <2>2. ToSet(queue') = ToSet(builder.batch) \cup ToSet(queue)
    BY LineFacts, <2>1 DEF Line
  <2>3. ToSet(builder.batch) \subseteq Submitted
    BY <1>0 DEF ToSet
  <2> QED BY <2>1, <2>2, <2>3 DEF PendingHasOwner, SpentBy
<1>6. CASE Restart
  BY <1>6 DEF Restart, LoseMempool, PendingHasOwner
<1>7. CASE UNCHANGED <<queue, pending, handler>>
  BY <1>1, <1>7
<1> QED
  BY <1>2, <1>3, <1>4, <1>5, <1>6, <1>7
     DEF Next, MempoolStep, BuilderStep, L1Step, RegisterAnchor, Poke, FetchDeposits, Predict,
         Send, Receive, Mine, OtherPost, Challenge, DepositMade, DayPasses, EpochTurns, Store,
         mempoolVars

-----------------------------------------------------------------------------
(* Spends that are alive at one time.                                      *)

InPipeline(n) ==
    {s \in Submitted : handler[s] \in {"looked", "verified", "tracked"} /\ n \in Spends(s)}

PlacesOf(q, n) == {i \in DOMAIN q : n \in Spends(q[i])}

OnChain(n) == {i \in DOMAIN chain : n \in chain[i].spent /\ ~IsPrefix(SubSeq(chain, 1, i), db)}

OnWire(n) == {t \in wire : n \in SpentBy(t.batch)}

(* What was ever counted twice is contested.                               *)
CountedOK == Contested \subseteq contested

(* A finite set with one element, and with two.                            *)
LEMMA AtLeast ==
    ASSUME NEW T, IsFiniteSet(T)
    PROVE  /\ Cardinality(T) \in Nat
           /\ T # {} => Cardinality(T) >= 1
           /\ \A x, y \in T : x # y => Cardinality(T) >= 2
<1>1. /\ Cardinality(T) \in Nat
      /\ T # {} => Cardinality(T) # 0
      /\ Cardinality(T) = 1 <=> \E x : T = {x}
  BY FS_CardinalityType, FS_EmptySet, FS_Singleton
<1>2. ASSUME NEW x \in T, NEW y \in T, x # y PROVE Cardinality(T) >= 2
  <2>1. Cardinality(T) # 1
    BY <1>1, <1>2
  <2> QED BY <1>1, <2>1
<1> QED BY <1>1, <1>2

(* The spends counted are finitely many of each kind.                      *)
LEMMA LiveFinite ==
    ASSUME TypeOK, NEW n
    PROVE  /\ IsFiniteSet(InPipeline(n)) /\ IsFiniteSet(OnChain(n)) /\ IsFiniteSet(OnWire(n))
           /\ IsFiniteSet(PlacesOf(queue, n)) /\ IsFiniteSet(PlacesOf(builder.batch, n))
<1>1. ASSUME NEW S, NEW q \in Seq(S)
      PROVE  IsFiniteSet(DOMAIN q)
  <2>1. Len(q) \in Nat /\ DOMAIN q = 1 .. Len(q)
    OBVIOUS
  <2> QED BY <2>1, FS_Interval
<1>2. /\ queue \in Seq(Submitted) /\ builder.batch \in Seq(Submitted) /\ chain \in Seq(ChainBlock)
      /\ IsFiniteSet(Begun) /\ IsFiniteSet(wire)
  BY DEF TypeOK, MempoolTypeOK, BuilderTypeOK, L1TypeOK
<1>3. IsFiniteSet(DOMAIN queue) /\ IsFiniteSet(DOMAIN builder.batch) /\ IsFiniteSet(DOMAIN chain)
  BY <1>1, <1>2
<1>4. /\ InPipeline(n) \subseteq Begun /\ OnChain(n) \subseteq DOMAIN chain /\ OnWire(n) \subseteq wire
      /\ PlacesOf(queue, n) \subseteq DOMAIN queue
      /\ PlacesOf(builder.batch, n) \subseteq DOMAIN builder.batch
  BY DEF InPipeline, Begun, OnChain, OnWire, PlacesOf
<1> QED BY <1>2, <1>3, <1>4, FS_Subset

(* Two live spends of a nullifier contest it.                              *)
LEMMA AliveTwice ==
    ASSUME TypeOK, CountedOK, NEW n \in Nullifiers,
           \/ \E s, x \in InPipeline(n) : s # x
           \/ InPipeline(n) # {} /\ PlacesOf(queue, n) # {}
           \/ \E i, j \in PlacesOf(queue, n) : i # j
           \/ /\ OnChain(n) # {}
              /\ InPipeline(n) # {} \/ PlacesOf(queue, n) # {} \/ OnWire(n) # {}
    PROVE  n \in contested
<1> DEFINE p == Cardinality(InPipeline(n))
           q == Cardinality(PlacesOf(queue, n))
           b == IF builder.pc \in {"sent", "included"} THEN 0
                ELSE Cardinality(PlacesOf(builder.batch, n))
           c == Cardinality(OnChain(n))
           w == Cardinality(OnWire(n))
<1>1. p \in Nat /\ q \in Nat /\ b \in Nat /\ c \in Nat /\ w \in Nat
  BY LiveFinite, AtLeast
<1>2. LiveSpends(n) = p + q + b + c + w
  BY DEF LiveSpends, InPipeline, PlacesOf, OnChain, OnWire
<1>3. \/ p >= 2
      \/ p >= 1 /\ q >= 1
      \/ q >= 2
      \/ c >= 1 /\ (p >= 1 \/ q >= 1 \/ w >= 1)
  BY LiveFinite, AtLeast
<1> HIDE DEF p, q, b, c, w
<1>4. LiveSpends(n) > 1
  BY <1>1, <1>2, <1>3
<1> QED BY <1>4 DEF Contested, CountedOK

(* A step counts anew.                                                     *)
LEMMA CountedStep == ASSUME Next PROVE CountedOK' /\ contested \subseteq contested'
  BY DEF Next, CountedOK

(* What waits or is being entered is pending, or its note contested.       *)
WaitingOK ==
    /\ \A s \in Submitted : handler[s] = "tracked" => Spends(s) \subseteq pending \cup contested
    /\ \A s \in ToSet(queue) : Spends(s) \subseteq pending \cup contested

(* Nullifiers cease to be pending for the spend that owned them; those     *)
(* that another spend needs are contested.                                 *)
LEMMA WaitingStep ==
    ASSUME TypeOK, CountedOK, WaitingOK, Next
    PROVE  WaitingOK'
<1>0. MempoolTypeOK /\ queue \in Seq(Submitted) /\ builder.batch \in Seq(Submitted)
      /\ ToSet(queue) \subseteq Submitted /\ DOMAIN queue = 1 .. Len(queue)
  BY DEF TypeOK, MempoolTypeOK, BuilderTypeOK, ToSet
<1>1. contested \subseteq contested'
  BY CountedStep
<1> DEFINE Waits(s) == handler[s] = "tracked" \/ s \in ToSet(queue)
<1>2. \A s \in Submitted : Waits(s) => Spends(s) \subseteq pending \cup contested
  BY DEF WaitingOK
<1>3. ASSUME \A s \in Submitted : Waits(s)' => Spends(s) \subseteq pending' \cup contested'
      PROVE  WaitingOK'
  <2>1. ToSet(queue') \subseteq Submitted
    BY TypeStep DEF TypeOK, MempoolTypeOK, ToSet
  <2> QED BY <1>3, <2>1 DEF WaitingOK
<1>4. ASSUME pending \subseteq pending', \A s \in Submitted : Waits(s)' => Waits(s)
      PROVE  WaitingOK'
  BY <1>1, <1>2, <1>3, <1>4
<1>5. ASSUME NEW s \in Submitted, NEW from \in Stages, NEW to \in Stages, Moves(s, from, to)
      PROVE  handler[s] = from /\ handler'[s] = to /\ \A x \in Submitted \ {s} : handler'[x] = handler[x]
  BY <1>0, <1>5, MoveFacts
<1>6. ASSUME NEW s \in Submitted, Handle(s, OnRecord, Latest)
      PROVE  WaitingOK'
  <2>1. CASE LookUp(s) \/ Verify(s, OnRecord, Latest)
    BY <1>4, <1>5, <2>1 DEF LookUp, Verify, Stages
  <2>2. CASE Track(s)
    BY <1>1, <1>2, <1>3, <1>5, <2>2 DEF Track, Stages
  <2>3. CASE /\ Moves(s, "tracked", "accepted") /\ queue' = Append(queue, s) /\ UNCHANGED pending
    <3>1. ToSet(queue') = ToSet(queue) \cup {s}
      BY <1>0, <2>3, AppendProperties DEF ToSet
    <3> QED BY <1>4, <1>5, <2>3, <3>1 DEF Stages
  <2>4. CASE /\ Moves(s, "tracked", "refused") /\ pending' = pending \ Spends(s) /\ UNCHANGED queue
    <3>1. handler[s] = "tracked" /\ handler'[s] = "refused"
          /\ \A x \in Submitted \ {s} : handler'[x] = handler[x]
      BY <1>5, <2>4 DEF Stages
    <3> SUFFICES ASSUME NEW x \in Submitted, Waits(x)', NEW n \in Spends(x), n \in Spends(s)
                 PROVE  n \in contested
      BY <1>1, <1>2, <1>3, <2>4, <3>1
    <3>2. s \in InPipeline(n) /\ n \in Nullifiers
      BY <3>1 DEF InPipeline, Nullifiers
    <3>3. CASE handler'[x] = "tracked"
      <4>1. x \in InPipeline(n) /\ x # s
        BY <3>1, <3>3 DEF InPipeline
      <4> QED BY <3>2, <4>1, AliveTwice
    <3>4. CASE x \in ToSet(queue)
      <4>1. PlacesOf(queue, n) # {}
        BY <3>4 DEF ToSet, PlacesOf
      <4> QED BY <3>2, <4>1, AliveTwice
    <3> QED BY <2>4, <3>3, <3>4
  <2> QED BY <1>6, <2>1, <2>2, <2>3, <2>4 DEF Handle, Enqueue
<1>7. ASSUME NEW s \in Submitted, Leaves(s)
      PROVE  WaitingOK'
  BY <1>0, <1>4, <1>7 DEF Leaves, Disconnect, Moves, MempoolTypeOK
<1>8. CASE StartBuild
  <2>1. CASE Take(TakeUpTo(ToTake))
    <3> DEFINE batch == TakeUpTo(ToTake)
               b == Len(batch)
    <3>1. /\ batch \in Seq(Submitted) /\ queue' \in Seq(Submitted) /\ b \in Nat
          /\ Len(queue') \in Nat /\ Len(queue) = b + Len(queue')
          /\ pending' = pending \ SpentBy(batch) /\ handler' = handler
      BY <1>8, <2>1, TakenPlaces DEF Take, StartBuild
    <3>2. /\ \A i \in 1 .. b : queue[i] = batch[i]
          /\ \A i \in 1 .. Len(queue') : queue[b + i] = queue'[i]
          /\ ToSet(queue) = ToSet(batch) \cup ToSet(queue')
      BY <2>1, TakenPlaces
    <3> SUFFICES ASSUME NEW x \in Submitted, Waits(x)', NEW n \in Spends(x), n \in SpentBy(batch)
                 PROVE  n \in contested
      BY <1>1, <1>2, <1>3, <3>1, <3>2
    <3>3. n \in Nullifiers
      BY DEF Nullifiers
    <3>4. PICK i \in 1 .. b : n \in Spends(batch[i])
      BY <3>1, SpendsFacts
    <3> HIDE DEF batch, b
    <3>5. i \in PlacesOf(queue, n)
      BY <1>0, <3>1, <3>2, <3>4 DEF PlacesOf
    <3>6. CASE handler'[x] = "tracked"
      <4>1. x \in InPipeline(n)
        BY <3>1, <3>6 DEF InPipeline
      <4> QED BY <3>3, <3>5, <4>1, AliveTwice
    <3>7. CASE x \in ToSet(queue)'
      <4>1. PICK j \in 1 .. Len(queue') : queue'[j] = x
        BY <3>1, <3>7 DEF ToSet
      <4>2. b + j \in 1 .. Len(queue) /\ queue[b + j] = x /\ b + j # i
        BY <3>1, <3>2, <4>1
      <4>3. b + j \in PlacesOf(queue, n)
        BY <1>0, <4>2 DEF PlacesOf
      <4> QED BY <3>3, <3>5, <4>2, <4>3, AliveTwice
    <3> QED BY <3>6, <3>7
  <2>2. CASE UNCHANGED <<queue, pending>>
    BY <1>4, <1>8, <2>2 DEF StartBuild
  <2> QED BY <1>8, <2>1, <2>2 DEF StartBuild
<1>9. CASE GiveUp \/ Fault
  <2>1. /\ pending' = pending \cup SpentBy(builder.batch) /\ queue' = builder.batch \o queue
        /\ handler' = handler
    BY <1>9 DEF GiveUp, Fault, ReturnToFront
  <2>2. ToSet(queue') = ToSet(builder.batch) \cup ToSet(queue)
    BY LineFacts, <2>1 DEF Line
  <2> QED BY <1>1, <1>2, <1>3, <2>1, <2>2 DEF SpentBy
<1>10. CASE Restart
  BY <1>10 DEF Restart, LoseMempool, WaitingOK, ToSet
<1>11. CASE UNCHANGED <<queue, pending, handler>>
  BY <1>4, <1>11
<1> QED
  BY <1>6, <1>7, <1>8, <1>9, <1>10, <1>11
     DEF Next, MempoolStep, BuilderStep, L1Step, RegisterAnchor, Poke, FetchDeposits, Predict,
         Send, Receive, Mine, OtherPost, Challenge, DepositMade, DayPasses, EpochTurns, Store,
         mempoolVars

-----------------------------------------------------------------------------
(* The blocks of the chain.                                                *)

(* A batch that spends a note twice does so because it is contested.       *)
TwiceOK ==
    \A n \in Nullifiers :
        Twice(builder.batch, n) \/ (\E t \in wire : Twice(t.batch, n)) => n \in contested

(* Something that may still be mined spends the note, apart from what is   *)
(* to be verified.                                                         *)
Underway(n) ==
    \/ \E s \in Submitted : handler[s] \in {"verified", "tracked"} /\ n \in Spends(s)
    \/ n \in SpentBy(queue)
    \/ n \in SpentBy(builder.batch)
    \/ \E t \in wire : n \in SpentBy(t.batch)

(* Nothing that was verified spends a nullifier on record.                 *)
RecordOK == \A n \in OnRecord : Underway(n) => n \in contested

(* A block spends a note again on top of a block that is in the database   *)
(* without its nullifiers.                                                 *)
AgainOK ==
    \A k \in DOMAIN chain : \A n \in chain[k].again \ contested :
        \E m \in DOMAIN db \ recorded :
            m < k /\ n \in chain[m].spent /\ IsPrefix(SubSeq(chain, 1, m), db)

(* Where the batch under way and those on the wire come from.              *)
LEMMA BatchMoves ==
    ASSUME TypeOK, Next
    PROVE  /\ \/ builder'.batch \in {builder.batch, <<>>}
              \/ Take(TakeUpTo(ToTake)) /\ builder'.batch = TakeUpTo(ToTake) /\ UNCHANGED handler
           /\ \A t \in wire' : t \in wire \/ t.batch = builder.batch
<1>1. CASE StartBuild
  <2>1. wire' = wire
    BY <1>1 DEF StartBuild, l1Vars
  <2>2. CASE UNCHANGED builder
    BY <2>1, <2>2
  <2>3. CASE builder'.batch = TakeUpTo(ToTake) /\ Take(TakeUpTo(ToTake))
    BY <1>1, <2>1, <2>3 DEF StartBuild
  <2> QED BY <1>1, <2>2, <2>3 DEF StartBuild, Idle
<1>2. CASE FetchDeposits \/ Predict
  BY <1>2 DEF FetchDeposits, Predict, TypeOK, BuilderTypeOK, l1Vars
<1>3. CASE Send
  <2>1. BlobTransaction.batch = builder.batch
    BY DEF BlobTransaction
  <2> QED BY <1>3, <2>1 DEF Send, TypeOK, BuilderTypeOK
<1>4. CASE Receive \/ GiveUp \/ Fault \/ Restart
  BY <1>4 DEF Receive, GiveUp, Fault, Restart, Idle, l1Vars
<1>5. ASSUME NEW t \in wire, Mine(t)
      PROVE  builder'.batch = builder.batch /\ wire' \subseteq wire
  BY <1>5 DEF Mine, TypeOK, BuilderTypeOK
<1>6. CASE UNCHANGED <<builder, wire>>
  BY <1>6
<1> QED
  BY <1>1, <1>2, <1>3, <1>4, <1>5, <1>6
     DEF Next, MempoolStep, BuilderStep, L1Step, Leaves, OtherPost, Challenge, DepositMade,
         DayPasses, EpochTurns, Store, l1Vars

(* A batch is taken from the queue, where two spends are counted.          *)
LEMMA TwiceStep ==
    ASSUME TypeOK, CountedOK, TwiceOK, Next
    PROVE  TwiceOK'
<1> SUFFICES ASSUME NEW n \in Nullifiers,
                    Twice(builder'.batch, n) \/ \E t \in wire' : Twice(t.batch, n)
             PROVE  n \in contested
  BY CountedStep DEF TwiceOK, Nullifiers
<1>1. CASE \E t \in wire' : Twice(t.batch, n)
  BY <1>1, BatchMoves DEF TwiceOK
<1>2. CASE Twice(builder'.batch, n) /\ builder'.batch \in {builder.batch, <<>>}
  <2>1. ~Twice(<<>>, n)
    BY DEF Twice
  <2> QED BY <1>2, <2>1 DEF TwiceOK
<1>3. CASE Twice(TakeUpTo(ToTake), n) /\ Take(TakeUpTo(ToTake))
  <2> DEFINE batch == TakeUpTo(ToTake)
  <2>1. /\ batch \in Seq(Submitted) /\ Len(batch) <= Len(queue)
        /\ DOMAIN queue = 1 .. Len(queue) /\ DOMAIN batch = 1 .. Len(batch)
        /\ \A i \in 1 .. Len(batch) : queue[i] = batch[i]
    BY <1>3, TakenPlaces DEF TypeOK, MempoolTypeOK
  <2> HIDE DEF batch
  <2>2. PICK i, j \in DOMAIN batch : i # j /\ n \in Spends(batch[i]) /\ n \in Spends(batch[j])
    BY <1>3, <2>1 DEF Twice, batch
  <2>3. i \in PlacesOf(queue, n) /\ j \in PlacesOf(queue, n)
    BY <2>1, <2>2 DEF PlacesOf
  <2> QED BY <2>2, <2>3, AliveTwice
<1> QED BY <1>1, <1>2, <1>3, BatchMoves

(* What is under way was so before, or was just verified.                  *)
LEMMA UnderwayStep ==
    ASSUME TypeOK, Next, NEW n \in Nullifiers, Underway(n)'
    PROVE  \/ Underway(n)
           \/ n \notin OnRecord /\ UNCHANGED dbVars
<1>0. MempoolTypeOK /\ queue \in Seq(Submitted) /\ builder.batch \in Seq(Submitted)
  BY DEF TypeOK, MempoolTypeOK, BuilderTypeOK
<1>1. CASE n \in SpentBy(builder.batch)' \/ \E t \in wire' : n \in SpentBy(t.batch)
  <2>1. n \notin SpentBy(<<>>)
    BY DEF SpentBy, ToSet
  <2>2. Take(TakeUpTo(ToTake)) => SpentBy(TakeUpTo(ToTake)) \subseteq SpentBy(queue)
    BY TakenPlaces DEF SpentBy
  <2> QED BY <1>1, <2>1, <2>2, BatchMoves DEF Underway
<1>2. CASE n \in SpentBy(queue)'
  <2>1. ToSet(queue)' \subseteq ToSet(queue) \cup ToSet(builder.batch)
             \cup {s \in Submitted : handler[s] = "tracked"}
    <3>1. ASSUME NEW s \in Submitted, Handle(s, OnRecord, Latest)
          PROVE  \/ queue' = queue
                 \/ handler[s] = "tracked" /\ queue' = Append(queue, s)
      BY <3>1 DEF Handle, LookUp, Verify, Track, Enqueue, Moves
    <3>2. ASSUME NEW s \in Submitted, queue' = Append(queue, s)
          PROVE  ToSet(queue') = ToSet(queue) \cup {s}
      BY <1>0, <3>2, AppendProperties DEF ToSet
    <3>3. CASE StartBuild
      BY <3>3, TakenPlaces DEF StartBuild
    <3>4. ASSUME queue' = builder.batch \o queue
          PROVE  ToSet(queue') = ToSet(builder.batch) \cup ToSet(queue)
      BY LineFacts, <3>4 DEF Line
    <3>5. ToSet(<<>>) = {}
      BY DEF ToSet
    <3>6. CASE MempoolStep
      BY <1>0, <3>1, <3>2, <3>6 DEF MempoolStep, RegisterAnchor, Poke
    <3>7. CASE GiveUp \/ Fault
      BY <3>4, <3>7 DEF GiveUp, Fault, ReturnToFront
    <3>8. CASE Restart
      BY <3>5, <3>8 DEF Restart, LoseMempool
    <3>9. CASE FetchDeposits \/ Predict \/ Send \/ Receive \/ L1Step \/ Store
               \/ \E s \in Submitted : Leaves(s)
      BY <3>9 DEF FetchDeposits, Predict, Send, Receive, L1Step, Mine, OtherPost, Challenge,
          DepositMade, DayPasses, EpochTurns, Store, Leaves, Disconnect, mempoolVars
    <3> QED BY <3>3, <3>6, <3>7, <3>8, <3>9 DEF Next, BuilderStep
  <2> QED BY <1>2, <2>1 DEF SpentBy, Underway
<1>3. ASSUME NEW s \in Submitted, handler'[s] \in {"verified", "tracked"}, n \in Spends(s)
      PROVE  \/ Underway(n)
             \/ n \notin OnRecord /\ UNCHANGED dbVars
  <2>1. CASE handler[s] \in {"verified", "tracked"}
    BY <1>3, <2>1 DEF Underway
  <2>2. CASE handler[s] \notin {"verified", "tracked"}
    <3>1. handler'[s] # handler[s]
      BY <1>3, <2>2
    <3>2. ASSUME NEW x \in Submitted, Handle(x, OnRecord, Latest), UNCHANGED dbVars
          PROVE  n \notin OnRecord
      <4>1. ASSUME NEW from \in Stages, NEW to \in Stages, Moves(x, from, to)
            PROVE  x = s /\ handler[s] = from /\ handler'[s] = to
        BY <1>0, <3>1, <4>1, MoveFacts
      <4>2. Verify(s, OnRecord, Latest) /\ Verifies(s, OnRecord, Latest)
        BY <1>3, <2>2, <3>2, <4>1 DEF Handle, LookUp, Verify, Track, Enqueue, Stages
      <4> QED BY <1>3, <4>2 DEF Verifies
    <3>3. ASSUME NEW x \in Submitted, Leaves(x)
          PROVE  FALSE
      BY <1>0, <1>3, <3>1, <3>3 DEF Leaves, Disconnect, Moves, MempoolTypeOK
    <3>4. CASE Restart
      BY <1>3, <3>4 DEF Restart, LoseMempool
    <3>5. CASE UNCHANGED handler
      BY <3>1, <3>5
    <3>6. CASE MempoolStep
      BY <3>2, <3>5, <3>6 DEF MempoolStep, RegisterAnchor, Poke
    <3>7. CASE L1Step \/ Store
      BY <3>5, <3>7 DEF L1Step, Mine, OtherPost, Challenge, DepositMade, DayPasses, EpochTurns,
          Store, mempoolVars
    <3>8. CASE StartBuild \/ FetchDeposits \/ Predict \/ Send \/ Receive \/ GiveUp \/ Fault
      BY <3>5, <3>8 DEF StartBuild, FetchDeposits, Predict, Send, Receive, GiveUp, Fault,
          mempoolVars
    <3> QED BY <3>3, <3>4, <3>6, <3>7, <3>8 DEF Next, BuilderStep
  <2> QED BY <2>1, <2>2
<1> QED BY <1>1, <1>2, <1>3 DEF Underway

(* A block of the chain that the database has, is there as it is on the    *)
(* chain; one it does not have holds its spends alive.                     *)
LEMMA ChainPlace ==
    ASSUME TypeOK, NEW m \in DOMAIN chain, NEW n \in chain[m].spent
    PROVE  \/ m \in OnChain(n)
           \/ m \in DOMAIN db /\ db[m] = chain[m] /\ IsPrefix(SubSeq(chain, 1, m), db)
<1>1. chain \in Seq(ChainBlock) /\ db \in Seq(ChainBlock) /\ m \in 1 .. Len(chain)
  BY DEF TypeOK, L1TypeOK, DbTypeOK
<1>2. ASSUME IsPrefix(SubSeq(chain, 1, m), db)
      PROVE  m \in DOMAIN db /\ db[m] = chain[m]
  <2>1. m <= Len(db) /\ \A i \in 1 .. m : chain[i] = db[i]
    BY <1>1, <1>2, PrefixOf
  <2> QED BY <1>1, <2>1
<1> QED BY <1>2 DEF OnChain

(* Nothing verified spends what is on record when a block is recorded.     *)
LEMMA RecordStep ==
    ASSUME TypeOK, CountedOK, RecordOK, Next
    PROVE  RecordOK'
<1> SUFFICES ASSUME NEW n \in OnRecord', Underway(n)'
             PROVE  n \in contested
  BY CountedStep DEF RecordOK
<1>0. n \in Nullifiers
  <2>1. TypeOK'
    BY TypeStep
  <2>2. \A q \in Seq(Submitted) : SpentBy(q) \subseteq Nullifiers
    BY SpendsFacts
  <2>3. /\ queue' \in Seq(Submitted) /\ builder'.batch \in Seq(Submitted)
        /\ \A t \in wire' : t.batch \in Seq(Submitted)
    BY <2>1 DEF TypeOK, MempoolTypeOK, BuilderTypeOK, L1TypeOK, Transaction
  <2> QED BY <2>2, <2>3 DEF Underway, Nullifiers
<1>1. CASE UNCHANGED dbVars
  <2>1. OnRecord' = OnRecord
    BY <1>1 DEF OnRecord, dbVars
  <2> QED BY <1>0, <2>1, UnderwayStep DEF RecordOK
<1>2. CASE Store
  <2>1. Underway(n) /\ builder.batch = <<>>
    BY <1>2 DEF Store, Underway, mempoolVars, l1Vars, TypeOK, BuilderTypeOK
  <2>2. CASE n \in OnRecord
    BY <2>1, <2>2 DEF RecordOK
  <2>3. CASE n \notin OnRecord
    <3>0. /\ chain \in Seq(ChainBlock) /\ db \in Seq(ChainBlock) /\ db' \in Seq(ChainBlock)
          /\ recorded \subseteq 1 .. Len(db)
      BY <1>2, StoreFacts DEF TypeOK, L1TypeOK, DbTypeOK
    <3>1. PICK m \in recorded' : n \in db'[m].spent
      BY DEF OnRecord
    <3>2. CASE IsPrefix(db', db) /\ recorded' = recorded \cap DOMAIN db'
      <4>1. m \in recorded /\ m \in 1 .. Len(db')
        BY <3>0, <3>1, <3>2
      <4>2. db'[m] = db[m]
        BY <3>0, <3>2, <4>1, PrefixFacts
      <4> QED BY <2>3, <3>1, <4>1, <4>2 DEF OnRecord
    <3>3. CASE /\ IsPrefix(db, chain) /\ Len(db) < Len(chain)
               /\ db' = Append(db, chain[Len(db) + 1])
               /\ recorded' \in {recorded, recorded \cup {Len(db')}}
      <4>0. Len(db) + 1 \in 1 .. Len(chain) /\ Len(db) + 1 \in DOMAIN chain
        BY <3>0, <3>3
      <4>1. /\ Len(db') = Len(db) + 1 /\ db'[Len(db) + 1] = chain[Len(db) + 1]
            /\ \A i \in 1 .. Len(db) : db'[i] = db[i]
        BY <3>0, <3>3, <4>0, AppendProperties
      <4>2. m \notin recorded
        BY <2>3, <3>0, <3>1, <4>1 DEF OnRecord
      <4>3. m = Len(db) + 1 /\ n \in chain[m].spent
        BY <3>1, <3>3, <4>1, <4>2
      <4>4. m \notin DOMAIN db
        BY <3>0, <4>3
      <4>5. OnChain(n) # {}
        BY <4>0, <4>3, <4>4, ChainPlace
      <4>6. InPipeline(n) # {} \/ PlacesOf(queue, n) # {} \/ OnWire(n) # {}
        <5>1. n \notin SpentBy(<<>>)
          BY DEF SpentBy, ToSet
        <5>2. n \in SpentBy(queue) => PlacesOf(queue, n) # {}
          BY DEF SpentBy, ToSet, PlacesOf
        <5> QED BY <2>1, <5>1, <5>2 DEF Underway, InPipeline, OnWire
      <4> QED BY <1>0, <4>5, <4>6, AliveTwice
    <3> QED BY <1>2, <3>2, <3>3, StoreFacts
  <2> QED BY <2>2, <2>3
<1> QED
  BY <1>1, <1>2
     DEF Next, MempoolStep, BuilderStep, L1Step, Leaves, StartBuild, FetchDeposits, Predict,
         Send, Receive, GiveUp, Fault, Restart, Mine, OtherPost, Challenge, DepositMade,
         DayPasses, EpochTurns

(* A block that lands spends again only what is contested, or what a block *)
(* in the database spends that has its nullifiers not on record.           *)
LEMMA LandedAgain ==
    ASSUME TypeOK, CountedOK, TwiceOK, RecordOK, NEW t \in wire,
           NEW n \in SpentAgain(chain, t.batch) \ contested
    PROVE  \E m \in DOMAIN db \ recorded :
               m \in DOMAIN chain /\ n \in chain[m].spent /\ IsPrefix(SubSeq(chain, 1, m), db)
<1>1. t.batch \in Seq(Submitted) /\ n \in SpentBy(t.batch) /\ n \in Nullifiers
  <2>1. t.batch \in Seq(Submitted)
    BY DEF TypeOK, L1TypeOK, Transaction
  <2> QED BY <2>1, SpendsFacts DEF SpentAgain
<1>2. ~Twice(t.batch, n)
  BY <1>1 DEF TwiceOK
<1>3. PICK m \in DOMAIN chain : n \in chain[m].spent
  BY <1>2 DEF SpentAgain, SpentIn
<1>4. m \notin OnChain(n)
  <2>1. t \in OnWire(n)
    BY <1>1 DEF OnWire
  <2> QED BY <1>1, <2>1, AliveTwice
<1>5. m \in DOMAIN db /\ db[m] = chain[m] /\ IsPrefix(SubSeq(chain, 1, m), db)
  BY <1>3, <1>4, ChainPlace
<1>6. m \notin recorded
  <2>1. Underway(n)
    BY <1>1 DEF Underway
  <2> QED BY <1>3, <1>5, <2>1 DEF RecordOK, OnRecord
<1> QED BY <1>3, <1>5, <1>6

(* What excuses block k of chain c: a block before it in database d, as it *)
(* is on the chain, with nullifier n not on record r.                      *)
Excused(c, d, r, k, n) ==
    \E m \in 1 .. Len(d) :
        m < k /\ m \notin r /\ n \in c[m].spent /\ \A i \in 1 .. m : c[i] = d[i]

(* AgainOK, place by place.                                                *)
LEMMA ExcusedFacts ==
    ASSUME chain \in Seq(ChainBlock), db \in Seq(ChainBlock)
    PROVE  AgainOK <=>
               \A k \in 1 .. Len(chain) : \A n \in chain[k].again \ contested :
                   Excused(chain, db, recorded, k, n)
<1>1. ASSUME NEW k \in 1 .. Len(chain), NEW m \in 1 .. Len(db), m < k
      PROVE  IsPrefix(SubSeq(chain, 1, m), db) <=> \A i \in 1 .. m : chain[i] = db[i]
  BY <1>1, PrefixOf
<1>2. DOMAIN chain = 1 .. Len(chain) /\ DOMAIN db = 1 .. Len(db)
  OBVIOUS
<1> QED BY <1>1, <1>2 DEF AgainOK, Excused

(* What excuses a block stays while it stands.                             *)
LEMMA AgainStep ==
    ASSUME TypeOK, CountedOK, TwiceOK, RecordOK, AgainOK, Next
    PROVE  AgainOK'
<1>0. /\ chain \in Seq(ChainBlock) /\ db \in Seq(ChainBlock)
      /\ chain' \in Seq(ChainBlock) /\ db' \in Seq(ChainBlock)
      /\ contested \subseteq contested' /\ recorded \subseteq 1 .. Len(db)
  BY TypeStep, CountedStep DEF TypeOK, L1TypeOK, DbTypeOK
<1>1. \A k \in 1 .. Len(chain) : \A n \in chain[k].again \ contested :
          Excused(chain, db, recorded, k, n)
  BY <1>0, ExcusedFacts
<1>2. ASSUME \A k \in 1 .. Len(chain') : \A n \in chain'[k].again \ contested :
                 Excused(chain', db', recorded', k, n)
      PROVE  AgainOK'
  <2>1. ASSUME NEW k \in 1 .. Len(chain'), NEW m \in 1 .. Len(db'), m < k
        PROVE  IsPrefix(SubSeq(chain', 1, m), db') <=> \A i \in 1 .. m : chain'[i] = db'[i]
    BY <1>0, <2>1, PrefixOf
  <2>2. DOMAIN chain' = 1 .. Len(chain') /\ DOMAIN db' = 1 .. Len(db')
    BY <1>0
  <2> QED BY <1>0, <1>2, <2>1, <2>2 DEF AgainOK, Excused
<1>3. ASSUME UNCHANGED dbVars,
             NEW k \in 1 .. Len(chain), k <= Len(chain'), \A i \in 1 .. k : chain'[i] = chain[i],
             NEW n \in chain'[k].again \ contested
      PROVE  Excused(chain', db', recorded', k, n)
  <2>1. PICK m \in 1 .. Len(db) : /\ m < k /\ m \notin recorded /\ n \in chain[m].spent
                                  /\ \A i \in 1 .. m : chain[i] = db[i]
    <3>1. chain'[k] = chain[k]
      BY <1>3
    <3> QED BY <1>1, <1>3, <3>1 DEF Excused
  <2>2. \A i \in 1 .. m : i \in 1 .. k /\ chain'[i] = chain[i]
    BY <1>0, <1>3, <2>1
  <2> QED BY <1>0, <1>3, <2>1, <2>2 DEF Excused, dbVars
<1>4. ASSUME NEW b \in ChainBlock, chain' = Append(chain, b), UNCHANGED dbVars,
             \A n \in b.again \ contested : Excused(chain', db', recorded', Len(chain) + 1, n)
      PROVE  AgainOK'
  <2>1. /\ Len(chain') = Len(chain) + 1 /\ chain'[Len(chain) + 1] = b
        /\ \A i \in 1 .. Len(chain) : chain'[i] = chain[i]
    BY <1>0, <1>4, AppendProperties
  <2>2. \A k \in 1 .. Len(chain') : k \in 1 .. Len(chain) \/ k = Len(chain) + 1
    BY <1>0, <2>1
  <2>3. ASSUME NEW k \in 1 .. Len(chain)
        PROVE  k <= Len(chain') /\ \A i \in 1 .. k : chain'[i] = chain[i]
    BY <1>0, <2>1
  <2> QED BY <1>2, <1>3, <1>4, <2>1, <2>2, <2>3
<1>5. ASSUME NEW t \in wire, Mine(t)
      PROVE  AgainOK'
  <2>1. CASE ~Accepts(t)
    <3>1. UNCHANGED <<chain, db, recorded>>
      BY <1>5, <2>1 DEF Mine, dbVars
    <3> QED BY <1>1, <1>2, <3>1
  <2>2. CASE Accepts(t)
    <3>1. /\ chain' = Append(chain, Landed(t)) /\ UNCHANGED dbVars
          /\ Landed(t) \in ChainBlock /\ Landed(t).again = SpentAgain(chain, t.batch)
      BY <1>5, <2>2, LandedType DEF Mine, Landed, TypeOK, L1TypeOK
    <3>2. \A i \in 1 .. Len(chain) : chain'[i] = chain[i]
      BY <1>0, <3>1, AppendProperties
    <3>3. ASSUME NEW n \in Landed(t).again \ contested
          PROVE  Excused(chain', db', recorded', Len(chain) + 1, n)
      <4>1. PICK m \in DOMAIN db \ recorded :
                m \in DOMAIN chain /\ n \in chain[m].spent /\ IsPrefix(SubSeq(chain, 1, m), db)
        BY <3>1, <3>3, LandedAgain
      <4>2. m \in 1 .. Len(db) /\ m \in 1 .. Len(chain)
        BY <1>0, <4>1
      <4>3. \A i \in 1 .. m : chain[i] = db[i]
        BY <1>0, <4>1, <4>2, PrefixOf
      <4>4. m < Len(chain) + 1 /\ \A i \in 1 .. m : chain'[i] = chain[i]
        BY <1>0, <3>2, <4>2
      <4> QED BY <3>1, <4>1, <4>2, <4>3, <4>4 DEF Excused, dbVars
    <3> QED BY <1>4, <3>1, <3>3
  <2> QED BY <2>1, <2>2
<1>6. ASSUME NEW spent \in OtherSpends, OtherPost(spent)
      PROVE  AgainOK'
  <2> DEFINE b == [own |-> FALSE, batch |-> <<>>, spent |-> spent, slot |-> SlotBehind(chain, day),
                   again |-> {}, misplaced |-> FALSE]
  <2>1. b \in ChainBlock
    <3>1. SlotBehind(chain, day) \in Slots
      BY SlotBehindType DEF TypeOK, L1TypeOK
    <3> QED BY <3>1 DEF ChainBlock, Notes
  <2>2. b.again = {} /\ chain' = Append(chain, b) /\ UNCHANGED dbVars
    BY <1>6 DEF OtherPost
  <2> HIDE DEF b
  <2> QED BY <1>4, <2>1, <2>2
<1>7. ASSUME NEW p \in DOMAIN chain, Challenge(p)
      PROVE  AgainOK'
  <2>1. p - 1 \in 0 .. Len(chain) /\ chain' = SubSeq(chain, 1, p - 1) /\ UNCHANGED dbVars
    BY <1>0, <1>7 DEF Challenge
  <2>2. /\ Len(chain') = p - 1
        /\ \A i \in 1 .. p - 1 : chain'[i] = chain[i]
    BY <1>0, <2>1, FirstEntries
  <2>3. ASSUME NEW k \in 1 .. Len(chain')
        PROVE  k \in 1 .. Len(chain) /\ k <= Len(chain') /\ \A i \in 1 .. k : chain'[i] = chain[i]
    BY <1>0, <2>1, <2>2
  <2> QED BY <1>2, <1>3, <2>1, <2>3
<1>8. CASE Store
  <2>0. chain' = chain
    BY <1>8 DEF Store, l1Vars
  <2> SUFFICES ASSUME NEW k \in 1 .. Len(chain), NEW n \in chain[k].again \ contested
               PROVE  Excused(chain, db', recorded', k, n)
    BY <1>2, <2>0
  <2>1. PICK m \in 1 .. Len(db) : /\ m < k /\ m \notin recorded /\ n \in chain[m].spent
                                  /\ \A i \in 1 .. m : chain[i] = db[i]
    BY <1>1 DEF Excused
  <2>2. CASE /\ IsPrefix(db, chain) /\ Len(db) < Len(chain)
             /\ db' = Append(db, chain[Len(db) + 1])
             /\ recorded' \in {recorded, recorded \cup {Len(db')}}
    <3>1. chain[Len(db) + 1] \in ChainBlock
      BY <1>0, <2>2
    <3>2. /\ Len(db') = Len(db) + 1
          /\ \A i \in 1 .. Len(db) : db'[i] = db[i]
      BY <1>0, <2>2, <3>1, AppendProperties
    <3>3. m \in 1 .. Len(db') /\ m \notin recorded' /\ \A i \in 1 .. m : chain[i] = db'[i]
      BY <1>0, <2>1, <2>2, <3>2
    <3> QED BY <2>1, <3>3 DEF Excused
  <2>3. CASE /\ IsPrefix(db', db)
             /\ \A x \in 0 .. Len(chain) : IsPrefix(SubSeq(chain, 1, x), db) => x <= Len(db')
             /\ recorded' = recorded \cap DOMAIN db'
    <3>0. m \in 0 .. Len(chain) /\ m <= Len(db)
      BY <1>0, <2>1
    <3>1. IsPrefix(SubSeq(chain, 1, m), db)
      BY <1>0, <2>1, <3>0, PrefixOf
    <3>2. m \in 1 .. Len(db')
      BY <1>0, <2>1, <2>3, <3>0, <3>1
    <3>3. \A i \in 1 .. m : db'[i] = db[i]
      BY <1>0, <2>3, <3>2, PrefixFacts
    <3> QED BY <2>1, <2>3, <3>2, <3>3 DEF Excused
  <2> QED BY <1>8, <2>2, <2>3, StoreFacts
<1>9. CASE UNCHANGED <<chain, db, recorded>>
  BY <1>1, <1>2, <1>9
<1> QED
  BY <1>5, <1>6, <1>7, <1>8, <1>9
     DEF Next, MempoolStep, BuilderStep, L1Step, Leaves, StartBuild, FetchDeposits, Predict,
         Send, Receive, GiveUp, Fault, Restart, DepositMade, DayPasses, EpochTurns, l1Vars, dbVars

-----------------------------------------------------------------------------
(* The theorems.                                                           *)

SequencerInv ==
    /\ TypeOK
    /\ LineOK
    /\ AcceptedNotLost
    /\ PendingHasOwner
    /\ CountedOK
    /\ WaitingOK
    /\ TwiceOK
    /\ RecordOK
    /\ AgainOK

(* The initial states satisfy the invariant.                               *)
LEMMA SequencerInitial == Init => SequencerInv
<1> SUFFICES ASSUME Init PROVE SequencerInv
  OBVIOUS
<1>1. TypeOK
  BY TypeInitial
<1>2. LineOK /\ AcceptedNotLost /\ PendingHasOwner /\ WaitingOK
  BY DEF Init, MempoolInit, Idle, LineOK, Line, AcceptedNotLost, PendingHasOwner, WaitingOK, ToSet
<1>3. TwiceOK /\ RecordOK /\ AgainOK
  BY DEF Init, Idle, TwiceOK, Twice, RecordOK, OnRecord, AgainOK
<1>4. CountedOK
  <2> SUFFICES ASSUME NEW n PROVE LiveSpends(n) = 0
    BY DEF CountedOK, Contested
  <2>1. /\ InPipeline(n) = {} /\ PlacesOf(queue, n) = {} /\ PlacesOf(builder.batch, n) = {}
        /\ OnChain(n) = {} /\ OnWire(n) = {}
    BY DEF Init, MempoolInit, Idle, InPipeline, PlacesOf, OnChain, OnWire
  <2>2. LiveSpends(n) = Cardinality(InPipeline(n)) + Cardinality(PlacesOf(queue, n))
            + (IF builder.pc \in {"sent", "included"} THEN 0
               ELSE Cardinality(PlacesOf(builder.batch, n)))
            + Cardinality(OnChain(n)) + Cardinality(OnWire(n))
    BY DEF LiveSpends, InPipeline, PlacesOf, OnChain, OnWire
  <2> QED BY <2>1, <2>2, FS_EmptySet
<1> QED BY <1>1, <1>2, <1>3, <1>4 DEF SequencerInv

(* Every step preserves the invariant.                                     *)
LEMMA SequencerStep == SequencerInv /\ [Next]_vars => SequencerInv'
<1> SUFFICES ASSUME SequencerInv, [Next]_vars PROVE SequencerInv'
  OBVIOUS
<1>1. CASE Next
  BY <1>1, TypeStep, LineStep, AcceptedNotLostStep, PendingHasOwnerStep, CountedStep, WaitingStep,
     TwiceStep, RecordStep, AgainStep DEF SequencerInv
<1>2. CASE UNCHANGED vars
  <2>1. TypeOK'
    BY <1>2, TypeStep DEF SequencerInv
  <2>2. (LineOK /\ AcceptedNotLost /\ PendingHasOwner /\ WaitingOK)'
    BY <1>2 DEF SequencerInv, vars, programVars, mempoolVars, l1Vars, dbVars, LineOK, Line,
       AcceptedNotLost, PendingHasOwner, WaitingOK
  <2>3. (TwiceOK /\ RecordOK /\ AgainOK)'
    BY <1>2 DEF SequencerInv, vars, programVars, mempoolVars, l1Vars, dbVars, TwiceOK, RecordOK,
       OnRecord, Underway, AgainOK
  <2>4. CountedOK'
    BY <1>2 DEF SequencerInv, vars, programVars, mempoolVars, l1Vars, dbVars, CountedOK, Contested,
       LiveSpends
  <2> QED BY <2>1, <2>2, <2>3, <2>4 DEF SequencerInv
<1> QED BY <1>1, <1>2

(* The invariant holds in every state.                                     *)
LEMMA SequencerAlways == Spec => []SequencerInv
  BY SequencerInitial, SequencerStep, PTL DEF Spec

(* Every state has its type.                                               *)
THEOREM SequencerTypes == Spec => []TypeOK
<1>1. SequencerInv => TypeOK
  BY DEF SequencerInv
<1> QED BY <1>1, SequencerAlways, PTL

(* No call that fails, and no late receipt, loses an accepted transaction. *)
THEOREM AcceptedTransactionsAreKept == Spec => []AcceptedNotLost
<1>1. SequencerInv => AcceptedNotLost
  BY DEF SequencerInv
<1> QED BY <1>1, SequencerAlways, PTL

(* No pending nullifier is left behind, but by a client that went away.    *)
THEOREM PendingNullifiersAreOwned == Spec => []PendingHasOwner
<1>1. SequencerInv => PendingHasOwner
  BY DEF SequencerInv
<1> QED BY <1>1, SequencerAlways, PTL

(* What waits in the queue keeps its nullifiers pending.                   *)
THEOREM WaitingTransactionsArePending == Spec => []WaitingIsPending
<1>1. SequencerInv => WaitingIsPending
  BY DEF SequencerInv, WaitingOK, WaitingIsPending
<1> QED BY <1>1, SequencerAlways, PTL

(* The sequencer spends a note again only where two spends were alive at   *)
(* one time or the first was never recorded.                               *)
THEOREM DoubleSpendsWereContested == Spec => []SpentAgainWasContested
<1>1. SequencerInv => SpentAgainWasContested
  <2> SUFFICES ASSUME SequencerInv, NEW k \in DOMAIN chain, NEW n \in chain[k].again \ contested
               PROVE  n \in UNION {chain[m].spent : m \in (1 .. k - 1) \cap (DOMAIN db \ recorded)}
    BY DEF SpentAgainWasContested
  <2>1. PICK m \in DOMAIN db \ recorded : m < k /\ n \in chain[m].spent
    BY DEF SequencerInv, AgainOK
  <2>2. DOMAIN db = 1 .. Len(db) /\ k \in Nat
    BY DEF SequencerInv, TypeOK, DbTypeOK, L1TypeOK
  <2>3. m \in 1 .. k - 1
    BY <2>1, <2>2
  <2> QED BY <2>1, <2>3
<1> QED BY <1>1, SequencerAlways, PTL

(* No failure lets a transaction overtake another.                         *)
THEOREM LineStaysInOrder == Spec => FirstComeFirstServed
<1> DEFINE Ordered ==
        \A i, j \in DOMAIN Line' : \A k, l \in DOMAIN Line :
            Line[k] = Line'[i] /\ Line[l] = Line'[j] /\ k < l => i < j
<1>1. SequencerInv /\ [Next]_vars => [Ordered]_vars
  <2> SUFFICES ASSUME SequencerInv, Next PROVE Ordered
    OBVIOUS
  <2> QED BY OrderStep DEF SequencerInv
<1>2. Spec => [][Ordered]_vars
  BY <1>1, SequencerAlways, PTL DEF Spec
<1> QED BY <1>2 DEF FirstComeFirstServed
=============================================================================
