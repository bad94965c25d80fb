--------------------------- MODULE EventLoopProofs ---------------------------
(* Proofs about EventLoop for every value of its constants.                *)
(* EventLoopInv is inductive and implies its four invariants.              *)
EXTENDS EventLoop, SpineProofs, NaturalsInduction, WellFoundedInduction

Table(K, V) == UNION {[D -> V] : D \in SUBSET K}

Row == [nr : Nat, root : Seq(Blobs)]

FraudType == {"deposit", "tree"}

Pending == [nr : Nat, at : Nat, type : FraudType, count : Nat]

Fraud == [nr : Nat, at : Nat, type : FraudType]

Database ==
    [blocks : Table(Nat, BlockData), roots : Table(TimestampAndIndex, Row),
     pending : SUBSET Pending, progress : Nat \cup {None}]

Event == [kind : {"NewRoot", "Rollback"}, chain : Seq(BlockData), at : Nat]

EventTypeOK ==
    /\ log \in Seq(Event)
    /\ db \in Database /\ work \in Database
    /\ pc \in {"retry", "event", "submit", "sleep", "down"}
    /\ shutdown \in BOOLEAN /\ missed \in BOOLEAN
    /\ listener \in Nat
    /\ batch \subseteq DOMAIN log
    /\ tracker \in Table(TimestampAndIndex, Seq(Blobs))
    /\ frauds \in Seq(Fraud)
    /\ retries \subseteq Pending
    /\ faults \in Nat

-----------------------------------------------------------------------------
(* The inductive invariant.                                                *)

(* The chain after the first c events.                                     *)
ChainAfter(c) == IF c = 0 THEN <<>> ELSE log[c].chain

BlocksOf(c) == [n \in 0 .. Len(c) - 1 |-> c[n + 1]]

SeenBy(k) == {i \in DOMAIN log : log[i].at <= k}

(* What one chain of the log looks like that was current at time k.        *)
ChainOK(c, k) ==
    \A i \in 1 .. Len(c) :
        /\ c[i].blockNr = i - 1
        /\ c[i].timestamp <= k
        /\ \A j \in 1 .. i - 1 : c[j].blockIndex # c[i].blockIndex

(* Event e takes chain p to its own.                                       *)
Follows(e, p) ==
    /\ e.kind = "NewRoot" =>
           /\ Len(e.chain) = Len(p) + 1
           /\ \A k \in 1 .. Len(p) : e.chain[k] = p[k]
           /\ e.chain[Len(e.chain)].timestamp = e.at
    /\ e.kind = "Rollback" =>
           /\ Len(e.chain) <= Len(p)
           /\ \A k \in 1 .. Len(e.chain) : e.chain[k] = p[k]

LogOK ==
    /\ \A i \in DOMAIN log :
           /\ 0 < log[i].at /\ log[i].at <= now
           /\ ChainOK(log[i].chain, log[i].at)
           /\ Follows(log[i], ChainAfter(i - 1))
    /\ \A i, j \in DOMAIN log : i <= j => log[i].at <= log[j].at
    /\ roots = ChainAfter(Len(log))

(* A block of the chain came with an event and is in every chain since.    *)
StandingOK ==
    \A n \in BlockNumbers :
        \E i \in DOMAIN log :
            /\ log[i].at = Block(n).timestamp
            /\ \A j \in DOMAIN log :
                   j >= i => n < Len(log[j].chain) /\ log[j].chain[n + 1] = Block(n)

(* What goes with the place the loop is at.                                *)
PhaseOK ==
    /\ listener < now /\ Recorded(db) < now
    /\ \A i \in batch : log[i].at <= listener
    /\ pc = "submit" <=> frauds # <<>>
    /\ pc # "retry" => retries = {}
    /\ retries \subseteq db.pending
    /\ pc \in {"retry", "sleep", "down"} => work = db /\ batch = {}

(* The events done are the first ones, and the blocks the chain they made. *)
UpTo(done, blocks) ==
    \E c \in 0 .. Len(log) : done = 1 .. c /\ blocks = BlocksOf(ChainAfter(c))

(* The committed blocks are the chain after the events up to the progress; *)
(* those in the transaction, after the events that are done.               *)
TablesOK ==
    /\ UpTo(SeenBy(Recorded(db)), db.blocks)
    /\ pc # "down" => UpTo(SeenBy(listener) \ batch, work.blocks)
    /\ pc \in {"retry", "sleep"} => SeenBy(Recorded(db)) = SeenBy(listener)

Stands(w, p) == p.nr \in DOMAIN w.blocks /\ w.blocks[p.nr].timestamp = p.at

Found == {frauds[i] : i \in DOMAIN frauds}

PendingOK ==
    /\ \A p \in db.pending : Stands(db, p)
    /\ \A p \in work.pending \cup Found : Stands(work, p)

(* If block n is b and a fraud that the tables have, it is on record.      *)
Answered(w, found, n, b) ==
    n \in DOMAIN w.blocks /\ w.blocks[n] = b /\ WrongLeaf(b) /\ ~NullifiersRefused(b)
    => \E p \in w.pending \cup found : p.nr = n /\ p.type = "deposit"

FraudOK ==
    \A n \in BlockNumbers :
        Answered(db, {}, n, Block(n)) /\ Answered(work, Found, n, Block(n))

Rows(w) ==
    \A n \in DOMAIN w.blocks :
        w.blocks[n].numTransactions = 0 =>
            /\ w.blocks[n].blockIndex \in DOMAIN w.roots
            /\ w.roots[w.blocks[n].blockIndex].nr = n

TreeOK ==
    /\ pc # "down" => tracker = TrackerOf(work)
    /\ Rows(db) /\ Rows(work)

LoopOK == TablesOK /\ PendingOK /\ FraudOK /\ TreeOK

EventLoopInv ==
    /\ EventTypeOK
    /\ SpineInv
    /\ LogOK
    /\ StandingOK
    /\ PhaseOK
    /\ missed \/ Reordered \/ LoopOK

-----------------------------------------------------------------------------
(* Lemmas about numbers and tables.                                        *)

(* A set of numbers has a least one.                                       *)
LEMMA Least ==
    ASSUME NEW T, T \subseteq Nat, T # {}
    PROVE  \E x \in T : \A y \in T : x <= y
<1>1. PICK x \in T : \A y \in T : ~ (<<y, x>> \in OpToRel(<, Nat))
  BY NatLessThanWellFounded, WFMin
<1>2. \A y \in T : ~(y < x)
  BY <1>1 DEF OpToRel
<1> QED BY <1>2

(* Later seconds are not on earlier days.                                  *)
LEMMA DivMonotone ==
    ASSUME NEW a \in Nat, NEW b \in Nat, NEW d \in Nat \ {0}, a <= b
    PROVE  a \div d <= b \div d
  OBVIOUS

(* Table as the rest of the proofs use it.                                 *)
LEMMA TableFacts ==
    ASSUME NEW K, NEW V, NEW f
    PROVE  f \in Table(K, V) <=> DOMAIN f \subseteq K /\ f \in [DOMAIN f -> V]
<1>1. ASSUME f \in Table(K, V) PROVE DOMAIN f \subseteq K /\ f \in [DOMAIN f -> V]
  <2>1. PICK D \in SUBSET K : f \in [D -> V]
    BY <1>1 DEF Table
  <2> QED BY <2>1
<1>2. ASSUME DOMAIN f \subseteq K, f \in [DOMAIN f -> V] PROVE f \in Table(K, V)
  BY <1>2 DEF Table
<1> QED BY <1>1, <1>2

(* What is in a database.                                                  *)
LEMMA DatabaseFacts ==
    ASSUME NEW w \in Database
    PROVE  /\ DOMAIN w.blocks \subseteq Nat /\ w.blocks \in [DOMAIN w.blocks -> BlockData]
           /\ DOMAIN w.roots \subseteq TimestampAndIndex
           /\ w.roots \in [DOMAIN w.roots -> Row]
           /\ w.pending \subseteq Pending
           /\ w.progress \in Nat \cup {None}
           /\ Recorded(w) \in Nat
<1>1. w.blocks \in Table(Nat, BlockData) /\ w.roots \in Table(TimestampAndIndex, Row)
  BY DEF Database
<1>2. /\ DOMAIN w.blocks \subseteq Nat /\ w.blocks \in [DOMAIN w.blocks -> BlockData]
      /\ DOMAIN w.roots \subseteq TimestampAndIndex
      /\ w.roots \in [DOMAIN w.roots -> Row]
  BY <1>1, TableFacts
<1> QED BY <1>2 DEF Database, Recorded

(* No two blocks of the chain share a slot of the tree: slots of one day   *)
(* count up, and days do not come back.                                    *)
LEMMA SlotsAreDistinct ==
    ASSUME SpineInv, NEW m \in BlockNumbers, NEW n \in BlockNumbers, m < n
    PROVE  Block(m).blockIndex # Block(n).blockIndex
<1> SUFFICES ASSUME Block(m).blockIndex = Block(n).blockIndex PROVE FALSE
  OBVIOUS
<1> DEFINE day(k) == Block(k).blockIndex.day
           index(k) == Block(k).blockIndex.index
           Late == {k \in BlockNumbers : m < k /\ k <= n /\ index(k) <= index(m)}
<1>1. \A k \in BlockNumbers : day(k) \in Nat /\ index(k) \in Nat
  BY BlockType DEF BlockData, TimestampAndIndex, SpineInv
<1>2. \A k \in BlockNumbers : \A j \in 0 .. k : day(j) <= day(k)
  <2> SUFFICES ASSUME NEW k \in BlockNumbers, NEW j \in 0 .. k PROVE day(j) <= day(k)
    OBVIOUS
  <2>1. j \in BlockNumbers
    BY DEF BlockNumbers, SpineInv, SpineTypeOK, Height
  <2>2. Block(j).timestamp \in Nat /\ Block(k).timestamp \in Nat
    BY <2>1, BlockType DEF BlockData, SpineInv
  <2>3. START <= Block(j).timestamp /\ Block(j).timestamp <= Block(k).timestamp
    BY <2>1 DEF SpineInv, ChainOrdered
  <2>4. /\ day(j) = (Block(j).timestamp - START) \div DAY
        /\ day(k) = (Block(k).timestamp - START) \div DAY
    BY <2>1 DEF SpineInv, SlotAfterPredecessor
  <2>5. /\ Block(j).timestamp - START \in Nat /\ Block(k).timestamp - START \in Nat
        /\ Block(j).timestamp - START <= Block(k).timestamp - START
        /\ DAY \in Nat \ {0}
    BY <2>2, <2>3, L1Assumption, SpineAssumption
  <2> QED BY <2>4, <2>5, DivMonotone
<1>3. n \in Late /\ Late \subseteq Nat /\ m \in Nat /\ n \in Nat /\ m < n
  BY <1>1 DEF BlockNumbers
<1>4. PICK k \in Late : \A j \in Late : k <= j
  BY <1>3, Least
<1>5. /\ k \in BlockNumbers /\ k \in Nat /\ m < k /\ k <= n /\ k - 1 \in Nat /\ m <= k - 1
      /\ k - 1 \in BlockNumbers /\ index(k) <= index(m)
  BY <1>3, <1>4 DEF BlockNumbers, SpineInv, SpineTypeOK, Height
<1>6. day(k - 1) = day(k)
  <2>1. day(m) <= day(k - 1) /\ day(k - 1) <= day(k) /\ day(k) <= day(n)
    BY <1>2, <1>3, <1>5
  <2>2. day(m) = day(n)
    OBVIOUS
  <2> QED BY <2>1, <2>2, <1>1, <1>5
<1>7. index(k) = index(k - 1) + 1
  BY <1>5, <1>6 DEF SpineInv, SlotAfterPredecessor
<1>8. index(k - 1) < index(m)
  BY <1>1, <1>5, <1>7
<1>9. k - 1 # m
  BY <1>1, <1>5, <1>8
<1>10. k - 1 \in Late
  BY <1>1, <1>3, <1>5, <1>8, <1>9
<1> QED BY <1>4, <1>5, <1>10

-----------------------------------------------------------------------------
(* Lemmas about the log.                                                   *)

(* An event of the log, and the chain before it.                           *)
LEMMA EventFacts ==
    ASSUME log \in Seq(Event), NEW i \in DOMAIN log
    PROVE  /\ log[i] \in Event /\ i \in Nat /\ i > 0 /\ i <= Len(log)
           /\ log[i].chain \in Seq(BlockData) /\ log[i].at \in Nat
           /\ log[i].kind \in {"NewRoot", "Rollback"}
           /\ i \in 1 .. Len(log) /\ i - 1 \in 0 .. Len(log)
           /\ ChainAfter(i) = log[i].chain
<1>1. log[i] \in Event /\ i \in 1 .. Len(log) /\ Len(log) \in Nat
  OBVIOUS
<1>2. i \in Nat /\ i > 0 /\ i <= Len(log) /\ i - 1 \in 0 .. Len(log)
  BY <1>1
<1>3. ChainAfter(i) = log[i].chain
  BY <1>2 DEF ChainAfter
<1> QED BY <1>1, <1>2, <1>3 DEF Event

(* The chain after some events is one of blocks.                           *)
LEMMA ChainAfterType ==
    ASSUME log \in Seq(Event), NEW c \in 0 .. Len(log)
    PROVE  ChainAfter(c) \in Seq(BlockData) /\ Len(ChainAfter(c)) \in Nat
<1>1. CASE c = 0
  BY <1>1 DEF ChainAfter
<1>2. CASE c # 0
  BY <1>2, EventFacts DEF ChainAfter
<1> QED BY <1>1, <1>2

(* The events of a batch have a first one in the order they are processed; *)
(* it is the least place unless a rollback came before a post within one   *)
(* L1 block.                                                               *)
LEMMA NextEventFacts ==
    ASSUME EventTypeOK, LogOK, batch # {}
    PROVE  /\ NextEvent \in batch /\ NextEvent \in DOMAIN log
           /\ ~Reordered => \A i \in batch : NextEvent <= i
<1>1. batch \subseteq DOMAIN log /\ DOMAIN log \subseteq Nat
      /\ \A i \in DOMAIN log : log[i].at \in Nat /\ log[i].kind \in {"NewRoot", "Rollback"}
  BY EventFacts DEF EventTypeOK
<1>2. PICK first \in batch : \A i \in batch : first <= i
  BY <1>1, Least
<1>3. \A i \in batch : log[first].at <= log[i].at
  BY <1>1, <1>2 DEF LogOK
<1> DEFINE Posts == {i \in batch : log[i].at = log[first].at /\ log[i].kind = "NewRoot"}
<1>4. \E i \in batch : \A j \in batch \ {i} : Before(i, j)
  <2>1. CASE Posts = {}
    <3>1. \A j \in batch \ {first} : Before(first, j)
      BY <1>1, <1>2, <1>3, <2>1 DEF Before
    <3> QED BY <3>1
  <2>2. CASE Posts # {}
    <3>1. PICK i \in Posts : \A j \in Posts : i <= j
      BY <1>1, <2>2, Least
    <3>2. \A j \in batch \ {i} : Before(i, j)
      BY <1>1, <1>3, <3>1 DEF Before
    <3> QED BY <3>1, <3>2
  <2> QED BY <2>1, <2>2
<1>5. NextEvent \in batch /\ \A j \in batch \ {NextEvent} : Before(NextEvent, j)
  BY <1>4 DEF NextEvent
<1>6. ASSUME ~Reordered, NEW i \in batch, i < NextEvent PROVE FALSE
  <2>1. Before(NextEvent, i) /\ i \in DOMAIN log /\ NextEvent \in DOMAIN log
    BY <1>1, <1>5, <1>6
  <2>2. log[i].at <= log[NextEvent].at
    BY <1>1, <1>6, <2>1 DEF LogOK
  <2>3. log[NextEvent].kind = "NewRoot" /\ log[i].kind = "Rollback" /\ log[i].at = log[NextEvent].at
    BY <1>1, <1>6, <2>1, <2>2 DEF Before
  <2> QED BY <1>6, <2>1, <2>3 DEF Reordered
<1> QED BY <1>1, <1>5, <1>6

(* The chain of the L1 is in order, now.                                   *)
LEMMA ChainIsOK == SpineInv => ChainOK(roots, now)
<1> SUFFICES ASSUME SpineInv, NEW i \in 1 .. Len(roots)
             PROVE  /\ roots[i].blockNr = i - 1
                    /\ roots[i].timestamp <= now
                    /\ \A j \in 1 .. i - 1 : roots[j].blockIndex # roots[i].blockIndex
  BY DEF ChainOK
<1>1. Len(roots) \in Nat /\ \A k \in 1 .. Len(roots) : k - 1 \in BlockNumbers /\ Block(k - 1) = roots[k]
  BY DEF SpineInv, SpineTypeOK, BlockNumbers, Height, Block
<1>2. roots[i].blockNr = i - 1 /\ roots[i].timestamp <= now
  BY <1>1 DEF SpineInv, ChainOrdered
<1>3. ASSUME NEW j \in 1 .. i - 1 PROVE roots[j].blockIndex # roots[i].blockIndex
  <2>1. j \in 1 .. Len(roots) /\ j - 1 < i - 1
    BY <1>1
  <2>2. j - 1 \in BlockNumbers /\ i - 1 \in BlockNumbers /\ Block(j - 1) = roots[j]
        /\ Block(i - 1) = roots[i]
    BY <1>1, <2>1
  <2>3. Block(j - 1).blockIndex # Block(i - 1).blockIndex
    BY <2>1, <2>2, SlotsAreDistinct
  <2> QED BY <2>2, <2>3
<1> QED BY <1>2, <1>3

(* What a step of the system may do to the L1 and its log.                 *)
Moves ==
    /\ now \in Nat /\ now' \in Nat /\ now <= now'
    /\ log' \in Seq(Event) /\ Len(log) <= Len(log')
    /\ \A i \in DOMAIN log : i \in DOMAIN log' /\ log'[i] = log[i]
    /\ \A i \in DOMAIN log' \ DOMAIN log : log'[i].at = now
    /\ \A n \in BlockNumbers' :
           (n \in BlockNumbers /\ Block(n)' = Block(n)) \/ Block(n)'.timestamp = now

(* A step that leaves the L1 alone.                                        *)
LEMMA NoMove ==
    ASSUME SpineInv, log \in Seq(Event), LogOK, StandingOK, UNCHANGED <<spineVars, log>>
    PROVE  SpineInv' /\ LogOK' /\ StandingOK' /\ Moves
<1>1. UNCHANGED spineVars /\ log' = log /\ roots' = roots /\ now' = now
  BY DEF spineVars
<1>2. SpineInv'
  BY <1>1, SpineStep
<1>3. /\ BlockNumbers' = BlockNumbers
      /\ \A n \in BlockNumbers : Block(n)' = Block(n)
      /\ \A c : ChainAfter(c)' = ChainAfter(c)
  BY <1>1 DEF BlockNumbers, Height, Block, ChainAfter
<1>4. LogOK'
  BY <1>1, <1>3 DEF LogOK
<1>5. StandingOK'
  BY <1>1, <1>3 DEF StandingOK
<1>6. Moves
  BY <1>1, <1>3 DEF Moves, SpineInv, SpineTypeOK
<1> QED BY <1>2, <1>4, <1>5, <1>6

(* The passage of time.                                                    *)
LEMMA TickMoves ==
    ASSUME SpineInv, log \in Seq(Event), LogOK, StandingOK, SpineTick, UNCHANGED log
    PROVE  SpineInv' /\ LogOK' /\ StandingOK' /\ Moves
<1>1. log' = log /\ roots' = roots /\ now' = now + 1 /\ now \in Nat
  BY DEF SpineTick, Tick, SpineInv, SpineTypeOK
<1>2. SpineInv'
  BY TickPreserves
<1>3. /\ BlockNumbers' = BlockNumbers
      /\ \A n \in BlockNumbers : Block(n)' = Block(n)
      /\ \A c : ChainAfter(c)' = ChainAfter(c)
  BY <1>1 DEF BlockNumbers, Height, Block, ChainAfter
<1>4. \A i \in DOMAIN log : log[i].at \in Nat
  BY EventFacts
<1>5. LogOK'
  BY <1>1, <1>3, <1>4 DEF LogOK
<1>6. StandingOK'
  BY <1>1, <1>3 DEF StandingOK
<1>7. Moves
  BY <1>1, <1>3 DEF Moves
<1> QED BY <1>2, <1>5, <1>6, <1>7

(* The L1 emits an event that takes its chain from roots to roots'.        *)
LEMMA EmitFacts ==
    ASSUME SpineInv, SpineInv', log \in Seq(Event), LogOK, now' = now,
           NEW kind \in {"NewRoot", "Rollback"}, Emit(kind),
           Follows([kind |-> kind, chain |-> roots', at |-> now], roots)
    PROVE  /\ log' \in Seq(Event)
           /\ Len(log') = Len(log) + 1 /\ Len(log) \in Nat
           /\ log'[Len(log) + 1] = [kind |-> kind, chain |-> roots', at |-> now]
           /\ \A i \in DOMAIN log : i \in DOMAIN log' /\ log'[i] = log[i]
           /\ DOMAIN log' = DOMAIN log \cup {Len(log) + 1}
           /\ DOMAIN log = 1 .. Len(log)
           /\ LogOK'
<1> DEFINE e == [kind |-> kind, chain |-> roots', at |-> now]
           L == Len(log)
<1>1. log' = Append(log, e) /\ L \in Nat /\ DOMAIN log = 1 .. L
  BY DEF Emit
<1>2. e \in Event /\ now \in Nat /\ 0 < now
  BY L1Assumption DEF Event, SpineInv, SpineTypeOK, ChainOrdered
<1>3. /\ log' \in Seq(Event) /\ Len(log') = L + 1 /\ log'[L + 1] = e
      /\ \A i \in 1 .. L : log'[i] = log[i]
  BY <1>1, <1>2, AppendFacts
<1>4. ChainOK(roots', now)
  <2>1. ChainOK(roots, now)'
    BY ChainIsOK, PTL
  <2> QED BY <2>1 DEF ChainOK
<1>5. Follows(e, roots)
  OBVIOUS
<1>6. e.at = now /\ e.chain = roots'
  OBVIOUS
<1> HIDE DEF e, L
<1>7. DOMAIN log' = 1 .. L + 1 /\ 1 .. L + 1 = (1 .. L) \cup {L + 1} /\ L + 1 # 0
  BY <1>1, <1>3
<1>8. \A c \in 0 .. L : ChainAfter(c)' = ChainAfter(c)
  BY <1>1, <1>3 DEF ChainAfter
<1>9. \A c : c = L + 1 => ChainAfter(c)' = roots'
  BY <1>3, <1>6, <1>7 DEF ChainAfter
<1>10. \A i \in DOMAIN log : log[i].at \in Nat /\ log[i].at <= now
  BY EventFacts DEF LogOK
<1>11. LogOK'
  <2>1. ASSUME NEW i \in DOMAIN log'
        PROVE  /\ 0 < log'[i].at /\ log'[i].at <= now
               /\ ChainOK(log'[i].chain, log'[i].at)
               /\ Follows(log'[i], ChainAfter(i - 1)')
    <3>1. CASE i \in 1 .. L
      <4>1. i - 1 \in 0 .. L /\ log'[i] = log[i] /\ i \in DOMAIN log
        BY <1>1, <1>3, <3>1
      <4> QED BY <4>1, <1>8 DEF LogOK
    <3>2. CASE i = L + 1
      <4>1. i - 1 = L /\ L \in 0 .. L
        BY <1>1, <3>2
      <4>2. ChainAfter(i - 1)' = roots
        BY <4>1, <1>8 DEF LogOK, L
      <4>3. log'[i] = e
        BY <3>2, <1>3
      <4> QED BY <4>2, <4>3, <1>2, <1>4, <1>5, <1>6
    <3> QED BY <3>1, <3>2, <1>7
  <2>2. ASSUME NEW i \in DOMAIN log', NEW j \in DOMAIN log', i <= j
        PROVE  log'[i].at <= log'[j].at
    <3>1. CASE j \in 1 .. L
      <4>1. i \in 1 .. L
        BY <1>1, <1>7, <2>2, <3>1
      <4> QED BY <4>1, <3>1, <2>2, <1>1, <1>3 DEF LogOK
    <3>2. CASE j = L + 1
      BY <3>2, <1>1, <1>2, <1>3, <1>6, <1>7, <1>10
    <3> QED BY <3>1, <3>2, <1>7
  <2>3. roots' = ChainAfter(Len(log))'
    BY <1>3, <1>9 DEF ChainAfter
  <2> QED BY <2>1, <2>2, <2>3 DEF LogOK
<1> QED BY <1>1, <1>3, <1>7, <1>11 DEF e, L

(* An event whose blocks were there already, or are of this very time.     *)
LEMMA EmitMoves ==
    ASSUME SpineInv, SpineInv', log \in Seq(Event), LogOK, StandingOK, now' = now,
           NEW kind \in {"NewRoot", "Rollback"}, Emit(kind),
           Follows([kind |-> kind, chain |-> roots', at |-> now], roots),
           \A n \in BlockNumbers' :
               (n \in BlockNumbers /\ Block(n)' = Block(n)) \/ Block(n)'.timestamp = now
    PROVE  LogOK' /\ StandingOK' /\ Moves
<1> DEFINE e == [kind |-> kind, chain |-> roots', at |-> now]
           L == Len(log)
<1>1. /\ log' \in Seq(Event) /\ Len(log') = L + 1 /\ L \in Nat
      /\ log'[L + 1] = e
      /\ \A i \in DOMAIN log : i \in DOMAIN log' /\ log'[i] = log[i]
      /\ DOMAIN log' = DOMAIN log \cup {L + 1}
      /\ DOMAIN log = 1 .. L
      /\ LogOK'
  BY EmitFacts
<1>2. e.at = now /\ e.chain = roots'
  OBVIOUS
<1>3. \A n \in BlockNumbers' : n < Len(roots') /\ roots'[n + 1] = Block(n)'
  BY DEF SpineInv, SpineTypeOK, BlockNumbers, Height, Block
<1> HIDE DEF e, L
<1>4. StandingOK'
  <2> SUFFICES ASSUME NEW n \in BlockNumbers'
               PROVE  \E i \in DOMAIN log' :
                          /\ log'[i].at = Block(n)'.timestamp
                          /\ \A j \in DOMAIN log' :
                                 j >= i => n < Len(log'[j].chain) /\ log'[j].chain[n + 1] = Block(n)'
    BY DEF StandingOK
  <2>1. CASE n \in BlockNumbers /\ Block(n)' = Block(n)
    <3>1. PICK i \in DOMAIN log :
              /\ log[i].at = Block(n).timestamp
              /\ \A j \in DOMAIN log :
                     j >= i => n < Len(log[j].chain) /\ log[j].chain[n + 1] = Block(n)
      BY <2>1 DEF StandingOK
    <3>2. i \in DOMAIN log' /\ log'[i].at = Block(n)'.timestamp
      BY <1>1, <2>1, <3>1
    <3>3. ASSUME NEW j \in DOMAIN log', j >= i
          PROVE  n < Len(log'[j].chain) /\ log'[j].chain[n + 1] = Block(n)'
      <4>1. CASE j \in DOMAIN log
        BY <4>1, <3>1, <3>3, <1>1, <2>1
      <4>2. CASE j = L + 1
        BY <4>2, <1>1, <1>2, <1>3
      <4> QED BY <4>1, <4>2, <1>1
    <3> QED BY <3>2, <3>3
  <2>2. CASE Block(n)'.timestamp = now
    <3>1. L + 1 \in DOMAIN log' /\ log'[L + 1].at = Block(n)'.timestamp
      BY <1>1, <1>2, <2>2
    <3>2. ASSUME NEW j \in DOMAIN log', j >= L + 1
          PROVE  n < Len(log'[j].chain) /\ log'[j].chain[n + 1] = Block(n)'
      <4>1. j = L + 1
        BY <3>2, <1>1
      <4> QED BY <4>1, <1>1, <1>2, <1>3
    <3> QED BY <3>1, <3>2
  <2> QED BY <2>1, <2>2
<1>5. now \in Nat
  BY DEF SpineInv, SpineTypeOK
<1>6. Moves
  BY <1>1, <1>2, <1>5 DEF Moves, L
<1> QED BY <1>1, <1>4, <1>6

(* A post.                                                                 *)
LEMMA PostMoves ==
    ASSUME SpineInv, log \in Seq(Event), LogOK, StandingOK,
           NEW d \in Submissions, AddBlock(d), Emit("NewRoot")
    PROVE  SpineInv' /\ LogOK' /\ StandingOK' /\ Moves
<1> DEFINE b == Stamped(d)
<1>1. SpineInv' /\ d \in Submission
  BY AddBlockPreserves, SubmissionsAssumption
<1>2. roots' = Append(roots, b) /\ now' = now /\ b.timestamp = now
  BY DEF AddBlock, Stamped
<1>3. b \in BlockData /\ roots \in Seq(BlockData)
  BY <1>1, StampedType DEF SpineInv, SpineTypeOK
<1> HIDE DEF b
<1>4. /\ Len(roots') = Len(roots) + 1 /\ roots'[Len(roots) + 1] = b /\ Len(roots) \in Nat
      /\ \A i \in 1 .. Len(roots) : roots'[i] = roots[i]
  BY <1>2, <1>3, AppendFacts
<1>5. Follows([kind |-> "NewRoot", chain |-> roots', at |-> now], roots)
  BY <1>2, <1>4 DEF Follows
<1>6. ASSUME NEW n \in BlockNumbers'
      PROVE  (n \in BlockNumbers /\ Block(n)' = Block(n)) \/ Block(n)'.timestamp = now
  <2>1. n \in 0 .. Len(roots) /\ Block(n)' = roots'[n + 1]
    BY <1>4 DEF BlockNumbers, Height, Block
  <2>2. CASE n = Len(roots)
    BY <2>1, <2>2, <1>2, <1>4
  <2>3. CASE n # Len(roots)
    <3>1. n \in 0 .. Len(roots) - 1 /\ n + 1 \in 1 .. Len(roots)
      BY <2>1, <2>3, <1>4
    <3> QED BY <3>1, <2>1, <1>4 DEF BlockNumbers, Height, Block
  <2> QED BY <2>2, <2>3
<1>7. LogOK' /\ StandingOK' /\ Moves
  BY <1>1, <1>2, <1>5, <1>6, EmitMoves
<1> QED BY <1>1, <1>7

(* A rollback.                                                             *)
LEMMA RollbackMoves ==
    ASSUME SpineInv, log \in Seq(Event), LogOK, StandingOK,
           NEW m \in BlockNumbers, Rollback(m), Emit("Rollback")
    PROVE  SpineInv' /\ LogOK' /\ StandingOK' /\ Moves
<1>1. SpineInv'
  BY RollbackPreserves
<1>2. /\ roots' = SubSeq(roots, 1, m) /\ now' = now /\ roots \in Seq(BlockData)
      /\ m \in Nat /\ m <= Len(roots) /\ Len(roots) \in Nat
  BY DEF Rollback, BlockNumbers, Height, SpineInv, SpineTypeOK
<1>3. Len(roots') = m /\ \A i \in 1 .. m : roots'[i] = roots[i]
  BY <1>2, PrefixFacts
<1>4. Follows([kind |-> "Rollback", chain |-> roots', at |-> now], roots)
  BY <1>2, <1>3 DEF Follows
<1>5. ASSUME NEW n \in BlockNumbers'
      PROVE  n \in BlockNumbers /\ Block(n)' = Block(n)
  <2>1. n \in 0 .. m - 1
    BY <1>3 DEF BlockNumbers, Height
  <2>2. n \in 0 .. Len(roots) - 1 /\ n + 1 \in 1 .. m
    BY <2>1, <1>2
  <2> QED BY <2>2, <1>3 DEF BlockNumbers, Height, Block
<1>6. LogOK' /\ StandingOK' /\ Moves
  BY <1>1, <1>2, <1>4, <1>5, EmitMoves
<1> QED BY <1>1, <1>6

(* submit_challenge moves the L1 only by a rollback.                       *)
LEMMA SubmitMoves ==
    ASSUME SpineInv, log \in Seq(Event), LogOK, StandingOK,
           NEW n \in Nat, NEW type, SubmitOk(n, type) \/ SubmitErr(n, type)
    PROVE  SpineInv' /\ LogOK' /\ StandingOK' /\ Moves
<1>1. CASE Accepted(work, n, type) /\ Challenge(n)
  <2>1. n \in BlockNumbers
    BY <1>1 DEF Accepted, BlockNumbers, Height, SpineInv, SpineTypeOK
  <2> QED BY <1>1, <2>1, RollbackMoves DEF Challenge
<1>2. CASE UNCHANGED <<spineVars, log>>
  BY <1>2, NoMove
<1> QED BY <1>1, <1>2 DEF SubmitOk, SubmitErr

-----------------------------------------------------------------------------
(* Lemmas about the statements on the tables.                              *)

(* Saving a block.                                                         *)
LEMMA SaveBlockFacts ==
    ASSUME NEW w \in Database, NEW b \in BlockData
    PROVE  LET v == SaveBlock(w, b)
           IN  /\ v \in Database
               /\ v.roots = w.roots /\ v.pending = w.pending /\ v.progress = w.progress
               /\ v.blocks = [n \in DOMAIN w.blocks \cup {b.blockNr} |->
                                 IF n = b.blockNr THEN b ELSE w.blocks[n]]
<1> DEFINE f == [n \in DOMAIN w.blocks \cup {b.blockNr} |->
                    IF n = b.blockNr THEN b ELSE w.blocks[n]]
<1>1. DOMAIN w.blocks \subseteq Nat /\ w.blocks \in [DOMAIN w.blocks -> BlockData]
  BY DatabaseFacts
<1>2. b.blockNr \in Nat
  BY DEF BlockData
<1>3. DOMAIN f \subseteq Nat /\ f \in [DOMAIN f -> BlockData]
  BY <1>1, <1>2
<1>4. SaveBlock(w, b) = [w EXCEPT !.blocks = f]
  BY DEF SaveBlock, Database
<1> HIDE DEF f
<1>5. f \in Table(Nat, BlockData)
  BY <1>3, TableFacts
<1>6. /\ SaveBlock(w, b) \in Database
      /\ SaveBlock(w, b).roots = w.roots /\ SaveBlock(w, b).pending = w.pending
      /\ SaveBlock(w, b).progress = w.progress /\ SaveBlock(w, b).blocks = f
  BY <1>4, <1>5 DEF Database
<1> QED BY <1>6 DEF f

(* Saving the root of a block.                                             *)
LEMMA SaveRootFacts ==
    ASSUME NEW w \in Database, NEW b \in BlockData
    PROVE  LET v == SaveRoot(w, b)
           IN  /\ v \in Database
               /\ v.blocks = w.blocks /\ v.pending = w.pending /\ v.progress = w.progress
               /\ v.roots = [s \in DOMAIN w.roots \cup {b.blockIndex} |->
                                IF s = b.blockIndex
                                THEN [nr |-> b.blockNr, root |-> b.blobhashes]
                                ELSE w.roots[s]]
<1> DEFINE r == [nr |-> b.blockNr, root |-> b.blobhashes]
           f == [s \in DOMAIN w.roots \cup {b.blockIndex} |->
                    IF s = b.blockIndex THEN r ELSE w.roots[s]]
<1>1. DOMAIN w.roots \subseteq TimestampAndIndex /\ w.roots \in [DOMAIN w.roots -> Row]
  BY DatabaseFacts
<1>2. b.blockIndex \in TimestampAndIndex /\ r \in Row
  BY DEF BlockData, Row
<1>3. SaveRoot(w, b) = [w EXCEPT !.roots = f]
  BY DEF SaveRoot, Database
<1>4. /\ DOMAIN f = DOMAIN w.roots \cup {b.blockIndex}
      /\ \A s \in DOMAIN f : f[s] = IF s = b.blockIndex THEN r ELSE w.roots[s]
      /\ f = [s \in DOMAIN f |-> f[s]]
  OBVIOUS
<1> HIDE DEF f, r
<1>5. DOMAIN f \subseteq TimestampAndIndex /\ \A s \in DOMAIN f : f[s] \in Row
  BY <1>1, <1>2, <1>4
<1>6. f \in Table(TimestampAndIndex, Row)
  BY <1>4, <1>5, TableFacts
<1>7. /\ SaveRoot(w, b) \in Database
      /\ SaveRoot(w, b).blocks = w.blocks /\ SaveRoot(w, b).pending = w.pending
      /\ SaveRoot(w, b).progress = w.progress /\ SaveRoot(w, b).roots = f
  BY <1>3, <1>6 DEF Database
<1> QED BY <1>7 DEF f, r

(* Deleting the rows of removed blocks.                                    *)
LEMMA DeleteFromFacts ==
    ASSUME NEW w \in Database, NEW to \in Nat
    PROVE  LET v == DeleteFrom(w, to)
           IN  /\ v \in Database /\ v.progress = w.progress
               /\ v.blocks = [n \in {n \in DOMAIN w.blocks : n < to} |-> w.blocks[n]]
               /\ v.roots = [s \in {s \in DOMAIN w.roots : w.roots[s].nr < to} |-> w.roots[s]]
               /\ v.pending = {p \in w.pending : p.nr < to}
<1> DEFINE f == [n \in {n \in DOMAIN w.blocks : n < to} |-> w.blocks[n]]
           g == [s \in {s \in DOMAIN w.roots : w.roots[s].nr < to} |-> w.roots[s]]
           q == {p \in w.pending : p.nr < to}
<1>1. /\ DOMAIN w.blocks \subseteq Nat /\ w.blocks \in [DOMAIN w.blocks -> BlockData]
      /\ DOMAIN w.roots \subseteq TimestampAndIndex /\ w.roots \in [DOMAIN w.roots -> Row]
      /\ w.pending \subseteq Pending
  BY DatabaseFacts
<1>2. DOMAIN f \subseteq Nat /\ f \in [DOMAIN f -> BlockData]
  BY <1>1
<1>3. DOMAIN g \subseteq TimestampAndIndex /\ g \in [DOMAIN g -> Row]
  BY <1>1
<1>4. q \subseteq Pending
  BY <1>1
<1>5. DeleteFrom(w, to) = [w EXCEPT !.blocks = f, !.roots = g, !.pending = q]
  BY DEF DeleteFrom, Database
<1> HIDE DEF f, g, q
<1>6. f \in Table(Nat, BlockData) /\ g \in Table(TimestampAndIndex, Row)
  BY <1>2, <1>3, TableFacts
<1>7. /\ DeleteFrom(w, to) \in Database /\ DeleteFrom(w, to).progress = w.progress
      /\ DeleteFrom(w, to).blocks = f /\ DeleteFrom(w, to).roots = g
      /\ DeleteFrom(w, to).pending = q
  BY <1>4, <1>5, <1>6 DEF Database
<1> QED BY <1>7 DEF f, g, q

(* Database v is w with other pending challenges.                          *)
PendingIs(v, w, q) ==
    /\ v \in Database
    /\ v.blocks = w.blocks /\ v.roots = w.roots /\ v.progress = w.progress
    /\ v.pending = q

(* Changing the pending challenges.                                        *)
LEMMA PendingFacts ==
    ASSUME NEW w \in Database
    PROVE  /\ \A p \in Pending : PendingIs(WithoutPending(w, p), w, w.pending \ {p})
           /\ \A p \in Pending :
                  \E c \in Pending :
                      /\ c.nr = p.nr /\ c.at = p.at /\ c.type = p.type
                      /\ PendingIs(Counted(w, p), w, (w.pending \ {p}) \cup {c})
           /\ \A f \in Fraud :
                  PendingIs(SavePending(w, f), w, w.pending \cup
                      {[nr |-> f.nr, at |-> f.at, type |-> f.type, count |-> 0]})
<1> DEFINE T == Table(Nat, BlockData)
           U == Table(TimestampAndIndex, Row)
           v(q) == [w EXCEPT !.pending = q]
<1> HIDE DEF T, U
<1>1. Database = [blocks : T, roots : U, pending : SUBSET Pending, progress : Nat \cup {None}]
  BY DEF T, U, Database
<1>2. ASSUME NEW q, q \subseteq Pending PROVE PendingIs(v(q), w, q)
  BY <1>1, <1>2 DEF PendingIs
<1>3. w.pending \subseteq Pending
  BY <1>1
<1>4. ASSUME NEW p \in Pending
      PROVE  PendingIs(WithoutPending(w, p), w, w.pending \ {p})
  <2>1. WithoutPending(w, p) = v(w.pending \ {p})
    BY <1>1 DEF WithoutPending
  <2> HIDE DEF v
  <2>2. w.pending \ {p} \subseteq Pending
    BY <1>3
  <2> QED BY <2>1, <2>2, <1>2
<1>5. ASSUME NEW p \in Pending
      PROVE  \E c \in Pending :
                 /\ c.nr = p.nr /\ c.at = p.at /\ c.type = p.type
                 /\ PendingIs(Counted(w, p), w, (w.pending \ {p}) \cup {c})
  <2> DEFINE c == [p EXCEPT !.count = @ + 1]
  <2>1. c \in Pending /\ c.nr = p.nr /\ c.at = p.at /\ c.type = p.type
    BY DEF Pending
  <2>2. Counted(w, p) = v((w.pending \ {p}) \cup {c})
    BY <1>1 DEF Counted, Pending
  <2> HIDE DEF c, v
  <2>3. (w.pending \ {p}) \cup {c} \subseteq Pending
    BY <2>1, <1>3
  <2>4. PendingIs(Counted(w, p), w, (w.pending \ {p}) \cup {c})
    BY <2>2, <2>3, <1>2
  <2> QED BY <2>1, <2>4
<1>6. ASSUME NEW f \in Fraud
      PROVE  PendingIs(SavePending(w, f), w, w.pending \cup
                 {[nr |-> f.nr, at |-> f.at, type |-> f.type, count |-> 0]})
  <2> DEFINE c == [nr |-> f.nr, at |-> f.at, type |-> f.type, count |-> 0]
  <2>1. c \in Pending
    BY DEF Fraud, Pending
  <2>2. SavePending(w, f) = v(w.pending \cup {c})
    BY <1>1 DEF SavePending
  <2> HIDE DEF c, v
  <2>3. w.pending \cup {c} \subseteq Pending
    BY <2>1, <1>3
  <2>4. PendingIs(SavePending(w, f), w, w.pending \cup {c})
    BY <2>2, <2>3, <1>2
  <2> QED BY <2>4 DEF c
<1> QED BY <1>4, <1>5, <1>6

(* Recording the progress.                                                 *)
LEMMA ProgressFacts ==
    ASSUME NEW w \in Database, NEW k \in Nat
    PROVE  LET v == [w EXCEPT !.progress = k]
           IN  /\ v \in Database
               /\ v.blocks = w.blocks /\ v.roots = w.roots /\ v.pending = w.pending
               /\ v.progress = k /\ Recorded(v) = k
<1> DEFINE T == Table(Nat, BlockData)
           U == Table(TimestampAndIndex, Row)
<1> HIDE DEF T, U
<1>1. Database = [blocks : T, roots : U, pending : SUBSET Pending, progress : Nat \cup {None}]
  BY DEF T, U, Database
<1>2. k # None
  BY EventLoopAssumption
<1> QED BY <1>1, <1>2 DEF Recorded

(* The tree of a database.                                                 *)
LEMMA TrackerType ==
    ASSUME NEW w \in Database
    PROVE  TrackerOf(w) \in Table(TimestampAndIndex, Seq(Blobs))
<1>1. DOMAIN w.roots \subseteq TimestampAndIndex /\ w.roots \in [DOMAIN w.roots -> Row]
  BY DatabaseFacts
<1>2. \A s \in DOMAIN w.roots : w.roots[s].root \in Seq(Blobs)
  BY <1>1 DEF Row
<1>3. DOMAIN TrackerOf(w) = DOMAIN w.roots
      /\ TrackerOf(w) \in [DOMAIN w.roots -> Seq(Blobs)]
  BY <1>2 DEF TrackerOf
<1> QED BY <1>1, <1>3, TableFacts

-----------------------------------------------------------------------------
(* Lemmas about single steps.                                              *)

(* The frauds found in an event.                                           *)
LEMMA AlarmFacts ==
    ASSUME NEW e, NEW b
    PROVE  /\ Alarms(e, b) \in Seq(FraudType)
           /\ WrongLeaf(b) => \E i \in DOMAIN Alarms(e, b) : Alarms(e, b)[i] = "deposit"
<1> DEFINE x == IF WrongLeaf(b) THEN <<"deposit">> ELSE <<>>
           y == IF LooksWrong(e, b) THEN <<"tree">> ELSE <<>>
<1>1. "deposit" \in FraudType /\ "tree" \in FraudType
  BY DEF FraudType
<1>2. x \in Seq(FraudType) /\ (WrongLeaf(b) => Len(x) = 1 /\ x[1] = "deposit")
  BY <1>1
<1>3. y \in Seq(FraudType)
  BY <1>1
<1>4. Alarms(e, b) = x \o y
  BY DEF Alarms
<1> HIDE DEF x, y
<1>5. x \o y \in Seq(FraudType) /\ Len(x \o y) = Len(x) + Len(y)
      /\ \A i \in 1 .. Len(x) : (x \o y)[i] = x[i]
  BY <1>2, <1>3
<1>6. ASSUME WrongLeaf(b)
      PROVE  1 \in DOMAIN (x \o y) /\ (x \o y)[1] = "deposit"
  <2>1. Len(x) = 1 /\ x[1] = "deposit" /\ Len(y) \in Nat
    BY <1>2, <1>3, <1>6
  <2>2. 1 \in DOMAIN (x \o y)
    BY <2>1, <1>5
  <2> QED BY <2>1, <2>2, <1>5
<1> QED BY <1>4, <1>5, <1>6

(* The block of a new root is the next one of the chain before it.         *)
LEMMA NewRootFacts ==
    ASSUME EventTypeOK, LogOK, batch # {}, log[NextEvent].kind = "NewRoot"
    PROVE  LET e == NextEvent
               p == ChainAfter(e - 1)
               c == log[e].chain
               b == c[Len(c)]
           IN  /\ e \in DOMAIN log /\ e - 1 \in 0 .. Len(log)
               /\ p \in Seq(BlockData) /\ c \in Seq(BlockData) /\ b \in BlockData
               /\ Len(p) \in Nat /\ Len(c) = Len(p) + 1
               /\ \A k \in 1 .. Len(p) : c[k] = p[k]
               /\ b.timestamp = log[e].at /\ b.blockNr = Len(p)
<1> DEFINE e == NextEvent
           p == ChainAfter(e - 1)
           c == log[e].chain
           n == Len(c)
<1>1. e \in DOMAIN log /\ log[e].kind = "NewRoot" /\ log \in Seq(Event)
  BY NextEventFacts DEF EventTypeOK
<1> HIDE DEF e
<1>2. e - 1 \in 0 .. Len(log) /\ c \in Seq(BlockData)
  BY <1>1, EventFacts
<1>3. p \in Seq(BlockData) /\ Len(p) \in Nat
  BY <1>1, <1>2, ChainAfterType
<1>4. /\ n = Len(p) + 1 /\ \A k \in 1 .. Len(p) : c[k] = p[k]
      /\ c[n].timestamp = log[e].at
  BY <1>1 DEF LogOK, Follows
<1> HIDE DEF p, c
<1>5. n \in 1 .. Len(c) /\ c[n] \in BlockData
  BY <1>2, <1>3, <1>4
<1>6. \A i \in 1 .. Len(c) : c[i].blockNr = i - 1
  BY <1>1 DEF LogOK, ChainOK, c
<1>7. c[n].blockNr = Len(p)
  BY <1>3, <1>4, <1>5, <1>6
<1> QED BY <1>1, <1>2, <1>3, <1>4, <1>5, <1>7 DEF c, p, e

(* Every step moves the L1 as Moves says and keeps what is known of it.    *)
LEMMA MovesStep ==
    ASSUME EventTypeOK, SpineInv, LogOK, StandingOK, PhaseOK, [EventLoopNext]_eventVars
    PROVE  SpineInv' /\ LogOK' /\ StandingOK' /\ Moves
<1>1. log \in Seq(Event)
  BY DEF EventTypeOK
<1>2. CASE L1Post
  BY <1>1, <1>2, PostMoves DEF L1Post
<1>3. CASE L1Rollback
  BY <1>1, <1>3, RollbackMoves DEF L1Rollback
<1>4. CASE L1Tick
  BY <1>1, <1>4, TickMoves DEF L1Tick
<1>5. CASE RetryChallenge
  <2>1. PICK p \in retries : SubmitOk(p.nr, p.type) \/ SubmitErr(p.nr, p.type)
    BY <1>5 DEF RetryChallenge
  <2>2. p.nr \in Nat
    BY DEF EventTypeOK, Pending
  <2> QED BY <1>1, <2>1, <2>2, SubmitMoves
<1>6. CASE SubmitChallenge
  <2> DEFINE f == Head(frauds)
  <2>1. SubmitOk(f.nr, f.type) \/ SubmitErr(f.nr, f.type)
    BY <1>6 DEF SubmitChallenge
  <2>2. f \in Fraud
    BY <1>6 DEF SubmitChallenge, PhaseOK, EventTypeOK
  <2>3. f.nr \in Nat
    BY <2>2 DEF Fraud
  <2> HIDE DEF f
  <2> QED BY <1>1, <2>1, <2>3, SubmitMoves
<1>7. CASE UNCHANGED <<spineVars, log>>
  BY <1>1, <1>7, NoMove
<1>8. CASE \/ Poll \/ PollFails \/ ProcessNewRoot \/ FetchFails \/ ProcessRollback
  BY <1>7, <1>8 DEF Poll, PollFails, ProcessNewRoot, FetchFails, ProcessRollback
<1>9. CASE Commit \/ Abandon \/ Sleep \/ Exit \/ Start \/ Crash \/ Signal
  BY <1>7, <1>9 DEF Commit, Abandon, Sleep, Exit, Start, Crash, Signal
<1>10. CASE UNCHANGED eventVars
  BY <1>7, <1>10 DEF eventVars
<1> QED BY <1>2, <1>3, <1>4, <1>5, <1>6, <1>8, <1>9, <1>10 DEF EventLoopNext, LoopStep

(* What a process that ends leaves in memory.                              *)
LEMMA DownFacts ==
    ASSUME Down
    PROVE  /\ pc' = "down" /\ shutdown' = FALSE /\ listener' = 0 /\ batch' = {}
           /\ frauds' = <<>> /\ retries' = {}
           /\ tracker' \in Table(TimestampAndIndex, Seq(Blobs)) /\ frauds' \in Seq(Fraud)
<1> DEFINE f == [s \in {} |-> None]
<1>1. DOMAIN f = {} /\ f \in [{} -> Seq(Blobs)]
  OBVIOUS
<1>2. tracker' = f
  BY DEF Down
<1> HIDE DEF f
<1>3. f \in Table(TimestampAndIndex, Seq(Blobs))
  BY <1>1, TableFacts
<1>4. <<>> \in Seq(Fraud)
  OBVIOUS
<1> QED BY <1>2, <1>3, <1>4 DEF Down

(* The types are kept by the steps that touch the tables only as a whole.  *)
LEMMA PlainTypeStep ==
    ASSUME EventTypeOK, SpineInv, Moves, PhaseOK,
           \/ L1Post \/ L1Rollback \/ L1Tick \/ Poll \/ PollFails \/ FetchFails \/ Abandon
           \/ Sleep \/ Start \/ Crash \/ Signal \/ UNCHANGED eventVars
    PROVE  EventTypeOK'
<1>1. log' \in Seq(Event) /\ DOMAIN log \subseteq DOMAIN log' /\ now \in Nat
  BY DEF Moves
<1>2. batch \subseteq DOMAIN log'
  BY <1>1 DEF EventTypeOK
<1>4. Retryable(db) \subseteq Pending /\ TrackerOf(db) \in Table(TimestampAndIndex, Seq(Blobs))
      /\ FirstListened(db) \in Nat /\ SafeBlock \in Nat /\ Polled \subseteq DOMAIN log'
  <2>1. Retryable(db) \subseteq Pending
    BY DatabaseFacts DEF Retryable, EventTypeOK
  <2>2. FirstListened(db) \in Nat
    BY DatabaseFacts, EventLoopAssumption, <1>1 DEF FirstListened, EventTypeOK
  <2>3. SafeBlock \in Nat
    BY EventLoopAssumption, <1>1 DEF SafeBlock
  <2>4. Polled \subseteq DOMAIN log'
    BY <1>1 DEF Polled
  <2> QED BY <2>1, <2>2, <2>3, <2>4, TrackerType DEF EventTypeOK
<1>5. CASE UNCHANGED <<loopVars, shutdown, faults>>
  BY <1>1, <1>2, <1>5 DEF loopVars, EventTypeOK
<1>6. CASE L1Post \/ L1Rollback \/ L1Tick \/ UNCHANGED eventVars
  BY <1>5, <1>6 DEF L1Post, L1Rollback, L1Tick, eventVars
<1>7. CASE Poll
  BY <1>1, <1>2, <1>4, <1>7 DEF Poll, EventTypeOK
<1>8. CASE PollFails
  <2>1. listener' \in Nat /\ missed' \in BOOLEAN /\ faults' \in Nat
    <3>1. /\ faults' = faults + 1
          /\ \/ listener' = listener /\ missed' = missed
             \/ listener' = SafeBlock /\ missed' = TRUE
      BY <1>8 DEF PollFails, Fault
    <3>2. missed \in BOOLEAN /\ listener \in Nat /\ faults \in Nat
      BY DEF EventTypeOK
    <3>3. missed' \in BOOLEAN
      BY <3>1, <3>2, Zenon
    <3>4. listener' \in Nat
      BY <3>1, <3>2, <1>4
    <3> QED BY <3>1, <3>2, <3>3, <3>4
  <2>2. pc' = "sleep" /\ UNCHANGED <<db, work, shutdown, batch, tracker, frauds, retries>>
    BY <1>8 DEF PollFails
  <2> QED BY <2>1, <2>2, <1>1, <1>2 DEF EventTypeOK
<1>9. CASE FetchFails
  BY <1>1, <1>2, <1>9 DEF FetchFails, Fault, EventTypeOK
<1>10. CASE Abandon
  BY <1>1, <1>2, <1>10 DEF Abandon, Fault, EventTypeOK
<1>11. CASE Sleep
  BY <1>1, <1>2, <1>4, <1>11 DEF Sleep, EventTypeOK
<1>12. CASE Start
  BY <1>1, <1>2, <1>4, <1>12 DEF Start, EventTypeOK
<1>13. CASE Crash
  <2>1. Down /\ work' = db /\ db' = db /\ missed' = missed /\ faults' = faults + 1
    BY <1>13 DEF Crash, Fault
  <2> QED BY <2>1, <1>1, DownFacts DEF EventTypeOK
<1>14. CASE Signal
  <2>1. shutdown' = TRUE /\ faults' = faults + 1 /\ UNCHANGED loopVars
    BY <1>14 DEF Signal, Fault
  <2> QED BY <2>1, <1>1, <1>2 DEF loopVars, EventTypeOK
<1> QED BY <1>6, <1>7, <1>8, <1>9, <1>10, <1>11, <1>12, <1>13, <1>14

(* The types are kept by the steps that run statements on the tables.      *)
LEMMA TablesTypeStep ==
    ASSUME EventTypeOK, SpineInv, LogOK, Moves, PhaseOK,
           \/ RetryChallenge \/ ProcessNewRoot \/ ProcessRollback \/ SubmitChallenge
           \/ Commit \/ Exit
    PROVE  EventTypeOK'
<1>1. log' \in Seq(Event) /\ DOMAIN log \subseteq DOMAIN log'
  BY DEF Moves
<1>2. batch \subseteq DOMAIN log' /\ db \in Database /\ work \in Database
      /\ listener \in Nat /\ faults \in Nat
  BY <1>1 DEF EventTypeOK
<1>3. CASE RetryChallenge
  <2>1. PICK p \in retries :
            /\ retries' = retries \ {p}
            /\ \/ Autocommit(WithoutPending(db, p)) /\ UNCHANGED faults
               \/ Autocommit(Counted(db, p)) /\ SubmitErr(p.nr, p.type)
    BY <1>3 DEF RetryChallenge
  <2>2. WithoutPending(db, p) \in Database /\ Counted(db, p) \in Database
    BY <1>2, PendingFacts DEF PendingIs, EventTypeOK
  <2>3. db' \in Database /\ work' \in Database /\ retries' \subseteq Pending
    BY <2>1, <2>2 DEF Autocommit, EventTypeOK
  <2>4. faults' \in Nat
    BY <2>1, <1>2 DEF SubmitErr, Fault
  <2>5. UNCHANGED <<pc, shutdown, listener, batch, tracker, frauds, missed>>
    BY <1>3 DEF RetryChallenge
  <2> QED BY <2>3, <2>4, <2>5, <1>1, <1>2 DEF EventTypeOK
<1>4. CASE ProcessNewRoot
  <2> DEFINE e == NextEvent
             b == log[e].chain[Len(log[e].chain)]
             t == [s \in DOMAIN tracker \cup {b.blockIndex} |->
                      IF s = b.blockIndex THEN b.blobhashes ELSE tracker[s]]
             found == [i \in DOMAIN Alarms(e, b) |->
                          [nr |-> b.blockNr, at |-> log[e].at, type |-> Alarms(e, b)[i]]]
  <2>1. b \in BlockData /\ e \in DOMAIN log
    BY <1>4, NewRootFacts DEF ProcessNewRoot
  <2>2. /\ \/ work' = SaveBlock(work, b) /\ UNCHANGED <<pc, tracker, frauds>>
           \/ /\ work' = SaveRoot(SaveBlock(work, b), b) /\ tracker' = t /\ frauds' = found
              /\ pc' \in {"event", "submit"}
        /\ batch' = batch \ {e}
        /\ UNCHANGED <<db, shutdown, listener, retries, faults, missed>>
    BY <1>4 DEF ProcessNewRoot
  <2>3. log[e].at \in Nat
    BY <2>1, EventFacts DEF EventTypeOK
  <2> HIDE DEF e, b
  <2>4. SaveBlock(work, b) \in Database
    BY <1>2, <2>1, SaveBlockFacts
  <2>5. SaveRoot(SaveBlock(work, b), b) \in Database
    BY <2>4, <2>1, SaveRootFacts
  <2>6. t \in Table(TimestampAndIndex, Seq(Blobs))
    <3>1. DOMAIN tracker \subseteq TimestampAndIndex /\ tracker \in [DOMAIN tracker -> Seq(Blobs)]
      BY TableFacts DEF EventTypeOK
    <3>2. b.blockIndex \in TimestampAndIndex /\ b.blobhashes \in Seq(Blobs)
      BY <2>1 DEF BlockData
    <3>3. DOMAIN t \subseteq TimestampAndIndex /\ t \in [DOMAIN t -> Seq(Blobs)]
      BY <3>1, <3>2
    <3> HIDE DEF t
    <3> QED BY <3>3, TableFacts
  <2>7. found \in Seq(Fraud)
    <3>1. Alarms(e, b) \in Seq(FraudType) /\ b.blockNr \in Nat
      BY <2>1, AlarmFacts DEF BlockData
    <3>2. \A i \in DOMAIN Alarms(e, b) : found[i] \in Fraud
      BY <3>1, <2>3 DEF Fraud
    <3>3. DOMAIN found = 1 .. Len(Alarms(e, b)) /\ Len(Alarms(e, b)) \in Nat
      BY <3>1
    <3>4. found \in [1 .. Len(Alarms(e, b)) -> Fraud]
      BY <3>1, <3>2
    <3> HIDE DEF found
    <3> QED BY <3>3, <3>4
  <2>8. batch' \subseteq DOMAIN log'
    BY <2>2, <1>2
  <2> HIDE DEF t, found
  <2> QED BY <2>2, <2>4, <2>5, <2>6, <2>7, <2>8, <1>1 DEF EventTypeOK
<1>5. CASE ProcessRollback
  <2> DEFINE m == Len(log[NextEvent].chain)
  <2>1. m \in Nat
    BY <1>5, NextEventFacts, EventFacts DEF ProcessRollback, EventTypeOK
  <2>2. work' = DeleteFrom(work, m) /\ tracker' = TrackerOf(work') /\ batch' \subseteq batch
    BY <1>5 DEF ProcessRollback
  <2> HIDE DEF m
  <2>3. work' \in Database
    BY <1>2, <2>1, <2>2, DeleteFromFacts
  <2>4. tracker' \in Table(TimestampAndIndex, Seq(Blobs))
    BY <2>2, <2>3, TrackerType
  <2>5. UNCHANGED <<db, pc, shutdown, listener, frauds, retries, faults, missed>>
    BY <1>5 DEF ProcessRollback
  <2> QED BY <2>2, <2>3, <2>4, <2>5, <1>1, <1>2 DEF EventTypeOK
<1>6. CASE SubmitChallenge
  <2> DEFINE f == Head(frauds)
  <2>1. /\ \/ UNCHANGED <<work, faults>>
           \/ SubmitErr(f.nr, f.type) /\ work' = SavePending(work, f)
        /\ frauds' = Tail(frauds)
        /\ pc' \in {"event", "submit"}
        /\ UNCHANGED <<db, shutdown, listener, batch, tracker, retries, missed>>
    BY <1>6 DEF SubmitChallenge
  <2>2. f \in Fraud /\ Tail(frauds) \in Seq(Fraud)
    BY <1>6 DEF SubmitChallenge, PhaseOK, EventTypeOK
  <2> HIDE DEF f
  <2>3. SavePending(work, f) \in Database
    BY <2>2, <1>2, PendingFacts DEF PendingIs
  <2>4. faults' \in Nat /\ work' \in Database
    BY <2>1, <2>3, <1>2 DEF SubmitErr, Fault
  <2> QED BY <2>1, <2>2, <2>4, <1>1, <1>2 DEF EventTypeOK
<1>7. CASE Commit
  <2>1. db' = [work EXCEPT !.progress = listener] /\ work' = db' /\ pc' = "sleep"
        /\ UNCHANGED <<shutdown, listener, batch, tracker, frauds, retries, faults, missed>>
    BY <1>7 DEF Commit
  <2>2. db' \in Database
    BY <2>1, <1>2, ProgressFacts
  <2> QED BY <2>1, <2>2, <1>1, <1>2 DEF EventTypeOK
<1>8. CASE Exit
  <2>1. db' = [db EXCEPT !.progress = listener] /\ work' = db'
    BY <1>8 DEF Exit, Autocommit
  <2>2. db' \in Database
    BY <2>1, <1>2, ProgressFacts
  <2>3. Down /\ missed' = missed /\ faults' = faults
    BY <1>8 DEF Exit
  <2> QED BY <2>1, <2>2, <2>3, <1>1, DownFacts DEF EventTypeOK
<1> QED BY <1>3, <1>4, <1>5, <1>6, <1>7, <1>8

(* Every step keeps the types.                                             *)
LEMMA TypeStep ==
    ASSUME EventTypeOK, SpineInv, LogOK, Moves, PhaseOK, [EventLoopNext]_eventVars
    PROVE  EventTypeOK'
  BY PlainTypeStep, TablesTypeStep DEF EventLoopNext, LoopStep

(* What a retry does.                                                      *)
LEMMA RetryFacts ==
    ASSUME EventTypeOK, RetryChallenge
    PROVE  \E p \in retries :
               /\ p \in Pending /\ retries' = retries \ {p}
               /\ \/ SubmitOk(p.nr, p.type) /\ PendingIs(db', db, db.pending \ {p})
                  \/ /\ SubmitErr(p.nr, p.type)
                     /\ \E c \in Pending :
                            /\ c.nr = p.nr /\ c.at = p.at /\ c.type = p.type
                            /\ PendingIs(db', db, (db.pending \ {p}) \cup {c})
               /\ work' = db'
               /\ pc = "retry"
               /\ UNCHANGED <<pc, shutdown, listener, batch, tracker, frauds, missed>>
<1>1. PICK p \in retries :
          /\ retries' = retries \ {p}
          /\ \/ SubmitOk(p.nr, p.type) /\ Autocommit(WithoutPending(db, p))
             \/ SubmitErr(p.nr, p.type) /\ Autocommit(Counted(db, p))
  BY DEF RetryChallenge
<1>2. p \in Pending /\ db \in Database
  BY DEF EventTypeOK
<1>3. PendingIs(WithoutPending(db, p), db, db.pending \ {p})
  BY <1>2, PendingFacts
<1>4. PICK c \in Pending :
          /\ c.nr = p.nr /\ c.at = p.at /\ c.type = p.type
          /\ PendingIs(Counted(db, p), db, (db.pending \ {p}) \cup {c})
  BY <1>2, PendingFacts
<1>5. \/ SubmitOk(p.nr, p.type) /\ PendingIs(db', db, db.pending \ {p})
      \/ /\ SubmitErr(p.nr, p.type)
         /\ PendingIs(db', db, (db.pending \ {p}) \cup {c})
  BY <1>1, <1>3, <1>4 DEF Autocommit
<1>6. work' = db'
  BY <1>1 DEF Autocommit
<1>7. pc = "retry" /\ UNCHANGED <<pc, shutdown, listener, batch, tracker, frauds, missed>>
  BY DEF RetryChallenge
<1> QED BY <1>1, <1>2, <1>4, <1>5, <1>6, <1>7

(* What goes with the place of the loop, for steps outside a transaction.  *)
LEMMA PhaseOutside ==
    ASSUME EventTypeOK, EventTypeOK', LogOK, Moves, PhaseOK,
           \/ L1Post \/ L1Rollback \/ L1Tick \/ RetryChallenge \/ Poll \/ PollFails
           \/ Sleep \/ Start \/ Exit \/ Crash \/ Signal \/ UNCHANGED eventVars
    PROVE  PhaseOK'
<1>1. /\ now \in Nat /\ now' \in Nat /\ now <= now'
      /\ \A i \in DOMAIN log : i \in DOMAIN log' /\ log'[i] = log[i] /\ log[i].at \in Nat
      /\ batch \subseteq DOMAIN log
  BY EventFacts DEF Moves, EventTypeOK
<1>2. /\ db \in Database /\ db' \in Database
      /\ Recorded(db) \in Nat /\ Recorded(db)' \in Nat /\ listener \in Nat /\ listener' \in Nat
  <2>1. \A w \in Database : Recorded(w) \in Nat
    BY DatabaseFacts
  <2>2. Recorded(db)' = Recorded(db')
    BY DEF Recorded
  <2>3. db \in Database /\ db' \in Database /\ listener \in Nat /\ listener' \in Nat
    BY DEF EventTypeOK
  <2>4. Recorded(db) \in Nat /\ Recorded(db') \in Nat
    BY <2>1, <2>3
  <2> QED BY <2>2, <2>3, <2>4
<1>3. /\ listener < now /\ Recorded(db) < now /\ listener < now' /\ Recorded(db) < now'
      /\ \A i \in batch : log[i].at <= listener /\ log'[i].at <= listener
      /\ 0 < now'
  BY <1>1, <1>2 DEF PhaseOK
<1>4. SafeBlock \in Nat /\ SafeBlock < now
  BY <1>1, <1>3, <1>2, EventLoopAssumption DEF SafeBlock
<1>5. CASE UNCHANGED loopVars
  BY <1>1, <1>3, <1>5 DEF loopVars, PhaseOK, Recorded
<1>6. CASE L1Post \/ L1Rollback \/ L1Tick \/ Signal \/ UNCHANGED eventVars
  BY <1>5, <1>6 DEF L1Post, L1Rollback, L1Tick, Signal, eventVars
<1>7. CASE RetryChallenge
  <2>1. PICK p \in retries :
            /\ retries' = retries \ {p}
            /\ \/ PendingIs(db', db, db.pending \ {p})
               \/ \E c \in Pending : PendingIs(db', db, (db.pending \ {p}) \cup {c})
            /\ work' = db' /\ UNCHANGED <<pc, listener, batch, frauds>> /\ pc = "retry"
    BY <1>7, RetryFacts
  <2>2. db'.progress = db.progress
    BY <2>1 DEF PendingIs
  <2>3. db.pending \ {p} \subseteq db'.pending
    BY <2>1 DEF PendingIs
  <2>5. Recorded(db)' = Recorded(db)
    BY <2>2 DEF Recorded
  <2> QED BY <2>1, <2>3, <2>5, <1>1, <1>3 DEF PhaseOK
<1>8. CASE Poll
  <2>1. /\ pc = "retry" /\ retries = {} /\ pc' \in {"sleep", "event"}
        /\ listener' = IF SafeBlock > listener THEN SafeBlock ELSE listener
        /\ batch' = Polled /\ (pc' = "sleep" => Polled = {})
        /\ UNCHANGED <<log, db, work, frauds, retries>>
    BY <1>8 DEF Poll
  <2>2. \A i \in Polled : i \in DOMAIN log /\ log[i].at <= SafeBlock
    BY DEF Polled
  <2>3. SafeBlock <= listener' /\ listener' < now
    BY <2>1, <1>2, <1>3, <1>4
  <2>4. \A i \in batch' : log'[i].at <= listener'
    BY <2>1, <2>2, <2>3, <1>1, <1>2, <1>4
  <2> QED BY <2>1, <2>3, <2>4, <1>1, <1>2, <1>3 DEF PhaseOK, Recorded
<1>9. CASE PollFails
  <2>1. /\ pc = "retry" /\ retries = {} /\ pc' = "sleep"
        /\ listener' \in {listener, SafeBlock}
        /\ UNCHANGED <<log, db, work, batch, frauds, retries>>
    BY <1>9 DEF PollFails
  <2>2. batch = {} /\ listener' < now
    BY <2>1, <1>3, <1>4 DEF PhaseOK
  <2> QED BY <2>1, <2>2, <1>1, <1>2, <1>3 DEF PhaseOK, Recorded
<1>10. CASE Sleep
  <2>1. /\ pc = "sleep" /\ pc' = "retry" /\ retries' = Retryable(db)
        /\ UNCHANGED <<log, db, work, listener, batch, frauds>>
    BY <1>10 DEF Sleep
  <2>2. Retryable(db) \subseteq db.pending
    BY DEF Retryable
  <2> QED BY <2>1, <2>2, <1>1, <1>3 DEF PhaseOK, Recorded
<1>11. CASE Start
  <2>1. /\ pc = "down" /\ pc' = "retry" /\ retries' = Retryable(db)
        /\ listener' = FirstListened(db)
        /\ UNCHANGED <<log, db, work, batch, frauds>>
    BY <1>11 DEF Start
  <2>2. Retryable(db) \subseteq db.pending
    BY DEF Retryable
  <2>3. listener' < now
    BY <2>1, <1>1, <1>2, <1>3, EventLoopAssumption DEF FirstListened, Recorded
  <2> QED BY <2>1, <2>2, <2>3, <1>1, <1>2, <1>3 DEF PhaseOK, Recorded
<1>12. CASE Exit
  <2>1. db' = [db EXCEPT !.progress = listener] /\ work' = db' /\ Down
    BY <1>12 DEF Exit, Autocommit
  <2>2. Recorded(db') = listener
    BY <2>1, <1>2, ProgressFacts
  <2>3. Recorded(db)' < now'
    BY <2>2, <1>3 DEF Recorded
  <2>4. work' = db' /\ Down
    BY <2>1
  <2> QED BY <2>3, <2>4, <1>3, DownFacts DEF PhaseOK
<1>13. CASE Crash
  <2>1. Down /\ work' = db /\ db' = db
    BY <1>13 DEF Crash
  <2> QED BY <2>1, <1>3, DownFacts DEF PhaseOK, Recorded
<1> QED BY <1>6, <1>7, <1>8, <1>9, <1>10, <1>11, <1>12, <1>13

(* The same for steps of a transaction.                                    *)
LEMMA PhaseInside ==
    ASSUME EventTypeOK, EventTypeOK', LogOK, Moves, PhaseOK,
           \/ ProcessNewRoot \/ FetchFails \/ ProcessRollback \/ SubmitChallenge
           \/ Commit \/ Abandon
    PROVE  PhaseOK'
<1>1. /\ now \in Nat /\ now' \in Nat /\ now <= now'
      /\ \A i \in DOMAIN log : i \in DOMAIN log' /\ log'[i] = log[i] /\ log[i].at \in Nat
      /\ batch \subseteq DOMAIN log
      /\ listener \in Nat
  BY EventFacts DEF Moves, EventTypeOK
<1>2. Recorded(db) \in Nat /\ work \in Database
  BY DatabaseFacts DEF EventTypeOK
<1>3. /\ listener < now /\ Recorded(db) < now /\ listener < now' /\ Recorded(db) < now'
      /\ \A i \in batch : log'[i].at <= listener
  BY <1>1, <1>2 DEF PhaseOK
<1>4. CASE ProcessNewRoot
  <2> DEFINE e == NextEvent
             b == log[e].chain[Len(log[e].chain)]
             found == [i \in DOMAIN Alarms(e, b) |->
                          [nr |-> b.blockNr, at |-> log[e].at, type |-> Alarms(e, b)[i]]]
  <2>1. /\ \/ UNCHANGED <<pc, frauds>>
           \/ frauds' = found /\ pc' = IF Alarms(e, b) = <<>> THEN "event" ELSE "submit"
        /\ batch' = batch \ {e} /\ pc = "event"
        /\ UNCHANGED <<db, listener, retries>>
    BY <1>4 DEF ProcessNewRoot
  <2> HIDE DEF e, b
  <2>2. Alarms(e, b) \in Seq(FraudType)
    BY AlarmFacts
  <2>3. found = <<>> <=> Alarms(e, b) = <<>>
    BY <2>2
  <2>4. pc' \in {"event", "submit"} /\ (pc' = "submit" <=> frauds' # <<>>)
    BY <2>1, <2>3 DEF PhaseOK
  <2> HIDE DEF found
  <2> QED BY <2>1, <2>4, <1>3 DEF PhaseOK, Recorded
<1>5. CASE FetchFails \/ ProcessRollback
  <2>1. /\ batch' \subseteq batch /\ pc = "event" /\ pc' = pc
        /\ UNCHANGED <<db, listener, retries, frauds>>
    BY <1>5 DEF FetchFails, ProcessRollback
  <2> QED BY <2>1, <1>3 DEF PhaseOK, Recorded
<1>6. CASE SubmitChallenge
  <2>1. /\ pc = "submit" /\ frauds' = Tail(frauds)
        /\ pc' = IF Tail(frauds) = <<>> THEN "event" ELSE "submit"
        /\ UNCHANGED <<db, listener, batch, retries>>
    BY <1>6 DEF SubmitChallenge
  <2> QED BY <2>1, <1>3 DEF PhaseOK, Recorded
<1>7. CASE Commit
  <2>1. /\ pc = "event" /\ batch = {} /\ db' = [work EXCEPT !.progress = listener] /\ work' = db'
        /\ pc' = "sleep" /\ UNCHANGED <<listener, batch, frauds, retries>>
    BY <1>7 DEF Commit
  <2>2. Recorded(db') = listener
    BY <2>1, <1>1, <1>2, ProgressFacts
  <2>3. Recorded(db)' < now' /\ work' = db'
    BY <2>1, <2>2, <1>3 DEF Recorded
  <2>4. /\ pc = "event" /\ pc' = "sleep" /\ batch' = {}
        /\ UNCHANGED <<listener, frauds, retries>>
    BY <2>1
  <2> QED BY <2>3, <2>4, <1>3 DEF PhaseOK
<1>8. CASE Abandon
  <2>1. /\ pc = "event" /\ work' = db /\ batch' = {} /\ pc' = "sleep"
        /\ UNCHANGED <<db, listener, frauds, retries>>
    BY <1>8 DEF Abandon
  <2> QED BY <2>1, <1>3 DEF PhaseOK, Recorded
<1> QED BY <1>4, <1>5, <1>6, <1>7, <1>8

(* Every step keeps it.                                                    *)
LEMMA PhaseStep ==
    ASSUME EventTypeOK, EventTypeOK', LogOK, Moves, PhaseOK, [EventLoopNext]_eventVars
    PROVE  PhaseOK'
  BY PhaseOutside, PhaseInside DEF EventLoopNext, LoopStep

-----------------------------------------------------------------------------
(* The tables follow the chain.                                            *)

(* The events seen and the chains they made stay as they were.             *)
LEMMA LogKept ==
    ASSUME EventTypeOK, Moves
    PROVE  /\ \A k \in Nat : k < now => {i \in DOMAIN log' : log'[i].at <= k} = SeenBy(k)
           /\ \A done, blocks :
                  UpTo(done, blocks) =>
                      \E c \in 0 .. Len(log') :
                          done = 1 .. c /\ blocks = BlocksOf(ChainAfter(c)')
<1>1. /\ now \in Nat
      /\ \A i \in DOMAIN log : i \in DOMAIN log' /\ log'[i] = log[i]
      /\ \A i \in DOMAIN log' \ DOMAIN log : log'[i].at = now
      /\ Len(log) <= Len(log') /\ Len(log) \in Nat /\ Len(log') \in Nat
      /\ DOMAIN log = 1 .. Len(log)
  BY DEF Moves, EventTypeOK
<1>2. ASSUME NEW k \in Nat, k < now
      PROVE  {i \in DOMAIN log' : log'[i].at <= k} = SeenBy(k)
  BY <1>1, <1>2 DEF SeenBy
<1>3. ASSUME NEW c \in 0 .. Len(log)
      PROVE  c \in 0 .. Len(log') /\ ChainAfter(c)' = ChainAfter(c)
  BY <1>1 DEF ChainAfter
<1>4. ASSUME NEW done, NEW blocks, UpTo(done, blocks)
      PROVE  \E c \in 0 .. Len(log') : done = 1 .. c /\ blocks = BlocksOf(ChainAfter(c)')
  <2>1. PICK c \in 0 .. Len(log) : done = 1 .. c /\ blocks = BlocksOf(ChainAfter(c))
    BY <1>4 DEF UpTo
  <2>2. blocks = BlocksOf(ChainAfter(c)')
    BY <2>1, <1>3
  <2> QED BY <2>1, <2>2, <1>3
<1> QED BY <1>2, <1>4

(* The next event is the one behind those that are done.                   *)
LEMMA NextIsBehind ==
    ASSUME EventTypeOK, LogOK, PhaseOK, batch # {}, ~Reordered,
           NEW c \in 0 .. Len(log), SeenBy(listener) \ batch = 1 .. c
    PROVE  /\ NextEvent = c + 1 /\ c + 1 \in DOMAIN log
           /\ SeenBy(listener) \ (batch \ {NextEvent}) = 1 .. c + 1
<1> DEFINE e == NextEvent
<1>1. e \in batch /\ e \in DOMAIN log /\ \A i \in batch : e <= i
  BY NextEventFacts
<1> HIDE DEF e
<1>2. /\ DOMAIN log = 1 .. Len(log) /\ Len(log) \in Nat /\ c \in Nat
      /\ \A i \in DOMAIN log : log[i].at \in Nat
      /\ listener \in Nat
  BY EventFacts DEF EventTypeOK
<1>3. \A i \in batch : i \in DOMAIN log /\ i \in SeenBy(listener)
  BY DEF PhaseOK, EventTypeOK, SeenBy
<1>4. e \notin 1 .. c /\ c + 1 <= e
  BY <1>1, <1>2
<1>5. c + 1 \in DOMAIN log /\ log[c + 1].at <= log[e].at /\ log[e].at <= listener
  BY <1>1, <1>2, <1>3, <1>4 DEF LogOK, SeenBy
<1>6. c + 1 \in SeenBy(listener) /\ c + 1 \notin 1 .. c
  <2>1. log[c + 1].at \in Nat /\ log[e].at \in Nat /\ listener \in Nat
    BY <1>1, <1>2, <1>5
  <2>2. log[c + 1].at <= listener
    BY <2>1, <1>5
  <2> QED BY <2>2, <1>2, <1>5 DEF SeenBy
<1>7. c + 1 \in batch
  BY <1>6
<1>8. e = c + 1
  BY <1>1, <1>2, <1>4, <1>7
<1>9. SeenBy(listener) \ (batch \ {e}) = (1 .. c) \cup {e}
  BY <1>1, <1>3
<1>10. (1 .. c) \cup {c + 1} = 1 .. c + 1
  BY <1>2
<1> QED BY <1>5, <1>8, <1>9, <1>10 DEF e

(* Processing an event takes the blocks to the chain it made.              *)
LEMMA BlocksStep ==
    ASSUME EventTypeOK, LogOK, PhaseOK, ~Reordered, ProcessNewRoot \/ ProcessRollback,
           NEW c \in 0 .. Len(log), SeenBy(listener) \ batch = 1 .. c,
           work.blocks = BlocksOf(ChainAfter(c))
    PROVE  work'.blocks = BlocksOf(ChainAfter(c + 1))
<1> DEFINE e == c + 1
           p == ChainAfter(c)
           q == log[e].chain
<1>1. batch # {} /\ work \in Database
  BY DEF ProcessNewRoot, ProcessRollback, EventTypeOK
<1>2. NextEvent = e /\ e \in DOMAIN log /\ c \in Nat /\ e - 1 = c
  BY <1>1, NextIsBehind
<1>3. ChainAfter(e) = q /\ q \in Seq(BlockData) /\ p \in Seq(BlockData)
      /\ Len(p) \in Nat /\ Len(q) \in Nat /\ Follows(log[e], p)
  BY <1>2, EventFacts, ChainAfterType DEF EventTypeOK, LogOK
<1>4. CASE ProcessNewRoot
  <2> DEFINE b == q[Len(q)]
  <2>1. log[e].kind = "NewRoot"
    BY <1>2, <1>4 DEF ProcessNewRoot
  <2>2. b \in BlockData /\ b.blockNr = Len(p) /\ Len(q) = Len(p) + 1
        /\ \A k \in 1 .. Len(p) : q[k] = p[k]
    BY <1>1, <1>2, <2>1, NewRootFacts
  <2>3. work' = SaveBlock(work, b) \/ work' = SaveRoot(SaveBlock(work, b), b)
    BY <1>2, <1>4 DEF ProcessNewRoot
  <2> HIDE DEF b, p, q, e
  <2>4. work'.blocks = [n \in DOMAIN work.blocks \cup {b.blockNr} |->
                           IF n = b.blockNr THEN b ELSE work.blocks[n]]
    <3>1. /\ SaveBlock(work, b) \in Database
          /\ SaveBlock(work, b).blocks = [n \in DOMAIN work.blocks \cup {b.blockNr} |->
                                             IF n = b.blockNr THEN b ELSE work.blocks[n]]
      BY <1>1, <2>2, SaveBlockFacts
    <3>2. SaveRoot(SaveBlock(work, b), b).blocks = SaveBlock(work, b).blocks
      BY <3>1, <2>2, SaveRootFacts
    <3>3. CASE work' = SaveBlock(work, b)
      BY <3>3, <3>1
    <3>4. CASE work' = SaveRoot(SaveBlock(work, b), b)
      BY <3>4, <3>1, <3>2
    <3> QED BY <2>3, <3>3, <3>4
  <2>5. /\ DOMAIN work.blocks = 0 .. Len(p) - 1
        /\ \A n \in 0 .. Len(p) - 1 : work.blocks[n] = q[n + 1]
    <3>1. \A n \in 0 .. Len(p) - 1 : n + 1 \in 1 .. Len(p)
      BY <1>3
    <3> QED BY <2>2, <3>1 DEF BlocksOf, p
  <2>6. (0 .. Len(p) - 1) \cup {Len(p)} = 0 .. Len(q) - 1
    BY <1>3, <2>2
  <2>7. work'.blocks = [n \in 0 .. Len(q) - 1 |-> IF n = Len(p) THEN b ELSE work.blocks[n]]
    BY <2>2, <2>4, <2>5, <2>6
  <2>8. \A n \in 0 .. Len(q) - 1 : (IF n = Len(p) THEN b ELSE work.blocks[n]) = q[n + 1]
    <3>1. b = q[Len(p) + 1]
      BY <2>2 DEF b
    <3> QED BY <3>1, <2>5, <2>6, <1>3
  <2> QED BY <1>3, <2>7, <2>8 DEF BlocksOf, e
<1>5. CASE ProcessRollback
  <2>1. log[e].kind = "Rollback" /\ work' = DeleteFrom(work, Len(q))
    BY <1>2, <1>5 DEF ProcessRollback
  <2>2. Len(q) <= Len(p) /\ \A k \in 1 .. Len(q) : q[k] = p[k]
    BY <1>3, <2>1 DEF Follows
  <2> HIDE DEF p, q, e
  <2>3. work'.blocks = [n \in {n \in DOMAIN work.blocks : n < Len(q)} |-> work.blocks[n]]
    BY <1>1, <1>3, <2>1, DeleteFromFacts
  <2>4. /\ DOMAIN work.blocks = 0 .. Len(p) - 1
        /\ \A n \in 0 .. Len(p) - 1 : work.blocks[n] = p[n + 1]
    BY DEF BlocksOf, p
  <2>5. {n \in 0 .. Len(p) - 1 : n < Len(q)} = 0 .. Len(q) - 1
    BY <1>3, <2>2
  <2>6. \A n \in 0 .. Len(q) - 1 : n \in 0 .. Len(p) - 1 /\ n + 1 \in 1 .. Len(q)
    BY <1>3, <2>2
  <2>7. work'.blocks = [n \in 0 .. Len(q) - 1 |-> work.blocks[n]]
    BY <2>3, <2>4, <2>5
  <2>8. \A n \in 0 .. Len(q) - 1 : work.blocks[n] = q[n + 1]
    BY <2>2, <2>4, <2>6
  <2> QED BY <1>3, <2>7, <2>8 DEF BlocksOf, e
<1> QED BY <1>4, <1>5

(* TablesOK of the state after, of which LogKept speaks.                   *)
LEMMA TablesNext ==
    ASSUME EventTypeOK, EventTypeOK', PhaseOK, PhaseOK', Moves,
           Recorded(db') < now, listener' < now,
           UpTo(SeenBy(Recorded(db')), db'.blocks),
           pc' # "down" => UpTo(SeenBy(listener') \ batch', work'.blocks),
           pc' \in {"retry", "sleep"} => SeenBy(Recorded(db')) = SeenBy(listener')
    PROVE  TablesOK'
<1>1. Recorded(db') \in Nat /\ listener' \in Nat
  <2>1. \A w \in Database : Recorded(w) \in Nat
    BY DatabaseFacts
  <2>2. db' \in Database /\ listener' \in Nat
    BY DEF EventTypeOK
  <2> QED BY <2>1, <2>2
<1>2. /\ {i \in DOMAIN log' : log'[i].at <= Recorded(db')} = SeenBy(Recorded(db'))
      /\ {i \in DOMAIN log' : log'[i].at <= listener'} = SeenBy(listener')
  BY <1>1, LogKept
<1>3. /\ SeenBy(Recorded(db))' = SeenBy(Recorded(db'))
      /\ SeenBy(listener)' = SeenBy(listener')
  BY <1>2 DEF SeenBy, Recorded
<1>4. UpTo(SeenBy(Recorded(db)), db.blocks)'
  <2>1. \E c \in 0 .. Len(log') :
            SeenBy(Recorded(db')) = 1 .. c /\ db'.blocks = BlocksOf(ChainAfter(c)')
    BY LogKept
  <2> QED BY <2>1, <1>3 DEF UpTo, BlocksOf
<1>5. ASSUME pc' # "down" PROVE UpTo(SeenBy(listener) \ batch, work.blocks)'
  <2> DEFINE done == SeenBy(listener') \ batch'
  <2>1. UpTo(done, work'.blocks)
    BY <1>5
  <2>2. SeenBy(listener)' \ batch' = done
    BY <1>3
  <2> HIDE DEF done
  <2>3. PICK c \in 0 .. Len(log') : done = 1 .. c /\ work'.blocks = BlocksOf(ChainAfter(c)')
    BY <2>1, LogKept
  <2>4. SeenBy(listener)' \ batch' = 1 .. c /\ work'.blocks = BlocksOf(ChainAfter(c))'
    BY <2>2, <2>3 DEF BlocksOf
  <2> QED BY <2>4 DEF UpTo
<1> QED BY <1>3, <1>4, <1>5 DEF TablesOK

(* Every step of an undisturbed run keeps the tables in line.              *)
LEMMA TablesStep ==
    ASSUME EventTypeOK, EventTypeOK', LogOK, PhaseOK, PhaseOK', Moves, ~Reordered,
           ~missed', TablesOK, [EventLoopNext]_eventVars
    PROVE  TablesOK'
<1>1. /\ db \in Database /\ work \in Database /\ listener \in Nat /\ now \in Nat
      /\ Recorded(db) < now /\ listener < now
      /\ \A i \in DOMAIN log : log[i].at \in Nat /\ 0 < log[i].at
  BY EventFacts DEF EventTypeOK, Moves, PhaseOK, LogOK
<1>2. ASSUME db'.blocks = db.blocks, db'.progress = db.progress, work'.blocks = work.blocks,
             listener' = listener, batch' = batch,
             pc' # "down" => pc # "down",
             pc' \in {"retry", "sleep"} => pc \in {"retry", "sleep"}
      PROVE  TablesOK'
  <2>1. Recorded(db') = Recorded(db)
    BY <1>2 DEF Recorded
  <2>2. UpTo(SeenBy(Recorded(db')), db'.blocks)
    BY <2>1, <1>2 DEF TablesOK
  <2>3. pc' # "down" => UpTo(SeenBy(listener') \ batch', work'.blocks)
    BY <1>2 DEF TablesOK
  <2>4. pc' \in {"retry", "sleep"} => SeenBy(Recorded(db')) = SeenBy(listener')
    BY <2>1, <1>2 DEF TablesOK
  <2>5. Recorded(db') < now /\ listener' < now
    BY <2>1, <1>1, <1>2
  <2> QED BY <2>2, <2>3, <2>4, <2>5, TablesNext
<1>3. CASE L1Post \/ L1Rollback \/ L1Tick \/ Signal \/ Sleep \/ UNCHANGED eventVars
  BY <1>2, <1>3 DEF L1Post, L1Rollback, L1Tick, Signal, Sleep, eventVars, loopVars
<1>4. CASE RetryChallenge
  <2>1. /\ work' = db' /\ db'.blocks = db.blocks /\ db'.progress = db.progress
        /\ UNCHANGED <<pc, listener, batch>> /\ pc = "retry"
    BY <1>4, RetryFacts DEF PendingIs
  <2>2. work = db
    BY <2>1 DEF PhaseOK
  <2> QED BY <2>1, <2>2, <1>2
<1>5. CASE SubmitChallenge
  <2>1. /\ work' = work \/ work' = SavePending(work, Head(frauds))
        /\ pc = "submit" /\ pc' \in {"event", "submit"}
        /\ UNCHANGED <<db, listener, batch>>
    BY <1>5 DEF SubmitChallenge
  <2>2. Head(frauds) \in Fraud
    BY <2>1 DEF PhaseOK, EventTypeOK
  <2>3. work'.blocks = work.blocks
    BY <1>1, <2>1, <2>2, PendingFacts DEF PendingIs
  <2> QED BY <2>1, <2>3, <1>2
<1>6. CASE Poll
  <2>1. /\ pc = "retry"
        /\ listener' = IF SafeBlock > listener THEN SafeBlock ELSE listener
        /\ batch' = Polled /\ (pc' = "sleep" => Polled = {}) /\ pc' \in {"sleep", "event"}
        /\ UNCHANGED <<now, log, db, work>>
    BY <1>6 DEF Poll, spineVars
  <2>2. batch = {} /\ SafeBlock \in Nat
    BY <2>1, <1>1, EventLoopAssumption DEF PhaseOK, SafeBlock
  <2>3. SeenBy(listener') \ batch' = SeenBy(listener)
    BY <2>1, <2>2, <1>1 DEF SeenBy, Polled
  <2>4. UpTo(SeenBy(listener') \ batch', work'.blocks)
    <3>1. UpTo(SeenBy(listener) \ batch, work.blocks) /\ SeenBy(listener) \ batch = SeenBy(listener)
      BY <2>1, <2>2 DEF TablesOK
    <3> QED BY <3>1, <2>1, <2>3
  <2>5. pc' = "sleep" => SeenBy(Recorded(db')) = SeenBy(listener')
    <3>1. pc' = "sleep" => SeenBy(listener') = SeenBy(listener)
      BY <2>1, <2>3
    <3> QED BY <3>1, <2>1 DEF TablesOK
  <2>6. listener' < now
    BY <2>1 DEF PhaseOK
  <2>7. UpTo(SeenBy(Recorded(db')), db'.blocks) /\ Recorded(db') < now
    BY <2>1, <1>1 DEF TablesOK
  <2> QED BY <2>1, <2>4, <2>5, <2>6, <2>7, TablesNext
<1>7. CASE PollFails
  <2>1. /\ pc = "retry" /\ pc' = "sleep" /\ UNCHANGED <<listener, db, work, batch>>
    BY <1>7 DEF PollFails
  <2> QED BY <2>1, <1>2
<1>8. CASE ProcessNewRoot \/ ProcessRollback
  <2>1. /\ pc = "event" /\ pc' \in {"event", "submit"} /\ batch # {}
        /\ batch' = batch \ {NextEvent}
        /\ UNCHANGED <<db, listener>>
    BY <1>8 DEF ProcessNewRoot, ProcessRollback
  <2>2. PICK c \in 0 .. Len(log) :
            SeenBy(listener) \ batch = 1 .. c /\ work.blocks = BlocksOf(ChainAfter(c))
    BY <2>1 DEF TablesOK, UpTo
  <2>3. c + 1 \in DOMAIN log /\ SeenBy(listener') \ batch' = 1 .. c + 1
    BY <2>1, <2>2, NextIsBehind
  <2>4. work'.blocks = BlocksOf(ChainAfter(c + 1))
    BY <1>8, <2>2, BlocksStep
  <2>5. c + 1 \in 0 .. Len(log)
    BY <2>3 DEF EventTypeOK
  <2>6. UpTo(SeenBy(listener') \ batch', work'.blocks)
    BY <2>3, <2>4, <2>5 DEF UpTo
  <2>7. UpTo(SeenBy(Recorded(db')), db'.blocks) /\ Recorded(db') < now /\ listener' < now
    BY <2>1, <1>1 DEF TablesOK
  <2> QED BY <2>1, <2>6, <2>7, TablesNext
<1>9. CASE Commit
  <2>1. /\ pc = "event" /\ batch = {} /\ pc' = "sleep"
        /\ db' = [work EXCEPT !.progress = listener] /\ work' = db'
        /\ UNCHANGED <<listener, batch>>
    BY <1>9 DEF Commit
  <2>2. Recorded(db') = listener /\ db'.blocks = work.blocks /\ work'.blocks = work.blocks
    BY <2>1, <1>1, ProgressFacts
  <2>3. SeenBy(listener) \ batch = SeenBy(listener) /\ UpTo(SeenBy(listener), work.blocks)
    BY <2>1 DEF TablesOK
  <2>4. /\ pc = "event" /\ batch = {} /\ pc' = "sleep" /\ UNCHANGED <<listener, batch>>
    BY <2>1
  <2>5. UpTo(SeenBy(listener') \ batch', work'.blocks)
    BY <2>2, <2>3, <2>4
  <2>6. UpTo(SeenBy(Recorded(db')), db'.blocks) /\ SeenBy(Recorded(db')) = SeenBy(listener')
    BY <2>2, <2>3, <2>4
  <2>7. Recorded(db') < now /\ listener' < now
    BY <2>2, <2>4, <1>1
  <2> QED BY <2>5, <2>6, <2>7, TablesNext
<1>10. CASE Exit
  <2>1. pc = "sleep" /\ db' = [db EXCEPT !.progress = listener] /\ Down
    BY <1>10 DEF Exit, Autocommit
  <2>2. Recorded(db') = listener /\ db'.blocks = db.blocks
    BY <2>1, <1>1, ProgressFacts
  <2>3. pc = "sleep" /\ pc' = "down" /\ listener' = 0
    BY <2>1, DownFacts
  <2>4. UpTo(SeenBy(Recorded(db')), db'.blocks)
    BY <2>2, <2>3 DEF TablesOK
  <2>5. Recorded(db') < now /\ listener' < now
    BY <2>2, <2>3, <1>1
  <2> QED BY <2>3, <2>4, <2>5, TablesNext
<1>11. CASE Start
  <2>1. /\ pc = "down" /\ listener' = FirstListened(db) /\ pc' = "retry"
        /\ UNCHANGED <<now, log, db, work, batch>>
        /\ ~\E i \in DOMAIN log : Recorded(db) < log[i].at /\ log[i].at <= listener'
    BY <1>11 DEF Start, spineVars
  <2>2. work = db /\ batch = {}
    BY <2>1 DEF PhaseOK
  <2>3. Recorded(db) \in Nat /\ listener' \in Nat
    BY <1>1, DatabaseFacts DEF EventTypeOK
  <2>4. Recorded(db) = 0 \/ Recorded(db) = listener'
    BY <2>1 DEF FirstListened, Recorded
  <2>5. SeenBy(Recorded(db)) = SeenBy(listener')
    BY <1>1, <2>1, <2>3, <2>4 DEF SeenBy
  <2>6. UpTo(SeenBy(Recorded(db)), db.blocks)
    BY DEF TablesOK
  <2>7. SeenBy(listener') \ batch' = SeenBy(listener') /\ work' = db /\ db' = db
    BY <2>1, <2>2
  <2>8. UpTo(SeenBy(listener') \ batch', work'.blocks)
    BY <2>5, <2>6, <2>7
  <2>9. listener' < now
    BY <2>1 DEF PhaseOK
  <2> QED BY <1>1, <2>5, <2>6, <2>7, <2>8, <2>9, TablesNext
<1>12. CASE Crash
  <2>1. pc' = "down" /\ listener' = 0 /\ db' = db
    BY <1>12, DownFacts DEF Crash
  <2>2. UpTo(SeenBy(Recorded(db')), db'.blocks) /\ Recorded(db') < now /\ listener' < now
    BY <2>1, <1>1 DEF TablesOK
  <2> QED BY <2>1, <2>2, TablesNext
<1>13. CASE FetchFails \/ Abandon
  BY <1>13 DEF FetchFails, Abandon
<1> QED BY <1>3, <1>4, <1>5, <1>6, <1>7, <1>8, <1>9, <1>10, <1>11, <1>12, <1>13
     DEF EventLoopNext, LoopStep

-----------------------------------------------------------------------------
(* Pending challenges, frauds and the tree.                                *)

(* The chain the tables follow is one of blocks from before now.           *)
LEMMA UpToFacts ==
    ASSUME log \in Seq(Event), LogOK, NEW k \in Nat, k < now, now \in Nat,
           NEW done, done \subseteq SeenBy(k), NEW blocks, UpTo(done, blocks)
    PROVE  \A n \in DOMAIN blocks :
               /\ blocks[n] \in BlockData /\ blocks[n].timestamp # now
               /\ blocks[n].blockNr = n
<1>1. PICK c \in 0 .. Len(log) : done = 1 .. c /\ blocks = BlocksOf(ChainAfter(c))
  BY DEF UpTo
<1> SUFFICES ASSUME NEW n \in DOMAIN blocks
             PROVE  blocks[n] \in BlockData /\ blocks[n].timestamp # now /\ blocks[n].blockNr = n
  OBVIOUS
<1>2. CASE c = 0
  BY <1>1, <1>2 DEF ChainAfter, BlocksOf
<1>3. CASE c # 0
  <2> DEFINE q == log[c].chain
  <2>1. c \in SeenBy(k)
    BY <1>1, <1>3
  <2>2. c \in DOMAIN log /\ log[c].at <= k
    BY <2>1 DEF SeenBy
  <2>3. q \in Seq(BlockData) /\ log[c].at \in Nat /\ ChainOK(q, log[c].at)
        /\ blocks = BlocksOf(q)
    BY <1>1, <1>3, <2>2, EventFacts DEF LogOK, ChainAfter
  <2> HIDE DEF q
  <2>4. n \in 0 .. Len(q) - 1 /\ blocks[n] = q[n + 1] /\ n + 1 \in 1 .. Len(q)
    BY <2>3 DEF BlocksOf
  <2>5. q[n + 1] \in BlockData /\ q[n + 1].timestamp <= log[c].at /\ q[n + 1].blockNr = n
    BY <2>3, <2>4 DEF ChainOK
  <2>6. q[n + 1].timestamp \in Nat
    BY <2>5 DEF BlockData
  <2> QED BY <2>2, <2>3, <2>4, <2>5, <2>6
<1> QED BY <1>2, <1>3

(* The blocks in the tables are from before now.                           *)
LEMMA TableBlocks ==
    ASSUME EventTypeOK, LogOK, PhaseOK, Moves, TablesOK
    PROVE  /\ \A n \in DOMAIN db.blocks :
                  db.blocks[n].timestamp # now /\ db.blocks[n].blockNr = n
           /\ \A n \in DOMAIN work.blocks :
                  work.blocks[n].timestamp # now /\ work.blocks[n].blockNr = n
<1>1. /\ Recorded(db) \in Nat /\ Recorded(db) < now /\ now \in Nat /\ log \in Seq(Event)
      /\ listener \in Nat /\ listener < now
  BY DatabaseFacts DEF EventTypeOK, PhaseOK, Moves
<1>2. \A n \in DOMAIN db.blocks : db.blocks[n].timestamp # now /\ db.blocks[n].blockNr = n
  <2>1. UpTo(SeenBy(Recorded(db)), db.blocks)
    BY DEF TablesOK
  <2> QED BY <1>1, <2>1, UpToFacts
<1>3. CASE pc = "down"
  BY <1>2, <1>3 DEF PhaseOK
<1>4. CASE pc # "down"
  <2> DEFINE done == SeenBy(listener) \ batch
  <2>1. UpTo(done, work.blocks) /\ done \subseteq SeenBy(listener)
    BY <1>4 DEF TablesOK
  <2> HIDE DEF done
  <2> QED BY <1>1, <1>2, <2>1, UpToFacts
<1> QED BY <1>2, <1>3, <1>4

(* What a new root does to the tables.                                     *)
LEMMA NewRootTables ==
    ASSUME EventTypeOK, LogOK, PhaseOK, ~Reordered, TablesOK, ProcessNewRoot
    PROVE  \E b \in BlockData, e \in DOMAIN log :
               /\ b.timestamp = log[e].at
               /\ b.blockNr \notin DOMAIN work.blocks
               /\ \A n \in DOMAIN work.blocks : work.blocks[n].blockIndex # b.blockIndex
               /\ work'.blocks = [n \in DOMAIN work.blocks \cup {b.blockNr} |->
                                     IF n = b.blockNr THEN b ELSE work.blocks[n]]
               /\ work'.pending = work.pending
               /\ \/ /\ NullifiersRefused(b)
                     /\ work'.roots = work.roots /\ tracker' = tracker /\ frauds' = frauds
                  \/ /\ ~NullifiersRefused(b)
                     /\ work'.roots = [s \in DOMAIN work.roots \cup {b.blockIndex} |->
                                          IF s = b.blockIndex
                                          THEN [nr |-> b.blockNr, root |-> b.blobhashes]
                                          ELSE work.roots[s]]
                     /\ tracker' = [s \in DOMAIN tracker \cup {b.blockIndex} |->
                                       IF s = b.blockIndex THEN b.blobhashes ELSE tracker[s]]
                     /\ frauds' = [i \in DOMAIN Alarms(e, b) |->
                                      [nr |-> b.blockNr, at |-> log[e].at,
                                       type |-> Alarms(e, b)[i]]]
<1> DEFINE e == NextEvent
           p == ChainAfter(e - 1)
           q == log[e].chain
           b == q[Len(q)]
<1>1. batch # {} /\ pc = "event" /\ log[e].kind = "NewRoot" /\ work \in Database
  BY DEF ProcessNewRoot, EventTypeOK
<1>2. PICK c \in 0 .. Len(log) :
          SeenBy(listener) \ batch = 1 .. c /\ work.blocks = BlocksOf(ChainAfter(c))
  BY <1>1 DEF TablesOK, UpTo
<1>3. e = c + 1
  BY <1>1, <1>2, NextIsBehind
<1>4. e - 1 = c /\ work.blocks = BlocksOf(p)
  BY <1>2, <1>3
<1>5. /\ e \in DOMAIN log
      /\ p \in Seq(BlockData) /\ q \in Seq(BlockData) /\ b \in BlockData
      /\ Len(p) \in Nat /\ Len(q) = Len(p) + 1
      /\ \A k \in 1 .. Len(p) : q[k] = p[k]
      /\ b.timestamp = log[e].at /\ b.blockNr = Len(p)
  BY <1>1, NewRootFacts
<1>6. \/ NullifiersRefused(b) /\ work' = SaveBlock(work, b) /\ UNCHANGED <<tracker, frauds>>
      \/ /\ ~NullifiersRefused(b)
         /\ work' = SaveRoot(SaveBlock(work, b), b)
         /\ tracker' = [s \in DOMAIN tracker \cup {b.blockIndex} |->
                           IF s = b.blockIndex THEN b.blobhashes ELSE tracker[s]]
         /\ frauds' = [i \in DOMAIN Alarms(e, b) |->
                          [nr |-> b.blockNr, at |-> log[e].at, type |-> Alarms(e, b)[i]]]
  BY DEF ProcessNewRoot
<1>7. ChainOK(q, log[e].at)
  BY <1>5 DEF LogOK
<1>8. b = q[Len(p) + 1]
  BY <1>5
<1> HIDE DEF e, p, q, b
<1>9. DOMAIN work.blocks = 0 .. Len(p) - 1
  BY <1>4 DEF BlocksOf
<1>10. b.blockNr \notin DOMAIN work.blocks
  BY <1>5, <1>9
<1>11. ASSUME NEW n \in DOMAIN work.blocks PROVE work.blocks[n].blockIndex # b.blockIndex
  <2>1. n + 1 \in 1 .. Len(p) /\ n \in 0 .. Len(p) - 1
    BY <1>5, <1>9
  <2>2. work.blocks[n] = q[n + 1]
    BY <1>4, <1>5, <2>1 DEF BlocksOf
  <2>3. Len(p) + 1 \in 1 .. Len(q) /\ n + 1 \in 1 .. (Len(p) + 1) - 1
    BY <1>5, <2>1
  <2>4. q[n + 1].blockIndex # q[Len(p) + 1].blockIndex
    BY <1>7, <2>3 DEF ChainOK
  <2> QED BY <1>8, <2>2, <2>4
<1> DEFINE v == SaveBlock(work, b)
<1>12. /\ v \in Database /\ v.roots = work.roots /\ v.pending = work.pending
       /\ v.blocks = [n \in DOMAIN work.blocks \cup {b.blockNr} |->
                         IF n = b.blockNr THEN b ELSE work.blocks[n]]
  BY <1>1, <1>5, SaveBlockFacts
<1>13. /\ SaveRoot(v, b).blocks = v.blocks /\ SaveRoot(v, b).pending = v.pending
       /\ SaveRoot(v, b).roots = [s \in DOMAIN v.roots \cup {b.blockIndex} |->
                                     IF s = b.blockIndex
                                     THEN [nr |-> b.blockNr, root |-> b.blobhashes]
                                     ELSE v.roots[s]]
  BY <1>5, <1>12, SaveRootFacts
<1> HIDE DEF v
<1>14. /\ work'.pending = work.pending
       /\ work'.blocks = [n \in DOMAIN work.blocks \cup {b.blockNr} |->
                             IF n = b.blockNr THEN b ELSE work.blocks[n]]
  <2>1. work' = v \/ work' = SaveRoot(v, b)
    BY <1>6 DEF v
  <2>2. work'.pending = v.pending /\ work'.blocks = v.blocks
    BY <2>1, <1>13
  <2> QED BY <2>2, <1>12
<1>15. CASE NullifiersRefused(b)
  <2>1. work' = v /\ UNCHANGED <<tracker, frauds>>
    BY <1>6, <1>15 DEF v
  <2>2. work'.roots = work.roots
    BY <2>1, <1>12
  <2> QED BY <1>5, <1>10, <1>11, <1>14, <1>15, <2>1, <2>2
<1>16. CASE ~NullifiersRefused(b)
  <2>1. /\ work' = SaveRoot(v, b)
        /\ tracker' = [s \in DOMAIN tracker \cup {b.blockIndex} |->
                           IF s = b.blockIndex THEN b.blobhashes ELSE tracker[s]]
        /\ frauds' = [i \in DOMAIN Alarms(e, b) |->
                          [nr |-> b.blockNr, at |-> log[e].at, type |-> Alarms(e, b)[i]]]
    BY <1>6, <1>16 DEF v
  <2>2. work'.roots = [s \in DOMAIN work.roots \cup {b.blockIndex} |->
                          IF s = b.blockIndex
                          THEN [nr |-> b.blockNr, root |-> b.blobhashes]
                          ELSE work.roots[s]]
    BY <2>1, <1>12, <1>13
  <2> QED BY <1>5, <1>10, <1>11, <1>14, <1>16, <2>1, <2>2
<1> QED BY <1>15, <1>16

(* What a rollback does to the tables.                                     *)
LEMMA RollbackTables ==
    ASSUME EventTypeOK, LogOK, ProcessRollback
    PROVE  \E to \in Nat :
               /\ work'.blocks = [n \in {n \in DOMAIN work.blocks : n < to} |-> work.blocks[n]]
               /\ work'.roots = [s \in {s \in DOMAIN work.roots : work.roots[s].nr < to} |->
                                    work.roots[s]]
               /\ work'.pending = {p \in work.pending : p.nr < to}
<1> DEFINE m == Len(log[NextEvent].chain)
<1>1. m \in Nat /\ work \in Database
  BY NextEventFacts, EventFacts DEF ProcessRollback, EventTypeOK
<1>2. work' = DeleteFrom(work, m)
  BY DEF ProcessRollback
<1> HIDE DEF m
<1> QED BY <1>1, <1>2, DeleteFromFacts

(* Recording the progress changes nothing else; the process keeps nothing  *)
(* but the database when it ends.                                          *)
LEMMA ProgressTables ==
    ASSUME EventTypeOK, PhaseOK, Commit \/ Exit
    PROVE  /\ db'.blocks = work.blocks /\ db'.roots = work.roots /\ db'.pending = work.pending
           /\ work' = db'
           /\ Commit => pc' = "sleep" /\ UNCHANGED <<tracker, frauds>> /\ pc = "event"
           /\ Exit => pc' = "down" /\ frauds' = <<>> /\ work = db
<1>1. work \in Database /\ db \in Database /\ listener \in Nat
  BY DEF EventTypeOK
<1>2. CASE Commit
  <2>1. db' = [work EXCEPT !.progress = listener] /\ work' = db' /\ pc' = "sleep"
        /\ UNCHANGED <<tracker, frauds>> /\ pc = "event"
    BY <1>2 DEF Commit
  <2>2. db'.blocks = work.blocks /\ db'.roots = work.roots /\ db'.pending = work.pending
    BY <1>1, <2>1, ProgressFacts
  <2>3. work' = db' /\ pc' = "sleep" /\ UNCHANGED <<tracker, frauds>> /\ pc = "event"
    BY <2>1
  <2>4. ~Exit
    BY <2>3 DEF Exit
  <2> QED BY <2>2, <2>3, <2>4
<1>3. CASE Exit
  <2>1. db' = [db EXCEPT !.progress = listener] /\ work' = db' /\ pc = "sleep" /\ Down
    BY <1>3 DEF Exit, Autocommit
  <2>2. db'.blocks = db.blocks /\ db'.roots = db.roots /\ db'.pending = db.pending
    BY <1>1, <2>1, ProgressFacts
  <2>3. work' = db' /\ pc = "sleep" /\ Down
    BY <2>1
  <2>4. work = db /\ pc' = "down" /\ frauds' = <<>>
    BY <2>3, DownFacts DEF PhaseOK
  <2>5. ~Commit
    BY <2>3 DEF Commit
  <2> QED BY <2>2, <2>3, <2>4, <2>5
<1> QED BY <1>2, <1>3

(* What the submission of a challenge does to the tables.                  *)
LEMMA SubmitTables ==
    ASSUME EventTypeOK, PhaseOK, SubmitChallenge
    PROVE  LET f == Head(frauds)
               c == [nr |-> f.nr, at |-> f.at, type |-> f.type, count |-> 0]
           IN  /\ f \in Fraud /\ f \in Found
               /\ \/ SubmitOk(f.nr, f.type) /\ work'.pending = work.pending
                  \/ SubmitErr(f.nr, f.type) /\ work'.pending = work.pending \cup {c}
               /\ work'.blocks = work.blocks /\ work'.roots = work.roots
               /\ Found' \subseteq Found /\ Found \subseteq Found' \cup {f}
               /\ pc = "submit" /\ pc' \in {"event", "submit"}
               /\ UNCHANGED <<db, tracker>>
<1> DEFINE f == Head(frauds)
           c == [nr |-> f.nr, at |-> f.at, type |-> f.type, count |-> 0]
<1>1. pc = "submit" /\ work \in Database /\ frauds \in Seq(Fraud) /\ frauds # <<>>
  BY DEF SubmitChallenge, EventTypeOK, PhaseOK
<1>2. f \in Fraud /\ f = frauds[1] /\ 1 \in DOMAIN frauds
  BY <1>1
<1>3. /\ DOMAIN frauds = 1 .. Len(frauds) /\ Len(frauds) \in Nat
      /\ Tail(frauds) \in Seq(Fraud) /\ Len(Tail(frauds)) = Len(frauds) - 1
      /\ \A i \in 1 .. Len(frauds) - 1 : Tail(frauds)[i] = frauds[i + 1]
  BY <1>1
<1>4. frauds' = Tail(frauds)
  BY DEF SubmitChallenge
<1>5. ASSUME NEW x \in Found' PROVE x \in Found
  <2>1. PICK i \in 1 .. Len(frauds) - 1 : x = frauds[i + 1]
    BY <1>3, <1>4 DEF Found
  <2> QED BY <1>3, <2>1 DEF Found
<1>6. ASSUME NEW x \in Found PROVE x \in Found' \cup {f}
  <2>1. PICK i \in 1 .. Len(frauds) : x = frauds[i]
    BY <1>3 DEF Found
  <2>2. CASE i = 1
    BY <2>1, <2>2, <1>2
  <2>3. CASE i # 1
    <3>1. i - 1 \in 1 .. Len(frauds) - 1 /\ (i - 1) + 1 = i
      BY <1>3, <2>3
    <3>2. frauds'[i - 1] = x /\ i - 1 \in DOMAIN frauds'
      BY <1>3, <1>4, <2>1, <3>1
    <3> QED BY <3>2 DEF Found
  <2> QED BY <2>2, <2>3
<1>7. PendingIs(SavePending(work, f), work, work.pending \cup {c})
  BY <1>1, <1>2, PendingFacts
<1>8. /\ \/ SubmitOk(f.nr, f.type) /\ work' = work
         \/ SubmitErr(f.nr, f.type) /\ work' = SavePending(work, f)
      /\ pc' \in {"event", "submit"} /\ UNCHANGED <<db, tracker>>
  BY DEF SubmitChallenge
<1>9. f \in Found
  BY <1>2 DEF Found
<1> HIDE DEF f, c
<1>10. /\ \/ SubmitOk(f.nr, f.type) /\ work'.pending = work.pending
          \/ SubmitErr(f.nr, f.type) /\ work'.pending = work.pending \cup {c}
       /\ work'.blocks = work.blocks /\ work'.roots = work.roots
  BY <1>7, <1>8 DEF PendingIs
<1> QED BY <1>1, <1>2, <1>5, <1>6, <1>8, <1>9, <1>10 DEF f, c

(* A challenge that is taken for submitted is of a block that is gone.     *)
LEMMA SubmitOkMeansGone ==
    ASSUME SpineInv, NEW n \in Nat, NEW type, SubmitOk(n, type), n \in BlockNumbers',
           n \in DOMAIN work.blocks
    PROVE  work.blocks[n] # Block(n)'
<1>1. CASE Accepted(work, n, type) /\ Challenge(n)
  <2>1. roots' = SubSeq(roots, 1, n) /\ roots \in Seq(BlockData) /\ n <= Len(roots)
    BY <1>1 DEF Accepted, Challenge, Rollback, Height, SpineInv, SpineTypeOK
  <2>2. Len(roots') = n
    BY <2>1, PrefixFacts
  <2> QED BY <2>2 DEF BlockNumbers, Height
<1>2. CASE Overtaken(work, n) /\ UNCHANGED <<spineVars, log>>
  <2>1. roots' = roots
    BY <1>2 DEF spineVars
  <2>2. n < Height /\ Block(n)' = Block(n)
    BY <2>1 DEF BlockNumbers, Height, Block, SpineInv, SpineTypeOK
  <2> QED BY <1>2, <2>2 DEF Overtaken
<1> QED BY <1>1, <1>2 DEF SubmitOk

(* Every step of an undisturbed run keeps the pending challenges and the   *)
(* frauds to the blocks they are of.                                       *)
LEMMA PendingStep ==
    ASSUME EventTypeOK, LogOK, PhaseOK, ~Reordered, ~missed', TablesOK, PendingOK,
           [EventLoopNext]_eventVars
    PROVE  PendingOK'
<1>1. Found = {frauds[i] : i \in DOMAIN frauds}
  BY DEF Found
<1>2. frauds' = <<>> => Found' = {}
  BY DEF Found
<1>3. frauds' = frauds => Found' = Found
  BY DEF Found
<1>4. CASE UNCHANGED <<db, work, frauds>>
  BY <1>3, <1>4 DEF PendingOK, Stands
<1>5. CASE L1Post \/ L1Rollback \/ L1Tick \/ Signal \/ UNCHANGED eventVars
  BY <1>4, <1>5 DEF L1Post, L1Rollback, L1Tick, Signal, eventVars, loopVars
<1>6. CASE Poll \/ PollFails \/ Sleep \/ Start
  BY <1>4, <1>6 DEF Poll, PollFails, Sleep, Start
<1>7. CASE RetryChallenge
  <2>1. PICK p \in retries :
            /\ \/ PendingIs(db', db, db.pending \ {p})
               \/ \E c \in Pending :
                      /\ c.nr = p.nr /\ c.at = p.at
                      /\ PendingIs(db', db, (db.pending \ {p}) \cup {c})
            /\ work' = db' /\ frauds' = frauds /\ pc = "retry"
    BY <1>7, RetryFacts
  <2>2. p \in db.pending /\ Found' = {}
    BY <2>1, <1>2 DEF PhaseOK
  <2>3. db'.blocks = db.blocks
    BY <2>1 DEF PendingIs
  <2>4. ASSUME NEW q \in db'.pending PROVE q \in db.pending \/ (q.nr = p.nr /\ q.at = p.at)
    <3>1. CASE PendingIs(db', db, db.pending \ {p})
      BY <3>1 DEF PendingIs
    <3>2. ASSUME NEW c \in Pending, c.nr = p.nr, c.at = p.at,
                 PendingIs(db', db, (db.pending \ {p}) \cup {c})
          PROVE  q \in db.pending \/ (q.nr = p.nr /\ q.at = p.at)
      BY <3>2 DEF PendingIs
    <3> QED BY <2>1, <3>1, <3>2
  <2>5. \A q \in db'.pending : Stands(db', q)
    BY <2>2, <2>3, <2>4 DEF PendingOK, Stands
  <2> QED BY <2>1, <2>2, <2>5 DEF PendingOK
<1>8. CASE ProcessNewRoot
  <2>1. PICK b \in BlockData, e \in DOMAIN log :
               /\ b.timestamp = log[e].at
               /\ b.blockNr \notin DOMAIN work.blocks
               /\ work'.blocks = [n \in DOMAIN work.blocks \cup {b.blockNr} |->
                                     IF n = b.blockNr THEN b ELSE work.blocks[n]]
               /\ work'.pending = work.pending
               /\ \/ frauds' = frauds
                  \/ frauds' = [i \in DOMAIN Alarms(e, b) |->
                                      [nr |-> b.blockNr, at |-> log[e].at,
                                       type |-> Alarms(e, b)[i]]]
    BY <1>8, NewRootTables
  <2>2. frauds = <<>> /\ db' = db
    BY <1>8 DEF ProcessNewRoot, PhaseOK
  <2>3. \A x \in Found' : x.nr = b.blockNr /\ x.at = b.timestamp
    BY <2>1, <2>2 DEF Found
  <2>4. \A n \in DOMAIN work.blocks : n \in DOMAIN work'.blocks /\ work'.blocks[n] = work.blocks[n]
    BY <2>1
  <2>5. b.blockNr \in DOMAIN work'.blocks /\ work'.blocks[b.blockNr] = b
    BY <2>1
  <2>6. ASSUME NEW p \in work'.pending PROVE Stands(work', p)
    BY <2>1, <2>4, <2>6 DEF PendingOK, Stands
  <2>7. ASSUME NEW p \in Found' PROVE Stands(work', p)
    BY <2>3, <2>5, <2>7 DEF Stands
  <2>8. ASSUME NEW p \in db'.pending PROVE Stands(db', p)
    BY <2>2 DEF PendingOK
  <2> QED BY <2>6, <2>7, <2>8 DEF PendingOK
<1>9. CASE ProcessRollback
  <2>1. PICK to \in Nat :
               /\ work'.blocks = [n \in {n \in DOMAIN work.blocks : n < to} |-> work.blocks[n]]
               /\ work'.pending = {p \in work.pending : p.nr < to}
    BY <1>9, RollbackTables
  <2>2. frauds' = <<>> /\ db' = db
    BY <1>9 DEF ProcessRollback, PhaseOK
  <2>3. ASSUME NEW p \in work'.pending PROVE Stands(work', p)
    BY <2>1, <2>3 DEF PendingOK, Stands
  <2> QED BY <1>2, <2>2, <2>3 DEF PendingOK
<1>10. CASE SubmitChallenge
  <2> DEFINE f == Head(frauds)
  <2> DEFINE c == [nr |-> f.nr, at |-> f.at, type |-> f.type, count |-> 0]
  <2>1. /\ f \in Found /\ Found' \subseteq Found /\ work'.blocks = work.blocks /\ db' = db
        /\ work'.pending \subseteq work.pending \cup {c}
    BY <1>10, SubmitTables
  <2>2. c.nr = f.nr /\ c.at = f.at
    OBVIOUS
  <2> HIDE DEF f, c
  <2>3. ASSUME NEW p \in work'.pending \cup Found' PROVE Stands(work', p)
    BY <2>1, <2>2 DEF PendingOK, Stands
  <2> QED BY <2>1, <2>3 DEF PendingOK
<1>11. CASE Commit \/ Exit
  <2>1. /\ db'.blocks = work.blocks /\ db'.pending = work.pending /\ work' = db'
        /\ frauds' = frauds \/ frauds' = <<>>
    BY <1>11, ProgressTables
  <2>2. Found' \subseteq Found
    BY <1>2, <1>3, <2>1
  <2> QED BY <2>1, <2>2 DEF PendingOK, Stands
<1>12. CASE Crash
  <2>1. work' = db /\ db' = db /\ frauds' = <<>>
    BY <1>12, DownFacts DEF Crash
  <2> QED BY <1>2, <2>1 DEF PendingOK, Stands
<1>13. CASE FetchFails \/ Abandon
  BY <1>13 DEF FetchFails, Abandon
<1> QED BY <1>5, <1>6, <1>7, <1>8, <1>9, <1>10, <1>11, <1>12, <1>13
     DEF EventLoopNext, LoopStep

(* A block that was posted meanwhile is not in the tables yet.             *)
LEMMA AnsweredMoves ==
    ASSUME Moves, NEW w, NEW found, \A n \in DOMAIN w.blocks : w.blocks[n].timestamp # now,
           \A n \in BlockNumbers : Answered(w, found, n, Block(n))
    PROVE  \A n \in BlockNumbers' : Answered(w, found, n, Block(n)')
<1> SUFFICES ASSUME NEW n \in BlockNumbers' PROVE Answered(w, found, n, Block(n)')
  OBVIOUS
<1>1. CASE n \in BlockNumbers /\ Block(n)' = Block(n)
  BY <1>1
<1>2. CASE Block(n)'.timestamp = now
  <2>1. ~(n \in DOMAIN w.blocks /\ w.blocks[n] = Block(n)')
    BY <1>2
  <2> QED BY <2>1 DEF Answered
<1> QED BY <1>1, <1>2 DEF Moves

(* Every step of an undisturbed run keeps each fraud that stands on        *)
(* record: a challenge is struck off only when its block is gone.          *)
LEMMA FraudStep ==
    ASSUME EventTypeOK, SpineInv, LogOK, PhaseOK, Moves, ~Reordered, ~missed', TablesOK, FraudOK,
           [EventLoopNext]_eventVars
    PROVE  FraudOK'
<1>1. /\ \A n \in BlockNumbers' : Answered(db, {}, n, Block(n)')
      /\ \A n \in BlockNumbers' : Answered(work, Found, n, Block(n)')
  BY AnsweredMoves, TableBlocks DEF FraudOK
<1> SUFFICES ASSUME NEW n \in BlockNumbers'
             PROVE  Answered(db', {}, n, Block(n)') /\ Answered(work', Found', n, Block(n)')
  BY DEF FraudOK, Answered
<1> DEFINE b == Block(n)'
<1>2. Answered(db, {}, n, b) /\ Answered(work, Found, n, b)
  BY <1>1
<1> HIDE DEF b
<1>3. /\ frauds' = <<>> => Found' = {}
      /\ frauds' = frauds => Found' = Found
      /\ frauds = <<>> => Found = {}
  BY DEF Found
<1>4. CASE UNCHANGED <<db, work, frauds>>
  BY <1>2, <1>3, <1>4 DEF b
<1>5. CASE L1Post \/ L1Rollback \/ L1Tick \/ Signal \/ UNCHANGED eventVars
  BY <1>4, <1>5 DEF L1Post, L1Rollback, L1Tick, Signal, eventVars, loopVars
<1>6. CASE Poll \/ PollFails \/ Sleep \/ Start
  BY <1>4, <1>6 DEF Poll, PollFails, Sleep, Start
<1>7. CASE RetryChallenge
  <2>1. PICK p \in retries :
            /\ p \in Pending
            /\ \/ SubmitOk(p.nr, p.type) /\ PendingIs(db', db, db.pending \ {p})
               \/ \E c \in Pending :
                      /\ c.nr = p.nr /\ c.type = p.type
                      /\ PendingIs(db', db, (db.pending \ {p}) \cup {c})
            /\ work' = db' /\ frauds' = frauds /\ pc = "retry"
    BY <1>7, RetryFacts
  <2>2. work = db /\ frauds = <<>> /\ p.nr \in Nat
    BY <2>1 DEF PhaseOK, Pending
  <2>3. db'.blocks = db.blocks
    BY <2>1 DEF PendingIs
  <2>4. Answered(db', {}, n, b)
    <3> SUFFICES ASSUME n \in DOMAIN db.blocks, db.blocks[n] = b, WrongLeaf(b),
                        ~NullifiersRefused(b)
                 PROVE  \E q \in db'.pending : q.nr = n /\ q.type = "deposit"
      BY <2>3 DEF Answered
    <3>1. PICK q \in db.pending : q.nr = n /\ q.type = "deposit"
      BY <1>2 DEF Answered
    <3>2. CASE SubmitOk(p.nr, p.type) /\ PendingIs(db', db, db.pending \ {p})
      <4>1. p.nr # n
        BY <2>2, <3>2, SubmitOkMeansGone DEF b
      <4>2. q \in db'.pending
        BY <3>1, <3>2, <4>1 DEF PendingIs
      <4> QED BY <3>1, <4>2
    <3>3. ASSUME NEW c \in Pending, c.nr = p.nr, c.type = p.type,
                 PendingIs(db', db, (db.pending \ {p}) \cup {c})
          PROVE  \E x \in db'.pending : x.nr = n /\ x.type = "deposit"
      <4>1. CASE q = p
        <5>1. c \in db'.pending /\ c.nr = n /\ c.type = "deposit"
          BY <3>1, <3>3, <4>1 DEF PendingIs
        <5> QED BY <5>1
      <4>2. CASE q # p
        <5>1. q \in db'.pending
          BY <3>1, <3>3, <4>2 DEF PendingIs
        <5> QED BY <3>1, <5>1
      <4> QED BY <4>1, <4>2
    <3> QED BY <2>1, <3>2, <3>3
  <2>5. Found' = {}
    BY <1>3, <2>1, <2>2
  <2> QED BY <2>1, <2>4, <2>5 DEF b
<1>8. CASE ProcessNewRoot
  <2>1. PICK a \in BlockData, e \in DOMAIN log :
               /\ a.blockNr \notin DOMAIN work.blocks
               /\ work'.blocks = [k \in DOMAIN work.blocks \cup {a.blockNr} |->
                                     IF k = a.blockNr THEN a ELSE work.blocks[k]]
               /\ work'.pending = work.pending
               /\ \/ NullifiersRefused(a)
                  \/ frauds' = [i \in DOMAIN Alarms(e, a) |->
                                      [nr |-> a.blockNr, at |-> log[e].at,
                                       type |-> Alarms(e, a)[i]]]
    BY <1>8, NewRootTables
  <2>2. Found = {} /\ db' = db
    BY <1>3, <1>8 DEF ProcessNewRoot, PhaseOK
  <2>3. Answered(work', Found', n, b)
    <3> SUFFICES ASSUME n \in DOMAIN work'.blocks, work'.blocks[n] = b, WrongLeaf(b),
                        ~NullifiersRefused(b)
                 PROVE  \E q \in work'.pending \cup Found' : q.nr = n /\ q.type = "deposit"
      BY DEF Answered
    <3>1. CASE n = a.blockNr
      <4>1. b = a
        BY <2>1, <3>1
      <4>2. frauds' = [i \in DOMAIN Alarms(e, a) |->
                           [nr |-> a.blockNr, at |-> log[e].at, type |-> Alarms(e, a)[i]]]
        BY <2>1, <4>1
      <4>3. PICK i \in DOMAIN Alarms(e, a) : Alarms(e, a)[i] = "deposit"
        BY <4>1, AlarmFacts
      <4>4. i \in DOMAIN frauds' /\ frauds'[i].nr = n /\ frauds'[i].type = "deposit"
        BY <3>1, <4>2, <4>3
      <4> QED BY <4>4 DEF Found
    <3>2. CASE n # a.blockNr
      <4>1. n \in DOMAIN work.blocks /\ work.blocks[n] = b
        BY <2>1, <3>2
      <4>2. PICK q \in work.pending : q.nr = n /\ q.type = "deposit"
        BY <1>2, <2>2, <4>1 DEF Answered
      <4> QED BY <2>1, <4>2
    <3> QED BY <3>1, <3>2
  <2> QED BY <1>2, <2>2, <2>3 DEF b
<1>9. CASE ProcessRollback
  <2>1. PICK to \in Nat :
               /\ work'.blocks = [k \in {k \in DOMAIN work.blocks : k < to} |-> work.blocks[k]]
               /\ work'.pending = {p \in work.pending : p.nr < to}
    BY <1>9, RollbackTables
  <2>2. Found = {} /\ db' = db
    BY <1>3, <1>9 DEF ProcessRollback, PhaseOK
  <2>3. Answered(work', Found', n, b)
    <3> SUFFICES ASSUME n \in DOMAIN work'.blocks, work'.blocks[n] = b, WrongLeaf(b),
                        ~NullifiersRefused(b)
                 PROVE  \E q \in work'.pending \cup Found' : q.nr = n /\ q.type = "deposit"
      BY DEF Answered
    <3>1. n \in DOMAIN work.blocks /\ work.blocks[n] = b /\ n < to
      BY <2>1
    <3>2. PICK q \in work.pending : q.nr = n /\ q.type = "deposit"
      BY <1>2, <2>2, <3>1 DEF Answered
    <3>3. q \in work'.pending
      BY <2>1, <3>1, <3>2
    <3> QED BY <3>2, <3>3
  <2> QED BY <1>2, <2>2, <2>3 DEF b
<1>10. CASE SubmitChallenge
  <2> DEFINE f == Head(frauds)
             c == [nr |-> f.nr, at |-> f.at, type |-> f.type, count |-> 0]
  <2>1. /\ f \in Fraud
        /\ \/ SubmitOk(f.nr, f.type) /\ work'.pending = work.pending
           \/ work'.pending = work.pending \cup {c}
        /\ work'.blocks = work.blocks
        /\ Found \subseteq Found' \cup {f}
        /\ db' = db
    BY <1>10, SubmitTables
  <2>2. c.nr = f.nr /\ c.type = f.type
    OBVIOUS
  <2>3. f.nr \in Nat
    BY <2>1 DEF Fraud
  <2> HIDE DEF f, c
  <2>4. Answered(work', Found', n, b)
    <3> SUFFICES ASSUME n \in DOMAIN work.blocks, work.blocks[n] = b, WrongLeaf(b),
                        ~NullifiersRefused(b)
                 PROVE  \E q \in work'.pending \cup Found' : q.nr = n /\ q.type = "deposit"
      BY <2>1 DEF Answered
    <3>1. PICK q \in work.pending \cup Found : q.nr = n /\ q.type = "deposit"
      BY <1>2 DEF Answered
    <3>2. CASE q \in work'.pending \cup Found'
      BY <3>1, <3>2
    <3>3. CASE q \notin work'.pending \cup Found'
      <4>1. q = f
        BY <2>1, <3>1, <3>3
      <4>2. ~SubmitOk(f.nr, f.type)
        BY <2>3, <3>1, <4>1, SubmitOkMeansGone DEF b
      <4>3. c \in work'.pending
        BY <2>1, <4>2
      <4> QED BY <2>2, <3>1, <4>1, <4>3
    <3> QED BY <3>2, <3>3
  <2> QED BY <1>2, <2>1, <2>4 DEF b
<1>11. CASE Commit \/ Exit
  <2>1. /\ db'.blocks = work.blocks /\ db'.pending = work.pending /\ work' = db'
    BY <1>11, ProgressTables
  <2>2. frauds' = <<>> /\ frauds = <<>>
    <3>1. CASE Commit
      BY <3>1, ProgressTables DEF PhaseOK
    <3>2. CASE Exit
      BY <3>2, ProgressTables DEF PhaseOK, Exit
    <3> QED BY <1>11, <3>1, <3>2
  <2>3. Answered(db', {}, n, b)
    BY <1>2, <1>3, <2>1, <2>2 DEF Answered
  <2> QED BY <1>3, <2>1, <2>2, <2>3 DEF b
<1>12. CASE Crash
  <2>1. work' = db /\ db' = db /\ frauds' = <<>>
    BY <1>12, DownFacts DEF Crash
  <2> QED BY <1>2, <1>3, <2>1 DEF b
<1>13. CASE FetchFails \/ Abandon
  BY <1>13 DEF FetchFails, Abandon
<1> QED BY <1>5, <1>6, <1>7, <1>8, <1>9, <1>10, <1>11, <1>12, <1>13
     DEF EventLoopNext, LoopStep

(* Every step of an undisturbed run keeps the tree in memory the one of    *)
(* the tables, and the rows of the tables together.                        *)
LEMMA TreeStep ==
    ASSUME EventTypeOK, LogOK, PhaseOK, ~Reordered, ~missed', TablesOK, TreeOK, Moves,
           [EventLoopNext]_eventVars
    PROVE  TreeOK'
<1>1. Rows(db) /\ Rows(work) /\ (pc # "down" => tracker = TrackerOf(work))
  BY DEF TreeOK
<1>2. ASSUME UNCHANGED <<db, work, tracker>>, pc' # "down" => pc # "down"
      PROVE  TreeOK'
  BY <1>1, <1>2 DEF TreeOK, Rows, TrackerOf
<1>3. CASE L1Post \/ L1Rollback \/ L1Tick \/ Signal \/ UNCHANGED eventVars
  BY <1>2, <1>3 DEF L1Post, L1Rollback, L1Tick, Signal, eventVars, loopVars
<1>4. CASE Poll \/ PollFails \/ Sleep
  BY <1>2, <1>4 DEF Poll, PollFails, Sleep
<1>5. CASE Start
  <2>1. pc = "down" /\ tracker' = TrackerOf(db) /\ UNCHANGED <<db, work>>
    BY <1>5 DEF Start
  <2>2. work = db
    BY <2>1 DEF PhaseOK
  <2> QED BY <1>1, <2>1, <2>2 DEF TreeOK, Rows, TrackerOf
<1>6. CASE RetryChallenge
  <2>1. /\ work' = db' /\ db'.blocks = db.blocks /\ db'.roots = db.roots
        /\ UNCHANGED <<pc, tracker>> /\ pc = "retry"
    BY <1>6, RetryFacts DEF PendingIs
  <2>2. work = db
    BY <2>1 DEF PhaseOK
  <2> QED BY <1>1, <2>1, <2>2 DEF TreeOK, Rows, TrackerOf
<1>7. CASE ProcessNewRoot
  <2>1. PICK b \in BlockData, e \in DOMAIN log :
               /\ b.blockNr \notin DOMAIN work.blocks
               /\ \A n \in DOMAIN work.blocks : work.blocks[n].blockIndex # b.blockIndex
               /\ work'.blocks = [n \in DOMAIN work.blocks \cup {b.blockNr} |->
                                     IF n = b.blockNr THEN b ELSE work.blocks[n]]
               /\ \/ /\ NullifiersRefused(b)
                     /\ work'.roots = work.roots /\ tracker' = tracker
                  \/ /\ work'.roots = [s \in DOMAIN work.roots \cup {b.blockIndex} |->
                                          IF s = b.blockIndex
                                          THEN [nr |-> b.blockNr, root |-> b.blobhashes]
                                          ELSE work.roots[s]]
                     /\ tracker' = [s \in DOMAIN tracker \cup {b.blockIndex} |->
                                       IF s = b.blockIndex THEN b.blobhashes ELSE tracker[s]]
    BY <1>7, NewRootTables
  <2>2. db' = db /\ tracker = TrackerOf(work)
    BY <1>1, <1>7 DEF ProcessNewRoot
  <2>3. \A n \in DOMAIN work'.blocks :
            \/ n \in DOMAIN work.blocks /\ n # b.blockNr /\ work'.blocks[n] = work.blocks[n]
            \/ n = b.blockNr /\ work'.blocks[n] = b
    BY <2>1
  <2>4. CASE NullifiersRefused(b) /\ work'.roots = work.roots /\ tracker' = tracker
    <3>1. b.numTransactions # 0
      BY <2>4 DEF NullifiersRefused, BlockData
    <3>2. Rows(work')
      BY <1>1, <2>3, <2>4, <3>1 DEF Rows
    <3>3. tracker' = TrackerOf(work')
      BY <2>2, <2>4 DEF TrackerOf
    <3> QED BY <1>1, <2>2, <3>2, <3>3 DEF TreeOK, Rows, TrackerOf
  <2>5. CASE /\ work'.roots = [s \in DOMAIN work.roots \cup {b.blockIndex} |->
                                   IF s = b.blockIndex
                                   THEN [nr |-> b.blockNr, root |-> b.blobhashes]
                                   ELSE work.roots[s]]
             /\ tracker' = [s \in DOMAIN tracker \cup {b.blockIndex} |->
                                IF s = b.blockIndex THEN b.blobhashes ELSE tracker[s]]
    <3>1. /\ DOMAIN work'.roots = DOMAIN work.roots \cup {b.blockIndex}
          /\ work'.roots[b.blockIndex].nr = b.blockNr
          /\ work'.roots[b.blockIndex].root = b.blobhashes
          /\ \A s \in DOMAIN work.roots : s # b.blockIndex => work'.roots[s] = work.roots[s]
      BY <2>5
    <3>2. Rows(work')
      <4> SUFFICES ASSUME NEW n \in DOMAIN work'.blocks, work'.blocks[n].numTransactions = 0
                   PROVE  /\ work'.blocks[n].blockIndex \in DOMAIN work'.roots
                          /\ work'.roots[work'.blocks[n].blockIndex].nr = n
        BY DEF Rows
      <4>1. CASE n = b.blockNr /\ work'.blocks[n] = b
        BY <3>1, <4>1
      <4>2. CASE n \in DOMAIN work.blocks /\ work'.blocks[n] = work.blocks[n]
        <5>1. work.blocks[n].blockIndex # b.blockIndex
          BY <2>1, <4>2
        <5>2. /\ work.blocks[n].blockIndex \in DOMAIN work.roots
              /\ work.roots[work.blocks[n].blockIndex].nr = n
          BY <1>1, <4>2 DEF Rows
        <5> QED BY <3>1, <4>2, <5>1, <5>2
      <4> QED BY <2>3, <4>1, <4>2
    <3>3. tracker' = TrackerOf(work')
      <4>1. /\ DOMAIN tracker = DOMAIN work.roots
            /\ \A s \in DOMAIN work.roots : tracker[s] = work.roots[s].root
        BY <2>2 DEF TrackerOf
      <4>2. \A s \in DOMAIN work'.roots :
                (IF s = b.blockIndex THEN b.blobhashes ELSE tracker[s]) = work'.roots[s].root
        BY <3>1, <4>1
      <4>3. tracker' = [s \in DOMAIN work'.roots |->
                            IF s = b.blockIndex THEN b.blobhashes ELSE tracker[s]]
        BY <2>5, <3>1, <4>1
      <4> QED BY <4>2, <4>3 DEF TrackerOf
    <3> QED BY <1>1, <2>2, <3>2, <3>3 DEF TreeOK, Rows, TrackerOf
  <2> QED BY <2>1, <2>4, <2>5
<1>8. CASE ProcessRollback
  <2>1. PICK to \in Nat :
               /\ work'.blocks = [n \in {n \in DOMAIN work.blocks : n < to} |-> work.blocks[n]]
               /\ work'.roots = [s \in {s \in DOMAIN work.roots : work.roots[s].nr < to} |->
                                    work.roots[s]]
    BY <1>8, RollbackTables
  <2>2. tracker' = TrackerOf(work') /\ db' = db
    BY <1>8 DEF ProcessRollback
  <2>3. Rows(work')
    <3> SUFFICES ASSUME NEW n \in DOMAIN work'.blocks, work'.blocks[n].numTransactions = 0
                 PROVE  /\ work'.blocks[n].blockIndex \in DOMAIN work'.roots
                        /\ work'.roots[work'.blocks[n].blockIndex].nr = n
      BY DEF Rows
    <3>1. n \in DOMAIN work.blocks /\ n < to /\ work'.blocks[n] = work.blocks[n]
      BY <2>1
    <3>2. /\ work.blocks[n].blockIndex \in DOMAIN work.roots
          /\ work.roots[work.blocks[n].blockIndex].nr = n
      BY <1>1, <3>1 DEF Rows
    <3> QED BY <2>1, <3>1, <3>2
  <2> QED BY <1>1, <2>2, <2>3 DEF TreeOK, Rows, TrackerOf
<1>9. CASE SubmitChallenge
  <2>1. /\ work'.blocks = work.blocks /\ work'.roots = work.roots /\ pc = "submit"
        /\ UNCHANGED <<db, tracker>>
    BY <1>9, SubmitTables
  <2> QED BY <1>1, <2>1 DEF TreeOK, Rows, TrackerOf
<1>10. CASE Commit \/ Exit
  <2>1. /\ db'.blocks = work.blocks /\ db'.roots = work.roots /\ work' = db'
    BY <1>10, ProgressTables
  <2>2. pc' # "down" => pc # "down" /\ tracker' = tracker
    <3>1. CASE Commit
      BY <3>1 DEF Commit
    <3>2. CASE Exit
      BY <3>2, DownFacts DEF Exit
    <3> QED BY <1>10, <3>1, <3>2
  <2> QED BY <1>1, <2>1, <2>2 DEF TreeOK, Rows, TrackerOf
<1>11. CASE Crash
  <2>1. work' = db /\ db' = db /\ pc' = "down"
    BY <1>11, DownFacts DEF Crash
  <2> QED BY <1>1, <2>1 DEF TreeOK, Rows, TrackerOf
<1>12. CASE FetchFails \/ Abandon
  BY <1>12 DEF FetchFails, Abandon
<1> QED BY <1>3, <1>4, <1>5, <1>6, <1>7, <1>8, <1>9, <1>10, <1>11, <1>12
     DEF EventLoopNext, LoopStep

-----------------------------------------------------------------------------
(* The theorems.                                                           *)

(* The initial states satisfy the invariant.                               *)
LEMMA EventLoopInitial == EventLoopInit => EventLoopInv
<1> SUFFICES ASSUME EventLoopInit PROVE EventLoopInv
  OBVIOUS
<1>1. SpineInv
  BY SpineInitial DEF EventLoopInit
<1>2. /\ now = START /\ 0 < now /\ now \in Nat /\ roots = <<>> /\ log = <<>> /\ DOMAIN log = {}
      /\ db = EmptyDatabase /\ work = EmptyDatabase /\ pc = "down" /\ batch = {}
      /\ listener = 0 /\ frauds = <<>> /\ retries = {} /\ faults = 0
      /\ shutdown = FALSE /\ missed = FALSE /\ BlockNumbers = {} /\ Len(log) = 0
  BY L1Assumption DEF EventLoopInit, SpineInit, BlockNumbers, Height
<1> DEFINE f == [n \in {} |-> None]
           g == [s \in {} |-> None]
<1>3. /\ DOMAIN f = {} /\ DOMAIN g = {} /\ f \in [{} -> BlockData] /\ g \in [{} -> Row]
      /\ g \in [{} -> Seq(Blobs)]
  OBVIOUS
<1>4. EmptyDatabase = [blocks |-> f, roots |-> g, pending |-> {}, progress |-> None]
      /\ tracker = g
  BY DEF EmptyDatabase, EventLoopInit
<1>5. f = BlocksOf(ChainAfter(0))
  <2>1. ChainAfter(0) = <<>> /\ Len(<<>>) = 0 /\ 0 .. 0 - 1 = {}
    BY DEF ChainAfter
  <2>2. BlocksOf(<<>>) = [n \in {} |-> (<<>>)[n + 1]]
    BY <2>1 DEF BlocksOf
  <2>3. BlocksOf(<<>>) = f
    BY <2>2
  <2> QED BY <2>1, <2>3
<1> HIDE DEF f, g
<1>6. f \in Table(Nat, BlockData) /\ g \in Table(TimestampAndIndex, Row)
      /\ g \in Table(TimestampAndIndex, Seq(Blobs))
  BY <1>3, TableFacts
<1>7. /\ EmptyDatabase \in Database /\ Recorded(EmptyDatabase) = 0
      /\ EmptyDatabase.blocks = f /\ EmptyDatabase.roots = g /\ EmptyDatabase.pending = {}
  <2>1. /\ EmptyDatabase.blocks = f /\ EmptyDatabase.roots = g
        /\ EmptyDatabase.pending = {} /\ EmptyDatabase.progress = None
    BY <1>4
  <2> DEFINE T == Table(Nat, BlockData)
             U == Table(TimestampAndIndex, Row)
             P == SUBSET Pending
  <2>2. Database = [blocks : T, roots : U, pending : P, progress : Nat \cup {None}]
    BY DEF Database
  <2>3. f \in T /\ g \in U /\ {} \in P
    BY <1>6
  <2> HIDE DEF T, U, P
  <2>4. EmptyDatabase \in Database
    BY <1>4, <2>2, <2>3
  <2> QED BY <2>1, <2>4 DEF Recorded
<1>8. EventTypeOK
  <2>1. db \in Database /\ work \in Database /\ log \in Seq(Event) /\ tracker = g
    BY <1>2, <1>4, <1>7
  <2>2. tracker \in Table(TimestampAndIndex, Seq(Blobs))
    BY <1>6, <2>1
  <2>3. frauds \in Seq(Fraud)
    BY <1>2
  <2> QED BY <1>2, <2>1, <2>2, <2>3 DEF EventTypeOK
<1>9. LogOK /\ StandingOK
  BY <1>2 DEF LogOK, StandingOK, ChainAfter
<1>10. PhaseOK
  BY <1>2, <1>7 DEF PhaseOK
<1>11. TablesOK
  <2>1. SeenBy(Recorded(db)) = 1 .. 0 /\ 0 \in 0 .. Len(log)
    BY <1>2 DEF SeenBy
  <2>2. UpTo(SeenBy(Recorded(db)), db.blocks)
    BY <1>2, <1>5, <1>7, <2>1 DEF UpTo
  <2> QED BY <1>2, <2>2 DEF TablesOK
<1>12. PendingOK
  BY <1>2, <1>7 DEF PendingOK, Found
<1>13. FraudOK
  BY <1>2 DEF FraudOK
<1>14. TreeOK
  BY <1>2, <1>3, <1>7 DEF TreeOK, Rows
<1> QED BY <1>1, <1>8, <1>9, <1>10, <1>11, <1>12, <1>13, <1>14 DEF EventLoopInv, LoopOK

(* An event that was passed over, and two in the wrong order, stay so.     *)
LEMMA DisturbedStays ==
    ASSUME EventTypeOK, Moves, [EventLoopNext]_eventVars
    PROVE  (missed => missed') /\ (Reordered => Reordered')
<1>1. missed => missed'
  <2>1. CASE UNCHANGED missed
    BY <2>1
  <2>2. CASE L1Post \/ L1Rollback \/ L1Tick \/ Signal \/ UNCHANGED eventVars
    BY <2>1, <2>2 DEF L1Post, L1Rollback, L1Tick, Signal, eventVars, loopVars
  <2>3. CASE \/ RetryChallenge \/ Poll \/ ProcessNewRoot \/ ProcessRollback \/ SubmitChallenge
             \/ Commit \/ Sleep \/ Exit \/ Crash
    BY <2>1, <2>3 DEF RetryChallenge, Poll, ProcessNewRoot, ProcessRollback, SubmitChallenge,
       Commit, Sleep, Exit, Crash
  <2>4. CASE PollFails
    BY <2>4 DEF PollFails
  <2>5. CASE FetchFails \/ Abandon
    BY <2>5 DEF FetchFails, Abandon
  <2>6. CASE Start
    BY <2>6 DEF Start
  <2> QED BY <2>2, <2>3, <2>4, <2>5, <2>6 DEF EventLoopNext, LoopStep
<1>2. Reordered => Reordered'
  BY DEF Reordered, Moves
<1> QED BY <1>1, <1>2

(* The invariant is inductive.                                             *)
LEMMA EventLoopStep ==
    ASSUME EventLoopInv, [EventLoopNext]_eventVars
    PROVE  EventLoopInv'
<1>1. EventTypeOK /\ SpineInv /\ LogOK /\ StandingOK /\ PhaseOK
  BY DEF EventLoopInv
<1>2. SpineInv' /\ LogOK' /\ StandingOK' /\ Moves
  BY <1>1, MovesStep
<1>3. EventTypeOK'
  BY <1>1, <1>2, TypeStep
<1>4. PhaseOK'
  BY <1>1, <1>2, <1>3, PhaseStep
<1>5. CASE missed' \/ Reordered'
  BY <1>2, <1>3, <1>4, <1>5 DEF EventLoopInv
<1>6. CASE ~missed' /\ ~Reordered'
  <2>1. ~missed /\ ~Reordered
    BY <1>1, <1>2, <1>6, DisturbedStays
  <2>2. TablesOK /\ PendingOK /\ FraudOK /\ TreeOK
    BY <2>1 DEF EventLoopInv, LoopOK
  <2>3. TablesOK'
    BY <1>1, <1>2, <1>3, <1>4, <1>6, <2>1, <2>2, TablesStep
  <2>4. PendingOK'
    BY <1>1, <1>6, <2>1, <2>2, PendingStep
  <2>5. FraudOK'
    BY <1>1, <1>2, <1>6, <2>1, <2>2, FraudStep
  <2>6. TreeOK'
    BY <1>1, <1>2, <1>6, <2>1, <2>2, TreeStep
  <2> QED BY <1>2, <1>3, <1>4, <2>3, <2>4, <2>5, <2>6 DEF EventLoopInv, LoopOK
<1> QED BY <1>5, <1>6

(* The inductive invariant holds in every reachable state.                 *)
THEOREM EventLoopInvariant == EventLoopSpec => []EventLoopInv
<1>1. EventLoopInv /\ [EventLoopNext]_eventVars => EventLoopInv'
  BY EventLoopStep
<1> QED BY <1>1, EventLoopInitial, PTL DEF EventLoopSpec

(* The variables of the loop, of its database and of the log always have   *)
(* their types.                                                            *)
THEOREM EventLoopTypes == EventLoopSpec => []EventTypeOK
<1>1. EventLoopInv => EventTypeOK
  BY DEF EventLoopInv
<1> QED BY <1>1, EventLoopInvariant, PTL

(* The chain after the events seen is the chain at that time.              *)
LEMMA ChainAtFacts ==
    ASSUME EventTypeOK, NEW k, NEW c \in 0 .. Len(log), SeenBy(k) = 1 .. c
    PROVE  ChainAt(k) = ChainAfter(c)
<1>1. c \in Nat
  OBVIOUS
<1>2. CASE c = 0
  <2>1. SeenBy(k) = {}
    BY <1>2
  <2> QED BY <1>2, <2>1 DEF ChainAt, ChainAfter, SeenBy
<1>3. CASE c # 0
  <2>1. c \in SeenBy(k) /\ \A j \in SeenBy(k) : j <= c
    BY <1>1, <1>3
  <2>2. \A i \in SeenBy(k) : (\A j \in SeenBy(k) : j <= i) => i = c
    BY <1>1, <2>1
  <2>3. (CHOOSE i \in SeenBy(k) : \A j \in SeenBy(k) : j <= i) = c
    BY <2>1, <2>2
  <2>4. SeenBy(k) # {}
    BY <2>1
  <2>5. ChainAt(k) = IF SeenBy(k) = {} THEN <<>>
                     ELSE log[CHOOSE i \in SeenBy(k) : \A j \in SeenBy(k) : j <= i].chain
    BY DEF ChainAt, SeenBy
  <2>6. ChainAt(k) = log[c].chain
    BY <2>3, <2>4, <2>5
  <2> QED BY <1>3, <2>6 DEF ChainAfter
<1> QED BY <1>2, <1>3

(* The committed blocks are the chain as of the committed progress.        *)
LEMMA InvDatabaseIsChain == EventLoopInv => DatabaseIsChain
<1> SUFFICES ASSUME EventLoopInv, ~missed, ~Reordered
             PROVE  LET chain == ChainAt(Recorded(db))
                    IN  db.blocks = [n \in 0 .. Len(chain) - 1 |-> chain[n + 1]]
  BY DEF DatabaseIsChain
<1>1. PICK c \in 0 .. Len(log) :
          SeenBy(Recorded(db)) = 1 .. c /\ db.blocks = BlocksOf(ChainAfter(c))
  BY DEF EventLoopInv, LoopOK, TablesOK, UpTo
<1>2. ChainAt(Recorded(db)) = ChainAfter(c)
  BY <1>1, ChainAtFacts DEF EventLoopInv
<1> QED BY <1>1, <1>2 DEF BlocksOf

(* Whatever the interleaving of posts, rollbacks, crashes and restarts,    *)
(* the committed blocks of the challenger are the chain as of the          *)
(* committed progress.                                                     *)
THEOREM DatabaseFollowsChain == EventLoopSpec => []DatabaseIsChain
  BY InvDatabaseIsChain, EventLoopInvariant, PTL

(* The tree in memory and the tables agree.                                *)
LEMMA InvTreeIsOfBlocks == EventLoopInv => TreeIsOfBlocks
<1> SUFFICES ASSUME EventLoopInv, ~missed, ~Reordered
             PROVE  /\ pc \in {"retry", "sleep"} => tracker = TrackerOf(db)
                    /\ \A n \in DOMAIN db.blocks :
                           db.blocks[n].numTransactions = 0 =>
                               LET s == db.blocks[n].blockIndex
                               IN  s \in DOMAIN db.roots /\ db.roots[s].nr = n
  BY DEF TreeIsOfBlocks
<1>1. TreeOK /\ PhaseOK
  BY DEF EventLoopInv, LoopOK
<1>2. pc \in {"retry", "sleep"} => tracker = TrackerOf(db)
  BY <1>1 DEF TreeOK, PhaseOK
<1> QED BY <1>1, <1>2 DEF TreeOK, Rows

(* Between transactions the tree in memory is the one in the database,     *)
(* and every block without transactions has its root there.                *)
THEOREM TreeFollowsBlocks == EventLoopSpec => []TreeIsOfBlocks
  BY InvTreeIsOfBlocks, EventLoopInvariant, PTL

(* A fraud that stands and was seen is on record.                          *)
LEMMA InvFraudNotForgotten == EventLoopInv => FraudNotForgotten
<1> SUFFICES ASSUME EventLoopInv, ~missed, ~Reordered, NEW n \in BlockNumbers,
                    WrongLeaf(Block(n)), ~NullifiersRefused(Block(n)),
                    Block(n).timestamp <= Recorded(db)
             PROVE  \E p \in db.pending : p.nr = n /\ p.type = "deposit"
  BY DEF FraudNotForgotten
<1>1. EventTypeOK /\ StandingOK /\ TablesOK /\ FraudOK /\ log \in Seq(Event)
  BY DEF EventLoopInv, LoopOK, EventTypeOK
<1>2. PICK c \in 0 .. Len(log) :
          SeenBy(Recorded(db)) = 1 .. c /\ db.blocks = BlocksOf(ChainAfter(c))
  BY <1>1 DEF TablesOK, UpTo
<1>3. PICK i \in DOMAIN log :
          /\ log[i].at = Block(n).timestamp
          /\ \A j \in DOMAIN log :
                 j >= i => n < Len(log[j].chain) /\ log[j].chain[n + 1] = Block(n)
  BY <1>1 DEF StandingOK
<1>4. i \in 1 .. c
  BY <1>2, <1>3 DEF SeenBy
<1>5. c \in DOMAIN log /\ c >= i /\ c # 0
  BY <1>1, <1>2, <1>4
<1>6. n < Len(log[c].chain) /\ log[c].chain[n + 1] = Block(n) /\ ChainAfter(c) = log[c].chain
  BY <1>3, <1>5 DEF ChainAfter
<1>7. n \in 0 .. Len(log[c].chain) - 1
  <2>1. Len(log[c].chain) \in Nat /\ n \in Nat
    BY <1>1, <1>5, EventFacts DEF BlockNumbers
  <2> QED BY <1>6, <2>1
<1>8. n \in DOMAIN db.blocks /\ db.blocks[n] = Block(n)
  BY <1>2, <1>6, <1>7 DEF BlocksOf
<1> QED BY <1>1, <1>8 DEF FraudOK, Answered

(* Once the progress is past a fraudulent block, the block is gone or its  *)
(* challenge is on record: no crash, failed call or retry forgets it.      *)
THEOREM FraudsAreNotForgotten == EventLoopSpec => []FraudNotForgotten
  BY InvFraudNotForgotten, EventLoopInvariant, PTL

(* A pending challenge is of the block that has its number.                *)
LEMMA InvPendingStands == EventLoopInv => PendingStands
<1> SUFFICES ASSUME EventLoopInv, ~missed, ~Reordered
             PROVE  \A p \in db.pending :
                        p.nr \in DOMAIN db.blocks /\ db.blocks[p.nr].timestamp = p.at
  BY DEF PendingStands
<1> QED BY DEF EventLoopInv, LoopOK, PendingOK, Stands

(* A retry never accuses a block that came after the one it is of.         *)
THEOREM PendingChallengesStand == EventLoopSpec => []PendingStands
  BY InvPendingStands, EventLoopInvariant, PTL
=============================================================================
