----------------------------- MODULE SpineProofs -----------------------------
(* Proofs about Spine for every value of its constants.                    *)
(* SpineInv is inductive (SpineInitial, AddBlockPreserves,                 *)
(* RollbackPreserves, SpineStep) and implies the properties of the chain.  *)
EXTENDS Spine, TLAPS

USE L1Assumption, SpineAssumption, SubmissionsAssumption, NoHashAssumption

(* Slots and days are computed with a truncating division.                 *)
LEMMA DivNat ==
    ASSUME NEW a \in Nat, NEW b \in Nat \ {0}
    PROVE  a \div b \in Nat
  OBVIOUS

(* Append as the rest of the proofs use it.                                *)
LEMMA AppendFacts ==
    ASSUME NEW S, NEW s \in Seq(S), NEW e \in S
    PROVE  /\ Append(s, e) \in Seq(S)
           /\ Len(Append(s, e)) = Len(s) + 1
           /\ Append(s, e)[Len(s) + 1] = e
           /\ \A i \in 1 .. Len(s) : Append(s, e)[i] = s[i]
  OBVIOUS

(* SubSeq as the rest of the proofs use it.                                *)
LEMMA PrefixFacts ==
    ASSUME NEW S, NEW s \in Seq(S), NEW n \in Nat, n <= Len(s)
    PROVE  /\ SubSeq(s, 1, n) \in Seq(S)
           /\ Len(SubSeq(s, 1, n)) = n
           /\ \A i \in 1 .. n : SubSeq(s, 1, n)[i] = s[i]
  OBVIOUS

(* A block number of the chain indexes a block.                            *)
LEMMA BlockType ==
    ASSUME SpineTypeOK, NEW n \in BlockNumbers
    PROVE  /\ n \in Nat /\ n + 1 \in 1 .. Len(roots)
           /\ Block(n) \in BlockData
  BY DEF SpineTypeOK, BlockNumbers, Height, Block

(* The initial states satisfy the invariant.                               *)
LEMMA SpineInitial == SpineInit => SpineInv
<1> SUFFICES ASSUME SpineInit PROVE SpineInv
  OBVIOUS
<1>1. BlockNumbers = {} /\ Height = 0
  BY DEF SpineInit, BlockNumbers, Height
<1>2. SpineTypeOK
  BY DEF SpineInit, SpineTypeOK, TimestampAndIndex, IndexAndPartialHash
<1> QED
  BY <1>1, <1>2 DEF SpineInit, SpineInv, LastTimestampIsHead, ChainOrdered,
     SlotAfterPredecessor, AnchorLookupNewest, EntriesHaveTheirAnchor

(* The slot a post is given and the block it stores have their types.      *)
LEMMA StampedType ==
    ASSUME SpineInv, NEW d \in Submission
    PROVE  /\ NextBlockIndex \in TimestampAndIndex
           /\ Stamped(d) \in BlockData
<1>1. CurrentDay \in Nat
  <2>1. now - START \in Nat
    BY DEF SpineInv, ChainOrdered, SpineTypeOK
  <2> QED BY <2>1, DivNat DEF CurrentDay
<1>2. NextBlockIndex \in TimestampAndIndex
  BY <1>1 DEF NextBlockIndex, TimestampAndIndex, SpineInv, SpineTypeOK
<1>3. Stamped(d) \in BlockData
  BY <1>2 DEF Stamped, Submission, BlockData, SpineInv, SpineTypeOK
<1> QED BY <1>2, <1>3

(* addBlock preserves the invariant.                                       *)
LEMMA AddBlockPreserves ==
    ASSUME SpineInv, NEW d \in Submission, AddBlock(d)
    PROVE  SpineInv'
<1> DEFINE b == Stamped(d)
           h == Height
<1>1. /\ h \in Nat /\ d.blockNr = h
      /\ roots' = Append(roots, b)
      /\ lastTimestamp' = NextBlockIndex
      /\ now' = now
      /\ anchorToIndex' = [a \in DOMAIN anchorToIndex \cup {d.anchor} |->
             IF a = d.anchor THEN [index |-> h, partialHash |-> b] ELSE anchorToIndex[a]]
  BY DEF AddBlock, IsAcceptable, Height, SpineInv, SpineTypeOK
<1>2. /\ SpineTypeOK
      /\ NextBlockIndex \in TimestampAndIndex
      /\ b \in BlockData
  BY StampedType DEF SpineInv
<1>3. /\ b.anchor = d.anchor /\ b.timestamp = now /\ b.blockNr = h
      /\ b.blockIndex = NextBlockIndex /\ d.anchor \in Anchors
  BY <1>1 DEF Stamped, Submission
<1> HIDE DEF b
<1>4. /\ roots' \in Seq(BlockData)
      /\ Height' = h + 1
      /\ BlockNumbers' = 0 .. h
      /\ \A n \in Nat : n = h => Block(n)' = b
      /\ \A n \in BlockNumbers : n \in BlockNumbers' /\ Block(n)' = Block(n)
      /\ BlockNumbers' = BlockNumbers \cup {h}
  <2>1. /\ roots' \in Seq(BlockData)
        /\ Len(roots') = h + 1 /\ h = Len(roots)
        /\ roots'[h + 1] = b
        /\ \A i \in 1 .. h : roots'[i] = roots[i]
    BY <1>1, <1>2, AppendFacts DEF Height, SpineTypeOK
  <2>2. /\ Height' = h + 1
        /\ BlockNumbers' = 0 .. h
        /\ BlockNumbers = 0 .. h - 1
    BY <2>1, <1>1 DEF Height, BlockNumbers
  <2>3. \A n \in BlockNumbers : n \in BlockNumbers' /\ n + 1 \in 1 .. h
    BY <2>2, <1>1
  <2> QED BY <2>1, <2>2, <2>3, <1>1 DEF Block
<1>5. SpineTypeOK'
  BY <1>1, <1>2, <1>3, <1>4 DEF SpineTypeOK, IndexAndPartialHash
<1>6. LastTimestampIsHead'
  BY <1>1, <1>3, <1>4 DEF LastTimestampIsHead
<1>7. ChainOrdered'
  <2>1. ASSUME NEW n \in BlockNumbers'
        PROVE  /\ Block(n)'.blockNr = n
               /\ START <= Block(n)'.timestamp
               /\ Block(n)'.timestamp <= now
               /\ \A m \in 0 .. n : Block(m)'.timestamp <= Block(n)'.timestamp
    <3>1. CASE n = h
      <4>1. ASSUME NEW m \in 0 .. n PROVE Block(m)'.timestamp <= now
        <5>1. CASE m = h BY <5>1, <1>2, <1>3, <1>4 DEF SpineTypeOK
        <5>2. CASE m # h
          BY <5>2, <3>1, <1>1, <1>4 DEF SpineInv, ChainOrdered, BlockNumbers
        <5> QED BY <5>1, <5>2
      <4> QED BY <3>1, <4>1, <1>2, <1>3, <1>4 DEF SpineInv, SpineTypeOK, ChainOrdered
    <3>2. CASE n \in BlockNumbers
      <4>1. \A m \in 0 .. n : m \in BlockNumbers
        BY <3>2, <1>1 DEF BlockNumbers
      <4> QED BY <3>2, <4>1, <1>4 DEF SpineInv, ChainOrdered
    <3> QED BY <3>1, <3>2, <1>4
  <2> QED BY <2>1, <1>1 DEF SpineInv, ChainOrdered
<1>8. SlotAfterPredecessor'
  <2> SUFFICES ASSUME NEW n \in BlockNumbers'
               PROVE  /\ Block(n)'.blockIndex.day = (Block(n)'.timestamp - START) \div DAY
                      /\ Block(n)'.blockIndex.index =
                             IF n # 0 /\ Block(n - 1)'.blockIndex.day = Block(n)'.blockIndex.day
                             THEN Block(n - 1)'.blockIndex.index + 1
                             ELSE 0
    BY DEF SlotAfterPredecessor
  <2>1. CASE n = h
    <3>1. Block(n)'.blockIndex = NextBlockIndex /\ Block(n)'.timestamp = now
      BY <2>1, <1>3, <1>4
    <3>2. n # 0 => lastTimestamp = Block(n - 1)'.blockIndex
      BY <2>1, <1>1, <1>4 DEF SpineInv, LastTimestampIsHead, BlockNumbers
    <3> QED BY <2>1, <3>1, <3>2 DEF NextBlockIndex, CurrentDay
  <2>2. CASE n \in BlockNumbers
    <3>1. n # 0 => n - 1 \in BlockNumbers
      BY <2>2, <1>1 DEF BlockNumbers
    <3> QED BY <2>2, <3>1, <1>4 DEF SpineInv, SlotAfterPredecessor
  <2> QED BY <2>1, <2>2, <1>4
<1>9. AnchorLookupNewest'
  <2> SUFFICES ASSUME NEW n \in BlockNumbers'
               PROVE  /\ Block(n)'.anchor \in DOMAIN anchorToIndex'
                      /\ anchorToIndex'[Block(n)'.anchor].index >= n
                      /\ anchorToIndex'[Block(n)'.anchor].index = n
                           => anchorToIndex'[Block(n)'.anchor].partialHash = Block(n)'
    BY DEF AnchorLookupNewest
  <2>1. /\ DOMAIN anchorToIndex' = DOMAIN anchorToIndex \cup {d.anchor}
        /\ \A a \in DOMAIN anchorToIndex' : anchorToIndex'[a] =
               IF a = d.anchor THEN [index |-> h, partialHash |-> b] ELSE anchorToIndex[a]
    BY <1>1
  <2>2. CASE n = h
    BY <2>1, <2>2, <1>1, <1>3, <1>4
  <2>3. CASE n \in BlockNumbers
    <3>1. Block(n) \in BlockData /\ n < h /\ n \in Nat
      BY <2>3, <1>1, <1>2, BlockType DEF BlockNumbers
    <3>2. Block(n).anchor \in DOMAIN anchorToIndex
      BY <2>3 DEF SpineInv, AnchorLookupNewest
    <3>3. CASE Block(n).anchor = d.anchor
      BY <3>3, <3>1, <2>1, <2>3, <1>1, <1>4, <1>3
    <3>4. CASE Block(n).anchor # d.anchor
      BY <3>4, <3>2, <2>1, <2>3, <1>4 DEF SpineInv, AnchorLookupNewest
    <3> QED BY <3>3, <3>4
  <2> QED BY <2>2, <2>3, <1>4
<1>10. EntriesHaveTheirAnchor'
  BY <1>1, <1>2, <1>3 DEF EntriesHaveTheirAnchor, SpineInv, SpineTypeOK
<1> QED
  BY <1>5, <1>6, <1>7, <1>8, <1>9, <1>10 DEF SpineInv

(* rollback preserves the invariant.                                       *)
LEMMA RollbackPreserves ==
    ASSUME SpineInv, NEW n \in BlockNumbers, Rollback(n)
    PROVE  SpineInv'
<1>1. /\ SpineTypeOK /\ n \in Nat /\ n < Height /\ Height \in Nat
      /\ roots' = SubSeq(roots, 1, n)
      /\ now' = now
      /\ anchorToIndex' = anchorToIndex
  BY DEF Rollback, SpineInv, SpineTypeOK, BlockNumbers, Height
<1>2. /\ roots' \in Seq(BlockData)
      /\ Height' = n
      /\ BlockNumbers' = 0 .. n - 1
      /\ \A m \in 0 .. n - 1 : m \in BlockNumbers /\ Block(m)' = Block(m)
  <2>1. /\ roots' \in Seq(BlockData)
        /\ Len(roots') = n
        /\ \A i \in 1 .. n : roots'[i] = roots[i]
    BY <1>1, PrefixFacts DEF Height, SpineTypeOK
  <2>2. \A m \in 0 .. n - 1 : m \in BlockNumbers /\ m + 1 \in 1 .. n
    BY <1>1 DEF BlockNumbers
  <2> QED BY <2>1, <2>2 DEF Height, BlockNumbers, Block
<1>3. n # 0 => lastTimestamp' = Block(n - 1).blockIndex /\ n - 1 \in 0 .. n - 1
  BY <1>1 DEF Rollback
<1>4. SpineTypeOK'
  <2>1. lastTimestamp' \in TimestampAndIndex
    <3>1. CASE n = 0 BY <3>1 DEF Rollback, TimestampAndIndex
    <3>2. CASE n # 0
      BY <3>2, <1>1, <1>2, <1>3, BlockType DEF BlockData
    <3> QED BY <3>1, <3>2
  <2> QED BY <2>1, <1>1, <1>2 DEF SpineTypeOK
<1>5. LastTimestampIsHead'
  BY <1>2, <1>3 DEF LastTimestampIsHead
<1>6. ChainOrdered'
  <2>1. \A m \in 0 .. n - 1 : \A k \in 0 .. m : k \in 0 .. n - 1
    BY <1>1
  <2> QED BY <2>1, <1>1, <1>2 DEF SpineInv, ChainOrdered
<1>7. SlotAfterPredecessor'
  <2> SUFFICES ASSUME NEW m \in 0 .. n - 1
               PROVE  /\ Block(m)'.blockIndex.day = (Block(m)'.timestamp - START) \div DAY
                      /\ Block(m)'.blockIndex.index =
                             IF m # 0 /\ Block(m - 1)'.blockIndex.day = Block(m)'.blockIndex.day
                             THEN Block(m - 1)'.blockIndex.index + 1
                             ELSE 0
    BY <1>2 DEF SlotAfterPredecessor
  <2>1. Block(m)' = Block(m) /\ m \in BlockNumbers
    BY <1>2
  <2>2. m # 0 => Block(m - 1)' = Block(m - 1)
    <3>1. m # 0 => m - 1 \in 0 .. n - 1
      BY <1>1
    <3> QED BY <3>1, <1>2
  <2>3. /\ Block(m).blockIndex.day = (Block(m).timestamp - START) \div DAY
        /\ Block(m).blockIndex.index =
               IF m # 0 /\ Block(m - 1).blockIndex.day = Block(m).blockIndex.day
               THEN Block(m - 1).blockIndex.index + 1
               ELSE 0
    BY <2>1 DEF SpineInv, SlotAfterPredecessor
  <2> QED BY <2>1, <2>2, <2>3
<1>8. AnchorLookupNewest'
  <2> SUFFICES ASSUME NEW m \in 0 .. n - 1
               PROVE  /\ Block(m)'.anchor \in DOMAIN anchorToIndex'
                      /\ anchorToIndex'[Block(m)'.anchor].index >= m
                      /\ anchorToIndex'[Block(m)'.anchor].index = m
                           => anchorToIndex'[Block(m)'.anchor].partialHash = Block(m)'
    BY <1>2 DEF AnchorLookupNewest
  <2>1. Block(m)' = Block(m) /\ m \in BlockNumbers
    BY <1>2
  <2>2. /\ Block(m).anchor \in DOMAIN anchorToIndex
        /\ anchorToIndex[Block(m).anchor].index >= m
        /\ anchorToIndex[Block(m).anchor].index = m
             => anchorToIndex[Block(m).anchor].partialHash = Block(m)
    BY <2>1 DEF SpineInv, AnchorLookupNewest
  <2> QED BY <2>1, <2>2, <1>1
<1>9. EntriesHaveTheirAnchor'
  BY <1>1 DEF SpineInv, EntriesHaveTheirAnchor
<1> QED
  BY <1>4, <1>5, <1>6, <1>7, <1>8, <1>9 DEF SpineInv

(* The passage of time preserves the invariant.                            *)
LEMMA TickPreserves ==
    ASSUME SpineInv, SpineTick
    PROVE  SpineInv'
<1>1. /\ now' = now + 1 /\ roots' = roots
      /\ lastTimestamp' = lastTimestamp /\ anchorToIndex' = anchorToIndex
  BY DEF SpineTick, Tick
<1>2. /\ Height' = Height /\ BlockNumbers' = BlockNumbers
      /\ \A n : Block(n)' = Block(n)
  BY <1>1 DEF Height, BlockNumbers, Block
<1>3. SpineTypeOK'
  BY <1>1 DEF SpineInv, SpineTypeOK
<1>4. LastTimestampIsHead' /\ SlotAfterPredecessor' /\ AnchorLookupNewest'
        /\ EntriesHaveTheirAnchor'
  BY <1>1, <1>2 DEF SpineInv, LastTimestampIsHead, SlotAfterPredecessor,
     AnchorLookupNewest, EntriesHaveTheirAnchor
<1>5. ChainOrdered'
  <2>1. ASSUME NEW n \in BlockNumbers PROVE Block(n).timestamp \in Nat
    BY BlockType DEF SpineInv, BlockData
  <2> QED BY <2>1, <1>1, <1>2 DEF SpineInv, SpineTypeOK, ChainOrdered
<1> QED BY <1>3, <1>4, <1>5 DEF SpineInv

(* Every step preserves the invariant; modules that build on Spine cite    *)
(* this for the part of their state that is the chain.                     *)
LEMMA SpineStep == SpineInv /\ [SpineNext]_spineVars => SpineInv'
<1> SUFFICES ASSUME SpineInv, [SpineNext]_spineVars PROVE SpineInv'
  OBVIOUS
<1>1. CASE UNCHANGED spineVars
  BY <1>1 DEF spineVars, SpineInv, SpineTypeOK, LastTimestampIsHead, ChainOrdered,
     SlotAfterPredecessor, AnchorLookupNewest, EntriesHaveTheirAnchor, Height,
     BlockNumbers, Block
<1>2. ASSUME NEW d \in Submissions, AddBlock(d) PROVE SpineInv'
  BY <1>2, AddBlockPreserves
<1>3. ASSUME NEW n \in BlockNumbers, Rollback(n) PROVE SpineInv'
  BY <1>3, RollbackPreserves
<1>4. CASE SpineTick
  BY <1>4, TickPreserves
<1> QED BY <1>1, <1>2, <1>3, <1>4 DEF SpineNext

(* Every state the contract reaches satisfies the inductive invariant, of  *)
(* which type correctness and the slot rule are parts.                     *)
THEOREM SpineInvariant == SpineSpec => []SpineInv
  BY SpineInitial, SpineStep, PTL DEF SpineSpec

(* The chain variables always have their types.                            *)
THEOREM SpineTypeCorrect == SpineSpec => []SpineTypeOK
<1>1. SpineInv => SpineTypeOK BY DEF SpineInv
<1> QED BY <1>1, SpineInvariant, PTL

(* A block's slot is always the one after its predecessor's, or the first  *)
(* of its day: addBlock and rollback agree on lastTimestamp.               *)
THEOREM SlotsFollowPredecessors == SpineSpec => []SlotAfterPredecessor
<1>1. SpineInv => SlotAfterPredecessor BY DEF SpineInv
<1> QED BY <1>1, SpineInvariant, PTL

(* The invariant orders blocks by timestamp, so isConfirmed holds of a     *)
(* prefix of the chain.                                                    *)
LEMMA InvConfirmedPrefix == SpineInv => ConfirmedPrefix
<1> SUFFICES ASSUME SpineInv, NEW n \in BlockNumbers, IsConfirmed(Block(n)), NEW m \in 0 .. n
             PROVE  IsConfirmed(Block(m))
  BY DEF ConfirmedPrefix
<1>1. /\ m \in BlockNumbers /\ Block(m) \in BlockData /\ Block(n) \in BlockData
      /\ m \in Nat /\ m < Height /\ now \in Nat
  BY BlockType DEF BlockNumbers, SpineInv, SpineTypeOK, Height
<1>2. Block(m).blockNr = m /\ Block(m).timestamp <= Block(n).timestamp
  BY <1>1 DEF SpineInv, ChainOrdered
<1>3. Block(m).timestamp \in Nat /\ Block(n).timestamp \in Nat
  BY <1>1 DEF BlockData
<1> QED BY <1>1, <1>2, <1>3 DEF IsConfirmed, IsBlockIncluded

(* Confirmation is a prefix of the chain in every reachable state.         *)
THEOREM ConfirmedIsPrefix == SpineSpec => []ConfirmedPrefix
  BY InvConfirmedPrefix, SpineInvariant, PTL

(* The anchor table never vouches for a rolled-back block.                 *)
LEMMA InvAnchorLookupSound == SpineInv => AnchorLookupSound
<1> SUFFICES ASSUME SpineInv, NEW a \in DOMAIN anchorToIndex \ {GENESIS_ANCHOR}, IsAnchorIncluded(a)
             PROVE  Block(Entry(a).index).anchor = a
  BY DEF AnchorLookupSound
<1>1. Entry(a) = anchorToIndex[a] /\ Entry(a).partialHash.anchor = a
  BY DEF Entry, SpineInv, EntriesHaveTheirAnchor
<1> QED BY <1>1 DEF IsAnchorIncluded

(* isAnchorIncluded is sound in every reachable state.                     *)
THEOREM AnchorLookupIsSound == SpineSpec => []AnchorLookupSound
  BY InvAnchorLookupSound, SpineInvariant, PTL

(* An anchor that was not claimed again resolves to its block.             *)
LEMMA InvPriorAnchorResolves == SpineInv => PriorAnchorResolves
<1> SUFFICES ASSUME SpineInv, NEW n \in BlockNumbers,
                    ~(Entry(Block(n).anchor).index > n)
             PROVE  IsPriorBlockAnchor(Block(n).anchor, n + 1)
  BY DEF PriorAnchorResolves
<1>1. Block(n) \in BlockData /\ n \in Nat /\ n < Height
  BY BlockType DEF SpineInv, BlockNumbers, Height, SpineTypeOK
<1>2. /\ Block(n).anchor \in DOMAIN anchorToIndex
      /\ Entry(Block(n).anchor) = anchorToIndex[Block(n).anchor]
      /\ Entry(Block(n).anchor).index \in Nat
  BY DEF Entry, SpineInv, SpineTypeOK, AnchorLookupNewest, IndexAndPartialHash
<1>3. Entry(Block(n).anchor).index = n /\ Entry(Block(n).anchor).partialHash = Block(n)
  BY <1>1, <1>2 DEF SpineInv, AnchorLookupNewest
<1> QED BY <1>1, <1>3 DEF IsPriorBlockAnchor, IsAnchorIncluded

(* The first update of a block can be tied to the block before it in every *)
(* reachable state, unless a later block claimed that block's anchor.      *)
THEOREM PriorAnchorsResolve == SpineSpec => []PriorAnchorResolves
  BY InvPriorAnchorResolves, SpineInvariant, PTL
=============================================================================
