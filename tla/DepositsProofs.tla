--------------------------- MODULE DepositsProofs ----------------------------
(* Proofs about Deposits for every value of its constants: the deposits of *)
(* an included block never change, and the submission window is kept.      *)
EXTENDS Deposits, SpineProofs

USE L1Assumption, SpineAssumption, SubmissionsAssumption, DepositsAssumption

DepositsInv == SpineInv /\ DepositsFit /\ DepositsFrozen

(* A deposit goes to a block that can still be posted, with room for it.   *)
LEMMA DepositFacts ==
    ASSUME SpineInv, DepositsFit, NEW leaf \in Leaves, Deposit(leaf)
    PROVE  /\ DepositTarget \in 0 .. MaxDepositBlock
           /\ DepositTarget >= Height
           /\ Height > 2 => DepositTarget >= Height + 2 /\ DepositTarget >= highestDeposit
           /\ Len(perBlockDeposits[DepositTarget]) < MAX_DEPOSITS
           /\ spineVars' = spineVars
           /\ perBlockDeposits' = [perBlockDeposits EXCEPT ![DepositTarget] = Append(@, leaf)]
           /\ highestDeposit' = IF DepositTarget > highestDeposit THEN DepositTarget
                                ELSE highestDeposit
<1>1. Height \in Nat /\ highestDeposit \in Nat
  BY DEF SpineInv, SpineTypeOK, Height, DepositsFit, DepositsTypeOK
<1>2. /\ FirstChoice \in Nat /\ FirstChoice >= Height
      /\ Height > 2 => FirstChoice >= Height + 2 /\ FirstChoice >= highestDeposit
  BY <1>1 DEF FirstChoice
<1>3. DepositTarget = FirstChoice \/ DepositTarget = FirstChoice + 1
  BY DEF DepositTarget
<1>4. FirstChoice < MaxDepositBlock
  BY DEF Deposit
<1> QED BY <1>1, <1>2, <1>3, <1>4 DEF Deposit

(* A deposit changes one block's list, by one leaf at its end.             *)
LEMMA DepositEffect ==
    ASSUME SpineInv, DepositsFit, NEW leaf \in Leaves, Deposit(leaf)
    PROVE  /\ perBlockDeposits' \in [0 .. MaxDepositBlock -> Seq(Leaves)]
           /\ \A n \in 0 .. MaxDepositBlock :
                  /\ n # DepositTarget => perBlockDeposits'[n] = perBlockDeposits[n]
                  /\ n = DepositTarget =>
                         Len(perBlockDeposits'[n]) = Len(perBlockDeposits[n]) + 1
<1>1. /\ perBlockDeposits \in [0 .. MaxDepositBlock -> Seq(Leaves)]
      /\ DepositTarget \in 0 .. MaxDepositBlock
      /\ perBlockDeposits' = [perBlockDeposits EXCEPT ![DepositTarget] = Append(@, leaf)]
  BY DepositFacts DEF DepositsFit, DepositsTypeOK
<1>2. /\ Append(perBlockDeposits[DepositTarget], leaf) \in Seq(Leaves)
      /\ Len(Append(perBlockDeposits[DepositTarget], leaf))
             = Len(perBlockDeposits[DepositTarget]) + 1
  BY <1>1, AppendFacts
<1> QED BY <1>1, <1>2

(* What a step that does not touch the deposits leaves true of them.       *)
LEMMA DepositsFitStable ==
    ASSUME DepositsFit, UNCHANGED depositVars
    PROVE  DepositsFit'
  BY DEF DepositsFit, DepositsTypeOK, depositVars

(* deposit preserves the invariant.                                        *)
LEMMA DepositPreserves ==
    ASSUME DepositsInv, NEW leaf \in Leaves, Deposit(leaf)
    PROVE  DepositsInv'
<1>0. SpineInv /\ DepositsFit /\ DepositsFrozen
  BY DEF DepositsInv
<1>1. SpineInv'
  <2>1. UNCHANGED spineVars BY <1>0, DepositFacts
  <2> QED BY <1>0, <2>1, SpineStep
<1>2. /\ Height \in Nat /\ highestDeposit \in Nat /\ highestDeposit' \in Nat
      /\ highestDeposit' >= highestDeposit /\ highestDeposit' >= DepositTarget
      /\ DepositTarget \in Nat
      /\ DOMAIN perBlockDeposits = 0 .. MaxDepositBlock
      /\ DOMAIN perBlockDeposits' = 0 .. MaxDepositBlock
  <2>1. Height \in Nat /\ highestDeposit \in Nat
    BY <1>0 DEF SpineInv, SpineTypeOK, Height, DepositsFit, DepositsTypeOK
  <2>2. /\ DepositTarget \in Nat
        /\ highestDeposit' = IF DepositTarget > highestDeposit THEN DepositTarget
                             ELSE highestDeposit
    BY <1>0, DepositFacts
  <2>3. /\ DOMAIN perBlockDeposits = 0 .. MaxDepositBlock
        /\ DOMAIN perBlockDeposits' = 0 .. MaxDepositBlock
    BY <1>0, DepositEffect DEF DepositsFit, DepositsTypeOK
  <2> QED BY <2>1, <2>2, <2>3
<1>3. DepositsFit'
  <2>1. ASSUME NEW n \in 0 .. MaxDepositBlock
        PROVE  /\ Len(perBlockDeposits'[n]) <= MAX_DEPOSITS
               /\ n > highestDeposit' => perBlockDeposits'[n] = <<>>
    <3>1. perBlockDeposits[n] \in Seq(Leaves)
      BY <1>0 DEF DepositsFit, DepositsTypeOK
    <3>2. CASE n = DepositTarget
      BY <3>1, <3>2, <1>0, <1>2, DepositFacts, DepositEffect
    <3>3. CASE n # DepositTarget
      BY <3>3, <1>0, <1>2, DepositEffect DEF DepositsFit
    <3> QED BY <3>2, <3>3
  <2> QED BY <2>1, <1>0, <1>2, DepositEffect DEF DepositsFit, DepositsTypeOK
<1>4. DepositsFrozen'
  <2>1. Height' = Height /\ BlockNumbers' = BlockNumbers
    BY <1>0, DepositFacts DEF spineVars, Height, BlockNumbers
  <2>2. ASSUME NEW n \in BlockNumbers
        PROVE  n <= MaxDepositBlock /\ Block(n)'.numDeposits = Len(perBlockDeposits'[n])
    <3>1. Block(n)' = Block(n)
      BY <1>0, DepositFacts DEF spineVars, Block
    <3>2. n <= MaxDepositBlock /\ Block(n).numDeposits = Len(perBlockDeposits[n])
      BY <1>0 DEF DepositsFrozen
    <3>3. n \in 0 .. MaxDepositBlock /\ n # DepositTarget
      BY <3>2, <1>0, <1>2, DepositFacts DEF BlockNumbers
    <3> QED BY <3>1, <3>2, <3>3, <1>0, DepositEffect
  <2> QED BY <2>1, <2>2 DEF DepositsFrozen
<1> QED BY <1>1, <1>3, <1>4 DEF DepositsInv

(* post preserves the invariant.                                           *)
LEMMA PostPreserves ==
    ASSUME DepositsInv, NEW d \in Submissions, AddBlockWithDeposits(d)
    PROVE  DepositsInv'
<1>0. SpineInv /\ DepositsFit /\ DepositsFrozen /\ AddBlock(d) /\ d \in Submission
  BY DEF DepositsInv, AddBlockWithDeposits
<1>1. SpineInv'
  BY <1>0, AddBlockPreserves
<1>2. DepositsFit'
  BY <1>0, DepositsFitStable DEF AddBlockWithDeposits
<1>3. DepositsFrozen'
  <2>1. /\ perBlockDeposits' = perBlockDeposits
        /\ d.numDeposits = Len(perBlockDeposits[Height])
    BY DEF AddBlockWithDeposits, depositVars
  <2>2. /\ roots' = Append(roots, Stamped(d))
        /\ roots \in Seq(BlockData)
        /\ Stamped(d) \in BlockData
        /\ Stamped(d).numDeposits = d.numDeposits
    BY <1>0, StampedType DEF AddBlock, SpineInv, SpineTypeOK, Stamped
  <2>3. /\ Len(roots') = Len(roots) + 1
        /\ roots'[Len(roots) + 1] = Stamped(d)
        /\ \A i \in 1 .. Len(roots) : roots'[i] = roots[i]
        /\ Len(roots) \in Nat
    BY <2>2, AppendFacts
  <2>4. ASSUME NEW n \in BlockNumbers'
        PROVE  n <= MaxDepositBlock /\ Block(n)'.numDeposits = Len(perBlockDeposits'[n])
    <3>1. CASE n = Height
      BY <3>1, <2>1, <2>2, <2>3 DEF Block, Height, AddBlockWithDeposits
    <3>2. CASE n # Height
      <4>1. n \in BlockNumbers /\ n + 1 \in 1 .. Len(roots)
        BY <3>2, <2>3 DEF BlockNumbers, Height
      <4>2. Block(n)' = Block(n)
        BY <4>1, <2>3 DEF Block
      <4> QED BY <4>1, <4>2, <2>1, <1>0 DEF DepositsFrozen
    <3> QED BY <3>1, <3>2
  <2> QED BY <2>4 DEF DepositsFrozen
<1> QED BY <1>1, <1>2, <1>3 DEF DepositsInv

(* A rollback keeps the deposits and a prefix of the chain.                *)
LEMMA RollbackKeepsDeposits ==
    ASSUME DepositsInv, NEW n \in BlockNumbers, Rollback(n), UNCHANGED depositVars
    PROVE  DepositsInv'
<1>0. SpineInv /\ DepositsFit /\ DepositsFrozen
  BY DEF DepositsInv
<1>1. SpineInv'
  BY <1>0, RollbackPreserves
<1>2. DepositsFit'
  BY <1>0, DepositsFitStable
<1>3. DepositsFrozen'
  <2>1. /\ roots' = SubSeq(roots, 1, n) /\ n \in Nat /\ n <= Len(roots)
        /\ roots \in Seq(BlockData) /\ Len(roots) \in Nat
    BY <1>0 DEF Rollback, BlockNumbers, Height, SpineInv, SpineTypeOK
  <2>2. Len(roots') = n /\ \A i \in 1 .. n : roots'[i] = roots[i]
    BY <2>1, PrefixFacts
  <2>3. ASSUME NEW m \in BlockNumbers'
        PROVE  m \in BlockNumbers /\ Block(m)' = Block(m)
    <3>1. m \in BlockNumbers /\ m + 1 \in 1 .. n
      BY <2>1, <2>2 DEF BlockNumbers, Height
    <3> QED BY <3>1, <2>2 DEF Block
  <2> QED BY <2>3, <1>0 DEF DepositsFrozen, depositVars
<1> QED BY <1>1, <1>2, <1>3 DEF DepositsInv

(* So does any step that leaves the chain and the deposits alone, and time.*)
LEMMA TimeKeepsDeposits ==
    ASSUME DepositsInv, SpineTick \/ UNCHANGED spineVars, UNCHANGED depositVars
    PROVE  DepositsInv'
<1>0. SpineInv /\ DepositsFit /\ DepositsFrozen
  BY DEF DepositsInv
<1>1. SpineInv'
  BY <1>0, SpineStep DEF SpineNext
<1>2. DepositsFit'
  BY <1>0, DepositsFitStable
<1>3. roots' = roots /\ perBlockDeposits' = perBlockDeposits
  BY DEF SpineTick, spineVars, depositVars
<1>4. DepositsFrozen'
  BY <1>0, <1>3 DEF DepositsFrozen, BlockNumbers, Height, Block
<1> QED BY <1>1, <1>2, <1>4 DEF DepositsInv

(* Nothing is deposited at the start.                                      *)
LEMMA DepositsInitial == SpineInit /\ DepositsInit => DepositsInv
<1> SUFFICES ASSUME SpineInit, DepositsInit PROVE DepositsInv
  OBVIOUS
<1>1. SpineInv
  BY SpineInitial
<1>2. DepositsFit
  BY DEF DepositsInit, DepositsFit, DepositsTypeOK
<1>3. DepositsFrozen
  BY DEF SpineInit, DepositsFrozen, BlockNumbers, Height
<1> QED BY <1>1, <1>2, <1>3 DEF DepositsInv

(* What a step may do to the chain and its deposits, whatever it does to   *)
(* the rest.                                                               *)
DepositsEffect ==
    \/ \E leaf \in Leaves : Deposit(leaf)
    \/ \E d \in Submissions : AddBlockWithDeposits(d)
    \/ \E n \in BlockNumbers : Rollback(n) /\ UNCHANGED depositVars
    \/ (SpineTick \/ UNCHANGED spineVars) /\ UNCHANGED depositVars

(* Each of them keeps the invariant of the deposits.                       *)
LEMMA EffectKeepsDeposits == DepositsInv /\ DepositsEffect => DepositsInv'
  BY DepositPreserves, PostPreserves, RollbackKeepsDeposits, TimeKeepsDeposits DEF DepositsEffect

(* The steps of the module are of that kind.                               *)
LEMMA DepositsNextEffect ==
    [DepositsNext]_<<spineVars, depositVars, routerVars>> => DepositsEffect
  BY DEF DepositsNext, DepositsEffect

(* The chain keeps its invariant and its deposits in every reachable state.*)
THEOREM DepositsInvariant == DepositsSpec => []DepositsInv
  BY DepositsInitial, DepositsNextEffect, EffectKeepsDeposits, PTL DEF DepositsSpec, DepositsStart

(* No deposit, post or rollback changes what an included block must carry. *)
THEOREM DepositsStayFrozen == DepositsSpec => []DepositsFrozen
<1>1. DepositsInv => DepositsFrozen BY DEF DepositsInv
<1> QED BY <1>1, DepositsInvariant, PTL

(* No block is ever owed more deposits than it may carry.                  *)
THEOREM DepositsAlwaysFit == DepositsSpec => []DepositsFit
<1>1. DepositsInv => DepositsFit BY DEF DepositsInv
<1> QED BY <1>1, DepositsInvariant, PTL

(* Only deposit changes the deposits, and where it does the chain, once    *)
(* three blocks long, keeps its window and its order.                      *)
LEMMA EffectKeepsWindow ==
    DepositsInv /\ DepositsEffect =>
        /\ [Height > 2 => KeepsWindow]_<<spineVars, depositVars>>
        /\ [Height > 2 => AssignsBehindNone]_<<spineVars, depositVars>>
<1> SUFFICES ASSUME DepositsInv, DepositsEffect, Height > 2
             PROVE  KeepsWindow /\ AssignsBehindNone
  OBVIOUS
<1>0. SpineInv /\ DepositsFit /\ DOMAIN perBlockDeposits = 0 .. MaxDepositBlock
  BY DEF DepositsInv, DepositsFit, DepositsTypeOK
<1>1. ASSUME NEW leaf \in Leaves, Deposit(leaf) PROVE KeepsWindow /\ AssignsBehindNone
  <2>1. /\ DepositTarget \in Nat /\ highestDeposit \in Nat /\ Height \in Nat
        /\ DepositTarget >= Height + 2 /\ DepositTarget >= highestDeposit
    BY <1>0, <1>1, DepositFacts DEF DepositsFit, DepositsTypeOK, SpineInv, SpineTypeOK, Height
  <2>2. \A n \in 0 .. MaxDepositBlock :
            n # DepositTarget => perBlockDeposits'[n] = perBlockDeposits[n]
    BY <1>0, <1>1, DepositEffect
  <2>3. KeepsWindow
    BY <1>0, <2>1, <2>2 DEF KeepsWindow
  <2>4. ASSUME NEW n \in DOMAIN perBlockDeposits, NEW m \in DOMAIN perBlockDeposits,
               perBlockDeposits'[n] # perBlockDeposits[n], m > n
        PROVE  perBlockDeposits[m] = <<>>
    <3>1. n = DepositTarget /\ m \in 0 .. MaxDepositBlock
      BY <1>0, <2>2, <2>4
    <3>2. m > highestDeposit
      BY <3>1, <2>1, <2>4
    <3> QED BY <1>0, <3>1, <3>2 DEF DepositsFit
  <2> QED BY <2>3, <2>4 DEF AssignsBehindNone
<1>2. CASE UNCHANGED perBlockDeposits
  BY <1>2 DEF KeepsWindow, AssignsBehindNone
<1> QED BY <1>1, <1>2 DEF DepositsEffect, AddBlockWithDeposits, depositVars

(* A deposit never changes the block being built or the one after it, once *)
(* the chain has three blocks.                                             *)
THEOREM WindowIsKept == DepositsSpec => SubmissionWindow
  BY EffectKeepsWindow, DepositsNextEffect, DepositsInvariant, PTL
     DEF SubmissionWindow, DepositsSpec, DepositsStart

(* A deposit never goes to a block before one that already has deposits,   *)
(* once the chain has three blocks.                                        *)
THEOREM DepositsAreInOrder == DepositsSpec => AssignedInOrder
  BY EffectKeepsWindow, DepositsNextEffect, DepositsInvariant, PTL
     DEF AssignedInOrder, DepositsSpec, DepositsStart
=============================================================================
