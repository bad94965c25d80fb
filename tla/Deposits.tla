------------------------------ MODULE Deposits ------------------------------
(* Deposits made on the L1 and the block each of them is assigned to       *)
(* (Deposits.sol).  A leaf hash stands for the leaf; the constant blinding *)
(* factor that deposit leaves are given is left out of it.                 *)
EXTENDS Spine, YieldRouter

CONSTANTS
    Leaves,            \* leaves: records with at least asset, amount, publicKey
    MaxDepositBlock    \* bound: last block a deposit is assigned to

ASSUME DepositsAssumption ==
    /\ MaxDepositBlock \in Nat
    /\ \A l \in Leaves : l.asset \in Tokens /\ l.amount \in Nat

VARIABLES
    highestDeposit,    \* highest block number a deposit was assigned to
    perBlockDeposits   \* the deposits of each block, in order

depositVars == <<highestDeposit, perBlockDeposits>>

DepositsInit ==
    /\ highestDeposit = 0
    /\ perBlockDeposits = [n \in 0 .. MaxDepositBlock |-> <<>>]

(* Mutant: the target forgets deposits that were assigned further ahead.   *)
FirstChoiceNearby == IF Height > 2 THEN Height + 1 ELSE Height

FirstChoice ==
    IF Height > 2
    THEN IF highestDeposit >= Height + 2 THEN highestDeposit ELSE Height + 2
    ELSE Height

DepositTarget ==
    IF Len(perBlockDeposits[FirstChoice]) >= MAX_DEPOSITS THEN FirstChoice + 1 ELSE FirstChoice

(* Mutant: the second choice is taken without looking at it.               *)
DepositUnchecked(leaf) ==
    /\ leaf.amount # 0
    /\ TriggerDeposit(leaf.asset, leaf.amount)
    /\ FirstChoice < MaxDepositBlock
    /\ perBlockDeposits' = [perBlockDeposits EXCEPT ![DepositTarget] = Append(@, leaf)]
    /\ highestDeposit' = IF DepositTarget > highestDeposit THEN DepositTarget ELSE highestDeposit
    /\ UNCHANGED spineVars

(* Paid in ETH or in tokens; both reach the router in this transaction.    *)
Deposit(leaf) ==
    /\ leaf.amount # 0
    /\ TriggerDeposit(leaf.asset, leaf.amount)
    /\ FirstChoice < MaxDepositBlock
    /\ Len(perBlockDeposits[DepositTarget]) < MAX_DEPOSITS
    /\ perBlockDeposits' = [perBlockDeposits EXCEPT ![DepositTarget] = Append(@, leaf)]
    /\ highestDeposit' = IF DepositTarget > highestDeposit THEN DepositTarget ELSE highestDeposit
    /\ UNCHANGED spineVars

(* Mutant: post leaves the number of deposits to the sequencer.            *)
AddBlockAnyDeposits(d) == Height <= MaxDepositBlock /\ AddBlock(d) /\ UNCHANGED depositVars

(* The part of post that concerns the chain.                               *)
AddBlockWithDeposits(d) ==
    /\ Height <= MaxDepositBlock
    /\ d.numDeposits = Len(perBlockDeposits[Height])
    /\ AddBlock(d)
    /\ UNCHANGED depositVars

DepositsNext ==
    \/ \E leaf \in Leaves : Deposit(leaf)
    \/ \E d \in Submissions : AddBlockWithDeposits(d) /\ UNCHANGED routerVars
    \/ \E n \in BlockNumbers : Rollback(n) /\ UNCHANGED <<depositVars, routerVars>>
    \/ SpineTick /\ UNCHANGED <<depositVars, routerVars>>
    \/ \E t \in Tokens, v \in Vaults :
           /\ ~HasSource(t)
           /\ ChangeYieldSource(t, v)
           /\ UNCHANGED <<spineVars, depositVars>>

DepositsStart == SpineInit /\ RouterInit /\ DepositsInit

DepositsSpec ==
    /\ DepositsStart
    /\ [][DepositsNext]_<<spineVars, depositVars, routerVars>>

-----------------------------------------------------------------------------
DepositsTypeOK ==
    /\ highestDeposit \in Nat
    /\ perBlockDeposits \in [0 .. MaxDepositBlock -> Seq(Leaves)]

(* No block is owed more deposits than a block may carry, which would stop *)
(* the chain for good at that block, and no block beyond highestDeposit is *)
(* owed any.                                                               *)
DepositsFit ==
    /\ DepositsTypeOK
    /\ \A n \in DOMAIN perBlockDeposits :
           /\ Len(perBlockDeposits[n]) <= MAX_DEPOSITS
           /\ n > highestDeposit => perBlockDeposits[n] = <<>>

(* The deposits of an included block are settled: no deposit, post or      *)
(* rollback changes how many it must carry.  A deposit assigned to an      *)
(* included block would make that block challengeable.                     *)
DepositsFrozen ==
    \A n \in BlockNumbers :
        n <= MaxDepositBlock /\ Block(n).numDeposits = Len(perBlockDeposits[n])

KeepsWindow ==
    \A n \in {Height, Height + 1} \cap DOMAIN perBlockDeposits :
        perBlockDeposits'[n] = perBlockDeposits[n]

(* Once the chain has three blocks a deposit changes neither the block     *)
(* being built nor the one after it, wherever rollbacks left               *)
(* highestDeposit, so that it cannot invalidate a block in flight.         *)
SubmissionWindow == [][Height > 2 => KeepsWindow]_<<spineVars, depositVars>>

AssignsBehindNone ==
    \A n, m \in DOMAIN perBlockDeposits :
        perBlockDeposits'[n] # perBlockDeposits[n] /\ m > n => perBlockDeposits[m] = <<>>

(* A deposit is never assigned behind an earlier one while the chain has   *)
(* more than two blocks: the last block with deposits only moves up.       *)
AssignedInOrder == [][Height > 2 => AssignsBehindNone]_<<spineVars, depositVars>>
=============================================================================
