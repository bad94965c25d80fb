----------------------------- MODULE Entrypoint ------------------------------
(* The bridge contract: the chain, the deposits, the sequencers, the four  *)
(* challenges and the withdrawals as one state machine, with the yield     *)
(* router that asks it who earned what (Entrypoint.sol).                   *)
EXTENDS Challenges, Withdraw

CONSTANTS
    PRIORITY_BONUS,   \* weight of blob use in a closed period
    BASE,             \* weight of blob use otherwise
    Approvals         \* bound: the transactions that signers approve

ASSUME EntrypointAssumption ==
    /\ PRIORITY_BONUS \in Nat
    /\ BASE \in Nat \ {0}
    /\ Sequencers \subseteq Accounts

VARIABLES
    totalBlobUse,      \* weighted blob use of each epoch
    sequencerBlobUse   \* the same for each sequencer

useVars == <<totalBlobUse, sequencerBlobUse>>

entrypointVars ==
    <<spineVars, depositVars, routerVars, registryVars, allowed, withdrawVars, useVars>>

(* Bound: the epochs that begin before MaxTime.                            *)
Epochs == 0 .. (MaxTime - START) \div EPOCH_LENGTH

-----------------------------------------------------------------------------
(* Mutant: the bonus is added to the poster's use only.                    *)
CreditPosterOnly(sender, use) ==
    /\ totalBlobUse' = [totalBlobUse EXCEPT ![CurrentEpoch] = @ + use]
    /\ sequencerBlobUse' =
           [sequencerBlobUse EXCEPT ![CurrentEpoch][sender] =
               @ + IF IsClosedPeriod THEN (use * PRIORITY_BONUS) \div BASE ELSE use]

Credit(sender, use) ==
    LET adjusted == IF IsClosedPeriod THEN (use * PRIORITY_BONUS) \div BASE ELSE use
    IN  /\ totalBlobUse' = [totalBlobUse EXCEPT ![CurrentEpoch] = @ + adjusted]
        /\ sequencerBlobUse' =
               [sequencerBlobUse EXCEPT ![CurrentEpoch][sender] = @ + adjusted]

Post(sender, d) ==
    /\ IsAllowed(sender)
    /\ AddBlockWithDeposits(d)
    /\ Credit(sender, BlobUse(d))

GetPercentInEpoch(who, epoch) ==
    IF totalBlobUse[epoch] = 0 THEN 0
    ELSE (sequencerBlobUse[epoch][who] * FIXED_BASE) \div totalBlobUse[epoch]

(* Mutant: the epoch only has to be over.                                  *)
IsFinalizedEarly(epoch) == epoch < CurrentEpoch

IsFinalized(epoch) == epoch + CHALLENGE_PERIOD \div EPOCH_LENGTH + 1 < CurrentEpoch

-----------------------------------------------------------------------------
(* The transactions of all users, one after another.                       *)

PostStep(sender, proposals) ==
    \E d \in proposals :
        Post(sender, d) /\ UNCHANGED <<routerVars, registryVars, allowed, withdrawVars>>

DepositStep ==
    \E leaf \in Leaves :
        Deposit(leaf) /\ UNCHANGED <<registryVars, allowed, withdrawVars, useVars>>

WithdrawStep ==
    \E n \in BlockNumbers : \E txNr \in TxNumbers(Block(n)), which \in 0 .. 2 :
        /\ WithdrawLeaf(Block(n), txNr, which)
        /\ UNCHANGED <<depositVars, registryVars, allowed, useVars>>

ChallengeStep(numbers, senders) ==
    \E n \in numbers, sender \in senders :
        Challenge(n, sender) /\ UNCHANGED <<routerVars, withdrawVars, useVars>>

RegistryStep ==
    /\ RegistryCall
    /\ UNCHANGED <<spineVars, depositVars, routerVars, allowed, withdrawVars, useVars>>

ApprovalStep(approvals) ==
    \E key \in Signers, fields \in approvals :
        /\ Allow(key, fields)
        /\ UNCHANGED <<spineVars, depositVars, routerVars, registryVars, withdrawVars, useVars>>

PayoutStep ==
    \E token \in Tokens, who \in Accounts, epoch \in Epochs :
        /\ SequencerWithdrawAsset(token, who, epoch, IsChallenged(who), IsFinalized(epoch),
                                  GetPercentInEpoch(who, epoch))
        /\ UNCHANGED <<spineVars, depositVars, registryVars, allowed, withdrawVars, useVars>>

YieldStep ==
    /\ Poke \/ \E token \in Tokens : RecognizeYield(token)
    /\ UNCHANGED <<spineVars, depositVars, registryVars, allowed, withdrawVars, useVars>>

MigrateStep ==
    /\ \E token \in Tokens, vault \in Vaults : ChangeYieldSource(token, vault)
    /\ UNCHANGED <<spineVars, depositVars, registryVars, allowed, withdrawVars, useVars>>

OwnerStep ==
    /\ \/ \E tokens \in SUBSET Tokens : ChangeTrackedYieldSources(tokens)
       \/ \E token \in Tokens, max \in 0 .. MaxValue : SetMaxInterest(token, max)
    /\ UNCHANGED <<spineVars, depositVars, registryVars, allowed, withdrawVars, useVars>>

MarketStep ==
    /\ \E token \in Tokens :
           \/ \E vault \in Vaults, worth \in 0 .. MaxValue : VaultReturn(token, vault, worth)
           \/ \E amount \in 1 .. MaxIdle : Donate(token, amount)
    /\ UNCHANGED <<spineVars, depositVars, registryVars, allowed, withdrawVars, useVars>>

TimeStep ==
    /\ SpineTick
    /\ UNCHANGED <<depositVars, routerVars, registryVars, allowed, withdrawVars, useVars>>

EntrypointInit ==
    /\ SpineInit
    /\ DepositsInit
    /\ RouterInit
    /\ RegistryInit
    /\ allowed = {}
    /\ withdrawn = {}
    /\ totalBlobUse = [e \in Epochs |-> 0]
    /\ sequencerBlobUse = [e \in Epochs |-> [who \in Accounts |-> 0]]

EntrypointNext ==
    \/ \E sender \in Accounts : PostStep(sender, Submissions)
    \/ DepositStep
    \/ WithdrawStep
    \/ ChallengeStep(BlockNumbers, Accounts)
    \/ RegistryStep
    \/ ApprovalStep(Approvals)
    \/ PayoutStep
    \/ YieldStep
    \/ MigrateStep
    \/ OwnerStep
    \/ MarketStep
    \/ TimeStep

EntrypointSpec == EntrypointInit /\ [][EntrypointNext]_entrypointVars

-----------------------------------------------------------------------------
(* The shares of an epoch never add up to more than one, whatever mixture  *)
(* of closed and open periods its blocks were posted in.                   *)
SharesWithinWhole ==
    \A e \in Epochs :
        FIXED_BASE >= MapThenSumSet(LAMBDA who : GetPercentInEpoch(who, e), Accounts)

EpochOf(b) == (b.timestamp - START) \div EPOCH_LENGTH

(* Yield is only paid for epochs that a timely challenge cannot change any *)
(* more: at the time of a claim, and ever after, all blocks posted in its  *)
(* epoch are confirmed.                                                    *)
PaidIsConfirmed ==
    \A claim \in paidOut : \A n \in BlockNumbers :
        EpochOf(Block(n)) = claim[2] => IsConfirmed(Block(n))
=============================================================================
