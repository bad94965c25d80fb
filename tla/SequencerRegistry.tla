-------------------------- MODULE SequencerRegistry --------------------------
(* Stakes, exits, slashing and the first-look rotation of the sequencers   *)
(* (SequencerRegistry.sol).                                                *)
EXTENDS L1, Sequences, FiniteSetsExt

CONSTANTS
    EPOCH_LENGTH,      \* seconds of an epoch
    CHALLENGE_WINDOW,  \* seconds a slash or an exit has to wait
    STAKE_DIVISOR,     \* wei per unit of stake
    MAX_STAKE,         \* the required stake stays below this
    INITIAL_STAKE,     \* required stake at deployment
    PRIORITY_INDEXES,  \* values of the uint8 priorityIndex
    Accounts,          \* addresses, of sequencers and of challengers
    NoOne,             \* address(0)
    FundAmounts,       \* bound: wei a call of fund may carry
    MaxBalance,        \* bound: wei held by the contract
    MaxFirstLook       \* bound: length of the first-look list

ASSUME RegistryAssumption ==
    /\ EPOCH_LENGTH \in Nat \ {0}
    /\ CHALLENGE_WINDOW \in Nat
    /\ STAKE_DIVISOR \in Nat \ {0}
    /\ MAX_STAKE \in Nat
    /\ INITIAL_STAKE \in Nat
    /\ PRIORITY_INDEXES \in Nat \ {0}
    /\ NoOne \notin Accounts
    /\ FundAmounts \subseteq Nat
    /\ MaxBalance \in Nat
    /\ MaxFirstLook \in Nat

(* Addresses have 160 bits.                                                *)
ASSUME AccountsAssumption == IsFiniteSet(Accounts)

VARIABLES
    sequencers,           \* the status of every address
    exits,                \* when each address registered its exit, 0 if not
    firstLookSequencers,  \* the rotation of the closed periods
    requiredStake,        \* units of stake a sequencer needs to post
    balance               \* wei held by the contract

registryVars == <<sequencers, exits, firstLookSequencers, requiredStake, balance>>

SequencerStatus ==
    [isActive : BOOLEAN, isPriority : BOOLEAN, priorityIndex : 0 .. PRIORITY_INDEXES - 1,
     blocknumberChallenged : Nat, timestampChallenged : Nat, stakeAmount : Nat,
     challenger : Accounts \cup {NoOne}]

DeletedStatus ==
    [isActive |-> FALSE, isPriority |-> FALSE, priorityIndex |-> 0,
     blocknumberChallenged |-> 0, timestampChallenged |-> 0, stakeAmount |-> 0,
     challenger |-> NoOne]

-----------------------------------------------------------------------------
(* Who may post.                                                           *)

CurrentEpoch == (now - START) \div EPOCH_LENGTH

IsClosedPeriod == now - (CurrentEpoch * EPOCH_LENGTH + START) < EPOCH_LENGTH \div 2

IsActiveWithStake(who) ==
    sequencers[who].isActive /\ sequencers[who].stakeAmount >= requiredStake

IsAllowed(who) ==
    /\ IsActiveWithStake(who)
    /\ IsClosedPeriod /\ firstLookSequencers # <<>> =>
           who = firstLookSequencers[(CurrentEpoch % Len(firstLookSequencers)) + 1]

IsChallenged(who) == sequencers[who].challenger # NoOne

-----------------------------------------------------------------------------
(* The first-look list.  Both results of _remove are functions of the      *)
(* statuses it starts from; which counts from 0.                           *)

(* Mutant: the moved entry keeps its old index.                            *)
UnlistedKeepingIndex(statuses, which) ==
    [statuses EXCEPT ![firstLookSequencers[which + 1]].isPriority = FALSE]

Unlisted(statuses, which) ==
    [statuses EXCEPT
        ![firstLookSequencers[which + 1]].isPriority = FALSE,
        ![firstLookSequencers[Len(firstLookSequencers)]].priorityIndex =
            which % PRIORITY_INDEXES]

ListWithout(which) ==
    SubSeq([firstLookSequencers EXCEPT ![which + 1] =
               firstLookSequencers[Len(firstLookSequencers)]],
           1, Len(firstLookSequencers) - 1)

(* The deactivation shared by slash and registerExit: with the new         *)
(* statuses in place, who leaves the list if it is marked as on it.  The   *)
(* call reverts when its recorded index is outside the list.               *)
LeaveList(statuses, who) ==
    IF statuses[who].isPriority
    THEN /\ statuses[who].priorityIndex < Len(firstLookSequencers)
         /\ sequencers' = Unlisted(statuses, statuses[who].priorityIndex)
         /\ firstLookSequencers' = ListWithout(statuses[who].priorityIndex)
    ELSE /\ sequencers' = statuses
         /\ UNCHANGED firstLookSequencers

-----------------------------------------------------------------------------
(* Operations.                                                             *)

(* Mutant: the record survives the payout, which is not covered.           *)
PayAndKeep(who, amount) ==
    balance' = balance - amount /\ UNCHANGED sequencers

(* The record is deleted before the transfer, and a failing transfer       *)
(* reverts both.                                                           *)
PayAndDelete(who, amount) ==
    /\ balance >= amount
    /\ sequencers' = [sequencers EXCEPT ![who] = DeletedStatus]
    /\ balance' = balance - amount

Funded(who, value) ==
    /\ balance + value <= MaxBalance
    /\ sequencers' = [sequencers EXCEPT ![who].isActive = TRUE,
                                        ![who].stakeAmount = @ + value \div STAKE_DIVISOR]
    /\ balance' = balance + value
    /\ UNCHANGED <<exits, firstLookSequencers, requiredStake>>

(* Mutant: a challenged sequencer may fund itself again.                   *)
FundAnyone(who, value) == Funded(who, value)

Fund(who, value) == ~IsChallenged(who) /\ Funded(who, value)

SlashedStatus(who, blockNumber, sender, isEarliest) ==
    [sequencers[who] EXCEPT
        !.isActive = FALSE,
        !.timestampChallenged = now,
        !.challenger = IF isEarliest THEN sender ELSE @,
        !.blocknumberChallenged = IF isEarliest THEN blockNumber ELSE @]

(* Mutant: every challenge takes over the reward.                          *)
SlashLatest(who, blockNumber, sender) ==
    /\ LeaveList([sequencers EXCEPT ![who] = SlashedStatus(who, blockNumber, sender, TRUE)], who)
    /\ UNCHANGED <<exits, requiredStake, balance>>

(* Called by the challenges, never on its own.                             *)
Slash(who, blockNumber, sender) ==
    LET recorded == sequencers[who].blocknumberChallenged
        isEarliest == recorded = 0 \/ recorded > blockNumber
    IN  /\ LeaveList([sequencers EXCEPT ![who] =
                         SlashedStatus(who, blockNumber, sender, isEarliest)], who)
        /\ UNCHANGED <<exits, requiredStake, balance>>

ClaimChallengeReward(who) ==
    /\ sequencers[who].timestampChallenged # 0
    /\ now - sequencers[who].timestampChallenged >= CHALLENGE_WINDOW
    /\ PayAndDelete(who, (sequencers[who].stakeAmount * STAKE_DIVISOR) \div 2)
    /\ UNCHANGED <<exits, firstLookSequencers, requiredStake>>

(* Mutant: a sequencer that registered its exit goes on posting.           *)
RegisterExitStillActive(who) ==
    /\ sequencers[who].isActive
    /\ exits' = [exits EXCEPT ![who] = now]
    /\ UNCHANGED <<sequencers, firstLookSequencers, requiredStake, balance>>

RegisterExit(who) ==
    /\ sequencers[who].isActive
    /\ LeaveList([sequencers EXCEPT ![who].isActive = FALSE], who)
    /\ exits' = [exits EXCEPT ![who] = now]
    /\ UNCHANGED <<requiredStake, balance>>

Refunded(who) ==
    /\ exits[who] # 0
    /\ now - exits[who] >= CHALLENGE_WINDOW
    /\ PayAndDelete(who, sequencers[who].stakeAmount * STAKE_DIVISOR)
    /\ exits' = [exits EXCEPT ![who] = 0]
    /\ UNCHANGED <<firstLookSequencers, requiredStake>>

(* Mutant: a pending challenge does not hold the stake back.               *)
ExitUnderChallenge(who) == Refunded(who)

Exit(who) == ~IsChallenged(who) /\ Refunded(who)

AddFirstLook(who) ==
    /\ Len(firstLookSequencers) < MaxFirstLook
    /\ sequencers[who].isActive
    /\ sequencers' = [sequencers EXCEPT
                         ![who].isPriority = TRUE,
                         ![who].priorityIndex = Len(firstLookSequencers) % PRIORITY_INDEXES]
    /\ firstLookSequencers' = Append(firstLookSequencers, who)
    /\ UNCHANGED <<exits, requiredStake, balance>>

RemoveFirstLook(which) ==
    /\ which < Len(firstLookSequencers)
    /\ sequencers' = Unlisted(sequencers, which)
    /\ firstLookSequencers' = ListWithout(which)
    /\ UNCHANGED <<exits, requiredStake, balance>>

UpdateStakeRequirement(amount) ==
    /\ amount < MAX_STAKE
    /\ requiredStake' = amount
    /\ UNCHANGED <<sequencers, exits, firstLookSequencers, balance>>

RegistryInit ==
    /\ sequencers = [who \in Accounts |-> DeletedStatus]
    /\ exits = [who \in Accounts |-> 0]
    /\ firstLookSequencers = <<>>
    /\ requiredStake = INITIAL_STAKE
    /\ balance = 0

(* Everything but slashing, which only a challenge does.                   *)
RegistryCall ==
    \/ \E who \in Accounts, value \in FundAmounts : Fund(who, value)
    \/ \E who \in Accounts : ClaimChallengeReward(who)
    \/ \E who \in Accounts : RegisterExit(who)
    \/ \E who \in Accounts : Exit(who)
    \/ \E who \in Accounts : AddFirstLook(who)
    \/ \E which \in 0 .. Len(firstLookSequencers) - 1 : RemoveFirstLook(which)
    \/ \E amount \in 0 .. MAX_STAKE : UpdateStakeRequirement(amount)

(* The registry on its own, with challenges proved at any block number.    *)
RegistryNext ==
    \/ RegistryCall /\ UNCHANGED now
    \/ \E who, sender \in Accounts, n \in Nat : Slash(who, n, sender) /\ UNCHANGED now
    \/ Tick /\ UNCHANGED registryVars

RegistrySpec ==
    /\ now = START
    /\ RegistryInit
    /\ [][RegistryNext]_<<now, registryVars>>

-----------------------------------------------------------------------------
(* What the registry guarantees.                                           *)

RegistryTypeOK ==
    /\ sequencers \in [Accounts -> SequencerStatus]
    /\ exits \in [Accounts -> Nat]
    /\ firstLookSequencers \in Seq(Accounts)
    /\ requiredStake \in Nat
    /\ balance \in Nat

(* The contract can pay back every stake it has on record, so neither an   *)
(* exit nor a reward ever fails for lack of funds.                         *)
Solvent ==
    balance >= STAKE_DIVISOR * MapThenSumSet(LAMBDA who : sequencers[who].stakeAmount, Accounts)

(* A sequencer with a challenge on record is inactive until the reward is  *)
(* claimed: no sequence of fund, addFirstLook, registerExit and exit lets  *)
(* it post again.                                                          *)
ChallengedInactive ==
    \A who \in Accounts :
        /\ IsChallenged(who) => ~sequencers[who].isActive
        /\ IsChallenged(who) <=> sequencers[who].timestampChallenged # 0

(* slash and registerExit trust the recorded index of a priority sequencer *)
(* when they take it off the list: it is inside the list and is that       *)
(* sequencer's place, whatever was swapped, added twice or removed before. *)
(* Otherwise slashing would revert or evict somebody else.                 *)
PriorityIndexIsPlace ==
    \A who \in Accounts :
        LET place == sequencers[who].priorityIndex
        IN  sequencers[who].isPriority =>
                place < Len(firstLookSequencers) /\ firstLookSequencers[place + 1] = who

(* The stake of a challenged sequencer leaves only as a reward: half of it *)
(* and not before the window after the latest challenge has passed.        *)
StakeLeavesAsReward ==
    \A who \in Accounts :
        IsChallenged(who) /\ sequencers'[who].stakeAmount # sequencers[who].stakeAmount =>
            /\ now >= sequencers[who].timestampChallenged + CHALLENGE_WINDOW
            /\ balance' = balance - (sequencers[who].stakeAmount * STAKE_DIVISOR) \div 2

SlashedStakeIsReward == [][StakeLeavesAsReward]_registryVars
=============================================================================
