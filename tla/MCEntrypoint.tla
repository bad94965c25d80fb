---------------------------- MODULE MCEntrypoint -----------------------------
(* Instances of Entrypoint for TLC.  Approvals only matter to the fraud    *)
(* proofs of keyed transactions, which MCChallenges has.                   *)
EXTENDS Entrypoint, MCProposals

CONSTANTS
    Named,      \* whom the posted blocks name as their sequencer
    Posters,    \* accounts that post
    Challengers,\* accounts that challenge
    MaxMoves,   \* bound: calls of the router's owner and moves of the vaults
    Stakers     \* accounts that register exits, exit and fund again; others only fund,
                \* and only while inactive

ASSUME MCEntrypointAssumption ==
    /\ Posters \cup Challengers \cup Stakers \subseteq Accounts
    /\ Named \subseteq Sequencers

(* An output is an asset and an amount, whatever the bytes are that a blob *)
(* has in its place.                                                       *)
ASSUME LeafAssumption ==
    \A d \in Submissions : \A txNr \in TxNumbers(d), which \in 0 .. 2 :
        LET leaf == Tx(d, txNr).leaves[which + 1]
        IN  leaf # ZeroLeaf => leaf.asset \in Tokens /\ leaf.amount \in Nat

VARIABLES
    refunded,   \* accounts that funded with an exit on record
    posted,     \* for each block, who posted it and the stake required of them then
    late,       \* how often fraud in a confirmed block was proved
    moves       \* calls of the router's owner and moves of the vaults so far

historyVars == <<posts, refunded, posted, late, moves>>

-----------------------------------------------------------------------------
MCInit == EntrypointInit /\ posts = 0 /\ refunded = {} /\ posted = <<>> /\ late = 0 /\ moves = 0

MCNext ==
    \/ /\ CanPost
       /\ \E sender \in Posters :
              /\ PostStep(sender, Proposals(Named) \cup Submissions)
              /\ posted' = Append(posted, [by |-> sender, required |-> requiredStake])
       /\ posts' = posts + 1
       /\ UNCHANGED <<refunded, late, moves>>
    \/ /\ Deposited < MaxDeposits
       /\ DepositStep
       /\ UNCHANGED historyVars
    \/ \E n \in BlockNumbers :
           /\ ChallengeStep({n}, Challengers)
           /\ posted' = SubSeq(posted, 1, n)
           /\ late' = IF IsConfirmed(Block(n)) THEN late + 1 ELSE late
           /\ UNCHANGED <<posts, refunded, moves>>
    \/ /\ RegistryStep
       /\ \A who \in Accounts \ Stakers : sequencers'[who] = sequencers[who]
       /\ refunded' = refunded \cup
              {who \in Accounts : /\ exits[who] # 0
                                 /\ ~sequencers[who].isActive /\ sequencers'[who].isActive}
       /\ UNCHANGED <<posts, posted, late, moves>>
    \/ /\ \E who \in Posters \ Stakers, wei \in FundAmounts :
              ~sequencers[who].isActive /\ Fund(who, wei)
       /\ UNCHANGED <<spineVars, depositVars, routerVars, allowed, withdrawVars, useVars,
                      historyVars>>
    \/ WithdrawStep /\ UNCHANGED historyVars
    \/ PayoutStep /\ UNCHANGED historyVars
    \/ YieldStep /\ UNCHANGED historyVars
    \/ /\ moves < MaxMoves
       /\ MigrateStep \/ OwnerStep \/ MarketStep
       /\ moves' = moves + 1
       /\ UNCHANGED <<posts, refunded, posted, late>>
    \/ TimeStep /\ UNCHANGED historyVars

MCSpec == MCInit /\ [][MCNext]_<<entrypointVars, historyVars>>

-----------------------------------------------------------------------------
(* The numbers of the blocks whose challenge period runs and whose named   *)
(* sequencer is who posted them.                                           *)
AnsweredFor ==
    {n \in BlockNumbers : /\ now < Block(n).timestamp + CHALLENGE_PERIOD
                          /\ posted[n + 1].by = Block(n).sequencer}

(* Within the challenge period of a block there is as much stake to lose   *)
(* for it as was required when it was posted: registering an exit, being   *)
(* challenged for another block, or for one that somebody else posted in   *)
(* the same name, and paying out a reward never set the stake free too     *)
(* early.  Excepted are sequencers that funded again with an exit on       *)
(* record, and blocks that name somebody else than their poster: post      *)
(* (Entrypoint.sol) compares the two nowhere, slash takes the one named,   *)
(* and behind such a block there may be no stake at all.                   *)
StakeHeldInWindow ==
    \A n \in AnsweredFor :
        LET who == Block(n).sequencer
        IN  who \notin refunded => sequencers[who].stakeAmount >= posted[n + 1].required

(* The same without the first exception.                                   *)
(* docs/concepts/sequencing.md, Complete Exit: challengers "have time to   *)
(* prove it before the stake disappears".                                  *)
StakeAlwaysHeldInWindow ==
    \A n \in AnsweredFor :
        sequencers[Block(n).sequencer].stakeAmount >= posted[n + 1].required

(* The bridge seen from the L1: the confirmed blocks are the settled ones. *)
Settled == {n \in BlockNumbers : IsConfirmed(Block(n))}

Payable(b) == {o \in TxNumbers(b) \X (0 .. 2) :
                   LET leaf == Tx(b, o[1]).leaves[o[2] + 1]
                   IN  leaf # ZeroLeaf /\ leaf.publicKey = 0}

Worth(b) == [o \in Payable(b) |->
                LET leaf == Tx(b, o[1]).leaves[o[2] + 1]
                IN  [asset |-> leaf.asset, amount |-> leaf.amount]]

S == INSTANCE Settlement WITH
    Assets <- Tokens,
    Amounts <- {leaf.amount : leaf \in Leaves},
    ledger <- [i \in 1 .. Cardinality(Settled) |-> Worth(Block(i - 1))],
    paid <- {<<w[1], <<w[2], w[3]>>>> : w \in withdrawn},
    funds <- priorBalances,
    short <- {t \in Tokens : HasSource(t) /\ priorBalances[t] > Invested(t)}

(* The bridge implements Settlement: whatever is posted, challenged,       *)
(* rolled back and posted again under the same numbers, and whatever       *)
(* happens to the vaults, a confirmed block goes only when fraud in it or  *)
(* below is proved after its period, an output is paid once, out of a      *)
(* block that is confirmed, and in full, and the principal is what was     *)
(* deposited and earned less what was paid.                                *)
SettlementHolds == S!Spec
=============================================================================
