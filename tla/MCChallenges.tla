---------------------------- MODULE MCChallenges -----------------------------
(* Instances of Challenges and of the challenger's Validators for TLC.     *)
EXTENDS MCProposals, Validators

CONSTANT
    LastKinds   \* the kinds of a last block, posted on MaxBlocks valid ones

challengesVars == <<spineVars, depositVars, routerVars, registryVars, allowed, posts>>

MCInit == ChallengesInit /\ posts = 0

(* Bound: a last block is posted only on blocks that were never rolled     *)
(* back, or after a claim of the genesis anchor, and nothing happens after *)
(* it.                                                                     *)
CanPostLast ==
    /\ Height = MaxBlocks
    /\ posts = MaxBlocks \/ GENESIS_ANCHOR \in DOMAIN anchorToIndex
    /\ ValidUpTo(Height - 1)

LastProposals ==
    {Proposal(name, kt[1], kt[2]) :
        name \in Sequencers, kt \in {kt \in LastKinds \X TxCounts : Applies(kt[1], kt[2])}}

MCNext ==
    /\ Height <= MaxBlocks
    /\ ChallengesNext(IF CanPost THEN Proposals(Sequencers)
                      ELSE IF CanPostLast THEN LastProposals ELSE {},
                      IF "keyed" \in Kinds THEN MCApprovals ELSE {})
    /\ Deposited' <= MaxDeposits
    /\ posts' = IF Len(roots') > Len(roots) THEN posts + 1 ELSE posts

MCSpec == MCInit /\ [][MCNext]_challengesVars
=============================================================================
