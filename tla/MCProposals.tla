----------------------------- MODULE MCProposals -----------------------------
(* The blocks that the instances of Challenges and Entrypoint post: each is *)
(* made for the state it is posted in and is correct or deviates from a    *)
(* correct block in one way, its kind.                                     *)
EXTENDS Challenges

CONSTANTS
    Kinds,      \* the kinds of the first blocks posted
    LateKinds,  \* the kinds of the blocks posted after them
    TxCounts,   \* bound: numbers of transactions in a block
    MaxBlocks,  \* bound: greatest height
    MaxPosts,   \* bound: blocks posted, the ones rolled back included
    MaxDeposits,\* bound: deposits made
    Token,      \* the asset
    Key         \* the Ethereum key

ASSUME MCProposalsAssumption == Token \in Tokens /\ TxCounts \subseteq Nat

VARIABLE posts  \* blocks posted so far

MCTokens == {Token}

MCGenesis == <<>>

Payment == [asset |-> Token, amount |-> 1, publicKey |-> 1]

Payout == [asset |-> Token, amount |-> 1, publicKey |-> 0]

MCLeaves == {Payment}

MCAnchors == Seq([slot : Nat, leaves : Seq({Payment, Payout, ZeroLeaf})])

TxLeaves == <<Payout, ZeroLeaf, ZeroLeaf>>

MCApprovals == {<<<<<<n, 0, 0>>, <<n, 0, 1>>>>, TxLeaves>> : n \in {MaxBlocks - 1}}

(* The block a sequencer builds on the chain as it is.                     *)
Proposal(name, kind, txs) ==
    LET nr == Height
        pending == perBlockDeposits[nr]
        groups == (Len(pending) + 2) \div 3
        deposits == [i \in 1 .. 3 * groups |->
                        IF kind = "leaf" /\ i = 1 THEN Payout
                        ELSE IF kind = "padding" /\ i = Len(pending) + 1 THEN Payment
                        ELSE IF i <= Len(pending) THEN pending[i] ELSE ZeroLeaf]
        leaves(u) == IF kind = "root" /\ u = 1 THEN <<>>
                     ELSE IF u > groups THEN TxLeaves
                     ELSE <<deposits[3 * u - 2], deposits[3 * u - 1], deposits[3 * u]>>
        prior == IF kind = "genesis" THEN GENESIS_ANCHOR ELSE TruePriorAnchor(nr)
        rootAfter(k) ==
            prior \o [u \in 1 .. k |-> Update([blockIndex |-> NextBlockIndex], leaves(u))]
        before == Block(nr - 1)
        ref(t) == IF kind = "older" THEN [blockNr |-> nr - 1, updateNr |-> 0,
                                          isDeposit |-> before.numDeposits > 0]
                  ELSE IF kind = "outside" THEN [blockNr |-> nr, updateNr |-> groups,
                                                 isDeposit |-> TRUE]
                  ELSE [blockNr |-> nr, updateNr |-> IF kind = "ahead" THEN t + 1 ELSE t,
                        isDeposit |-> FALSE]
        tx(t) ==
            [nullifiers |->
                 IF kind = "twice" THEN <<<<nr, t, 0>>, <<nr, t, 0>>>>
                 ELSE IF kind = "spent" THEN <<<<0, 0, 0>>, <<nr, t, 1>>>>
                 ELSE <<<<nr, t, 0>>, <<nr, t, 1>>>>,
             leaves |-> TxLeaves,
             root |-> rootAfter(groups + t + 1),
             ref |-> ref(t),
             provenAnchor |-> IF kind = "proof" THEN rootAfter(groups + t + 1)
                              ELSE IF kind = "older" THEN TruePriorAnchor(nr - 1)
                              ELSE rootAfter(groups + t),
             ethKey |-> IF kind = "keyed" THEN Key ELSE NoKey]
    IN  [anchor |-> IF kind = "anchor" THEN prior
                    ELSE IF kind = "reset" THEN GENESIS_ANCHOR
                    ELSE rootAfter(groups + txs),
         numTransactions |-> txs,
         numDeposits |-> Len(pending),
         blockNr |-> nr,
         sequencer |-> name,
         blobhashes |-> <<[deposits |-> deposits,
                           groupRoots |-> [g \in 1 .. groups |-> rootAfter(g)],
                           txs |-> [t \in 1 .. txs |-> tx(t - 1)]]>>,
         numBlobs |-> 1]

(* The kinds that make sense in this state.                                *)
Applies(kind, txs) ==
    /\ kind \in {"older", "spent", "genesis", "reset"} => Height > 0
    /\ kind \in {"older", "outside", "ahead", "twice", "spent", "proof", "keyed"} => txs > 0
    /\ kind = "leaf" => perBlockDeposits[Height] # <<>>
    /\ kind = "padding" => Len(perBlockDeposits[Height]) % 3 # 0

Deposited == MapThenSumSet(LAMBDA n : Len(perBlockDeposits[n]), DOMAIN perBlockDeposits)

CanPost == posts < MaxPosts /\ Height < MaxBlocks

Proposals(names) ==
    {Proposal(name, kt[1], kt[2]) :
        name \in names,
        kt \in {kt \in (IF posts < MaxBlocks THEN Kinds ELSE LateKinds) \X TxCounts :
                   Applies(kt[1], kt[2])}}
=============================================================================
