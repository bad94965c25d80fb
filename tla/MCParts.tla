------------------------------- MODULE MCParts -------------------------------
(* Instances of the registry, the yield router, the blob builder and the   *)
(* blob providers for TLC.  They share no state; every behaviour is one of *)
(* a single part while the others stay as they were at the start.          *)
EXTENDS SequencerRegistry, YieldRouter, BlobBuilder, BlobProvider, TLC

CONSTANTS
    Parts,           \* the parts checked
    SlashBlocks,     \* bound: block numbers at which fraud is proved
    LastCall,        \* bound: last timestamp of the registry
    Claimants,       \* accounts that posted
    ShareTables,     \* the shares they may have: in each epoch, of each claimant
    FINALITY,        \* epochs before an epoch is finalized
    Epochs,          \* bound: epochs claimed for
    Amounts,         \* bound: amounts deposited and withdrawn
    Losses           \* TRUE if vaults can lose value

(* A fraud at block 0 is left out: 0 is the mark for no challenge.         *)
ASSUME PartsAssumption ==
    /\ SlashBlocks \subseteq Nat \ {0}
    /\ IsFiniteSet(Claimants)
    /\ FINALITY \in Nat
    /\ Epochs \subseteq Nat
    /\ Amounts \subseteq Nat

(* The shares of an epoch are fixed once it is over, and add up to at most *)
(* one: SharesWithinWhole (Entrypoint).                                    *)
ASSUME SharesAssumption ==
    \A f \in ShareTables :
        /\ f \in [Epochs -> [Claimants -> Nat]]
        /\ \A e \in Epochs : MapThenSumSet(LAMBDA who : f[e][who], Claimants) <= FIXED_BASE

(* Uneven shares of the whole, divided otherwise in every epoch.           *)
MCShareTables ==
    Injection(Epochs, {f \in [Claimants -> {3, 7}] :
                           MapThenSumSet(LAMBDA who : f[who], Claimants) = FIXED_BASE})

VARIABLES
    part,     \* the part that moves
    earliest, \* the first challenge at the lowest block reported against
              \* each sequencer since its record was last deleted
    shares,   \* in each epoch, the share of each claimant, in fixed point
    claims,   \* what each claim in paidOut paid
    lost      \* TRUE once a vault lost value

routerHistory == <<shares, claims, lost>>

OtherNames == Permutations(Accounts) \cup Permutations(Vaults)

Nothing == [by |-> NoOne]

NoShares == [e \in Epochs |-> [who \in Claimants |-> 0]]

NothingToBuild ==
    /\ numDeposits = 0 /\ numTransactions = 0 /\ groupIdx = 0 /\ txIdx = 0 /\ fieldIdx = 0
    /\ builtBlobs = <<>> /\ currentFields = <<>> /\ phase = "failed"

MCInit ==
    /\ part \in Parts
    /\ now = START
    /\ RegistryInit
    /\ RouterInit
    /\ earliest = [who \in Accounts |-> Nothing]
    /\ IF part = "router" THEN shares \in ShareTables ELSE shares = NoShares
    /\ claims = <<>>
    /\ lost = FALSE
    /\ ProviderInit
    /\ IF part = "builder" THEN BuilderInit ELSE NothingToBuild

-----------------------------------------------------------------------------
(* A deleted record forgets the challenges against it.                     *)
Forgotten == [who \in Accounts |->
                 IF sequencers'[who].timestampChallenged = 0 THEN Nothing ELSE earliest[who]]

MCRegistryNext ==
    \/ RegistryCall /\ earliest' = Forgotten /\ UNCHANGED now
    \/ \E who, sender \in Accounts, n \in SlashBlocks :
           /\ Slash(who, n, sender)
           /\ earliest' = IF earliest[who] = Nothing \/ n < earliest[who].block
                          THEN [earliest EXCEPT ![who] = [by |-> sender, block |-> n]]
                          ELSE earliest
           /\ UNCHANGED now
    \/ now < LastCall /\ Tick /\ UNCHANGED <<registryVars, earliest>>

-----------------------------------------------------------------------------
EpochNow == (now - START) \div EPOCH_LENGTH

Quietly(A) == A /\ UNCHANGED <<now, routerHistory>>

(* The router asks the bridge: is the sequencer challenged, which can be   *)
(* either at any time, and what is its share.                              *)
MCRouterNext ==
    \/ \E t \in Tokens, a \in Amounts :
           \/ /\ HasSource(t) /\ Invested(t) + a <= MaxValue
              /\ priorBalances[t] + a <= MaxValue
              /\ Quietly(TriggerDeposit(t, a))
           \/ Quietly(TriggerWithdraw(t, a))
           \/ Quietly(Donate(t, a))
           \/ Quietly(SetMaxInterest(t, a))
    \/ \E t \in Tokens, v \in Vaults : Quietly(ChangeYieldSource(t, v))
    \/ \E ts \in SUBSET Tokens : Quietly(ChangeTrackedYieldSources(ts))
    \/ Quietly(Poke)
    \/ \E t \in Tokens : Quietly(RecognizeYield(t))
    \/ \E t \in Tokens, s \in Claimants, e \in Epochs, challenged \in BOOLEAN :
           /\ SequencerWithdrawAsset(t, s, e, challenged, e + FINALITY < EpochNow, shares[e][s])
           /\ claims' = [c \in DOMAIN claims \cup {<<s, e, t>>} |->
                             IF c = <<s, e, t>> THEN Claim(t, e, shares[e][s]) ELSE claims[c]]
           /\ UNCHANGED <<now, shares, lost>>
    \/ \E t \in Tokens, v \in Vaults, worth \in 0 .. MaxValue :
           /\ worth < value[t][v] => Losses
           /\ VaultReturn(t, v, worth)
           /\ lost' = (lost \/ worth < value[t][v])
           /\ UNCHANGED <<now, shares, claims>>
    \/ Tick /\ UNCHANGED <<routerVars, routerHistory>>

-----------------------------------------------------------------------------
MCNext ==
    /\ UNCHANGED part
    /\ \/ /\ part = "registry" /\ MCRegistryNext
          /\ UNCHANGED <<routerVars, routerHistory, builderVars, providerVars>>
       \/ /\ part = "router" /\ MCRouterNext
          /\ UNCHANGED <<registryVars, earliest, builderVars, providerVars>>
       \/ /\ part = "builder" /\ BuilderNext
          /\ UNCHANGED <<now, registryVars, earliest, routerVars, routerHistory, providerVars>>
       \/ /\ part = "provider" /\ ProviderNext
          /\ UNCHANGED <<now, registryVars, earliest, routerVars, routerHistory, builderVars>>

MCSpec ==
    /\ MCInit
    /\ [][MCNext]_<<part, now, registryVars, earliest, routerVars, routerHistory, builderVars,
                    providerVars>>

-----------------------------------------------------------------------------
(* The reward is recorded for whoever first proved fraud at the lowest     *)
(* block.  docs/concepts/sequencing.md, Slashing Mechanics.                *)
EarliestFraudWins ==
    \A who \in Accounts : earliest[who].by = sequencers[who].challenger

(* The claims against a period never exceed the yield recognised for it,   *)
(* in whatever order epochs are claimed and the period is recorded.        *)
PayoutsWithinYield ==
    \A t \in Tokens, p \in Periods :
        periodPayouts[t][p] >=
            MapThenSumSet(LAMBDA c : claims[c],
                          {c \in DOMAIN claims : c[3] = t /\ Period(c[2]) = p})

(* Until a vault loses value, the principal on record exceeds what the     *)
(* source is worth by no more than what sequencers were paid: yield, caps, *)
(* donations and migrations leave every user covered.                      *)
ShortfallWasPaidOut ==
    \A t \in Tokens :
        ~lost /\ HasSource(t) =>
            priorBalances[t] - Invested(t) <=
                MapThenSumSet(LAMBDA c : claims[c], {c \in DOMAIN claims : c[3] = t})

(* A withdrawal never pays more than its nominal amount, also after a      *)
(* loss.                                                                   *)
(* docs/concepts/yield.md, Handling Vault Losses: with 90% of the value    *)
(* left users receive 90% of their withdrawal.                             *)
LossNeverPaysMore ==
    [][\A t \in Tokens, a \in Amounts :
           TriggerWithdraw(t, a) => Invested(t) - Invested(t)' <= a]_routerVars
=============================================================================
