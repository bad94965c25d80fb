----------------------------- MODULE YieldRouter -----------------------------
(* Where deposits are invested and yield is paid from (YieldRouter.sol).   *)
(*                                                                         *)
(* An ERC4626 vault is external: value is what the router's shares of it   *)
(* redeem for.  A deposit adds its amount, a withdrawal takes it off and   *)
(* fails beyond the value, and the market moves it (VaultReturn).  The     *)
(* rounding of shares inside a vault is left out; the contract's own       *)
(* divisions truncate as in the code.                                      *)
EXTENDS L1, FiniteSetsExt

CONSTANTS
    ROUTER_START,       \* timestamp of the router's deployment
    PERIOD_LENGTH,      \* seconds of a yield period
    EPOCHS_PER_PERIOD,  \* epochs a period's yield is split over
    FIXED_BASE,         \* one, in fixed point
    Tokens,             \* assets
    Vaults,             \* yield sources
    NoVault,            \* address(0) as a yield source
    Periods,            \* bound: periods reached
    MaxValue,           \* bound: value a vault reaches
    MaxIdle             \* bound: tokens sent straight to the router

ASSUME RouterAssumption ==
    /\ ROUTER_START \in Nat
    /\ PERIOD_LENGTH \in Nat \ {0}
    /\ EPOCHS_PER_PERIOD \in Nat \ {0}
    /\ FIXED_BASE \in Nat \ {0}
    /\ NoVault \notin Vaults
    /\ Periods \subseteq Nat
    /\ MaxValue \in Nat
    /\ MaxIdle \in Nat

VARIABLES
    sources,         \* the vault each token is invested in
    value,           \* what the router's shares of each vault are worth, per token
    idle,            \* tokens the router holds itself
    tracked,         \* tokens poke records
    priorBalances,   \* principal on record, with the yield recognised so far
    periodPayouts,   \* yield recognised per token and period
    reportedPeriod,  \* periods poke has run in
    paidOut,         \* the claims already paid: <<sequencer, epoch, token>>
    maxInterest      \* cap on the yield of one period, 0 for none

routerVars == <<sources, value, idle, tracked, priorBalances, periodPayouts,
                reportedPeriod, paidOut, maxInterest>>

routerConfig == <<idle, tracked, maxInterest>>

RouterInit ==
    /\ sources = [t \in Tokens |-> NoVault]
    /\ value = [t \in Tokens |-> [v \in Vaults |-> 0]]
    /\ idle = [t \in Tokens |-> 0]
    /\ tracked = Tokens
    /\ priorBalances = [t \in Tokens |-> 0]
    /\ periodPayouts = [t \in Tokens |-> [p \in Periods |-> 0]]
    /\ reportedPeriod = {}
    /\ paidOut = {}
    /\ maxInterest = [t \in Tokens |-> 0]

Invested(token) == value[token][sources[token]]

HasSource(token) == sources[token] # NoVault

CurrentPeriod == (now - ROUTER_START) \div PERIOD_LENGTH

-----------------------------------------------------------------------------
(* The bridge's calls.                                                     *)

(* The tokens reach the router in the same transaction.                    *)
TriggerDeposit(token, amount) ==
    /\ HasSource(token)
    /\ priorBalances' = [priorBalances EXCEPT ![token] = @ + amount]
    /\ value' = [value EXCEPT ![token][sources[token]] = @ + amount]
    /\ UNCHANGED <<routerConfig, sources, periodPayouts, reportedPeriod, paidOut>>

(* What a withdrawal of amount pays.  With the vault empty and principal   *)
(* on record the division fails: see the guard of TriggerWithdraw.         *)
UserAmount(token, amount) ==
    IF priorBalances[token] > Invested(token)
    THEN (((priorBalances[token] * FIXED_BASE) \div Invested(token)) * amount) \div FIXED_BASE
    ELSE amount

(* Mutant: the vault's withdrawal is not taken off the principal.          *)
TriggerWithdrawUnrecorded(token, amount) ==
    /\ HasSource(token)
    /\ Invested(token) >= amount
    /\ value' = [value EXCEPT ![token][sources[token]] = @ - amount]
    /\ UNCHANGED <<routerConfig, sources, priorBalances, periodPayouts, reportedPeriod, paidOut>>

TriggerWithdraw(token, amount) ==
    LET paid == UserAmount(token, amount)
    IN  /\ HasSource(token)
        /\ priorBalances[token] > Invested(token) => Invested(token) > 0
        /\ paid <= Invested(token)
        /\ paid <= priorBalances[token]
        /\ value' = [value EXCEPT ![token][sources[token]] = @ - paid]
        /\ priorBalances' = [priorBalances EXCEPT ![token] = @ - paid]
        /\ UNCHANGED <<routerConfig, sources, periodPayouts, reportedPeriod, paidOut>>

-----------------------------------------------------------------------------
(* Recognising yield.                                                      *)

Yield(token) ==
    LET gain == IF Invested(token) >= priorBalances[token]
                THEN Invested(token) - priorBalances[token] ELSE 0
    IN  IF maxInterest[token] # 0 /\ gain > maxInterest[token] THEN maxInterest[token] ELSE gain

(* Mutant: a period may be recorded again.                                 *)
RecordAgain(tokens) ==
    /\ \A t \in tokens : HasSource(t)
    /\ periodPayouts' = [t \in Tokens |->
           IF t \in tokens THEN [periodPayouts[t] EXCEPT ![CurrentPeriod] = Yield(t)]
           ELSE periodPayouts[t]]
    /\ priorBalances' = [t \in Tokens |->
           IF t \in tokens THEN priorBalances[t] + Yield(t) ELSE priorBalances[t]]

(* _record on each of tokens: nothing happens to one that has a payout on  *)
(* record for the period.                                                  *)
Record(tokens) ==
    LET fresh == {t \in tokens : periodPayouts[t][CurrentPeriod] = 0}
    IN  /\ \A t \in fresh : HasSource(t)
        /\ periodPayouts' = [t \in Tokens |->
               IF t \in fresh THEN [periodPayouts[t] EXCEPT ![CurrentPeriod] = Yield(t)]
               ELSE periodPayouts[t]]
        /\ priorBalances' = [t \in Tokens |->
               IF t \in fresh THEN priorBalances[t] + Yield(t) ELSE priorBalances[t]]

Poke ==
    /\ CurrentPeriod \in Periods
    /\ CurrentPeriod \notin reportedPeriod
    /\ Record(tracked)
    /\ reportedPeriod' = reportedPeriod \cup {CurrentPeriod}
    /\ UNCHANGED <<routerConfig, sources, value, paidOut>>

RecognizeYield(token) ==
    /\ CurrentPeriod \in Periods
    /\ Record({token})
    /\ UNCHANGED <<routerConfig, sources, value, reportedPeriod, paidOut>>

-----------------------------------------------------------------------------
(* Paying sequencers.                                                      *)

Period(epoch) == epoch \div EPOCHS_PER_PERIOD

(* Mutant: every epoch is paid the yield of the whole period.              *)
ClaimWholePeriod(token, epoch, percent) ==
    (periodPayouts[token][Period(epoch)] * percent) \div FIXED_BASE

Claim(token, epoch, percent) ==
    ((periodPayouts[token][Period(epoch)] \div EPOCHS_PER_PERIOD) * percent) \div FIXED_BASE

(* The bridge answers the last three: is the sequencer challenged, is the  *)
(* epoch finalized, what is the sequencer's share of it.                   *)
SequencerWithdrawAsset(token, sequencer, epoch, challenged, finalized, percent) ==
    /\ Period(epoch) \in Periods
    /\ <<sequencer, epoch, token>> \notin paidOut
    /\ ~challenged
    /\ finalized
    /\ HasSource(token)
    /\ Claim(token, epoch, percent) <= Invested(token)
    /\ paidOut' = paidOut \cup {<<sequencer, epoch, token>>}
    /\ value' = [value EXCEPT ![token][sources[token]] = @ - Claim(token, epoch, percent)]
    /\ UNCHANGED <<routerConfig, sources, priorBalances, periodPayouts, reportedPeriod>>

-----------------------------------------------------------------------------
(* The owner's calls and the market.                                       *)

(* The whole position moves; the first source also takes up what the       *)
(* router already holds.                                                   *)
ChangeYieldSource(token, newSource) ==
    LET moved == IF HasSource(token) THEN Invested(token) ELSE idle[token]
        emptied == [v \in Vaults |-> IF v = sources[token] THEN 0 ELSE value[token][v]]
    IN  /\ value' = [value EXCEPT ![token] = [emptied EXCEPT ![newSource] = @ + moved]]
        /\ idle' = IF HasSource(token) THEN idle ELSE [idle EXCEPT ![token] = 0]
        /\ sources' = [sources EXCEPT ![token] = newSource]
        /\ UNCHANGED <<tracked, maxInterest, priorBalances, periodPayouts, reportedPeriod, paidOut>>

ChangeTrackedYieldSources(tokens) ==
    /\ tracked' = tokens
    /\ UNCHANGED <<sources, value, idle, priorBalances, periodPayouts, reportedPeriod,
                   paidOut, maxInterest>>

SetMaxInterest(token, max) ==
    /\ maxInterest' = [maxInterest EXCEPT ![token] = max]
    /\ UNCHANGED <<sources, value, idle, tracked, priorBalances, periodPayouts,
                   reportedPeriod, paidOut>>

(* The investments of a vault change in value.                             *)
VaultReturn(token, vault, worth) ==
    /\ value[token][vault] # 0
    /\ worth <= MaxValue
    /\ value' = [value EXCEPT ![token][vault] = worth]
    /\ UNCHANGED <<routerConfig, sources, priorBalances, periodPayouts, reportedPeriod, paidOut>>

(* Somebody sends tokens straight to the router.                           *)
Donate(token, amount) ==
    /\ idle[token] + amount <= MaxIdle
    /\ idle' = [idle EXCEPT ![token] = @ + amount]
    /\ UNCHANGED <<sources, value, tracked, priorBalances, periodPayouts, reportedPeriod,
                   paidOut, maxInterest>>

-----------------------------------------------------------------------------
RouterTypeOK ==
    /\ sources \in [Tokens -> Vaults \cup {NoVault}]
    /\ value \in [Tokens -> [Vaults -> Nat]]
    /\ idle \in [Tokens -> Nat]
    /\ tracked \subseteq Tokens
    /\ priorBalances \in [Tokens -> Nat]
    /\ periodPayouts \in [Tokens -> [Periods -> Nat]]
    /\ reportedPeriod \subseteq Periods
    /\ maxInterest \in [Tokens -> Nat]

(* What a period paid is settled once: a payout on record never changes,   *)
(* and the principal grows by exactly the yield that is put on record, so  *)
(* no yield is recognised twice across poke, recognizeYield and            *)
(* migrations.                                                             *)
RecordedOnce ==
    [][\A t \in Tokens, p \in Periods :
           /\ periodPayouts[t][p] # 0 => periodPayouts'[t][p] = periodPayouts[t][p]
           /\ periodPayouts'[t][p] # periodPayouts[t][p] =>
                  priorBalances'[t] - priorBalances[t] = periodPayouts'[t][p]
      ]_routerVars
=============================================================================
