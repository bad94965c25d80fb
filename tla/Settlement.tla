----------------------------- MODULE Settlement ------------------------------
(* What the bridge promises on the L1.  There is a ledger of settled       *)
(* blocks.  It grows, and shrinks only when fraud in a settled block is    *)
(* proved.  A settled block fixes which of its outputs leave the L2 and    *)
(* for what amount.  Each of them is paid at most once, while its block is *)
(* settled, out of what was deposited and earned, and for exactly its      *)
(* amount unless its asset has lost value.                                 *)
EXTENDS SequencesExt, Integers

CONSTANTS
    Assets,
    Amounts        \* what one deposit can bring in

VARIABLES
    ledger,        \* for each settled block, its payable outputs: what each is worth
    paid,          \* the <<block number, output>> paid so far
    funds,         \* what is held of each asset, on record
    short,         \* the assets of which there is less than that
    late           \* how often fraud in a settled block was proved

vars == <<ledger, paid, funds, short, late>>

Init ==
    /\ ledger = <<>>
    /\ paid = {}
    /\ funds = [a \in Assets |-> 0]
    /\ short = {}
    /\ late = 0

Settle ==
    /\ IsStrictPrefix(ledger, ledger')
    /\ UNCHANGED <<paid, funds, short, late>>

(* The settled block goes, with those behind it.  What was paid of them    *)
(* stays paid, also when other blocks take their numbers.                  *)
Revoke ==
    /\ IsStrictPrefix(ledger', ledger)
    /\ late' = late + 1
    /\ UNCHANGED <<paid, funds, short>>

Deposit ==
    /\ \E a \in Assets, amount \in Amounts : funds' = [funds EXCEPT ![a] = @ + amount]
    /\ UNCHANGED <<ledger, paid, short, late>>

(* Yield is added to the funds, but for an asset that has lost value.      *)
Earn ==
    /\ DOMAIN funds' = Assets
    /\ \A a \in Assets : IF a \in short THEN funds'[a] = funds[a] ELSE funds'[a] >= funds[a]
    /\ UNCHANGED <<ledger, paid, short, late>>

Pay ==
    \E n \in DOMAIN ledger : \E output \in DOMAIN ledger[n] :
        LET worth == ledger[n][output]
        IN  /\ <<n - 1, output>> \notin paid
            /\ paid' = paid \cup {<<n - 1, output>>}
            /\ \E taken \in worth.amount .. funds[worth.asset] :
                   /\ worth.asset \notin short => taken = worth.amount
                   /\ funds' = [funds EXCEPT ![worth.asset] = @ - taken]
            /\ UNCHANGED <<ledger, short, late>>

(* What the assets are worth moves by itself.                              *)
Move == UNCHANGED <<ledger, paid, funds, late>>

Next == Settle \/ Revoke \/ Deposit \/ Earn \/ Pay \/ Move

Spec == Init /\ [][Next]_vars
=============================================================================
