---------------------------------- MODULE L1 ----------------------------------
(* The L1 the contracts run on.  A transaction is atomic, a reverted one   *)
(* leaves no trace, and any number of transactions share one timestamp.    *)
EXTENDS Naturals

CONSTANTS
    START,     \* timestamp of the deployment
    MaxTime    \* bound: last timestamp reached

ASSUME L1Assumption == START \in Nat /\ START > 0 /\ MaxTime \in Nat

VARIABLE now   \* block.timestamp

Tick == now < MaxTime /\ now' = now + 1
=============================================================================
