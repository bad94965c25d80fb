----------------------------- MODULE MCSequencer ------------------------------
(* Instances of the sequencer for TLC.                                     *)
EXTENDS Sequencer

CONSTANTS s1, s2, s3

(* s1 and s2 are the same transaction, sent twice.                         *)
TwiceNullifiersOf == s1 :> <<1, 2>> @@ s2 :> <<1, 2>> @@ s3 :> <<4, 5>>

ApartNullifiersOf == s1 :> <<1, 2>> @@ s2 :> <<3, 4>>

NoSpends == {{}}

SpendsTwice == {{1, 2}}

FirstBlock == [s \in Submitted |-> 0]

SameNote == Permutations({s1, s2})
=============================================================================
