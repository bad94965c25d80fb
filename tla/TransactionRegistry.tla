------------------------- MODULE TransactionRegistry -------------------------
(* Approvals that Ethereum-keyed accounts give to L2 transactions          *)
(* (TransactionRegistry.sol).                                              *)
EXTENDS Naturals

CONSTANT Signers     \* Ethereum keys

VARIABLE allowed     \* the approved <<key, fields>> pairs

(* allow, and approveByQuery with a signature of key over the fields: both *)
(* need key itself to agree and both set the same flag.                    *)
Allow(key, fields) == allowed' = allowed \cup {<<key, fields>>}

Query(key, fields) == <<key, fields>> \in allowed
=============================================================================
