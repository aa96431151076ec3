------------------------ MODULE MCTransactionContext ------------------------
(* Instance of TransactionContext for TLC. *)
EXTENDS TransactionContextProofs

MCKeys == {"nonce", "slot"}
MCVals == 0..1
=============================================================================
