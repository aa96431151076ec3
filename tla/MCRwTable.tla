----------------------------- MODULE MCRwTable -----------------------------
(* Instance of RwTable for TLC: blocks of the targets the MPT has, and blocks of the
   others. *)
EXTENDS RwTable

MCWorkloads ==
    {[targets |-> {Storage, Account}, max_ops |-> 4, slack |-> 1],
     [targets |-> {Memory, Stack, TxAccessListAccount, TxAccessListAccountStorage, TxRefund,
                   CallContext, TxReceipt, TxLog}, max_ops |-> 3, slack |-> 2]}
=============================================================================
