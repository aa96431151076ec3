------------------------------ MODULE StateDB ------------------------------
(***************************************************************************)
(* bus-mapping's StateDB: the accounts, the committed storage, and what    *)
(* lives for one transaction only (dirty storage, access lists, refund).   *)
(* A map holds the keys that were written; a missing key reads as zero.    *)
(* Every account has one storage slot.                                     *)
(***************************************************************************)
EXTENDS RwOps, TLC

ACCOUNT_ZERO == [nonce |-> 0, balance |-> 0, code_hash |-> EMPTY_HASH]

NewStateDB(accounts, storage) ==
    [accounts |-> accounts, storage |-> storage, dirty_storage |-> <<>>,
     access_list_account |-> {}, access_list_account_storage |-> {},
     destructed_account |-> {}, refund |-> 0]

is_empty(account) == account = ACCOUNT_ZERO

get_account(sdb, a) == IF a \in DOMAIN sdb.accounts THEN sdb.accounts[a] ELSE ACCOUNT_ZERO

set_account(sdb, a, account) == [sdb EXCEPT !.accounts = (a :> account) @@ @]

get_committed_storage(sdb, a) == IF a \in DOMAIN sdb.storage THEN sdb.storage[a] ELSE 0

get_storage(sdb, a) ==
    IF a \in DOMAIN sdb.dirty_storage THEN sdb.dirty_storage[a]
    ELSE get_committed_storage(sdb, a)

set_storage(sdb, a, v) == [sdb EXCEPT !.dirty_storage = (a :> v) @@ @]

destruct_account(sdb, a) == [sdb EXCEPT !.destructed_account = @ \cup {a}]

\* Mutant: the refund counter survives the transaction.
commit_tx_KeepsRefund(sdb) ==
    LET committed == sdb.dirty_storage @@ sdb.storage
    IN  [sdb EXCEPT
            !.access_list_account = {},
            !.access_list_account_storage = {},
            !.dirty_storage = <<>>,
            !.storage = [a \in DOMAIN committed \ sdb.destructed_account |-> committed[a]],
            !.accounts = [a \in sdb.destructed_account |-> ACCOUNT_ZERO] @@ @]

(* The end of a transaction.  destructed_account is read and not emptied. *)
commit_tx(sdb) ==
    LET D == sdb.destructed_account
        committed == sdb.dirty_storage @@ sdb.storage
    IN  [sdb EXCEPT
            !.access_list_account = {},
            !.access_list_account_storage = {},
            !.dirty_storage = <<>>,
            !.storage = [a \in DOMAIN committed \ D |-> committed[a]],
            !.accounts = [a \in D |-> ACCOUNT_ZERO] @@ @,
            !.refund = 0]
=============================================================================
