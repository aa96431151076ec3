--------------------------- MODULE MCStateCircuit ---------------------------
(* Instance of StateCircuit for TLC.  The first table mixes the locations that
   start at 0, the second the ones the MPT has, an access list and the refund. *)
EXTENDS StateCircuit

TransientKeys ==
    {<<Start, 0, 0, 0, 0>>,
     <<Memory, 1, 0, 0, 0>>,
     <<Stack, 1, 0, 0, 0>>, <<Stack, 1, 1, 0, 0>>, <<Stack, 1, 2, 0, 0>>, <<Stack, 2, 1, 0, 0>>,
     <<CallContext, 1, 0, 3, 0>>,
     <<TxLog, 1, 1, 0, 0>>,
     <<TxAccessListAccount, 1, 1, 0, 0>>,
     <<TxAccessListAccountStorage, 1, 1, 0, 1>>,
     <<TxRefund, 1, 0, 0, 0>>,
     <<TxReceipt, 1, 0, 1, 0>>}

CommittedKeys ==
    {<<Storage, 1, 1, 0, 0>>, <<Storage, 2, 1, 0, 0>>,
     <<Account, 0, 1, CodeHash, 0>>}

TransientTags == {k[1] : k \in TransientKeys}

MCRow(k, c, w, v, p, i, s) ==
    [tag |-> k[1], id |-> k[2], address |-> k[3], field_tag |-> k[4], storage_key |-> k[5],
     rw_counter |-> c, is_write |-> w, value |-> v, value_prev |-> p, initial_value |-> i,
     state_root |-> s]

TransientRows ==
    {MCRow(k, c, w, v, p, 0, 0) : k \in TransientKeys, c \in 1..3, w \in BOOLEAN,
                                  v \in 0..1, p \in 0..1}

CommittedRows ==
    {MCRow(k, c, w, v, p, i, s) : k \in CommittedKeys, c \in 1..3, w \in BOOLEAN,
                                  v \in 0..1, p \in 0..1, i \in 0..1, s \in 0..1}

MCRows == TransientRows \cup CommittedRows

(* A table is followed as long as its rows are of one of the two kinds. *)
OneKind ==
    \A i, j \in 2..Len(rows) : rows[i].tag \in TransientTags <=> rows[j].tag \in TransientTags

MCMptTable ==
    [address : {1}, storage_key : {0}, proof_type : 1..7, new_root : 0..1,
     old_root : {0}, new_value : 0..1, old_value : 0..1]
=============================================================================
