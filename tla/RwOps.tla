------------------------------- MODULE RwOps -------------------------------
(***************************************************************************)
(* The operations that bus-mapping records and that the circuits look up   *)
(* in the rw table.  An operation is a tuple; its rw counter is its place  *)
(* in the sequence of operations, because push_op hands out the counters   *)
(* one by one.  A conversion to a field element is the identity here: all  *)
(* values are small naturals, with 0 for false and for a missing address.  *)
(***************************************************************************)
EXTENDS Naturals, Sequences

Bit(p) == IF p THEN 1 ELSE 0

CallContextOp(rw, id, field, v) == <<"CallContext", field, rw, id, 0, v, 0, 0>>
StackOp(rw, id, pointer, v)     == <<"Stack", "", rw, id, pointer, v, 0, 0>>
MemoryOp(rw, id, address, v)    == <<"Memory", "", rw, id, address, v, 0, 0>>
AccountOp(rw, a, field, v, p)   == <<"Account", field, rw, 0, a, v, p, 0>>
TxAccessListAccountOp(rw, tx, a, v, p) == <<"TxAccessListAccount", "", rw, tx, a, v, p, 0>>
TxAccessListAccountStorageOp(rw, tx, a, v, p) ==
    <<"TxAccessListAccountStorage", "", rw, tx, a, v, p, 0>>
StorageOp(rw, tx, a, v, p, committed) == <<"Storage", "", rw, tx, a, v, p, committed>>
TxRefundOp(rw, tx, v, p)        == <<"TxRefund", "", rw, tx, 0, v, p, 0>>
TxLogOp(tx, log_id, field, index, v) == <<"TxLog", field, "W", tx, log_id, v, 0, index>>
TxReceiptOp(rw, tx, field, v)   == <<"TxReceipt", field, rw, tx, 0, v, 0, 0>>

(* Accesses to several fields of one call context; a field is a pair <<tag, value>>. *)
CallContextOps(rw, id, fields) ==
    [i \in DOMAIN fields |-> CallContextOp(rw, id, fields[i][1], fields[i][2])]

LastCallee(id, offset, length) ==
    << <<"LastCalleeId", id>>, <<"LastCalleeReturnDataOffset", offset>>,
       <<"LastCalleeReturnDataLength", length>> >>

Tag(op)       == op[1]
Field(op)     == op[2]
Rw(op)        == op[3]
Id(op)        == op[4]
Address(op)   == op[5]
Value(op)     == op[6]
ValuePrev(op) == op[7]
Committed(op) == op[8]

(* The location an operation accesses.  A storage slot outlives the transaction whose id
   its rows carry. *)
Location(op) ==
    <<Tag(op), Field(op), IF Tag(op) = "Storage" THEN 0 ELSE Id(op), Address(op),
      IF Tag(op) = "TxLog" THEN op[8] ELSE 0>>

(* Op::reverse: the two values change places. *)
ReverseOp(op) == [op EXCEPT ![6] = op[7], ![7] = op[6]]

(* CodeDB::empty_code_hash; 0 is the code hash that encodes a missing account. *)
EMPTY_HASH == 1

(* The hash of the code that a memory cell holds. *)
CodeHashOf(byte) == 10 + byte

STACK_CAPACITY == 1024

(* contract_address of CREATE and of CREATE2 (one salt and one init code). *)
CreateAddress(a, nonce) == 100 * a + nonce
Create2Address(a)       == 100 * a + 99
=============================================================================
