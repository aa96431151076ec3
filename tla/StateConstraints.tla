-------------------------- MODULE StateConstraints --------------------------
(***************************************************************************)
(* The rows of the rw table and what the gates and lookups of the state    *)
(* circuit require of a row and the row before it.                         *)
(*                                                                         *)
(* A 256-bit word is one number: the (lo, hi) pairs of the code are always *)
(* compared together.  The order of the rows is the lexicographic order of *)
(* the sort keys; that the limbs of the circuit establish this order is    *)
(* the subject of LexicographicOrdering.tla.  Roots are opaque: the MPT    *)
(* table is a relation between two of them.                                *)
(***************************************************************************)
EXTENDS Integers

CONSTANTS
    MemoryBound,    \* memory addresses are below it (2^32 in the code)
    ByteBound,      \* bytes are below it (2^8)
    StackBound      \* stack pointers are below it (2^10)

ASSUME RangeAssumption ==
    MemoryBound \in Nat /\ ByteBound \in Nat /\ StackBound \in Nat

(* Target *)
Start == 1
Memory == 2
Stack == 3
Storage == 4
TxAccessListAccount == 5
TxAccessListAccountStorage == 6
TxRefund == 7
Account == 8
CallContext == 9
TxReceipt == 10
TxLog == 11

(* AccountFieldTag and MPTProofType: the first four share their numbers. *)
Nonce == 1
Balance == 2
CodeHash == 3
AccountDoesNotExist == 5
StorageChanged == 6
StorageDoesNotExist == 7

AccountFieldTags == 1..4
CallContextFieldTags == 0..25   \* the unassigned cells of the fixed column are 0

Row == [tag : Start..TxLog, id : Nat, address : Nat, field_tag : Nat, storage_key : Nat,
        rw_counter : Nat, is_write : BOOLEAN, value : Nat, value_prev : Nat,
        initial_value : Nat, state_root : Nat]

SortKeys(r) ==
    <<r.tag, r.id, r.address, r.field_tag, r.storage_key, r.rw_counter>>

(* Mutant: the rw counter is left out of the sort keys. *)
Ordered_WithoutRwCounter(p, r) ==
    \/ \A i \in 1..5 : SortKeys(p)[i] = SortKeys(r)[i]
    \/ \E i \in 1..5 :
           /\ SortKeys(p)[i] < SortKeys(r)[i]
           /\ \A j \in 1..(i - 1) : SortKeys(p)[j] = SortKeys(r)[j]

(* LexicographicOrdering: the row is greater than the one before it. *)
Ordered(p, r) ==
    \E i \in 1..6 :
        /\ SortKeys(p)[i] < SortKeys(r)[i]
        /\ \A j \in 1..(i - 1) : SortKeys(p)[j] = SortKeys(r)[j]

(* not_first_access: the first different limb is one of the rw counter. *)
NotFirstAccess(p, r) ==
    \A i \in 1..5 : SortKeys(p)[i] = SortKeys(r)[i]

----------------------------------------------------------------------------
(* Mutant: the gate of a first access that reads is missing. *)
GeneralConstraints_AnyFirstRead(p, r) ==
    IF NotFirstAccess(p, r)
    THEN /\ ~r.is_write => r.value = p.value
         /\ r.initial_value = p.initial_value
    ELSE r.value_prev = r.initial_value

(* build_general_constraints *)
GeneralConstraints(p, r) ==
    IF NotFirstAccess(p, r)
    THEN /\ ~r.is_write => r.value = p.value
         /\ r.initial_value = p.initial_value
    ELSE /\ ~r.is_write => r.value = r.initial_value
         /\ r.value_prev = r.initial_value

SameRoot(p, r) == r.state_root = p.state_root

(* Mutant: value_prev is compared with the previous value's previous value. *)
ValuePrev_Stale(p, r) == NotFirstAccess(p, r) => r.value_prev = p.value_prev

(* value_prev of a location that can be reverted is the value it had. *)
ValuePrev(p, r) == NotFirstAccess(p, r) => r.value_prev = p.value

(* build_start_constraints, for a row that is not the first of the table *)
StartConstraints(p, r) ==
    /\ r.field_tag = 0 /\ r.address = 0 /\ r.id = 0 /\ r.storage_key = 0
    /\ r.rw_counter = p.rw_counter + 1
    /\ r.value = 0 /\ r.initial_value = 0 /\ r.value_prev = 0
    /\ SameRoot(p, r)

(* build_memory_constraints *)
MemoryConstraints(p, r) ==
    /\ r.field_tag = 0 /\ r.storage_key = 0
    /\ ~NotFirstAccess(p, r) /\ ~r.is_write => r.value = 0
    /\ r.address < MemoryBound
    /\ r.value < ByteBound
    /\ r.initial_value = 0
    /\ SameRoot(p, r)
    /\ r.value_prev = r.initial_value

(* Mutant: a first access may be a read. *)
StackConstraints_ReadFirst(p, r) ==
    /\ r.field_tag = 0 /\ r.storage_key = 0
    /\ r.address < StackBound
    /\ r.tag = p.tag /\ r.id = p.id => r.address - p.address \in {0, 1}
    /\ r.initial_value = 0
    /\ SameRoot(p, r)
    /\ r.value_prev = r.initial_value

(* Mutant: the stack pointer may skip a slot. *)
StackConstraints_AnyStep(p, r) ==
    /\ r.field_tag = 0 /\ r.storage_key = 0
    /\ ~NotFirstAccess(p, r) => r.is_write
    /\ r.address < StackBound
    /\ r.initial_value = 0
    /\ SameRoot(p, r)
    /\ r.value_prev = r.initial_value

(* build_stack_constraints *)
StackConstraints(p, r) ==
    /\ r.field_tag = 0 /\ r.storage_key = 0
    /\ ~NotFirstAccess(p, r) => r.is_write
    /\ r.address < StackBound
    /\ r.tag = p.tag /\ r.id = p.id => r.address - p.address \in {0, 1}
    /\ r.initial_value = 0
    /\ SameRoot(p, r)
    /\ r.value_prev = r.initial_value

(* build_account_storage_constraints *)
StorageConstraints(p, r) ==
    /\ r.field_tag = 0
    /\ ValuePrev(p, r)

(* build_tx_access_list_account_constraints *)
AccessListAccountConstraints(p, r) ==
    /\ r.field_tag = 0 /\ r.storage_key = 0
    /\ r.value \in {0, 1}
    /\ r.initial_value = 0
    /\ SameRoot(p, r)
    /\ ValuePrev(p, r)

(* build_tx_access_list_account_storage_constraints *)
AccessListStorageConstraints(p, r) ==
    /\ r.field_tag = 0
    /\ r.value \in {0, 1}
    /\ r.initial_value = 0
    /\ SameRoot(p, r)
    /\ ValuePrev(p, r)

(* build_tx_refund_constraints *)
RefundConstraints(p, r) ==
    /\ r.address = 0 /\ r.field_tag = 0 /\ r.storage_key = 0
    /\ SameRoot(p, r)
    /\ ValuePrev(p, r)
    /\ r.initial_value = 0

(* build_account_constraints *)
AccountConstraints(p, r) ==
    /\ r.id = 0 /\ r.storage_key = 0
    /\ r.field_tag \in AccountFieldTags
    /\ ValuePrev(p, r)

(* build_call_context_constraints *)
CallContextConstraints(p, r) ==
    /\ r.address = 0 /\ r.storage_key = 0
    /\ r.field_tag \in CallContextFieldTags
    /\ r.initial_value = 0
    /\ SameRoot(p, r)
    /\ r.value_prev = 0

(* build_tx_log_constraints *)
TxLogConstraints(p, r) ==
    /\ r.is_write
    /\ r.initial_value = 0
    /\ SameRoot(p, r)
    /\ r.value_prev = r.initial_value

(* mpt_proof_type, with is_non_exist: both values are zero *)
MptProofType(r) ==
    LET is_non_exist == r.initial_value = 0 /\ r.value = 0 IN
    IF r.tag = Storage
    THEN IF is_non_exist THEN StorageDoesNotExist ELSE StorageChanged
    ELSE IF is_non_exist /\ r.field_tag = CodeHash THEN AccountDoesNotExist
         ELSE r.field_tag

(* The MPT lookup of the last access to a storage slot or account field: p *)
(* is the row before it, whose root it starts from.                        *)
MptLookup(table, p, r) ==
    r.tag \in {Storage, Account} =>
        [address |-> r.address, storage_key |-> r.storage_key,
         proof_type |-> MptProofType(r), new_root |-> r.state_root,
         old_root |-> p.state_root, new_value |-> r.value,
         old_value |-> r.initial_value] \in table

(* ConstraintBuilder::build.  There is no gate for TxReceipt. *)
RowConstraints(p, r) ==
    /\ Ordered(p, r)
    /\ GeneralConstraints(p, r)
    /\ r.tag = Start => StartConstraints(p, r)
    /\ r.tag = Memory => MemoryConstraints(p, r)
    /\ r.tag = Stack => StackConstraints(p, r)
    /\ r.tag = Storage => StorageConstraints(p, r)
    /\ r.tag = TxAccessListAccount => AccessListAccountConstraints(p, r)
    /\ r.tag = TxAccessListAccountStorage => AccessListStorageConstraints(p, r)
    /\ r.tag = TxRefund => RefundConstraints(p, r)
    /\ r.tag = Account => AccountConstraints(p, r)
    /\ r.tag = CallContext => CallContextConstraints(p, r)
    /\ r.tag = TxLog => TxLogConstraints(p, r)

(* The padding row every table starts with (table_assignments_prepad). *)
FirstRow(root) ==
    [tag |-> Start, id |-> 0, address |-> 0, field_tag |-> 0, storage_key |-> 0,
     rw_counter |-> 1, is_write |-> FALSE, value |-> 0, value_prev |-> 0,
     initial_value |-> 0, state_root |-> root]
=============================================================================
