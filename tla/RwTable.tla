------------------------------ MODULE RwTable ------------------------------
(***************************************************************************)
(* From the operations of a block to the rows of the state circuit: the    *)
(* padding of set_end_block, the conversion and the sorting of RwMap, the  *)
(* MPT updates of witness/mpt.rs and the assignment of StateCircuit.       *)
(*                                                                         *)
(* The operations come from an EVM that reads what it last wrote; which    *)
(* operations an opcode makes is not the subject here.  An operation is a  *)
(* row of the table without the columns only the state circuit has.        *)
(***************************************************************************)
EXTENDS StateConstraints, Sequences, FiniteSets, SequencesExt

CONSTANTS
    Values,     \* what is written
    MaxTxs,     \* bound on its transactions
    Workloads   \* what blocks have: the targets that occur together, the bound on their
                \* operations, and on the rows max_rws leaves beside them

ASSUME BlockAssumption ==
    /\ Values \subseteq Nat /\ 0 \in Values
    /\ MaxTxs \in Nat
    /\ \A l \in Workloads : l.targets \subseteq 2..11 /\ l.max_ops \in Nat /\ l.slack \in Nat

VARIABLES
    load,       \* the workload of the block
    committed,  \* the values the MPT has before the block
    ops,        \* the container, in rw counter order
    tx,         \* the transaction that runs
    max_rws,    \* circuits_params.max_rws
    padding,    \* the rw counters of the two StartOps of EndBlock
    table,      \* the rows assigned
    phase       \* trace, end, assigned or panic

vars == <<load, committed, ops, tx, max_rws, padding, table, phase>>

Key(tag, id, address, field_tag, storage_key) ==
    [tag |-> tag, id |-> id, address |-> address, field_tag |-> field_tag,
     storage_key |-> storage_key]

(* Rw::id, address, field_tag and storage_key of each kind of operation.    *)
(* One account, one slot and one call for each transaction.                 *)
StorageKey == Key(Storage, tx, 1, 0, 1)
AccountKeys == {Key(Account, 0, 1, f, 0) : f \in {Balance, CodeHash}}
AccessListKeys == {Key(TxAccessListAccount, tx, 1, 0, 0),
                   Key(TxAccessListAccountStorage, tx, 1, 0, 1)}
RefundKey == Key(TxRefund, tx, 0, 0, 0)
MemoryKey == Key(Memory, tx, 1, 0, 0)
CallContextKey == Key(CallContext, tx, 0, 3, 0)
ReceiptKey(t) == Key(TxReceipt, t, 0, 3, 0)
StackKey(address) == Key(Stack, tx, address, 0, 0)
LogKey(index) == Key(TxLog, tx, index, 0, 0)

ReversibleKeys == {StorageKey, RefundKey} \cup AccountKeys \cup AccessListKeys

KeyOf(r) == Key(r.tag, r.id, r.address, r.field_tag, r.storage_key)

(* What the EVM holds at a location: storage outlives its transaction. *)
Current(k) ==
    LET here == {i \in DOMAIN ops :
                    IF k.tag = Storage THEN ops[i].tag = Storage ELSE KeyOf(ops[i]) = k}
    IN  IF here # {} THEN ops[Max(here)].value
        ELSE IF k.tag = Storage THEN committed["slot"]
        ELSE IF k.tag = Account THEN committed[IF k.field_tag = Balance THEN "balance" ELSE "code"]
        ELSE 0

StackSize ==
    Cardinality({i \in DOMAIN ops : ops[i].tag = Stack /\ ops[i].id = tx /\ ops[i].is_write})
    - Cardinality({i \in DOMAIN ops : ops[i].tag = Stack /\ ops[i].id = tx /\ ~ops[i].is_write})

----------------------------------------------------------------------------
Init ==
    /\ load \in Workloads
    /\ committed \in [{"slot", "balance", "code"} -> Values]
    /\ {Storage, Account} \cap load.targets = {} => committed["code"] = 0 /\ committed["slot"] = 0
    /\ committed["balance"] = 0
    /\ ops = <<>> /\ tx = 1 /\ max_rws = 0 /\ padding = {} /\ table = <<>>
    /\ phase = "trace"

(* value_prev_assignment is 0 for what cannot be reverted. *)
Push(k, w, v) ==
    /\ phase = "trace" /\ Len(ops) < load.max_ops /\ k.tag \in load.targets
    /\ ops' = Append(ops, k @@
           [rw_counter |-> Len(ops) + 1, is_write |-> w, value |-> v,
            value_prev |-> IF k.tag \in Storage..Account THEN Current(k) ELSE 0])
    /\ UNCHANGED <<load, committed, tx, max_rws, padding, table, phase>>

ReadKey(k) == Push(k, FALSE, Current(k))

WriteReversible(k, v) ==
    /\ k \in AccessListKeys => v \in {0, 1}
    /\ Push(k, TRUE, v)

StackPush(v) == StackSize < StackBound /\ Push(StackKey(StackBound - StackSize - 1), TRUE, v)

StackPop == StackSize > 0 /\ ReadKey(StackKey(StackBound - StackSize))

LogWrite(v) ==
    Push(LogKey(Cardinality({i \in DOMAIN ops : ops[i].tag = TxLog})), TRUE, v)

ReceiptWrite(v) ==
    /\ \A i \in DOMAIN ops : KeyOf(ops[i]) # ReceiptKey(tx)
    /\ Push(ReceiptKey(tx), TRUE, v)

(* EndTx reads the cumulative gas of the transaction before. *)
ReceiptRead == /\ \E i \in DOMAIN ops : KeyOf(ops[i]) = ReceiptKey(tx - 1)
               /\ ReadKey(ReceiptKey(tx - 1))

NextTx ==
    /\ phase = "trace" /\ tx < MaxTxs
    /\ tx' = tx + 1
    /\ UNCHANGED <<load, committed, ops, max_rws, padding, table, phase>>

(* set_end_block: the StartOps at rw counters 1 and max_rws - total_rws. *)
SetEndBlock(n) ==
    /\ phase = "trace"
    /\ max_rws' = n
    /\ IF Len(ops) + 1 <= n
       THEN padding' = {1, n - Len(ops)} /\ phase' = "end"
       ELSE UNCHANGED padding /\ phase' = "panic"
    /\ UNCHANGED <<load, committed, ops, tx, table>>

----------------------------------------------------------------------------
(* The assignment *)

StartRow(c) == Key(Start, 0, 0, 0, 0) @@
    [rw_counter |-> c, is_write |-> FALSE, value |-> 0, value_prev |-> 0]

(* Mutant: the rows stay in rw counter order. *)
TableAssignments_Unsorted ==
    LET starts == {StartRow(c) : c \in padding} IN SetToSeq(starts) \o ops

(* RwMap::table_assignments *)
TableAssignments ==
    LET starts == {StartRow(c) : c \in padding} IN SortSeq(ops \o SetToSeq(starts), Ordered)

(* Mutant: off by one. *)
PaddingLen_OneLess(len, target) == IF target > len + 1 THEN target - len - 1 ELSE 1

(* RwMap::padding_len, without its panic *)
PaddingLen(len, target) == IF target > len THEN target - len ELSE 1

(* RwMap::table_assignments_prepad: the Start rows are made anew. *)
Prepad(rws) ==
    LET rest == SelectSeq(rws, LAMBDA r : r.tag # Start) IN
    [c \in 1..PaddingLen(Len(rest), max_rws) |-> StartRow(c)] \o rest

HasKey(r) == r.tag \in {Storage, Account}

FirstAccessAt(rws, i) == i = 1 \/ ~NotFirstAccess(rws[i - 1], rws[i])
LastAccessAt(rws, i) == i = Len(rws) \/ ~NotFirstAccess(rws[i], rws[i + 1])

(* Mutant: the new value is the one of the first access. *)
MptUpdates_FirstValue(rws) ==
    LET firsts == {i \in DOMAIN rws : HasKey(rws[i]) /\ FirstAccessAt(rws, i)} IN
    [i \in firsts |->
        LET nth == Cardinality({j \in firsts : j < i})
            non_exist == rws[i].value_prev = 0 /\ rws[i].value = 0
        IN  [address |-> rws[i].address, storage_key |-> rws[i].storage_key,
             proof_type |->
                IF rws[i].tag = Storage
                THEN IF non_exist THEN StorageDoesNotExist ELSE StorageChanged
                ELSE IF non_exist /\ rws[i].field_tag = CodeHash THEN AccountDoesNotExist
                     ELSE rws[i].field_tag,
             old_root |-> nth, new_root |-> nth + 1,
             old_value |-> rws[i].value_prev, new_value |-> rws[i].value]]

(* MptUpdates::mock_from: one update for each location of the trie, in the  *)
(* order of the table; the roots are consecutive numbers.                   *)
MptUpdates(rws) ==
    LET firsts == {i \in DOMAIN rws : HasKey(rws[i]) /\ FirstAccessAt(rws, i)} IN
    [i \in firsts |->
        LET last == CHOOSE j \in i..Len(rws) : /\ LastAccessAt(rws, j)
                                               /\ NotFirstAccess(rws[i], rws[j])
            nth == Cardinality({j \in firsts : j < i})
            non_exist == rws[i].value_prev = 0 /\ rws[last].value = 0
        IN  [address |-> rws[i].address, storage_key |-> rws[i].storage_key,
             proof_type |->
                IF rws[i].tag = Storage
                THEN IF non_exist THEN StorageDoesNotExist ELSE StorageChanged
                ELSE IF non_exist /\ rws[i].field_tag = CodeHash THEN AccountDoesNotExist
                     ELSE rws[i].field_tag,
             old_root |-> nth, new_root |-> nth + 1,
             old_value |-> rws[i].value_prev, new_value |-> rws[last].value]]

(* MptUpdates::get *)
UpdateOf(us, rws, r) == us[CHOOSE i \in DOMAIN us : NotFirstAccess(rws[i], r)]

(* Mutant: the root changes on the first access. *)
AssignRows_RootOnFirst(rws) ==
    LET us == MptUpdates(rws)
        root[i \in 0..Len(rws)] ==
            IF i = 0 THEN 0
            ELSE IF HasKey(rws[i]) /\ FirstAccessAt(rws, i) THEN UpdateOf(us, rws, rws[i]).new_root
            ELSE root[i - 1]
    IN  [i \in DOMAIN rws |-> rws[i] @@
            [initial_value |-> IF HasKey(rws[i]) THEN UpdateOf(us, rws, rws[i]).old_value ELSE 0,
             state_root |-> root[i]]]

(* StateCircuitConfig::assign_with_region: initial_value and state_root.    *)
(* A root changes on the last access of a location of the trie.             *)
AssignRows(rws) ==
    LET us == MptUpdates(rws)
        root[i \in 0..Len(rws)] ==
            IF i = 0 THEN 0
            ELSE IF HasKey(rws[i]) /\ LastAccessAt(rws, i) THEN UpdateOf(us, rws, rws[i]).new_root
            ELSE root[i - 1]
    IN  [i \in DOMAIN rws |-> rws[i] @@
            [initial_value |-> IF HasKey(rws[i]) THEN UpdateOf(us, rws, rws[i]).old_value ELSE 0,
             state_root |-> root[i]]]

Assign ==
    /\ phase = "end"
    /\ table' = LET rws == Prepad(TableAssignments) IN AssignRows(rws)
    /\ phase' = "assigned"
    /\ UNCHANGED <<load, committed, ops, tx, max_rws, padding>>

Done == phase \in {"assigned", "panic"} /\ UNCHANGED vars

Next ==
    \/ \E k \in ReversibleKeys : ReadKey(k) \/ \E v \in Values : WriteReversible(k, v)
    \/ \E k \in {MemoryKey, CallContextKey} : ReadKey(k) \/ \E v \in Values : Push(k, TRUE, v)
    \/ \E v \in Values : StackPush(v) \/ LogWrite(v) \/ ReceiptWrite(v)
    \/ StackPop
    \/ ReceiptRead
    \/ NextTx
    \/ \E n \in Len(ops)..(Len(ops) + load.slack) : SetEndBlock(n)
    \/ Assign
    \/ Done

Spec == Init /\ [][Next]_vars
----------------------------------------------------------------------------
(* Properties *)

\* Completeness: whatever a consistent EVM did, the rows assigned for it satisfy every
\* gate of the state circuit and, at each last access, find their update in the MPT
\* table.
AssignmentAccepted ==
    phase = "assigned" =>
        LET us == MptUpdates(table)
            mpt == {us[i] : i \in DOMAIN us}
        IN  /\ table[1] = FirstRow(0)
            /\ \A i \in 2..Len(table) :
                   /\ RowConstraints(table[i - 1], table[i])
                   /\ LastAccessAt(table, i) => MptLookup(mpt, table[i - 1], table[i])

\* The padding set_end_block claims (the first and the last StartOp the EndBlock step
\* looks up) is the padding the state circuit makes, and the table is full.
PaddingAgrees ==
    phase = "assigned" =>
        /\ Len(table) = max_rws
        /\ padding \subseteq {table[i].rw_counter : i \in {j \in DOMAIN table : table[j].tag = Start}}
        /\ \A i \in DOMAIN table : table[i].tag = Start => table[i].rw_counter <= Max(padding)

\* The updates are a history of the trie: applied in the order of their roots, each
\* starts from the value its predecessors left, across transactions too, and they end
\* with what the EVM holds.
TrieHistory ==
    phase = "assigned" =>
        LET us == MptUpdates(table)
            name(r) == IF r.tag = Storage THEN "slot"
                       ELSE IF r.field_tag = Balance THEN "balance" ELSE "code"
            trie[i \in 0..Len(table)] ==
                IF i = 0 THEN committed
                ELSE IF i \in DOMAIN us
                     THEN [trie[i - 1] EXCEPT ![name(table[i])] = us[i].new_value]
                     ELSE trie[i - 1]
        IN  /\ \A i \in DOMAIN us : us[i].old_value = trie[i - 1][name(table[i])]
            /\ \A k \in AccountKeys \cup {StorageKey} :
                   trie[Len(table)][name(k)] = Current(k)
=============================================================================
