-------------------------- MODULE ExecutionGadgets --------------------------
(***************************************************************************)
(* The execution gadgets of the EVM circuit.  A gadget constrains one row  *)
(* of step cells s and the next row n against the rw table of the witness  *)
(* W.  Its k-th lookup is at s.rw_counter + k - 1; a cell that only a      *)
(* lookup constrains has the value found there, so a gadget is true when   *)
(* some assignment of its cells satisfies it.  The step transition states  *)
(* what the code states, literal numbers of lookups included.              *)
(*                                                                         *)
(* Step cells: exec_state, rw_counter, call_id, is_root, is_create,        *)
(* code_hash, program_counter, stack_pointer, reversible_write_counter,    *)
(* log_id.  The bytecode, keccak and copy tables are taken to be what      *)
(* their circuits promise.                                                 *)
(***************************************************************************)
EXTENDS RwLookups, EvmParameters

(* require_step_state_transition within a call: the cells not given stay the same. *)
Delta(s, n, rw, pc, sp, reversible, log) ==
    n = [s EXCEPT !.exec_state = n.exec_state, !.rw_counter = @ + rw,
                  !.program_counter = @ + pc, !.stack_pointer = @ + sp,
                  !.reversible_write_counter = @ + reversible, !.log_id = @ + log]

(* StepStateTransition::new_context: into a call. *)
NewContext(s, n, rw, id, root, create, code_hash, reversible, log) ==
    n = [exec_state |-> n.exec_state, rw_counter |-> s.rw_counter + rw, call_id |-> id,
         is_root |-> root, is_create |-> create, code_hash |-> code_hash,
         program_counter |-> 0, stack_pointer |-> STACK_CAPACITY,
         reversible_write_counter |-> reversible, log_id |-> log]

----------------------------------------------------------------------------
(* Common gadgets *)

(* UpdateBalanceGadget at the k-th lookup: the operation it looks up. *)
IncreaseBalance(W, s, k, a, v) ==
    LET prev == ValuePrev(OpCell(W, s, k)) IN AccountOp("W", a, "Balance", prev + v, prev)
DecreaseBalance(W, s, k, a, v) ==
    LET next == Cell(W, s, k) IN AccountOp("W", a, "Balance", next, next + v)

Creation(receiver) == AccountOp("W", receiver, "CodeHash", EMPTY_HASH, 0)

Creates(exists, must_create, v) == (v # 0 /\ ~exists) \/ must_create

(* TransferGadget: the operations from the k-th lookup on, all of them reversible. *)
Transfer(W, s, k, sender, receiver, exists, must_create, v) ==
    LET created == IF Creates(exists, must_create, v) THEN << Creation(receiver) >> ELSE <<>>
        j == k + Len(created)
    IN  created \o IF v = 0 THEN <<>>
                   ELSE << DecreaseBalance(W, s, j, sender, v),
                           IncreaseBalance(W, s, j + 1, receiver, v) >>

(* reversible_w_delta of TransferGadget and of TransferWithGasFeeGadget, whose rw_delta
   counts the fee as well. *)
reversible_w_delta(exists, must_create, v) ==
    Bit(Creates(exists, must_create, v)) + 2 * Bit(v # 0)
rw_delta(exists, must_create, v) == 1 + reversible_w_delta(exists, must_create, v)

(* RestoreContextGadget from the k-th lookup on; k - 1 lookups precede it and
   `subsequent' follow it. *)
RestoreContextOps(W, s, k, is_success, length) ==
    LET caller_id == Cell(W, s, k)
    IN  call_context(W, s, k, s.call_id, <<"CallerId">>)
        \o call_context(W, s, k + 1, caller_id,
               <<"IsRoot", "IsCreate", "CodeHash", "ProgramCounter", "StackPointer",
                 "GasLeft", "MemorySize", "ReversibleWriteCounter">>)
        \o CallContextOps("W", caller_id,
               LastCallee(s.call_id, 0, IF s.is_create = 1 /\ is_success = 1 THEN 0 ELSE length))

\* Mutant: the writes of the halting step itself are not handed to the caller.
RestoreContext_NoIncrease(W, s, n, k, is_success, subsequent, increase) ==
    n = [exec_state |-> n.exec_state,
         rw_counter |-> s.rw_counter + k + 11 + subsequent
                        + (1 - is_success) * s.reversible_write_counter,
         call_id |-> Cell(W, s, k), is_root |-> Cell(W, s, k + 1),
         is_create |-> Cell(W, s, k + 2), code_hash |-> Cell(W, s, k + 3),
         program_counter |-> Cell(W, s, k + 4), stack_pointer |-> Cell(W, s, k + 5),
         reversible_write_counter |-> Cell(W, s, k + 8) + is_success * s.reversible_write_counter,
         log_id |-> s.log_id]

RestoreContext(W, s, n, k, is_success, subsequent, increase) ==
    n = [exec_state |-> n.exec_state,
         rw_counter |-> s.rw_counter + k + 11 + subsequent
                        + (1 - is_success) * s.reversible_write_counter,
         call_id |-> Cell(W, s, k), is_root |-> Cell(W, s, k + 1),
         is_create |-> Cell(W, s, k + 2), code_hash |-> Cell(W, s, k + 3),
         program_counter |-> Cell(W, s, k + 4), stack_pointer |-> Cell(W, s, k + 5),
         reversible_write_counter |-> Cell(W, s, k + 8) + increase
                                      + is_success * s.reversible_write_counter,
         log_id |-> s.log_id]

(* CommonErrorGadget after the lookups `ops'. *)
CommonError(W, s, n, ops) ==
    LET k == Len(ops) + 1
        rev == s.reversible_write_counter
        failed == << CallContextOp("R", s.call_id, "IsSuccess", 0),
                     CallContextOp("R", s.call_id, "RwCounterEndOfReversion", Cell(W, s, k + 1)) >>
        restore == IF s.is_root = 1 THEN <<>> ELSE RestoreContextOps(W, s, k + 2, 0, 0)
        all == ops \o failed \o restore
    IN  /\ rw_lookups(W, s, all)
        /\ (s.is_root = 1) = (n.exec_state = "EndTx")
        /\ IF s.is_root = 1
           THEN n.call_id = s.call_id /\ n.rw_counter = s.rw_counter + 2 + rev
           ELSE RestoreContext(W, s, n, k + 2, 0, 0, 0)
        /\ Cell(W, s, k + 1) = s.rw_counter + Len(all) - 1 + rev

----------------------------------------------------------------------------
(* Transactions and the block *)

(* The lookups of a transaction up to the code hash of its callee.  Its call is numbered by
   the rw_counter of the step. *)
BeginTxOpening(W, s, tx_id, tx) ==
    CallContextOps("W", s.rw_counter, << <<"TxId", tx_id>> >>)
    \o reversion_info_write(W, s, 2, s.call_id)
    \o CallContextOps("W", s.rw_counter, << <<"IsSuccess", Cell(W, s, 3)>> >>)
    \o << AccountOp("W", tx.caller_address, "Nonce", tx.nonce + 1, tx.nonce),
          TxAccessListAccountOp("W", tx_id, tx.caller_address, 1, 0),
          TxAccessListAccountOp("W", tx_id, tx.callee_address, 1,
                                Bit(tx.caller_address = tx.callee_address)),
          TxAccessListAccountOp("W", tx_id, W.coinbase, 1, ValuePrev(OpCell(W, s, 8))) >>
    \o IF tx.is_create THEN <<>>
       ELSE << AccountOp("R", tx.callee_address, "CodeHash", Cell(W, s, 9), Cell(W, s, 9)) >>

(* The context of the root call. *)
RootContextSetup(s, tx, code_hash) ==
    CallContextOps("W", s.rw_counter,
        << <<"Depth", 1>>, <<"CallerAddress", tx.caller_address>>,
           <<"CalleeAddress", tx.callee_address>>, <<"CallDataOffset", 0>>,
           <<"CallDataLength", 0>>, <<"Value", tx.value>>, <<"IsStatic", 0>> >>
        \o LastCallee(0, 0, 0)
        \o << <<"IsRoot", 1>>, <<"IsCreate", Bit(tx.is_create)>>, <<"CodeHash", code_hash>> >>)

(* A transaction that creates a contract, after the lookups `paid'. *)
TxOfCreation(W, s, n, tx, paid, nonce, delta, reversible) ==
    /\ tx.is_create
    /\ rw_lookups(W, s, paid \o nonce \o RootContextSetup(s, tx, s.code_hash))
    /\ NewContext(s, n, 22 + delta, s.rw_counter, 1, 1, s.code_hash, reversible + 1, 0)

(* A transaction to an account without code is over. *)
TxWithoutCode(W, s, n, tx, paid, is_persistent, code_hash, delta) ==
    /\ ~tx.is_create /\ code_hash \in {0, EMPTY_HASH}
    /\ rw_lookups(W, s, paid)
    /\ is_persistent = 1
    /\ n.exec_state = "EndTx"
    /\ n.rw_counter = s.rw_counter + 9 + delta
    /\ n.call_id = s.rw_counter

(* A transaction to an account with code. *)
TxIntoCode(W, s, n, tx, paid, code_hash, delta, reversible) ==
    /\ ~tx.is_create /\ code_hash \notin {0, EMPTY_HASH}
    /\ rw_lookups(W, s, paid \o RootContextSetup(s, tx, code_hash))
    /\ NewContext(s, n, 22 + delta, s.rw_counter, 1, 0, code_hash, reversible, 0)

(* The first BeginTx of the block is the one with rw_counter 1. *)
BeginTxGadget(W, s, n) ==
    LET tx_id == Cell(W, s, 1)
        tx == W.tx_table[tx_id]
        info == reversion_info(W, s, 2, s.reversible_write_counter)
        code_hash == Cell(W, s, 9)
        callee_not_exists == code_hash = 0
        must_create == tx.is_create \/ callee_not_exists
        opening == BeginTxOpening(W, s, tx_id, tx)
        k == Len(opening) + 1
        transfer == Transfer(W, s, k + 1, tx.caller_address, tx.callee_address,
                             ~callee_not_exists, must_create, tx.value)
        nonce == IF tx.is_create THEN << AccountOp("W", tx.callee_address, "Nonce", 1, 0) >>
                 ELSE <<>>
        paid == opening \o << DecreaseBalance(W, s, k, tx.caller_address, Fee) >> \o transfer
        delta == rw_delta(~callee_not_exists, must_create, tx.value)
        reversible == reversible_w_delta(~callee_not_exists, must_create, tx.value)
    IN  /\ tx_id \in DOMAIN W.tx_table
        /\ s.rw_counter = 1 => tx_id = 1
        /\ reversible_writes(W, info, transfer \o nonce)
        /\ \/ TxOfCreation(W, s, n, tx, paid, nonce, delta, reversible)
           \/ TxWithoutCode(W, s, n, tx, paid, info.is_persistent, code_hash, delta)
           \/ TxIntoCode(W, s, n, tx, paid, code_hash, delta, reversible)

EndTxGadget(W, s, n) ==
    LET tx_id == Cell(W, s, 1)
        is_persistent == Cell(W, s, 2)
        tx == W.tx_table[tx_id]
        coinbase_code_hash == Cell(W, s, 5)
        exists == coinbase_code_hash # 0
        created == IF Creates(exists, FALSE, Reward) THEN << Creation(W.coinbase) >> ELSE <<>>
        reward == created \o IF Reward = 0 THEN <<>>
            ELSE << IncreaseBalance(W, s, 6 + Len(created), W.coinbase, Reward) >>
        k == 6 + Len(reward)
        is_first == tx_id = 1
        cumulative == IF is_first THEN 0 ELSE Cell(W, s, k + 2)
        ops == call_context(W, s, 1, s.call_id, <<"TxId", "IsPersistent">>)
            \o << TxRefundOp("R", tx_id, Cell(W, s, 3), Cell(W, s, 3)),
                  IncreaseBalance(W, s, 4, tx.caller_address, GasReturned),
                  AccountOp("R", W.coinbase, "CodeHash", coinbase_code_hash, coinbase_code_hash) >>
            \o reward
            \o << TxReceiptOp("W", tx_id, "PostStateOrStatus", is_persistent),
                  TxReceiptOp("W", tx_id, "LogLength", s.log_id) >>
            \o (IF is_first THEN <<>>
                ELSE << TxReceiptOp("R", tx_id - 1, "CumulativeGasUsed", cumulative) >>)
            \o << TxReceiptOp("W", tx_id, "CumulativeGasUsed", GAS_USED + cumulative) >>
        next_tx == << CallContextOp("W", n.rw_counter, "TxId", tx_id + 1) >>
    IN  /\ tx_id \in DOMAIN W.tx_table
        /\ rw_lookups(W, s, ops \o IF n.exec_state = "BeginTx" THEN next_tx ELSE <<>>)
        /\ n.exec_state = "BeginTx" =>
               n.rw_counter = s.rw_counter + 11 - Bit(is_first) + Bit(~exists)
        /\ n.exec_state = "EndBlock" =>
               /\ n.rw_counter = s.rw_counter + 10 - Bit(is_first) + Bit(~exists)
               /\ n.call_id = s.call_id

(* The last step counts the transactions; rows before it are propagated, and read the
   same operation. *)
EndBlockGadget(W, s) ==
    LET is_empty_block == s.rw_counter = 1
        total_txs == IF is_empty_block THEN 0 ELSE Cell(W, s, 1)
        total_rws == s.rw_counter - 1 + Bit(~is_empty_block)
    IN  /\ is_empty_block \/
               rw_lookups(W, s, << CallContextOp("R", s.call_id, "TxId", total_txs) >>)
        /\ total_txs = Len(W.tx_table)
        /\ MaxRws - total_rws \in 1 .. W.padding_end

----------------------------------------------------------------------------
(* Opcodes within a call *)

PushGadget(W, s, n) ==
    /\ rw_lookups(W, s, << StackOp("W", s.call_id, s.stack_pointer - 1, Cell(W, s, 1)) >>)
    /\ n = [s EXCEPT !.exec_state = n.exec_state, !.rw_counter = @ + 1,
                     !.program_counter = @ + 1, !.stack_pointer = @ - 1]

(* MemoryGadget for MSTORE8. *)
Mstore8Gadget(W, s, n) ==
    /\ rw_lookups(W, s, stack_pops(W, s, 1, 2) \o << MemoryOp("W", s.call_id, 0, Cell(W, s, 2)) >>)
    /\ Delta(s, n, 3, 1, 2, 0, 0)

SloadGadget(W, s, n) ==
    LET tx_id == Cell(W, s, 1)
        callee_address == Cell(W, s, 4)
        value == Cell(W, s, 6)
        is_warm == Cell(W, s, 8)
        warm == TxAccessListAccountStorageOp("W", tx_id, callee_address, 1, is_warm)
    IN  /\ rw_lookups(W, s,
               call_context(W, s, 1, s.call_id,
                   <<"TxId", "RwCounterEndOfReversion", "IsPersistent", "CalleeAddress">>)
               \o stack_pops(W, s, 5, 1)
               \o << StorageOp("R", tx_id, callee_address, value, value, Committed(OpCell(W, s, 6))),
                     StackOp("W", s.call_id, s.stack_pointer, value),
                     TxAccessListAccountStorageOp("R", tx_id, callee_address, is_warm, is_warm),
                     warm >>)
        /\ reversible_writes(W, reversion_info(W, s, 2, s.reversible_write_counter), << warm >>)
        /\ Delta(s, n, 9, 1, 0, 1, 0)

SSTORE_CLEARS_SCHEDULE == 4800
SSTORE_SET   == 20000
SSTORE_RESET == 2900
WARM_ACCESS  == 100

(* SstoreTxRefundGadget: a sum of products of bits. *)
SstoreTxRefund(tx_refund_old, value, value_prev, original_value) ==
    LET changed == Bit(value_prev # value)
        delete_slot == changed * Bit(original_value # 0) * Bit(value = 0)
        reset_existing == changed * Bit(original_value = value) * Bit(original_value # 0)
        reset_inexistent == changed * Bit(original_value = value) * Bit(original_value = 0)
        recreate_slot == changed * Bit(original_value # value_prev) * Bit(value_prev = 0)
    IN  tx_refund_old
        + delete_slot * SSTORE_CLEARS_SCHEDULE
        + reset_existing * (SSTORE_RESET - WARM_ACCESS)
        + reset_inexistent * (SSTORE_SET - WARM_ACCESS)
        - recreate_slot * SSTORE_CLEARS_SCHEDULE

SstoreGadget(W, s, n) ==
    LET tx_id == Cell(W, s, 1)
        callee_address == Cell(W, s, 5)
        value == Cell(W, s, 7)
        value_prev == ValuePrev(OpCell(W, s, 8))
        original_value == Committed(OpCell(W, s, 8))
        is_warm == Cell(W, s, 9)
        tx_refund_old == ValuePrev(OpCell(W, s, 11))
        store == StorageOp("W", tx_id, callee_address, value, value_prev, original_value)
        warm == TxAccessListAccountStorageOp("W", tx_id, callee_address, 1, is_warm)
        refund == TxRefundOp("W", tx_id,
            SstoreTxRefund(tx_refund_old, value, value_prev, original_value), tx_refund_old)
    IN  /\ rw_lookups(W, s,
               call_context(W, s, 1, s.call_id,
                   <<"TxId", "IsStatic", "RwCounterEndOfReversion", "IsPersistent", "CalleeAddress">>)
               \o stack_pops(W, s, 6, 2)
               \o << store,
                     TxAccessListAccountStorageOp("R", tx_id, callee_address, is_warm, is_warm),
                     warm, refund >>)
        /\ Cell(W, s, 2) = 0
        /\ reversible_writes(W, reversion_info(W, s, 3, s.reversible_write_counter),
                             << store, warm, refund >>)
        /\ Delta(s, n, 11, 1, 2, 3, 0)

LogGadget(W, s, n) ==
    LET tx_id == Cell(W, s, 3)
        is_persistent == Cell(W, s, 6)
        topics == IF s.exec_state = "LOG1" THEN 1 ELSE 0
        log(field, v) == IF is_persistent = 1 THEN << TxLogOp(tx_id, s.log_id + 1, field, 0, v) >>
                         ELSE <<>>
        at == 7 + is_persistent
        topic == IF topics = 0 THEN <<>>
                 ELSE << StackOp("R", s.call_id, s.stack_pointer + 2, Cell(W, s, at)) >>
                      \o log("Topic", Cell(W, s, at))
        byte == Cell(W, s, at + Len(topic))
        data == IF Cell(W, s, 2) = 0 \/ is_persistent = 0 THEN <<>>
                ELSE << MemoryOp("R", s.call_id, 0, byte) >> \o log("Data", byte)
        ops == stack_pops(W, s, 1, 2)
            \o call_context(W, s, 3, s.call_id, <<"TxId", "IsStatic", "CalleeAddress", "IsPersistent">>)
            \o log("Address", Cell(W, s, 5)) \o topic \o data
    IN  /\ rw_lookups(W, s, ops)
        /\ Cell(W, s, 4) = 0
        /\ Delta(s, n, Len(ops), 1, 2 + topics, 0, is_persistent)

----------------------------------------------------------------------------
(* Calls and creations *)

SavedContext(s, stack_pointer_delta, counter) == CallContextOps("W", s.call_id,
    << <<"ProgramCounter", s.program_counter + 1>>,
       <<"StackPointer", s.stack_pointer + stack_pointer_delta>>, <<"GasLeft", 0>>,
       <<"MemorySize", 0>>, <<"ReversibleWriteCounter", s.reversible_write_counter + counter>> >>)

(* The context of a callee: the data ranges are those popped from the stack at the lookups
   p .. p + args - 1. *)
CalleeContextSetup(W, s, p, args, callee) ==
    CallContextOps("W", s.rw_counter,
        << <<"CallerId", s.call_id>>, <<"TxId", Cell(W, s, 1)>>, <<"Depth", Cell(W, s, 5) + 1>>,
           <<"CallerAddress", callee.caller_address>>, <<"CalleeAddress", callee.address>>,
           <<"CallDataOffset", 0>>, <<"CallDataLength", Cell(W, s, p + args - 3)>>,
           <<"ReturnDataOffset", 0>>, <<"ReturnDataLength", Cell(W, s, p + args - 1)>>,
           <<"Value", callee.value>>, <<"IsSuccess", callee.is_success>>,
           <<"IsStatic", callee.is_static>> >>
        \o LastCallee(0, 0, 0)
        \o << <<"IsRoot", 0>>, <<"IsCreate", 0>>, <<"CodeHash", callee.code_hash>> >>)

(* A call that executes nothing leaves an empty last callee. *)
LastCalleeOps(s, id) == CallContextOps("W", s.call_id, LastCallee(id, 0, 0))

CallWithoutCode(W, s, n, args, opening, extra, moved) ==
    /\ rw_lookups(W, s, opening \o LastCalleeOps(s, s.rw_counter))
    /\ Delta(s, n, 21 + extra + moved, 1, args - 1, 1 + moved, 0)

(* The rw counter delta of a CALL whose precheck fails. *)
PrecheckFailedDelta == 22

CallPrecheckFails(W, s, n, args, opening) ==
    /\ rw_lookups(W, s, opening \o LastCalleeOps(s, s.rw_counter))
    /\ Delta(s, n, PrecheckFailedDelta, 1, args - 1, 1, 0)

CallIntoCode(W, s, n, args, opening, context, extra, sent, code_hash) ==
    /\ rw_lookups(W, s, opening \o SavedContext(s, args - 1, 1) \o context)
    /\ NewContext(s, n, 41 + extra + sent, s.rw_counter, 0, 0, code_hash, sent, s.log_id)

CallOpGadget(W, s, n) ==
    LET op == s.exec_state
        is_call == op = "CALL"
        is_callcode == op = "CALLCODE"
        is_delegatecall == op = "DELEGATECALL"
        takes_value == is_call \/ is_callcode
        info == reversion_info(W, s, 2, s.reversible_write_counter)
        is_static == Cell(W, s, 4)
        current == Cell(W, s, 6)
        p == IF is_delegatecall THEN 9 ELSE 7
        args == IF takes_value THEN 7 ELSE 6
        popped == Cell(W, s, p + 1)
        value == IF takes_value THEN Cell(W, s, p + 2) ELSE 0
        k == p + args
        is_success == Cell(W, s, k)
        code_hash == Cell(W, s, k + 1)
        no_callee_code == code_hash \in {0, EMPTY_HASH}
        caller_address == IF is_delegatecall THEN Cell(W, s, 7) ELSE current
        callee_address == IF is_callcode \/ is_delegatecall THEN current ELSE popped
        warm == TxAccessListAccountOp("W", Cell(W, s, 1), popped, Cell(W, s, k + 2),
                                      ValuePrev(OpCell(W, s, k + 2)))
        callee_info == reversion_info(W, s, k + 3, 0)
        balance == Cell(W, s, k + 5)
        is_precheck_ok == Cell(W, s, 5) < CallDepthLimit /\ balance >= value
        transfer == IF is_call /\ is_precheck_ok
                    THEN Transfer(W, s, k + 6, caller_address, callee_address,
                                  code_hash # 0, FALSE, value)
                    ELSE <<>>
        opening == call_context(W, s, 1, s.call_id,
                <<"TxId", "RwCounterEndOfReversion", "IsPersistent", "IsStatic", "Depth",
                  "CalleeAddress">>
                \o IF is_delegatecall THEN <<"CallerAddress", "Value">> ELSE <<>>)
            \o stack_pops(W, s, p, args)
            \o << StackOp("W", s.call_id, s.stack_pointer + args - 1, is_success),
                  AccountOp("R", popped, "CodeHash", code_hash, code_hash), warm >>
            \o reversion_info_write(W, s, k + 3, s.rw_counter)
            \o << AccountOp("R", caller_address, "Balance", balance, balance) >> \o transfer
        context == CalleeContextSetup(W, s, p, args,
            [caller_address |-> caller_address, address |-> callee_address,
             value |-> IF is_delegatecall THEN Cell(W, s, 8) ELSE value,
             is_success |-> is_success,
             is_static |-> Bit(is_static = 1 \/ op = "STATICCALL"), code_hash |-> code_hash])
        extra == Bit(takes_value) + 2 * Bit(is_delegatecall)
        moved == Bit(is_call) * reversible_w_delta(code_hash # 0, FALSE, value)
        sent == 2 * Bit(is_call /\ value # 0)
    IN  /\ callee_info.is_persistent = info.is_persistent * is_success
        /\ is_success = 1 /\ info.is_persistent = 0 =>
               callee_info.eor = info.eor - (s.reversible_write_counter + 1)
        /\ is_call /\ value # 0 => is_static = 0
        /\ ~is_precheck_ok => is_success = 0
        /\ reversible_writes(W, info, << warm >>)
        /\ reversible_writes(W, callee_info, transfer)
        /\ \/ /\ is_precheck_ok /\ no_callee_code
              /\ CallWithoutCode(W, s, n, args, opening, extra, moved)
           \/ /\ ~is_precheck_ok
              /\ CallPrecheckFails(W, s, n, args, opening)
           \/ /\ is_precheck_ok /\ ~no_callee_code
              /\ CallIntoCode(W, s, n, args, opening, context, extra, sent, code_hash)

(* The context of a creation. *)
CreationContext(W, s, caller_address, address, callee_info, is_success, code_hash) ==
    CallContextOps("W", s.rw_counter,
        << <<"CallerId", s.call_id>>, <<"IsSuccess", is_success>>,
           <<"IsPersistent", callee_info.is_persistent>>, <<"TxId", Cell(W, s, 1)>>,
           <<"CallerAddress", caller_address>>, <<"CalleeAddress", address>>,
           <<"RwCounterEndOfReversion", callee_info.eor>>, <<"Depth", Cell(W, s, 2) + 1>>,
           <<"IsRoot", 0>>, <<"IsStatic", 0>>, <<"IsCreate", 1>>, <<"CodeHash", code_hash>> >>)

CreateIntoCode(W, s, n, opening, context, code_hash, delta) ==
    /\ rw_lookups(W, s, opening \o context)
    /\ NewContext(s, n, Len(opening) + 12, s.rw_counter, 0, 1, code_hash, 1 + delta, s.log_id)

CreateWithoutCode(W, s, n, args, opening, delta) ==
    /\ rw_lookups(W, s, opening \o LastCalleeOps(s, 0))
    /\ Delta(s, n, Len(opening) + 3, 1, args - 1, 3 + delta, 0)

(* Depth, balance, nonce or an address collision. *)
CreateFails(W, s, n, args, opening) ==
    /\ rw_lookups(W, s, opening \o LastCalleeOps(s, 0))
    /\ Delta(s, n, Len(opening) + 3, 1, args - 1, 0, 0)

(* CreateGadget.  callee_nonce is a cell without a lookup; it is assigned zero, which
   leaves the code hash to tell a collision. *)
CreateGadget(W, s, n) ==
    LET args == IF s.exec_state = "CREATE2" THEN 4 ELSE 3
        info == reversion_info(W, s, 3, s.reversible_write_counter)
        value == Cell(W, s, 5)
        length == Cell(W, s, 7)
        k == 5 + args
        caller_address == Address(OpCell(W, s, k + 1))
        balance == Cell(W, s, k + 1)
        caller_nonce == Cell(W, s, k + 2)
        address == IF args = 4 THEN Create2Address(caller_address)
                   ELSE CreateAddress(caller_address, caller_nonce)
        is_success == Bit(Cell(W, s, k) # 0)
        is_precheck_ok == Cell(W, s, 2) < CallDepthLimit /\ balance >= value
        prev_code_hash == Cell(W, s, k + 5)
        is_created == is_precheck_ok /\ prev_code_hash \in {0, EMPTY_HASH}
        nonce == AccountOp("W", caller_address, "Nonce", caller_nonce + 1, caller_nonce)
        warm == TxAccessListAccountOp("W", Cell(W, s, 1), address, 1,
                                      ValuePrev(OpCell(W, s, k + 4)))
        prepared == IF ~is_precheck_ok THEN <<>>
            ELSE << nonce, warm, AccountOp("R", address, "CodeHash", prev_code_hash, prev_code_hash) >>
        c == k + 8 + Len(prepared)
        callee_info == reversion_info(W, s, c, 0)
        code_hash == CodeHashOf(Cell(W, s, c + 2))
        copied == IF is_created /\ length # 0
                  THEN << MemoryOp("R", s.call_id, 0, Cell(W, s, c + 2)) >> ELSE <<>>
        t == c + 2 + Len(copied)
        transfer == IF is_created
            THEN Transfer(W, s, t, caller_address, address, FALSE, TRUE, value)
                 \o << AccountOp("W", address, "Nonce", 1, 0) >>
            ELSE <<>>
        delta == reversible_w_delta(FALSE, TRUE, value)
        opening == call_context(W, s, 1, s.call_id,
                <<"TxId", "Depth", "RwCounterEndOfReversion", "IsPersistent">>)
            \o stack_pops(W, s, 5, args)
            \o << StackOp("W", s.call_id, s.stack_pointer + args - 1, address * is_success),
                  AccountOp("R", caller_address, "Balance", balance, balance),
                  AccountOp("R", caller_address, "Nonce", caller_nonce, caller_nonce) >>
            \o prepared \o SavedContext(s, args - 1, 2)
            \o reversion_info_write(W, s, c, s.rw_counter) \o copied \o transfer
        context == CreationContext(W, s, caller_address, address, callee_info, is_success, code_hash)
    IN  /\ is_success = 1 /\ info.is_persistent = 0 =>
               callee_info.eor = info.eor - (s.reversible_write_counter + 2 * Bit(is_precheck_ok))
        /\ is_precheck_ok => reversible_writes(W, info, << nonce, warm >>)
        /\ is_created => /\ callee_info.is_persistent = info.is_persistent * is_success
                         /\ reversible_writes(W, callee_info, transfer)
        /\ \/ /\ is_created /\ length # 0
              /\ CreateIntoCode(W, s, n, opening, context, code_hash, delta)
           \/ /\ is_created /\ length = 0
              /\ CreateWithoutCode(W, s, n, args, opening, delta)
           \/ ~is_created /\ CreateFails(W, s, n, args, opening)

----------------------------------------------------------------------------
(* The end of a call *)

StopGadget(W, s, n) ==
    LET ops == << CallContextOp("R", s.call_id, "IsSuccess", 1) >>
    IN  /\ (s.is_root = 1) = (n.exec_state = "EndTx")
        /\ \/ /\ s.is_root = 1
              /\ rw_lookups(W, s, ops)
              /\ n.call_id = s.call_id /\ n.rw_counter = s.rw_counter + 1
           \/ /\ s.is_root = 0
              /\ rw_lookups(W, s, ops \o RestoreContextOps(W, s, 2, 1, 0))
              /\ RestoreContext(W, s, n, 2, 1, 0, 0)

(* Case A, a successful creation stores its code. *)
DeployedCode(W, s) ==
    AccountOp("W", Cell(W, s, 7), "CodeHash", CodeHashOf(Cell(W, s, 4)), EMPTY_HASH)

Deployment(W, s) ==
    LET byte == MemoryOp("R", s.call_id, 0, Cell(W, s, 4))
    IN  << byte, byte >>
        \o call_context(W, s, 6, s.call_id,
               <<"CallerId", "CalleeAddress", "RwCounterEndOfReversion", "IsPersistent">>)
        \o << DeployedCode(W, s) >>

(* Case B, the root call ends: the transaction does. *)
RootReturns(W, s, n, opening, is_success) ==
    /\ n.exec_state = "EndTx"
    /\ rw_lookups(W, s, opening \o << CallContextOp("R", s.call_id, "IsPersistent", is_success) >>)
    /\ n = [s EXCEPT !.exec_state = "EndTx", !.program_counter = 0,
                     !.stack_pointer = STACK_CAPACITY, !.reversible_write_counter = 0,
                     !.rw_counter = @ + Len(opening) + 1
                                    + (1 - is_success) * s.reversible_write_counter]

(* Cases C and D, the caller resumes, with the data returned unless this was a creation. *)
CallerResumes(W, s, n, opening, length, is_success, deploys) ==
    LET k == Len(opening) + 1
        copy_length == IF length # 0 /\ Cell(W, s, k + 13) # 0 THEN 1 ELSE 0
        copied == Cell(W, s, k + 14)
        returned == IF s.is_create = 1 THEN <<>>
            ELSE call_context(W, s, k + 12, s.call_id, <<"ReturnDataOffset", "ReturnDataLength">>)
                 \o IF copy_length = 0 THEN <<>>
                    ELSE << MemoryOp("R", s.call_id, 0, copied), MemoryOp("W", n.call_id, 0, copied) >>
    IN  /\ rw_lookups(W, s, opening \o RestoreContextOps(W, s, k, is_success, length) \o returned)
        /\ RestoreContext(W, s, n, k, is_success,
               (1 - s.is_create) * (2 + 2 * copy_length), Bit(deploys))

ReturnRevertGadget(W, s, n) ==
    LET length == Cell(W, s, 2)
        is_success == Cell(W, s, 3)
        deploys == s.is_create = 1 /\ is_success = 1 /\ length # 0
        opening == stack_pops(W, s, 1, 2) \o call_context(W, s, 3, s.call_id, <<"IsSuccess">>)
                   \o IF deploys THEN Deployment(W, s) ELSE <<>>
    IN  /\ s.exec_state = IF is_success = 1 THEN "RETURN" ELSE "REVERT"
        /\ deploys => reversible_writes(W, reversion_info(W, s, 8, s.reversible_write_counter),
                                        << DeployedCode(W, s) >>)
        /\ \/ s.is_root = 1 /\ RootReturns(W, s, n, opening, is_success)
           \/ s.is_root = 0 /\ CallerResumes(W, s, n, opening, length, is_success, deploys)

ErrorInvalidOpcodeGadget(W, s, n) == CommonError(W, s, n, <<>>)

(* opcode is what the bytecode table has at the step. *)
ErrorWriteProtectionGadget(W, s, n, opcode) ==
    LET pops == IF opcode = "CALL" THEN stack_pops(W, s, 1, 3) ELSE <<>>
    IN  /\ opcode = "CALL" => Cell(W, s, 3) # 0
        /\ s.is_root = 0
        /\ CommonError(W, s, n, pops \o << CallContextOp("R", s.call_id, "IsStatic", 1) >>)
=============================================================================
