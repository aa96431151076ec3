----------------------------- MODULE BusMapping -----------------------------
(***************************************************************************)
(* The steps bus-mapping makes out of a block and its geth traces:         *)
(* handle_tx and one operator per opcode handler (gen_associated_ops).  A  *)
(* handler takes the builder and a step g of the trace,                    *)
(*   exec_state, opcode      what the step is, and its opcode              *)
(*   error                   whether geth reports an error                 *)
(*   pc, stack               the machine before the step                   *)
(*   next_pc, next_stack_pointer  the machine at the next step             *)
(*   callee_is_success       for CALL and CREATE, how the callee ends      *)
(*   storage, refund         the slot and the refund counter geth reports  *)
(* and returns the builder with the step and its operations appended.      *)
(***************************************************************************)
EXTENDS CircuitInputStateRef, EvmParameters

StackReads(b, g, n) ==
    [i \in 1 .. n |-> StackOp("R", call(b).call_id, nth_last_filled(g, i - 1), nth_last(g, i - 1))]

StackWrite(b, pointer, v) == << StackOp("W", call(b).call_id, pointer, v) >>

CallReads(b, fields) == CallContextOps("R", call(b).call_id, fields)

TxIdField(b)   == << <<"TxId", tx_id(b)>> >>
StaticField(b) == << <<"IsStatic", Bit(call(b).is_static)>> >>
CalleeField(b) == << <<"CalleeAddress", call(b).address>> >>

----------------------------------------------------------------------------
(* Transactions *)

(* CircuitInputBuilder::new_tx, Transaction::new and TransactionContext::new. *)
new_tx(b, t) ==
    LET creates == t.to = 0
    IN  push_call([b EXCEPT !.tx = t, !.calls = <<>>, !.steps = <<>>, !.ctxs = <<>>,
                            !.groups = <<>>, !.log_id = 0],
            [call_id |-> rwc(b), caller_id |-> 0, kind |-> IF creates THEN "CREATE" ELSE "CALL",
             is_root |-> TRUE, is_static |-> FALSE, is_persistent |-> t.is_success,
             is_success |-> t.is_success, rw_counter_end_of_reversion |-> 0,
             caller_address |-> t.from,
             address |-> IF creates THEN CreateAddress(t.from, t.nonce) ELSE t.to,
             code_address |-> t.to,
             code_hash |-> IF creates THEN CodeHashOf(0) ELSE get_account(b.sdb, t.to).code_hash,
             depth |-> 1, value |-> t.value, call_data_length |-> 0, return_data_length |-> 0])

(* The context of a root call with code. *)
RootContext(c, code_hash) ==
    << <<"Depth", 1>>, <<"CallerAddress", c.caller_address>>, <<"CalleeAddress", c.address>>,
       <<"CallDataOffset", 0>>, <<"CallDataLength", 0>>, <<"Value", c.value>>,
       <<"IsStatic", 0>> >>
    \o LastCallee(0, 0, 0)
    \o << <<"IsRoot", 1>>, <<"IsCreate", Bit(is_create(c))>>, <<"CodeHash", code_hash>> >>

gen_begin_tx_steps(b) ==
    LET c == call(b)
        nonce == get_account(b.sdb, c.caller_address).nonce
        begun == account_write(
            push_ops(b, CallContextOps("W", c.call_id,
                << <<"TxId", tx_id(b)>> >> \o ReversionInfo(c)
                \o << <<"IsSuccess", Bit(c.is_success)>> >>)),
            c.caller_address, "Nonce", nonce + 1, nonce)
        listed == <<c.caller_address, c.address, b.coinbase>>
        Warm(i) == listed[i] \in b.sdb.access_list_account \cup {listed[j] : j \in 1 .. i - 1}
        warmed == push_ops([begun EXCEPT !.sdb.access_list_account = @ \cup Range(listed)],
            [i \in 1 .. 3 |->
                TxAccessListAccountOp("W", tx_id(b), listed[i], 1, Bit(Warm(i)))])
        callee == get_account(warmed.sdb, c.address)
        code_hash == CodeHashWord(callee)
        read == IF is_create(c) THEN warmed
                ELSE account_read(warmed, c.address, "CodeHash", code_hash)
        paid == transfer_with_fee(read, c.caller_address, c.address, ~is_empty(callee),
                                  is_create(c), c.value, Fee)
        entered ==
            IF is_create(c)
            THEN push_ops(push_op_reversible(paid, AccountOp("W", c.address, "Nonce", 1, 0)),
                          CallContextOps("W", c.call_id, RootContext(c, c.code_hash)))
            ELSE IF code_hash \in {0, EMPTY_HASH} THEN paid
            ELSE push_ops(paid, CallContextOps("W", c.call_id, RootContext(c, code_hash)))
    IN  Finish(entered, new_begin_tx_step(b))

(* The last operation of a transaction that another one follows writes the next TxId to
   the call id the next root call is going to get. *)
gen_end_tx_steps(b, is_last_tx) ==
    LET c == b.calls[1]
        balance == get_account(b.sdb, c.caller_address).balance
        settled == account_write(
            push_ops(b, CallContextOps("R", c.call_id,
                            << <<"TxId", tx_id(b)>>, <<"IsPersistent", Bit(c.is_persistent)>> >>)
                        \o << TxRefundOp("R", tx_id(b), b.sdb.refund, b.sdb.refund) >>),
            c.caller_address, "Balance", balance + GasReturned, balance)
        coinbase == get_account(settled.sdb, b.coinbase)
        rewarded == transfer_to_irreversible(
            account_read(settled, b.coinbase, "CodeHash", CodeHashWord(coinbase)),
            b.coinbase, ~is_empty(coinbase), Reward)
        cumulative == b.cumulative_gas_used
        receipt == push_ops(rewarded,
            << TxReceiptOp("W", tx_id(b), "PostStateOrStatus", Bit(c.is_persistent)),
               TxReceiptOp("W", tx_id(b), "LogLength", b.log_id) >>
            \o IF tx_id(b) = 1 THEN <<>>
               ELSE << TxReceiptOp("R", tx_id(b) - 1, "CumulativeGasUsed", cumulative) >>)
        used == push_ops([receipt EXCEPT !.cumulative_gas_used = cumulative + GAS_USED],
            << TxReceiptOp("W", tx_id(b), "CumulativeGasUsed", cumulative + GAS_USED) >>)
        handed == IF is_last_tx THEN used
                  ELSE push_ops(used, << CallContextOp("W", rwc(used) + 1, "TxId", tx_id(b) + 1) >>)
    IN  Finish(handed, new_end_tx_step(b))

(* handle_tx: what precedes the opcodes of the trace, and what follows them. *)
handle_tx_begin(b, t) == gen_begin_tx_steps(new_tx(b, t))

handle_tx_end(b, is_last_tx) ==
    LET ended == gen_end_tx_steps(b, is_last_tx)
    IN  [ended EXCEPT !.sdb = commit_tx(@),
                      !.txs = Append(@, [tx |-> b.tx, calls |-> ended.calls,
                                         steps |-> ended.steps])]

\* Mutant: the value of the root call is written for every call of a transaction.
set_value_ops_call_context_rwc_eor_Root(b) ==
    [b EXCEPT !.ops = [i \in DOMAIN @ |->
        IF Tag(@[i]) = "CallContext" /\ Field(@[i]) = "RwCounterEndOfReversion"
        THEN LET at == b.call_map[Id(@[i])]
             IN  [@[i] EXCEPT ![6] = b.txs[at[1]].calls[1].rw_counter_end_of_reversion]
        ELSE @[i]]]

(* Every RwCounterEndOfReversion gets the value its call has in the end. *)
set_value_ops_call_context_rwc_eor(b) ==
    [b EXCEPT !.ops = [i \in DOMAIN @ |->
        IF Tag(@[i]) = "CallContext" /\ Field(@[i]) = "RwCounterEndOfReversion"
        THEN LET at == b.call_map[Id(@[i])]
             IN  [@[i] EXCEPT ![6] = b.txs[at[1]].calls[at[2]].rw_counter_end_of_reversion]
        ELSE @[i]]]

\* Mutant: the padding ends one row early.
set_end_block_ShortPadding(b) ==
    LET last == b.txs[Len(b.txs)].calls[1].call_id
        ended == IF b.txs = <<>> THEN b
                 ELSE push_ops(b, << CallContextOp("R", last, "TxId", Len(b.txs)) >>)
    IN  [ops |-> ended.ops, txs |-> b.txs, end_block_rwc |-> rwc(b),
         padding_end |-> MaxRws - rwc(ended), panic |-> b.panic, coinbase |-> b.coinbase]

(* The last step of the block counts the transactions; the rw table is padded in front
   with Start rows, the last of which has the rw counter padding_end. *)
set_end_block(b) ==
    LET last == b.txs[Len(b.txs)].calls[1].call_id
        ended == IF b.txs = <<>> THEN b
                 ELSE push_ops(b, << CallContextOp("R", last, "TxId", Len(b.txs)) >>)
    IN  [ops |-> ended.ops, txs |-> b.txs, end_block_rwc |-> rwc(b),
         padding_end |-> MaxRws - (rwc(ended) - 1), panic |-> b.panic,
         coinbase |-> b.coinbase]

handle_block_end(b) == set_end_block(set_value_ops_call_context_rwc_eor(b))

----------------------------------------------------------------------------
(* Opcodes within a call *)

(* PUSH, an instance of StackOnlyOpcode without pops. *)
Push(b, g, v) ==
    Finish(push_ops(b, StackWrite(b, nth_last_filled(g, 0) - 1, v)), new_step(b, g))

Mstore8(b, g) ==
    LET v == nth_last(g, 1)
        stored == push_ops(b, StackReads(b, g, 2) \o << MemoryOp("W", call(b).call_id, 0, v) >>)
    IN  Finish([stored EXCEPT !.ctxs[Len(b.ctxs)].memory = v], new_step(b, g))

StorageListOp(b, rw, v) ==
    TxAccessListAccountStorageOp(rw, tx_id(b), call(b).address, v,
        Bit(call(b).address \in b.sdb.access_list_account_storage))

IsWarm(b) == Bit(call(b).address \in b.sdb.access_list_account_storage)

Sload(b, g) ==
    LET a == call(b).address
        read == push_ops(b,
            CallReads(b, TxIdField(b) \o ReversionInfo(call(b)) \o CalleeField(b))
            \o StackReads(b, g, 1)
            \o << StorageOp("R", tx_id(b), a, g.storage, g.storage,
                            get_committed_storage(b.sdb, a)) >>
            \o StackWrite(b, nth_last_filled(g, 0), g.storage)
            \o << StorageListOp(b, "R", IsWarm(b)) >>)
    IN  Finish(push_op_reversible(read, StorageListOp(b, "W", 1)), new_step(b, g))

Sstore(b, g) ==
    LET a == call(b).address
        read == push_ops(b,
            CallReads(b, TxIdField(b) \o StaticField(b) \o ReversionInfo(call(b)) \o CalleeField(b))
            \o StackReads(b, g, 2))
        stored == push_op_reversible(read,
            StorageOp("W", tx_id(b), a, nth_last(g, 1), get_storage(b.sdb, a),
                      get_committed_storage(b.sdb, a)))
        listed == push_op_reversible(push_ops(stored, << StorageListOp(b, "R", IsWarm(b)) >>),
                                     StorageListOp(b, "W", 1))
    IN  Finish(push_op_reversible(listed, TxRefundOp("W", tx_id(b), g.refund, b.sdb.refund)),
               new_step(b, g))

(* LOG0 or LOG1: only a persistent call leaves a log behind. *)
Topics(op) == IF op = "LOG0" THEN 0 ELSE 1

Log(b, g) ==
    LET c == call(b)
        persistent == c.is_persistent
        LogOp(field, index, v) ==
            IF persistent THEN << TxLogOp(tx_id(b), b.log_id + 1, field, index, v) >> ELSE <<>>
        topic == IF Topics(g.exec_state) = 0 THEN <<>>
                 ELSE << StackReads(b, g, 3)[3] >> \o LogOp("Topic", 0, nth_last(g, 2))
        data == IF ~persistent \/ nth_last(g, 1) = 0 THEN <<>>
                ELSE << MemoryOp("R", c.call_id, 0, call_ctx(b).memory) >>
                     \o LogOp("Data", 0, call_ctx(b).memory)
        logged == push_ops(b,
            StackReads(b, g, 2)
            \o CallReads(b, TxIdField(b) \o StaticField(b) \o CalleeField(b)
                            \o << <<"IsPersistent", Bit(persistent)>> >>)
            \o LogOp("Address", 0, c.address) \o topic \o data)
    IN  Finish([logged EXCEPT !.log_id = @ + Bit(persistent)], new_step(b, g))

----------------------------------------------------------------------------
(* Calls and creations *)

\* Mutant: the reversible writes of the step itself are not saved.
SavedCaller_CounterBefore(g, op, counter) ==
    << <<"ProgramCounter", g.pc + 1>>, <<"StackPointer", nth_last_filled(g, NArgs(op) - 1)>>,
       <<"GasLeft", 0>>, <<"MemorySize", 0>>, <<"ReversibleWriteCounter", counter - 1>> >>

(* What the caller's step saves for its return. *)
SavedCaller(g, op, counter) ==
    << <<"ProgramCounter", g.pc + 1>>, <<"StackPointer", nth_last_filled(g, NArgs(op) - 1)>>,
       <<"GasLeft", 0>>, <<"MemorySize", 0>>, <<"ReversibleWriteCounter", counter>> >>

CalleeContext(b, c) ==
    << <<"CallerId", c.caller_id>>, <<"TxId", tx_id(b)>>, <<"Depth", c.depth>>,
       <<"CallerAddress", c.caller_address>>, <<"CalleeAddress", c.address>>,
       <<"CallDataOffset", 0>>, <<"CallDataLength", c.call_data_length>>,
       <<"ReturnDataOffset", 0>>, <<"ReturnDataLength", c.return_data_length>>,
       <<"Value", c.value>>, <<"IsSuccess", Bit(c.is_success)>>, <<"IsStatic", Bit(c.is_static)>> >>
    \o LastCallee(0, 0, 0)
    \o << <<"IsRoot", 0>>, <<"IsCreate", 0>>, <<"CodeHash", c.code_hash>> >>

(* A callee that executes nothing returns within the step; id is its LastCalleeId. *)
ReturnAtOnce(d, g, caller_id, id) ==
    handle_return(push_ops(d, CallContextOps("W", caller_id, LastCallee(id, 0, 0))), g, FALSE)

(* The caller's context, the arguments and the result of a call c. *)
CallArguments(b, g, c) ==
    LET op == g.exec_state
        current == call(b)
        delegate == IF op = "DELEGATECALL"
                    THEN << <<"CallerAddress", current.caller_address>>, <<"Value", current.value>> >>
                    ELSE <<>>
    IN  push_ops(b,
            CallReads(b, TxIdField(b) \o ReversionInfo(current) \o StaticField(b)
                         \o << <<"Depth", current.depth>> >> \o CalleeField(b) \o delegate)
            \o StackReads(b, g, NArgs(op))
            \o StackWrite(b, nth_last_filled(g, NArgs(op) - 1), Bit(c.is_success)))

(* CALL, CALLCODE, DELEGATECALL and STATICCALL; precompiled contracts are left out. *)
CallOpcode(b, g) ==
    LET op == g.exec_state
        c == parse_call(b, g)
        current == call(b)
        step == new_step(b, g)
        callee == get_account(b.sdb, c.code_address)
        listed == tx_access_list_write(
            account_read(CallArguments(b, g, c), c.code_address, "CodeHash", CodeHashWord(callee)),
            c.code_address)
        pushed == push_ops(push_call(listed, c), CallContextOps("W", c.call_id, ReversionInfo(c)))
        balance == get_account(pushed.sdb, c.caller_address).balance
        is_precheck_ok == /\ current.depth < CallDepthLimit
                          /\ balance >= c.value \/ op \notin {"CALL", "CALLCODE"}
        balanced == account_read(pushed, c.caller_address, "Balance", balance)
        sent == IF op = "CALL" /\ is_precheck_ok /\ c.value # 0
                THEN transfer(balanced, c.caller_address, c.address, ~is_empty(callee), FALSE, c.value)
                ELSE balanced
        entered == push_ops(sent,
            CallContextOps("W", current.call_id,
                SavedCaller(g, op, step.reversible_write_counter + 1))
            \o CallContextOps("W", c.call_id, CalleeContext(b, c)))
    IN  Finish(IF is_precheck_ok /\ CodeHashWord(callee) \notin {0, EMPTY_HASH}
               THEN entered
               ELSE ReturnAtOnce(sent, g, current.call_id, c.call_id),
               step)

\* Mutant: the callee of a creation does not learn who made it.
CreateContext_NoCaller(b, c) ==
    << <<"IsSuccess", Bit(c.is_success)>>,
       <<"IsPersistent", Bit(c.is_persistent)>>, <<"TxId", tx_id(b)>>,
       <<"CallerAddress", c.caller_address>>, <<"CalleeAddress", c.address>>,
       <<"RwCounterEndOfReversion", 0>>, <<"Depth", c.depth>>, <<"IsRoot", 0>>,
       <<"IsStatic", 0>>, <<"IsCreate", 1>>, <<"CodeHash", c.code_hash>> >>

CreateContext(b, c) ==
    << <<"CallerId", c.caller_id>>, <<"IsSuccess", Bit(c.is_success)>>,
       <<"IsPersistent", Bit(c.is_persistent)>>, <<"TxId", tx_id(b)>>,
       <<"CallerAddress", c.caller_address>>, <<"CalleeAddress", c.address>>,
       <<"RwCounterEndOfReversion", 0>>, <<"Depth", c.depth>>, <<"IsRoot", 0>>,
       <<"IsStatic", 0>>, <<"IsCreate", 1>>, <<"CodeHash", c.code_hash>> >>

(* The caller's context, the arguments and the result of a creation c. *)
CreateArguments(b, g, c) ==
    LET op == g.exec_state
        current == call(b)
        caller_account == get_account(b.sdb, current.address)
    IN  account_read(account_read(
            push_ops(b,
                CallReads(b, TxIdField(b) \o << <<"Depth", current.depth>> >> \o ReversionInfo(current))
                \o StackReads(b, g, NArgs(op))
                \o StackWrite(b, nth_last_filled(g, NArgs(op) - 1),
                              IF c.is_success THEN c.address ELSE 0)),
            current.address, "Balance", caller_account.balance),
            current.address, "Nonce", caller_account.nonce)

(* handle_copy: the init code is read from the memory of the caller. *)
CopyInitCode(d, caller_id, byte) == push_ops(d, << MemoryOp("R", caller_id, 0, byte) >>)

(* The new account gets its balance and its nonce, after the init code was copied. *)
NewContract(d, c, current, length, byte, callee_exists) ==
    LET copied == IF length = 0 THEN d ELSE CopyInitCode(d, current.call_id, byte)
    IN  push_op_reversible(
            transfer(copied, current.address, c.address, callee_exists, ~callee_exists, c.value),
            AccountOp("W", c.address, "Nonce", 1, 0))

(* CREATE and CREATE2.  The caller's nonce and the access list are written before the
   callee's context is pushed, the new account after it. *)
Create(b, g) ==
    LET op == g.exec_state
        c == parse_call(b, g)
        current == call(b)
        step == new_step(b, g)
        length == nth_last(g, 2)
        caller_account == get_account(b.sdb, current.address)
        callee_exists == ~is_empty(get_account(b.sdb, c.address))
        read == CreateArguments(b, g, c)
        is_precheck_ok == current.depth < CallDepthLimit /\ caller_account.balance >= c.value
        prepared ==
            IF ~is_precheck_ok THEN read
            ELSE account_read(
                tx_access_list_write(
                    push_op_reversible(read,
                        AccountOp("W", current.address, "Nonce",
                                  caller_account.nonce + 1, caller_account.nonce)),
                    c.address),
                c.address, "CodeHash",
                IF callee_exists THEN get_account(b.sdb, c.address).code_hash ELSE 0)
        pushed == push_ops(
            push_call(push_ops(prepared, CallContextOps("W", current.call_id,
                          SavedCaller(g, op, step.reversible_write_counter + 2))), c),
            CallContextOps("W", c.call_id, ReversionInfo(c)))
        created == NewContract(pushed, c, current, length, call_ctx(b).memory, callee_exists)
    IN  Finish(IF ~is_precheck_ok \/ callee_exists
               THEN ReturnAtOnce(pushed, g, current.call_id, 0)
               ELSE IF length = 0 THEN ReturnAtOnce(created, g, current.call_id, 0)
               ELSE push_ops(created, CallContextOps("W", c.call_id, CreateContext(b, c))),
               step)

----------------------------------------------------------------------------
(* The end of a call *)

Stop(b, g) ==
    Finish(handle_return(push_ops(b, CallReads(b, << <<"IsSuccess", 1>> >>)),
                         g, ~call(b).is_root),
           new_step(b, g))

(* Case A, handle_create: the code a creation returns is copied and its hash recorded. *)
DeployCode(b, d) ==
    LET c == call(b)
        byte == MemoryOp("R", c.call_id, 0, call_ctx(b).memory)
    IN  push_op_reversible(
            push_ops(d, << byte, byte >>
                \o CallReads(b, << <<"CallerId", c.caller_id>> >> \o CalleeField(b)
                                \o ReversionInfo(c))),
            AccountOp("W", c.address, "CodeHash", CodeHashOf(call_ctx(b).memory), EMPTY_HASH))

(* Case D, handle_copy: the data returned is copied into the memory of the caller. *)
CopyReturned(b, d, length) ==
    LET c == call(b)
        byte == call_ctx(b).memory
        read == push_ops(d, CallReads(b, << <<"ReturnDataOffset", 0>>,
                                            <<"ReturnDataLength", c.return_data_length>> >>))
    IN  IF length = 0 \/ c.return_data_length = 0 THEN read
        ELSE [push_ops(read, << MemoryOp("R", c.call_id, 0, byte),
                                MemoryOp("W", c.caller_id, 0, byte) >>)
                 EXCEPT !.ctxs[Len(b.ctxs) - 1].memory = byte]

(* RETURN and REVERT, by the cases A to D of the code. *)
ReturnRevert(b, g) ==
    LET c == call(b)
        length == nth_last(g, 1)
        read == push_ops(b, StackReads(b, g, 2) \o CallReads(b, << <<"IsSuccess", Bit(c.is_success)>> >>))
        deployed == IF is_create(c) /\ c.is_success /\ length > 0 THEN DeployCode(b, read) ELSE read
        ended == IF c.is_root
                 THEN push_ops(deployed, CallReads(b, << <<"IsPersistent", Bit(c.is_persistent)>> >>))
                 ELSE handle_restore_context(deployed, g)
        returned == IF c.is_root \/ is_create(c) THEN ended ELSE CopyReturned(b, ended, length)
    IN  Finish(handle_return(returned, g, FALSE), new_step(b, g))

\* Mutant: the account goes even if the call that destroys it is undone later.
SelfDestruct_Always(b, g) ==
    LET a == call(b).address
        receiver == nth_last(g, 0)
        sent == transfer(tx_access_list_write(b, receiver), a, receiver, TRUE, FALSE,
                         get_account(b.sdb, a).balance)
        destructed == [sent EXCEPT !.sdb = destruct_account(@, a)]
    IN  Finish(handle_return(destructed, g, FALSE), new_step(b, g))

(* dummy_gen_selfdestruct_ops; the receiver exists, as the code assumes. *)
SelfDestruct(b, g) ==
    LET a == call(b).address
        receiver == nth_last(g, 0)
        sent == transfer(tx_access_list_write(b, receiver), a, receiver, TRUE, FALSE,
                         get_account(b.sdb, a).balance)
        destructed == IF call(b).is_persistent
                      THEN [sent EXCEPT !.sdb = destruct_account(@, a)] ELSE sent
    IN  Finish(handle_return(destructed, g, FALSE), new_step(b, g))

(* Errors that need no operation of their own: invalid opcode, stack over- and underflow. *)
ErrorSimple(b, g) == Finish(handle_return(b, g, TRUE), new_step(b, g))

(* A write in a static context; g.opcode is the offending opcode. *)
ErrorWriteProtection(b, g) ==
    LET read == push_ops(b, (IF g.opcode = "CALL" THEN StackReads(b, g, 3) ELSE <<>>)
                            \o CallReads(b, StaticField(b)))
    IN  Finish(handle_return(read, g, TRUE), new_step(b, g))
=============================================================================
