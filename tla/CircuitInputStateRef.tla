------------------------ MODULE CircuitInputStateRef ------------------------
(***************************************************************************)
(* What bus-mapping threads through the opcodes of a block                 *)
(* (CircuitInputBuilder and CircuitInputStateRef): the operations so far,  *)
(* the StateDB, the calls of the transaction, its call stack and reversion *)
(* groups, and the execution steps.  Operators map a builder b to the      *)
(* builder after the call.                                                 *)
(*                                                                         *)
(* Gas and memory sizes are left out.  A memory is one cell, at address 0, *)
(* that stands for the bytes an opcode copies; an account has one slot.    *)
(***************************************************************************)
EXTENDS StateDB, SequencesExt

(* The code hash as the state circuit encodes it: 0 for an account that does not exist. *)
CodeHashWord(account) == IF is_empty(account) THEN 0 ELSE account.code_hash

----------------------------------------------------------------------------
(* The builder *)

NewBuilder(sdb, coinbase) ==
    [ops |-> <<>>, sdb |-> sdb, coinbase |-> coinbase, txs |-> <<>>, call_map |-> <<>>,
     tx |-> <<>>, calls |-> <<>>, steps |-> <<>>, ctxs |-> <<>>, groups |-> <<>>,
     log_id |-> 0, is_last_tx |-> FALSE, cumulative_gas_used |-> 0, panic |-> FALSE]

rwc(b)        == Len(b.ops) + 1
tx_id(b)      == Len(b.txs) + 1
call_ctx(b)   == Last(b.ctxs)
call(b)       == b.calls[call_ctx(b).index]
caller_ctx(b) == b.ctxs[Len(b.ctxs) - 1]
caller(b)     == b.calls[caller_ctx(b).index]
is_create(c)  == c.kind \in {"CREATE", "CREATE2"}

(* The stack of a geth step: the top is last, and lies at the lowest stack address. *)
nth_last(g, i)        == g.stack[Len(g.stack) - i]

nth_last_filled(g, i) == STACK_CAPACITY - Len(g.stack) + i

new_step(b, g) ==
    [exec_state |-> g.exec_state, opcode |-> g.opcode, rwc |-> rwc(b), call_index |-> call_ctx(b).index,
     pc |-> g.pc, stack_pointer |-> nth_last_filled(g, 0),
     reversible_write_counter |-> call_ctx(b).reversible_write_counter,
     log_id |-> b.log_id]

new_begin_tx_step(b) ==
    [exec_state |-> "BeginTx", opcode |-> "", rwc |-> rwc(b), call_index |-> 1, pc |-> 0,
     stack_pointer |-> STACK_CAPACITY, reversible_write_counter |-> 0, log_id |-> 0]

(* A transaction without code still has its root call on the call stack. *)
new_end_tx_step(b) ==
    [new_begin_tx_step(b) EXCEPT
        !.exec_state = "EndTx", !.log_id = b.log_id,
        !.reversible_write_counter =
            IF b.ctxs = <<>> THEN 0 ELSE call_ctx(b).reversible_write_counter]

Finish(b, step) == [b EXCEPT !.steps = Append(@, step)]

(***************************************************************************)
(* check_update_sdb_account: the operation must agree with the StateDB     *)
(* (the code panics when it does not); a write is then applied.            *)
(***************************************************************************)
check_update_sdb_account(b, op) ==
    LET account == get_account(b.sdb, Address(op))
        field == CASE Field(op) = "Nonce" -> "nonce"
                   [] Field(op) = "Balance" -> "balance"
                   [] Field(op) = "CodeHash" -> "code_hash"
        prev == IF field = "code_hash" THEN CodeHashWord(account) ELSE account[field]
        mismatch ==
            \/ Rw(op) = "R" /\ ValuePrev(op) # Value(op)
            \/ ValuePrev(op) # prev
            \/ /\ field # "code_hash"
               /\ is_empty(account)
               /\ Rw(op) = "R" \/ (ValuePrev(op) = 0 /\ Value(op) = 0)
        noop == field = "code_hash" /\ is_empty(account) /\ Value(op) = 0
                /\ ~(Rw(op) = "R" /\ ValuePrev(op) # Value(op))
    IN  IF noop THEN b
        ELSE IF mismatch THEN [b EXCEPT !.panic = TRUE]
        ELSE IF Rw(op) = "R" THEN b
        ELSE [b EXCEPT !.sdb = set_account(@, Address(op), [account EXCEPT ![field] = Value(op)])]

(* push_op, for an operation on an account and for a sequence of others. *)
push_account_op(b, op) ==
    [check_update_sdb_account(b, op) EXCEPT !.ops = Append(@, op)]

push_ops(b, ops) == [b EXCEPT !.ops = @ \o ops]

account_read(b, a, field, v) == push_account_op(b, AccountOp("R", a, field, v, v))
account_write(b, a, field, v, p) == push_account_op(b, AccountOp("W", a, field, v, p))

\* Mutant: the reversal of an access-list write leaves the address in the list.
Warmed_AddOnly(set, op) ==
    IF ValuePrev(op) = 0 /\ Value(op) = 1 THEN set \cup {Address(op)} ELSE set

(* add_account_to_access_list and remove_account_from_access_list. *)
Warmed(set, op) ==
    IF ValuePrev(op) = 0 /\ Value(op) = 1 THEN set \cup {Address(op)}
    ELSE IF ValuePrev(op) = 1 /\ Value(op) = 0 THEN set \ {Address(op)}
    ELSE set

check_apply_op(b, op) ==
    CASE Tag(op) = "Storage" ->
             [b EXCEPT !.sdb = set_storage(@, Address(op), Value(op))]
      [] Tag(op) = "TxAccessListAccount" ->
             [b EXCEPT !.sdb.access_list_account = Warmed(@, op)]
      [] Tag(op) = "TxAccessListAccountStorage" ->
             [b EXCEPT !.sdb.access_list_account_storage = Warmed(@, op)]
      [] Tag(op) = "Account" -> check_update_sdb_account(b, op)
      [] Tag(op) = "TxRefund" -> [b EXCEPT !.sdb.refund = Value(op)]

(* A write that a failing call must undo.  It is counted in the context of the current
   call; while that call is not persistent it is kept, with the place its step will
   have, in the last reversion group. *)
push_op_reversible(b, op) ==
    LET applied == [check_apply_op(b, op) EXCEPT
                       !.ops = Append(@, op),
                       !.ctxs[Len(b.ctxs)].reversible_write_counter = @ + 1]
    IN  IF call(b).is_persistent THEN applied
        ELSE [applied EXCEPT !.groups[Len(b.groups)].op_refs =
                                 Append(@, [step |-> Len(b.steps) + 1, op |-> rwc(b)])]

tx_access_list_write(b, a) ==
    push_op_reversible(b,
        TxAccessListAccountOp("W", tx_id(b), a, 1, Bit(a \in b.sdb.access_list_account)))

\* Mutant: the receiver's balance is read before the sender's is written.
transfer_StaleBalance(b, sender, receiver, receiver_exists, must_create, value) ==
    LET sender_prev == get_account(b.sdb, sender).balance
        receiver_prev == get_account(b.sdb, receiver).balance
        created == IF (~receiver_exists /\ value # 0) \/ must_create
                   THEN push_op_reversible(b, AccountOp("W", receiver, "CodeHash", EMPTY_HASH, 0))
                   ELSE b
    IN  IF value = 0 THEN created
        ELSE push_op_reversible(
                 push_op_reversible(created,
                     AccountOp("W", sender, "Balance", sender_prev - value, sender_prev)),
                 AccountOp("W", receiver, "Balance", receiver_prev + value, receiver_prev))

transfer(b, sender, receiver, receiver_exists, must_create, value) ==
    LET sender_prev == get_account(b.sdb, sender).balance
        created == IF (~receiver_exists /\ value # 0) \/ must_create
                   THEN push_op_reversible(b, AccountOp("W", receiver, "CodeHash", EMPTY_HASH, 0))
                   ELSE b
        sent == push_op_reversible(created,
                    AccountOp("W", sender, "Balance", sender_prev - value, sender_prev))
        receiver_prev == get_account(sent.sdb, receiver).balance
    IN  IF value = 0 THEN created
        ELSE push_op_reversible(sent,
                 AccountOp("W", receiver, "Balance", receiver_prev + value, receiver_prev))

(* The fee is paid first, and for good. *)
transfer_with_fee(b, sender, receiver, receiver_exists, must_create, value, fee) ==
    LET prev == get_account(b.sdb, sender).balance
    IN  transfer(account_write(b, sender, "Balance", prev - fee, prev),
                 sender, receiver, receiver_exists, must_create, value)

transfer_to_irreversible(b, receiver, receiver_exists, value) ==
    LET created == IF receiver_exists THEN b
                   ELSE account_write(b, receiver, "CodeHash", EMPTY_HASH, 0)
        prev == get_account(b.sdb, receiver).balance
    IN  IF value = 0 THEN b ELSE account_write(created, receiver, "Balance", prev + value, prev)

----------------------------------------------------------------------------
(* Calls *)

(* RwCounterEndOfReversion holds a placeholder until the block is finished. *)
ReversionInfo(c) ==
    << <<"RwCounterEndOfReversion", 0>>, <<"IsPersistent", Bit(c.is_persistent)>> >>

(* Transaction::push_call and TransactionContext::push_call_ctx. *)
push_call(b, c) ==
    LET index == Len(b.calls) + 1
        group == Last(b.groups)
        caller_offset == SelectSeq(group.calls,
                                   LAMBDA x : x.index = call_ctx(b).index)[1].offset
        pushed == [b EXCEPT
            !.calls = Append(@, c),
            !.ctxs = Append(@, [index |-> index, reversible_write_counter |-> 0, memory |-> 0]),
            !.call_map = (c.call_id :> <<tx_id(b), index>>) @@ @]
    IN  IF ~c.is_success
        THEN [pushed EXCEPT !.groups =
                 Append(@, [calls |-> <<[index |-> index, offset |-> 0]>>, op_refs |-> <<>>])]
        ELSE IF b.groups = <<>> THEN pushed
        ELSE [pushed EXCEPT !.groups[Len(b.groups)].calls =
                 Append(@, [index |-> index,
                            offset |-> call_ctx(b).reversible_write_counter + caller_offset])]

(* A call that succeeds leaves its reversible writes to its caller. *)
pop_call_ctx(b) ==
    LET ctxs == Front(b.ctxs)
    IN  [b EXCEPT !.ctxs =
            IF call(b).is_success /\ ctxs # <<>>
            THEN [ctxs EXCEPT ![Len(ctxs)].reversible_write_counter =
                                   @ + call_ctx(b).reversible_write_counter]
            ELSE ctxs]

NArgs(op) == CASE op \in {"CALL", "CALLCODE"} -> 7
               [] op \in {"DELEGATECALL", "STATICCALL"} -> 6
               [] op = "CREATE" -> 3
               [] op = "CREATE2" -> 4

(* The call that a CALL or CREATE step makes: its id is the rw counter of the moment,
   its success what the trace says, its persistence that of the whole chain of calls. *)
parse_call(b, g) ==
    LET c == call(b)
        op == g.exec_state
        creates == op \in {"CREATE", "CREATE2"}
        code_address == nth_last(g, 1)
    IN  [call_id |-> rwc(b), caller_id |-> c.call_id, kind |-> op, is_root |-> FALSE,
         is_static |-> op = "STATICCALL" \/ c.is_static,
         is_persistent |-> c.is_persistent /\ g.callee_is_success,
         is_success |-> g.callee_is_success,
         rw_counter_end_of_reversion |-> 0,
         caller_address |-> IF op = "DELEGATECALL" THEN c.caller_address ELSE c.address,
         address |-> CASE op \in {"CALL", "STATICCALL"} -> code_address
                       [] op \in {"CALLCODE", "DELEGATECALL"} -> c.address
                       [] op = "CREATE" ->
                              CreateAddress(c.address, get_account(b.sdb, c.address).nonce)
                       [] op = "CREATE2" -> Create2Address(c.address),
         code_address |-> IF creates THEN 0 ELSE code_address,
         code_hash |-> IF ~creates THEN get_account(b.sdb, code_address).code_hash
                       ELSE IF nth_last(g, 2) = 0 THEN EMPTY_HASH
                       ELSE CodeHashOf(call_ctx(b).memory),
         depth |-> c.depth + 1,
         value |-> CASE op \in {"CALL", "CALLCODE"} -> nth_last(g, 2)
                     [] op = "DELEGATECALL" -> c.value
                     [] op = "STATICCALL" -> 0
                     [] OTHER -> nth_last(g, 0),
         call_data_length |-> IF creates THEN 0 ELSE nth_last(g, NArgs(op) - 3),
         return_data_length |-> IF creates THEN 0 ELSE nth_last(g, NArgs(op) - 1)]

\* Mutant: the reversals are recorded but not applied to the state database.
handle_reversion_NotApplied(b) ==
    LET group == Last(b.groups)
        n == Len(group.op_refs)
        base == Len(b.ops) + n
        Eor(i) == LET own == SelectSeq(group.calls, LAMBDA x : x.index = i)
                  IN  IF own = <<>> THEN b.calls[i].rw_counter_end_of_reversion
                      ELSE base - own[1].offset
    IN  [b EXCEPT
            !.groups = Front(@),
            !.ops = @ \o [k \in 1 .. n |-> ReverseOp(b.ops[group.op_refs[n - k + 1].op])],
            !.calls = [i \in DOMAIN @ |-> [@[i] EXCEPT !.rw_counter_end_of_reversion = Eor(i)]]]

(***************************************************************************)
(* handle_reversion: the writes of the failing call's group are undone, in *)
(* reverse order; each reversal is attributed to the step of its write,    *)
(* which must be in the list of steps already.  Then every call of the     *)
(* group learns where the reversal of its own writes ends.                 *)
(***************************************************************************)
handle_reversion(b) ==
    LET group == Last(b.groups)
        n == Len(group.op_refs)
        undo[k \in 0 .. n] ==
            IF k = 0 THEN [b EXCEPT !.groups = Front(@)]
            ELSE LET done == undo[k - 1]
                     ref == group.op_refs[n - k + 1]
                     op == ReverseOp(b.ops[ref.op])
                 IN  [check_apply_op(done, op) EXCEPT
                         !.ops = Append(@, op),
                         !.panic = @ \/ ref.step \notin DOMAIN b.steps]
        reverted == undo[n]
        Eor(i) == LET own == SelectSeq(group.calls, LAMBDA x : x.index = i)
                  IN  IF own = <<>> THEN b.calls[i].rw_counter_end_of_reversion
                      ELSE rwc(reverted) - 1 - own[1].offset
    IN  [reverted EXCEPT !.calls =
            [i \in DOMAIN @ |-> [@[i] EXCEPT !.rw_counter_end_of_reversion = Eor(i)]]]

(* Returned data: offset and length of RETURN and REVERT, nothing for the others. *)
ReturnedLength(g) ==
    IF g.exec_state \in {"RETURN", "REVERT"} /\ ~g.error THEN nth_last(g, 1) ELSE 0

(* Bus mapping for RestoreContextGadget.  g.next_pc and g.next_stack_pointer are the
   next step of the trace. *)
handle_restore_context(b, g) ==
    LET c == call(b)
        failure == IF ~c.is_success /\ ~(g.exec_state \in {"RETURN", "REVERT"} /\ ~g.error)
                   THEN << <<"IsSuccess", 0>>, <<"RwCounterEndOfReversion", 0>> >>
                   ELSE <<>>
        up == caller(b)
        discard == (is_create(c) /\ g.exec_state = "RETURN") \/ g.error
        restore ==
            << <<"IsRoot", Bit(up.is_root)>>, <<"IsCreate", Bit(is_create(up))>>,
               <<"CodeHash", up.code_hash>>, <<"ProgramCounter", g.next_pc>>,
               <<"StackPointer", g.next_stack_pointer>>, <<"GasLeft", 0>>,
               <<"MemorySize", 0>>,
               <<"ReversibleWriteCounter", caller_ctx(b).reversible_write_counter>> >>
    IN  push_ops(b,
            CallContextOps("R", c.call_id, failure)
            \o IF c.is_root THEN <<>>
               ELSE CallContextOps("R", c.call_id, << <<"CallerId", up.call_id>> >>)
                    \o CallContextOps("R", up.call_id, restore)
                    \o CallContextOps("W", up.call_id,
                           LastCallee(c.call_id, 0, IF discard THEN 0 ELSE ReturnedLength(g))))

(* The deployed code of a successful create is stored. *)
Deploy(b, g) ==
    LET c == call(b)
        account == get_account(b.sdb, c.address)
    IN  IF is_create(c) /\ c.is_success /\ g.exec_state = "RETURN"
        THEN [b EXCEPT !.sdb = set_account(@, c.address,
                 [account EXCEPT !.code_hash = IF nth_last(g, 1) = 0 THEN EMPTY_HASH
                                               ELSE CodeHashOf(call_ctx(b).memory)])]
        ELSE b

\* Mutant: the context is popped only where the caller's is restored.
handle_return_PopOnRestore(b, g, need_restore) ==
    LET deployed == Deploy(IF need_restore THEN handle_restore_context(b, g) ELSE b, g)
        ended == IF call(b).is_success THEN deployed ELSE handle_reversion(deployed)
    IN  IF need_restore THEN pop_call_ctx(ended) ELSE ended

(* The end of a call: the writes of a failing one are undone, the context is popped. *)
handle_return(b, g, need_restore) ==
    LET deployed == Deploy(IF need_restore THEN handle_restore_context(b, g) ELSE b, g)
    IN  pop_call_ctx(IF call(b).is_success THEN deployed ELSE handle_reversion(deployed))
=============================================================================
