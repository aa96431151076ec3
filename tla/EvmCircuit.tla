----------------------------- MODULE EvmCircuit -----------------------------
(***************************************************************************)
(* A block from geth through bus-mapping into the EVM circuit.  The EVM    *)
(* (geth, external) executes transactions; bus-mapping follows its trace   *)
(* step by step; when the block is finished, its witness is checked        *)
(* against the execution gadgets.                                          *)
(*                                                                         *)
(* The success of a call is chosen when it is entered, as bus-mapping      *)
(* knows it from the whole trace, and only an end that agrees is taken.    *)
(* An opcode action includes the PUSHes of its arguments, each of them a   *)
(* step of its own.                                                        *)
(***************************************************************************)
EXTENDS BusMapping, ExecutionGadgets

CONSTANTS
    Accounts,     \* address -> account, before the block
    Slots,        \* address -> value of its slot, before the block
    Coinbase,
    Programs,     \* name -> what a block may be made of: its transactions (txs, at most
                  \* max_txs), its opcodes (at most budget of them do not end a call),
                  \* the addresses it calls (targets), the values it sends and stores
                  \* (values) and the lengths of the memory it copies (lengths)
    Disputed      \* situations, named below, that the block may contain

VARIABLES
    b,        \* bus-mapping's builder; in the end, the witness of the block
    world,    \* geth: the state, in the shape of a StateDB
    frames,   \* geth: the call frames, the current one last
    phase,    \* idle (between transactions), run, end (of a transaction), last, done
    plan      \* the program of the block and what is left of its budget

vars == <<b, world, frames, phase, plan>>

Program == Programs[plan.name]

Init ==
    /\ world = NewStateDB(Accounts, Slots)
    /\ b = NewBuilder(world, Coinbase)
    /\ frames = <<>>
    /\ phase = "idle"
    /\ \E name \in DOMAIN Programs : plan = [name |-> name, budget |-> Programs[name].budget]

----------------------------------------------------------------------------
(* geth *)

Account(w, a) == get_account(w, a)

AddBalance(w, a, v) == set_account(w, a, [Account(w, a) EXCEPT !.balance = @ + v])
SubBalance(w, a, v) == set_account(w, a, [Account(w, a) EXCEPT !.balance = @ - v])
SetNonce(w, a, n)   == set_account(w, a, [Account(w, a) EXCEPT !.nonce = n])
GethTransfer(w, from, to, v) ==
    IF v = 0 THEN w ELSE AddBalance(SubBalance(w, from, v), to, v)
Touch(w, addresses) == [w EXCEPT !.access_list_account = @ \cup addresses]
HasCode(w, a) == Account(w, a).code_hash # EMPTY_HASH

(* A fresh account, whether or not somebody sent it something before. *)
CanCreate(w, a) == Account(w, a).nonce = 0 /\ ~HasCode(w, a)

(* The end of a transaction: what was stored becomes the committed state, and the
   accounts it has destroyed are deleted. *)
Finalise(w) ==
    LET stored == w.dirty_storage @@ w.storage
        gone == w.destructed_account
    IN  NewStateDB([a \in DOMAIN w.accounts \ gone |-> w.accounts[a]],
                   [a \in DOMAIN stored \ gone |-> stored[a]])

NewFrame(w, is_success) ==
    [stack |-> <<>>, pc |-> 0, memory |-> 0, is_success |-> is_success, snapshot |-> w]

Frame == Last(frames)

(* calc_expected_tx_refund, after makeGasSStoreFunc of geth. *)
calc_expected_tx_refund(old, value, prev, original) ==
    LET cleared == IF original = 0 THEN old
                   ELSE old - (IF prev = 0 THEN SSTORE_CLEARS_SCHEDULE ELSE 0)
                            + (IF value = 0 THEN SSTORE_CLEARS_SCHEDULE ELSE 0)
        reset == IF original # value THEN 0
                 ELSE IF original = 0 THEN SSTORE_SET - WARM_ACCESS
                 ELSE SSTORE_RESET - WARM_ACCESS
    IN  IF prev = value THEN old ELSE cleared + reset

----------------------------------------------------------------------------
(* The trace *)

GethStep(f, op) ==
    [exec_state |-> op, opcode |-> op, error |-> FALSE, pc |-> f.pc, stack |-> f.stack,
     next_pc |-> 0, next_stack_pointer |-> STACK_CAPACITY, callee_is_success |-> FALSE,
     storage |-> 0, refund |-> 0]

(* The builder and the frame after the arguments (the top of the stack first) have been
   pushed. *)
Pushed(args) ==
    LET n == Len(args)
        after[k \in 0 .. n] ==
            IF k = 0 THEN [b |-> b, f |-> Frame]
            ELSE LET before == after[k - 1]
                     v == args[n - k + 1]
                 IN  [b |-> Push(before.b, GethStep(before.f, "PUSH"), v),
                      f |-> [before.f EXCEPT !.stack = Append(@, v), !.pc = @ + 1]]
    IN  after[n]

(* The frame after an opcode that takes n arguments and leaves the results. *)
Advance(f, n, results) ==
    [f EXCEPT !.pc = @ + 1, !.stack = SubSeq(@, 1, Len(@) - n) \o results]

Continue(f) == frames' = [frames EXCEPT ![Len(frames)] = f]

Runs(op) == phase = "run" /\ op \in Program.opcodes

Spend == plan.budget > 0 /\ plan' = [plan EXCEPT !.budget = @ - 1]

(* The end of the current call: a failing one leaves the state of its entry. *)
Halt(w, f) ==
    /\ world' = IF f.is_success THEN w ELSE f.snapshot
    /\ frames' = Front(frames)
    /\ phase' = IF Len(frames) = 1 THEN "end" ELSE "run"
    /\ UNCHANGED plan

(* The step after a halting one is in the caller, whose frame has its result already. *)
HaltStep(f, op) ==
    IF Len(frames) = 1 THEN GethStep(f, op)
    ELSE LET up == frames[Len(frames) - 1]
         IN  [GethStep(f, op) EXCEPT !.next_pc = up.pc,
                                     !.next_stack_pointer = STACK_CAPACITY - Len(up.stack)]

----------------------------------------------------------------------------
(* Transactions *)

BeginTx(t, is_success) ==
    LET sender == Account(world, t.from)
        creates == t.to = 0
        address == IF creates THEN CreateAddress(t.from, sender.nonce) ELSE t.to
        runs == creates \/ HasCode(world, t.to)
        charged == Touch(SetNonce(SubBalance(world, t.from, Fee), t.from, sender.nonce + 1),
                         {t.from, address, Coinbase})
        entered == IF creates THEN SetNonce(charged, address, 1) ELSE charged
    IN  /\ phase = "idle"
        /\ sender.balance >= Fee + t.value
        /\ runs \/ is_success
        /\ "new account without value" \in Disputed
               \/ creates \/ t.value # 0 \/ ~is_empty(Account(world, t.to))
        /\ b' = handle_tx_begin(b, [from |-> t.from, to |-> t.to, value |-> t.value,
                                    nonce |-> sender.nonce, is_success |-> is_success])
        /\ world' = GethTransfer(entered, t.from, address, t.value)
        /\ frames' = << NewFrame(charged, is_success) >>
        /\ phase' = IF runs THEN "run" ELSE "end"
        /\ UNCHANGED plan

EndTx(is_last) ==
    /\ phase = "end"
    /\ Len(b.txs) + 1 = Program.max_txs => is_last
    /\ b' = handle_tx_end(b, is_last)
    /\ world' = Finalise(AddBalance(AddBalance(world, b.tx.from, GasReturned), Coinbase, Reward))
    /\ frames' = <<>>
    /\ phase' = IF is_last THEN "last" ELSE "idle"
    /\ UNCHANGED plan

EndBlock ==
    /\ phase = "last" \/ (phase = "idle" /\ b.txs = <<>>)
    /\ b' = handle_block_end(b)
    /\ phase' = "done"
    /\ UNCHANGED <<world, frames, plan>>

(* The block is complete. *)
Done == phase = "done" /\ UNCHANGED vars

----------------------------------------------------------------------------
(* Opcodes within a call *)

DoMstore8(v) ==
    LET p == Pushed(<<0, v>>)
    IN  /\ Runs("MSTORE8") /\ Spend
        /\ b' = Mstore8(p.b, GethStep(p.f, "MSTORE8"))
        /\ Continue([Advance(p.f, 2, <<>>) EXCEPT !.memory = v])
        /\ UNCHANGED <<world, phase>>

DoSload ==
    LET p == Pushed(<<0>>)
        a == call(b).address
        v == get_storage(world, a)
    IN  /\ Runs("SLOAD") /\ Spend
        /\ b' = Sload(p.b, [GethStep(p.f, "SLOAD") EXCEPT !.storage = v])
        /\ world' = [world EXCEPT !.access_list_account_storage = @ \cup {a}]
        /\ Continue(Advance(p.f, 1, <<v>>))
        /\ UNCHANGED phase

DoSstore(v) ==
    LET p == Pushed(<<0, v>>)
        a == call(b).address
        refund == calc_expected_tx_refund(world.refund, v, get_storage(world, a),
                                          get_committed_storage(world, a))
    IN  /\ Runs("SSTORE") /\ Spend /\ ~call(b).is_static
        /\ b' = Sstore(p.b, [GethStep(p.f, "SSTORE") EXCEPT !.refund = refund])
        /\ world' = [set_storage(world, a, v) EXCEPT
                        !.access_list_account_storage = @ \cup {a}, !.refund = refund]
        /\ Continue(Advance(p.f, 2, <<>>))
        /\ UNCHANGED phase

DoLog(op, length) ==
    LET args == <<0, length>> \o IF op = "LOG1" THEN <<1>> ELSE <<>>
        p == Pushed(args)
    IN  /\ Runs(op) /\ Spend /\ ~call(b).is_static
        /\ b' = Log(p.b, GethStep(p.f, op))
        /\ Continue(Advance(p.f, Len(args), <<>>))
        /\ UNCHANGED <<world, phase>>

----------------------------------------------------------------------------
(* Calls and creations *)

CallArgs(op, to, value, length) ==
    IF op \in {"CALL", "CALLCODE"} THEN <<0, to, value, 0, 0, 0, length>>
    ELSE <<0, to, 0, 0, 0, length>>

DoCall(op, to, value, length, is_success) ==
    LET args == CallArgs(op, to, value, length)
        p == Pushed(args)
        self == call(b).address
        ok == call(b).depth < CallDepthLimit /\ Account(world, self).balance >= value
        enters == ok /\ HasCode(world, to)
        touched == Touch(world, {to})
        after == Advance(p.f, Len(args), <<Bit(is_success)>>)
    IN  /\ Runs(op) /\ Spend
        /\ op \in {"CALL", "CALLCODE"} \/ value = 0
        /\ op = "CALL" /\ value # 0 => ~call(b).is_static
        /\ ~enters => is_success = ok
        /\ "depth limit" \in Disputed \/ op \in {"CALL", "CALLCODE"}
               \/ call(b).depth < CallDepthLimit
        /\ "value of a creation" \in Disputed \/ op # "DELEGATECALL"
               \/ ~is_create(call(b)) \/ call(b).is_root \/ call(b).value = 0
        /\ b' = CallOpcode(p.b, [GethStep(p.f, op) EXCEPT !.callee_is_success = is_success])
        /\ world' = IF op = "CALL" /\ ok THEN GethTransfer(touched, self, to, value) ELSE touched
        /\ frames' = [frames EXCEPT ![Len(frames)] = after]
                     \o IF enters THEN << NewFrame(touched, is_success) >> ELSE <<>>
        /\ UNCHANGED phase

DoCreate(op, value, length, is_success) ==
    LET args == <<value, 0, length>> \o IF op = "CREATE2" THEN <<0>> ELSE <<>>
        p == Pushed(args)
        self == call(b).address
        nonce == Account(world, self).nonce
        address == IF op = "CREATE" THEN CreateAddress(self, nonce) ELSE Create2Address(self)
        ok == call(b).depth < CallDepthLimit /\ Account(world, self).balance >= value
        created == ok /\ CanCreate(world, address)
        enters == created /\ length # 0
        counted == Touch(SetNonce(world, self, nonce + 1), {address})
        after == Advance(p.f, Len(args), <<IF is_success THEN address ELSE 0>>)
    IN  /\ Runs(op) /\ Spend /\ ~call(b).is_static
        /\ ~enters => is_success = created
        /\ "address collision" \in Disputed \/ ~ok \/ created
        /\ "funded address" \in Disputed \/ Account(world, address).balance = 0
        /\ b' = Create(p.b, [GethStep(p.f, op) EXCEPT !.callee_is_success = is_success])
        /\ world' = IF created THEN GethTransfer(SetNonce(counted, address, 1), self, address, value)
                    ELSE IF ok THEN counted ELSE world
        /\ frames' = [frames EXCEPT ![Len(frames)] = after]
                     \o IF enters THEN << NewFrame(counted, is_success) >> ELSE <<>>
        /\ UNCHANGED phase

----------------------------------------------------------------------------
(* The end of a call *)

DoStop ==
    /\ Runs("STOP") /\ Frame.is_success
    /\ b' = Stop(b, HaltStep(Frame, "STOP"))
    /\ Halt(world, Frame)

DoReturn(op, length) ==
    LET p == Pushed(<<0, length>>)
        c == call(b)
        deployed == IF is_create(c) /\ length # 0
                    THEN set_account(world, c.address,
                            [Account(world, c.address) EXCEPT !.code_hash = CodeHashOf(p.f.memory)])
                    ELSE world
        up == Len(frames) - 1
        copies == up > 0 /\ ~is_create(c) /\ length # 0 /\ c.return_data_length # 0
    IN  /\ Runs(op) /\ Frame.is_success = (op = "RETURN")
        /\ b' = ReturnRevert(p.b, HaltStep(p.f, op))
        /\ world' = IF Frame.is_success THEN deployed ELSE Frame.snapshot
        /\ frames' = IF copies THEN [Front(frames) EXCEPT ![up].memory = p.f.memory]
                     ELSE Front(frames)
        /\ phase' = IF up = 0 THEN "end" ELSE "run"
        /\ UNCHANGED plan

(* The beneficiary is the sender of the transaction. *)
DoSelfdestruct ==
    LET p == Pushed(<<b.tx.from>>)
        a == call(b).address
        sent == GethTransfer(Touch(world, {b.tx.from}), a, b.tx.from, Account(world, a).balance)
    IN  /\ Runs("SELFDESTRUCT") /\ Frame.is_success /\ ~call(b).is_static
        /\ b' = SelfDestruct(p.b, HaltStep(p.f, "SELFDESTRUCT"))
        /\ Halt(destruct_account(sent, a), Frame)

DoInvalid ==
    /\ Runs("INVALID") /\ ~Frame.is_success
    /\ b' = ErrorSimple(b, [HaltStep(Frame, "ErrorInvalidOpcode") EXCEPT !.error = TRUE])
    /\ Halt(world, Frame)

(* A write of any kind in a static call. *)
DoWriteProtection(op) ==
    LET p == Pushed(IF op = "CALL" THEN CallArgs(op, 0, 1, 0) ELSE <<0, 0>>)
    IN  /\ Runs(op) /\ Frame.is_success = FALSE /\ call(b).is_static
        /\ b' = ErrorWriteProtection(p.b,
                    [HaltStep(p.f, "ErrorWriteProtection") EXCEPT !.opcode = op, !.error = TRUE])
        /\ Halt(world, Frame)

Next ==
    \/ \E t \in Program.txs, is_success \in BOOLEAN : BeginTx(t, is_success)
    \/ \E is_last \in BOOLEAN : EndTx(is_last)
    \/ EndBlock
    \/ Done
    \/ \E v \in Program.values : DoMstore8(v) \/ DoSstore(v)
    \/ DoSload
    \/ \E op \in {"LOG0", "LOG1"}, length \in Program.lengths : DoLog(op, length)
    \/ \E op \in {"CALL", "CALLCODE", "DELEGATECALL", "STATICCALL"}, to \in Program.targets,
          value \in Program.values, length \in Program.lengths, is_success \in BOOLEAN :
           DoCall(op, to, value, length, is_success)
    \/ \E op \in {"CREATE", "CREATE2"}, value \in Program.values, length \in Program.lengths,
          is_success \in BOOLEAN : DoCreate(op, value, length, is_success)
    \/ DoStop
    \/ \E op \in {"RETURN", "REVERT"}, length \in Program.lengths : DoReturn(op, length)
    \/ DoSelfdestruct
    \/ DoInvalid
    \/ \E op \in {"SSTORE", "CALL"} : DoWriteProtection(op)

Spec == Init /\ [][Next]_vars

----------------------------------------------------------------------------
(* The circuit *)

StepCells(tx, step) ==
    LET c == tx.calls[step.call_index]
    IN  [exec_state |-> step.exec_state, rw_counter |-> step.rwc, call_id |-> c.call_id,
         is_root |-> Bit(c.is_root), is_create |-> Bit(is_create(c)), code_hash |-> c.code_hash,
         program_counter |-> step.pc, stack_pointer |-> step.stack_pointer,
         reversible_write_counter |-> step.reversible_write_counter, log_id |-> step.log_id]

(* assign_block: the steps of all transactions, then EndBlock up to the last row; the
   witness W is the finished block. *)
Rows(W) ==
    LET last_call == IF W.txs = <<>> THEN 0 ELSE Last(W.txs).calls[1].call_id
        end_block == [exec_state |-> "EndBlock", rw_counter |-> W.end_block_rwc,
                      call_id |-> last_call, is_root |-> 0, is_create |-> 0, code_hash |-> 0,
                      program_counter |-> 0, stack_pointer |-> 0,
                      reversible_write_counter |-> 0, log_id |-> 0]
        steps(tx) == [j \in DOMAIN tx.steps |->
                         [cells |-> StepCells(tx, tx.steps[j]), opcode |-> tx.steps[j].opcode]]
    IN  FlattenSeq([i \in DOMAIN W.txs |-> steps(W.txs[i])])
        \o [i \in 1 .. 2 |-> [cells |-> end_block, opcode |-> ""]]

(* The tables next to the rw table. *)
Tables(W) ==
    [ops |-> W.ops, padding_end |-> W.padding_end, coinbase |-> W.coinbase,
     tx_table |-> [i \in DOMAIN W.txs |->
        [caller_address |-> W.txs[i].tx.from, callee_address |-> W.txs[i].calls[1].address,
         nonce |-> W.txs[i].tx.nonce, value |-> W.txs[i].tx.value,
         is_create |-> W.txs[i].tx.to = 0]]]

Halting == {"STOP", "RETURN", "REVERT", "SELFDESTRUCT", "ErrorInvalidOpcode",
            "ErrorWriteProtection"}

(* configure_gadget_impl: which execution state may follow which. *)
StateTransition(s, n) ==
    /\ s = "EndTx" => n \in {"BeginTx", "EndBlock"}
    /\ s = "EndBlock" => n = "EndBlock"
    /\ n = "BeginTx" => s = "EndTx"
    /\ n = "EndTx" => s \in Halting \cup {"BeginTx"}
    /\ n = "EndBlock" => s \in {"EndTx", "EndBlock"}

Gadget(T, s, n, opcode) ==
    CASE s.exec_state = "BeginTx" -> BeginTxGadget(T, s, n)
      [] s.exec_state = "EndTx" -> EndTxGadget(T, s, n)
      [] s.exec_state = "EndBlock" ->
             EndBlockGadget(T, s) /\ n.rw_counter = s.rw_counter /\ n.call_id = s.call_id
      [] s.exec_state = "PUSH" -> PushGadget(T, s, n)
      [] s.exec_state = "MSTORE8" -> Mstore8Gadget(T, s, n)
      [] s.exec_state = "SLOAD" -> SloadGadget(T, s, n)
      [] s.exec_state = "SSTORE" -> SstoreGadget(T, s, n)
      [] s.exec_state \in {"LOG0", "LOG1"} -> LogGadget(T, s, n)
      [] s.exec_state \in {"CALL", "CALLCODE", "DELEGATECALL", "STATICCALL"} -> CallOpGadget(T, s, n)
      [] s.exec_state \in {"CREATE", "CREATE2"} -> CreateGadget(T, s, n)
      [] s.exec_state = "STOP" -> StopGadget(T, s, n)
      [] s.exec_state \in {"RETURN", "REVERT"} -> ReturnRevertGadget(T, s, n)
      [] s.exec_state = "ErrorInvalidOpcode" -> ErrorInvalidOpcodeGadget(T, s, n)
      [] s.exec_state = "ErrorWriteProtection" -> ErrorWriteProtectionGadget(T, s, n, opcode)

RowAccepted(T, rows, i) ==
    LET s == rows[i].cells
        n == rows[i + 1].cells
    IN  StateTransition(s.exec_state, n.exec_state) /\ Gadget(T, s, n, rows[i].opcode)

Accepts(W) ==
    LET T == Tables(W)
        rows == Rows(W)
    IN  /\ rows[1].cells.exec_state \in {"BeginTx", "EndBlock"}
        /\ \A i \in 1 .. Len(rows) - 1 : RowAccepted(T, rows, i)
        /\ EndBlockGadget(T, Last(rows).cells)

----------------------------------------------------------------------------
(* Properties *)

(* Every witness that bus-mapping makes of a finished block satisfies the gadgets of the
   EVM circuit: each step finds its operations in the order and with the values the
   gadget looks up, counts them right, finds the reversals of what a failing call wrote
   where RwCounterEndOfReversion says, and hands the right cells to the next step.
   SELFDESTRUCT, on both sides, is a placeholder the code calls dummy; a block with one
   is not claimed to be accepted. *)
EvmCircuitAccepts ==
    phase = "done" /\ (\A i \in DOMAIN b.txs : \A j \in DOMAIN b.txs[i].steps :
                           b.txs[i].steps[j].exec_state # "SELFDESTRUCT")
        => Accepts(b)

(* What an operation must find: the value of the last operation on its location, or the
   initial value of the location. *)
LastValue(ops, i) ==
    LET earlier == {j \in 1 .. i - 1 : Location(ops[j]) = Location(ops[i])}
        a == Address(ops[i])
        account == IF a \in DOMAIN Accounts THEN Accounts[a] ELSE ACCOUNT_ZERO
    IN  IF earlier # {} THEN Value(ops[CHOOSE j \in earlier : \A k \in earlier : k <= j])
        ELSE CASE Tag(ops[i]) = "Storage" -> IF a \in DOMAIN Slots THEN Slots[a] ELSE 0
               [] Tag(ops[i]) # "Account" -> 0
               [] Field(ops[i]) = "Nonce" -> account.nonce
               [] Field(ops[i]) = "Balance" -> account.balance
               [] Field(ops[i]) = "CodeHash" -> CodeHashWord(account)

Journalled == {"Account", "Storage", "TxAccessListAccount", "TxAccessListAccountStorage",
               "TxRefund"}

(* The operations of a finished block are a history: a read returns, and a journalled
   write replaces, what the last operation on the same location left (the initial value
   when there was none).  The state circuit demands it of the rows it sorts; here it is
   about what bus-mapping records, reversals included. *)
ReadsSeeLastWrite ==
    phase = "done" => \A i \in DOMAIN b.ops :
        /\ Rw(b.ops[i]) = "R" => Value(b.ops[i]) = LastValue(b.ops, i)
        /\ Tag(b.ops[i]) \in Journalled => ValuePrev(b.ops[i]) = LastValue(b.ops, i)

(* The StateDB after each step is the state geth has after that step, in the middle of
   calls that will fail as well as after their reversal. *)
SdbFollowsGeth ==
    LET sdb == b.sdb
    IN  phase # "done" =>
        /\ \A a \in DOMAIN sdb.accounts \cup DOMAIN world.accounts :
               get_account(sdb, a) = get_account(world, a)
        /\ \A a \in DOMAIN sdb.dirty_storage \cup DOMAIN world.dirty_storage
                    \cup DOMAIN sdb.storage \cup DOMAIN world.storage :
               get_storage(sdb, a) = get_storage(world, a)
        /\ sdb.access_list_account = world.access_list_account
        /\ sdb.access_list_account_storage = world.access_list_account_storage
        /\ sdb.refund = world.refund

(* bus-mapping's call stack is the stack of geth's frames: the same depth, the same
   outcome of every call, the same memories. *)
CallStackFollowsTrace ==
    phase = "run" =>
        /\ Len(b.ctxs) = Len(frames)
        /\ \A i \in DOMAIN frames :
               /\ b.calls[b.ctxs[i].index].is_success = frames[i].is_success
               /\ b.ctxs[i].memory = frames[i].memory

(* No check of check_update_sdb_account fails and no reversal is attributed to a step
   that is not in the list yet: bus-mapping does not panic. *)
NoPanic == ~b.panic
=============================================================================
