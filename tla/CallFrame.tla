------------------------------ MODULE CallFrame ------------------------------
(***************************************************************************)
(* A call frame from the geth trace to the circuits.  Geth executes the    *)
(* frame and writes its trace; bus-mapping handles the trace step by step; *)
(* when the frame ends in an exception the writes are reverted and the     *)
(* caller is restored, and in the end the reads of                         *)
(* RwCounterEndOfReversion get their value.  The rows of the EVM circuit,  *)
(* the copy circuit and the bytecode circuit are then judged.              *)
(*                                                                         *)
(* An instruction whose success belongs to other modules (calls,           *)
(* creations, storage, logs, arithmetic, the end of the frame) leaves the  *)
(* frame: its row is there, and nothing is asked of it.                    *)
(***************************************************************************)
EXTENDS FrameHandlers, ErrorGadgets

CONSTANTS
    Workloads,       \* frames; field start is the machine geth starts with
    MAX_COPY_ROWS,   \* the rows of the copy circuit
    MAX_CODE_ROWS    \* the last row of the bytecode circuit

VARIABLES
    frame,      \* the call and its surroundings
    machine,    \* geth: pc, stack, memory, gas, warm accounts
    trace,      \* the steps geth wrote
    outcome,    \* how geth ended the frame: "" while it runs, "left", or an error
    phase,      \* "geth", "begin", "bus" or "closed"
    ops,        \* the operations; the first ones are those of earlier steps
    memory,     \* call context memory that bus-mapping keeps
    warm,       \* its access list
    events,     \* its copy events
    sha3_inputs,
    reversible, \* positions in ops of the reversible writes of the call
    eor,        \* rw_counter_end_of_reversion of the call
    rows        \* rows of the EVM circuit

gethVars == <<machine, trace, outcome>>
busVars == <<ops, memory, warm, events, sha3_inputs, reversible, eor, rows>>
vars == <<frame, gethVars, phase, busVars>>

Init ==
    /\ frame \in Workloads /\ machine = frame.start
    /\ trace = <<>> /\ outcome = "" /\ phase = "geth"
    /\ ops = <<>> /\ memory = <<>> /\ warm = {} /\ events = <<>> /\ sha3_inputs = {}
    /\ reversible = <<>> /\ eor = 0 /\ rows = <<>>

----------------------------------------------------------------------------
(* Geth *)

Leaving ==
    {"STOP", "SLOAD", "SSTORE", "LOG", "CREATE", "CREATE2", "CALL", "CALLCODE", "DELEGATECALL",
     "STATICCALL", "RETURN", "REVERT", "SELFDESTRUCT", "EXP", "ADD", "MUL", "SUB", "DIV", "SDIV",
     "MOD", "SMOD", "ADDMOD", "MULMOD", "SIGNEXTEND", "LT", "GT", "SLT", "SGT", "EQ", "ISZERO",
     "AND", "OR", "XOR", "NOT", "BYTE", "SHL", "SHR", "SAR"}

Depth == IF frame.is_root = 1 THEN 1 ELSE 2

TraceStep(error) ==
    [op |-> OpAtPc(frame, machine), pc |-> machine.pc, gas |-> machine.gas,
     stack |-> machine.stack, memory |-> machine.memory, depth |-> Depth, error |-> error]

(* The step after an exception: the caller goes on with 0 on its stack. *)
CallerStep ==
    [op |-> Op("POP"), pc |-> frame.caller.pc, gas |-> frame.caller.gas, stack |-> <<0>>,
     memory |-> <<>>, depth |-> Depth - 1, error |-> ""]

GethSucceeds ==
    /\ phase = "geth" /\ TracedError(frame, machine) = "" /\ UntracedError(frame, machine) = ""
    /\ trace' = Append(trace, TraceStep(""))
    /\ LET op == OpAtPc(frame, machine) IN
       IF op[1] \in Leaving
       THEN outcome' = "left" /\ phase' = "begin" /\ UNCHANGED machine
       ELSE machine' = Succeed(frame, machine, op) /\ UNCHANGED <<outcome, phase>>
    /\ UNCHANGED <<frame, busVars>>

GethFails ==
    LET traced == TracedError(frame, machine)
        error == IF traced # "" THEN traced ELSE UntracedError(frame, machine)
    IN  /\ phase = "geth" /\ error # ""
        /\ trace' = Append(trace, TraceStep(traced))
                    \o IF frame.is_root = 1 THEN <<>> ELSE <<CallerStep>>
        /\ outcome' = error /\ phase' = "begin"
        /\ UNCHANGED <<frame, machine, busVars>>

----------------------------------------------------------------------------
(* bus-mapping *)

(* Call::is_success and is_persistent are read off the trace; the caller is persistent. *)
Call == [frame EXCEPT !.is_success = Bit(outcome = "left"), !.is_persistent = Bit(outcome = "left")]

(* The operations of earlier steps: what the call finds, written. *)
Setup(f, g) ==
    LET pointer == STACK_CAPACITY - f.below - Len(g.stack)
        Writes(id, offset, bytes) == MemoryOps("W", id, offset, bytes)
        caller == f.caller
    IN  CallContextOps("W", f.call_id,
            << <<"TxId", f.tx_id>>, <<"IsStatic", f.is_static>>, <<"CalleeAddress", f.address>>,
               <<"CallerAddress", f.caller_address>>, <<"Value", f.value>>,
               <<"CallerId", f.caller_id>>, <<"CallDataLength", Len(f.call_data)>>,
               <<"CallDataOffset", f.call_data_offset>>, <<"RwCounterEndOfReversion", 0>>,
               <<"IsSuccess", f.is_success>>, <<"IsPersistent", f.is_persistent>> >>
            \o LastCallee(f.last_callee_id, f.last_callee_return_data_offset, Len(f.return_data)))
        \o (IF f.is_root = 1 THEN <<>>
            ELSE CallContextOps("W", f.caller_id,
                   << <<"IsRoot", caller.is_root>>, <<"IsCreate", caller.is_create>>,
                      <<"CodeHash", caller.code_hash>>, <<"ProgramCounter", caller.pc>>,
                      <<"StackPointer", STACK_CAPACITY - 1>>, <<"GasLeft", caller.gas>>,
                      <<"MemorySize", caller.memory_word_size>>,
                      <<"ReversibleWriteCounter", caller.reversible_write_counter>> >>)
                 \o Writes(f.caller_id, f.call_data_offset, f.call_data))
        \o [i \in 1 .. Len(g.stack) |->
              StackOp("W", f.call_id, pointer + Len(g.stack) - i, g.stack[i])]
        \o Writes(f.call_id, 0, g.memory)
        \o Writes(f.last_callee_id, f.last_callee_return_data_offset, f.return_data)

(* The steps before the frame. *)
Begin ==
    /\ phase = "begin" /\ phase' = "bus"
    /\ ops' = Setup(Call, frame.start)
    /\ memory' = frame.start.memory /\ warm' = frame.start.warm
    /\ UNCHANGED <<frame, gethVars, events, sha3_inputs, reversible, eor, rows>>

Position == Len(rows) + 1

Context ==
    [frame |-> Call, step |-> trace[Position],
     next |-> IF Position < Len(trace) THEN trace[Position + 1] ELSE NoStep,
     memory |-> memory, warm |-> warm, rwc |-> Len(ops) + 1]

(* ExecStep::new, and the opcode the gadget of the step is assigned. *)
StepRow(exec_state) ==
    LET step == trace[Position] IN
    [exec_state |-> exec_state, opcode |-> as_u8(step.op), rw_counter |-> Len(ops) + 1,
     call_id |-> frame.call_id, is_root |-> frame.is_root, is_create |-> frame.is_create,
     code_hash |-> frame.code_hash, program_counter |-> step.pc,
     stack_pointer |-> StackPointer(frame, step), gas_left |-> step.gas,
     memory_word_size |-> Len(memory) \div WORD,
     reversible_write_counter |-> Len(reversible), log_id |-> 0]

(* The row after an exception, when the rw counter is rwc. *)
RowAfter(rwc) ==
    IF frame.is_root = 1
    THEN [StepRow("EndTx") EXCEPT !.rw_counter = rwc, !.opcode = 0]
    ELSE [exec_state |-> "POP", opcode |-> as_u8(Op("POP")), rw_counter |-> rwc,
          call_id |-> frame.caller_id, is_root |-> frame.caller.is_root,
          is_create |-> frame.caller.is_create, code_hash |-> frame.caller.code_hash,
          program_counter |-> frame.caller.pc, stack_pointer |-> STACK_CAPACITY - 1,
          gas_left |-> frame.caller.gas, memory_word_size |-> frame.caller.memory_word_size,
          reversible_write_counter |-> frame.caller.reversible_write_counter, log_id |-> 0]

Left == outcome = "left" /\ Position = Len(trace)
Failed == eor # 0

(* gen_associated_ops for a step without an error. *)
HandleStep ==
    LET c == Context
        step_ops == StepOps(c) \o FlattenSeq([i \in DOMAIN CopyEvents(c) |-> CopyOps(CopyEvents(c)[i])])
        written == SelectSeq([i \in DOMAIN step_ops |-> Len(ops) + i],
                             LAMBDA i : Reversible(step_ops[i - Len(ops)]))
    IN  /\ phase = "bus" /\ ~(Left \/ Failed) /\ get_step_err(c) = "none"
        /\ ops' = ops \o step_ops
        /\ memory' = MemoryAfter(c)
        /\ warm' = warm \union {Address(step_ops[i - Len(ops)]) : i \in Range(written)}
        /\ events' = events \o CopyEvents(c)
        /\ sha3_inputs' = IF c.step.op = Op("SHA3") THEN sha3_inputs \union {Sha3Input(c)}
                          ELSE sha3_inputs
        /\ reversible' = reversible \o written
        /\ rows' = Append(rows, StepRow(ExecutionStateOf(c.step.op)))
        /\ UNCHANGED <<frame, gethVars, phase, eor>>

(* handle_reversion: the writes of the call, undone from the last to the first. *)
Reversion == [i \in DOMAIN reversible |-> ReverseOp(ops[reversible[Len(reversible) + 1 - i]])]

(* rw_counter_end_of_reversion: the counter of the last operation. *)
EndOfReversion(all) == Len(all)

(* gen_associated_ops for a step with an error: fn_gen_error_state_associated_ops and
   handle_return. *)
HandleError ==
    LET c == Context
        error == get_step_err(c)
        all == ops \o ErrorOps(c, error) \o handle_restore_context(c) \o Reversion
    IN  /\ phase = "bus" /\ ~(Left \/ Failed) /\ error \notin {"none", "unexpected"}
        /\ ops' = all
        /\ eor' = EndOfReversion(all)
        /\ rows' = rows \o <<StepRow(ErrorStateOf(error)), RowAfter(Len(all) + 1)>>
        /\ warm' = warm \ {Address(ops[reversible[i]]) :
                             i \in {j \in DOMAIN reversible : ValuePrev(ops[reversible[j]]) = 0}}
        /\ UNCHANGED <<frame, gethVars, phase, memory, events, sha3_inputs, reversible>>

\* Mutant: the transaction is only closed when no call failed.
Ended_Left == Left

Ended == Left \/ Failed

(* set_value_ops_call_context_rwc_eor, at the end of the transaction. *)
Close ==
    /\ phase = "bus" /\ Ended
    /\ ops' = [i \in DOMAIN ops |->
                 IF Tag(ops[i]) = "CallContext" /\ Id(ops[i]) = frame.call_id
                    /\ Field(ops[i]) = "RwCounterEndOfReversion"
                 THEN [ops[i] EXCEPT ![6] = eor] ELSE ops[i]]
    /\ phase' = "closed"
    /\ rows' = IF Left THEN Append(rows, StepRow(ExecutionStateOf(trace[Position].op))) ELSE rows
    /\ UNCHANGED <<frame, gethVars, memory, warm, events, sha3_inputs, reversible, eor>>

Next == GethSucceeds \/ GethFails \/ Begin \/ HandleStep \/ HandleError \/ Close

Spec == Init /\ [][Next]_vars
FairSpec == Spec /\ WF_vars(Next)

----------------------------------------------------------------------------
(* Properties *)

Witness ==
    [ops |-> ops, codes |-> frame.codes, tx_id |-> frame.tx_id, tx_data |-> frame.tx_data,
     tx |-> [CallerAddress |-> frame.origin, GasPrice |-> frame.gas_price],
     block |-> frame.block, block_hash |-> frame.block_hash,
     copy_rows |-> AssignCopyEvents(events, MAX_COPY_ROWS),
     keccak |-> {<<bytes, Len(bytes), Keccak(bytes)>> : bytes \in
                   sha3_inputs \union {frame.codes[hash] : hash \in DOMAIN frame.codes}}]

(* Every row the builder makes of a frame is accepted by the gadget of its execution state,
   together with the row after it: the operations of the handlers are the lookups of the
   gadgets, and both sides charge the same gas and expand memory to the same size. *)
StepsAccepted ==
    phase = "closed" =>
        \A i \in 1 .. Len(rows) - 1 : StepGadget(Witness, rows[i], rows[i + 1])

(* The copy events of the handlers fit the copy circuit: its gates hold on their rows, and
   every byte is found in the memory, the code or the call data it is copied from and in
   the memory it is copied to. *)
CopiesAccepted ==
    phase = "closed" =>
        /\ CopyRowsFit(events, MAX_COPY_ROWS)
        /\ CopyCircuitAccepts(Witness, AssignCopyEvents(events, MAX_COPY_ROWS))

(* The bytecode circuit accepts the rows of the frame's code, and what it takes for code is
   what geth's jump destination analysis takes for code. *)
CodeAccepted ==
    phase = "closed" =>
        LET code == frame.code
            rows_ == AssignInternal(CodeRows(frame.code_hash, code), MAX_CODE_ROWS)
        IN  /\ Len(code) + 1 <= MAX_CODE_ROWS
            /\ BytecodeCircuitAccepts(rows_, Witness.keccak)
            /\ \A i \in DOMAIN code : code_vec(code)[i][2] = 0 <=> i - 1 \in PushData(code)

(* The error that geth ended the frame with, as bus-mapping names it. *)
ExecErrorOf(error, op) ==
    CASE error = "out of gas" -> OogErrorOf(op)
      [] error = "stack underflow" -> "StackUnderflow"
      [] error = "stack overflow" -> "StackOverflow"
      [] error = "invalid opcode" -> "InvalidOpcode"
      [] error = "invalid jump destination" -> "InvalidJump"
      [] error = "return data out of bounds" -> "ReturnDataOutOfBounds"
      [] error = "write protection" -> "WriteProtection"
      [] error = "max code size exceeded" -> "MaxCodeSizeExceeded"
      [] error = "invalid code" -> "InvalidCreationCode"
      [] error = "code store out of gas" -> "CodeStoreOutOfGas"

(* The trace does not name the errors of the execution itself; get_step_err recovers the one
   geth had, at the step where it had it, and never fails to explain a step. *)
ErrorFollowsGeth ==
    phase = "bus" /\ ~(Left \/ Failed) =>
        get_step_err(Context) =
            IF outcome # "left" /\ Position = Len(trace) - Bit(frame.is_root = 0)
            THEN ExecErrorOf(outcome, trace[Position].op) ELSE "none"

(* Before every step the memory that bus-mapping reconstructs is the memory of the trace
   (gen_associated_ops compares them); when the frame is over its access list is the one
   geth has: with the accounts touched, or without them after an exception. *)
MemoryFollowsGeth ==
    /\ phase = "bus" /\ ~Failed => memory = trace[Position].memory
    /\ phase = "closed" => warm = IF outcome = "left" THEN machine.warm ELSE frame.start.warm

(* A read finds the value of the last write to its location; memory that was never
   written is zero. *)
ReadsSeeLastWrite ==
    phase = "closed" =>
        \A i \in DOMAIN ops :
            Rw(ops[i]) = "R" /\ Tag(ops[i]) \in {"CallContext", "Stack", "Memory"} =>
                LET earlier == {j \in 1 .. i - 1 : Location(ops[j]) = Location(ops[i])}
                IN  IF earlier = {} THEN Tag(ops[i]) = "Memory" /\ Value(ops[i]) = 0
                    ELSE Value(ops[i]) = Value(ops[Max(earlier)])

(* What the circuits accept is only this execution: no state cell of a row after a step can
   be another one, and no value that the frame writes to its stack, to memory, to the access
   list or to its caller can be another one. *)
Accepted(W) ==
    /\ \A i \in 1 .. Len(rows) - 1 : StepGadget(W, rows[i], rows[i + 1])
    /\ CopyCircuitAccepts(W, W.copy_rows)
ConstrainedCells(s) ==
    IF s.exec_state \in ErrorStates /\ s.is_root = 1 THEN {"rw_counter", "call_id"}
    ELSE DOMAIN s \ {"exec_state", "opcode"}
OnlyThisStep ==
    phase = "closed" =>
        /\ \A i \in 1 .. Len(rows) - 1 : \A cell \in ConstrainedCells(rows[i]), d \in {-1, 1} :
               ~StepGadget(Witness, rows[i], [rows[i + 1] EXCEPT ![cell] = @ + d])
        /\ \A i \in {j \in DOMAIN ops : rows # <<>> /\ j >= rows[1].rw_counter /\ Rw(ops[j]) = "W"} :
               ~Accepted([Witness EXCEPT !.ops = [ops EXCEPT ![i][6] = @ + 1]])

(* Every frame is executed and handled to its end: geth runs out of gas in a loop, and the
   builder explains every step of the trace.  The builder runs alone and is not preempted,
   so an enabled step is taken. *)
FrameIsClosed == <>(phase = "closed")
=============================================================================
