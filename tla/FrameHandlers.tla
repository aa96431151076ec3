---------------------------- MODULE FrameHandlers ----------------------------
(***************************************************************************)
(* The handlers of bus-mapping for the instructions that stay within a     *)
(* call frame and for the errors that end it: from a step of the geth      *)
(* trace to operations, memory, access list and copy events.               *)
(*                                                                         *)
(* A context c has the frame (call and transaction), step and next (two    *)
(* steps of the trace; next is NoStep after the last one), the memory and  *)
(* the access list that bus-mapping keeps, and rwc, the counter of the     *)
(* next operation.  A trace step has op, pc, gas, stack (last is the top), *)
(* memory, depth and error; frame.below counts the items of the stack      *)
(* beneath the ones that are listed.                                       *)
(***************************************************************************)
EXTENDS CopyCircuit, GethFrame

NoStep == [op |-> Op("STOP"), pc |-> 1, gas |-> 0, stack |-> <<>>, memory |-> <<>>,
           depth |-> 0, error |-> ""]

----------------------------------------------------------------------------
(* CircuitInputStateRef *)

nth_last(c, n) == c.step.stack[Len(c.step.stack) - n]
StackPointer(frame, step) == STACK_CAPACITY - frame.below - Len(step.stack)
nth_last_filled(c, n) == StackPointer(c.frame, c.step) + n
NextTop(c) == Last(c.next.stack)

stack_read(c, n) == << StackOp("R", c.frame.call_id, nth_last_filled(c, n), nth_last(c, n)) >>
StackReads(c, count) ==
    [i \in 1 .. count |-> StackOp("R", c.frame.call_id, nth_last_filled(c, i - 1), nth_last(c, i - 1))]

(* The result takes the place of the last operand, or the place above the top. *)
stack_write(c, pops, v) == << StackOp("W", c.frame.call_id, nth_last_filled(c, pops - 1), v) >>

call_context_read(c, fields) == CallContextOps("R", c.frame.call_id, fields)
account_read(a, field, v) == << AccountOp("R", a, field, v, v) >>

is_warm(c, a) == Bit(a \in c.warm)
AccessListRead(c, a) ==
    << TxAccessListAccountOp("R", c.frame.tx_id, a, is_warm(c, a), is_warm(c, a)) >>

MemoryOps(rw, id, offset, bytes) ==
    [i \in DOMAIN bytes |-> MemoryOp(rw, id, offset + i - 1, bytes[i])]

(* TxId, RwCounterEndOfReversion (0 until the transaction is closed), IsPersistent and the
   reversible write that makes an account warm. *)
ReversionFields(c) ==
    << <<"TxId", c.frame.tx_id>>, <<"RwCounterEndOfReversion", 0>>,
       <<"IsPersistent", c.frame.is_persistent>> >>
MakeWarm(c, a) ==
    call_context_read(c, ReversionFields(c))
    \o << TxAccessListAccountOp("W", c.frame.tx_id, a, 1, is_warm(c, a)) >>

code_hash_read(c, a) == account_read(a, "CodeHash", HashOf(c.frame, a))

----------------------------------------------------------------------------
(* Handlers of instructions without a copy: their operations *)

StackOnly(c, pops, pushes) ==
    StackReads(c, pops) \o IF pushes = 0 THEN <<>> ELSE stack_write(c, pops, NextTop(c))

PushContextField(c, field) ==
    call_context_read(c, << <<field, NextTop(c)>> >>) \o stack_write(c, 0, NextTop(c))
Address_(c)       == PushContextField(c, "CalleeAddress")
Caller(c)         == PushContextField(c, "CallerAddress")
Callvalue(c)      == PushContextField(c, "Value")
Calldatasize(c)   == PushContextField(c, "CallDataLength")
Returndatasize(c) == PushContextField(c, "LastCalleeReturnDataLength")

PushTxField(c) ==
    call_context_read(c, << <<"TxId", c.frame.tx_id>> >>) \o stack_write(c, 0, NextTop(c))
Origin(c)   == PushTxField(c)
GasPrice(c) == PushTxField(c)

Selfbalance(c) ==
    call_context_read(c, << <<"CalleeAddress", c.frame.address>> >>)
    \o account_read(c.frame.address, "Balance", NextTop(c)) \o stack_write(c, 0, NextTop(c))

Codesize(c) == stack_write(c, 0, Len(c.frame.code))

Dup(c, n) == stack_read(c, n - 1) \o stack_write(c, 0, nth_last(c, n - 1))

Swap(c, n) ==
    stack_read(c, n) \o stack_read(c, 0)
    \o stack_write(c, n + 1, nth_last(c, 0)) \o stack_write(c, 1, nth_last(c, n))

Mload(c) ==
    stack_read(c, 0) \o stack_write(c, 1, NextTop(c))
    \o MemoryOps("R", c.frame.call_id, nth_last(c, 0), to_be_bytes(NextTop(c)))

Mstore(c, is_mstore8) ==
    StackReads(c, 2)
    \o MemoryOps("W", c.frame.call_id, nth_last(c, 0),
           IF is_mstore8 THEN << nth_last(c, 1) % 256 >> ELSE to_be_bytes(nth_last(c, 1)))

Balance(c) ==
    LET address == to_address(nth_last(c, 0)) IN
    stack_read(c, 0) \o MakeWarm(c, address) \o code_hash_read(c, address)
    \o (IF Exists(c.frame, address)
        THEN account_read(address, "Balance", BalanceOf(c.frame, address)) ELSE <<>>)
    \o stack_write(c, 1, NextTop(c))

Extcodehash(c) ==
    LET address == to_address(nth_last(c, 0)) IN
    stack_read(c, 0) \o MakeWarm(c, address) \o code_hash_read(c, address)
    \o stack_write(c, 1, NextTop(c))

Extcodesize(c) ==
    LET address == to_address(nth_last(c, 0)) IN
    stack_read(c, 0) \o MakeWarm(c, address) \o code_hash_read(c, address)
    \o stack_write(c, 1, Len(CodeOf(c.frame, address)))

(* Where call data starts: with the transaction, or in the memory of the caller. *)
CallDataFields(c) ==
    IF c.frame.is_root = 1
    THEN call_context_read(c, << <<"TxId", c.frame.tx_id>>,
                                 <<"CallDataLength", Len(c.frame.call_data)>> >>)
    ELSE call_context_read(c, << <<"CallerId", c.frame.caller_id>>,
                                 <<"CallDataLength", Len(c.frame.call_data)>>,
                                 <<"CallDataOffset", c.frame.call_data_offset>> >>)

Calldataload(c) ==
    LET f == c.frame
        offset == nth_last(c, 0)
        length == Len(f.call_data)
        src_addr == f.call_data_offset + Least(offset, length)
        in_range == Least(WORD, f.call_data_offset + length - src_addr)
        bytes == read_chunk(f.call_data, src_addr - f.call_data_offset, WORD)
    IN  stack_read(c, 0)
        \o IF offset >= U64 THEN stack_write(c, 1, 0)
           ELSE CallDataFields(c)
                \o (IF f.is_root = 1 THEN <<>>
                    ELSE MemoryOps("R", f.caller_id, src_addr, SubSeq(bytes, 1, in_range)))
                \o stack_write(c, 1, from_be_bytes(bytes))

----------------------------------------------------------------------------
(* Copies: an event, and the operations its bytes stand for. *)

gen_copy_steps_for_bytecode(code, src_addr, count) ==
    LET bytecode == code_vec(code)
    IN  [i \in 1 .. count |->
           IF src_addr + i \in DOMAIN bytecode THEN bytecode[src_addr + i] ELSE <<0, 0>>]

DataSteps(data, from, count) ==
    LET chunk == read_chunk(data, from, count) IN [i \in 1 .. count |-> <<chunk[i], 0>>]

(* A byte within the source is read when the source is memory, and every byte is written
   when the destination is. *)
CopyOps(e) ==
    FlattenSeq([i \in DOMAIN e.bytes |->
        (IF e.src_type = "Memory" /\ e.src_addr + i - 1 < e.src_addr_end
         THEN << MemoryOp("R", e.src_id, e.src_addr + i - 1, e.bytes[i][1]) >> ELSE <<>>)
        \o IF e.dst_type = "Memory"
           THEN << MemoryOp("W", e.dst_id, e.dst_addr + i - 1, e.bytes[i][1]) >> ELSE <<>>])

ToMemory(c, src_type, src_id, src_addr, src_addr_end, dst_offset, start, bytes) ==
    [src_type |-> src_type, src_id |-> src_id, src_addr |-> src_addr,
     src_addr_end |-> src_addr_end, dst_type |-> "Memory", dst_id |-> c.frame.call_id,
     dst_addr |-> dst_offset % U64, rw_counter_start |-> start, bytes |-> bytes]

gen_calldatacopy_step(c) == StackReads(c, 3) \o CallDataFields(c)

CalldatacopyEvent(c) ==
    LET f == c.frame
        src_addr_end == f.call_data_offset + Len(f.call_data)
        data_offset == nth_last(c, 1)
        src_addr == IF data_offset >= U64 THEN src_addr_end
                    ELSE Least(f.call_data_offset + data_offset, src_addr_end)
        bytes == DataSteps(f.call_data, src_addr - f.call_data_offset, nth_last(c, 2))
        start == c.rwc + Len(gen_calldatacopy_step(c))
    IN  IF f.is_root = 1
        THEN ToMemory(c, "TxCalldata", f.tx_id, src_addr, src_addr_end, nth_last(c, 0), start, bytes)
        ELSE ToMemory(c, "Memory", f.caller_id, src_addr, src_addr_end, nth_last(c, 0), start, bytes)

CodeSource(offset, code) == IF offset >= U64 THEN Len(code) ELSE Least(offset, Len(code))

gen_codecopy_step(c) == StackReads(c, 3)
CodecopyEvent(c) ==
    LET code == c.frame.code
        src_addr == CodeSource(nth_last(c, 1), code)
    IN  ToMemory(c, "Bytecode", c.frame.code_hash, src_addr, Len(code), nth_last(c, 0), c.rwc + 3,
            gen_copy_steps_for_bytecode(code, src_addr, nth_last(c, 2)))

gen_extcodecopy_step(c) ==
    LET address == to_address(nth_last(c, 0))
    IN  StackReads(c, 4) \o MakeWarm(c, address) \o code_hash_read(c, address)
ExtcodecopyEvent(c) ==
    LET address == to_address(nth_last(c, 0))
        code == CodeOf(c.frame, address)
        src_addr == CodeSource(nth_last(c, 2), code)
    IN  ToMemory(c, "Bytecode", HashOf(c.frame, address), src_addr, Len(code), nth_last(c, 1),
            c.rwc + Len(gen_extcodecopy_step(c)),
            gen_copy_steps_for_bytecode(code, src_addr, nth_last(c, 3)))

gen_returndatacopy_step(c) ==
    StackReads(c, 3)
    \o call_context_read(c, LastCallee(c.frame.last_callee_id, c.frame.last_callee_return_data_offset,
                                       Len(c.frame.return_data)))
\* Mutant: the offset of the return data in the callee's memory is left out.
ReturndatacopyEvent_NoBase(c) ==
    ToMemory(c, "Memory", c.frame.last_callee_id, nth_last(c, 1), Len(c.frame.return_data),
        nth_last(c, 0), c.rwc + 6, DataSteps(c.frame.return_data, nth_last(c, 1), nth_last(c, 2)))

ReturndatacopyEvent(c) ==
    LET base == c.frame.last_callee_return_data_offset
    IN  ToMemory(c, "Memory", c.frame.last_callee_id, base + nth_last(c, 1),
            base + Len(c.frame.return_data), nth_last(c, 0), c.rwc + 6,
            DataSteps(c.frame.return_data, nth_last(c, 1), nth_last(c, 2)))

\* Mutant: hashing does not extend memory.
Sha3Memory_NotExtended(c) == c.memory

(* memory: what bus-mapping holds, extended to the area that is hashed. *)
Sha3Memory(c) ==
    IF nth_last(c, 1) > 0 THEN extend_at_least(c.memory, nth_last(c, 0) + nth_last(c, 1))
    ELSE c.memory
Sha3Input(c) == read_chunk(Sha3Memory(c), nth_last(c, 0) % U64, nth_last(c, 1))
Sha3(c) == StackReads(c, 2) \o stack_write(c, 2, Keccak(Sha3Input(c)))
Sha3Event(c) ==
    LET offset == nth_last(c, 0) % U64
        size == nth_last(c, 1)
    IN  [src_type |-> "Memory", src_id |-> c.frame.call_id, src_addr |-> offset,
         src_addr_end |-> Least(offset + size, U64 - 1), dst_type |-> "RlcAcc",
         dst_id |-> c.frame.call_id, dst_addr |-> 0, rw_counter_start |-> c.rwc + 3,
         bytes |-> DataSteps(Sha3Memory(c), offset, size)]

----------------------------------------------------------------------------
(* fn_gen_associated_ops: the operations without those of a copy, the events, and the
   memory afterwards. *)

CopyEvents(c) ==
    LET name == c.step.op[1] IN
    CASE name = "CALLDATACOPY"   -> << CalldatacopyEvent(c) >>
      [] name = "CODECOPY"       -> << CodecopyEvent(c) >>
      [] name = "EXTCODECOPY"    -> << ExtcodecopyEvent(c) >>
      [] name = "RETURNDATACOPY" -> << ReturndatacopyEvent(c) >>
      [] name = "SHA3"           -> << Sha3Event(c) >>
      [] OTHER -> <<>>

StepOps(c) ==
    LET name == c.step.op[1]
        n == c.step.op[2]
    IN  CASE name = "ADDRESS" -> Address_(c)
          [] name = "CALLER" -> Caller(c)
          [] name = "CALLVALUE" -> Callvalue(c)
          [] name = "CALLDATASIZE" -> Calldatasize(c)
          [] name = "RETURNDATASIZE" -> Returndatasize(c)
          [] name = "ORIGIN" -> Origin(c)
          [] name = "GASPRICE" -> GasPrice(c)
          [] name = "SELFBALANCE" -> Selfbalance(c)
          [] name = "CODESIZE" -> Codesize(c)
          [] name = "DUP" -> Dup(c, n)
          [] name = "SWAP" -> Swap(c, n)
          [] name = "MLOAD" -> Mload(c)
          [] name \in {"MSTORE", "MSTORE8"} -> Mstore(c, name = "MSTORE8")
          [] name = "BALANCE" -> Balance(c)
          [] name = "EXTCODEHASH" -> Extcodehash(c)
          [] name = "EXTCODESIZE" -> Extcodesize(c)
          [] name = "CALLDATALOAD" -> Calldataload(c)
          [] name = "CALLDATACOPY" -> gen_calldatacopy_step(c)
          [] name = "CODECOPY" -> gen_codecopy_step(c)
          [] name = "EXTCODECOPY" -> gen_extcodecopy_step(c)
          [] name = "RETURNDATACOPY" -> gen_returndatacopy_step(c)
          [] name = "SHA3" -> Sha3(c)
          [] name \in {"POP", "JUMP"} -> StackOnly(c, 1, 0)
          [] name = "JUMPI" -> StackOnly(c, 2, 0)
          [] name = "BLOCKHASH" -> StackOnly(c, 1, 1)
          [] name = "JUMPDEST" -> <<>>
          [] name \in {"PUSH", "PC", "MSIZE", "GAS", "CHAINID", "COINBASE", "TIMESTAMP", "NUMBER",
                       "DIFFICULTY", "GASLIMIT", "BASEFEE"} -> StackOnly(c, 0, 1)

MemoryAfter(c) ==
    LET name == c.step.op[1]
        offset == nth_last(c, 0)
    IN  CASE name = "MLOAD" -> extend_at_least(c.memory, offset + WORD)
          [] name = "MSTORE" ->
                 WriteBytes(extend_at_least(c.memory, offset + WORD), offset, to_be_bytes(nth_last(c, 1)))
          [] name = "MSTORE8" ->
                 WriteBytes(extend_at_least(c.memory, offset + 1), offset, << nth_last(c, 1) % 256 >>)
          [] name = "CALLDATACOPY" ->
                 copy_from(c.memory, offset, nth_last(c, 1), nth_last(c, 2), c.frame.call_data)
          [] name = "CODECOPY" ->
                 copy_from(c.memory, offset, nth_last(c, 1), nth_last(c, 2), c.frame.code)
          [] name = "EXTCODECOPY" ->
                 copy_from(c.memory, nth_last(c, 1), nth_last(c, 2), nth_last(c, 3),
                     CodeOf(c.frame, to_address(offset)))
          [] name = "RETURNDATACOPY" ->
                 copy_from(c.memory, offset, nth_last(c, 1), nth_last(c, 2), c.frame.return_data)
          [] name = "SHA3" -> Sha3Memory(c)
          [] OTHER -> c.memory

(* push_op_reversible: whether an operation is undone when the call fails. *)
Reversible(op) == Tag(op) = "TxAccessListAccount" /\ Rw(op) = "W"

----------------------------------------------------------------------------
(* Errors *)

(* ExecError::try_from: the error the trace records. *)
TracedExecError(step) ==
    CASE step.error = "out of gas" -> OogErrorOf(step.op)
      [] step.error = "stack overflow" -> "StackOverflow"
      [] step.error = "stack underflow" -> "StackUnderflow"

\* Mutant: the price of the code is looked at before its first byte.
CreationReturnError_PriceFirst(c) ==
    LET length == nth_last(c, 1)
    IN  IF length > MAXCODESIZE THEN "MaxCodeSizeExceeded"
        ELSE IF 200 * length > c.step.gas THEN "CodeStoreOutOfGas" ELSE "InvalidCreationCode"

(* Why RETURN failed in the code of a creation. *)
CreationReturnError(c) ==
    LET length == nth_last(c, 1)
        offset == nth_last(c, 0)
    IN  IF length > MAXCODESIZE THEN "MaxCodeSizeExceeded"
        ELSE IF length > 0 /\ offset + 1 \in DOMAIN c.memory /\ c.memory[offset + 1] = 239
        THEN "InvalidCreationCode"
        ELSE IF 200 * length > c.step.gas THEN "CodeStoreOutOfGas"
        ELSE "unexpected"

(* get_step_err for a step of this frame; "none" is Ok(None), "unexpected" an Err that the
   caller unwraps.  The cases of a call that was not executed belong to module BusMapping. *)
get_step_err(c) ==
    LET step == c.step
        f == c.frame
        name == step.op[1]
        next_result == IF c.next.stack = <<>> THEN 0 ELSE Last(c.next.stack)
        returned == step.depth = c.next.depth + 1
    IN  IF step.error # "" THEN TracedExecError(step)
        ELSE IF name = "INVALID" THEN "InvalidOpcode"
        ELSE IF c.next = NoStep
                /\ ( \/ name \in {"STOP", "REVERT", "SELFDESTRUCT"}
                     \/ name = "RETURN" /\ (f.is_create = 0 \/ f.is_success = 1) ) THEN "none"
        ELSE IF returned /\ next_result = 0 THEN
             CASE name \in {"JUMP", "JUMPI"} -> "InvalidJump"
               [] name = "RETURNDATACOPY" -> "ReturnDataOutOfBounds"
               [] f.is_static = 1 /\ ( \/ name \in {"SSTORE", "CREATE", "CREATE2", "SELFDESTRUCT", "LOG"}
                                       \/ name = "CALL" /\ nth_last(c, 2) # 0 ) -> "WriteProtection"
               [] name = "REVERT" -> "none"
               [] name = "RETURN" /\ f.is_create = 1 -> CreationReturnError(c)
               [] OTHER -> "unexpected"
        ELSE IF returned /\ name \notin {"RETURN", "STOP", "SELFDESTRUCT"} THEN "unexpected"
        ELSE "none"

InvalidJump(c) == StackReads(c, IF c.step.op[1] = "JUMPI" THEN 2 ELSE 1)

OOGCall(c) ==
    LET n == IF c.step.op[1] \in {"CALL", "CALLCODE"} THEN 7 ELSE 6
        callee == to_address(nth_last(c, 1))
    IN  call_context_read(c, << <<"TxId", c.frame.tx_id>>, <<"IsStatic", c.frame.is_static>> >>)
        \o StackReads(c, n) \o stack_write(c, n, 0)
        \o code_hash_read(c, callee) \o AccessListRead(c, callee)

StaticField(c) == call_context_read(c, << <<"IsStatic", c.frame.is_static>> >>)

OOGExp(c) == StackReads(c, 2)
ErrorOOGLog(c) == StackReads(c, 2) \o StaticField(c)

OOGMemoryCopy(c) ==
    (IF c.step.op[1] = "EXTCODECOPY"
     THEN call_context_read(c, << <<"TxId", c.frame.tx_id>> >>)
          \o AccessListRead(c, to_address(nth_last(c, 0)))
     ELSE <<>>)
    \o StackReads(c, IF c.step.op[1] = "EXTCODECOPY" THEN 4 ELSE 3)

(* A storage slot of the frame's account: the address and the key are one number. *)
Slot(f, key) == 1000 * f.address + key
OOGSloadSstore(c) ==
    LET f == c.frame
        key == nth_last(c, 0)
        warm == Bit(key \in f.warm_slots)
        slot == f.storage[key]
    IN  call_context_read(c, << <<"TxId", f.tx_id>>, <<"IsStatic", f.is_static>>,
                                <<"CalleeAddress", f.address>> >>)
        \o stack_read(c, 0)
        \o << TxAccessListAccountStorageOp("R", f.tx_id, Slot(f, key), warm, warm) >>
        \o IF c.step.op[1] # "SSTORE" THEN <<>>
           ELSE stack_read(c, 1)
                \o << StorageOp("R", f.tx_id, Slot(f, key), slot.value, slot.value, slot.original) >>

ErrorOOGAccountAccess(c) ==
    stack_read(c, 0) \o call_context_read(c, << <<"TxId", c.frame.tx_id>> >>)
    \o AccessListRead(c, to_address(nth_last(c, 0)))

ErrorReturnDataOutOfBound(c) ==
    StackReads(c, 3)
    \o call_context_read(c, << <<"LastCalleeReturnDataLength", Len(c.frame.return_data)>> >>)

ErrorCodeStore(c) == StackReads(c, 2) \o StaticField(c)

ErrorCreationCode(c) ==
    StackReads(c, 2)
    \o MemoryOps("R", c.frame.call_id, nth_last(c, 0), << c.memory[nth_last(c, 0) + 1] >>)

ErrorWriteProtection(c) ==
    (IF c.step.op[1] = "CALL" THEN StackReads(c, 3) ELSE <<>>) \o StaticField(c)

(* fn_gen_error_state_associated_ops *)
ErrorOps(c, error) ==
    CASE error = "InvalidJump" -> InvalidJump(c)
      [] error \in {"InvalidOpcode", "Constant", "StackOverflow", "StackUnderflow"} -> <<>>
      [] error = "Call" -> OOGCall(c)
      [] error = "Create" -> StackOnly(c, IF c.step.op[1] = "CREATE2" THEN 4 ELSE 3, 0)
      [] error = "Exp" -> OOGExp(c)
      [] error = "Log" -> ErrorOOGLog(c)
      [] error = "MemoryCopy" -> OOGMemoryCopy(c)
      [] error \in {"DynamicMemoryExpansion", "Sha3"} -> StackOnly(c, 2, 0)
      [] error = "StaticMemoryExpansion" -> StackOnly(c, 1, 0)
      [] error = "SloadSstore" -> OOGSloadSstore(c)
      [] error = "AccountAccess" -> ErrorOOGAccountAccess(c)
      [] error = "WriteProtection" -> ErrorWriteProtection(c)
      [] error = "ReturnDataOutOfBounds" -> ErrorReturnDataOutOfBound(c)
      [] error = "InvalidCreationCode" -> ErrorCreationCode(c)
      [] error \in {"CodeStoreOutOfGas", "MaxCodeSizeExceeded"} -> ErrorCodeStore(c)

(* handle_restore_context after an exception. *)
handle_restore_context(c) ==
    LET f == c.frame
        caller == f.caller
    IN  call_context_read(c, << <<"IsSuccess", 0>>, <<"RwCounterEndOfReversion", 0>> >>)
        \o IF f.is_root = 1 THEN <<>>
           ELSE call_context_read(c, << <<"CallerId", f.caller_id>> >>)
                \o CallContextOps("R", f.caller_id,
                     << <<"IsRoot", caller.is_root>>, <<"IsCreate", caller.is_create>>,
                        <<"CodeHash", caller.code_hash>>, <<"ProgramCounter", c.next.pc>>,
                        <<"StackPointer", STACK_CAPACITY - Len(c.next.stack)>>,
                        <<"GasLeft", c.next.gas>>, <<"MemorySize", caller.memory_word_size>>,
                        <<"ReversibleWriteCounter", caller.reversible_write_counter>> >>)
                \o CallContextOps("W", f.caller_id, LastCallee(f.call_id, 0, 0))
=============================================================================
