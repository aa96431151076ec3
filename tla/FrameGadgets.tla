---------------------------- MODULE FrameGadgets ----------------------------
(***************************************************************************)
(* The execution gadgets of the instructions that stay within a call       *)
(* frame, with their gas and their memory.  A gadget is a predicate over   *)
(* the witness W and two consecutive rows s and n of the EVM circuit.      *)
(* W has ops, codes, tx_id, tx_data, tx and block (tables), block_hash,    *)
(* copy_rows (the copy table) and keccak (the keccak table).  A row has    *)
(* the execution state, the opcode cell of its gadget and the state cells. *)
(* A cell that only a lookup constrains has the value found there.         *)
(***************************************************************************)
EXTENDS CopyCircuit

(* EVMConstraintBuilder: opcode_lookup_at, skipped in the root call of a creation. *)
opcode_lookup_at(W, s, index, opcode, is_code) ==
    s.is_root * s.is_create = 1 \/ BytecodeLookup(W.codes, s.code_hash, index, is_code, opcode)
opcode_lookup(W, s) == opcode_lookup_at(W, s, s.program_counter, s.opcode, 1)

\* Mutant: the memory size of the next row is left open.
StepTransition_OpenMemory(s, n, next) ==
    [n EXCEPT !.exec_state = s.exec_state, !.opcode = s.opcode,
              !.memory_word_size = next.memory_word_size] = next

(* require_step_state_transition: the state cells of the next row; the cells of the next
   gadget are its own. *)
StepTransition(s, n, next) ==
    [n EXCEPT !.exec_state = s.exec_state, !.opcode = s.opcode] = next

(* Deltas of rw_counter, program_counter and stack_pointer, and the gas cost. *)
StepDelta(s, rw, pc, sp, gas) ==
    [s EXCEPT !.rw_counter = @ + rw, !.program_counter = @ + pc, !.stack_pointer = @ + sp,
              !.gas_left = @ - gas]

(* SameContextGadget *)
SameContext(W, s, n, ops, next) ==
    /\ opcode_lookup(W, s)
    /\ Responsible(s.exec_state, s.opcode, 0)
    /\ rw_lookups(W, s, ops)
    /\ n.gas_left \in 0 .. U64 - 1
    /\ StepTransition(s, n, next)

Gas(name) == constant_gas_cost(Op(name))

pop(W, s, k, pointer_offset) ==
    << StackOp("R", s.call_id, s.stack_pointer + pointer_offset, Cell(W, s, k)) >>
push(s, pointer_offset, v) == << StackOp("W", s.call_id, s.stack_pointer + pointer_offset, v) >>

----------------------------------------------------------------------------
(* One word is pushed *)

(* The word is what the push itself says; `found' is what a table says of it. *)
PushOnly(W, s, n, name, found) ==
    /\ SameContext(W, s, n, push(s, -1, Cell(W, s, 1)), StepDelta(s, 1, 1, -1, Gas(name)))
    /\ Cell(W, s, 1) = found

PcGadget(W, s, n)    == PushOnly(W, s, n, "PC", s.program_counter)
MsizeGadget(W, s, n) == PushOnly(W, s, n, "MSIZE", s.memory_word_size * WORD)
GasGadget(W, s, n)   == PushOnly(W, s, n, "GAS", s.gas_left - Gas("GAS"))

(* The field tag is Coinbase plus the distance of the opcode from COINBASE. *)
BlockFieldTag ==
    <<"COINBASE", "TIMESTAMP", "NUMBER", "DIFFICULTY", "GASLIMIT", "", "", "BASEFEE">>
BlockCtxGadget(W, s, n) ==
    PushOnly(W, s, n, "TIMESTAMP", W.block[BlockFieldTag[s.opcode - as_u8(Op("COINBASE")) + 1]])
ChainIdGadget(W, s, n) == PushOnly(W, s, n, "CHAINID", W.block["CHAINID"])

CodesizeGadget(W, s, n) ==
    /\ SameContext(W, s, n, push(s, -1, Cell(W, s, 1)), StepDelta(s, 1, 1, -1, Gas("CODESIZE")))
    /\ BytecodeLength(W.codes, s.code_hash, Cell(W, s, 1))

PushCallField(W, s, n, field, name) ==
    SameContext(W, s, n, call_context(W, s, 1, s.call_id, <<field>>) \o push(s, -1, Cell(W, s, 1)),
                StepDelta(s, 2, 1, -1, Gas(name)))

AddressGadget(W, s, n)        == PushCallField(W, s, n, "CalleeAddress", "ADDRESS")
CallerGadget(W, s, n)         == PushCallField(W, s, n, "CallerAddress", "CALLER")
CallValueGadget(W, s, n)      == PushCallField(W, s, n, "Value", "CALLVALUE")
CallDataSizeGadget(W, s, n)   == PushCallField(W, s, n, "CallDataLength", "CALLDATASIZE")
ReturnDataSizeGadget(W, s, n) ==
    PushCallField(W, s, n, "LastCalleeReturnDataLength", "RETURNDATASIZE")

(* A field of the transaction table. *)
PushTxContext(W, s, n, field, name) ==
    /\ SameContext(W, s, n, call_context(W, s, 1, s.call_id, <<"TxId">>) \o push(s, -1, Cell(W, s, 2)),
                   StepDelta(s, 2, 1, -1, Gas(name)))
    /\ Cell(W, s, 1) = W.tx_id /\ Cell(W, s, 2) = W.tx[field]
OriginGadget(W, s, n)   == PushTxContext(W, s, n, "CallerAddress", "ORIGIN")
GasPriceGadget(W, s, n) == PushTxContext(W, s, n, "GasPrice", "GASPRICE")

SelfbalanceGadget(W, s, n) ==
    SameContext(W, s, n,
        call_context(W, s, 1, s.call_id, <<"CalleeAddress">>)
        \o << AccountOp("R", Cell(W, s, 1), "Balance", Cell(W, s, 2), Cell(W, s, 2)) >>
        \o push(s, -1, Cell(W, s, 2)),
        StepDelta(s, 3, 1, -1, Gas("SELFBALANCE")))

(* PushGadget: limb idx of the word is the byte idx places before the last pushed one;
   bytes past the end of the code are padding. *)
PushBytes(W, s, value) ==
    LET num_bytes_needed == s.opcode - as_u8(<<"PUSH", 0>>)
        code_length_left == Len(W.codes[s.code_hash]) - s.program_counter - 1
        num_bytes_padding == IF code_length_left < num_bytes_needed
                             THEN num_bytes_needed - code_length_left ELSE 0
        limb(idx) == (value \div 256^idx) % 256
    IN  /\ s.code_hash \in DOMAIN W.codes
        /\ \A idx \in 0 .. WORD - 1 :
             IF idx < num_bytes_needed /\ idx >= num_bytes_padding
             THEN opcode_lookup_at(W, s, s.program_counter + num_bytes_needed - idx, limb(idx), 0)
             ELSE limb(idx) = 0
PushGadget(W, s, n) ==
    /\ SameContext(W, s, n, push(s, -1, Cell(W, s, 1)),
           StepDelta(s, 1, s.opcode - as_u8(<<"PUSH", 0>>) + 1, -1,
               constant_gas_cost(<<"PUSH", IF s.opcode = as_u8(<<"PUSH", 0>>) THEN 0 ELSE 1>>)))
    /\ PushBytes(W, s, Cell(W, s, 1))

----------------------------------------------------------------------------
(* Stack and control flow *)

DupGadget(W, s, n) ==
    SameContext(W, s, n,
        pop(W, s, 1, s.opcode - as_u8(<<"DUP", 1>>)) \o push(s, -1, Cell(W, s, 1)),
        StepDelta(s, 2, 1, -1, constant_gas_cost(<<"DUP", 1>>)))

SwapGadget(W, s, n) ==
    LET swap_offset == s.opcode - as_u8(<<"SWAP", 1>>) + 1 IN
    SameContext(W, s, n,
        pop(W, s, 1, swap_offset) \o pop(W, s, 2, 0)
        \o push(s, swap_offset, Cell(W, s, 2)) \o push(s, 0, Cell(W, s, 1)),
        StepDelta(s, 4, 1, 0, constant_gas_cost(<<"SWAP", 1>>)))

PopGadget(W, s, n) == SameContext(W, s, n, pop(W, s, 1, 0), StepDelta(s, 1, 1, 1, Gas("POP")))

JumpdestGadget(W, s, n) == SameContext(W, s, n, <<>>, StepDelta(s, 0, 1, 0, Gas("JUMPDEST")))

JumpTarget(W, s, destination) ==
    not_overflow(destination) /\ opcode_lookup_at(W, s, destination, as_u8(Op("JUMPDEST")), 1)

JumpGadget(W, s, n) ==
    /\ SameContext(W, s, n, pop(W, s, 1, 0),
           [StepDelta(s, 1, 0, 1, Gas("JUMP")) EXCEPT !.program_counter = Cell(W, s, 1)])
    /\ JumpTarget(W, s, Cell(W, s, 1))

JumpiGadget(W, s, n) ==
    LET should_jump == Cell(W, s, 2) # 0 IN
    /\ SameContext(W, s, n, stack_pops(W, s, 1, 2),
           [StepDelta(s, 2, 1, 2, Gas("JUMPI")) EXCEPT
              !.program_counter = IF should_jump THEN Cell(W, s, 1) ELSE @])
    /\ should_jump => JumpTarget(W, s, Cell(W, s, 1))

(* diff_lt compares within 64 bits. *)
BlockHashGadget(W, s, n) ==
    LET number == Cell(W, s, 1)
        current == W.block["NUMBER"]
        bound == 257 + valid_value(number)
        is_valid == lt_cap(number, current) /\ current < bound
    IN  /\ SameContext(W, s, n, pop(W, s, 1, 0) \o push(s, 0, Cell(W, s, 2)),
                       StepDelta(s, 2, 1, 0, Gas("BLOCKHASH")))
        /\ current - bound + (IF current < bound THEN U64 ELSE 0) \in 0 .. U64 - 1
        /\ Cell(W, s, 2) = IF is_valid THEN W.block_hash[valid_value(number)] ELSE 0

----------------------------------------------------------------------------
(* Memory *)

ExpandTo(s, addresses, next) ==
    [next EXCEPT !.memory_word_size = next_memory_word_size(s.memory_word_size, addresses)]

MemoryGadget(W, s, n) ==
    LET is_mload == s.opcode = as_u8(Op("MLOAD"))
        is_mstore8 == s.opcode = as_u8(Op("MSTORE8"))
        address == Cell(W, s, 1)
        value == Cell(W, s, 2)
        end == {address + IF is_mstore8 THEN 1 ELSE WORD}
        bytes == IF is_mstore8 THEN << value % 256 >> ELSE to_be_bytes(value)
        rw == IF is_mload THEN "R" ELSE "W"
    IN  /\ address < MEMORY_ADDRESS /\ MemoryExpansion(s.memory_word_size, end)
        /\ SameContext(W, s, n,
               pop(W, s, 1, 0)
               \o (IF is_mload THEN push(s, 0, value) ELSE pop(W, s, 2, 1))
               \o [i \in DOMAIN bytes |-> MemoryOp(rw, s.call_id, address + i - 1, bytes[i])],
               ExpandTo(s, end,
                   StepDelta(s, (WORD + 2) - (WORD - 1) * Bit(is_mstore8), 1,
                             2 * Bit(~is_mload),
                             Gas("MLOAD") + expansion_gas(s.memory_word_size, end))))

(* copy_table_lookup after `lookups' lookups: the copy takes the rest of the rw counters of
   the step. *)
CopyLookup(W, s, n, lookups, src, dst, length, rlc_acc) ==
    LET copy_rwc_inc == n.rw_counter - s.rw_counter - lookups IN
    IF length = 0 THEN copy_rwc_inc = 0
    ELSE copy_table_lookup(W.copy_rows, src, dst, length, rlc_acc, s.rw_counter + lookups,
                           copy_rwc_inc)

(* The two ends of a copy in the copy table; the destination belongs to the call itself. *)
CopySource(id, tag, addr, end) == [id |-> id, tag |-> tag, addr |-> addr, end |-> end]
CopyTarget(s, tag, addr) == [id |-> s.call_id, tag |-> tag, addr |-> addr]

(* The transition of a gadget that copies: memory, and the gas for copying and expanding. *)
CopyTransition(s, n, offset, length, pops, gas_copy, gas) ==
    LET end == {memory_address(offset, length)} IN
    ExpandTo(s, end,
        StepDelta(s, n.rw_counter - s.rw_counter, 1, pops,
            gas + memory_copier_gas(gas_copy, length, expansion_gas(s.memory_word_size, end))))
CopyArea(s, offset, length) ==
    /\ MemoryAddress(offset, length)
    /\ MemoryExpansion(s.memory_word_size, {memory_address(offset, length)})

Sha3Gadget(W, s, n) ==
    LET offset == Cell(W, s, 1)
        size == Cell(W, s, 2)
        start == memory_offset(offset, size)
    IN  /\ CopyArea(s, offset, size)
        /\ SameContext(W, s, n, stack_pops(W, s, 1, 2) \o push(s, 1, Cell(W, s, 3)),
                       CopyTransition(s, n, offset, size, 1, GasCost.COPY_SHA3, Gas("SHA3")))
        /\ \E input \in W.keccak :
               /\ input[2] = size /\ input[3] = Cell(W, s, 3)
               /\ CopyLookup(W, s, n, 3,
                      CopySource(s.call_id, "Memory", start, memory_address(offset, size)),
                      CopyTarget(s, "RlcAcc", 0), size, RlcOf(input[1]))

(* Where the call data of the frame lies, from the k-th lookup on: id, length and offset. *)
CallDataContext(W, s, k) ==
    IF s.is_root = 1 THEN call_context(W, s, k, s.call_id, <<"TxId", "CallDataLength">>)
    ELSE call_context(W, s, k, s.call_id, <<"CallerId", "CallDataLength", "CallDataOffset">>)
CallDataOffset(W, s, k) == IF s.is_root = 1 THEN 0 ELSE Cell(W, s, k + 2)

(* The place in a source of the given length where a copy from `offset' starts. *)
SourceStart(offset, length) == IF lt_cap(offset, length) THEN valid_value(offset) ELSE length

CallDataLoadGadget(W, s, n) ==
    LET data_offset == Cell(W, s, 1)
        inside == not_overflow(data_offset)
        fields == IF inside THEN CallDataContext(W, s, 2) ELSE <<>>
        src_id == Cell(W, s, 2)
        length == IF inside THEN Cell(W, s, 3) ELSE 0
        base == IF inside THEN CallDataOffset(W, s, 2) ELSE 0
        src_addr == base + SourceStart(data_offset, length)
        read == Least(WORD, base + length - src_addr)
        last == 1 + Len(fields) + (IF inside /\ s.is_root = 0 THEN read ELSE 0) + 1
        word == Cell(W, s, last)
        bytes == to_be_bytes(word)
    IN  /\ SameContext(W, s, n,
               pop(W, s, 1, 0) \o fields
               \o (IF ~inside \/ s.is_root = 1 THEN <<>>
                   ELSE [i \in 1 .. read |-> MemoryOp("R", src_id, src_addr + i - 1, bytes[i])])
               \o push(s, 0, word),
               StepDelta(s, last, 1, 0, Gas("CALLDATALOAD")))
        /\ BufferReader(src_addr, base + length, [i \in 1 .. WORD |-> Bit(i <= read)], bytes)
        /\ inside /\ s.is_root = 1 =>
               src_id = W.tx_id /\ \A i \in 1 .. read : bytes[i] = W.tx_data[src_addr + i]
        /\ ~inside => word = 0

CallDataCopyGadget(W, s, n) ==
    LET memory_off == Cell(W, s, 1)
        data_offset == Cell(W, s, 2)
        length == Cell(W, s, 3)
        fields == CallDataContext(W, s, 4)
        call_data_length == Cell(W, s, 5)
        base == CallDataOffset(W, s, 4)
    IN  /\ CopyArea(s, memory_off, length)
        /\ SameContext(W, s, n, stack_pops(W, s, 1, 3) \o fields,
               CopyTransition(s, n, memory_off, length, 3, GasCost.COPY, Gas("CALLDATACOPY")))
        /\ CopyLookup(W, s, n, 3 + Len(fields),
               CopySource(Cell(W, s, 4), IF s.is_root = 1 THEN "TxCalldata" ELSE "Memory",
                          base + SourceStart(data_offset, call_data_length),
                          base + call_data_length),
               CopyTarget(s, "Memory", memory_offset(memory_off, length)), length, <<>>)

CodeCopyGadget(W, s, n) ==
    LET memory_off == Cell(W, s, 1)
        length == Cell(W, s, 3)
        code_size == Len(W.codes[s.code_hash])
    IN  /\ CopyArea(s, memory_off, length) /\ s.code_hash \in DOMAIN W.codes
        /\ SameContext(W, s, n, stack_pops(W, s, 1, 3),
               CopyTransition(s, n, memory_off, length, 3, GasCost.COPY, Gas("CODECOPY")))
        /\ CopyLookup(W, s, n, 3,
               CopySource(s.code_hash, "Bytecode", SourceStart(Cell(W, s, 2), code_size),
                          code_size),
               CopyTarget(s, "Memory", memory_offset(memory_off, length)), length, <<>>)

ReturnDataCopyGadget(W, s, n) ==
    LET memory_off == Cell(W, s, 1)
        data_offset == Cell(W, s, 2)
        size == Cell(W, s, 3)
        return_data_offset == Cell(W, s, 5)
        return_data_size == Cell(W, s, 6)
    IN  /\ CopyArea(s, memory_off, size) /\ data_offset < MEMORY_ADDRESS
        /\ return_data_size - (data_offset + size) \in 0 .. MEMORY_WORD_SIZE - 1
        /\ SameContext(W, s, n,
               stack_pops(W, s, 1, 3)
               \o call_context(W, s, 4, s.call_id, <<"LastCalleeId", "LastCalleeReturnDataOffset",
                                                     "LastCalleeReturnDataLength">>),
               CopyTransition(s, n, memory_off, size, 3, GasCost.COPY, Gas("RETURNDATACOPY")))
        /\ CopyLookup(W, s, n, 6,
               CopySource(Cell(W, s, 4), "Memory", return_data_offset + data_offset,
                          return_data_offset + return_data_size),
               CopyTarget(s, "Memory", memory_offset(memory_off, size)), size, <<>>)

----------------------------------------------------------------------------
(* Other accounts *)

AccessCost(was_warm) == IF was_warm = 1 THEN GasCost.WARM_ACCESS ELSE GasCost.COLD_ACCOUNT_ACCESS

(* TxId, the reversion info and the write that makes the account warm, from lookup k on. *)
AccessWrite(W, s, k, address) ==
    << TxAccessListAccountOp("W", Cell(W, s, k), address, 1, ValuePrev(OpCell(W, s, k + 3))) >>
AccountAccess(W, s, k, address) ==
    call_context(W, s, k, s.call_id, <<"TxId", "RwCounterEndOfReversion", "IsPersistent">>)
    \o AccessWrite(W, s, k, address)
    \o << AccountOp("R", address, "CodeHash", Cell(W, s, k + 4), Cell(W, s, k + 4)) >>
WasWarm(W, s, k) == ValuePrev(OpCell(W, s, k + 3))
AccessReverted(W, s, k, address) ==
    reversible_writes(W, reversion_info(W, s, k + 1, s.reversible_write_counter),
                      AccessWrite(W, s, k, address))
OneReversibleWrite(next) == [next EXCEPT !.reversible_write_counter = @ + 1]

BalanceGadget(W, s, n) ==
    LET address == Cell(W, s, 1)
        exists == Bit(Cell(W, s, 6) # 0)
        balance == IF exists = 1 THEN Cell(W, s, 7) ELSE 0
    IN  /\ address < ACCOUNT_ADDRESS
        /\ SameContext(W, s, n,
               pop(W, s, 1, 0) \o AccountAccess(W, s, 2, address)
               \o (IF exists = 1 THEN << AccountOp("R", address, "Balance", balance, balance) >>
                   ELSE <<>>)
               \o push(s, 0, balance),
               OneReversibleWrite(StepDelta(s, 7 + exists, 1, 0, AccessCost(WasWarm(W, s, 2)))))
        /\ AccessReverted(W, s, 2, address)

ExtcodehashGadget(W, s, n) ==
    LET address == to_address(Cell(W, s, 1)) IN
    /\ SameContext(W, s, n,
           pop(W, s, 1, 0) \o AccountAccess(W, s, 2, address) \o push(s, 0, Cell(W, s, 6)),
           OneReversibleWrite(StepDelta(s, 7, 1, 0, AccessCost(WasWarm(W, s, 2)))))
    /\ AccessReverted(W, s, 2, address)

(* The size of a code; a missing account (code hash 0) has none. *)
CodeSizeOf(W, code_hash, size) ==
    IF code_hash = 0 THEN size = 0 ELSE BytecodeLength(W.codes, code_hash, size)

ExtcodesizeGadget(W, s, n) ==
    LET address == to_address(Cell(W, s, 1)) IN
    /\ SameContext(W, s, n,
           pop(W, s, 1, 0) \o AccountAccess(W, s, 2, address) \o push(s, 0, Cell(W, s, 7)),
           OneReversibleWrite(StepDelta(s, 7, 1, 0, AccessCost(WasWarm(W, s, 2)))))
    /\ CodeSizeOf(W, Cell(W, s, 6), Cell(W, s, 7))
    /\ AccessReverted(W, s, 2, address)

ExtcodecopyGadget(W, s, n) ==
    LET address == to_address(Cell(W, s, 1))
        memory_off == Cell(W, s, 2)
        length == Cell(W, s, 4)
        code_hash == Cell(W, s, 9)
        code_size == IF code_hash \in DOMAIN W.codes THEN Len(W.codes[code_hash]) ELSE 0
    IN  /\ CopyArea(s, memory_off, length) /\ CodeSizeOf(W, code_hash, code_size)
        /\ SameContext(W, s, n, stack_pops(W, s, 1, 4) \o AccountAccess(W, s, 5, address),
               OneReversibleWrite(CopyTransition(s, n, memory_off, length, 4, GasCost.COPY,
                                                 AccessCost(WasWarm(W, s, 5)))))
        /\ CopyLookup(W, s, n, 9,
               CopySource(code_hash, "Bytecode", SourceStart(Cell(W, s, 3), code_size),
                          code_size),
               CopyTarget(s, "Memory", memory_offset(memory_off, length)), length, <<>>)
        /\ AccessReverted(W, s, 5, address)

----------------------------------------------------------------------------
(* The gadget of an execution state *)

OrdinaryGadget(W, s, n) ==
    LET state == s.exec_state IN
    CASE state = "PC" -> PcGadget(W, s, n)
      [] state = "MSIZE" -> MsizeGadget(W, s, n)
      [] state = "GAS" -> GasGadget(W, s, n)
      [] state = "BLOCKCTX" -> BlockCtxGadget(W, s, n)
      [] state = "CHAINID" -> ChainIdGadget(W, s, n)
      [] state = "CODESIZE" -> CodesizeGadget(W, s, n)
      [] state = "ADDRESS" -> AddressGadget(W, s, n)
      [] state = "CALLER" -> CallerGadget(W, s, n)
      [] state = "CALLVALUE" -> CallValueGadget(W, s, n)
      [] state = "CALLDATASIZE" -> CallDataSizeGadget(W, s, n)
      [] state = "RETURNDATASIZE" -> ReturnDataSizeGadget(W, s, n)
      [] state = "ORIGIN" -> OriginGadget(W, s, n)
      [] state = "GASPRICE" -> GasPriceGadget(W, s, n)
      [] state = "SELFBALANCE" -> SelfbalanceGadget(W, s, n)
      [] state = "PUSH" -> PushGadget(W, s, n)
      [] state = "DUP" -> DupGadget(W, s, n)
      [] state = "SWAP" -> SwapGadget(W, s, n)
      [] state = "POP" -> PopGadget(W, s, n)
      [] state = "JUMPDEST" -> JumpdestGadget(W, s, n)
      [] state = "JUMP" -> JumpGadget(W, s, n)
      [] state = "JUMPI" -> JumpiGadget(W, s, n)
      [] state = "BLOCKHASH" -> BlockHashGadget(W, s, n)
      [] state = "MEMORY" -> MemoryGadget(W, s, n)
      [] state = "SHA3" -> Sha3Gadget(W, s, n)
      [] state = "CALLDATALOAD" -> CallDataLoadGadget(W, s, n)
      [] state = "CALLDATACOPY" -> CallDataCopyGadget(W, s, n)
      [] state = "CODECOPY" -> CodeCopyGadget(W, s, n)
      [] state = "RETURNDATACOPY" -> ReturnDataCopyGadget(W, s, n)
      [] state = "BALANCE" -> BalanceGadget(W, s, n)
      [] state = "EXTCODEHASH" -> ExtcodehashGadget(W, s, n)
      [] state = "EXTCODESIZE" -> ExtcodesizeGadget(W, s, n)
      [] state = "EXTCODECOPY" -> ExtcodecopyGadget(W, s, n)
      [] OTHER -> FALSE
=============================================================================
