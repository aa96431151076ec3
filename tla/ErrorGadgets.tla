---------------------------- MODULE ErrorGadgets ----------------------------
(***************************************************************************)
(* The gadgets of the exceptions that end a call frame: the lookups that   *)
(* show the operands, the condition that makes the instruction fail, and   *)
(* the common part that ends the call.                                     *)
(***************************************************************************)
EXTENDS FrameGadgets

ErrorStates ==
    {"ErrorInvalidOpcode", "ErrorStack", "ErrorWriteProtection", "ErrorInvalidCreationCode",
     "ErrorCodeStore", "ErrorInvalidJump", "ErrorReturnDataOutOfBound", "ErrorOutOfGasConstant",
     "ErrorOutOfGasStaticMemoryExpansion", "ErrorOutOfGasDynamicMemoryExpansion",
     "ErrorOutOfGasMemoryCopy", "ErrorOutOfGasAccountAccess", "ErrorOutOfGasLOG",
     "ErrorOutOfGasEXP", "ErrorOutOfGasSHA3", "ErrorOutOfGasCall", "ErrorOutOfGasSloadSstore",
     "ErrorOutOfGasCREATE"}
halts_in_exception(exec_state) == exec_state \in ErrorStates

----------------------------------------------------------------------------
(* RestoreContextGadget of a call that failed, from the k-th lookup on *)

RestoreContextOps(W, s, k) ==
    call_context(W, s, k, s.call_id, <<"CallerId">>)
    \o call_context(W, s, k + 1, Cell(W, s, k),
           <<"IsRoot", "IsCreate", "CodeHash", "ProgramCounter", "StackPointer", "GasLeft",
             "MemorySize", "ReversibleWriteCounter">>)
    \o CallContextOps("W", Cell(W, s, k), LastCallee(s.call_id, 0, 0))

(* The caller's row; a call that halts in an exception returns no gas. *)
RestoreContext(W, s, n, k) ==
    LET gas_refund == IF halts_in_exception(s.exec_state) THEN 0 ELSE s.gas_left IN
    StepTransition(s, n,
        [s EXCEPT !.rw_counter = @ + k + 11 + s.reversible_write_counter,
                  !.call_id = Cell(W, s, k), !.is_root = Cell(W, s, k + 1),
                  !.is_create = Cell(W, s, k + 2), !.code_hash = Cell(W, s, k + 3),
                  !.program_counter = Cell(W, s, k + 4), !.stack_pointer = Cell(W, s, k + 5),
                  !.gas_left = Cell(W, s, k + 6) + gas_refund,
                  !.memory_word_size = Cell(W, s, k + 7),
                  !.reversible_write_counter = Cell(W, s, k + 8)])

\* Mutant: the end of the reversion does not count the writes that are reverted.
CommonError_NoReverts(W, s, n, ops, rw_counter_delta_) ==
    LET k == Len(ops)
        all == ops \o CallContextOps("R", s.call_id, << <<"IsSuccess", 0>>,
                           <<"RwCounterEndOfReversion", Cell(W, s, k + 2)>> >>)
                   \o IF s.is_root = 1 THEN <<>> ELSE RestoreContextOps(W, s, k + 3)
    IN  /\ opcode_lookup(W, s) /\ rw_lookups(W, s, all)
        /\ s.is_root = 1 <=> n.exec_state = "EndTx"
        /\ IF s.is_root = 1
           THEN n.call_id = s.call_id
                /\ n.rw_counter = s.rw_counter + rw_counter_delta_ + 2 + s.reversible_write_counter
           ELSE RestoreContext(W, s, n, k + 3)
        /\ Cell(W, s, k + 2) = s.rw_counter + Len(all) - 1

(* CommonErrorGadget after the lookups `ops', for a gadget that states rw_counter_delta. *)
CommonError(W, s, n, ops, rw_counter_delta_) ==
    LET k == Len(ops)
        all == ops \o CallContextOps("R", s.call_id, << <<"IsSuccess", 0>>,
                           <<"RwCounterEndOfReversion", Cell(W, s, k + 2)>> >>)
                   \o IF s.is_root = 1 THEN <<>> ELSE RestoreContextOps(W, s, k + 3)
    IN  /\ opcode_lookup(W, s) /\ rw_lookups(W, s, all)
        /\ s.is_root = 1 <=> n.exec_state = "EndTx"
        /\ IF s.is_root = 1
           THEN n.call_id = s.call_id
                /\ n.rw_counter = s.rw_counter + rw_counter_delta_ + 2 + s.reversible_write_counter
           ELSE RestoreContext(W, s, n, k + 3)
        /\ Cell(W, s, k + 2) = s.rw_counter + Len(all) - 1 + s.reversible_write_counter

OpcodeIn(s, names) == s.opcode \in {as_u8(Op(name)) : name \in names}
IsOp(s, name) == s.opcode = as_u8(Op(name))

----------------------------------------------------------------------------
(* Out of gas *)

(* Expansion for areas given by offset and length, and whether one is out of range. *)
AreasExpansion(s, areas) ==
    expansion_gas(s.memory_word_size, {expanded_address(a[1], a[2]) : a \in areas})
AreaOverflow(areas) == \E a \in areas : ~within_range(a[1], a[2])

ErrorOOGConstantGadget(W, s, n) ==
    /\ \E row \in ConstantGasCostTable : row[1] = s.opcode /\ s.gas_left < row[2]
    /\ CommonError(W, s, n, <<>>, 0)

ErrorOOGStaticMemoryGadget(W, s, n) ==
    LET area == {<<Cell(W, s, 1), IF IsOp(s, "MSTORE8") THEN 1 ELSE WORD>>} IN
    /\ OpcodeIn(s, {"MLOAD", "MSTORE", "MSTORE8"})
    /\ AreaOverflow(area) \/ s.gas_left < GasCost.FASTEST + AreasExpansion(s, area)
    /\ CommonError(W, s, n, stack_pops(W, s, 1, 1), 1)

ErrorOOGDynamicMemoryGadget(W, s, n) ==
    LET area == {<<Cell(W, s, 1), Cell(W, s, 2)>>} IN
    /\ OpcodeIn(s, {"RETURN", "REVERT"})
    /\ AreaOverflow(area) \/ s.gas_left < AreasExpansion(s, area)
    /\ CommonError(W, s, n, stack_pops(W, s, 1, 2), 2)

(* A read of the access list of accounts at lookup k. *)
AccessListLookup(W, s, k, tx_id, address) ==
    << TxAccessListAccountOp("R", tx_id, address, Cell(W, s, k), Cell(W, s, k)) >>

ErrorOOGMemoryCopyGadget(W, s, n) ==
    LET is_extcodecopy == IsOp(s, "EXTCODECOPY")
        k == IF is_extcodecopy THEN 3 ELSE 0       \* lookups before the three operands
        address == Cell(W, s, 3)
        external == IF is_extcodecopy
                    THEN call_context(W, s, 1, s.call_id, <<"TxId">>)
                         \o AccessListLookup(W, s, 2, Cell(W, s, 1), address)
                         \o pop(W, s, 3, 0)
                    ELSE <<>>
        operands == [i \in 1 .. 3 |-> StackOp("R", s.call_id,
                        s.stack_pointer + Bit(is_extcodecopy) + i - 1, Cell(W, s, k + i))]
        area == <<Cell(W, s, k + 1), Cell(W, s, k + 3)>>
        constant == IF is_extcodecopy THEN AccessCost(Cell(W, s, 2)) ELSE GasCost.FASTEST
        copier == memory_copier_gas(GasCost.COPY, expanded_length(area[1], area[2]),
                                    AreasExpansion(s, {area}))
    IN  /\ OpcodeIn(s, {"CALLDATACOPY", "CODECOPY", "EXTCODECOPY", "RETURNDATACOPY"})
        /\ is_extcodecopy => address < ACCOUNT_ADDRESS
        /\ AreaOverflow({area}) \/ s.gas_left < constant + copier
        /\ CommonError(W, s, n, external \o operands, k + 3)

ErrorOOGAccountAccessGadget(W, s, n) ==
    LET address == Cell(W, s, 1) IN
    /\ OpcodeIn(s, {"BALANCE", "EXTCODESIZE", "EXTCODEHASH"})
    /\ address < ACCOUNT_ADDRESS /\ s.gas_left < AccessCost(Cell(W, s, 3))
    /\ CommonError(W, s, n,
           pop(W, s, 1, 0) \o call_context(W, s, 2, s.call_id, <<"TxId">>)
           \o AccessListLookup(W, s, 3, Cell(W, s, 2), address), 3)

ErrorOOGLogGadget(W, s, n) ==
    LET area == <<Cell(W, s, 1), Cell(W, s, 2)>>
        topic_count == s.opcode - as_u8(<<"LOG", 0>>)
        gas_cost == GasCost.LOG + GasCost.LOG * topic_count
                        + 8 * expanded_length(area[1], area[2]) + AreasExpansion(s, {area})
    IN  /\ topic_count \in 0 .. 4 /\ Cell(W, s, 3) = 0
        /\ AreaOverflow({area}) \/ s.gas_left < gas_cost
        /\ CommonError(W, s, n,
               stack_pops(W, s, 1, 2) \o call_context(W, s, 3, s.call_id, <<"IsStatic">>), 3)

ByteSize(word) == Cardinality({i \in 0 .. WORD - 1 : word >= 256^i})
ErrorOOGExpGadget(W, s, n) ==
    /\ IsOp(s, "EXP")
    /\ s.gas_left < GasCost.SLOW + GasCost.EXP_BYTE_TIMES * ByteSize(Cell(W, s, 2))
    /\ CommonError(W, s, n, stack_pops(W, s, 1, 2), 2)

ErrorOOGSha3Gadget(W, s, n) ==
    LET area == <<Cell(W, s, 1), Cell(W, s, 2)>> IN
    /\ IsOp(s, "SHA3")
    /\ \/ AreaOverflow({area})
       \/ s.gas_left < GasCost.SHA3 + memory_copier_gas(GasCost.COPY_SHA3,
                           expanded_length(area[1], area[2]), AreasExpansion(s, {area}))
    /\ CommonError(W, s, n, stack_pops(W, s, 1, 2), 2)

(* SloadGasGadget and SstoreGasGadget *)
SloadGas(warm) == IF warm = 1 THEN GasCost.WARM_ACCESS ELSE GasCost.COLD_SLOAD
SstoreGas(warm, value, value_prev, original) ==
    LET warm_case_gas ==
            IF value = value_prev \/ original # value_prev THEN GasCost.WARM_ACCESS
            ELSE IF original = 0 THEN GasCost.SSTORE_SET ELSE GasCost.SSTORE_RESET
    IN  warm_case_gas + IF warm = 1 THEN 0 ELSE GasCost.COLD_SLOAD

(* A slot of storage: the address and the key are one number. *)
SlotOf(address, key) == 1000 * address + key

ErrorOOGSloadSstoreGadget(W, s, n) ==
    LET is_sstore == IsOp(s, "SSTORE")
        tx_id == Cell(W, s, 1)
        slot == SlotOf(Cell(W, s, 3), Cell(W, s, 4))
        warm == Cell(W, s, 5)
        storage == OpCell(W, s, 7)
        sstore_gas == SstoreGas(warm, Cell(W, s, 6), Value(storage), Committed(storage))
    IN  /\ OpcodeIn(s, {"SLOAD", "SSTORE"}) /\ Bit(is_sstore) * Cell(W, s, 2) = 0
        /\ \/ s.gas_left < IF is_sstore THEN sstore_gas ELSE SloadGas(warm)
           \/ is_sstore /\ s.gas_left < GasCost.SSTORE_SENTRY + 1
        /\ CommonError(W, s, n,
               call_context(W, s, 1, s.call_id, <<"TxId", "IsStatic", "CalleeAddress">>)
               \o pop(W, s, 4, 0)
               \o << TxAccessListAccountStorageOp("R", tx_id, slot, warm, warm) >>
               \o IF is_sstore
                  THEN pop(W, s, 6, 1)
                       \o << StorageOp("R", tx_id, slot, Value(storage), Value(storage),
                                       Committed(storage)) >>
                  ELSE <<>>,
               IF is_sstore THEN 7 ELSE 5)

(* CommonCallGadget of a call that does not succeed, after two lookups: the operands in
   order, the result 0 and the code hash. *)
CommonCallOps(W, s, operands) ==
    LET at == 2 + operands + 2
        address == Cell(W, s, 4)
    IN  [i \in 1 .. operands |-> StackOp("R", s.call_id, s.stack_pointer + i - 1, Cell(W, s, 2 + i))]
        \o push(s, operands - 1, 0)
        \o << AccountOp("R", address, "CodeHash", Cell(W, s, at), Cell(W, s, at)) >>
(* gas_cost_expr *)
CallGasCost(has_value, warm, is_call, code_hash, expansion) ==
    AccessCost(warm) + expansion
        + IF ~has_value THEN 0
          ELSE GasCost.CALL_WITH_VALUE
                   + IF is_call /\ code_hash = 0 THEN GasCost.NEW_ACCOUNT ELSE 0

ErrorOOGCallGadget(W, s, n) ==
    LET with_value == OpcodeIn(s, {"CALL", "CALLCODE"})
        operands == IF with_value THEN 7 ELSE 6
        areas_at == 2 + operands - 3          \* lookup of the first area's offset
        areas == {<<Cell(W, s, areas_at), Cell(W, s, areas_at + 1)>>,
                  <<Cell(W, s, areas_at + 2), Cell(W, s, areas_at + 3)>>}
        has_value == with_value /\ Cell(W, s, 5) # 0
        last == 2 + operands + 3
    IN  /\ OpcodeIn(s, {"CALL", "CALLCODE", "DELEGATECALL", "STATICCALL"})
        /\ Cell(W, s, 4) < ACCOUNT_ADDRESS
        /\ has_value => Cell(W, s, 2) = 0
        /\ \/ AreaOverflow(areas)
           \/ s.gas_left < CallGasCost(has_value, Cell(W, s, last), IsOp(s, "CALL"),
                                       Cell(W, s, last - 1), AreasExpansion(s, areas))
        /\ CommonError(W, s, n,
               call_context(W, s, 1, s.call_id, <<"TxId", "IsStatic">>)
               \o CommonCallOps(W, s, operands)
               \o AccessListLookup(W, s, last, Cell(W, s, 1), Cell(W, s, 4)),
               11 + Bit(with_value))

MAX_INIT_CODE_SIZE == MAX_EXPANDED_MEMORY_ADDRESS
ErrorOOGCreateGadget(W, s, n) ==
    LET is_create2 == IsOp(s, "CREATE2")
        area == <<Cell(W, s, 2), Cell(W, s, 3)>>
        length == expanded_length(area[1], area[2])
        per_word == IF is_create2 THEN CREATE2_GAS_PER_CODE_WORD ELSE CREATE_GAS_PER_CODE_WORD
        operands == IF is_create2 THEN 4 ELSE 3
    IN  /\ OpcodeIn(s, {"CREATE", "CREATE2"})
        /\ \/ AreaOverflow({area})
           \/ MAX_INIT_CODE_SIZE < length
           \/ s.gas_left < GasCost.CREATE + AreasExpansion(s, {area})
                               + MemoryWordSize(length) * per_word
        /\ CommonError(W, s, n, stack_pops(W, s, 1, operands), operands)

----------------------------------------------------------------------------
(* Other exceptions *)

ErrorStackGadget(W, s, n) ==
    Responsible("ErrorStack", s.opcode, s.stack_pointer) /\ CommonError(W, s, n, <<>>, 0)

ErrorInvalidOpcodeGadget(W, s, n) ==
    Responsible("ErrorInvalidOpcode", s.opcode, 0) /\ CommonError(W, s, n, <<>>, 0)

ErrorInvalidJumpGadget(W, s, n) ==
    LET is_jumpi == IsOp(s, "JUMPI")
        dest == Cell(W, s, 1)
        code == W.codes[s.code_hash]
        found == code_vec(code)[dest + 1]
        operands == IF is_jumpi THEN 2 ELSE 1
    IN  /\ OpcodeIn(s, {"JUMP", "JUMPI"}) /\ s.code_hash \in DOMAIN W.codes
        /\ lt_cap(dest, Len(code)) => found # <<as_u8(Op("JUMPDEST")), 1>>
        /\ is_jumpi => Cell(W, s, 2) # 0
        /\ CommonError(W, s, n, stack_pops(W, s, 1, operands), operands)

ErrorReturnDataOutOfBoundGadget(W, s, n) ==
    LET data_offset == Cell(W, s, 2)
        remainder_end == data_offset + Cell(W, s, 3)
    IN  /\ IsOp(s, "RETURNDATACOPY") /\ Cell(W, s, 1) < U64
        /\ \/ ~not_overflow(data_offset)
           \/ remainder_end >= WORD_SIZE
           \/ ~not_overflow(remainder_end % WORD_SIZE)
           \/ Cell(W, s, 4) < remainder_end % U64
        /\ CommonError(W, s, n,
               stack_pops(W, s, 1, 3)
               \o call_context(W, s, 4, s.call_id, <<"LastCalleeReturnDataLength">>), 4)

ErrorCodeStoreGadget(W, s, n) ==
    LET length == Cell(W, s, 2) IN
    /\ IsOp(s, "RETURN") /\ MemoryAddress(Cell(W, s, 1), length)
    /\ Cell(W, s, 3) = 0 /\ s.is_create = 1
    /\ s.gas_left < GasCost.CODE_DEPOSIT_BYTE_COST * length \/ MAXCODESIZE < length
    /\ CommonError(W, s, n,
           stack_pops(W, s, 1, 2) \o call_context(W, s, 3, s.call_id, <<"IsStatic">>), 3)

ErrorInvalidCreationCodeGadget(W, s, n) ==
    LET offset == Cell(W, s, 1)
        length == Cell(W, s, 2)
    IN  /\ s.is_create = 1 /\ MemoryAddress(offset, length)
        /\ CommonError(W, s, n,
               stack_pops(W, s, 1, 2)
               \o << MemoryOp("R", s.call_id, memory_offset(offset, length), 239) >>, 3)

ErrorWriteProtectionGadget(W, s, n) ==
    LET is_call == IsOp(s, "CALL")
        k == IF is_call THEN 4 ELSE 1
    IN  /\ \/ OpcodeIn(s, {"CALL", "SSTORE", "CREATE", "CREATE2", "SELFDESTRUCT"})
           \/ s.opcode - as_u8(<<"LOG", 0>>) \in 0 .. 4
        /\ is_call => Cell(W, s, 2) < ACCOUNT_ADDRESS /\ Cell(W, s, 3) # 0
        /\ Cell(W, s, k) = 1 /\ s.is_root = 0
        /\ CommonError(W, s, n,
               (IF is_call THEN stack_pops(W, s, 1, 3) ELSE <<>>)
               \o call_context(W, s, k, s.call_id, <<"IsStatic">>), 0)

----------------------------------------------------------------------------
(* The gadget of an error state *)

ErrorGadget(W, s, n) ==
    LET state == s.exec_state IN
    CASE state = "ErrorInvalidOpcode" -> ErrorInvalidOpcodeGadget(W, s, n)
      [] state = "ErrorStack" -> ErrorStackGadget(W, s, n)
      [] state = "ErrorWriteProtection" -> ErrorWriteProtectionGadget(W, s, n)
      [] state = "ErrorInvalidCreationCode" -> ErrorInvalidCreationCodeGadget(W, s, n)
      [] state = "ErrorCodeStore" -> ErrorCodeStoreGadget(W, s, n)
      [] state = "ErrorInvalidJump" -> ErrorInvalidJumpGadget(W, s, n)
      [] state = "ErrorReturnDataOutOfBound" -> ErrorReturnDataOutOfBoundGadget(W, s, n)
      [] state = "ErrorOutOfGasConstant" -> ErrorOOGConstantGadget(W, s, n)
      [] state = "ErrorOutOfGasStaticMemoryExpansion" -> ErrorOOGStaticMemoryGadget(W, s, n)
      [] state = "ErrorOutOfGasDynamicMemoryExpansion" -> ErrorOOGDynamicMemoryGadget(W, s, n)
      [] state = "ErrorOutOfGasMemoryCopy" -> ErrorOOGMemoryCopyGadget(W, s, n)
      [] state = "ErrorOutOfGasAccountAccess" -> ErrorOOGAccountAccessGadget(W, s, n)
      [] state = "ErrorOutOfGasLOG" -> ErrorOOGLogGadget(W, s, n)
      [] state = "ErrorOutOfGasEXP" -> ErrorOOGExpGadget(W, s, n)
      [] state = "ErrorOutOfGasSHA3" -> ErrorOOGSha3Gadget(W, s, n)
      [] state = "ErrorOutOfGasCall" -> ErrorOOGCallGadget(W, s, n)
      [] state = "ErrorOutOfGasSloadSstore" -> ErrorOOGSloadSstoreGadget(W, s, n)
      [] state = "ErrorOutOfGasCREATE" -> ErrorOOGCreateGadget(W, s, n)
      [] OTHER -> FALSE

(* The gadget of a row, ordinary or not. *)
StepGadget(W, s, n) ==
    IF s.exec_state \in ErrorStates THEN ErrorGadget(W, s, n) ELSE OrdinaryGadget(W, s, n)
=============================================================================
