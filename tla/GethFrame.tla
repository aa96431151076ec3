------------------------------ MODULE GethFrame ------------------------------
(***************************************************************************)
(* What go-ethereum does with one instruction of a call frame; it is the   *)
(* source of the execution trace and lies outside the repository.  The     *)
(* order is that of its interpreter: stack validation, constant gas,       *)
(* memory size, dynamic gas, execution.  The outcome is an error, a frame  *)
(* that continues, or "left" for the instructions whose success belongs to *)
(* other modules.  Errors up to the dynamic gas are written into the       *)
(* trace; those of the execution are not.                                  *)
(*                                                                         *)
(* A frame f has the context of the call; a machine state g has pc, stack  *)
(* (the last element is the top), memory, gas, warm accounts.              *)
(***************************************************************************)
EXTENDS MemoryGadgets, SequencesExt

(* An injective stand-in for the hash, on short inputs. *)
Keccak(bytes) == FoldLeft(LAMBDA h, byte : (h * 31 + byte + 7) % WORD_SIZE, Len(bytes) + 1, bytes)

Pops(op) ==
    LET name == op[1] IN
    CASE name = "DUP" -> op[2]
      [] name = "SWAP" -> op[2] + 1
      [] name = "LOG" -> op[2] + 2
      [] name \in {"STOP", "ADDRESS", "ORIGIN", "CALLER", "CALLVALUE", "CALLDATASIZE",
                   "CODESIZE", "GASPRICE", "RETURNDATASIZE", "COINBASE", "TIMESTAMP",
                   "NUMBER", "DIFFICULTY", "GASLIMIT", "CHAINID", "SELFBALANCE", "BASEFEE",
                   "PC", "MSIZE", "GAS", "JUMPDEST", "PUSH", "INVALID"} -> 0
      [] name \in {"ISZERO", "NOT", "BALANCE", "CALLDATALOAD", "EXTCODESIZE", "EXTCODEHASH",
                   "BLOCKHASH", "POP", "MLOAD", "SLOAD", "JUMP", "SELFDESTRUCT"} -> 1
      [] name \in {"ADDMOD", "MULMOD", "CALLDATACOPY", "CODECOPY", "RETURNDATACOPY",
                   "CREATE"} -> 3
      [] name \in {"EXTCODECOPY", "CREATE2"} -> 4
      [] name \in {"DELEGATECALL", "STATICCALL"} -> 6
      [] name \in {"CALL", "CALLCODE"} -> 7
      [] OTHER -> 2

Pushes(op) ==
    LET name == op[1] IN
    CASE name = "DUP" -> op[2] + 1
      [] name = "SWAP" -> op[2] + 1
      [] name \in {"STOP", "CALLDATACOPY", "CODECOPY", "EXTCODECOPY", "RETURNDATACOPY", "POP",
                   "MSTORE", "MSTORE8", "SSTORE", "JUMP", "JUMPI", "JUMPDEST", "LOG", "RETURN",
                   "REVERT", "SELFDESTRUCT", "INVALID"} -> 0
      [] OTHER -> 1

ConstantGas(op) ==
    LET name == op[1] IN
    CASE name \in {"STOP", "SLOAD", "SSTORE", "RETURN", "REVERT", "INVALID", "LOG"} -> 0
      [] name = "JUMPDEST" -> 1
      [] name \in {"ADDRESS", "ORIGIN", "CALLER", "CALLVALUE", "CALLDATASIZE", "CODESIZE",
                   "GASPRICE", "RETURNDATASIZE", "COINBASE", "TIMESTAMP", "NUMBER",
                   "DIFFICULTY", "GASLIMIT", "CHAINID", "BASEFEE", "POP", "PC", "MSIZE",
                   "GAS"} \/ op = <<"PUSH", 0>> -> 2
      [] name \in {"MUL", "DIV", "SDIV", "MOD", "SMOD", "SIGNEXTEND", "SELFBALANCE"} -> 5
      [] name \in {"ADDMOD", "MULMOD", "JUMP"} -> 8
      [] name = "JUMPI" -> 10
      [] name = "EXP" -> 0
      [] name = "BLOCKHASH" -> 20
      [] name = "SHA3" -> 30
      [] name \in {"BALANCE", "EXTCODESIZE", "EXTCODECOPY", "EXTCODEHASH", "CALL", "CALLCODE",
                   "DELEGATECALL", "STATICCALL"} -> 100
      [] name \in {"CREATE", "CREATE2"} -> 32000
      [] name = "SELFDESTRUCT" -> 5000
      [] OTHER -> 3

(* nth operand, from the top of the stack. *)
Back(g, n) == g.stack[Len(g.stack) - n]

(* The areas of memory an instruction touches: offset and length. *)
MemoryAreas(g, op) ==
    LET name == op[1]
        Area(i, j) == {<<Back(g, i), Back(g, j)>>}
    IN  CASE name \in {"MLOAD", "MSTORE"} -> {<<Back(g, 0), WORD>>}
          [] name = "MSTORE8" -> {<<Back(g, 0), 1>>}
          [] name \in {"SHA3", "RETURN", "REVERT", "LOG"} -> Area(0, 1)
          [] name \in {"CALLDATACOPY", "CODECOPY", "RETURNDATACOPY"} -> Area(0, 2)
          [] name = "EXTCODECOPY" -> Area(1, 3)
          [] name \in {"CREATE", "CREATE2"} -> Area(1, 2)
          [] name \in {"CALL", "CALLCODE"} -> Area(3, 4) \union Area(5, 6)
          [] name \in {"DELEGATECALL", "STATICCALL"} -> Area(2, 3) \union Area(4, 5)
          [] OTHER -> {}

Overflows(area) == area[2] # 0 /\ (area[2] >= U64 \/ area[1] + area[2] >= U64)
AreaEnd(area) == IF area[2] = 0 THEN 0 ELSE area[1] + area[2]

(* Words of memory after the instruction; memoryGasCost refuses sizes above the limit. *)
NewWords(g, op) ==
    next_memory_word_size(Len(g.memory) \div WORD, {AreaEnd(a) : a \in MemoryAreas(g, op)})
TooLarge(g, op) ==
    \/ \E a \in MemoryAreas(g, op) : Overflows(a)
    \/ NewWords(g, op) * WORD > MAX_EXPANDED_MEMORY_ADDRESS

MemoryFee(g, op) ==
    LET Fee(words) == 3 * words + (words * words) \div 512
    IN  Fee(NewWords(g, op)) - Fee(Len(g.memory) \div WORD)

Exists(f, a) == a \in DOMAIN f.accounts
ByteLength(word) == Cardinality({i \in 0 .. WORD - 1 : word >= 256^i})

StorageGas(f, g, op) ==
    LET key == Back(g, 0)
        slot == f.storage[key]
        cold == IF key \in f.warm_slots THEN 0 ELSE 2100
        value == Back(g, 1)
    IN  IF op[1] = "SLOAD" THEN IF cold = 0 THEN 100 ELSE cold
        ELSE cold + IF value = slot.value THEN 100
                    ELSE IF slot.value = slot.original
                         THEN IF slot.original = 0 THEN 20000 ELSE 2900
                         ELSE 100

ColdAccess(f, g, n) == IF to_address(Back(g, n)) \in g.warm THEN 0 ELSE 2500

DynamicGas(f, g, op) ==
    LET name == op[1]
        Copier(n) == 3 * MemoryWordSize(Back(g, n))
        value == Back(g, 2)
    IN  CASE name \in {"MLOAD", "MSTORE", "MSTORE8", "RETURN", "REVERT", "CREATE"} ->
                 MemoryFee(g, op)
          [] name = "CREATE2" -> MemoryFee(g, op) + 6 * MemoryWordSize(Back(g, 2))
          [] name = "SHA3" -> MemoryFee(g, op) + 6 * MemoryWordSize(Back(g, 1))
          [] name \in {"CALLDATACOPY", "CODECOPY", "RETURNDATACOPY"} -> MemoryFee(g, op) + Copier(2)
          [] name = "EXTCODECOPY" -> MemoryFee(g, op) + Copier(3) + ColdAccess(f, g, 0)
          [] name \in {"BALANCE", "EXTCODESIZE", "EXTCODEHASH"} -> ColdAccess(f, g, 0)
          [] name = "LOG" -> MemoryFee(g, op) + 375 + 375 * op[2] + 8 * Back(g, 1)
          [] name = "EXP" -> 10 + 50 * ByteLength(Back(g, 1))
          [] name \in {"SLOAD", "SSTORE"} -> StorageGas(f, g, op)
          [] name \in {"CALL", "CALLCODE"} ->
                 MemoryFee(g, op) + ColdAccess(f, g, 1)
                     + IF value = 0 THEN 0
                       ELSE 9000 + IF name = "CALL" /\ ~Exists(f, to_address(Back(g, 1)))
                                   THEN 25000 ELSE 0
          [] name \in {"DELEGATECALL", "STATICCALL"} -> MemoryFee(g, op) + ColdAccess(f, g, 1)
          [] OTHER -> 0

(* Whether the gas left does not pay for the instruction. *)
OutOfGas(f, g, op) ==
    \/ g.gas < ConstantGas(op)
    \/ TooLarge(g, op)
    \/ op[1] = "SSTORE" /\ g.gas <= 2300
    \/ g.gas < ConstantGas(op) + DynamicGas(f, g, op)

----------------------------------------------------------------------------
(* Jump destinations: positions of JUMPDEST that are not data of a PUSH. *)

PushData(code) ==
    LET data[i \in 0 .. Len(code)] ==     \* the data found in the first i bytes
            IF i = 0 THEN {}
            ELSE LET byte == code[i]
                     before == data[i - 1]
                 IN  IF i - 1 \in before \/ byte \notin 96 .. 127 THEN before
                     ELSE before \union (i .. i + byte - 96)
    IN  data[Len(code)]

ValidJumpdest(f, dest) ==
    dest < Len(f.code) /\ f.code[dest + 1] = 91 /\ dest \notin PushData(f.code)

----------------------------------------------------------------------------
(* Execution *)

WritesState(op) ==
    op[1] \in {"SSTORE", "CREATE", "CREATE2", "SELFDESTRUCT", "LOG"}

(* Errors of the instruction itself. *)
ExecutionError(f, g, op) ==
    LET name == op[1] IN
    CASE name = "INVALID" -> "invalid opcode"
      [] name = "JUMP" /\ ~ValidJumpdest(f, Back(g, 0)) -> "invalid jump destination"
      [] name = "JUMPI" /\ Back(g, 1) # 0 /\ ~ValidJumpdest(f, Back(g, 0)) ->
             "invalid jump destination"
      [] name = "RETURNDATACOPY" /\ ( \/ Back(g, 1) >= U64
                                      \/ (Back(g, 1) + Back(g, 2)) >= U64
                                      \/ Back(g, 1) + Back(g, 2) > Len(f.return_data) ) ->
             "return data out of bounds"
      [] f.is_static = 1 /\ (WritesState(op) \/ (name = "CALL" /\ Back(g, 2) # 0)) ->
             "write protection"
      [] OTHER -> ""

(* The code that a creation returns; the gas is what RETURN has left. *)
CreationError(f, g, op) ==
    LET offset == Back(g, 0)
        length == Back(g, 1)
        first == read_chunk(g.memory, offset, 1)[1]
        gas == g.gas - ConstantGas(op) - DynamicGas(f, g, op)
    IN  CASE f.is_create = 0 \/ op[1] # "RETURN" -> ""
          [] length > MAXCODESIZE -> "max code size exceeded"
          [] length > 0 /\ first = 239 -> "invalid code"
          [] gas < 200 * length -> "code store out of gas"
          [] OTHER -> ""

HashOf(f, a) == IF Exists(f, a) THEN f.accounts[a].code_hash ELSE 0
CodeOf(f, a) == IF Exists(f, a) THEN f.codes[f.accounts[a].code_hash] ELSE <<>>
BalanceOf(f, a) == IF Exists(f, a) THEN f.accounts[a].balance ELSE 0

(* The word an instruction pushes. *)
Result(f, g, op) ==
    LET name == op[1]
        address == to_address(Back(g, 0))
    IN  CASE name = "PUSH" ->
               LET data == read_chunk(f.code, g.pc + 1, op[2])
               IN  FoldLeft(LAMBDA w, byte : w * 256 + byte, 0, data)
          [] name = "PC" -> g.pc
          [] name = "MSIZE" -> Len(g.memory)
          [] name = "GAS" -> g.gas - 2
          [] name = "ADDRESS" -> f.address
          [] name = "CALLER" -> f.caller_address
          [] name = "CALLVALUE" -> f.value
          [] name = "ORIGIN" -> f.origin
          [] name = "GASPRICE" -> f.gas_price
          [] name = "CALLDATASIZE" -> Len(f.call_data)
          [] name = "CODESIZE" -> Len(f.code)
          [] name = "RETURNDATASIZE" -> Len(f.return_data)
          [] name = "SELFBALANCE" -> BalanceOf(f, f.address)
          [] name \in DOMAIN f.block -> f.block[name]
          [] name = "BLOCKHASH" ->
               LET number == f.block["NUMBER"]
               IN  IF Back(g, 0) < number /\ number <= Back(g, 0) + 256
                   THEN f.block_hash[Back(g, 0)] ELSE 0
          [] name = "BALANCE" -> BalanceOf(f, address)
          [] name = "EXTCODEHASH" -> HashOf(f, address)
          [] name = "EXTCODESIZE" -> Len(CodeOf(f, address))
          [] name = "MLOAD" -> from_be_bytes(read_chunk(g.memory, Back(g, 0), WORD))
          [] name = "CALLDATALOAD" -> from_be_bytes(read_chunk(f.call_data, Back(g, 0), WORD))
          [] name = "SHA3" -> Keccak(read_chunk(g.memory, Back(g, 0), Back(g, 1)))

NewStack(f, g, op) ==
    LET name == op[1]
        length == Len(g.stack)
        kept == SubSeq(g.stack, 1, length - Pops(op))
    IN  CASE name = "DUP" -> Append(g.stack, Back(g, op[2] - 1))
          [] name = "SWAP" -> [g.stack EXCEPT ![length] = Back(g, op[2]),
                                              ![length - op[2]] = Back(g, 0)]
          [] Pushes(op) = 0 -> kept
          [] OTHER -> Append(kept, Result(f, g, op))

NewMemory(f, g, op) ==
    LET name == op[1]
        grown == read_chunk(g.memory, 0, NewWords(g, op) * WORD)
    IN  CASE name = "MSTORE" -> WriteBytes(grown, Back(g, 0), to_be_bytes(Back(g, 1)))
          [] name = "MSTORE8" -> WriteBytes(grown, Back(g, 0), <<Back(g, 1) % 256>>)
          [] name = "CALLDATACOPY" ->
                 WriteBytes(grown, Back(g, 0), read_chunk(f.call_data, Back(g, 1), Back(g, 2)))
          [] name = "CODECOPY" ->
                 WriteBytes(grown, Back(g, 0), read_chunk(f.code, Back(g, 1), Back(g, 2)))
          [] name = "RETURNDATACOPY" ->
                 WriteBytes(grown, Back(g, 0), read_chunk(f.return_data, Back(g, 1), Back(g, 2)))
          [] name = "EXTCODECOPY" ->
                 WriteBytes(grown, Back(g, 1),
                     read_chunk(CodeOf(f, to_address(Back(g, 0))), Back(g, 2), Back(g, 3)))
          [] OTHER -> grown

NewPc(g, op) ==
    CASE op[1] = "JUMP" -> Back(g, 0)
      [] op[1] = "JUMPI" -> IF Back(g, 1) # 0 THEN Back(g, 0) ELSE g.pc + 1
      [] OTHER -> g.pc + 1 + data_len(op)

Succeed(f, g, op) ==
    [pc |-> NewPc(g, op), stack |-> NewStack(f, g, op), memory |-> NewMemory(f, g, op),
     gas |-> g.gas - ConstantGas(op) - DynamicGas(f, g, op),
     warm |-> IF op[1] \in {"BALANCE", "EXTCODESIZE", "EXTCODEHASH", "EXTCODECOPY"}
              THEN g.warm \union {to_address(Back(g, 0))} ELSE g.warm]

(* The instruction at pc; code that is run past its end stops. *)
OpAtPc(f, g) == IF g.pc < Len(f.code) THEN OpcodeFrom(f.code[g.pc + 1]) ELSE Op("STOP")

StackDepth(f, g) == f.below + Len(g.stack)

(* Errors that the trace records with the step, and then those it does not. *)
TracedError(f, g) ==
    LET op == OpAtPc(f, g) IN
    CASE StackDepth(f, g) < Pops(op) -> "stack underflow"
      [] StackDepth(f, g) > 1024 + Pops(op) - Pushes(op) -> "stack overflow"
      [] OutOfGas(f, g, op) -> "out of gas"
      [] OTHER -> ""

UntracedError(f, g) ==
    LET op == OpAtPc(f, g)
        error == ExecutionError(f, g, op)
    IN  IF error # "" THEN error ELSE CreationError(f, g, op)
=============================================================================
