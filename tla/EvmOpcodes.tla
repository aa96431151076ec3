----------------------------- MODULE EvmOpcodes -----------------------------
(***************************************************************************)
(* The tables about opcodes that bus-mapping and the EVM circuit share:    *)
(* bytes, constant gas, stack pointers, and which execution state is       *)
(* responsible for an opcode or for an error.  An opcode is a pair of a    *)
(* name and the number after it (PUSHn, DUPn, SWAPn, LOGn; 0 otherwise,    *)
(* and the byte itself for INVALID).                                       *)
(***************************************************************************)
EXTENDS Integers, Sequences, FiniteSets

Op(name) == <<name, 0>>

----------------------------------------------------------------------------
(* OpcodeId *)

FamilyByte == [PUSH |-> 95, DUP |-> 127, SWAP |-> 143, LOG |-> 160]

NamedByte ==
    [STOP |-> 0, ADD |-> 1, MUL |-> 2, SUB |-> 3, DIV |-> 4, SDIV |-> 5, MOD |-> 6, SMOD |-> 7,
     ADDMOD |-> 8, MULMOD |-> 9, EXP |-> 10, SIGNEXTEND |-> 11, LT |-> 16, GT |-> 17,
     SLT |-> 18, SGT |-> 19, EQ |-> 20, ISZERO |-> 21, AND |-> 22, OR |-> 23, XOR |-> 24,
     NOT |-> 25, BYTE |-> 26, SHL |-> 27, SHR |-> 28, SAR |-> 29, SHA3 |-> 32,
     ADDRESS |-> 48, BALANCE |-> 49, ORIGIN |-> 50, CALLER |-> 51, CALLVALUE |-> 52,
     CALLDATALOAD |-> 53, CALLDATASIZE |-> 54, CALLDATACOPY |-> 55, CODESIZE |-> 56,
     CODECOPY |-> 57, GASPRICE |-> 58, EXTCODESIZE |-> 59, EXTCODECOPY |-> 60,
     RETURNDATASIZE |-> 61, RETURNDATACOPY |-> 62, EXTCODEHASH |-> 63, BLOCKHASH |-> 64,
     COINBASE |-> 65, TIMESTAMP |-> 66, NUMBER |-> 67, DIFFICULTY |-> 68, GASLIMIT |-> 69,
     CHAINID |-> 70, SELFBALANCE |-> 71, BASEFEE |-> 72, POP |-> 80, MLOAD |-> 81,
     MSTORE |-> 82, MSTORE8 |-> 83, SLOAD |-> 84, SSTORE |-> 85, JUMP |-> 86, JUMPI |-> 87,
     PC |-> 88, MSIZE |-> 89, GAS |-> 90, JUMPDEST |-> 91, CREATE |-> 240, CALL |-> 241,
     CALLCODE |-> 242, RETURN |-> 243, DELEGATECALL |-> 244, CREATE2 |-> 245,
     STATICCALL |-> 250, REVERT |-> 253, SELFDESTRUCT |-> 255]

as_u8(op) ==
    IF op[1] \in DOMAIN FamilyByte THEN FamilyByte[op[1]] + op[2]
    ELSE IF op[1] = "INVALID" THEN op[2] ELSE NamedByte[op[1]]

(* The opcodes 0x00, 0x10, ... of impl From<u8>, row by row. *)
ByteRow ==
    [row \in 0 .. 15 |->
       CASE row = 0 -> <<"STOP", "ADD", "MUL", "SUB", "DIV", "SDIV", "MOD", "SMOD", "ADDMOD",
                         "MULMOD", "EXP", "SIGNEXTEND">>
         [] row = 1 -> <<"LT", "GT", "SLT", "SGT", "EQ", "ISZERO", "AND", "OR", "XOR", "NOT",
                         "BYTE", "SHL", "SHR", "SAR">>
         [] row = 2 -> <<"SHA3">>
         [] row = 3 -> <<"ADDRESS", "BALANCE", "ORIGIN", "CALLER", "CALLVALUE", "CALLDATALOAD",
                         "CALLDATASIZE", "CALLDATACOPY", "CODESIZE", "CODECOPY", "GASPRICE",
                         "EXTCODESIZE", "EXTCODECOPY", "RETURNDATASIZE", "RETURNDATACOPY",
                         "EXTCODEHASH">>
         [] row = 4 -> <<"BLOCKHASH", "COINBASE", "TIMESTAMP", "NUMBER", "DIFFICULTY",
                         "GASLIMIT", "CHAINID", "SELFBALANCE", "BASEFEE">>
         [] row = 5 -> <<"POP", "MLOAD", "MSTORE", "MSTORE8", "SLOAD", "SSTORE", "JUMP",
                         "JUMPI", "PC", "MSIZE", "GAS", "JUMPDEST">>
         [] row = 15 -> <<"CREATE", "CALL", "CALLCODE", "RETURN", "DELEGATECALL", "CREATE2",
                          "", "", "", "", "STATICCALL", "", "", "REVERT", "", "SELFDESTRUCT">>
         [] OTHER -> <<>>]

(* impl From<u8> for OpcodeId. *)
OpcodeFrom(byte) ==
    LET row == ByteRow[byte \div 16]
        column == (byte % 16) + 1
    IN  CASE byte \in 95 .. 127 -> <<"PUSH", byte - 95>>
          [] byte \in 128 .. 143 -> <<"DUP", byte - 127>>
          [] byte \in 144 .. 159 -> <<"SWAP", byte - 143>>
          [] byte \in 160 .. 164 -> <<"LOG", byte - 160>>
          [] OTHER -> IF column \in DOMAIN row /\ row[column] # "" THEN <<row[column], 0>>
                      ELSE <<"INVALID", byte>>

Bytes == 0 .. 255
OpcodeIds == {OpcodeFrom(byte) : byte \in Bytes}
valid_opcodes == {op \in OpcodeIds : op[1] # "INVALID"}
invalid_opcodes == {op \in OpcodeIds : op[1] = "INVALID"}

is_push(op) == as_u8(op) \in 95 .. 127
is_push_with_data(op) == as_u8(op) \in 96 .. 127

(* data_len, and get_push_size on the byte. *)
data_len(op) == IF is_push_with_data(op) THEN as_u8(op) - 95 ELSE 0

(* The byte of an opcode is the byte it is read back from. *)
ASSUME ByteRoundTrip == \A byte \in Bytes : as_u8(OpcodeFrom(byte)) = byte

----------------------------------------------------------------------------
(* Gas *)

GasCost ==
    [ZERO |-> 0, ONE |-> 1, QUICK |-> 2, FASTEST |-> 3, FAST |-> 5, MID |-> 8, SLOW |-> 10,
     EXT |-> 20, SHA3 |-> 30, SELFDESTRUCT |-> 5000, CREATE |-> 32000, COPY |-> 3,
     COPY_SHA3 |-> 6, WARM_ACCESS |-> 100, COLD_SLOAD |-> 2100, COLD_ACCOUNT_ACCESS |-> 2600,
     SSTORE_SENTRY |-> 2300, SSTORE_SET |-> 20000, SSTORE_RESET |-> 2900,
     CALL_WITH_VALUE |-> 9000, NEW_ACCOUNT |-> 25000, CODE_DEPOSIT_BYTE_COST |-> 200,
     MEMORY_EXPANSION_QUAD_DENOMINATOR |-> 512, MEMORY_EXPANSION_LINEAR_COEFF |-> 3,
     LOG |-> 375, EXP_BYTE_TIMES |-> 50]

CREATE_GAS_PER_CODE_WORD  == 0
CREATE2_GAS_PER_CODE_WORD == GasCost.COPY_SHA3

constant_gas_cost(op) ==
    LET name == op[1] IN
    CASE name \in {"STOP", "SLOAD", "SSTORE", "LOG", "RETURN", "REVERT", "INVALID"} -> GasCost.ZERO
      [] name = "JUMPDEST" -> GasCost.ONE
      [] name \in {"ADDRESS", "ORIGIN", "CALLER", "CALLVALUE", "CALLDATASIZE", "CODESIZE",
                   "GASPRICE", "RETURNDATASIZE", "COINBASE", "TIMESTAMP", "NUMBER",
                   "DIFFICULTY", "GASLIMIT", "CHAINID", "BASEFEE", "POP", "PC", "MSIZE",
                   "GAS"} \/ op = <<"PUSH", 0>> -> GasCost.QUICK
      [] name \in {"MUL", "DIV", "SDIV", "MOD", "SMOD", "SIGNEXTEND", "SELFBALANCE"} ->
             GasCost.FAST
      [] name \in {"ADDMOD", "MULMOD", "JUMP"} -> GasCost.MID
      [] name \in {"EXP", "JUMPI"} -> GasCost.SLOW
      [] name = "BLOCKHASH" -> GasCost.EXT
      [] name = "SHA3" -> GasCost.SHA3
      [] name \in {"BALANCE", "EXTCODESIZE", "EXTCODECOPY", "EXTCODEHASH", "CALL", "CALLCODE",
                   "DELEGATECALL", "STATICCALL"} -> GasCost.WARM_ACCESS
      [] name \in {"CREATE", "CREATE2"} -> GasCost.CREATE
      [] name = "SELFDESTRUCT" -> GasCost.SELFDESTRUCT
      [] OTHER -> GasCost.FASTEST

(* FixedTableTag::ConstantGasCost: the opcodes with a cost. *)
ConstantGasCostTable ==
    {<<as_u8(op), constant_gas_cost(op)>> : op \in {o \in OpcodeIds : constant_gas_cost(o) > 0}}

----------------------------------------------------------------------------
(* Stack pointers: the least and the greatest with which an opcode can run; 0 as the
   least means that it never overflows. *)

StackPtrRange(op) ==
    LET name == op[1] IN
    CASE name \in {"STOP", "JUMPDEST"} -> <<0, 1024>>
      [] name \in {"ADDRESS", "ORIGIN", "CALLER", "CALLVALUE", "CALLDATASIZE", "CODESIZE",
                   "GASPRICE", "RETURNDATASIZE", "COINBASE", "TIMESTAMP", "NUMBER",
                   "DIFFICULTY", "GASLIMIT", "CHAINID", "SELFBALANCE", "BASEFEE", "PC",
                   "MSIZE", "GAS", "PUSH"} -> <<1, 1024>>
      [] name = "DUP" -> <<1, 1024 - op[2]>>
      [] name = "SWAP" -> <<0, 1023 - op[2]>>
      [] name = "LOG" -> <<0, 1022 - op[2]>>
      [] name \in {"ISZERO", "NOT", "BALANCE", "CALLDATALOAD", "EXTCODESIZE", "EXTCODEHASH",
                   "BLOCKHASH", "POP", "MLOAD", "SLOAD", "JUMP", "SELFDESTRUCT"} -> <<0, 1023>>
      [] name \in {"ADDMOD", "MULMOD", "CALLDATACOPY", "CODECOPY", "RETURNDATACOPY",
                   "CREATE"} -> <<0, 1021>>
      [] name \in {"EXTCODECOPY", "CREATE2"} -> <<0, 1020>>
      [] name \in {"DELEGATECALL", "STATICCALL"} -> <<0, 1018>>
      [] name \in {"CALL", "CALLCODE"} -> <<0, 1017>>
      [] OTHER -> <<0, 1022>>

invalid_stack_ptrs(op) ==
    {p \in 0 .. 1024 : p < StackPtrRange(op)[1] \/ p > StackPtrRange(op)[2]}

----------------------------------------------------------------------------
(* Execution states *)

(* From<&ExecStep> for ExecutionState, for a step without an error. *)
ExecutionStateOf(op) ==
    LET name == op[1] IN
    CASE name \in {"ADD", "SUB"} -> "ADD_SUB"
      [] name \in {"MUL", "DIV", "MOD"} -> "MUL_DIV_MOD"
      [] name \in {"SDIV", "SMOD"} -> "SDIV_SMOD"
      [] name \in {"EQ", "LT", "GT"} -> "CMP"
      [] name \in {"SLT", "SGT"} -> "SCMP"
      [] name \in {"AND", "XOR", "OR"} -> "BITWISE"
      [] name \in {"MLOAD", "MSTORE", "MSTORE8"} -> "MEMORY"
      [] name \in {"TIMESTAMP", "NUMBER", "GASLIMIT", "COINBASE", "DIFFICULTY", "BASEFEE"} ->
             "BLOCKCTX"
      [] name \in {"SHL", "SHR"} -> "SHL_SHR"
      [] name \in {"CALL", "CALLCODE", "DELEGATECALL", "STATICCALL"} -> "CALL_OP"
      [] name \in {"RETURN", "REVERT"} -> "RETURN_REVERT"
      [] OTHER -> name

(* responsible_opcodes, the groups; every other state of an opcode has its name. *)
ResponsibleGroup ==
    [ADD_SUB |-> {"ADD", "SUB"}, MUL_DIV_MOD |-> {"MUL", "DIV", "MOD"},
     SDIV_SMOD |-> {"SDIV", "SMOD"}, SHL_SHR |-> {"SHL", "SHR"}, CMP |-> {"LT", "GT", "EQ"},
     SCMP |-> {"SLT", "SGT"}, BITWISE |-> {"AND", "OR", "XOR"},
     BLOCKCTX |-> {"TIMESTAMP", "NUMBER", "GASLIMIT", "COINBASE", "DIFFICULTY", "BASEFEE"},
     MEMORY |-> {"MLOAD", "MSTORE", "MSTORE8"},
     CALL_OP |-> {"CALL", "CALLCODE", "DELEGATECALL", "STATICCALL"},
     RETURN_REVERT |-> {"RETURN", "REVERT"}, ErrorInvalidOpcode |-> {"INVALID"}]

(* FixedTableTag::ResponsibleOpcode, as a predicate: a row's state, byte and aux. *)
Responsible(exec_state, byte, aux) ==
    LET op == OpcodeFrom(byte) IN
    IF exec_state = "ErrorStack"
    THEN op \in valid_opcodes /\ aux \in invalid_stack_ptrs(op)
    ELSE /\ aux = 0
         /\ IF exec_state \in DOMAIN ResponsibleGroup THEN op[1] \in ResponsibleGroup[exec_state]
            ELSE op[1] = exec_state

(* OogError::from(&OpcodeId). *)
OogErrorOf(op) ==
    LET name == op[1] IN
    CASE name \in {"MLOAD", "MSTORE", "MSTORE8"} -> "StaticMemoryExpansion"
      [] name \in {"RETURN", "REVERT"} -> "DynamicMemoryExpansion"
      [] name \in {"CALLDATACOPY", "CODECOPY", "EXTCODECOPY", "RETURNDATACOPY"} -> "MemoryCopy"
      [] name \in {"BALANCE", "EXTCODESIZE", "EXTCODEHASH"} -> "AccountAccess"
      [] name = "LOG" -> "Log"
      [] name = "EXP" -> "Exp"
      [] name = "SHA3" -> "Sha3"
      [] name \in {"CALL", "CALLCODE", "DELEGATECALL", "STATICCALL"} -> "Call"
      [] name \in {"SLOAD", "SSTORE"} -> "SloadSstore"
      [] name \in {"CREATE", "CREATE2"} -> "Create"
      [] name = "SELFDESTRUCT" -> "SelfDestruct"
      [] OTHER -> "Constant"

(* From<&ExecError> for ExecutionState, for the errors that end a frame; an out-of-gas
   error is the name of its OogError. *)
ErrorStateOf(error) ==
    CASE error = "InvalidOpcode" -> "ErrorInvalidOpcode"
      [] error \in {"StackOverflow", "StackUnderflow"} -> "ErrorStack"
      [] error = "WriteProtection" -> "ErrorWriteProtection"
      [] error = "InvalidCreationCode" -> "ErrorInvalidCreationCode"
      [] error = "InvalidJump" -> "ErrorInvalidJump"
      [] error = "ReturnDataOutOfBounds" -> "ErrorReturnDataOutOfBound"
      [] error \in {"CodeStoreOutOfGas", "MaxCodeSizeExceeded"} -> "ErrorCodeStore"
      [] error = "Constant" -> "ErrorOutOfGasConstant"
      [] error = "StaticMemoryExpansion" -> "ErrorOutOfGasStaticMemoryExpansion"
      [] error = "DynamicMemoryExpansion" -> "ErrorOutOfGasDynamicMemoryExpansion"
      [] error = "MemoryCopy" -> "ErrorOutOfGasMemoryCopy"
      [] error = "AccountAccess" -> "ErrorOutOfGasAccountAccess"
      [] error = "Log" -> "ErrorOutOfGasLOG"
      [] error = "Exp" -> "ErrorOutOfGasEXP"
      [] error = "Sha3" -> "ErrorOutOfGasSHA3"
      [] error = "Call" -> "ErrorOutOfGasCall"
      [] error = "SloadSstore" -> "ErrorOutOfGasSloadSstore"
      [] error = "Create" -> "ErrorOutOfGasCREATE"
=============================================================================
