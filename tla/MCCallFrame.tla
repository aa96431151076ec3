----------------------------- MODULE MCCallFrame -----------------------------
(***************************************************************************)
(* Call frames for TLC: every instruction, with operands at the edges of   *)
(* the ranges the gadgets tell apart, in root, internal, static and        *)
(* creating calls, with one unit of gas too little, the exact gas and two  *)
(* units too many; and programs of several instructions.                   *)
(***************************************************************************)
EXTENDS CallFrame

LIMIT == 20000        \* memory no frame of these can pay for

----------------------------------------------------------------------------
(* Surroundings *)

OtherCode == <<96, 91, 91, 0>>     \* of account 30: PUSH1 0x5b JUMPDEST STOP

Caller_ == [is_root |-> 1, is_create |-> 0, code_hash |-> 777, pc |-> 9, gas |-> 1234,
            memory_word_size |-> 4, reversible_write_counter |-> 2]

Root ==
    [call_id |-> 1, is_root |-> 1, is_create |-> 0, is_static |-> 0, caller_id |-> 0,
     call_data |-> <<1, 0, 3, 4>>, tx_data |-> <<1, 0, 3, 4>>, call_data_offset |-> 0]
Internal ==
    [call_id |-> 3, is_root |-> 0, is_create |-> 0, is_static |-> 0, caller_id |-> 1,
     call_data |-> <<5, 0, 6, 7>>, tx_data |-> <<>>, call_data_offset |-> 2]
Static == [Internal EXCEPT !.is_static = 1]
Creating(kind) == [kind EXCEPT !.is_create = 1, !.call_data = <<>>]

Blocks ==
    [COINBASE |-> 61, TIMESTAMP |-> 62, NUMBER |-> 300, DIFFICULTY |-> 63, GASLIMIT |-> 64,
     BASEFEE |-> 65, CHAINID |-> 66]
BlockHash == [number \in {44, 299} |-> 1000 + number]
Storage == [key \in 0 .. 3 |-> [value |-> key % 2, original |-> key \div 2]]

(* A frame that runs `code' with these operands, the first one on top. *)
Frame(kind, code, operands, mem, accounts_, gas) ==
    LET hash == Keccak(code) IN
    [call_id |-> kind.call_id, is_root |-> kind.is_root, is_create |-> kind.is_create,
     is_static |-> kind.is_static, caller_id |-> kind.caller_id, call_data |-> kind.call_data,
     tx_data |-> kind.tx_data, call_data_offset |-> kind.call_data_offset, caller |-> Caller_,
     tx_id |-> 1, origin |-> 20, gas_price |-> 3, is_success |-> 0, is_persistent |-> 0,
     address |-> 10, caller_address |-> 20, value |-> 7, below |-> 0,
     return_data |-> <<9, 0, 7>>, last_callee_id |-> 5, last_callee_return_data_offset |-> 2,
     block |-> Blocks, block_hash |-> BlockHash, warm_slots |-> {1, 2}, storage |-> Storage,
     code |-> code, code_hash |-> hash,
     codes |-> (hash :> code) @@ (Keccak(OtherCode) :> OtherCode) @@ (EMPTY_HASH :> <<>>),
     accounts |-> (10 :> [balance |-> 50, code_hash |-> hash])
                  @@ (30 :> [balance |-> 80, code_hash |-> Keccak(OtherCode)])
                  @@ (31 :> [balance |-> 5, code_hash |-> EMPTY_HASH]),
     start |-> [pc |-> 0, stack |-> Reverse(operands), memory |-> mem, gas |-> gas,
                warm |-> accounts_]]

----------------------------------------------------------------------------
(* Gas *)

UNPAID == 50000
Unpayable(g, op) == TooLarge(g, op) \/ NewWords(g, op) * WORD >= LIMIT

(* What geth charges for the code up to where it leaves the frame or fails, given plenty. *)
Cost(f) ==
    LET Charge(run, i) ==
            LET g == run.g
                op == OpAtPc(f, g)
            IN  CASE run.over -> run
                  [] StackDepth(f, g) < Pops(op) -> [run EXCEPT !.over = TRUE]
                  [] Unpayable(g, op) -> [run EXCEPT !.over = TRUE, !.cost = @ + UNPAID]
                  [] op[1] \in Leaving \/ ExecutionError(f, g, op) # "" ->
                         [run EXCEPT !.over = TRUE, !.cost = @ + ConstantGas(op) + DynamicGas(f, g, op)]
                  [] OTHER -> [over |-> FALSE, g |-> Succeed(f, g, op),
                               cost |-> run.cost + ConstantGas(op) + DynamicGas(f, g, op)]
    IN  FoldLeft(Charge, [g |-> f.start, cost |-> 0, over |-> FALSE], <<1, 2, 3, 4, 5, 6>>).cost

(* A case is a kind of call, code, operands, memory, warm accounts and slacks: what is added
   to the gas for the whole code. *)
Paid(case) ==
    LET Funded(gas) == Frame(case[1], case[2], case[3], case[4], case[5], gas)
        cost == Cost(Funded(100000))
    IN  {Funded(cost + slack) :
           slack \in IF cost >= UNPAID THEN {0} ELSE {sl \in case[6] : cost + sl >= 0}}
Slacks == {-1, 0, 2}

Run(kinds, code, operands, mems) == kinds \X {code} \X {operands} \X mems \X {{10}} \X {Slacks}

One(op) == << as_u8(op) >>
Both == {Root, Internal}
Empty == {<<>>}
Six == {<<7, 239, 9, 1, 2, 3>>}
Filled == Empty \union Six
BIG == WORD_SIZE - 1

----------------------------------------------------------------------------
(* Single instructions *)

NoOperands ==
    UNION {Run({Internal, Creating(Root)}, One(Op(name)), <<>>, Six) : name \in
        {"ADDRESS", "CALLER", "CALLVALUE", "CALLDATASIZE", "RETURNDATASIZE", "ORIGIN", "GASPRICE",
         "SELFBALANCE", "CODESIZE", "PC", "MSIZE", "GAS", "CHAINID", "COINBASE", "TIMESTAMP",
         "NUMBER", "DIFFICULTY", "GASLIMIT", "BASEFEE", "JUMPDEST", "STOP"}}

Pushing ==
    UNION {Run(Both, code, <<>>, Empty) : code \in
        {<<95>>, <<96>>, <<96, 7>>, <<97, 7>>, <<97, 7, 8>>, <<98, 1, 2, 3>>, <<98, 1>>, <<98>>,
         <<97, 91, 96, 80>>}}

OnStack ==
    UNION {Run(Both, One(op), [i \in 1 .. 17 |-> 100 + i], Empty) : op \in
        {<<"DUP", 1>>, <<"DUP", 2>>, <<"DUP", 16>>, <<"SWAP", 1>>, <<"SWAP", 16>>, Op("POP")}}

BlockHashes ==
    UNION {Run({Root}, One(Op("BLOCKHASH")), <<number>>, Empty) : number \in
        {0, 43, 44, 299, 300, 301, BIG}}

(* Code in which positions 1 and 4 are jump destinations and 3 is data. *)
Jumping(byte) == <<byte, 91, 96, 91, 91, 0>>
Jumps ==
    UNION {Run(Both, Jumping(86), <<dest>>, Empty) : dest \in {0, 1, 3, 4, 5, 6, U64 + 1, BIG}}
    \union
    UNION {Run(Both, Jumping(87), <<dest, condition>>, Empty) :
             dest \in {1, 3, 6, U64 + 1}, condition \in {0, 1, 256}}

Memories ==
    UNION {Run(Both, One(Op(name)), <<offset, 70000>>, Filled) :
             name \in {"MLOAD", "MSTORE", "MSTORE8"}, offset \in {0, 1, 5, 30}}
    \union
    UNION {Run({Internal}, One(Op(name)), <<offset, 70000>>, Six) :
             name \in {"MLOAD", "MSTORE", "MSTORE8"},
             offset \in {LIMIT, 32763, 32764, MEMORY_ADDRESS, U64 - 1, U64, BIG}}

Hashes ==
    UNION {Run({Internal}, One(Op("SHA3")), <<offset, size>>, Filled) :
             offset \in {0, 2, BIG}, size \in {0, 1, 4, LIMIT, U64, BIG}}

Loads ==
    UNION {Run(Both, One(Op("CALLDATALOAD")), <<offset>>, Empty) :
             offset \in {0, 1, 2, 3, 4, 7, U64 - 1, U64, BIG}}

Copies ==
    UNION {Run(Both, <<as_u8(Op(name)), 96, 5, 80>>, <<4, from, length>>, Six) :
             name \in {"CALLDATACOPY", "CODECOPY"},
             from \in {0, 2, 4, 9, U64}, length \in {0, 1, 4}}
    \union
    UNION {Run({Internal}, One(Op(name)), <<to, 0, length>>, Empty) :
             name \in {"CALLDATACOPY", "CODECOPY", "RETURNDATACOPY"},
             to \in {0, LIMIT, BIG}, length \in {0, 1, LIMIT, U64}}
    \union
    UNION {Run(Both, One(Op("RETURNDATACOPY")), <<1, from, length>>, Six) :
             from \in {0, 2, 3, 4, U64, BIG}, length \in {0, 1, 3, U64 - 1}}

ExtCopies ==
    {<<kind, <<60>>, <<address, 1, from, length>>, <<>>, accounts, Slacks>> :
             kind \in Both, address \in {30, 40}, from \in {0, 3, U64},
             length \in {0, 4}, accounts \in {{10}, {10, 30, 40}}}
    \union
    {<<Root, <<60>>, <<address, 1, 0, length>>, <<>>, {10}, Slacks>> :
             address \in {10, 31}, length \in {0, 2, LIMIT, U64}}
    \union {<<Root, <<60>>, <<30 + ACCOUNT_ADDRESS, 1, 0, 2>>, <<>>, {10}, {0, 2}>>}

Accounts ==
    {<<kind, One(Op(name)), <<address>>, <<>>, accounts, Slacks>> :
             kind \in Both, name \in {"BALANCE", "EXTCODEHASH", "EXTCODESIZE"},
             address \in {10, 30, 31, 40}, accounts \in {{10}, {10, 30, 40}}}
    \union
    {<<Internal, One(Op(name)), <<30 + ACCOUNT_ADDRESS>>, <<>>, {10}, {0, 2}>> :
             name \in {"EXTCODEHASH", "EXTCODESIZE"}}

----------------------------------------------------------------------------
(* Instructions that can only fail in the frame *)

Costly ==
    UNION {Run({Internal}, One(<<"LOG", n>>), <<offset, length, 0, 0, 0, 0>>, Six) :
             n \in {0, 2, 4}, offset \in {0, 3, U64}, length \in {0, 4, LIMIT, U64}}
    \union
    UNION {Run(Both, One(Op("EXP")), <<3, exponent>>, Empty) : exponent \in {0, 255, 256, BIG}}
    \union
    UNION {Run({Internal}, One(Op(name)), <<key, value>>, Empty) :
             name \in {"SLOAD", "SSTORE"}, key \in 0 .. 3, value \in {0, 1, 2}}
    \union
    UNION {Run({Root}, One(Op(name)), <<9, address, value, 0, length, 2, 4, 0>>, Six) :
             name \in {"CALL", "CALLCODE", "DELEGATECALL", "STATICCALL"},
             address \in {10, 30, 40}, value \in {0, 1}, length \in {0, 4, U64}}
    \union
    UNION {Run({Internal}, One(Op(name)), <<1, offset, length, 5>>, Six) :
             name \in {"CREATE", "CREATE2"}, offset \in {0, 7, U64}, length \in {0, 4, LIMIT, U64}}
    \union
    UNION {Run({Root}, One(Op(name)), <<offset, length>>, Six) :
             name \in {"RETURN", "REVERT"}, offset \in {0, 7, U64}, length \in {0, 4, LIMIT, U64}}
    \union
    UNION {Run(Both, One(Op(name)), <<3, 4, 5>>, Empty) :
             name \in {"ADD", "MUL", "ADDMOD", "ISZERO", "SIGNEXTEND", "SHL"}}

(* In a static call, with the gas that the instruction takes. *)
WriteProtected ==
    {<<Static, One(op), operands, <<>>, {10}, {0, 2}>> :
             op \in {Op("SSTORE"), <<"LOG", 0>>, <<"LOG", 4>>, Op("CREATE"), Op("CREATE2"),
                     Op("SELFDESTRUCT")},
             operands \in {<<0, 1, 0, 0, 0, 0>>}}
    \union
    {<<Static, One(Op("CALL")), <<0, 30, value, 0, 0, 0, 0>>, <<>>, {10}, {0, 2}>> :
             value \in {0, 1}}

Invalid == UNION {Run(Both, <<byte>>, <<>>, Empty) : byte \in {12, 33, 165, 254}}

----------------------------------------------------------------------------
(* Frames with a given gas: kind, code, operands, memory, stack items below and gas *)

(* The code that a creation returns is in memory already: get_step_err compares the price of
   the code with the gas before RETURN pays for memory, geth with the gas after it. *)
Creations ==
    {<<Creating(kind), One(Op("RETURN")), <<offset, length>>, <<7, 239, 9, 1, 2, 3>>, 0, gas>> :
       kind \in Both, offset \in {0, 1, 2}, length \in {0, 1, 4}, gas \in {0, 199, 200, 799, 800, 2000}}
    \union
    {<<Creating(kind), One(Op("RETURN")), <<0, length>>, [i \in 1 .. 27 |-> 1], 0, 10000>> :
       kind \in Both, length \in {24, 25}}

StackErrors ==
    {<<kind, One(op), <<1>>, <<>>, below, 50000>> :
       kind \in Both, below \in {0, 1022, 1023},
       op \in {Op("CALLER"), <<"PUSH", 0>>, <<"DUP", 1>>, Op("POP"), Op("JUMPDEST"), Op("ADDRESS")}}
    \union
    {<<kind, One(op), operands, <<>>, 0, 50000>> :
       kind \in Both, operands \in {<<>>, <<1>>},
       op \in {<<"DUP", 2>>, <<"SWAP", 1>>, <<"LOG", 1>>, Op("CALL"), Op("CREATE2"), Op("ADD"),
               Op("SHA3"), Op("EXTCODECOPY"), Op("MSTORE"), Op("STATICCALL")}}

(* A loop of eleven units of gas; the stipend SSTORE must leave. *)
Loops ==
    {<<kind, <<91, 95, 86>>, <<>>, <<>>, 0, gas>> : kind \in Both, gas \in {12, 22, 30}}
Sentry ==
    {<<kind, One(Op("SSTORE")), <<1, 1>>, <<>>, 0, gas>> : kind \in Both, gas \in {2300, 2301}}

----------------------------------------------------------------------------
(* Programs *)

Programs ==
    UNION {Run(Both, program[1], program[2], Filled) : program \in
        { (* EXTCODEHASH and BALANCE of one account, then of another *)
          <<<<63, 80, 49, 59>>, <<30, 30, 40>>>>,
          (* warm accounts, then a jump that fails *)
          <<<<59, 80, 49, 80, 86>>, <<30, 31, 3>>>>,
          (* EXTCODECOPY, then a hash of what was copied *)
          <<<<60, 32, 80>>, <<30, 2, 0, 5, 0, 8>>>>,
          (* CALLDATACOPY over memory, then MLOAD, MSIZE and MSTORE8 *)
          <<<<55, 81, 80, 89, 83>>, <<1, 2, 4, 0, 6>>>>,
          (* RETURNDATACOPY, CODECOPY and a hash of both *)
          <<<<62, 57, 32>>, <<0, 1, 2, 2, 0, 3, 0, 6>>>>,
          (* MSTORE, a failing RETURNDATACOPY *)
          <<<<82, 62>>, <<2, 66000, 0, 2, 2>>>> }}

MCWorkloads ==
    UNION {Paid(case) : case \in
        NoOperands \union Pushing \union OnStack \union BlockHashes \union Jumps \union Memories
        \union Hashes \union Loads \union Copies \union ExtCopies \union Accounts \union Costly
        \union WriteProtected \union Invalid \union Programs}
    \union
    {[Frame(case[1], case[2], case[3], case[4], {10}, case[6]) EXCEPT !.below = case[5]] :
       case \in Creations \union StackErrors \union Loops \union Sentry}
=============================================================================
