---------------------------- MODULE MCEvmCircuit ----------------------------
(***************************************************************************)
(* Blocks for TLC: an externally owned account 1, contracts 2 and 3, an    *)
(* address 5 without an account, and the coinbase 9.                       *)
(***************************************************************************)
EXTENDS EvmCircuit

Contract(balance, code) == [nonce |-> 1, balance |-> balance, code_hash |-> code]

MCAccounts ==
    (1 :> [nonce |-> 0, balance |-> 20, code_hash |-> EMPTY_HASH])
    @@ (2 :> Contract(1, 12)) @@ (3 :> Contract(0, 13))

MCSlots == (2 :> 1)

Tx(to, value) == [from |-> 1, to |-> to, value |-> value]

MCProgram(txs, max_txs, budget, opcodes, targets, values, lengths) ==
    [txs |-> txs, max_txs |-> max_txs, budget |-> budget, opcodes |-> opcodes,
     targets |-> targets, values |-> values, lengths |-> lengths]

(* Calls of every kind, to a contract and to nobody; creations of both kinds;
   writes in nested calls, to the depth limit. *)
CallPrograms ==
    [calls |-> MCProgram({Tx(2, 1)}, 1, 2,
        {"CALL", "CALLCODE", "DELEGATECALL", "STATICCALL", "SLOAD", "SSTORE", "STOP", "REVERT"},
        {3, 5}, {0, 2}, {0}),
     creations |-> MCProgram({Tx(2, 0)}, 1, 2,
        {"SSTORE", "CALL", "CREATE", "CREATE2", "MSTORE8", "STOP", "RETURN", "REVERT"},
        {3}, {1}, {0, 1}),
     writes |-> MCProgram({Tx(2, 0)}, 1, 3, {"CALL", "SSTORE", "STOP", "INVALID"},
        {3}, {0, 1}, {0})]

(* Up to two transactions of any kind; accounts destroyed in nested calls. *)
BlockPrograms ==
    [transactions |-> MCProgram({Tx(2, 0), Tx(2, 1), Tx(5, 1), Tx(1, 1), Tx(0, 1)}, 2, 2,
        {"LOG0", "LOG1", "SSTORE", "STOP", "RETURN", "INVALID"}, {3}, {0, 1}, {0, 1}),
     destruction |-> MCProgram({Tx(2, 0)}, 1, 2,
        {"CALL", "SSTORE", "SELFDESTRUCT", "STOP", "INVALID"}, {2, 3}, {0, 1}, {0})]

(* One situation each. *)
NewAccountPrograms ==
    [new_account |-> MCProgram({Tx(5, 0)}, 1, 1, {"SSTORE", "STOP", "INVALID"}, {3}, {1}, {0})]

FundedAddressPrograms ==
    [funded_address |-> MCProgram({Tx(2, 0)}, 1, 2, {"CALL", "CREATE", "STOP", "INVALID"},
        {201}, {0, 1}, {1})]

DestroyedAgainPrograms ==
    [destroyed_again |-> MCProgram({Tx(2, 0), Tx(2, 1)}, 2, 1,
        {"SELFDESTRUCT", "STOP", "INVALID"}, {3}, {0, 1}, {0})]
=============================================================================
