-------------------------- MODULE MCWitnessStateDB --------------------------
(***************************************************************************)
(* Workloads of the state database: which calls are made, how many, and on *)
(* which chain.  Each brings together the calls that interact, so that a   *)
(* snapshot, a change, a revert and a root fit in its budget.              *)
(***************************************************************************)
EXTENDS WitnessStateDB

CONSTANTS a1, a2, k1, k2

OnChain(balance, value) ==
    [NoAccount EXCEPT !.exists = TRUE, !.balance = balance, !.nonce = balance,
                      !.storage = [k \in Slot |-> IF k = k1 THEN value ELSE 0]]

Chain(first, second) == [a \in Address |-> IF a = a1 THEN first ELSE second]

Load(ops, who, chain, fetched, calls) ==
    [ops |-> ops, who |-> who, chain |-> chain, cached |-> fetched, budget |-> calls]

Undoing == {"Snapshot", "RevertToSnapshot"}

Loads ==
    {Load(Undoing \union {"SetState", "GetState", "Finalise"},
          {a1}, Chain(OnChain(1, 1), NoAccount), {}, 6),
     Load(Undoing \union {"CreateAccount", "Suicide", "SetNonce", "Finalise"},
          {a1}, Chain(OnChain(1, 1), NoAccount), {}, 6),
     Load(Undoing \union {"AddBalance", "SubBalance", "Suicide", "Finalise", "Disable"},
          {a2}, Chain(NoAccount, NoAccount), {a2}, 6),
     Load(Undoing \union {"AddBalance", "SetState", "CreateAccount", "Finalise"},
          {a2}, Chain(NoAccount, OnChain(0, 0)), {}, 5),
     Load(Undoing \union {"AddAddress", "AddSlot", "Prepare"},
          {a1, a2}, Chain(NoAccount, NoAccount), {}, 6),
     Load(Undoing \union {"SetBalance", "DeleteAccount", "Get", "Finalise"},
          {a1, a2}, Chain(OnChain(1, 0), NoAccount), {}, 5),
     Load(Undoing \union {"SetCode", "AddPreimage", "AddAddress", "SetNonce"},
          {a1, a2}, Chain(OnChain(0, 1), OnChain(1, 0)), {a2}, 4)}
=============================================================================
