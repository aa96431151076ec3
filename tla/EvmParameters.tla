--------------------------- MODULE EvmParameters ---------------------------
(***************************************************************************)
(* What bus-mapping and the EVM circuit take from the block and from the   *)
(* circuit parameters.  Gas is not modelled: the amounts that depend on it *)
(* are constants.                                                          *)
(***************************************************************************)
EXTENDS Naturals

CONSTANTS
    Fee,              \* gas price * gas limit of a transaction
    GasReturned,      \* gas price * (gas left + effective refund)
    Reward,           \* effective tip * gas used
    CallDepthLimit,   \* the 1025 of the call depth check
    MaxRws            \* max_rws

ASSUME EvmParametersAssumption ==
    /\ {Fee, GasReturned, Reward} \subseteq Nat
    /\ CallDepthLimit \in Nat \ {0}
    /\ MaxRws \in Nat

(* Gas used by a transaction, in the receipts. *)
GAS_USED == 1
=============================================================================
