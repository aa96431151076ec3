------------------------------ MODULE RwLookups ------------------------------
(***************************************************************************)
(* The lookups into the rw table that EVMConstraintBuilder gives to the    *)
(* execution gadgets.  The k-th lookup of a step is at                     *)
(* s.rw_counter + k - 1; a cell that only a lookup constrains has the      *)
(* value found there.                                                      *)
(***************************************************************************)
EXTENDS RwOps

NoOp == <<"Start", "", "R", 0, 0, 0, 0, 0>>

OpAt(W, i)      == IF i \in DOMAIN W.ops THEN W.ops[i] ELSE NoOp
OpCell(W, s, k) == OpAt(W, s.rw_counter + k - 1)
Cell(W, s, k)   == Value(OpCell(W, s, k))

rw_lookups(W, s, ops) == \A k \in DOMAIN ops : OpCell(W, s, k) = ops[k]

(* call_context: lookups of fields of a call, from the k-th lookup of the step on. *)
call_context(W, s, k, id, fields) ==
    [i \in DOMAIN fields |-> CallContextOp("R", id, fields[i], Cell(W, s, k + i - 1))]

stack_pops(W, s, k, count) ==
    [i \in 1 .. count |-> StackOp("R", s.call_id, s.stack_pointer + i - 1, Cell(W, s, k + i - 1))]

(* rw_counter_end_of_reversion, is_persistent and the reversible writes so far. *)
reversion_info(W, s, k, counter) ==
    [eor |-> Cell(W, s, k), is_persistent |-> Cell(W, s, k + 1), counter |-> counter]

reversion_info_write(W, s, k, id) ==
    CallContextOps("W", id, << <<"RwCounterEndOfReversion", Cell(W, s, k)>>,
                               <<"IsPersistent", Cell(W, s, k + 1)>> >>)

\* Mutant: the writes of a step are looked up in the order they were made.
reversible_writes_Forward(W, info, ops) ==
    info.is_persistent = 1 \/
        \A i \in DOMAIN ops : OpAt(W, info.eor - info.counter - Len(ops) + i) = ReverseOp(ops[i])

(* The writes of a call that is not persistent are looked up once more, reversed, at
   the place where its reversion ends minus the writes before them. *)
reversible_writes(W, info, ops) ==
    info.is_persistent = 1 \/
        \A i \in DOMAIN ops : OpAt(W, info.eor - info.counter - i + 1) = ReverseOp(ops[i])
=============================================================================
