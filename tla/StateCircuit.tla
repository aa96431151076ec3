---------------------------- MODULE StateCircuit ----------------------------
(***************************************************************************)
(* The tables the state circuit accepts.  A table is built row by row: any *)
(* row may come next that satisfies the gates and the lookups together     *)
(* with the row before it.  What holds of every reachable table is what    *)
(* the other circuits may rely on when they look a row up in it.           *)
(***************************************************************************)
EXTENDS StateConstraints, Sequences

CONSTANTS
    MptTable,   \* the updates the MPT circuit proves
    Rows,       \* the rows a prover may assign
    MaxRows     \* bound on the table (max_rws)

ASSUME RowsAssumption == Rows \subseteq Row /\ MaxRows \in Nat

VARIABLES
    rows,       \* the table so far
    accepted    \* the table is complete

vars == <<rows, accepted>>

Init ==
    /\ \E r \in Rows : rows = <<FirstRow(r.state_root)>>
    /\ accepted = FALSE

(* The lookup of row n, when row n is a last access. *)
LastAccess(n) == n > 1 => MptLookup(MptTable, rows[n - 1], rows[n])

AddRow(r) ==
    LET n == Len(rows) IN
    /\ ~accepted /\ n < MaxRows
    /\ RowConstraints(rows[n], r)
    /\ NotFirstAccess(rows[n], r) \/ LastAccess(n)
    /\ rows' = Append(rows, r)
    /\ UNCHANGED accepted

(* The row after the last one has not_first_access = 0. *)
Finish ==
    /\ ~accepted /\ LastAccess(Len(rows))
    /\ accepted' = TRUE
    /\ UNCHANGED rows

Done == accepted /\ UNCHANGED vars

Next == (\E r \in Rows : AddRow(r)) \/ Finish \/ Done

Spec == Init /\ [][Next]_vars

----------------------------------------------------------------------------
(* Properties *)

\* Types: the table is a sequence of rows.
TypeOK ==
    /\ rows \in Seq(Row)
    /\ accepted \in BOOLEAN

SameLocation(i, j) == NotFirstAccess(rows[i], rows[j])

WritesBefore(i) ==
    {m \in DOMAIN rows : /\ SameLocation(m, i)
                         /\ rows[m].is_write
                         /\ rows[m].rw_counter < rows[i].rw_counter}

\* The table is a memory: a read at any rw counter returns what the write with the
\* greatest smaller rw counter to the same location wrote, wherever the two rows are;
\* when there is none, the initial value, which is 0 for every transient location.
ReadConsistency ==
    \A i \in DOMAIN rows : ~rows[i].is_write =>
        \/ \E j \in WritesBefore(i) :
               /\ rows[i].value = rows[j].value
               /\ \A m \in WritesBefore(i) : rows[m].rw_counter <= rows[j].rw_counter
        \/ /\ WritesBefore(i) = {}
           /\ rows[i].value = rows[i].initial_value
           /\ rows[i].tag \in {Storage, Account, TxReceipt} \/ rows[i].value = 0

\* What a reversal relies on (reversible_write in the EVM circuit swaps the two
\* values): value_prev of a reversible location is the value of the access with the
\* greatest smaller rw counter, or the initial value of the location.
ValuePrevConsistency ==
    \A i \in DOMAIN rows : rows[i].tag \in Storage..Account =>
        LET earlier == {m \in DOMAIN rows : /\ SameLocation(m, i)
                                            /\ rows[m].rw_counter < rows[i].rw_counter}
        IN  \/ \E j \in earlier :
                   /\ rows[i].value_prev = rows[j].value
                   /\ \A m \in earlier : rows[m].rw_counter <= rows[j].rw_counter
            \/ earlier = {} /\ rows[i].value_prev = rows[i].initial_value

\* "first access to new stack address is a write": nothing is popped from a stack slot
\* of a call that was not pushed there before.
PushBeforePop ==
    \A i \in DOMAIN rows : rows[i].tag = Stack /\ ~rows[i].is_write => WritesBefore(i) # {}

\* "stack_ptr only increases by 0 or 1": the slots of one call's stack that occur in
\* the table leave no gap.
StackHasNoGap ==
    \A i, j \in DOMAIN rows :
        rows[i].tag = Stack /\ rows[j].tag = Stack /\ rows[i].id = rows[j].id =>
            \A a \in rows[i].address..rows[j].address :
                \E m \in DOMAIN rows :
                    rows[m].tag = Stack /\ rows[m].id = rows[i].id /\ rows[m].address = a
=============================================================================
