------------------------- MODULE TransactionContext -------------------------
(***************************************************************************)
(* The part of bus-mapping that lets a failed call be undone: the call     *)
(* stack and the reversion groups of one TransactionContext, and the       *)
(* methods of CircuitInputStateRef that push operations, enter a call and  *)
(* leave one.                                                              *)
(*                                                                         *)
(* The outcome of every call is known when the call is entered             *)
(* (call_is_success is read off the geth trace beforehand), so PushCall    *)
(* chooses it.  The container is a sequence: the rw counter of an          *)
(* operation is its position, because every insertion takes rwc.inc_pre(). *)
(* sdb stands for everything a reversible operation writes (storage,       *)
(* access lists, refund, account fields), one value per key.               *)
(*                                                                         *)
(* A ReversionGroup has a list of (call, offset) pairs and a list of       *)
(* operations.  The first is kept with the calls here: the group a call is *)
(* listed in (0 for none) and the offset next to it.  The second is the    *)
(* group's entry in groups.                                                *)
(*                                                                         *)
(* The fields call, nth and undoes of an operation, and snap of a call     *)
(* stack entry, are auxiliary: no guard and no real field reads them.      *)
(*   call, nth  the pushing call, and that call's reversible_write_counter *)
(*              at the push: what the EVM circuit knows of the operation   *)
(*   undoes     for the reversal of an operation, that operation           *)
(*   snap       the state when the call was entered                        *)
(***************************************************************************)
EXTENDS Integers, Sequences

CONSTANTS
    Keys,       \* what reversible operations write to
    Vals,       \* what they write
    MaxDepth,   \* bound on the call stack (geth stops at 1025)
    MaxCalls,   \* bound on the calls of the transaction
    MaxOps      \* bound on the container when an operation is pushed

ASSUME BoundsAssumption ==
    MaxDepth \in Nat /\ MaxCalls \in Nat /\ MaxOps \in Nat

VARIABLES
    pc,         \* begin (BeginTx, no reversible write yet), run, revert, done
    calls,      \* TransactionContext::calls, the call stack
    txcalls,    \* Transaction::calls
    groups,     \* TransactionContext::reversion_groups: the op_refs of each
    container,  \* Block::container
    sdb         \* the reversible part of the StateDB

vars == <<pc, calls, txcalls, groups, container, sdb>>

Last(s) == s[Len(s)]

Front(s) == SubSeq(s, 1, Len(s) - 1)

State == [Keys -> Vals]

CallContext == [index : Nat, reversible_write_counter : Nat, snap : State]

Call == [is_success : BOOLEAN, is_persistent : BOOLEAN,
         rw_counter_end_of_reversion : Nat, group : Nat, offset : Nat]

Operation == [key : Keys, value : Vals, value_prev : Vals, reversible : BOOLEAN,
              call : Nat, nth : Nat, undoes : Nat]

NewCall(ok, persistent, group, offset) ==
    [is_success |-> ok, is_persistent |-> persistent,
     rw_counter_end_of_reversion |-> 0, group |-> group, offset |-> offset]

Running == pc \in {"begin", "run"} /\ calls # <<>>

CurrentCall == txcalls[Last(calls).index]

----------------------------------------------------------------------------
(* Transaction::new and TransactionContext::new: the root call.            *)

Init ==
    \E ok \in BOOLEAN, s \in State :
        /\ pc = "begin"
        /\ txcalls = <<NewCall(ok, ok, IF ok THEN 0 ELSE 1, 0)>>
        /\ groups = IF ok THEN <<>> ELSE << <<>> >>
        /\ calls = <<[index |-> 1, reversible_write_counter |-> 0, snap |-> s]>>
        /\ container = <<>>
        /\ sdb = s

(* push_op with RW::READ. *)
PushRead(k) ==
    /\ Running /\ Len(container) < MaxOps
    /\ container' = Append(container,
            [key |-> k, value |-> sdb[k], value_prev |-> sdb[k], reversible |-> FALSE,
             call |-> Last(calls).index, nth |-> 0, undoes |-> 0])
    /\ UNCHANGED <<pc, calls, txcalls, groups, sdb>>

(* push_op with RW::WRITE: only BeginTx does it while a call is open, and  *)
(* before its first reversible operation.                                  *)
PushWrite(k, v) ==
    /\ pc = "begin" /\ Len(container) < MaxOps
    /\ container' = Append(container,
            [key |-> k, value |-> v, value_prev |-> sdb[k], reversible |-> FALSE,
             call |-> Last(calls).index, nth |-> 0, undoes |-> 0])
    /\ sdb' = [sdb EXCEPT ![k] = v]
    /\ calls' = [j \in DOMAIN calls |-> [calls[j] EXCEPT !.snap[k] = v]]
    /\ UNCHANGED <<pc, txcalls, groups>>

\* Mutant: the operation joins the group of every failing call around it.
PushOpReversible_AllGroups(k, v) ==
    /\ Running /\ Len(container) < MaxOps
    /\ pc' = "run"
    /\ container' = Append(container,
            [key |-> k, value |-> v, value_prev |-> sdb[k], reversible |-> TRUE,
             call |-> Last(calls).index,
             nth |-> Last(calls).reversible_write_counter, undoes |-> 0])
    /\ sdb' = [sdb EXCEPT ![k] = v]
    /\ calls' = [calls EXCEPT ![Len(calls)].reversible_write_counter = @ + 1]
    /\ groups' = [m \in DOMAIN groups |-> Append(groups[m], Len(container) + 1)]
    /\ UNCHANGED txcalls

(* push_op_reversible *)
PushOpReversible(k, v) ==
    /\ Running /\ Len(container) < MaxOps
    /\ pc' = "run"
    /\ container' = Append(container,
            [key |-> k, value |-> v, value_prev |-> sdb[k], reversible |-> TRUE,
             call |-> Last(calls).index,
             nth |-> Last(calls).reversible_write_counter, undoes |-> 0])
    /\ sdb' = [sdb EXCEPT ![k] = v]
    /\ calls' = [calls EXCEPT ![Len(calls)].reversible_write_counter = @ + 1]
    /\ groups' = IF CurrentCall.is_persistent THEN groups
                 ELSE [groups EXCEPT ![Len(groups)] = Append(@, Len(container) + 1)]
    /\ UNCHANGED txcalls

\* Mutant: the offset of the caller itself is forgotten.
PushCall_NoOffset(ok) ==
    /\ Running /\ Len(calls) < MaxDepth /\ Len(txcalls) < MaxCalls
    /\ pc' = "run"
    /\ groups' = IF ok THEN groups ELSE Append(groups, <<>>)
    /\ txcalls' = Append(txcalls,
            NewCall(ok, CurrentCall.is_persistent /\ ok, Len(groups'),
                    IF ok /\ groups # <<>> THEN Last(calls).reversible_write_counter ELSE 0))
    /\ calls' = Append(calls, [index |-> Len(txcalls) + 1,
                               reversible_write_counter |-> 0, snap |-> sdb])
    /\ UNCHANGED <<container, sdb>>

\* Mutant: is_persistent looks at the call only, not at its caller.
PushCall_OwnPersistence(ok) ==
    /\ Running /\ Len(calls) < MaxDepth /\ Len(txcalls) < MaxCalls
    /\ pc' = "run"
    /\ groups' = IF ok THEN groups ELSE Append(groups, <<>>)
    /\ txcalls' = Append(txcalls,
            NewCall(ok, ok, Len(groups'),
                    IF ok /\ groups # <<>>
                    THEN Last(calls).reversible_write_counter + CurrentCall.offset
                    ELSE 0))
    /\ calls' = Append(calls, [index |-> Len(txcalls) + 1,
                               reversible_write_counter |-> 0, snap |-> sdb])
    /\ UNCHANGED <<container, sdb>>

(* parse_call, push_call and push_call_ctx: a call that will fail opens a  *)
(* group; one that will not joins the last group, if there is one, at the  *)
(* offset its caller has reached.                                          *)
PushCall(ok) ==
    /\ Running /\ Len(calls) < MaxDepth /\ Len(txcalls) < MaxCalls
    /\ pc' = "run"
    /\ groups' = IF ok THEN groups ELSE Append(groups, <<>>)
    /\ txcalls' = Append(txcalls,
            NewCall(ok, CurrentCall.is_persistent /\ ok, Len(groups'),
                    IF ok /\ groups # <<>>
                    THEN Last(calls).reversible_write_counter + CurrentCall.offset
                    ELSE 0))
    /\ calls' = Append(calls, [index |-> Len(txcalls) + 1,
                               reversible_write_counter |-> 0, snap |-> sdb])
    /\ UNCHANGED <<container, sdb>>

\* Mutant: the counter of a failed call is added to its caller's too.
PopCallCtx_Always ==
    LET callee == Last(calls) rest == Front(calls) IN
    IF rest # <<>>
    THEN [rest EXCEPT ![Len(rest)].reversible_write_counter =
              @ + callee.reversible_write_counter]
    ELSE rest

\* Mutant: the counter of the callee is taken off its caller's.
PopCallCtx_Subtract ==
    LET callee == Last(calls) rest == Front(calls) IN
    IF rest # <<>> /\ txcalls[callee.index].is_success
    THEN [rest EXCEPT ![Len(rest)].reversible_write_counter =
              @ - callee.reversible_write_counter]
    ELSE rest

(* pop_call_ctx, with the accumulation into the caller of a success. *)
PopCallCtx ==
    LET callee == Last(calls) rest == Front(calls) IN
    IF rest # <<>> /\ txcalls[callee.index].is_success
    THEN [rest EXCEPT ![Len(rest)].reversible_write_counter =
              @ + callee.reversible_write_counter]
    ELSE rest

AfterPop == IF Len(calls) = 1 THEN "done" ELSE "run"

(* handle_return of a call that succeeds *)
HandleReturn ==
    /\ Running /\ CurrentCall.is_success
    /\ pc' = AfterPop
    /\ calls' = PopCallCtx
    /\ UNCHANGED <<txcalls, groups, container, sdb>>

(* handle_return of a call that fails: handle_reversion starts. *)
HandleReversion ==
    /\ Running /\ ~CurrentCall.is_success
    /\ pc' = "revert"
    /\ UNCHANGED <<calls, txcalls, groups, container, sdb>>

\* Mutant: the reversal is recorded but not applied to the state database.
RevertOp_NotApplied ==
    /\ pc = "revert" /\ Last(groups) # <<>>
    /\ LET ref == Last(Last(groups))
           op == container[ref]
       IN container' = Append(container,
                [key |-> op.key, value |-> op.value_prev, value_prev |-> op.value,
                 reversible |-> FALSE, call |-> op.call, nth |-> op.nth,
                 undoes |-> ref])
    /\ groups' = [groups EXCEPT ![Len(groups)] = Front(@)]
    /\ UNCHANGED <<pc, calls, txcalls, sdb>>

(* One iteration of the loop of handle_reversion, from the last operation  *)
(* of the group to its first.                                              *)
RevertOp ==
    /\ pc = "revert" /\ Last(groups) # <<>>
    /\ LET ref == Last(Last(groups))
           op == container[ref]
       IN /\ container' = Append(container,
                [key |-> op.key, value |-> op.value_prev, value_prev |-> op.value,
                 reversible |-> FALSE, call |-> op.call, nth |-> op.nth,
                 undoes |-> ref])
          /\ sdb' = [sdb EXCEPT ![op.key] = op.value_prev]
    /\ groups' = [groups EXCEPT ![Len(groups)] = Front(@)]
    /\ UNCHANGED <<pc, calls, txcalls>>

\* Mutant: the end of reversion is recorded for the failed call only.
EndOfReversion_FailedOnly ==
    [c \in DOMAIN txcalls |->
        IF txcalls[c].group = Len(groups)
        THEN [txcalls[c] EXCEPT !.group = 0,
                 !.rw_counter_end_of_reversion =
                     IF txcalls[c].is_success THEN 0 ELSE Len(container)]
        ELSE txcalls[c]]

(* The rw_counter_end_of_reversion of the calls of the last group, which   *)
(* is popped.                                                              *)
EndOfReversion ==
    [c \in DOMAIN txcalls |->
        IF txcalls[c].group = Len(groups)
        THEN [txcalls[c] EXCEPT !.group = 0,
                 !.rw_counter_end_of_reversion = Len(container) - txcalls[c].offset]
        ELSE txcalls[c]]

(* The end of handle_reversion, and of the handle_return around it. *)
EndReversion ==
    /\ pc = "revert" /\ Last(groups) = <<>>
    /\ txcalls' = EndOfReversion
    /\ groups' = Front(groups)
    /\ calls' = PopCallCtx
    /\ pc' = AfterPop
    /\ UNCHANGED <<container, sdb>>

Done == pc = "done" /\ UNCHANGED vars

Next ==
    \/ \E k \in Keys : PushRead(k)
    \/ \E k \in Keys, v \in Vals : PushWrite(k, v)
    \/ \E k \in Keys, v \in Vals : PushOpReversible(k, v)
    \/ \E ok \in BOOLEAN : PushCall(ok)
    \/ HandleReturn
    \/ HandleReversion
    \/ RevertOp
    \/ EndReversion
    \/ Done

Spec == Init /\ [][Next]_vars

----------------------------------------------------------------------------
(* Properties *)

\* Types: every variable of the transaction context stays in its set.
TypeOK ==
    /\ pc \in {"begin", "run", "revert", "done"}
    /\ calls \in Seq(CallContext)
    /\ txcalls \in Seq(Call)
    /\ groups \in Seq(Seq(Nat))
    /\ container \in Seq(Operation)
    /\ sdb \in State

Reverses(q, p) ==
    /\ q \in DOMAIN container
    /\ container[q].key = container[p].key
    /\ container[q].value = container[p].value_prev
    /\ container[q].value_prev = container[p].value
    /\ container[q].undoes = p

\* The lookup of EVMConstraintBuilder::reversible_write: once the fate of a call is
\* settled, its n-th reversible write has its reversal in the rw table at
\* rw_counter_end_of_reversion - n, whatever succeeding and failing calls it made
\* and was made by.
ReversionLookup ==
    \A p \in DOMAIN container :
        LET op == container[p] IN
        /\ op.reversible
        /\ ~txcalls[op.call].is_persistent
        /\ txcalls[op.call].rw_counter_end_of_reversion # 0 \/ pc = "done"
        => Reverses(txcalls[op.call].rw_counter_end_of_reversion - op.nth, p)

\* "We must only process the reverted operation once: in the inner most revert, and
\* skip it in the outer revert" (transaction.rs): no operation is undone twice, and
\* one that is undone is in no group any more.
RevertedOnce ==
    \A q \in DOMAIN container : container[q].undoes # 0 =>
        /\ \A r \in DOMAIN container : container[r].undoes = container[q].undoes => r = q
        /\ \A m \in DOMAIN groups : \A i \in DOMAIN groups[m] :
               groups[m][i] # container[q].undoes

\* A call is persistent exactly when no group is open, and otherwise it belongs to the
\* last group: neither expect() of push_op_reversible, push_call_ctx and
\* handle_reversion can fire.
PersistentOrGrouped ==
    Running =>
        IF CurrentCall.is_persistent THEN groups = <<>>
        ELSE groups # <<>> /\ CurrentCall.group = Len(groups)

\* RestoreContextGadget advances the rw counter of a failed call by the call's
\* reversible_write_counter: that is how many reversals handle_reversion will insert.
ReversalCount ==
    Running /\ ~CurrentCall.is_success =>
        Len(Last(groups)) = Last(calls).reversible_write_counter

\* The reversion groups implement the journal: a failing call puts back the state of
\* its entry (but for the permanent writes of BeginTx), a succeeding one keeps its
\* writes, at any nesting.  The abstract rollback is the step HandleReversion.
JournalState == IF pc = "revert" THEN Last(calls).snap ELSE sdb
JournalFrames ==
    [j \in 1..(IF pc = "revert" THEN Len(calls) - 1 ELSE Len(calls)) |-> calls[j].snap]

J == INSTANCE Journal WITH state <- JournalState, frames <- JournalFrames

JournalSpec == J!Spec
=============================================================================
