------------------------------ MODULE Journal ------------------------------
(***************************************************************************)
(* What a journalled state promises to the EVM, whatever the mechanism: a  *)
(* call frame remembers the state at its entry, a frame that closes        *)
(* normally keeps what was written in it, a frame that fails puts the      *)
(* state of its entry back.  Permanent writes (the nonce, the prepaid fee  *)
(* and the access list of BeginTx) survive the failure of every frame.     *)
(* TransactionContext.tla implements this with reversion groups.           *)
(***************************************************************************)
EXTENDS Naturals, Sequences

CONSTANTS Keys, Vals

VARIABLES state, frames

vars == <<state, frames>>

Init ==
    /\ state \in [Keys -> Vals]
    /\ frames = <<state>>

Open ==
    /\ frames # <<>>
    /\ frames' = Append(frames, state)
    /\ UNCHANGED state

Write(k, v) ==
    /\ frames # <<>>
    /\ state' = [state EXCEPT ![k] = v]
    /\ UNCHANGED frames

WritePermanent(k, v) ==
    /\ frames # <<>>
    /\ state' = [state EXCEPT ![k] = v]
    /\ frames' = [j \in DOMAIN frames |-> [frames[j] EXCEPT ![k] = v]]

Commit ==
    /\ frames # <<>>
    /\ frames' = SubSeq(frames, 1, Len(frames) - 1)
    /\ UNCHANGED state

Rollback ==
    /\ frames # <<>>
    /\ state' = frames[Len(frames)]
    /\ frames' = SubSeq(frames, 1, Len(frames) - 1)

Next ==
    \/ Open
    \/ \E k \in Keys, v \in Vals : Write(k, v) \/ WritePermanent(k, v)
    \/ Commit
    \/ Rollback

Spec == Init /\ [][Next]_vars
=============================================================================
