---------------------------- MODULE AccountStore ----------------------------
(***************************************************************************)
(* What the state database of the MPT witness generator promises to its    *)
(* users, with no journal, no caches and no revision identifiers: a map    *)
(* from addresses to accounts, the warm addresses and slots, the recorded  *)
(* preimages, and nested snapshots, each of which puts back exactly what   *)
(* was there when it was taken.  The accounts changed in a transaction are *)
(* scheduled at its end and written to the trie by the next root.          *)
(* WitnessStateDB.tla implements this with objects and an undo journal.    *)
(***************************************************************************)
EXTENDS Integers, Sequences

CONSTANTS Address, Slot, Value, Preimage

VARIABLES store,      \* what a read of an account returns
          warm,       \* the warm addresses and the warm slots
          preimages,
          touched,    \* the accounts changed since the last Finalise
          sticky,     \* touched whatever is reverted (RIPEMD-160)
          pending,    \* scheduled for the trie
          committed,  \* the accounts in the trie
          saved       \* the snapshots, oldest first

vars == <<store, warm, preimages, touched, sticky, pending, committed, saved>>

Zeros == [k \in Slot |-> 0]

Nobody == [exists |-> FALSE, nonce |-> 0, balance |-> 0, code |-> 0,
           storage |-> Zeros, suicided |-> FALSE]

Fresh == [Nobody EXCEPT !.exists = TRUE]

OrNew(a) == IF store[a].exists THEN store[a] ELSE Fresh

Empty(v) == v.nonce = 0 /\ v.balance = 0 /\ v.code = 0

\* What the trie keeps of an account: everything but the mark of SELFDESTRUCT.
Kept(v) == [v EXCEPT !.suicided = FALSE]

Init ==
    /\ store \in [Address -> {Nobody} \union
                    [exists : {TRUE}, nonce : Value, balance : Value,
                     code : Value, storage : [Slot -> Value],
                     suicided : {FALSE}]]
    /\ committed = store
    /\ warm = [addresses |-> {}, slots |-> {}]
    /\ preimages = {}
    /\ touched = {} /\ sticky = {} /\ pending = {}
    /\ saved = <<>>

Put(a, v) ==
    /\ store' = [store EXCEPT ![a] = v]
    /\ touched' = touched \union {a}
    /\ UNCHANGED <<warm, preimages, sticky, pending, committed, saved>>

SetBalance(a, x) == Put(a, [OrNew(a) EXCEPT !.balance = x])

SetNonce(a, x) == Put(a, [OrNew(a) EXCEPT !.nonce = x])

SetCode(a, x) == Put(a, [OrNew(a) EXCEPT !.code = x])

SetState(a, k, x) == Put(a, [OrNew(a) EXCEPT !.storage[k] = x])

Suicide(a) ==
    /\ store[a].exists
    /\ Put(a, [store[a] EXCEPT !.suicided = TRUE, !.balance = 0])

\* An empty account that receives nothing is touched: it may be removed at
\* the end of the transaction, and one of them stays touched after a revert.
Touch(a) ==
    /\ Empty(OrNew(a))
    /\ store' = [store EXCEPT ![a] = OrNew(a)]
    /\ touched' = touched \union {a}
    /\ sticky' \in {sticky, sticky \union {a}}
    /\ UNCHANGED <<warm, preimages, pending, committed, saved>>

\* A new account takes the place of what was there.  Whether that alone
\* schedules the account depends on what it replaces.
Create(a, balance) ==
    /\ store' = [store EXCEPT ![a] = [Fresh EXCEPT !.balance = balance]]
    /\ balance \in {0, store[a].balance}
    /\ touched' \in {touched, touched \union {a}}
    /\ UNCHANGED <<warm, preimages, sticky, pending, committed, saved>>

WarmAddress(a) ==
    /\ warm' = [warm EXCEPT !.addresses = @ \union {a}]
    /\ UNCHANGED <<store, preimages, touched, sticky, pending, committed, saved>>

WarmSlot(a, k) ==
    /\ warm' = [addresses |-> warm.addresses \union {a},
                slots |-> warm.slots \union {<<a, k>>}]
    /\ UNCHANGED <<store, preimages, touched, sticky, pending, committed, saved>>

Cool ==
    /\ saved = <<>>
    /\ warm' = [addresses |-> {}, slots |-> {}]
    /\ UNCHANGED <<store, preimages, touched, sticky, pending, committed, saved>>

AddPreimage(h) ==
    /\ preimages' = preimages \union {h}
    /\ UNCHANGED <<store, warm, touched, sticky, pending, committed, saved>>

Snapshot ==
    /\ saved' = Append(saved, [store |-> store, warm |-> warm,
                               preimages |-> preimages, touched |-> touched])
    /\ UNCHANGED <<store, warm, preimages, touched, sticky, pending, committed>>

Revert(j) ==
    /\ store' = saved[j].store
    /\ warm' = saved[j].warm
    /\ preimages' = saved[j].preimages
    /\ touched' = saved[j].touched
    /\ saved' = SubSeq(saved, 1, j - 1)
    /\ UNCHANGED <<sticky, pending, committed>>

Swept(deleteEmpty) ==
    [a \in Address |->
        IF /\ a \in touched \union sticky
           /\ store[a].suicided \/ (deleteEmpty /\ Empty(store[a]))
        THEN Nobody ELSE store[a]]

Finalise(deleteEmpty) ==
    /\ store' = Swept(deleteEmpty)
    /\ pending' \in {pending \union touched, pending \union touched \union sticky}
    /\ sticky' \in {sticky, {}}
    /\ touched' = {} /\ saved' = <<>>
    /\ UNCHANGED <<warm, preimages, committed>>

\* The accounts scheduled so far, those of this transaction included, are in
\* the trie with what the database says of them now.
Root(deleteEmpty) ==
    /\ store' = Swept(deleteEmpty)
    /\ \E due \in {pending \union touched, pending \union touched \union sticky} :
          committed' = [a \in Address |->
              IF a \in due THEN Kept(Swept(deleteEmpty)[a]) ELSE committed[a]]
    /\ sticky' \in {sticky, {}}
    /\ touched' = {} /\ saved' = <<>> /\ pending' = {}
    /\ UNCHANGED <<warm, preimages>>

\* The generator's own deletion goes to the trie at once and leaves the
\* account readable.
DeleteAccount(a) ==
    /\ store[a].exists
    /\ committed' = [committed EXCEPT ![a] = Nobody]
    /\ UNCHANGED <<store, warm, preimages, touched, sticky, pending, saved>>

Next ==
    \/ \E a \in Address, x \in Value :
          SetBalance(a, x) \/ SetNonce(a, x) \/ SetCode(a, x) \/ Create(a, x)
    \/ \E a \in Address, k \in Slot : \E x \in Value : SetState(a, k, x)
    \/ \E a \in Address, k \in Slot : WarmSlot(a, k)
    \/ \E a \in Address :
          Suicide(a) \/ Touch(a) \/ WarmAddress(a) \/ DeleteAccount(a)
    \/ \E h \in Preimage : AddPreimage(h)
    \/ \E d \in BOOLEAN : Finalise(d) \/ Root(d)
    \/ \E j \in DOMAIN saved : Revert(j)
    \/ Cool
    \/ Snapshot

Spec == Init /\ [][Next]_vars
=============================================================================
