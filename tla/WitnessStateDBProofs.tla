------------------------ MODULE WitnessStateDBProofs ------------------------
(***************************************************************************)
(* What holds of the state database, for every set of addresses and slots, *)
(* every bound and every sequence of calls: the invariant and what follows *)
(* from it, and that the journal, the objects and the access list          *)
(* implement AccountStore.                                                 *)
(***************************************************************************)
EXTENDS WitnessStateDBCalls, WitnessStateDBEndings

USE ZenonT(40), SMTT(30)

\* Every call, every undo and every end of a transaction keeps the invariant.
THEOREM Inductive == IInv /\ [Next]_vars => IInv'
  <1> SUFFICES ASSUME IInv, [Next]_vars PROVE IInv'
    OBVIOUS
  <1>1. work.who \subseteq Address
    BY WorkloadAssumption DEF IInv, TypeOK
  <1>2. CASE UNCHANGED vars
    <2>1. Now' = Now
      BY <1>2, NowFields DEF vars
    <2>2. Waiting' = Waiting /\ Exempt' = Exempt
      BY <1>2 DEF vars, Waiting, Exempt, Sticky
    <2>3. Sound(journal, stateObjects, Now, trie, Waiting, ripemdDirty)'
      BY <1>2, <2>1, <2>2, StateFacts DEF vars
    <2>4. TypeOK' /\ phase' # "panic" /\ Fetching' /\ Sticking' /\ RevisionsOK'
      BY <1>2 DEF vars, IInv, TypeOK, Fetching, Sticking, RevisionsOK
    <2>5. Scheduled'
      BY <1>2, <2>1, <2>2 DEF vars, IInv, Scheduled
    <2> QED
      BY <2>3, <2>4, <2>5 DEF IInv
  <1>3. ASSUME NEW a \in work.who, SetAccount(a) PROVE IInv'
    BY <1>1, <1>3, SetAccountInv
  <1>4. ASSUME NEW a \in work.who, UseAccount(a) PROVE IInv'
    BY <1>1, <1>4, UseAccountInv
  <1>5. CASE WarmUp
    BY <1>5, WarmUpInv
  <1>6. CASE \E h \in Preimage : Call("AddPreimage") /\ AddPreimage(h)
    BY <1>6, WarmUpInv
  <1>7. CASE Call("Snapshot") /\ Snapshot
    BY <1>7, SnapshotInv
  <1>8. ASSUME NEW j \in DOMAIN validRevisions, RevertToSnapshot(validRevisions[j].id)
        PROVE  IInv'
    BY <1>8, RevertToSnapshotInv
  <1>9. CASE RevertEntry
    BY <1>9, RevertEntryInv
  <1>10. CASE EndRevert
    BY <1>10, EndRevertInv
  <1>11. ASSUME NEW d \in BOOLEAN, EndTransaction(d) PROVE IInv'
    BY <1>11, EndTransactionInv
  <1>12. CASE Call("Disable") /\ DisableLoadingRemoteAccounts
    BY <1>12, WarmUpInv
  <1> QED
    BY <1>2, <1>3, <1>4, <1>5, <1>6, <1>7, <1>8, <1>9, <1>10, <1>11, <1>12 DEF Next

\* The invariant holds of every state of the database.
THEOREM Invariance == Spec => []IInv
  <1>1. Init => IInv
    BY InitInv
  <1> QED
    BY <1>1, Inductive, PTL DEF Spec

\* Whatever is called, in whatever order, and however many snapshots are taken
\* and reverted to: no undo of journal.go meets a missing object or slot set,
\* no valid revision is unknown to RevertToSnapshot, and IntermediateRoot and
\* Commit find an object for every account that they write.
THEOREM NoPanicHolds == Spec => []NoPanic
  <1>1. IInv => NoPanic
    BY DEF IInv, NoPanic
  <1> QED
    BY <1>1, Invariance, PTL

\* The storage trie that GetStorageProof opens holds, slot by slot, what
\* GetState returns.
THEOREM StorageTrieFollowsStateHolds == Spec => []StorageTrieFollowsState
  <1>1. ASSUME IInv PROVE StorageTrieFollowsState
    <2> SUFFICES ASSUME NEW a \in Address, NEW o, o = getDeletedStateObject(a), Usable(o)
                 PROVE  updateTrie(o).root = Account(o).storage
      BY DEF StorageTrieFollowsState
    <2>1. ObjectOK(o) /\ o.live
      BY <1>1, Loaded DEF Usable
    <2>2. updateTrie(o).root = [k \in Slot |-> GetState(o, k)]
      BY <2>1, UpdateTrie
    <2> QED
      BY <2>2 DEF Account
  <1> QED
    BY <1>1, Invariance, PTL

\* Between calls, an account that differs from the account trie is dirty in the
\* journal or waits in stateObjectsPending, except one that CreateAccount or
\* DeleteAccount left out of both.
THEOREM NothingForgottenHolds == Spec => []NothingForgotten
  <1>1. ASSUME IInv PROVE NothingForgotten
    <2> SUFFICES ASSUME phase = "run", NEW a \in Address
                 PROVE  \/ Kept(Accounts[a]) = trie[a]
                        \/ a \in Dirty \union stateObjectsPending \union replaced
      BY DEF NothingForgotten
    <2>1. DueAt(journal, Now, Len(journal.entries), trie, Exempt)
      BY <1>1 DEF IInv, Scheduled
    <2>2. FoundAt(journal, Now, Len(journal.entries)) = Now
      BY SMTT(30) DEF FoundAt
    <2>3. Kept(Now.accounts[a]) = trie[a] \/ a \in Touched(journal) \union Exempt
      BY <2>1, <2>2 DEF DueAt, Touched
    <2>4. Now.accounts = Accounts
      BY DEF Now
    <2> QED
      BY <1>1, <2>3, <2>4, DirtyIs DEF Exempt
  <1> QED
    BY <1>1, Invariance, PTL

-----------------------------------------------------------------------------
(***************************************************************************)
(* The refinement of AccountStore                                          *)
(***************************************************************************)

Snapshots == [store : [Address -> ReadAccount],
              warm : [addresses : SUBSET Address, slots : SUBSET (Address \X Slot)],
              preimages : SUBSET Preimage, touched : SUBSET Address]

\* What a snapshot at i entries keeps, given a journal and what is there now.
Frozen(j, now, i) ==
    [store |-> FoundAt(j, now, i).accounts, warm |-> WarmIn(FoundAt(j, now, i).accessList),
     preimages |-> FoundAt(j, now, i).preimages, touched |-> TouchedIn(j.entries, i)]

\* A snapshot reads the journal and nothing else.
LEMMA SnapshotIs ==
    ASSUME NEW i
    PROVE  StoreSnapshot(i) = Frozen(journal, Now, i)
  BY DEF StoreSnapshot, Frozen, At, TouchedAt, FoundAt, TouchedIn

\* Between calls the abstract store is what the database says.
LEMMA Between ==
    ASSUME IInv, phase = "run"
    PROVE  /\ Present = Now /\ PresentWarm = WarmIn(accessList)
           /\ PresentTouched = Touched(journal)
           /\ Saved = [j \in 1..Len(validRevisions) |->
                          Frozen(journal, Now, validRevisions[j].journalIndex)]
  <1>1. Reached = Len(journal.entries) /\ Revisions = Len(validRevisions)
    BY DEF Reached, Revisions
  <1>2. Len(journal.entries) \in Nat /\ Now.accessList = accessList
    BY StateFacts
  <1>3. Present = Now
    BY <1>1, <1>2, SMTT(30) DEF Present, At
  <1>4. PresentTouched = Touched(journal)
    BY <1>1 DEF PresentTouched, TouchedAt, Touched, TouchedIn
  <1>5. Saved = [j \in 1..Len(validRevisions) |->
                    Frozen(journal, Now, validRevisions[j].journalIndex)]
    BY <1>1, SnapshotIs DEF Saved
  <1> QED
    BY <1>2, <1>3, <1>4, <1>5 DEF PresentWarm

\* The same after a call.
LEMMA BetweenNext ==
    ASSUME IInv', phase' = "run"
    PROVE  /\ Present' = Now' /\ PresentWarm' = WarmIn(accessList')
           /\ PresentTouched' = Touched(journal')
           /\ Saved' = [j \in 1..Len(validRevisions') |->
                          Frozen(journal', Now', validRevisions'[j].journalIndex)]
  <1>1. Reached' = Len(journal'.entries) /\ Revisions' = Len(validRevisions')
    BY DEF Reached, Revisions
  <1>2. Len(journal'.entries) \in Nat
    BY SMTT(30) DEF IInv, Sound, Chained
  <1>3. Now'.accessList = accessList'
    BY DEF Now
  <1>4. Present' = Now'
    BY <1>1, <1>2, SMTT(30) DEF Present, At
  <1>5. PresentTouched' = Touched(journal')
    BY <1>1 DEF PresentTouched, TouchedAt, Touched, TouchedIn
  <1>6. \A i : StoreSnapshot(i)' = Frozen(journal', Now', i)
    BY DEF StoreSnapshot, Frozen, At, TouchedAt, FoundAt, TouchedIn
  <1>7. Saved' = [j \in 1..Len(validRevisions') |->
                    Frozen(journal', Now', validRevisions'[j].journalIndex)]
    BY <1>1, <1>6 DEF Saved
  <1> QED
    BY <1>3, <1>4, <1>5, <1>7 DEF PresentWarm

\* A call that only adds to the journal keeps what the snapshots saved.
LEMMA SavedKept ==
    ASSUME IInv, IInv', phase = "run", phase' = "run",
           Extends(journal, Now, journal', Now'), validRevisions' = validRevisions
    PROVE  Saved' = Saved
  <1>1. /\ Saved = [j \in 1..Len(validRevisions) |->
                       Frozen(journal, Now, validRevisions[j].journalIndex)]
        /\ Saved' = [j \in 1..Len(validRevisions') |->
                       Frozen(journal', Now', validRevisions'[j].journalIndex)]
    BY Between, BetweenNext
  <1>2. ASSUME NEW j \in 1..Len(validRevisions)
        PROVE  Frozen(journal', Now', validRevisions[j].journalIndex)
                 = Frozen(journal, Now, validRevisions[j].journalIndex)
    <2> DEFINE i == validRevisions[j].journalIndex
    <2>1. i \in 0..Len(journal.entries) /\ Len(journal.entries) \in Nat
      <3>1. RevisionsOK /\ Len(journal.entries) \in Nat
        BY StateFacts DEF IInv
      <3>2. j \in DOMAIN validRevisions /\ validRevisions[j].journalIndex \in Nat
        BY Revision
      <3> QED
        BY <3>1, <3>2, SMTT(30) DEF RevisionsOK
    <2> HIDE DEF i
    <2>2. FoundAt(journal', Now', i) = FoundAt(journal, Now, i)
      BY <2>1 DEF Extends
    <2>3. TouchedIn(journal'.entries, i) = TouchedIn(journal.entries, i)
      BY <2>1, TouchedKept
    <2> QED
      BY <2>2, <2>3 DEF Frozen, i
  <1> QED
    BY <1>1, <1>2

\* A call on account a, seen by the store.
LEMMA ChangeMaps ==
    ASSUME IInv, IInv', NEW op, Call(op), NEW a \in Address, NEW v, NEW T,
           Changes(a, v, T),
           UNCHANGED <<stateObjectsPending, validRevisions, accessList, preimages>>
    PROVE  /\ Present.accounts' = [Present.accounts EXCEPT ![a] = v]
           /\ PresentTouched' = PresentTouched \union T
           /\ Present.accounts = Now.accounts
           /\ UNCHANGED <<PresentWarm, Present.preimages, stateObjectsPending, Saved>>
  <1>1. phase = "run" /\ phase' = "run"
    BY CallKeeps
  <1>2. Present = Now /\ Present' = Now' /\ PresentWarm' = PresentWarm
        /\ PresentTouched = Touched(journal) /\ PresentTouched' = Touched(journal')
    BY <1>1, Between, BetweenNext
  <1>3. Now' = Told(Now, a, v) /\ Now \in Found
    BY StateFacts DEF Changes
  <1>4. Now'.accounts = [Now.accounts EXCEPT ![a] = v] /\ Now'.preimages = Now.preimages
    BY <1>3 DEF Told, Found
  <1>5. Saved' = Saved
    BY <1>1, SavedKept DEF Changes
  <1> QED
    BY <1>2, <1>4, <1>5 DEF Changes

\* The account that a setter works on: what is there, or a new one.
LEMMA OrNewIs ==
    ASSUME IInv, NEW a \in Address, phase = "run"
    PROVE  /\ Account(GetOrNewStateObject(a)) = Store!OrNew(a)
           /\ Account(newObject(NoAccount)) = Store!Fresh
           /\ Usable(getDeletedStateObject(a)) <=> Now.accounts[a].exists
           /\ Usable(getDeletedStateObject(a)) => Store!OrNew(a) = Now.accounts[a]
           /\ ~Usable(getDeletedStateObject(a)) => Store!OrNew(a) = Store!Fresh
           /\ Account(GetOrNewStateObject(a)) \in ReadAccount
           /\ Store!Nobody = NoAccount
           /\ Store!Fresh \in ReadAccount /\ Store!Fresh.balance = 0
           /\ \A o : empty(o) /\ Usable(o) => Store!Empty(Account(o))
  <1> DEFINE prev == getDeletedStateObject(a)
             o == GetOrNewStateObject(a)
  <1>1. Present.accounts = Now.accounts
    BY Between
  <1>2. Store!Nobody = NoAccount
    BY DEF Store!Nobody, NoAccount, Store!Zeros, Zeros
  <1>3. /\ Account(newObject(NoAccount)) = Store!Fresh
        /\ Store!Fresh \in ReadAccount /\ Store!Fresh.balance = 0
    <2>1. ObjectOK(newObject(NoAccount)) /\ Usable(newObject(NoAccount))
      BY NewObject, NoObjectOK
    <2>2. [k \in Slot |-> GetState(newObject(NoAccount), k)] = Zeros
      BY DEF GetState, GetCommittedState, newObject, NoCache, NoAccount, Zeros
    <2>3. Account(newObject(NoAccount)) = [exists |-> TRUE, nonce |-> 0, balance |-> 0,
                 code |-> 0, storage |-> Zeros, suicided |-> FALSE]
      BY <2>1, <2>2 DEF Account, newObject, NoAccount
    <2>4. Store!Fresh = [exists |-> TRUE, nonce |-> 0, balance |-> 0,
                 code |-> 0, storage |-> Zeros, suicided |-> FALSE]
      <3>1. NoAccount \in ReadAccount
        BY NoObjectOK, AccountType
      <3>2. Store!Fresh = [NoAccount EXCEPT !.exists = TRUE]
        BY <1>2 DEF Store!Fresh
      <3>3. /\ Store!Fresh \in ReadAccount /\ Store!Fresh.exists
            /\ Store!Fresh.nonce = NoAccount.nonce /\ Store!Fresh.balance = NoAccount.balance
            /\ Store!Fresh.code = NoAccount.code /\ Store!Fresh.storage = NoAccount.storage
            /\ Store!Fresh.suicided = NoAccount.suicided
        BY <3>1, <3>2 DEF ReadAccount
      <3> QED
        BY <3>3 DEF ReadAccount, NoAccount
    <2>5. Account(newObject(NoAccount)) \in ReadAccount
      BY <2>1, AccountType
    <2> QED
      BY <2>3, <2>4, <2>5
  <1>4. ObjectOK(prev) /\ Account(prev) = Now.accounts[a]
    BY Loaded
  <1>5. Usable(prev) <=> Now.accounts[a].exists
    BY <1>4, AccountType
  <1>6. /\ Usable(prev) => Store!OrNew(a) = Now.accounts[a]
        /\ ~Usable(prev) => Store!OrNew(a) = Store!Fresh
    BY <1>1, <1>5 DEF Store!OrNew
  <1>7. /\ ObjectOK(o)
        /\ Usable(prev) => o = prev
        /\ ~Usable(prev) => o = newObject(NoAccount)
    BY Acquire
  <1>8. Account(o) \in ReadAccount
    BY <1>7, AccountType
  <1>9. \A r : empty(r) /\ Usable(r) => Store!Empty(Account(r))
    BY DEF empty, Account, Store!Empty
  <1> QED
    BY <1>2, <1>3, <1>4, <1>5, <1>6, <1>7, <1>8, <1>9

\* SetBalance, SetNonce and SetCode.
LEMMA FieldMaps ==
    ASSUME IInv, IInv', NEW op, Call(op), NEW a \in Address, NEW x \in Value
    PROVE  /\ SetBalance(a, x) => Store!SetBalance(a, x)
           /\ SetNonce(a, x) => Store!SetNonce(a, x)
           /\ SetCode(a, x) => Store!SetCode(a, x)
  <1> DEFINE o == GetOrNewStateObject(a)
  <1>1. ASSUME NEW kind \in FieldKinds,
               WriteField(a, kind, Field(o, kind), WithField(o, kind, x))
        PROVE  Store!Put(a, WithField(Store!OrNew(a), kind, x))
    <2>1. Changes(a, WithField(Account(o), kind, x), {a})
      BY <1>1, SetFieldStep
    <2>2. UNCHANGED <<stateObjectsPending, validRevisions, accessList, preimages, trie, ripemdDirty>>
      BY <1>1 DEF WriteField, Write, UnchangedButJournal
    <2>3. Account(o) = Store!OrNew(a)
      BY CallKeeps, OrNewIs
    <2> DEFINE v == WithField(Store!OrNew(a), kind, x)
    <2>4. Changes(a, v, {a})
      BY <2>1, <2>3
    <2> HIDE DEF v
    <2>5. /\ Present.accounts' = [Present.accounts EXCEPT ![a] = v]
          /\ PresentTouched' = PresentTouched \union {a}
          /\ UNCHANGED <<PresentWarm, Present.preimages, stateObjectsPending, Saved>>
      BY <2>2, <2>4, ChangeMaps
    <2>6. Sticky' = Sticky /\ trie' = trie
      BY <2>2 DEF Sticky
    <2>7. Store!Put(a, v)
      BY <2>5, <2>6 DEF Store!Put
    <2> QED
      BY <2>7 DEF v
  <1>2. \A r : /\ WithField(r, "balance", x) = [r EXCEPT !.balance = x]
               /\ WithField(r, "nonce", x) = [r EXCEPT !.nonce = x]
               /\ WithField(r, "code", x) = [r EXCEPT !.code = x]
    BY DEF WithField
  <1>3. ASSUME SetBalance(a, x) PROVE Store!SetBalance(a, x)
    BY <1>1, <1>2, <1>3, FieldSetters DEF Store!SetBalance
  <1>4. ASSUME SetNonce(a, x) PROVE Store!SetNonce(a, x)
    BY <1>1, <1>2, <1>4, FieldSetters DEF Store!SetNonce
  <1>5. ASSUME SetCode(a, x) PROVE Store!SetCode(a, x)
    BY <1>1, <1>2, <1>5, FieldSetters DEF Store!SetCode
  <1> QED
    BY <1>3, <1>4, <1>5

\* A setter that finds nothing to change leaves the store as it is, or makes
\* the account.
LEMMA NothingMaps ==
    ASSUME IInv, IInv', NEW op, Call(op), NEW a \in Address, NEW r, ObjectOK(r), Usable(r),
           Account(r) = Account(GetOrNewStateObject(a)),
           SameCaches(GetOrNewStateObject(a), r), WriteNothing(a, r)
    PROVE  UNCHANGED Store!vars \/ Store!Create(a, 0)
  <1> DEFINE o == GetOrNewStateObject(a)
             prev == getDeletedStateObject(a)
             T == IF prev.live THEN {} ELSE {a}
             v == Account(o)
  <1>0. phase = "run"
    BY CallKeeps
  <1>1. Changes(a, v, T)
    BY NothingStep
  <1>2. /\ UNCHANGED <<stateObjectsPending, validRevisions, accessList, preimages, trie>>
        /\ ripemdDirty' = ripemdDirty
    BY DEF WriteNothing, Write, UnchangedButJournal
  <1>3. /\ v = Store!OrNew(a) /\ Account(newObject(NoAccount)) = Store!Fresh
        /\ Usable(prev) => Store!OrNew(a) = Now.accounts[a]
        /\ ~Usable(prev) => Store!OrNew(a) = Store!Fresh
    BY <1>0, OrNewIs
  <1>4. T \in SUBSET {a} /\ (Usable(prev) => T = {})
    BY DEF Usable
  <1> HIDE DEF T, v, prev, o
  <1>5. /\ Present.accounts' = [Present.accounts EXCEPT ![a] = v]
        /\ PresentTouched' = PresentTouched \union T
        /\ Present.accounts = Now.accounts
        /\ UNCHANGED <<PresentWarm, Present.preimages, stateObjectsPending, Saved>>
    BY <1>1, <1>2, ChangeMaps
  <1>6. Sticky' = Sticky /\ trie' = trie
    BY <1>2 DEF Sticky
  <1>7. Now.accounts \in [Address -> ReadAccount]
    BY StateFacts DEF Found
  <1>8. CASE Usable(prev)
    <2>1. v = Now.accounts[a] /\ T = {}
      BY <1>3, <1>4, <1>8
    <2>2. [Now.accounts EXCEPT ![a] = Now.accounts[a]] = Now.accounts
      BY <1>7
    <2> QED
      BY <1>5, <1>6, <2>1, <2>2 DEF Store!vars
  <1>9. CASE ~Usable(prev)
    <2>1. v = Store!Fresh
      BY <1>3, <1>9
    <2>2. [Store!Fresh EXCEPT !.balance = 0] = Store!Fresh
      <3>2. Store!Fresh \in ReadAccount /\ Store!Fresh.balance = 0
        BY <1>0, OrNewIs
      <3> QED
        BY <3>2 DEF ReadAccount
    <2>3. PresentTouched' \in {PresentTouched, PresentTouched \union {a}}
      BY <1>4, <1>5
    <2> QED
      BY <1>5, <1>6, <2>1, <2>2, <2>3 DEF Store!Create
  <1> QED
    BY <1>8, <1>9

\* SetState.
LEMMA StateMaps ==
    ASSUME IInv, IInv', NEW op, Call(op), NEW a \in Address, NEW k \in Slot,
           NEW x \in Value, SetState(a, k, x)
    PROVE  UNCHANGED Store!vars \/ Store!Create(a, 0) \/ Store!SetState(a, k, x)
  <1> DEFINE o == GetOrNewStateObject(a)
             r == StateRead(o, k)
  <1>0. phase = "run"
    BY CallKeeps
  <1>1. CASE GetState(o, k) = x
    <2>1. WriteNothing(a, r)
      BY <1>1 DEF SetState
    <2>2. ObjectOK(o) /\ Usable(o)
      BY Acquire
    <2>3. /\ ObjectOK(r) /\ r.live /\ Account(r) = Account(o) /\ SameCaches(o, r)
          /\ r.deleted = o.deleted
      BY <2>2, ReadObject, SMTT(30) DEF Usable
    <2>4. Usable(r)
      BY <2>2, <2>3 DEF Usable
    <2> HIDE DEF r
    <2> QED
      BY <2>1, <2>3, <2>4, NothingMaps
  <1>2. CASE GetState(o, k) # x
    <2>1. Changes(a, WithSlot(Account(o), k, x), {a})
      BY <1>2, SetStateStep
    <2>2. UNCHANGED <<stateObjectsPending, validRevisions, accessList, preimages, trie, ripemdDirty>>
      BY <1>2 DEF SetState, Write, UnchangedButJournal
    <2>3. Account(o) = Store!OrNew(a)
      BY <1>0, OrNewIs
    <2> DEFINE v == WithSlot(Store!OrNew(a), k, x)
    <2>4. Changes(a, v, {a})
      BY <2>1, <2>3
    <2> HIDE DEF v
    <2>5. /\ Present.accounts' = [Present.accounts EXCEPT ![a] = v]
          /\ PresentTouched' = PresentTouched \union {a}
          /\ UNCHANGED <<PresentWarm, Present.preimages, stateObjectsPending, Saved>>
      BY <2>2, <2>4, ChangeMaps
    <2>6. Sticky' = Sticky /\ trie' = trie
      BY <2>2 DEF Sticky
    <2>7. Store!Put(a, v)
      BY <2>5, <2>6 DEF Store!Put
    <2> QED
      BY <2>7 DEF v, WithSlot, Store!SetState
  <1> QED
    BY <1>1, <1>2

\* AddBalance of nothing to an empty account.
LEMMA TouchMaps ==
    ASSUME IInv, IInv', NEW op, Call(op), NEW a \in Address,
           empty(GetOrNewStateObject(a)), touch(a)
    PROVE  Store!Touch(a)
  <1> DEFINE v == Account(GetOrNewStateObject(a))
  <1>0. phase = "run" /\ ripemdDirty \in Nat
    BY CallKeeps, StateFacts
  <1>1. Changes(a, v, {a})
    BY TouchStep
  <1>2. /\ UNCHANGED <<stateObjectsPending, validRevisions, accessList, preimages, trie>>
        /\ ripemdDirty' = ripemdDirty + (IF a = Ripemd THEN 1 ELSE 0)
    BY DEF touch, Write, UnchangedButJournal
  <1>3. v = Store!OrNew(a) /\ Store!Empty(v)
    BY <1>0, OrNewIs, Acquire
  <1> HIDE DEF v
  <1>4. /\ Present.accounts' = [Present.accounts EXCEPT ![a] = v]
        /\ PresentTouched' = PresentTouched \union {a}
        /\ UNCHANGED <<PresentWarm, Present.preimages, stateObjectsPending, Saved>>
    BY <1>1, <1>2, ChangeMaps
  <1>5. Sticky' \in {Sticky, Sticky \union {a}}
    BY <1>0, <1>2, SMTT(30) DEF Sticky
  <1> QED
    BY <1>2, <1>3, <1>4, <1>5 DEF Store!Touch

\* Every setter of an account is one of the store, or a step it does not see.
LEMMA SetAccountMaps ==
    ASSUME IInv, IInv', NEW a \in Address, SetAccount(a)
    PROVE  Store!Next \/ UNCHANGED Store!vars
  <1> DEFINE o == GetOrNewStateObject(a)
  <1>0. 0 \in Value
    BY ValueFacts
  <1>1. ObjectOK(o) /\ Usable(o) /\ SameCaches(o, o)
    BY Acquire DEF SameCaches
  <1>2. ASSUME NEW x \in Value, NEW op, Call(op),
               SetBalance(a, x) \/ SetNonce(a, x) \/ SetCode(a, x)
        PROVE  Store!Next
    <2>1. Store!SetBalance(a, x) \/ Store!SetNonce(a, x) \/ Store!SetCode(a, x)
      BY <1>2, FieldMaps
    <2> QED
      BY <2>1 DEF Store!Next
  <1>3. ASSUME NEW op, Call(op), WriteNothing(a, o)
        PROVE  Store!Next \/ UNCHANGED Store!vars
    <2>1. UNCHANGED Store!vars \/ Store!Create(a, 0)
      <3> HIDE DEF o
      <3>1. ObjectOK(o) /\ Usable(o) /\ SameCaches(o, o)
        BY <1>1
      <3> QED
        BY <1>3, <3>1, NothingMaps DEF o
    <2> QED
      BY <1>0, <2>1 DEF Store!Next
  <1>4. ASSUME NEW op, Call(op), touch(a), empty(o)
        PROVE  Store!Next
    <2>1. Store!Touch(a)
      BY <1>4, TouchMaps
    <2> QED
      BY <2>1 DEF Store!Next
  <1>5. PICK x \in Value :
           \/ Call("SetBalance") /\ SetBalance(a, x)
           \/ Call("AddBalance") /\ AddBalance(a, x)
           \/ Call("SubBalance") /\ SubBalance(a, x)
           \/ Call("SetNonce") /\ SetNonce(a, x)
           \/ Call("SetCode") /\ SetCode(a, x)
           \/ \E k \in Slot : Call("SetState") /\ SetState(a, k, x)
    BY DEF SetAccount
  <1>6. CASE \/ Call("SetBalance") /\ SetBalance(a, x)
             \/ Call("SetNonce") /\ SetNonce(a, x)
             \/ Call("SetCode") /\ SetCode(a, x)
    BY <1>2, <1>6
  <1>7. CASE Call("AddBalance") /\ AddBalance(a, x)
    <2>1. \/ touch(a) /\ empty(o)
          \/ WriteNothing(a, o)
          \/ o.balance + x \in Value /\ SetBalance(a, o.balance + x)
      BY <1>7 DEF AddBalance
    <2> QED
      BY <1>2, <1>3, <1>4, <1>7, <2>1
  <1>8. CASE Call("SubBalance") /\ SubBalance(a, x)
    <2>1. \/ WriteNothing(a, o)
          \/ o.balance - x \in Value /\ SetBalance(a, o.balance - x)
      BY <1>8 DEF SubBalance
    <2> QED
      BY <1>2, <1>3, <1>8, <2>1
  <1>9. CASE \E k \in Slot : Call("SetState") /\ SetState(a, k, x)
    <2>1. PICK k \in Slot : Call("SetState") /\ SetState(a, k, x)
      BY <1>9
    <2>2. UNCHANGED Store!vars \/ Store!Create(a, 0) \/ Store!SetState(a, k, x)
      BY <2>1, StateMaps
    <2> QED
      BY <1>0, <2>2 DEF Store!Next
  <1> QED
    BY <1>5, <1>6, <1>7, <1>8, <1>9
\* A call that reads.
LEMMA ReadMaps ==
    ASSUME IInv, IInv', NEW op, Call(op), NEW a \in Address, NEW r, ObjectOK(r),
           Account(r) = Account(getDeletedStateObject(a)),
           getDeletedStateObject(a).live => r.live /\ SameCaches(getDeletedStateObject(a), r),
           ~getDeletedStateObject(a).live => r = getDeletedStateObject(a),
           Read(a, r, journal), trie' = trie
    PROVE  UNCHANGED Store!vars
  <1>1. Changes(a, Now.accounts[a], {}) /\ Now' = Now
    BY ReadStep
  <1>2. UNCHANGED <<stateObjectsPending, validRevisions, accessList, preimages, trie, ripemdDirty>>
    BY DEF Read
  <1> DEFINE v == Now.accounts[a]
  <1>3. Changes(a, v, {}) /\ Now.accounts \in [Address -> ReadAccount]
    BY <1>1, StateFacts DEF Found
  <1>4. [Now.accounts EXCEPT ![a] = v] = Now.accounts
    BY <1>3
  <1> HIDE DEF v
  <1>5. /\ Present.accounts' = [Present.accounts EXCEPT ![a] = v]
        /\ PresentTouched' = PresentTouched \union {}
        /\ Present.accounts = Now.accounts
        /\ UNCHANGED <<PresentWarm, Present.preimages, stateObjectsPending, Saved>>
    BY <1>2, <1>3, ChangeMaps
  <1>6. Sticky' = Sticky /\ trie' = trie
    BY <1>2 DEF Sticky
  <1> QED
    BY <1>4, <1>5, <1>6 DEF Store!vars

\* CreateAccount, with the balance that is carried over.
LEMMA CreateMaps ==
    ASSUME IInv, IInv', NEW op, Call(op), NEW a \in Address, CreateAccount(a)
    PROVE  \E x \in Value : Store!Create(a, x)
  <1> DEFINE prev == getDeletedStateObject(a)
             x == IF Usable(prev) THEN prev.balance ELSE 0
             T == IF prev.live THEN {} ELSE {a}
             v == Account(Reborn(x))
  <1>0. phase = "run"
    BY CallKeeps
  <1>1. x \in Value /\ Changes(a, v, T)
    BY CreateAccountStep
  <1>2. UNCHANGED <<stateObjectsPending, validRevisions, accessList, preimages, trie, ripemdDirty>>
    BY DEF CreateAccount, UnchangedButJournal
  <1>3. v = [Account(newObject(NoAccount)) EXCEPT !.balance = x]
    <2> HIDE DEF x
    <2> QED
      BY <1>1, RebornObject
  <1>4. v = [Store!Fresh EXCEPT !.balance = x]
    BY <1>0, <1>3, OrNewIs
  <1>5. x \in {0, Now.accounts[a].balance}
    <2>1. Account(prev) = Now.accounts[a]
      BY Loaded
    <2>2. Usable(prev) => Account(prev).balance = prev.balance
      BY DEF Account
    <2> QED
      BY <2>1, <2>2
  <1>6. T \in {{}, {a}}
    OBVIOUS
  <1> HIDE DEF T, v, prev, x
  <1>7. /\ Present.accounts' = [Present.accounts EXCEPT ![a] = v]
        /\ PresentTouched' = PresentTouched \union T
        /\ Present.accounts = Now.accounts
        /\ UNCHANGED <<PresentWarm, Present.preimages, stateObjectsPending, Saved>>
    BY <1>1, <1>2, ChangeMaps
  <1>8. Sticky' = Sticky /\ trie' = trie
    BY <1>2 DEF Sticky
  <1>9. PresentTouched' \in {PresentTouched, PresentTouched \union {a}}
    BY <1>6, <1>7
  <1>10. Store!Create(a, x)
    BY <1>4, <1>5, <1>7, <1>8, <1>9 DEF Store!Create
  <1> QED
    BY <1>1, <1>10

\* Suicide of an account that is there.
LEMMA SuicideMaps ==
    ASSUME IInv, IInv', NEW op, Call(op), NEW a \in Address, Suicide(a),
           Usable(getDeletedStateObject(a))
    PROVE  Store!Suicide(a)
  <1> DEFINE v == Suicided(Now.accounts[a])
  <1>0. phase = "run"
    BY CallKeeps
  <1>1. Changes(a, v, {a})
    BY SuicideStep
  <1>2. UNCHANGED <<stateObjectsPending, validRevisions, accessList, preimages, trie, ripemdDirty>>
    BY DEF Suicide, Read
  <1>3. Now.accounts[a].exists /\ Present.accounts = Now.accounts
    BY <1>0, OrNewIs, Between
  <1>4. v = [Present.accounts[a] EXCEPT !.suicided = TRUE, !.balance = 0]
    BY <1>3 DEF Suicided
  <1> HIDE DEF v
  <1>5. /\ Present.accounts' = [Present.accounts EXCEPT ![a] = v]
        /\ PresentTouched' = PresentTouched \union {a}
        /\ UNCHANGED <<PresentWarm, Present.preimages, stateObjectsPending, Saved>>
    BY <1>1, <1>2, ChangeMaps
  <1>6. Sticky' = Sticky /\ trie' = trie
    BY <1>2 DEF Sticky
  <1>7. Store!Put(a, v)
    BY <1>5, <1>6 DEF Store!Put
  <1> QED
    BY <1>3, <1>4, <1>7 DEF Store!Suicide

\* DeleteAccount of an account that is there.
LEMMA DeleteMaps ==
    ASSUME IInv, IInv', NEW op, Call(op), NEW a \in Address, DeleteAccount(a),
           Usable(getDeletedStateObject(a))
    PROVE  Store!DeleteAccount(a)
  <1> DEFINE v == Now.accounts[a]
  <1>0. phase = "run"
    BY CallKeeps
  <1>1. Changes(a, v, {}) /\ Now.accounts \in [Address -> ReadAccount]
    BY DeleteStep, StateFacts DEF Found
  <1>2. UNCHANGED <<stateObjectsPending, validRevisions, accessList, preimages, ripemdDirty>>
    BY DEF DeleteAccount, Read
  <1>3. Now.accounts[a].exists /\ Present.accounts = Now.accounts /\ Store!Nobody = NoAccount
    BY <1>0, OrNewIs, Between
  <1>4. [Now.accounts EXCEPT ![a] = v] = Now.accounts
    BY <1>1
  <1>5. trie' = [trie EXCEPT ![a] = Store!Nobody]
    BY <1>3, DeleteStep DEF Without
  <1> HIDE DEF v
  <1>6. /\ Present.accounts' = [Present.accounts EXCEPT ![a] = v]
        /\ PresentTouched' = PresentTouched \union {}
        /\ UNCHANGED <<PresentWarm, Present.preimages, stateObjectsPending, Saved>>
    BY <1>1, <1>2, ChangeMaps
  <1>7. Sticky' = Sticky
    BY <1>2 DEF Sticky
  <1> QED
    BY <1>3, <1>4, <1>5, <1>6, <1>7 DEF Store!DeleteAccount

\* CreateAccount, Suicide, DeleteAccount and the reads.
LEMMA UseAccountMaps ==
    ASSUME IInv, IInv', NEW a \in Address, UseAccount(a)
    PROVE  Store!Next \/ UNCHANGED Store!vars
  <1> DEFINE o == getDeletedStateObject(a)
  <1>1. ObjectOK(o) /\ SameCaches(o, o)
    BY Loaded DEF SameCaches
  <1>2. ASSUME NEW op, Call(op), NEW r, Read(a, r, journal), trie' = trie,
               \/ r = o
               \/ /\ Usable(o)
                  /\ \E k \in Slot : r = StateRead(o, k) \/ r = CommittedRead(o, k)
        PROVE  UNCHANGED Store!vars
    <2>1. /\ ObjectOK(r) /\ Account(r) = Account(o)
          /\ o.live => r.live /\ SameCaches(o, r)
          /\ ~o.live => r = o
      BY <1>1, <1>2, ReadObject, SMTT(30) DEF Usable
    <2> QED
      BY <1>2, <2>1, ReadMaps
  <1>3. CASE Call("CreateAccount") /\ CreateAccount(a)
    <2>1. \E x \in Value : Store!Create(a, x)
      BY <1>3, CreateMaps
    <2> QED
      BY <2>1 DEF Store!Next
  <1>4. CASE Call("Suicide") /\ Suicide(a)
    <2>1. CASE Usable(o)
      BY <1>4, <2>1, SuicideMaps DEF Store!Next
    <2>2. CASE ~Usable(o)
      BY <1>2, <1>4, <2>2 DEF Suicide
    <2> QED
      BY <2>1, <2>2
  <1>5. CASE Call("DeleteAccount") /\ DeleteAccount(a)
    <2>1. CASE Usable(o)
      BY <1>5, <2>1, DeleteMaps DEF Store!Next
    <2>2. CASE ~Usable(o)
      BY <1>2, <1>5, <2>2 DEF DeleteAccount
    <2> QED
      BY <2>1, <2>2
  <1>6. CASE Call("Get") /\ Get(a)
    BY <1>2, <1>6 DEF Get
  <1>7. ASSUME NEW k \in Slot, Call("GetState"), ReadState(a, k) \/ ReadCommitted(a, k)
        PROVE  UNCHANGED Store!vars
    BY <1>2, <1>7 DEF ReadState, ReadCommitted
  <1> QED
    BY <1>3, <1>4, <1>5, <1>6, <1>7 DEF UseAccount

\* AddAddress, seen without the indices.
LEMMA AddressWarmed ==
    ASSUME NEW al, AccessListOK(al), NEW a \in Address
    PROVE  LET warmer == [WarmIn(al) EXCEPT !.addresses = WarmIn(al).addresses \union {a}]
           IN  /\ ContainsAddress(al, a) => WarmIn(al) = warmer
               /\ ~ContainsAddress(al, a) => WarmIn(addAddress(al, a)) = warmer
  <1> DEFINE A(l) == {c \in Address : ContainsAddress(l, c)}
             B(l) == {p \in Address \X Slot : p[2] \in SlotsOf(l, p[1])}
  <1>1. \A l : WarmIn(l) = [addresses |-> A(l), slots |-> B(l)]
    BY DEF WarmIn
  <1>2. WarmIn(al).addresses = A(al) /\ WarmIn(al).slots = B(al)
    BY <1>1
  <1>3. [WarmIn(al) EXCEPT !.addresses = A(al) \union {a}]
          = [addresses |-> A(al) \union {a}, slots |-> B(al)]
    <2> DEFINE w == WarmIn(al)
               X == A(al)
               Y == B(al)
    <2>1. w = [addresses |-> X, slots |-> Y] /\ X \in SUBSET Address
          /\ Y \in SUBSET (Address \X Slot)
      BY <1>1
    <2> HIDE DEF w, X, Y
    <2>2. w \in [addresses : SUBSET Address, slots : SUBSET (Address \X Slot)] /\ w.slots = Y
      BY <2>1
    <2>3. [w EXCEPT !.addresses = X \union {a}] = [addresses |-> X \union {a}, slots |-> w.slots]
      <3> DEFINE e == [w EXCEPT !.addresses = X \union {a}]
      <3>1. e \in [addresses : SUBSET Address, slots : SUBSET (Address \X Slot)]
            /\ e.addresses = X \union {a} /\ e.slots = w.slots
        BY <2>1, <2>2
      <3> HIDE DEF e
      <3>2. e = [addresses |-> e.addresses, slots |-> e.slots]
        BY <3>1
      <3> QED
        BY <3>1, <3>2 DEF e
    <2> QED
      BY <2>2, <2>3 DEF w, X, Y
  <1>4. ContainsAddress(al, a) => A(al) \union {a} = A(al)
    OBVIOUS
  <1>5. ASSUME NEW cl, \A c \in Address : SlotsOf(cl, c) = SlotsOf(al, c)
        PROVE  B(cl) = B(al)
    BY <1>5
  <1>6. ASSUME ~ContainsAddress(al, a)
        PROVE  A(addAddress(al, a)) = A(al) \union {a} /\ B(addAddress(al, a)) = B(al)
    <2> DEFINE cl == addAddress(al, a)
    <2>1. /\ ContainsAddress(cl, a) /\ \A c \in Address : SlotsOf(cl, c) = SlotsOf(al, c)
          /\ \A c \in Address \ {a} : ContainsAddress(cl, c) <=> ContainsAddress(al, c)
      BY <1>6, AddAddress
    <2> HIDE DEF cl
    <2>2. A(cl) = A(al) \union {a}
      BY <2>1
    <2>3. B(cl) = B(al)
      BY <1>5, <2>1
    <2> QED
      BY <2>2, <2>3 DEF cl
  <1> HIDE DEF A, B
  <1>10. CASE ContainsAddress(al, a)
    BY <1>1, <1>2, <1>3, <1>4, <1>10
  <1>11. CASE ~ContainsAddress(al, a)
    <2>1. WarmIn(addAddress(al, a)) = [addresses |-> A(al) \union {a}, slots |-> B(al)]
      BY <1>1, <1>6, <1>11
    <2> QED
      BY <1>2, <1>3, <1>11, <2>1
  <1> QED
    BY <1>10, <1>11

\* AddSlot, seen without the indices.
LEMMA SlotWarmed ==
    ASSUME NEW al, AccessListOK(al), NEW a \in Address, NEW k \in Slot
    PROVE  LET warmer == [addresses |-> WarmIn(al).addresses \union {a},
                          slots |-> WarmIn(al).slots \union {<<a, k>>}]
           IN  /\ k \in SlotsOf(al, a) => WarmIn(al) = warmer
               /\ k \notin SlotsOf(al, a) => WarmIn(addSlot(al, a, k)) = warmer
  <1> DEFINE A(l) == {c \in Address : ContainsAddress(l, c)}
             B(l) == {p \in Address \X Slot : p[2] \in SlotsOf(l, p[1])}
  <1>1. \A l : WarmIn(l) = [addresses |-> A(l), slots |-> B(l)]
    BY DEF WarmIn
  <1>2. WarmIn(al).addresses = A(al) /\ WarmIn(al).slots = B(al)
    BY <1>1
  <1>4. ContainsAddress(al, a) => A(al) \union {a} = A(al)
    OBVIOUS
  <1>5. ASSUME NEW cl, \A c \in Address : SlotsOf(cl, c) = SlotsOf(al, c)
        PROVE  B(cl) = B(al)
    BY <1>5
  <1>6. ASSUME ~ContainsAddress(al, a)
        PROVE  A(addAddress(al, a)) = A(al) \union {a} /\ B(addAddress(al, a)) = B(al)
    <2> DEFINE cl == addAddress(al, a)
    <2>1. /\ ContainsAddress(cl, a) /\ \A c \in Address : SlotsOf(cl, c) = SlotsOf(al, c)
          /\ \A c \in Address \ {a} : ContainsAddress(cl, c) <=> ContainsAddress(al, c)
      BY <1>6, AddAddress
    <2> HIDE DEF cl
    <2>2. A(cl) = A(al) \union {a}
      BY <2>1
    <2>3. B(cl) = B(al)
      BY <1>5, <2>1
    <2> QED
      BY <2>2, <2>3 DEF cl
  <1>7. ASSUME NEW bl, AccessListOK(bl), ContainsAddress(bl, a), k \notin SlotsOf(bl, a)
        PROVE  A(addSlot(bl, a, k)) = A(bl) /\ B(addSlot(bl, a, k)) = B(bl) \union {<<a, k>>}
    <2> DEFINE cl == addSlot(bl, a, k)
    <2>1. /\ SlotsOf(cl, a) = SlotsOf(bl, a) \union {k}
          /\ \A c \in Address \ {a} : SlotsOf(cl, c) = SlotsOf(bl, c)
          /\ \A c \in Address : ContainsAddress(cl, c) <=> ContainsAddress(bl, c)
      BY <1>7, AddSlot
    <2> HIDE DEF cl
    <2>2. A(cl) = A(bl)
      BY <2>1
    <2>3. ASSUME NEW p \in Address \X Slot
          PROVE  p \in B(cl) <=> p \in B(bl) \union {<<a, k>>}
      <3>1. PICK c \in Address, m \in Slot : p = <<c, m>>
        BY SMTT(30)
      <3>2. p[1] = c /\ p[2] = m /\ (p = <<a, k>> <=> c = a /\ m = k)
        BY <3>1
      <3>3. m \in SlotsOf(cl, c) <=> m \in SlotsOf(bl, c) \/ (c = a /\ m = k)
        BY <2>1
      <3> QED
        BY <3>2, <3>3
    <2>4. B(cl) = B(bl) \union {<<a, k>>}
      BY <2>3
    <2> QED
      BY <2>2, <2>4 DEF cl
  <1>8. ASSUME k \in SlotsOf(al, a)
        PROVE  A(al) = A(al) \union {a} /\ B(al) = B(al) \union {<<a, k>>}
    <2>1. ContainsAddress(al, a)
      BY <1>8, SMTT(30) DEF SlotsOf, ContainsAddress, Missing, AccessListOK
    <2>2. <<a, k>> \in Address \X Slot /\ <<a, k>>[1] = a /\ <<a, k>>[2] = k
      OBVIOUS
    <2> QED
      BY <1>8, <2>1, <2>2
  <1>9. ASSUME k \notin SlotsOf(al, a)
        PROVE  /\ A(addSlot(al, a, k)) = A(al) \union {a}
               /\ B(addSlot(al, a, k)) = B(al) \union {<<a, k>>}
    <2>1. CASE ContainsAddress(al, a)
      BY <1>4, <1>7, <1>9, <2>1
    <2>2. CASE ~ContainsAddress(al, a)
      <3> DEFINE cl == addAddress(al, a)
      <3>1. AccessListOK(cl) /\ ContainsAddress(cl, a) /\ SlotsOf(cl, a) = SlotsOf(al, a)
        BY <2>2, AddAddress
      <3>2. addSlot(cl, a, k) = addSlot(al, a, k)
        BY <2>2, AddSlotOfNew
      <3>3. A(cl) = A(al) \union {a} /\ B(cl) = B(al)
        BY <1>6, <2>2
      <3> HIDE DEF cl
      <3>4. A(addSlot(cl, a, k)) = A(cl) /\ B(addSlot(cl, a, k)) = B(cl) \union {<<a, k>>}
        BY <1>7, <1>9, <3>1
      <3> QED
        BY <3>2, <3>3, <3>4
    <2> QED
      BY <2>1, <2>2
  <1> HIDE DEF A, B
  <1> QED
    BY <1>1, <1>2, <1>8, <1>9

\* A call that changes no account.
LEMMA TurnMaps ==
    ASSUME IInv, IInv', NEW op, Call(op), OtherFrame, NEW n, Turns(n),
           n.accounts = Now.accounts
    PROVE  /\ Present.accounts' = Present.accounts
           /\ PresentWarm = WarmIn(accessList) /\ PresentWarm' = WarmIn(n.accessList)
           /\ Present.preimages = preimages /\ Present.preimages' = n.preimages
           /\ UNCHANGED <<PresentTouched, Sticky, stateObjectsPending, trie, Saved>>
  <1>1. phase = "run" /\ phase' = "run" /\ Now.preimages = preimages
    BY CallKeeps, StateFacts
  <1>2. Now' = n /\ Touched(journal') = Touched(journal)
        /\ Extends(journal, Now, journal', Now')
    BY DEF Turns
  <1>3. Now'.accessList = accessList'
    BY DEF Now
  <1>4. Saved' = Saved
    BY <1>1, <1>2, SavedKept DEF OtherFrame
  <1>5. Sticky' = Sticky /\ UNCHANGED <<stateObjectsPending, trie>>
    BY DEF OtherFrame, Sticky
  <1> QED
    BY <1>1, <1>2, <1>3, <1>4, <1>5, Between, BetweenNext

\* Nothing is warm in a new access list.
LEMMA NewWarm == WarmIn(newAccessList) = [addresses |-> {}, slots |-> {}]
  <1>1. {c \in Address : ContainsAddress(newAccessList, c)} = {}
    BY DEF ContainsAddress, newAccessList
  <1>2. \A c \in Address : SlotsOf(newAccessList, c) = {}
    BY SMTT(30) DEF SlotsOf, newAccessList, Missing
  <1>3. {p \in Address \X Slot : p[2] \in SlotsOf(newAccessList, p[1])} = {}
    BY <1>2
  <1> QED
    BY <1>1, <1>3 DEF WarmIn

\* AddAddressToAccessList, AddSlotToAccessList, PrepareAccessList, AddPreimage
\* and DisableLoadingRemoteAccounts.
LEMMA WarmUpMaps ==
    ASSUME IInv, IInv', \/ WarmUp
                        \/ \E h \in Preimage : Call("AddPreimage") /\ AddPreimage(h)
                        \/ Call("Disable") /\ DisableLoadingRemoteAccounts
    PROVE  Store!Next \/ UNCHANGED Store!vars
  <1>0. work.who \subseteq Address
    BY WorkloadAssumption DEF IInv, TypeOK
  <1>n. /\ Now \in Found /\ AccessListOK(accessList) /\ Now.accessList = accessList
        /\ Now.preimages = preimages /\ preimages \in SUBSET Preimage
    BY StateFacts
  <1>f. \A al : /\ Warmed(Now, al).accounts = Now.accounts
                /\ Warmed(Now, al).accessList = al
                /\ Warmed(Now, al).preimages = preimages
    BY <1>n DEF Warmed, Found
  <1>g. \A S : /\ Recorded(Now, S).accounts = Now.accounts
               /\ Recorded(Now, S).accessList = accessList
               /\ Recorded(Now, S).preimages = S
    BY <1>n DEF Recorded, Found
  <1>1. ASSUME NEW a \in work.who, Call("AddAddress"), AddAddressToAccessList(a)
        PROVE  Store!Next
    <2>1. /\ OtherFrame
          /\ IF ContainsAddress(accessList, a) THEN Turns(Now)
             ELSE Turns(Warmed(Now, addAddress(accessList, a)))
      BY <1>0, <1>1, AddAddressStep
    <2>2. PICK n : /\ Turns(n) /\ n.accounts = Now.accounts /\ n.preimages = preimages
                   /\ n.accessList = IF ContainsAddress(accessList, a) THEN accessList
                                     ELSE addAddress(accessList, a)
      BY <1>n, <1>f, <2>1
    <2>3. /\ Present.accounts' = Present.accounts
          /\ PresentWarm = WarmIn(accessList) /\ PresentWarm' = WarmIn(n.accessList)
          /\ Present.preimages = preimages /\ Present.preimages' = n.preimages
          /\ UNCHANGED <<PresentTouched, Sticky, stateObjectsPending, trie, Saved>>
      BY <1>1, <2>1, <2>2, TurnMaps
    <2>4. WarmIn(n.accessList) = [WarmIn(accessList) EXCEPT
                                     !.addresses = WarmIn(accessList).addresses \union {a}]
      <3>1. CASE ContainsAddress(accessList, a)
        BY <1>0, <1>n, <2>2, <3>1, AddressWarmed
      <3>2. CASE ~ContainsAddress(accessList, a)
        BY <1>0, <1>n, <2>2, <3>2, AddressWarmed
      <3> QED
        BY <3>1, <3>2
    <2>5. Store!WarmAddress(a)
      BY <2>2, <2>3, <2>4 DEF Store!WarmAddress
    <2> QED
      BY <1>0, <2>5 DEF Store!Next
  <1>2. ASSUME NEW a \in work.who, NEW k \in Slot, Call("AddSlot"), AddSlotToAccessList(a, k)
        PROVE  Store!Next
    <2>1. /\ OtherFrame
          /\ IF k \in SlotsOf(accessList, a) THEN Turns(Now)
             ELSE Turns(Warmed(Now, addSlot(accessList, a, k)))
      BY <1>0, <1>2, AddSlotStep
    <2>2. PICK n : /\ Turns(n) /\ n.accounts = Now.accounts /\ n.preimages = preimages
                   /\ n.accessList = IF k \in SlotsOf(accessList, a) THEN accessList
                                     ELSE addSlot(accessList, a, k)
      BY <1>n, <1>f, <2>1
    <2>3. /\ Present.accounts' = Present.accounts
          /\ PresentWarm = WarmIn(accessList) /\ PresentWarm' = WarmIn(n.accessList)
          /\ Present.preimages = preimages /\ Present.preimages' = n.preimages
          /\ UNCHANGED <<PresentTouched, Sticky, stateObjectsPending, trie, Saved>>
      BY <1>2, <2>1, <2>2, TurnMaps
    <2>4. WarmIn(n.accessList)
            = [addresses |-> WarmIn(accessList).addresses \union {a},
               slots |-> WarmIn(accessList).slots \union {<<a, k>>}]
      <3>1. CASE k \in SlotsOf(accessList, a)
        BY <1>0, <1>n, <2>2, <3>1, SlotWarmed
      <3>2. CASE k \notin SlotsOf(accessList, a)
        BY <1>0, <1>n, <2>2, <3>2, SlotWarmed
      <3> QED
        BY <3>1, <3>2
    <2>5. Store!WarmSlot(a, k)
      BY <2>2, <2>3, <2>4 DEF Store!WarmSlot
    <2> QED
      BY <1>0, <2>5 DEF Store!Next
  <1>3. ASSUME Call("Prepare"), Prepare PROVE Store!Next
    <2>1. /\ OtherFrame /\ journal' = journal /\ journal.entries = <<>> /\ validRevisions = <<>>
          /\ Now' = Warmed(Now, newAccessList)
      BY <1>3, PrepareStep
    <2>2. phase = "run" /\ phase' = "run" /\ validRevisions' = <<>>
      BY <1>3, <2>1, CallKeeps DEF OtherFrame
    <2>3. /\ Now'.accounts = Now.accounts /\ Now'.preimages = Now.preimages
          /\ Now'.accessList = newAccessList /\ accessList' = newAccessList
      BY <1>3, <1>f, <1>n, <2>1 DEF Prepare, Warm
    <2>4. /\ Present.accounts' = Present.accounts /\ Present.preimages' = Present.preimages
          /\ PresentWarm' = WarmIn(newAccessList) /\ PresentTouched' = PresentTouched
      BY <2>1, <2>2, <2>3, Between, BetweenNext
    <2>5. Saved = <<>> /\ Saved' = <<>>
      <3>1. Len(<<>>) = 0 /\ 1..0 = {}
        BY SMTT(30)
      <3>2. DOMAIN Saved = {} /\ DOMAIN Saved' = {}
        BY <2>1, <2>2, <3>1, Between, BetweenNext
      <3>3. Saved = [j \in {} |-> Saved[j]] /\ Saved' = [j \in {} |-> Saved'[j]]
        BY <2>1, <2>2, <3>1, Between, BetweenNext
      <3> QED
        BY <3>3, SMTT(30)
    <2>6. WarmIn(newAccessList) = [addresses |-> {}, slots |-> {}]
      BY NewWarm
    <2>7. UNCHANGED <<Sticky, stateObjectsPending, trie>>
      BY <2>1 DEF OtherFrame, Sticky
    <2>8. Store!Cool
      BY <2>4, <2>5, <2>6, <2>7 DEF Store!Cool
    <2> QED
      BY <2>8 DEF Store!Next
  <1>4. ASSUME NEW h \in Preimage, Call("AddPreimage"), AddPreimage(h) PROVE Store!Next
    <2>1. /\ OtherFrame
          /\ IF h \in preimages THEN Turns(Now) ELSE Turns(Recorded(Now, preimages \union {h}))
      BY <1>4, AddPreimageStep
    <2>2. PICK n : /\ Turns(n) /\ n.accounts = Now.accounts /\ n.accessList = accessList
                   /\ n.preimages = preimages \union {h}
      <3>1. CASE h \in preimages
        BY <1>n, <2>1, <3>1
      <3>2. CASE h \notin preimages
        BY <1>g, <2>1, <3>2
      <3> QED
        BY <3>1, <3>2
    <2>3. /\ Present.accounts' = Present.accounts
          /\ PresentWarm = WarmIn(accessList) /\ PresentWarm' = WarmIn(n.accessList)
          /\ Present.preimages = preimages /\ Present.preimages' = n.preimages
          /\ UNCHANGED <<PresentTouched, Sticky, stateObjectsPending, trie, Saved>>
      BY <1>4, <2>1, <2>2, TurnMaps
    <2>4. Store!AddPreimage(h)
      BY <2>2, <2>3 DEF Store!AddPreimage
    <2> QED
      BY <2>4 DEF Store!Next
  <1>5. ASSUME Call("Disable"), DisableLoadingRemoteAccounts PROVE UNCHANGED Store!vars
    <2>1. OtherFrame /\ Turns(Now)
      BY <1>5, SameTurn DEF DisableLoadingRemoteAccounts, OtherFrame
    <2>2. /\ Present.accounts' = Present.accounts
          /\ PresentWarm = WarmIn(accessList) /\ PresentWarm' = WarmIn(Now.accessList)
          /\ Present.preimages = preimages /\ Present.preimages' = Now.preimages
          /\ UNCHANGED <<PresentTouched, Sticky, stateObjectsPending, trie, Saved>>
      BY <1>5, <2>1, TurnMaps
    <2> QED
      BY <1>n, <2>2 DEF Store!vars
  <1> QED
    BY <1>1, <1>2, <1>3, <1>4, <1>5 DEF WarmUp

\* A function on 1..n is a sequence.
LEMMA SequenceOf ==
    ASSUME NEW S, NEW n \in Nat, NEW f \in [1..n -> S]
    PROVE  f \in Seq(S) /\ Len(f) = n
  BY SMTT(30)

\* Append as a function.
LEMMA AppendIs ==
    ASSUME NEW S, NEW s \in Seq(S), NEW e
    PROVE  Append(s, e) = [j \in 1..(Len(s) + 1) |-> IF j = Len(s) + 1 THEN e ELSE s[j]]
  <1> DEFINE T == S \union {e}
             f == Append(s, e)
             n == Len(s)
  <1>1. s \in Seq(T) /\ e \in T
    BY SMTT(30)
  <1> HIDE DEF T
  <1>2. /\ f \in Seq(T) /\ Len(f) = n + 1 /\ f[n + 1] = e /\ n \in Nat
        /\ \A j \in 1..n : f[j] = s[j]
    BY <1>1, SMTT(30)
  <1> HIDE DEF f, n
  <1>3. f = [j \in 1..(n + 1) |-> f[j]]
    BY <1>2, SMTT(30)
  <1>4. ASSUME NEW j \in 1..(n + 1) PROVE f[j] = IF j = n + 1 THEN e ELSE s[j]
    BY <1>2, SMTT(30)
  <1>5. [j \in 1..(n + 1) |-> f[j]] = [j \in 1..(n + 1) |-> IF j = n + 1 THEN e ELSE s[j]]
    BY <1>4
  <1> QED
    BY <1>3, <1>5 DEF f, n

\* What the snapshots hold.
LEMMA SavedType ==
    ASSUME IInv, phase = "run"
    PROVE  /\ Saved \in Seq(Snapshots) /\ Len(Saved) = Len(validRevisions)
           /\ \A j \in 1..Len(validRevisions) :
                 Saved[j] = Frozen(journal, Now, validRevisions[j].journalIndex)
  <1>1. Len(validRevisions) \in Nat /\ DOMAIN validRevisions = 1..Len(validRevisions)
    BY Revision
  <1>2. ASSUME NEW i PROVE Frozen(journal, Now, i) \in Snapshots \/ i \notin Nat
    <2>1. ASSUME i \in Nat PROVE FoundAt(journal, Now, i) \in Found
      <3>1. Chained(journal, Now)
        BY StateFacts DEF Sound
      <3>2. /\ journal.past \in Seq(Found) /\ Len(journal.past) = Len(journal.entries)
            /\ Now \in Found /\ Len(journal.entries) \in Nat
        BY <3>1, StateFacts DEF Chained
      <3>3. CASE i < Len(journal.entries)
        BY <2>1, <3>2, <3>3, SMTT(30) DEF FoundAt
      <3>4. CASE ~(i < Len(journal.entries))
        BY <3>2, <3>4 DEF FoundAt
      <3> QED
        BY <3>3, <3>4
    <2>2. \A al : WarmIn(al) \in [addresses : SUBSET Address, slots : SUBSET (Address \X Slot)]
      BY DEF WarmIn
    <2>3. TouchedIn(journal.entries, i) \in SUBSET Address
      BY DEF TouchedIn
    <2> QED
      BY <2>1, <2>2, <2>3 DEF Frozen, Snapshots, Found
  <1>3. Saved = [j \in 1..Len(validRevisions) |->
                    Frozen(journal, Now, validRevisions[j].journalIndex)]
    BY Between
  <1>4. ASSUME NEW j \in 1..Len(validRevisions)
        PROVE  Frozen(journal, Now, validRevisions[j].journalIndex) \in Snapshots
    BY <1>1, <1>2, Revision
  <1>5. Saved \in [1..Len(validRevisions) -> Snapshots]
    BY <1>3, <1>4
  <1>6. Saved \in Seq(Snapshots) /\ Len(Saved) = Len(validRevisions)
    BY <1>1, <1>5, SequenceOf
  <1> QED
    BY <1>3, <1>6

\* What the store holds, in either phase.
LEMMA Seen ==
    /\ Present = FoundAt(journal, Now, Reached)
    /\ PresentWarm = WarmIn(FoundAt(journal, Now, Reached).accessList)
    /\ PresentTouched = TouchedIn(journal.entries, Reached)
    /\ Saved = [j \in 1..Revisions |-> Frozen(journal, Now, validRevisions[j].journalIndex)]
  <1>1. Present = FoundAt(journal, Now, Reached)
    BY DEF Present, At, FoundAt
  <1>2. PresentTouched = TouchedIn(journal.entries, Reached)
    BY DEF PresentTouched, TouchedAt, TouchedIn
  <1>3. Saved = [j \in 1..Revisions |-> Frozen(journal, Now, validRevisions[j].journalIndex)]
    BY SnapshotIs DEF Saved
  <1> QED
    BY <1>1, <1>2, <1>3 DEF PresentWarm

\* The same after a step.
LEMMA SeenNext ==
    /\ Present' = FoundAt(journal', Now', Reached')
    /\ PresentWarm' = WarmIn(FoundAt(journal', Now', Reached').accessList)
    /\ PresentTouched' = TouchedIn(journal'.entries, Reached')
    /\ Saved' = [j \in 1..Revisions' |->
                    Frozen(journal', Now', validRevisions'[j].journalIndex)]
  <1>1. Present' = FoundAt(journal', Now', Reached')
    BY DEF Present, At, FoundAt
  <1>2. PresentTouched' = TouchedIn(journal'.entries, Reached')
    BY DEF PresentTouched, TouchedAt, TouchedIn
  <1>3. \A i : StoreSnapshot(i)' = Frozen(journal', Now', i)
    BY DEF StoreSnapshot, Frozen, At, TouchedAt, FoundAt, TouchedIn
  <1>4. Saved' = [j \in 1..Revisions' |->
                     Frozen(journal', Now', validRevisions'[j].journalIndex)]
    BY <1>3 DEF Saved
  <1> QED
    BY <1>1, <1>2, <1>4 DEF PresentWarm

\* Snapshot.
LEMMA SnapshotMaps ==
    ASSUME IInv, IInv', NEW op, Call(op), Snapshot
    PROVE  Store!Snapshot
  <1> DEFINE n == Len(validRevisions)
             now == Frozen(journal, Now, Len(journal.entries))
  <1>0. phase = "run" /\ phase' = "run"
    BY CallKeeps
  <1>1. /\ UNCHANGED <<stateObjects, stateObjectsPending, trie, journal, accessList,
                       preimages, ripemdDirty>>
        /\ validRevisions' = Append(validRevisions,
              [id |-> nextRevisionId, journalIndex |-> Len(journal.entries)])
    BY DEF Snapshot
  <1>2. Now' = Now
    BY <1>1, NowFields
  <1>3. /\ Present = Now /\ Present' = Now /\ PresentWarm = WarmIn(accessList)
        /\ UNCHANGED <<PresentWarm, PresentTouched, Sticky>>
        /\ PresentTouched = Touched(journal)
    BY <1>0, <1>1, <1>2, Between, BetweenNext DEF Sticky
  <1>4. now = [store |-> Present.accounts, warm |-> PresentWarm,
               preimages |-> Present.preimages, touched |-> PresentTouched]
    <2>1. FoundAt(journal, Now, Len(journal.entries)) = Now /\ Now.accessList = accessList
      BY StateFacts, SMTT(30) DEF FoundAt
    <2> QED
      BY <1>3, <2>1 DEF Frozen, Touched
  <1>5. /\ Len(validRevisions') = n + 1 /\ n \in Nat
        /\ \A j \in 1..n : validRevisions'[j] = validRevisions[j]
        /\ validRevisions'[n + 1].journalIndex = Len(journal.entries)
    <2> DEFINE R == [id : Nat, journalIndex : Nat]
               e == [id |-> nextRevisionId, journalIndex |-> Len(journal.entries)]
    <2>1. validRevisions \in Seq(R) /\ e.journalIndex = Len(journal.entries)
      BY Revision
    <2> HIDE DEF R, e
    <2>2. validRevisions' = Append(validRevisions, e)
      BY <1>1 DEF e
    <2> QED
      BY <2>1, <2>2, SMTT(30)
  <1>6. /\ Saved \in Seq(Snapshots) /\ Len(Saved) = n
        /\ \A j \in 1..n : Saved[j] = Frozen(journal, Now, validRevisions[j].journalIndex)
    BY <1>0, SavedType
  <1>7. Saved' = [j \in 1..(n + 1) |->
                     Frozen(journal, Now, validRevisions'[j].journalIndex)]
    BY <1>0, <1>1, <1>2, <1>5, BetweenNext
  <1>8. Saved' = Append(Saved, now)
    <2> HIDE DEF n, now
    <2>1. Append(Saved, now) = [j \in 1..(n + 1) |-> IF j = n + 1 THEN now ELSE Saved[j]]
      BY <1>6, AppendIs, SMTT(30)
    <2>2. ASSUME NEW j \in 1..(n + 1)
          PROVE  Frozen(journal, Now, validRevisions'[j].journalIndex)
                   = IF j = n + 1 THEN now ELSE Saved[j]
      <3>1. CASE j = n + 1
        BY <1>5, <3>1 DEF now
      <3>2. CASE j # n + 1
        <4>1. j \in 1..n
          BY <1>5, <3>2, SMTT(30)
        <4> QED
          BY <1>5, <1>6, <3>2, <4>1
      <3> QED
        BY <3>1, <3>2
    <2> QED
      BY <1>7, <2>1, <2>2
  <1>9. Saved' = Append(Saved, [store |-> Present.accounts, warm |-> PresentWarm,
                                preimages |-> Present.preimages, touched |-> PresentTouched])
    BY <1>4, <1>8
  <1>10. UNCHANGED <<Present.accounts, Present.preimages, stateObjectsPending, trie>>
    BY <1>1, <1>3
  <1> QED
    BY <1>3, <1>9, <1>10 DEF Store!Snapshot

\* RevertToSnapshot, from the moment it is called.
LEMMA RevertMaps ==
    ASSUME IInv, IInv', NEW j \in DOMAIN validRevisions,
           RevertToSnapshot(validRevisions[j].id)
    PROVE  j \in DOMAIN Saved /\ Store!Revert(j)
  <1> DEFINE i == validRevisions[j].journalIndex
  <1>1. /\ phase = "run" /\ phase' = "revert" /\ target' = j
        /\ UNCHANGED <<stateObjects, stateObjectsPending, trie, journal, validRevisions,
                       accessList, preimages, ripemdDirty>>
    BY RevertToSnapshotStep
  <1>2. Now' = Now
    BY <1>1, NowFields
  <1>3. /\ Saved \in Seq(Snapshots) /\ Len(Saved) = Len(validRevisions)
        /\ \A m \in 1..Len(validRevisions) :
              Saved[m] = Frozen(journal, Now, validRevisions[m].journalIndex)
        /\ j \in 1..Len(validRevisions) /\ Len(validRevisions) \in Nat
    BY <1>1, SavedType, Revision
  <1>4. j \in DOMAIN Saved /\ Saved[j] = Frozen(journal, Now, i)
    BY <1>3, SMTT(30)
  <1>5. Reached' = i /\ Revisions' = j - 1
    BY <1>1 DEF Reached, Revisions
  <1> HIDE DEF i
  <1>6. /\ Present' = FoundAt(journal, Now, i)
        /\ PresentWarm' = WarmIn(FoundAt(journal, Now, i).accessList)
        /\ PresentTouched' = TouchedIn(journal.entries, i)
        /\ Saved' = [m \in 1..(j - 1) |-> Frozen(journal, Now, validRevisions[m].journalIndex)]
    BY <1>1, <1>2, <1>5, SeenNext
  <1>7. /\ Present.accounts' = Saved[j].store /\ PresentWarm' = Saved[j].warm
        /\ Present.preimages' = Saved[j].preimages /\ PresentTouched' = Saved[j].touched
    BY <1>4, <1>6, SMTT(30) DEF Frozen
  <1>8. Saved' = SubSeq(Saved, 1, j - 1)
    <2>1. j \in Nat \ {0} /\ j - 1 \in Nat /\ \A m \in 1..(j - 1) : m \in 1..Len(validRevisions)
      BY <1>3, SMTT(30)
    <2>2. SubSeq(Saved, 1, j - 1) = [m \in 1..(j - 1) |-> Saved[m]]
      BY <1>3, <2>1, SMTT(30)
    <2> QED
      BY <1>3, <1>6, <2>1, <2>2
  <1>9. UNCHANGED <<Sticky, stateObjectsPending, trie>>
    BY <1>1 DEF Sticky
  <1> QED
    BY <1>4, <1>7, <1>8, <1>9 DEF Store!Revert

\* The undoing of an entry is not seen: the revert took effect when it was
\* called.
LEMMA UndoMaps ==
    ASSUME IInv, IInv', RevertEntry
    PROVE  UNCHANGED Store!vars
  <1> DEFINE n == Len(journal.entries)
             index == validRevisions[target].journalIndex
  <1>1. /\ phase = "revert" /\ phase' = phase /\ n \in Nat \ {0} /\ n > index
        /\ UNCHANGED <<stateObjectsPending, trie, validRevisions, target, ripemdDirty>>
    BY UndoStep DEF RevertEntry
  <1>2. /\ \A i \in 1..(n - 1) : journal'.entries[i] = journal.entries[i]
        /\ \A i \in 0..(n - 1) : FoundAt(journal', Now', i) = FoundAt(journal, Now, i)
    BY UndoStep
  <1>3. /\ target \in DOMAIN validRevisions /\ index \in Nat /\ target \in Nat
        /\ DOMAIN validRevisions = 1..Len(validRevisions) /\ Len(validRevisions) \in Nat
        /\ \A i, j \in DOMAIN validRevisions :
              i < j => validRevisions[i].journalIndex <= validRevisions[j].journalIndex
    <2>1. RevisionsOK
      BY DEF IInv
    <2>2. target \in DOMAIN validRevisions
      BY <1>1, <2>1 DEF RevisionsOK
    <2>3. \A i, j \in DOMAIN validRevisions :
              i < j => validRevisions[i].journalIndex <= validRevisions[j].journalIndex
      BY <2>1 DEF RevisionsOK
    <2> QED
      BY <2>2, <2>3, Revision, SMTT(30)
  <1>4. Reached = index /\ Reached' = index /\ Revisions = target - 1 /\ Revisions' = target - 1
    BY <1>1 DEF Reached, Revisions
  <1>5. ASSUME NEW i \in 0..(n - 1)
        PROVE  TouchedIn(journal'.entries, i) = TouchedIn(journal.entries, i)
    <2>1. \A m \in 1..i : journal'.entries[m] = journal.entries[m]
      BY <1>1, <1>2, SMTT(30)
    <2> QED
      BY <2>1 DEF TouchedIn
  <1>6. ASSUME NEW i \in 0..(n - 1) PROVE Frozen(journal', Now', i) = Frozen(journal, Now, i)
    BY <1>2, <1>5 DEF Frozen
  <1>7. index \in 0..(n - 1)
    BY <1>1, <1>3, SMTT(30)
  <1>8. ASSUME NEW j \in 1..(target - 1)
        PROVE  validRevisions[j].journalIndex \in 0..(n - 1)
    <2>1. j \in DOMAIN validRevisions /\ j < target
      BY <1>3, SMTT(30)
    <2>2. validRevisions[j].journalIndex \in Nat /\ validRevisions[j].journalIndex <= index
      BY <1>3, <2>1, Revision
    <2> QED
      BY <1>7, <2>2, SMTT(30)
  <1> HIDE DEF n, index
  <1>9. Present' = Present /\ PresentWarm' = PresentWarm
    BY <1>2, <1>4, <1>7, Seen, SeenNext
  <1>10. PresentTouched' = PresentTouched
    BY <1>4, <1>5, <1>7, Seen, SeenNext
  <1>11. Saved' = Saved
    <2>1. \A j \in 1..(target - 1) :
             Frozen(journal', Now', validRevisions[j].journalIndex)
               = Frozen(journal, Now, validRevisions[j].journalIndex)
      BY <1>6, <1>8
    <2>2. /\ Saved = [j \in 1..(target - 1) |->
                         Frozen(journal, Now, validRevisions[j].journalIndex)]
          /\ Saved' = [j \in 1..(target - 1) |->
                         Frozen(journal', Now', validRevisions[j].journalIndex)]
      BY <1>1, <1>4, Seen, SeenNext
    <2> QED
      BY <2>1, <2>2
  <1>12. UNCHANGED <<Sticky, stateObjectsPending, trie>>
    BY <1>1 DEF Sticky
  <1> QED
    BY <1>9, <1>10, <1>11, <1>12 DEF Store!vars

\* Nor is the end of the revert.
LEMMA EndRevertMaps ==
    ASSUME IInv, IInv', EndRevert
    PROVE  UNCHANGED Store!vars
  <1>1. /\ phase = "revert" /\ phase' = "run"
        /\ Len(journal.entries) = validRevisions[target].journalIndex
        /\ UNCHANGED <<stateObjects, stateObjectsPending, trie, journal, accessList,
                       preimages, ripemdDirty>>
    BY DEF EndRevert
  <1>2. Now' = Now
    BY <1>1, NowFields
  <1>3. /\ target \in Nat /\ Len(validRevisions') = target - 1
        /\ \A j \in 1..(target - 1) : validRevisions'[j] = validRevisions[j]
    BY EndRevertFrame
  <1>4. Reached' = Reached /\ Revisions' = target - 1 /\ Revisions = target - 1
    BY <1>1, <1>3 DEF Reached, Revisions
  <1>5. Present' = Present /\ PresentWarm' = PresentWarm /\ PresentTouched' = PresentTouched
    BY <1>1, <1>2, <1>4, Seen, SeenNext
  <1>6. Saved' = Saved
    <2>1. /\ Saved = [j \in 1..(target - 1) |->
                         Frozen(journal, Now, validRevisions[j].journalIndex)]
          /\ Saved' = [j \in 1..(target - 1) |->
                         Frozen(journal, Now, validRevisions'[j].journalIndex)]
      BY <1>1, <1>2, <1>4, Seen, SeenNext
    <2> QED
      BY <1>3, <2>1
  <1>7. UNCHANGED <<Sticky, stateObjectsPending, trie>>
    BY <1>1 DEF Sticky
  <1> QED
    BY <1>5, <1>6, <1>7 DEF Store!vars

\* Finalise, IntermediateRoot and Commit.
LEMMA EndMaps ==
    ASSUME IInv, IInv', NEW d \in BOOLEAN, EndTransaction(d)
    PROVE  Store!Finalise(d) \/ Store!Root(d)
  <1> DEFINE due == stateObjectsPending \union Due
  <1>0. Closes(d) /\ phase = "run" /\ phase' = "run"
    <2>1. Closes(d)
      BY FinaliseCloses, RootCloses DEF EndTransaction
    <2> QED
      BY <2>1 DEF EndTransaction, Closes
  <1>1. /\ Present = Now /\ PresentTouched = Touched(journal)
        /\ Present' = Now' /\ PresentWarm = WarmIn(accessList)
        /\ PresentWarm' = WarmIn(accessList') /\ PresentTouched' = Touched(journal')
        /\ Saved' = [j \in 1..Len(validRevisions') |->
                       Frozen(journal', Now', validRevisions'[j].journalIndex)]
    BY <1>0, Between, BetweenNext
  <1>2. /\ \A a \in Address : Now'.accounts[a] = Ended(a, d)
        /\ Now'.preimages = Now.preimages
        /\ Sound(journal', stateObjects', Now', trie', Waiting', ripemdDirty')
    BY <1>0, CloseStep
  <1>3. Now' \in Found /\ Now \in Found
    BY <1>2, StateFacts DEF Sound, Chained
  <1>4. Store!Swept(d) = [a \in Address |-> Ended(a, d)]
    <2>1. Store!Nobody = NoAccount
      BY DEF Store!Nobody, NoAccount, Store!Zeros, Zeros
    <2>2. ASSUME NEW a \in Address
          PROVE  Ended(a, d) = IF /\ a \in PresentTouched \union Sticky
                                  /\ \/ Present.accounts[a].suicided
                                     \/ d /\ Store!Empty(Present.accounts[a])
                               THEN Store!Nobody ELSE Present.accounts[a]
      <3>1. a \in PresentTouched \union Sticky <=> a \in Dirty
        BY <1>1, DirtyIs
      <3>2. Store!Empty(Now.accounts[a]) <=> Blank(Now.accounts[a])
        BY DEF Store!Empty, Blank
      <3> QED
        BY <1>1, <2>1, <3>1, <3>2 DEF Ended
    <2> QED
      BY <2>2 DEF Store!Swept
  <1>5. Present.accounts' = Store!Swept(d)
    <2>1. Now'.accounts \in [Address -> ReadAccount]
      BY <1>3 DEF Found
    <2> QED
      BY <1>1, <1>2, <1>4, <2>1
  <1>6. Sticky' \in {Sticky, {}} /\ PresentTouched' = {} /\ Saved' = <<>>
    <2>1. /\ journal'.entries = <<>> /\ Len(journal'.entries) = 0 /\ validRevisions' = <<>>
          /\ ripemdDirty' \in {0, ripemdDirty}
      BY <1>0, ClearStep DEF Closes
    <2>2. PresentTouched' = {}
      BY <1>1, <2>1, SMTT(30) DEF Touched, TouchedIn
    <2>3. Saved' = <<>>
      <3>1. Len(<<>>) = 0 /\ 1..0 = {}
        BY SMTT(30)
      <3>2. Saved' = [j \in {} |-> Saved'[j]]
        BY <1>1, <2>1, <3>1
      <3> QED
        BY <3>2, SMTT(30)
    <2>4. Sticky' \in {Sticky, {}}
      BY <2>1, SMTT(30) DEF Sticky
    <2> QED
      BY <2>2, <2>3, <2>4
  <1>7. due \in {stateObjectsPending \union PresentTouched,
                 stateObjectsPending \union PresentTouched \union Sticky}
    <2>2. PresentTouched \subseteq Due
      BY <1>1, DirtyObjects
    <2>3. Due \subseteq PresentTouched \union Sticky
      BY <1>1, DirtyObjects
    <2>4. CASE Sticky \subseteq Due
      BY <2>2, <2>3, <2>4
    <2>5. CASE ~(Sticky \subseteq Due)
      <3>1. Sticky = {Ripemd} /\ Ripemd \notin Due
        BY <2>5 DEF Sticky
      <3> QED
        BY <2>2, <2>3, <3>1
    <2> QED
      BY <2>4, <2>5
  <1>8. UNCHANGED <<PresentWarm, Present.preimages>>
    BY <1>0, <1>1, <1>2 DEF Closes
  <1>9. CASE trie' = trie /\ stateObjectsPending' = due
    BY <1>5, <1>6, <1>7, <1>8, <1>9 DEF Store!Finalise
  <1>10. CASE /\ \A a \in Address : trie'[a] = IF a \in due THEN Kept(Ended(a, d)) ELSE trie[a]
              /\ stateObjectsPending' = {}
    <2>1. trie' \in [Address -> ChainAccount]
      BY <1>0 DEF Closes
    <2>2. \A a \in Address : Store!Kept(Store!Swept(d)[a]) = Kept(Ended(a, d))
      BY <1>4 DEF Store!Kept, Kept
    <2>3. trie' = [a \in Address |-> IF a \in due THEN Store!Kept(Store!Swept(d)[a]) ELSE trie[a]]
      BY <1>10, <2>1, <2>2
    <2> HIDE DEF due
    <2> QED
      BY <1>5, <1>6, <1>7, <1>8, <1>10, <2>3 DEF Store!Root
  <1> QED
    BY <1>0, <1>9, <1>10 DEF Closes

\* A new database over the trie of the chain.
LEMMA InitMaps == ASSUME Init PROVE Store!Init
  <1>1. IInv /\ phase = "run"
    BY InitInv DEF Init
  <1>2. /\ Present = Now /\ PresentWarm = WarmIn(accessList) /\ PresentTouched = Touched(journal)
        /\ Saved = [j \in 1..Len(validRevisions) |->
                       Frozen(journal, Now, validRevisions[j].journalIndex)]
    BY <1>1, Between
  <1>3. /\ journal.entries = <<>> /\ validRevisions = <<>> /\ stateObjectsPending = {}
        /\ ripemdDirty = 0 /\ accessList = newAccessList /\ preimages = {}
        /\ \A a \in Address : stateObjects[a] = NoObject
        /\ trie \in [Address -> ChainAccount]
    BY WorkloadAssumption DEF Init, newJournal
  <1>4. Now.accounts = trie
    <2>1. Now.accounts \in [Address -> ReadAccount] /\ Now.accounts = Says(stateObjects, trie)
      BY <1>1, StateFacts, NowFields DEF Found
    <2>2. ASSUME NEW a \in Address PROVE Now.accounts[a] = trie[a]
      BY <1>3, <2>1, NewObject, NoObjectOK DEF Says, Stored
    <2> QED
      BY <1>3, <2>1, <2>2, SMTT(30)
  <1>5. Now.preimages = {} /\ PresentTouched = {} /\ Sticky = {}
    <2>1. PresentTouched = {}
      BY <1>2, <1>3, SMTT(30) DEF Touched, TouchedIn
    <2>2. Now.preimages = {}
      BY <1>1, <1>3, StateFacts
    <2> QED
      BY <1>3, <2>1, <2>2, SMTT(30) DEF Sticky
  <1>6. PresentWarm = [addresses |-> {}, slots |-> {}]
    BY <1>2, <1>3, NewWarm
  <1>7. Saved = <<>>
    <2>1. Len(<<>>) = 0 /\ 1..0 = {}
      BY SMTT(30)
    <2>2. Saved = [j \in {} |-> Saved[j]]
      BY <1>2, <1>3, <2>1
    <2> QED
      BY <2>2, SMTT(30)
  <1>8. trie \in [Address -> {Store!Nobody} \union
                    [exists : {TRUE}, nonce : Value, balance : Value,
                     code : Value, storage : [Slot -> Value], suicided : {FALSE}]]
    <2>1. Store!Nobody = NoAccount
      BY DEF Store!Nobody, NoAccount, Store!Zeros, Zeros
    <2> QED
      BY <1>3, <2>1 DEF ChainAccount
  <1> QED
    BY <1>2, <1>3, <1>4, <1>5, <1>6, <1>7, <1>8 DEF Store!Init

\* Every step of the database is a step of the store or is not seen by it.
LEMMA NextMaps == IInv /\ IInv' /\ [Next]_vars => [Store!Next]_(Store!vars)
  <1> SUFFICES ASSUME IInv, IInv', [Next]_vars PROVE Store!Next \/ UNCHANGED Store!vars
    OBVIOUS
  <1>1. work.who \subseteq Address
    BY WorkloadAssumption DEF IInv, TypeOK
  <1>2. CASE UNCHANGED vars
    <2>1. /\ UNCHANGED <<stateObjects, stateObjectsPending, trie, journal, validRevisions,
                         accessList, preimages, ripemdDirty, phase, target>>
      BY <1>2 DEF vars
    <2>2. Now' = Now /\ Reached' = Reached /\ Revisions' = Revisions /\ Sticky' = Sticky
      BY <2>1, NowFields DEF Reached, Revisions, Sticky
    <2>3. UNCHANGED <<Present, PresentWarm, PresentTouched, Saved>>
      BY <2>1, <2>2, Seen, SeenNext
    <2> QED
      BY <2>1, <2>2, <2>3 DEF Store!vars
  <1>3. ASSUME NEW a \in work.who, SetAccount(a)
        PROVE  Store!Next \/ UNCHANGED Store!vars
    BY <1>1, <1>3, SetAccountMaps
  <1>4. ASSUME NEW a \in work.who, UseAccount(a)
        PROVE  Store!Next \/ UNCHANGED Store!vars
    BY <1>1, <1>4, UseAccountMaps
  <1>5. CASE \/ WarmUp
             \/ \E h \in Preimage : Call("AddPreimage") /\ AddPreimage(h)
             \/ Call("Disable") /\ DisableLoadingRemoteAccounts
    BY <1>5, WarmUpMaps
  <1>6. CASE Call("Snapshot") /\ Snapshot
    BY <1>6, SnapshotMaps DEF Store!Next
  <1>7. ASSUME NEW j \in DOMAIN validRevisions, RevertToSnapshot(validRevisions[j].id)
        PROVE  Store!Next
    BY <1>7, RevertMaps DEF Store!Next
  <1>8. CASE RevertEntry
    BY <1>8, UndoMaps
  <1>9. CASE EndRevert
    BY <1>9, EndRevertMaps
  <1>10. ASSUME NEW d \in BOOLEAN, EndTransaction(d) PROVE Store!Next
    BY <1>10, EndMaps DEF Store!Next
  <1> QED
    BY <1>2, <1>3, <1>4, <1>5, <1>6, <1>7, <1>8, <1>9, <1>10 DEF Next

\* The state database implements the account store: a setter changes the one
\* account it names, a read changes nothing, a revert puts back what its
\* snapshot saw, whatever was created, replaced, destructed or warmed in
\* between, and the end of a transaction sweeps and schedules exactly the
\* accounts that were touched and not reverted.
THEOREM StoreRefinement == Spec => StoreSpec
  <1> QED
    BY InitMaps, NextMaps, Invariance, PTL DEF Spec, StoreSpec, Store!Spec

=============================================================================
