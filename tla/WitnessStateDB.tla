--------------------------- MODULE WitnessStateDB ---------------------------
(***************************************************************************)
(* The state database of the MPT witness generator                         *)
(* (mpt-witness-generator/state): state objects over the account trie, the *)
(* storage caches of an object (dirty over pending over origin over the    *)
(* storage trie), the undo journal with its dirty counts, revisions, the   *)
(* access list with its indexed slot sets, and the loading of accounts     *)
(* from the chain.  A trie is the map it holds.  A missing object, account *)
(* or cached value is a member of its set with a mark (live, exists,       *)
(* Absent); code is its hash, 0 the hash of no code.                       *)
(***************************************************************************)
EXTENDS Integers, Sequences, FiniteSets

CONSTANTS
    Address,    \* account addresses
    Slot,       \* storage keys
    Preimage,   \* hashes whose preimage is recorded
    Ripemd,     \* the precompile with the consensus exception of touch
    MaxValue,   \* bound of nonces, balances, code hashes and storage values
    Workloads   \* which calls (ops) on which accounts (who), how many at most
                \* (budget), what is on the chain, and which proofs are cached

VARIABLES
    stateObjects, stateObjectsPending, stateObjectsDirty, trie,
    journal,         \* entries and dirties, and past: what each entry found
    validRevisions, nextRevisionId, accessList, preimages,
    loadRemote,      \* loadRemoteAccountsIntoStateObjects
    cached,          \* the accounts whose proof was fetched already
    phase,           \* "run", "revert" (in the loop of journal.revert), "panic"
    target,          \* the revision that is being reverted to
    replaced,        \* (history) in no schedule: replaced, or deleted at once
    ripemdDirty,     \* (history) calls of journal.dirty in this journal
    work, budget

vars == <<stateObjects, stateObjectsPending, stateObjectsDirty, trie, journal,
          validRevisions, nextRevisionId, accessList, preimages, loadRemote,
          cached, phase, target, replaced, ripemdDirty, work, budget>>

Value == 0..MaxValue
Absent == -1
Zeros == [k \in Slot |-> 0]
NoCache == [k \in Slot |-> Absent]

NoAccount == [exists |-> FALSE, nonce |-> 0, balance |-> 0, code |-> 0,
              storage |-> Zeros, suicided |-> FALSE]

ChainAccount ==
    {NoAccount} \union
    [exists : {TRUE}, nonce : Value, balance : Value, code : Value,
     storage : [Slot -> Value], suicided : {FALSE}]

ASSUME WorkloadAssumption ==
    /\ MaxValue \in Nat
    /\ \A w \in Workloads :
          /\ w.who \subseteq Address /\ w.cached \subseteq Address
          /\ w.chain \in [Address -> ChainAccount]
          /\ w.budget \in Nat

(***************************************************************************)
(* State objects                                                           *)
(***************************************************************************)

newObject(data) ==
    [live |-> TRUE, nonce |-> data.nonce, balance |-> data.balance,
     code |-> data.code, root |-> data.storage, originStorage |-> NoCache,
     pendingStorage |-> NoCache, dirtyStorage |-> NoCache,
     suicided |-> FALSE, deleted |-> FALSE]

NoObject == [newObject(NoAccount) EXCEPT !.live = FALSE]

\* getStateObject hides an object that is marked deleted.
Usable(o) == o.live /\ ~o.deleted

empty(o) == o.nonce = 0 /\ o.balance = 0 /\ o.code = 0

GetCommittedState(o, k) ==
    IF o.pendingStorage[k] # Absent THEN o.pendingStorage[k]
    ELSE IF o.originStorage[k] # Absent THEN o.originStorage[k]
    ELSE o.root[k]

GetState(o, k) ==
    IF o.dirtyStorage[k] # Absent THEN o.dirtyStorage[k]
    ELSE GetCommittedState(o, k)

\* (mutant) The value read is not kept, so originStorage lacks it.
CommittedRead_NotKept(o, k) == o

\* A read that reaches the storage trie leaves the value in originStorage.
CommittedRead(o, k) ==
    IF o.pendingStorage[k] # Absent \/ o.originStorage[k] # Absent THEN o
    ELSE [o EXCEPT !.originStorage[k] = o.root[k]]

StateRead(o, k) ==
    IF o.dirtyStorage[k] # Absent THEN o ELSE CommittedRead(o, k)

finalise(o) ==
    [o EXCEPT !.pendingStorage =
                  [k \in Slot |-> IF o.dirtyStorage[k] # Absent
                                  THEN o.dirtyStorage[k]
                                  ELSE o.pendingStorage[k]],
              !.dirtyStorage = NoCache]

\* A missing key of originStorage reads as zero.
OriginOf(o, k) == IF o.originStorage[k] = Absent THEN 0 ELSE o.originStorage[k]

\* The pending values that are not the original ones go to the storage trie.
updateTrie(o) ==
    LET f == finalise(o)
        changed == {k \in Slot : /\ f.pendingStorage[k] # Absent
                                 /\ f.pendingStorage[k] # OriginOf(f, k)}
        written(old) == [k \in Slot |-> IF k \in changed THEN f.pendingStorage[k]
                                        ELSE old[k]]
    IN  [f EXCEPT !.originStorage = written(f.originStorage),
                  !.root = written(f.root),
                  !.pendingStorage = NoCache]

\* What the getters return for an account: nothing unless it is usable.
Account(o) ==
    IF Usable(o)
    THEN [exists |-> TRUE, nonce |-> o.nonce, balance |-> o.balance,
          code |-> o.code, storage |-> [k \in Slot |-> GetState(o, k)],
          suicided |-> o.suicided]
    ELSE NoAccount

(***************************************************************************)
(* Loading                                                                 *)
(***************************************************************************)

\* An account of the trie is not in stateObjects before it is asked for.
getDeletedStateObject(a) ==
    IF stateObjects[a].live THEN stateObjects[a]
    ELSE IF trie[a].exists THEN newObject(trie[a])
    ELSE NoObject

\* The setters first put the account of the chain in stateObjects, the first
\* time its proof is fetched and if the proof ends in the account.
SetStateObjectIfExists(a) ==
    IF loadRemote /\ a \notin cached /\ work.chain[a].exists
    THEN newObject(work.chain[a])
    ELSE getDeletedStateObject(a)

GetOrNewStateObject(a) ==
    IF Usable(SetStateObjectIfExists(a)) THEN SetStateObjectIfExists(a)
    ELSE newObject(NoAccount)

Accounts == [a \in Address |-> Account(getDeletedStateObject(a))]

Now == [accounts |-> Accounts, accessList |-> accessList,
        preimages |-> preimages]

(***************************************************************************)
(* The journal                                                             *)
(***************************************************************************)

\* (mutant) codeChange.dirtied returns nil.
DirtyingKinds_NoCode ==
    {"createObject", "suicide", "balance", "nonce", "storage", "touch"}

DirtyingKinds ==
    {"createObject", "suicide", "balance", "nonce", "code", "storage", "touch"}

dirtied(e, a) == e.kind \in DirtyingKinds /\ e.account = a

append(j, e, now) ==
    [entries |-> Append(j.entries, e),
     dirties |-> [a \in Address |->
                     IF dirtied(e, a) THEN j.dirties[a] + 1 ELSE j.dirties[a]],
     past |-> Append(j.past, now)]

newJournal == [entries |-> <<>>, dirties |-> [a \in Address |-> 0], past |-> <<>>]

Dirty == {a \in Address : journal.dirties[a] > 0}

\* createObject notes whether there was an object, deleted or not.
createObject(a, prev) ==
    append(journal,
           IF prev.live THEN [kind |-> "resetObject", account |-> a, prev |-> prev]
           ELSE [kind |-> "createObject", account |-> a],
           Now)

Acquired(a) ==
    IF Usable(SetStateObjectIfExists(a)) THEN journal
    ELSE createObject(a, SetStateObjectIfExists(a))

NowWith(a, o) == [Now EXCEPT !.accounts[a] = Account(o)]

(***************************************************************************)
(* Calls.  Every call is one action, except that the loop of a revert is   *)
(* one action per entry.                                                   *)
(***************************************************************************)

Call(op) ==
    /\ phase = "run"
    /\ op \in work.ops
    /\ budget > 0
    /\ budget' = budget - 1
    /\ UNCHANGED <<phase, target, work>>

UnchangedButJournal ==
    UNCHANGED <<stateObjectsPending, stateObjectsDirty, trie, validRevisions,
                nextRevisionId, accessList, preimages, loadRemote>>

\* The object of a setter, and what is journalled on the way to it.
Write(a, o, j) ==
    /\ stateObjects' = [stateObjects EXCEPT ![a] = o]
    /\ journal' = j
    /\ cached' = IF loadRemote \/ ~stateObjects[a].live
                 THEN cached \union {a} ELSE cached
    /\ UnchangedButJournal

\* A setter that finds nothing to change may still have made the object.
WriteNothing(a, o) ==
    /\ Write(a, o, Acquired(a))
    /\ replaced' = IF ~Usable(SetStateObjectIfExists(a))
                      /\ SetStateObjectIfExists(a).live
                   THEN replaced \union {a} ELSE replaced
    /\ UNCHANGED ripemdDirty

WriteField(a, kind, prev, o) ==
    /\ Write(a, o, append(Acquired(a),
                          [kind |-> kind, account |-> a, prev |-> prev],
                          NowWith(a, GetOrNewStateObject(a))))
    /\ UNCHANGED <<replaced, ripemdDirty>>

SetBalance(a, x) ==
    LET o == GetOrNewStateObject(a)
    IN  WriteField(a, "balance", o.balance, [o EXCEPT !.balance = x])

SetNonce(a, x) ==
    LET o == GetOrNewStateObject(a)
    IN  WriteField(a, "nonce", o.nonce, [o EXCEPT !.nonce = x])

SetCode(a, x) ==
    LET o == GetOrNewStateObject(a)
    IN  WriteField(a, "code", o.code, [o EXCEPT !.code = x])

\* touch of an empty account that receives nothing; RIPEMD-160 is made dirty
\* once more, outside the entries.
touch(a) ==
    LET j == append(Acquired(a), [kind |-> "touch", account |-> a],
                    NowWith(a, GetOrNewStateObject(a)))
        once == IF a = Ripemd THEN 1 ELSE 0
    IN  /\ Write(a, GetOrNewStateObject(a),
                 [j EXCEPT !.dirties[a] = @ + once])
        /\ ripemdDirty' = ripemdDirty + once
        /\ UNCHANGED replaced

AddBalance(a, amount) ==
    LET o == GetOrNewStateObject(a)
    IN  IF amount = 0
        THEN IF empty(o) THEN touch(a) ELSE WriteNothing(a, o)
        ELSE /\ o.balance + amount \in Value
             /\ SetBalance(a, o.balance + amount)

SubBalance(a, amount) ==
    LET o == GetOrNewStateObject(a)
    IN  IF amount = 0 THEN WriteNothing(a, o)
        ELSE /\ o.balance - amount \in Value
             /\ SetBalance(a, o.balance - amount)

SetState(a, k, x) ==
    LET o == GetOrNewStateObject(a)
        r == StateRead(o, k)
    IN  IF GetState(o, k) = x THEN WriteNothing(a, r)
        ELSE /\ Write(a, [r EXCEPT !.dirtyStorage[k] = x],
                      append(Acquired(a),
                             [kind |-> "storage", account |-> a, key |-> k,
                              prev |-> GetState(o, k)],
                             NowWith(a, o)))
             /\ UNCHANGED <<replaced, ripemdDirty>>

\* CreateAccount carries the balance over, outside the journal.
CreateAccount(a) ==
    LET prev == getDeletedStateObject(a)
    IN  /\ stateObjects' = [stateObjects EXCEPT
               ![a] = [newObject(NoAccount) EXCEPT
                          !.balance = IF Usable(prev) THEN prev.balance ELSE 0]]
        /\ journal' = createObject(a, prev)
        /\ cached' = IF stateObjects[a].live THEN cached ELSE cached \union {a}
        /\ replaced' = IF prev.live THEN replaced \union {a} ELSE replaced
        /\ UNCHANGED ripemdDirty
        /\ UnchangedButJournal

\* A call that reads an account and leaves o in stateObjects.
Read(a, o, j) ==
    /\ stateObjects' = [stateObjects EXCEPT ![a] = o]
    /\ journal' = j
    /\ cached' = IF stateObjects[a].live THEN cached ELSE cached \union {a}
    /\ UNCHANGED ripemdDirty
    /\ UNCHANGED <<stateObjectsPending, stateObjectsDirty, validRevisions,
                   nextRevisionId, accessList, preimages, loadRemote>>

Get(a) ==
    /\ Read(a, getDeletedStateObject(a), journal)
    /\ UNCHANGED <<trie, replaced>>

ReadState(a, k) ==
    LET o == getDeletedStateObject(a)
    IN  /\ Read(a, IF Usable(o) THEN StateRead(o, k) ELSE o, journal)
        /\ UNCHANGED <<trie, replaced>>

ReadCommitted(a, k) ==
    LET o == getDeletedStateObject(a)
    IN  /\ Read(a, IF Usable(o) THEN CommittedRead(o, k) ELSE o, journal)
        /\ UNCHANGED <<trie, replaced>>

Suicide(a) ==
    LET o == getDeletedStateObject(a)
    IN  /\ IF Usable(o)
           THEN Read(a, [o EXCEPT !.suicided = TRUE, !.balance = 0],
                     append(journal,
                            [kind |-> "suicide", account |-> a,
                             was |-> o.suicided, prev |-> o.balance],
                            Now))
           ELSE Read(a, o, journal)
        /\ UNCHANGED <<trie, replaced>>

\* The generator's own deletion: out of the trie at once, not out of
\* stateObjects.
DeleteAccount(a) ==
    LET o == getDeletedStateObject(a)
    IN  /\ Read(a, o, journal)
        /\ IF Usable(o)
           THEN /\ trie' = [trie EXCEPT ![a] = NoAccount]
                /\ replaced' = replaced \union {a}
           ELSE UNCHANGED <<trie, replaced>>

(***************************************************************************)
(* The access list: addresses with the index of their slot set             *)
(***************************************************************************)

Missing == -2
NoSlots == -1

newAccessList == [addresses |-> [a \in Address |-> Missing], slots |-> <<>>]

ContainsAddress(al, a) == al.addresses[a] # Missing

SlotsOf(al, a) == IF al.addresses[a] >= 0 THEN al.slots[al.addresses[a] + 1] ELSE {}

addAddress(al, a) == [al EXCEPT !.addresses[a] = NoSlots]

addSlot(al, a, k) ==
    IF al.addresses[a] < 0
    THEN [addresses |-> [al.addresses EXCEPT ![a] = Len(al.slots)],
          slots |-> Append(al.slots, {k})]
    ELSE [al EXCEPT !.slots[al.addresses[a] + 1] = @ \union {k}]

\* An emptied slot set takes every later one with it.
deleteSlot(al, a, k) ==
    LET i == al.addresses[a]
    IN  IF al.slots[i + 1] \ {k} # {}
        THEN [al EXCEPT !.slots[i + 1] = @ \ {k}]
        ELSE [addresses |-> [al.addresses EXCEPT ![a] = NoSlots],
              slots |-> SubSeq(al.slots, 1, i)]

Warm(al, j) ==
    /\ accessList' = al
    /\ journal' = j
    /\ UNCHANGED <<stateObjects, stateObjectsPending, stateObjectsDirty, trie,
                   validRevisions, nextRevisionId, preimages, loadRemote,
                   cached, replaced, ripemdDirty>>

WarmedAddress(a) ==
    IF ContainsAddress(accessList, a) THEN journal
    ELSE append(journal, [kind |-> "accessListAddAccount", account |-> a], Now)

AddAddressToAccessList(a) ==
    Warm(IF ContainsAddress(accessList, a) THEN accessList
         ELSE addAddress(accessList, a),
         WarmedAddress(a))

AddSlotToAccessList(a, k) ==
    LET known == IF ContainsAddress(accessList, a) THEN accessList
                 ELSE addAddress(accessList, a)
    IN  IF k \in SlotsOf(accessList, a) THEN Warm(accessList, journal)
        ELSE Warm(addSlot(accessList, a, k),
                  append(WarmedAddress(a),
                         [kind |-> "accessListAddSlot", account |-> a, key |-> k],
                         [Now EXCEPT !.accessList = known]))

\* A transaction starts with an empty access list and, after the Finalise of
\* the one before it, with an empty journal.
Prepare ==
    /\ journal.entries = <<>> /\ validRevisions = <<>>
    /\ Warm(newAccessList, journal)

AddPreimage(h) ==
    /\ IF h \in preimages THEN UNCHANGED <<preimages, journal>>
       ELSE /\ preimages' = preimages \union {h}
            /\ journal' = append(journal, [kind |-> "addPreimage", hash |-> h], Now)
    /\ UNCHANGED <<stateObjects, stateObjectsPending, stateObjectsDirty, trie,
                   validRevisions, nextRevisionId, accessList, loadRemote,
                   cached, replaced, ripemdDirty>>

(***************************************************************************)
(* Snapshots                                                               *)
(***************************************************************************)

Snapshot ==
    /\ validRevisions' = Append(validRevisions,
           [id |-> nextRevisionId, journalIndex |-> Len(journal.entries)])
    /\ nextRevisionId' = nextRevisionId + 1
    /\ UNCHANGED <<stateObjects, stateObjectsPending, stateObjectsDirty, trie,
                   journal, accessList, preimages, loadRemote, cached, replaced,
                   ripemdDirty>>

\* The first revision whose identifier is not below the one asked for must be
\* that revision.
RevertToSnapshot(revid) ==
    LET after == {j \in DOMAIN validRevisions : validRevisions[j].id >= revid}
        idx == CHOOSE j \in after : \A i \in after : j <= i
    IN  /\ phase = "run" /\ "RevertToSnapshot" \in work.ops /\ budget > 0
        /\ budget' = budget - 1
        /\ IF after = {} \/ validRevisions[idx].id # revid
           THEN phase' = "panic" /\ UNCHANGED target
           ELSE phase' = "revert" /\ target' = idx
        /\ UNCHANGED <<stateObjects, stateObjectsPending, stateObjectsDirty, trie,
                       journal, validRevisions, nextRevisionId, accessList,
                       preimages, loadRemote, cached, replaced, ripemdDirty, work>>

ObjectKinds == {"balance", "nonce", "code", "storage"}
LoadingKinds == ObjectKinds \union {"suicide"}

\* The entry is undone on an object that is not there, or on a slot set that
\* is not there.
Fails(e) ==
    \/ e.kind \in ObjectKinds /\ ~Usable(getDeletedStateObject(e.account))
    \/ e.kind = "accessListAddSlot" /\ accessList.addresses[e.account] < 0

\* (mutant) suicideChange.revert forgets the balance.
revertObject_KeepsNoBalance(e, o) ==
    CASE e.kind = "createObject" -> NoObject
      [] e.kind = "resetObject" -> e.prev
      [] e.kind = "suicide" ->
            IF Usable(o) THEN [o EXCEPT !.suicided = e.was] ELSE o
      [] e.kind = "balance" -> [o EXCEPT !.balance = e.prev]
      [] e.kind = "nonce" -> [o EXCEPT !.nonce = e.prev]
      [] e.kind = "code" -> [o EXCEPT !.code = e.prev]
      [] e.kind = "storage" -> [o EXCEPT !.dirtyStorage[e.key] = e.prev]

revertObject(e, o) ==
    CASE e.kind = "createObject" -> NoObject
      [] e.kind = "resetObject" -> e.prev
      [] e.kind = "suicide" ->
            IF Usable(o) THEN [o EXCEPT !.suicided = e.was, !.balance = e.prev]
            ELSE o
      [] e.kind = "balance" -> [o EXCEPT !.balance = e.prev]
      [] e.kind = "nonce" -> [o EXCEPT !.nonce = e.prev]
      [] e.kind = "code" -> [o EXCEPT !.code = e.prev]
      [] e.kind = "storage" -> [o EXCEPT !.dirtyStorage[e.key] = e.prev]

revertAccessList(e) ==
    CASE e.kind = "accessListAddAccount" ->
            [accessList EXCEPT !.addresses[e.account] = Missing]
      [] e.kind = "accessListAddSlot" -> deleteSlot(accessList, e.account, e.key)
      [] OTHER -> accessList

Undo(e) ==
    /\ IF e.kind \in LoadingKinds \union {"createObject", "resetObject"}
       THEN /\ stateObjects' = [stateObjects EXCEPT ![e.account] =
                   revertObject(e, getDeletedStateObject(e.account))]
            /\ cached' = IF e.kind \in LoadingKinds /\ ~stateObjects[e.account].live
                         THEN cached \union {e.account} ELSE cached
       ELSE UNCHANGED <<stateObjects, cached>>
    /\ stateObjectsDirty' = IF e.kind = "createObject"
                            THEN stateObjectsDirty \ {e.account}
                            ELSE stateObjectsDirty
    /\ accessList' = revertAccessList(e)
    /\ preimages' = IF e.kind = "addPreimage" THEN preimages \ {e.hash}
                    ELSE preimages

\* One round of the loop of journal.revert: the last entry is undone, and its
\* account is one change less dirty.
RevertEntry ==
    LET n == Len(journal.entries)
        e == journal.entries[n]
    IN  /\ phase = "revert"
        /\ n > validRevisions[target].journalIndex
        /\ IF Fails(e)
           THEN /\ phase' = "panic"
                /\ UNCHANGED <<stateObjects, cached, stateObjectsDirty,
                               accessList, preimages, journal>>
           ELSE /\ Undo(e)
                /\ journal' =
                      [entries |-> SubSeq(journal.entries, 1, n - 1),
                       dirties |-> [a \in Address |->
                                       IF dirtied(e, a) THEN journal.dirties[a] - 1
                                       ELSE journal.dirties[a]],
                       past |-> SubSeq(journal.past, 1, n - 1)]
                /\ UNCHANGED phase
        /\ UNCHANGED <<stateObjectsPending, trie, validRevisions, nextRevisionId,
                       loadRemote, target, replaced, ripemdDirty, work, budget>>

EndRevert ==
    /\ phase = "revert"
    /\ Len(journal.entries) = validRevisions[target].journalIndex
    /\ validRevisions' = SubSeq(validRevisions, 1, target - 1)
    /\ phase' = "run"
    /\ UNCHANGED <<stateObjects, stateObjectsPending, stateObjectsDirty, trie,
                   journal, nextRevisionId, accessList, preimages, loadRemote,
                   cached, target, replaced, ripemdDirty, work, budget>>

(***************************************************************************)
(* The end of a transaction, and the root                                  *)
(***************************************************************************)

finalised(a, deleteEmptyObjects) ==
    LET o == stateObjects[a]
    IN  IF a \notin Dirty \/ ~o.live THEN o
        ELSE IF o.suicided \/ (deleteEmptyObjects /\ empty(o))
        THEN [o EXCEPT !.deleted = TRUE]
        ELSE finalise(o)

\* (mutant) Finalise does not skip an account that has no object.
Due_NotChecked == Dirty

\* The touched accounts that have an object.
Due == {a \in Dirty : stateObjects[a].live}

\* A new journal, but only if something was journalled.
clearJournalAndRefund ==
    /\ validRevisions' = <<>>
    /\ IF journal.entries # <<>>
       THEN journal' = newJournal /\ ripemdDirty' = 0
       ELSE UNCHANGED <<journal, ripemdDirty>>

Finalise(deleteEmptyObjects) ==
    /\ stateObjects' = [a \in Address |-> finalised(a, deleteEmptyObjects)]
    /\ stateObjectsPending' = stateObjectsPending \union Due
    /\ stateObjectsDirty' = stateObjectsDirty \union Due
    /\ clearJournalAndRefund
    /\ UNCHANGED <<phase, trie, nextRevisionId, accessList, preimages, loadRemote,
                   cached, replaced>>

\* An object that is scheduled and not deleted gets the root of its storage.
rooted(a, deleteEmptyObjects) ==
    LET o == finalised(a, deleteEmptyObjects)
    IN  IF a \in stateObjectsPending \union Due /\ ~o.deleted
        THEN updateTrie(o) ELSE o

\* What updateStateObject encodes and deleteStateObject removes.
encoded(o) ==
    IF o.deleted THEN NoAccount
    ELSE [exists |-> TRUE, nonce |-> o.nonce, balance |-> o.balance,
          code |-> o.code, storage |-> o.root, suicided |-> FALSE]

IntermediateRoot(deleteEmptyObjects) ==
    LET pending == stateObjectsPending \union Due
    IN  /\ clearJournalAndRefund
        /\ IF \E a \in pending : ~stateObjects[a].live
           THEN /\ phase' = "panic"
                /\ UNCHANGED <<stateObjects, stateObjectsPending,
                               stateObjectsDirty, trie, replaced>>
           ELSE /\ stateObjects' = [a \in Address |-> rooted(a, deleteEmptyObjects)]
                /\ trie' = [a \in Address |->
                       IF a \in pending THEN encoded(rooted(a, deleteEmptyObjects))
                       ELSE trie[a]]
                /\ stateObjectsPending' = {}
                /\ stateObjectsDirty' = stateObjectsDirty \union Due
                /\ replaced' = replaced \ pending
                /\ UNCHANGED phase
        /\ UNCHANGED <<nextRevisionId, accessList, preimages, loadRemote, cached>>

\* Commit then hands the storage of every object in stateObjectsDirty that is
\* not deleted to the database.
committedObject(a, deleteEmptyObjects) ==
    LET o == rooted(a, deleteEmptyObjects)
    IN  IF a \in stateObjectsDirty \union Due /\ ~o.deleted THEN updateTrie(o) ELSE o

Commit(deleteEmptyObjects) ==
    LET pending == stateObjectsPending \union Due
    IN  /\ clearJournalAndRefund
        /\ IF \E a \in pending \union stateObjectsDirty : ~stateObjects[a].live
           THEN /\ phase' = "panic"
                /\ UNCHANGED <<stateObjects, stateObjectsPending,
                               stateObjectsDirty, trie, replaced>>
           ELSE /\ stateObjects' =
                      [a \in Address |-> committedObject(a, deleteEmptyObjects)]
                /\ trie' = [a \in Address |->
                       IF a \in pending THEN encoded(rooted(a, deleteEmptyObjects))
                       ELSE trie[a]]
                /\ stateObjectsPending' = {}
                /\ stateObjectsDirty' = stateObjectsDirty \union Due
                /\ replaced' = replaced \ pending
                /\ UNCHANGED phase
        /\ UNCHANGED <<nextRevisionId, accessList, preimages, loadRemote, cached>>

DisableLoadingRemoteAccounts ==
    /\ loadRemote' = FALSE
    /\ UNCHANGED <<stateObjects, stateObjectsPending, stateObjectsDirty, trie,
                   journal, validRevisions, nextRevisionId, accessList, preimages,
                   cached, replaced, ripemdDirty>>

(***************************************************************************)
(* The specification                                                       *)
(***************************************************************************)

Init ==
    /\ work \in Workloads
    /\ budget = work.budget
    /\ trie = work.chain
    /\ cached = work.cached
    /\ loadRemote = TRUE
    /\ stateObjects = [a \in Address |-> NoObject]
    /\ stateObjectsPending = {} /\ stateObjectsDirty = {}
    /\ journal = newJournal
    /\ validRevisions = <<>> /\ nextRevisionId = 0
    /\ accessList = newAccessList
    /\ preimages = {}
    /\ phase = "run" /\ target = 0
    /\ replaced = {} /\ ripemdDirty = 0

SetAccount(a) ==
    \E x \in Value :
        \/ Call("SetBalance") /\ SetBalance(a, x)
        \/ Call("AddBalance") /\ AddBalance(a, x)
        \/ Call("SubBalance") /\ SubBalance(a, x)
        \/ Call("SetNonce") /\ SetNonce(a, x)
        \/ Call("SetCode") /\ SetCode(a, x)
        \/ \E k \in Slot : Call("SetState") /\ SetState(a, k, x)

UseAccount(a) ==
    \/ Call("CreateAccount") /\ CreateAccount(a)
    \/ Call("Suicide") /\ Suicide(a)
    \/ Call("DeleteAccount") /\ DeleteAccount(a)
    \/ Call("Get") /\ Get(a)
    \/ \E k \in Slot : Call("GetState") /\ (ReadState(a, k) \/ ReadCommitted(a, k))

WarmUp ==
    \/ \E a \in work.who : Call("AddAddress") /\ AddAddressToAccessList(a)
    \/ \E a \in work.who, k \in Slot : Call("AddSlot") /\ AddSlotToAccessList(a, k)
    \/ Call("Prepare") /\ Prepare

EndTransaction(deleteEmptyObjects) ==
    /\ phase = "run" /\ "Finalise" \in work.ops /\ budget > 0
    /\ budget' = budget - 1
    /\ UNCHANGED <<target, work>>
    /\ \/ Finalise(deleteEmptyObjects)
       \/ IntermediateRoot(deleteEmptyObjects)
       \/ Commit(deleteEmptyObjects)

Next ==
    \/ \E a \in work.who : SetAccount(a)
    \/ \E a \in work.who : UseAccount(a)
    \/ WarmUp
    \/ \E h \in Preimage : Call("AddPreimage") /\ AddPreimage(h)
    \/ Call("Snapshot") /\ Snapshot
    \/ \E j \in DOMAIN validRevisions : RevertToSnapshot(validRevisions[j].id)
    \/ RevertEntry
    \/ EndRevert
    \/ \E d \in BOOLEAN : EndTransaction(d)
    \/ Call("Disable") /\ DisableLoadingRemoteAccounts

Spec == Init /\ [][Next]_vars

(***************************************************************************)
(* Properties                                                              *)
(***************************************************************************)

\* No undo meets an account or a slot set that is not there, no revision that
\* was handed out is unknown, and every scheduled account has an object: the
\* nil dereferences and panics of journal.go, access_list.go and statedb.go.
NoPanic == phase # "panic"

\* The storage trie that GetStorageProof opens (a copy of the object whose
\* pending writes are applied by updateTrie) holds what GetState returns for
\* every slot, whatever was written, reverted, finalised and cached before.
StorageTrieFollowsState ==
    \A a \in Address :
        LET o == getDeletedStateObject(a)
        IN  Usable(o) => updateTrie(o).root = Account(o).storage

\* Between calls, an account that differs from the trie is going to be written:
\* it is in the journal's dirties or in stateObjectsPending, unless the object
\* was replaced by CreateAccount (or by a setter that changed nothing) after an
\* earlier one, or DeleteAccount removed it from the trie only.
Kept(account) == [account EXCEPT !.suicided = FALSE]

NothingForgotten ==
    phase = "run" =>
        \A a \in Address :
            \/ Kept(Accounts[a]) = trie[a]
            \/ a \in Dirty \union stateObjectsPending \union replaced

\* What the database held when its journal had i entries.
At(i) == IF i < Len(journal.entries) THEN journal.past[i + 1] ELSE Now

TouchedAt(i) ==
    {a \in Address : \E m \in 1..i : dirtied(journal.entries[m], a)}

WarmIn(al) ==
    [addresses |-> {a \in Address : ContainsAddress(al, a)},
     slots |-> {p \in Address \X Slot : p[2] \in SlotsOf(al, p[1])}]

\* A revert takes effect when it is asked for.
Reached == IF phase = "revert" THEN validRevisions[target].journalIndex
           ELSE Len(journal.entries)

Revisions == IF phase = "revert" THEN target - 1 ELSE Len(validRevisions)

StoreSnapshot(i) ==
    [store |-> At(i).accounts, warm |-> WarmIn(At(i).accessList),
     preimages |-> At(i).preimages, touched |-> TouchedAt(i)]

Saved == [j \in 1..Revisions |-> StoreSnapshot(validRevisions[j].journalIndex)]

Present == At(Reached)
PresentWarm == WarmIn(Present.accessList)
PresentTouched == TouchedAt(Reached)
Sticky == IF ripemdDirty > 0 THEN {Ripemd} ELSE {}

Store == INSTANCE AccountStore WITH
    store <- Present.accounts, warm <- PresentWarm, preimages <- Present.preimages,
    touched <- PresentTouched, sticky <- Sticky,
    pending <- stateObjectsPending, committed <- trie, saved <- Saved

\* The journal, the caches and the revisions implement AccountStore: a setter
\* changes the one account it names, a read changes nothing, RevertToSnapshot
\* puts back exactly what its snapshot saw, and the end of a transaction
\* removes and schedules exactly the accounts touched and not reverted.
StoreSpec == Store!Spec
=============================================================================
