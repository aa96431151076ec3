------------------------ MODULE WitnessStateDBEndings -----------------------
(***************************************************************************)
(* The invariant through a revert, through Finalise, IntermediateRoot and  *)
(* Commit, and at the start.                                               *)
(***************************************************************************)
EXTENDS WitnessStateDBInvariant

USE ZenonT(40), SMTT(30)

-----------------------------------------------------------------------------
(***************************************************************************)
(* The loop of a revert                                                    *)
(***************************************************************************)

\* An undo does to an object what SetBack does to what is read of it.
LEMMA UndoObject ==
    ASSUME NEW e \in Entry, e.kind \in LoadingKinds, NEW o, ObjectOK(o), Usable(o),
           e.kind = "storage" => o.originStorage[e.key] # Absent
    PROVE  LET r == revertObject(e, o)
           IN  /\ ObjectOK(r) /\ Usable(r) /\ SameCaches(o, r)
               /\ Account(r) = SetBack(e, Account(o))
  <1>1. /\ e.prev \in Value
        /\ e.kind = "suicide" => e.was \in BOOLEAN
        /\ e.kind = "storage" => e.key \in Slot
    BY EntryFields
  <1> DEFINE x == e.prev
             acc == Account(o)
             r == revertObject(e, o)
  <1>2. CASE e.kind = "balance"
    <2>1. r = [o EXCEPT !.balance = x] /\ SetBack(e, acc) = [acc EXCEPT !.balance = x]
      BY <1>2 DEF revertObject, SetBack
    <2>2. x \in Value
      BY <1>1, <1>2
    <2> HIDE DEF x, acc, r
    <2>3. ObjectOK(r) /\ Usable(r) /\ SameCaches(o, r) /\ Account(r) = SetBack(e, acc)
      BY <2>1, <2>2, WriteObject DEF acc
    <2> QED
      BY <2>3 DEF r, acc
  <1>3. CASE e.kind = "nonce"
    <2>1. r = [o EXCEPT !.nonce = x] /\ SetBack(e, acc) = [acc EXCEPT !.nonce = x]
      BY <1>3 DEF revertObject, SetBack
    <2>2. x \in Value
      BY <1>1, <1>3
    <2> HIDE DEF x, acc, r
    <2>3. ObjectOK(r) /\ Usable(r) /\ SameCaches(o, r) /\ Account(r) = SetBack(e, acc)
      BY <2>1, <2>2, WriteObject DEF acc
    <2> QED
      BY <2>3 DEF r, acc
  <1>4. CASE e.kind = "code"
    <2>1. r = [o EXCEPT !.code = x] /\ SetBack(e, acc) = [acc EXCEPT !.code = x]
      BY <1>4 DEF revertObject, SetBack
    <2>2. x \in Value
      BY <1>1, <1>4
    <2> HIDE DEF x, acc, r
    <2>3. ObjectOK(r) /\ Usable(r) /\ SameCaches(o, r) /\ Account(r) = SetBack(e, acc)
      BY <2>1, <2>2, WriteObject DEF acc
    <2> QED
      BY <2>3 DEF r, acc
  <1>5. CASE e.kind = "suicide"
    <2> DEFINE b == e.was
    <2>1. r = [o EXCEPT !.suicided = b, !.balance = x] /\ SetBack(e, acc) = [acc EXCEPT !.suicided = b, !.balance = x]
      BY <1>5 DEF revertObject, SetBack
    <2>2. x \in Value /\ b \in BOOLEAN
      BY <1>1, <1>5
    <2> HIDE DEF x, acc, r, b
    <2>3. ObjectOK(r) /\ Usable(r) /\ SameCaches(o, r) /\ Account(r) = SetBack(e, acc)
      <3>1. ASSUME b = TRUE PROVE ObjectOK(r) /\ Usable(r) /\ SameCaches(o, r) /\ Account(r) = SetBack(e, acc)
        <4>1. r = [o EXCEPT !.suicided = TRUE, !.balance = x]
              /\ SetBack(e, acc) = [acc EXCEPT !.suicided = TRUE, !.balance = x]
          BY <2>1, <3>1
        <4>2. TRUE \in BOOLEAN
          OBVIOUS
        <4> QED
          BY <2>2, <4>1, <4>2, WriteObject DEF acc
      <3>2. ASSUME b = FALSE PROVE ObjectOK(r) /\ Usable(r) /\ SameCaches(o, r) /\ Account(r) = SetBack(e, acc)
        <4>1. r = [o EXCEPT !.suicided = FALSE, !.balance = x]
              /\ SetBack(e, acc) = [acc EXCEPT !.suicided = FALSE, !.balance = x]
          BY <2>1, <3>2
        <4>2. FALSE \in BOOLEAN
          OBVIOUS
        <4> QED
          BY <2>2, <4>1, <4>2, WriteObject DEF acc
      <3> QED
        BY <2>2, <3>1, <3>2
    <2> QED
      BY <2>3 DEF r, acc
  <1>6. CASE e.kind = "storage"
    <2> DEFINE k == e.key
    <2>1. r = [o EXCEPT !.dirtyStorage[k] = x] /\ SetBack(e, acc) = [acc EXCEPT !.storage[k] = x]
      BY <1>6 DEF revertObject, SetBack
    <2>2. x \in Value /\ k \in Slot /\ o.originStorage[k] # Absent
      BY <1>1, <1>6
    <2> HIDE DEF x, acc, r, k
    <2>3. ObjectOK(r) /\ Usable(r) /\ SameCaches(o, r) /\ Account(r) = SetBack(e, acc)
      BY <2>1, <2>2, WriteSlot, SMTT(30) DEF acc
    <2> QED
      BY <2>3 DEF r, acc
  <1> QED
    BY <1>2, <1>3, <1>4, <1>5, <1>6 DEF LoadingKinds, ObjectKinds

\* The last entry finds what its undo needs.
LEMMA LastEntry ==
    ASSUME IInv, journal.entries # <<>>, NEW e, e = journal.entries[Len(journal.entries)]
    PROVE  /\ e \in Entry /\ Able(e, Now) /\ Len(journal.entries) \in Nat \ {0}
           /\ e.kind # "addPreimage" => e.account \in Address
           /\ e.kind \in AccountKinds => stateObjects[e.account].live
           /\ e.kind = "createObject" => ~trie[e.account].exists /\ e.account \notin Waiting
           /\ e.kind = "storage" => stateObjects[e.account].originStorage[e.key] # Absent
           /\ e.kind \in LoadingKinds => Usable(stateObjects[e.account])
           /\ e.kind \in AccountKinds => getDeletedStateObject(e.account) = stateObjects[e.account]
           /\ ~Fails(e)
  <1> DEFINE n == Len(journal.entries)
  <1>1. n \in Nat \ {0} /\ journal.entries \in Seq(Entry)
    BY StateFacts, SMTT(30)
  <1>2. e \in Entry
    BY <1>1, SeqMembers, SMTT(30)
  <1>3. Able(e, Now)
    <2>1. Able(journal.entries[n], FoundAt(journal, Now, n))
      BY <1>1, StateFacts, SMTT(30) DEF Sound, Chained
    <2>2. FoundAt(journal, Now, n) = Now
      BY <1>1, SMTT(30) DEF FoundAt
    <2> QED
      BY <2>1, <2>2
  <1>4. Linked(journal.entries, stateObjects, trie, Waiting)
    BY StateFacts DEF Sound
  <1>5. e.kind # "addPreimage" => e.account \in Address
    BY <1>2, EntryFields
  <1>6. /\ e.kind \in AccountKinds => stateObjects[e.account].live
        /\ e.kind = "createObject" => ~trie[e.account].exists /\ e.account \notin Waiting
    BY <1>1, <1>4, SMTT(30) DEF Linked
  <1>7. e.kind = "storage" => stateObjects[e.account].originStorage[e.key] # Absent
    <2>1. \A i \in 1..n : journal.entries[i].kind = "storage" =>
             \/ stateObjects[journal.entries[i].account].originStorage[journal.entries[i].key] # Absent
             \/ \E m \in (i + 1)..n : Replaces(journal.entries[m], journal.entries[i].account)
      BY <1>4 DEF Linked
    <2>2. n \in 1..n /\ ~\E m \in (n + 1)..n : TRUE
      BY <1>1, SMTT(30)
    <2> HIDE DEF n
    <2> QED
      BY <2>1, <2>2 DEF n
  <1>8. e.kind \in AccountKinds => getDeletedStateObject(e.account) = stateObjects[e.account]
    BY <1>6 DEF getDeletedStateObject
  <1>9. e.kind \in LoadingKinds => e.kind \in AccountKinds /\ e.kind # "addPreimage"
    BY DEF LoadingKinds, ObjectKinds, AccountKinds, FieldKinds
  <1>10. e.kind \in LoadingKinds => Usable(stateObjects[e.account])
    <2> SUFFICES ASSUME e.kind \in LoadingKinds PROVE Usable(stateObjects[e.account])
      OBVIOUS
    <2>1. Now.accounts[e.account].exists
      BY <1>3 DEF Able
    <2>2. ObjectOK(stateObjects[e.account]) /\ Account(stateObjects[e.account]) = Now.accounts[e.account]
      BY <1>5, <1>8, <1>9, Loaded
    <2> QED
      BY <2>1, <2>2, AccountType
  <1>11. ~Fails(e)
    <2>1. e.kind \in ObjectKinds => Usable(getDeletedStateObject(e.account))
      BY <1>8, <1>9, <1>10 DEF LoadingKinds
    <2>2. e.kind = "accessListAddSlot" => accessList.addresses[e.account] >= 0
      BY <1>3, StateFacts DEF Able
    <2>3. e.kind = "accessListAddSlot" => accessList.addresses[e.account] \in Int
      BY <1>5, StateFacts DEF AccessListOK
    <2> QED
      BY <2>1, <2>2, <2>3, SMTT(30) DEF Fails
  <1> QED
    BY <1>1, <1>2, <1>3, <1>5, <1>6, <1>7, <1>8, <1>10, <1>11

\* The objects after an undo.
LEMMA UndoObjects ==
    ASSUME IInv, journal.entries # <<>>, NEW e, e = journal.entries[Len(journal.entries)],
           Undo(e)
    PROVE  /\ stateObjects' \in [Address -> Object] /\ cached' = cached
           /\ \A a \in Address : e.kind \notin AccountKinds \/ a # e.account
                                   => stateObjects'[a] = stateObjects[a]
           /\ e.kind = "createObject" => stateObjects'[e.account] = NoObject
           /\ e.kind = "resetObject" => stateObjects'[e.account] = e.prev
           /\ e.kind \in AccountKinds \ ReplacingKinds =>
                 /\ stateObjects'[e.account].live
                 /\ SameCaches(stateObjects[e.account], stateObjects'[e.account])
           /\ e.kind \in AccountKinds =>
                 /\ ObjectOK(stateObjects'[e.account])
                 /\ Account(stateObjects'[e.account])
                      = SetBack(e, Account(stateObjects[e.account]))
  <1>1. /\ e \in Entry
        /\ e.kind # "addPreimage" => e.account \in Address
        /\ e.kind \in AccountKinds => stateObjects[e.account].live
        /\ e.kind = "storage" => stateObjects[e.account].originStorage[e.key] # Absent
        /\ e.kind \in LoadingKinds => Usable(stateObjects[e.account])
        /\ e.kind \in AccountKinds => getDeletedStateObject(e.account) = stateObjects[e.account]
    BY LastEntry
  <1>2. stateObjects \in [Address -> Object] /\ \A a \in Address : ObjectOK(stateObjects[a])
    BY StateFacts DEF Sound, ObjectsOK
  <1>3. AccountKinds = LoadingKinds \union ReplacingKinds \union {"touch"}
    BY DEF AccountKinds, LoadingKinds, ObjectKinds, ReplacingKinds, FieldKinds
  <1>4. ReplacingKinds = {"createObject", "resetObject"}
        /\ "touch" \notin LoadingKinds \union ReplacingKinds
        /\ LoadingKinds \intersect ReplacingKinds = {} /\ "addPreimage" \notin AccountKinds
    BY DEF ReplacingKinds, LoadingKinds, ObjectKinds, AccountKinds, FieldKinds
  <1> DEFINE a == e.account
             o == stateObjects[a]
             r == revertObject(e, o)
  <1>5. CASE e.kind \in LoadingKinds
    <2>1. a \in Address /\ getDeletedStateObject(a) = o /\ o.live
      BY <1>1, <1>3, <1>4, <1>5
    <2>2. stateObjects' = PutObject(stateObjects, a, r) /\ cached' = cached
      BY <1>5, <2>1 DEF Undo, PutObject
    <2>3. ObjectOK(r) /\ Usable(r) /\ SameCaches(o, r) /\ Account(r) = SetBack(e, Account(o))
      BY <1>1, <1>2, <1>5, <2>1, UndoObject
    <2> HIDE DEF r
    <2>4. r \in Object /\ r.live
      BY <2>3 DEF ObjectOK, Usable
    <2>5. stateObjects' \in [Address -> Object] /\ stateObjects'[a] = r
          /\ \A b \in Address : b # a => stateObjects'[b] = stateObjects[b]
      BY <1>2, <2>1, <2>2, <2>4 DEF PutObject
    <2>6. e.kind # "createObject" /\ e.kind # "resetObject"
      BY <1>4, <1>5
    <2> QED
      BY <1>3, <1>5, <2>2, <2>3, <2>4, <2>5, <2>6
  <1>6. CASE e.kind = "createObject"
    <2>1. a \in Address /\ e.kind \notin LoadingKinds
      BY <1>1, <1>4, <1>6
    <2>2. stateObjects' = PutObject(stateObjects, a, NoObject) /\ cached' = cached
      BY <1>6, <2>1 DEF Undo, PutObject, revertObject
    <2>3. ObjectOK(NoObject) /\ Account(NoObject) = NoAccount /\ NoObject \in Object
      BY NoObjectOK DEF ObjectOK
    <2>4. stateObjects' \in [Address -> Object] /\ stateObjects'[a] = NoObject
          /\ \A b \in Address : b # a => stateObjects'[b] = stateObjects[b]
      BY <1>2, <2>1, <2>2, <2>3 DEF PutObject
    <2>5. SetBack(e, Account(o)) = NoAccount
      BY <1>6 DEF SetBack
    <2>6. e.kind # "resetObject" /\ e.kind \in ReplacingKinds
      BY <1>4, <1>6
    <2> QED
      BY <1>3, <1>6, <2>2, <2>3, <2>4, <2>5, <2>6
  <1>7. CASE e.kind = "resetObject"
    <2>1. a \in Address /\ e.kind \notin LoadingKinds
      BY <1>1, <1>4, <1>7
    <2>2. stateObjects' = PutObject(stateObjects, a, e.prev) /\ cached' = cached
      BY <1>7, <2>1 DEF Undo, PutObject, revertObject
    <2>3. ObjectOK(e.prev) /\ e.prev \in Object
      BY <1>1, <1>7, EntryFields DEF ObjectOK
    <2>4. stateObjects' \in [Address -> Object] /\ stateObjects'[a] = e.prev
          /\ \A b \in Address : b # a => stateObjects'[b] = stateObjects[b]
      BY <1>2, <2>1, <2>2, <2>3 DEF PutObject
    <2>5. SetBack(e, Account(o)) = Account(e.prev)
      BY <1>7 DEF SetBack
    <2>6. e.kind # "createObject" /\ e.kind \in ReplacingKinds
      BY <1>4, <1>7
    <2> QED
      BY <1>3, <1>7, <2>2, <2>3, <2>4, <2>5, <2>6
  <1>8. CASE e.kind \notin LoadingKinds \union ReplacingKinds
    <2>1. stateObjects' = stateObjects /\ cached' = cached
      BY <1>4, <1>8 DEF Undo
    <2>2. e.kind \in AccountKinds => e.kind = "touch"
      BY <1>3, <1>8
    <2>3. e.kind = "touch" => SetBack(e, Account(o)) = Account(o)
      BY DEF SetBack
    <2>4. SameCaches(o, o)
      BY DEF SameCaches
    <2>5. e.kind # "createObject" /\ e.kind # "resetObject"
      BY <1>4, <1>8
    <2>6. e.kind = "touch" => a \in Address
      BY <1>1
    <2> QED
      BY <1>1, <1>2, <2>1, <2>2, <2>3, <2>4, <2>5, <2>6
  <1> QED
    BY <1>4, <1>5, <1>6, <1>7, <1>8

\* One round of the loop: what is read is what the entry found.
LEMMA UndoStep ==
    ASSUME IInv, RevertEntry
    PROVE  LET n == Len(journal.entries)
               e == journal.entries[n]
           IN  /\ journal.entries # <<>> /\ n \in Nat \ {0} /\ Undo(e) /\ phase' = phase
               /\ Len(journal'.entries) = n - 1
               /\ \A i \in 1..(n - 1) : journal'.entries[i] = journal.entries[i]
               /\ \A i \in 0..(n - 1) : FoundAt(journal', Now', i) = FoundAt(journal, Now, i)
               /\ Now' = Before(e, Now)
               /\ Sound(journal', stateObjects', Now', trie', Waiting', ripemdDirty')
  <1> DEFINE n == Len(journal.entries)
             e == journal.entries[n]
             before == Before(e, Now)
  <1>1. journal.entries # <<>> /\ n \in Nat \ {0} /\ validRevisions[target].journalIndex \in Nat
    <2>1. phase = "revert" /\ n > validRevisions[target].journalIndex
      BY DEF RevertEntry
    <2>2. validRevisions[target].journalIndex \in Nat
      BY <2>1, Revision DEF IInv, RevisionsOK
    <2>3. n \in Nat /\ n > 0
      BY <2>1, <2>2, StateFacts, SMTT(30)
    <2> QED
      BY <2>2, <2>3, StateFacts, SMTT(30)
  <1>2. ~Fails(e)
    BY <1>1, LastEntry
  <1>3. /\ Undo(e) /\ phase' = phase /\ ripemdDirty' = ripemdDirty /\ trie' = trie
        /\ stateObjectsPending' = stateObjectsPending
        /\ journal'.entries = SubSeq(journal.entries, 1, n - 1)
        /\ journal'.past = SubSeq(journal.past, 1, n - 1)
        /\ journal'.dirties = [a \in Address |->
                                 IF dirtied(e, a) THEN journal.dirties[a] - 1
                                 ELSE journal.dirties[a]]
    BY <1>2, SMTT(30) DEF RevertEntry
  <1>4. Chained(journal, Now) /\ Counted(journal, ripemdDirty)
        /\ Linked(journal.entries, stateObjects, trie, Waiting)
        /\ ObjectsOK(stateObjects, Waiting) /\ Now.accounts = Says(stateObjects, trie)
    BY StateFacts DEF Sound
  <1>5. /\ Len(journal'.entries) = n - 1
        /\ \A i \in 1..(n - 1) : journal'.entries[i] = journal.entries[i]
        /\ Chained(journal', before)
        /\ \A i \in 0..(n - 1) : FoundAt(journal', before, i) = FoundAt(journal, Now, i)
    <2> DEFINE q == journal'
    <2>1. /\ q.entries = SubSeq(journal.entries, 1, n - 1)
          /\ q.past = SubSeq(journal.past, 1, n - 1)
      BY <1>3
    <2> HIDE DEF q
    <2>2. /\ Len(q.entries) = n - 1
          /\ \A i \in 1..(n - 1) : q.entries[i] = journal.entries[i]
          /\ Chained(q, Before(e, Now))
          /\ \A i \in 0..(n - 1) : FoundAt(q, Before(e, Now), i) = FoundAt(journal, Now, i)
      BY <1>1, <1>4, <2>1, PopChained, SMTT(30)
    <2> QED
      BY <2>2 DEF q
  <1>6. Counted(journal', ripemdDirty')
    <2> DEFINE q == journal'
    <2>1. /\ q.entries = SubSeq(journal.entries, 1, Len(journal.entries) - 1)
          /\ q.dirties = [a \in Address |->
                           IF dirtied(journal.entries[Len(journal.entries)], a)
                           THEN journal.dirties[a] - 1 ELSE journal.dirties[a]]
      BY <1>3
    <2> HIDE DEF q
    <2>2. Counted(q, ripemdDirty)
      BY <1>1, <1>4, <2>1, StateFacts, CountPop
    <2> QED
      BY <1>3, <2>2 DEF q
  <1>7. /\ stateObjects' \in [Address -> Object]
        /\ \A a \in Address : e.kind \notin AccountKinds \/ a # e.account
                                => stateObjects'[a] = stateObjects[a]
        /\ e.kind = "createObject" => stateObjects'[e.account] = NoObject
        /\ e.kind = "resetObject" => stateObjects'[e.account] = e.prev
        /\ e.kind \in AccountKinds \ ReplacingKinds =>
              /\ stateObjects'[e.account].live
              /\ SameCaches(stateObjects[e.account], stateObjects'[e.account])
        /\ e.kind \in AccountKinds =>
              /\ ObjectOK(stateObjects'[e.account])
              /\ Account(stateObjects'[e.account])
                   = SetBack(e, Account(stateObjects[e.account]))
    BY <1>1, <1>3, UndoObjects
  <1>8. /\ e \in Entry
        /\ e.kind # "addPreimage" => e.account \in Address
        /\ e.kind \in AccountKinds => stateObjects[e.account].live
        /\ e.kind = "createObject" => ~trie[e.account].exists /\ e.account \notin Waiting
    BY <1>1, LastEntry
  <1>9. Waiting' \in SUBSET Waiting
    BY <1>3 DEF Undo, Waiting
  <1> HIDE DEF e
  <1>10. Linked(journal'.entries, stateObjects', trie, Waiting')
    <2> DEFINE es == journal.entries
               objs2 == stateObjects'
               S2 == Waiting'
    <2>1. e = es[Len(es)] /\ es \in Seq(Entry) /\ es # <<>>
      BY <1>1, StateFacts DEF e
    <2>2. journal'.entries = SubSeq(es, 1, Len(es) - 1)
      BY <1>3
    <2>3. /\ objs2 \in [Address -> Object] /\ S2 \in SUBSET Waiting
          /\ \A a \in Address : e.kind \notin AccountKinds \/ a # e.account
                                => objs2[a] = stateObjects[a]
          /\ e.kind = "resetObject" => objs2[e.account] = e.prev
          /\ e.kind \in AccountKinds \ ReplacingKinds =>
                objs2[e.account].live /\ SameCaches(stateObjects[e.account], objs2[e.account])
      BY <1>7, <1>9
    <2>4. Linked(es, stateObjects, trie, Waiting) /\ stateObjects \in [Address -> Object]
      BY <1>4, StateFacts
    <2> HIDE DEF es, objs2, S2
    <2>5. Linked(SubSeq(es, 1, Len(es) - 1), objs2, trie, S2)
      BY <2>1, <2>3, <2>4, LinkedPop, SMTT(30)
    <2> QED
      BY <2>2, <2>5 DEF objs2, S2
  <1>11. e.kind \in AccountKinds => e.account \in Address
    BY <1>8 DEF AccountKinds, FieldKinds
  <1>12. e.kind \in AccountKinds =>
            \/ stateObjects'[e.account].live
            \/ e.kind = "createObject" /\ stateObjects'[e.account] = NoObject
    <2>1. e.kind = "resetObject" => e.prev.live
      BY <1>8, EntryFields
    <2> QED
      BY <1>7, <2>1 DEF ReplacingKinds
  <1>13. ObjectsOK(stateObjects', Waiting')
    <2>1. \A a \in Address : ObjectOK(stateObjects'[a])
      BY <1>4, <1>7 DEF ObjectsOK
    <2>2. Waiting' \subseteq Address
      BY <1>4, <1>9 DEF ObjectsOK
    <2>3. \A a \in Waiting' : stateObjects'[a].live
      BY <1>4, <1>7, <1>8, <1>9, <1>12 DEF ObjectsOK
    <2> QED
      BY <1>7, <2>1, <2>2, <2>3 DEF ObjectsOK
  <1>14. before.accounts = Says(stateObjects', trie)
    <2>1. before \in Found
      BY <1>5 DEF Chained
    <2>2. ASSUME NEW b \in Address PROVE before.accounts[b] = Says(stateObjects', trie)[b]
      <3>1. CASE e.kind \notin AccountKinds \/ b # e.account
        <4>1. before.accounts[b] = Now.accounts[b]
          <5>1. Now.accounts \in [Address -> ReadAccount]
            BY StateFacts DEF Found
          <5> QED
            BY <1>11, <3>1, <5>1 DEF Before
        <4>2. stateObjects'[b] = stateObjects[b]
          BY <1>7, <3>1
        <4> QED
          BY <1>4, <4>1, <4>2 DEF Says, Stored
      <3>2. CASE e.kind \in AccountKinds /\ b = e.account
        <4>1. before.accounts[b] = SetBack(e, Now.accounts[b])
          <5>1. Now.accounts \in [Address -> ReadAccount]
            BY StateFacts DEF Found
          <5> QED
            BY <1>11, <3>2, <5>1 DEF Before
        <4>2. Now.accounts[b] = Account(stateObjects[b])
          BY <1>4, <1>8, <3>2 DEF Says, Stored
        <4>3. Account(stateObjects'[b]) = before.accounts[b]
          BY <1>7, <3>2, <4>1, <4>2
        <4>4. Stored(stateObjects', trie, b) = stateObjects'[b]
          BY <1>8, <1>12, <3>2, NoObjectOK DEF Stored
        <4> QED
          BY <4>3, <4>4 DEF Says
      <3> QED
        BY <3>1, <3>2
    <2> DEFINE says == before.accounts
    <2>3. says \in [Address -> ReadAccount]
      BY <2>1 DEF Found
    <2> HIDE DEF before, says
    <2>4. \A b \in Address : says[b] = Says(stateObjects', trie)[b]
      BY <2>2 DEF says
    <2>5. says = Says(stateObjects', trie)
      BY <2>3, <2>4, SaysIs
    <2> QED
      BY <2>5 DEF says
  <1>15. Sound(journal', stateObjects', before, trie', Waiting', ripemdDirty')
    BY <1>3, <1>5, <1>6, <1>10, <1>13, <1>14, StateFacts DEF Sound
  <1>16. Now' = before
    <2>1. before.accessList = accessList'
      BY <1>3, StateFacts DEF Before, CooledBy, Undo, revertAccessList, e
    <2>2. before.preimages = preimages'
      BY <1>3, StateFacts DEF Before, Undo, e
    <2> HIDE DEF before
    <2> QED
      BY <1>15, <2>1, <2>2, NowIs
  <1> QED
    BY <1>1, <1>3, <1>5, <1>15, <1>16 DEF e

\* One round of journal.revert preserves the invariant and meets no missing object or slot set.
LEMMA RevertEntryInv ==
    ASSUME IInv, RevertEntry
    PROVE  IInv'
  <1> DEFINE n == Len(journal.entries)
             e == journal.entries[n]
             index == validRevisions[target].journalIndex
  <1>1. /\ journal.entries # <<>> /\ n \in Nat \ {0} /\ Undo(e) /\ phase' = phase
        /\ Len(journal'.entries) = n - 1
        /\ \A i \in 1..(n - 1) : journal'.entries[i] = journal.entries[i]
        /\ \A i \in 0..(n - 1) : FoundAt(journal', Now', i) = FoundAt(journal, Now, i)
        /\ Sound(journal', stateObjects', Now', trie', Waiting', ripemdDirty')
    BY UndoStep
  <1>2. /\ phase = "revert" /\ n > index
        /\ UNCHANGED <<stateObjectsPending, trie, validRevisions, nextRevisionId,
                       loadRemote, target, replaced, ripemdDirty, work, budget>>
    BY DEF RevertEntry
  <1>3. /\ cached' = cached
        /\ \A a \in Address : e.kind \notin AccountKinds \/ a # e.account
                                => stateObjects'[a] = stateObjects[a]
        /\ e.kind = "resetObject" => stateObjects'[e.account] = e.prev
        /\ e.kind \in AccountKinds \ ReplacingKinds => stateObjects'[e.account].live
    BY <1>1, UndoObjects
  <1>4. /\ e \in Entry
        /\ e.kind \in AccountKinds => stateObjects[e.account].live
        /\ e.kind = "createObject" => ~trie[e.account].exists
    BY <1>1, LastEntry
  <1>5. e.kind = "resetObject" => e.prev.live
    BY <1>4, EntryFields
  <1> HIDE DEF e
  <1>6. TypeOK'
    <2>1. stateObjectsDirty' \subseteq stateObjectsDirty
      BY <1>1 DEF Undo
    <2> QED
      BY <1>1, <1>2, <1>3, <2>1 DEF IInv, TypeOK
  <1>7. Fetching'
    <2> SUFFICES ASSUME NEW a \in Address, a \notin cached
                 PROVE  ~stateObjects'[a].live /\ trie'[a] = work'.chain[a]
      BY <1>3 DEF Fetching
    <2>1. ~stateObjects[a].live /\ trie[a] = work.chain[a]
      BY DEF IInv, Fetching
    <2> QED
      BY <1>2, <1>3, <1>4, <2>1
  <1>8. Sticking'
    <2> SUFFICES ASSUME ripemdDirty > 0
                 PROVE  Ripemd \in Address /\ (stateObjects'[Ripemd].live \/ ~trie[Ripemd].exists)
      BY <1>2 DEF Sticking
    <2>1. Ripemd \in Address /\ (stateObjects[Ripemd].live \/ ~trie[Ripemd].exists)
      BY DEF IInv, Sticking
    <2>2. CASE e.kind \notin AccountKinds \/ Ripemd # e.account
      BY <1>3, <2>1, <2>2
    <2>3. CASE e.kind \in AccountKinds /\ Ripemd = e.account
      BY <1>3, <1>4, <1>5, <2>1, <2>3 DEF ReplacingKinds
    <2> QED
      BY <2>2, <2>3
  <1>9. target \in DOMAIN validRevisions /\ index \in Nat /\ index <= n - 1
        /\ \A j \in DOMAIN validRevisions :
              j <= target => validRevisions[j].journalIndex \in 0..(n - 1)
    <2>1. target \in DOMAIN validRevisions
      BY <1>2 DEF IInv, RevisionsOK
    <2>2. index \in Nat /\ index <= n - 1
      BY <1>1, <1>2, <2>1, Revision, SMTT(30)
    <2>3. \A j \in DOMAIN validRevisions : j < target => validRevisions[j].journalIndex <= index
      BY <2>1 DEF IInv, RevisionsOK
    <2>4. \A j \in DOMAIN validRevisions : j \in Nat /\ validRevisions[j].journalIndex \in Nat
      BY Revision, SMTT(30)
    <2> QED
      BY <1>1, <2>1, <2>2, <2>3, <2>4, SMTT(30)
  <1>10. RevisionsOK'
    <2>1. RevisionsOK
      BY DEF IInv
    <2> QED
      BY <1>1, <1>2, <1>9, <2>1 DEF RevisionsOK
  <1>11. Scheduled'
    <2> SUFFICES ASSUME NEW j \in DOMAIN validRevisions, j <= target
                 PROVE  DueAt(journal', Now', validRevisions[j].journalIndex, trie', Exempt')
      BY <1>1, <1>2 DEF Scheduled
    <2> DEFINE i == validRevisions[j].journalIndex
    <2>1. i \in 0..(n - 1)
      BY <1>9
    <2>2. DueAt(journal, Now, i, trie, Exempt)
      BY DEF IInv, Scheduled
    <2>3. Exempt' = Exempt /\ trie' = trie
      BY <1>2 DEF Exempt, Sticky
    <2> HIDE DEF i
    <2>4. FoundAt(journal', Now', i) = FoundAt(journal, Now, i)
      BY <1>1, <2>1
    <2>5. TouchedIn(journal'.entries, i) = TouchedIn(journal.entries, i)
      <3>1. \A m \in 1..i : journal'.entries[m] = journal.entries[m]
        BY <1>1, <2>1, SMTT(30)
      <3> QED
        BY <3>1 DEF TouchedIn
    <2>6. DueAt(journal', Now', i, trie', Exempt')
      BY <2>2, <2>3, <2>4, <2>5 DEF DueAt
    <2> QED
      BY <2>6 DEF i
  <1> QED
    BY <1>1, <1>2, <1>6, <1>7, <1>8, <1>10, <1>11 DEF IInv

\* The revisions after a revert are the ones before the target.
LEMMA EndRevertFrame ==
    ASSUME IInv, EndRevert
    PROVE  /\ target \in DOMAIN validRevisions /\ target \in Nat
           /\ validRevisions' \in Seq([id : Nat, journalIndex : Nat])
           /\ Len(validRevisions') = target - 1
           /\ DOMAIN validRevisions' = 1..(target - 1)
           /\ \A j \in 1..(target - 1) : /\ j \in DOMAIN validRevisions
                                         /\ validRevisions'[j] = validRevisions[j]
  <1>1. phase = "revert" /\ validRevisions' = SubSeq(validRevisions, 1, target - 1)
    BY DEF EndRevert
  <1>2. target \in DOMAIN validRevisions
    BY <1>1 DEF IInv, RevisionsOK
  <1>3. target - 1 \in 0..Len(validRevisions) /\ target \in Nat
    BY <1>2, Revision, SMTT(30)
  <1>4. /\ validRevisions' \in Seq([id : Nat, journalIndex : Nat])
        /\ Len(validRevisions') = target - 1
        /\ \A j \in 1..(target - 1) : /\ validRevisions'[j] = validRevisions[j]
                                      /\ j \in 1..Len(validRevisions)
    <2> DEFINE m == target - 1
               R == [id : Nat, journalIndex : Nat]
    <2>1. /\ validRevisions \in Seq(R) /\ m \in 0..Len(validRevisions)
          /\ validRevisions' = SubSeq(validRevisions, 1, m)
      BY <1>1, <1>3, Revision
    <2> HIDE DEF m, R
    <2>2. /\ SubSeq(validRevisions, 1, m) \in Seq(R) /\ Len(SubSeq(validRevisions, 1, m)) = m
          /\ \A j \in 1..m : /\ SubSeq(validRevisions, 1, m)[j] = validRevisions[j]
                             /\ j \in 1..Len(validRevisions)
      BY <2>1, FrontOf
    <2> QED
      BY <2>1, <2>2 DEF m, R
  <1> QED
    BY <1>2, <1>3, <1>4, Revision, SMTT(30)

\* The end of a revert drops the revisions from the target on and preserves the invariant.
LEMMA EndRevertInv ==
    ASSUME IInv, EndRevert
    PROVE  IInv'
  <1>1. /\ target \in DOMAIN validRevisions /\ target \in Nat
        /\ validRevisions' \in Seq([id : Nat, journalIndex : Nat])
        /\ DOMAIN validRevisions' = 1..(target - 1)
        /\ \A j \in 1..(target - 1) : /\ j \in DOMAIN validRevisions
                                      /\ validRevisions'[j] = validRevisions[j]
    BY EndRevertFrame
  <1>2. /\ phase = "revert" /\ phase' = "run"
        /\ Len(journal.entries) = validRevisions[target].journalIndex
        /\ UNCHANGED <<stateObjects, stateObjectsPending, stateObjectsDirty, trie,
                       journal, nextRevisionId, accessList, preimages, loadRemote,
                       cached, target, replaced, ripemdDirty, work, budget>>
    BY DEF EndRevert
  <1>3. Now' = Now /\ Waiting' = Waiting /\ Exempt' = Exempt
    BY <1>2, NowFields DEF Waiting, Exempt, Sticky
  <1>4. Sound(journal, stateObjects, Now, trie, Waiting, ripemdDirty)'
    BY <1>2, <1>3 DEF IInv
  <1>5. TypeOK' /\ Fetching' /\ Sticking'
    BY <1>2 DEF IInv, TypeOK, Fetching, Sticking
  <1>6. RevisionsOK'
    <2>1. \A j \in 1..(target - 1) : j < target
      BY <1>1, SMTT(30)
    <2>2. \A i, j \in DOMAIN validRevisions :
             i < j => /\ validRevisions[i].id < validRevisions[j].id
                      /\ validRevisions[i].journalIndex <= validRevisions[j].journalIndex
      BY DEF IInv, RevisionsOK
    <2>3. \A j \in DOMAIN validRevisions : validRevisions[j].id < nextRevisionId
      BY DEF IInv, RevisionsOK
    <2>4. \A j \in DOMAIN validRevisions' :
             validRevisions'[j].journalIndex <= Len(journal'.entries)
      BY <1>1, <1>2, <2>1, <2>2
    <2>5. \A i, j \in DOMAIN validRevisions' :
             i < j => /\ validRevisions'[i].id < validRevisions'[j].id
                      /\ validRevisions'[i].journalIndex <= validRevisions'[j].journalIndex
      BY <1>1, <2>2, SMTT(30)
    <2>6. \A j \in DOMAIN validRevisions' : validRevisions'[j].id < nextRevisionId'
      BY <1>1, <1>2, <2>3
    <2> QED
      BY <1>1, <1>2, <2>4, <2>5, <2>6 DEF RevisionsOK
  <1>7. Scheduled'
    <2>1. \A j \in DOMAIN validRevisions :
             j <= target => DueAt(journal, Now, validRevisions[j].journalIndex, trie, Exempt)
      BY DEF IInv, Scheduled
    <2>2. DueAt(journal, Now, Len(journal.entries), trie, Exempt)
      BY <1>1, <1>2, <2>1, SMTT(30)
    <2>3. ASSUME NEW j \in DOMAIN validRevisions'
          PROVE  DueAt(journal, Now, validRevisions'[j].journalIndex, trie, Exempt)
      <3>1. j \in DOMAIN validRevisions /\ j <= target /\ validRevisions'[j] = validRevisions[j]
        BY <1>1, SMTT(30)
      <3> QED
        BY <2>1, <3>1
    <2> QED
      BY <1>2, <1>3, <2>2, <2>3 DEF Scheduled
  <1> QED
    BY <1>2, <1>4, <1>5, <1>6, <1>7 DEF IInv

-----------------------------------------------------------------------------
(***************************************************************************)
(* The end of a transaction                                                *)
(***************************************************************************)

\* The dirty accounts are those of the entries, and the sticky one.
LEMMA DirtyIs ==
    ASSUME IInv
    PROVE  Dirty = Touched(journal) \union Sticky
  <1> DEFINE es == journal.entries
  <1>1. Counted(journal, ripemdDirty) /\ ripemdDirty \in Nat /\ es \in Seq(Entry)
    BY StateFacts DEF Sound
  <1>2. ASSUME NEW a \in Address
        PROVE  journal.dirties[a] > 0 <=> a \in Touched(journal) \union Sticky
    <2> DEFINE c == Cardinality(Touches(es, a))
    <2>1. c \in Nat /\ IsFiniteSet(Touches(es, a))
      BY <1>1, TouchesFinite
    <2>2. c = 0 <=> Touches(es, a) = {}
      BY <2>1, FS_EmptySet
    <2>3. a \in Touched(journal) <=> Touches(es, a) # {}
      <3>1. DOMAIN es = 1..Len(es)
        BY <1>1, SeqMembers
      <3> QED
        BY <3>1 DEF Touched, TouchedIn, Touches
    <2>4. journal.dirties[a] = c + (IF a = Ripemd THEN ripemdDirty ELSE 0)
      BY <1>1 DEF Counted
    <2> HIDE DEF c
    <2>5. a \in Sticky <=> a = Ripemd /\ ripemdDirty > 0
      BY DEF Sticky
    <2> QED
      BY <1>1, <2>1, <2>2, <2>3, <2>4, <2>5, SMTT(30)
  <1>3. Touched(journal) \union Sticky \subseteq Address
    BY DEF Touched, TouchedIn, Sticky, IInv, Sticking
  <1> QED
    BY <1>2, <1>3 DEF Dirty

\* An account of an entry has an object; so has the sticky one, or there is no
\* such account.
LEMMA DirtyObjects ==
    ASSUME IInv
    PROVE  /\ \A a \in Touched(journal) : stateObjects[a].live
           /\ Touched(journal) \subseteq Due /\ Due \subseteq Touched(journal) \union Sticky
           /\ \A a \in Dirty \ Due : /\ a \in Sticky /\ ~stateObjects[a].live
                                     /\ ~trie[a].exists /\ trie[a] = NoAccount
                                     /\ Now.accounts[a] = NoAccount
  <1>1. \A a \in Touched(journal) : stateObjects[a].live
    <2> SUFFICES ASSUME NEW a \in Touched(journal) PROVE stateObjects[a].live
      OBVIOUS
    <2>1. PICK m \in 1..Len(journal.entries) : dirtied(journal.entries[m], a)
      BY DEF Touched, TouchedIn
    <2>2. journal.entries[m].kind \in AccountKinds /\ journal.entries[m].account = a
      BY <2>1 DEF dirtied, DirtyingKinds, AccountKinds, FieldKinds
    <2> QED
      BY <2>2, StateFacts DEF Sound, Linked
  <1>2. Touched(journal) \subseteq Due /\ Due \subseteq Touched(journal) \union Sticky
    BY <1>1, DirtyIs DEF Due
  <1>3. ASSUME NEW a \in Dirty \ Due
        PROVE  /\ a \in Sticky /\ ~stateObjects[a].live /\ ~trie[a].exists
               /\ trie[a] = NoAccount /\ Now.accounts[a] = NoAccount
    <2>1. a \in Sticky /\ ~stateObjects[a].live /\ a \in Address
      BY <1>2, DirtyIs DEF Due, Dirty
    <2>2. ~trie[a].exists
      BY <2>1 DEF Sticky, IInv, Sticking
    <2>3. trie[a] = NoAccount
      BY <2>1, <2>2, StateFacts, NewObject
    <2>4. Now.accounts[a] = NoAccount
      BY <2>1, <2>2, NowFields, NoObjectOK DEF Says, Stored
    <2> QED
      BY <2>1, <2>2, <2>3, <2>4
  <1> QED
    BY <1>1, <1>2, <1>3

Blank(v) == v.nonce = 0 /\ v.balance = 0 /\ v.code = 0

\* What is read of an account after Finalise.
Ended(a, d) ==
    LET v == Now.accounts[a]
    IN  IF a \in Dirty /\ (v.suicided \/ (d /\ Blank(v))) THEN NoAccount ELSE v

\* The mark of a deleted object.
LEMMA DeletedObject ==
    ASSUME NEW o, ObjectOK(o), o.live
    PROVE  LET r == [o EXCEPT !.deleted = TRUE]
           IN  ObjectOK(r) /\ r.live /\ r.deleted /\ Account(r) = NoAccount
  <1> DEFINE r == [o EXCEPT !.deleted = TRUE]
  <1>1. o \in Object
    BY DEF ObjectOK
  <1>2. r \in Object /\ r.live /\ r.deleted /\ r.root = o.root
        /\ r.originStorage = o.originStorage /\ r.pendingStorage = o.pendingStorage
        /\ r.dirtyStorage = o.dirtyStorage
    BY <1>1 DEF Object
  <1> HIDE DEF r
  <1>3. ObjectOK(r)
    BY <1>2 DEF ObjectOK
  <1> QED
    BY <1>2, <1>3 DEF Account, Usable, r

\* Finalise deletes a suicided or empty dirty object, and keeps what the others
\* say.
LEMMA FinalisedObject ==
    ASSUME IInv, NEW a \in Address, NEW d \in BOOLEAN
    PROVE  LET f == finalised(a, d)
           IN  /\ ObjectOK(f) /\ (f.live <=> stateObjects[a].live)
               /\ f.live => Account(f) = Ended(a, d)
               /\ ~f.live => Ended(a, d) = Now.accounts[a]
  <1> DEFINE o == stateObjects[a]
             f == finalised(a, d)
             v == Now.accounts[a]
  <1>1. ObjectOK(o)
    BY StateFacts DEF Sound, ObjectsOK
  <1>2. o.live => v = Account(o)
    BY NowFields DEF Says, Stored
  <1>3. CASE a \notin Dirty
    <2>1. f = o
      BY <1>3 DEF finalised
    <2>2. Ended(a, d) = v
      BY <1>3 DEF Ended
    <2> QED
      BY <1>1, <1>2, <2>1, <2>2
  <1>4. CASE a \in Dirty /\ ~o.live
    <2>1. f = o
      BY <1>4 DEF finalised
    <2>2. v = NoAccount
      BY <1>4, DirtyObjects DEF Due
    <2>3. Ended(a, d) = v
      BY <2>2 DEF Ended
    <2> QED
      BY <1>1, <1>4, <2>1, <2>3
  <1>5. CASE a \in Dirty /\ o.live
    <2>1. CASE o.suicided \/ (d /\ empty(o))
      <3>1. f = [o EXCEPT !.deleted = TRUE]
        BY <1>5, <2>1 DEF finalised
      <3>2. ObjectOK(f) /\ f.live /\ Account(f) = NoAccount
        <4> HIDE DEF o, f
        <4> QED
          BY <1>1, <1>5, <3>1, DeletedObject
      <3>3. Ended(a, d) = NoAccount
        <4>1. CASE o.deleted
          BY <1>2, <1>5, <4>1 DEF Ended, Account, Usable
        <4>2. CASE ~o.deleted
          <5>1. v.suicided = o.suicided /\ v.nonce = o.nonce /\ v.balance = o.balance /\ v.code = o.code
            BY <1>2, <1>5, <4>2, SMTT(30) DEF Account, Usable
          <5> QED
            BY <1>5, <2>1, <5>1 DEF Ended, Blank, empty
        <4> QED
          BY <4>1, <4>2
      <3> QED
        BY <1>5, <3>2, <3>3
    <2>2. CASE ~(o.suicided \/ (d /\ empty(o)))
      <3>1. f = finalise(o)
        BY <1>5, <2>2 DEF finalised
      <3>2. ObjectOK(f) /\ f.live /\ Account(f) = Account(o)
        <4> HIDE DEF o, f
        <4> QED
          BY <1>1, <1>5, <3>1, FinaliseObject
      <3>3. Ended(a, d) = v
        <4>1. CASE o.deleted
          BY <1>2, <1>5, <4>1 DEF Ended, Account, Usable
        <4>2. CASE ~o.deleted
          <5>1. v.suicided = o.suicided /\ v.nonce = o.nonce /\ v.balance = o.balance /\ v.code = o.code
            BY <1>2, <1>5, <4>2, SMTT(30) DEF Account, Usable
          <5> QED
            BY <2>2, <5>1 DEF Ended, Blank, empty
        <4> QED
          BY <4>1, <4>2
      <3> QED
        BY <1>2, <1>5, <3>2, <3>3
    <2> QED
      BY <2>1, <2>2
  <1> QED
    BY <1>3, <1>4, <1>5

\* The trie keeps an account of the chain as it is.
LEMMA KeptAccount ==
    ASSUME NEW v \in ChainAccount
    PROVE  v \in ReadAccount /\ Kept(v) = v
  <1>1. NoAccount \in ReadAccount /\ NoAccount.suicided = FALSE
    BY ValueFacts DEF NoAccount, Zeros, ReadAccount
  <1>2. v \in ReadAccount /\ v.suicided = FALSE
    BY <1>1 DEF ChainAccount, ReadAccount
  <1>3. Kept(v) \in ReadAccount /\ Kept(v).exists = v.exists /\ Kept(v).nonce = v.nonce
        /\ Kept(v).balance = v.balance /\ Kept(v).code = v.code
        /\ Kept(v).storage = v.storage /\ Kept(v).suicided = FALSE
    BY <1>2 DEF Kept, ReadAccount
  <1> QED
    BY <1>2, <1>3, SameAccount

\* An object in the schedule is in the trie with what is read of it.
LEMMA RootedObject ==
    ASSUME IInv, NEW a \in Address, NEW d \in BOOLEAN
    PROVE  LET r == rooted(a, d)
           IN  /\ ObjectOK(r) /\ (r.live <=> stateObjects[a].live)
               /\ r.live => Account(r) = Ended(a, d)
               /\ a \in stateObjectsPending \union Due =>
                     encoded(r) \in ChainAccount /\ encoded(r) = Kept(Ended(a, d))
  <1> DEFINE f == finalised(a, d)
             r == rooted(a, d)
             v == Ended(a, d)
  <1>1. ObjectOK(f) /\ (f.live <=> stateObjects[a].live)
        /\ (f.live => Account(f) = v)
    BY FinalisedObject
  <1>2. \A b \in stateObjectsPending \union Due : stateObjects[b].live
    BY StateFacts DEF Sound, ObjectsOK, Due, Waiting
  <1>3. CASE a \in stateObjectsPending \union Due /\ ~f.deleted
    <2>1. r = updateTrie(f) /\ f.live
      BY <1>1, <1>2, <1>3 DEF rooted
    <2> HIDE DEF f, r, v
    <2>2. ObjectOK(r) /\ r.live /\ r.deleted = f.deleted /\ Account(r) = v
          /\ r.root = [k \in Slot |-> GetState(f, k)]
      BY <1>1, <2>1, UpdateTrie
    <2>3. ~r.deleted
      BY <1>3, <2>2
    <2>4. r.root = v.storage
      BY <1>1, <1>3, <2>1, <2>2 DEF Account, Usable
    <2>5. v.exists = TRUE /\ v.nonce = r.nonce /\ v.balance = r.balance /\ v.code = r.code
          /\ v \in ReadAccount
      BY <2>2, <2>3, AccountType DEF Account, Usable
    <2>6. r \in Object
      BY <2>2 DEF ObjectOK
    <2>7. encoded(r) = [exists |-> TRUE, nonce |-> r.nonce, balance |-> r.balance,
                        code |-> r.code, storage |-> r.root, suicided |-> FALSE]
      BY <2>3 DEF encoded
    <2>8. encoded(r) \in ChainAccount
      BY <2>6, <2>7, SMTT(30) DEF ChainAccount, Object
    <2>9. encoded(r) = Kept(v)
      <3> DEFINE w == encoded(r)
                 k == Kept(v)
      <3>1. w \in ReadAccount /\ w.exists = TRUE /\ w.nonce = r.nonce /\ w.balance = r.balance
            /\ w.code = r.code /\ w.storage = r.root /\ w.suicided = FALSE
        BY <2>6, <2>7, SMTT(30) DEF ReadAccount, Object
      <3>2. k \in ReadAccount /\ k.exists = v.exists /\ k.nonce = v.nonce /\ k.balance = v.balance
            /\ k.code = v.code /\ k.storage = v.storage /\ k.suicided = FALSE
        BY <2>5 DEF Kept, ReadAccount
      <3> HIDE DEF w, k
      <3>3. w = k
        BY <2>4, <2>5, <3>1, <3>2, SameAccount
      <3> QED
        BY <3>3 DEF w, k
    <2> QED
      BY <1>1, <2>1, <2>2, <2>8, <2>9 DEF r, v
  <1>4. CASE ~(a \in stateObjectsPending \union Due /\ ~f.deleted)
    <2>1. r = f
      BY <1>4 DEF rooted
    <2>2. ASSUME a \in stateObjectsPending \union Due
          PROVE  encoded(r) \in ChainAccount /\ encoded(r) = Kept(v)
      <3>1. f.deleted /\ f.live
        BY <1>1, <1>2, <1>4, <2>2
      <3>2. encoded(r) = NoAccount
        BY <2>1, <3>1 DEF encoded
      <3>3. v = NoAccount
        BY <1>1, <3>1 DEF Account, Usable
      <3>4. Kept(NoAccount) = NoAccount
        BY KeptAccount, NoObjectOK
      <3> QED
        BY <3>2, <3>3, <3>4, NoObjectOK
    <2> HIDE DEF f, r, v
    <2> QED
      BY <1>1, <2>1, <2>2 DEF r, v
  <1> QED
    BY <1>3, <1>4

\* Commit leaves every account reading as Finalise left it.
LEMMA CommittedObject ==
    ASSUME IInv, NEW a \in Address, NEW d \in BOOLEAN
    PROVE  LET c == committedObject(a, d)
           IN  /\ ObjectOK(c) /\ (c.live <=> stateObjects[a].live)
               /\ c.live => Account(c) = Ended(a, d)
  <1> DEFINE r == rooted(a, d)
             c == committedObject(a, d)
             v == Ended(a, d)
  <1>1. ObjectOK(r) /\ (r.live <=> stateObjects[a].live) /\ (r.live => Account(r) = v)
    BY RootedObject
  <1>2. \A b \in stateObjectsDirty \union Due : stateObjects[b].live
    BY StateFacts DEF Sound, ObjectsOK, Due, Waiting
  <1>3. CASE a \in stateObjectsDirty \union Due /\ ~r.deleted
    <2>1. c = updateTrie(r) /\ r.live
      BY <1>1, <1>2, <1>3 DEF committedObject
    <2> HIDE DEF r, c, v
    <2>2. ObjectOK(c) /\ c.live /\ Account(c) = v
      BY <1>1, <2>1, UpdateTrie
    <2> QED
      BY <1>1, <2>1, <2>2 DEF c, v
  <1>4. CASE ~(a \in stateObjectsDirty \union Due /\ ~r.deleted)
    <2>1. c = r
      BY <1>4 DEF committedObject
    <2> HIDE DEF r, c, v
    <2> QED
      BY <1>1, <2>1 DEF c, v
  <1> QED
    BY <1>3, <1>4

\* After clearJournalAndRefund the journal has no entry.
LEMMA ClearStep ==
    ASSUME IInv, clearJournalAndRefund
    PROVE  /\ journal'.entries = <<>> /\ Len(journal'.entries) = 0 /\ Touched(journal') = {}
           /\ \A n \in Found : Chained(journal', n)
           /\ Counted(journal', ripemdDirty')
           /\ ripemdDirty' \in {0, ripemdDirty} /\ ripemdDirty' \in Nat
           /\ \A objs, tr, S : Linked(journal'.entries, objs, tr, S)
           /\ validRevisions' = <<>>
  <1>1. journal'.entries = <<>> /\ validRevisions' = <<>>
        /\ ripemdDirty' \in {0, ripemdDirty}
    BY SMTT(30) DEF clearJournalAndRefund, newJournal
  <1>2. ripemdDirty' \in Nat /\ Len(journal'.entries) = 0
    BY <1>1, StateFacts, SMTT(30)
  <1>3. journal'.past \in Seq(Found) /\ Len(journal'.past) = 0
    <2>1. CASE journal.entries # <<>>
      <3>1. journal'.past = <<>>
        BY <2>1, SMTT(30) DEF clearJournalAndRefund, newJournal
      <3> QED
        BY <3>1, SMTT(30)
    <2>2. CASE journal.entries = <<>>
      <3>1. journal' = journal
        BY <2>2 DEF clearJournalAndRefund
      <3> QED
        BY <2>2, <3>1, StateFacts DEF Sound, Chained
    <2> QED
      BY <2>1, <2>2
  <1>4. \A n \in Found : Chained(journal', n)
    BY <1>1, <1>2, <1>3, SMTT(30) DEF Chained
  <1>5. Counted(journal', ripemdDirty')
    <2>1. CASE journal.entries # <<>>
      <3>1. journal' = newJournal /\ ripemdDirty' = 0
        BY <2>1 DEF clearJournalAndRefund
      <3>2. newJournal.entries = <<>> /\ newJournal.dirties = [a \in Address |-> 0]
        BY DEF newJournal
      <3>3. \A a \in Address : Touches(newJournal.entries, a) = {}
        BY <3>2, SMTT(30) DEF Touches
      <3>4. Cardinality({}) = 0
        BY FS_EmptySet
      <3> QED
        BY <3>1, <3>2, <3>3, <3>4, SMTT(30) DEF Counted
    <2>2. CASE journal.entries = <<>>
      <3>1. journal' = journal /\ ripemdDirty' = ripemdDirty
        BY <2>2 DEF clearJournalAndRefund
      <3> QED
        BY <3>1, StateFacts DEF Sound
    <2> QED
      BY <2>1, <2>2
  <1>6. \A objs, tr, S : Linked(journal'.entries, objs, tr, S)
    BY <1>2, SMTT(30) DEF Linked
  <1>7. Touched(journal') = {}
    BY <1>2, SMTT(30) DEF Touched, TouchedIn
  <1> QED
    BY <1>1, <1>2, <1>4, <1>5, <1>6, <1>7

\* Finalise, IntermediateRoot and Commit: every account is read as Ended, and
\* the accounts of the schedule stay in it or are in the trie.
Closes(d) ==
    LET due == stateObjectsPending \union Due
    IN  /\ clearJournalAndRefund
        /\ stateObjects' \in [Address -> Object]
        /\ \A a \in Address : /\ ObjectOK(stateObjects'[a])
                              /\ stateObjects'[a].live <=> stateObjects[a].live
                              /\ stateObjects'[a].live => Account(stateObjects'[a]) = Ended(a, d)
        /\ trie' \in [Address -> ChainAccount]
        /\ \/ /\ trie' = trie /\ stateObjectsPending' = due /\ replaced' = replaced
           \/ /\ \A a \in Address : trie'[a] = IF a \in due THEN Kept(Ended(a, d)) ELSE trie[a]
              /\ stateObjectsPending' = {} /\ replaced' = replaced \ due
        /\ stateObjectsDirty' = stateObjectsDirty \union Due
        /\ UNCHANGED <<phase, nextRevisionId, accessList, preimages, loadRemote, cached>>

\* The end of a transaction keeps the database sound: it removes the accounts that are due to be
\* removed, and leaves every other account as it was.
LEMMA CloseStep ==
    ASSUME IInv, NEW d \in BOOLEAN, Closes(d)
    PROVE  /\ Sound(journal', stateObjects', Now', trie', Waiting', ripemdDirty')
           /\ \A a \in Address : Now'.accounts[a] = Ended(a, d)
           /\ \A a \in Address : a \in Dirty \/ Ended(a, d) = Now.accounts[a]
           /\ \A a \in stateObjectsPending \union Due : stateObjects[a].live
           /\ Now'.accessList = Now.accessList /\ Now'.preimages = Now.preimages
  <1> DEFINE due == stateObjectsPending \union Due
  <1>1. /\ \A n \in Found : Chained(journal', n)
        /\ Counted(journal', ripemdDirty')
        /\ \A objs, tr, S : Linked(journal'.entries, objs, tr, S)
    BY ClearStep DEF Closes
  <1>2. \A a \in due : stateObjects[a].live
    BY StateFacts DEF Sound, ObjectsOK, Due, Waiting
  <1>3. Waiting' \subseteq Waiting \union Due /\ \A a \in Waiting \union Due : stateObjects[a].live
        /\ Waiting \union Due \subseteq Address
    <2>1. stateObjectsPending' \subseteq due
      BY DEF Closes
    <2> QED
      BY <2>1, StateFacts DEF Closes, Waiting, Sound, ObjectsOK, Due, Dirty
  <1>4. ObjectsOK(stateObjects', Waiting')
    BY <1>3 DEF Closes, ObjectsOK
  <1>5. trie' \in [Address -> ChainAccount]
    BY DEF Closes
  <1>6. ASSUME NEW a \in Address PROVE Says(stateObjects', trie')[a] = Ended(a, d)
    <2>1. CASE stateObjects'[a].live
      BY <2>1 DEF Says, Stored, Closes
    <2>2. CASE ~stateObjects'[a].live
      <3>1. a \notin due /\ ~stateObjects[a].live
        BY <1>2, <2>2 DEF Closes
      <3>2. trie'[a] = trie[a]
        BY <3>1 DEF Closes
      <3>3. Says(stateObjects', trie')[a] = Now.accounts[a]
        BY <2>2, <3>1, <3>2, NowFields DEF Says, Stored
      <3>4. finalised(a, d).live <=> stateObjects[a].live
        BY FinalisedObject
      <3>5. Ended(a, d) = Now.accounts[a]
        BY <3>1, <3>4, FinalisedObject
      <3> QED
        BY <3>3, <3>5
    <2> QED
      BY <2>1, <2>2
  <1>7. Now'.accounts = Says(stateObjects', trie') /\ Now'.accessList = Now.accessList
        /\ Now'.preimages = Now.preimages
    BY NowFields, StateFacts DEF Closes
  <1>8. Now' \in Found
    <2>1. Says(stateObjects', trie') \in [Address -> ReadAccount]
      <3> DEFINE objs == stateObjects'
                 tr == trie'
                 S == Waiting'
      <3>1. ObjectsOK(objs, S) /\ tr \in [Address -> ChainAccount]
        BY <1>4, <1>5
      <3> HIDE DEF objs, tr, S
      <3>2. Says(objs, tr) \in [Address -> ReadAccount]
        BY <3>1, SaysType
      <3> QED
        BY <3>2 DEF objs, tr
    <2>2. accessList' \in AccessList /\ preimages' \in SUBSET Preimage
      BY StateFacts DEF Closes, AccessList, AccessListOK
    <2> QED
      BY <2>1, <2>2, NowFields DEF Found
  <1>9. Sound(journal', stateObjects', Now', trie', Waiting', ripemdDirty')
    BY <1>1, <1>4, <1>5, <1>7, <1>8 DEF Sound
  <1>10. \A a \in Address : a \in Dirty \/ Ended(a, d) = Now.accounts[a]
    BY DEF Ended
  <1> QED
    BY <1>2, <1>6, <1>7, <1>9, <1>10

\* A step that closes a transaction preserves the invariant.
LEMMA CloseInv ==
    ASSUME IInv, NEW d \in BOOLEAN, Closes(d), phase = "run", budget' \in Nat,
           UNCHANGED <<target, work>>
    PROVE  IInv'
  <1> DEFINE due == stateObjectsPending \union Due
  <1>1. /\ Sound(journal', stateObjects', Now', trie', Waiting', ripemdDirty')
        /\ \A a \in Address : Now'.accounts[a] = Ended(a, d)
        /\ \A a \in Address : a \in Dirty \/ Ended(a, d) = Now.accounts[a]
        /\ \A a \in due : stateObjects[a].live
    BY CloseStep
  <1>2. /\ journal'.entries = <<>> /\ Len(journal'.entries) = 0 /\ validRevisions' = <<>>
        /\ ripemdDirty' \in {0, ripemdDirty} /\ ripemdDirty' \in Nat
    BY ClearStep DEF Closes
  <1>3. TypeOK'
    <2>1. Due \subseteq Address
      BY DEF Due, Dirty
    <2> QED
      BY <1>2, <2>1 DEF IInv, TypeOK, Closes
  <1>4. Fetching'
    <2> SUFFICES ASSUME NEW a \in Address, a \notin cached
                 PROVE  ~stateObjects'[a].live /\ trie'[a] = work'.chain[a]
      BY DEF Fetching, Closes
    <2>1. ~stateObjects[a].live /\ trie[a] = work.chain[a]
      BY DEF IInv, Fetching
    <2>2. a \notin due
      BY <1>1, <2>1
    <2> QED
      BY <2>1, <2>2 DEF Closes
  <1>5. Sticking'
    <2> SUFFICES ASSUME ripemdDirty' > 0
                 PROVE  Ripemd \in Address /\ (stateObjects'[Ripemd].live \/ ~trie'[Ripemd].exists)
      BY DEF Sticking
    <2>1. Ripemd \in Address /\ (stateObjects[Ripemd].live \/ ~trie[Ripemd].exists)
      BY <1>2, SMTT(30) DEF IInv, Sticking
    <2>2. ~stateObjects[Ripemd].live => trie'[Ripemd] = trie[Ripemd]
      BY <1>1, <2>1 DEF Closes
    <2> QED
      BY <2>1, <2>2 DEF Closes
  <1>6. RevisionsOK'
    BY <1>2, SMTT(30) DEF RevisionsOK, Closes
  <1>7. ASSUME NEW a \in Address
        PROVE  Kept(Now'.accounts[a]) = trie'[a] \/ a \in Exempt'
    <2>1. CASE a \in due /\ stateObjectsPending' = due
      BY <2>1 DEF Exempt
    <2>2. CASE a \in due /\ stateObjectsPending' # due
      <3>1. trie'[a] = Kept(Ended(a, d))
        BY <2>2 DEF Closes
      <3> QED
        BY <1>1, <3>1
    <2>3. CASE a \notin due
      <3>1. trie'[a] = trie[a] /\ (a \in replaced => a \in Exempt')
        BY <2>3 DEF Closes, Exempt
      <3>2. CASE a \in Dirty
        <4>1. trie[a] = NoAccount /\ Now.accounts[a] = NoAccount
          BY <2>3, <3>2, DirtyObjects
        <4>2. Ended(a, d) = NoAccount
          BY <4>1 DEF Ended
        <4> QED
          BY <1>1, <3>1, <4>1, <4>2, KeptAccount, NoObjectOK
      <3>3. CASE a \notin Dirty
        <4>1. Now'.accounts[a] = Now.accounts[a]
          BY <1>1, <3>3
        <4>2. \/ Kept(Now.accounts[a]) = trie[a]
              \/ a \in Touched(journal) \union Exempt
          <5>1. DueAt(journal, Now, Len(journal.entries), trie, Exempt)
            BY DEF IInv, Scheduled
          <5>2. FoundAt(journal, Now, Len(journal.entries)) = Now
            BY StateFacts, SMTT(30) DEF FoundAt
          <5> QED
            BY <5>1, <5>2 DEF DueAt, Touched
        <4>3. a \notin Touched(journal) \union Sticky
          BY <3>3, DirtyIs
        <4> QED
          BY <2>3, <3>1, <4>1, <4>2, <4>3 DEF Exempt
      <3> QED
        BY <3>2, <3>3
    <2> QED
      BY <2>1, <2>2, <2>3
  <1>8. Scheduled'
    <2>1. FoundAt(journal', Now', Len(journal'.entries)) = Now'
      BY <1>2, SMTT(30) DEF FoundAt
    <2>2. DueAt(journal', Now', Len(journal'.entries), trie', Exempt')
      BY <1>7, <2>1 DEF DueAt
    <2> QED
      BY <1>2, <2>2, SMTT(30) DEF Scheduled
  <1> QED
    BY <1>1, <1>3, <1>4, <1>5, <1>6, <1>8 DEF IInv, Closes

\* Finalise closes the transaction.
LEMMA FinaliseCloses ==
    ASSUME IInv, NEW d \in BOOLEAN, Finalise(d)
    PROVE  Closes(d)
  <1>1. stateObjects' = [a \in Address |-> finalised(a, d)]
    BY DEF Finalise
  <1>2. ASSUME NEW a \in Address
        PROVE  /\ ObjectOK(stateObjects'[a]) /\ stateObjects'[a] \in Object
               /\ stateObjects'[a].live <=> stateObjects[a].live
               /\ stateObjects'[a].live => Account(stateObjects'[a]) = Ended(a, d)
    BY <1>1, FinalisedObject, SMTT(30) DEF ObjectOK
  <1>3. stateObjects' \in [Address -> Object]
    BY <1>1, <1>2
  <1> QED
    BY <1>2, <1>3, StateFacts DEF Closes, Finalise

\* IntermediateRoot and Commit close the transaction and find every object they dereference.
LEMMA RootCloses ==
    ASSUME IInv, NEW d \in BOOLEAN, IntermediateRoot(d) \/ Commit(d)
    PROVE  Closes(d)
  <1> DEFINE due == stateObjectsPending \union Due
  <1>1. \A a \in due \union stateObjectsDirty : stateObjects[a].live
    BY StateFacts DEF Sound, ObjectsOK, Due, Waiting
  <1>2. ASSUME NEW a \in Address
        PROVE  /\ ObjectOK(stateObjects'[a]) /\ stateObjects'[a] \in Object
               /\ stateObjects'[a].live <=> stateObjects[a].live
               /\ stateObjects'[a].live => Account(stateObjects'[a]) = Ended(a, d)
    <2>1. CASE IntermediateRoot(d)
      <3>1. stateObjects'[a] = rooted(a, d)
        BY <1>1, <2>1 DEF IntermediateRoot
      <3> QED
        BY <3>1, RootedObject, SMTT(30) DEF ObjectOK
    <2>2. CASE Commit(d)
      <3>1. stateObjects'[a] = committedObject(a, d)
        BY <1>1, <2>2 DEF Commit
      <3> QED
        BY <3>1, CommittedObject, SMTT(30) DEF ObjectOK
    <2> QED
      BY <2>1, <2>2
  <1>3. /\ DOMAIN stateObjects' = Address
        /\ \E f : stateObjects' = [a \in Address |-> f[a]]
        /\ trie' = [a \in Address |-> IF a \in due THEN encoded(rooted(a, d)) ELSE trie[a]]
        /\ stateObjectsPending' = {} /\ replaced' = replaced \ due
        /\ stateObjectsDirty' = stateObjectsDirty \union Due
        /\ clearJournalAndRefund
        /\ UNCHANGED <<phase, nextRevisionId, accessList, preimages, loadRemote, cached>>
    <2>1. CASE IntermediateRoot(d)
      BY <1>1, <2>1 DEF IntermediateRoot
    <2>2. CASE Commit(d)
      BY <1>1, <2>2 DEF Commit
    <2> QED
      BY <2>1, <2>2
  <1>4. stateObjects' \in [Address -> Object]
    BY <1>2, <1>3
  <1>5. ASSUME NEW a \in Address
        PROVE  /\ trie'[a] \in ChainAccount
               /\ trie'[a] = IF a \in due THEN Kept(Ended(a, d)) ELSE trie[a]
    <2>1. trie[a] \in ChainAccount
      BY StateFacts
    <2>2. a \in due => encoded(rooted(a, d)) \in ChainAccount
                       /\ encoded(rooted(a, d)) = Kept(Ended(a, d))
      BY RootedObject
    <2> QED
      BY <1>3, <2>1, <2>2
  <1>6. trie' \in [Address -> ChainAccount]
    BY <1>3, <1>5
  <1> QED
    BY <1>2, <1>3, <1>4, <1>5, <1>6 DEF Closes

\* The end of a transaction keeps the invariant; in particular every account
\* that is scheduled has an object, so none of the three panics.
LEMMA EndTransactionInv ==
    ASSUME IInv, NEW d \in BOOLEAN, EndTransaction(d)
    PROVE  IInv'
  <1>1. phase = "run" /\ budget' \in Nat /\ UNCHANGED <<target, work>>
    BY SMTT(30) DEF EndTransaction, IInv, TypeOK
  <1>2. Closes(d)
    BY FinaliseCloses, RootCloses DEF EndTransaction
  <1> QED
    BY <1>1, <1>2, CloseInv

-----------------------------------------------------------------------------
(***************************************************************************)
(* The theorems                                                            *)
(***************************************************************************)

\* A new database, with no object and an empty journal, over the trie of the
\* chain.
LEMMA InitInv == ASSUME Init PROVE IInv
  <1>1. /\ trie \in [Address -> ChainAccount] /\ cached \subseteq Address /\ budget \in Nat
        /\ trie = work.chain
    BY WorkloadAssumption DEF Init
  <1>2. journal.entries = <<>> /\ journal.past = <<>> /\ journal.dirties = [a \in Address |-> 0]
    BY DEF Init, newJournal
  <1>3. TypeOK /\ phase # "panic" /\ Fetching /\ Sticking /\ RevisionsOK
    BY <1>1, NoObjectOK, SMTT(30) DEF Init, TypeOK, Fetching, Sticking, RevisionsOK
  <1>4. ObjectsOK(stateObjects, Waiting)
    BY NoObjectOK DEF Init, ObjectsOK, ObjectOK, Waiting
  <1>5. AccessListOK(accessList) /\ accessList \in AccessList
    <2>1. AccessListOK(newAccessList) /\ accessList = newAccessList
      BY NewAccessList DEF Init
    <2> QED
      BY <2>1 DEF AccessList, AccessListOK
  <1>6. Now.accounts = Says(stateObjects, trie) /\ Now \in Found
        /\ Now.accessList = accessList /\ Now.preimages = preimages
    <2>1. Says(stateObjects, trie) \in [Address -> ReadAccount]
      BY <1>1, <1>4, SaysType
    <2> QED
      BY <1>5, <2>1, NowFields DEF Found, Init
  <1>7. Chained(journal, Now)
    BY <1>2, <1>6, SMTT(30) DEF Chained
  <1>8. Linked(journal.entries, stateObjects, trie, Waiting)
    BY <1>2, SMTT(30) DEF Linked
  <1>9. Counted(journal, ripemdDirty)
    <2>1. \A a \in Address : Touches(journal.entries, a) = {}
      BY <1>2, SMTT(30) DEF Touches
    <2>2. Cardinality({}) = 0
      BY FS_EmptySet
    <2>3. \A a \in Address : journal.dirties[a] = 0 /\ ripemdDirty = 0
      BY <1>2 DEF Init
    <2>4. journal.dirties \in [Address -> Nat]
      BY <1>2, SMTT(30)
    <2>5. ASSUME NEW a \in Address
          PROVE  journal.dirties[a] = Cardinality(Touches(journal.entries, a))
                                        + (IF a = Ripemd THEN ripemdDirty ELSE 0)
      <3>1. Cardinality(Touches(journal.entries, a)) = 0
        BY <2>1, <2>2
      <3> QED
        BY <2>3, <3>1, SMTT(30)
    <2> QED
      BY <2>4, <2>5 DEF Counted
  <1>10. Sound(journal, stateObjects, Now, trie, Waiting, ripemdDirty)
    BY <1>1, <1>4, <1>6, <1>7, <1>8, <1>9 DEF Sound
  <1>11. \A a \in Address : Kept(Now.accounts[a]) = trie[a]
    <2> SUFFICES ASSUME NEW a \in Address PROVE Kept(Now.accounts[a]) = trie[a]
      OBVIOUS
    <2>1. stateObjects[a] = NoObject /\ ~stateObjects[a].live
      BY NoObjectOK DEF Init
    <2>2. Now.accounts[a] = trie[a]
      BY <1>1, <1>6, <2>1, NewObject, NoObjectOK DEF Says, Stored
    <2> QED
      BY <1>1, <2>2, KeptAccount
  <1>12. Scheduled
    <2>1. FoundAt(journal, Now, Len(journal.entries)) = Now
      BY SMTT(30) DEF FoundAt
    <2>2. DueAt(journal, Now, Len(journal.entries), trie, Exempt)
      BY <1>11, <2>1 DEF DueAt
    <2> QED
      BY <2>2, SMTT(30) DEF Scheduled, Init
  <1> QED
    BY <1>3, <1>10, <1>12 DEF IInv

=============================================================================
