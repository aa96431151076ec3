----------------------- MODULE WitnessStateDBInvariant -----------------------
(***************************************************************************)
(* The inductive invariant of the state database.                          *)
(*                                                                         *)
(* journal.past remembers what every entry found.  The heart of the        *)
(* invariant is Chained: undoing entry i on what entry i + 1 found gives   *)
(* what entry i found, so a revert, which undoes the entries from the last *)
(* one down to a snapshot, ends where the snapshot was taken.  The rest    *)
(* says that an undo always meets the object it needs: the accounts of the *)
(* entries have objects (Linked), an object that replaced another one      *)
(* gives it back with its caches, and what is scheduled has an object.     *)
(***************************************************************************)
EXTENDS WitnessStateDB, FiniteSetTheorems, TLAPS

USE ZenonT(40), SMTT(30)

Cache == Value \union {Absent}

Object ==
    [live : BOOLEAN, nonce : Value, balance : Value, code : Value,
     root : [Slot -> Value], originStorage : [Slot -> Cache],
     pendingStorage : [Slot -> Cache], dirtyStorage : [Slot -> Cache],
     suicided : BOOLEAN, deleted : BOOLEAN]

\* A cached value is that of the storage trie, and a slot is written only
\* after it was read.
ObjectOK(o) ==
    /\ o \in Object
    /\ ~o.live => o = NoObject
    /\ \A k \in Slot :
          /\ o.originStorage[k] # Absent => o.originStorage[k] = o.root[k]
          /\ o.dirtyStorage[k] # Absent \/ o.pendingStorage[k] # Absent
                => o.originStorage[k] # Absent

ReadAccount ==
    [exists : BOOLEAN, nonce : Value, balance : Value, code : Value,
     storage : [Slot -> Value], suicided : BOOLEAN]

\* Indices are those of slot sets, no set is empty and none is shared.
AccessListOK(al) ==
    /\ al \in [addresses : [Address -> Int], slots : Seq(SUBSET Slot)]
    /\ \A a \in Address : al.addresses[a] \in Missing..(Len(al.slots) - 1)
    /\ \A i \in 1..Len(al.slots) : al.slots[i] # {}
    /\ \A a, b \in Address :
          al.addresses[a] = al.addresses[b] /\ al.addresses[a] >= 0 => a = b

AccessList ==
    {al \in [addresses : [Address -> Int], slots : Seq(SUBSET Slot)] : AccessListOK(al)}

\* What an entry found.
Found == [accounts : [Address -> ReadAccount], accessList : AccessList,
          preimages : SUBSET Preimage]

FieldKinds == {"balance", "nonce", "code"}
AccountKinds == FieldKinds \union {"storage", "suicide", "touch", "createObject", "resetObject"}
ReplacingKinds == {"createObject", "resetObject"}

Entry ==
    [kind : FieldKinds, account : Address, prev : Value]
    \union [kind : {"storage"}, account : Address, key : Slot, prev : Value]
    \union [kind : {"suicide"}, account : Address, was : BOOLEAN, prev : Value]
    \union [kind : {"touch", "createObject", "accessListAddAccount"}, account : Address]
    \union [kind : {"resetObject"}, account : Address,
            prev : {o \in Object : ObjectOK(o) /\ o.live}]
    \union [kind : {"accessListAddSlot"}, account : Address, key : Slot]
    \union [kind : {"addPreimage"}, hash : Preimage]

\* The undo of an entry finds what it works on.
Able(e, n) ==
    /\ e.kind \in LoadingKinds => n.accounts[e.account].exists
    /\ e.kind = "accessListAddSlot" => n.accessList.addresses[e.account] >= 0

\* What an undo does to what the database says.
SetBack(e, acc) ==
    CASE e.kind = "createObject" -> NoAccount
      [] e.kind = "resetObject" -> Account(e.prev)
      [] e.kind = "suicide" -> [acc EXCEPT !.suicided = e.was, !.balance = e.prev]
      [] e.kind = "balance" -> [acc EXCEPT !.balance = e.prev]
      [] e.kind = "nonce" -> [acc EXCEPT !.nonce = e.prev]
      [] e.kind = "code" -> [acc EXCEPT !.code = e.prev]
      [] e.kind = "storage" -> [acc EXCEPT !.storage[e.key] = e.prev]
      [] e.kind = "touch" -> acc

CooledBy(e, al) ==
    CASE e.kind = "accessListAddAccount" -> [al EXCEPT !.addresses[e.account] = Missing]
      [] e.kind = "accessListAddSlot" -> deleteSlot(al, e.account, e.key)
      [] OTHER -> al

Before(e, n) ==
    [accounts |-> IF e.kind \in AccountKinds
                  THEN [n.accounts EXCEPT ![e.account] = SetBack(e, n.accounts[e.account])]
                  ELSE n.accounts,
     accessList |-> CooledBy(e, n.accessList),
     preimages |-> IF e.kind = "addPreimage" THEN n.preimages \ {e.hash}
                   ELSE n.preimages]

\* What was there when the journal had i entries, given what is there now.
FoundAt(j, now, i) == IF i < Len(j.entries) THEN j.past[i + 1] ELSE now

Chained(j, now) ==
    /\ j.entries \in Seq(Entry)
    /\ j.past \in Seq(Found)
    /\ Len(j.past) = Len(j.entries)
    /\ now \in Found
    /\ \A i \in 1..Len(j.entries) :
          /\ Able(j.entries[i], FoundAt(j, now, i))
          /\ Before(j.entries[i], FoundAt(j, now, i)) = FoundAt(j, now, i - 1)

Touches(es, a) == {i \in DOMAIN es : dirtied(es[i], a)}

\* The dirty counts: the entries of an account, and the calls of dirty.
Counted(j, extra) ==
    /\ j.dirties \in [Address -> Nat]
    /\ \A a \in Address :
          j.dirties[a] = Cardinality(Touches(j.entries, a))
                           + (IF a = Ripemd THEN extra ELSE 0)

\* Entry e replaced the object of account a.
Replaces(e, a) == e.kind \in ReplacingKinds /\ e.account = a

\* The entries and the objects: an account of an entry has an object; a
\* created one was in no trie and in no schedule, and has no earlier entry; a
\* slot of an entry is cached in the object, or in the one that an entry after
\* it put aside.
Linked(es, objs, tr, scheduled) ==
    /\ \A i \in 1..Len(es) : es[i].kind \in AccountKinds => objs[es[i].account].live
    /\ \A i \in 1..Len(es) : es[i].kind = "createObject" =>
          /\ ~tr[es[i].account].exists
          /\ es[i].account \notin scheduled
          /\ \A m \in 1..(i - 1) :
                es[m].kind \in AccountKinds => es[m].account # es[i].account
    /\ \A i \in 1..Len(es) : es[i].kind = "storage" =>
          \/ objs[es[i].account].originStorage[es[i].key] # Absent
          \/ \E m \in (i + 1)..Len(es) : Replaces(es[m], es[i].account)
    /\ \A i, m \in 1..Len(es) :
          /\ es[i].kind = "storage" /\ i < m /\ Replaces(es[m], es[i].account)
          /\ \A l \in (i + 1)..(m - 1) : ~Replaces(es[l], es[i].account)
          => /\ es[m].kind = "resetObject"
             /\ es[m].prev.originStorage[es[i].key] # Absent

ObjectsOK(objs, scheduled) ==
    /\ objs \in [Address -> Object]
    /\ \A a \in Address : ObjectOK(objs[a])
    /\ scheduled \subseteq Address
    /\ \A a \in scheduled : objs[a].live

\* The object of an account, from the objects or from the trie.
Stored(objs, tr, a) ==
    IF objs[a].live THEN objs[a]
    ELSE IF tr[a].exists THEN newObject(tr[a])
    ELSE NoObject

\* What is read of every account.
Says(objs, tr) == [a \in Address |-> Account(Stored(objs, tr, a))]

Sound(j, objs, now, tr, scheduled, extra) ==
    /\ tr \in [Address -> ChainAccount]
    /\ ObjectsOK(objs, scheduled)
    /\ now.accounts = Says(objs, tr)
    /\ Chained(j, now)
    /\ Linked(j.entries, objs, tr, scheduled)
    /\ Counted(j, extra)

\* The accounts that updateStateObject or CommitTrie will be called for.
Waiting == stateObjectsPending \union stateObjectsDirty

TypeOK ==
    /\ stateObjectsPending \subseteq Address /\ stateObjectsDirty \subseteq Address
    /\ replaced \subseteq Address /\ cached \subseteq Address
    /\ work \in Workloads /\ budget \in Nat
    /\ loadRemote \in BOOLEAN
    /\ phase \in {"run", "revert", "panic"}
    /\ ripemdDirty \in Nat
    /\ nextRevisionId \in Nat

Fetching ==
    \A a \in Address :
        a \notin cached => ~stateObjects[a].live /\ trie[a] = work.chain[a]

Sticking ==
    ripemdDirty > 0 =>
        /\ Ripemd \in Address
        /\ stateObjects[Ripemd].live \/ ~trie[Ripemd].exists

RevisionsOK ==
    /\ validRevisions \in Seq([id : Nat, journalIndex : Nat])
    /\ phase = "revert" => /\ target \in DOMAIN validRevisions
                           /\ validRevisions[target].journalIndex <= Len(journal.entries)
    /\ phase = "run" => \A j \in DOMAIN validRevisions :
                           validRevisions[j].journalIndex <= Len(journal.entries)
    /\ \A i, j \in DOMAIN validRevisions :
          i < j => /\ validRevisions[i].id < validRevisions[j].id
                   /\ validRevisions[i].journalIndex <= validRevisions[j].journalIndex
    /\ \A j \in DOMAIN validRevisions : validRevisions[j].id < nextRevisionId

\* The accounts of the first i entries.
TouchedIn(es, i) == {a \in Address : \E m \in 1..i : dirtied(es[m], a)}

\* Who differed from the trie when the journal had i entries is in the entries
\* before, or in a schedule.
DueAt(j, now, i, tr, extra) ==
    \A a \in Address :
        \/ Kept(FoundAt(j, now, i).accounts[a]) = tr[a]
        \/ a \in TouchedIn(j.entries, i) \union extra

Exempt == stateObjectsPending \union replaced \union Sticky

Scheduled ==
    /\ phase = "run" => DueAt(journal, Now, Len(journal.entries), trie, Exempt)
    /\ \A j \in DOMAIN validRevisions :
          phase = "run" \/ j <= target =>
              DueAt(journal, Now, validRevisions[j].journalIndex, trie, Exempt)

IInv ==
    /\ TypeOK
    /\ phase # "panic"
    /\ Sound(journal, stateObjects, Now, trie, Waiting, ripemdDirty)
    /\ Fetching /\ Sticking /\ RevisionsOK /\ Scheduled

-----------------------------------------------------------------------------
(***************************************************************************)
(* Objects: what the reads, the writes and the two ends of the storage     *)
(* caches (finalise, updateTrie) do to an object and to what it says.      *)
(***************************************************************************)

\* Zero is a value and the mark of a missing cache entry is not.
LEMMA ValueFacts == /\ Value \subseteq Nat /\ 0 \in Value /\ Absent \notin Value
                    /\ Absent \in Cache /\ Value \subseteq Cache
  BY WorkloadAssumption, SMTT(30) DEF Value, Absent, Cache

\* The object of an account of the trie says what the trie says.
LEMMA NewObject ==
    ASSUME NEW d \in ChainAccount
    PROVE  /\ ObjectOK(newObject(d)) /\ Usable(newObject(d))
           /\ d.exists => Account(newObject(d)) = d
           /\ ~d.exists => d = NoAccount
  <1>1. d \in [exists : BOOLEAN, nonce : Value, balance : Value, code : Value,
               storage : [Slot -> Value], suicided : {FALSE}]
    <2>1. Zeros \in [Slot -> Value]
      BY ValueFacts DEF Zeros
    <2>2. CASE d = NoAccount
      BY <2>1, <2>2, ValueFacts DEF NoAccount
    <2>3. CASE d # NoAccount
      BY <2>3 DEF ChainAccount
    <2> QED
      BY <2>2, <2>3
  <1>2. newObject(d) \in Object
    BY <1>1, ValueFacts DEF newObject, Object, NoCache
  <1>3. ObjectOK(newObject(d)) /\ Usable(newObject(d))
    BY <1>2 DEF ObjectOK, newObject, NoCache, Usable
  <1>4. ASSUME d.exists PROVE Account(newObject(d)) = d
    <2>1. \A k \in Slot : GetState(newObject(d), k) = d.storage[k]
      BY DEF GetState, GetCommittedState, newObject, NoCache
    <2>2. [k \in Slot |-> GetState(newObject(d), k)] = d.storage
      BY <1>1, <2>1
    <2> QED
      BY <1>1, <1>3, <1>4, <2>2 DEF Account, newObject, Usable
  <1>5. ~d.exists => d = NoAccount
    BY DEF ChainAccount
  <1> QED
    BY <1>3, <1>4, <1>5

\* A missing object is well formed and reads as a missing account.
LEMMA NoObjectOK == ObjectOK(NoObject) /\ ~NoObject.live /\ ~Usable(NoObject)
                    /\ Account(NoObject) = NoAccount /\ NoAccount \in ChainAccount
  <1>1. NoAccount \in ChainAccount
    BY DEF ChainAccount
  <1>2. newObject(NoAccount) \in Object /\ ObjectOK(newObject(NoAccount))
    BY <1>1, NewObject DEF ObjectOK
  <1>3. NoObject \in Object /\ ~NoObject.live
    BY <1>2 DEF NoObject, Object
  <1>4. \A k \in Slot : NoObject.originStorage[k] = Absent /\ NoObject.dirtyStorage[k] = Absent
                        /\ NoObject.pendingStorage[k] = Absent
    BY DEF NoObject, newObject, NoCache
  <1> QED
    BY <1>1, <1>3, <1>4 DEF ObjectOK, Usable, Account

\* What an object says of a slot is a value, and what it says is an account.
LEMMA AccountType ==
    ASSUME NEW o, ObjectOK(o)
    PROVE  /\ \A k \in Slot : GetState(o, k) \in Value /\ GetCommittedState(o, k) \in Value
           /\ Account(o) \in ReadAccount
           /\ Account(o).exists <=> Usable(o)
  <1>1. \A k \in Slot : GetState(o, k) \in Value /\ GetCommittedState(o, k) \in Value
    BY ValueFacts DEF ObjectOK, Object, GetState, GetCommittedState, Cache
  <1>2. NoAccount \in ReadAccount /\ ~NoAccount.exists
    BY ValueFacts DEF NoAccount, Zeros, ReadAccount
  <1>3. ASSUME Usable(o) PROVE Account(o) \in ReadAccount /\ Account(o).exists
    BY <1>1, <1>3 DEF Account, ReadAccount, ObjectOK, Object
  <1> QED
    BY <1>1, <1>2, <1>3 DEF Account

\* Accounts with the same fields are the same.
LEMMA SameAccount ==
    ASSUME NEW v \in ReadAccount, NEW w \in ReadAccount,
           v.exists = w.exists, v.nonce = w.nonce, v.balance = w.balance,
           v.code = w.code, v.storage = w.storage, v.suicided = w.suicided
    PROVE  v = w
  BY SMTT(30) DEF ReadAccount

\* o2 is o with at least its cached values.
SameCaches(o, o2) ==
    \A k \in Slot : o.originStorage[k] # Absent => o2.originStorage[k] # Absent

\* A read changes nothing that can be read, and caches the value it read.
LEMMA ReadObject ==
    ASSUME NEW o, ObjectOK(o), o.live, NEW k \in Slot,
           NEW r, r = StateRead(o, k) \/ r = CommittedRead(o, k)
    PROVE  /\ ObjectOK(r) /\ r.live /\ Account(r) = Account(o) /\ SameCaches(o, r)
           /\ r.balance = o.balance /\ r.nonce = o.nonce /\ r.code = o.code
           /\ r.suicided = o.suicided /\ r.deleted = o.deleted
           /\ r = StateRead(o, k) => r.originStorage[k] # Absent
  <1>1. CASE o.originStorage[k] # Absent
    <2>1. r = o
      BY <1>1 DEF StateRead, CommittedRead
    <2> QED
      BY <1>1, <2>1 DEF SameCaches
  <1>2. CASE o.originStorage[k] = Absent
    <2>1. o.dirtyStorage[k] = Absent /\ o.pendingStorage[k] = Absent
      BY <1>2 DEF ObjectOK
    <2>0. r = [o EXCEPT !.originStorage[k] = o.root[k]]
      BY <1>2, <2>1 DEF StateRead, CommittedRead
    <2>2. r \in Object
      BY <2>0, ValueFacts DEF ObjectOK, Object
    <2>3. /\ r.live = o.live /\ r.root = o.root /\ r.dirtyStorage = o.dirtyStorage
          /\ r.pendingStorage = o.pendingStorage /\ r.balance = o.balance
          /\ r.nonce = o.nonce /\ r.code = o.code
          /\ r.suicided = o.suicided /\ r.deleted = o.deleted
          /\ r.originStorage = [o.originStorage EXCEPT ![k] = o.root[k]]
      BY <2>0 DEF ObjectOK, Object
    <2>4. r.originStorage[k] = o.root[k] /\ o.root[k] # Absent
      BY <2>3, ValueFacts, SMTT(30) DEF ObjectOK, Object
    <2>5. \A l \in Slot : l # k => r.originStorage[l] = o.originStorage[l]
      BY <2>3 DEF ObjectOK, Object
    <2>6. ObjectOK(r)
      BY <2>1, <2>2, <2>3, <2>4, <2>5 DEF ObjectOK
    <2>7. \A l \in Slot : GetState(r, l) = GetState(o, l)
      BY <1>2, <2>1, <2>3, <2>4, <2>5 DEF GetState, GetCommittedState
    <2>8. [l \in Slot |-> GetState(r, l)] = [l \in Slot |-> GetState(o, l)]
      BY <2>7
    <2>9. Account(r) = Account(o)
      BY <2>3, <2>8 DEF Account, Usable
    <2> QED
      BY <2>3, <2>4, <2>5, <2>6, <2>9 DEF SameCaches
  <1> QED
    BY <1>1, <1>2

\* A write of one field changes that field of what is read.
LEMMA WriteObject ==
    ASSUME NEW o, ObjectOK(o), Usable(o), NEW x \in Value, NEW b \in BOOLEAN
    PROVE  /\ \A r : \/ r = [o EXCEPT !.balance = x]
                     \/ r = [o EXCEPT !.nonce = x]
                     \/ r = [o EXCEPT !.code = x]
                     \/ r = [o EXCEPT !.suicided = b, !.balance = x]
                     => ObjectOK(r) /\ Usable(r) /\ SameCaches(o, r)
           /\ Account([o EXCEPT !.balance = x]) = [Account(o) EXCEPT !.balance = x]
           /\ Account([o EXCEPT !.nonce = x]) = [Account(o) EXCEPT !.nonce = x]
           /\ Account([o EXCEPT !.code = x]) = [Account(o) EXCEPT !.code = x]
           /\ Account([o EXCEPT !.suicided = b, !.balance = x])
                = [Account(o) EXCEPT !.suicided = b, !.balance = x]
  <1>1. ASSUME NEW r,
               \/ r = [o EXCEPT !.balance = x]
               \/ r = [o EXCEPT !.nonce = x]
               \/ r = [o EXCEPT !.code = x]
               \/ r = [o EXCEPT !.suicided = b, !.balance = x]
        PROVE  /\ ObjectOK(r) /\ Usable(r) /\ SameCaches(o, r)
               /\ [k \in Slot |-> GetState(r, k)] = [k \in Slot |-> GetState(o, k)]
    <2>1. /\ r \in Object
          /\ r.live = o.live /\ r.root = o.root /\ r.dirtyStorage = o.dirtyStorage
          /\ r.pendingStorage = o.pendingStorage /\ r.deleted = o.deleted
          /\ r.originStorage = o.originStorage
      BY <1>1 DEF ObjectOK, Object
    <2>2. ObjectOK(r) /\ Usable(r) /\ SameCaches(o, r)
      BY <2>1 DEF ObjectOK, Usable, SameCaches
    <2>3. \A k \in Slot : GetState(r, k) = GetState(o, k)
      BY <2>1 DEF GetState, GetCommittedState
    <2> QED
      BY <2>2, <2>3
  <1> DEFINE acc == Account(o)
  <1>2. /\ acc \in ReadAccount /\ acc.exists = TRUE /\ acc.nonce = o.nonce
        /\ acc.balance = o.balance /\ acc.code = o.code /\ acc.suicided = o.suicided
        /\ acc.storage = [k \in Slot |-> GetState(o, k)]
    BY AccountType DEF Account
  <1> HIDE DEF acc
  <1>3. ASSUME NEW r, r = [o EXCEPT !.balance = x]
        PROVE  Account(r) = [acc EXCEPT !.balance = x]
    <2>1. r.nonce = o.nonce /\ r.balance = x /\ r.code = o.code /\ r.suicided = o.suicided
      BY <1>3 DEF ObjectOK, Object
    <2>2. ObjectOK(r) /\ Usable(r) /\ [k \in Slot |-> GetState(r, k)] = acc.storage
      BY <1>1, <1>2, <1>3
    <2>3. /\ Account(r) \in ReadAccount
          /\ Account(r).exists = TRUE /\ Account(r).storage = acc.storage
          /\ Account(r).nonce = o.nonce /\ Account(r).balance = x
          /\ Account(r).code = o.code /\ Account(r).suicided = o.suicided
      BY <2>1, <2>2, AccountType DEF Account
    <2> QED
      BY <1>2, <2>3 DEF ReadAccount
  <1>4. ASSUME NEW r, r = [o EXCEPT !.nonce = x]
        PROVE  Account(r) = [acc EXCEPT !.nonce = x]
    <2>1. r.nonce = x /\ r.balance = o.balance /\ r.code = o.code /\ r.suicided = o.suicided
      BY <1>4 DEF ObjectOK, Object
    <2>2. ObjectOK(r) /\ Usable(r) /\ [k \in Slot |-> GetState(r, k)] = acc.storage
      BY <1>1, <1>2, <1>4
    <2>3. /\ Account(r) \in ReadAccount
          /\ Account(r).exists = TRUE /\ Account(r).storage = acc.storage
          /\ Account(r).nonce = x /\ Account(r).balance = o.balance
          /\ Account(r).code = o.code /\ Account(r).suicided = o.suicided
      BY <2>1, <2>2, AccountType DEF Account
    <2> QED
      BY <1>2, <2>3 DEF ReadAccount
  <1>5. ASSUME NEW r, r = [o EXCEPT !.code = x]
        PROVE  Account(r) = [acc EXCEPT !.code = x]
    <2>1. r.nonce = o.nonce /\ r.balance = o.balance /\ r.code = x /\ r.suicided = o.suicided
      BY <1>5 DEF ObjectOK, Object
    <2>2. ObjectOK(r) /\ Usable(r) /\ [k \in Slot |-> GetState(r, k)] = acc.storage
      BY <1>1, <1>2, <1>5
    <2>3. /\ Account(r) \in ReadAccount
          /\ Account(r).exists = TRUE /\ Account(r).storage = acc.storage
          /\ Account(r).nonce = o.nonce /\ Account(r).balance = o.balance
          /\ Account(r).code = x /\ Account(r).suicided = o.suicided
      BY <2>1, <2>2, AccountType DEF Account
    <2> QED
      BY <1>2, <2>3 DEF ReadAccount
  <1>6. ASSUME NEW r, r = [o EXCEPT !.suicided = b, !.balance = x]
        PROVE  Account(r) = [acc EXCEPT !.suicided = b, !.balance = x]
    <2>1. r.nonce = o.nonce /\ r.balance = x /\ r.code = o.code /\ r.suicided = b
      BY <1>6 DEF ObjectOK, Object
    <2>2. ObjectOK(r) /\ Usable(r) /\ [k \in Slot |-> GetState(r, k)] = acc.storage
      BY <1>1, <1>2, <1>6
    <2>3. /\ Account(r) \in ReadAccount
          /\ Account(r).exists = TRUE /\ Account(r).storage = acc.storage
          /\ Account(r).nonce = o.nonce /\ Account(r).balance = x
          /\ Account(r).code = o.code /\ Account(r).suicided = b
      BY <2>1, <2>2, AccountType DEF Account
    <2> DEFINE w == [acc EXCEPT !.suicided = b, !.balance = x]
    <2>4. /\ w \in ReadAccount /\ w.exists = acc.exists /\ w.storage = acc.storage
          /\ w.nonce = acc.nonce /\ w.balance = x /\ w.code = acc.code /\ w.suicided = b
      BY <1>2 DEF ReadAccount
    <2> HIDE DEF w
    <2>5. Account(r) = w
      BY <1>2, <2>3, <2>4, SameAccount
    <2> QED
      BY <2>5 DEF w
  <1> QED
    BY <1>1, <1>3, <1>4, <1>5, <1>6 DEF acc

\* A write of a slot that was read before changes that slot of what is read.
LEMMA WriteSlot ==
    ASSUME NEW o, ObjectOK(o), Usable(o), NEW k \in Slot, NEW x \in Value,
           o.originStorage[k] # Absent
    PROVE  LET r == [o EXCEPT !.dirtyStorage[k] = x]
           IN  /\ ObjectOK(r) /\ Usable(r) /\ SameCaches(o, r)
               /\ r.originStorage = o.originStorage
               /\ Account(r) = [Account(o) EXCEPT !.storage[k] = x]
  <1> DEFINE r == [o EXCEPT !.dirtyStorage[k] = x]
  <1>1. r \in Object
    BY ValueFacts DEF ObjectOK, Object
  <1>2. /\ r.live = o.live /\ r.root = o.root /\ r.originStorage = o.originStorage
        /\ r.pendingStorage = o.pendingStorage /\ r.balance = o.balance
        /\ r.nonce = o.nonce /\ r.code = o.code
        /\ r.suicided = o.suicided /\ r.deleted = o.deleted
        /\ r.dirtyStorage = [o.dirtyStorage EXCEPT ![k] = x]
    BY DEF ObjectOK, Object
  <1> HIDE DEF r
  <1>3. r.dirtyStorage[k] = x /\ \A l \in Slot : l # k => r.dirtyStorage[l] = o.dirtyStorage[l]
    BY <1>2 DEF ObjectOK, Object
  <1>4. ObjectOK(r) /\ Usable(r) /\ SameCaches(o, r)
    BY <1>1, <1>2, <1>3 DEF ObjectOK, Usable, SameCaches
  <1>5. GetState(r, k) = x
    BY <1>3, ValueFacts DEF GetState
  <1>6. \A l \in Slot : l # k => GetState(r, l) = GetState(o, l)
    BY <1>2, <1>3 DEF GetState, GetCommittedState
  <1> DEFINE acc == Account(o)
  <1>7. /\ acc \in ReadAccount /\ acc.exists = TRUE /\ acc.nonce = o.nonce
        /\ acc.balance = o.balance /\ acc.code = o.code /\ acc.suicided = o.suicided
        /\ acc.storage = [l \in Slot |-> GetState(o, l)]
    BY AccountType DEF Account
  <1> HIDE DEF acc
  <1>8. Account(r) = [acc EXCEPT !.storage[k] = x]
    <2>1. [l \in Slot |-> GetState(r, l)] = [acc.storage EXCEPT ![k] = x]
      BY <1>5, <1>6, <1>7
    <2>2. /\ Account(r) \in ReadAccount
          /\ Account(r).exists = TRUE /\ Account(r).storage = [acc.storage EXCEPT ![k] = x]
          /\ Account(r).nonce = o.nonce /\ Account(r).balance = o.balance
          /\ Account(r).code = o.code /\ Account(r).suicided = o.suicided
      BY <1>2, <1>4, <2>1, AccountType DEF Account
    <2> QED
      BY <1>7, <2>2 DEF ReadAccount
  <1> QED
    BY <1>2, <1>4, <1>8 DEF r, acc

\* finalise moves the dirty values and changes nothing that can be read.
LEMMA FinaliseObject ==
    ASSUME NEW o, ObjectOK(o), o.live
    PROVE  LET f == finalise(o)
           IN  /\ ObjectOK(f) /\ f.live /\ f.deleted = o.deleted /\ f.suicided = o.suicided
               /\ f.nonce = o.nonce /\ f.balance = o.balance /\ f.code = o.code
               /\ \A k \in Slot : GetState(f, k) = GetState(o, k) /\ f.dirtyStorage[k] = Absent
               /\ Account(f) = Account(o)
  <1> DEFINE f == finalise(o)
  <1>1. f \in Object
    BY ValueFacts DEF ObjectOK, Object, finalise, NoCache
  <1>2. /\ f.live = o.live /\ f.root = o.root /\ f.originStorage = o.originStorage
        /\ f.balance = o.balance /\ f.nonce = o.nonce /\ f.code = o.code
        /\ f.suicided = o.suicided /\ f.deleted = o.deleted
        /\ f.dirtyStorage = NoCache
        /\ f.pendingStorage = [k \in Slot |-> IF o.dirtyStorage[k] # Absent
                                              THEN o.dirtyStorage[k]
                                              ELSE o.pendingStorage[k]]
    BY DEF ObjectOK, Object, finalise
  <1> HIDE DEF f
  <1>3. \A k \in Slot : /\ f.dirtyStorage[k] = Absent
                        /\ f.pendingStorage[k] = IF o.dirtyStorage[k] # Absent
                                                 THEN o.dirtyStorage[k]
                                                 ELSE o.pendingStorage[k]
    BY <1>2, SMTT(30) DEF NoCache
  <1>4. ObjectOK(f)
    BY <1>1, <1>2, <1>3 DEF ObjectOK
  <1>5. \A k \in Slot : GetState(f, k) = GetState(o, k)
    BY <1>2, <1>3 DEF GetState, GetCommittedState
  <1>6. [k \in Slot |-> GetState(f, k)] = [k \in Slot |-> GetState(o, k)]
    BY <1>5
  <1>7. Account(f) = Account(o)
    BY <1>2, <1>6 DEF Account, Usable
  <1> QED
    BY <1>2, <1>3, <1>4, <1>5, <1>7 DEF f

\* updateTrie leaves in the storage trie what GetState returned, and changes
\* nothing that can be read.
LEMMA UpdateTrie ==
    ASSUME NEW o, ObjectOK(o), o.live
    PROVE  LET u == updateTrie(o)
           IN  /\ ObjectOK(u) /\ u.live /\ u.deleted = o.deleted /\ u.suicided = o.suicided
               /\ u.nonce = o.nonce /\ u.balance = o.balance /\ u.code = o.code
               /\ u.root = [k \in Slot |-> GetState(o, k)]
               /\ Account(u) = Account(o)
  <1> DEFINE f == finalise(o)
             changed == {k \in Slot : /\ f.pendingStorage[k] # Absent
                                      /\ f.pendingStorage[k] # OriginOf(f, k)}
             written(old) == [k \in Slot |-> IF k \in changed THEN f.pendingStorage[k]
                                             ELSE old[k]]
             u == updateTrie(o)
  <1>1. u = [f EXCEPT !.originStorage = written(f.originStorage),
                      !.root = written(f.root), !.pendingStorage = NoCache]
    BY DEF updateTrie
  <1>2. /\ ObjectOK(f) /\ f.live /\ f.deleted = o.deleted /\ f.suicided = o.suicided
        /\ f.nonce = o.nonce /\ f.balance = o.balance /\ f.code = o.code
        /\ \A k \in Slot : GetState(f, k) = GetState(o, k) /\ f.dirtyStorage[k] = Absent
    BY FinaliseObject
  <1> HIDE DEF f, u
  <1>3. u \in Object
    BY <1>1, <1>2, ValueFacts DEF ObjectOK, Object, NoCache, Cache
  <1>4. /\ u.live = f.live /\ u.root = written(f.root)
        /\ u.originStorage = written(f.originStorage)
        /\ u.balance = f.balance /\ u.nonce = f.nonce /\ u.code = f.code
        /\ u.suicided = f.suicided /\ u.deleted = f.deleted
        /\ u.dirtyStorage = f.dirtyStorage /\ u.pendingStorage = NoCache
    BY <1>1, <1>2 DEF ObjectOK, Object
  <1>5. ASSUME NEW k \in Slot
        PROVE  /\ u.dirtyStorage[k] = Absent /\ u.pendingStorage[k] = Absent
               /\ u.root[k] = GetState(o, k)
               /\ u.originStorage[k] # Absent => u.originStorage[k] = u.root[k]
    <2>1. u.dirtyStorage[k] = Absent /\ u.pendingStorage[k] = Absent
      BY <1>2, <1>4 DEF NoCache
    <2>2. CASE k \in changed
      <3>1. u.root[k] = f.pendingStorage[k] /\ u.originStorage[k] = f.pendingStorage[k]
        BY <1>4, <2>2
      <3>2. GetState(f, k) = f.pendingStorage[k]
        BY <1>2, <2>2 DEF GetState, GetCommittedState
      <3> QED
        BY <1>2, <2>1, <3>1, <3>2
    <2>3. CASE k \notin changed
      <3>1. u.root[k] = f.root[k] /\ u.originStorage[k] = f.originStorage[k]
        BY <1>4, <2>3, SMTT(30)
      <3>2. f.originStorage[k] # Absent => f.originStorage[k] = f.root[k]
        BY <1>2 DEF ObjectOK
      <3>3. GetState(f, k) = f.root[k]
        BY <1>2, <2>3, <3>2 DEF GetState, GetCommittedState, OriginOf, ObjectOK
      <3> QED
        BY <1>2, <2>1, <3>1, <3>2, <3>3
    <2> QED
      BY <2>2, <2>3
  <1>6. ObjectOK(u)
    BY <1>2, <1>3, <1>4, <1>5 DEF ObjectOK
  <1>7. u.root = [k \in Slot |-> GetState(o, k)]
    <2>1. u.root \in [Slot -> Value]
      BY <1>3 DEF Object
    <2> QED
      BY <2>1, <1>5
  <1>8. \A k \in Slot : GetState(u, k) = GetState(o, k)
    BY <1>5 DEF GetState, GetCommittedState
  <1>9. [k \in Slot |-> GetState(u, k)] = [k \in Slot |-> GetState(o, k)]
    BY <1>8
  <1>10. Account(u) = Account(o)
    BY <1>2, <1>4, <1>9 DEF Account, Usable
  <1> QED
    BY <1>2, <1>4, <1>6, <1>7, <1>10 DEF u

-----------------------------------------------------------------------------
(***************************************************************************)
(* The access list: what is added is removed by its undo.                  *)
(***************************************************************************)

\* An access list is its addresses and its slot sets.
LEMMA SameAccessList ==
    ASSUME NEW al, AccessListOK(al), NEW bl, AccessListOK(bl),
           al.addresses = bl.addresses, al.slots = bl.slots
    PROVE  al = bl
  BY SMTT(30) DEF AccessListOK

\* The empty access list is well formed.
LEMMA NewAccessList == AccessListOK(newAccessList)
  BY SMTT(30) DEF AccessListOK, newAccessList, Missing

\* An address that was not there: the undo takes it out again.
LEMMA AddAddress ==
    ASSUME NEW al, AccessListOK(al), NEW a \in Address, ~ContainsAddress(al, a)
    PROVE  LET bl == addAddress(al, a)
           IN  /\ AccessListOK(bl) /\ ContainsAddress(bl, a)
               /\ [bl EXCEPT !.addresses[a] = Missing] = al
               /\ \A c \in Address : SlotsOf(bl, c) = SlotsOf(al, c)
               /\ \A c \in Address \ {a} : ContainsAddress(bl, c) <=> ContainsAddress(al, c)
  <1> DEFINE bl == addAddress(al, a)
             cl == [bl EXCEPT !.addresses[a] = Missing]
  <1>0. /\ al \in [addresses : [Address -> Int], slots : Seq(SUBSET Slot)]
        /\ al.addresses[a] = Missing /\ NoSlots \in Int /\ Missing \in Int
        /\ Len(al.slots) \in Nat
    BY SMTT(30) DEF AccessListOK, NoSlots, Missing, ContainsAddress
  <1>1. /\ bl \in [addresses : [Address -> Int], slots : Seq(SUBSET Slot)]
        /\ bl.addresses = [al.addresses EXCEPT ![a] = NoSlots] /\ bl.slots = al.slots
        /\ al.addresses[a] = Missing
    BY <1>0 DEF addAddress
  <1> HIDE DEF bl
  <1>2. AccessListOK(bl)
    <2>1. bl.addresses[a] = NoSlots /\ \A c \in Address : c # a => bl.addresses[c] = al.addresses[c]
      BY <1>0, <1>1
    <2>2. \A c \in Address : bl.addresses[c] \in Missing..(Len(bl.slots) - 1)
      BY <1>0, <1>1, <2>1, SMTT(30) DEF AccessListOK, NoSlots, Missing
    <2>3. \A c, d \in Address :
             bl.addresses[c] = bl.addresses[d] /\ bl.addresses[c] >= 0 => c = d
      BY <2>1, SMTT(30) DEF AccessListOK, NoSlots
    <2> QED
      BY <1>1, <2>2, <2>3 DEF AccessListOK
  <1>3. /\ cl \in [addresses : [Address -> Int], slots : Seq(SUBSET Slot)]
        /\ cl.addresses = [bl.addresses EXCEPT ![a] = Missing] /\ cl.slots = al.slots
    BY <1>0, <1>1
  <1>4. cl.addresses = al.addresses
    BY <1>0, <1>1, <1>3
  <1>5. cl = al
    BY <1>3, <1>4 DEF AccessListOK
  <1>6. \A c \in Address : SlotsOf(bl, c) = SlotsOf(al, c)
    BY <1>1, SMTT(30) DEF AccessListOK, SlotsOf, NoSlots, Missing
  <1>7. \A c \in Address \ {a} : ContainsAddress(bl, c) <=> ContainsAddress(al, c)
    BY <1>1 DEF AccessListOK, ContainsAddress
  <1>8. ContainsAddress(bl, a)
    BY <1>1, SMTT(30) DEF AccessListOK, ContainsAddress, NoSlots, Missing
  <1> QED
    BY <1>2, <1>5, <1>6, <1>7, <1>8 DEF bl

\* A slot of an address that is there: the undo takes it out again, with the
\* slot set if that set was made for it.
LEMMA AddSlot ==
    ASSUME NEW al, AccessListOK(al), NEW a \in Address, ContainsAddress(al, a),
           NEW k \in Slot, k \notin SlotsOf(al, a)
    PROVE  LET bl == addSlot(al, a, k)
           IN  /\ AccessListOK(bl) /\ bl.addresses[a] >= 0
               /\ deleteSlot(bl, a, k) = al
               /\ SlotsOf(bl, a) = SlotsOf(al, a) \union {k}
               /\ \A c \in Address \ {a} : SlotsOf(bl, c) = SlotsOf(al, c)
               /\ \A c \in Address : ContainsAddress(bl, c) <=> ContainsAddress(al, c)
  <1> DEFINE bl == addSlot(al, a, k)
             n == Len(al.slots)
             i == al.addresses[a]
  <1>1. /\ al \in [addresses : [Address -> Int], slots : Seq(SUBSET Slot)]
        /\ n \in Nat /\ i \in NoSlots..(n - 1)
        /\ \A c \in Address : al.addresses[c] \in Missing..(n - 1)
    BY SMTT(30) DEF AccessListOK, ContainsAddress, NoSlots, Missing
  <1>2. CASE i < 0
    <2>1. /\ bl = [addresses |-> [al.addresses EXCEPT ![a] = n],
                   slots |-> Append(al.slots, {k})]
          /\ i = NoSlots
      BY <1>1, <1>2, SMTT(30) DEF addSlot, NoSlots
    <2>2. /\ bl \in [addresses : [Address -> Int], slots : Seq(SUBSET Slot)]
          /\ bl.addresses = [al.addresses EXCEPT ![a] = n]
          /\ bl.slots = Append(al.slots, {k})
      BY <1>1, <2>1, SMTT(30)
    <2> HIDE DEF bl
    <2>3. /\ Len(bl.slots) = n + 1 /\ bl.slots[n + 1] = {k}
          /\ \A m \in 1..n : bl.slots[m] = al.slots[m]
      BY <1>1, <2>2, SMTT(30)
    <2>4. bl.addresses[a] = n /\ \A c \in Address : c # a => bl.addresses[c] = al.addresses[c]
      BY <1>1, <2>2
    <2>5. \A c \in Address : bl.addresses[c] \in Missing..n
      BY <1>1, <2>4, SMTT(30) DEF Missing
    <2>6. \A m \in 1..(n + 1) : bl.slots[m] # {}
      <3>1. \A m \in 1..n : bl.slots[m] # {}
        BY <1>1, <2>3 DEF AccessListOK
      <3>2. \A m \in 1..(n + 1) : m \in 1..n \/ m = n + 1
        BY <1>1, SMTT(30)
      <3> QED
        BY <2>3, <3>1, <3>2
    <2>7. \A c, d \in Address :
             bl.addresses[c] = bl.addresses[d] /\ bl.addresses[c] >= 0 => c = d
      BY <1>1, <2>4, SMTT(30) DEF AccessListOK, Missing
    <2>8. AccessListOK(bl)
      <3>1. Len(bl.slots) - 1 = n
        BY <1>1, <2>3, SMTT(30)
      <3> HIDE DEF n
      <3> QED
        BY <2>2, <2>3, <2>5, <2>6, <2>7, <3>1 DEF AccessListOK
    <2>9. deleteSlot(bl, a, k) = al
      <3>1. bl.slots[bl.addresses[a] + 1] \ {k} = {}
        BY <2>3, <2>4
      <3>2. deleteSlot(bl, a, k) = [addresses |-> [bl.addresses EXCEPT ![a] = NoSlots],
                                    slots |-> SubSeq(bl.slots, 1, n)]
        BY <2>4, <3>1 DEF deleteSlot
      <3>3. SubSeq(bl.slots, 1, n) = al.slots
        BY <1>1, <2>2, SMTT(30)
      <3>4. [bl.addresses EXCEPT ![a] = NoSlots] = al.addresses
        BY <1>1, <2>1, <2>2
      <3> QED
        BY <1>1, <3>2, <3>3, <3>4
    <2>10. SlotsOf(bl, a) = SlotsOf(al, a) \union {k}
      BY <1>1, <1>2, <2>3, <2>4, SMTT(30) DEF SlotsOf
    <2>11. ASSUME NEW c \in Address \ {a} PROVE SlotsOf(bl, c) = SlotsOf(al, c)
      <3>1. bl.addresses[c] = al.addresses[c] /\ al.addresses[c] \in Missing..(n - 1)
        BY <1>1, <2>4
      <3>2. CASE al.addresses[c] >= 0
        <4>1. al.addresses[c] + 1 \in 1..n
          BY <1>1, <3>1, <3>2, SMTT(30) DEF Missing
        <4> QED
          BY <2>3, <3>1, <3>2, <4>1 DEF SlotsOf
      <3>3. CASE ~(al.addresses[c] >= 0)
        BY <3>1, <3>3 DEF SlotsOf
      <3> QED
        BY <3>2, <3>3
    <2>12. \A c \in Address : ContainsAddress(bl, c) <=> ContainsAddress(al, c)
      BY <1>1, <2>1, <2>4, SMTT(30) DEF ContainsAddress, Missing, NoSlots
    <2> QED
      BY <1>1, <2>4, <2>8, <2>9, <2>10, <2>11, <2>12, SMTT(30) DEF bl
  <1>3. CASE i >= 0
    <2> DEFINE old == al.slots[i + 1]
    <2>1. bl = [al EXCEPT !.slots[i + 1] = old \union {k}]
      BY <1>1, <1>3, SMTT(30) DEF addSlot
    <2>2. i + 1 \in 1..n /\ old \in SUBSET Slot /\ old # {} /\ k \notin old
      BY <1>1, <1>3, SMTT(30) DEF AccessListOK, NoSlots, SlotsOf
    <2>3. /\ bl \in [addresses : [Address -> Int], slots : Seq(SUBSET Slot)]
          /\ bl.addresses = al.addresses
          /\ bl.slots = [al.slots EXCEPT ![i + 1] = old \union {k}]
      <3> DEFINE new == old \union {k}
                 p == i + 1
      <3>1. new \in SUBSET Slot /\ p \in 1..Len(al.slots)
        BY <2>2
      <3>2. bl = [al EXCEPT !.slots[p] = new]
        BY <2>1
      <3> HIDE DEF new, p, bl
      <3>3. [al.slots EXCEPT ![p] = new] \in Seq(SUBSET Slot)
        BY <1>1, <3>1, SMTT(30)
      <3>4. /\ bl \in [addresses : [Address -> Int], slots : Seq(SUBSET Slot)]
            /\ bl.addresses = al.addresses /\ bl.slots = [al.slots EXCEPT ![p] = new]
        BY <1>1, <3>2, <3>3
      <3> QED
        BY <3>4 DEF new, p
    <2> HIDE DEF bl
    <2>4. /\ Len(bl.slots) = n /\ bl.slots[i + 1] = old \union {k}
          /\ \A m \in 1..n : m # i + 1 => bl.slots[m] = al.slots[m]
      <3> DEFINE new == old \union {k}
                 p == i + 1
      <3>1. p \in 1..Len(al.slots) /\ bl.slots = [al.slots EXCEPT ![p] = new]
        BY <2>2, <2>3
      <3> HIDE DEF new, p, i
      <3>2. /\ Len(bl.slots) = Len(al.slots) /\ bl.slots[p] = new
            /\ \A m \in 1..Len(al.slots) : m # p => bl.slots[m] = al.slots[m]
        BY <1>1, <3>1, SMTT(30)
      <3> QED
        BY <3>2 DEF new, p
    <2>5. \A m \in 1..n : bl.slots[m] # {}
      BY <1>1, <2>2, <2>4 DEF AccessListOK
    <2>6. AccessListOK(bl)
      BY <1>1, <2>3, <2>4, <2>5 DEF AccessListOK
    <2>7. deleteSlot(bl, a, k) = al
      <3>1. bl.slots[bl.addresses[a] + 1] \ {k} = old
        BY <2>2, <2>3, <2>4
      <3>2. deleteSlot(bl, a, k) = [bl EXCEPT !.slots[i + 1] = bl.slots[i + 1] \ {k}]
        BY <2>2, <2>3, <3>1 DEF deleteSlot
      <3>3. [bl.slots EXCEPT ![i + 1] = old] = al.slots
        <4> DEFINE f == al.slots
                   p == i + 1
                   new == old \union {k}
        <4>1. f \in [1..n -> SUBSET Slot] /\ p \in 1..n
          BY <1>1, <2>2, SMTT(30)
        <4> HIDE DEF f, p, new, n
        <4>2. [[f EXCEPT ![p] = new] EXCEPT ![p] = f[p]] = f
          BY <4>1
        <4> QED
          BY <2>3, <4>2, Zenon DEF f, p, new
      <3>4. bl.slots[i + 1] \ {k} = old
        BY <2>3, <3>1
      <3> QED
        BY <1>1, <2>3, <3>2, <3>3, <3>4
    <2>8. SlotsOf(bl, a) = SlotsOf(al, a) \union {k}
      BY <1>3, <2>3, <2>4 DEF SlotsOf
    <2>9. \A c \in Address \ {a} : SlotsOf(bl, c) = SlotsOf(al, c)
      BY <1>1, <1>3, <2>3, <2>4, SMTT(30) DEF SlotsOf, AccessListOK, Missing
    <2>10. \A c \in Address : ContainsAddress(bl, c) <=> ContainsAddress(al, c)
      BY <2>3 DEF ContainsAddress
    <2> QED
      BY <1>3, <2>3, <2>6, <2>7, <2>8, <2>9, <2>10 DEF bl
  <1> QED
    BY <1>1, <1>2, <1>3, SMTT(30)

\* Adding a slot adds its address on the way.
LEMMA AddSlotOfNew ==
    ASSUME NEW al, AccessListOK(al), NEW a \in Address, ~ContainsAddress(al, a),
           NEW k \in Slot
    PROVE  addSlot(al, a, k) = addSlot(addAddress(al, a), a, k)
  <1> DEFINE bl == addAddress(al, a)
  <1>1. /\ al \in [addresses : [Address -> Int], slots : Seq(SUBSET Slot)]
        /\ bl.addresses = [al.addresses EXCEPT ![a] = NoSlots] /\ bl.slots = al.slots
        /\ al.addresses[a] < 0
    BY SMTT(30) DEF AccessListOK, addAddress, ContainsAddress, Missing
  <1> HIDE DEF bl
  <1>2. [bl.addresses EXCEPT ![a] = Len(bl.slots)] = [al.addresses EXCEPT ![a] = Len(al.slots)]
    BY <1>1
  <1>3. bl.addresses[a] < 0
    BY <1>1, SMTT(30) DEF NoSlots
  <1>4. addSlot(bl, a, k) = [addresses |-> [al.addresses EXCEPT ![a] = Len(al.slots)],
                             slots |-> Append(al.slots, {k})]
    BY <1>1, <1>2, <1>3 DEF addSlot
  <1> QED
    BY <1>1, <1>4 DEF addSlot, bl

-----------------------------------------------------------------------------
(***************************************************************************)
(* The journal: entries are appended and undone at its end, and what the   *)
(* entries before found stays known.                                       *)
(***************************************************************************)

\* Length, domain and members of a sequence.
LEMMA SeqMembers ==
    ASSUME NEW S, NEW s \in Seq(S)
    PROVE  Len(s) \in Nat /\ DOMAIN s = 1..Len(s) /\ \A i \in DOMAIN s : s[i] \in S
  BY SMTT(30)

\* What a truncated sequence (entries[:snapshot]) keeps.
LEMMA FrontOf ==
    ASSUME NEW S, NEW es \in Seq(S), NEW n \in 0..Len(es)
    PROVE  LET fs == SubSeq(es, 1, n)
           IN  /\ fs \in Seq(S) /\ Len(fs) = n
               /\ \A i \in 1..n : fs[i] = es[i] /\ i \in 1..Len(es)
  BY SMTT(30)

\* journal.append keeps the chain when the new entry undoes the change it stands for.
LEMMA AppendChained ==
    ASSUME NEW j, NEW now, Chained(j, now), NEW e \in Entry, NEW now2 \in Found,
           Able(e, now2), Before(e, now2) = now
    PROVE  LET q == append(j, e, now)
           IN  /\ Chained(q, now2)
               /\ q.entries = Append(j.entries, e)
               /\ Len(q.entries) = Len(j.entries) + 1
               /\ \A i \in 0..Len(j.entries) : FoundAt(q, now2, i) = FoundAt(j, now, i)
  <1> DEFINE q == append(j, e, now)
             n == Len(j.entries)
  <1>1. /\ j.entries \in Seq(Entry) /\ j.past \in Seq(Found) /\ Len(j.past) = n
        /\ n \in Nat /\ now \in Found
    BY SMTT(30) DEF Chained
  <1>2. q.entries = Append(j.entries, e) /\ q.past = Append(j.past, now)
    BY DEF append
  <1> HIDE DEF q
  <1>3. /\ q.entries \in Seq(Entry) /\ Len(q.entries) = n + 1 /\ q.entries[n + 1] = e
        /\ \A i \in 1..n : q.entries[i] = j.entries[i]
    BY <1>1, <1>2, SMTT(30)
  <1>4. /\ q.past \in Seq(Found) /\ Len(q.past) = n + 1 /\ q.past[n + 1] = now
        /\ \A i \in 1..n : q.past[i] = j.past[i]
    BY <1>1, <1>2, SMTT(30)
  <1>5. ASSUME NEW i \in 0..n PROVE FoundAt(q, now2, i) = FoundAt(j, now, i)
    <2>1. i < n + 1 /\ FoundAt(q, now2, i) = q.past[i + 1]
      BY <1>1, <1>3, SMTT(30) DEF FoundAt
    <2>2. CASE i < n
      BY <1>1, <1>4, <2>1, <2>2, SMTT(30) DEF FoundAt
    <2>3. CASE i = n
      BY <1>1, <1>4, <2>1, <2>3, SMTT(30) DEF FoundAt
    <2> QED
      BY <1>1, <2>2, <2>3, SMTT(30)
  <1>6. FoundAt(q, now2, n + 1) = now2 /\ FoundAt(q, now2, n) = now
    BY <1>1, <1>3, <1>5, SMTT(30) DEF FoundAt
  <1>7. ASSUME NEW i \in 1..Len(q.entries)
        PROVE  /\ Able(q.entries[i], FoundAt(q, now2, i))
               /\ Before(q.entries[i], FoundAt(q, now2, i)) = FoundAt(q, now2, i - 1)
    <2>1. CASE i = n + 1
      <3>1. q.entries[i] = e /\ FoundAt(q, now2, i) = now2 /\ FoundAt(q, now2, i - 1) = now
        BY <1>1, <1>3, <1>6, <2>1, SMTT(30)
      <3> QED
        BY <3>1
    <2>2. CASE i \in 1..n
      <3>1. q.entries[i] = j.entries[i] /\ i \in 0..n /\ i - 1 \in 0..n
        BY <1>1, <1>3, <2>2, SMTT(30)
      <3>2. FoundAt(q, now2, i) = FoundAt(j, now, i)
        BY <1>5, <3>1
      <3>3. FoundAt(q, now2, i - 1) = FoundAt(j, now, i - 1)
        BY <1>5, <3>1
      <3>4. /\ Able(j.entries[i], FoundAt(j, now, i))
            /\ Before(j.entries[i], FoundAt(j, now, i)) = FoundAt(j, now, i - 1)
        BY <2>2 DEF Chained
      <3> QED
        BY <3>1, <3>2, <3>3, <3>4
    <2> QED
      BY <1>1, <1>3, <2>1, <2>2, SMTT(30)
  <1>8. Chained(q, now2)
    BY <1>3, <1>4, <1>7 DEF Chained
  <1> QED
    BY <1>2, <1>3, <1>5, <1>8 DEF q

\* One round of journal.revert keeps the chain: what is left ends in what the entry found.
LEMMA PopChained ==
    ASSUME NEW j, NEW now, Chained(j, now), j.entries # <<>>, NEW q,
           q.entries = SubSeq(j.entries, 1, Len(j.entries) - 1),
           q.past = SubSeq(j.past, 1, Len(j.entries) - 1)
    PROVE  LET n == Len(j.entries)
               e == j.entries[n]
           IN  /\ n \in Nat \ {0} /\ e \in Entry /\ Able(e, now)
               /\ Len(q.entries) = n - 1
               /\ \A i \in 1..(n - 1) : q.entries[i] = j.entries[i]
               /\ Chained(q, Before(e, now))
               /\ \A i \in 0..(n - 1) :
                     FoundAt(q, Before(e, now), i) = FoundAt(j, now, i)
  <1> DEFINE n == Len(j.entries)
             e == j.entries[n]
             now2 == Before(e, now)
  <1>1. /\ j.entries \in Seq(Entry) /\ j.past \in Seq(Found) /\ Len(j.past) = n
        /\ n \in Nat \ {0} /\ now \in Found
    BY SMTT(30) DEF Chained
  <1>11. n - 1 \in 0..n
    BY <1>1, SMTT(30)
  <1>2. /\ q.entries \in Seq(Entry) /\ Len(q.entries) = n - 1
        /\ \A i \in 1..(n - 1) : q.entries[i] = j.entries[i]
    BY <1>1, <1>11, FrontOf, SMTT(30)
  <1>3. /\ q.past \in Seq(Found) /\ Len(q.past) = n - 1
        /\ \A i \in 1..(n - 1) : q.past[i] = j.past[i]
    BY <1>1, <1>11, FrontOf, SMTT(30)
  <1>4. e \in Entry /\ j.past[n] \in Found
    BY <1>1, SMTT(30)
  <1>5. FoundAt(j, now, n) = now /\ FoundAt(j, now, n - 1) = j.past[n]
    BY <1>1, SMTT(30) DEF FoundAt
  <1>6. Able(e, now) /\ now2 = j.past[n]
    <2>1. n \in 1..n
      BY <1>1, SMTT(30)
    <2> QED
      BY <1>5, <2>1 DEF Chained
  <1> HIDE DEF now2, e
  <1>7. ASSUME NEW i \in 0..(n - 1) PROVE FoundAt(q, now2, i) = FoundAt(j, now, i)
    <2>1. FoundAt(j, now, i) = j.past[i + 1]
      BY <1>1, SMTT(30) DEF FoundAt
    <2>2. CASE i < n - 1
      BY <1>1, <1>2, <1>3, <2>1, <2>2, SMTT(30) DEF FoundAt
    <2>3. CASE i = n - 1
      BY <1>1, <1>2, <1>6, <2>1, <2>3, SMTT(30) DEF FoundAt
    <2> QED
      BY <1>1, <2>2, <2>3, SMTT(30)
  <1>8. ASSUME NEW i \in 1..Len(q.entries)
        PROVE  /\ Able(q.entries[i], FoundAt(q, now2, i))
               /\ Before(q.entries[i], FoundAt(q, now2, i)) = FoundAt(q, now2, i - 1)
    <2>1. q.entries[i] = j.entries[i] /\ i \in 0..(n - 1) /\ i - 1 \in 0..(n - 1) /\ i \in 1..n
      BY <1>1, <1>2, SMTT(30)
    <2>2. FoundAt(q, now2, i) = FoundAt(j, now, i)
      BY <1>7, <2>1
    <2>3. FoundAt(q, now2, i - 1) = FoundAt(j, now, i - 1)
      BY <1>7, <2>1
    <2>4. /\ Able(j.entries[i], FoundAt(j, now, i))
          /\ Before(j.entries[i], FoundAt(j, now, i)) = FoundAt(j, now, i - 1)
      BY <2>1 DEF Chained
    <2> QED
      BY <2>1, <2>2, <2>3, <2>4
  <1>9. Chained(q, now2)
    BY <1>2, <1>3, <1>4, <1>6, <1>8 DEF Chained
  <1> QED
    BY <1>1, <1>2, <1>4, <1>6, <1>7, <1>9 DEF now2, e

\* The entries of an account are counted one by one.
LEMMA TouchesFinite ==
    ASSUME NEW es \in Seq(Entry), NEW a
    PROVE  IsFiniteSet(Touches(es, a)) /\ Cardinality(Touches(es, a)) \in Nat
  <1>1. Touches(es, a) \subseteq 1..Len(es)
    BY SMTT(30) DEF Touches
  <1>2. IsFiniteSet(1..Len(es))
    BY FS_Interval, SMTT(30)
  <1>3. IsFiniteSet(Touches(es, a))
    BY <1>1, <1>2, FS_Subset
  <1> QED
    BY <1>3, FS_CardinalityType

\* An entry appended counts once for the account it dirties.
LEMMA TouchesAppend ==
    ASSUME NEW es \in Seq(Entry), NEW e \in Entry, NEW a
    PROVE  Cardinality(Touches(Append(es, e), a))
             = Cardinality(Touches(es, a)) + (IF dirtied(e, a) THEN 1 ELSE 0)
  <1> DEFINE n == Len(es)
             fs == Append(es, e)
  <1>1. n \in Nat /\ DOMAIN es = 1..n /\ DOMAIN fs = 1..(n + 1) /\ fs[n + 1] = e
        /\ \A i \in 1..n : fs[i] = es[i]
    BY SMTT(30)
  <1> HIDE DEF fs, n
  <1>2. \A i : i \in 1..(n + 1) <=> i \in 1..n \/ i = n + 1
    BY <1>1, SMTT(30)
  <1>3. n + 1 \notin Touches(es, a)
    BY <1>1, SMTT(30) DEF Touches
  <1>4. CASE dirtied(e, a)
    <2>1. Touches(fs, a) = Touches(es, a) \union {n + 1}
      BY <1>1, <1>2, <1>4, SMTT(30) DEF Touches
    <2> QED
      BY <1>3, <1>4, <2>1, TouchesFinite, FS_AddElement DEF fs
  <1>5. CASE ~dirtied(e, a)
    <2>1. Touches(fs, a) = Touches(es, a)
      BY <1>1, <1>2, <1>5, SMTT(30) DEF Touches
    <2> QED
      BY <1>5, <2>1, TouchesFinite, SMTT(30) DEF fs
  <1> QED
    BY <1>4, <1>5

\* journal.append keeps dirties the count of the entries of each account.
LEMMA CountAppend ==
    ASSUME NEW j, NEW x \in Nat, Counted(j, x), j.entries \in Seq(Entry),
           NEW e \in Entry, NEW now
    PROVE  Counted(append(j, e, now), x)
  <1> DEFINE q == append(j, e, now)
  <1>1. /\ q.entries = Append(j.entries, e)
        /\ q.dirties = [a \in Address |->
                           IF dirtied(e, a) THEN j.dirties[a] + 1 ELSE j.dirties[a]]
    BY DEF append
  <1> HIDE DEF q
  <1>2. q.dirties \in [Address -> Nat]
    BY <1>1, SMTT(30) DEF Counted
  <1>3. ASSUME NEW a \in Address
        PROVE  q.dirties[a] = Cardinality(Touches(q.entries, a))
                                + (IF a = Ripemd THEN x ELSE 0)
    <2>1. j.dirties[a] = Cardinality(Touches(j.entries, a)) + (IF a = Ripemd THEN x ELSE 0)
      BY DEF Counted
    <2>2. Cardinality(Touches(q.entries, a))
            = Cardinality(Touches(j.entries, a)) + (IF dirtied(e, a) THEN 1 ELSE 0)
      BY <1>1, TouchesAppend, SMTT(30)
    <2>3. q.dirties[a] = IF dirtied(e, a) THEN j.dirties[a] + 1 ELSE j.dirties[a]
      BY <1>1
    <2>4. Cardinality(Touches(j.entries, a)) \in Nat
      BY TouchesFinite
    <2> QED
      BY <2>1, <2>2, <2>3, <2>4, SMTT(30)
  <1> QED
    BY <1>2, <1>3 DEF Counted, q

\* One round of journal.revert keeps dirties the count of the entries of each account.
LEMMA CountPop ==
    ASSUME NEW j, NEW x \in Nat, Counted(j, x), j.entries \in Seq(Entry),
           j.entries # <<>>, NEW q,
           q.entries = SubSeq(j.entries, 1, Len(j.entries) - 1),
           q.dirties = [a \in Address |->
                           IF dirtied(j.entries[Len(j.entries)], a)
                           THEN j.dirties[a] - 1 ELSE j.dirties[a]]
    PROVE  Counted(q, x)
  <1> DEFINE n == Len(j.entries)
             e == j.entries[n]
  <1>1. /\ n \in Nat \ {0} /\ e \in Entry
        /\ q.entries \in Seq(Entry) /\ j.entries = Append(q.entries, e)
    <2>1. n \in Nat \ {0} /\ e \in Entry /\ q.entries \in Seq(Entry) /\ Len(q.entries) = n - 1
          /\ \A i \in 1..(n - 1) : q.entries[i] = j.entries[i]
      <3>1. n \in Nat \ {0} /\ e \in Entry /\ n - 1 \in 0..Len(j.entries)
        BY SMTT(30)
      <3> QED
        BY <3>1, FrontOf, SMTT(30)
    <2>2. /\ Append(q.entries, e) \in Seq(Entry) /\ Len(Append(q.entries, e)) = n
          /\ \A i \in 1..n : Append(q.entries, e)[i] = j.entries[i]
      BY <2>1, SMTT(30)
    <2> QED
      BY <2>1, <2>2, SMTT(30)
  <1> HIDE DEF e
  <1>2. ASSUME NEW a \in Address
        PROVE  /\ q.dirties[a] \in Nat
               /\ q.dirties[a] = Cardinality(Touches(q.entries, a))
                                   + (IF a = Ripemd THEN x ELSE 0)
    <2>1. j.dirties[a] = Cardinality(Touches(j.entries, a)) + (IF a = Ripemd THEN x ELSE 0)
      BY DEF Counted
    <2>2. Cardinality(Touches(j.entries, a))
            = Cardinality(Touches(q.entries, a)) + (IF dirtied(e, a) THEN 1 ELSE 0)
      <3>1. Cardinality(Touches(Append(q.entries, e), a))
              = Cardinality(Touches(q.entries, a)) + (IF dirtied(e, a) THEN 1 ELSE 0)
        BY <1>1, TouchesAppend
      <3> QED
        BY <1>1, <3>1, Zenon
    <2>3. q.dirties[a] = IF dirtied(e, a) THEN j.dirties[a] - 1 ELSE j.dirties[a]
      BY DEF e
    <2>4. Cardinality(Touches(q.entries, a)) \in Nat
      BY <1>1, TouchesFinite
    <2> QED
      BY <2>1, <2>2, <2>3, <2>4, SMTT(30)
  <1>3. q.dirties \in [Address -> Nat]
    BY <1>2
  <1> QED
    BY <1>2, <1>3 DEF Counted

-----------------------------------------------------------------------------
(***************************************************************************)
(* Entries and objects                                                     *)
(***************************************************************************)

\* An object in the place of another one, and what is then there.
PutObject(objs, a, o) == [objs EXCEPT ![a] = o]

Told(now, a, account) == [now EXCEPT !.accounts[a] = account]

\* What createObject writes in the journal.
Replacement(a, prev) ==
    IF prev.live THEN [kind |-> "resetObject", account |-> a, prev |-> prev]
    ELSE [kind |-> "createObject", account |-> a]

\* The fields of an entry, by its kind.
LEMMA EntryFields ==
    ASSUME NEW e \in Entry
    PROVE  /\ e.kind \in AccountKinds \union
                 {"accessListAddAccount", "accessListAddSlot", "addPreimage"}
           /\ e.kind # "addPreimage" => e.account \in Address
           /\ e.kind = "addPreimage" => e.hash \in Preimage
           /\ e.kind = "resetObject" => ObjectOK(e.prev) /\ e.prev.live
           /\ e.kind \in LoadingKinds => e.prev \in Value
           /\ e.kind = "suicide" => e.was \in BOOLEAN
           /\ e.kind \in {"storage", "accessListAddSlot"} => e.key \in Slot
  <1>1. CASE e \in [kind : FieldKinds, account : Address, prev : Value]
    BY <1>1 DEF FieldKinds, AccountKinds, LoadingKinds, ObjectKinds
  <1>2. CASE e \in [kind : {"storage"}, account : Address, key : Slot, prev : Value]
    BY <1>2 DEF FieldKinds, AccountKinds, LoadingKinds, ObjectKinds
  <1>3. CASE e \in [kind : {"suicide"}, account : Address, was : BOOLEAN, prev : Value]
    BY <1>3 DEF FieldKinds, AccountKinds, LoadingKinds, ObjectKinds
  <1>4. CASE e \in [kind : {"touch", "createObject", "accessListAddAccount"}, account : Address]
    BY <1>4 DEF FieldKinds, AccountKinds, LoadingKinds, ObjectKinds
  <1>5. CASE e \in [kind : {"resetObject"}, account : Address,
                    prev : {o \in Object : ObjectOK(o) /\ o.live}]
    BY <1>5 DEF FieldKinds, AccountKinds, LoadingKinds, ObjectKinds
  <1>6. CASE e \in [kind : {"accessListAddSlot"}, account : Address, key : Slot]
    BY <1>6 DEF FieldKinds, AccountKinds, LoadingKinds, ObjectKinds
  <1>7. CASE e \in [kind : {"addPreimage"}, hash : Preimage]
    BY <1>7 DEF FieldKinds, AccountKinds, LoadingKinds, ObjectKinds
  <1> QED
    BY <1>1, <1>2, <1>3, <1>4, <1>5, <1>6, <1>7 DEF Entry

\* Objects that only load and cache, a trie that only loses accounts.
LEMMA LinkedQuiet ==
    ASSUME NEW es, NEW objs, NEW tr, NEW S, Linked(es, objs, tr, S), es \in Seq(Entry),
           NEW objs2, NEW tr2, NEW S2 \in SUBSET S,
           \A a \in Address : objs[a].live => objs2[a].live /\ SameCaches(objs[a], objs2[a]),
           \A a \in Address : tr2[a].exists => tr[a].exists
    PROVE  Linked(es, objs2, tr2, S2)
  <1>1. ASSUME NEW i \in 1..Len(es)
        PROVE  /\ es[i].kind \in AccountKinds => es[i].account \in Address
               /\ es[i].kind = "storage" => es[i].key \in Slot
    <2>1. es[i] \in Entry
      BY SMTT(30)
    <2> QED
      BY <2>1, EntryFields DEF AccountKinds, FieldKinds
  <1>2. \A i \in 1..Len(es) : es[i].kind \in AccountKinds => objs2[es[i].account].live
    BY <1>1 DEF Linked
  <1>3. \A i \in 1..Len(es) : es[i].kind = "createObject" =>
          /\ ~tr2[es[i].account].exists
          /\ es[i].account \notin S2
          /\ \A m \in 1..(i - 1) :
                es[m].kind \in AccountKinds => es[m].account # es[i].account
    BY <1>1 DEF Linked, AccountKinds
  <1>4. \A i \in 1..Len(es) : es[i].kind = "storage" =>
          \/ objs2[es[i].account].originStorage[es[i].key] # Absent
          \/ \E m \in (i + 1)..Len(es) : Replaces(es[m], es[i].account)
    BY <1>1 DEF Linked, AccountKinds, SameCaches
  <1> QED
    BY <1>2, <1>3, <1>4 DEF Linked

\* An entry that replaces no object, on an account that has one.
LEMMA LinkedAppend ==
    ASSUME NEW es \in Seq(Entry), NEW objs, NEW tr, NEW S, Linked(es, objs, tr, S),
           NEW e \in Entry, e.kind \notin ReplacingKinds,
           e.kind \in AccountKinds => objs[e.account].live,
           e.kind = "storage" => objs[e.account].originStorage[e.key] # Absent
    PROVE  Linked(Append(es, e), objs, tr, S)
  <1> DEFINE n == Len(es)
             fs == Append(es, e)
  <1>1. n \in Nat /\ Len(fs) = n + 1 /\ fs[n + 1] = e /\ \A i \in 1..n : fs[i] = es[i]
    BY SMTT(30)
  <1> HIDE DEF n, fs
  <1>2. \A i : i \in 1..(n + 1) <=> i \in 1..n \/ i = n + 1
    BY <1>1, SMTT(30)
  <1>3. \A i \in 1..(n + 1) : fs[i].kind \in AccountKinds => objs[fs[i].account].live
    BY <1>1, <1>2 DEF Linked, n
  <1>4. ASSUME NEW i \in 1..(n + 1), fs[i].kind = "createObject"
        PROVE  /\ ~tr[fs[i].account].exists /\ fs[i].account \notin S
               /\ \A m \in 1..(i - 1) :
                     fs[m].kind \in AccountKinds => fs[m].account # fs[i].account
    <2>1. i \in 1..n /\ fs[i] = es[i] /\ \A m \in 1..(i - 1) : m \in 1..n /\ fs[m] = es[m]
      BY <1>1, <1>2, <1>4, SMTT(30) DEF ReplacingKinds
    <2> QED
      BY <1>4, <2>1, SMTT(30) DEF Linked, n
  <1>5. ASSUME NEW i \in 1..(n + 1), fs[i].kind = "storage"
        PROVE  \/ objs[fs[i].account].originStorage[fs[i].key] # Absent
               \/ \E m \in (i + 1)..(n + 1) : Replaces(fs[m], fs[i].account)
    <2>1. CASE i = n + 1
      BY <1>1, <1>5, <2>1
    <2>2. CASE i \in 1..n
      <3>1. fs[i] = es[i] /\ \A m \in (i + 1)..n : m \in (i + 1)..(n + 1) /\ fs[m] = es[m]
        BY <1>1, <2>2, SMTT(30)
      <3>2. \/ objs[es[i].account].originStorage[es[i].key] # Absent
            \/ \E m \in (i + 1)..n : Replaces(es[m], es[i].account)
        BY <1>5, <2>2, <3>1 DEF Linked, n
      <3> QED
        BY <3>1, <3>2
    <2> QED
      BY <1>2, <2>1, <2>2
  <1>6. ASSUME NEW i \in 1..(n + 1), NEW m \in 1..(n + 1),
               fs[i].kind = "storage", i < m, Replaces(fs[m], fs[i].account),
               \A l \in (i + 1)..(m - 1) : ~Replaces(fs[l], fs[i].account)
        PROVE  fs[m].kind = "resetObject" /\ fs[m].prev.originStorage[fs[i].key] # Absent
    <2>1. m \in 1..n
      BY <1>1, <1>2, <1>6 DEF Replaces
    <2>2. i \in 1..n
      BY <1>1, <1>6, <2>1, SMTT(30)
    <2>3. \A l \in (i + 1)..(m - 1) : l \in 1..n /\ fs[l] = es[l]
      BY <1>1, <2>1, <2>2, SMTT(30)
    <2>4. fs[i] = es[i] /\ fs[m] = es[m]
      BY <1>1, <2>1, <2>2
    <2>5. \A l \in (i + 1)..(m - 1) : ~Replaces(es[l], es[i].account)
      BY <1>6, <2>3, <2>4
    <2> QED
      BY <1>6, <2>1, <2>2, <2>4, <2>5 DEF Linked, n
  <1> QED
    BY <1>1, <1>3, <1>4, <1>5, <1>6 DEF Linked, fs

\* An entry that puts a new object in the place of another one, or of none.
LEMMA LinkedReplace ==
    ASSUME NEW es \in Seq(Entry), NEW objs \in [Address -> Object], NEW tr, NEW S,
           Linked(es, objs, tr, S),
           NEW e \in Entry, e.kind \in ReplacingKinds,
           NEW o, o.live,
           e.kind = "createObject" => /\ ~objs[e.account].live /\ ~tr[e.account].exists
                                      /\ e.account \notin S,
           e.kind = "resetObject" /\ objs[e.account].live => e.prev = objs[e.account]
    PROVE  Linked(Append(es, e), PutObject(objs, e.account, o), tr, S)
  <1> DEFINE n == Len(es)
             fs == Append(es, e)
             a == e.account
             objs2 == PutObject(objs, a, o)
  <1>1. n \in Nat /\ Len(fs) = n + 1 /\ fs[n + 1] = e /\ \A i \in 1..n : fs[i] = es[i]
    BY SMTT(30)
  <1>2. a \in Address /\ e.kind \in AccountKinds
    BY EntryFields DEF ReplacingKinds, AccountKinds
  <1>3. objs2[a] = o /\ \A c \in Address : c # a => objs2[c] = objs[c]
    BY <1>2 DEF PutObject
  <1>4. \A i \in 1..n : es[i].kind \in AccountKinds => es[i].account \in Address
    <2>1. \A i \in 1..n : es[i] \in Entry
      BY SMTT(30)
    <2> QED
      BY <2>1, EntryFields DEF AccountKinds, FieldKinds
  <1> HIDE DEF n, fs, a, objs2
  <1>5. \A i : i \in 1..(n + 1) <=> i \in 1..n \/ i = n + 1
    BY <1>1, SMTT(30)
  <1>6. ASSUME NEW i \in 1..(n + 1), fs[i].kind \in AccountKinds
        PROVE  objs2[fs[i].account].live
    <2>1. CASE i = n + 1
      BY <1>1, <1>3, <2>1 DEF a
    <2>2. CASE i \in 1..n
      <3>1. objs[es[i].account].live /\ es[i].account \in Address
        BY <1>1, <1>4, <1>6, <2>2 DEF Linked, n
      <3> QED
        BY <1>1, <1>3, <2>2, <3>1
    <2> QED
      BY <1>5, <2>1, <2>2
  <1>7. ASSUME NEW i \in 1..(n + 1), fs[i].kind = "createObject"
        PROVE  /\ ~tr[fs[i].account].exists /\ fs[i].account \notin S
               /\ \A m \in 1..(i - 1) :
                     fs[m].kind \in AccountKinds => fs[m].account # fs[i].account
    <2>1. CASE i = n + 1
      <3>1. e.kind = "createObject" /\ fs[i] = e
        BY <1>1, <1>7, <2>1
      <3>2. \A m \in 1..n : es[m].kind \in AccountKinds => es[m].account # a
        BY <3>1 DEF Linked, n, a
      <3>3. \A m \in 1..(i - 1) : m \in 1..n /\ fs[m] = es[m]
        BY <1>1, <2>1, SMTT(30)
      <3> QED
        BY <3>1, <3>2, <3>3 DEF a
    <2>2. CASE i \in 1..n
      <3>1. fs[i] = es[i] /\ \A m \in 1..(i - 1) : m \in 1..n /\ fs[m] = es[m]
        BY <1>1, <2>2, SMTT(30)
      <3> QED
        BY <1>7, <2>2, <3>1, SMTT(30) DEF Linked, n
    <2> QED
      BY <1>5, <2>1, <2>2
  <1>8. ASSUME NEW i \in 1..(n + 1), fs[i].kind = "storage"
        PROVE  \/ objs2[fs[i].account].originStorage[fs[i].key] # Absent
               \/ \E m \in (i + 1)..(n + 1) : Replaces(fs[m], fs[i].account)
    <2>1. i \in 1..n /\ fs[i] = es[i] /\ es[i].account \in Address
      BY <1>1, <1>4, <1>5, <1>8 DEF ReplacingKinds, AccountKinds
    <2>2. CASE es[i].account = a
      <3>1. n + 1 \in (i + 1)..(n + 1) /\ Replaces(fs[n + 1], fs[i].account)
        BY <1>1, <2>1, <2>2, SMTT(30) DEF Replaces, a
      <3> QED
        BY <3>1
    <2>3. CASE es[i].account # a
      <3>1. \A m \in (i + 1)..n : m \in (i + 1)..(n + 1) /\ fs[m] = es[m]
        BY <1>1, <2>1, SMTT(30)
      <3>2. \/ objs[es[i].account].originStorage[es[i].key] # Absent
            \/ \E m \in (i + 1)..n : Replaces(es[m], es[i].account)
        BY <1>8, <2>1 DEF Linked, n
      <3> QED
        BY <1>3, <2>1, <2>3, <3>1, <3>2
    <2> QED
      BY <2>2, <2>3
  <1>9. ASSUME NEW i \in 1..(n + 1), NEW m \in 1..(n + 1),
               fs[i].kind = "storage", i < m, Replaces(fs[m], fs[i].account),
               \A l \in (i + 1)..(m - 1) : ~Replaces(fs[l], fs[i].account)
        PROVE  fs[m].kind = "resetObject" /\ fs[m].prev.originStorage[fs[i].key] # Absent
    <2>1. i \in 1..n
      BY <1>1, <1>9, SMTT(30)
    <2>2. \A l \in (i + 1)..(m - 1) : l \in 1..n /\ fs[l] = es[l]
      BY <1>1, <2>1, SMTT(30)
    <2>3. fs[i] = es[i] /\ es[i].kind = "storage"
      BY <1>1, <1>9, <2>1
    <2>4. \A l \in (i + 1)..(m - 1) : ~Replaces(es[l], es[i].account)
      BY <1>9, <2>2, <2>3
    <2>5. CASE m = n + 1
      <3>1. fs[m] = e /\ es[i].account = a
        BY <1>1, <1>9, <2>3, <2>5 DEF Replaces, a
      <3>2. objs[a].live
        BY <2>1, <2>3, <3>1 DEF Linked, n, AccountKinds
      <3>3. e.kind = "resetObject" /\ e.prev = objs[a]
        BY <3>2 DEF a, ReplacingKinds
      <3>4. \A l \in (i + 1)..n : ~Replaces(es[l], es[i].account)
        BY <1>1, <2>4, <2>5, SMTT(30)
      <3>5. objs[a].originStorage[es[i].key] # Absent
        BY <2>1, <2>3, <3>1, <3>4 DEF Linked, n
      <3> QED
        BY <2>3, <3>1, <3>3, <3>5
    <2>6. CASE m \in 1..n
      <3>1. fs[m] = es[m]
        BY <1>1, <2>6
      <3> QED
        BY <1>9, <2>1, <2>3, <2>4, <2>6, <3>1 DEF Linked, n
    <2> QED
      BY <1>5, <2>5, <2>6
  <1> QED
    BY <1>1, <1>6, <1>7, <1>8, <1>9 DEF Linked, fs, objs2, a

\* The undo of the last entry: an object that was put aside comes back with
\* its caches, and one that was created for an account has no earlier entry.
LEMMA LinkedPop ==
    ASSUME NEW es \in Seq(Entry), es # <<>>, NEW objs \in [Address -> Object], NEW tr, NEW S,
           Linked(es, objs, tr, S),
           NEW e, e = es[Len(es)], NEW objs2 \in [Address -> Object], NEW S2 \in SUBSET S,
           \A a \in Address : e.kind \notin AccountKinds \/ a # e.account
                                => objs2[a] = objs[a],
           e.kind = "resetObject" => objs2[e.account] = e.prev,
           e.kind \in AccountKinds \ ReplacingKinds =>
               objs2[e.account].live /\ SameCaches(objs[e.account], objs2[e.account])
    PROVE  Linked(SubSeq(es, 1, Len(es) - 1), objs2, tr, S2)
  <1> DEFINE n == Len(es)
             fs == SubSeq(es, 1, n - 1)
             a == e.account
  <1>1. /\ n \in Nat \ {0} /\ Len(fs) = n - 1 /\ es[n] = e
        /\ \A i \in 1..(n - 1) : fs[i] = es[i] /\ i \in 1..n
    <2>1. n \in Nat \ {0} /\ n - 1 \in 0..Len(es)
      BY SMTT(30)
    <2> QED
      BY <2>1, FrontOf
  <1>2. e \in Entry /\ \A i \in 1..n : es[i] \in Entry
    BY <1>1, SMTT(30)
  <1>3. \A i \in 1..n : /\ es[i].kind \in AccountKinds => es[i].account \in Address
                        /\ es[i].kind = "storage" => es[i].key \in Slot
    BY <1>2, EntryFields DEF AccountKinds, FieldKinds
  <1>4. e.kind = "resetObject" => e.prev.live
    BY <1>2, EntryFields
  <1> HIDE DEF n, fs, a
  <1>5. ASSUME NEW i \in 1..(n - 1), fs[i].kind \in AccountKinds
        PROVE  objs2[fs[i].account].live
    <2>1. fs[i] = es[i] /\ i \in 1..n /\ n \in 1..n /\ i \in 1..(n - 1)
      BY <1>1, SMTT(30)
    <2>2. objs[es[i].account].live /\ es[i].account \in Address
      BY <1>3, <1>5, <2>1 DEF Linked, n
    <2>3. CASE e.kind = "createObject"
      <3>1. es[i].account # a
        BY <1>1, <1>5, <2>1, <2>3, SMTT(30) DEF Linked, n, a
      <3> QED
        BY <2>1, <2>2, <3>1 DEF a
    <2>4. CASE e.kind # "createObject"
      BY <1>4, <2>1, <2>2, <2>4 DEF ReplacingKinds
    <2> QED
      BY <2>3, <2>4
  <1>6. ASSUME NEW i \in 1..(n - 1), fs[i].kind = "createObject"
        PROVE  /\ ~tr[fs[i].account].exists /\ fs[i].account \notin S2
               /\ \A m \in 1..(i - 1) :
                     fs[m].kind \in AccountKinds => fs[m].account # fs[i].account
    <2>1. i \in 1..n /\ fs[i] = es[i] /\ \A m \in 1..(i - 1) : fs[m] = es[m]
      BY <1>1, SMTT(30)
    <2> QED
      BY <1>6, <2>1, SMTT(30) DEF Linked, n
  <1>7. ASSUME NEW i \in 1..(n - 1), fs[i].kind = "storage"
        PROVE  \/ objs2[fs[i].account].originStorage[fs[i].key] # Absent
               \/ \E m \in (i + 1)..(n - 1) : Replaces(fs[m], fs[i].account)
    <2> SUFFICES ASSUME ~\E m \in (i + 1)..(n - 1) : Replaces(fs[m], fs[i].account)
                 PROVE  objs2[fs[i].account].originStorage[fs[i].key] # Absent
      OBVIOUS
    <2>1. i \in 1..n /\ n \in 1..n /\ i < n /\ fs[i] = es[i] /\ es[i].account \in Address
          /\ es[i].key \in Slot /\ es[i].kind = "storage"
      BY <1>1, <1>3, <1>7, SMTT(30) DEF AccountKinds
    <2>2. \A m \in (i + 1)..(n - 1) : ~Replaces(es[m], es[i].account)
      BY <1>1, <2>1, SMTT(30)
    <2>3. CASE Replaces(e, es[i].account)
      <3>0. \A m \in 1..n :
              /\ es[i].kind = "storage" /\ i < m /\ Replaces(es[m], es[i].account)
              /\ \A l \in (i + 1)..(m - 1) : ~Replaces(es[l], es[i].account)
              => /\ es[m].kind = "resetObject"
                 /\ es[m].prev.originStorage[es[i].key] # Absent
        BY <2>1 DEF Linked, n
      <3>1. e.kind = "resetObject" /\ e.prev.originStorage[es[i].key] # Absent
        BY <1>1, <2>1, <2>2, <2>3, <3>0
      <3>2. objs2[es[i].account] = e.prev
        BY <2>3, <3>1 DEF Replaces
      <3> QED
        BY <2>1, <3>1, <3>2
    <2>4. CASE ~Replaces(e, es[i].account)
      <3>1. \A m \in (i + 1)..n : ~Replaces(es[m], es[i].account)
        BY <1>1, <2>1, <2>2, <2>4, SMTT(30)
      <3>2. objs[es[i].account].originStorage[es[i].key] # Absent
        BY <2>1, <3>1 DEF Linked, n
      <3>3. objs2[es[i].account] = objs[es[i].account]
            \/ SameCaches(objs[es[i].account], objs2[es[i].account])
        BY <2>1, <2>4 DEF Replaces
      <3> QED
        BY <2>1, <3>2, <3>3 DEF SameCaches
    <2> QED
      BY <2>3, <2>4
  <1>8. ASSUME NEW i \in 1..(n - 1), NEW m \in 1..(n - 1),
               fs[i].kind = "storage", i < m, Replaces(fs[m], fs[i].account),
               \A l \in (i + 1)..(m - 1) : ~Replaces(fs[l], fs[i].account)
        PROVE  fs[m].kind = "resetObject" /\ fs[m].prev.originStorage[fs[i].key] # Absent
    <2>1. i \in 1..n /\ m \in 1..n /\ fs[i] = es[i] /\ fs[m] = es[m]
      BY <1>1
    <2>2. \A l \in (i + 1)..(m - 1) : fs[l] = es[l]
      BY <1>1, SMTT(30)
    <2>3. \A l \in (i + 1)..(m - 1) : ~Replaces(es[l], es[i].account)
      BY <1>8, <2>1, <2>2
    <2> QED
      BY <1>8, <2>1, <2>3, SMTT(30) DEF Linked, n
  <1> QED
    BY <1>1, <1>5, <1>6, <1>7, <1>8 DEF Linked, fs, n

-----------------------------------------------------------------------------
(***************************************************************************)
(* Steps of the database as a whole                                        *)
(***************************************************************************)

\* The journal q is j with more entries, and what was there before is known.
Extends(j, now, q, now2) ==
    /\ Len(j.entries) \in 0..Len(q.entries)
    /\ \A i \in 1..Len(j.entries) : q.entries[i] = j.entries[i]
    /\ \A i \in 0..Len(j.entries) : FoundAt(q, now2, i) = FoundAt(j, now, i)

\* What the getters return for the accounts is well formed.
LEMMA SaysType ==
    ASSUME NEW objs, NEW tr \in [Address -> ChainAccount], NEW S, ObjectsOK(objs, S)
    PROVE  Says(objs, tr) \in [Address -> ReadAccount]
  <1>1. ASSUME NEW a \in Address
        PROVE  Account(Stored(objs, tr, a)) \in ReadAccount
    <2>1. CASE objs[a].live
      BY <2>1, AccountType DEF ObjectsOK, Stored
    <2>2. CASE ~objs[a].live /\ tr[a].exists
      BY <2>2, NewObject, AccountType DEF Stored
    <2>3. CASE ~objs[a].live /\ ~tr[a].exists
      BY <2>3, NoObjectOK, AccountType DEF Stored
    <2> QED
      BY <2>1, <2>2, <2>3
  <1> QED
    BY <1>1 DEF Says

\* What the getters return is known when it is known for every account.
LEMMA SaysIs ==
    ASSUME NEW objs, NEW tr, NEW says \in [Address -> ReadAccount],
           \A b \in Address : says[b] = Says(objs, tr)[b]
    PROVE  says = Says(objs, tr)
  <1>1. Says(objs, tr) = [b \in Address |-> Says(objs, tr)[b]]
    BY DEF Says
  <1>2. says = [b \in Address |-> says[b]]
    OBVIOUS
  <1> QED
    BY <1>1, <1>2, Zenon

\* A call that changes an account and says so in the journal.
LEMMA SoundEntry ==
    ASSUME NEW j, NEW objs, NEW now, NEW tr, NEW S, NEW x \in Nat,
           Sound(j, objs, now, tr, S, x),
           NEW a \in Address, Usable(objs[a]), NEW o, ObjectOK(o), Usable(o),
           SameCaches(objs[a], o),
           NEW e \in Entry, e.kind \in AccountKinds \ ReplacingKinds, e.account = a,
           e.kind = "storage" => o.originStorage[e.key] # Absent,
           SetBack(e, Account(o)) = Account(objs[a])
    PROVE  LET q == append(j, e, now)
               now2 == Told(now, a, Account(o))
           IN  /\ Sound(q, PutObject(objs, a, o), now2, tr, S, x)
               /\ Extends(j, now, q, now2)
               /\ q.entries = Append(j.entries, e)
  <1> DEFINE q == append(j, e, now)
             now2 == Told(now, a, Account(o))
             objs2 == PutObject(objs, a, o)
             acc == Account(o)
  <1>1. /\ tr \in [Address -> ChainAccount] /\ ObjectsOK(objs, S) /\ objs \in [Address -> Object]
        /\ now.accounts = Says(objs, tr) /\ Chained(j, now)
        /\ Linked(j.entries, objs, tr, S) /\ Counted(j, x)
        /\ now \in Found /\ j.entries \in Seq(Entry)
    BY DEF Sound, ObjectsOK, Chained
  <1>2. acc \in ReadAccount /\ acc.exists
    BY AccountType
  <1>3. o.live /\ objs[a].live /\ o \in Object
    BY DEF Usable, ObjectOK
  <1>4. ObjectsOK(objs2, S)
    BY <1>1, <1>3 DEF ObjectsOK, PutObject
  <1>5. now.accounts \in [Address -> ReadAccount] /\ now.accounts[a] = Account(objs[a])
    BY <1>1, <1>3 DEF Found, Says, Stored
  <1> HIDE DEF acc
  <1>6. /\ now2 \in Found /\ now2.accounts = [now.accounts EXCEPT ![a] = acc]
        /\ now2.accessList = now.accessList /\ now2.preimages = now.preimages
    BY <1>1, <1>2 DEF Found, acc, Told
  <1>7. now2.accounts = Says(objs2, tr)
    <2>1. objs2[a] = o /\ \A b \in Address : b # a => objs2[b] = objs[b]
      BY <1>1 DEF PutObject
    <2>2. /\ now2.accounts \in [Address -> ReadAccount] /\ now2.accounts[a] = Account(o)
          /\ \A b \in Address : b # a => now2.accounts[b] = Says(objs, tr)[b]
      BY <1>1, <1>6 DEF Found, acc
    <2> HIDE DEF objs2, now2
    <2> QED
      <3>1. Says(objs2, tr)[a] = Account(o)
        BY <1>3, <2>1 DEF Says, Stored
      <3>2. \A b \in Address : b # a => Says(objs2, tr)[b] = Says(objs, tr)[b]
        BY <2>1 DEF Says, Stored
      <3> QED
        BY <2>2, <3>1, <3>2, SaysIs, SMTT(30)
  <1> HIDE DEF now2, objs2
  <1>8. Able(e, now2)
    BY <1>2, <1>5, <1>6 DEF Able, AccountKinds, FieldKinds
  <1>9. Before(e, now2) = now
    <2>1. now2.accounts[a] = acc
      BY <1>5, <1>6
    <2>2. [now2.accounts EXCEPT ![a] = Account(objs[a])] = now.accounts
      BY <1>5, <1>6
    <2>3. CooledBy(e, now2.accessList) = now.accessList
      BY <1>6 DEF CooledBy, AccountKinds, FieldKinds
    <2>4. e.kind # "addPreimage" /\ e.kind \in AccountKinds
      BY DEF AccountKinds, FieldKinds
    <2>5. Before(e, now2) = [accounts |-> now.accounts, accessList |-> now.accessList,
                             preimages |-> now.preimages]
      BY <1>6, <2>1, <2>2, <2>3, <2>4 DEF Before, acc
    <2> QED
      BY <1>1, <2>5 DEF Found
  <1>10. /\ Chained(q, now2) /\ q.entries = Append(j.entries, e)
         /\ Len(q.entries) = Len(j.entries) + 1
         /\ \A i \in 0..Len(j.entries) : FoundAt(q, now2, i) = FoundAt(j, now, i)
    BY <1>1, <1>6, <1>8, <1>9, AppendChained, SMTT(30)
  <1>11. Linked(j.entries, objs2, tr, S)
    <2>1. \A b \in Address : objs[b].live => objs2[b].live /\ SameCaches(objs[b], objs2[b])
      BY <1>1, <1>3 DEF objs2, SameCaches, PutObject
    <2> QED
      BY <1>1, <2>1, LinkedQuiet
  <1>12. Linked(Append(j.entries, e), objs2, tr, S)
    <2>1. objs2[a] = o
      BY <1>1 DEF objs2, PutObject
    <2> QED
      BY <1>1, <1>3, <1>11, <2>1, LinkedAppend
  <1>13. Counted(q, x)
    BY <1>1, CountAppend
  <1> HIDE DEF q
  <1>14. Sound(q, objs2, now2, tr, S, x)
    BY <1>1, <1>4, <1>7, <1>10, <1>12, <1>13 DEF Sound
  <1>15. Extends(j, now, q, now2)
    <2>1. Len(j.entries) \in Nat /\ \A i \in 1..Len(j.entries) : Append(j.entries, e)[i] = j.entries[i]
      BY <1>1, SMTT(30)
    <2> QED
      BY <1>10, <2>1, SMTT(30) DEF Extends
  <1> QED
    BY <1>10, <1>14, <1>15 DEF q, now2, objs2

\* A call that puts a new object for an account, in the place of prev.
LEMMA SoundReplace ==
    ASSUME NEW j, NEW objs, NEW now, NEW tr, NEW S, NEW x \in Nat,
           Sound(j, objs, now, tr, S, x),
           NEW a \in Address, NEW o, ObjectOK(o), Usable(o)
    PROVE  LET prev == Stored(objs, tr, a)
               e == Replacement(a, prev)
               q == append(j, e, now)
               now2 == Told(now, a, Account(o))
           IN  /\ Sound(q, PutObject(objs, a, o), now2, tr, S, x)
               /\ Extends(j, now, q, now2)
               /\ q.entries = Append(j.entries, e)
               /\ now.accounts[a] = Account(prev)
  <1> DEFINE prev == Stored(objs, tr, a)
             e == Replacement(a, prev)
             q == append(j, e, now)
             now2 == Told(now, a, Account(o))
             objs2 == PutObject(objs, a, o)
             acc == Account(o)
  <1>1. /\ tr \in [Address -> ChainAccount] /\ ObjectsOK(objs, S) /\ objs \in [Address -> Object]
        /\ now.accounts = Says(objs, tr) /\ Chained(j, now)
        /\ Linked(j.entries, objs, tr, S) /\ Counted(j, x)
        /\ now \in Found /\ j.entries \in Seq(Entry)
    BY DEF Sound, ObjectsOK, Chained
  <1>2. acc \in ReadAccount /\ o.live /\ o \in Object
    BY AccountType DEF Usable, ObjectOK
  <1>3. ObjectsOK(objs2, S)
    BY <1>1, <1>2 DEF ObjectsOK, PutObject
  <1>4. now.accounts \in [Address -> ReadAccount] /\ now.accounts[a] = Account(prev)
    BY <1>1 DEF Found, Says
  <1>5. ObjectOK(prev) /\ prev \in Object
    <2>1. CASE objs[a].live
      BY <1>1, <2>1 DEF ObjectsOK, ObjectOK, Stored
    <2>2. CASE ~objs[a].live /\ tr[a].exists
      BY <1>1, <2>2, NewObject DEF ObjectOK, Stored
    <2>3. CASE ~objs[a].live /\ ~tr[a].exists
      BY <2>3, NoObjectOK DEF ObjectOK, Stored
    <2> QED
      BY <2>1, <2>2, <2>3
  <1>51. /\ objs[a].live => prev = objs[a]
         /\ ~prev.live => ~objs[a].live /\ ~tr[a].exists
    BY <1>1, NewObject DEF Stored, Usable
  <1> HIDE DEF prev
  <1>6. /\ e \in Entry /\ e.account = a /\ e.kind \in ReplacingKinds /\ e.kind \in AccountKinds
        /\ SetBack(e, acc) = Account(prev)
        /\ e.kind = "resetObject" => e.prev = prev
        /\ e.kind = "createObject" => ~prev.live
    <2>1. CASE prev.live
      <3>1. e = [kind |-> "resetObject", account |-> a, prev |-> prev]
        BY <2>1 DEF Replacement
      <3>2. e \in Entry
        BY <1>5, <2>1, <3>1, SMTT(30) DEF Entry
      <3> QED
        BY <3>1, <3>2, SMTT(30) DEF SetBack, ReplacingKinds, AccountKinds
    <2>2. CASE ~prev.live
      <3>1. e = [kind |-> "createObject", account |-> a]
        BY <2>2 DEF Replacement
      <3>2. e \in Entry
        BY <3>1, SMTT(30) DEF Entry
      <3>3. Account(prev) = NoAccount
        BY <2>2 DEF Account, Usable
      <3> QED
        BY <2>2, <3>1, <3>2, <3>3, SMTT(30) DEF SetBack, ReplacingKinds, AccountKinds
    <2> QED
      BY <2>1, <2>2
  <1> HIDE DEF acc, e
  <1>7. /\ now2 \in Found /\ now2.accounts = [now.accounts EXCEPT ![a] = acc]
        /\ now2.accessList = now.accessList /\ now2.preimages = now.preimages
    BY <1>1, <1>2 DEF Found, acc, Told
  <1>8. now2.accounts = Says(objs2, tr)
    <2>1. objs2[a] = o /\ \A b \in Address : b # a => objs2[b] = objs[b]
      BY <1>1 DEF PutObject
    <2>2. /\ now2.accounts \in [Address -> ReadAccount] /\ now2.accounts[a] = Account(o)
          /\ \A b \in Address : b # a => now2.accounts[b] = Says(objs, tr)[b]
      BY <1>1, <1>7 DEF Found, acc
    <2> HIDE DEF objs2, now2
    <2> QED
      <3>1. Says(objs2, tr)[a] = Account(o)
        BY <1>2, <2>1 DEF Says, Stored
      <3>2. \A b \in Address : b # a => Says(objs2, tr)[b] = Says(objs, tr)[b]
        BY <2>1 DEF Says, Stored
      <3> QED
        BY <2>2, <3>1, <3>2, SaysIs, SMTT(30)
  <1> HIDE DEF now2, objs2
  <1>9. Able(e, now2)
    BY <1>6 DEF Able, ReplacingKinds, LoadingKinds, ObjectKinds
  <1>10. Before(e, now2) = now
    <2>1. now2.accounts[a] = acc
      BY <1>4, <1>7
    <2>2. [now2.accounts EXCEPT ![a] = Account(prev)] = now.accounts
      BY <1>4, <1>7
    <2>3. CooledBy(e, now2.accessList) = now.accessList
      BY <1>6, <1>7 DEF CooledBy, ReplacingKinds
    <2>4. e.kind # "addPreimage"
      BY <1>6 DEF ReplacingKinds
    <2>5. Before(e, now2) = [accounts |-> now.accounts, accessList |-> now.accessList,
                             preimages |-> now.preimages]
      BY <1>6, <1>7, <2>1, <2>2, <2>3, <2>4 DEF Before
    <2> QED
      BY <1>1, <2>5 DEF Found
  <1>11. /\ Chained(q, now2) /\ q.entries = Append(j.entries, e)
         /\ Len(q.entries) = Len(j.entries) + 1
         /\ \A i \in 0..Len(j.entries) : FoundAt(q, now2, i) = FoundAt(j, now, i)
    <2>1. e \in Entry /\ now2 \in Found /\ Chained(j, now)
      BY <1>1, <1>6, <1>7
    <2> QED
      BY <1>9, <1>10, <2>1, AppendChained
  <1>12. Linked(Append(j.entries, e), objs2, tr, S)
    <2>1. e.kind = "createObject" => ~objs[a].live /\ ~tr[a].exists /\ a \notin S
      BY <1>1, <1>51, <1>6 DEF ObjectsOK
    <2>2. e.kind = "resetObject" /\ objs[a].live => e.prev = objs[a]
      BY <1>51, <1>6
    <2> QED
      BY <1>1, <1>2, <1>6, <2>1, <2>2, LinkedReplace DEF objs2
  <1>13. Counted(q, x)
    BY <1>1, <1>6, CountAppend
  <1> HIDE DEF q
  <1>14. Sound(q, objs2, now2, tr, S, x)
    BY <1>1, <1>3, <1>8, <1>11, <1>12, <1>13 DEF Sound
  <1>15. Extends(j, now, q, now2)
    <2>1. Len(j.entries) \in Nat /\ \A i \in 1..Len(j.entries) : Append(j.entries, e)[i] = j.entries[i]
      BY <1>1, SMTT(30)
    <2> QED
      BY <1>11, <2>1, SMTT(30) DEF Extends
  <1> QED
    BY <1>4, <1>11, <1>14, <1>15 DEF q, now2, objs2, e, prev

\* A call that loads an object or caches one of its slots.
LEMMA SoundLoad ==
    ASSUME NEW j, NEW objs, NEW now, NEW tr, NEW S, NEW x,
           Sound(j, objs, now, tr, S, x),
           NEW a \in Address, NEW o, ObjectOK(o), Account(o) = now.accounts[a],
           objs[a].live => o.live /\ SameCaches(objs[a], o),
           ~o.live => ~tr[a].exists
    PROVE  /\ Sound(j, PutObject(objs, a, o), now, tr, S, x)
           /\ Says(PutObject(objs, a, o), tr) = now.accounts
  <1> DEFINE objs2 == PutObject(objs, a, o)
  <1>1. /\ tr \in [Address -> ChainAccount] /\ ObjectsOK(objs, S) /\ objs \in [Address -> Object]
        /\ now.accounts = Says(objs, tr) /\ Chained(j, now)
        /\ Linked(j.entries, objs, tr, S) /\ Counted(j, x)
        /\ now \in Found /\ j.entries \in Seq(Entry)
    BY DEF Sound, ObjectsOK, Chained
  <1>2. /\ objs2 \in [Address -> Object] /\ objs2[a] = o
        /\ \A b \in Address : b # a => objs2[b] = objs[b]
    BY <1>1 DEF ObjectOK, PutObject
  <1> HIDE DEF objs2
  <1>3. ObjectsOK(objs2, S)
    BY <1>1, <1>2 DEF ObjectsOK
  <1>4. Linked(j.entries, objs2, tr, S)
    <2>1. \A b \in Address : objs[b].live => objs2[b].live /\ SameCaches(objs[b], objs2[b])
      BY <1>2 DEF SameCaches
    <2> QED
      BY <1>1, <2>1, LinkedQuiet
  <1>5. Says(objs2, tr) = now.accounts
    <2>1. \A b \in Address : b # a => Says(objs2, tr)[b] = Says(objs, tr)[b]
      BY <1>2 DEF Says, Stored
    <2>2. Says(objs2, tr)[a] = Account(o)
      <3>1. CASE o.live
        BY <1>2, <3>1 DEF Says, Stored
      <3>2. CASE ~o.live
        <4>1. o = NoObject
          BY <3>2 DEF ObjectOK
        <4> QED
          BY <1>2, <3>2, <4>1 DEF Says, Stored
      <3> QED
        BY <3>1, <3>2
    <2>3. \A b \in Address : Says(objs2, tr)[b] = Says(objs, tr)[b]
      BY <1>1, <2>1, <2>2
    <2>4. /\ Says(objs2, tr) = [b \in Address |-> Says(objs2, tr)[b]]
          /\ Says(objs, tr) = [b \in Address |-> Says(objs, tr)[b]]
      BY DEF Says
    <2> QED
      BY <1>1, <2>3, <2>4, Zenon
  <1> QED
    BY <1>1, <1>3, <1>4, <1>5 DEF Sound, objs2

\* A journal extended twice is extended.
LEMMA ExtendsTrans ==
    ASSUME NEW j1, NEW now1, NEW j2, NEW now2, NEW j3, NEW now3,
           Extends(j1, now1, j2, now2), Extends(j2, now2, j3, now3),
           Len(j1.entries) \in Nat, Len(j2.entries) \in Nat, Len(j3.entries) \in Nat
    PROVE  Extends(j1, now1, j3, now3)
  <1>1. Len(j1.entries) \in 0..Len(j3.entries)
    BY SMTT(30) DEF Extends
  <1>2. \A i \in 1..Len(j1.entries) : i \in 1..Len(j2.entries) /\ j3.entries[i] = j1.entries[i]
    BY SMTT(30) DEF Extends
  <1>3. \A i \in 0..Len(j1.entries) :
           i \in 0..Len(j2.entries) /\ FoundAt(j3, now3, i) = FoundAt(j1, now1, i)
    BY SMTT(30) DEF Extends
  <1> QED
    BY <1>1, <1>2, <1>3 DEF Extends

\* A journal extends itself.
LEMMA ExtendsSelf ==
    ASSUME NEW j, NEW now, Len(j.entries) \in Nat
    PROVE  Extends(j, now, j, now)
  BY SMTT(30) DEF Extends

\* The accounts of the entries that were there stay the same.
LEMMA TouchedKept ==
    ASSUME NEW j, NEW now, NEW q, NEW now2, Extends(j, now, q, now2),
           NEW i \in 0..Len(j.entries), Len(j.entries) \in Nat
    PROVE  TouchedIn(q.entries, i) = TouchedIn(j.entries, i)
  <1>1. \A m \in 1..i : q.entries[m] = j.entries[m]
    BY SMTT(30) DEF Extends
  <1> QED
    BY <1>1 DEF TouchedIn

\* What a revision would leave to be written stays due when the journal grows.
LEMMA DueKept ==
    ASSUME NEW j, NEW now, NEW q, NEW now2, Extends(j, now, q, now2),
           NEW i \in 0..Len(j.entries), Len(j.entries) \in Nat,
           NEW tr, NEW tr2, NEW extra, NEW extra2, extra \subseteq extra2,
           \A a \in Address : tr2[a] = tr[a] \/ a \in extra2,
           DueAt(j, now, i, tr, extra)
    PROVE  DueAt(q, now2, i, tr2, extra2)
  <1>1. TouchedIn(q.entries, i) = TouchedIn(j.entries, i)
    BY TouchedKept
  <1>2. FoundAt(q, now2, i) = FoundAt(j, now, i)
    BY DEF Extends
  <1> QED
    BY <1>1, <1>2 DEF DueAt

\* A call that only adds to the journal keeps the revisions, and keeps every
\* account that differs from the trie in a schedule if that holds of the ones
\* it changes.
LEMMA GrowStep ==
    ASSUME IInv, phase = "run",
           UNCHANGED <<phase, validRevisions, nextRevisionId, target>>,
           Extends(journal, Now, journal', Now'), Len(journal'.entries) \in Nat,
           Exempt \subseteq Exempt',
           \A a \in Address : trie'[a] = trie[a] \/ a \in Exempt',
           \A a \in Address : \/ Now'.accounts[a] = Now.accounts[a]
                              \/ a \in TouchedIn(journal'.entries, Len(journal'.entries))
                                        \union Exempt'
    PROVE  RevisionsOK' /\ Scheduled'
  <1>1. Len(journal.entries) \in Nat /\ journal.entries \in Seq(Entry)
    BY SMTT(30) DEF IInv, Sound, Chained
  <1>11. \A j \in DOMAIN validRevisions :
            validRevisions[j].journalIndex \in 0..Len(journal.entries)
    <2>1. \A j \in DOMAIN validRevisions : validRevisions[j].journalIndex \in Nat
      <3>1. validRevisions \in Seq([id : Nat, journalIndex : Nat])
        BY DEF IInv, RevisionsOK
      <3>2. \A j \in DOMAIN validRevisions : validRevisions[j] \in [id : Nat, journalIndex : Nat]
        BY <3>1, SeqMembers
      <3> QED
        BY <3>2
    <2>2. \A j \in DOMAIN validRevisions :
             validRevisions[j].journalIndex <= Len(journal.entries)
      BY DEF IInv, RevisionsOK
    <2> QED
      BY <1>1, <2>1, <2>2, SMTT(30)
  <1>2. RevisionsOK'
    <2> DEFINE n == Len(journal.entries)
               m == Len(journal'.entries)
    <2>1. n \in Nat /\ m \in Nat /\ n <= m
      BY <1>1, SMTT(30) DEF Extends
    <2>2. RevisionsOK /\ phase' # "revert"
      BY DEF IInv
    <2>3. \A j \in DOMAIN validRevisions : validRevisions[j].journalIndex \in 0..n
      BY <1>11
    <2> HIDE DEF n, m
    <2>4. \A j \in DOMAIN validRevisions : validRevisions[j].journalIndex <= m
      BY <2>1, <2>3, SMTT(30)
    <2> QED
      BY <2>2, <2>4 DEF RevisionsOK, m
  <1>3. ASSUME NEW j \in DOMAIN validRevisions
        PROVE  DueAt(journal', Now', validRevisions[j].journalIndex, trie', Exempt')
    <2>1. validRevisions[j].journalIndex \in 0..Len(journal.entries)
      BY <1>11
    <2>2. DueAt(journal, Now, validRevisions[j].journalIndex, trie, Exempt)
      BY DEF IInv, Scheduled
    <2> QED
      BY <1>1, <2>1, <2>2, DueKept, SMTT(30)
  <1>4. DueAt(journal', Now', Len(journal'.entries), trie', Exempt')
    <2> DEFINE n == Len(journal.entries)
               m == Len(journal'.entries)
    <2>1. DueAt(journal, Now, n, trie, Exempt)
      BY DEF IInv, Scheduled
    <2>2. n \in 0..n /\ n \in 0..m /\ m \in Nat
      BY <1>1, SMTT(30) DEF Extends
    <2>3. DueAt(journal', Now', n, trie', Exempt')
      BY <1>1, <2>1, <2>2, DueKept, SMTT(30)
    <2>4. FoundAt(journal', Now', m) = Now' /\ FoundAt(journal', Now', n) = Now
      BY <1>1, <2>2, SMTT(30) DEF FoundAt, Extends
    <2>5. TouchedIn(journal'.entries, n) \subseteq TouchedIn(journal'.entries, m)
      BY <2>2, SMTT(30) DEF TouchedIn
    <2> QED
      BY <2>3, <2>4, <2>5 DEF DueAt
  <1> QED
    BY <1>2, <1>3, <1>4 DEF Scheduled

\* What the getters return, taken apart, before and after a step.
LEMMA NowFields ==
    /\ Now = [accounts |-> Says(stateObjects, trie), accessList |-> accessList,
              preimages |-> preimages]
    /\ Now' = [accounts |-> Says(stateObjects', trie'), accessList |-> accessList',
               preimages |-> preimages']
  BY DEF Now, Accounts, Says, Stored, getDeletedStateObject

\* What is fetched from the chain is what the trie would give.
LEMMA Loaded ==
    ASSUME IInv, NEW a \in Address
    PROVE  LET prev == getDeletedStateObject(a)
           IN  /\ SetStateObjectIfExists(a) = prev
               /\ ObjectOK(prev) /\ Account(prev) = Now.accounts[a]
               /\ ~prev.live => prev = NoObject /\ ~trie[a].exists /\ ~stateObjects[a].live
               /\ stateObjects[a].live => prev = stateObjects[a]
  <1> DEFINE prev == getDeletedStateObject(a)
  <1>1. /\ trie \in [Address -> ChainAccount] /\ ObjectOK(stateObjects[a])
        /\ a \notin cached => ~stateObjects[a].live /\ trie[a] = work.chain[a]
    BY DEF IInv, Sound, ObjectsOK, Fetching
  <1>2. SetStateObjectIfExists(a) = prev
    BY <1>1 DEF SetStateObjectIfExists, getDeletedStateObject
  <1>3. ObjectOK(prev)
    BY <1>1, NewObject, NoObjectOK DEF getDeletedStateObject
  <1>4. Account(prev) = Now.accounts[a]
    BY NowFields DEF Says, Stored, getDeletedStateObject
  <1>5. ~prev.live => prev = NoObject /\ ~trie[a].exists /\ ~stateObjects[a].live
    BY <1>1, NewObject DEF getDeletedStateObject, Usable
  <1>6. stateObjects[a].live => prev = stateObjects[a]
    BY DEF getDeletedStateObject
  <1> QED
    BY <1>2, <1>3, <1>4, <1>5, <1>6

\* The accounts of all entries.
Touched(j) == TouchedIn(j.entries, Len(j.entries))

\* After a step that leaves the database sound for n, n is what the getters return.
LEMMA NowIs ==
    ASSUME NEW j, NEW S, NEW x, NEW n,
           Sound(j, stateObjects', n, trie', S, x),
           n.accessList = accessList', n.preimages = preimages'
    PROVE  Now' = n
  <1>1. n \in Found /\ n.accounts = Says(stateObjects', trie')
    BY DEF Sound, Chained
  <1>2. n = [accounts |-> n.accounts, accessList |-> n.accessList, preimages |-> n.preimages]
    BY <1>1 DEF Found
  <1> QED
    BY <1>1, <1>2, NowFields

\* The facts about the present that the steps below start from.
LEMMA StateFacts ==
    ASSUME IInv
    PROVE  /\ Sound(journal, stateObjects, Now, trie, Waiting, ripemdDirty)
           /\ ripemdDirty \in Nat /\ Now \in Found
           /\ journal.entries \in Seq(Entry) /\ Len(journal.entries) \in Nat
           /\ Now.accessList = accessList /\ Now.preimages = preimages
           /\ AccessListOK(accessList) /\ preimages \in SUBSET Preimage
           /\ stateObjects \in [Address -> Object] /\ trie \in [Address -> ChainAccount]
           /\ Extends(journal, Now, journal, Now)
  <1>1. /\ Sound(journal, stateObjects, Now, trie, Waiting, ripemdDirty)
        /\ ripemdDirty \in Nat /\ Now \in Found
        /\ journal.entries \in Seq(Entry) /\ Len(journal.entries) \in Nat
        /\ stateObjects \in [Address -> Object] /\ trie \in [Address -> ChainAccount]
    BY SMTT(30) DEF IInv, TypeOK, Sound, Chained, ObjectsOK
  <1>2. Now.accessList = accessList /\ Now.preimages = preimages
    BY DEF Now
  <1>3. AccessListOK(accessList) /\ preimages \in SUBSET Preimage
    BY <1>1, <1>2 DEF Found, AccessList
  <1> QED
    BY <1>1, <1>2, <1>3, ExtendsSelf

\* The revisions: their identifiers, and the entries they kept.
LEMMA Revision ==
    ASSUME IInv
    PROVE  /\ validRevisions \in Seq([id : Nat, journalIndex : Nat])
           /\ Len(validRevisions) \in Nat /\ DOMAIN validRevisions = 1..Len(validRevisions)
           /\ \A j \in DOMAIN validRevisions : /\ validRevisions[j].id \in Nat
                                               /\ validRevisions[j].journalIndex \in Nat
           /\ nextRevisionId \in Nat
  <1>1. validRevisions \in Seq([id : Nat, journalIndex : Nat])
    BY DEF IInv, RevisionsOK
  <1>2. \A j \in DOMAIN validRevisions : validRevisions[j] \in [id : Nat, journalIndex : Nat]
    BY <1>1, SeqMembers
  <1> QED
    BY <1>1, <1>2, SMTT(30) DEF IInv, TypeOK
=============================================================================
