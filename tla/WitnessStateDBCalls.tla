------------------------ MODULE WitnessStateDBCalls -------------------------
(***************************************************************************)
(* Every call of the state database preserves the invariant: the setters,  *)
(* creation, suicide and deletion, storage, the access list, preimages,    *)
(* snapshots, and the reads that load objects and slots.                   *)
(***************************************************************************)
EXTENDS WitnessStateDBInvariant

USE ZenonT(40), SMTT(30)

\* The object of a setter: the one that is there, or a new one and an entry.
LEMMA Acquire ==
    ASSUME IInv, NEW a \in Address
    PROVE  LET o == GetOrNewStateObject(a)
               prev == getDeletedStateObject(a)
               j == Acquired(a)
               now == NowWith(a, o)
           IN  /\ Sound(j, PutObject(stateObjects, a, o), now, trie, Waiting, ripemdDirty)
               /\ Extends(journal, Now, j, now)
               /\ ObjectOK(o) /\ Usable(o)
               /\ Usable(prev) => o = prev /\ j = journal /\ now = Now
               /\ ~Usable(prev) => /\ o = newObject(NoAccount)
                                   /\ j.entries = Append(journal.entries, Replacement(a, prev))
  <1> DEFINE o == GetOrNewStateObject(a)
             prev == getDeletedStateObject(a)
             j == Acquired(a)
             now == NowWith(a, o)
             e == Replacement(a, prev)
  <1>1. /\ SetStateObjectIfExists(a) = prev /\ ObjectOK(prev)
        /\ Account(prev) = Now.accounts[a]
        /\ ~prev.live => prev = NoObject /\ ~trie[a].exists /\ ~stateObjects[a].live
        /\ stateObjects[a].live => prev = stateObjects[a]
    BY Loaded
  <1>2. /\ Sound(journal, stateObjects, Now, trie, Waiting, ripemdDirty)
        /\ ripemdDirty \in Nat /\ Now \in Found /\ Len(journal.entries) \in Nat
    BY SMTT(30) DEF IInv, TypeOK, Sound, Chained
  <1>3. CASE Usable(prev)
    <2>1. o = prev /\ j = journal
      BY <1>1, <1>3 DEF GetOrNewStateObject, Acquired
    <2>2. now = Now
      <3> DEFINE accs == Now.accounts
      <3>1. accs \in [Address -> ReadAccount] /\ [accs EXCEPT ![a] = accs[a]] = accs
        BY <1>2 DEF Found
      <3>2. now = [Now EXCEPT !.accounts = [accs EXCEPT ![a] = accs[a]]]
        BY <1>1, <2>1 DEF NowWith
      <3> QED
        BY <1>2, <3>1, <3>2 DEF Found
    <2>3. Sound(journal, PutObject(stateObjects, a, prev), Now, trie, Waiting, ripemdDirty)
      <3>1. stateObjects[a].live => prev.live /\ SameCaches(stateObjects[a], prev)
        BY <1>1 DEF SameCaches
      <3> QED
        BY <1>1, <1>2, <3>1, SoundLoad
    <2>4. Extends(journal, Now, journal, Now)
      BY <1>2, ExtendsSelf
    <2> QED
      BY <1>1, <1>3, <2>1, <2>2, <2>3, <2>4
  <1>4. CASE ~Usable(prev)
    <2>1. o = newObject(NoAccount) /\ j = append(journal, e, Now)
      BY <1>1, <1>4 DEF GetOrNewStateObject, Acquired, createObject, Replacement
    <2>2. ObjectOK(newObject(NoAccount)) /\ Usable(newObject(NoAccount))
      BY NewObject, NoObjectOK
    <2>3. prev = Stored(stateObjects, trie, a)
      BY DEF getDeletedStateObject, Stored
    <2> DEFINE fresh == newObject(NoAccount)
    <2> HIDE DEF prev, fresh
    <2>5. LET q == append(journal, e, Now)
              now2 == Told(Now, a, Account(fresh))
          IN  /\ Sound(q, PutObject(stateObjects, a, fresh), now2, trie, Waiting, ripemdDirty)
              /\ Extends(journal, Now, q, now2)
              /\ q.entries = Append(journal.entries, e)
      <3>1. ObjectOK(fresh) /\ Usable(fresh)
        BY <2>2 DEF fresh
      <3> QED
        BY <1>2, <2>3, <3>1, SoundReplace, SMTT(30)
    <2>6. now = Told(Now, a, Account(fresh))
      BY <2>1 DEF NowWith, fresh, Told
    <2> QED
      BY <1>4, <2>1, <2>2, <2>5, <2>6, Zenon DEF fresh, prev
  <1> QED
    BY <1>3, <1>4

\* An entry appended (journal.append) touches what it dirties, besides what was touched before.
LEMMA TouchedAppend ==
    ASSUME NEW es \in Seq(Entry), NEW e \in Entry
    PROVE  TouchedIn(Append(es, e), Len(Append(es, e)))
             = TouchedIn(es, Len(es)) \union {a \in Address : dirtied(e, a)}
  <1> DEFINE n == Len(es)
             fs == Append(es, e)
  <1>1. n \in Nat /\ Len(fs) = n + 1 /\ fs[n + 1] = e
    BY SMTT(30)
  <1>2. \A m \in 1..n : fs[m] = es[m]
    BY SMTT(30)
  <1> HIDE DEF fs, n
  <1>3. \A a \in Address : (\E m \in 1..(n + 1) : dirtied(fs[m], a))
                              <=> dirtied(e, a) \/ \E m \in 1..n : dirtied(es[m], a)
    <2>1. \A m \in 1..(n + 1) : m = n + 1 \/ m \in 1..n
      BY <1>1, SMTT(30)
    <2>2. n + 1 \in 1..(n + 1) /\ \A m \in 1..n : m \in 1..(n + 1)
      BY <1>1, SMTT(30)
    <2> QED
      BY <1>1, <1>2, <2>1, <2>2
  <1>4. TouchedIn(fs, n + 1) = TouchedIn(es, n) \union {a \in Address : dirtied(e, a)}
    BY <1>3 DEF TouchedIn
  <1> QED
    BY <1>1, <1>4 DEF fs, n

\* A setter that finds something to change: the object, and one entry for it.
LEMMA SetterStep ==
    ASSUME IInv, NEW a \in Address, NEW e \in Entry,
           e.kind \in AccountKinds \ ReplacingKinds, e.account = a,
           NEW o2, ObjectOK(o2), Usable(o2), SameCaches(GetOrNewStateObject(a), o2),
           e.kind = "storage" => o2.originStorage[e.key] # Absent,
           SetBack(e, Account(o2)) = Account(GetOrNewStateObject(a))
    PROVE  LET q == append(Acquired(a), e, NowWith(a, GetOrNewStateObject(a)))
               now2 == Told(Now, a, Account(o2))
           IN  /\ Sound(q, PutObject(stateObjects, a, o2), now2, trie, Waiting, ripemdDirty)
               /\ Extends(journal, Now, q, now2)
               /\ Touched(q) = Touched(journal) \union {a}
  <1> DEFINE o == GetOrNewStateObject(a)
             j == Acquired(a)
             now == NowWith(a, o)
             objs == PutObject(stateObjects, a, o)
             q == append(j, e, now)
             now2 == Told(Now, a, Account(o2))
  <1>1. /\ Sound(j, objs, now, trie, Waiting, ripemdDirty)
        /\ Extends(journal, Now, j, now)
        /\ ObjectOK(o) /\ Usable(o)
    BY Acquire
  <1>2. /\ stateObjects \in [Address -> Object] /\ ripemdDirty \in Nat /\ Now \in Found
        /\ journal.entries \in Seq(Entry) /\ j.entries \in Seq(Entry)
    BY <1>1 DEF IInv, TypeOK, Sound, ObjectsOK, Chained
  <1>3. objs[a] = o /\ PutObject(objs, a, o2) = PutObject(stateObjects, a, o2)
    BY <1>2 DEF PutObject
  <1>4. Told(now, a, Account(o2)) = now2
    <2>1. now = Told(Now, a, Account(o))
      BY DEF NowWith, Told
    <2>2. ASSUME NEW n \in Found, NEW v, NEW w PROVE Told(Told(n, a, v), a, w) = Told(n, a, w)
      BY DEF Told, Found
    <2> QED
      BY <1>2, <2>1, <2>2, SMTT(30)
  <1>5. /\ Sound(q, PutObject(objs, a, o2), Told(now, a, Account(o2)), trie, Waiting, ripemdDirty)
        /\ Extends(j, now, q, Told(now, a, Account(o2)))
        /\ q.entries = Append(j.entries, e)
    <2> HIDE DEF objs, now, j, o
    <2>1. Usable(objs[a]) /\ SameCaches(objs[a], o2) /\ SetBack(e, Account(o2)) = Account(objs[a])
      BY <1>1, <1>3 DEF o
    <2> QED
      BY <1>1, <1>2, <2>1, SoundEntry, SMTT(30)
  <1>6. q.entries \in Seq(Entry)
    BY <1>2, <1>5, SMTT(30)
  <1>7. Extends(journal, Now, q, now2)
    <2>1. Extends(j, now, q, now2)
      BY <1>4, <1>5
    <2>2. Len(journal.entries) \in Nat /\ Len(j.entries) \in Nat /\ Len(q.entries) \in Nat
      BY <1>2, <1>6, SMTT(30)
    <2> HIDE DEF q, now2, j, now
    <2> QED
      BY <1>1, <2>1, <2>2, ExtendsTrans
  <1>8. Touched(q) = Touched(journal) \union {a}
    <2>1. dirtied(e, a) /\ \A b \in Address : dirtied(e, b) => b = a
      BY DEF dirtied, DirtyingKinds, AccountKinds, FieldKinds, ReplacingKinds
    <2>2. Touched(q) = Touched(j) \union {a}
      <3>1. {b \in Address : dirtied(e, b)} = {a}
        BY <2>1
      <3> HIDE DEF j, q
      <3> QED
        BY <1>2, <1>5, <3>1, TouchedAppend DEF Touched
    <2>3. CASE j = journal
      BY <2>2, <2>3
    <2>4. CASE j # journal
      <3>1. j.entries = Append(journal.entries, Replacement(a, getDeletedStateObject(a)))
        BY <2>4, Acquire
      <3> DEFINE r == Replacement(a, getDeletedStateObject(a))
      <3>2. r.account = a
        BY DEF Replacement
      <3>3. \A b \in Address : dirtied(r, b) => b = a
        BY <3>2 DEF dirtied
      <3>4. r \in Entry
        <4>1. Len(journal.entries) \in Nat
          BY <1>2, SMTT(30)
        <4>2. j.entries[Len(journal.entries) + 1] = r /\ Len(j.entries) = Len(journal.entries) + 1
          BY <1>2, <3>1, SMTT(30)
        <4>3. Len(j.entries) \in DOMAIN j.entries
          BY <1>2, <4>1, <4>2, SMTT(30)
        <4> QED
          BY <1>2, <4>2, <4>3, SeqMembers, SMTT(30)
      <3> HIDE DEF r, j
      <3>5. Touched(j) = Touched(journal) \union {b \in Address : dirtied(r, b)}
        BY <1>2, <3>1, <3>4, TouchedAppend DEF Touched, r
      <3> QED
        BY <2>2, <3>3, <3>5
    <2> QED
      BY <2>3, <2>4
  <1> QED
    BY <1>3, <1>4, <1>5, <1>7, <1>8

\* A step that changes what is read of one account to v, and adds entries that
\* touch at most that account.
Changes(a, v, touched) ==
    /\ Sound(journal', stateObjects', Now', trie', Waiting', ripemdDirty')
    /\ Extends(journal, Now, journal', Now')
    /\ Now' = Told(Now, a, v)
    /\ Touched(journal') = Touched(journal) \union touched

\* The invariant after a call that changes one account.
LEMMA AccountStep ==
    ASSUME IInv, NEW a \in Address, NEW v, NEW T \in SUBSET {a}, Changes(a, v, T),
           phase = "run",
           UNCHANGED <<phase, target, work, loadRemote, validRevisions, nextRevisionId,
                       stateObjectsPending, stateObjectsDirty>>,
           budget' \in Nat,
           \A b \in Address \ {a} : stateObjects'[b] = stateObjects[b] /\ trie'[b] = trie[b],
           trie'[a] = trie[a] \/ a \in replaced',
           stateObjects'[a].live \/ ~trie'[a].exists,
           cached' = cached \union {a},
           replaced' \in {replaced, replaced \union {a}},
           ripemdDirty' = ripemdDirty \/ (ripemdDirty' = ripemdDirty + 1 /\ a = Ripemd),
           v = Now.accounts[a] \/ a \in T \union replaced'
    PROVE  IInv'
  <1>1. TypeOK'
    BY SMTT(30) DEF IInv, TypeOK
  <1>2. Fetching'
    BY DEF IInv, Fetching
  <1>3. Sticking'
    <2>1. ripemdDirty \in Nat
      BY DEF IInv, TypeOK
    <2>2. CASE ripemdDirty > 0 /\ a # Ripemd
      BY <2>1, <2>2 DEF IInv, Sticking
    <2>3. CASE a = Ripemd
      BY <2>3 DEF Sticking
    <2>4. CASE ~(ripemdDirty > 0) /\ a # Ripemd
      BY <2>1, <2>4 DEF Sticking
    <2> QED
      BY <2>2, <2>3, <2>4
  <1>4. RevisionsOK' /\ Scheduled'
    <2>1. Extends(journal, Now, journal', Now') /\ Len(journal'.entries) \in Nat
      BY SMTT(30) DEF Changes, Sound, Chained
    <2>2. Exempt \subseteq Exempt' /\ replaced' \subseteq Exempt'
      <3>1. ripemdDirty \in Nat /\ (ripemdDirty > 0 => ripemdDirty' > 0)
        BY SMTT(30) DEF IInv, TypeOK
      <3>2. Sticky \subseteq Sticky'
        BY <3>1 DEF Sticky
      <3> QED
        BY <3>2 DEF Exempt
    <2>3. \A b \in Address : trie'[b] = trie[b] \/ b \in Exempt'
      BY <2>2
    <2>4. ASSUME NEW b \in Address
          PROVE  \/ Now'.accounts[b] = Now.accounts[b]
                 \/ b \in TouchedIn(journal'.entries, Len(journal'.entries)) \union Exempt'
      <3>0. Now \in Found
        BY DEF IInv, Sound, Chained
      <3>1. Now' = Told(Now, a, v)
        BY DEF Changes
      <3>2. Now'.accounts[b] = IF b = a THEN v ELSE Now.accounts[b]
        BY <3>0, <3>1 DEF Told, Found
      <3>3. T \subseteq TouchedIn(journal'.entries, Len(journal'.entries))
        BY DEF Changes, Touched
      <3> QED
        BY <2>2, <3>2, <3>3
    <2> QED
      BY <2>1, <2>2, <2>3, <2>4, GrowStep
  <1>5. Sound(journal, stateObjects, Now, trie, Waiting, ripemdDirty)'
    BY DEF Changes
  <1>6. phase' # "panic"
    OBVIOUS
  <1> QED
    BY <1>1, <1>2, <1>3, <1>4, <1>5, <1>6 DEF IInv

\* The frame of Write: a has an object, and its proof was fetched.
LEMMA WriteFrame ==
    ASSUME IInv, NEW a \in Address, NEW o, NEW j, Write(a, o, j)
    PROVE  /\ cached' = cached \union {a}
           /\ stateObjects' = PutObject(stateObjects, a, o) /\ journal' = j
           /\ stateObjects'[a] = o
           /\ \A b \in Address \ {a} : stateObjects'[b] = stateObjects[b]
           /\ Waiting' = Waiting /\ trie' = trie
  <1>1. stateObjects \in [Address -> Object] /\ cached \subseteq Address
    BY DEF IInv, Sound, ObjectsOK, TypeOK
  <1>2. a \notin cached => ~stateObjects[a].live
    BY DEF IInv, Fetching
  <1> QED
    BY <1>1, <1>2 DEF Write, UnchangedButJournal, PutObject, Waiting

\* A setter that loads or makes its object and journals one entry (SetBalance, SetNonce, SetCode,
\* SetState) changes the one account it names.
LEMMA SetterWrites ==
    ASSUME IInv, NEW a \in Address, NEW e \in Entry,
           e.kind \in AccountKinds \ ReplacingKinds, e.account = a,
           NEW o2, ObjectOK(o2), Usable(o2), SameCaches(GetOrNewStateObject(a), o2),
           e.kind = "storage" => o2.originStorage[e.key] # Absent,
           SetBack(e, Account(o2)) = Account(GetOrNewStateObject(a)),
           Write(a, o2, append(Acquired(a), e, NowWith(a, GetOrNewStateObject(a)))),
           ripemdDirty' = ripemdDirty
    PROVE  Changes(a, Account(o2), {a})
  <1> DEFINE q == append(Acquired(a), e, NowWith(a, GetOrNewStateObject(a)))
             now2 == Told(Now, a, Account(o2))
  <1>1. /\ Sound(q, PutObject(stateObjects, a, o2), now2, trie, Waiting, ripemdDirty)
        /\ Extends(journal, Now, q, now2)
        /\ Touched(q) = Touched(journal) \union {a}
    BY SetterStep
  <1>2. /\ stateObjects' = PutObject(stateObjects, a, o2) /\ journal' = q
        /\ Waiting' = Waiting /\ trie' = trie
    BY WriteFrame, SMTT(30)
  <1>3. Now' = now2
    <2>1. now2.accessList = accessList' /\ now2.preimages = preimages'
      <3>1. Now.accessList = accessList /\ Now.preimages = preimages
        BY DEF Now
      <3>2. Now \in Found
        BY DEF IInv, Sound, Chained
      <3> QED
        BY <3>1, <3>2 DEF Told, Write, UnchangedButJournal, Found
    <2>2. Sound(q, stateObjects', now2, trie', Waiting, ripemdDirty)
      BY <1>1, <1>2
    <2> HIDE DEF now2, q
    <2> QED
      BY <2>1, <2>2, NowIs
  <1> HIDE DEF q
  <1> QED
    BY <1>1, <1>2, <1>3 DEF Changes

\* A field of an object or of an account.
Field(r, kind) ==
    CASE kind = "balance" -> r.balance
      [] kind = "nonce" -> r.nonce
      [] kind = "code" -> r.code

WithField(r, kind, x) ==
    CASE kind = "balance" -> [r EXCEPT !.balance = x]
      [] kind = "nonce" -> [r EXCEPT !.nonce = x]
      [] kind = "code" -> [r EXCEPT !.code = x]

\* Writing a nonce, a balance or a code hash is undone by the entry that keeps the old one.
LEMMA FieldWritten ==
    ASSUME NEW o, ObjectOK(o), Usable(o), NEW kind \in FieldKinds, NEW x \in Value,
           NEW a \in Address
    PROVE  LET r == WithField(o, kind, x)
               e == [kind |-> kind, account |-> a, prev |-> Field(o, kind)]
           IN  /\ ObjectOK(r) /\ Usable(r) /\ SameCaches(o, r)
               /\ Account(r) = WithField(Account(o), kind, x)
               /\ SetBack(e, Account(r)) = Account(o)
               /\ e \in Entry
  <1> DEFINE r == WithField(o, kind, x)
             e == [kind |-> kind, account |-> a, prev |-> Field(o, kind)]
             acc == Account(o)
  <1>1. acc \in ReadAccount
    BY AccountType
  <1>2. acc.balance = o.balance /\ acc.nonce = o.nonce /\ acc.code = o.code
    BY DEF Account
  <1>3. o.balance \in Value /\ o.nonce \in Value /\ o.code \in Value
    BY DEF ObjectOK, Object
  <1>4. Field(o, kind) \in Value
    BY <1>3 DEF Field, FieldKinds
  <1>5. e \in Entry
    BY <1>4 DEF Entry
  <1>6. ObjectOK(r) /\ Usable(r) /\ SameCaches(o, r)
    BY WriteObject DEF WithField, FieldKinds
  <1>7. Account(r) = WithField(acc, kind, x)
    <2>1. CASE kind = "balance"
      BY <2>1, WriteObject DEF WithField
    <2>2. CASE kind = "nonce"
      BY <2>2, WriteObject DEF WithField
    <2>3. CASE kind = "code"
      BY <2>3, WriteObject DEF WithField
    <2> QED
      BY <2>1, <2>2, <2>3 DEF FieldKinds
  <1>8. SetBack(e, WithField(acc, kind, x)) = acc
    <2> HIDE DEF acc
    <2>1. CASE kind = "balance"
      <3>1. SetBack(e, WithField(acc, kind, x)) = [[acc EXCEPT !.balance = x] EXCEPT !.balance = acc.balance]
        BY <1>2, <2>1 DEF SetBack, WithField, Field
      <3> QED
        BY <1>1, <3>1 DEF ReadAccount
    <2>2. CASE kind = "nonce"
      <3>1. SetBack(e, WithField(acc, kind, x)) = [[acc EXCEPT !.nonce = x] EXCEPT !.nonce = acc.nonce]
        BY <1>2, <2>2 DEF SetBack, WithField, Field
      <3> QED
        BY <1>1, <3>1 DEF ReadAccount
    <2>3. CASE kind = "code"
      <3>1. SetBack(e, WithField(acc, kind, x)) = [[acc EXCEPT !.code = x] EXCEPT !.code = acc.code]
        BY <1>2, <2>3 DEF SetBack, WithField, Field
      <3> QED
        BY <1>1, <3>1 DEF ReadAccount
    <2> QED
      BY <2>1, <2>2, <2>3 DEF FieldKinds
  <1> QED
    BY <1>5, <1>6, <1>7, <1>8

\* SetBalance, SetNonce and SetCode change the field and touch the account.
LEMMA SetFieldStep ==
    ASSUME IInv, NEW a \in Address, NEW kind \in FieldKinds, NEW x \in Value,
           LET o == GetOrNewStateObject(a)
           IN  WriteField(a, kind, Field(o, kind), WithField(o, kind, x))
    PROVE  Changes(a, WithField(Account(GetOrNewStateObject(a)), kind, x), {a})
  <1> DEFINE o == GetOrNewStateObject(a)
             r == WithField(o, kind, x)
             e == [kind |-> kind, account |-> a, prev |-> Field(o, kind)]
  <1>1. ObjectOK(o) /\ Usable(o)
    BY Acquire
  <1>2. /\ ObjectOK(r) /\ Usable(r) /\ SameCaches(o, r)
        /\ Account(r) = WithField(Account(o), kind, x)
        /\ SetBack(e, Account(r)) = Account(o)
        /\ e \in Entry
    BY <1>1, FieldWritten
  <1>3. e.kind \in AccountKinds \ ReplacingKinds /\ e.account = a /\ e.kind # "storage"
    BY DEF AccountKinds, ReplacingKinds, FieldKinds
  <1>4. /\ Write(a, r, append(Acquired(a), e, NowWith(a, o)))
        /\ ripemdDirty' = ripemdDirty
    BY DEF WriteField
  <1> HIDE DEF e, r
  <1>5. Changes(a, Account(r), {a})
    BY <1>2, <1>3, <1>4, SetterWrites
  <1> QED
    BY <1>2, <1>5

WithSlot(v, k, x) == [v EXCEPT !.storage[k] = x]

\* SetState on a value that differs.
LEMMA SetStateStep ==
    ASSUME IInv, NEW a \in Address, NEW k \in Slot, NEW x \in Value, SetState(a, k, x),
           GetState(GetOrNewStateObject(a), k) # x
    PROVE  Changes(a, WithSlot(Account(GetOrNewStateObject(a)), k, x), {a})
  <1> DEFINE o == GetOrNewStateObject(a)
             r == StateRead(o, k)
             w == [r EXCEPT !.dirtyStorage[k] = x]
             e == [kind |-> "storage", account |-> a, key |-> k, prev |-> GetState(o, k)]
             acc == Account(o)
  <1>1. ObjectOK(o) /\ Usable(o)
    BY Acquire
  <1>2. /\ ObjectOK(r) /\ Usable(r) /\ Account(r) = acc /\ SameCaches(o, r)
        /\ r.originStorage[k] # Absent
    BY <1>1, ReadObject, SMTT(30) DEF Usable
  <1>3. /\ ObjectOK(w) /\ Usable(w) /\ SameCaches(r, w)
        /\ w.originStorage = r.originStorage
        /\ Account(w) = [Account(r) EXCEPT !.storage[k] = x]
    <2> HIDE DEF r
    <2> QED
      BY <1>2, WriteSlot, SMTT(30)
  <1>4. SameCaches(o, w) /\ w.originStorage[k] # Absent
    BY <1>2, <1>3 DEF SameCaches
  <1>5. acc \in ReadAccount /\ acc.storage[k] = GetState(o, k) /\ GetState(o, k) \in Value
    BY <1>1, AccountType DEF Account
  <1>6. e \in Entry
    BY <1>5 DEF Entry
  <1>7. Account(w) = WithSlot(acc, k, x)
    BY <1>2, <1>3 DEF WithSlot
  <1>8. SetBack(e, WithSlot(acc, k, x)) = acc
    <2>1. SetBack(e, WithSlot(acc, k, x)) = WithSlot(WithSlot(acc, k, x), k, acc.storage[k])
      BY <1>5 DEF SetBack, WithSlot
    <2> DEFINE st == acc.storage
               b1 == WithSlot(acc, k, x)
               b2 == WithSlot(b1, k, st[k])
    <2>2. st \in [Slot -> Value]
      BY <1>5 DEF ReadAccount
    <2>3. b1 \in ReadAccount /\ b1.storage = [st EXCEPT ![k] = x]
          /\ b1.exists = acc.exists /\ b1.nonce = acc.nonce /\ b1.balance = acc.balance
          /\ b1.code = acc.code /\ b1.suicided = acc.suicided
      BY <1>5, <2>2 DEF ReadAccount, WithSlot
    <2> HIDE DEF b1, acc
    <2>4. b2 \in ReadAccount /\ b2.storage = [b1.storage EXCEPT ![k] = st[k]]
          /\ b2.exists = b1.exists /\ b2.nonce = b1.nonce /\ b2.balance = b1.balance
          /\ b2.code = b1.code /\ b2.suicided = b1.suicided
      BY <2>2, <2>3 DEF ReadAccount, WithSlot
    <2> HIDE DEF b2
    <2>5. b2.storage = st
      BY <2>2, <2>3, <2>4
    <2>6. b2 = acc
      BY <1>5, <2>3, <2>4, <2>5, SameAccount
    <2> QED
      BY <2>1, <2>6 DEF b2, b1
  <1>9. /\ Write(a, w, append(Acquired(a), e, NowWith(a, o)))
        /\ ripemdDirty' = ripemdDirty
    BY DEF SetState
  <1>10. e.kind \in AccountKinds \ ReplacingKinds /\ e.account = a /\ e.key = k
    BY DEF AccountKinds, ReplacingKinds, FieldKinds
  <1> HIDE DEF e, w
  <1>11. Changes(a, Account(w), {a})
    BY <1>3, <1>4, <1>6, <1>7, <1>8, <1>9, <1>10, SetterWrites
  <1> QED
    BY <1>7, <1>11

\* A setter that changes nothing: what is left is the object it made.
LEMMA NothingStep ==
    ASSUME IInv, NEW a \in Address, NEW r, ObjectOK(r), Usable(r),
           Account(r) = Account(GetOrNewStateObject(a)),
           SameCaches(GetOrNewStateObject(a), r), WriteNothing(a, r)
    PROVE  /\ Changes(a, Account(GetOrNewStateObject(a)),
                      IF getDeletedStateObject(a).live THEN {} ELSE {a})
           /\ replaced' = IF /\ getDeletedStateObject(a).live
                             /\ ~Usable(getDeletedStateObject(a))
                          THEN replaced \union {a} ELSE replaced
  <1> DEFINE o == GetOrNewStateObject(a)
             prev == getDeletedStateObject(a)
             j == Acquired(a)
             now == NowWith(a, o)
             objs == PutObject(stateObjects, a, o)
             T == IF prev.live THEN {} ELSE {a}
  <1>1. /\ Sound(j, objs, now, trie, Waiting, ripemdDirty)
        /\ Extends(journal, Now, j, now)
        /\ ObjectOK(o) /\ Usable(o)
        /\ Usable(prev) => o = prev /\ j = journal
        /\ ~Usable(prev) => j.entries = Append(journal.entries, Replacement(a, prev))
    BY Acquire
  <1>2. SetStateObjectIfExists(a) = prev
    BY Loaded
  <1>3. /\ stateObjects' = PutObject(stateObjects, a, r) /\ journal' = j
        /\ Waiting' = Waiting /\ trie' = trie /\ ripemdDirty' = ripemdDirty
        /\ accessList' = accessList /\ preimages' = preimages
    BY WriteFrame DEF WriteNothing, Write, UnchangedButJournal
  <1>4. /\ stateObjects \in [Address -> Object] /\ Now \in Found
        /\ journal.entries \in Seq(Entry) /\ j.entries \in Seq(Entry)
    BY <1>1 DEF IInv, Sound, ObjectsOK, Chained
  <1>5. objs[a] = o /\ PutObject(objs, a, r) = PutObject(stateObjects, a, r)
    BY <1>4 DEF PutObject
  <1>6. now = Told(Now, a, Account(o)) /\ now.accounts[a] = Account(o)
        /\ now.accessList = accessList /\ now.preimages = preimages
    BY <1>4 DEF NowWith, Told, Now, Found
  <1>7. Sound(j, stateObjects', now, trie', Waiting', ripemdDirty')
    <2> HIDE DEF objs, now, j, o
    <2>1. Account(r) = now.accounts[a] /\ r.live /\ SameCaches(objs[a], r)
      BY <1>5, <1>6 DEF Usable, o
    <2>2. Sound(j, PutObject(objs, a, r), now, trie, Waiting, ripemdDirty)
      BY <1>1, <2>1, SoundLoad
    <2> QED
      BY <1>3, <1>5, <2>2
  <1>8. Now' = now
    <2> HIDE DEF now, j
    <2> QED
      BY <1>3, <1>6, <1>7, NowIs
  <1>9. Touched(j) = Touched(journal) \union T
    <2>1. CASE Usable(prev)
      BY <1>1, <2>1 DEF Usable
    <2>2. CASE ~Usable(prev)
      <3> DEFINE e == Replacement(a, prev)
      <3>1. j.entries = Append(journal.entries, e)
        BY <1>1, <2>2
      <3>2. {b \in Address : dirtied(e, b)} = T
        BY DEF Replacement, dirtied, DirtyingKinds
      <3> HIDE DEF e, T, j
      <3>3. e \in Entry
        <4>1. Len(journal.entries) \in Nat
          BY <1>4, SMTT(30)
        <4>2. j.entries[Len(journal.entries) + 1] = e /\ Len(j.entries) = Len(journal.entries) + 1
          BY <1>4, <3>1, SMTT(30)
        <4>3. Len(j.entries) \in DOMAIN j.entries
          BY <1>4, <4>1, <4>2, SMTT(30)
        <4> QED
          BY <1>4, <4>2, <4>3, SeqMembers
      <3> QED
        BY <1>4, <3>1, <3>2, <3>3, TouchedAppend DEF Touched
    <2> QED
      BY <2>1, <2>2
  <1>10. replaced' = IF prev.live /\ ~Usable(prev) THEN replaced \union {a} ELSE replaced
    BY <1>2 DEF WriteNothing
  <1>11. Changes(a, Account(o), T)
    <2> HIDE DEF j, now, T
    <2> QED
      BY <1>1, <1>3, <1>6, <1>7, <1>8, <1>9 DEF Changes
  <1> QED
    BY <1>10, <1>11

Dirtied(j, a, once) == [j EXCEPT !.dirties[a] = @ + once]

\* The extra call of dirty, which no entry takes back.
LEMMA SoundDirty ==
    ASSUME NEW j, NEW objs, NEW now, NEW tr, NEW S, NEW x \in Nat,
           Sound(j, objs, now, tr, S, x), NEW a \in Address, NEW once,
           once = IF a = Ripemd THEN 1 ELSE 0, NEW es, NEW past, NEW dirties,
           j = [entries |-> es, dirties |-> dirties, past |-> past]
    PROVE  LET q == Dirtied(j, a, once)
           IN  /\ Sound(q, objs, now, tr, S, x + once)
               /\ q.entries = j.entries /\ q.past = j.past
  <1> DEFINE q == Dirtied(j, a, once)
  <1>1. /\ q.entries = j.entries /\ q.past = j.past
        /\ q.dirties = [j.dirties EXCEPT ![a] = j.dirties[a] + once]
    BY DEF Dirtied
  <1>2. Counted(j, x) /\ j.entries \in Seq(Entry)
    BY DEF Sound, Chained
  <1> HIDE DEF q
  <1>3. Counted(q, x + once)
    <2>1. q.dirties \in [Address -> Nat]
      BY <1>1, <1>2, SMTT(30) DEF Counted
    <2>2. ASSUME NEW b \in Address
          PROVE  q.dirties[b] = Cardinality(Touches(q.entries, b))
                                  + (IF b = Ripemd THEN x + once ELSE 0)
      <3> DEFINE c == Cardinality(Touches(j.entries, b))
      <3>1. c \in Nat
        BY <1>2, TouchesFinite
      <3>2. j.dirties[b] = c + (IF b = Ripemd THEN x ELSE 0)
        BY <1>2 DEF Counted
      <3> HIDE DEF c
      <3>3. q.dirties[b] = j.dirties[b] + (IF b = a THEN once ELSE 0)
        BY <1>1, <1>2, <3>1, <3>2, SMTT(30) DEF Counted
      <3>4. q.dirties[b] = c + (IF b = Ripemd THEN x + once ELSE 0)
        BY <3>1, <3>2, <3>3, SMTT(30)
      <3> QED
        BY <1>1, <3>4 DEF c
    <2> QED
      BY <2>1, <2>2 DEF Counted
  <1>4. Chained(q, now)
    <2>1. Chained(j, now)
      BY DEF Sound
    <2>2. \A i : FoundAt(q, now, i) = FoundAt(j, now, i)
      BY <1>1 DEF FoundAt
    <2> QED
      BY <1>1, <2>1, <2>2 DEF Chained
  <1> QED
    BY <1>1, <1>3, <1>4 DEF Sound, q

\* touch leaves the account as it is, or new.
LEMMA TouchStep ==
    ASSUME IInv, NEW a \in Address, touch(a)
    PROVE  Changes(a, Account(GetOrNewStateObject(a)), {a})
  <1> DEFINE o == GetOrNewStateObject(a)
             e == [kind |-> "touch", account |-> a]
             j == append(Acquired(a), e, NowWith(a, o))
             once == IF a = Ripemd THEN 1 ELSE 0
             q == Dirtied(j, a, once)
             now2 == Told(Now, a, Account(o))
  <1>1. ObjectOK(o) /\ Usable(o) /\ SameCaches(o, o)
    BY Acquire DEF SameCaches
  <1>2. e \in Entry /\ e.kind \in AccountKinds \ ReplacingKinds /\ e.account = a
        /\ SetBack(e, Account(o)) = Account(o) /\ e.kind # "storage"
    BY DEF Entry, AccountKinds, ReplacingKinds, FieldKinds, SetBack
  <1>3. /\ Sound(j, PutObject(stateObjects, a, o), now2, trie, Waiting, ripemdDirty)
        /\ Extends(journal, Now, j, now2)
        /\ Touched(j) = Touched(journal) \union {a}
    <2> HIDE DEF e
    <2> QED
      BY <1>1, <1>2, SetterStep
  <1>4. Write(a, o, q) /\ ripemdDirty' = ripemdDirty + once
    BY DEF touch, Dirtied
  <1>5. /\ stateObjects' = PutObject(stateObjects, a, o) /\ journal' = q
        /\ Waiting' = Waiting /\ trie' = trie
        /\ accessList' = accessList /\ preimages' = preimages
    BY <1>4, WriteFrame DEF Write, UnchangedButJournal
  <1>6. Sound(q, PutObject(stateObjects, a, o), now2, trie, Waiting, ripemdDirty + once)
        /\ q.entries = j.entries /\ q.past = j.past
    <2>1. j = [entries |-> j.entries, dirties |-> j.dirties, past |-> j.past]
      BY DEF append
    <2>2. ripemdDirty \in Nat
      BY DEF IInv, TypeOK
    <2>3. \E es, ds, ps : j = [entries |-> es, dirties |-> ds, past |-> ps]
      BY <2>1
    <2> HIDE DEF j, now2
    <2> QED
      BY <1>3, <2>2, <2>3, SoundDirty, SMTT(30)
  <1>7. Extends(journal, Now, q, now2) /\ Touched(q) = Touched(journal) \union {a}
    BY <1>3, <1>6 DEF Extends, FoundAt, Touched
  <1>8. Now' = now2
    <2>1. Now \in Found
      BY DEF IInv, Sound, Chained
    <2>2. now2.accessList = accessList' /\ now2.preimages = preimages'
      BY <1>5, <2>1 DEF Told, Now, Found
    <2>3. Sound(q, stateObjects', now2, trie', Waiting, ripemdDirty')
      BY <1>4, <1>5, <1>6
    <2> HIDE DEF q, now2
    <2> QED
      BY <2>2, <2>3, NowIs
  <1> HIDE DEF q
  <1> QED
    BY <1>4, <1>5, <1>6, <1>7, <1>8 DEF Changes

\* The object of CreateAccount.
Reborn(balance) == [newObject(NoAccount) EXCEPT !.balance = balance]

\* The object CreateAccount makes is new but for the balance carried over.
LEMMA RebornObject ==
    ASSUME NEW x \in Value
    PROVE  /\ ObjectOK(Reborn(x)) /\ Usable(Reborn(x))
           /\ Account(Reborn(x)) = [Account(newObject(NoAccount)) EXCEPT !.balance = x]
  <1>1. ObjectOK(newObject(NoAccount)) /\ Usable(newObject(NoAccount))
    BY NewObject, NoObjectOK
  <1> QED
    BY <1>1, WriteObject DEF Reborn

\* CreateAccount puts a new object with the old balance.
LEMMA CreateAccountStep ==
    ASSUME IInv, NEW a \in Address, CreateAccount(a)
    PROVE  LET prev == getDeletedStateObject(a)
               x == IF Usable(prev) THEN prev.balance ELSE 0
           IN  /\ x \in Value
               /\ Changes(a, Account(Reborn(x)), IF prev.live THEN {} ELSE {a})
               /\ stateObjects' = PutObject(stateObjects, a, Reborn(x))
               /\ cached' = cached \union {a}
  <1> DEFINE prev == getDeletedStateObject(a)
             x == IF Usable(prev) THEN prev.balance ELSE 0
             e == Replacement(a, prev)
             q == append(journal, e, Now)
             now2 == Told(Now, a, Account(Reborn(x)))
             T == IF prev.live THEN {} ELSE {a}
  <1>1. ObjectOK(prev)
    BY Loaded
  <1>2. x \in Value
    BY <1>1, ValueFacts DEF ObjectOK, Object
  <1>3. ObjectOK(Reborn(x)) /\ Usable(Reborn(x))
    BY <1>2, RebornObject
  <1>4. prev = Stored(stateObjects, trie, a)
    BY DEF getDeletedStateObject, Stored
  <1>5. /\ Sound(journal, stateObjects, Now, trie, Waiting, ripemdDirty)
        /\ ripemdDirty \in Nat /\ Now \in Found /\ journal.entries \in Seq(Entry)
        /\ stateObjects \in [Address -> Object]
    BY DEF IInv, TypeOK, Sound, Chained, ObjectsOK
  <1>6. /\ Sound(q, PutObject(stateObjects, a, Reborn(x)), now2, trie, Waiting, ripemdDirty)
        /\ Extends(journal, Now, q, now2)
        /\ q.entries = Append(journal.entries, e)
    <2> HIDE DEF prev, x
    <2> QED
      BY <1>3, <1>4, <1>5, SoundReplace, SMTT(30)
  <1>7. /\ stateObjects' = PutObject(stateObjects, a, Reborn(x)) /\ journal' = q
        /\ Waiting' = Waiting /\ trie' = trie /\ ripemdDirty' = ripemdDirty
        /\ accessList' = accessList /\ preimages' = preimages
    BY DEF CreateAccount, PutObject, Reborn, createObject, Replacement, UnchangedButJournal, Waiting
  <1>8. cached' = cached \union {a}
    <2>1. a \notin cached => ~stateObjects[a].live
      BY DEF IInv, Fetching
    <2> QED
      BY <2>1 DEF CreateAccount
  <1>9. Now' = now2
    <2>2. now2.accessList = accessList' /\ now2.preimages = preimages'
      BY <1>5, <1>7 DEF Told, Now, Found
    <2>3. Sound(q, stateObjects', now2, trie', Waiting, ripemdDirty')
      BY <1>6, <1>7
    <2> HIDE DEF q, now2
    <2> QED
      BY <2>2, <2>3, NowIs
  <1>10. Touched(q) = Touched(journal) \union T
    <2>1. {b \in Address : dirtied(e, b)} = T
      BY DEF Replacement, dirtied, DirtyingKinds
    <2>2. e \in Entry
      <3>1. q.entries \in Seq(Entry)
        BY <1>6 DEF Sound, Chained
      <3>2. Len(journal.entries) \in Nat
        BY <1>5, SMTT(30)
      <3> HIDE DEF e, q
      <3>3. q.entries[Len(journal.entries) + 1] = e /\ Len(q.entries) = Len(journal.entries) + 1
        BY <1>5, <1>6, SMTT(30)
      <3>4. Len(q.entries) \in DOMAIN q.entries
        BY <3>1, <3>2, <3>3, SMTT(30)
      <3> QED
        BY <3>1, <3>3, <3>4, SeqMembers
    <2> HIDE DEF e, T, q
    <2> QED
      BY <1>5, <1>6, <2>1, <2>2, TouchedAppend DEF Touched
  <1>11. Changes(a, Account(Reborn(x)), T)
    <2> HIDE DEF q, T, x
    <2> QED
      BY <1>6, <1>7, <1>9, <1>10 DEF Changes
  <1> QED
    BY <1>2, <1>7, <1>8, <1>11

\* The frame of Read.
LEMMA ReadFrame ==
    ASSUME IInv, NEW a \in Address, NEW o, NEW j, Read(a, o, j)
    PROVE  /\ cached' = cached \union {a}
           /\ stateObjects' = PutObject(stateObjects, a, o) /\ journal' = j
           /\ stateObjects'[a] = o
           /\ \A b \in Address \ {a} : stateObjects'[b] = stateObjects[b]
           /\ Waiting' = Waiting /\ ripemdDirty' = ripemdDirty
           /\ accessList' = accessList /\ preimages' = preimages
  <1>1. stateObjects \in [Address -> Object] /\ cached \subseteq Address
    BY DEF IInv, Sound, ObjectsOK, TypeOK
  <1>2. a \notin cached => ~stateObjects[a].live
    BY DEF IInv, Fetching
  <1> QED
    BY <1>1, <1>2 DEF Read, PutObject, Waiting

\* What is told again is what was known.
LEMMA ToldAgain ==
    ASSUME NEW n \in Found, NEW a \in Address
    PROVE  Told(n, a, n.accounts[a]) = n
  <1> DEFINE accs == n.accounts
  <1>1. accs \in [Address -> ReadAccount] /\ [accs EXCEPT ![a] = accs[a]] = accs
    BY DEF Found
  <1>2. Told(n, a, n.accounts[a]) = [n EXCEPT !.accounts = [accs EXCEPT ![a] = accs[a]]]
    BY DEF Told
  <1> QED
    BY <1>1, <1>2 DEF Found

\* A read changes nothing that can be read.
LEMMA ReadStep ==
    ASSUME IInv, NEW a \in Address, NEW r, ObjectOK(r),
           Account(r) = Account(getDeletedStateObject(a)),
           getDeletedStateObject(a).live => r.live /\ SameCaches(getDeletedStateObject(a), r),
           ~getDeletedStateObject(a).live => r = getDeletedStateObject(a),
           Read(a, r, journal), trie' = trie
    PROVE  /\ Changes(a, Now.accounts[a], {}) /\ Now' = Now
           /\ stateObjects'[a].live \/ ~trie'[a].exists
  <1> DEFINE prev == getDeletedStateObject(a)
  <1>1. /\ ObjectOK(prev) /\ Account(prev) = Now.accounts[a]
        /\ ~prev.live => ~trie[a].exists
        /\ stateObjects[a].live => prev = stateObjects[a]
    BY Loaded
  <1>2. /\ Sound(journal, stateObjects, Now, trie, Waiting, ripemdDirty)
        /\ Now \in Found /\ Len(journal.entries) \in Nat
    BY SMTT(30) DEF IInv, Sound, Chained
  <1> HIDE DEF prev
  <1>3. Sound(journal, PutObject(stateObjects, a, r), Now, trie, Waiting, ripemdDirty)
    <2>1. stateObjects[a].live => r.live /\ SameCaches(stateObjects[a], r)
      BY <1>1 DEF prev
    <2>2. ~r.live => ~trie[a].exists
      BY <1>1 DEF prev
    <2>3. Account(r) = Now.accounts[a]
      BY <1>1 DEF prev
    <2> QED
      BY <1>2, <2>1, <2>2, <2>3, SoundLoad
  <1>4. /\ stateObjects' = PutObject(stateObjects, a, r) /\ journal' = journal
        /\ Waiting' = Waiting /\ ripemdDirty' = ripemdDirty /\ stateObjects'[a] = r
        /\ accessList' = accessList /\ preimages' = preimages
    BY ReadFrame
  <1>5. Now' = Now
    <2>1. Sound(journal, stateObjects', Now, trie', Waiting, ripemdDirty)
      BY <1>3, <1>4
    <2>2. Now.accessList = accessList' /\ Now.preimages = preimages'
      BY <1>4 DEF Now
    <2> QED
      BY <2>1, <2>2, NowIs
  <1>6. Told(Now, a, Now.accounts[a]) = Now
    BY <1>2, ToldAgain
  <1>7. Extends(journal, Now, journal, Now)
    BY <1>2, ExtendsSelf
  <1>8. Changes(a, Now.accounts[a], {})
    BY <1>3, <1>4, <1>5, <1>6, <1>7 DEF Changes
  <1>9. r.live \/ ~trie[a].exists
    BY <1>1 DEF prev
  <1> QED
    BY <1>4, <1>5, <1>8, <1>9

Suicided(r) == [r EXCEPT !.suicided = TRUE, !.balance = 0]

\* Suicide marks the account and takes its balance.
LEMMA SuicideStep ==
    ASSUME IInv, NEW a \in Address, Suicide(a), Usable(getDeletedStateObject(a))
    PROVE  /\ Changes(a, Suicided(Now.accounts[a]), {a})
           /\ stateObjects'[a].live
  <1> DEFINE o == getDeletedStateObject(a)
             r == Suicided(o)
             e == [kind |-> "suicide", account |-> a, was |-> o.suicided, prev |-> o.balance]
             q == append(journal, e, Now)
             acc == Account(o)
             now2 == Told(Now, a, Account(r))
  <1>1. ObjectOK(o) /\ Account(o) = Now.accounts[a]
    BY Loaded
  <1>2. o = GetOrNewStateObject(a) /\ Acquired(a) = journal /\ NowWith(a, o) = Now
    BY Acquire
  <1>3. o.balance \in Value /\ o.suicided \in BOOLEAN
    BY <1>1 DEF ObjectOK, Object
  <1>4. e \in Entry /\ e.kind \in AccountKinds \ ReplacingKinds /\ e.account = a
        /\ e.kind # "storage"
    BY <1>3 DEF Entry, AccountKinds, ReplacingKinds, FieldKinds
  <1>5. ObjectOK(r) /\ Usable(r) /\ SameCaches(o, r) /\ Account(r) = Suicided(acc)
    <2>1. TRUE \in BOOLEAN /\ 0 \in Value
      BY ValueFacts
    <2> HIDE DEF o
    <2> QED
      BY <1>1, <2>1, WriteObject DEF Suicided, o
  <1>6. acc \in ReadAccount /\ acc.balance = o.balance /\ acc.suicided = o.suicided
    BY <1>1, AccountType DEF Account
  <1>7. SetBack(e, Suicided(acc)) = acc
    <2> DEFINE b1 == Suicided(acc)
               b2 == [b1 EXCEPT !.suicided = acc.suicided, !.balance = acc.balance]
    <2> HIDE DEF acc
    <2>1. SetBack(e, b1) = b2
      BY <1>6 DEF SetBack
    <2>2. b1 \in ReadAccount /\ b1.storage = acc.storage /\ b1.exists = acc.exists
          /\ b1.nonce = acc.nonce /\ b1.code = acc.code
      BY <1>6, ValueFacts DEF ReadAccount, Suicided
    <2> HIDE DEF b1
    <2>3. b2 \in ReadAccount /\ b2.storage = b1.storage /\ b2.exists = b1.exists
          /\ b2.nonce = b1.nonce /\ b2.code = b1.code
          /\ b2.balance = acc.balance /\ b2.suicided = acc.suicided
      BY <1>6, <2>2 DEF ReadAccount
    <2> HIDE DEF b2
    <2>4. b2 = acc
      BY <1>6, <2>2, <2>3, SameAccount
    <2> QED
      BY <2>1, <2>4 DEF b1
  <1>8. /\ Sound(q, PutObject(stateObjects, a, r), now2, trie, Waiting, ripemdDirty)
        /\ Extends(journal, Now, q, now2)
        /\ Touched(q) = Touched(journal) \union {a}
    <2>1. SetBack(e, Account(r)) = Account(o)
      BY <1>5, <1>7
    <2> HIDE DEF e, r, o
    <2> QED
      BY <1>2, <1>4, <1>5, <2>1, SetterStep
  <1>9. Read(a, r, q) /\ trie' = trie
    BY DEF Suicide, Suicided
  <1>10. /\ stateObjects' = PutObject(stateObjects, a, r) /\ journal' = q
         /\ Waiting' = Waiting /\ ripemdDirty' = ripemdDirty /\ stateObjects'[a] = r
         /\ accessList' = accessList /\ preimages' = preimages
    BY <1>9, ReadFrame
  <1>11. Now' = now2
    <2>1. Now \in Found
      BY DEF IInv, Sound, Chained
    <2>2. now2.accessList = accessList' /\ now2.preimages = preimages'
      BY <1>10, <2>1 DEF Told, Now, Found
    <2>3. Sound(q, stateObjects', now2, trie', Waiting, ripemdDirty)
      BY <1>8, <1>9, <1>10
    <2> HIDE DEF q, now2
    <2> QED
      BY <2>2, <2>3, NowIs
  <1>12. Changes(a, Account(r), {a})
    <2> HIDE DEF q, r
    <2> QED
      BY <1>8, <1>9, <1>10, <1>11 DEF Changes
  <1> QED
    BY <1>1, <1>5, <1>10, <1>12 DEF Usable

Without(tr, a) == [tr EXCEPT ![a] = NoAccount]

\* An account whose object is there is read from it, whatever the trie holds.
LEMMA SoundForget ==
    ASSUME NEW j, NEW objs, NEW now, NEW tr, NEW S, NEW x,
           Sound(j, objs, now, tr, S, x), NEW a \in Address, objs[a].live
    PROVE  Sound(j, objs, now, Without(tr, a), S, x)
  <1> DEFINE tr2 == Without(tr, a)
  <1>1. tr2 \in [Address -> ChainAccount] /\ ~tr2[a].exists
        /\ \A b \in Address \ {a} : tr2[b] = tr[b]
    BY NoObjectOK DEF Without, Sound, NoAccount
  <1>2. Says(objs, tr2) = Says(objs, tr)
    <2> HIDE DEF tr2
    <2>1. \A b \in Address : Stored(objs, tr2, b) = Stored(objs, tr, b)
      BY <1>1 DEF Stored
    <2> QED
      BY <2>1 DEF Says
  <1>3. Linked(j.entries, objs, tr2, S)
    <2>1. Linked(j.entries, objs, tr, S) /\ j.entries \in Seq(Entry)
      BY DEF Sound, Chained
    <2>2. \A b \in Address : objs[b].live => objs[b].live /\ SameCaches(objs[b], objs[b])
      BY DEF SameCaches
    <2>3. \A b \in Address : tr2[b].exists => tr[b].exists
      BY <1>1
    <2>4. S \in SUBSET S
      OBVIOUS
    <2> HIDE DEF tr2
    <2> QED
      BY <2>1, <2>2, <2>3, <2>4, LinkedQuiet
  <1> HIDE DEF tr2
  <1> QED
    BY <1>1, <1>2, <1>3 DEF Sound, tr2

\* DeleteAccount changes the trie and nothing that is read.
LEMMA DeleteStep ==
    ASSUME IInv, NEW a \in Address, DeleteAccount(a), Usable(getDeletedStateObject(a))
    PROVE  /\ Changes(a, Now.accounts[a], {}) /\ Now' = Now
           /\ trie' = Without(trie, a) /\ replaced' = replaced \union {a}
           /\ stateObjects'[a].live
           /\ cached' = cached \union {a}
           /\ \A b \in Address \ {a} : stateObjects'[b] = stateObjects[b] /\ trie'[b] = trie[b]
  <1> DEFINE o == getDeletedStateObject(a)
  <1>1. /\ ObjectOK(o) /\ Account(o) = Now.accounts[a]
        /\ stateObjects[a].live => o = stateObjects[a]
    BY Loaded
  <1>2. /\ Sound(journal, stateObjects, Now, trie, Waiting, ripemdDirty)
        /\ Now \in Found /\ Len(journal.entries) \in Nat /\ trie \in [Address -> ChainAccount]
    BY SMTT(30) DEF IInv, Sound, Chained
  <1>3. o.live
    BY DEF Usable
  <1>4. Read(a, o, journal) /\ trie' = Without(trie, a) /\ replaced' = replaced \union {a}
    BY DEF DeleteAccount, Without
  <1>5. /\ stateObjects' = PutObject(stateObjects, a, o) /\ journal' = journal
        /\ Waiting' = Waiting /\ ripemdDirty' = ripemdDirty /\ stateObjects'[a] = o
        /\ accessList' = accessList /\ preimages' = preimages
        /\ cached' = cached \union {a}
        /\ \A b \in Address \ {a} : stateObjects'[b] = stateObjects[b]
    BY <1>4, ReadFrame
  <1> HIDE DEF o
  <1>6. Sound(journal, stateObjects', Now, trie, Waiting, ripemdDirty)
    <2>1. stateObjects[a].live => o.live /\ SameCaches(stateObjects[a], o)
      BY <1>1, <1>3 DEF SameCaches
    <2> QED
      BY <1>1, <1>2, <1>3, <1>5, <2>1, SoundLoad
  <1>7. Sound(journal, stateObjects', Now, trie', Waiting, ripemdDirty)
    BY <1>3, <1>4, <1>5, <1>6, SoundForget
  <1>8. Now' = Now
    <2>1. Now.accessList = accessList' /\ Now.preimages = preimages'
      BY <1>5 DEF Now
    <2> QED
      BY <1>7, <2>1, NowIs
  <1>9. Told(Now, a, Now.accounts[a]) = Now
    BY <1>2, ToldAgain
  <1>10. Extends(journal, Now, journal, Now)
    BY <1>2, ExtendsSelf
  <1>11. Changes(a, Now.accounts[a], {})
    BY <1>5, <1>7, <1>8, <1>9, <1>10 DEF Changes
  <1>12. \A b \in Address \ {a} : trie'[b] = trie[b]
    BY <1>2, <1>4 DEF Without
  <1> QED
    BY <1>3, <1>4, <1>5, <1>8, <1>11, <1>12

\* A call happens outside a revert and leaves the control state alone.
LEMMA CallKeeps ==
    ASSUME IInv, NEW op, Call(op)
    PROVE  phase = "run" /\ UNCHANGED <<phase, target, work>> /\ budget' \in Nat
  BY SMTT(30) DEF Call, IInv, TypeOK

\* The invariant after a setter.
LEMMA SetterInv ==
    ASSUME IInv, NEW a \in Address, NEW op, Call(op), NEW o, NEW j, Write(a, o, j), o.live,
           NEW v, NEW T \in SUBSET {a}, Changes(a, v, T),
           replaced' \in {replaced, replaced \union {a}},
           ripemdDirty' = ripemdDirty \/ (ripemdDirty' = ripemdDirty + 1 /\ a = Ripemd),
           v = Now.accounts[a] \/ a \in T \union replaced'
    PROVE  IInv'
  <1>1. phase = "run" /\ UNCHANGED <<phase, target, work>> /\ budget' \in Nat
    BY CallKeeps
  <1>2. /\ cached' = cached \union {a} /\ stateObjects'[a] = o
        /\ \A b \in Address \ {a} : stateObjects'[b] = stateObjects[b]
        /\ trie' = trie
    BY WriteFrame
  <1>3. UNCHANGED <<loadRemote, validRevisions, nextRevisionId, stateObjectsPending,
                    stateObjectsDirty>>
    BY DEF Write, UnchangedButJournal
  <1> QED
    BY <1>1, <1>2, <1>3, AccountStep

\* SetBalance, SetNonce and SetCode preserve the invariant.
LEMMA SetFieldInv ==
    ASSUME IInv, NEW a \in Address, NEW kind \in FieldKinds, NEW x \in Value,
           NEW op, Call(op),
           LET o == GetOrNewStateObject(a)
           IN  WriteField(a, kind, Field(o, kind), WithField(o, kind, x))
    PROVE  IInv'
  <1> DEFINE o == GetOrNewStateObject(a)
             j == append(Acquired(a), [kind |-> kind, account |-> a, prev |-> Field(o, kind)],
                         NowWith(a, o))
             v == WithField(Account(o), kind, x)
  <1>1. Changes(a, v, {a})
    BY SetFieldStep
  <1>2. WithField(o, kind, x).live
    <2>1. ObjectOK(o) /\ Usable(o)
      BY Acquire
    <2> HIDE DEF o
    <2> QED
      BY <2>1, FieldWritten DEF Usable
  <1>3. Write(a, WithField(o, kind, x), j) /\ replaced' = replaced /\ ripemdDirty' = ripemdDirty
    BY DEF WriteField
  <1> HIDE DEF o, j, v
  <1>4. {a} \in SUBSET {a} /\ a \in {a} \union replaced'
    OBVIOUS
  <1>5. replaced' \in {replaced, replaced \union {a}}
    BY <1>3
  <1> QED
    BY <1>1, <1>2, <1>3, <1>4, <1>5, SetterInv

\* A setter that finds nothing to change preserves the invariant, though it may make an object.
LEMMA NothingInv ==
    ASSUME IInv, NEW a \in Address, NEW r, ObjectOK(r), Usable(r),
           Account(r) = Account(GetOrNewStateObject(a)),
           SameCaches(GetOrNewStateObject(a), r), WriteNothing(a, r), NEW op, Call(op)
    PROVE  IInv'
  <1> DEFINE o == GetOrNewStateObject(a)
             prev == getDeletedStateObject(a)
             T == IF prev.live THEN {} ELSE {a}
  <1>1. /\ Changes(a, Account(o), T)
        /\ replaced' = IF prev.live /\ ~Usable(prev) THEN replaced \union {a} ELSE replaced
    BY NothingStep
  <1>2. Write(a, r, Acquired(a)) /\ ripemdDirty' = ripemdDirty /\ r.live
    BY DEF WriteNothing, Usable
  <1>3. Usable(prev) => Account(o) = Now.accounts[a]
    BY Acquire, Loaded
  <1>4. Account(o) = Now.accounts[a] \/ a \in T \union replaced'
    BY <1>1, <1>3
  <1>5. T \in SUBSET {a} /\ replaced' \in {replaced, replaced \union {a}}
    BY <1>1
  <1> HIDE DEF o, T
  <1> QED
    BY <1>1, <1>2, <1>4, <1>5, SetterInv

\* touch preserves the invariant, RIPEMD-160 included.
LEMMA TouchInv ==
    ASSUME IInv, NEW a \in Address, touch(a), NEW op, Call(op)
    PROVE  IInv'
  <1> DEFINE o == GetOrNewStateObject(a)
  <1>1. Changes(a, Account(o), {a})
    BY TouchStep
  <1>2. \E j : Write(a, o, j)
    BY DEF touch
  <1>3. replaced' = replaced
        /\ (ripemdDirty' = ripemdDirty \/ (ripemdDirty' = ripemdDirty + 1 /\ a = Ripemd))
    <2>1. ripemdDirty \in Nat
      BY DEF IInv, TypeOK
    <2> QED
      BY <2>1, SMTT(30) DEF touch
  <1>4. o.live
    BY Acquire DEF Usable
  <1>5. {a} \in SUBSET {a} /\ a \in {a} \union replaced'
    OBVIOUS
  <1>6. replaced' \in {replaced, replaced \union {a}}
    BY <1>3
  <1> HIDE DEF o
  <1> QED
    BY <1>1, <1>2, <1>3, <1>4, <1>5, <1>6, SetterInv

\* SetState preserves the invariant.
LEMMA SetStateInv ==
    ASSUME IInv, NEW a \in Address, NEW k \in Slot, NEW x \in Value, SetState(a, k, x),
           NEW op, Call(op)
    PROVE  IInv'
  <1> DEFINE o == GetOrNewStateObject(a)
             r == StateRead(o, k)
             v == WithSlot(Account(o), k, x)
  <1>1. ObjectOK(o) /\ Usable(o)
    BY Acquire
  <1>2. ObjectOK(r) /\ Usable(r) /\ Account(r) = Account(o) /\ SameCaches(o, r)
    BY <1>1, ReadObject, SMTT(30) DEF Usable
  <1>3. CASE GetState(o, k) = x
    <2>1. WriteNothing(a, r)
      BY <1>3 DEF SetState
    <2> HIDE DEF r
    <2> QED
      BY <1>2, <2>1, NothingInv
  <1>4. CASE GetState(o, k) # x
    <2> DEFINE w == [r EXCEPT !.dirtyStorage[k] = x]
    <2>1. Changes(a, v, {a})
      BY <1>4, SetStateStep
    <2>2. /\ \E j : Write(a, w, j)
          /\ replaced' = replaced /\ ripemdDirty' = ripemdDirty
      BY <1>4 DEF SetState
    <2>3. w.live
      <3> HIDE DEF r
      <3> QED
        BY <1>2 DEF ObjectOK, Object, Usable
    <2>4. {a} \in SUBSET {a} /\ a \in {a} \union replaced'
          /\ replaced' \in {replaced, replaced \union {a}}
      BY <2>2
    <2> HIDE DEF w, v
    <2> QED
      BY <2>1, <2>2, <2>3, <2>4, SetterInv
  <1> QED
    BY <1>3, <1>4

\* The setters of a field.
LEMMA FieldSetters ==
    ASSUME NEW a, NEW x
    PROVE  LET o == GetOrNewStateObject(a)
           IN  /\ SetBalance(a, x) =>
                     WriteField(a, "balance", Field(o, "balance"), WithField(o, "balance", x))
               /\ SetNonce(a, x) =>
                     WriteField(a, "nonce", Field(o, "nonce"), WithField(o, "nonce", x))
               /\ SetCode(a, x) =>
                     WriteField(a, "code", Field(o, "code"), WithField(o, "code", x))
               /\ "balance" \in FieldKinds /\ "nonce" \in FieldKinds /\ "code" \in FieldKinds
  BY DEF SetBalance, SetNonce, SetCode, Field, WithField, FieldKinds

\* Every setter keeps the invariant.
LEMMA SetAccountInv ==
    ASSUME IInv, NEW a \in Address, SetAccount(a)
    PROVE  IInv'
  <1> DEFINE o == GetOrNewStateObject(a)
  <1>1. ObjectOK(o) /\ Usable(o) /\ SameCaches(o, o)
    BY Acquire DEF SameCaches
  <1>2. ASSUME NEW x \in Value, NEW op, Call(op), SetBalance(a, x) PROVE IInv'
    BY <1>2, FieldSetters, SetFieldInv
  <1>3. ASSUME NEW op, Call(op), WriteNothing(a, o) PROVE IInv'
    <2> HIDE DEF o
    <2> QED
      BY <1>1, <1>3, NothingInv DEF o
  <1>4. PICK x \in Value :
            \/ Call("SetBalance") /\ SetBalance(a, x)
            \/ Call("AddBalance") /\ AddBalance(a, x)
            \/ Call("SubBalance") /\ SubBalance(a, x)
            \/ Call("SetNonce") /\ SetNonce(a, x)
            \/ Call("SetCode") /\ SetCode(a, x)
            \/ \E k \in Slot : Call("SetState") /\ SetState(a, k, x)
    BY DEF SetAccount
  <1>5. CASE Call("SetBalance") /\ SetBalance(a, x)
    BY <1>2, <1>5
  <1>6. CASE Call("AddBalance") /\ AddBalance(a, x)
    <2>1. \/ touch(a) \/ WriteNothing(a, o)
          \/ o.balance + x \in Value /\ SetBalance(a, o.balance + x)
      BY <1>6 DEF AddBalance
    <2> HIDE DEF o
    <2> QED
      BY <1>2, <1>3, <1>6, <2>1, TouchInv
  <1>7. CASE Call("SubBalance") /\ SubBalance(a, x)
    <2>1. \/ WriteNothing(a, o)
          \/ o.balance - x \in Value /\ SetBalance(a, o.balance - x)
      BY <1>7 DEF SubBalance
    <2> HIDE DEF o
    <2> QED
      BY <1>2, <1>3, <1>7, <2>1
  <1>8. CASE Call("SetNonce") /\ SetNonce(a, x)
    BY <1>8, FieldSetters, SetFieldInv
  <1>9. CASE Call("SetCode") /\ SetCode(a, x)
    BY <1>9, FieldSetters, SetFieldInv
  <1>10. CASE \E k \in Slot : Call("SetState") /\ SetState(a, k, x)
    BY <1>10, SetStateInv
  <1> QED
    BY <1>4, <1>5, <1>6, <1>7, <1>8, <1>9, <1>10

\* The invariant after a call that reads one account, or changes it without
\* GetOrNewStateObject.
LEMMA ReaderInv ==
    ASSUME IInv, NEW a \in Address, NEW op, Call(op), NEW o, NEW j, Read(a, o, j),
           NEW v, NEW T \in SUBSET {a}, Changes(a, v, T),
           stateObjects'[a].live \/ ~trie'[a].exists,
           trie' = trie, replaced' = replaced,
           v = Now.accounts[a] \/ a \in T
    PROVE  IInv'
  <1>1. phase = "run" /\ UNCHANGED <<phase, target, work>> /\ budget' \in Nat
    BY CallKeeps
  <1>2. /\ cached' = cached \union {a} /\ stateObjects'[a] = o /\ ripemdDirty' = ripemdDirty
        /\ \A b \in Address \ {a} : stateObjects'[b] = stateObjects[b]
    BY ReadFrame
  <1>3. UNCHANGED <<loadRemote, validRevisions, nextRevisionId, stateObjectsPending,
                    stateObjectsDirty>>
    BY DEF Read
  <1>4. replaced' \in {replaced, replaced \union {a}}
    OBVIOUS
  <1> QED
    BY <1>1, <1>2, <1>3, <1>4, AccountStep

\* A read that changes no more than what is cached preserves the invariant.
LEMMA ReadInv ==
    ASSUME IInv, NEW a \in Address, NEW r, ObjectOK(r),
           Account(r) = Account(getDeletedStateObject(a)),
           getDeletedStateObject(a).live => r.live /\ SameCaches(getDeletedStateObject(a), r),
           ~getDeletedStateObject(a).live => r = getDeletedStateObject(a),
           Read(a, r, journal), trie' = trie, replaced' = replaced, NEW op, Call(op)
    PROVE  IInv'
  <1>1. /\ Changes(a, Now.accounts[a], {})
        /\ stateObjects'[a].live \/ ~trie'[a].exists
    BY ReadStep
  <1>2. {} \in SUBSET {a}
    OBVIOUS
  <1> QED
    BY <1>1, <1>2, ReaderInv

\* What the getters leave in stateObjects.
LEMMA Reads ==
    ASSUME IInv, NEW a \in Address,
           Get(a) \/ \E k \in Slot : ReadState(a, k) \/ ReadCommitted(a, k)
    PROVE  \E r : /\ ObjectOK(r) /\ Account(r) = Account(getDeletedStateObject(a))
                  /\ getDeletedStateObject(a).live =>
                        r.live /\ SameCaches(getDeletedStateObject(a), r)
                  /\ ~getDeletedStateObject(a).live => r = getDeletedStateObject(a)
                  /\ Read(a, r, journal) /\ trie' = trie /\ replaced' = replaced
  <1> DEFINE o == getDeletedStateObject(a)
  <1>1. ObjectOK(o) /\ SameCaches(o, o)
    BY Loaded DEF SameCaches
  <1>2. CASE Read(a, o, journal) /\ trie' = trie /\ replaced' = replaced
    BY <1>1, <1>2
  <1>3. CASE Usable(o) /\ \E k \in Slot : ReadState(a, k) \/ ReadCommitted(a, k)
    <2>1. PICK k \in Slot : ReadState(a, k) \/ ReadCommitted(a, k)
      BY <1>3
    <2>2. PICK r : /\ r = StateRead(o, k) \/ r = CommittedRead(o, k)
                   /\ Read(a, r, journal) /\ trie' = trie /\ replaced' = replaced
      BY <1>3, <2>1 DEF ReadState, ReadCommitted
    <2>3. o.live
      BY <1>3 DEF Usable
    <2> HIDE DEF o
    <2>4. ObjectOK(r) /\ r.live /\ Account(r) = Account(o) /\ SameCaches(o, r)
      BY <1>1, <2>1, <2>2, <2>3, ReadObject, SMTT(30)
    <2> QED
      BY <2>2, <2>3, <2>4 DEF o
  <1>4. CASE ~Usable(o) \/ Get(a)
    <2>1. Read(a, o, journal) /\ trie' = trie /\ replaced' = replaced
      BY <1>4 DEF Get, ReadState, ReadCommitted
    <2> QED
      BY <1>2, <2>1
  <1> QED
    BY <1>3, <1>4

\* Every other call on an account keeps the invariant.
LEMMA UseAccountInv ==
    ASSUME IInv, NEW a \in Address, UseAccount(a)
    PROVE  IInv'
  <1> DEFINE o == getDeletedStateObject(a)
  <1>1. ObjectOK(o) /\ SameCaches(o, o)
    BY Loaded DEF SameCaches
  <1>2. ASSUME NEW op, Call(op), Read(a, o, journal), trie' = trie, replaced' = replaced
        PROVE  IInv'
    <2> HIDE DEF o
    <2> QED
      BY <1>1, <1>2, ReadInv DEF o
  <1>3. CASE Call("CreateAccount") /\ CreateAccount(a)
    <2> DEFINE x == IF Usable(o) THEN o.balance ELSE 0
               T == IF o.live THEN {} ELSE {a}
    <2>1. /\ x \in Value /\ Changes(a, Account(Reborn(x)), T)
          /\ stateObjects' = PutObject(stateObjects, a, Reborn(x))
          /\ cached' = cached \union {a}
      BY <1>3, CreateAccountStep
    <2>2. stateObjects \in [Address -> Object] /\ trie \in [Address -> ChainAccount]
      BY DEF IInv, Sound, ObjectsOK
    <2> HIDE DEF x
    <2>3. stateObjects'[a] = Reborn(x)
          /\ \A b \in Address \ {a} : stateObjects'[b] = stateObjects[b]
      BY <2>1, <2>2 DEF PutObject
    <2>4. Reborn(x).live
      BY <2>1, RebornObject DEF Usable
    <2>5. phase = "run" /\ UNCHANGED <<phase, target, work>> /\ budget' \in Nat
      BY <1>3, CallKeeps
    <2>6. /\ UNCHANGED <<loadRemote, validRevisions, nextRevisionId, stateObjectsPending,
                         stateObjectsDirty, trie, ripemdDirty>>
          /\ replaced' = IF o.live THEN replaced \union {a} ELSE replaced
      BY <1>3 DEF CreateAccount, UnchangedButJournal
    <2>7. T \in SUBSET {a} /\ a \in T \union replaced'
          /\ replaced' \in {replaced, replaced \union {a}}
      BY <2>6
    <2> HIDE DEF T
    <2> QED
      BY <2>1, <2>3, <2>4, <2>5, <2>6, <2>7, AccountStep
  <1>4. CASE Call("Suicide") /\ Suicide(a)
    <2>1. CASE Usable(o)
      <3>1. /\ Changes(a, Suicided(Now.accounts[a]), {a})
            /\ stateObjects'[a].live
        BY <1>4, <2>1, SuicideStep
      <3>2. /\ \E r, j : Read(a, r, j)
            /\ trie' = trie /\ replaced' = replaced
        BY <1>4, <2>1 DEF Suicide
      <3>3. {a} \in SUBSET {a} /\ a \in {a}
        OBVIOUS
      <3> QED
        BY <1>4, <3>1, <3>2, <3>3, ReaderInv
    <2>2. CASE ~Usable(o)
      BY <1>2, <1>4, <2>2 DEF Suicide
    <2> QED
      BY <2>1, <2>2
  <1>5. CASE Call("DeleteAccount") /\ DeleteAccount(a)
    <2>1. CASE Usable(o)
      <3>1. /\ Changes(a, Now.accounts[a], {}) /\ Now' = Now
            /\ trie' = Without(trie, a) /\ replaced' = replaced \union {a}
            /\ stateObjects'[a].live
            /\ cached' = cached \union {a}
            /\ \A b \in Address \ {a} : stateObjects'[b] = stateObjects[b] /\ trie'[b] = trie[b]
        BY <1>5, <2>1, DeleteStep
      <3>2. phase = "run" /\ UNCHANGED <<phase, target, work>> /\ budget' \in Nat
        BY <1>5, CallKeeps
      <3>3. UNCHANGED <<loadRemote, validRevisions, nextRevisionId, stateObjectsPending,
                        stateObjectsDirty, ripemdDirty>>
        BY <1>5, <2>1 DEF DeleteAccount, Read
      <3>4. {} \in SUBSET {a} /\ a \in replaced'
            /\ replaced' \in {replaced, replaced \union {a}}
        BY <3>1
      <3> QED
        BY <3>1, <3>2, <3>3, <3>4, AccountStep
    <2>2. CASE ~Usable(o)
      BY <1>2, <1>5, <2>2 DEF DeleteAccount
    <2> QED
      BY <2>1, <2>2
  <1>6. CASE \/ Call("Get") /\ Get(a)
             \/ \E k \in Slot : Call("GetState") /\ (ReadState(a, k) \/ ReadCommitted(a, k))
    <2>1. \/ Get(a)
          \/ \E k \in Slot : ReadState(a, k) \/ ReadCommitted(a, k)
      BY <1>6
    <2>2. \E op : Call(op)
      BY <1>6
    <2> QED
      BY <2>1, <2>2, Reads, ReadInv
  <1> QED
    BY <1>3, <1>4, <1>5, <1>6 DEF UseAccount

-----------------------------------------------------------------------------
(***************************************************************************)
(* The access list, the preimages and the snapshots                        *)
(***************************************************************************)

Warmed(now, al) == [now EXCEPT !.accessList = al]

Recorded(now, known) == [now EXCEPT !.preimages = known]

\* An entry about something else than an account.
LEMMA SoundOther ==
    ASSUME NEW j, NEW objs, NEW now, NEW tr, NEW S, NEW x \in Nat,
           Sound(j, objs, now, tr, S, x),
           NEW e \in Entry, e.kind \notin AccountKinds, NEW now2 \in Found,
           now2.accounts = now.accounts, Able(e, now2), Before(e, now2) = now
    PROVE  LET q == append(j, e, now)
           IN  /\ Sound(q, objs, now2, tr, S, x)
               /\ Extends(j, now, q, now2)
               /\ Touched(q) = Touched(j)
  <1> DEFINE q == append(j, e, now)
  <1>1. Chained(j, now) /\ j.entries \in Seq(Entry) /\ Counted(j, x) /\ Len(j.entries) \in Nat
        /\ Linked(j.entries, objs, tr, S)
    BY SMTT(30) DEF Sound, Chained
  <1>2. /\ Chained(q, now2)
        /\ q.entries = Append(j.entries, e)
        /\ Len(q.entries) = Len(j.entries) + 1
        /\ \A i \in 0..Len(j.entries) : FoundAt(q, now2, i) = FoundAt(j, now, i)
    BY <1>1, AppendChained
  <1>3. Counted(q, x)
    BY <1>1, CountAppend
  <1> HIDE DEF q
  <1>4. Linked(q.entries, objs, tr, S)
    <2>1. e.kind \notin ReplacingKinds /\ e.kind # "storage"
      BY DEF AccountKinds, ReplacingKinds
    <2> QED
      BY <1>1, <1>2, <2>1, LinkedAppend
  <1>5. Extends(j, now, q, now2)
    BY <1>1, <1>2, SMTT(30) DEF Extends
  <1>6. Touched(q) = Touched(j)
    <2>1. {b \in Address : dirtied(e, b)} = {}
      BY DEF dirtied, DirtyingKinds, AccountKinds, FieldKinds
    <2> QED
      BY <1>1, <1>2, <2>1, TouchedAppend DEF Touched
  <1> QED
    BY <1>2, <1>3, <1>4, <1>5, <1>6 DEF Sound, q

\* Changing the access list or the preimages leaves the other parts of what is found alone.
LEMMA WarmedFields ==
    ASSUME NEW now \in Found, NEW al, AccessListOK(al), NEW known \in SUBSET Preimage
    PROVE  /\ Warmed(now, al) \in Found /\ Warmed(now, al).accounts = now.accounts
           /\ Warmed(now, al).accessList = al /\ Warmed(now, al).preimages = now.preimages
           /\ Recorded(now, known) \in Found /\ Recorded(now, known).accounts = now.accounts
           /\ Recorded(now, known).accessList = now.accessList
           /\ Recorded(now, known).preimages = known
           /\ AccessListOK(now.accessList) /\ now.preimages \in SUBSET Preimage
  <1>1. al \in AccessList
    BY DEF AccessList, AccessListOK
  <1> QED
    BY <1>1 DEF Warmed, Recorded, Found, AccessList

\* An address added to the access list, with its entry, keeps the journal sound.
LEMMA WarmAddressSound ==
    ASSUME NEW j, NEW objs, NEW now, NEW tr, NEW S, NEW x \in Nat,
           Sound(j, objs, now, tr, S, x), NEW a \in Address,
           ~ContainsAddress(now.accessList, a)
    PROVE  LET e == [kind |-> "accessListAddAccount", account |-> a]
               q == append(j, e, now)
               now2 == Warmed(now, addAddress(now.accessList, a))
           IN  /\ Sound(q, objs, now2, tr, S, x)
               /\ Extends(j, now, q, now2)
               /\ Touched(q) = Touched(j)
  <1> DEFINE e == [kind |-> "accessListAddAccount", account |-> a]
             al == now.accessList
             bl == addAddress(al, a)
             now2 == Warmed(now, bl)
  <1>1. now \in Found
    BY DEF Sound, Chained
  <1>2. AccessListOK(al)
    BY <1>1 DEF Found, AccessList
  <1>3. AccessListOK(bl) /\ [bl EXCEPT !.addresses[a] = Missing] = al
    BY <1>2, AddAddress
  <1> HIDE DEF bl
  <1>4. /\ now2 \in Found /\ now2.accounts = now.accounts /\ now2.accessList = bl
        /\ now2.preimages = now.preimages
    BY <1>1, <1>3, WarmedFields
  <1>5. e \in Entry /\ e.kind \notin AccountKinds /\ Able(e, now2)
    BY DEF Entry, AccountKinds, FieldKinds, Able, LoadingKinds, ObjectKinds
  <1>6. Before(e, now2) = now
    <2>1. CooledBy(e, bl) = al
      BY <1>3 DEF CooledBy
    <2>2. Before(e, now2) = [accounts |-> now.accounts, accessList |-> al,
                             preimages |-> now.preimages]
      BY <1>4, <1>5, <2>1 DEF Before
    <2> QED
      BY <1>1, <2>2 DEF Found
  <1> HIDE DEF e, now2
  <1> QED
    BY <1>4, <1>5, <1>6, SoundOther DEF e, now2, bl

\* A slot added to the access list, with its entry, keeps the journal sound.
LEMMA WarmSlotSound ==
    ASSUME NEW j, NEW objs, NEW now, NEW tr, NEW S, NEW x \in Nat,
           Sound(j, objs, now, tr, S, x), NEW a \in Address, NEW k \in Slot,
           ContainsAddress(now.accessList, a), k \notin SlotsOf(now.accessList, a)
    PROVE  LET e == [kind |-> "accessListAddSlot", account |-> a, key |-> k]
               q == append(j, e, now)
               now2 == Warmed(now, addSlot(now.accessList, a, k))
           IN  /\ Sound(q, objs, now2, tr, S, x)
               /\ Extends(j, now, q, now2)
               /\ Touched(q) = Touched(j)
  <1> DEFINE e == [kind |-> "accessListAddSlot", account |-> a, key |-> k]
             al == now.accessList
             bl == addSlot(al, a, k)
             now2 == Warmed(now, bl)
  <1>1. now \in Found
    BY DEF Sound, Chained
  <1>2. AccessListOK(al)
    BY <1>1 DEF Found, AccessList
  <1>3. AccessListOK(bl) /\ bl.addresses[a] >= 0 /\ deleteSlot(bl, a, k) = al
    BY <1>2, AddSlot
  <1> HIDE DEF bl
  <1>4. /\ now2 \in Found /\ now2.accounts = now.accounts /\ now2.accessList = bl
        /\ now2.preimages = now.preimages
    BY <1>1, <1>3, WarmedFields
  <1>5. e \in Entry /\ e.kind \notin AccountKinds /\ Able(e, now2)
    BY <1>3, <1>4 DEF Entry, AccountKinds, FieldKinds, Able, LoadingKinds, ObjectKinds
  <1>6. Before(e, now2) = now
    <2>1. CooledBy(e, bl) = al
      BY <1>3 DEF CooledBy
    <2>2. Before(e, now2) = [accounts |-> now.accounts, accessList |-> al,
                             preimages |-> now.preimages]
      BY <1>4, <1>5, <2>1 DEF Before
    <2> QED
      BY <1>1, <2>2 DEF Found
  <1> HIDE DEF e, now2
  <1> QED
    BY <1>4, <1>5, <1>6, SoundOther DEF e, now2, bl

\* A preimage added, with its entry, keeps the journal sound.
LEMMA PreimageSound ==
    ASSUME NEW j, NEW objs, NEW now, NEW tr, NEW S, NEW x \in Nat,
           Sound(j, objs, now, tr, S, x), NEW h \in Preimage, h \notin now.preimages
    PROVE  LET e == [kind |-> "addPreimage", hash |-> h]
               q == append(j, e, now)
               now2 == Recorded(now, now.preimages \union {h})
           IN  /\ Sound(q, objs, now2, tr, S, x)
               /\ Extends(j, now, q, now2)
               /\ Touched(q) = Touched(j)
  <1> DEFINE e == [kind |-> "addPreimage", hash |-> h]
             known == now.preimages \union {h}
             now2 == Recorded(now, known)
  <1>1. now \in Found
    BY DEF Sound, Chained
  <1>2. AccessListOK(now.accessList) /\ known \in SUBSET Preimage /\ known \ {h} = now.preimages
    BY <1>1 DEF Found, AccessList
  <1> HIDE DEF known
  <1>4. /\ now2 \in Found /\ now2.accounts = now.accounts
        /\ now2.accessList = now.accessList /\ now2.preimages = known
    BY <1>1, <1>2, WarmedFields
  <1>5. e \in Entry /\ e.kind \notin AccountKinds /\ Able(e, now2)
    BY DEF Entry, AccountKinds, FieldKinds, Able, LoadingKinds, ObjectKinds
  <1>6. Before(e, now2) = now
    <2>1. CooledBy(e, now.accessList) = now.accessList
      BY DEF CooledBy
    <2>2. Before(e, now2) = [accounts |-> now.accounts, accessList |-> now.accessList,
                             preimages |-> now.preimages]
      BY <1>2, <1>4, <1>5, <2>1 DEF Before
    <2> QED
      BY <1>1, <2>2 DEF Found
  <1> HIDE DEF e, now2
  <1> QED
    BY <1>4, <1>5, <1>6, SoundOther DEF e, now2, known

\* A step that changes no account and touches none.
Turns(n) ==
    /\ Sound(journal', stateObjects', Now', trie', Waiting', ripemdDirty')
    /\ Extends(journal, Now, journal', Now')
    /\ Now' = n
    /\ Touched(journal') = Touched(journal)

OtherFrame ==
    UNCHANGED <<stateObjects, stateObjectsPending, stateObjectsDirty, trie,
                validRevisions, nextRevisionId, cached, replaced, ripemdDirty>>

\* A call that leaves the objects alone and extends the journal soundly turns what the getters
\* return into n.
LEMMA TurnsTo ==
    ASSUME IInv, OtherFrame, NEW n,
           Sound(journal', stateObjects, n, trie, Waiting, ripemdDirty),
           Extends(journal, Now, journal', n), Touched(journal') = Touched(journal),
           n.accessList = accessList', n.preimages = preimages'
    PROVE  Turns(n)
  <1>1. /\ stateObjects' = stateObjects /\ trie' = trie /\ Waiting' = Waiting
        /\ ripemdDirty' = ripemdDirty
    BY DEF OtherFrame, Waiting
  <1>2. Sound(journal', stateObjects', n, trie', Waiting, ripemdDirty)
    BY <1>1
  <1>3. Now' = n
    BY <1>2, NowIs
  <1> QED
    BY <1>1, <1>3 DEF Turns

\* A call that leaves the objects alone preserves the invariant.
LEMMA OtherInv ==
    ASSUME IInv, OtherFrame, NEW op, Call(op), loadRemote' \in BOOLEAN, NEW n, Turns(n),
           n.accounts = Now.accounts
    PROVE  IInv'
  <1>0. phase = "run" /\ UNCHANGED <<phase, target, work>> /\ budget' \in Nat
    BY CallKeeps
  <1>1. TypeOK'
    BY <1>0 DEF IInv, TypeOK, OtherFrame
  <1>2. Fetching' /\ Sticking'
    BY <1>0 DEF IInv, Fetching, Sticking, OtherFrame
  <1>3. RevisionsOK' /\ Scheduled'
    <2>1. Extends(journal, Now, journal', Now') /\ Len(journal'.entries) \in Nat
      BY SMTT(30) DEF Turns, Sound, Chained
    <2>2. Exempt' = Exempt /\ trie' = trie
      BY DEF Exempt, Sticky, OtherFrame
    <2>3. Now'.accounts = Now.accounts
      BY DEF Turns
    <2>4. UNCHANGED <<phase, validRevisions, nextRevisionId, target>>
      BY <1>0 DEF OtherFrame
    <2> QED
      BY <1>0, <2>1, <2>2, <2>3, <2>4, GrowStep
  <1>4. Sound(journal, stateObjects, Now, trie, Waiting, ripemdDirty)'
    BY DEF Turns
  <1> QED
    BY <1>0, <1>1, <1>2, <1>3, <1>4 DEF IInv

\* Nothing changes.
LEMMA SameTurn ==
    ASSUME IInv, OtherFrame, UNCHANGED <<journal, accessList, preimages>>
    PROVE  Turns(Now)
  BY StateFacts, TurnsTo

\* AddAddressToAccessList adds the address unless it is there.
LEMMA AddAddressStep ==
    ASSUME IInv, NEW a \in Address, AddAddressToAccessList(a)
    PROVE  /\ OtherFrame /\ loadRemote' = loadRemote
           /\ IF ContainsAddress(accessList, a) THEN Turns(Now)
              ELSE Turns(Warmed(Now, addAddress(accessList, a)))
  <1>1. OtherFrame /\ loadRemote' = loadRemote /\ preimages' = preimages
    BY DEF AddAddressToAccessList, Warm, OtherFrame
  <1>2. CASE ContainsAddress(accessList, a)
    <2>1. UNCHANGED <<journal, accessList>>
      BY <1>2 DEF AddAddressToAccessList, Warm, WarmedAddress
    <2> QED
      BY <1>1, <1>2, <2>1, SameTurn
  <1>3. CASE ~ContainsAddress(accessList, a)
    <2> DEFINE bl == addAddress(accessList, a)
               e == [kind |-> "accessListAddAccount", account |-> a]
    <2>1. accessList' = bl /\ journal' = append(journal, e, Now)
      BY <1>3 DEF AddAddressToAccessList, Warm, WarmedAddress
    <2>2. /\ Sound(append(journal, e, Now), stateObjects, Warmed(Now, bl), trie, Waiting, ripemdDirty)
          /\ Extends(journal, Now, append(journal, e, Now), Warmed(Now, bl))
          /\ Touched(append(journal, e, Now)) = Touched(journal)
      <3>1. ~ContainsAddress(Now.accessList, a)
        BY <1>3, StateFacts
      <3> QED
        BY <3>1, StateFacts, WarmAddressSound
    <2>3. Warmed(Now, bl).accessList = bl /\ Warmed(Now, bl).preimages = preimages
      BY StateFacts DEF Warmed, Found
    <2> HIDE DEF e, bl
    <2>4. Turns(Warmed(Now, bl))
      BY <1>1, <2>1, <2>2, <2>3, TurnsTo
    <2> QED
      BY <1>1, <1>3, <2>4 DEF bl
  <1> QED
    BY <1>2, <1>3

\* AddSlotToAccessList adds the slot, and the address if need be, unless it is there.
LEMMA AddSlotStep ==
    ASSUME IInv, NEW a \in Address, NEW k \in Slot, AddSlotToAccessList(a, k)
    PROVE  /\ OtherFrame /\ loadRemote' = loadRemote
           /\ IF k \in SlotsOf(accessList, a) THEN Turns(Now)
              ELSE Turns(Warmed(Now, addSlot(accessList, a, k)))
  <1>1. OtherFrame /\ loadRemote' = loadRemote /\ preimages' = preimages
    BY DEF AddSlotToAccessList, Warm, OtherFrame
  <1>2. CASE k \in SlotsOf(accessList, a)
    <2>1. UNCHANGED <<journal, accessList>>
      BY <1>2 DEF AddSlotToAccessList, Warm
    <2> QED
      BY <1>1, <1>2, <2>1, SameTurn
  <1>3. CASE k \notin SlotsOf(accessList, a)
    <2> DEFINE known == IF ContainsAddress(accessList, a) THEN accessList
                        ELSE addAddress(accessList, a)
               n == Warmed(Now, known)
               bl == addSlot(accessList, a, k)
               e == [kind |-> "accessListAddSlot", account |-> a, key |-> k]
               j == WarmedAddress(a)
               q == append(j, e, n)
    <2>1. accessList' = bl /\ journal' = q
      BY <1>3 DEF AddSlotToAccessList, Warm, Warmed
    <2>2. /\ Sound(j, stateObjects, n, trie, Waiting, ripemdDirty)
          /\ Extends(journal, Now, j, n) /\ Touched(j) = Touched(journal)
          /\ n.accessList = known /\ ContainsAddress(known, a)
          /\ k \notin SlotsOf(known, a) /\ addSlot(known, a, k) = bl
          /\ Warmed(n, bl) = Warmed(Now, bl)
      <3>1. ASSUME NEW m \in Found, NEW al, NEW cl
            PROVE  Warmed(m, al).accessList = al /\ Warmed(Warmed(m, al), cl) = Warmed(m, cl)
                   /\ Warmed(m, m.accessList) = m
        BY DEF Warmed, Found
      <3>2. CASE ContainsAddress(accessList, a)
        <4>1. known = accessList /\ j = journal /\ n = Now
          BY <3>1, <3>2, StateFacts DEF WarmedAddress
        <4> HIDE DEF known, j, n
        <4> QED
          BY <1>3, <3>1, <3>2, <4>1, StateFacts
      <3>3. CASE ~ContainsAddress(accessList, a)
        <4> DEFINE cl == addAddress(accessList, a)
                   d == [kind |-> "accessListAddAccount", account |-> a]
        <4>1. known = cl /\ j = append(journal, d, Now)
          BY <3>3 DEF WarmedAddress
        <4>2. /\ Sound(append(journal, d, Now), stateObjects, Warmed(Now, cl), trie, Waiting, ripemdDirty)
              /\ Extends(journal, Now, append(journal, d, Now), Warmed(Now, cl))
              /\ Touched(append(journal, d, Now)) = Touched(journal)
          <5>1. ~ContainsAddress(Now.accessList, a)
            BY <3>3, StateFacts
          <5> QED
            BY <5>1, StateFacts, WarmAddressSound
        <4>3. ContainsAddress(cl, a) /\ SlotsOf(cl, a) = SlotsOf(accessList, a)
          BY <3>3, StateFacts, AddAddress
        <4>4. addSlot(cl, a, k) = bl
          BY <3>3, StateFacts, AddSlotOfNew
        <4> HIDE DEF known, j, cl, d, bl
        <4> QED
          BY <1>3, <3>1, <4>1, <4>2, <4>3, <4>4, StateFacts, SMTT(30)
      <3> QED
        BY <3>2, <3>3
    <2>3. /\ Sound(q, stateObjects, Warmed(Now, bl), trie, Waiting, ripemdDirty)
          /\ Extends(j, n, q, Warmed(Now, bl))
          /\ Touched(q) = Touched(j)
      <3>1. ContainsAddress(n.accessList, a) /\ k \notin SlotsOf(n.accessList, a)
            /\ Warmed(n, addSlot(n.accessList, a, k)) = Warmed(Now, bl)
        BY <2>2
      <3> HIDE DEF n, j
      <3> QED
        BY <2>2, <3>1, StateFacts, WarmSlotSound, SMTT(30)
    <2>4. Extends(journal, Now, q, Warmed(Now, bl))
      <3> HIDE DEF j, q, n, bl
      <3>1. Len(journal.entries) \in Nat /\ Len(j.entries) \in Nat /\ Len(q.entries) \in Nat
        BY <2>2, <2>3, StateFacts, SMTT(30) DEF Sound, Chained
      <3> QED
        BY <2>2, <2>3, <3>1, ExtendsTrans
    <2>5. Warmed(Now, bl).accessList = bl /\ Warmed(Now, bl).preimages = preimages
      BY StateFacts DEF Warmed, Found
    <2>6. Touched(q) = Touched(journal)
      BY <2>2, <2>3
    <2> HIDE DEF q, bl
    <2>7. Turns(Warmed(Now, bl))
      BY <1>1, <2>1, <2>3, <2>4, <2>5, <2>6, TurnsTo
    <2> QED
      BY <1>1, <1>3, <2>7 DEF bl
  <1> QED
    BY <1>2, <1>3

\* Prepare on an empty journal.
LEMMA PrepareStep ==
    ASSUME IInv, Prepare
    PROVE  /\ OtherFrame /\ UNCHANGED <<loadRemote, journal>>
           /\ journal.entries = <<>> /\ validRevisions = <<>>
           /\ Sound(journal', stateObjects', Now', trie', Waiting', ripemdDirty')
           /\ Now' = Warmed(Now, newAccessList) /\ Now'.accounts = Now.accounts
  <1>1. OtherFrame /\ loadRemote' = loadRemote /\ preimages' = preimages
        /\ journal' = journal /\ accessList' = newAccessList
        /\ journal.entries = <<>> /\ validRevisions = <<>>
    BY DEF Prepare, Warm, OtherFrame
  <1> DEFINE n == Warmed(Now, newAccessList)
  <1>2. n \in Found /\ n.accounts = Now.accounts /\ n.accessList = newAccessList
        /\ n.preimages = preimages
    BY StateFacts, NewAccessList, WarmedFields, SMTT(30)
  <1> HIDE DEF n
  <1>3. Sound(journal, stateObjects, n, trie, Waiting, ripemdDirty)
    <2>1. Sound(journal, stateObjects, Now, trie, Waiting, ripemdDirty)
      BY StateFacts
    <2>2. Chained(journal, n)
      <3>1. Chained(journal, Now) /\ Len(journal.entries) = 0
        BY <1>1, <2>1 DEF Sound
      <3> QED
        BY <1>2, <3>1, SMTT(30) DEF Chained
    <2> QED
      BY <1>2, <2>1, <2>2 DEF Sound
  <1>4. stateObjects' = stateObjects /\ trie' = trie /\ Waiting' = Waiting
        /\ ripemdDirty' = ripemdDirty
    BY <1>1 DEF OtherFrame, Waiting
  <1>5. Now' = n
    <2>1. Sound(journal, stateObjects', n, trie', Waiting, ripemdDirty)
      BY <1>3, <1>4
    <2> QED
      BY <1>1, <1>2, <2>1, NowIs
  <1> QED
    BY <1>1, <1>2, <1>3, <1>4, <1>5 DEF n

\* Prepare preserves the invariant: with no entry left, no undo refers to the old access list.
LEMMA PrepareInv ==
    ASSUME IInv, NEW op, Call(op), Prepare
    PROVE  IInv'
  <1>0. phase = "run" /\ UNCHANGED <<phase, target, work>> /\ budget' \in Nat
    BY CallKeeps
  <1>1. /\ OtherFrame /\ UNCHANGED <<loadRemote, journal>>
        /\ journal.entries = <<>> /\ validRevisions = <<>>
        /\ Sound(journal', stateObjects', Now', trie', Waiting', ripemdDirty')
        /\ Now'.accounts = Now.accounts
    BY PrepareStep
  <1>2. TypeOK' /\ Fetching' /\ Sticking'
    BY <1>0, <1>1 DEF IInv, TypeOK, Fetching, Sticking, OtherFrame
  <1>3. RevisionsOK'
    BY <1>0, <1>1 DEF IInv, RevisionsOK, OtherFrame
  <1>4. Scheduled'
    <2>1. DueAt(journal, Now, Len(journal.entries), trie, Exempt)
      BY <1>0 DEF IInv, Scheduled
    <2>2. Exempt' = Exempt /\ trie' = trie /\ validRevisions' = <<>>
      BY <1>1 DEF Exempt, Sticky, OtherFrame
    <2>3. Len(journal.entries) = 0
      BY <1>1, SMTT(30)
    <2>4. DueAt(journal', Now', Len(journal'.entries), trie', Exempt')
      BY <1>1, <2>1, <2>2, <2>3 DEF DueAt, FoundAt
    <2> QED
      BY <1>0, <2>2, <2>4, SMTT(30) DEF Scheduled
  <1> QED
    BY <1>0, <1>1, <1>2, <1>3, <1>4 DEF IInv

\* AddPreimage records the preimage unless it is known.
LEMMA AddPreimageStep ==
    ASSUME IInv, NEW h \in Preimage, AddPreimage(h)
    PROVE  /\ OtherFrame /\ loadRemote' = loadRemote
           /\ IF h \in preimages THEN Turns(Now)
              ELSE Turns(Recorded(Now, preimages \union {h}))
  <1>1. OtherFrame /\ loadRemote' = loadRemote /\ accessList' = accessList
    BY DEF AddPreimage, OtherFrame
  <1>2. CASE h \in preimages
    <2>1. UNCHANGED <<journal, preimages>>
      BY <1>2 DEF AddPreimage
    <2> QED
      BY <1>1, <1>2, <2>1, SameTurn
  <1>3. CASE h \notin preimages
    <2> DEFINE known == preimages \union {h}
               e == [kind |-> "addPreimage", hash |-> h]
    <2>1. preimages' = known /\ journal' = append(journal, e, Now)
      BY <1>3 DEF AddPreimage
    <2>2. /\ Sound(append(journal, e, Now), stateObjects, Recorded(Now, known), trie, Waiting, ripemdDirty)
          /\ Extends(journal, Now, append(journal, e, Now), Recorded(Now, known))
          /\ Touched(append(journal, e, Now)) = Touched(journal)
      BY <1>3, StateFacts, PreimageSound
    <2>3. Recorded(Now, known).accessList = accessList /\ Recorded(Now, known).preimages = known
      BY StateFacts DEF Recorded, Found
    <2> HIDE DEF e, known
    <2>4. Turns(Recorded(Now, known))
      BY <1>1, <2>1, <2>2, <2>3, TurnsTo
    <2> QED
      BY <1>1, <1>3, <2>4 DEF known
  <1> QED
    BY <1>2, <1>3

\* The calls that touch no account preserve the invariant.
LEMMA WarmUpInv ==
    ASSUME IInv, \/ WarmUp
                 \/ \E h \in Preimage : Call("AddPreimage") /\ AddPreimage(h)
                 \/ Call("Disable") /\ DisableLoadingRemoteAccounts
    PROVE  IInv'
  <1>1. work.who \subseteq Address /\ loadRemote \in BOOLEAN
    BY WorkloadAssumption DEF IInv, TypeOK
  <1>2. \A al, known : /\ Warmed(Now, al).accounts = Now.accounts
                       /\ Recorded(Now, known).accounts = Now.accounts
    BY StateFacts DEF Warmed, Recorded, Found
  <1>3. ASSUME NEW a \in work.who, Call("AddAddress"), AddAddressToAccessList(a) PROVE IInv'
    <2>1. /\ OtherFrame /\ loadRemote' = loadRemote
          /\ \/ Turns(Now)
             \/ Turns(Warmed(Now, addAddress(accessList, a)))
      BY <1>1, <1>3, AddAddressStep
    <2> QED
      BY <1>1, <1>2, <1>3, <2>1, OtherInv
  <1>4. ASSUME NEW a \in work.who, NEW k \in Slot, Call("AddSlot"), AddSlotToAccessList(a, k)
        PROVE  IInv'
    <2>1. /\ OtherFrame /\ loadRemote' = loadRemote
          /\ \/ Turns(Now)
             \/ Turns(Warmed(Now, addSlot(accessList, a, k)))
      BY <1>1, <1>4, AddSlotStep
    <2> QED
      BY <1>1, <1>2, <1>4, <2>1, OtherInv
  <1>5. ASSUME NEW h \in Preimage, Call("AddPreimage"), AddPreimage(h) PROVE IInv'
    <2>1. /\ OtherFrame /\ loadRemote' = loadRemote
          /\ \/ Turns(Now)
             \/ Turns(Recorded(Now, preimages \union {h}))
      BY <1>5, AddPreimageStep
    <2> QED
      BY <1>1, <1>2, <1>5, <2>1, OtherInv
  <1>6. CASE Call("Disable") /\ DisableLoadingRemoteAccounts
    <2>1. OtherFrame /\ UNCHANGED <<journal, accessList, preimages>> /\ loadRemote' \in BOOLEAN
      BY <1>6 DEF DisableLoadingRemoteAccounts, OtherFrame
    <2>2. Turns(Now)
      BY <2>1, SameTurn
    <2> QED
      BY <1>6, <2>1, <2>2, OtherInv
  <1>7. CASE Call("Prepare") /\ Prepare
    BY <1>7, PrepareInv
  <1> QED
    BY <1>3, <1>4, <1>5, <1>6, <1>7 DEF WarmUp

\* Snapshot preserves the invariant.
LEMMA SnapshotInv ==
    ASSUME IInv, NEW op, Call(op), Snapshot
    PROVE  IInv'
  <1>0. phase = "run" /\ UNCHANGED <<phase, target, work>> /\ budget' \in Nat
    BY CallKeeps
  <1>1. UNCHANGED <<stateObjects, stateObjectsPending, stateObjectsDirty, trie, journal,
                    accessList, preimages, loadRemote, cached, replaced, ripemdDirty>>
    BY DEF Snapshot
  <1>2. Now' = Now /\ Waiting' = Waiting /\ Exempt' = Exempt
    BY <1>1, NowFields DEF Waiting, Exempt, Sticky
  <1>3. Sound(journal, stateObjects, Now, trie, Waiting, ripemdDirty)'
    BY <1>1, <1>2 DEF IInv
  <1>4. TypeOK'
    BY <1>0, <1>1, SMTT(30) DEF IInv, TypeOK, Snapshot
  <1>5. Fetching' /\ Sticking'
    BY <1>0, <1>1 DEF IInv, Fetching, Sticking
  <1> DEFINE n == Len(validRevisions)
             rev == [id |-> nextRevisionId, journalIndex |-> Len(journal.entries)]
  <1>6. /\ validRevisions' = Append(validRevisions, rev) /\ nextRevisionId' = nextRevisionId + 1
        /\ n \in Nat /\ rev \in [id : Nat, journalIndex : Nat] /\ Len(journal.entries) \in Nat
    BY Revision, StateFacts DEF Snapshot
  <1>7. /\ validRevisions' \in Seq([id : Nat, journalIndex : Nat])
        /\ DOMAIN validRevisions' = 1..(n + 1)
        /\ validRevisions'[n + 1] = rev
        /\ \A j \in DOMAIN validRevisions : validRevisions'[j] = validRevisions[j]
    <2> HIDE DEF rev
    <2> QED
      BY <1>6, Revision, SMTT(30)
  <1>8. \A j \in DOMAIN validRevisions' : j = n + 1 \/ j \in DOMAIN validRevisions
    <2> HIDE DEF rev
    <2> QED
      BY <1>6, <1>7, Revision, SMTT(30)
  <1>9. \A j \in DOMAIN validRevisions : j < n + 1
    BY Revision, SMTT(30)
  <1>10. RevisionsOK /\ \A j \in DOMAIN validRevisions :
                           /\ validRevisions[j].journalIndex <= Len(journal.entries)
                           /\ validRevisions[j].id < nextRevisionId
    BY <1>0 DEF IInv, RevisionsOK
  <1>11. rev.id = nextRevisionId /\ rev.journalIndex = Len(journal.entries)
    OBVIOUS
  <1> HIDE DEF rev, n
  <1>12. RevisionsOK'
    <2>1. \A j \in DOMAIN validRevisions' :
             validRevisions'[j].journalIndex <= Len(journal'.entries)
      BY <1>1, <1>6, <1>7, <1>8, <1>10, <1>11, SMTT(30)
    <2>2. ASSUME NEW i \in DOMAIN validRevisions', NEW j \in DOMAIN validRevisions', i < j
          PROVE  /\ validRevisions'[i].id < validRevisions'[j].id
                 /\ validRevisions'[i].journalIndex <= validRevisions'[j].journalIndex
      <3>1. i \in DOMAIN validRevisions
        BY <1>6, <1>7, <1>8, <2>2, SMTT(30)
      <3>2. CASE j = n + 1
        BY <1>7, <1>10, <1>11, <3>1, <3>2
      <3>3. CASE j \in DOMAIN validRevisions
        BY <1>7, <2>2, <3>1, <3>3 DEF IInv, RevisionsOK
      <3> QED
        BY <1>8, <3>2, <3>3
    <2>3. \A j \in DOMAIN validRevisions' : validRevisions'[j].id < nextRevisionId'
      BY <1>6, <1>7, <1>8, <1>10, <1>11, Revision, SMTT(30)
    <2> QED
      BY <1>0, <1>7, <2>1, <2>2, <2>3 DEF RevisionsOK
  <1>13. Scheduled'
    <2>1. DueAt(journal', Now', Len(journal'.entries), trie', Exempt')
      BY <1>0, <1>1, <1>2 DEF IInv, Scheduled
    <2>2. ASSUME NEW j \in DOMAIN validRevisions'
          PROVE  DueAt(journal', Now', validRevisions'[j].journalIndex, trie', Exempt')
      <3>1. CASE j = n + 1
        BY <1>1, <1>7, <1>11, <2>1, <3>1
      <3>2. CASE j \in DOMAIN validRevisions
        BY <1>0, <1>1, <1>2, <1>7, <3>2 DEF IInv, Scheduled
      <3> QED
        BY <1>8, <3>1, <3>2
    <2> QED
      BY <2>1, <2>2 DEF Scheduled
  <1> QED
    BY <1>0, <1>3, <1>4, <1>5, <1>12, <1>13 DEF IInv

\* A revision that is known is found.
LEMMA RevertToSnapshotStep ==
    ASSUME IInv, NEW j \in DOMAIN validRevisions, RevertToSnapshot(validRevisions[j].id)
    PROVE  /\ phase = "run" /\ phase' = "revert" /\ target' = j /\ budget' \in Nat
           /\ UNCHANGED <<stateObjects, stateObjectsPending, stateObjectsDirty, trie,
                          journal, validRevisions, nextRevisionId, accessList,
                          preimages, loadRemote, cached, replaced, ripemdDirty, work>>
  <1> DEFINE revid == validRevisions[j].id
             after == {m \in DOMAIN validRevisions : validRevisions[m].id >= revid}
             idx == CHOOSE m \in after : \A i \in after : m <= i
  <1>1. j \in after
    BY Revision, SMTT(30)
  <1>2. \A i \in after : j <= i
    <2>1. \A i \in DOMAIN validRevisions : i < j => validRevisions[i].id < validRevisions[j].id
      BY DEF IInv, RevisionsOK
    <2> QED
      BY <2>1, Revision, SMTT(30)
  <1>3. idx \in after /\ \A i \in after : idx <= i
    BY <1>1, <1>2
  <1>4. idx = j
    BY <1>1, <1>2, <1>3, Revision, SMTT(30)
  <1>5. after # {} /\ validRevisions[idx].id = revid
    BY <1>1, <1>4
  <1>6. phase' = "revert" /\ target' = idx
    BY <1>5 DEF RevertToSnapshot
  <1>7. budget \in Nat
    BY DEF IInv, TypeOK
  <1> QED
    BY <1>4, <1>6, <1>7, SMTT(30) DEF RevertToSnapshot

\* RevertToSnapshot finds the revision it is asked for, and enters the loop of journal.revert.
LEMMA RevertToSnapshotInv ==
    ASSUME IInv, NEW j \in DOMAIN validRevisions, RevertToSnapshot(validRevisions[j].id)
    PROVE  IInv'
  <1>1. /\ phase = "run" /\ phase' = "revert" /\ target' = j /\ budget' \in Nat
        /\ UNCHANGED <<stateObjects, stateObjectsPending, stateObjectsDirty, trie,
                       journal, validRevisions, nextRevisionId, accessList,
                       preimages, loadRemote, cached, replaced, ripemdDirty, work>>
    BY RevertToSnapshotStep
  <1>2. Now' = Now /\ Waiting' = Waiting /\ Exempt' = Exempt
    BY <1>1, NowFields DEF Waiting, Exempt, Sticky
  <1>3. Sound(journal, stateObjects, Now, trie, Waiting, ripemdDirty)'
    BY <1>1, <1>2 DEF IInv
  <1>4. TypeOK' /\ Fetching' /\ Sticking'
    BY <1>1 DEF IInv, TypeOK, Fetching, Sticking
  <1>5. RevisionsOK'
    BY <1>1 DEF IInv, RevisionsOK
  <1>6. Scheduled'
    BY <1>1, <1>2 DEF IInv, Scheduled
  <1> QED
    BY <1>1, <1>3, <1>4, <1>5, <1>6 DEF IInv
=============================================================================
