------------------------- MODULE StateCircuitProofs -------------------------
(***************************************************************************)
(* Proofs that every table the state circuit accepts is a memory, for any  *)
(* set of rows, any length and any MPT table.                              *)
(*                                                                         *)
(* The gates only relate a row to the one before it.  What carries them to *)
(* the whole table is that the table is sorted: two rows of one location   *)
(* have only rows of that location between them, in rw counter order.      *)
(***************************************************************************)
EXTENDS StateCircuit, TLAPS

\* The rows are strictly increasing in the sort keys.
Sorted == \A i, j \in DOMAIN rows : i < j => Ordered(rows[i], rows[j])

IndInv ==
    /\ TypeOK
    /\ rows # <<>>
    /\ Sorted
    /\ ReadConsistency
    /\ ValuePrevConsistency
    /\ PushBeforePop
    /\ StackHasNoGap

----------------------------------------------------------------------------
(* The order of the rows *)

\* The sort keys of a row are six numbers.
LEMMA SortKeysType ==
    ASSUME NEW r \in Row
    PROVE  \A i \in 1..6 : SortKeys(r)[i] \in Int
<1>1. /\ SortKeys(r)[1] = r.tag /\ SortKeys(r)[2] = r.id /\ SortKeys(r)[3] = r.address
      /\ SortKeys(r)[4] = r.field_tag /\ SortKeys(r)[5] = r.storage_key
      /\ SortKeys(r)[6] = r.rw_counter
  BY DEF SortKeys
<1>2. /\ r.tag \in Int /\ r.id \in Int /\ r.address \in Int /\ r.field_tag \in Int
      /\ r.storage_key \in Int /\ r.rw_counter \in Int
  BY DEF Row, Start, TxLog
<1> SUFFICES ASSUME NEW i \in 1..6 PROVE SortKeys(r)[i] \in Int
  OBVIOUS
<1>3. i = 1 \/ i = 2 \/ i = 3 \/ i = 4 \/ i = 5 \/ i = 6
  OBVIOUS
<1> QED BY <1>1, <1>2, <1>3

\* The order is transitive.
LEMMA OrderedTransitive ==
    ASSUME NEW a \in Row, NEW b \in Row, NEW c \in Row, Ordered(a, b), Ordered(b, c)
    PROVE  Ordered(a, c)
<1>1. PICK ka, kb, kc : ka = SortKeys(a) /\ kb = SortKeys(b) /\ kc = SortKeys(c)
  OBVIOUS
<1>2. \A i \in 1..6 : ka[i] \in Int /\ kb[i] \in Int /\ kc[i] \in Int
  BY <1>1, SortKeysType
<1>3. PICK i \in 1..6 : ka[i] < kb[i] /\ \A j \in 1..(i - 1) : ka[j] = kb[j]
  BY <1>1 DEF Ordered
<1>4. PICK m \in 1..6 : kb[m] < kc[m] /\ \A j \in 1..(m - 1) : kb[j] = kc[j]
  BY <1>1 DEF Ordered
<1>5. \E n \in 1..6 : ka[n] < kc[n] /\ \A j \in 1..(n - 1) : ka[j] = kc[j]
  <2>1. CASE i < m
    <3>1. ka[i] < kc[i] /\ \A j \in 1..(i - 1) : ka[j] = kc[j]
      BY <1>3, <1>4, <2>1
    <3> QED BY <3>1
  <2>2. CASE m < i
    <3>1. ka[m] < kc[m] /\ \A j \in 1..(m - 1) : ka[j] = kc[j]
      BY <1>3, <1>4, <2>2
    <3> QED BY <3>1
  <2>3. CASE m = i
    <3>1. ka[m] < kc[m] /\ \A j \in 1..(m - 1) : ka[j] = kc[j]
      BY <1>2, <1>3, <1>4, <2>3
    <3> QED BY <3>1
  <2> QED BY <2>1, <2>2, <2>3
<1> QED BY <1>1, <1>5 DEF Ordered

\* A row between two rows that agree on their first keys agrees with them.
LEMMA OrderedBetween ==
    ASSUME NEW a \in Row, NEW b \in Row, NEW c \in Row, Ordered(a, b), Ordered(b, c),
           NEW k \in 1..6, \A i \in 1..k : SortKeys(a)[i] = SortKeys(c)[i]
    PROVE  \A i \in 1..k : SortKeys(b)[i] = SortKeys(c)[i]
<1>1. PICK ka, kb, kc : ka = SortKeys(a) /\ kb = SortKeys(b) /\ kc = SortKeys(c)
  OBVIOUS
<1>2. \A i \in 1..6 : ka[i] \in Int /\ kb[i] \in Int /\ kc[i] \in Int
  BY <1>1, SortKeysType
<1>3. PICK i \in 1..6 : ka[i] < kb[i] /\ \A j \in 1..(i - 1) : ka[j] = kb[j]
  BY <1>1 DEF Ordered
<1>4. PICK m \in 1..6 : kb[m] < kc[m] /\ \A j \in 1..(m - 1) : kb[j] = kc[j]
  BY <1>1 DEF Ordered
<1>5. \A j \in 1..k : ka[j] = kc[j]
  BY <1>1
<1>6. m > k
  <2>1. CASE m <= k /\ i < m
    <3>1. ka[i] < kb[i] /\ kb[i] = kc[i] /\ ka[i] = kc[i]
      BY <1>3, <1>4, <1>5, <2>1
    <3> QED BY <1>2, <3>1
  <2>2. CASE m <= k /\ m < i
    <3>1. ka[m] = kb[m] /\ kb[m] < kc[m] /\ ka[m] = kc[m]
      BY <1>3, <1>4, <1>5, <2>2
    <3> QED BY <1>2, <3>1
  <2>3. CASE m <= k /\ m = i
    <3>1. ka[m] < kb[m] /\ kb[m] < kc[m] /\ ka[m] = kc[m]
      BY <1>3, <1>4, <1>5, <2>3
    <3> QED BY <1>2, <3>1
  <2> QED BY <2>1, <2>2, <2>3
<1> QED BY <1>1, <1>4, <1>6

\* The order of two rows of one location is that of their rw counters.
LEMMA OrderedSame ==
    ASSUME NEW a \in Row, NEW b \in Row, Ordered(a, b), NotFirstAccess(a, b)
    PROVE  a.rw_counter < b.rw_counter
<1>1. PICK ka, kb : ka = SortKeys(a) /\ kb = SortKeys(b)
  OBVIOUS
<1>2. \A i \in 1..6 : ka[i] \in Int /\ kb[i] \in Int
  BY <1>1, SortKeysType
<1>3. PICK i \in 1..6 : ka[i] < kb[i]
  BY <1>1 DEF Ordered
<1>4. \A j \in 1..5 : ka[j] = kb[j]
  BY <1>1 DEF NotFirstAccess
<1>5. i = 6
  BY <1>2, <1>3, <1>4
<1>6. ka[6] = a.rw_counter /\ kb[6] = b.rw_counter
  BY <1>1 DEF SortKeys
<1> QED BY <1>3, <1>5, <1>6

\* Two rows have the same location when the five fields of it agree.
LEMMA Location ==
    ASSUME NEW a \in Row, NEW b \in Row
    PROVE  NotFirstAccess(a, b) <=>
               /\ a.tag = b.tag /\ a.id = b.id /\ a.address = b.address
               /\ a.field_tag = b.field_tag /\ a.storage_key = b.storage_key
<1>1. \A r : /\ SortKeys(r)[1] = r.tag /\ SortKeys(r)[2] = r.id
             /\ SortKeys(r)[3] = r.address /\ SortKeys(r)[4] = r.field_tag
             /\ SortKeys(r)[5] = r.storage_key
  BY DEF SortKeys
<1>2. \A i \in 1..5 : i = 1 \/ i = 2 \/ i = 3 \/ i = 4 \/ i = 5
  OBVIOUS
<1> QED BY <1>1, <1>2 DEF NotFirstAccess

----------------------------------------------------------------------------
(* A new row *)

\* What a new row r, at position n + 1, is to the rows there are.
LEMMA NewRow ==
    ASSUME IndInv, NEW r \in Rows, AddRow(r), NEW n, n = Len(rows)
    PROVE  /\ n \in Nat \ {0} /\ DOMAIN rows = 1..n /\ \A i \in 1..n : rows[i] \in Row
           /\ r \in Row /\ DOMAIN rows' = 1..(n + 1)
           /\ \A i \in 1..n : rows'[i] = rows[i]
           /\ rows'[n + 1] = r
           /\ RowConstraints(rows[n], r)
           /\ \A i \in 1..n : Ordered(rows[i], r)
<1>1. rows \in Seq(Row) /\ rows # <<>> /\ r \in Row
  BY RowsAssumption DEF IndInv, TypeOK
<1>2. rows' = Append(rows, r) /\ RowConstraints(rows[n], r)
  BY DEF AddRow
<1>3. n \in Nat \ {0} /\ DOMAIN rows = 1..n /\ \A i \in 1..n : rows[i] \in Row
  BY <1>1
<1>4. DOMAIN rows' = 1..(n + 1) /\ (\A i \in 1..n : rows'[i] = rows[i]) /\ rows'[n + 1] = r
  BY <1>1, <1>2, <1>3
<1>5. Ordered(rows[n], r)
  BY <1>2 DEF RowConstraints
<1>6. ASSUME NEW i \in 1..n PROVE Ordered(rows[i], r)
  <2>1. CASE i = n
    BY <1>5, <2>1
  <2>2. CASE i # n
    <3>1. Ordered(rows[i], rows[n])
      BY <1>3, <2>2 DEF IndInv, Sorted
    <3> QED BY <1>1, <1>3, <1>5, <3>1, OrderedTransitive
  <2> QED BY <2>1, <2>2
<1> QED BY <1>1, <1>2, <1>3, <1>4, <1>6

\* When the new row has a location that is in the table, the last row has it too.
LEMMA NewRowLocation ==
    ASSUME IndInv, NEW r \in Rows, AddRow(r), NEW n, n = Len(rows),
           NEW i \in 1..n, NotFirstAccess(rows[i], r)
    PROVE  NotFirstAccess(rows[n], r)
<1>1. /\ n \in Nat \ {0} /\ DOMAIN rows = 1..n /\ r \in Row
      /\ rows[i] \in Row /\ rows[n] \in Row /\ Ordered(rows[n], r)
  BY NewRow
<1>2. CASE i = n
  BY <1>2
<1>3. CASE i # n
  <2>1. Ordered(rows[i], rows[n])
    BY <1>1, <1>3 DEF IndInv, Sorted
  <2>2. \A k \in 1..5 : SortKeys(rows[i])[k] = SortKeys(r)[k]
    BY DEF NotFirstAccess
  <2>3. \A k \in 1..5 : SortKeys(rows[n])[k] = SortKeys(r)[k]
    BY <1>1, <2>1, <2>2, OrderedBetween, 5 \in 1..6
  <2> QED BY <2>3 DEF NotFirstAccess
<1> QED BY <1>2, <1>3

\* The writes before an old row stay what they were; the ones before the new row are
\* the old ones of its location.
LEMMA NewRowWrites ==
    ASSUME IndInv, NEW r \in Rows, AddRow(r), NEW n, n = Len(rows)
    PROVE  /\ \A i \in 1..n : WritesBefore(i)' = WritesBefore(i)
           /\ WritesBefore(n + 1)' =
                  {m \in 1..n : NotFirstAccess(rows[m], r) /\ rows[m].is_write}
<1>1. /\ n \in Nat \ {0} /\ DOMAIN rows = 1..n /\ \A i \in 1..n : rows[i] \in Row
      /\ r \in Row /\ DOMAIN rows' = 1..(n + 1)
      /\ \A i \in 1..n : rows'[i] = rows[i]
      /\ rows'[n + 1] = r
      /\ \A i \in 1..n : Ordered(rows[i], r)
  BY NewRow
<1>2. \A a \in Row : a.rw_counter \in Int
  BY DEF Row
<1>3. \A i \in 1..n : NotFirstAccess(rows[i], r) => rows[i].rw_counter < r.rw_counter
  BY <1>1, OrderedSame
<1>4. \A i \in 1..n : NotFirstAccess(r, rows[i]) => rows[i].rw_counter < r.rw_counter
  BY <1>1, <1>3 DEF NotFirstAccess
<1>5. ASSUME NEW i \in 1..n PROVE WritesBefore(i)' = WritesBefore(i)
  <2>1. WritesBefore(i)' = {m \in 1..(n + 1) : /\ NotFirstAccess(rows'[m], rows'[i])
                                               /\ rows'[m].is_write
                                               /\ rows'[m].rw_counter < rows'[i].rw_counter}
    BY <1>1 DEF WritesBefore, SameLocation, NotFirstAccess
  <2>2. WritesBefore(i) = {m \in 1..n : /\ NotFirstAccess(rows[m], rows[i])
                                        /\ rows[m].is_write
                                        /\ rows[m].rw_counter < rows[i].rw_counter}
    BY <1>1 DEF WritesBefore, SameLocation
  <2>3. ~(NotFirstAccess(r, rows[i]) /\ r.rw_counter < rows[i].rw_counter)
    BY <1>1, <1>2, <1>4
  <2>4. \A m \in 1..(n + 1) : m \in 1..n \/ m = n + 1
    BY <1>1
  <2>5. \A m \in 1..n : m \in 1..(n + 1)
    BY <1>1
  <2> QED BY <1>1, <2>1, <2>2, <2>3, <2>4, <2>5
<1>6. WritesBefore(n + 1)' = {m \in 1..n : NotFirstAccess(rows[m], r) /\ rows[m].is_write}
  <2>1. WritesBefore(n + 1)' = {m \in 1..(n + 1) : /\ NotFirstAccess(rows'[m], r)
                                                   /\ rows'[m].is_write
                                                   /\ rows'[m].rw_counter < r.rw_counter}
    BY <1>1 DEF WritesBefore, SameLocation, NotFirstAccess
  <2>2. ~(r.rw_counter < r.rw_counter)
    BY <1>1, <1>2
  <2>3. \A m \in 1..(n + 1) : m \in 1..n \/ m = n + 1
    BY <1>1
  <2>4. \A m \in 1..n : m \in 1..(n + 1)
    BY <1>1
  <2> QED BY <1>1, <1>3, <2>1, <2>2, <2>3, <2>4
<1> QED BY <1>5, <1>6

\* A new row keeps the table a memory.
LEMMA AddRowReads ==
    ASSUME IndInv, NEW r \in Rows, AddRow(r)
    PROVE  ReadConsistency'
<1>0. PICK n : n = Len(rows)
  BY ZenonT(30)
<1>1. /\ n \in Nat \ {0} /\ DOMAIN rows = 1..n /\ \A i \in 1..n : rows[i] \in Row
      /\ r \in Row /\ DOMAIN rows' = 1..(n + 1)
      /\ \A i \in 1..n : rows'[i] = rows[i]
      /\ rows'[n + 1] = r
      /\ RowConstraints(rows[n], r)
  BY <1>0, NewRow
<1>2. /\ \A i \in 1..n : WritesBefore(i)' = WritesBefore(i)
      /\ WritesBefore(n + 1)' = {m \in 1..n : NotFirstAccess(rows[m], r) /\ rows[m].is_write}
  BY <1>0, NewRowWrites
<1> DEFINE Reads(w, v, a) ==
             \/ \E j \in w : /\ v = rows'[j].value
                             /\ \A m \in w : rows'[m].rw_counter <= rows'[j].rw_counter
             \/ /\ w = {} /\ v = a.initial_value
                /\ a.tag \in {Storage, Account, TxReceipt} \/ v = 0
<1>3. ASSUME NEW i \in 1..n, ~rows[i].is_write
      PROVE  Reads(WritesBefore(i), rows[i].value, rows[i])
  <2>1. WritesBefore(i) \subseteq 1..n
    BY <1>1 DEF WritesBefore
  <2>2. \/ \E j \in WritesBefore(i) :
               /\ rows[i].value = rows[j].value
               /\ \A m \in WritesBefore(i) : rows[m].rw_counter <= rows[j].rw_counter
        \/ /\ WritesBefore(i) = {}
           /\ rows[i].value = rows[i].initial_value
           /\ rows[i].tag \in {Storage, Account, TxReceipt} \/ rows[i].value = 0
    BY <1>1, <1>3 DEF IndInv, ReadConsistency
  <2> QED BY <1>1, <2>1, <2>2
<1>4. ASSUME ~r.is_write
      PROVE  Reads(WritesBefore(n + 1)', r.value, r)
  <2> DEFINE W == {m \in 1..n : NotFirstAccess(rows[m], r) /\ rows[m].is_write}
  <2>1. CASE ~NotFirstAccess(rows[n], r)
    <3>1. W = {}
      BY <1>0, <2>1, NewRowLocation
    <3>2. r.value = r.initial_value
      BY <1>1, <1>4, <2>1 DEF RowConstraints, GeneralConstraints
    <3>3. r.tag \in {Storage, Account, TxReceipt} \/ r.initial_value = 0
      <4>1. r.tag \in 1..11
        BY <1>1 DEF Row, Start, TxLog
      <4>2. r.tag \in {1, 2, 3, 5, 6, 7, 9, 11} => r.initial_value = 0
        BY <1>1 DEF RowConstraints, StartConstraints, MemoryConstraints, StackConstraints,
              AccessListAccountConstraints, AccessListStorageConstraints, RefundConstraints,
              CallContextConstraints, TxLogConstraints, Start, Memory, Stack, Storage,
              TxAccessListAccount, TxAccessListAccountStorage, TxRefund, Account,
              CallContext, TxLog
      <4> QED BY <4>1, <4>2 DEF Storage, Account, TxReceipt
    <3> QED BY <1>2, <3>1, <3>2, <3>3
  <2>2. CASE NotFirstAccess(rows[n], r)
    <3>1. r.value = rows[n].value /\ r.initial_value = rows[n].initial_value
      BY <1>1, <1>4, <2>2 DEF RowConstraints, GeneralConstraints
    <3>2. r.tag = rows[n].tag
      BY <1>1, <2>2, Location
    <3>3. \A m \in 1..n : NotFirstAccess(rows[m], r) <=> NotFirstAccess(rows[m], rows[n])
      BY <2>2 DEF NotFirstAccess
    <3>4. \A m \in 1..n : m # n /\ NotFirstAccess(rows[m], rows[n]) =>
                              rows[m].rw_counter < rows[n].rw_counter
      <4>1. \A m \in 1..n : m # n => Ordered(rows[m], rows[n])
        BY <1>1 DEF IndInv, Sorted
      <4> QED BY <1>1, <4>1, OrderedSame
    <3>5. CASE rows[n].is_write
      <4>1. n \in W
        BY <1>1, <2>2, <3>5
      <4>2. \A m \in W : rows[m].rw_counter <= rows[n].rw_counter
        <5>1. \A a \in Row : a.rw_counter \in Int
          BY DEF Row
        <5> QED BY <1>1, <3>3, <3>4, <5>1
      <4>3. \A m \in W : rows'[m] = rows[m]
        BY <1>1
      <4> HIDE DEF W
      <4>4. WritesBefore(n + 1)' = W
        BY <1>2 DEF W
      <4> QED BY <3>1, <4>1, <4>2, <4>3, <4>4
    <3>6. CASE ~rows[n].is_write
      <4>1. WritesBefore(n) = W
        <5>1. WritesBefore(n) = {m \in 1..n : /\ NotFirstAccess(rows[m], rows[n])
                                              /\ rows[m].is_write
                                              /\ rows[m].rw_counter < rows[n].rw_counter}
          BY <1>1 DEF WritesBefore, SameLocation
        <5> QED BY <3>3, <3>4, <3>6, <5>1
      <4>2. Reads(WritesBefore(n), rows[n].value, rows[n])
        BY <1>1, <1>3, <3>6
      <4> HIDE DEF W
      <4>3. WritesBefore(n + 1)' = W
        BY <1>2 DEF W
      <4> QED BY <3>1, <3>2, <4>1, <4>2, <4>3
    <3> QED BY <3>5, <3>6
  <2> QED BY <2>1, <2>2
<1>5. \A i \in 1..(n + 1) : i \in 1..n \/ i = n + 1
  BY <1>1
<1>6. ASSUME NEW i \in 1..(n + 1), ~rows'[i].is_write
      PROVE  Reads(WritesBefore(i)', rows'[i].value, rows'[i])
  <2>1. CASE i \in 1..n
    BY <1>1, <1>2, <1>3, <1>6, <2>1
  <2>2. CASE i = n + 1
    BY <1>1, <1>4, <1>6, <2>2
  <2> QED BY <1>5, <2>1, <2>2
<1> QED BY <1>1, <1>6 DEF ReadConsistency

\* A new row keeps value_prev the value before.
LEMMA AddRowValuePrev ==
    ASSUME IndInv, NEW r \in Rows, AddRow(r)
    PROVE  ValuePrevConsistency'
<1>0. PICK n : n = Len(rows)
  BY ZenonT(30)
<1>1. /\ n \in Nat \ {0} /\ DOMAIN rows = 1..n /\ \A i \in 1..n : rows[i] \in Row
      /\ r \in Row /\ DOMAIN rows' = 1..(n + 1)
      /\ \A i \in 1..n : rows'[i] = rows[i]
      /\ rows'[n + 1] = r
      /\ RowConstraints(rows[n], r)
      /\ \A i \in 1..n : Ordered(rows[i], r)
  BY <1>0, NewRow
<1> DEFINE Earlier(i) == {m \in 1..n : /\ NotFirstAccess(rows[m], rows[i])
                                       /\ rows[m].rw_counter < rows[i].rw_counter}
           EarlierNew(i) == {m \in 1..(n + 1) : /\ NotFirstAccess(rows'[m], rows'[i])
                                                /\ rows'[m].rw_counter < rows'[i].rw_counter}
           Prev(w, a) == \/ \E j \in w :
                                /\ a.value_prev = rows'[j].value
                                /\ \A m \in w : rows'[m].rw_counter <= rows'[j].rw_counter
                         \/ w = {} /\ a.value_prev = a.initial_value
<1>2. \A a \in Row : a.rw_counter \in Int
  BY DEF Row
<1>3. \A m \in 1..n : NotFirstAccess(rows[m], r) => rows[m].rw_counter < r.rw_counter
  BY <1>1, OrderedSame
<1>4. \A m \in 1..(n + 1) : m \in 1..n \/ m = n + 1
  BY <1>1
<1>5. \A m \in 1..n : m \in 1..(n + 1)
  BY <1>1
<1>6. ASSUME NEW i \in 1..n, rows[i].tag \in Storage..Account
      PROVE  Prev(EarlierNew(i), rows'[i])
  <2>1. ~(NotFirstAccess(r, rows[i]) /\ r.rw_counter < rows[i].rw_counter)
    <3>1. NotFirstAccess(r, rows[i]) => NotFirstAccess(rows[i], r)
      BY DEF NotFirstAccess
    <3>2. r.rw_counter \in Int /\ rows[i].rw_counter \in Int
      BY <1>1, <1>2
    <3> QED BY <1>3, <3>1, <3>2
  <2>2. EarlierNew(i) = Earlier(i)
    BY <1>1, <1>4, <1>5, <2>1
  <2>3. \/ \E j \in Earlier(i) :
               /\ rows[i].value_prev = rows[j].value
               /\ \A m \in Earlier(i) : rows[m].rw_counter <= rows[j].rw_counter
        \/ Earlier(i) = {} /\ rows[i].value_prev = rows[i].initial_value
    BY <1>1, <1>6 DEF IndInv, ValuePrevConsistency, SameLocation
  <2>4. \A m \in Earlier(i) : rows'[m] = rows[m]
    BY <1>1
  <2>5. rows'[i] = rows[i]
    BY <1>1
  <2> HIDE DEF Earlier, EarlierNew
  <2> QED BY <2>2, <2>3, <2>4, <2>5
<1>7. ASSUME r.tag \in Storage..Account
      PROVE  Prev(EarlierNew(n + 1), r)
  <2>1. EarlierNew(n + 1) = {m \in 1..n : NotFirstAccess(rows[m], r)}
    BY <1>1, <1>2, <1>3, <1>4, <1>5
  <2>2. CASE ~NotFirstAccess(rows[n], r)
    <3>1. EarlierNew(n + 1) = {}
      BY <1>0, <2>1, <2>2, NewRowLocation
    <3>2. r.value_prev = r.initial_value
      BY <1>1, <2>2 DEF RowConstraints, GeneralConstraints
    <3> QED BY <3>1, <3>2
  <2>3. CASE NotFirstAccess(rows[n], r)
    <3>1. r.value_prev = rows[n].value
      <4>1. r.tag = 4 \/ r.tag = 5 \/ r.tag = 6 \/ r.tag = 7 \/ r.tag = 8
        BY <1>1, <1>7 DEF Storage, Account, Row, Start, TxLog
      <4>2. ValuePrev(rows[n], r)
        BY <1>1, <4>1 DEF RowConstraints, StorageConstraints, AccessListAccountConstraints,
              AccessListStorageConstraints, RefundConstraints, AccountConstraints, Storage,
              TxAccessListAccount, TxAccessListAccountStorage, TxRefund, Account
      <4> QED BY <2>3, <4>2 DEF ValuePrev
    <3>2. n \in EarlierNew(n + 1) /\ rows'[n] = rows[n]
      BY <1>1, <2>1, <2>3
    <3>3. \A m \in EarlierNew(n + 1) : rows'[m].rw_counter <= rows'[n].rw_counter
      <4>1. ASSUME NEW m \in 1..n, NotFirstAccess(rows[m], r), m # n
            PROVE  rows[m].rw_counter <= rows[n].rw_counter
        <5>1. Ordered(rows[m], rows[n])
          BY <1>1, <4>1 DEF IndInv, Sorted
        <5>2. NotFirstAccess(rows[m], rows[n])
          BY <2>3, <4>1 DEF NotFirstAccess
        <5>3. rows[m].rw_counter < rows[n].rw_counter
          BY <1>1, <5>1, <5>2, OrderedSame
        <5> QED BY <1>1, <1>2, <5>3
      <4> QED BY <1>1, <1>2, <2>1, <4>1
    <3> HIDE DEF EarlierNew
    <3> QED BY <3>1, <3>2, <3>3
  <2> QED BY <2>2, <2>3
<1>8. ASSUME NEW i \in 1..(n + 1), rows'[i].tag \in Storage..Account
      PROVE  Prev(EarlierNew(i), rows'[i])
  BY <1>1, <1>4, <1>6, <1>7, <1>8
<1> QED BY <1>1, <1>8 DEF ValuePrevConsistency, SameLocation, NotFirstAccess, SortKeys

\* A new row keeps pops after pushes.
LEMMA AddRowPush ==
    ASSUME IndInv, NEW r \in Rows, AddRow(r)
    PROVE  PushBeforePop'
<1>0. PICK n : n = Len(rows)
  BY ZenonT(30)
<1>1. /\ n \in Nat \ {0} /\ DOMAIN rows = 1..n /\ \A i \in 1..n : rows[i] \in Row
      /\ r \in Row /\ DOMAIN rows' = 1..(n + 1)
      /\ \A i \in 1..n : rows'[i] = rows[i]
      /\ rows'[n + 1] = r
      /\ RowConstraints(rows[n], r)
  BY <1>0, NewRow
<1>2. /\ \A i \in 1..n : WritesBefore(i)' = WritesBefore(i)
      /\ WritesBefore(n + 1)' = {m \in 1..n : NotFirstAccess(rows[m], r) /\ rows[m].is_write}
  BY <1>0, NewRowWrites
<1>3. ASSUME r.tag = Stack, ~r.is_write
      PROVE  \E m \in 1..n : NotFirstAccess(rows[m], r) /\ rows[m].is_write
  <2>1. NotFirstAccess(rows[n], r)
    BY <1>1, <1>3 DEF RowConstraints, StackConstraints
  <2>2. CASE rows[n].is_write
    BY <1>1, <2>1, <2>2
  <2>3. CASE ~rows[n].is_write
    <3>1. rows[n].tag = Stack
      BY <1>1, <1>3, <2>1, Location
    <3>2. PICK m \in WritesBefore(n) : TRUE
      BY <1>1, <2>3, <3>1 DEF IndInv, PushBeforePop
    <3>3. m \in 1..n /\ NotFirstAccess(rows[m], rows[n]) /\ rows[m].is_write
      BY <1>1, <3>2 DEF WritesBefore, SameLocation
    <3> QED BY <2>1, <3>3 DEF NotFirstAccess
  <2> QED BY <2>2, <2>3
<1>4. \A i \in 1..(n + 1) : i \in 1..n \/ i = n + 1
  BY <1>1
<1>5. ASSUME NEW i \in 1..(n + 1), rows'[i].tag = Stack, ~rows'[i].is_write
      PROVE  WritesBefore(i)' # {}
  <2>1. CASE i \in 1..n
    <3>1. WritesBefore(i) # {}
      BY <1>1, <1>5, <2>1 DEF IndInv, PushBeforePop
    <3> QED BY <1>2, <2>1, <3>1
  <2>2. CASE i = n + 1
    <3>1. r.tag = Stack /\ ~r.is_write
      BY <1>1, <1>5, <2>2
    <3> QED BY <1>2, <1>3, <2>2, <3>1
  <2> QED BY <1>4, <2>1, <2>2
<1> QED BY <1>1, <1>5 DEF PushBeforePop, Stack

\* A new row leaves no gap in a stack.
LEMMA AddRowNoGap ==
    ASSUME IndInv, NEW r \in Rows, AddRow(r)
    PROVE  StackHasNoGap'
<1>0. PICK n : n = Len(rows)
  BY ZenonT(30)
<1>1. /\ n \in Nat \ {0} /\ DOMAIN rows = 1..n /\ \A i \in 1..n : rows[i] \in Row
      /\ r \in Row /\ DOMAIN rows' = 1..(n + 1)
      /\ \A i \in 1..n : rows'[i] = rows[i]
      /\ rows'[n + 1] = r
      /\ RowConstraints(rows[n], r)
      /\ \A i \in 1..n : Ordered(rows[i], r)
  BY <1>0, NewRow
<1> DEFINE On(m, c, a) == rows'[m].tag = Stack /\ rows'[m].id = c /\ rows'[m].address = a
<1>2. \A a \in Row : a.address \in Int
  BY DEF Row
<1>3. ASSUME NEW i \in 1..n, NEW j \in 1..n, rows[i].tag = Stack, rows[j].tag = Stack,
             rows[i].id = rows[j].id, NEW a \in rows[i].address..rows[j].address
      PROVE  \E m \in 1..n : On(m, rows[i].id, a)
  <2>1. PICK m \in 1..n : rows[m].tag = Stack /\ rows[m].id = rows[i].id /\ rows[m].address = a
    BY <1>1, <1>3 DEF IndInv, StackHasNoGap
  <2> QED BY <1>1, <2>1
<1>4. ASSUME NEW i \in 1..n, rows[i].tag = Stack, r.tag = Stack, rows[i].id = r.id
      PROVE  /\ rows[n].tag = Stack /\ rows[n].id = r.id
             /\ r.address - rows[n].address \in {0, 1}
             /\ rows[i].address <= r.address
  <2>1. rows[n].tag = Stack /\ rows[n].id = r.id
    <3>1. \A x \in Row : SortKeys(x)[1] = x.tag /\ SortKeys(x)[2] = x.id
      BY DEF SortKeys
    <3>2. CASE i = n
      BY <1>4, <3>2
    <3>3. CASE i # n
      <4>1. Ordered(rows[i], rows[n]) /\ Ordered(rows[n], r)
        BY <1>1, <3>3 DEF IndInv, Sorted
      <4>2. \A k \in 1..2 : k = 1 \/ k = 2
        OBVIOUS
      <4>3. \A k \in 1..2 : SortKeys(rows[i])[k] = SortKeys(r)[k]
        BY <1>1, <1>4, <3>1, <4>2
      <4>4. \A k \in 1..2 : SortKeys(rows[n])[k] = SortKeys(r)[k]
        BY <1>1, <4>1, <4>3, OrderedBetween, 2 \in 1..6
      <4>5. 1 \in 1..2 /\ 2 \in 1..2
        OBVIOUS
      <4> QED BY <1>1, <1>4, <3>1, <4>4, <4>5
    <3> QED BY <3>2, <3>3
  <2>2. r.address - rows[n].address \in {0, 1}
    BY <1>1, <1>4, <2>1 DEF RowConstraints, StackConstraints
  <2>3. rows[i].address <= r.address
    <3>1. PICK k \in 1..6 : /\ SortKeys(rows[i])[k] < SortKeys(r)[k]
                            /\ \A l \in 1..(k - 1) : SortKeys(rows[i])[l] = SortKeys(r)[l]
      BY <1>1 DEF Ordered
    <3>2. \A x \in Row : /\ SortKeys(x)[1] = x.tag /\ SortKeys(x)[2] = x.id
                         /\ SortKeys(x)[3] = x.address
      BY DEF SortKeys
    <3>3. k # 1 /\ k # 2
      <4>1. SortKeys(rows[i])[1] = SortKeys(r)[1] /\ SortKeys(rows[i])[2] = SortKeys(r)[2]
        BY <1>1, <1>4, <3>2
      <4> QED BY <1>1, <3>1, <4>1, SortKeysType
    <3>4. CASE k = 3
      BY <1>1, <1>2, <3>1, <3>2, <3>4
    <3>5. CASE k > 3
      <4>1. SortKeys(rows[i])[3] = SortKeys(r)[3]
        BY <3>1, <3>5
      <4> QED BY <1>1, <1>2, <3>2, <4>1
    <3> QED BY <3>3, <3>4, <3>5
  <2> QED BY <2>1, <2>2, <2>3
<1>5. ASSUME NEW i \in 1..n, rows[i].tag = Stack, r.tag = Stack, rows[i].id = r.id,
             NEW a \in rows[i].address..r.address
      PROVE  \E m \in 1..(n + 1) : On(m, r.id, a)
  <2>1. CASE a = r.address
    <3>1. n + 1 \in 1..(n + 1)
      BY <1>1
    <3> QED BY <1>1, <1>5, <2>1, <3>1
  <2>2. CASE a # r.address
    <3>1. rows[n].tag = Stack /\ rows[n].id = r.id /\ r.address - rows[n].address \in {0, 1}
      BY <1>4, <1>5
    <3>2. a \in rows[i].address..rows[n].address
      BY <1>1, <1>2, <1>5, <2>2, <3>1
    <3>3. PICK m \in 1..n : On(m, rows[i].id, a)
      BY <1>1, <1>3, <1>5, <3>1, <3>2
    <3>4. m \in 1..(n + 1)
      BY <1>1
    <3> QED BY <1>5, <3>3, <3>4
  <2> QED BY <2>1, <2>2
<1>6. ASSUME NEW i \in 1..n, rows[i].tag = Stack, r.tag = Stack, rows[i].id = r.id,
             NEW a \in r.address..rows[i].address
      PROVE  \E m \in 1..(n + 1) : On(m, r.id, a)
  <2>1. a = r.address
    BY <1>1, <1>2, <1>4, <1>6
  <2>2. n + 1 \in 1..(n + 1)
    BY <1>1
  <2> QED BY <1>1, <1>6, <2>1, <2>2
<1>7. \A i \in 1..(n + 1) : i \in 1..n \/ i = n + 1
  BY <1>1
<1>8. ASSUME NEW i \in 1..(n + 1), NEW j \in 1..(n + 1), rows'[i].tag = Stack,
             rows'[j].tag = Stack, rows'[i].id = rows'[j].id,
             NEW a \in rows'[i].address..rows'[j].address
      PROVE  \E m \in 1..(n + 1) : On(m, rows'[i].id, a)
  <2>1. CASE i \in 1..n /\ j \in 1..n
    <3>1. PICK m \in 1..n : On(m, rows[i].id, a)
      BY <1>1, <1>3, <1>8, <2>1
    <3>2. m \in 1..(n + 1)
      BY <1>1
    <3> QED BY <1>1, <2>1, <3>1, <3>2
  <2>2. CASE i \in 1..n /\ j = n + 1
    BY <1>1, <1>5, <1>8, <2>2
  <2>3. CASE i = n + 1 /\ j \in 1..n
    BY <1>1, <1>6, <1>8, <2>3
  <2>4. CASE i = n + 1 /\ j = n + 1
    <3>1. a = r.address
      BY <1>1, <1>2, <1>8, <2>4
    <3> QED BY <1>1, <1>8, <2>4, <3>1
  <2> QED BY <1>7, <2>1, <2>2, <2>3, <2>4
<1>9. SUFFICES ASSUME NEW i \in 1..(n + 1), NEW j \in 1..(n + 1), rows'[i].tag = Stack,
                      rows'[j].tag = Stack, rows'[i].id = rows'[j].id,
                      NEW a \in rows'[i].address..rows'[j].address
               PROVE  \E m \in 1..(n + 1) :
                         rows'[m].tag = Stack /\ rows'[m].id = rows'[i].id
                         /\ rows'[m].address = a
  BY <1>1 DEF StackHasNoGap, Stack
<1> QED BY <1>8, <1>9

----------------------------------------------------------------------------
(* The theorems *)

\* The table with only its first row satisfies the inductive invariant.
LEMMA InitIndInv == Init => IndInv
<1> SUFFICES ASSUME Init PROVE IndInv
  OBVIOUS
<1>1. PICK s \in Nat : rows = <<FirstRow(s)>>
  BY RowsAssumption DEF Init, Row
<1>2. FirstRow(s) \in Row
  BY DEF FirstRow, Row, Start, TxLog
<1>3. /\ rows \in Seq(Row) /\ rows # <<>> /\ DOMAIN rows = {1} /\ rows[1] = FirstRow(s)
      /\ accepted = FALSE
  BY <1>1, <1>2 DEF Init
<1>4. rows[1].tag = Start /\ rows[1].value = 0 /\ rows[1].initial_value = 0
  BY <1>3 DEF FirstRow
<1>5. rows[1].rw_counter = 1
  BY <1>3 DEF FirstRow
<1>6. WritesBefore(1) = {}
  BY <1>3, <1>5 DEF WritesBefore
<1>7. TypeOK /\ Sorted
  <2>1. \A i, j \in {1} : ~(i < j)
    OBVIOUS
  <2>2. Sorted
    BY <1>3, <2>1 DEF Sorted
  <2> QED BY <1>3, <2>2, ZenonT(30) DEF TypeOK
<1>8. ReadConsistency
  BY <1>3, <1>4, <1>6 DEF ReadConsistency
<1>9. ValuePrevConsistency /\ PushBeforePop /\ StackHasNoGap
  BY <1>3, <1>4 DEF ValuePrevConsistency, PushBeforePop, StackHasNoGap, Start, Stack,
        Storage, Account
<1> QED BY <1>3, <1>7, <1>8, <1>9 DEF IndInv

\* A row that passes the ordering gates keeps the table sorted.
LEMMA AddRowSorted ==
    ASSUME IndInv, NEW r \in Rows, AddRow(r)
    PROVE  TypeOK' /\ rows' # <<>> /\ Sorted'
<1>0. PICK n : n = Len(rows)
  BY ZenonT(30)
<1>1. /\ n \in Nat \ {0} /\ DOMAIN rows = 1..n
      /\ r \in Row /\ DOMAIN rows' = 1..(n + 1)
      /\ \A i \in 1..n : rows'[i] = rows[i]
      /\ rows'[n + 1] = r
      /\ \A i \in 1..n : Ordered(rows[i], r)
  BY <1>0, NewRow
<1>2. TypeOK'
  BY <1>1 DEF IndInv, TypeOK, AddRow
<1>3. rows' # <<>>
  BY <1>1
<1>4. ASSUME NEW i \in 1..(n + 1), NEW j \in 1..(n + 1), i < j
      PROVE  Ordered(rows'[i], rows'[j])
  <2>1. i \in 1..n
    BY <1>1, <1>4
  <2>2. CASE j \in 1..n
    BY <1>1, <1>4, <2>1, <2>2 DEF IndInv, Sorted
  <2>3. CASE j = n + 1
    BY <1>1, <2>1, <2>3
  <2> QED BY <1>1, <2>2, <2>3
<1> QED BY <1>1, <1>2, <1>3, <1>4 DEF Sorted, Ordered, SortKeys

\* The conjunction of the properties and of Sorted is inductive.
LEMMA NextIndInv == IndInv /\ [Next]_vars => IndInv'
<1> SUFFICES ASSUME IndInv, [Next]_vars PROVE IndInv'
  OBVIOUS
<1>1. ASSUME NEW r \in Rows, AddRow(r) PROVE IndInv'
  BY <1>1, AddRowSorted, AddRowReads, AddRowValuePrev, AddRowPush, AddRowNoGap DEF IndInv
<1>2. ASSUME rows' = rows, accepted' \in BOOLEAN PROVE IndInv'
  BY <1>2 DEF IndInv, TypeOK, Sorted, ReadConsistency, ValuePrevConsistency, PushBeforePop,
        StackHasNoGap, WritesBefore, SameLocation
<1>3. CASE Finish
  BY <1>2, <1>3 DEF Finish
<1>4. CASE UNCHANGED vars
  BY <1>2, <1>4 DEF vars, IndInv, TypeOK
<1> QED BY <1>1, <1>3, <1>4 DEF Next, Done

\* Every table the gates accept, complete or not, is sorted and a memory.
THEOREM Invariance == Spec => []IndInv
BY InitIndInv, NextIndInv, PTL DEF Spec

\* build_general_constraints makes the rw table a memory: a read returns the last
\* value written to its location before its rw counter, or the initial value.
THEOREM ReadConsistencyHolds == Spec => []ReadConsistency
<1>1. IndInv => ReadConsistency
  BY DEF IndInv
<1> QED BY <1>1, Invariance, PTL

\* value_prev of a location that can be reverted is the value it had before.
THEOREM ValuePrevConsistencyHolds == Spec => []ValuePrevConsistency
<1>1. IndInv => ValuePrevConsistency
  BY DEF IndInv
<1> QED BY <1>1, Invariance, PTL

\* build_stack_constraints: no stack slot is read before it is written, so nothing is
\* popped that was not pushed.
THEOREM PushBeforePopHolds == Spec => []PushBeforePop
<1>1. IndInv => PushBeforePop
  BY DEF IndInv
<1> QED BY <1>1, Invariance, PTL

\* build_stack_constraints: the stack pointer moves by at most one between the rows of a
\* call, so the slots of a call leave no gap.
THEOREM StackHasNoGapHolds == Spec => []StackHasNoGap
<1>1. IndInv => StackHasNoGap
  BY DEF IndInv
<1> QED BY <1>1, Invariance, PTL
=============================================================================
