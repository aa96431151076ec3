---------------------- MODULE TransactionContextProofs ----------------------
(***************************************************************************)
(* Proofs about TransactionContext, for every set of keys and values and   *)
(* every bound: its type invariant, the reversion lookup of the EVM        *)
(* circuit, that nothing is reverted twice, and that the expectations of   *)
(* the code on the group stack hold.  They rest on the inductive invariant *)
(* IndInv, which every step preserves: first the steps that open calls and *)
(* push operations, then those that end calls and revert operations.  The  *)
(* theorems and the refinement of Journal follow.                          *)
(***************************************************************************)
EXTENDS TransactionContext, TLAPS

USE ZenonT(30), SMTT(30)

CallAt(j) == txcalls[calls[j].index]

KeyOf(m, i) == container[groups[m][i]].key

(* The call stack: its calls are known, each was entered after those below *)
(* it, and the group of a call is its caller's, or the next one when the   *)
(* call will fail.                                                         *)
StackInv ==
    /\ (pc = "done") <=> (calls = <<>>)
    /\ calls = <<>> => groups = <<>>
    /\ pc = "revert" => ~CallAt(Len(calls)).is_success
    /\ pc = "begin" => Len(calls) = 1 /\ \A m \in DOMAIN groups : groups[m] = <<>>
    /\ \A j \in DOMAIN calls : calls[j].index \in DOMAIN txcalls
    /\ \A i, j \in DOMAIN calls : i < j => calls[i].index < calls[j].index
    /\ \A j \in DOMAIN calls : CallAt(j).is_persistent <=> CallAt(j).group = 0
    /\ \A j \in DOMAIN calls : j + 1 \in DOMAIN calls =>
          CallAt(j + 1).group = IF CallAt(j + 1).is_success THEN CallAt(j).group
                                ELSE CallAt(j).group + 1
    /\ calls # <<>> =>
          /\ CallAt(1).group = IF CallAt(1).is_success THEN 0 ELSE 1
          /\ CallAt(Len(calls)).group = Len(groups)

(* The group of a failing call is above the groups of the calls below it.  *)
NestInv ==
    \A i, j \in DOMAIN calls :
        i < j /\ ~CallAt(j).is_success => CallAt(i).group < CallAt(j).group

(* A call listed in a group is not persistent and not settled. *)
CallInv ==
    \A c \in DOMAIN txcalls :
        /\ txcalls[c].group <= Len(groups)
        /\ txcalls[c].offset <= Len(container)
        /\ txcalls[c].group # 0 => /\ ~txcalls[c].is_persistent
                                   /\ txcalls[c].rw_counter_end_of_reversion = 0

(* Offsets and counters: offset + reversible_write_counter of a call is    *)
(* where the next call of its group starts, or the length of the group     *)
(* when the call is the last of its group on the stack.                    *)
OffsetInv ==
    /\ \A j \in DOMAIN calls : ~CallAt(j).is_success => CallAt(j).offset = 0
    /\ \A j \in DOMAIN calls : j + 1 \in DOMAIN calls /\ CallAt(j).group # 0 =>
          CallAt(j).offset + calls[j].reversible_write_counter
            = IF CallAt(j + 1).is_success THEN CallAt(j + 1).offset
              ELSE Len(groups[CallAt(j).group])
    /\ calls # <<>> /\ pc # "revert" /\ groups # <<>> =>
          CallAt(Len(calls)).offset + Last(calls).reversible_write_counter
            = Len(Last(groups))

(* The i-th operation of a group is its call's (i - offset)-th. *)
GroupAt(m, i) ==
    LET p == groups[m][i] op == container[p] IN
    /\ p \in DOMAIN container
    /\ i <= p
    /\ op.reversible
    /\ op.call \in DOMAIN txcalls
    /\ txcalls[op.call].group = m
    /\ txcalls[op.call].offset + op.nth + 1 = i

GroupInv ==
    \A m \in DOMAIN groups : \A i \in DOMAIN groups[m] : GroupAt(m, i)

(* A reversible operation of a call that is not persistent is in its       *)
(* group, or has been undone by the reversion under way, or by one that    *)
(* has ended.                                                              *)
OpAccounted(p) ==
    LET c == txcalls[container[p].call]
        slot == c.offset + container[p].nth + 1
    IN ~c.is_persistent =>
          IF c.group = 0
          THEN Reverses(c.rw_counter_end_of_reversion - container[p].nth, p)
          ELSE IF slot <= Len(groups[c.group])
          THEN groups[c.group][slot] = p
          ELSE /\ pc = "revert"
               /\ c.group = Len(groups)
               /\ Reverses(Len(container) + Len(groups[c.group]) + 1 - slot, p)

OpInv ==
    \A p \in DOMAIN container : container[p].reversible =>
        container[p].call \in DOMAIN txcalls /\ OpAccounted(p)

UndoInv ==
    /\ \A q \in DOMAIN container : container[q].undoes \in 0..Len(container)
    /\ RevertedOnce

(* The snapshot of a failing call, read off its group: the value before    *)
(* the first operation of the group on a key, and for a key the group does *)
(* not touch the snapshot of the next group, or the current state.         *)
SnapAt(j, k) ==
    LET m == CallAt(j).group IN
    /\ \A i \in DOMAIN groups[m] :
          /\ KeyOf(m, i) = k
          /\ \A h \in DOMAIN groups[m] : h < i => KeyOf(m, h) # k
          => calls[j].snap[k] = container[groups[m][i]].value_prev
    /\ (\A i \in DOMAIN groups[m] : KeyOf(m, i) # k) =>
          /\ m = Len(groups) => calls[j].snap[k] = sdb[k]
          /\ \A h \in DOMAIN calls :
                ~CallAt(h).is_success /\ CallAt(h).group = m + 1
                => calls[j].snap[k] = calls[h].snap[k]

SnapInv ==
    \A j \in DOMAIN calls : ~CallAt(j).is_success => \A k \in Keys : SnapAt(j, k)

\* The inductive invariant of the transaction context: groups, offsets, counters,
\* rw positions and snapshots agree after every push, call and return.
IndInv ==
    /\ TypeOK
    /\ StackInv
    /\ NestInv
    /\ CallInv
    /\ OffsetInv
    /\ GroupInv
    /\ OpInv
    /\ UndoInv
    /\ SnapInv

----------------------------------------------------------------------------
(* Facts about sequences *)

\* Front drops the last element and keeps the others.
LEMMA FrontFacts ==
    ASSUME NEW S, NEW s \in Seq(S), s # <<>>
    PROVE  /\ Front(s) \in Seq(S)
           /\ Len(Front(s)) = Len(s) - 1
           /\ Len(s) \in Nat \ {0}
           /\ \A i \in 1..(Len(s) - 1) : Front(s)[i] = s[i]
<1>1. Len(s) \in Nat \ {0} /\ \A i \in 1..Len(s) : s[i] \in S
  BY SMTT(30)
<1> DEFINE n == Len(s) - 1
           f == SubSeq(s, 1, n)
<1>2. /\ n \in Int /\ 1 \in Int
      /\ \A i \in 1..n : s[i] \in S
  BY <1>1, SMTT(30)
<1>3. Front(s) = f
  BY DEF Front
<1> HIDE DEF n
<1>4. /\ f \in Seq(S)
      /\ Len(f) = IF 1 <= n THEN n - 1 + 1 ELSE 0
      /\ \A i \in 1..(n - 1 + 1) : f[i] = s[1 + i - 1]
  BY <1>2, SMTT(30)
<1> HIDE DEF f
<1>5. n = Len(s) - 1 /\ Len(s) \in Nat /\ n \in Nat
  BY <1>1, SMTT(30) DEF n
<1>6. Len(f) = n
  BY <1>4, <1>5, SMTT(30)
<1>7. \A i \in 1..n : f[i] = s[i]
  BY <1>4, <1>5, SMTT(30)
<1> QED BY <1>1, <1>3, <1>4, <1>5, <1>6, <1>7

\* Replacing an element of a sequence.
LEMMA ExceptFacts ==
    ASSUME NEW S, NEW s \in Seq(S), NEW n \in 1..Len(s), NEW x \in S
    PROVE  /\ [s EXCEPT ![n] = x] \in Seq(S)
           /\ Len([s EXCEPT ![n] = x]) = Len(s)
           /\ [s EXCEPT ![n] = x][n] = x
           /\ \A i \in 1..Len(s) : i # n => [s EXCEPT ![n] = x][i] = s[i]
BY SMTT(30)

\* Appending an element to a sequence.
LEMMA AppendFacts ==
    ASSUME NEW S, NEW s \in Seq(S), NEW x \in S
    PROVE  /\ Append(s, x) \in Seq(S)
           /\ Len(Append(s, x)) = Len(s) + 1
           /\ Append(s, x)[Len(s) + 1] = x
           /\ \A i \in 1..Len(s) : Append(s, x)[i] = s[i]
BY SMTT(30)

\* A non-empty sequence has a last element, of its type.
LEMMA LastFacts ==
    ASSUME NEW S, NEW s \in Seq(S), s # <<>>
    PROVE  Len(s) \in 1..Len(s) /\ Last(s) \in S /\ Last(s) = s[Len(s)]
BY SMTT(30) DEF Last

\* Length, domain and elements of a sequence.
LEMMA SeqFacts ==
    ASSUME NEW S, NEW s \in Seq(S)
    PROVE  /\ Len(s) \in Nat
           /\ DOMAIN s = 1..Len(s)
           /\ \A i \in 1..Len(s) : s[i] \in S
           /\ s = <<>> <=> Len(s) = 0
BY SMTT(30)

----------------------------------------------------------------------------
(* The inductive invariant *)

\* Transaction::new and TransactionContext::new establish the invariant.
LEMMA InitIndInv == Init => IndInv
<1> SUFFICES ASSUME Init PROVE IndInv
  OBVIOUS
<1>1. PICK ok \in BOOLEAN, s \in State :
        /\ pc = "begin"
        /\ txcalls = <<NewCall(ok, ok, IF ok THEN 0 ELSE 1, 0)>>
        /\ groups = IF ok THEN <<>> ELSE << <<>> >>
        /\ calls = <<[index |-> 1, reversible_write_counter |-> 0, snap |-> s]>>
        /\ container = <<>>
        /\ sdb = s
  BY DEF Init
<1> DEFINE c == NewCall(ok, ok, IF ok THEN 0 ELSE 1, 0)
<1>2. /\ c \in Call /\ c.is_success = ok /\ c.is_persistent = ok
      /\ c.group = (IF ok THEN 0 ELSE 1) /\ c.offset = 0
      /\ c.rw_counter_end_of_reversion = 0
  BY DEF NewCall, Call
<1> HIDE DEF c
<1>3. /\ Len(calls) = 1 /\ DOMAIN calls = {1} /\ calls[1].index = 1
      /\ calls[1].reversible_write_counter = 0 /\ calls[1].snap = s
      /\ calls # <<>> /\ Last(calls) = calls[1]
  BY <1>1, SMTT(30) DEF Last
<1>4. Len(txcalls) = 1 /\ DOMAIN txcalls = {1} /\ txcalls[1] = c
  BY <1>1, SMTT(30) DEF c
<1>5. CallAt(1) = c
  BY <1>3, <1>4 DEF CallAt
<1>6. /\ Len(groups) = IF ok THEN 0 ELSE 1
      /\ DOMAIN groups = IF ok THEN {} ELSE {1}
      /\ ~ok => groups[1] = <<>> /\ Last(groups) = <<>>
      /\ groups = <<>> <=> ok
      /\ groups \in Seq(Seq(Nat))
  <2>1. CASE ok
    BY <1>1, <2>1, SMTT(30)
  <2>2. CASE ~ok
    BY <1>1, <2>2, SMTT(30) DEF Last
  <2> QED BY <2>1, <2>2
<1>7. DOMAIN container = {} /\ Len(container) = 0
  BY <1>1, SMTT(30)
<1>8. TypeOK
  BY <1>1, <1>2, <1>6, SMTT(30) DEF TypeOK, CallContext, c
<1>9. StackInv /\ NestInv
  BY <1>1, <1>2, <1>3, <1>4, <1>5, <1>6, SMTT(30) DEF StackInv, NestInv
<1>10. CallInv
  BY <1>2, <1>4, <1>6, <1>7, SMTT(30) DEF CallInv
<1>11. OffsetInv
  BY <1>2, <1>3, <1>5, <1>6, SMTT(30) DEF OffsetInv
<1>12. GroupInv
  BY <1>6, SMTT(30) DEF GroupInv
<1>13. OpInv /\ UndoInv
  BY <1>7 DEF OpInv, UndoInv, RevertedOnce
<1>14. SnapInv
  BY <1>1, <1>2, <1>3, <1>5, <1>6, SMTT(30) DEF SnapInv, SnapAt
<1> QED BY <1>8, <1>9, <1>10, <1>11, <1>12, <1>13, <1>14 DEF IndInv

\* What every step needs of the type invariant.
LEMMA Typing ==
    ASSUME TypeOK
    PROVE  /\ Len(calls) \in Nat /\ DOMAIN calls = 1..Len(calls)
           /\ \A j \in 1..Len(calls) : calls[j] \in CallContext
           /\ calls = <<>> <=> Len(calls) = 0
           /\ Len(txcalls) \in Nat /\ DOMAIN txcalls = 1..Len(txcalls)
           /\ \A c \in 1..Len(txcalls) : txcalls[c] \in Call
           /\ Len(groups) \in Nat /\ DOMAIN groups = 1..Len(groups)
           /\ groups = <<>> <=> Len(groups) = 0
           /\ \A m \in 1..Len(groups) :
                  /\ groups[m] \in Seq(Nat) /\ Len(groups[m]) \in Nat
                  /\ DOMAIN groups[m] = 1..Len(groups[m])
                  /\ \A i \in 1..Len(groups[m]) : groups[m][i] \in Nat
                  /\ groups[m] = <<>> <=> Len(groups[m]) = 0
           /\ Len(container) \in Nat /\ DOMAIN container = 1..Len(container)
           /\ \A p \in 1..Len(container) : container[p] \in Operation
           /\ Last(calls) = calls[Len(calls)] /\ Last(groups) = groups[Len(groups)]
BY SeqFacts DEF TypeOK, Last

\* A failing call on the stack has a group of its own.
LEMMA FailingGroup ==
    ASSUME TypeOK, StackInv, CallInv, NEW j \in DOMAIN calls, ~CallAt(j).is_success
    PROVE  CallAt(j).group \in DOMAIN groups
<1>1. CallAt(j) \in Call /\ CallAt(j).group <= Len(groups)
  BY Typing DEF StackInv, CallInv, CallAt
<1>2. CallAt(j).group # 0
  <2>1. CASE j = 1
    BY <2>1, Typing, SMTT(30) DEF StackInv
  <2>2. CASE j # 1
    <3>1. j - 1 \in DOMAIN calls /\ (j - 1) + 1 = j
      BY <2>2, Typing, SMTT(30)
    <3>2. CallAt(j).group = CallAt(j - 1).group + 1
      BY <3>1 DEF StackInv
    <3>3. CallAt(j - 1).group \in Nat
      BY <3>1, Typing, ZenonT(30) DEF StackInv, CallAt, Call
    <3> QED BY <3>2, <3>3, SMTT(30)
  <2> QED BY <2>1, <2>2
<1> QED BY <1>1, <1>2, Typing, SMTT(30) DEF Call

\* A read (push_op) leaves the bookkeeping alone.
LEMMA PushReadIndInv ==
    ASSUME IndInv, NEW k \in Keys, PushRead(k)
    PROVE  IndInv'
<1> DEFINE op == [key |-> k, value |-> sdb[k], value_prev |-> sdb[k],
                  reversible |-> FALSE, call |-> Last(calls).index, nth |-> 0,
                  undoes |-> 0]
           n == Len(container)
<1>0. /\ TypeOK /\ StackInv /\ NestInv /\ CallInv /\ OffsetInv /\ GroupInv /\ OpInv
      /\ UndoInv /\ SnapInv
  BY DEF IndInv
<1>1. Running /\ UNCHANGED <<pc, calls, txcalls, groups, sdb>>
      /\ container' = Append(container, op)
  BY DEF PushRead
<1>2. Last(calls) \in CallContext
  BY <1>0, <1>1, LastFacts DEF Running, TypeOK
<1>3. op \in Operation /\ op.reversible = FALSE /\ op.undoes = 0
  BY <1>0, <1>1, <1>2 DEF Operation, TypeOK, State, CallContext
<1> HIDE DEF op
<1>4. /\ container' \in Seq(Operation) /\ Len(container') = n + 1
      /\ container'[n + 1] = op /\ \A p \in 1..n : container'[p] = container[p]
      /\ n \in Nat /\ DOMAIN container' = 1..(n + 1) /\ DOMAIN container = 1..n
  BY <1>0, <1>1, <1>3, AppendFacts, SeqFacts, SMTT(30) DEF TypeOK
<1> HIDE DEF n
<1>5. TypeOK'
  BY <1>0, <1>1, <1>4 DEF TypeOK
<1>6. StackInv' /\ NestInv' /\ OffsetInv'
  BY <1>0, <1>1 DEF StackInv, NestInv, OffsetInv, CallAt
<1>7. CallInv'
  BY <1>0, <1>1, <1>4, Typing, SMTT(30) DEF CallInv, Call, n
<1>8. GroupInv'
  BY <1>0, <1>1, <1>4, SMTT(30) DEF GroupInv, GroupAt
<1>9. OpInv'
  <2>1. SUFFICES ASSUME NEW p \in 1..n, container[p].reversible
                 PROVE  (container[p].call \in DOMAIN txcalls /\ OpAccounted(p))'
    BY <1>3, <1>4, SMTT(30) DEF OpInv
  <2>2. container[p].call \in DOMAIN txcalls /\ OpAccounted(p)
    BY <1>0, <1>4, <2>1 DEF OpInv
  <2>3. \A q : Reverses(q, p) => Reverses(q, p)'
    BY <1>4, SMTT(30) DEF Reverses
  <2> QED BY <1>1, <1>4, <2>2, <2>3, ZenonT(30) DEF OpAccounted, Running
<1>10. UndoInv'
  BY <1>0, <1>1, <1>3, <1>4, SMTT(30) DEF UndoInv, RevertedOnce, n
<1>11. SnapInv'
  <2>1. SUFFICES ASSUME NEW j \in DOMAIN calls, ~CallAt(j).is_success, NEW kk \in Keys
                 PROVE  SnapAt(j, kk)'
    BY <1>1 DEF SnapInv, CallAt
  <2>2. SnapAt(j, kk)
    BY <1>0, <2>1 DEF SnapInv
  <2>3. CallAt(j).group \in DOMAIN groups
    BY <1>0, <2>1, FailingGroup
  <2>4. \A i \in DOMAIN groups[CallAt(j).group] :
            groups[CallAt(j).group][i] \in 1..n
    BY <1>0, <1>4, <2>3 DEF GroupInv, GroupAt
  <2>5. CallAt(j)' = CallAt(j) /\ \A h : CallAt(h)' = CallAt(h)
    BY <1>1 DEF CallAt
  <2> QED BY <1>1, <1>4, <2>2, <2>4, <2>5, SMTT(30) DEF SnapAt, KeyOf
<1> QED BY <1>5, <1>6, <1>7, <1>8, <1>9, <1>10, <1>11 DEF IndInv
\* A write of BeginTx (push_op) happens while every group is empty.
LEMMA PushWriteIndInv ==
    ASSUME IndInv, NEW k \in Keys, NEW v \in Vals, PushWrite(k, v)
    PROVE  IndInv'
<1> DEFINE op == [key |-> k, value |-> v, value_prev |-> sdb[k],
                  reversible |-> FALSE, call |-> Last(calls).index, nth |-> 0,
                  undoes |-> 0]
           n == Len(container)
<1>0. /\ TypeOK /\ StackInv /\ NestInv /\ CallInv /\ OffsetInv /\ GroupInv /\ OpInv
      /\ UndoInv /\ SnapInv
  BY DEF IndInv
<1>1. /\ pc = "begin" /\ UNCHANGED <<pc, txcalls, groups>>
      /\ container' = Append(container, op)
      /\ sdb' = [sdb EXCEPT ![k] = v]
      /\ calls' = [j \in DOMAIN calls |-> [calls[j] EXCEPT !.snap[k] = v]]
  BY DEF PushWrite
<1>2. /\ Len(calls) = 1 /\ DOMAIN calls = {1} /\ calls[1] \in CallContext
      /\ Last(calls) = calls[1] /\ calls # <<>>
      /\ \A m \in DOMAIN groups : groups[m] = <<>>
  <2>1. pc = "begin"
    BY <1>1
  <2>2. Len(calls) = 1 /\ \A m \in DOMAIN groups : groups[m] = <<>>
    BY <1>0, <2>1 DEF StackInv
  <2>3. DOMAIN calls = {1} /\ calls[1] \in CallContext /\ calls # <<>>
    BY <1>0, <2>2, Typing, SMTT(30)
  <2> QED BY <2>2, <2>3 DEF Last
<1>3. op \in Operation /\ op.reversible = FALSE /\ op.undoes = 0
  BY <1>0, <1>2 DEF Operation, TypeOK, State, CallContext
<1> HIDE DEF op
<1>4. /\ container' \in Seq(Operation) /\ Len(container') = n + 1
      /\ container'[n + 1] = op /\ \A p \in 1..n : container'[p] = container[p]
      /\ n \in Nat /\ DOMAIN container' = 1..(n + 1) /\ DOMAIN container = 1..n
  BY <1>0, <1>1, <1>3, AppendFacts, SeqFacts, SMTT(30) DEF TypeOK
<1> HIDE DEF n
<1>5. /\ calls'[1] = [calls[1] EXCEPT !.snap = [@ EXCEPT ![k] = v]]
      /\ calls'[1] \in CallContext
      /\ calls'[1].index = calls[1].index
      /\ calls'[1].reversible_write_counter = calls[1].reversible_write_counter
      /\ calls'[1].snap = [calls[1].snap EXCEPT ![k] = v]
  BY <1>1, <1>2, ZenonT(30) DEF CallContext, State
<1>6. calls' \in Seq(CallContext) /\ Len(calls') = 1 /\ DOMAIN calls' = {1}
  <2>1. calls' \in [1..1 -> CallContext]
    BY <1>1, <1>2, <1>5, SMTT(30)
  <2> QED BY <2>1, SeqFacts, SMTT(30)
<1>7. Last(calls') = calls'[1] /\ calls' # <<>>
  BY <1>6, SeqFacts, SMTT(30) DEF Last
<1>8. sdb \in State /\ sdb' \in State
  BY <1>0, <1>1 DEF TypeOK, State
<1>9. TypeOK'
  BY <1>0, <1>1, <1>4, <1>6, <1>8 DEF TypeOK
<1>10. CallAt(1)' = CallAt(1)
  BY <1>1, <1>5 DEF CallAt
<1>11. StackInv'
  <2>1. pc' = pc /\ pc = "begin" /\ groups' = groups /\ txcalls' = txcalls
    BY <1>1
  <2>2. /\ CallAt(1).is_persistent <=> CallAt(1).group = 0
        /\ CallAt(1).group = IF CallAt(1).is_success THEN 0 ELSE 1
        /\ CallAt(1).group = Len(groups)
        /\ calls[1].index \in DOMAIN txcalls
    BY <1>0, <1>2 DEF StackInv
  <2>3. 2 \notin {1}
    BY SMTT(30)
  <2>4. calls'[1].index = calls[1].index /\ DOMAIN calls' = {1} /\ Len(calls') = 1
    BY <1>5, <1>6
  <2> QED BY <1>2, <1>7, <2>1, <2>2, <2>3, <2>4, SMTT(30) DEF StackInv, CallAt
<1>12. OffsetInv'
  <2>1. pc' = pc /\ groups' = groups /\ txcalls' = txcalls
    BY <1>1
  <2>2. /\ ~CallAt(1).is_success => CallAt(1).offset = 0
        /\ pc # "revert" /\ groups # <<>> =>
             CallAt(1).offset + calls[1].reversible_write_counter = Len(Last(groups))
    BY <1>0, <1>2 DEF OffsetInv
  <2>3. /\ calls'[1].index = calls[1].index /\ DOMAIN calls' = {1} /\ Len(calls') = 1
        /\ calls'[1].reversible_write_counter = calls[1].reversible_write_counter
        /\ 2 \notin {1}
    BY <1>5, <1>6, SMTT(30)
  <2> QED BY <1>7, <2>1, <2>2, <2>3, SMTT(30) DEF OffsetInv, CallAt, Last
<1>13. CallInv'
  BY <1>0, <1>1, <1>4, Typing, SMTT(30) DEF CallInv, Call, n
<1>14. GroupInv'
  BY <1>0, <1>1, <1>4, SMTT(30) DEF GroupInv, GroupAt
<1>15. OpInv'
  <2>1. SUFFICES ASSUME NEW p \in 1..n, container[p].reversible
                 PROVE  (container[p].call \in DOMAIN txcalls /\ OpAccounted(p))'
    BY <1>3, <1>4, SMTT(30) DEF OpInv
  <2>2. container[p].call \in DOMAIN txcalls /\ OpAccounted(p)
    BY <1>0, <1>4, <2>1 DEF OpInv
  <2>3. \A q : Reverses(q, p) => Reverses(q, p)'
    BY <1>4, SMTT(30) DEF Reverses
  <2> QED BY <1>1, <1>4, <2>2, <2>3 DEF OpAccounted
<1>16. UndoInv'
  BY <1>0, <1>1, <1>3, <1>4, SMTT(30) DEF UndoInv, RevertedOnce, n
<1>17. SnapInv'
  <2>1. SUFFICES ASSUME ~CallAt(1).is_success, NEW kk \in Keys
                 PROVE  SnapAt(1, kk)'
    BY <1>6, <1>10 DEF SnapInv
  <2>2. SnapAt(1, kk)
    BY <1>0, <1>2, <2>1 DEF SnapInv
  <2>3. CallAt(1).group \in DOMAIN groups
    BY <1>0, <1>2, <2>1, FailingGroup
  <2>4. DOMAIN groups[CallAt(1).group] = {}
    BY <1>2, <2>3, SMTT(30)
  <2>5. CallAt(1).group # CallAt(1).group + 1
    BY <1>0, <2>3, Typing, SMTT(30)
  <2>6. CallAt(1).group = Len(groups)
    BY <1>0, <1>2 DEF StackInv
  <2>7. calls[1].snap[kk] = sdb[kk]
    BY <2>2, <2>4, <2>6 DEF SnapAt
  <2>8. calls'[1].snap[kk] = sdb'[kk]
    BY <1>1, <1>2, <1>5, <1>8, <2>7 DEF CallContext, State
  <2> QED BY <1>1, <1>6, <1>10, <2>4, <2>5, <2>8 DEF SnapAt
<1>18. NestInv'
  BY <1>6, SMTT(30) DEF NestInv
<1> QED BY <1>18, <1>9, <1>11, <1>12, <1>13, <1>14, <1>15, <1>16, <1>17 DEF IndInv
\* A reversible write (push_op_reversible) of the current call takes the next place
\* of the last group, if there is one.
LEMMA PushOpReversibleIndInv ==
    ASSUME IndInv, NEW k \in Keys, NEW v \in Vals, PushOpReversible(k, v)
    PROVE  IndInv'
<1>n. PICK n, d, g : n = Len(container) /\ d = Len(calls) /\ g = Len(groups)
  BY ZenonT(30)
<1> DEFINE op == [key |-> k, value |-> v, value_prev |-> sdb[k], reversible |-> TRUE,
                  call |-> calls[d].index,
                  nth |-> calls[d].reversible_write_counter, undoes |-> 0]
           ctx == [calls[d] EXCEPT !.reversible_write_counter = @ + 1]
<1>0. /\ TypeOK /\ StackInv /\ NestInv /\ CallInv /\ OffsetInv /\ GroupInv /\ OpInv
      /\ UndoInv /\ SnapInv
  BY DEF IndInv
<1>1. /\ Last(calls) = calls[d]
      /\ CurrentCall = CallAt(d)
  BY <1>n DEF CurrentCall, CallAt, Last
<1>2. /\ pc \in {"begin", "run"} /\ pc' = "run" /\ calls # <<>> /\ UNCHANGED txcalls
      /\ container' = Append(container, op)
      /\ sdb' = [sdb EXCEPT ![k] = v]
      /\ calls' = [calls EXCEPT ![d] = ctx]
      /\ groups' = IF CallAt(d).is_persistent THEN groups
                   ELSE [groups EXCEPT ![g] = Append(groups[g], n + 1)]
  BY <1>n, <1>1 DEF PushOpReversible, Running
<1>3. /\ d \in Nat /\ d \in 1..d /\ DOMAIN calls = 1..d /\ calls[d] \in CallContext
      /\ n \in Nat /\ DOMAIN container = 1..n
      /\ g \in Nat /\ DOMAIN groups = 1..g
      /\ sdb \in State /\ Last(groups) = groups[g]
  BY <1>n, <1>0, <1>2, Typing, SMTT(30) DEF TypeOK
<1>4. /\ op \in Operation /\ op.reversible = TRUE /\ op.undoes = 0 /\ op.key = k
      /\ op.call = calls[d].index /\ op.nth = calls[d].reversible_write_counter
      /\ op.value_prev = sdb[k]
  BY <1>3 DEF Operation, State, CallContext
<1>5. /\ ctx \in CallContext /\ ctx.index = calls[d].index /\ ctx.snap = calls[d].snap
      /\ ctx.reversible_write_counter = calls[d].reversible_write_counter + 1
      /\ calls[d].reversible_write_counter \in Nat
  BY <1>3, SMTT(30) DEF CallContext
<1> HIDE DEF op, ctx
<1>6. /\ container' \in Seq(Operation) /\ Len(container') = n + 1
      /\ container'[n + 1] = op /\ \A p \in 1..n : container'[p] = container[p]
      /\ DOMAIN container' = 1..(n + 1)
  BY <1>n, <1>0, <1>2, <1>4, AppendFacts, SeqFacts, SMTT(30) DEF TypeOK
<1>7. /\ calls' \in Seq(CallContext) /\ Len(calls') = d /\ DOMAIN calls' = 1..d
      /\ calls' # <<>>
      /\ calls'[d] = ctx /\ \A j \in 1..d : j # d => calls'[j] = calls[j]
  <2>1. calls \in Seq(CallContext) /\ d \in 1..Len(calls)
    BY <1>n, <1>0, <1>3 DEF TypeOK
  <2>2. /\ calls' \in Seq(CallContext) /\ Len(calls') = Len(calls)
        /\ calls'[d] = ctx /\ \A j \in 1..Len(calls) : j # d => calls'[j] = calls[j]
    BY <1>2, <1>5, <2>1, ExceptFacts, SMTT(30)
  <2>3. Len(calls') = d /\ d # 0
    <3>1. Len(calls') = d
      BY <1>n, <2>2
    <3>2. d \in Nat /\ d \in 1..d
      BY <1>3
    <3> QED BY <3>1, <3>2, SMTT(30)
  <2>4. DOMAIN calls' = 1..d /\ calls' # <<>>
    BY <2>2, <2>3, SeqFacts
  <2> QED BY <2>2, <2>3, <2>4
<1>8. \A j \in 1..d : /\ calls'[j].index = calls[j].index
                      /\ calls'[j].snap = calls[j].snap
                      /\ CallAt(j)' = CallAt(j)
                      /\ CallAt(j) = txcalls[calls[j].index]
                      /\ CallAt(j) \in Call
  BY <1>0, <1>2, <1>3, <1>5, <1>7, Typing, ZenonT(30) DEF CallAt, StackInv
<1>9. CallAt(d).is_persistent => groups' = groups /\ g = 0 /\ groups = <<>>
  BY <1>n, <1>0, <1>2, <1>3, Typing DEF StackInv
<1>10. ~CallAt(d).is_persistent =>
          /\ g \in 1..g /\ groups[g] \in Seq(Nat) /\ Len(groups[g]) \in Nat
          /\ groups' \in Seq(Seq(Nat)) /\ Len(groups') = g /\ DOMAIN groups' = 1..g
          /\ groups'[g] = Append(groups[g], n + 1)
          /\ DOMAIN groups'[g] = 1..(Len(groups[g]) + 1)
          /\ Len(groups'[g]) = Len(groups[g]) + 1
          /\ groups'[g][Len(groups[g]) + 1] = n + 1
          /\ \A i \in 1..Len(groups[g]) : groups'[g][i] = groups[g][i]
          /\ \A m \in 1..g : m # g => groups'[m] = groups[m]
  <2>1. SUFFICES ASSUME ~CallAt(d).is_persistent PROVE <1>10!2
    OBVIOUS
  <2>2. CallAt(d).group = g /\ g # 0
    BY <1>n, <1>0, <1>2, <1>3, <2>1 DEF StackInv
  <2>3. g \in 1..g /\ groups[g] \in Seq(Nat) /\ Len(groups[g]) \in Nat
    BY <1>0, <1>3, <2>2, Typing, SMTT(30)
  <2> DEFINE a == Append(groups[g], n + 1)
  <2>4. /\ a \in Seq(Nat) /\ Len(a) = Len(groups[g]) + 1
        /\ a[Len(groups[g]) + 1] = n + 1
        /\ \A i \in 1..Len(groups[g]) : a[i] = groups[g][i]
        /\ DOMAIN a = 1..(Len(groups[g]) + 1)
    BY <1>3, <2>3, AppendFacts, SeqFacts, SMTT(30)
  <2> HIDE DEF a
  <2>5. groups' = [groups EXCEPT ![g] = a]
    BY <1>2, <2>1 DEF a
  <2>6. /\ groups' \in Seq(Seq(Nat)) /\ Len(groups') = g /\ DOMAIN groups' = 1..g
        /\ groups'[g] = a /\ \A m \in 1..g : m # g => groups'[m] = groups[m]
    BY <1>n, <1>0, <2>3, <2>4, <2>5, ExceptFacts, SeqFacts, SMTT(30) DEF TypeOK
  <2> QED BY <2>3, <2>4, <2>6 DEF a
<1>11. /\ groups' \in Seq(Seq(Nat)) /\ Len(groups') = g /\ DOMAIN groups' = 1..g
       /\ groups' = <<>> <=> groups = <<>>
  <2>1. CASE CallAt(d).is_persistent
    BY <1>0, <1>3, <1>9, <2>1, <1>n DEF TypeOK
  <2>2. CASE ~CallAt(d).is_persistent
    BY <1>0, <1>3, <1>10, <2>2, SeqFacts, <1>n, ZenonT(30) DEF TypeOK
  <2> QED BY <2>1, <2>2
<1>21. txcalls' = txcalls /\ pc' = "run" /\ pc # "revert"
  BY <1>2
<1>22. \A m \in 1..g : \A i \in DOMAIN groups[m] :
          i \in DOMAIN groups'[m] /\ groups'[m][i] = groups[m][i]
  <2>1. SUFFICES ASSUME NEW m \in 1..g, NEW i \in DOMAIN groups[m]
                 PROVE  i \in DOMAIN groups'[m] /\ groups'[m][i] = groups[m][i]
    OBVIOUS
  <2>2. ~CallAt(d).is_persistent
    BY <1>3, <1>9, <2>1, SMTT(30)
  <2>3. CASE m # g
    <3>1. groups'[m] = groups[m]
      BY <1>10, <2>2, <2>3
    <3> QED BY <2>1, <3>1
  <2>4. CASE m = g
    <3>1. /\ groups[g] \in Seq(Nat) /\ Len(groups[g]) \in Nat
          /\ DOMAIN groups'[g] = 1..(Len(groups[g]) + 1)
          /\ \A h \in 1..Len(groups[g]) : groups'[g][h] = groups[g][h]
      BY <1>10, <2>2
    <3>2. i \in 1..Len(groups[g])
      BY <2>1, <2>4, <3>1, SeqFacts
    <3> QED BY <2>4, <3>1, <3>2, SMTT(30)
  <2> QED BY <2>3, <2>4
<1>23. \A m \in 1..g : \A i \in DOMAIN groups'[m] :
          \/ i \in DOMAIN groups[m] /\ groups'[m][i] = groups[m][i]
          \/ m = g /\ i = Len(groups[g]) + 1 /\ groups'[m][i] = n + 1
  <2>1. SUFFICES ASSUME NEW m \in 1..g, NEW i \in DOMAIN groups'[m]
                 PROVE  \/ i \in DOMAIN groups[m]
                        \/ m = g /\ i = Len(groups[g]) + 1 /\ groups'[m][i] = n + 1
    BY <1>22
  <2>2. ~CallAt(d).is_persistent
    BY <1>3, <1>9, <2>1, SMTT(30)
  <2>3. CASE m # g
    <3>1. groups'[m] = groups[m]
      BY <1>10, <2>2, <2>3
    <3> QED BY <2>1, <3>1
  <2>4. CASE m = g
    <3>1. /\ groups[g] \in Seq(Nat) /\ Len(groups[g]) \in Nat
          /\ DOMAIN groups'[g] = 1..(Len(groups[g]) + 1)
          /\ groups'[g][Len(groups[g]) + 1] = n + 1
      BY <1>10, <2>2
    <3>2. DOMAIN groups[g] = 1..Len(groups[g])
      BY <3>1, SeqFacts
    <3> QED BY <2>1, <2>4, <3>1, <3>2, SMTT(30)
  <2> QED BY <2>3, <2>4
<1>12. TypeOK'
  BY <1>0, <1>2, <1>3, <1>6, <1>7, <1>11 DEF TypeOK, State
<1>13. /\ \A j \in 1..d : CallAt(j).group \in 0..g
       /\ CallAt(d).group = g
       /\ \A j \in 1..d : ~CallAt(j).is_success => CallAt(j).group \in 1..g
  <2>1. \A j \in 1..d : CallAt(j).group \in 0..g
    <3>1. \A j \in 1..d : calls[j].index \in DOMAIN txcalls
      BY <1>0, <1>3 DEF StackInv
    <3>2. \A c \in DOMAIN txcalls : txcalls[c].group <= g
      BY <1>0, <1>n DEF CallInv
    <3>3. \A j \in 1..d : CallAt(j).group \in Nat
      BY <1>8 DEF Call
    <3> QED BY <1>3, <1>8, <3>1, <3>2, <3>3, SMTT(30)
  <2>2. CallAt(d).group = g
    BY <1>0, <1>2, <1>n DEF StackInv
  <2>3. \A j \in 1..d : ~CallAt(j).is_success => CallAt(j).group \in 1..g
    BY <1>0, <1>3, FailingGroup
  <2> QED BY <2>1, <2>2, <2>3
<1>14. StackInv'
  <2>1. /\ \A j \in 1..d : calls[j].index \in DOMAIN txcalls
        /\ \A i, j \in 1..d : i < j => calls[i].index < calls[j].index
        /\ \A j \in 1..d : CallAt(j).is_persistent <=> CallAt(j).group = 0
        /\ \A j \in 1..d : j + 1 \in 1..d =>
              CallAt(j + 1).group = IF CallAt(j + 1).is_success THEN CallAt(j).group
                                    ELSE CallAt(j).group + 1
        /\ CallAt(1).group = IF CallAt(1).is_success THEN 0 ELSE 1
    BY <1>0, <1>2, <1>3, ZenonT(30) DEF StackInv
  <2>2. txcalls' = txcalls /\ pc' = "run" /\ Len(groups') = g /\ Len(calls') = d
        /\ DOMAIN calls' = 1..d /\ calls' # <<>>
    BY <1>2, <1>7, <1>11
  <2>3. 1 \in 1..d /\ d \in 1..d
    BY <1>3, SMTT(30)
  <2>4. (CallAt(1).group = IF CallAt(1).is_success THEN 0 ELSE 1)'
    BY <1>8, <2>1, <2>3
  <2>5. (CallAt(Len(calls)).group = Len(groups))'
    BY <1>8, <1>13, <2>2, <2>3 DEF CallAt
  <2> QED BY <1>8, <2>1, <2>2, <2>4, <2>5, SMTT(30) DEF StackInv
<1>15. CallInv'
  <2>1. \A c \in DOMAIN txcalls : txcalls[c].offset \in Nat /\ txcalls[c].offset <= n
    BY <1>0, Typing, <1>n DEF CallInv, Call
  <2> QED BY <1>0, <1>2, <1>3, <1>6, <1>11, <2>1, <1>n, SMTT(30) DEF CallInv
<1>16. OffsetInv'
  <2>1. \A j \in 1..d : j + 1 \in 1..d /\ CallAt(j).group # 0 =>
           (CallAt(j).offset + calls[j].reversible_write_counter
              = IF CallAt(j + 1).is_success THEN CallAt(j + 1).offset
                ELSE Len(groups[CallAt(j).group]))'
    <3>1. SUFFICES ASSUME NEW j \in 1..d, j + 1 \in 1..d, CallAt(j).group # 0
                   PROVE  (CallAt(j).offset + calls[j].reversible_write_counter
                              = IF CallAt(j + 1).is_success THEN CallAt(j + 1).offset
                                ELSE Len(groups[CallAt(j).group]))'
      BY <1>8
    <3>2. /\ CallAt(j)' = CallAt(j) /\ CallAt(j + 1)' = CallAt(j + 1)
          /\ calls'[j] = calls[j]
      BY <1>3, <1>7, <1>8, <3>1, SMTT(30)
    <3>3. CallAt(j).offset + calls[j].reversible_write_counter
            = IF CallAt(j + 1).is_success THEN CallAt(j + 1).offset
              ELSE Len(groups[CallAt(j).group])
      BY <1>0, <1>3, <3>1 DEF OffsetInv
    <3>4. ~CallAt(j + 1).is_success => groups'[CallAt(j).group] = groups[CallAt(j).group]
      <4>1. SUFFICES ASSUME ~CallAt(j + 1).is_success
                     PROVE  groups'[CallAt(j).group] = groups[CallAt(j).group]
        OBVIOUS
      <4>2. CallAt(j + 1).group = CallAt(j).group + 1 /\ CallAt(j + 1).group \in 1..g
        BY <1>0, <1>3, <1>13, <3>1, <4>1, ZenonT(30) DEF StackInv
      <4>3. CallAt(j).group \in 1..g /\ CallAt(j).group # g
        BY <1>3, <1>13, <3>1, <4>2, SMTT(30)
      <4> QED BY <1>9, <1>10, <4>3
    <3> QED BY <3>2, <3>3, <3>4
  <2>2. groups # <<>> => (CallAt(Len(calls)).offset + Last(calls).reversible_write_counter
                            = Len(Last(groups)))'
    <3>1. SUFFICES ASSUME groups # <<>>
                   PROVE  txcalls'[calls'[d].index].offset
                             + calls'[d].reversible_write_counter = Len(groups'[g])
      BY <1>7, <1>11 DEF CallAt, Last
    <3>2. ~CallAt(d).is_persistent
      BY <1>9, <3>1
    <3>3. CallAt(d).offset + calls[d].reversible_write_counter = Len(groups[g])
      BY <1>0, <1>1, <1>2, <1>3, <3>1, <1>n DEF OffsetInv
    <3>4. txcalls'[calls'[d].index] = CallAt(d) /\ CallAt(d).offset \in Nat
      BY <1>2, <1>3, <1>8, ZenonT(30) DEF Call
    <3>5. /\ Len(groups'[g]) = Len(groups[g]) + 1
          /\ calls'[d].reversible_write_counter = calls[d].reversible_write_counter + 1
          /\ calls[d].reversible_write_counter \in Nat
      BY <1>5, <1>7, <1>10, <3>2
    <3> QED BY <3>3, <3>4, <3>5, SMTT(60)
  <2>3. \A j \in 1..d : ~CallAt(j).is_success => CallAt(j).offset = 0
    BY <1>0, <1>3 DEF OffsetInv
  <2> QED BY <1>7, <1>8, <1>11, <2>1, <2>2, <2>3, SMTT(30) DEF OffsetInv
<1>17. GroupInv'
  <2>1. SUFFICES ASSUME NEW m \in 1..g, NEW i \in DOMAIN groups'[m]
                 PROVE  GroupAt(m, i)'
    BY <1>11 DEF GroupInv
  <2>2. ~CallAt(d).is_persistent
    BY <1>9, <1>3, <2>1, SMTT(30)
  <2>3. CASE i \in DOMAIN groups[m] /\ groups'[m][i] = groups[m][i]
    <3>1. GroupAt(m, i)
      BY <1>0, <1>3, <2>1, <2>3 DEF GroupInv
    <3>2. container'[groups'[m][i]] = container[groups[m][i]]
      BY <1>3, <1>6, <2>3, <3>1, SMTT(30) DEF GroupAt
    <3>3. DOMAIN container \subseteq DOMAIN container'
      BY <1>3, <1>6, SMTT(30)
    <3> QED BY <1>21, <2>3, <3>1, <3>2, <3>3 DEF GroupAt
  <2>4. CASE m = g /\ i = Len(groups[g]) + 1
    <3>1. groups'[m][i] = n + 1 /\ container'[n + 1] = op
      BY <1>6, <1>10, <2>2, <2>4
    <3>2. Len(groups[g]) <= n /\ Len(groups[g]) \in Nat
      <4>1. groups[g] \in Seq(Nat) /\ Len(groups[g]) \in Nat
        BY <1>10, <2>2
      <4>2. CASE Len(groups[g]) = 0
        BY <1>3, <4>1, <4>2, SMTT(30)
      <4>3. CASE Len(groups[g]) # 0
        <5>1. Len(groups[g]) \in DOMAIN groups[g] /\ g \in DOMAIN groups
          BY <1>3, <1>10, <2>2, <4>1, <4>3, SeqFacts, SMTT(30)
        <5>2. GroupAt(g, Len(groups[g]))
          BY <1>0, <5>1 DEF GroupInv
        <5>3. Len(groups[g]) <= groups[g][Len(groups[g])] /\ groups[g][Len(groups[g])] \in 1..n
          BY <1>3, <5>2 DEF GroupAt
        <5> QED BY <1>3, <4>1, <5>3, SMTT(30)
      <4> QED BY <4>2, <4>3
    <3>3. op.call \in DOMAIN txcalls /\ txcalls[op.call] = CallAt(d)
      BY <1>0, <1>3, <1>4 DEF StackInv, CallAt
    <3>4. CallAt(d).offset + calls[d].reversible_write_counter = Len(groups[g])
      <4>1. groups # <<>> /\ calls # <<>> /\ pc # "revert"
        <5>1. g # 0
          BY <1>3, <2>1, SMTT(30)
        <5>2. groups # <<>>
          BY <1>0, <1>n, <5>1, Typing
        <5> QED BY <1>2, <1>21, <5>2
      <4> QED BY <1>0, <1>1, <1>3, <1>n, <4>1 DEF OffsetInv
    <3>5. CallAt(d).offset \in Nat
      BY <1>3, <1>8 DEF Call
    <3>6. /\ n + 1 \in 1..(n + 1) /\ i <= n + 1
          /\ CallAt(d).group = m /\ CallAt(d).offset + op.nth + 1 = i
      BY <1>3, <1>4, <1>5, <1>13, <2>4, <3>2, <3>4, <3>5, SMTT(30)
    <3> QED BY <1>4, <1>6, <1>21, <3>1, <3>3, <3>6 DEF GroupAt
  <2> QED BY <1>23, <2>1, <2>3, <2>4
<1>18. OpInv'
  <2>1. SUFFICES ASSUME NEW p \in 1..(n + 1), container'[p].reversible
                 PROVE  (container[p].call \in DOMAIN txcalls /\ OpAccounted(p))'
    BY <1>6, ZenonT(30) DEF OpInv
  <2>2. CASE p = n + 1
    <3>1. container'[p] = op
      BY <1>6, <2>2
    <3>2. op.call \in DOMAIN txcalls /\ txcalls[op.call] = CallAt(d)
      BY <1>0, <1>3, <1>4 DEF StackInv, CallAt
    <3>3. CASE CallAt(d).is_persistent
      BY <1>2, <3>1, <3>2, <3>3 DEF OpAccounted
    <3>4. CASE ~CallAt(d).is_persistent
      <4>1. CallAt(d).group = g /\ g # 0
        BY <1>3, <1>10, <1>13, <3>4, SMTT(30)
      <4>2. CallAt(d).offset + calls[d].reversible_write_counter = Len(groups[g])
        BY <1>0, <1>1, <1>2, <1>3, <4>1, Typing, <1>n, ZenonT(30) DEF OffsetInv
      <4>3. /\ Len(groups'[g]) = Len(groups[g]) + 1 /\ Len(groups[g]) \in Nat
            /\ groups'[g][Len(groups[g]) + 1] = p
        BY <1>10, <2>2, <3>4, ZenonT(30)
      <4> QED BY <1>2, <1>4, <3>1, <3>2, <4>1, <4>2, <4>3, SMTT(30) DEF OpAccounted
    <3> QED BY <3>3, <3>4
  <2>3. CASE p # n + 1
    <3>1. p \in 1..n /\ container'[p] = container[p] /\ container[p].reversible
      BY <1>3, <1>6, <2>1, <2>3, SMTT(30)
    <3>2. container[p].call \in DOMAIN txcalls /\ OpAccounted(p)
      BY <1>0, <1>3, <3>1 DEF OpInv
    <3>3. \A q : Reverses(q, p) => Reverses(q, p)'
      BY <1>3, <1>6, <3>1, SMTT(30) DEF Reverses
    <3>c. PICK c, slot : /\ c = txcalls[container[p].call]
                         /\ slot = c.offset + container[p].nth + 1
      OBVIOUS
    <3>4. /\ c.group \in 0..g /\ slot \in Nat \ {0}
      <4>1. c \in Call /\ c.group <= g /\ container[p] \in Operation
        BY <3>c, <1>0, <1>3, <3>1, <3>2, Typing, <1>n DEF CallInv
      <4>2. c.group \in Nat /\ c.offset \in Nat /\ container[p].nth \in Nat
        BY <4>1 DEF Call, Operation
      <4>3. c.group \in 0..g
        BY <1>3, <4>1, <4>2, SMTT(30)
      <4>4. slot \in Nat \ {0}
        BY <3>c, <4>2, SMTT(30)
      <4> QED BY <4>3, <4>4
    <3>5. c.group # 0 /\ slot <= Len(groups[c.group]) =>
             slot <= Len(groups'[c.group]) /\ groups'[c.group][slot] = groups[c.group][slot]
      <4>1. SUFFICES ASSUME c.group \in 1..g, slot \in 1..Len(groups[c.group])
                     PROVE  /\ slot \in 1..Len(groups'[c.group])
                            /\ groups'[c.group][slot] = groups[c.group][slot]
        BY <1>3, <3>4, SMTT(30)
      <4>2. groups[c.group] \in Seq(Nat) /\ groups'[c.group] \in Seq(Nat)
        BY <1>0, <1>3, <1>11, <4>1, SeqFacts DEF TypeOK
      <4> QED BY <1>22, <4>1, <4>2, SeqFacts, SMTT(30)
    <3>6. /\ txcalls' = txcalls /\ pc # "revert"
      BY <1>2
    <3> QED BY <3>c, <3>1, <3>2, <3>3, <3>5, <3>6, ZenonT(30) DEF OpAccounted
  <2> QED BY <2>2, <2>3, ZenonT(30)
<1>19. UndoInv'
  <2>1. \A q \in 1..(n + 1) : container'[q].undoes \in 0..n
    <3>1. \A q \in 1..n : container[q].undoes \in 0..n
      BY <1>0, <1>3, <1>n DEF UndoInv
    <3>2. SUFFICES ASSUME NEW q \in 1..(n + 1) PROVE container'[q].undoes \in 0..n
      OBVIOUS
    <3>3. CASE q = n + 1
      BY <1>3, <1>4, <1>6, <3>3, SMTT(30)
    <3>4. CASE q # n + 1
      BY <1>3, <1>6, <3>1, <3>4, SMTT(30)
    <3> QED BY <3>3, <3>4
  <2>3. \A q \in 1..(n + 1) : container'[q].undoes # 0 =>
            /\ q \in 1..n /\ container'[q] = container[q]
    BY <1>3, <1>4, <1>6, SMTT(30)
  <2>4. RevertedOnce
    BY <1>0 DEF UndoInv
  <2>5. RevertedOnce'
    <3>1. SUFFICES ASSUME NEW q \in 1..(n + 1), container'[q].undoes # 0
                   PROVE  /\ \A r \in 1..(n + 1) :
                                container'[r].undoes = container'[q].undoes => r = q
                          /\ \A m \in 1..g : \A i \in DOMAIN groups'[m] :
                                groups'[m][i] # container'[q].undoes
      BY <1>6, <1>11 DEF RevertedOnce
    <3>2. container'[q].undoes # n + 1
      BY <1>3, <2>1, SMTT(30)
    <3>3. /\ \A r \in 1..n : container[r].undoes = container[q].undoes => r = q
          /\ \A m \in 1..g : \A i \in DOMAIN groups[m] : groups[m][i] # container[q].undoes
      BY <1>3, <2>3, <2>4, <3>1 DEF RevertedOnce
    <3> QED BY <1>23, <2>3, <3>1, <3>2, <3>3, SMTT(30)
  <2> QED BY <1>3, <1>6, <2>1, <2>5, SMTT(30) DEF UndoInv
<1>20. SnapInv'
  <2>1. SUFFICES ASSUME NEW j \in 1..d, ~CallAt(j).is_success, NEW kk \in Keys
                 PROVE  SnapAt(j, kk)'
    BY <1>7, <1>8 DEF SnapInv
  <2>m. PICK m : m = CallAt(j).group
    OBVIOUS
  <2>2. SnapAt(j, kk) /\ m \in 1..g /\ CallAt(j)' = CallAt(j)
    BY <2>m, <1>0, <1>3, <1>8, <1>13, <2>1 DEF SnapInv
  <2>3. ~CallAt(d).is_persistent
    BY <1>9, <2>2, <1>3, SMTT(30)
  <2>4. \A i \in DOMAIN groups[m] :
          /\ i \in DOMAIN groups'[m] /\ groups'[m][i] = groups[m][i]
          /\ KeyOf(m, i)' = KeyOf(m, i)
          /\ container'[groups'[m][i]] = container[groups[m][i]]
    <3>1. \A i \in DOMAIN groups[m] : groups[m][i] \in 1..n
      BY <1>0, <1>3, <2>2 DEF GroupInv, GroupAt
    <3>2. \A i \in DOMAIN groups[m] : i \in DOMAIN groups'[m] /\ groups'[m][i] = groups[m][i]
      BY <1>22, <2>2
    <3>3. \A p \in 1..n : container'[p] = container[p]
      BY <1>6
    <3> QED BY <3>1, <3>2, <3>3 DEF KeyOf
  <2>5. /\ calls'[j].snap = calls[j].snap
        /\ \A h \in 1..d : CallAt(h)' = CallAt(h) /\ calls'[h].snap = calls[h].snap
    BY <1>8
  <2>6. CASE m # g
    <3>1. groups'[m] = groups[m] /\ m # Len(groups')
      BY <1>10, <1>11, <2>2, <2>3, <2>6
    <3>2. DOMAIN calls = 1..d /\ DOMAIN calls' = 1..d
      BY <1>3, <1>7
    <3>3. \A i \in DOMAIN groups'[m] :
            /\ KeyOf(m, i)' = kk
            /\ \A h \in DOMAIN groups'[m] : h < i => KeyOf(m, h)' # kk
            => calls'[j].snap[kk] = container'[groups'[m][i]].value_prev
      BY <2>m, <2>2, <2>4, <2>5, <3>1, SMTT(30) DEF SnapAt
    <3>4. (\A i \in DOMAIN groups'[m] : KeyOf(m, i)' # kk) =>
            \A h \in 1..d : ~CallAt(h)'.is_success /\ CallAt(h)'.group = m + 1
                            => calls'[j].snap[kk] = calls'[h].snap[kk]
      <4>1. SUFFICES ASSUME \A i \in DOMAIN groups[m] : KeyOf(m, i) # kk, NEW h \in 1..d,
                            ~CallAt(h).is_success, CallAt(h).group = m + 1
                     PROVE  calls[j].snap[kk] = calls[h].snap[kk]
        BY <2>4, <2>5, <3>1, SMTT(30)
      <4> QED BY <2>m, <2>2, <3>2, <4>1 DEF SnapAt
    <3>5. CallAt(j)'.group = m
      BY <2>m, <2>2
    <3> QED BY <3>1, <3>2, <3>3, <3>4, <3>5 DEF SnapAt
  <2>7. CASE m = g
    <3>l. PICK l : l = Len(groups[g]) + 1
      OBVIOUS
    <3>1. /\ Len(groups[g]) \in Nat /\ DOMAIN groups'[g] = 1..l
          /\ DOMAIN groups[g] = 1..Len(groups[g]) /\ groups'[g][l] = n + 1
      BY <3>l, <1>10, <2>3, SeqFacts, ZenonT(30)
    <3>2. container'[n + 1] = op /\ op.key = k /\ op.value_prev = sdb[k]
      BY <1>4, <1>6
    <3>3. /\ kk # k => sdb'[kk] = sdb[kk]
      BY <1>2, <1>3 DEF State
    <3>4. Len(groups') = g /\ Len(groups) = g
      BY <1>11, <1>n
    <3>5. DOMAIN calls = 1..d /\ DOMAIN calls' = 1..d
      BY <1>3, <1>7
    <3>6. KeyOf(g, l)' = k /\ container'[groups'[g][l]].value_prev = sdb[k] /\ l \in 1..l
          /\ l \in Nat
      BY <3>l, <3>1, <3>2, SMTT(30) DEF KeyOf
    <3>7. \A i \in DOMAIN groups'[g] : i \in DOMAIN groups[g] \/ i = l
      BY <3>l, <3>1, SMTT(30)
    <3>8. \A i \in DOMAIN groups[g] : i < l
      BY <3>l, <3>1, SMTT(30)
    <3>9. CASE kk # k
      <4>1. \A i \in DOMAIN groups'[g] : container'[groups'[g][i]].key = kk =>
               i \in DOMAIN groups[g]
        BY <3>6, <3>7, <3>9 DEF KeyOf
      <4>2. sdb'[kk] = sdb[kk]
        BY <3>3, <3>9
      <4>3. \A i \in DOMAIN groups[g] :
               /\ i \in DOMAIN groups'[g]
               /\ container'[groups'[g][i]] = container[groups[g][i]]
        BY <2>4, <2>7
      <4>4. CallAt(j)'.group = g /\ CallAt(j).group = g
        BY <2>m, <2>2, <2>7
      <4> QED BY <2>2, <2>5, <3>4, <3>5, <4>1, <4>2, <4>3, <4>4, SMTT(30) DEF SnapAt, KeyOf
    <3>10. CASE kk = k
      <4>1. \A i \in DOMAIN groups'[g] :
               /\ KeyOf(g, i)' = k
               /\ \A h \in DOMAIN groups'[g] : h < i => KeyOf(g, h)' # k
               => calls[j].snap[k] = container'[groups'[g][i]].value_prev
        <5>1. SUFFICES ASSUME NEW i \in DOMAIN groups'[g], KeyOf(g, i)' = k,
                              \A h \in DOMAIN groups'[g] : h < i => KeyOf(g, h)' # k
                       PROVE  calls[j].snap[k] = container'[groups'[g][i]].value_prev
          OBVIOUS
        <5>2. CASE i \in DOMAIN groups[g]
          <6>1. \A h \in DOMAIN groups[g] :
                   /\ h \in DOMAIN groups'[g]
                   /\ container'[groups'[g][h]] = container[groups[g][h]]
            BY <2>4, <2>7
          <6>2. KeyOf(g, i) = k
            BY <5>1, <5>2, <6>1 DEF KeyOf
          <6>3. \A h \in DOMAIN groups[g] : h < i => KeyOf(g, h) # k
            BY <5>1, <6>1 DEF KeyOf
          <6>4. calls[j].snap[k] = container[groups[g][i]].value_prev
            BY <2>m, <2>2, <2>7, <3>4, <3>10, <5>2, <6>2, <6>3 DEF SnapAt
          <6> QED BY <5>2, <6>1, <6>4
        <5>3. CASE i = l
          <6>1. \A h \in DOMAIN groups[g] : KeyOf(g, h) # k
            BY <2>4, <2>7, <3>8, <5>1, <5>3
          <6>2. calls[j].snap[k] = sdb[k]
            BY <2>m, <2>2, <2>7, <3>4, <3>10, <6>1 DEF SnapAt
          <6> QED BY <3>6, <5>3, <6>2
        <5> QED BY <3>7, <5>1, <5>2, <5>3
      <4>2. l \in DOMAIN groups'[g]
        BY <3>1, <3>6
      <4> QED BY <2>m, <2>2, <2>5, <2>7, <3>6, <3>10, <4>1, <4>2, SMTT(30) DEF SnapAt
    <3> QED BY <3>9, <3>10
  <2> QED BY <2>6, <2>7
<1>24. NestInv'
  BY <1>0, <1>3, <1>7, <1>8, SMTT(30) DEF NestInv
<1> QED BY <1>24, <1>12, <1>14, <1>15, <1>16, <1>17, <1>18, <1>19, <1>20 DEF IndInv
\* A group has no more operations than the container.
LEMMA GroupLen ==
    ASSUME TypeOK, GroupInv, NEW m \in DOMAIN groups
    PROVE  Len(groups[m]) \in Nat /\ Len(groups[m]) <= Len(container)
<1>1. /\ Len(groups[m]) \in Nat /\ DOMAIN groups[m] = 1..Len(groups[m])
      /\ Len(container) \in Nat /\ DOMAIN container = 1..Len(container)
  BY Typing
<1>2. CASE Len(groups[m]) = 0
  BY <1>1, <1>2, SMTT(30)
<1>3. CASE Len(groups[m]) # 0
  <2>1. GroupAt(m, Len(groups[m]))
    BY <1>1, <1>3, SMTT(30) DEF GroupInv
  <2>2. /\ Len(groups[m]) <= groups[m][Len(groups[m])]
        /\ groups[m][Len(groups[m])] \in 1..Len(container)
    BY <1>1, <2>1 DEF GroupAt
  <2> QED BY <1>1, <2>2, SMTT(30)
<1> QED BY <1>2, <1>3

\* Entering a call (push_call): a call that will fail opens a group, another one
\* starts in its caller's group where the caller has got to.
LEMMA PushCallIndInv ==
    ASSUME IndInv, NEW ok \in BOOLEAN, PushCall(ok)
    PROVE  IndInv'
<1>n. PICK n, d, g, t, e : /\ n = Len(container) /\ d = Len(calls) /\ g = Len(groups)
                           /\ t = Len(txcalls) /\ e = Len(groups')
  BY ZenonT(30)
<1>0. /\ TypeOK /\ StackInv /\ NestInv /\ CallInv /\ OffsetInv /\ GroupInv /\ OpInv
      /\ UndoInv /\ SnapInv
  BY DEF IndInv
<1>1. Last(calls) = calls[d] /\ CurrentCall = CallAt(d)
  BY <1>n DEF CurrentCall, CallAt, Last
<1>c. PICK c, ctx :
        /\ c = NewCall(ok, CallAt(d).is_persistent /\ ok, e,
                       IF ok /\ groups # <<>>
                       THEN calls[d].reversible_write_counter + CallAt(d).offset
                       ELSE 0)
        /\ ctx = [index |-> t + 1, reversible_write_counter |-> 0, snap |-> sdb]
  BY ZenonT(30)
<1>2. /\ pc \in {"begin", "run"} /\ pc' = "run" /\ calls # <<>>
      /\ container' = container /\ sdb' = sdb
      /\ groups' = IF ok THEN groups ELSE Append(groups, <<>>)
      /\ txcalls' = Append(txcalls, c)
      /\ calls' = Append(calls, ctx)
  BY <1>n, <1>c, <1>1 DEF PushCall, Running
<1>3. /\ d \in Nat \ {0} /\ d \in 1..d /\ 1 \in 1..d /\ DOMAIN calls = 1..d
      /\ calls[d] \in CallContext
      /\ n \in Nat /\ DOMAIN container = 1..n
      /\ g \in Nat /\ DOMAIN groups = 1..g /\ (groups = <<>> <=> g = 0)
      /\ t \in Nat /\ DOMAIN txcalls = 1..t
      /\ sdb \in State /\ Last(groups) = groups[g]
  BY <1>n, <1>0, <1>2, Typing, SMTT(30) DEF TypeOK
<1>4. /\ \A j \in 1..d : /\ calls[j].index \in 1..t /\ CallAt(j) = txcalls[calls[j].index]
                         /\ CallAt(j) \in Call /\ CallAt(j).group \in 0..g
      /\ CallAt(d).group = g
      /\ CallAt(d).is_persistent <=> g = 0
  <2>1. \A j \in 1..d : calls[j].index \in 1..t
    BY <1>0, <1>3 DEF StackInv
  <2>2. \A j \in 1..d : CallAt(j) = txcalls[calls[j].index] /\ CallAt(j) \in Call
    BY <1>n, <1>0, <2>1, Typing DEF CallAt
  <2>3. \A x \in 1..t : txcalls[x].group <= g
    BY <1>n, <1>0, <1>3 DEF CallInv
  <2>4. \A j \in 1..d : CallAt(j).group \in Nat
    BY <2>2 DEF Call
  <2>5. \A j \in 1..d : CallAt(j).group \in 0..g
    BY <1>3, <2>1, <2>2, <2>3, <2>4, SMTT(30)
  <2>6. CallAt(d).group = g /\ (CallAt(d).is_persistent <=> CallAt(d).group = 0)
    BY <1>n, <1>0, <1>2, <1>3 DEF StackInv
  <2> QED BY <2>1, <2>2, <2>5, <2>6
<1>5. /\ ~ok => /\ groups' \in Seq(Seq(Nat)) /\ e = g + 1 /\ groups'[e] = <<>>
                /\ DOMAIN groups' = 1..e /\ \A m \in 1..g : groups'[m] = groups[m]
      /\ ok => groups' = groups /\ e = g
  <2>1. groups \in Seq(Seq(Nat)) /\ <<>> \in Seq(Nat)
    BY <1>0, SMTT(30) DEF TypeOK
  <2>2. ~ok => groups' = Append(groups, <<>>)
    BY <1>2
  <2>3. ~ok => /\ groups' \in Seq(Seq(Nat)) /\ Len(groups') = g + 1
               /\ groups'[g + 1] = <<>> /\ \A m \in 1..g : groups'[m] = groups[m]
    <3>1. SUFFICES ASSUME ~ok
                   PROVE  /\ groups' \in Seq(Seq(Nat)) /\ Len(groups') = g + 1
                          /\ groups'[g + 1] = <<>>
                          /\ \A m \in 1..g : groups'[m] = groups[m]
      OBVIOUS
    <3>2. groups' = Append(groups, <<>>)
      BY <2>2, <3>1
    <3> QED BY <1>n, <2>1, <3>2, AppendFacts, SMTT(30)
  <2>4. ~ok => DOMAIN groups' = 1..Len(groups')
    BY <2>3, SeqFacts
  <2>5. ok => groups' = groups
    BY <1>2
  <2> QED BY <1>n, <2>3, <2>4, <2>5
<1>6. /\ groups' \in Seq(Seq(Nat)) /\ e \in g..(g + 1) /\ DOMAIN groups' = 1..e
      /\ e = (IF ok THEN g ELSE g + 1)
      /\ \A m \in 1..g : groups'[m] = groups[m]
      /\ groups' # <<>> => e # 0
  <2>1. CASE ok
    BY <1>0, <1>3, <1>5, <2>1, SMTT(30) DEF TypeOK
  <2>2. CASE ~ok
    BY <1>3, <1>5, <2>2, SMTT(30)
  <2> QED BY <2>1, <2>2
<1>7. g # 0 => /\ CallAt(d).offset + calls[d].reversible_write_counter = Len(groups[g])
               /\ Len(groups[g]) \in Nat /\ Len(groups[g]) <= n
  <2>1. SUFFICES ASSUME g # 0
                 PROVE  /\ CallAt(d).offset + calls[d].reversible_write_counter
                             = Len(groups[g])
                        /\ Len(groups[g]) \in Nat /\ Len(groups[g]) <= n
    OBVIOUS
  <2>2. groups # <<>> /\ calls # <<>> /\ pc # "revert"
    BY <1>2, <1>3, <2>1
  <2>3. CallAt(d).offset + calls[d].reversible_write_counter = Len(groups[g])
    BY <1>0, <1>1, <1>3, <1>n, <2>2 DEF OffsetInv
  <2>4. g \in DOMAIN groups
    BY <1>3, <2>1, SMTT(30)
  <2> QED BY <1>n, <1>0, <2>3, <2>4, GroupLen
<1>8. /\ CallAt(d).offset \in Nat /\ calls[d].reversible_write_counter \in Nat
      /\ CallAt(d).is_persistent \in BOOLEAN
  BY <1>3, <1>4 DEF Call, CallContext
<1>9. /\ c.is_success = ok /\ c.is_persistent = (CallAt(d).is_persistent /\ ok)
      /\ c.group = e /\ c.rw_counter_end_of_reversion = 0
      /\ c.offset = (IF ok /\ g # 0 THEN Len(groups[g]) ELSE 0)
      /\ c.offset \in Nat /\ c.offset <= n
      /\ c \in Call
  <2>1. /\ c.is_success = ok /\ c.is_persistent = (CallAt(d).is_persistent /\ ok)
        /\ c.group = e /\ c.rw_counter_end_of_reversion = 0
        /\ c.offset = (IF ok /\ groups # <<>>
                       THEN calls[d].reversible_write_counter + CallAt(d).offset ELSE 0)
        /\ c = [is_success |-> c.is_success, is_persistent |-> c.is_persistent,
                rw_counter_end_of_reversion |-> 0, group |-> e, offset |-> c.offset]
    BY <1>c DEF NewCall
  <2>2. c.offset = (IF ok /\ g # 0 THEN Len(groups[g]) ELSE 0)
    BY <1>3, <1>7, <1>8, <2>1, SMTT(30)
  <2>3. c.offset \in Nat /\ c.offset <= n
    BY <1>3, <1>7, <2>2, SMTT(30)
  <2>4. e \in Nat /\ (CallAt(d).is_persistent /\ ok) \in BOOLEAN
    BY <1>3, <1>6, SMTT(30)
  <2>5. c \in Call
    <3>1. PICK pp \in BOOLEAN, off \in Nat :
             pp = (CallAt(d).is_persistent /\ ok) /\ off = c.offset
      BY <2>3, ZenonT(30)
    <3>2. c = [is_success |-> ok, is_persistent |-> pp,
               rw_counter_end_of_reversion |-> 0, group |-> e, offset |-> off]
      BY <2>1, <3>1
    <3> QED BY <2>4, <3>1, <3>2, SMTT(30) DEF Call
  <2> QED BY <2>1, <2>2, <2>3, <2>5
<1>10. /\ ctx \in CallContext /\ ctx.index = t + 1 /\ ctx.snap = sdb
       /\ ctx.reversible_write_counter = 0
  BY <1>c, <1>3, SMTT(30) DEF CallContext
<1>11. /\ txcalls' \in Seq(Call) /\ Len(txcalls') = t + 1 /\ txcalls'[t + 1] = c
       /\ DOMAIN txcalls' = 1..(t + 1) /\ \A x \in 1..t : txcalls'[x] = txcalls[x]
  <2>1. txcalls \in Seq(Call) /\ txcalls' = Append(txcalls, c)
    BY <1>0, <1>2 DEF TypeOK
  <2>2. /\ txcalls' \in Seq(Call) /\ Len(txcalls') = t + 1 /\ txcalls'[t + 1] = c
        /\ \A x \in 1..t : txcalls'[x] = txcalls[x]
    BY <1>n, <1>9, <2>1, AppendFacts, SMTT(30)
  <2> QED BY <2>2, SeqFacts
<1>12. /\ calls' \in Seq(CallContext) /\ Len(calls') = d + 1 /\ calls'[d + 1] = ctx
       /\ DOMAIN calls' = 1..(d + 1) /\ \A j \in 1..d : calls'[j] = calls[j]
       /\ calls' # <<>>
  <2>1. calls \in Seq(CallContext) /\ calls' = Append(calls, ctx)
    BY <1>0, <1>2 DEF TypeOK
  <2>2. /\ calls' \in Seq(CallContext) /\ Len(calls') = d + 1 /\ calls'[d + 1] = ctx
        /\ \A j \in 1..d : calls'[j] = calls[j]
    BY <1>n, <1>10, <2>1, AppendFacts, SMTT(30)
  <2>3. d + 1 # 0
    BY <1>3, SMTT(30)
  <2> QED BY <2>2, <2>3, SeqFacts
<1>13. /\ \A j \in 1..d : CallAt(j)' = CallAt(j)
       /\ CallAt(d + 1)' = c
  BY <1>4, <1>10, <1>11, <1>12, SMTT(30) DEF CallAt
<1>14. \A j \in 1..(d + 1) : j \in 1..d \/ j = d + 1
  BY <1>3, SMTT(30)
<1>15. TypeOK'
  BY <1>0, <1>2, <1>6, <1>11, <1>12 DEF TypeOK
<1>16. StackInv'
  <2>1. \A j \in 1..(d + 1) : calls'[j].index \in 1..(t + 1)
    BY <1>3, <1>4, <1>10, <1>12, <1>14, SMTT(30)
  <2>2. \A i, j \in 1..(d + 1) : i < j => calls'[i].index < calls'[j].index
    <3>1. SUFFICES ASSUME NEW i \in 1..(d + 1), NEW j \in 1..(d + 1), i < j
                   PROVE  calls'[i].index < calls'[j].index
      OBVIOUS
    <3>2. i \in 1..d /\ calls'[i] = calls[i] /\ calls[i].index \in 1..t
      BY <1>3, <1>4, <1>12, <3>1, SMTT(30)
    <3>3. CASE j = d + 1
      BY <1>3, <1>10, <1>12, <3>2, <3>3, SMTT(30)
    <3>4. CASE j \in 1..d
      BY <1>0, <1>3, <1>12, <3>1, <3>2, <3>4, ZenonT(30) DEF StackInv
    <3> QED BY <1>14, <3>3, <3>4
  <2>3. \A j \in 1..(d + 1) : (CallAt(j).is_persistent <=> CallAt(j).group = 0)'
    <3>1. c.is_persistent <=> c.group = 0
      <4>1. CASE ok
        BY <1>4, <1>6, <1>9, <4>1, ZenonT(30)
      <4>2. CASE ~ok
        BY <1>3, <1>6, <1>9, <4>2, SMTT(30)
      <4> QED BY <4>1, <4>2
    <3>2. \A j \in 1..d : CallAt(j).is_persistent <=> CallAt(j).group = 0
      BY <1>0, <1>3 DEF StackInv
    <3>3. \A j \in 1..d : (CallAt(j).is_persistent <=> CallAt(j).group = 0)'
      BY <1>13, <3>2
    <3>4. (CallAt(d + 1).is_persistent <=> CallAt(d + 1).group = 0)'
      BY <1>13, <3>1
    <3> QED BY <1>14, <3>3, <3>4
  <2>4. \A j \in 1..(d + 1) : j + 1 \in 1..(d + 1) =>
           (CallAt(j + 1).group = IF CallAt(j + 1).is_success THEN CallAt(j).group
                                  ELSE CallAt(j).group + 1)'
    <3>1. SUFFICES ASSUME NEW j \in 1..d
                   PROVE  (CallAt(j + 1).group =
                              IF CallAt(j + 1).is_success THEN CallAt(j).group
                              ELSE CallAt(j).group + 1)'
      BY <1>3, SMTT(30)
    <3>2. CASE j = d
      BY <1>4, <1>6, <1>9, <1>13, <3>1, <3>2
    <3>3. CASE j # d
      <4>1. j + 1 \in 1..d
        BY <1>3, <3>1, <3>3, SMTT(30)
      <4>2. CallAt(j + 1).group = IF CallAt(j + 1).is_success THEN CallAt(j).group
                                  ELSE CallAt(j).group + 1
        BY <1>0, <1>3, <3>1, <4>1, ZenonT(30) DEF StackInv
      <4> QED BY <1>13, <3>1, <4>1, <4>2
    <3> QED BY <3>2, <3>3
  <2>5. (CallAt(1).group = IF CallAt(1).is_success THEN 0 ELSE 1)'
    <3>1. CallAt(1).group = IF CallAt(1).is_success THEN 0 ELSE 1
      BY <1>0, <1>2 DEF StackInv
    <3> QED BY <1>3, <1>13, <3>1
  <2>6. (CallAt(Len(calls)).group = Len(groups))'
    <3>1. txcalls'[calls'[d + 1].index].group = e
      BY <1>9, <1>10, <1>11, <1>12
    <3> QED BY <1>n, <1>12, <3>1 DEF CallAt
  <2>7. pc' = "run"
    BY <1>2
  <2> QED BY <1>11, <1>12, <2>1, <2>2, <2>3, <2>4, <2>5, <2>6, <2>7 DEF StackInv
<1>17. CallInv'
  <2>1. SUFFICES ASSUME NEW x \in 1..(t + 1)
                 PROVE  /\ txcalls'[x].group <= e
                        /\ txcalls'[x].offset <= n
                        /\ txcalls'[x].group # 0 =>
                              /\ ~txcalls'[x].is_persistent
                              /\ txcalls'[x].rw_counter_end_of_reversion = 0
    BY <1>n, <1>2, <1>11 DEF CallInv
  <2>2. CASE x = t + 1
    <3>1. c.is_persistent => c.group = 0
      <4>1. CASE ok
        BY <1>4, <1>6, <1>9, <4>1, ZenonT(30)
      <4>2. CASE ~ok
        BY <1>9, <4>2
      <4> QED BY <4>1, <4>2
    <3>2. c.group <= e
      BY <1>3, <1>6, <1>9, SMTT(30)
    <3> QED BY <1>9, <1>11, <2>2, <3>1, <3>2
  <2>3. CASE x # t + 1
    <3>1. x \in 1..t /\ txcalls'[x] = txcalls[x]
      BY <1>3, <1>11, <2>1, <2>3, SMTT(30)
    <3>2. /\ txcalls[x].group <= g /\ txcalls[x].offset <= n
          /\ txcalls[x].group # 0 => /\ ~txcalls[x].is_persistent
                                     /\ txcalls[x].rw_counter_end_of_reversion = 0
      BY <1>n, <1>0, <1>3, <3>1 DEF CallInv
    <3>3. txcalls[x].group \in Nat
      BY <1>n, <1>0, <3>1, Typing DEF Call
    <3>4. txcalls[x].group <= e
      BY <1>3, <1>6, <3>2, <3>3, SMTT(30)
    <3> QED BY <3>1, <3>2, <3>4
  <2> QED BY <2>2, <2>3
<1>18. OffsetInv'
  <2>1. \A j \in 1..(d + 1) : (~CallAt(j).is_success => CallAt(j).offset = 0)'
    <3>1. \A j \in 1..d : ~CallAt(j).is_success => CallAt(j).offset = 0
      BY <1>0, <1>3 DEF OffsetInv
    <3>2. ~c.is_success => c.offset = 0
      BY <1>9
    <3> QED BY <1>13, <1>14, <3>1, <3>2
  <2>2. \A j \in 1..(d + 1) : j + 1 \in 1..(d + 1) /\ CallAt(j)'.group # 0 =>
           (CallAt(j).offset + calls[j].reversible_write_counter
              = IF CallAt(j + 1).is_success THEN CallAt(j + 1).offset
                ELSE Len(groups[CallAt(j).group]))'
    <3>1. SUFFICES ASSUME NEW j \in 1..d, CallAt(j).group # 0
                   PROVE  (CallAt(j).offset + calls[j].reversible_write_counter
                              = IF CallAt(j + 1).is_success THEN CallAt(j + 1).offset
                                ELSE Len(groups[CallAt(j).group]))'
      BY <1>3, <1>13, SMTT(30)
    <3>2. groups'[CallAt(j).group] = groups[CallAt(j).group]
      <4>1. CallAt(j).group \in 1..g
        BY <1>3, <1>4, <3>1, SMTT(30)
      <4> QED BY <1>6, <4>1
    <3>3. CASE j = d
      <4>1. g # 0 /\ CallAt(d).group = g
        BY <1>4, <3>1, <3>3
      <4>2. CallAt(d).offset + calls[d].reversible_write_counter
              = IF c.is_success THEN c.offset ELSE Len(groups[g])
        BY <1>7, <1>9, <4>1
      <4> QED BY <1>3, <1>12, <1>13, <3>2, <3>3, <4>1, <4>2, ZenonT(30)
    <3>4. CASE j # d
      <4>1. j + 1 \in 1..d
        BY <1>3, <3>1, <3>4, SMTT(30)
      <4>2. CallAt(j).offset + calls[j].reversible_write_counter
              = IF CallAt(j + 1).is_success THEN CallAt(j + 1).offset
                ELSE Len(groups[CallAt(j).group])
        BY <1>0, <1>3, <3>1, <4>1, ZenonT(30) DEF OffsetInv
      <4> QED BY <1>12, <1>13, <3>1, <3>2, <4>1, <4>2
    <3> QED BY <3>3, <3>4
  <2>3. (calls # <<>> /\ pc # "revert" /\ groups # <<>> =>
          CallAt(Len(calls)).offset + Last(calls).reversible_write_counter
            = Len(Last(groups)))'
    <3>1. SUFFICES ASSUME groups' # <<>>
                   PROVE  txcalls'[calls'[d + 1].index].offset
                            + calls'[d + 1].reversible_write_counter = Len(groups'[e])
      BY <1>n, <1>12 DEF CallAt, Last
    <3>2. txcalls'[calls'[d + 1].index] = c /\ calls'[d + 1].reversible_write_counter = 0
      BY <1>10, <1>11, <1>12
    <3>3. c.offset = Len(groups'[e])
      <4>1. CASE ok
        BY <1>3, <1>5, <1>6, <1>9, <3>1, <4>1
      <4>2. CASE ~ok
        BY <1>5, <1>9, <4>2
      <4> QED BY <4>1, <4>2
    <3> QED BY <1>9, <3>2, <3>3, SMTT(30)
  <2> QED BY <1>12, <2>1, <2>2, <2>3 DEF OffsetInv
<1>19. GroupInv'
  <2>1. SUFFICES ASSUME NEW m \in 1..e, NEW i \in DOMAIN groups'[m]
                 PROVE  GroupAt(m, i)'
    BY <1>6 DEF GroupInv
  <2>2. m \in 1..g
    <3>1. CASE m = g + 1
      BY <1>3, <1>5, <1>6, <2>1, <3>1, SMTT(30)
    <3> QED BY <1>3, <1>6, <2>1, <3>1, SMTT(30)
  <2>3. groups'[m] = groups[m]
    BY <1>6, <2>2
  <2>4. GroupAt(m, i)
    BY <1>0, <1>3, <2>1, <2>2, <2>3 DEF GroupInv
  <2>5. /\ container' = container /\ \A x \in DOMAIN txcalls : txcalls'[x] = txcalls[x]
        /\ DOMAIN txcalls \subseteq DOMAIN txcalls'
    BY <1>2, <1>3, <1>11, SMTT(30)
  <2> QED BY <2>3, <2>4, <2>5, ZenonT(30) DEF GroupAt
<1>20. OpInv'
  <2>1. container' = container
    BY <1>2
  <2>2. SUFFICES ASSUME NEW p \in DOMAIN container, container[p].reversible
                 PROVE  (container[p].call \in DOMAIN txcalls /\ OpAccounted(p))'
    BY <2>1 DEF OpInv
  <2>3. container[p].call \in DOMAIN txcalls /\ OpAccounted(p)
    BY <1>0, <2>2 DEF OpInv
  <2>4. \A q : Reverses(q, p)' <=> Reverses(q, p)
    BY <2>1 DEF Reverses
  <2>5. /\ container[p].call \in DOMAIN txcalls'
        /\ txcalls'[container[p].call] = txcalls[container[p].call]
    BY <1>3, <1>11, <2>3, SMTT(30)
  <2>6. /\ txcalls[container[p].call].group \in 0..g
    <3>1. txcalls[container[p].call].group <= g
      BY <1>n, <1>0, <2>3 DEF CallInv
    <3>2. txcalls[container[p].call].group \in Nat
      BY <1>n, <1>0, <2>3, Typing DEF Call
    <3> QED BY <1>3, <3>1, <3>2, SMTT(30)
  <2>7. txcalls[container[p].call].group # 0 =>
           groups'[txcalls[container[p].call].group] = groups[txcalls[container[p].call].group]
    <3>1. PICK m : m = txcalls[container[p].call].group
      OBVIOUS
    <3>2. m # 0 => m \in 1..g
      BY <1>3, <2>6, <3>1, SMTT(30)
    <3> QED BY <1>6, <3>1, <3>2
  <2>8. pc # "revert"
    BY <1>2
  <2> QED BY <2>1, <2>3, <2>4, <2>5, <2>7, <2>8, ZenonT(30) DEF OpAccounted
<1>21. UndoInv'
  <2>1. UndoInv /\ container' = container
    BY <1>0, <1>2
  <2>2. \A m \in DOMAIN groups' : \A i \in DOMAIN groups'[m] :
           m \in DOMAIN groups /\ groups'[m] = groups[m]
    <3>1. SUFFICES ASSUME NEW m \in 1..e, NEW i \in DOMAIN groups'[m]
                   PROVE  m \in 1..g
      BY <1>3, <1>6
    <3>2. CASE m = g + 1
      BY <1>3, <1>5, <1>6, <3>1, <3>2, SMTT(30)
    <3> QED BY <1>3, <1>6, <3>1, <3>2, SMTT(30)
  <2> QED BY <2>1, <2>2, SMTT(30) DEF UndoInv, RevertedOnce
<1>22. SnapInv'
  <2>1. SUFFICES ASSUME NEW j \in 1..(d + 1), ~CallAt(j)'.is_success, NEW kk \in Keys
                 PROVE  SnapAt(j, kk)'
    BY <1>12 DEF SnapInv
  <2>2. container' = container /\ sdb' = sdb
    BY <1>2
  <2>3. CASE j = d + 1
    <3>1. CallAt(j)' = c /\ ~ok /\ c.group = e /\ groups'[e] = <<>> /\ calls'[j].snap = sdb
      BY <1>5, <1>9, <1>10, <1>12, <1>13, <2>1, <2>3
    <3>2. \A h \in 1..(d + 1) : CallAt(h)'.group # e + 1
      <4>1. \A h \in 1..d : CallAt(h)'.group \in 0..g
        BY <1>4, <1>13
      <4>2. CallAt(d + 1)'.group = e
        BY <1>9, <1>13
      <4>3. e + 1 # e /\ e + 1 \notin 0..g
        BY <1>3, <1>6, SMTT(30)
      <4> QED BY <1>14, <4>1, <4>2, <4>3
    <3>3. DOMAIN groups'[e] = {} /\ e = Len(groups')
      BY <1>n, <3>1, SMTT(30)
    <3> QED BY <1>12, <2>2, <3>1, <3>2, <3>3 DEF SnapAt
  <2>4. CASE j \in 1..d
    <3>1. CallAt(j)' = CallAt(j) /\ ~CallAt(j).is_success /\ SnapAt(j, kk)
      BY <1>0, <1>3, <1>13, <2>1, <2>4 DEF SnapInv
    <3>m. PICK m : m = CallAt(j).group
      OBVIOUS
    <3>2. m \in 1..g
      BY <1>0, <1>3, <2>4, <3>1, <3>m, FailingGroup
    <3>3. groups'[m] = groups[m]
      BY <1>6, <3>2
    <3>4. /\ \A h \in 1..d : CallAt(h)' = CallAt(h) /\ calls'[h] = calls[h]
          /\ CallAt(d + 1)' = c /\ calls'[d + 1].snap = sdb
      BY <1>10, <1>12, <1>13
    <3>5. /\ m = e => m = g
          /\ ~c.is_success /\ c.group = m + 1 => m = g
      BY <1>3, <1>6, <1>9, <3>2, SMTT(30)
    <3>6. DOMAIN calls = 1..d /\ DOMAIN calls' = 1..(d + 1) /\ g = Len(groups)
          /\ e = Len(groups')
      BY <1>n, <1>3, <1>12
    <3>7. /\ \A i \in DOMAIN groups[m] :
                /\ container[groups[m][i]].key = kk
                /\ \A h \in DOMAIN groups[m] : h < i => container[groups[m][h]].key # kk
                => calls[j].snap[kk] = container[groups[m][i]].value_prev
          /\ (\A i \in DOMAIN groups[m] : container[groups[m][i]].key # kk) =>
                /\ m = g => calls[j].snap[kk] = sdb[kk]
                /\ \A h \in 1..d : ~CallAt(h).is_success /\ CallAt(h).group = m + 1
                                   => calls[j].snap[kk] = calls[h].snap[kk]
      BY <3>1, <3>m, <3>6, ZenonT(30) DEF SnapAt, KeyOf
    <3>8. CallAt(j)'.group = m /\ calls'[j] = calls[j]
      BY <2>4, <3>1, <3>m, <3>4
    <3>9. (\A i \in DOMAIN groups[m] : container[groups[m][i]].key # kk) =>
             /\ m = e => calls[j].snap[kk] = sdb[kk]
             /\ \A h \in 1..(d + 1) : ~CallAt(h)'.is_success /\ CallAt(h)'.group = m + 1
                                   => calls[j].snap[kk] = calls'[h].snap[kk]
      BY <1>14, <3>4, <3>5, <3>7, ZenonT(30)
    <3> QED BY <2>2, <3>3, <3>6, <3>7, <3>8, <3>9, ZenonT(60) DEF SnapAt, KeyOf
  <2> QED BY <1>14, <2>1, <2>3, <2>4
<1>23. NestInv'
  <2>1. SUFFICES ASSUME NEW i \in 1..(d + 1), NEW j \in 1..(d + 1), i < j,
                        ~CallAt(j)'.is_success
                 PROVE  CallAt(i)'.group < CallAt(j)'.group
    BY <1>12 DEF NestInv
  <2>2. i \in 1..d
    BY <1>3, <2>1, SMTT(30)
  <2>3. CASE j = d + 1
    BY <1>3, <1>4, <1>6, <1>9, <1>13, <2>1, <2>2, <2>3, SMTT(30)
  <2>4. CASE j \in 1..d
    BY <1>0, <1>3, <1>13, <2>1, <2>2, <2>4 DEF NestInv
  <2> QED BY <1>14, <2>3, <2>4
<1> QED BY <1>23, <1>15, <1>16, <1>17, <1>18, <1>19, <1>20, <1>21, <1>22 DEF IndInv

-----------------------------------------------------------------------------
(* The steps that end calls and revert operations.                         *)

\* The start of a reversion (handle_return of a failing call) changes nothing but the
\* control state.
LEMMA HandleReversionIndInv ==
    ASSUME IndInv, HandleReversion
    PROVE  IndInv'
<1>0. /\ TypeOK /\ StackInv /\ NestInv /\ CallInv /\ OffsetInv /\ GroupInv /\ OpInv
      /\ UndoInv /\ SnapInv
  BY DEF IndInv
<1>1. /\ pc \in {"begin", "run"} /\ pc' = "revert" /\ calls # <<>>
      /\ ~CallAt(Len(calls)).is_success
      /\ UNCHANGED <<calls, txcalls, groups, container, sdb>>
  BY DEF HandleReversion, Running, CurrentCall, CallAt, Last
<1>2. TypeOK'
  BY <1>0, <1>1 DEF TypeOK
<1>3. StackInv'
  BY <1>0, <1>1, ZenonT(30) DEF StackInv, CallAt
<1>4. NestInv' /\ CallInv' /\ GroupInv' /\ UndoInv'
  BY <1>0, <1>1, SMTT(30) DEF NestInv, CallInv, GroupInv, GroupAt, UndoInv, RevertedOnce, CallAt
<1>5. OffsetInv'
  BY <1>0, <1>1, ZenonT(30) DEF OffsetInv, CallAt
<1>6. OpInv'
  BY <1>0, <1>1, ZenonT(60) DEF OpInv, OpAccounted, Reverses
<1>7. SnapInv'
  <2>1. SUFFICES ASSUME NEW j \in DOMAIN calls, ~CallAt(j).is_success, NEW k \in Keys
                 PROVE  SnapAt(j, k)'
    BY <1>1 DEF SnapInv, CallAt
  <2>2. SnapAt(j, k)
    BY <1>0, <2>1 DEF SnapInv
  <2> QED BY <1>1, <2>2, ZenonT(60) DEF SnapAt, KeyOf, CallAt
<1> QED BY <1>2, <1>3, <1>4, <1>5, <1>6, <1>7 DEF IndInv

\* Leaving a call that succeeds (handle_return, pop_call_ctx): the caller takes over the
\* reversible writes of its callee.
LEMMA HandleReturnIndInv ==
    ASSUME IndInv, HandleReturn
    PROVE  IndInv'
<1>n. PICK d, g : d = Len(calls) /\ g = Len(groups)
  BY ZenonT(30)
<1>0. /\ TypeOK /\ StackInv /\ NestInv /\ CallInv /\ OffsetInv /\ GroupInv /\ OpInv
      /\ UndoInv /\ SnapInv
  BY DEF IndInv
<1>1. /\ pc \in {"begin", "run"} /\ calls # <<>> /\ CallAt(d).is_success
      /\ pc' = IF d = 1 THEN "done" ELSE "run"
      /\ calls' = PopCallCtx
  BY <1>n DEF HandleReturn, Running, CurrentCall, CallAt, Last, AfterPop
<1>2. UNCHANGED <<txcalls, groups, container, sdb>>
  BY DEF HandleReturn
<1>3. /\ d \in Nat \ {0} /\ d \in 1..d /\ DOMAIN calls = 1..d
      /\ calls[d] \in CallContext
      /\ g \in Nat /\ DOMAIN groups = 1..g /\ (groups = <<>> <=> g = 0)
      /\ Last(groups) = groups[g] /\ Last(calls) = calls[d]
      /\ calls \in Seq(CallContext)
  BY <1>n, <1>0, <1>1, Typing, SMTT(30) DEF TypeOK
<1>4. /\ Front(calls) \in Seq(CallContext) /\ Len(Front(calls)) = d - 1
      /\ \A j \in 1..(d - 1) : Front(calls)[j] = calls[j]
  BY <1>n, <1>1, <1>3, FrontFacts
<1>5. CallInv' /\ GroupInv' /\ UndoInv'
  BY <1>0, <1>2, SMTT(30) DEF CallInv, GroupInv, GroupAt, UndoInv, RevertedOnce
<1>6. OpInv'
  <2>1. pc # "revert"
    BY <1>1
  <2> QED BY <1>0, <1>2, <2>1, ZenonT(60) DEF OpInv, OpAccounted, Reverses
<1>7. CASE d = 1
  <2>1. Front(calls) = <<>>
    BY <1>4, <1>7, SeqFacts, SMTT(30)
  <2>2. calls' = <<>> /\ pc' = "done" /\ DOMAIN calls' = {} /\ calls' \in Seq(CallContext)
    BY <1>1, <1>7, <2>1, SMTT(30) DEF PopCallCtx
  <2>3. groups = <<>>
    BY <1>n, <1>0, <1>1, <1>3, <1>7 DEF StackInv
  <2>4. TypeOK'
    BY <1>0, <1>2, <2>2 DEF TypeOK
  <2>5. StackInv' /\ NestInv' /\ OffsetInv' /\ SnapInv'
    BY <1>2, <2>2, <2>3 DEF StackInv, NestInv, OffsetInv, SnapInv
  <2> QED BY <1>5, <1>6, <2>4, <2>5 DEF IndInv
<1>8. CASE d # 1
  <2>c. PICK c, ctx :
          /\ c = d - 1
          /\ ctx = [calls[d - 1] EXCEPT !.reversible_write_counter =
                       @ + calls[d].reversible_write_counter]
    BY ZenonT(30)
  <2>1. c \in Nat \ {0} /\ c \in 1..c /\ 1 \in 1..c /\ c \in 1..d /\ c + 1 = d
        /\ \A j \in 1..c : j \in 1..d /\ j # d
    BY <1>3, <1>8, <2>c, SMTT(30)
  <2>2. /\ calls[c] \in CallContext /\ calls[d].reversible_write_counter \in Nat
        /\ calls[c].reversible_write_counter \in Nat
    <3>1. calls[c] \in CallContext
      BY <1>0, <1>n, <2>1, Typing
    <3> QED BY <1>3, <3>1 DEF CallContext
  <2>3. /\ ctx \in CallContext /\ ctx.index = calls[c].index /\ ctx.snap = calls[c].snap
        /\ ctx.reversible_write_counter
             = calls[c].reversible_write_counter + calls[d].reversible_write_counter
    BY <2>c, <2>2, SMTT(30) DEF CallContext
  <2>4. Front(calls) # <<>> /\ Front(calls)[c] = calls[c] /\ Len(Front(calls)) = c
    BY <1>4, <2>c, <2>1, SeqFacts
  <2>5. calls' = [Front(calls) EXCEPT ![c] = ctx]
    <3>1. txcalls[calls[d].index].is_success
      BY <1>1 DEF CallAt
    <3> QED BY <1>1, <1>3, <2>c, <2>4, <3>1, ZenonT(30) DEF PopCallCtx
  <2>6. /\ calls' \in Seq(CallContext) /\ Len(calls') = c /\ calls'[c] = ctx
        /\ \A j \in 1..c : j # c => calls'[j] = calls[j]
    <3>1. /\ calls' \in Seq(CallContext) /\ Len(calls') = c /\ calls'[c] = ctx
          /\ \A j \in 1..c : j # c => calls'[j] = Front(calls)[j]
      BY <1>4, <2>1, <2>3, <2>4, <2>5, ExceptFacts, SMTT(30)
    <3> QED BY <1>4, <2>c, <3>1
  <2>7. DOMAIN calls' = 1..c /\ calls' # <<>>
    BY <2>1, <2>6, SeqFacts
  <2>8. \A j \in 1..c : /\ calls'[j].index = calls[j].index
                        /\ calls'[j].snap = calls[j].snap
                        /\ CallAt(j)' = CallAt(j)
    BY <1>2, <2>3, <2>6 DEF CallAt
  <2>9. /\ CallAt(d).group = g /\ CallAt(c).group = g
    BY <1>n, <1>0, <1>1, <1>3, <2>1, SMTT(30) DEF StackInv
  <2>10. TypeOK'
    BY <1>0, <1>1, <1>2, <2>6 DEF TypeOK
  <2>11. StackInv'
    <3>1. /\ \A j \in 1..c : calls[j].index \in DOMAIN txcalls
          /\ \A i, j \in 1..c : i < j => calls[i].index < calls[j].index
          /\ \A j \in 1..c : CallAt(j).is_persistent <=> CallAt(j).group = 0
          /\ \A j \in 1..c : j + 1 \in 1..c =>
                CallAt(j + 1).group = IF CallAt(j + 1).is_success THEN CallAt(j).group
                                      ELSE CallAt(j).group + 1
          /\ CallAt(1).group = IF CallAt(1).is_success THEN 0 ELSE 1
      BY <1>0, <1>1, <1>3, <2>1, ZenonT(30) DEF StackInv
    <3>2. pc' = "run" /\ txcalls' = txcalls
      BY <1>1, <1>2, <1>8
    <3>3. (CallAt(Len(calls)).group = Len(groups))'
      <4>1. txcalls'[calls'[c].index].group = g
        BY <1>2, <2>1, <2>8, <2>9 DEF CallAt
      <4> QED BY <1>n, <1>2, <2>6, <4>1 DEF CallAt
    <3>4. (CallAt(1).group = IF CallAt(1).is_success THEN 0 ELSE 1)'
      BY <2>1, <2>8, <3>1
    <3> QED BY <2>6, <2>7, <2>8, <3>1, <3>2, <3>3, <3>4, SMTT(30) DEF StackInv
  <2>12. NestInv'
    BY <1>0, <1>3, <2>1, <2>7, <2>8, SMTT(30) DEF NestInv
  <2>13. OffsetInv'
    <3>1. \A j \in 1..c : ~CallAt(j).is_success => CallAt(j).offset = 0
      BY <1>0, <1>3, <2>1 DEF OffsetInv
    <3>2. \A j \in 1..c : j + 1 \in 1..c /\ CallAt(j).group # 0 =>
             CallAt(j).offset + calls[j].reversible_write_counter
               = IF CallAt(j + 1).is_success THEN CallAt(j + 1).offset
                 ELSE Len(groups[CallAt(j).group])
      BY <1>0, <1>3, <2>1 DEF OffsetInv
    <3>3. \A j \in 1..c : j + 1 \in 1..c => calls'[j] = calls[j]
      BY <2>1, <2>6
    <3>4. (calls # <<>> /\ pc # "revert" /\ groups # <<>> =>
             CallAt(Len(calls)).offset + Last(calls).reversible_write_counter
               = Len(Last(groups)))'
      <4>1. SUFFICES ASSUME groups # <<>>
                     PROVE  txcalls'[calls'[c].index].offset
                              + calls'[c].reversible_write_counter = Len(groups[g])
        BY <1>n, <1>2, <2>6 DEF CallAt, Last
      <4>2. pc # "revert" /\ CallAt(c).group # 0
        BY <1>1, <1>3, <2>9, <4>1
      <4>3. CallAt(d).offset + calls[d].reversible_write_counter = Len(groups[g])
        BY <1>n, <1>0, <1>1, <1>3, <4>1, <4>2 DEF OffsetInv
      <4>4. CallAt(c).offset + calls[c].reversible_write_counter = CallAt(d).offset
        BY <1>0, <1>1, <1>3, <2>1, <4>2 DEF OffsetInv
      <4>5. txcalls'[calls'[c].index] = CallAt(c)
        BY <1>2, <2>1, <2>8 DEF CallAt
      <4>6. CallAt(c).offset \in Nat
        BY <1>0, <1>3, <2>1, Typing, ZenonT(30) DEF StackInv, CallAt, Call
      <4>7. calls'[c].reversible_write_counter
              = calls[c].reversible_write_counter + calls[d].reversible_write_counter
        BY <2>3, <2>6
      <4> QED BY <2>2, <4>3, <4>4, <4>5, <4>6, <4>7, SMTT(30)
    <3> QED BY <1>2, <2>7, <2>8, <3>1, <3>2, <3>3, <3>4, SMTT(30) DEF OffsetInv
  <2>14. SnapInv'
    <3>1. SUFFICES ASSUME NEW j \in 1..c, ~CallAt(j).is_success, NEW k \in Keys
                   PROVE  SnapAt(j, k)'
      BY <2>7, <2>8 DEF SnapInv
    <3>2. SnapAt(j, k)
      BY <1>0, <1>3, <2>1, <3>1 DEF SnapInv
    <3>3. 1..c \subseteq DOMAIN calls
      BY <1>3, <2>1
    <3>4. groups' = groups /\ container' = container /\ sdb' = sdb
      BY <1>2
    <3>5. CallAt(j)' = CallAt(j) /\ calls'[j].snap = calls[j].snap
      BY <2>8, <3>1
    <3>6. \A h \in 1..c : /\ h \in DOMAIN calls /\ CallAt(h)' = CallAt(h)
                          /\ calls'[h].snap = calls[h].snap
      BY <2>8, <3>3
    <3> QED BY <2>7, <3>2, <3>4, <3>5, <3>6, SMTT(30) DEF SnapAt, KeyOf
  <2> QED BY <1>5, <1>6, <2>10, <2>11, <2>12, <2>13, <2>14 DEF IndInv
<1> QED BY <1>7, <1>8
\* One iteration of handle_reversion undoes the last operation of the last group.
LEMMA RevertOpIndInv ==
    ASSUME IndInv, RevertOp
    PROVE  IndInv'
<1>n. PICK n, d, g, l : /\ n = Len(container) /\ d = Len(calls) /\ g = Len(groups)
                        /\ l = Len(groups[g])
  BY ZenonT(30)
<1>0. /\ TypeOK /\ StackInv /\ NestInv /\ CallInv /\ OffsetInv /\ GroupInv /\ OpInv
      /\ UndoInv /\ SnapInv
  BY DEF IndInv
<1>1. pc = "revert" /\ pc' = pc /\ calls' = calls /\ txcalls' = txcalls
      /\ Last(groups) # <<>>
  BY ZenonT(30) DEF RevertOp
<1>2. /\ d \in Nat \ {0} /\ d \in 1..d /\ DOMAIN calls = 1..d
      /\ n \in Nat /\ DOMAIN container = 1..n
      /\ g \in Nat /\ DOMAIN groups = 1..g
      /\ Last(groups) = groups[g]
  <2>1. calls # <<>>
    BY <1>0, <1>1 DEF StackInv
  <2> QED BY <1>n, <1>0, <2>1, Typing, SMTT(30)
<1>3. /\ ~CallAt(d).is_success /\ g \in 1..g /\ groups[g] \in Seq(Nat)
      /\ l \in Nat \ {0} /\ DOMAIN groups[g] = 1..l
  <2>1. ~CallAt(d).is_success
    BY <1>n, <1>0, <1>1 DEF StackInv
  <2>2. CallAt(d).group = g /\ CallAt(d).group \in 1..g
    BY <1>n, <1>0, <1>2, <2>1, FailingGroup, ZenonT(30) DEF StackInv
  <2>3. groups[g] \in Seq(Nat) /\ groups[g] # <<>>
    BY <1>0, <1>1, <1>2, <2>2, Typing, ZenonT(30)
  <2>4. Len(groups[g]) \in Nat \ {0} /\ DOMAIN groups[g] = 1..Len(groups[g])
    BY <2>3, SeqFacts
  <2> QED BY <1>n, <2>1, <2>2, <2>3, <2>4
<1>r. PICK ref, op, undo :
        /\ ref = groups[g][l] /\ op = container[ref]
        /\ undo = [key |-> op.key, value |-> op.value_prev, value_prev |-> op.value,
                   reversible |-> FALSE, call |-> op.call, nth |-> op.nth,
                   undoes |-> ref]
  BY ZenonT(30)
<1>4. GroupAt(g, l)
  BY <1>0, <1>2, <1>3, SMTT(30) DEF GroupInv
<1>5. /\ ref \in 1..n /\ op.reversible
      /\ op.call \in DOMAIN txcalls
      /\ txcalls[op.call].group = g
      /\ txcalls[op.call].offset + op.nth + 1 = l
      /\ op = container[ref]
  BY <1>2, <1>r, <1>4, ZenonT(30) DEF GroupAt
<1>6. op \in Operation
  BY <1>n, <1>0, <1>5, Typing
<1>7. /\ undo \in Operation /\ undo.reversible = FALSE /\ undo.undoes = ref
      /\ undo.key = op.key /\ undo.value = op.value_prev /\ undo.value_prev = op.value
  BY <1>2, <1>r, <1>5, <1>6, SMTT(30) DEF Operation
<1>8. /\ container' = Append(container, undo)
      /\ sdb' = [sdb EXCEPT ![op.key] = op.value_prev]
      /\ groups' = [groups EXCEPT ![g] = Front(groups[g])]
  <2>1. Last(Last(groups)) = ref
    BY <1>n, <1>r, <1>2, ZenonT(30) DEF Last
  <2> QED BY <1>n, <1>r, <2>1, ZenonT(30) DEF RevertOp
<1>9. /\ container' \in Seq(Operation) /\ Len(container') = n + 1
      /\ container'[n + 1] = undo /\ \A p \in 1..n : container'[p] = container[p]
      /\ DOMAIN container' = 1..(n + 1)
  <2>1. container \in Seq(Operation)
    BY <1>0 DEF TypeOK
  <2>2. /\ container' \in Seq(Operation) /\ Len(container') = n + 1
        /\ container'[n + 1] = undo /\ \A p \in 1..n : container'[p] = container[p]
    BY <1>n, <1>7, <1>8, <2>1, AppendFacts, SMTT(30)
  <2> QED BY <2>2, SeqFacts
<1>10. /\ groups' \in Seq(Seq(Nat)) /\ Len(groups') = g /\ DOMAIN groups' = 1..g
       /\ Len(groups'[g]) = l - 1 /\ DOMAIN groups'[g] = 1..(l - 1)
       /\ \A i \in 1..(l - 1) : groups'[g][i] = groups[g][i]
       /\ \A m \in 1..g : m # g => groups'[m] = groups[m]
  <2>1. PICK fr : fr = Front(groups[g])
    OBVIOUS
  <2>2. groups[g] # <<>>
    BY <1>1, <1>2
  <2>3. /\ fr \in Seq(Nat) /\ Len(fr) = l - 1
        /\ \A i \in 1..(l - 1) : fr[i] = groups[g][i]
    BY <1>n, <1>3, <2>1, <2>2, FrontFacts, ZenonT(30)
  <2>4. DOMAIN fr = 1..(l - 1)
    BY <2>3, SeqFacts
  <2>5. groups \in Seq(Seq(Nat)) /\ groups' = [groups EXCEPT ![g] = fr]
    BY <1>0, <1>8, <2>1 DEF TypeOK
  <2>6. /\ groups' \in Seq(Seq(Nat)) /\ Len(groups') = g /\ groups'[g] = fr
        /\ \A m \in 1..g : m # g => groups'[m] = groups[m]
    BY <1>n, <1>3, <2>3, <2>5, ExceptFacts, SMTT(30)
  <2>7. DOMAIN groups' = 1..g
    BY <2>6, SeqFacts
  <2> QED BY <2>3, <2>4, <2>6, <2>7
<1>11. \A m \in 1..g : \A i \in DOMAIN groups'[m] :
          /\ i \in DOMAIN groups[m] /\ groups'[m][i] = groups[m][i]
          /\ m = g => i # l
  <2>1. SUFFICES ASSUME NEW m \in 1..g, NEW i \in DOMAIN groups'[m]
                 PROVE  /\ i \in DOMAIN groups[m] /\ groups'[m][i] = groups[m][i]
                        /\ m = g => i # l
    OBVIOUS
  <2>2. CASE m = g
    <3>1. i \in 1..(l - 1)
      BY <1>10, <2>1, <2>2
    <3>2. groups'[g][i] = groups[g][i]
      BY <1>10, <3>1, ZenonT(30)
    <3>3. i \in DOMAIN groups[g] /\ i # l
      BY <1>3, <3>1, SMTT(30)
    <3> QED BY <2>2, <3>2, <3>3
  <2>3. CASE m # g
    BY <1>10, <2>1, <2>3
  <2> QED BY <2>2, <2>3
<1>12. op.key \in Keys /\ op.value_prev \in Vals /\ sdb \in State /\ sdb' \in State
       /\ sdb'[op.key] = op.value_prev
       /\ \A k \in Keys : k # op.key => sdb'[k] = sdb[k]
  <2>1. op.key \in Keys /\ op.value_prev \in Vals /\ sdb \in State
    BY <1>0, <1>6 DEF Operation, TypeOK
  <2> QED BY <1>8, <2>1 DEF State
<1>13. TypeOK'
  BY <1>0, <1>1, <1>9, <1>10, <1>12, ZenonT(30) DEF TypeOK
<1>14. \A j : CallAt(j)' = CallAt(j)
  BY <1>1 DEF CallAt
<1>15. StackInv'
  <2>1. Len(groups') = Len(groups) /\ calls # <<>> /\ pc = "revert"
    BY <1>n, <1>0, <1>1, <1>10, ZenonT(30) DEF StackInv
  <2> QED BY <1>0, <1>1, <2>1, ZenonT(30) DEF StackInv, CallAt
<1>16. NestInv'
  BY <1>0, <1>1 DEF NestInv, CallAt
<1>17. CallInv'
  <2>1. \A c \in DOMAIN txcalls : txcalls[c].offset \in Nat /\ txcalls[c].offset <= n
    BY <1>n, <1>0, Typing DEF CallInv, Call
  <2>2. \A c \in DOMAIN txcalls : txcalls[c].offset <= n + 1
    BY <1>2, <2>1, SMTT(30)
  <2> QED BY <1>n, <1>0, <1>1, <1>9, <1>10, <2>2, ZenonT(30) DEF CallInv
<1>18. OffsetInv'
  <2>1. \A j \in 1..d : j + 1 \in 1..d /\ CallAt(j).group # 0 /\ ~CallAt(j + 1).is_success
           => groups'[CallAt(j).group] = groups[CallAt(j).group]
    <3>1. SUFFICES ASSUME NEW j \in 1..d, j + 1 \in 1..d, CallAt(j).group # 0,
                          ~CallAt(j + 1).is_success
                   PROVE  CallAt(j).group \in 1..g /\ CallAt(j).group # g
      BY <1>10
    <3>2. CallAt(j + 1).group \in 1..g /\ CallAt(j).group < CallAt(j + 1).group
      BY <1>0, <1>2, <3>1, FailingGroup, SMTT(30) DEF NestInv
    <3>3. CallAt(j).group \in Nat
      BY <1>0, <1>2, <3>1, Typing, ZenonT(30) DEF StackInv, CallAt, Call
    <3> QED BY <1>2, <3>1, <3>2, <3>3, SMTT(30)
  <2>2. /\ \A j \in 1..d : ~CallAt(j).is_success => CallAt(j).offset = 0
        /\ \A j \in 1..d : j + 1 \in 1..d /\ CallAt(j).group # 0 =>
             CallAt(j).offset + calls[j].reversible_write_counter
               = IF CallAt(j + 1).is_success THEN CallAt(j + 1).offset
                 ELSE Len(groups[CallAt(j).group])
    BY <1>0, <1>2, ZenonT(30) DEF OffsetInv
  <2> QED BY <1>1, <1>2, <1>14, <2>1, <2>2, ZenonT(30) DEF OffsetInv
<1>19. GroupInv'
  <2>1. SUFFICES ASSUME NEW m \in 1..g, NEW i \in DOMAIN groups'[m]
                 PROVE  GroupAt(m, i)'
    BY <1>10 DEF GroupInv
  <2>2. GroupAt(m, i) /\ groups'[m][i] = groups[m][i]
    BY <1>0, <1>2, <1>11, <2>1, ZenonT(30) DEF GroupInv
  <2>3. container'[groups'[m][i]] = container[groups[m][i]]
    BY <1>2, <1>9, <2>2, SMTT(30) DEF GroupAt
  <2>4. DOMAIN container \subseteq DOMAIN container'
    BY <1>2, <1>9, SMTT(30)
  <2> QED BY <1>1, <2>2, <2>3, <2>4, ZenonT(30) DEF GroupAt
<1>20. OpInv'
  <2>1. SUFFICES ASSUME NEW p \in 1..n, container[p].reversible
                 PROVE  (container[p].call \in DOMAIN txcalls /\ OpAccounted(p))'
    BY <1>2, <1>7, <1>9, SMTT(30) DEF OpInv
  <2>2. container[p].call \in DOMAIN txcalls /\ OpAccounted(p) /\ container'[p] = container[p]
    BY <1>0, <1>2, <1>9, <2>1 DEF OpInv
  <2> DEFINE Undone(x) == /\ x \in DOMAIN container'
                          /\ container'[x].key = container'[p].key
                          /\ container'[x].value = container'[p].value_prev
                          /\ container'[x].value_prev = container'[p].value
                          /\ container'[x].undoes = p
  <2>3. \A q : Reverses(q, p) => Undone(q)
    BY <1>2, <1>9, <2>1, SMTT(30) DEF Reverses
  <2>c. PICK c, slot : /\ c = txcalls[container[p].call]
                       /\ slot = c.offset + container[p].nth + 1
    OBVIOUS
  <2>4. c.group \in 0..g /\ slot \in Nat \ {0} /\ (c.group # 0 => ~c.is_persistent)
    <3>1. c \in Call /\ c.group <= g /\ container[p] \in Operation
          /\ (c.group # 0 => ~c.is_persistent)
      BY <1>n, <1>0, <1>2, <2>c, <2>1, <2>2, Typing, ZenonT(30) DEF CallInv
    <3>2. c.group \in Nat /\ c.offset \in Nat /\ container[p].nth \in Nat
      BY <3>1 DEF Call, Operation
    <3>3. c.group \in 0..g
      BY <1>2, <3>1, <3>2, SMTT(30)
    <3>4. slot \in Nat \ {0}
      BY <2>c, <3>2, SMTT(30)
    <3> QED BY <3>1, <3>3, <3>4
  <2>5. ~c.is_persistent =>
          IF c.group = 0
          THEN Reverses(c.rw_counter_end_of_reversion - container[p].nth, p)
          ELSE IF slot <= Len(groups[c.group])
          THEN groups[c.group][slot] = p
          ELSE /\ c.group = g
               /\ Reverses(n + Len(groups[c.group]) + 1 - slot, p)
    BY <1>n, <2>2, <2>c, ZenonT(30) DEF OpAccounted
  <2>6. SUFFICES ASSUME ~c.is_persistent
                 PROVE  IF c.group = 0
                        THEN Undone(c.rw_counter_end_of_reversion - container[p].nth)
                        ELSE IF slot <= Len(groups'[c.group])
                        THEN groups'[c.group][slot] = p
                        ELSE /\ c.group = g
                             /\ Undone((n + 1) + Len(groups'[c.group]) + 1 - slot)
    <3>1. /\ Len(container') = n + 1 /\ Len(groups') = g /\ txcalls' = txcalls
          /\ pc' = "revert"
      BY <1>1, <1>9, <1>10, ZenonT(30)
    <3> QED BY <2>2, <2>c, <3>1, ZenonT(30) DEF OpAccounted, Reverses
  <2> HIDE DEF Undone
  <2>7. CASE c.group = 0
    BY <2>3, <2>5, <2>6, <2>7, ZenonT(30)
  <2>8. CASE c.group # 0 /\ c.group # g
    <3>1. groups'[c.group] = groups[c.group]
      BY <1>2, <1>10, <2>4, <2>8, SMTT(30)
    <3> QED BY <2>5, <2>6, <2>8, <3>1
  <2>9. CASE c.group # 0 /\ c.group = g
    <3>1. CASE slot <= l - 1
      <4>1. slot \in 1..(l - 1) /\ slot <= l
        BY <1>3, <2>4, <3>1, SMTT(30)
      <4> QED BY <1>n, <1>10, <2>5, <2>6, <2>9, <3>1, <4>1, ZenonT(30)
    <3>2. CASE slot = l
      <4>1. p = ref
        <5>1. slot <= l
          BY <1>3, <3>2, SMTT(30)
        <5> QED BY <1>n, <1>r, <2>5, <2>6, <2>9, <3>2, <5>1, ZenonT(30)
      <4>2. (n + 1) + Len(groups'[g]) + 1 - slot = n + 1 /\ ~(slot <= Len(groups'[g]))
        <5>1. Len(groups'[g]) = l - 1
          BY <1>10
        <5>2. l \in Nat /\ n \in Nat
          BY <1>2, <1>3
        <5> QED BY <3>2, <5>1, <5>2, SMTT(30)
      <4>3. Undone(n + 1)
        BY <1>2, <1>5, <1>7, <1>9, <2>2, <4>1, SMTT(30) DEF Undone
      <4> QED BY <2>9, <4>2, <4>3
    <3>3. CASE slot > l
      <4>1. /\ (n + 1) + Len(groups'[g]) + 1 - slot = n + l + 1 - slot
            /\ ~(slot <= Len(groups'[g])) /\ ~(slot <= l)
        <5>1. Len(groups'[g]) = l - 1
          BY <1>10
        <5>2. l \in Nat /\ n \in Nat
          BY <1>2, <1>3
        <5> QED BY <2>4, <3>3, <5>1, <5>2, SMTT(30)
      <4>2. Reverses(n + l + 1 - slot, p)
        BY <1>n, <2>5, <2>6, <2>9, <4>1
      <4>3. Undone(n + l + 1 - slot)
        BY <2>3, <4>2
      <4> QED BY <2>9, <4>1, <4>3
    <3> QED BY <1>3, <2>4, <3>1, <3>2, <3>3, SMTT(30)
  <2> QED BY <2>7, <2>8, <2>9
<1>21. UndoInv'
  <2>1. RevertedOnce /\ \A q \in 1..n : container[q].undoes \in 0..n
    BY <1>n, <1>0, <1>2 DEF UndoInv
  <2>2. \A q \in 1..n : container[q].undoes # ref
    <3>1. ref # 0
      BY <1>2, <1>5, SMTT(30)
    <3>2. g \in DOMAIN groups /\ l \in DOMAIN groups[g] /\ groups[g][l] = ref
      BY <1>2, <1>3, <1>r, SMTT(30)
    <3> QED BY <1>2, <2>1, <3>1, <3>2 DEF RevertedOnce
  <2>3. \A m \in 1..g : \A i \in DOMAIN groups'[m] : groups'[m][i] # ref
    <3>1. SUFFICES ASSUME NEW m \in 1..g, NEW i \in DOMAIN groups'[m],
                          groups[m][i] = ref
                   PROVE  FALSE
      BY <1>11
    <3>2. GroupAt(m, i)
      BY <1>0, <1>2, <1>11, <3>1 DEF GroupInv
    <3>3. m = g /\ i = l
      BY <1>5, <3>1, <3>2 DEF GroupAt
    <3> QED BY <1>11, <3>1, <3>3
  <2>4. \A q \in 1..(n + 1) : /\ q = n + 1 => container'[q].undoes = ref
                              /\ q # n + 1 => q \in 1..n /\ container'[q] = container[q]
    BY <1>2, <1>7, <1>9, SMTT(30)
  <2>5. \A q \in 1..(n + 1) : container'[q].undoes \in 0..(n + 1)
    <3>1. SUFFICES ASSUME NEW q \in 1..(n + 1) PROVE container'[q].undoes \in 0..(n + 1)
      OBVIOUS
    <3>2. CASE q = n + 1
      BY <1>2, <1>5, <2>4, <3>2, SMTT(30)
    <3>3. CASE q # n + 1
      BY <1>2, <2>1, <2>4, <3>3, SMTT(30)
    <3> QED BY <3>2, <3>3
  <2>6. RevertedOnce'
    <3>1. SUFFICES ASSUME NEW q \in 1..(n + 1), container'[q].undoes # 0
                   PROVE  /\ \A r \in 1..(n + 1) :
                                container'[r].undoes = container'[q].undoes => r = q
                          /\ \A m \in 1..g : \A i \in DOMAIN groups'[m] :
                                groups'[m][i] # container'[q].undoes
      BY <1>9, <1>10, SMTT(30) DEF RevertedOnce
    <3>2. CASE q = n + 1
      BY <2>2, <2>3, <2>4, <3>2
    <3>3. CASE q # n + 1
      <4>1. q \in DOMAIN container /\ container[q].undoes # 0 /\ container'[q] = container[q]
        BY <1>2, <2>4, <3>1, <3>3
      <4>2. /\ \A r \in 1..n : container[r].undoes = container[q].undoes => r = q
            /\ \A m \in 1..g : \A i \in DOMAIN groups[m] : groups[m][i] # container[q].undoes
        BY <1>2, <2>1, <4>1 DEF RevertedOnce
      <4>3. container[q].undoes # ref
        BY <1>2, <2>2, <4>1
      <4> QED BY <1>11, <2>4, <4>1, <4>2, <4>3, SMTT(30)
    <3> QED BY <3>2, <3>3
  <2> QED BY <1>9, <2>5, <2>6 DEF UndoInv
<1>22. SnapInv'
  <2>1. SUFFICES ASSUME NEW j \in 1..d, ~CallAt(j).is_success, NEW k \in Keys
                 PROVE  SnapAt(j, k)'
    BY <1>1, <1>2, <1>14 DEF SnapInv
  <2>m. PICK m : m = CallAt(j).group
    OBVIOUS
  <2>2. m \in 1..g /\ SnapAt(j, k) /\ CallAt(j)'.group = m
    BY <1>0, <1>2, <1>14, <2>1, <2>m, FailingGroup DEF SnapInv
  <2>3. /\ \A i \in DOMAIN groups[m] :
              /\ container[groups[m][i]].key = k
              /\ \A h \in DOMAIN groups[m] : h < i => container[groups[m][h]].key # k
              => calls[j].snap[k] = container[groups[m][i]].value_prev
        /\ (\A i \in DOMAIN groups[m] : container[groups[m][i]].key # k) =>
              /\ m = g => calls[j].snap[k] = sdb[k]
              /\ \A h \in 1..d : ~CallAt(h).is_success /\ CallAt(h).group = m + 1
                                 => calls[j].snap[k] = calls[h].snap[k]
    BY <1>n, <1>2, <2>m, <2>2, ZenonT(30) DEF SnapAt, KeyOf
  <2>4. \A i \in DOMAIN groups'[m] :
           /\ i \in DOMAIN groups[m]
           /\ container'[groups'[m][i]] = container[groups[m][i]]
    <3>1. \A i \in DOMAIN groups[m] : groups[m][i] \in 1..n
      BY <1>0, <1>2, <2>2 DEF GroupInv, GroupAt
    <3> QED BY <1>9, <1>11, <2>2, <3>1, SMTT(30)
  <2>6. CASE m # g
    <3>1. groups'[m] = groups[m] /\ m # Len(groups')
      BY <1>10, <2>2, <2>6
    <3>2. calls' = calls /\ DOMAIN calls = 1..d /\ CallAt(j)'.group = m
      BY <1>1, <1>2, <2>2
    <3>3. \A h \in 1..d : CallAt(h)' = CallAt(h)
      BY <1>14
    <3> QED BY <2>3, <2>4, <3>1, <3>2, <3>3, SMTT(30) DEF SnapAt, KeyOf
  <2>7. CASE m = g
    <3>1. \A i \in DOMAIN groups'[g] :
             /\ container'[groups'[g][i]].key = k
             /\ \A h \in DOMAIN groups'[g] : h < i => container'[groups'[g][h]].key # k
             => calls[j].snap[k] = container'[groups'[g][i]].value_prev
      <4>1. SUFFICES ASSUME NEW i \in DOMAIN groups'[g], container'[groups'[g][i]].key = k,
                            \A h \in DOMAIN groups'[g] :
                               h < i => container'[groups'[g][h]].key # k
                     PROVE  calls[j].snap[k] = container'[groups'[g][i]].value_prev
        OBVIOUS
      <4>2. \A h \in DOMAIN groups[g] : h < i => h \in DOMAIN groups'[g]
        BY <1>3, <1>10, <4>1, SMTT(30)
      <4>3. \A h \in DOMAIN groups[g] : h < i => container[groups[g][h]].key # k
        BY <2>4, <2>7, <4>1, <4>2
      <4> QED BY <2>3, <2>4, <2>7, <4>1, <4>3, SMTT(30)
    <3>2. ASSUME \A i \in DOMAIN groups'[g] : container'[groups'[g][i]].key # k
          PROVE  calls[j].snap[k] = sdb'[k]
      <4>1. \A i \in DOMAIN groups[g] : i # l => i \in DOMAIN groups'[g] /\ i < l
        BY <1>3, <1>10, SMTT(30)
      <4>2. \A i \in DOMAIN groups[g] : i # l => container[groups[g][i]].key # k
        BY <2>4, <2>7, <3>2, <4>1
      <4>3. CASE op.key = k
        <5>1. l \in DOMAIN groups[g] /\ container[groups[g][l]] = op
          BY <1>3, <1>r, SMTT(30)
        <5>2. \A h \in DOMAIN groups[g] : h < l => container[groups[g][h]].key # k
          BY <1>3, <4>2, SMTT(30)
        <5>3. calls[j].snap[k] = op.value_prev
          BY <2>3, <2>7, <4>3, <5>1, <5>2, ZenonT(30)
        <5> QED BY <1>12, <4>3, <5>3
      <4>4. CASE op.key # k
        <5>1. \A i \in DOMAIN groups[g] : container[groups[g][i]].key # k
          BY <1>r, <4>2, <4>4, ZenonT(30)
        <5> QED BY <1>12, <2>3, <2>7, <4>4, <5>1
      <4> QED BY <4>3, <4>4
    <3>3. \A h \in 1..d : CallAt(h)'.group # g + 1
      <4>1. \A h \in 1..d : CallAt(h).group \in Nat /\ CallAt(h).group <= g
        BY <1>n, <1>0, <1>2, Typing, ZenonT(30) DEF StackInv, CallInv, CallAt, Call
      <4> QED BY <1>2, <1>14, <4>1, SMTT(30)
    <3>4. /\ calls' = calls /\ DOMAIN calls = 1..d /\ CallAt(j)'.group = g
          /\ Len(groups') = g
      BY <1>1, <1>2, <1>10, <2>2, <2>7
    <3> QED BY <3>1, <3>2, <3>3, <3>4, ZenonT(30) DEF SnapAt, KeyOf
  <2> QED BY <2>6, <2>7
<1> QED BY <1>13, <1>15, <1>16, <1>17, <1>18, <1>19, <1>20, <1>21, <1>22 DEF IndInv
\* The end of handle_reversion settles the calls of the last group and leaves the call.
LEMMA EndReversionIndInv ==
    ASSUME IndInv, EndReversion
    PROVE  IndInv'
<1>n. PICK n, d, g, c, b : /\ n = Len(container) /\ d = Len(calls) /\ g = Len(groups)
                           /\ c = d - 1 /\ b = g - 1
  BY ZenonT(30)
<1>0. /\ TypeOK /\ StackInv /\ NestInv /\ CallInv /\ OffsetInv /\ GroupInv /\ OpInv
      /\ UndoInv /\ SnapInv
  BY DEF IndInv
<1>1. /\ pc = "revert" /\ pc' = (IF d = 1 THEN "done" ELSE "run")
      /\ container' = container /\ sdb' = sdb
      /\ Last(groups) = <<>> /\ calls' = PopCallCtx /\ groups' = Front(groups)
      /\ txcalls' = EndOfReversion
  BY <1>n DEF EndReversion, AfterPop
<1>2. /\ d \in Nat \ {0} /\ d \in 1..d /\ DOMAIN calls = 1..d /\ calls # <<>>
      /\ n \in Nat /\ DOMAIN container = 1..n
      /\ g \in Nat /\ DOMAIN groups = 1..g
      /\ Last(groups) = groups[g] /\ Last(calls) = calls[d]
  <2>1. calls # <<>>
    BY <1>0, <1>1 DEF StackInv
  <2> QED BY <1>n, <1>0, <2>1, Typing, SMTT(30)
<1>3. /\ ~CallAt(d).is_success /\ CallAt(d).group = g /\ g \in 1..g /\ groups[g] = <<>>
  <2>1. ~CallAt(d).is_success
    BY <1>n, <1>0, <1>1 DEF StackInv
  <2>2. CallAt(d).group = g /\ CallAt(d).group \in 1..g
    BY <1>n, <1>0, <1>2, <2>1, FailingGroup, ZenonT(30) DEF StackInv
  <2> QED BY <1>1, <1>2, <2>1, <2>2
<1>4. /\ c \in Nat /\ b \in Nat /\ d = c + 1 /\ g = b + 1 /\ c \in 0..d
      /\ \A j \in 1..c : j \in 1..d /\ j < d
      /\ \A m \in 1..b : m \in 1..g /\ m # g
      /\ c # 0 => c \in 1..c /\ 1 \in 1..c
  BY <1>n, <1>2, <1>3, SMTT(30)
<1>5. /\ groups' \in Seq(Seq(Nat)) /\ Len(groups') = b /\ DOMAIN groups' = 1..b
      /\ \A m \in 1..b : groups'[m] = groups[m]
      /\ groups' = <<>> <=> b = 0
  <2>1. groups \in Seq(Seq(Nat)) /\ groups # <<>>
    BY <1>n, <1>0, <1>3, SeqFacts, SMTT(30) DEF TypeOK
  <2>2. /\ groups' \in Seq(Seq(Nat)) /\ Len(groups') = b
        /\ \A m \in 1..b : groups'[m] = groups[m]
    BY <1>n, <1>1, <2>1, FrontFacts, ZenonT(30)
  <2> QED BY <2>2, SeqFacts
<1>6. /\ calls' \in Seq(CallContext) /\ Len(calls') = c /\ DOMAIN calls' = 1..c
      /\ \A j \in 1..c : calls'[j] = calls[j]
      /\ calls' = <<>> <=> c = 0
  <2>1. calls' = Front(calls)
    BY <1>1, <1>2, <1>3 DEF PopCallCtx, CallAt
  <2>2. calls \in Seq(CallContext)
    BY <1>0 DEF TypeOK
  <2>3. /\ calls' \in Seq(CallContext) /\ Len(calls') = c
        /\ \A j \in 1..c : calls'[j] = calls[j]
    BY <1>n, <1>2, <2>1, <2>2, FrontFacts
  <2> QED BY <2>3, SeqFacts
<1>7. \A x \in DOMAIN txcalls :
         /\ txcalls[x] \in Call /\ txcalls[x].group \in 0..g
         /\ txcalls[x].offset \in Nat /\ txcalls[x].offset <= n
  <2>1. SUFFICES ASSUME NEW x \in DOMAIN txcalls
                 PROVE  /\ txcalls[x] \in Call /\ txcalls[x].group \in 0..g
                        /\ txcalls[x].offset \in Nat /\ txcalls[x].offset <= n
    OBVIOUS
  <2>2. txcalls[x] \in Call /\ txcalls[x].group <= g /\ txcalls[x].offset <= n
    BY <1>n, <1>0, <2>1, Typing DEF CallInv
  <2>3. txcalls[x].group \in Nat /\ txcalls[x].offset \in Nat
    BY <2>2 DEF Call
  <2> QED BY <1>2, <2>2, <2>3, SMTT(30)
<1>8. /\ DOMAIN txcalls' = DOMAIN txcalls /\ txcalls' \in Seq(Call)
      /\ \A x \in DOMAIN txcalls :
            /\ txcalls[x].group # g => txcalls'[x] = txcalls[x]
            /\ txcalls[x].group = g =>
                 /\ txcalls'[x].group = 0
                 /\ txcalls'[x].offset = txcalls[x].offset
                 /\ txcalls'[x].is_persistent = txcalls[x].is_persistent
                 /\ txcalls'[x].rw_counter_end_of_reversion = n - txcalls[x].offset
  <2>1. /\ DOMAIN txcalls' = DOMAIN txcalls
        /\ \A x \in DOMAIN txcalls : txcalls'[x] =
              IF txcalls[x].group = g
              THEN [txcalls[x] EXCEPT !.group = 0,
                       !.rw_counter_end_of_reversion = n - txcalls[x].offset]
              ELSE txcalls[x]
    BY <1>n, <1>1, ZenonT(30) DEF EndOfReversion
  <2>2. \A x \in DOMAIN txcalls :
          txcalls[x].group = g =>
             /\ txcalls'[x].group = 0
             /\ txcalls'[x].offset = txcalls[x].offset
             /\ txcalls'[x].is_persistent = txcalls[x].is_persistent
             /\ txcalls'[x].rw_counter_end_of_reversion = n - txcalls[x].offset
             /\ txcalls'[x] \in Call
    <3>1. SUFFICES ASSUME NEW x \in DOMAIN txcalls, txcalls[x].group = g
                   PROVE  /\ txcalls'[x].group = 0
                          /\ txcalls'[x].offset = txcalls[x].offset
                          /\ txcalls'[x].is_persistent = txcalls[x].is_persistent
                          /\ txcalls'[x].rw_counter_end_of_reversion
                               = n - txcalls[x].offset
                          /\ txcalls'[x] \in Call
      OBVIOUS
    <3>2. PICK y, z : y = txcalls[x] /\ z = n - y.offset
      OBVIOUS
    <3>3. y \in Call /\ z \in Nat
      BY <1>2, <1>7, <3>1, <3>2, SMTT(30)
    <3>4. txcalls'[x] = [y EXCEPT !.group = 0, !.rw_counter_end_of_reversion = z]
      BY <2>1, <3>1, <3>2, ZenonT(30)
    <3>5. txcalls'[x] = [is_success |-> y.is_success, is_persistent |-> y.is_persistent,
                         rw_counter_end_of_reversion |-> z, group |-> 0,
                         offset |-> y.offset]
      BY <3>3, <3>4, ZenonT(30) DEF Call
    <3>6. y.is_success \in BOOLEAN /\ y.is_persistent \in BOOLEAN /\ y.offset \in Nat
      BY <3>3 DEF Call
    <3>7. txcalls'[x] \in Call
      BY <3>3, <3>5, <3>6, SMTT(30) DEF Call
    <3> QED BY <3>2, <3>5, <3>7, SMTT(30)
  <2>3. \A x \in DOMAIN txcalls : txcalls'[x] \in Call
    BY <1>7, <2>1, <2>2, ZenonT(30)
  <2>4. txcalls' \in Seq(Call)
    <3>1. Len(txcalls) \in Nat /\ DOMAIN txcalls = 1..Len(txcalls)
      BY <1>0, Typing
    <3>2. txcalls' = [x \in 1..Len(txcalls) |-> txcalls'[x]]
      BY <1>1, <2>1, <3>1, ZenonT(30) DEF EndOfReversion
    <3> QED BY <2>3, <3>1, <3>2, SMTT(30)
  <2> QED BY <2>1, <2>2, <2>4, ZenonT(30)
<1>9. \A j \in 1..c : /\ CallAt(j)' = CallAt(j) /\ calls'[j] = calls[j]
                      /\ calls[j].index \in DOMAIN txcalls
                      /\ CallAt(j).group \in 0..b
  <2>1. SUFFICES ASSUME NEW j \in 1..c
                 PROVE  /\ CallAt(j)' = CallAt(j) /\ calls'[j] = calls[j]
                        /\ calls[j].index \in DOMAIN txcalls
                        /\ CallAt(j).group \in 0..b
    OBVIOUS
  <2>2. calls[j].index \in DOMAIN txcalls /\ CallAt(j) = txcalls[calls[j].index]
    BY <1>0, <1>2, <1>4, ZenonT(30) DEF StackInv, CallAt
  <2>3. CallAt(j).group < g
    BY <1>0, <1>2, <1>3, <1>4, SMTT(30) DEF NestInv
  <2>4. CallAt(j).group \in 0..b
    BY <1>4, <1>7, <2>2, <2>3, SMTT(30)
  <2>5. txcalls'[calls[j].index] = txcalls[calls[j].index]
    BY <1>4, <1>8, <2>2, <2>4, SMTT(30)
  <2> QED BY <1>6, <2>2, <2>4, <2>5, ZenonT(30) DEF CallAt
<1>10. TypeOK'
  BY <1>0, <1>1, <1>5, <1>6, <1>8 DEF TypeOK
<1>11. StackInv'
  <2>1. c = 0 => b = 0
    <3>1. c = 0 => g = 1
      BY <1>0, <1>2, <1>3, <1>4, SMTT(30) DEF StackInv
    <3> QED BY <1>4, <3>1, SMTT(30)
  <2>2. c # 0 => CallAt(c).group = b
    <3>1. c # 0 => g = CallAt(c).group + 1
      BY <1>0, <1>2, <1>3, <1>4 DEF StackInv
    <3> QED BY <1>4, <1>9, <3>1, SMTT(30)
  <2>3. /\ \A j \in 1..c : calls[j].index \in DOMAIN txcalls
        /\ \A i, j \in 1..c : i < j => calls[i].index < calls[j].index
        /\ \A j \in 1..c : CallAt(j).is_persistent <=> CallAt(j).group = 0
        /\ \A j \in 1..c : j + 1 \in 1..c =>
              CallAt(j + 1).group = IF CallAt(j + 1).is_success THEN CallAt(j).group
                                    ELSE CallAt(j).group + 1
        /\ CallAt(1).group = IF CallAt(1).is_success THEN 0 ELSE 1
    BY <1>0, <1>2, <1>4, ZenonT(30) DEF StackInv
  <2>4. pc' = "done" <=> c = 0
    BY <1>1, <1>4, SMTT(30)
  <2>5. pc' # "revert" /\ pc' # "begin"
    BY <1>1
  <2>6. c # 0 => (CallAt(1).group = IF CallAt(1).is_success THEN 0 ELSE 1)'
    BY <1>4, <1>9, <2>3, ZenonT(30)
  <2>7. c # 0 => (CallAt(Len(calls)).group = Len(groups))'
    <3>1. c # 0 => txcalls'[calls'[c].index].group = b
      BY <1>4, <1>9, <2>2, ZenonT(30) DEF CallAt
    <3> QED BY <1>5, <1>6, <3>1 DEF CallAt
  <2>8. \A j \in 1..c : (CallAt(j).is_persistent <=> CallAt(j).group = 0)'
    BY <1>9, <2>3, SMTT(30)
  <2>9. \A j \in 1..c : j + 1 \in 1..c =>
           (CallAt(j + 1).group = IF CallAt(j + 1).is_success THEN CallAt(j).group
                                  ELSE CallAt(j).group + 1)'
    BY <1>9, <2>3, SMTT(30)
  <2>10. /\ \A j \in 1..c : calls'[j].index \in DOMAIN txcalls'
         /\ \A i, j \in 1..c : i < j => calls'[i].index < calls'[j].index
    BY <1>8, <1>9, <2>3, ZenonT(30)
  <2> QED BY <1>5, <1>6, <2>1, <2>4, <2>5, <2>6, <2>7, <2>8, <2>9, <2>10 DEF StackInv
<1>12. NestInv'
  <2>1. SUFFICES ASSUME NEW i \in 1..c, NEW j \in 1..c, i < j, ~CallAt(j).is_success
                 PROVE  CallAt(i).group < CallAt(j).group
    BY <1>6, <1>9, SMTT(30) DEF NestInv
  <2> QED BY <1>0, <1>2, <1>4, <2>1 DEF NestInv
<1>13. CallInv'
  <2>1. SUFFICES ASSUME NEW x \in DOMAIN txcalls
                 PROVE  /\ txcalls'[x].group <= b
                        /\ txcalls'[x].offset <= n
                        /\ txcalls'[x].group # 0 =>
                              /\ ~txcalls'[x].is_persistent
                              /\ txcalls'[x].rw_counter_end_of_reversion = 0
    BY <1>n, <1>1, <1>5, <1>8 DEF CallInv
  <2>2. CASE txcalls[x].group = g
    BY <1>4, <1>7, <1>8, <2>1, <2>2, SMTT(30)
  <2>3. CASE txcalls[x].group # g
    <3>1. txcalls'[x] = txcalls[x] /\ txcalls[x].group <= b
      BY <1>4, <1>7, <1>8, <2>1, <2>3, SMTT(30)
    <3>2. txcalls[x].group # 0 => /\ ~txcalls[x].is_persistent
                                  /\ txcalls[x].rw_counter_end_of_reversion = 0
      BY <1>0, <2>1 DEF CallInv
    <3> QED BY <1>7, <2>1, <3>1, <3>2
  <2> QED BY <2>2, <2>3
<1>14. OffsetInv'
  <2>1. \A j \in 1..c : (~CallAt(j).is_success => CallAt(j).offset = 0)'
    <3>1. \A j \in 1..c : ~CallAt(j).is_success => CallAt(j).offset = 0
      BY <1>0, <1>2, <1>4, ZenonT(30) DEF OffsetInv
    <3> QED BY <1>9, <3>1
  <2>2. \A j \in 1..c : j + 1 \in 1..c /\ CallAt(j)'.group # 0 =>
           (CallAt(j).offset + calls[j].reversible_write_counter
              = IF CallAt(j + 1).is_success THEN CallAt(j + 1).offset
                ELSE Len(groups[CallAt(j).group]))'
    <3>1. SUFFICES ASSUME NEW j \in 1..c, j + 1 \in 1..c, CallAt(j).group # 0
                   PROVE  (CallAt(j).offset + calls[j].reversible_write_counter
                              = IF CallAt(j + 1).is_success THEN CallAt(j + 1).offset
                                ELSE Len(groups[CallAt(j).group]))'
      BY <1>9
    <3>2. CallAt(j).offset + calls[j].reversible_write_counter
            = IF CallAt(j + 1).is_success THEN CallAt(j + 1).offset
              ELSE Len(groups[CallAt(j).group])
      BY <1>0, <1>2, <1>4, <3>1, ZenonT(30) DEF OffsetInv
    <3>3. CallAt(j).group \in 1..b
      BY <1>4, <1>9, <3>1, SMTT(30)
    <3>4. groups'[CallAt(j).group] = groups[CallAt(j).group]
      BY <1>5, <3>3
    <3> QED BY <1>9, <3>1, <3>2, <3>4
  <2>3. (calls # <<>> /\ pc # "revert" /\ groups # <<>> =>
           CallAt(Len(calls)).offset + Last(calls).reversible_write_counter
             = Len(Last(groups)))'
    <3>1. SUFFICES ASSUME c # 0, b # 0
                   PROVE  txcalls'[calls'[c].index].offset
                            + calls'[c].reversible_write_counter = Len(groups'[b])
      BY <1>5, <1>6 DEF CallAt, Last
    <3>2. c \in 1..c /\ c + 1 = d /\ c \in 1..d /\ b \in 1..b
      BY <1>4, <3>1, SMTT(30)
    <3>3. CallAt(c).group = b
      <4>1. g = CallAt(c).group + 1
        BY <1>0, <1>2, <1>3, <3>2 DEF StackInv
      <4> QED BY <1>4, <1>9, <3>2, <4>1, SMTT(30)
    <3>4. CallAt(c).offset + calls[c].reversible_write_counter = Len(groups[b])
      BY <1>0, <1>2, <1>3, <3>1, <3>2, <3>3 DEF OffsetInv
    <3>5. txcalls'[calls'[c].index] = CallAt(c) /\ calls'[c] = calls[c]
      BY <1>9, <3>2 DEF CallAt
    <3>6. groups'[b] = groups[b]
      BY <1>5, <3>2
    <3> QED BY <3>4, <3>5, <3>6
  <2> QED BY <1>6, <2>1, <2>2, <2>3 DEF OffsetInv
<1>15. GroupInv'
  <2>1. SUFFICES ASSUME NEW m \in 1..b, NEW i \in DOMAIN groups'[m]
                 PROVE  GroupAt(m, i)'
    BY <1>5 DEF GroupInv
  <2>2. groups'[m] = groups[m] /\ m \in 1..g /\ m # g
    BY <1>4, <1>5, <2>1
  <2>3. GroupAt(m, i)
    BY <1>0, <1>2, <2>1, <2>2 DEF GroupInv
  <2>4. \A x \in DOMAIN txcalls : txcalls[x].group = m => txcalls'[x] = txcalls[x]
    BY <1>8, <2>2
  <2>5. container' = container /\ DOMAIN txcalls' = DOMAIN txcalls
    BY <1>1, <1>8
  <2> QED BY <2>2, <2>3, <2>4, <2>5, ZenonT(30) DEF GroupAt
<1>16. OpInv'
  <2>0. container' = container /\ DOMAIN txcalls' = DOMAIN txcalls
    BY <1>1, <1>8
  <2>1. SUFFICES ASSUME NEW p \in 1..n, container[p].reversible
                 PROVE  container[p].call \in DOMAIN txcalls /\ OpAccounted(p)'
    BY <1>2, <2>0 DEF OpInv
  <2>2. container[p].call \in DOMAIN txcalls /\ OpAccounted(p)
    BY <1>0, <1>2, <2>1 DEF OpInv
  <2>c. PICK x, y, nth, slot : /\ x = container[p].call /\ y = txcalls[x]
                               /\ nth = container[p].nth
                               /\ slot = y.offset + nth + 1
    OBVIOUS
  <2>3. /\ y.group \in 0..g /\ y.offset \in Nat /\ nth \in Nat /\ slot \in Nat \ {0}
        /\ slot = y.offset + nth + 1
    <3>1. y.group \in 0..g /\ y.offset \in Nat
      BY <1>7, <2>2, <2>c
    <3>2. container[p] \in Operation
      BY <1>n, <1>0, <2>1, Typing
    <3>3. nth \in Nat
      BY <2>c, <3>2 DEF Operation
    <3> QED BY <2>c, <3>1, <3>3, SMTT(30)
  <2>4. ~y.is_persistent =>
          IF y.group = 0
          THEN Reverses(y.rw_counter_end_of_reversion - nth, p)
          ELSE IF slot <= Len(groups[y.group])
          THEN groups[y.group][slot] = p
          ELSE y.group = g /\ Reverses(n + Len(groups[y.group]) + 1 - slot, p)
    BY <1>n, <2>2, <2>c, ZenonT(30) DEF OpAccounted
  <2>5. \A q : Reverses(q, p)' <=> Reverses(q, p)
    BY <2>0 DEF Reverses
  <2>6. CASE y.group = g
    <3>1. /\ txcalls'[x].group = 0 /\ txcalls'[x].is_persistent = y.is_persistent
          /\ txcalls'[x].rw_counter_end_of_reversion = n - y.offset
      BY <1>8, <2>2, <2>6, <2>c, ZenonT(30)
    <3>2. Len(groups[g]) = 0 /\ g # 0
      BY <1>3, SMTT(30)
    <3>3. ~(slot <= 0) /\ n + 0 + 1 - slot = (n - y.offset) - nth
      BY <1>2, <2>3, SMTT(30)
    <3>4. ~y.is_persistent => Reverses((n - y.offset) - nth, p)
      BY <2>4, <2>6, <3>2, <3>3, ZenonT(30)
    <3> QED BY <2>0, <2>2, <2>c, <3>1, <3>4, ZenonT(30) DEF OpAccounted, Reverses
  <2>7. CASE y.group # g
    <3>1. txcalls'[x] = y
      BY <1>8, <2>2, <2>7, <2>c, ZenonT(30)
    <3>2. y.group # 0 => groups'[y.group] = groups[y.group]
      <4>1. y.group # 0 => y.group \in 1..b
        BY <1>4, <2>3, <2>7, SMTT(30)
      <4> QED BY <1>5, <4>1
    <3>3. ~y.is_persistent =>
            IF y.group = 0
            THEN Reverses(y.rw_counter_end_of_reversion - nth, p)
            ELSE slot <= Len(groups'[y.group]) /\ groups'[y.group][slot] = p
      BY <2>4, <2>7, <3>2, ZenonT(30)
    <3> QED BY <2>0, <2>2, <2>c, <3>1, <3>3, ZenonT(30) DEF OpAccounted, Reverses
  <2> QED BY <2>6, <2>7
<1>17. UndoInv'
  <2>1. \A m \in DOMAIN groups' : m \in DOMAIN groups /\ groups'[m] = groups[m]
    BY <1>2, <1>4, <1>5
  <2>2. container' = container /\ UndoInv
    BY <1>0, <1>1
  <2> QED BY <2>1, <2>2, SMTT(30) DEF UndoInv, RevertedOnce
<1>18. SnapInv'
  <2>1. SUFFICES ASSUME NEW j \in 1..c, ~CallAt(j).is_success, NEW k \in Keys
                 PROVE  SnapAt(j, k)'
    BY <1>6, <1>9, ZenonT(30) DEF SnapInv
  <2>m. PICK m : m = CallAt(j).group
    OBVIOUS
  <2>2. m \in 1..b /\ groups'[m] = groups[m] /\ m # g
    <3>1. m \in 1..g
      BY <1>0, <1>2, <1>4, <2>1, <2>m, FailingGroup
    <3>2. m \in 1..b
      BY <1>4, <1>9, <2>1, <2>m, <3>1, SMTT(30)
    <3> QED BY <1>4, <1>5, <3>2
  <2>3. SnapAt(j, k) /\ SnapAt(d, k)
    BY <1>0, <1>2, <1>3, <1>4, <2>1 DEF SnapInv
  <2>4. /\ \A i \in DOMAIN groups[m] :
              /\ container[groups[m][i]].key = k
              /\ \A h \in DOMAIN groups[m] : h < i => container[groups[m][h]].key # k
              => calls[j].snap[k] = container[groups[m][i]].value_prev
        /\ (\A i \in DOMAIN groups[m] : container[groups[m][i]].key # k) =>
              \A h \in 1..d : ~CallAt(h).is_success /\ CallAt(h).group = m + 1
                              => calls[j].snap[k] = calls[h].snap[k]
    BY <1>2, <2>m, <2>3, ZenonT(30) DEF SnapAt, KeyOf
  <2>5. calls[d].snap[k] = sdb[k]
    <3>1. DOMAIN groups[g] = {}
      BY <1>3, SMTT(30)
    <3> QED BY <1>n, <1>3, <2>3, <3>1, ZenonT(30) DEF SnapAt
  <2>6. (\A i \in DOMAIN groups[m] : container[groups[m][i]].key # k) =>
           /\ m = b => calls[j].snap[k] = sdb[k]
           /\ \A h \in 1..c : ~CallAt(h).is_success /\ CallAt(h).group = m + 1
                              => calls[j].snap[k] = calls[h].snap[k]
    BY <1>2, <1>3, <1>4, <2>4, <2>5, ZenonT(30)
  <2>7. /\ container' = container /\ sdb' = sdb /\ CallAt(j)'.group = m
        /\ calls'[j] = calls[j] /\ Len(groups') = b /\ DOMAIN calls' = 1..c
    BY <1>1, <1>5, <1>6, <1>9, <2>1, <2>m, ZenonT(30)
  <2>8. \A h \in 1..c : CallAt(h)' = CallAt(h) /\ calls'[h] = calls[h]
    BY <1>9
  <2> QED BY <2>2, <2>4, <2>6, <2>7, <2>8, SMTT(30) DEF SnapAt, KeyOf
<1> QED BY <1>10, <1>11, <1>12, <1>13, <1>14, <1>15, <1>16, <1>17, <1>18 DEF IndInv
\* Every step of the transaction context preserves the invariant.
LEMMA NextIndInv == IndInv /\ [Next]_vars => IndInv'
<1> SUFFICES ASSUME IndInv, [Next]_vars PROVE IndInv'
  OBVIOUS
<1>1. ASSUME NEW k \in Keys, PushRead(k) PROVE IndInv'
  BY <1>1, PushReadIndInv
<1>2. ASSUME NEW k \in Keys, NEW v \in Vals, PushWrite(k, v) PROVE IndInv'
  BY <1>2, PushWriteIndInv
<1>3. ASSUME NEW k \in Keys, NEW v \in Vals, PushOpReversible(k, v) PROVE IndInv'
  BY <1>3, PushOpReversibleIndInv
<1>4. ASSUME NEW ok \in BOOLEAN, PushCall(ok) PROVE IndInv'
  BY <1>4, PushCallIndInv
<1>5. CASE HandleReturn
  BY <1>5, HandleReturnIndInv
<1>6. CASE HandleReversion
  BY <1>6, HandleReversionIndInv
<1>7. CASE RevertOp
  BY <1>7, RevertOpIndInv
<1>8. CASE EndReversion
  BY <1>8, EndReversionIndInv
<1>9. CASE UNCHANGED vars
  <2>0. /\ TypeOK /\ StackInv /\ NestInv /\ CallInv /\ OffsetInv /\ GroupInv /\ OpInv
        /\ UndoInv /\ SnapInv
    BY DEF IndInv
  <2>1. UNCHANGED <<pc, calls, txcalls, groups, container, sdb>>
    BY <1>9 DEF vars
  <2>2. TypeOK' /\ CallInv' /\ GroupInv' /\ UndoInv'
    BY <2>0, <2>1, SMTT(30) DEF TypeOK, CallInv, GroupInv, GroupAt, UndoInv, RevertedOnce
  <2>3. StackInv' /\ NestInv' /\ OffsetInv'
    BY <2>0, <2>1, ZenonT(30) DEF StackInv, NestInv, OffsetInv, CallAt
  <2>4. OpInv'
    <3>1. SUFFICES ASSUME NEW p \in DOMAIN container, container[p].reversible
                   PROVE  container[p].call \in DOMAIN txcalls /\ OpAccounted(p)'
      BY <2>1, ZenonT(30) DEF OpInv
    <3>2. container[p].call \in DOMAIN txcalls /\ OpAccounted(p)
      BY <2>0, <3>1, ZenonT(30) DEF OpInv
    <3> QED BY <2>1, <3>2, ZenonT(30) DEF OpAccounted, Reverses
  <2>5. SnapInv'
    <3>1. SUFFICES ASSUME NEW j \in DOMAIN calls, ~CallAt(j).is_success, NEW k \in Keys
                   PROVE  SnapAt(j, k)'
      BY <2>1 DEF SnapInv, CallAt
    <3>2. SnapAt(j, k)
      BY <2>0, <3>1 DEF SnapInv
    <3> QED BY <2>1, <3>2, ZenonT(60) DEF SnapAt, KeyOf, CallAt
  <2> QED BY <2>2, <2>3, <2>4, <2>5 DEF IndInv
<1> QED
  BY <1>1, <1>2, <1>3, <1>4, <1>5, <1>6, <1>7, <1>8, <1>9 DEF Next, Done

----------------------------------------------------------------------------
(* Theorems *)

\* The bookkeeping of transaction.rs and input_state_ref.rs keeps its inductive
\* invariant, whatever the keys, the values and the shape of the call tree.
THEOREM Invariance == Spec => []IndInv
<1> QED BY InitIndInv, NextIndInv, PTL DEF Spec

\* The types of the transaction context are invariant.
THEOREM TypeCorrect == Spec => []TypeOK
<1>1. IndInv => TypeOK
  BY DEF IndInv
<1> QED BY <1>1, Invariance, PTL

\* Every reversible write of a call that does not persist has its reversal at
\* rw_counter_end_of_reversion - n, where reversible_write looks it up.
THEOREM ReversionLookupHolds == Spec => []ReversionLookup
<1>1. IndInv => ReversionLookup
  <2>1. SUFFICES ASSUME IndInv, NEW p \in DOMAIN container, container[p].reversible,
                        ~txcalls[container[p].call].is_persistent,
                        txcalls[container[p].call].rw_counter_end_of_reversion # 0
                          \/ pc = "done"
                 PROVE  Reverses(txcalls[container[p].call].rw_counter_end_of_reversion
                                   - container[p].nth, p)
    BY DEF ReversionLookup
  <2>2. container[p].call \in DOMAIN txcalls /\ OpAccounted(p)
    BY <2>1 DEF IndInv, OpInv
  <2>3. txcalls[container[p].call].group = 0
    <3>1. CASE pc = "done"
      <4>1. groups = <<>> /\ Len(groups) = 0
        BY <2>1, <3>1 DEF IndInv, StackInv
      <4>2. txcalls[container[p].call].group <= 0
        BY <2>1, <2>2, <4>1 DEF IndInv, CallInv
      <4>3. txcalls[container[p].call].group \in Nat
        BY <2>1, <2>2, Typing DEF IndInv, Call
      <4> QED BY <4>2, <4>3, SMTT(30)
    <3>2. CASE pc # "done"
      BY <2>1, <2>2, <3>2 DEF IndInv, CallInv
    <3> QED BY <3>1, <3>2
  <2> QED BY <2>1, <2>2, <2>3 DEF OpAccounted
<1> QED BY <1>1, Invariance, PTL

\* handle_reversion undoes no operation twice.
THEOREM RevertedOnceHolds == Spec => []RevertedOnce
<1>1. IndInv => RevertedOnce
  BY DEF IndInv, UndoInv
<1> QED BY <1>1, Invariance, PTL

\* The expect() calls of push_op_reversible, push_call_ctx and handle_reversion on the
\* group stack cannot fire.
THEOREM PersistentOrGroupedHolds == Spec => []PersistentOrGrouped
<1>1. IndInv => PersistentOrGrouped
  <2>1. SUFFICES ASSUME IndInv, Running
                 PROVE  IF CurrentCall.is_persistent THEN groups = <<>>
                        ELSE groups # <<>> /\ CurrentCall.group = Len(groups)
    BY DEF PersistentOrGrouped
  <2>2. CurrentCall = CallAt(Len(calls)) /\ Len(calls) \in DOMAIN calls
    BY <2>1, Typing, SMTT(30) DEF IndInv, CurrentCall, CallAt, Last, Running
  <2>3. /\ CallAt(Len(calls)).group = Len(groups)
        /\ CallAt(Len(calls)).is_persistent <=> CallAt(Len(calls)).group = 0
    BY <2>1, <2>2 DEF IndInv, StackInv, Running
  <2>4. groups = <<>> <=> Len(groups) = 0
    BY <2>1, Typing DEF IndInv
  <2> QED BY <2>2, <2>3, <2>4
<1> QED BY <1>1, Invariance, PTL

\* handle_reversion inserts as many reversals as the reversible_write_counter that
\* RestoreContextGadget adds to the rw counter of a failed call.
THEOREM ReversalCountHolds == Spec => []ReversalCount
<1>1. IndInv => ReversalCount
  <2>1. SUFFICES ASSUME IndInv, Running, ~CurrentCall.is_success
                 PROVE  Len(Last(groups)) = Last(calls).reversible_write_counter
    BY DEF ReversalCount
  <2>2. /\ CurrentCall = CallAt(Len(calls)) /\ Len(calls) \in DOMAIN calls
        /\ calls # <<>> /\ pc # "revert"
    BY <2>1, Typing, SMTT(30) DEF IndInv, CurrentCall, CallAt, Last, Running
  <2>3. CallAt(Len(calls)).offset = 0
    BY <2>1, <2>2 DEF IndInv, OffsetInv
  <2>4. CallAt(Len(calls)).group \in DOMAIN groups
    BY <2>1, <2>2, FailingGroup DEF IndInv
  <2>5. groups # <<>>
    BY <2>4, SMTT(30)
  <2>6. CallAt(Len(calls)).offset + Last(calls).reversible_write_counter
          = Len(Last(groups))
    BY <2>1, <2>2, <2>5 DEF IndInv, OffsetInv
  <2>7. Last(calls).reversible_write_counter \in Nat
    BY <2>1, <2>2, Typing DEF IndInv, CallContext
  <2> QED BY <2>3, <2>6, <2>7, SMTT(30)
<1> QED BY <1>1, Invariance, PTL
-----------------------------------------------------------------------------
(***************************************************************************)
(* The reversion groups of TransactionContext implement Journal.           *)
(***************************************************************************)

\* The snapshots of the call stack, as the frames of the journal.
LEMMA FramesFacts ==
    ASSUME TypeOK
    PROVE  LET n == IF pc = "revert" THEN Len(calls) - 1 ELSE Len(calls) IN
           calls # <<>> =>
             /\ JournalFrames \in Seq(State)
             /\ Len(JournalFrames) = n
             /\ n \in Nat
             /\ \A j \in 1..n : JournalFrames[j] = calls[j].snap
<1>n. PICK n : n = IF pc = "revert" THEN Len(calls) - 1 ELSE Len(calls)
  OBVIOUS
<1>1. SUFFICES ASSUME calls # <<>>
               PROVE  /\ JournalFrames \in Seq(State)
                      /\ Len(JournalFrames) = n
                      /\ n \in Nat
                      /\ \A j \in 1..n : JournalFrames[j] = calls[j].snap
  BY <1>n
<1>2. Len(calls) \in Nat \ {0}
  BY <1>1, Typing
<1>3. n \in Nat /\ \A j \in 1..n : j \in 1..Len(calls)
  BY <1>n, <1>2, SMTT(30)
<1>4. \A j \in 1..n : calls[j].snap \in State
  BY <1>3, Typing DEF CallContext
<1>5. JournalFrames = [j \in 1..n |-> calls[j].snap]
  BY <1>n DEF JournalFrames
<1>6. JournalFrames \in Seq(State)
  BY <1>3, <1>4, <1>5, SMTT(30)
<1>7. Len(JournalFrames) = n
  BY <1>3, <1>5, <1>6, SeqFacts, SMTT(30)
<1> QED BY <1>3, <1>5, <1>6, <1>7

\* Transaction::new opens the journal with one frame.
LEMMA InitRefines == Init => J!Init
<1> SUFFICES ASSUME Init PROVE J!Init
  OBVIOUS
<1>1. PICK s \in State :
        /\ pc = "begin"
        /\ calls = <<[index |-> 1, reversible_write_counter |-> 0, snap |-> s]>>
        /\ sdb = s
  BY DEF Init
<1>2. JournalState = s
  BY <1>1 DEF JournalState
<1>3. Len(calls) = 1 /\ calls[1].snap = s
  BY <1>1
<1>4. JournalFrames = [j \in 1..1 |-> s]
  BY <1>1, <1>3, SMTT(30) DEF JournalFrames
<1>5. [j \in 1..1 |-> s] = <<s>>
  BY SMTT(30)
<1> QED BY <1>1, <1>2, <1>4, <1>5 DEF J!Init, State

\* Every step is a step of the journal or changes nothing of it.
LEMMA NextRefines == IndInv /\ IndInv' /\ [Next]_vars => [J!Next]_(J!vars)
<1> SUFFICES ASSUME IndInv, IndInv', [Next]_vars PROVE [J!Next]_(J!vars)
  OBVIOUS
<1>0. TypeOK /\ StackInv /\ SnapInv /\ TypeOK' /\ StackInv'
  BY DEF IndInv
<1>1. ASSUME calls' = calls, pc' = pc, sdb' = sdb \/ pc = "revert"
      PROVE  UNCHANGED J!vars
  BY <1>1 DEF J!vars, JournalState, JournalFrames
<1>2. ASSUME NEW k \in Keys, NEW v \in Vals, PushWrite(k, v)
      PROVE  J!WritePermanent(k, v)
  <2>1. /\ pc = "begin" /\ pc' = "begin" /\ sdb' = [sdb EXCEPT ![k] = v]
        /\ calls' = [j \in DOMAIN calls |-> [calls[j] EXCEPT !.snap[k] = v]]
    BY <1>2 DEF PushWrite
  <2>2. /\ Len(calls) = 1 /\ calls # <<>> /\ DOMAIN calls = {1}
        /\ calls[1] \in CallContext
    BY <1>0, <2>1, Typing, SMTT(30) DEF StackInv
  <2>3. Len(calls') = 1
    BY <1>0, <2>1, <2>2 DEF StackInv
  <2>4. calls'[1].snap = [calls[1].snap EXCEPT ![k] = v]
    BY <2>1, <2>2 DEF CallContext
  <2>5. JournalFrames = [j \in 1..1 |-> calls[1].snap]
    BY <2>1, <2>2, SMTT(30) DEF JournalFrames
  <2>6. JournalFrames' = [j \in 1..1 |-> calls'[1].snap]
    BY <2>1, <2>3, SMTT(30) DEF JournalFrames
  <2>7. JournalFrames # <<>>
    BY <2>5, SMTT(30)
  <2>8. JournalFrames' = [j \in DOMAIN JournalFrames |-> [JournalFrames[j] EXCEPT ![k] = v]]
    BY <2>4, <2>5, <2>6
  <2>9. JournalState = sdb /\ JournalState' = sdb'
    BY <2>1 DEF JournalState
  <2> QED BY <2>1, <2>7, <2>8, <2>9 DEF J!WritePermanent
<1>3. ASSUME NEW k \in Keys, NEW v \in Vals, PushOpReversible(k, v)
      PROVE  J!Write(k, v)
  <2>1. /\ pc \in {"begin", "run"} /\ pc' = "run" /\ sdb' = [sdb EXCEPT ![k] = v]
        /\ calls # <<>>
        /\ calls' = [calls EXCEPT ![Len(calls)].reversible_write_counter = @ + 1]
    BY <1>3 DEF PushOpReversible, Running
  <2>2. /\ Len(calls) \in Nat \ {0} /\ DOMAIN calls = 1..Len(calls)
        /\ \A j \in 1..Len(calls) : calls[j] \in CallContext
    BY <1>0, <2>1, Typing
  <2>3. Len(calls') = Len(calls) /\ \A j \in 1..Len(calls) : calls'[j].snap = calls[j].snap
    BY <2>1, <2>2, SMTT(30) DEF CallContext
  <2>4. JournalFrames' = JournalFrames
    BY <2>1, <2>3, ZenonT(30) DEF JournalFrames
  <2>5. JournalFrames # <<>>
    BY <1>0, <2>1, <2>2, FramesFacts, ZenonT(30)
  <2>6. JournalState = sdb /\ JournalState' = sdb'
    BY <2>1 DEF JournalState
  <2> QED BY <2>1, <2>4, <2>5, <2>6 DEF J!Write
<1>4. ASSUME NEW ok \in BOOLEAN, PushCall(ok)
      PROVE  J!Open
  <2>n. PICK d : d = Len(calls)
    BY ZenonT(30)
  <2>1. /\ pc \in {"begin", "run"} /\ pc' = "run" /\ sdb' = sdb /\ calls # <<>>
        /\ calls' = Append(calls, [index |-> Len(txcalls) + 1,
                                   reversible_write_counter |-> 0, snap |-> sdb])
    BY <1>4 DEF PushCall, Running
  <2>2. d \in Nat \ {0} /\ calls \in Seq(CallContext)
    BY <2>n, <1>0, <2>1, Typing DEF TypeOK
  <2>3. /\ Len(calls') = d + 1 /\ \A j \in 1..d : calls'[j] = calls[j]
        /\ calls'[d + 1].snap = sdb
    BY <2>n, <2>1, <2>2, SMTT(30)
  <2>4. /\ JournalFrames \in Seq(State) /\ Len(JournalFrames) = d
        /\ \A j \in 1..d : JournalFrames[j] = calls[j].snap
    BY <2>n, <1>0, <2>1, FramesFacts
  <2>5. JournalFrames' = [j \in 1..(d + 1) |-> calls'[j].snap]
    BY <2>1, <2>3 DEF JournalFrames
  <2>6. JournalState = sdb /\ JournalState' = sdb
    BY <2>1 DEF JournalState
  <2>7. sdb \in State
    BY <1>0 DEF TypeOK
  <2>8. JournalFrames' = Append(JournalFrames, sdb)
    <3>1. PICK a : a = Append(JournalFrames, sdb)
      BY ZenonT(30)
    <3>2. /\ a \in Seq(State) /\ Len(a) = d + 1 /\ a[d + 1] = sdb
          /\ \A j \in 1..d : a[j] = JournalFrames[j]
      BY <2>4, <2>7, <3>1, AppendFacts, SMTT(30)
    <3>3. \A j \in 1..(d + 1) : a[j] = calls'[j].snap
      <4>1. \A j \in 1..(d + 1) : j \in 1..d \/ j = d + 1
        BY <2>2, SMTT(30)
      <4> QED BY <2>3, <2>4, <3>2, <4>1
    <3>4. a = [j \in 1..(d + 1) |-> a[j]]
      BY <3>2, SMTT(30)
    <3>5. a = [j \in 1..(d + 1) |-> calls'[j].snap]
      BY <3>3, <3>4
    <3> QED BY <2>5, <3>1, <3>5
  <2>9. JournalFrames # <<>>
    BY <2>2, <2>4
  <2> QED BY <2>6, <2>8, <2>9 DEF J!Open
<1>5. ASSUME HandleReturn
      PROVE  J!Commit
  <2>n. PICK d : d = Len(calls)
    BY ZenonT(30)
  <2>1. /\ pc \in {"begin", "run"} /\ pc' \in {"done", "run"} /\ sdb' = sdb
        /\ calls # <<>> /\ calls' = PopCallCtx
    BY <1>5 DEF HandleReturn, Running, AfterPop
  <2>2. d \in Nat \ {0} /\ calls \in Seq(CallContext)
    BY <2>n, <1>0, <2>1, Typing DEF TypeOK
  <2>3. Len(calls') = d - 1 /\ \A j \in 1..(d - 1) : calls'[j].snap = calls[j].snap
    <3>1. /\ Front(calls) \in Seq(CallContext) /\ Len(Front(calls)) = d - 1
          /\ \A j \in 1..(d - 1) : Front(calls)[j] = calls[j]
      BY <2>n, <2>1, <2>2, FrontFacts
    <3>2. CASE calls' = Front(calls)
      BY <3>1, <3>2
    <3>3. CASE calls' # Front(calls)
      <4>1. /\ Front(calls) # <<>>
            /\ calls' = [Front(calls) EXCEPT ![Len(Front(calls))].reversible_write_counter =
                             @ + Last(calls).reversible_write_counter]
        BY <2>1, <3>3 DEF PopCallCtx
      <4>2. PICK f, c : f = Front(calls) /\ c = d - 1
        OBVIOUS
      <4>3. f \in Seq(CallContext) /\ Len(f) = c /\ f # <<>> /\ c \in 1..c
        BY <3>1, <4>1, <4>2, SeqFacts, SMTT(30)
      <4>4. calls' = [f EXCEPT ![c].reversible_write_counter =
                         @ + Last(calls).reversible_write_counter]
        BY <4>1, <4>2, <4>3
      <4>5. \A j \in 1..c : f[j] \in CallContext
        BY <4>3, SeqFacts
      <4>6. Len(calls') = c /\ \A j \in 1..c : calls'[j].snap = f[j].snap
        BY <4>3, <4>4, <4>5, SMTT(30) DEF CallContext
      <4> QED BY <3>1, <4>2, <4>6
    <3> QED BY <3>2, <3>3
  <2>4. /\ JournalFrames \in Seq(State) /\ Len(JournalFrames) = d
        /\ \A j \in 1..d : JournalFrames[j] = calls[j].snap
    BY <2>n, <1>0, <2>1, FramesFacts
  <2>5. JournalFrames' = [j \in 1..(d - 1) |-> calls'[j].snap]
    BY <2>1, <2>3 DEF JournalFrames
  <2>6. JournalState' = JournalState
    BY <2>1 DEF JournalState
  <2>7. JournalFrames # <<>>
    BY <2>2, <2>4
  <2>8. JournalFrames' = Front(JournalFrames)
    <3>1. /\ Front(JournalFrames) \in Seq(State) /\ Len(Front(JournalFrames)) = d - 1
          /\ \A j \in 1..(d - 1) : Front(JournalFrames)[j] = JournalFrames[j]
      BY <2>4, <2>7, FrontFacts
    <3>2. \A j \in 1..(d - 1) : Front(JournalFrames)[j] = calls'[j].snap
      BY <2>2, <2>3, <2>4, <3>1, SMTT(30)
    <3>3. DOMAIN Front(JournalFrames) = 1..(d - 1)
      BY <3>1, SeqFacts
    <3> QED BY <2>5, <3>1, <3>2, <3>3, SMTT(30)
  <2> QED BY <2>6, <2>7, <2>8 DEF J!Commit, Front
<1>6. ASSUME HandleReversion
      PROVE  J!Rollback
  <2>n. PICK d : d = Len(calls)
    BY ZenonT(30)
  <2>1. /\ pc \in {"begin", "run"} /\ pc' = "revert" /\ calls' = calls /\ calls # <<>>
    BY <1>6 DEF HandleReversion, Running
  <2>2. d \in Nat \ {0}
    BY <2>n, <1>0, <2>1, Typing
  <2>3. /\ JournalFrames \in Seq(State) /\ Len(JournalFrames) = d
        /\ \A j \in 1..d : JournalFrames[j] = calls[j].snap
    BY <2>n, <1>0, <2>1, FramesFacts
  <2>4. JournalFrames' = [j \in 1..(d - 1) |-> calls[j].snap]
    BY <2>n, <2>1 DEF JournalFrames
  <2>5. JournalState' = calls[d].snap
    BY <2>n, <2>1 DEF JournalState, Last
  <2>6. JournalFrames # <<>>
    BY <2>2, <2>3
  <2>7. JournalFrames' = Front(JournalFrames)
    <3>1. /\ Front(JournalFrames) \in Seq(State) /\ Len(Front(JournalFrames)) = d - 1
          /\ \A j \in 1..(d - 1) : Front(JournalFrames)[j] = JournalFrames[j]
      BY <2>3, <2>6, FrontFacts
    <3>2. \A j \in 1..(d - 1) : Front(JournalFrames)[j] = calls[j].snap
      BY <2>2, <2>3, <3>1, SMTT(30)
    <3>3. DOMAIN Front(JournalFrames) = 1..(d - 1)
      BY <3>1, SeqFacts
    <3> QED BY <2>4, <3>1, <3>2, <3>3, SMTT(30)
  <2>8. JournalState' = JournalFrames[Len(JournalFrames)]
    BY <2>2, <2>3, <2>5, SMTT(30)
  <2> QED BY <2>6, <2>7, <2>8 DEF J!Rollback, Front
<1>7. ASSUME EndReversion
      PROVE  UNCHANGED J!vars
  <2>n. PICK d, g : d = Len(calls) /\ g = Len(groups)
    BY ZenonT(30)
  <2>1. /\ pc = "revert" /\ pc' \in {"done", "run"} /\ sdb' = sdb
        /\ Last(groups) = <<>> /\ calls' = PopCallCtx
    BY <1>7 DEF EndReversion, AfterPop
  <2>2. /\ calls # <<>> /\ ~CallAt(d).is_success /\ CallAt(d).group = g
    BY <2>n, <1>0, <2>1, ZenonT(30) DEF StackInv
  <2>3. d \in Nat \ {0} /\ d \in DOMAIN calls /\ calls \in Seq(CallContext)
        /\ calls[d] \in CallContext
    BY <2>n, <1>0, <2>2, Typing, SMTT(30) DEF TypeOK
  <2>4. DOMAIN groups[g] = {}
    BY <2>n, <2>1, SMTT(30) DEF Last
  <2>5. \A k \in Keys : calls[d].snap[k] = sdb[k]
    BY <2>n, <1>0, <2>2, <2>3, <2>4, ZenonT(30) DEF SnapInv, SnapAt
  <2>6. calls[d].snap = sdb
    <3>1. calls[d].snap \in State /\ sdb \in State
      BY <1>0, <2>3 DEF TypeOK, CallContext
    <3> QED BY <2>5, <3>1, SMTT(30) DEF State
  <2>7. JournalState' = JournalState
    BY <2>n, <2>1, <2>6 DEF JournalState, Last
  <2>8. calls' = Front(calls)
    BY <2>n, <2>1, <2>2 DEF PopCallCtx, CallAt, Last
  <2>9. Len(calls') = d - 1 /\ \A j \in 1..(d - 1) : calls'[j] = calls[j]
    BY <2>n, <2>2, <2>3, <2>8, FrontFacts
  <2>10. JournalFrames' = JournalFrames
    BY <2>n, <2>1, <2>9 DEF JournalFrames
  <2> QED BY <2>7, <2>10 DEF J!vars
<1>8. ASSUME NEW k \in Keys, PushRead(k)
      PROVE  UNCHANGED J!vars
  BY <1>1, <1>8 DEF PushRead
<1>9. ASSUME RevertOp
      PROVE  UNCHANGED J!vars
  BY <1>1, <1>9 DEF RevertOp
<1>10. ASSUME UNCHANGED vars
      PROVE  UNCHANGED J!vars
  BY <1>1, <1>10 DEF vars
<1> QED
  BY <1>2, <1>3, <1>4, <1>5, <1>6, <1>7, <1>8, <1>9, <1>10 DEF Next, Done, J!Next

\* The reversion groups implement the journal: whatever calls fail, each puts back
\* exactly the state it was entered with.
THEOREM Refinement == Spec => JournalSpec
<1> QED BY InitRefines, NextRefines, Invariance, PTL DEF Spec, JournalSpec, J!Spec
=============================================================================
