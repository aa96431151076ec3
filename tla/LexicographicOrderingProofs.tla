-------------------- MODULE LexicographicOrderingProofs --------------------
(***************************************************************************)
(* The ordering gates, the prover's advice and the meaning of the index,   *)
(* for every number and size of limbs and every field.  The recursions (a  *)
(* number from its limbs, an index from its bits) are unrolled with the    *)
(* least counterexample that LeastNatural gives.                           *)
(***************************************************************************)
EXTENDS LexicographicOrdering, TLAPS, WellFoundedInduction

\* A nonempty set of natural numbers has a least member: induction over the limbs and over the
\* bits of the index is carried out on it.
LEMMA LeastNatural ==
    ASSUME NEW T \in SUBSET Nat, T # {}
    PROVE  \E m \in T : \A n \in T : m <= n
<1> DEFINE R == {ss \in Nat \X Nat : ss[1] < ss[2]}
<1>0. IsWellFoundedOn(R, Nat)
  BY NatLessThanWellFounded, Zenon DEF OpToRel
<1>a. SUFFICES ASSUME IsWellFoundedOn(R, Nat) PROVE \E m \in T : \A n \in T : m <= n
  BY <1>0
<1>1. \E x \in T : \A y \in T : ~(<<y, x>> \in R)
  <2> HIDE DEF R
  <2> QED BY <1>a, WFMin, Zenon
<1>2. PICK x \in T : \A y \in T : ~(<<y, x>> \in R)
  BY <1>1, Zenon
<1>3. ASSUME NEW y \in T PROVE x <= y
  <2>1. ~(<<y, x>> \in R)
    BY <1>2, Zenon
  <2>2. ~(y < x)
    BY <2>1, SMT
  <2> QED BY <2>2, SMT
<1> QED BY <1>3, Zenon

\* Products of natural numbers are natural numbers.
LEMMA TimesNatural == ASSUME NEW b \in Nat, NEW x \in Nat PROVE b * x \in Nat
  BY SMT

\* One more limb appended to a natural number gives a natural number.
LEMMA NextSum ==
    ASSUME NEW a \in Nat, NEW l \in Limbs, NEW i \in 0..(N - 1)
    PROVE  Base * a + l[i] \in Nat
<1>1. l[i] \in Nat
  BY DEF Limbs
<1>2. Base * a \in Nat
  BY SizeAssumption, TimesNatural
<1> QED BY <1>1, <1>2

\* The prefixes of a row have their numbers: f[i] is the number of the first i limbs.
Sums(f, l) ==
    /\ f \in [0..N -> Nat]
    /\ f[0] = 0
    /\ \A i \in 0..(N - 1) : f[i + 1] = Base * f[i] + l[i]

\* The partial sums of the big-endian limbs exist: the recursion of X is well founded.
LEMMA SumsExist ==
    ASSUME NEW l \in Limbs
    PROVE  \E f : Sums(f, l)
<1> DEFINE Upto(n) == \E f \in [0..N -> Nat] :
              f[0] = 0 /\ \A i \in 0..(n - 1) : f[i + 1] = Base * f[i] + l[i]
           T == {n \in 0..N : ~Upto(n)}
<1>0. N \in Nat
  BY SizeAssumption
<1>1. Upto(0)
  <2>1. [i \in 0..N |-> 0] \in [0..N -> Nat]
    OBVIOUS
  <2>2. [i \in 0..N |-> 0][0] = 0 /\ 0..(0 - 1) = {}
    BY <1>0
  <2> QED BY <2>1, <2>2, ZenonT(30)
<1>2. ASSUME NEW n \in 0..N, n # N, Upto(n) PROVE Upto(n + 1)
  <2>1. PICK f \in [0..N -> Nat] :
           f[0] = 0 /\ \A i \in 0..(n - 1) : f[i + 1] = Base * f[i] + l[i]
    BY <1>2, ZenonT(30)
  <2>2. n \in 0..(N - 1) /\ n + 1 \in 0..N /\ n \in Nat
    BY <1>0, <1>2
  <2>3. f[n] \in Nat
    BY <2>2, <1>0
  <2>4. Base * f[n] + l[n] \in Nat
    BY <2>2, <2>3, NextSum
  <2> DEFINE g == [f EXCEPT ![n + 1] = Base * f[n] + l[n]]
  <2>5. g \in [0..N -> Nat]
    BY <2>4, ZenonT(30)
  <2>6. g[0] = 0
    BY <2>1, <2>2, <1>0
  <2>7. ASSUME NEW i \in 0..((n + 1) - 1) PROVE g[i + 1] = Base * g[i] + l[i]
    <3>1. g[i] = f[i]
      BY <2>2, <1>0
    <3>2. CASE i = n
      BY <3>1, <3>2, <2>2, <1>0
    <3>3. CASE i # n
      <4>1. i \in 0..(n - 1) /\ i + 1 # n + 1 /\ i + 1 \in 0..N
        BY <3>3, <2>2, <1>0
      <4>2. g[i + 1] = f[i + 1]
        BY <4>1
      <4> QED BY <4>1, <4>2, <3>1, <2>1
    <3> QED BY <3>2, <3>3
  <2> HIDE DEF g
  <2> QED BY <2>5, <2>6, <2>7, ZenonT(30)
<1> HIDE DEF Upto
<1>3. T = {}
  <2> SUFFICES ASSUME T # {} PROVE FALSE
    OBVIOUS
  <2>1. T \in SUBSET Nat
    OBVIOUS
  <2>2. PICK m \in T : \A n \in T : m <= n
    BY <2>1, LeastNatural, ZenonT(30)
  <2>3. m \in 0..N /\ ~Upto(m) /\ m # 0
    BY <1>1, <2>2
  <2>4. m - 1 \in 0..N /\ m - 1 # N /\ m - 1 \notin T
    BY <2>2, <2>3, <1>0
  <2>5. Upto(m - 1)
    BY <2>4
  <2>6. Upto((m - 1) + 1)
    BY <2>4, <2>5, <1>2
  <2> QED BY <2>3, <2>6
<1>4. Upto(N)
  BY <1>0, <1>3
<1> QED BY <1>4, ZenonT(30) DEF Upto, Sums

\* X, the number of the limbs of a row, is the last partial sum.
LEMMA XIsSum ==
    ASSUME NEW l \in Limbs
    PROVE  \E f : Sums(f, l) /\ X(l) = f[N]
<1>0. N \in Nat /\ N # 0
  BY SizeAssumption
<1> DEFINE D(g) == [i \in 0..N |-> IF i = 0 THEN 0 ELSE Base * g[i - 1] + l[i - 1]]
           x == CHOOSE g : g = D(g)
<1>1. PICK f : Sums(f, l)
  BY SumsExist
<1>2. f = D(f)
  <2>1. ASSUME NEW i \in 0..N PROVE f[i] = D(f)[i]
    <3>1. CASE i = 0
      BY <3>1, <1>1, <1>0 DEF Sums
    <3>2. CASE i # 0
      <4>1. i - 1 \in 0..(N - 1) /\ (i - 1) + 1 = i
        BY <3>2, <1>0
      <4> QED BY <4>1, <3>2, <1>1 DEF Sums
    <3> QED BY <3>1, <3>2
  <2> QED BY <2>1, <1>1 DEF Sums
<1>3. x = D(x)
  <2> HIDE DEF D
  <2>1. \E g : g = D(g)
    BY <1>2, Zenon
  <2> QED BY <2>1, Zenon
<1>4. X(l) = x[N]
  BY DEF X
<1> HIDE DEF x
<1> DEFINE T == {i \in 0..N : x[i] # f[i]}
<1>5. T = {}
  <2> SUFFICES ASSUME T # {} PROVE FALSE
    OBVIOUS
  <2>0. T \in SUBSET Nat
    OBVIOUS
  <2>1. PICK m \in T : \A n \in T : m <= n
    BY <2>0, LeastNatural, ZenonT(30)
  <2>2. m # 0
    BY <1>3, <1>0, <1>1 DEF Sums
  <2>3. m - 1 \in 0..(N - 1) /\ m - 1 \in 0..N /\ m - 1 \notin T
    BY <2>1, <2>2, <1>0
  <2>4. x[m - 1] = f[m - 1]
    BY <2>3
  <2>5. x[m] = Base * x[m - 1] + l[m - 1]
    BY <1>3, <2>2, ZenonT(30)
  <2>6. f[m] = Base * f[m - 1] + l[m - 1]
    BY <1>2, <2>2, ZenonT(30)
  <2> QED BY <2>4, <2>5, <2>6
<1>6. x[N] = f[N]
  BY <1>5, <1>0
<1> QED BY <1>1, <1>4, <1>6

\* A larger factor makes a product larger by the other factor at least.
LEMMA TimesMonotone ==
    ASSUME NEW b \in Nat, NEW x \in Nat, NEW y \in Nat, x > y
    PROVE  b * x >= b * y + b
<1>1. b * (x - y) >= b
  BY SMT
<1> QED BY <1>1, SMT

\* The first limb that differs decides which of two numbers is greater.
LEMMA FirstDifferenceDecides ==
    ASSUME NEW c \in Limbs, NEW p \in Limbs, NEW f, NEW g, Sums(f, c), Sums(g, p),
           NEW i \in 0..(N - 1), c[i] > p[i], \A j \in 0..(i - 1) : c[j] = p[j]
    PROVE  f[N] > g[N]
<1> DEFINE S == {n \in 0..i : f[n] # g[n]}
           T == {n \in (i + 1)..N : ~(f[n] > g[n])}
<1>0. N \in Nat /\ Base \in Nat /\ N > 4
  BY SizeAssumption
<1>a. \A n \in 0..N : f[n] \in Nat /\ g[n] \in Nat
  BY DEF Sums
<1>b. \A n \in 0..(N - 1) : c[n] \in 0..(Base - 1) /\ p[n] \in 0..(Base - 1)
  BY DEF Limbs
<1>1. S = {}
  <2> SUFFICES ASSUME S # {} PROVE FALSE
    OBVIOUS
  <2>0. S \in SUBSET Nat
    BY <1>0
  <2>1. PICK m \in S : \A n \in S : m <= n
    BY <2>0, LeastNatural, ZenonT(30)
  <2>2. m # 0
    BY <2>1 DEF Sums
  <2>3. m - 1 \in 0..(i - 1) /\ m - 1 \in 0..(N - 1) /\ m - 1 \in 0..i /\ m - 1 \notin S
    BY <2>1, <2>2, <1>0
  <2>4. f[m - 1] = g[m - 1] /\ c[m - 1] = p[m - 1]
    BY <2>3
  <2>5. f[(m - 1) + 1] = Base * f[m - 1] + c[m - 1] /\ g[(m - 1) + 1] = Base * g[m - 1] + p[m - 1]
    BY <2>3 DEF Sums
  <2>6. (m - 1) + 1 = m
    BY <2>1
  <2> QED BY <2>1, <2>4, <2>5, <2>6
<1>2. f[i] = g[i]
  BY <1>0, <1>1
<1>3. f[i + 1] > g[i + 1]
  <2>1. f[i + 1] = Base * f[i] + c[i] /\ g[i + 1] = Base * g[i] + p[i]
    BY DEF Sums
  <2>2. Base * f[i] \in Nat
    BY <1>0, <1>a, TimesNatural
  <2> QED BY <2>1, <2>2, <1>2, <1>b
<1>4. T = {}
  <2> SUFFICES ASSUME T # {} PROVE FALSE
    OBVIOUS
  <2>0. T \in SUBSET Nat
    BY <1>0
  <2>1. PICK m \in T : \A n \in T : m <= n
    BY <2>0, LeastNatural, ZenonT(30)
  <2>2. m # i + 1 /\ m \in (i + 1)..N
    BY <2>1, <1>3
  <2>3. m - 1 \in (i + 1)..N /\ m - 1 \in 0..(N - 1) /\ m - 1 \in 0..N /\ m - 1 \notin T
    BY <2>1, <2>2, <1>0
  <2>4. f[m - 1] > g[m - 1]
    BY <2>3
  <2>5. f[(m - 1) + 1] = Base * f[m - 1] + c[m - 1] /\ g[(m - 1) + 1] = Base * g[m - 1] + p[m - 1]
    BY <2>3 DEF Sums
  <2>6. (m - 1) + 1 = m
    BY <2>1, <2>2
  <2>7. Base * f[m - 1] >= Base * g[m - 1] + Base
    BY <2>3, <2>4, <1>0, <1>a, TimesMonotone
  <2>8. Base * f[m - 1] \in Nat /\ Base * g[m - 1] \in Nat
    BY <2>3, <1>0, <1>a, TimesNatural
  <2>9. Base * f[m - 1] + c[m - 1] > Base * g[m - 1] + p[m - 1]
    BY <2>3, <2>7, <2>8, <1>b, <1>0
  <2>10. f[m] > g[m]
    BY <2>5, <2>6, <2>9
  <2> QED BY <2>1, <2>10
<1> QED BY <1>0, <1>4

\* A row whose limbs are greater in the order of the chip is a greater number.
LEMMA LargerLimbsLargerNumber ==
    ASSUME NEW c \in Limbs, NEW p \in Limbs, Greater(c, p)
    PROVE  X(c) \in Nat /\ X(p) \in Nat /\ X(c) > X(p)
<1>1. PICK i \in 0..(N - 1) : c[i] > p[i] /\ \A j \in 0..(i - 1) : c[j] = p[j]
  BY DEF Greater
<1>2. PICK f : Sums(f, c) /\ X(c) = f[N]
  BY XIsSum
<1>3. PICK g : Sums(g, p) /\ X(p) = g[N]
  BY XIsSum
<1>4. f[N] > g[N]
  BY <1>1, <1>2, <1>3, FirstDifferenceDecides
<1>5. f[N] \in Nat /\ g[N] \in Nat
  BY <1>2, <1>3, SizeAssumption DEF Sums
<1> QED BY <1>2, <1>3, <1>4, <1>5

\* Two different rows have a first limb in which they differ, the one Config::assign looks for.
LEMMA FirstDifference ==
    ASSUME NEW c \in Limbs, NEW p \in Limbs, c # p
    PROVE  \E i \in 0..(N - 1) : c[i] # p[i] /\ \A j \in 0..(i - 1) : c[j] = p[j]
<1> DEFINE T == {n \in 0..(N - 1) : c[n] # p[n]}
<1>0. N \in Nat
  BY SizeAssumption
<1>1. T # {} /\ T \in SUBSET Nat
  <2>1. \E n \in 0..(N - 1) : c[n] # p[n]
    <3> SUFFICES ASSUME \A n \in 0..(N - 1) : c[n] = p[n] PROVE c = p
      OBVIOUS
    <3>1. c = [n \in 0..(N - 1) |-> c[n]] /\ p = [n \in 0..(N - 1) |-> p[n]]
      BY DEF Limbs
    <3>2. [n \in 0..(N - 1) |-> c[n]] = [n \in 0..(N - 1) |-> p[n]]
      BY Zenon
    <3> QED BY <3>1, <3>2, Zenon
  <2>2. T # {}
    BY <2>1
  <2> QED BY <2>2, <1>0
<1>2. PICK i \in T : \A n \in T : i <= n
  BY <1>1, LeastNatural, ZenonT(30)
<1>3. ASSUME NEW j \in 0..(i - 1) PROVE c[j] = p[j]
  BY <1>0, <1>2
<1> QED BY <1>2, <1>3

\* The order of the limbs is the order of the numbers.
LEMMA OrderOfNumbers ==
    ASSUME NEW c \in Limbs, NEW p \in Limbs
    PROVE  Greater(c, p) <=> X(c) > X(p)
<1>1. CASE c = p
  <2>1. ~Greater(c, p)
    <3> SUFFICES ASSUME NEW i \in 0..(N - 1), c[i] > p[i] PROVE FALSE
      BY DEF Greater
    <3> QED BY <1>1 DEF Limbs
  <2>2. X(c) = X(p)
    BY <1>1
  <2>3. X(c) \in Nat
    <3>1. PICK f : Sums(f, c) /\ X(c) = f[N]
      BY XIsSum
    <3> QED BY <3>1, SizeAssumption DEF Sums
  <2> QED BY <2>1, <2>2, <2>3
<1>2. CASE c # p
  <2>1. PICK i \in 0..(N - 1) : c[i] # p[i] /\ \A j \in 0..(i - 1) : c[j] = p[j]
    BY <1>2, FirstDifference
  <2>2. c[i] > p[i] \/ p[i] > c[i]
    BY <2>1 DEF Limbs
  <2>3. CASE c[i] > p[i]
    <3>1. Greater(c, p)
      BY <2>1, <2>3 DEF Greater
    <3> QED BY <3>1, LargerLimbsLargerNumber
  <2>4. CASE p[i] > c[i]
    <3>1. Greater(p, c)
      BY <2>1, <2>4 DEF Greater
    <3>2. X(p) \in Nat /\ X(c) \in Nat /\ X(p) > X(c)
      BY <3>1, LargerLimbsLargerNumber
    <3>3. ~Greater(c, p)
      <4> SUFFICES ASSUME Greater(c, p) PROVE FALSE
        OBVIOUS
      <4>1. X(c) > X(p)
        BY LargerLimbsLargerNumber
      <4> QED BY <3>2, <4>1
    <3> QED BY <3>2, <3>3
  <2> QED BY <2>2, <2>3, <2>4
<1> QED BY <1>1, <1>2

----------------------------------------------------------------------------
(* The bits of the index.                                                  *)

\* Division with remainder has one quotient.
LEMMA QuotientUnique ==
    ASSUME NEW i \in Nat, NEW d \in Nat \ {0}, NEW q \in Nat, NEW r \in 0..(d - 1),
           i = d * q + r
    PROVE  i \div d = q
<1> DEFINE u == i \div d
           v == i % d
<1>1. u \in Nat /\ v \in 0..(d - 1) /\ i = d * u + v
  BY SMT
<1> HIDE DEF u, v
<1>2. ASSUME u > q PROVE FALSE
  <2>1. d * u >= d * q + d
    BY <1>1, <1>2, TimesMonotone
  <2>2. d * u \in Nat /\ d * q \in Nat
    BY <1>1, TimesNatural
  <2> QED BY <1>1, <2>1, <2>2
<1>3. ASSUME q > u PROVE FALSE
  <2>1. d * q >= d * u + d
    BY <1>1, <1>3, TimesMonotone
  <2>2. d * u \in Nat /\ d * q \in Nat
    BY <1>1, TimesNatural
  <2> QED BY <1>1, <2>1, <2>2
<1>4. u = q
  BY <1>1, <1>2, <1>3
<1> QED BY <1>4 DEF u

\* Shifting right by one bit more halves the quotient.
LEMMA Halving ==
    ASSUME NEW i \in Nat, NEW p \in Nat \ {0}
    PROVE  i \div (2 * p) = (i \div p) \div 2
<1> DEFINE q == i \div p
           r == i % p
           h == q \div 2
           b == q % 2
<1>1. q \in Nat /\ r \in 0..(p - 1) /\ i = p * q + r
  BY SMT
<1> HIDE DEF q, r
<1>2. h \in Nat /\ b \in 0..1 /\ q = 2 * h + b
  BY <1>1, SMT
<1> HIDE DEF h, b
<1>3. p * q = (2 * p) * h + p * b
  BY <1>1, <1>2, SMT
<1>4. p * b \in {0, p}
  BY <1>2, SMT
<1>5. p * b + r \in 0..((2 * p) - 1)
  BY <1>1, <1>4
<1>6. (2 * p) * h \in Nat
  BY <1>2, TimesNatural
<1>7. i = (2 * p) * h + (p * b + r)
  BY <1>1, <1>3, <1>4, <1>6
<1>8. i \div (2 * p) = h
  BY <1>2, <1>5, <1>7, QuotientUnique
<1> QED BY <1>8 DEF h, q

\* The quotients by the powers of two, from the number itself to zero.
Quotients(q, i) ==
    /\ q \in [0..IndexBits -> Nat]
    /\ q[0] = i /\ q[IndexBits] = 0
    /\ \A m \in 0..(IndexBits - 1) : q[m] = 2 * q[m + 1] + (q[m] % 2)

\* The quotients of the index by the powers of two follow one another by halving, and its bits
\* (LimbIndex, AsBits) are their parities.
LEMMA IndexQuotients ==
    ASSUME NEW i \in 0..(N - 1)
    PROVE  Quotients([m \in 0..IndexBits |-> i \div 2^m], i)
<1>0. IndexBits \in Nat /\ IndexBits > 2 /\ i \in Nat
  BY SizeAssumption
<1> DEFINE q == [m \in 0..IndexBits |-> i \div 2^m]
<1>1. \A m \in 0..IndexBits : 2^m \in Nat /\ 2^m # 0
  BY PowersOfTwo
<1>2. q \in [0..IndexBits -> Nat]
  <2>1. ASSUME NEW m \in 0..IndexBits PROVE i \div 2^m \in Nat
    BY <1>0, <1>1
  <2> QED BY <2>1
<1>3. q[0] = i
  BY <1>0, PowersOfTwo
<1>4. q[IndexBits] = 0
  <2>1. 2^IndexBits = N /\ N \in Nat /\ N # 0 /\ IndexBits \in 0..IndexBits
    BY SizeAssumption
  <2>2. i = N * 0 + i
    BY <1>0, <2>1
  <2>3. i \div N = 0
    BY <1>0, <2>1, <2>2, QuotientUnique
  <2> QED BY <2>1, <2>3
<1>5. ASSUME NEW m \in 0..(IndexBits - 1) PROVE q[m] = 2 * q[m + 1] + (q[m] % 2)
  <2>1. m \in 0..IndexBits /\ m + 1 \in 0..IndexBits /\ 2^(m + 1) = 2 * 2^m
    BY <1>0, PowersOfTwo
  <2>2. i \div 2^(m + 1) = (i \div 2^m) \div 2
    BY <1>0, <1>1, <2>1, Halving, ZenonT(30)
  <2>3. q[m] \in Nat /\ q[m + 1] = q[m] \div 2
    BY <1>2, <2>1, <2>2
  <2> HIDE DEF q
  <2> QED BY <2>3
<1> QED BY <1>2, <1>3, <1>4, <1>5, ZenonT(30) DEF Quotients

\* All the bits from m on are 0 exactly when the quotient is 0.
LEMMA ZeroBits ==
    ASSUME NEW q, NEW i, Quotients(q, i), NEW m \in 0..IndexBits
    PROVE  (\A n \in m..(IndexBits - 1) : q[n] % 2 = 0) <=> q[m] = 0
<1> DEFINE Good(k) == (\A n \in k..(IndexBits - 1) : q[n] % 2 = 0) <=> q[k] = 0
           T == {d \in 0..IndexBits : ~Good(IndexBits - d)}
<1>0. IndexBits \in Nat
  BY SizeAssumption
<1>1. Good(IndexBits)
  BY <1>0 DEF Quotients
<1>2. ASSUME NEW k \in 0..(IndexBits - 1), Good(k + 1) PROVE Good(k)
  <2>1. q[k] = 2 * q[k + 1] + (q[k] % 2) /\ q[k] \in Nat /\ q[k + 1] \in Nat
    BY <1>0 DEF Quotients
  <2>2. q[k] = 0 <=> (q[k + 1] = 0 /\ q[k] % 2 = 0)
    BY <2>1, SMTT(30)
  <2>3. k..(IndexBits - 1) = {k} \union ((k + 1)..(IndexBits - 1))
    BY <1>0
  <2> QED BY <1>2, <2>2, <2>3
<1> HIDE DEF Good
<1>3. T = {}
  <2> SUFFICES ASSUME T # {} PROVE FALSE
    OBVIOUS
  <2>0. T \in SUBSET Nat
    BY <1>0
  <2>1. PICK d \in T : \A n \in T : d <= n
    BY <2>0, LeastNatural, ZenonT(30)
  <2>2. d # 0 /\ d \in 0..IndexBits /\ ~Good(IndexBits - d)
    BY <1>0, <1>1, <2>1
  <2>3. d - 1 \in 0..IndexBits /\ d - 1 \notin T
    BY <2>1, <2>2, <1>0
  <2>4. Good(IndexBits - (d - 1))
    BY <2>3
  <2>5. IndexBits - (d - 1) = (IndexBits - d) + 1 /\ IndexBits - d \in 0..(IndexBits - 1)
    BY <2>2, <1>0
  <2>6. Good((IndexBits - d) + 1)
    BY <2>4, <2>5
  <2> QED BY <1>2, <2>2, <2>5, <2>6
<1>4. IndexBits - m \in 0..IndexBits /\ IndexBits - (IndexBits - m) = m
  BY <1>0
<1>5. Good(m)
  BY <1>3, <1>4
<1> QED BY <1>5 DEF Good

\* All the bits from m on are 1 exactly when the quotient is as large as it can be.
LEMMA OneBits ==
    ASSUME NEW q, NEW i, Quotients(q, i), NEW m \in 0..IndexBits
    PROVE  (\A n \in m..(IndexBits - 1) : q[n] % 2 = 1) <=> q[m] = 2^(IndexBits - m) - 1
<1> DEFINE Good(k) == (\A n \in k..(IndexBits - 1) : q[n] % 2 = 1)
                          <=> q[k] = 2^(IndexBits - k) - 1
           T == {d \in 0..IndexBits : ~Good(IndexBits - d)}
<1>0. IndexBits \in Nat
  BY SizeAssumption
<1>1. Good(IndexBits)
  <2>1. IndexBits - IndexBits = 0 /\ 2^0 = 1
    BY <1>0, PowersOfTwo
  <2>2. q[IndexBits] = 0 /\ IndexBits..(IndexBits - 1) = {}
    BY <1>0 DEF Quotients
  <2>3. 2^(IndexBits - IndexBits) = 1
    BY <2>1, Zenon
  <2>4. 2^(IndexBits - IndexBits) - 1 = 0
    BY <2>3
  <2> QED BY <2>2, <2>4, Zenon
<1>2. ASSUME NEW k \in 0..(IndexBits - 1), Good(k + 1) PROVE Good(k)
  <2> DEFINE p == 2^(IndexBits - (k + 1))
  <2>1. q[k] = 2 * q[k + 1] + (q[k] % 2) /\ q[k] \in Nat /\ q[k + 1] \in Nat
    BY <1>0 DEF Quotients
  <2>2. IndexBits - (k + 1) \in 0..IndexBits /\ IndexBits - k = (IndexBits - (k + 1)) + 1
    BY <1>0
  <2>3. 2^(IndexBits - k) = 2 * p /\ p \in Nat
    BY <2>2, PowersOfTwo
  <2> HIDE DEF p
  <2>4. q[k] = 2 * p - 1 <=> (q[k + 1] = p - 1 /\ q[k] % 2 = 1)
    BY <2>1, <2>3
  <2>5. k..(IndexBits - 1) = {k} \union ((k + 1)..(IndexBits - 1))
    BY <1>0
  <2>6. (\A n \in (k + 1)..(IndexBits - 1) : q[n] % 2 = 1) <=> q[k + 1] = p - 1
    BY <1>2 DEF p
  <2>7. (\A n \in k..(IndexBits - 1) : q[n] % 2 = 1) <=> q[k] = 2 * p - 1
    BY <2>4, <2>5, <2>6
  <2> QED BY <2>3, <2>7
<1> HIDE DEF Good
<1>3. T = {}
  <2> SUFFICES ASSUME T # {} PROVE FALSE
    OBVIOUS
  <2>0. T \in SUBSET Nat
    BY <1>0
  <2>1. PICK d \in T : \A n \in T : d <= n
    BY <2>0, LeastNatural, ZenonT(30)
  <2>2. d # 0 /\ d \in 0..IndexBits /\ ~Good(IndexBits - d)
    BY <1>0, <1>1, <2>1
  <2>3. d - 1 \in 0..IndexBits /\ d - 1 \notin T
    BY <2>1, <2>2, <1>0
  <2>4. Good(IndexBits - (d - 1))
    BY <2>3
  <2>5. IndexBits - (d - 1) = (IndexBits - d) + 1 /\ IndexBits - d \in 0..(IndexBits - 1)
    BY <2>2, <1>0
  <2>6. Good((IndexBits - d) + 1)
    BY <2>4, <2>5
  <2> QED BY <1>2, <2>2, <2>5, <2>6
<1>4. IndexBits - m \in 0..IndexBits /\ IndexBits - (IndexBits - m) = m
  BY <1>0
<1>5. Good(m)
  BY <1>3, <1>4
<1> QED BY <1>5 DEF Good

\* A bit is 0 or 1.
LEMMA Parity == \A x \in Nat : x % 2 \in 0..1
BY SMT

\* All the upper bits of the index are set exactly for its last two values.
LEMMA LastTwo ==
    ASSUME NEW h \in Nat, NEW p \in Nat, NEW x \in 0..1, NEW i \in 0..(N - 1),
           N = 2 * p, i = 2 * h + x
    PROVE  h = p - 1 <=> i >= N - 2
BY SMT

\* The index is above two exactly when a bit above the lowest two is set, or both of these are.
LEMMA AboveTwo ==
    ASSUME NEW i \in Nat, NEW h \in Nat, NEW g \in Nat, NEW x \in 0..1, NEW y \in 0..1,
           i = 2 * h + x, h = 2 * g + y
    PROVE  (g # 0 \/ y + x = 2) <=> i >= 3
BY SMT

\* not_first_access holds of the last two limb indices, those of the rw counter.
LEMMA NotFirstAccessIndex ==
    ASSUME NEW i \in 0..(N - 1)
    PROVE  NotFirstAccess(i) <=> i >= N - 2
<1> DEFINE q == [m \in 0..IndexBits |-> i \div 2^m]
<1>0. IndexBits \in Nat /\ IndexBits > 2 /\ N \in Nat /\ N = 2^IndexBits
  BY SizeAssumption
<1>1. Quotients(q, i)
  BY IndexQuotients, ZenonT(30)
<1>2. NotFirstAccess(i) <=> \A n \in 1..(IndexBits - 1) : q[n] % 2 = 1
  <2>1. ASSUME NotFirstAccess(i), NEW n \in 1..(IndexBits - 1) PROVE q[n] % 2 = 1
    <3>1. (IndexBits - 1) - n \in 0..(IndexBits - 2)
          /\ IndexBits - 1 - ((IndexBits - 1) - n) = n /\ n \in 0..IndexBits
      BY <1>0
    <3>2. Bit(i, (IndexBits - 1) - n) = 1
      BY <2>1, <3>1 DEF NotFirstAccess
    <3> QED BY <3>1, <3>2, ZenonT(30) DEF Bit
  <2>2. ASSUME \A n \in 1..(IndexBits - 1) : q[n] % 2 = 1, NEW k \in 0..(IndexBits - 2)
        PROVE  Bit(i, k) = 1
    <3>1. IndexBits - 1 - k \in 1..(IndexBits - 1) /\ IndexBits - 1 - k \in 0..IndexBits
      BY <1>0
    <3> QED BY <2>2, <3>1, ZenonT(30) DEF Bit
  <2> QED BY <2>1, <2>2, ZenonT(30) DEF NotFirstAccess
<1> HIDE DEF q
<1>3. (\A n \in 1..(IndexBits - 1) : q[n] % 2 = 1) <=> q[1] = 2^(IndexBits - 1) - 1
  <2>1. 1 \in 0..IndexBits
    BY <1>0
  <2> QED BY <1>1, <2>1, OneBits
<1>4. N = 2 * 2^(IndexBits - 1) /\ 2^(IndexBits - 1) \in Nat
  <2>1. IndexBits - 1 \in 0..IndexBits /\ (IndexBits - 1) + 1 = IndexBits
    BY <1>0
  <2> QED BY <1>0, <2>1, PowersOfTwo
<1>5. i = 2 * q[1] + (q[0] % 2) /\ q[0] \in Nat /\ q[1] \in Nat
  <2>1. 0 \in 0..(IndexBits - 1) /\ 0 \in 0..IndexBits /\ 1 \in 0..IndexBits /\ 0 + 1 = 1
    BY <1>0
  <2> QED BY <1>1, <2>1 DEF Quotients
<1>6. q[1] = 2^(IndexBits - 1) - 1 <=> i >= N - 2
  <2>1. q[0] % 2 \in 0..1
    BY <1>5, Parity
  <2> QED BY <1>0, <1>4, <1>5, <2>1, LastTwo
<1> QED BY <1>2, <1>3, <1>6

\* is_tag_and_id_unchanged holds of every index but 0, 1 and 2.
LEMMA TagAndIdIndex ==
    ASSUME NEW i \in 0..(N - 1)
    PROVE  TagAndIdUnchanged(i) <=> i >= 3
<1> DEFINE q == [m \in 0..IndexBits |-> i \div 2^m]
<1>0. IndexBits \in Nat /\ IndexBits > 2
  BY SizeAssumption
<1>1. Quotients(q, i)
  BY IndexQuotients, ZenonT(30)
<1>a. \A n \in 0..IndexBits : q[n] \in Nat /\ q[n] % 2 \in {0, 1}
  <2>1. ASSUME NEW n \in 0..IndexBits PROVE q[n] \in Nat
    BY <1>1, ZenonT(30) DEF Quotients
  <2> HIDE DEF q
  <2> QED BY <2>1
<1>2. (\E k \in 0..(IndexBits - 3) : Bit(i, k) = 1)
         <=> ~(\A n \in 2..(IndexBits - 1) : q[n] % 2 = 0)
  <2>1. ASSUME NEW k \in 0..(IndexBits - 3), Bit(i, k) = 1
        PROVE  \E n \in 2..(IndexBits - 1) : q[n] % 2 # 0
    <3>1. IndexBits - 1 - k \in 2..(IndexBits - 1) /\ IndexBits - 1 - k \in 0..IndexBits
      BY <1>0
    <3>2. q[IndexBits - 1 - k] % 2 = 1
      BY <2>1, <3>1 DEF Bit
    <3>3. q[IndexBits - 1 - k] % 2 # 0
      BY <3>2
    <3> HIDE DEF q
    <3> QED BY <3>1, <3>3, Zenon
  <2>2. ASSUME NEW n \in 2..(IndexBits - 1), q[n] % 2 # 0
        PROVE  \E k \in 0..(IndexBits - 3) : Bit(i, k) = 1
    <3>1. (IndexBits - 1) - n \in 0..(IndexBits - 3)
          /\ IndexBits - 1 - ((IndexBits - 1) - n) = n /\ n \in 0..IndexBits
      BY <1>0
    <3>2. q[n] % 2 = 1
      BY <1>a, <2>2, <3>1
    <3>3. Bit(i, (IndexBits - 1) - n) = 1
      BY <3>1, <3>2, ZenonT(30) DEF Bit
    <3> QED BY <3>1, <3>3
  <2> QED BY <2>1, <2>2, ZenonT(30)
<1>3. Bit(i, IndexBits - 2) = q[1] % 2 /\ Bit(i, IndexBits - 1) = q[0] % 2
  <2>1. IndexBits - 1 - (IndexBits - 2) = 1 /\ IndexBits - 1 - (IndexBits - 1) = 0
        /\ 0 \in 0..IndexBits /\ 1 \in 0..IndexBits
    BY <1>0
  <2> QED BY <2>1, ZenonT(30) DEF Bit
<1> HIDE DEF q
<1>4. (\A n \in 2..(IndexBits - 1) : q[n] % 2 = 0) <=> q[2] = 0
  <2>1. 2 \in 0..IndexBits
    BY <1>0
  <2> QED BY <1>1, <2>1, ZeroBits
<1>5. /\ q[0] = i /\ q[0] \in Nat /\ q[1] \in Nat /\ q[2] \in Nat
      /\ q[0] = 2 * q[1] + (q[0] % 2) /\ q[1] = 2 * q[2] + (q[1] % 2)
  <2>1. 0 \in 0..(IndexBits - 1) /\ 1 \in 0..(IndexBits - 1) /\ 0 + 1 = 1 /\ 1 + 1 = 2
        /\ 0 \in 0..IndexBits /\ 1 \in 0..IndexBits /\ 2 \in 0..IndexBits
    BY <1>0
  <2> QED BY <1>1, <2>1, ZenonT(30) DEF Quotients
<1>6. (q[2] # 0 \/ (q[1] % 2) + (q[0] % 2) = 2) <=> i >= 3
  <2>1. q[0] % 2 \in 0..1 /\ q[1] % 2 \in 0..1
    BY <1>5, Parity
  <2> DEFINE h == q[1]
             g == q[2]
             x == q[0] % 2
             y == q[1] % 2
  <2>2. /\ i \in Nat /\ h \in Nat /\ g \in Nat /\ x \in 0..1 /\ y \in 0..1
        /\ i = 2 * h + x /\ h = 2 * g + y
    BY <1>5, <2>1, Zenon
  <2> HIDE DEF h, g, x, y
  <2>3. (g # 0 \/ y + x = 2) <=> i >= 3
    BY <2>2, AboveTwo
  <2> QED BY <2>3 DEF h, g, x, y
<1>7. TagAndIdUnchanged(i) <=> (q[2] # 0 \/ (q[1] % 2) + (q[0] % 2) = 2)
  BY <1>2, <1>3, <1>4 DEF TagAndIdUnchanged
<1> QED BY <1>6, <1>7

----------------------------------------------------------------------------
(* The gates. *)

\* A difference in the field that fits into a limb is a difference of numbers.
LEMMA MinusFits ==
    ASSUME NEW a \in 0..(Base - 1), NEW b \in 0..(Base - 1),
           Minus(a, b) \in 0..(Base - 1)
    PROVE  a >= b /\ Minus(a, b) = a - b
BY SizeAssumption DEF Minus

\* What the gates accept is a pair of rows in order, and the index is where they differ.
LEMMA AcceptsOrders ==
    ASSUME NEW p \in Limbs, NEW c \in Limbs, NEW i \in 0..(N - 1), NEW d,
           Accepts(p, c, i, d)
    PROVE  c[i] > p[i] /\ \A j \in 0..(i - 1) : c[j] = p[j]
<1>1. \A j \in 0..(N - 1) : c[j] \in 0..(Base - 1) /\ p[j] \in 0..(Base - 1)
  BY DEF Limbs
<1>2. c[i] >= p[i] /\ d = c[i] - p[i] /\ d # 0
  BY <1>1, MinusFits DEF Accepts
<1>3. c[i] > p[i]
  BY <1>1, <1>2
<1>4. ASSUME NEW j \in 0..(i - 1) PROVE c[j] = p[j]
  <2>1. j \in 0..(N - 1) /\ Minus(c[j], p[j]) = 0
    BY SizeAssumption DEF Accepts
  <2>2. 0 \in 0..(Base - 1)
    BY SizeAssumption
  <2>3. c[j] >= p[j] /\ c[j] - p[j] = 0
    BY <1>1, <2>1, <2>2, MinusFits
  <2> QED BY <1>1, <2>1, <2>3
<1> QED BY <1>3, <1>4

\* What the prover assigns: the first limb that differs, and its difference.
Assigned ==
    how = "assign" =>
        /\ cur[index] # prev[index]
        /\ \A j \in 0..(index - 1) : cur[j] = prev[j]
        /\ diff = Minus(cur[index], prev[index])

\* What a claim rests on, and when the assignment panics.
Claimed ==
    /\ how = "claim" => Accepts(prev, cur, index, diff)
    /\ how = "panic" => prev = cur

\* The difference of two limbs is an element of the field.
LEMMA MinusInField ==
    ASSUME NEW a \in 0..(Base - 1), NEW b \in 0..(Base - 1)
    PROVE  Minus(a, b) \in 0..(P - 1)
BY SizeAssumption DEF Minus

\* The limbs and the advice keep their ranges, the prover's index is the first limb
\* that differs, and a claim is one the gates accepted.
LEMMA Advice == Spec => [](TypeOK /\ Assigned /\ Claimed)
<1> DEFINE Inv == TypeOK /\ Assigned /\ Claimed
<1>0. N \in Nat /\ N > 4 /\ P \in Nat /\ P > 1 /\ Base \in Nat
  BY SizeAssumption
<1>1. Init => Inv
  BY <1>0 DEF Init, TypeOK, Assigned, Claimed
<1>2. Inv /\ [Next]_vars => Inv'
  <2> SUFFICES ASSUME Inv, [Next]_vars PROVE Inv'
    OBVIOUS
  <2>1. CASE Assign /\ prev = cur
    BY <2>1 DEF Assign, TypeOK, Assigned, Claimed
  <2>2. CASE Assign /\ prev # cur
    <3> DEFINE First(i) == cur[i] # prev[i] /\ \A j \in 0..(i - 1) : cur[j] = prev[j]
    <3>1. prev \in Limbs /\ cur \in Limbs /\ prev' = prev /\ cur' = cur
      BY <2>2 DEF Assign, TypeOK
    <3>2. \E i \in 0..(N - 1) : First(i)
      BY <2>2, <3>1, FirstDifference
    <3>3. index' = CHOOSE i \in 0..(N - 1) : First(i)
      BY <2>2 DEF Assign
    <3> HIDE DEF First
    <3>4. index' \in 0..(N - 1) /\ First(index')
      BY <3>2, <3>3, Zenon
    <3>5. diff' = Minus(cur[index'], prev[index']) /\ how' = "assign"
      BY <2>2 DEF Assign
    <3>6. diff' \in 0..(P - 1)
      <4>1. cur[index'] \in 0..(Base - 1) /\ prev[index'] \in 0..(Base - 1)
        BY <3>1, <3>4 DEF Limbs
      <4> QED BY <3>5, <4>1, MinusInField
    <3>7. TypeOK'
      BY <3>1, <3>4, <3>5, <3>6 DEF TypeOK
    <3>8. Assigned'
      BY <3>1, <3>4, <3>5, Zenon DEF Assigned, First
    <3>9. Claimed'
      BY <3>5 DEF Claimed
    <3> QED BY <3>7, <3>8, <3>9
  <2>3. ASSUME NEW i \in 0..(N - 1), NEW d \in 0..(P - 1), Claim(i, d)
        PROVE  Inv'
    BY <2>3 DEF Claim, TypeOK, Assigned, Claimed, Accepts
  <2>4. CASE UNCHANGED vars
    BY <2>4 DEF vars, TypeOK, Assigned, Claimed, Accepts
  <2> QED BY <2>1, <2>2, <2>3, <2>4 DEF Next, Done
<1> QED BY <1>1, <1>2, PTL DEF Spec

\* limb_difference fits into a limb only if it is not negative: with any advice the
\* gates accept, the row is greater than the row before it.
THEOREM ClaimIsOrderedHolds == Spec => []ClaimIsOrdered
<1>1. TypeOK /\ Assigned /\ Claimed => ClaimIsOrdered
  <2> SUFFICES ASSUME TypeOK, Claimed, how = "claim" PROVE Greater(cur, prev)
    BY DEF ClaimIsOrdered
  <2>1. index \in 0..(N - 1) /\ prev \in Limbs /\ cur \in Limbs
    BY DEF TypeOK
  <2>2. Accepts(prev, cur, index, diff)
    BY DEF Claimed
  <2>3. cur[index] > prev[index] /\ \A j \in 0..(index - 1) : cur[j] = prev[j]
    BY <2>1, <2>2, AcceptsOrders
  <2> QED BY <2>1, <2>3 DEF Greater
<1> QED BY <1>1, Advice, PTL

\* The comment at the top of lexicographic_ordering.rs, for every number and size of
\* limbs: the order of the limbs is the order of the numbers they spell, the prover's
\* own advice passes the gates exactly for a greater row, and only equal rows panic.
THEOREM AssignIffGreaterHolds == Spec => []AssignIffGreater
<1>1. TypeOK /\ Assigned /\ Claimed => AssignIffGreater
  <2> SUFFICES ASSUME TypeOK, Assigned, Claimed PROVE AssignIffGreater
    OBVIOUS
  <2>0. index \in 0..(N - 1) /\ prev \in Limbs /\ cur \in Limbs
    BY DEF TypeOK
  <2>a. N \in Nat /\ Base \in Nat
    BY SizeAssumption
  <2>1. Greater(cur, prev) <=> X(cur) > X(prev)
    BY <2>0, OrderOfNumbers
  <2>2. ASSUME how = "assign", Accepts(prev, cur, index, diff) PROVE Greater(cur, prev)
    <3>1. cur[index] > prev[index] /\ \A j \in 0..(index - 1) : cur[j] = prev[j]
      BY <2>0, <2>2, AcceptsOrders
    <3> QED BY <2>0, <3>1 DEF Greater
  <2>3. ASSUME how = "assign", Greater(cur, prev) PROVE Accepts(prev, cur, index, diff)
    <3>1. PICK i \in 0..(N - 1) : cur[i] > prev[i] /\ \A j \in 0..(i - 1) : cur[j] = prev[j]
      BY <2>3 DEF Greater
    <3>2. /\ cur[index] # prev[index] /\ diff = Minus(cur[index], prev[index])
          /\ \A j \in 0..(index - 1) : cur[j] = prev[j]
      BY <2>3 DEF Assigned
    <3>3. \A j \in 0..(N - 1) : cur[j] \in 0..(Base - 1) /\ prev[j] \in 0..(Base - 1)
      BY <2>0 DEF Limbs
    <3>4. i = index
      <4>1. ~(i < index)
        BY <3>1, <3>2, <3>3, <2>0, <2>a
      <4>2. ~(index < i)
        BY <3>1, <3>2, <3>3, <2>0, <2>a
      <4> QED BY <4>1, <4>2, <2>0, <2>a
    <3>5. cur[index] > prev[index]
      BY <3>1, <3>4
    <3>6. diff = cur[index] - prev[index] /\ diff \in 0..(Base - 1) /\ diff # 0
      BY <3>2, <3>3, <3>5, <2>0, <2>a DEF Minus
    <3>7. ASSUME NEW j \in 0..(index - 1) PROVE Minus(cur[j], prev[j]) = 0
      <4>1. j \in 0..(N - 1) /\ cur[j] = prev[j]
        BY <3>2, <2>0, <2>a
      <4> QED BY <4>1, <3>3, <2>a DEF Minus
    <3> QED BY <3>2, <3>6, <3>7 DEF Accepts
  <2>4. how = "panic" => X(cur) = X(prev)
    BY DEF Claimed
  <2> QED BY <2>1, <2>2, <2>3, <2>4 DEF AssignIffGreater
<1> QED BY <1>1, Advice, PTL

\* The bits of an accepted index say what the gates read off them, for every number
\* of limbs: only the last two limbs (the rw counter) may differ exactly when all the
\* bits but the last are set, and the first three agree exactly when one of the bits
\* but the last two is set or both of those are.
THEOREM IndexIsMeaningfulHolds == Spec => []IndexIsMeaningful
<1>1. TypeOK /\ Assigned /\ Claimed => IndexIsMeaningful
  <2> SUFFICES ASSUME TypeOK, Claimed, how = "claim"
               PROVE  /\ NotFirstAccess(index) <=> \A j \in 0..(N - 3) : cur[j] = prev[j]
                      /\ TagAndIdUnchanged(index) <=> \A j \in 0..2 : cur[j] = prev[j]
    BY DEF IndexIsMeaningful
  <2>0. index \in 0..(N - 1) /\ prev \in Limbs /\ cur \in Limbs /\ N \in Nat /\ N > 4
    BY SizeAssumption DEF TypeOK
  <2>1. cur[index] > prev[index] /\ \A j \in 0..(index - 1) : cur[j] = prev[j]
    <3>1. Accepts(prev, cur, index, diff)
      BY DEF Claimed
    <3> QED BY <2>0, <3>1, AcceptsOrders
  <2>2. cur[index] # prev[index]
    <3>1. cur[index] \in Int /\ prev[index] \in Int
      BY <2>0 DEF Limbs
    <3> QED BY <2>1, <3>1
  <2>3. index >= N - 2 <=> \A j \in 0..(N - 3) : cur[j] = prev[j]
    BY <2>0, <2>1, <2>2
  <2>4. index >= 3 <=> \A j \in 0..2 : cur[j] = prev[j]
    BY <2>0, <2>1, <2>2
  <2> QED BY <2>0, <2>3, <2>4, NotFirstAccessIndex, TagAndIdIndex
<1> QED BY <1>1, Advice, PTL
=============================================================================
