-------------------------- MODULE ArithmeticProofs --------------------------
(***************************************************************************)
(* What the arithmetic gadgets decide, for every width of a limb and every *)
(* field large enough for a half of a word and its carry.                  *)
(*                                                                         *)
(* The gates hold in the field.  Order, sum and product gadgets are first  *)
(* brought back to the integers (no side of a gate reaches the order of    *)
(* the field), then to words; the gadgets of ADD, SUB, MUL, DIV, MOD,      *)
(* ADDMOD, MULMOD, LT, GT, EQ and ISZERO follow, and StepsDecided for the  *)
(* machine that executes them.                                             *)
(***************************************************************************)
EXTENDS Arithmetic, TLAPS

USE SMTT(30), ZenonT(30)

\* An expression that is a little below zero or below the order has one value in the field.
LEMMA InField ==
    ASSUME NEW e \in Int, P \in Nat, -P <= e, e < P
    PROVE  /\ e >= 0 => F(e) = e
           /\ e < 0 => F(e) = e + P
  BY DEF F

\* A half of a word is a natural number above three.
LEMMA HalfType == Half \in Nat /\ Half > 3 /\ P \in Nat /\ P >= 4 * Half /\ WordSize \in Nat
  <1>1. /\ Base \in Nat /\ Base > 1 /\ P \in Nat
        /\ Half = Base * Base /\ WordSize = Half * Half
    BY PowersOfBase, CarriesFit
  <1>2. ASSUME NEW b \in Nat, b > 1 PROVE b * b \in Nat /\ b * b > 3
    <2>1. b * b >= 2 * b
      BY <1>2
    <2> QED
      BY <1>2, <2>1
  <1> HIDE DEF Base, Half, WordSize
  <1>3. Half \in Nat /\ Half > 3
    BY <1>1, <1>2
  <1>4. Half * Half \in Nat
    BY <1>3, <1>2
  <1>5. P >= 4 * Half
    <2>1. ASSUME NEW c \in Nat, NEW h \in Nat, c >= 4 PROVE c * h >= 4 * h
      BY <2>1
    <2>2. CarrySize * Half \in Nat /\ CarrySize * Half >= 4 * Half
      BY <1>1, <1>3, <2>1, CarriesFit
    <2> QED
      BY <1>1, <1>3, <2>2, CarriesFit
  <1> QED
    BY <1>1, <1>3, <1>4, <1>5

\* A word is its high half times the size of a half, and its low half.
LEMMA Halves ==
    ASSUME NEW w \in WordValues
    PROVE  /\ Lo(w) \in 0..(Half - 1) /\ Hi(w) \in 0..(Half - 1)
           /\ w = Hi(w) * Half + Lo(w)
  <1>1. Half \in Nat /\ Half > 3 /\ WordSize = Half * Half
    BY HalfType, PowersOfBase
  <1>2. w \in Nat /\ w < Half * Half
    BY <1>1, HalfType DEF WordValues
  <1>3. ASSUME NEW h \in Nat, h > 3, NEW x \in Nat, x < h * h
        PROVE  /\ x % h \in 0..(h - 1) /\ x \div h \in 0..(h - 1)
               /\ x = (x \div h) * h + (x % h)
    <2>1. x % h \in 0..(h - 1) /\ x \div h \in Nat
      BY <1>3
    <2>2. x = (x \div h) * h + (x % h)
      BY <1>3
    <2>3. ASSUME NEW q \in Nat, q >= h PROVE q * h >= h * h
      BY <1>3, <2>3
    <2>4. x \div h < h
      BY <1>3, <2>1, <2>2, <2>3
    <2> QED
      BY <2>1, <2>2, <2>4
  <1>4. /\ w % Half \in 0..(Half - 1) /\ w \div Half \in 0..(Half - 1)
        /\ w = (w \div Half) * Half + (w % Half)
    BY <1>1, <1>2, <1>3, Zenon
  <1> QED
    BY <1>4, Zenon DEF Lo, Hi

\* Words are ordered by their high halves first.
LEMMA HalvesOrder ==
    ASSUME NEW a \in WordValues, NEW b \in WordValues
    PROVE  /\ a < b <=> Hi(a) < Hi(b) \/ (Hi(a) = Hi(b) /\ Lo(a) < Lo(b))
           /\ a = b <=> Hi(a) = Hi(b) /\ Lo(a) = Lo(b)
  <1>1. ASSUME NEW h \in Nat, NEW x \in Int, NEW y \in Int, NEW l \in 0..(h - 1), NEW m \in 0..(h - 1),
               x < y
        PROVE  x * h + l < y * h + m
    <2>1. (y - x) * h >= h
      BY <1>1
    <2>2. (y - x) * h = y * h - x * h
      BY <1>1
    <2>3. x * h \in Int /\ y * h \in Int
      BY <1>1
    <2> QED
      BY <1>1, <2>1, <2>2, <2>3
  <1>2. Half \in Nat
    BY HalfType
  <1>3. /\ Lo(a) \in 0..(Half - 1) /\ Hi(a) \in 0..(Half - 1) /\ a = Hi(a) * Half + Lo(a)
        /\ Lo(b) \in 0..(Half - 1) /\ Hi(b) \in 0..(Half - 1) /\ b = Hi(b) * Half + Lo(b)
    BY Halves
  <1> HIDE DEF Lo, Hi, Half
  <1>4. Hi(a) < Hi(b) => a < b
    BY <1>1, <1>2, <1>3
  <1>5. Hi(b) < Hi(a) => b < a
    BY <1>1, <1>2, <1>3
  <1>6. Hi(a) = Hi(b) => (a < b <=> Lo(a) < Lo(b)) /\ (a = b <=> Lo(a) = Lo(b))
    <2>1. ASSUME NEW z \in Int, NEW x, NEW y, NEW l \in Int, NEW m \in Int, x = z + l, y = z + m
          PROVE  (x < y <=> l < m) /\ (x = y <=> l = m)
      BY <2>1
    <2>2. Hi(a) * Half \in Int
      BY <1>2, <1>3
    <2> QED
      BY <1>2, <1>3, <2>1, <2>2
  <1>7. a \in Int /\ b \in Int /\ Hi(a) \in Int /\ Hi(b) \in Int
    BY HalfType, <1>3 DEF WordValues
  <1> QED
    BY <1>4, <1>5, <1>6, <1>7

\* LtGadget has exactly one solution: lt is whether lhs is smaller, for operands of n bytes
\* and a field in which twice the range does not wrap around.
LEMMA LtDecides ==
    ASSUME NEW n, NEW R \in Nat, R = Base^n, 2 * R <= P, P \in Nat,
           NEW lhs \in 0..(R - 1), NEW rhs \in 0..(R - 1)
    PROVE  Lt(n, lhs, rhs) = {Bit(lhs < rhs)}
  <1>1. ASSUME lhs < rhs PROVE F(lhs - rhs + 0 * R) >= R /\ F(lhs - rhs + 1 * R) < R
    <2>1. F(lhs - rhs) = lhs - rhs + P
      BY <1>1, InField
    <2>2. F(lhs - rhs + R) = lhs - rhs + R
      BY <1>1, InField
    <2> QED
      BY <1>1, <2>1, <2>2
  <1>2. ASSUME ~(lhs < rhs) PROVE F(lhs - rhs + 0 * R) < R /\ F(lhs - rhs + 1 * R) >= R
    <2>1. F(lhs - rhs) = lhs - rhs
      BY <1>2, InField
    <2>2. F(lhs - rhs + R) = lhs - rhs + R
      BY <1>2, InField
    <2> QED
      BY <1>2, <2>1, <2>2
  <1>3. F(lhs - rhs + 0 * R) \in Int /\ F(lhs - rhs + 1 * R) \in Int
    BY DEF F
  <1>4. Lt(n, lhs, rhs) = {lt \in {0, 1} : F(lhs - rhs + lt * R) < R}
    BY DEF Lt, Bool
  <1> QED
    BY <1>1, <1>2, <1>3, <1>4 DEF Bit

\* ComparisonGadget, on the halves of words.
LEMMA ComparisonDecides ==
    ASSUME NEW x \in 0..(Half - 1), NEW y \in 0..(Half - 1)
    PROVE  Comparison(2, x, y) = {[lt |-> Bit(x < y), eq |-> Bit(x = y)]}
  <1>1. Half \in Nat /\ P \in Nat /\ 2 * Half <= P /\ Half = Base^2
    BY HalfType DEF Half
  <1>2. Lt(2, x, y) = {Bit(x < y)}
    BY <1>1, LtDecides
  <1>3. IsZero(F(x - y + Bit(x < y) * Half)) = Bit(x = y)
    <2>1. F(x - y + Bit(x < y) * Half) = x - y + Bit(x < y) * Half
      BY <1>1, InField DEF Bit
    <2>2. F(x - y + Bit(x < y) * Half) \in 0..(Half - 1)
      BY <1>1, <2>1 DEF Bit
    <2>3. F(F(x - y + Bit(x < y) * Half)) = x - y + Bit(x < y) * Half
      BY <1>1, <2>1, <2>2, InField
    <2>4. x - y + Bit(x < y) * Half = 0 <=> x = y
      BY <1>1 DEF Bit
    <2> QED
      BY <2>3, <2>4 DEF IsZero, Bit
  <1>4. Comparison(2, x, y) = {[lt |-> lt, eq |-> IsZero(F(x - y + lt * Half))] : lt \in Lt(2, x, y)}
    BY <1>1 DEF Comparison
  <1> QED
    BY <1>2, <1>3, <1>4

\* The expressions that put the comparisons of the halves together.
LEMMA BitsOfHalves ==
    ASSUME NEW a \in WordValues, NEW b \in WordValues
    PROVE  LET lt == Bit(Hi(a) < Hi(b))
               eq == Bit(Hi(a) = Hi(b))
           IN  /\ lt + eq * Bit(Lo(a) < Lo(b)) = Bit(a < b)
               /\ select(lt, 1, eq * Bit(Lo(a) < Lo(b))) = Bit(a < b)
               /\ eq * Bit(Lo(a) = Lo(b)) = Bit(a = b)
  <1>1. /\ Hi(a) \in Int /\ Hi(b) \in Int /\ Lo(a) \in Int /\ Lo(b) \in Int
        /\ a \in Int /\ b \in Int
    BY Halves, HalfType DEF WordValues
  <1>2. /\ a < b <=> Hi(a) < Hi(b) \/ (Hi(a) = Hi(b) /\ Lo(a) < Lo(b))
        /\ a = b <=> Hi(a) = Hi(b) /\ Lo(a) = Lo(b)
    BY HalvesOrder
  <1>3. CASE Hi(a) # Hi(b)
    <2>1. Bit(Hi(a) = Hi(b)) = 0 /\ Bit(a = b) = 0 /\ Bit(a < b) = Bit(Hi(a) < Hi(b))
      BY <1>1, <1>2, <1>3 DEF Bit
    <2>2. \A x : x \in {0, 1} => 0 * x = 0 /\ x + 0 = x /\ select(x, 1, 0) = x
      BY DEF select
    <2>3. /\ Bit(Lo(a) < Lo(b)) \in {0, 1} /\ Bit(Lo(a) = Lo(b)) \in {0, 1}
          /\ Bit(Hi(a) < Hi(b)) \in {0, 1}
      BY DEF Bit
    <2> QED
      BY <2>1, <2>2, <2>3
  <1>4. CASE Hi(a) = Hi(b)
    <2>1. /\ Bit(Hi(a) < Hi(b)) = 0 /\ Bit(Hi(a) = Hi(b)) = 1
          /\ Bit(a < b) = Bit(Lo(a) < Lo(b)) /\ Bit(a = b) = Bit(Lo(a) = Lo(b))
      BY <1>1, <1>2, <1>4 DEF Bit
    <2>2. \A x : x \in {0, 1} => 1 * x = x /\ 0 + x = x /\ select(0, 1, x) = x
      BY DEF select
    <2>3. Bit(Lo(a) < Lo(b)) \in {0, 1} /\ Bit(Lo(a) = Lo(b)) \in {0, 1}
      BY DEF Bit
    <2> QED
      BY <2>1, <2>2, <2>3
  <1> QED
    BY <1>3, <1>4

\* LtWordGadget compares words: for every width of a byte, the cells it constrains admit
\* one result, and it is whether the left word is smaller.
THEOREM LtWordDecides ==
    ASSUME NEW l \in WordValues, NEW r \in WordValues
    PROVE  LtWord(l, r) = {Bit(l < r)}
  <1>1. /\ Lo(l) \in 0..(Half - 1) /\ Hi(l) \in 0..(Half - 1)
        /\ Lo(r) \in 0..(Half - 1) /\ Hi(r) \in 0..(Half - 1)
    BY Halves
  <1>2. Half \in Nat /\ P \in Nat /\ 2 * Half <= P /\ Half = Base^2
    BY HalfType DEF Half
  <1> DEFINE hi == [lt |-> Bit(Hi(l) < Hi(r)), eq |-> Bit(Hi(l) = Hi(r))]
             lo == Bit(Lo(l) < Lo(r))
  <1>3. Comparison(2, Hi(l), Hi(r)) = {hi} /\ Lt(2, Lo(l), Lo(r)) = {lo}
    BY <1>1, <1>2, ComparisonDecides, LtDecides
  <1>4. LtWord(l, r) = {hi.lt + hi.eq * lo}
    <2>1. ASSUME NEW S, NEW T, NEW s, NEW t, S = {s}, T = {t}
          PROVE  {x.lt + x.eq * y : x \in S, y \in T} = {s.lt + s.eq * t}
      BY <2>1
    <2> HIDE DEF hi, lo
    <2> QED
      BY <1>3, <2>1 DEF LtWord
  <1>5. hi.lt + hi.eq * lo = Bit(l < r)
    <2>1. hi.lt = Bit(Hi(l) < Hi(r)) /\ hi.eq = Bit(Hi(l) = Hi(r)) /\ lo = Bit(Lo(l) < Lo(r))
      OBVIOUS
    <2> HIDE DEF hi, lo
    <2>2. Bit(Hi(l) < Hi(r)) + Bit(Hi(l) = Hi(r)) * Bit(Lo(l) < Lo(r)) = Bit(l < r)
      BY BitsOfHalves, Zenon
    <2> QED
      BY <2>1, <2>2, Zenon
  <1> QED
    BY <1>4, <1>5

\* CmpWordsGadget decides order and equality of words.
THEOREM CmpWordsDecides ==
    ASSUME NEW a \in WordValues, NEW b \in WordValues
    PROVE  CmpWords(a, b) = {[lt |-> Bit(a < b), eq |-> Bit(a = b)]}
  <1>1. /\ Lo(a) \in 0..(Half - 1) /\ Hi(a) \in 0..(Half - 1)
        /\ Lo(b) \in 0..(Half - 1) /\ Hi(b) \in 0..(Half - 1) /\ Half \in Nat
    BY Halves, HalfType
  <1> DEFINE hi == [lt |-> Bit(Hi(a) < Hi(b)), eq |-> Bit(Hi(a) = Hi(b))]
             lo == [lt |-> Bit(Lo(a) < Lo(b)), eq |-> Bit(Lo(a) = Lo(b))]
  <1>2. Comparison(2, Hi(a), Hi(b)) = {hi} /\ Comparison(2, Lo(a), Lo(b)) = {lo}
    BY <1>1, ComparisonDecides
  <1>3. CmpWords(a, b) = {[lt |-> select(hi.lt, 1, hi.eq * lo.lt), eq |-> hi.eq * lo.eq]}
    <2>1. ASSUME NEW S, NEW T, NEW s, NEW t, S = {s}, T = {t}
          PROVE  {[lt |-> select(x.lt, 1, x.eq * y.lt), eq |-> x.eq * y.eq] : x \in S, y \in T}
                   = {[lt |-> select(s.lt, 1, s.eq * t.lt), eq |-> s.eq * t.eq]}
      BY <2>1
    <2> HIDE DEF hi, lo
    <2> QED
      BY <1>2 DEF CmpWords
  <1>4. select(hi.lt, 1, hi.eq * lo.lt) = Bit(a < b) /\ hi.eq * lo.eq = Bit(a = b)
    <2>1. /\ hi.lt = Bit(Hi(a) < Hi(b)) /\ hi.eq = Bit(Hi(a) = Hi(b))
          /\ lo.lt = Bit(Lo(a) < Lo(b)) /\ lo.eq = Bit(Lo(a) = Lo(b))
      OBVIOUS
    <2> HIDE DEF hi, lo
    <2>2. /\ select(Bit(Hi(a) < Hi(b)), 1, Bit(Hi(a) = Hi(b)) * Bit(Lo(a) < Lo(b))) = Bit(a < b)
          /\ Bit(Hi(a) = Hi(b)) * Bit(Lo(a) = Lo(b)) = Bit(a = b)
      BY BitsOfHalves, ZenonT(30)
    <2> QED
      BY <2>1, <2>2, Zenon
  <1> QED
    BY <1>3, <1>4

\* MinMaxGadget gives the smaller and the larger of two operands of n bytes.
THEOREM MinMaxDecides ==
    ASSUME NEW n, NEW R \in Nat, R = Base^n, 2 * R <= P,
           NEW x \in 0..(R - 1), NEW y \in 0..(R - 1)
    PROVE  MinMax(n, x, y) = {[min |-> IF x < y THEN x ELSE y, max |-> IF x < y THEN y ELSE x]}
  <1>1. Lt(n, x, y) = {Bit(x < y)}
    BY HalfType, LtDecides
  <1>2. MinMax(n, x, y) = {[min |-> select(Bit(x < y), x, y), max |-> select(Bit(x < y), y, x)]}
    BY <1>1 DEF MinMax
  <1>3. /\ select(Bit(x < y), x, y) = IF x < y THEN x ELSE y
        /\ select(Bit(x < y), y, x) = IF x < y THEN y ELSE x
    BY DEF select, Bit
  <1> QED
    BY <1>2, <1>3

\* The carries of a sum of halves: the equation in the field has a solution exactly where
\* the integers have it.
LEMMA FieldSum ==
    ASSUME NEW x \in 0..(2 * Half - 1), NEW y \in 0..(Half - 1), NEW c \in Bool
    PROVE  F(x) = F(y + c * Half) <=> x = y + c * Half
  <1>1. Half \in Nat /\ P \in Nat /\ P >= 4 * Half
    BY HalfType
  <1>2. c * Half \in {0, Half}
    BY <1>1 DEF Bool
  <1>3. F(x) = x /\ F(y + c * Half) = y + c * Half
    BY <1>1, <1>2, InField
  <1> QED
    BY <1>3

\* A positive factor cancels.
LEMMA Cancels ==
    ASSUME NEW h \in Nat, h > 0, NEW x \in Int, NEW y \in Int
    PROVE  x * h = y * h <=> x = y
  <1>1. ASSUME NEW u \in Int, NEW v \in Int, u < v PROVE u * h < v * h
    <2>1. (v - u) * h >= h
      BY <1>1
    <2>2. (v - u) * h = v * h - u * h /\ v * h \in Int /\ u * h \in Int
      BY <1>1
    <2> QED
      BY <2>1, <2>2
  <1>2. x * h \in Int /\ y * h \in Int
    OBVIOUS
  <1> QED
    BY <1>1, <1>2

\* The carries of a sum of words, in the integers.
SumCarries(a, b, sum) ==
    {c \in Bool \X Bool : /\ Lo(a) + Lo(b) = Lo(sum) + c[1] * Half
                          /\ a + b = sum + c[2] * WordSize}

\* AddWordsGadget has a solution exactly for the sum modulo the word size, and then the
\* carries are the ones of the integers; with the overflow check, exactly for a sum that
\* is a word.
THEOREM AddWordsDecides ==
    ASSUME NEW a \in WordValues, NEW b \in WordValues, NEW sum \in WordValues
    PROVE  /\ AddWords(FALSE, a, b, sum) = SumCarries(a, b, sum)
           /\ AddWords(TRUE, a, b, sum) = IF a + b = sum THEN SumCarries(a, b, sum) ELSE {}
  <1>1. /\ Half \in Nat /\ Half > 3 /\ WordSize = Half * Half
        /\ Lo(a) \in 0..(Half - 1) /\ Hi(a) \in 0..(Half - 1) /\ a = Hi(a) * Half + Lo(a)
        /\ Lo(b) \in 0..(Half - 1) /\ Hi(b) \in 0..(Half - 1) /\ b = Hi(b) * Half + Lo(b)
        /\ Lo(sum) \in 0..(Half - 1) /\ Hi(sum) \in 0..(Half - 1)
        /\ sum = Hi(sum) * Half + Lo(sum)
    BY HalfType, PowersOfBase, Halves
  <1>2. ASSUME NEW lo \in Bool, NEW hi \in Bool, Lo(a) + Lo(b) = Lo(sum) + lo * Half
        PROVE  Hi(a) + Hi(b) + lo = Hi(sum) + hi * Half <=> a + b = sum + hi * WordSize
    <2> DEFINE x == Hi(a) + Hi(b) + lo
               y == Hi(sum) + hi * Half
    <2>1. /\ x \in Int /\ y \in Int /\ lo \in Int /\ hi \in Int /\ lo * Half \in Int
          /\ hi * Half \in Int
      BY <1>1 DEF Bool
    <2>2. a + b = x * Half + Lo(sum)
      <3>1. x * Half = Hi(a) * Half + Hi(b) * Half + lo * Half
        BY <1>1, <2>1
      <3>2. Hi(a) * Half \in Int /\ Hi(b) * Half \in Int
        BY <1>1
      <3>3. ASSUME NEW p \in Int, NEW q \in Int, NEW m \in Int, NEW n \in Int, NEW k \in Int,
                   NEW z \in Int, m + n = k + z
            PROVE  (p + m) + (q + n) = (p + q + z) + k
        BY <3>3
      <3>4. Lo(a) \in Int /\ Lo(b) \in Int /\ Lo(sum) \in Int
        BY <1>1
      <3>5. (Hi(a) * Half + Lo(a)) + (Hi(b) * Half + Lo(b))
              = (Hi(a) * Half + Hi(b) * Half + lo * Half) + Lo(sum)
        BY <1>2, <2>1, <3>2, <3>4
      <3> HIDE DEF x
      <3> QED
        BY <1>1, <3>1, <3>5, Zenon
    <2>3. sum + hi * WordSize = y * Half + Lo(sum)
      <3>1. y * Half = Hi(sum) * Half + (hi * Half) * Half /\ (hi * Half) * Half = hi * (Half * Half)
        BY <1>1, <2>1
      <3>2. Hi(sum) * Half \in Int /\ hi * (Half * Half) \in Int
        BY <1>1, <2>1
      <3> HIDE DEF y
      <3> QED
        BY <1>1, <2>1, <3>1, <3>2
    <2>4. x * Half + Lo(sum) = y * Half + Lo(sum) <=> x = y
      <3> HIDE DEF x, y
      <3>1. x * Half = y * Half <=> x = y
        BY <1>1, <2>1, Cancels
      <3>2. x * Half \in Int /\ y * Half \in Int /\ Lo(sum) \in Int
        BY <1>1, <2>1
      <3>3. ASSUME NEW u \in Int, NEW v \in Int, NEW k \in Int PROVE u + k = v + k <=> u = v
        OBVIOUS
      <3> QED
        BY <3>1, <3>2, <3>3, Zenon
    <2> QED
      BY <2>2, <2>3, <2>4
  <1>3. ASSUME NEW lo \in Bool, NEW hi \in Bool
        PROVE  /\ F(Lo(a) + Lo(b)) = F(Lo(sum) + lo * Half)
                    <=> Lo(a) + Lo(b) = Lo(sum) + lo * Half
               /\ F(Hi(a) + Hi(b) + lo) = F(Hi(sum) + hi * Half)
                    <=> Hi(a) + Hi(b) + lo = Hi(sum) + hi * Half
    <2>1. Lo(a) + Lo(b) \in 0..(2 * Half - 1) /\ Hi(a) + Hi(b) + lo \in 0..(2 * Half - 1)
      BY <1>1 DEF Bool
    <2> QED
      BY <1>1, <2>1, FieldSum
  <1>4. \A c : c \in AddWords(FALSE, a, b, sum) <=>
                  /\ c \in Bool \X Bool
                  /\ Lo(a) + Lo(b) = Lo(sum) + c[1] * Half
                  /\ a + b = sum + c[2] * WordSize
    <2> SUFFICES ASSUME NEW c \in Bool \X Bool
                 PROVE  c \in AddWords(FALSE, a, b, sum) <=>
                            /\ Lo(a) + Lo(b) = Lo(sum) + c[1] * Half
                            /\ a + b = sum + c[2] * WordSize
      BY DEF AddWords
    <2>1. c[1] \in Bool /\ c[2] \in Bool
      OBVIOUS
    <2>2. c \in AddWords(FALSE, a, b, sum) <=>
              /\ F(Lo(a) + Lo(b)) = F(Lo(sum) + c[1] * Half)
              /\ F(Hi(a) + Hi(b) + c[1]) = F(Hi(sum) + c[2] * Half)
      BY DEF AddWords
    <2> QED
      BY <1>2, <1>3, <2>1, <2>2, Zenon
  <1>5. ASSUME NEW c PROVE c \in AddWords(TRUE, a, b, sum) <=>
                              c \in AddWords(FALSE, a, b, sum) /\ c[2] = 0
    <2>1. c \in Bool \X {0} <=> c \in Bool \X Bool /\ c[2] = 0
      BY DEF Bool
    <2> DEFINE Sums(d) == /\ F(Lo(a) + Lo(b)) = F(Lo(sum) + d[1] * Half)
                          /\ F(Hi(a) + Hi(b) + d[1]) = F(Hi(sum) + d[2] * Half)
    <2>2. /\ AddWords(TRUE, a, b, sum) = {d \in Bool \X {0} : Sums(d)}
          /\ AddWords(FALSE, a, b, sum) = {d \in Bool \X Bool : Sums(d)}
      BY Zenon DEF AddWords
    <2> HIDE DEF Sums
    <2>3. /\ c \in {d \in Bool \X {0} : Sums(d)} <=> c \in Bool \X {0} /\ Sums(c)
          /\ c \in {d \in Bool \X Bool : Sums(d)} <=> c \in Bool \X Bool /\ Sums(c)
      BY Zenon
    <2> QED
      BY <2>1, <2>2, <2>3, Zenon
  <1>6. ASSUME NEW c \in AddWords(FALSE, a, b, sum) PROVE c[2] = 0 <=> a + b = sum
    <2>1. c \in Bool \X Bool /\ a + b = sum + c[2] * WordSize
      BY <1>4, <1>6, Zenon
    <2>2. c[2] \in {0, 1}
      BY <2>1 DEF Bool
    <2>3. WordSize \in Nat /\ WordSize # 0 /\ a \in Int /\ b \in Int /\ sum \in Int
      <3>1. ASSUME NEW h \in Nat, h > 3 PROVE h * h # 0
        BY <3>1
      <3> QED
        BY <1>1, <3>1, HalfType DEF WordValues
    <2> HIDE DEF WordSize
    <2> QED
      BY <2>1, <2>2, <2>3
  <1>7. AddWords(FALSE, a, b, sum) = SumCarries(a, b, sum)
    <2>1. \A c : c \in SumCarries(a, b, sum) <=> c \in AddWords(FALSE, a, b, sum)
      BY <1>4, Zenon DEF SumCarries
    <2> QED
      BY <2>1, Zenon
  <1>8. AddWords(TRUE, a, b, sum) = IF a + b = sum THEN AddWords(FALSE, a, b, sum) ELSE {}
    BY <1>5, <1>6, Zenon
  <1> QED
    BY <1>7, <1>8, Zenon

\* Quotient and remainder.
LEMMA DivMod ==
    ASSUME NEW d \in Nat, d > 0, NEW n \in Nat
    PROVE  n \div d \in Nat /\ n % d \in 0..(d - 1) /\ n = (n \div d) * d + (n % d)
  <1>1. n % d \in 0..(d - 1) /\ n \div d \in Nat
    OBVIOUS
  <1>2. n = (n \div d) * d + (n % d)
    OBVIOUS
  <1> QED
    BY <1>1, <1>2

\* They are the only ones.
LEMMA Digits ==
    ASSUME NEW d \in Nat, d > 0, NEW q \in Int, NEW r \in 0..(d - 1),
           NEW s \in Int, NEW t \in 0..(d - 1)
    PROVE  q * d + r = s * d + t <=> q = s /\ r = t
  <1>1. ASSUME NEW x \in Int, NEW y \in Int, NEW l \in 0..(d - 1), NEW m \in 0..(d - 1), x < y
        PROVE  x * d + l < y * d + m
    <2>1. (y - x) * d >= d
      BY <1>1
    <2>2. (y - x) * d = y * d - x * d /\ x * d \in Int /\ y * d \in Int
      BY <1>1
    <2> QED
      BY <1>1, <2>1, <2>2
  <1>2. q < s => q * d + r < s * d + t
    BY <1>1
  <1>3. s < q => s * d + t < q * d + r
    BY <1>1
  <1>4. q * d \in Int /\ s * d \in Int
    OBVIOUS
  <1>5. q = s => (q * d + r = s * d + t <=> r = t)
    BY <1>4
  <1> QED
    BY <1>2, <1>3, <1>4, <1>5

\* A number written with a remainder has that quotient and that remainder.
LEMMA TheQuotient ==
    ASSUME NEW d \in Nat, d > 0, NEW n \in Nat, NEW q \in Int, NEW r \in 0..(d - 1), n = q * d + r
    PROVE  n \div d = q /\ n % d = r
  <1>1. n \div d \in Nat /\ n % d \in 0..(d - 1) /\ n = (n \div d) * d + (n % d)
    BY DivMod
  <1>2. (n \div d) * d + (n % d) = q * d + r
    BY <1>1
  <1> QED
    BY <1>1, <1>2, Digits

\* A limb is below Base, a half of a word is its two limbs.
LEMMA Limbs ==
    ASSUME NEW w \in WordValues
    PROVE  /\ \A i \in 0..3 : Limb(w, i) \in 0..(Base - 1)
           /\ Lo(w) = Limb(w, 0) + Limb(w, 1) * Base
           /\ Hi(w) = Limb(w, 2) + Limb(w, 3) * Base
  <1> DEFINE B == Base
             H == Half
  <1>1. /\ B \in Nat /\ B > 1 /\ B > 0 /\ H = B * B /\ H \in Nat /\ H > 3
        /\ Base^0 = 1 /\ Base^1 = B /\ Base^2 = H /\ Base^3 = H * B
    BY PowersOfBase, HalfType DEF Half
  <1>2. /\ Hi(w) \in 0..(H - 1) /\ Lo(w) \in 0..(H - 1) /\ w = Hi(w) * H + Lo(w)
    BY Halves
  <1>w. w \in Nat
    BY HalfType DEF WordValues
  <1>h. Hi(w) = w \div H /\ Lo(w) = w % H
    BY DEF Hi, Lo
  <1> HIDE DEF B, H
  <1>3. ASSUME NEW x \in Nat, x < H
        PROVE  /\ x \div B \in 0..(B - 1) /\ x % B \in 0..(B - 1)
               /\ x = (x \div B) * B + (x % B)
    <2>1. x \div B \in Nat /\ x % B \in 0..(B - 1) /\ x = (x \div B) * B + (x % B)
      BY <1>1, DivMod
    <2>2. ASSUME NEW q \in Nat, q >= B PROVE q * B >= B * B
      BY <1>1, <2>2
    <2>3. x \div B < B
      BY <1>1, <1>3, <2>1, <2>2
    <2> QED
      BY <1>1, <2>1, <2>3
  <1> DEFINE l0 == Lo(w) % B
             l1 == Lo(w) \div B
             l2 == Hi(w) % B
             l3 == Hi(w) \div B
  <1>4. /\ l0 \in 0..(B - 1) /\ l1 \in 0..(B - 1) /\ Lo(w) = l1 * B + l0
        /\ l2 \in 0..(B - 1) /\ l3 \in 0..(B - 1) /\ Hi(w) = l3 * B + l2
    <2>1. Lo(w) \in Nat /\ Lo(w) < H /\ Hi(w) \in Nat /\ Hi(w) < H
      BY <1>1, <1>2
    <2> QED
      BY <1>3, <2>1, Zenon
  <1> HIDE DEF l0, l1, l2, l3
  <1>q. ASSUME NEW q \in Int, NEW r \in 0..(B - 1), q * B + r \in Nat
        PROVE  (q * B + r) \div B = q /\ (q * B + r) % B = r
    <2> DEFINE n == q * B + r
    <2>1. n \in Nat /\ n = q * B + r
      BY <1>q
    <2> HIDE DEF n
    <2>2. n \div B = q /\ n % B = r
      BY <1>1, <2>1, TheQuotient
    <2> QED
      BY <2>1, <2>2, Zenon
  <1>5. w \div B = Hi(w) * B + l1 /\ w % B = l0
    <2>1. Hi(w) * H + (l1 * B + l0) = (Hi(w) * B + l1) * B + l0 /\ Hi(w) * B + l1 \in Int
      BY <1>1, <1>2, <1>4
    <2>2. w = (Hi(w) * B + l1) * B + l0
      BY <1>2, <1>4, <2>1, Zenon
    <2> QED
      BY <1>w, <1>4, <1>q, <2>1, <2>2, Zenon
  <1>6. (w \div B) % B = l1 /\ (w \div H) % B = l2
    <2>1. Hi(w) * B + l1 \in Nat
      BY <1>1, <1>2, <1>4
    <2>2. Hi(w) \in Nat /\ Hi(w) \in Int /\ l3 \in Int
      BY <1>2, <1>4
    <2>3. (Hi(w) * B + l1) % B = l1
      BY <1>4, <1>q, <2>1, <2>2, Zenon
    <2>4. Hi(w) % B = l2
      BY <1>4, <1>q, <2>2, Zenon
    <2> QED
      BY <1>h, <1>5, <2>3, <2>4, Zenon
  <1>7. (w \div (H * B)) % B = l3
    <2>1. l2 * H + Lo(w) \in 0..(H * B - 1)
      <3>1. ASSUME NEW x \in 0..(B - 1), NEW y \in 0..(H - 1) PROVE x * H + y \in 0..(H * B - 1)
        <4>1. (B - 1 - x) * H >= 0 /\ (B - 1 - x) * H = H * B - H - x * H
              /\ x * H \in Int /\ H * B \in Int /\ x * H >= 0
          BY <1>1
        <4> QED
          BY <1>1, <4>1
      <3> QED
        BY <1>2, <1>4, <3>1
    <2>2. w = l3 * (H * B) + (l2 * H + Lo(w))
      <3>1. (l3 * B + l2) * H + Lo(w) = l3 * (H * B) + (l2 * H + Lo(w))
        BY <1>1, <1>2, <1>4
      <3> QED
        BY <1>2, <1>4, <3>1, Zenon
    <2>3. H * B \in Nat /\ H * B > 0
      BY <1>1
    <2>4. w \div (H * B) = l3
      BY <1>w, <1>4, <2>1, <2>2, <2>3, TheQuotient
    <2>5. l3 = 0 * B + l3
      BY <1>1, <1>4
    <2> QED
      BY <1>1, <1>4, <2>4, <2>5, TheQuotient
  <1>8. Limb(w, 0) = l0 /\ Limb(w, 1) = l1 /\ Limb(w, 2) = l2 /\ Limb(w, 3) = l3
    <2>1. w \div 1 = w
      BY <1>w
    <2>2. \A i : Limb(w, i) = (w \div Base^i) % B
      BY DEF Limb, B
    <2> QED
      BY <1>1, <1>5, <1>6, <1>7, <2>1, <2>2, Zenon
  <1>9. \A i \in 0..3 : Limb(w, i) \in 0..(B - 1)
    <2>1. \A i \in 0..3 : i = 0 \/ i = 1 \/ i = 2 \/ i = 3
      OBVIOUS
    <2> QED
      BY <1>4, <1>8, <2>1, Zenon
  <1>10. l1 * B + l0 = l0 + l1 * B /\ l3 * B + l2 = l2 + l3 * B
    BY <1>1, <1>4
  <1> QED
    BY <1>4, <1>8, <1>9, <1>10, Zenon DEF B

\* The product of two words in the partial products of their limbs, and how large the
\* two that belong to the word can be.
LEMMA Product ==
    ASSUME NEW a \in WordValues, NEW b \in WordValues
    PROVE  /\ \A k \in 0..6 : MulT(a, b, k) \in Nat
           /\ a * b = (MulT(a, b, 0) + MulT(a, b, 1) * Base)
                        + (MulT(a, b, 2) + MulT(a, b, 3) * Base) * Half
                        + (MulT(a, b, 4) + MulT(a, b, 5) * Base + MulT(a, b, 6) * Half) * WordSize
           /\ MulT(a, b, 0) + MulT(a, b, 1) * Base + Half - 1 < 2 * Base * Half
           /\ MulT(a, b, 2) + MulT(a, b, 3) * Base + Half - 1 + 2 * Base < 4 * Base * Half
           /\ MulT(a, b, 4) + MulT(a, b, 5) * Base + 4 * Base < 4 * Base * Half
           /\ MulT(a, b, 6) < Half
  <1> DEFINE A(i) == Limb(a, i)
             B(i) == Limb(b, i)
  <1>1. /\ Base \in Nat /\ Base > 1 /\ Half = Base * Base /\ WordSize = Half * Half
        /\ Half \in Nat
    BY PowersOfBase, HalfType
  <1>2. /\ A(0) \in 0..(Base - 1) /\ A(1) \in 0..(Base - 1)
        /\ A(2) \in 0..(Base - 1) /\ A(3) \in 0..(Base - 1)
        /\ B(0) \in 0..(Base - 1) /\ B(1) \in 0..(Base - 1)
        /\ B(2) \in 0..(Base - 1) /\ B(3) \in 0..(Base - 1)
    <2>1. 0 \in 0..3 /\ 1 \in 0..3 /\ 2 \in 0..3 /\ 3 \in 0..3
      OBVIOUS
    <2> QED
      BY <2>1, Limbs, Zenon
  <1>3. /\ a = (A(2) + A(3) * Base) * Half + (A(0) + A(1) * Base)
        /\ b = (B(2) + B(3) * Base) * Half + (B(0) + B(1) * Base)
    BY Limbs, Halves, Zenon
  <1>4. \A i, j \in 0..3 : A(i) * B(j) \in 0..((Base - 1) * (Base - 1))
    <2>1. ASSUME NEW m \in Nat, NEW x \in 0..m, NEW y \in 0..m PROVE x * y \in 0..(m * m)
      <3>1. x * y \in Int /\ x * y >= 0 /\ (m - x) * y >= 0 /\ m * (m - y) >= 0
        BY <2>1
      <3>2. (m - x) * y = m * y - x * y /\ m * (m - y) = m * m - m * y /\ m * y \in Int /\ m * m \in Int
        BY <2>1
      <3> QED
        BY <3>1, <3>2
    <2>2. Base - 1 \in Nat
      BY <1>1
    <2>3. \A i \in 0..3 : A(i) \in 0..(Base - 1) /\ B(i) \in 0..(Base - 1)
      BY Limbs, Zenon
    <2> QED
      BY <2>1, <2>2, <2>3, Zenon
  <1>5. /\ MulT(a, b, 0) = A(0) * B(0)
        /\ MulT(a, b, 1) = A(0) * B(1) + A(1) * B(0)
        /\ MulT(a, b, 2) = A(0) * B(2) + A(1) * B(1) + A(2) * B(0)
        /\ MulT(a, b, 3) = A(0) * B(3) + A(1) * B(2) + A(2) * B(1) + A(3) * B(0)
        /\ MulT(a, b, 4) = A(1) * B(3) + A(2) * B(2) + A(3) * B(1)
        /\ MulT(a, b, 5) = A(2) * B(3) + A(3) * B(2)
        /\ MulT(a, b, 6) = A(3) * B(3)
    <2> DEFINE term(k, i) == IF k - i \in 0..3 THEN A(i) * B(k - i) ELSE 0
    <2>1. \A k \in 0..6 : MulT(a, b, k) = term(k, 0) + term(k, 1) + term(k, 2) + term(k, 3)
      BY DEF MulT
    <2>2. \A i, j \in 0..3 : A(i) * B(j) \in Int
      BY <1>1, <1>4
    <2> HIDE DEF A, B
    <2> QED
      BY <2>1, <2>2
  <1>6. \A k \in 0..6 : MulT(a, b, k) \in Nat
    <2>1. \A i, j \in 0..3 : A(i) * B(j) \in Nat
      BY <1>1, <1>4
    <2> HIDE DEF A, B
    <2>2. \A k \in 0..6 : k = 0 \/ k = 1 \/ k = 2 \/ k = 3 \/ k = 4 \/ k = 5 \/ k = 6
      OBVIOUS
    <2> QED
      BY <1>5, <2>1, <2>2
  <1>7. a * b = (A(0) * B(0) + (A(0) * B(1) + A(1) * B(0)) * Base)
                  + ((A(0) * B(2) + A(1) * B(1) + A(2) * B(0))
                       + (A(0) * B(3) + A(1) * B(2) + A(2) * B(1) + A(3) * B(0)) * Base) * Half
                  + ((A(1) * B(3) + A(2) * B(2) + A(3) * B(1)) + (A(2) * B(3) + A(3) * B(2)) * Base
                       + (A(3) * B(3)) * Half) * WordSize
    <2>1. /\ A(0) \in Int /\ A(1) \in Int /\ A(2) \in Int /\ A(3) \in Int
          /\ B(0) \in Int /\ B(1) \in Int /\ B(2) \in Int /\ B(3) \in Int
          /\ Base \in Int /\ Half \in Int /\ WordSize \in Int
      BY <1>1, <1>2, HalfType
    <2> HIDE DEF A, B
    <2>2. ((A(2) + A(3) * Base) * Half + (A(0) + A(1) * Base))
            * ((B(2) + B(3) * Base) * Half + (B(0) + B(1) * Base))
            = (A(0) * B(0) + (A(0) * B(1) + A(1) * B(0)) * Base)
                  + ((A(0) * B(2) + A(1) * B(1) + A(2) * B(0))
                       + (A(0) * B(3) + A(1) * B(2) + A(2) * B(1) + A(3) * B(0)) * Base) * Half
                  + ((A(1) * B(3) + A(2) * B(2) + A(3) * B(1)) + (A(2) * B(3) + A(3) * B(2)) * Base
                       + (A(3) * B(3)) * Half) * WordSize
      BY <1>1, <2>1
    <2> QED
      BY <1>3, <2>2, Zenon
  <1> DEFINE m == (Base - 1) * (Base - 1)
  <1>8. m \in Nat /\ m = Half - 2 * Base + 1
    BY <1>1
  <1>9. m * Base \in Nat /\ m * Base = Half * Base - 2 * Half + Base /\ Half * Base \in Nat
    BY <1>1
  <1> HIDE DEF m
  <1>10. ASSUME NEW n \in Nat, NEW t \in Nat, t <= n * m
         PROVE  t * Base \in Nat /\ t * Base <= n * (m * Base)
    <2>1. n * m \in Int /\ (n * m - t) * Base >= 0
      BY <1>1, <1>8, <1>10
    <2>2. (n * m - t) * Base = n * (m * Base) - t * Base /\ n * (m * Base) \in Int /\ t * Base \in Nat
      BY <1>1, <1>8, <1>10, <2>1
    <2> QED
      BY <2>1, <2>2
  <1>11. /\ MulT(a, b, 0) <= m /\ MulT(a, b, 1) <= 2 * m
         /\ MulT(a, b, 2) <= 3 * m /\ MulT(a, b, 3) <= 4 * m
         /\ MulT(a, b, 4) <= 3 * m /\ MulT(a, b, 5) <= 2 * m /\ MulT(a, b, 6) <= m
    <2>1. \A i, j \in 0..3 : A(i) * B(j) \in Int /\ A(i) * B(j) <= m
      BY <1>4, <1>8 DEF m
    <2> HIDE DEF A, B
    <2> QED
      BY <1>5, <1>8, <2>1
  <1>12. /\ MulT(a, b, 0) \in Nat /\ MulT(a, b, 1) \in Nat
         /\ MulT(a, b, 2) \in Nat /\ MulT(a, b, 3) \in Nat
         /\ MulT(a, b, 4) \in Nat /\ MulT(a, b, 5) \in Nat /\ MulT(a, b, 6) \in Nat
    BY <1>6
  <1>13. /\ MulT(a, b, 1) * Base \in Nat /\ MulT(a, b, 1) * Base <= 2 * (m * Base)
         /\ MulT(a, b, 3) * Base \in Nat /\ MulT(a, b, 3) * Base <= 4 * (m * Base)
         /\ MulT(a, b, 5) * Base \in Nat /\ MulT(a, b, 5) * Base <= 2 * (m * Base)
    BY <1>10, <1>11, <1>12
  <1>14. 2 * Base * Half = 2 * (Half * Base) /\ 4 * Base * Half = 4 * (Half * Base)
    BY <1>1
  <1>15. /\ MulT(a, b, 0) + MulT(a, b, 1) * Base + Half - 1 < 2 * Base * Half
         /\ MulT(a, b, 2) + MulT(a, b, 3) * Base + Half - 1 + 2 * Base < 4 * Base * Half
         /\ MulT(a, b, 4) + MulT(a, b, 5) * Base + 4 * Base < 4 * Base * Half
    <2>1. Half > 3 /\ Half >= 2 * Base
      BY <1>1, HalfType
    <2> DEFINE l == m * Base
               q == Half * Base
               t == MulT(a, b, 1) * Base
               v == MulT(a, b, 3) * Base
               w == MulT(a, b, 5) * Base
    <2>2. /\ MulT(a, b, 0) + t + Half - 1 < 2 * q
          /\ MulT(a, b, 2) + v + Half - 1 + 2 * Base < 4 * q
          /\ MulT(a, b, 4) + w + 4 * Base < 4 * q
      <3>1. /\ l \in Nat /\ q \in Nat /\ l = q - 2 * Half + Base
            /\ t \in Nat /\ v \in Nat /\ w \in Nat /\ t <= 2 * l /\ v <= 4 * l /\ w <= 2 * l
        BY <1>9, <1>13
      <3>2. q >= 2 * Half
        BY <1>1
      <3> HIDE DEF l, q, t, v, w
      <3> QED
        BY <1>1, <1>8, <1>11, <1>12, <2>1, <3>1, <3>2
    <2> QED
      BY <1>14, <2>2, Zenon
  <1>16. MulT(a, b, 6) < Half
    BY <1>1, <1>8, <1>11, <1>12
  <1> QED
    BY <1>5, <1>6, <1>7, <1>15, <1>16, Zenon

\* The quotient of a value below a multiple of the divisor.
LEMMA QuotientBound ==
    ASSUME NEW d \in Nat, d > 0, NEW k \in Nat, NEW n \in Nat, n < k * d
    PROVE  n \div d \in Nat /\ n \div d < k
  <1> DEFINE q == n \div d
  <1>1. q \in Nat /\ n % d \in 0..(d - 1) /\ n = q * d + (n % d)
    BY DivMod, Zenon
  <1> HIDE DEF q
  <1>2. q * d \in Nat /\ k * d \in Nat /\ q * d < k * d
    BY <1>1
  <1>3. SUFFICES ASSUME q >= k PROVE FALSE
    BY <1>1 DEF q
  <1>4. (q - k) * d >= 0 /\ (q - k) * d = q * d - k * d
    BY <1>1, <1>3
  <1> QED
    BY <1>2, <1>4

\* A gate with a carry of a product: the carry is the quotient by Half, and the cell the
\* remainder.
LEMMA CarryDecides ==
    ASSUME NEW x \in Nat, x < 4 * Base * Half
    PROVE  /\ x \div Half \in Carries /\ x % Half \in 0..(Half - 1)
           /\ \A y \in 0..(Half - 1), c \in Carries :
                F(x) = F(y + c * Half) <=> c = x \div Half /\ y = x % Half
  <1>1. /\ Half \in Nat /\ Half > 3 /\ Half > 0 /\ P \in Nat /\ CarrySize \in Nat /\ Base \in Nat
        /\ CarrySize >= 4 * Base /\ P >= CarrySize * Half
    BY HalfType, CarriesFit, PowersOfBase
  <1>2. CarrySize * Half \in Nat /\ 4 * Base * Half \in Nat /\ CarrySize * Half >= 4 * Base * Half
    <2>1. ASSUME NEW u \in Nat, NEW v \in Nat, NEW h \in Nat, u >= v PROVE u * h >= v * h
      <3>1. (u - v) * h >= 0 /\ (u - v) * h = u * h - v * h /\ u * h \in Int /\ v * h \in Int
        BY <2>1
      <3> QED
        BY <3>1
    <2>2. 4 * Base \in Nat /\ CarrySize * Half \in Nat /\ (4 * Base) * Half \in Nat
      BY <1>1
    <2>3. CarrySize * Half >= (4 * Base) * Half
      BY <1>1, <2>1, <2>2, Zenon
    <2> QED
      BY <2>2, <2>3, Zenon
  <1>3. x \div Half \in Nat /\ x % Half \in 0..(Half - 1) /\ x = (x \div Half) * Half + (x % Half)
    BY <1>1, DivMod, Zenon
  <1>4. x \div Half < CarrySize
    <2>1. ASSUME NEW q \in Nat, q >= CarrySize PROVE q * Half >= CarrySize * Half /\ q * Half \in Nat
      <3>1. (q - CarrySize) * Half >= 0 /\ (q - CarrySize) * Half = q * Half - CarrySize * Half
            /\ q * Half \in Nat
        BY <1>1, <2>1
      <3> QED
        BY <1>2, <3>1
    <2> DEFINE q == x \div Half
    <2>2. q \in Nat /\ x >= q * Half /\ q * Half \in Nat
      BY <1>1, <1>3
    <2> HIDE DEF q
    <2>3. q < CarrySize
      BY <1>1, <1>2, <2>1, <2>2
    <2> QED
      BY <2>3 DEF q
  <1>5. F(x) = x
    BY <1>1, <1>2, InField
  <1>6. ASSUME NEW y \in 0..(Half - 1), NEW c \in Carries
        PROVE  F(x) = F(y + c * Half) <=> c = x \div Half /\ y = x % Half
    <2>1. c \in Nat /\ c < CarrySize /\ c * Half \in Nat
      BY <1>1 DEF Carries
    <2>2. y + c * Half \in Nat /\ y + c * Half < P
      <3>1. (CarrySize - 1 - c) * Half >= 0
            /\ (CarrySize - 1 - c) * Half = CarrySize * Half - Half - c * Half
        BY <1>1, <2>1
      <3> QED
        BY <1>1, <1>2, <2>1, <3>1
    <2>3. F(y + c * Half) = c * Half + y
      BY <1>1, <2>1, <2>2, InField
    <2>4. (x \div Half) * Half + (x % Half) = c * Half + y <=> x \div Half = c /\ x % Half = y
      BY <1>1, <1>3, <2>1, Digits
    <2> QED
      BY <1>3, <1>5, <2>3, <2>4, Zenon
  <1>7. x \div Half \in Carries
    BY <1>1, <1>3, <1>4 DEF Carries
  <1> QED
    BY <1>3, <1>6, <1>7, Zenon

\* The two halves of a * b + c with their carries, before they are cut.
MulAddX(a, b, c) == MulT(a, b, 0) + MulT(a, b, 1) * Base + Lo(c)
MulAddY(a, b, c) == MulT(a, b, 2) + MulT(a, b, 3) * Base + Hi(c) + MulAddX(a, b, c) \div Half

\* The carries of MulAddWordsGadget are these two, and its halves their remainders.
LEMMA MulAddCarries ==
    ASSUME NEW a \in WordValues, NEW b \in WordValues, NEW c \in WordValues, NEW d \in WordValues
    PROVE  /\ MulAddX(a, b, c) \in Nat /\ MulAddX(a, b, c) < 4 * Base * Half
           /\ MulAddY(a, b, c) \in Nat /\ MulAddY(a, b, c) < 4 * Base * Half
           /\ MulAddWords(a, b, c, d) =
                IF Lo(d) = MulAddX(a, b, c) % Half /\ Hi(d) = MulAddY(a, b, c) % Half
                THEN {MulAddOverflow(a, b, MulAddY(a, b, c) \div Half)} ELSE {}
  <1> DEFINE X == MulAddX(a, b, c)
             y == MulT(a, b, 2) + MulT(a, b, 3) * Base + Hi(c)
  <1>1. /\ Half \in Nat /\ Half > 3 /\ Half > 0 /\ Base \in Nat /\ Base > 1
        /\ Lo(c) \in 0..(Half - 1) /\ Hi(c) \in 0..(Half - 1)
        /\ Lo(d) \in 0..(Half - 1) /\ Hi(d) \in 0..(Half - 1)
    BY HalfType, PowersOfBase, Halves
  <1>2. /\ MulT(a, b, 0) \in Nat /\ MulT(a, b, 1) \in Nat /\ MulT(a, b, 2) \in Nat
        /\ MulT(a, b, 3) \in Nat /\ MulT(a, b, 1) * Base \in Nat /\ MulT(a, b, 3) * Base \in Nat
    <2>1. /\ MulT(a, b, 0) \in Nat /\ MulT(a, b, 1) \in Nat /\ MulT(a, b, 2) \in Nat
          /\ MulT(a, b, 3) \in Nat
      BY Product
    <2> QED
      BY <1>1, <2>1
  <1>3. /\ MulT(a, b, 0) + MulT(a, b, 1) * Base + Half - 1 < 2 * Base * Half
        /\ MulT(a, b, 2) + MulT(a, b, 3) * Base + Half - 1 + 2 * Base < 4 * Base * Half
    BY Product, Zenon
  <1>4. 2 * Base * Half \in Nat /\ 4 * Base * Half = 2 * (2 * Base * Half)
    BY <1>1
  <1>5. X \in Nat /\ X < 2 * Base * Half /\ X < 4 * Base * Half
    BY <1>1, <1>2, <1>3, <1>4 DEF MulAddX
  <1>6. X \div Half \in Nat /\ X \div Half < 2 * Base
    <2> DEFINE q == X \div Half
    <2>1. q \in Nat /\ X % Half \in 0..(Half - 1) /\ X = q * Half + (X % Half)
      BY <1>1, <1>5, DivMod, Zenon
    <2> HIDE DEF q, X
    <2>2. q * Half \in Nat /\ q * Half < 2 * Base * Half
      BY <1>1, <1>4, <1>5, <2>1
    <2>3. q < 2 * Base
      <3>1. SUFFICES ASSUME q >= 2 * Base PROVE FALSE
        BY <1>1, <2>1
      <3>2. (q - 2 * Base) * Half >= 0 /\ (q - 2 * Base) * Half = q * Half - 2 * Base * Half
        BY <1>1, <2>1, <3>1
      <3> QED
        BY <1>4, <2>2, <3>2
    <2> QED
      BY <2>1, <2>3 DEF q
  <1>7. y \in Nat /\ y + X \div Half \in Nat /\ y + X \div Half < 4 * Base * Half
    <2> HIDE DEF X
    <2> QED
      BY <1>1, <1>2, <1>3, <1>4, <1>6
  <1>8. MulAddY(a, b, c) = y + X \div Half
    BY DEF MulAddY
  <1> DEFINE Y == y + X \div Half
             One(lo) == F(X) = F(Lo(d) + lo * Half)
             Two(lo, hi) == F(y + lo) = F(Hi(d) + hi * Half)
  <1>9. \A o : o \in MulAddWords(a, b, c, d) <=>
                \E lo \in Carries, hi \in Carries :
                    One(lo) /\ Two(lo, hi) /\ o = MulAddOverflow(a, b, hi)
    <2>1. MulAddWords(a, b, c, d)
            = UNION {{MulAddOverflow(a, b, hi) : hi \in {h \in Carries : Two(lo, h)}} :
                        lo \in {l \in Carries : One(l)}}
      BY Zenon DEF MulAddWords, MulAddX
    <2> HIDE DEF One, Two
    <2> QED
      BY <2>1
  <1>10. \A lo \in Carries : One(lo) <=> lo = X \div Half /\ Lo(d) = X % Half
    <2> HIDE DEF X
    <2> QED
      BY <1>1, <1>5, CarryDecides, Zenon
  <1>11. \A hi \in Carries : Two(X \div Half, hi) <=> hi = Y \div Half /\ Hi(d) = Y % Half
    <2>1. Y \in Nat /\ Y < 4 * Base * Half
      BY <1>7
    <2> HIDE DEF X, y
    <2>2. \A hi \in Carries : F(Y) = F(Hi(d) + hi * Half) <=> hi = Y \div Half /\ Hi(d) = Y % Half
      <3> HIDE DEF Y
      <3> QED
        BY <1>1, <2>1, CarryDecides, Zenon
    <2> QED
      BY <2>2, Zenon
  <1>12. X \div Half \in Carries /\ Y \div Half \in Carries
    BY <1>5, <1>7, CarryDecides, Zenon
  <1>13. \A o : o \in MulAddWords(a, b, c, d) <=>
                 /\ Lo(d) = X % Half /\ Hi(d) = Y % Half
                 /\ o = MulAddOverflow(a, b, Y \div Half)
    <2> HIDE DEF X, Y, One, Two
    <2> QED
      BY <1>9, <1>10, <1>11, <1>12, Zenon
  <1>14. MulAddWords(a, b, c, d) = IF Lo(d) = X % Half /\ Hi(d) = Y % Half
                                   THEN {MulAddOverflow(a, b, Y \div Half)} ELSE {}
    <2> HIDE DEF X, Y
    <2>1. CASE Lo(d) = X % Half /\ Hi(d) = Y % Half
      BY <1>13, <2>1, Zenon
    <2>2. CASE ~(Lo(d) = X % Half /\ Hi(d) = Y % Half)
      BY <1>13, <2>2, Zenon
    <2> QED
      BY <2>1, <2>2, Zenon
  <1> QED
    BY <1>5, <1>7, <1>8, <1>14, Zenon

\* What the partial products beyond the word amount to.
MulAddZ(a, b) == MulT(a, b, 4) + MulT(a, b, 5) * Base + MulT(a, b, 6) * Half

\* The digits of a * b + c in halves.
LEMMA MulAddSum ==
    ASSUME NEW a \in WordValues, NEW b \in WordValues, NEW c \in WordValues
    PROVE  /\ a * b + c \in Nat /\ MulAddZ(a, b) \in Nat /\ MulAddY(a, b, c) \div Half \in Nat
           /\ MulAddX(a, b, c) % Half \in 0..(Half - 1) /\ MulAddY(a, b, c) % Half \in 0..(Half - 1)
           /\ (a * b + c) \div WordSize = MulAddY(a, b, c) \div Half + MulAddZ(a, b)
           /\ (a * b + c) % WordSize
                = (MulAddY(a, b, c) % Half) * Half + (MulAddX(a, b, c) % Half)
  <1> DEFINE N == a * b + c
             X == MulAddX(a, b, c)
             Y == MulAddY(a, b, c)
             x0 == X % Half
             x1 == X \div Half
             y0 == Y % Half
             y1 == Y \div Half
             Z == MulAddZ(a, b)
  <1>1. /\ Half \in Nat /\ Half > 3 /\ Half > 0 /\ WordSize = Half * Half /\ WordSize \in Nat
        /\ Base \in Nat /\ Base > 1
        /\ Lo(c) \in 0..(Half - 1) /\ Hi(c) \in 0..(Half - 1) /\ c = Hi(c) * Half + Lo(c)
        /\ a \in Nat /\ b \in Nat /\ c \in Nat
    BY HalfType, PowersOfBase, Halves DEF WordValues
  <1>2. X \in Nat /\ Y \in Nat
    BY MulAddCarries, Zenon
  <1>3. /\ x1 \in Nat /\ x0 \in 0..(Half - 1) /\ X = x1 * Half + x0
        /\ y1 \in Nat /\ y0 \in 0..(Half - 1) /\ Y = y1 * Half + y0
    BY <1>1, <1>2, DivMod, Zenon
  <1>4. \A k \in 0..6 : MulT(a, b, k) \in Nat
    BY Product
  <1>5. Z \in Nat
    <2>1. MulT(a, b, 4) \in Nat /\ MulT(a, b, 5) \in Nat /\ MulT(a, b, 6) \in Nat
      BY <1>4
    <2> QED
      BY <1>1, <2>1 DEF MulAddZ
  <1>6. N = (y1 + Z) * WordSize + (y0 * Half + x0)
    <2> DEFINE s0 == MulT(a, b, 0) + MulT(a, b, 1) * Base
               s1 == MulT(a, b, 2) + MulT(a, b, 3) * Base
    <2>1. s0 \in Nat /\ s1 \in Nat
      <3>1. MulT(a, b, 0) \in Nat /\ MulT(a, b, 1) \in Nat /\ MulT(a, b, 2) \in Nat
            /\ MulT(a, b, 3) \in Nat
        BY <1>4
      <3> QED
        BY <1>1, <3>1
    <2>2. a * b = s0 + s1 * Half + Z * WordSize
      BY Product, Zenon DEF MulAddZ
    <2>3. X = s0 + Lo(c) /\ Y = s1 + Hi(c) + x1
      BY Zenon DEF MulAddX, MulAddY
    <2> HIDE DEF X, Y, Z, s0, s1, x0, x1, y0, y1
    <2>4. (s0 + s1 * Half + Z * WordSize) + (Hi(c) * Half + Lo(c))
            = (y1 + Z) * WordSize + (y0 * Half + x0)
      <3>1. s0 + Lo(c) = x1 * Half + x0 /\ s1 + Hi(c) + x1 = y1 * Half + y0
        BY <1>3, <2>3, Zenon
      <3>5. x1 * Half \in Int /\ y1 * Half \in Int
        BY <1>1, <1>3
      <3>2. /\ Half \in Int /\ WordSize \in Int /\ s0 \in Int /\ s1 \in Int /\ Z \in Int
            /\ Lo(c) \in Int /\ Hi(c) \in Int /\ x0 \in Int /\ x1 \in Int /\ y0 \in Int /\ y1 \in Int
        BY <1>1, <1>3, <1>5, <2>1
      <3>3. s0 = x1 * Half + x0 - Lo(c) /\ s1 = y1 * Half + y0 - Hi(c) - x1
        <4> DEFINE u == x1 * Half
                   v == y1 * Half
        <4>1. s0 + Lo(c) = u + x0 /\ s1 + Hi(c) + x1 = v + y0 /\ u \in Int /\ v \in Int
          BY <3>1, <3>5, Zenon
        <4> HIDE DEF u, v
        <4>2. /\ s0 \in Int /\ s1 \in Int /\ Lo(c) \in Int /\ Hi(c) \in Int
              /\ x0 \in Int /\ x1 \in Int /\ y0 \in Int
          BY <3>2, Zenon
        <4>5. s0 = u + x0 - Lo(c)
          BY <4>1, <4>2
        <4>6. s1 = v + y0 - Hi(c) - x1
          BY <4>1, <4>2
        <4> QED
          BY <4>5, <4>6, Zenon DEF u, v
      <3>4. ((x1 * Half + x0 - Lo(c)) + (y1 * Half + y0 - Hi(c) - x1) * Half + Z * WordSize)
              + (Hi(c) * Half + Lo(c)) = (y1 + Z) * WordSize + (y0 * Half + x0)
        BY <1>1, <3>2
      <3> QED
        BY <3>3, <3>4, Zenon
    <2> QED
      BY <1>1, <2>2, <2>4, Zenon
  <1>7. y0 * Half + x0 \in 0..(WordSize - 1) /\ N \in Nat /\ y1 + Z \in Nat /\ WordSize > 0
    <2> HIDE DEF x0, y0, y1, Z
    <2>1. y0 * Half + x0 \in 0..(Half * Half - 1)
      <3>1. (Half - 1 - y0) * Half >= 0 /\ (Half - 1 - y0) * Half = Half * Half - Half - y0 * Half
            /\ y0 * Half \in Nat /\ Half * Half \in Nat
        BY <1>1, <1>3
      <3> QED
        BY <1>1, <1>3, <3>1
    <2>2. N \in Nat
      BY <1>1
    <2> QED
      BY <1>1, <1>3, <1>5, <2>1, <2>2
  <1>8. N \div WordSize = y1 + Z /\ N % WordSize = y0 * Half + x0
    <2> HIDE DEF x0, y0, y1, Z, N
    <2>1. y1 + Z \in Int /\ WordSize \in Nat
      BY <1>1, <1>7
    <2> QED
      BY <1>6, <1>7, <2>1, TheQuotient
  <1> QED
    BY <1>3, <1>5, <1>7, <1>8, Zenon

\* MulAddWordsGadget: for every width of a limb the cells have a solution exactly when d is
\* a * b + c modulo the size of a word, and then one value of the overflow expression, which
\* is zero exactly when a * b + c is a word.
THEOREM MulAddWordsDecides ==
    ASSUME NEW a \in WordValues, NEW b \in WordValues, NEW c \in WordValues, NEW d \in WordValues
    PROVE  /\ MulAddWords(a, b, c, d) # {} <=> (a * b + c) % WordSize = d
           /\ \A o, p \in MulAddWords(a, b, c, d) : o = p
           /\ 0 \in MulAddWords(a, b, c, d) <=> a * b + c = d
  <1> DEFINE N == a * b + c
             x0 == MulAddX(a, b, c) % Half
             y0 == MulAddY(a, b, c) % Half
             y1 == MulAddY(a, b, c) \div Half
             Z == MulAddZ(a, b)
  <1>1. /\ Half \in Nat /\ Half > 3 /\ Half > 0 /\ WordSize = Half * Half /\ WordSize \in Nat
        /\ WordSize > 0 /\ Base \in Nat /\ Base > 1
        /\ Lo(d) \in 0..(Half - 1) /\ Hi(d) \in 0..(Half - 1) /\ d = Hi(d) * Half + Lo(d)
        /\ d \in Nat /\ d < WordSize
    BY HalfType, PowersOfBase, Halves DEF WordValues
  <1>2. MulAddWords(a, b, c, d) = IF Lo(d) = x0 /\ Hi(d) = y0
                                  THEN {MulAddOverflow(a, b, y1)} ELSE {}
    BY MulAddCarries, Zenon
  <1>3. /\ N \in Nat /\ Z \in Nat /\ y1 \in Nat /\ x0 \in 0..(Half - 1) /\ y0 \in 0..(Half - 1)
        /\ N \div WordSize = y1 + Z /\ N % WordSize = y0 * Half + x0
    BY MulAddSum, ZenonT(30)
  <1>4. \A k \in 0..6 : MulT(a, b, k) \in Nat
    BY Product
  <1>5. /\ MulAddOverflow(a, b, y1) \in Nat
        /\ MulAddOverflow(a, b, y1) = 0 <=> y1 + Z = 0
    <2>1. MulT(a, b, 4) \in Nat /\ MulT(a, b, 5) \in Nat /\ MulT(a, b, 6) \in Nat
      BY <1>4
    <2>2. ASSUME NEW t \in Nat, NEW h \in Nat, h > 0
          PROVE  t * h \in Nat /\ (t * h = 0 <=> t = 0)
      <3>1. t * h \in Nat /\ (t = 0 => t * h = 0)
        BY <2>2
      <3>2. ASSUME t > 0 PROVE t * h >= h
        <4>1. (t - 1) * h >= 0 /\ (t - 1) * h = t * h - h
          BY <2>2, <3>2
        <4> QED
          BY <2>2, <3>1, <4>1
      <3> QED
        BY <2>2, <3>1, <3>2
    <2>3. /\ MulT(a, b, 5) * Base \in Nat /\ (MulT(a, b, 5) * Base = 0 <=> MulT(a, b, 5) = 0)
          /\ MulT(a, b, 6) * Half \in Nat /\ (MulT(a, b, 6) * Half = 0 <=> MulT(a, b, 6) = 0)
      BY <1>1, <2>1, <2>2
    <2>4. y1 \in Nat
      BY <1>3
    <2> DEFINE u == MulT(a, b, 5) * Base
               v == MulT(a, b, 6) * Half
    <2>5. /\ u \in Nat /\ (u = 0 <=> MulT(a, b, 5) = 0) /\ v \in Nat /\ (v = 0 <=> MulT(a, b, 6) = 0)
          /\ Z = MulT(a, b, 4) + u + v
      BY <2>3, Zenon DEF MulAddZ
    <2> HIDE DEF y1, u, v, Z
    <2>6. /\ y1 + MulT(a, b, 4) + MulT(a, b, 5) + MulT(a, b, 6) \in Nat
          /\ y1 + MulT(a, b, 4) + MulT(a, b, 5) + MulT(a, b, 6) = 0
               <=> y1 = 0 /\ MulT(a, b, 4) = 0 /\ MulT(a, b, 5) = 0 /\ MulT(a, b, 6) = 0
      BY <2>1, <2>4, SMTT(60)
    <2>7. y1 + (MulT(a, b, 4) + u + v) = 0 <=> y1 = 0 /\ MulT(a, b, 4) = 0 /\ u = 0 /\ v = 0
      <3>1. u \in Nat /\ v \in Nat /\ MulT(a, b, 4) \in Nat
        BY <2>1, <2>5
      <3> QED
        BY <2>4, <3>1, SMTT(60)
    <2> QED
      BY <2>5, <2>6, <2>7, Zenon DEF MulAddOverflow
  <1>6. N % WordSize = d <=> Lo(d) = x0 /\ Hi(d) = y0
    <2> HIDE DEF x0, y0, N
    <2>1. y0 * Half + x0 = Hi(d) * Half + Lo(d) <=> y0 = Hi(d) /\ x0 = Lo(d)
      <3>1. y0 \in Int /\ Hi(d) \in Int
        BY <1>1, <1>3
      <3>2. \A q, s \in Int : \A t, u \in 0..(Half - 1) :
              q * Half + t = s * Half + u <=> q = s /\ t = u
        <4>1. Half \in Nat /\ Half > 0
          BY <1>1
        <4> QED
          BY <4>1, Digits
      <3>3. x0 \in 0..(Half - 1) /\ Lo(d) \in 0..(Half - 1)
        BY <1>1, <1>3
      <3> QED
        BY <3>1, <3>2, <3>3, SMTT(60)
    <2> QED
      BY <1>1, <1>3, <2>1, Zenon
  <1>7. N = d <=> N % WordSize = d /\ y1 + Z = 0
    <2> HIDE DEF y1, Z, N
    <2>1. N = (N \div WordSize) * WordSize + (N % WordSize)
      BY <1>1, <1>3, DivMod, Zenon
    <2>2. ASSUME N = d PROVE N \div WordSize = 0 /\ N % WordSize = d
      <3>1. d \in 0..(WordSize - 1) /\ 0 * WordSize + d = d /\ 0 \in Int
        BY <1>1
      <3>2. N = 0 * WordSize + d
        BY <2>2, <3>1, Zenon
      <3> QED
        BY <1>1, <1>3, <3>1, <3>2, TheQuotient, Zenon
    <2>3. 0 * WordSize + d = d
      BY <1>1
    <2> QED
      BY <1>3, <2>1, <2>2, <2>3, Zenon
  <1>8. MulAddOverflow(a, b, y1) = 0 <=> y1 + Z = 0
    BY <1>5
  <1> HIDE DEF N, Z, x0, y0, y1
  <1>9. MulAddWords(a, b, c, d) # {} <=> N % WordSize = d
    BY <1>2, <1>6, Zenon
  <1>10. \A o, p \in MulAddWords(a, b, c, d) : o = p
    BY <1>2, Zenon
  <1>11. 0 \in MulAddWords(a, b, c, d) <=> N = d
    BY <1>2, <1>6, <1>7, <1>8, Zenon
  <1> QED
    BY <1>9, <1>10, <1>11 DEF N

\* MulAddWords512Gadget: the cells have a solution exactly when the two words d and e are
\* a * b + c, for every width of a limb.
THEOREM MulAddWords512Decides ==
    ASSUME NEW a \in WordValues, NEW b \in WordValues, NEW c \in WordValues,
           NEW d \in WordValues, NEW e \in WordValues
    PROVE  MulAddWords512(a, b, c, d, e) <=> a * b + c = d * WordSize + e
  <1> DEFINE N == a * b + c
             X == MulAddX(a, b, c)
             y == MulT(a, b, 2) + MulT(a, b, 3) * Base + Hi(c)
             Y == y + X \div Half
             v == MulT(a, b, 4) + MulT(a, b, 5) * Base
             V == v + Y \div Half
             t == MulT(a, b, 6)
             W == WordSize
  <1>1. /\ Half \in Nat /\ Half > 3 /\ Half > 0 /\ W = Half * Half /\ W \in Nat /\ W > 0
        /\ Base \in Nat /\ Base > 1 /\ P \in Nat /\ P >= 4 * Half /\ Half >= 2 * Base
        /\ Lo(d) \in 0..(Half - 1) /\ Hi(d) \in 0..(Half - 1) /\ d = Hi(d) * Half + Lo(d)
        /\ Lo(e) \in 0..(Half - 1) /\ Hi(e) \in 0..(Half - 1) /\ e = Hi(e) * Half + Lo(e)
        /\ d \in Nat /\ e \in 0..(W - 1)
    BY HalfType, PowersOfBase, Halves DEF WordValues
  <1>2. /\ MulT(a, b, 4) \in Nat /\ MulT(a, b, 5) \in Nat /\ t \in Nat /\ t < Half
        /\ v + 4 * Base < 4 * Base * Half
    BY Product
  <1>3. v \in Nat /\ 4 * Base * Half \in Nat
    BY <1>1, <1>2
  <1>4. /\ X \in Nat /\ X < 4 * Base * Half /\ Y \in Nat /\ Y < 4 * Base * Half
    BY MulAddCarries, Zenon DEF MulAddY
  <1>5. /\ Y \div Half \in Nat /\ Y \div Half < 4 * Base
    <2> HIDE DEF Y
    <2> QED
      BY <1>1, <1>4, QuotientBound
  <1>6. V \in Nat /\ V < 4 * Base * Half
    <2> HIDE DEF v, Y
    <2> QED
      BY <1>1, <1>2, <1>3, <1>5
  <1>7. V \div Half \in Nat /\ V \div Half < 4 * Base
    <2> HIDE DEF V
    <2> QED
      BY <1>1, <1>6, QuotientBound
  <1> DEFINE One(lo) == F(X) = F(Lo(e) + lo * Half)
             Two(lo, hi) == F(y + lo) = F(Hi(e) + hi * Half)
             Three(hi, up) == F(v + hi) = F(Lo(d) + up * Half)
             Four(up) == F(t + up) = F(Hi(d))
  <1>8. MulAddWords512(a, b, c, d, e)
          <=> \E lo \in Carries : One(lo) /\ \E hi \in Carries : Two(lo, hi)
                /\ \E up \in Carries : Three(hi, up) /\ Four(up)
    BY Zenon DEF MulAddWords512, MulAddX
  <1>9. \A x \in Nat, z \in 0..(Half - 1), k \in Carries :
           x < 4 * Base * Half => (F(x) = F(z + k * Half) <=> k = x \div Half /\ z = x % Half)
    BY CarryDecides, Zenon
  <1>10. X \div Half \in Carries /\ Y \div Half \in Carries /\ V \div Half \in Carries
    <2> HIDE DEF X, Y, V
    <2> QED
      BY <1>4, <1>6, CarryDecides, Zenon
  <1>11. \A lo \in Carries : One(lo) <=> lo = X \div Half /\ Lo(e) = X % Half
    <2> HIDE DEF X
    <2> QED
      BY <1>1, <1>4, <1>9, Zenon
  <1>12. \A hi \in Carries : Two(X \div Half, hi) <=> hi = Y \div Half /\ Hi(e) = Y % Half
    <2>1. \A hi \in Carries : F(Y) = F(Hi(e) + hi * Half) <=> hi = Y \div Half /\ Hi(e) = Y % Half
      <3> HIDE DEF Y
      <3> QED
        BY <1>1, <1>4, <1>9, Zenon
    <2> HIDE DEF X, y
    <2> QED
      BY <2>1, Zenon
  <1>13. \A up \in Carries : Three(Y \div Half, up) <=> up = V \div Half /\ Lo(d) = V % Half
    <2>1. \A up \in Carries : F(V) = F(Lo(d) + up * Half) <=> up = V \div Half /\ Lo(d) = V % Half
      <3> HIDE DEF V
      <3> QED
        BY <1>1, <1>6, <1>9, Zenon
    <2> HIDE DEF Y, v
    <2> QED
      BY <2>1, Zenon
  <1>14. Four(V \div Half) <=> Hi(d) = t + V \div Half
    <2> DEFINE q == V \div Half
    <2>1. q \in Nat /\ q < 4 * Base
      BY <1>7
    <2> HIDE DEF q, t
    <2>2. t + q \in Nat /\ t + q < P /\ Hi(d) \in Nat /\ Hi(d) < P
      <3>1. /\ Half \in Nat /\ Base \in Nat /\ P \in Nat /\ P >= 4 * Half /\ Half >= 2 * Base
            /\ Hi(d) \in 0..(Half - 1)
        BY <1>1, Zenon
      <3>2. t \in Nat /\ t < Half
        BY <1>2, Zenon
      <3> QED
        BY <2>1, <3>1, <3>2
    <2>3. F(t + q) = t + q /\ F(Hi(d)) = Hi(d)
      <3>1. P \in Nat
        BY <1>1, Zenon
      <3>2. ASSUME NEW x \in Nat, x < P PROVE F(x) = x
        BY <3>1, <3>2 DEF F
      <3> QED
        BY <2>2, <3>2, Zenon
    <2> QED
      BY <2>3, Zenon DEF q
  <1>15. MulAddWords512(a, b, c, d, e)
           <=> /\ Lo(e) = X % Half /\ Hi(e) = Y % Half
               /\ Lo(d) = V % Half /\ Hi(d) = t + V \div Half
    <2> HIDE DEF X, Y, V, t, One, Two, Three, Four
    <2> QED
      BY <1>8, <1>10, <1>11, <1>12, <1>13, <1>14, Zenon
  <1>16. /\ N \in Nat /\ N \div W = Y \div Half + (v + t * Half)
         /\ N % W = (Y % Half) * Half + (X % Half)
         /\ X % Half \in 0..(Half - 1) /\ Y % Half \in 0..(Half - 1)
    BY MulAddSum, ZenonT(30) DEF MulAddZ, MulAddY
  <1>17. N = d * W + e <=> d = N \div W /\ e = N % W
    <2> HIDE DEF N, W
    <2>1. N \div W \in Nat /\ N % W \in 0..(W - 1) /\ N = (N \div W) * W + (N % W)
      BY <1>1, <1>16, DivMod
    <2>2. (N \div W) * W + (N % W) = d * W + e <=> N \div W = d /\ N % W = e
      <3> DEFINE q == N \div W
                 r == N % W
      <3>1. /\ W \in Nat /\ W > 0 /\ q \in Int /\ r \in 0..(W - 1) /\ d \in Int
            /\ e \in 0..(W - 1)
        BY <1>1, <2>1
      <3> HIDE DEF q, r
      <3>2. q * W + r = d * W + e <=> q = d /\ r = e
        BY <3>1, Digits
      <3> QED
        BY <3>2, Zenon DEF q, r
    <2> QED
      BY <2>1, <2>2, Zenon
  <1>18. e = N % W <=> Hi(e) = Y % Half /\ Lo(e) = X % Half
    <2> HIDE DEF N, W, X, Y
    <2>1. Hi(e) * Half + Lo(e) = (Y % Half) * Half + (X % Half)
            <=> Hi(e) = Y % Half /\ Lo(e) = X % Half
      <3> DEFINE q == Y % Half
                 r == X % Half
      <3>1. /\ Half \in Nat /\ Half > 0 /\ q \in Int /\ r \in 0..(Half - 1) /\ Hi(e) \in Int
            /\ Lo(e) \in 0..(Half - 1)
        BY <1>1, <1>16
      <3> HIDE DEF q, r
      <3>2. Hi(e) * Half + Lo(e) = q * Half + r <=> Hi(e) = q /\ Lo(e) = r
        BY <3>1, Digits
      <3> QED
        BY <3>2, Zenon DEF q, r
    <2> QED
      BY <1>1, <1>16, <2>1, Zenon
  <1>19. d = N \div W <=> Hi(d) = t + V \div Half /\ Lo(d) = V % Half
    <2>1. /\ V \div Half \in Nat /\ V % Half \in 0..(Half - 1)
          /\ V = (V \div Half) * Half + (V % Half)
      <3> HIDE DEF V
      <3> QED
        BY <1>1, <1>6, DivMod
    <2> DEFINE q == V \div Half
               r == V % Half
               u == Y \div Half
    <2>2. u \in Nat /\ V = v + u /\ N \div W = u + (v + t * Half)
      BY <1>5, <1>3, <1>16
    <2>3. q \in Nat /\ r \in 0..(Half - 1) /\ V = q * Half + r
      BY <2>1, Zenon
    <2> HIDE DEF q, r, u, v, t, V, N, W
    <2>4. N \div W = (t + q) * Half + r
      <3>1. Half \in Nat /\ t \in Nat /\ v \in Nat
        BY <1>1, <1>2, <1>3, Zenon
      <3>2. (t + q) * Half = t * Half + q * Half /\ t * Half \in Nat /\ q * Half \in Nat
        BY <2>3, <3>1
      <3> QED
        BY <2>2, <2>3, <3>1, <3>2
    <2>5. Hi(d) * Half + Lo(d) = (t + q) * Half + r <=> Hi(d) = t + q /\ Lo(d) = r
      <3>1. /\ Half \in Nat /\ Half > 0 /\ t + q \in Int /\ r \in 0..(Half - 1) /\ Hi(d) \in Int
            /\ Lo(d) \in 0..(Half - 1)
        BY <1>1, <1>2, <2>3
      <3> QED
        BY <3>1, Digits
    <2> QED
      BY <1>1, <2>4, <2>5, Zenon DEF q, r
  <1> QED
    <2> HIDE DEF N, W, X, Y, V, t
    <2> QED
      BY <1>15, <1>17, <1>18, <1>19, Zenon DEF N, W

\* Quotient and remainder are the one solution of a division with remainder.
LEMMA Euclid ==
    ASSUME NEW a \in Nat, NEW n \in Nat, n # 0, NEW k \in Nat, NEW r \in Nat
    PROVE  r < n /\ k * n + r = a <=> r = a % n /\ k = a \div n
  <1>1. n > 0 /\ k \in Int
    OBVIOUS
  <1>2. ASSUME r < n, k * n + r = a PROVE r = a % n /\ k = a \div n
    <2>1. r \in 0..(n - 1)
      BY <1>2
    <2> QED
      BY <1>1, <1>2, <2>1, TheQuotient
  <1>3. a % n \in 0..(n - 1) /\ a = (a \div n) * n + (a % n)
    BY <1>1, DivMod, Zenon
  <1>4. ASSUME r = a % n, k = a \div n PROVE r < n /\ k * n + r = a
    <2>1. r \in 0..(n - 1) /\ a = k * n + r
      BY <1>3, <1>4, Zenon
    <2> QED
      BY <2>1
  <1> QED
    BY <1>2, <1>4, Zenon

\* IsZeroWordGadget and IsEqualWordGadget on words.
LEMMA ZeroAndEqual ==
    ASSUME NEW l \in WordValues, NEW r \in WordValues
    PROVE  IsZeroWord(l) = Bit(l = 0) /\ IsEqualWord(l, r) = Bit(l = r)
  <1>1. /\ Half \in Nat /\ Half > 3 /\ P \in Nat /\ P >= 4 * Half
        /\ Lo(l) \in 0..(Half - 1) /\ Hi(l) \in 0..(Half - 1)
        /\ Lo(r) \in 0..(Half - 1) /\ Hi(r) \in 0..(Half - 1)
    BY HalfType, Halves
  <1>2. ASSUME NEW x \in 0..(Half - 1), NEW y \in 0..(Half - 1)
        PROVE  IsZero(x) = Bit(x = 0) /\ IsEqual(x, y) = Bit(x = y)
    <2>1. F(x) = x /\ (F(x - y) = 0 <=> x = y)
      BY <1>1, InField
    <2> QED
      BY <2>1, Zenon DEF IsZero, IsEqual, Bit
  <1>3. 0 \in WordValues /\ Lo(0) = 0 /\ Hi(0) = 0
    <2>1. 0 \in WordValues
      BY <1>1, HalfType, PowersOfBase DEF WordValues
    <2>2. 0 \in Nat /\ 0 \in Int /\ 0 \in 0..(Half - 1) /\ 0 = 0 * Half + 0 /\ Half > 0
      BY <1>1
    <2>3. 0 \div Half = 0 /\ 0 % Half = 0
      BY <1>1, <2>2, TheQuotient
    <2> QED
      BY <2>1, <2>3, Zenon DEF Lo, Hi
  <1>4. /\ l = 0 <=> Lo(l) = 0 /\ Hi(l) = 0
        /\ l = r <=> Lo(l) = Lo(r) /\ Hi(l) = Hi(r)
    <2>1. ASSUME NEW u \in WordValues, NEW w \in WordValues
          PROVE  u = w <=> Lo(u) = Lo(w) /\ Hi(u) = Hi(w)
      BY HalvesOrder, Zenon
    <2>2. l = 0 <=> Lo(l) = Lo(0) /\ Hi(l) = Hi(0)
      BY <1>3, <2>1, Zenon
    <2> QED
      BY <1>3, <2>1, <2>2, Zenon
  <1>5. \A p, q \in BOOLEAN : Bit(p) * Bit(q) = Bit(p /\ q)
    BY DEF Bit
  <1>6. IsZeroWord(l) = Bit(Lo(l) = 0) * Bit(Hi(l) = 0)
    <2>1. 0 \in 0..(Half - 1)
      BY <1>1
    <2> QED
      BY <1>1, <1>2, <2>1, Zenon DEF IsZeroWord
  <1>7. IsEqualWord(l, r) = Bit(Lo(l) = Lo(r)) * Bit(Hi(l) = Hi(r))
    <2>1. IsEqual(Lo(l), Lo(r)) = Bit(Lo(l) = Lo(r)) /\ IsEqual(Hi(l), Hi(r)) = Bit(Hi(l) = Hi(r))
      BY <1>1, <1>2
    <2> QED
      BY <2>1, Zenon DEF IsEqualWord
  <1>8. Bit(Lo(l) = 0) * Bit(Hi(l) = 0) = Bit(l = 0)
    BY <1>4 DEF Bit
  <1>9. Bit(Lo(l) = Lo(r)) * Bit(Hi(l) = Hi(r)) = Bit(l = r)
    BY <1>4 DEF Bit
  <1> QED
    BY <1>6, <1>7, <1>8, <1>9, Zenon

\* ModGadget: for a divisor that is not zero, the constraints hold exactly when r and k are
\* the remainder and the quotient of a and the auxiliary word is a; for a zero divisor r is
\* the auxiliary word, and that is a or zero.
THEOREM ModuloDecides ==
    ASSUME NEW a \in WordValues, NEW n \in WordValues, NEW r \in WordValues,
           NEW k \in WordValues, NEW z \in WordValues
    PROVE  /\ n # 0 => (Modulo(a, n, r, k, z) <=> z = a /\ r = a % n /\ k = a \div n)
           /\ n = 0 => (Modulo(a, n, r, k, z) <=> r = z /\ z \in {a, 0})
  <1>1. a \in Nat /\ n \in Nat /\ r \in Nat /\ k \in Nat /\ z \in Nat
    BY HalfType DEF WordValues
  <1>0. /\ IsEqualWord(a, z) = Bit(a = z) /\ IsZeroWord(n) = Bit(n = 0)
        /\ IsZeroWord(z) = Bit(z = 0) /\ LtWord(r, n) = {Bit(r < n)}
    BY ZeroAndEqual, LtWordDecides
  <1>2. (1 - IsEqualWord(a, z)) * (1 - IsZeroWord(n) * IsZeroWord(z)) = 0
          <=> a = z \/ (n = 0 /\ z = 0)
    <2>1. (1 - Bit(a = z)) * (1 - Bit(n = 0) * Bit(z = 0)) = 0 <=> a = z \/ (n = 0 /\ z = 0)
      BY DEF Bit
    <2> QED
      BY <1>0, <2>1, Zenon
  <1>3. (\E lt \in LtWord(r, n) : 1 - lt - IsZeroWord(n) = 0) <=> n = 0 \/ r < n
    <2>1. 1 - Bit(r < n) - Bit(n = 0) = 0 <=> n = 0 \/ r < n
      BY <1>1 DEF Bit
    <2>2. (\E lt \in LtWord(r, n) : 1 - lt - IsZeroWord(n) = 0) <=> 1 - Bit(r < n) - Bit(n = 0) = 0
      BY <1>0, Zenon
    <2> QED
      BY <2>1, <2>2, Zenon
  <1>4. 0 \in MulAddWords(k, n, r, z) <=> k * n + r = z
    BY MulAddWordsDecides, Zenon
  <1>5. Modulo(a, n, r, k, z) <=>
            (a = z \/ (n = 0 /\ z = 0)) /\ (n = 0 \/ r < n) /\ k * n + r = z
    BY <1>2, <1>3, <1>4, Zenon DEF Modulo
  <1>6. n # 0 => (r < n /\ k * n + r = a <=> r = a % n /\ k = a \div n)
    BY <1>1, Euclid, Zenon
  <1>7. n = 0 => k * n + r = r
    BY <1>1
  <1>8. ASSUME n # 0 PROVE Modulo(a, n, r, k, z) <=> z = a /\ r = a % n /\ k = a \div n
    BY <1>5, <1>6, <1>8, Zenon
  <1>9. ASSUME n = 0 PROVE Modulo(a, n, r, k, z) <=> r = z /\ z \in {a, 0}
    BY <1>5, <1>7, <1>9, Zenon
  <1> QED
    BY <1>8, <1>9, Zenon

----------------------------------------------------------------------------
(* The opcodes.                                                            *)

\* The remainder of an integer, below zero included.
LEMMA TheRemainder ==
    ASSUME NEW d \in Nat, d > 0, NEW n \in Int, NEW q \in Int, NEW r \in 0..(d - 1), n = q * d + r
    PROVE  n % d = r
  <1>1. n % d \in 0..(d - 1) /\ n \div d \in Int
    OBVIOUS
  <1>2. n = (n \div d) * d + (n % d)
    OBVIOUS
  <1>3. (n \div d) * d + (n % d) = q * d + r
    BY <1>2
  <1> QED
    BY <1>1, <1>3, Digits

\* The words are natural numbers below WordSize.
LEMMA WordType ==
    /\ WordSize \in Nat /\ WordSize > 1
    /\ WordValues \subseteq Nat /\ 0 \in WordValues /\ 1 \in WordValues
    /\ \A w \in Nat : w < WordSize => w \in WordValues
    /\ \A w \in WordValues : w < WordSize
  <1>1. WordSize \in Nat /\ WordSize > 1
    <2>1. Half \in Nat /\ Half > 3 /\ WordSize = Half * Half
      BY HalfType, PowersOfBase
    <2>2. Half * Half > 1 /\ Half * Half \in Nat
      BY <2>1
    <2> QED
      BY <2>1, <2>2
  <1> QED
    BY <1>1 DEF WordValues

\* PairSelectGadget between one and zero.
LEMMA PairSelectDecides ==
    ASSUME NEW v \in Bool
    PROVE  PairSelect(v, 1, 0) = {v}
  <1>1. P \in Nat /\ P > 3
    BY HalfType
  <1>2. F(0) = 0 /\ F(1) = 1 /\ F(-1) = P - 1
    BY <1>1 DEF F
  <1>3. \A b \in Bool : F(b * (v - 1)) = 0 /\ F((1 - b) * (v - 0)) = 0 <=> b = v
    <2>1. \A b \in Bool : (b * (v - 1) = IF b = 1 /\ v = 0 THEN -1 ELSE 0)
                          /\ ((1 - b) * (v - 0) = IF b = 0 /\ v = 1 THEN 1 ELSE 0)
      BY DEF Bool
    <2> QED
      BY <1>1, <1>2, <2>1 DEF Bool
  <1> QED
    BY <1>3, Zenon DEF PairSelect

\* The sum of two words has carries exactly when it is their sum modulo the word.
LEMMA SumWraps ==
    ASSUME NEW a \in WordValues, NEW b \in WordValues, NEW sum \in WordValues
    PROVE  AddWords(FALSE, a, b, sum) # {} <=> \E k \in Bool : a + b = sum + k * WordSize
  <1>1. /\ Half \in Nat /\ Half > 3 /\ Lo(a) \in 0..(Half - 1) /\ Lo(b) \in 0..(Half - 1)
        /\ Lo(sum) \in 0..(Half - 1)
    BY HalfType, Halves
  <1>2. \A c : c \in AddWords(FALSE, a, b, sum) <=>
                 /\ c \in Bool \X Bool
                 /\ Lo(a) + Lo(b) = Lo(sum) + c[1] * Half
                 /\ a + b = sum + c[2] * WordSize
    <2>1. AddWords(FALSE, a, b, sum) = SumCarries(a, b, sum)
      BY AddWordsDecides, Zenon
    <2> QED
      BY <2>1, Zenon DEF SumCarries
  <1>3. ASSUME NEW k \in Bool, a + b = sum + k * WordSize
        PROVE  \E j \in Bool : Lo(a) + Lo(b) = Lo(sum) + j * Half
    <2>1. /\ WordSize = Half * Half /\ a = Hi(a) * Half + Lo(a) /\ b = Hi(b) * Half + Lo(b)
          /\ sum = Hi(sum) * Half + Lo(sum)
          /\ Hi(a) \in Int /\ Hi(b) \in Int /\ Hi(sum) \in Int /\ k \in Int
      BY PowersOfBase, Halves DEF Bool
    <2> DEFINE q == Hi(sum) + k * Half - Hi(a) - Hi(b)
    <2>2. q \in Int
      BY <1>1, <2>1
    <2>3. Lo(a) + Lo(b) = Lo(sum) + q * Half
      <3> DEFINE s == Hi(a) * Half
                 t == Hi(b) * Half
                 u == Hi(sum) * Half
                 v == k * (Half * Half)
      <3>1. (s + Lo(a)) + (t + Lo(b)) = (u + Lo(sum)) + v
        BY <1>3, <2>1, Zenon
      <3>2. /\ Lo(a) \in Int /\ Lo(b) \in Int /\ Lo(sum) \in Int /\ Half \in Int
            /\ Hi(a) \in Int /\ Hi(b) \in Int /\ Hi(sum) \in Int /\ k \in Int
        BY <1>1, <2>1
      <3>3. /\ s \in Int /\ t \in Int /\ u \in Int /\ v \in Int
            /\ q * Half = u + v - s - t
        BY <3>2
      <3> HIDE DEF s, t, u, v, q
      <3> QED
        BY <3>1, <3>2, <3>3
    <2> HIDE DEF q
    <2>4. q \in Bool
      <3>1. q >= 2 => q * Half >= 2 * Half
        BY <1>1, <2>2
      <3>2. q <= -1 => q * Half <= -Half
        BY <1>1, <2>2
      <3> QED
        BY <1>1, <2>2, <2>3, <3>1, <3>2 DEF Bool
    <2> QED
      BY <2>3, <2>4, Zenon
  <1>4. ASSUME NEW k \in Bool, NEW j \in Bool, a + b = sum + k * WordSize,
               Lo(a) + Lo(b) = Lo(sum) + j * Half
        PROVE  AddWords(FALSE, a, b, sum) # {}
    <2>1. <<j, k>> \in Bool \X Bool /\ <<j, k>>[1] = j /\ <<j, k>>[2] = k
      OBVIOUS
    <2> DEFINE c == <<j, k>>
    <2>2. /\ Lo(a) + Lo(b) = Lo(sum) + c[1] * Half
          /\ a + b = sum + c[2] * WordSize
          /\ c \in Bool \X Bool
      BY <1>4, <2>1
    <2> HIDE DEF c
    <2>3. c \in AddWords(FALSE, a, b, sum)
      BY <1>2, <2>2, Zenon
    <2> QED
      BY <2>3, Zenon
  <1>5. ASSUME NEW c \in AddWords(FALSE, a, b, sum)
        PROVE  c[2] \in Bool /\ a + b = sum + c[2] * WordSize
    <2>1. c \in Bool \X Bool /\ a + b = sum + c[2] * WordSize
      BY <1>2, Zenon
    <2> QED
      BY <2>1
  <1> QED
    BY <1>3, <1>4, <1>5, Zenon

\* AddSubGadget, ADD and SUB: any cells that satisfy it leave the EVM's result, and the
\* cells assign_exec_step writes satisfy it with that result.
THEOREM AddSubDecides ==
    ASSUME NEW op \in {"ADD", "SUB"}, NEW x \in WordValues, NEW y \in WordValues,
           NEW push \in WordValues
    PROVE  /\ \A c \in [a : WordValues, b : WordValues, c : WordValues] :
                AddSubGadget(op, <<x, y>>, push, c) => push = Evm(op, <<x, y>>)
           /\ push = Evm(op, <<x, y>>)
                => AddSubGadget(op, <<x, y>>, push, AddSubAssign(op, <<x, y>>, push))
  <1>1. /\ WordSize \in Nat /\ WordSize > 1 /\ x \in Nat /\ y \in Nat /\ push \in 0..(WordSize - 1)
        /\ x < WordSize /\ y < WordSize
    BY WordType DEF WordValues
  <1>2. <<x, y>>[1] = x /\ <<x, y>>[2] = y
    OBVIOUS
  <1>3. (\E k \in Bool : x + y = push + k * WordSize) <=> push = (x + y) % WordSize
    <2>1. ASSUME NEW k \in Bool, x + y = push + k * WordSize PROVE push = (x + y) % WordSize
      <3>1. x + y \in Int /\ k \in Int /\ x + y = k * WordSize + push
        BY <1>1, <2>1 DEF Bool
      <3> QED
        BY <1>1, <3>1, TheRemainder
    <2>2. \E k \in Bool : x + y = ((x + y) % WordSize) + k * WordSize
      <3>1. CASE x + y < WordSize
        <4>1. (x + y) % WordSize = x + y /\ x + y = (x + y) + 0 * WordSize
          BY <1>1, <3>1
        <4> QED
          BY <4>1 DEF Bool
      <3>2. CASE x + y >= WordSize
        <4>1. x + y - WordSize \in 0..(WordSize - 1) /\ x + y = 1 * WordSize + (x + y - WordSize)
          BY <1>1, <3>2
        <4>2. (x + y) % WordSize = x + y - WordSize
          BY <1>1, <4>1, TheRemainder
        <4>3. x + y = ((x + y) % WordSize) + 1 * WordSize
          BY <1>1, <4>2
        <4> QED
          BY <4>3 DEF Bool
      <3> QED
        BY <1>1, <3>1, <3>2
    <2> QED
      BY <2>1, <2>2, Zenon
  <1>4. (\E k \in Bool : push + y = x + k * WordSize) <=> push = (x - y) % WordSize
    <2>1. ASSUME NEW k \in Bool, push + y = x + k * WordSize PROVE push = (x - y) % WordSize
      <3> DEFINE j == -k
      <3>1. x - y \in Int /\ j \in Int /\ x - y = j * WordSize + push
        BY <1>1, <2>1 DEF Bool
      <3> HIDE DEF j
      <3> QED
        BY <1>1, <3>1, TheRemainder
    <2>2. \E k \in Bool : ((x - y) % WordSize) + y = x + k * WordSize
      <3>1. CASE y <= x
        <4>1. x - y \in 0..(WordSize - 1) /\ x - y = 0 * WordSize + (x - y)
          BY <1>1, <3>1
        <4>2. (x - y) % WordSize = x - y
          BY <1>1, <4>1, TheRemainder
        <4>3. ((x - y) % WordSize) + y = x + 0 * WordSize
          BY <1>1, <4>2
        <4> QED
          BY <4>3 DEF Bool
      <3>2. CASE y > x
        <4>1. x - y + WordSize \in 0..(WordSize - 1) /\ x - y = (-1) * WordSize + (x - y + WordSize)
          BY <1>1, <3>2
        <4>2. (x - y) % WordSize = x - y + WordSize
          BY <1>1, <4>1, TheRemainder
        <4>3. ((x - y) % WordSize) + y = x + 1 * WordSize
          BY <1>1, <4>2
        <4> QED
          BY <4>3 DEF Bool
      <3> QED
        BY <1>1, <3>1, <3>2
    <2> QED
      BY <2>1, <2>2, Zenon
  <1>5. CASE op = "ADD"
    <2>1. PairSelect(Bit(op = "SUB"), 1, 0) = {0}
      BY <1>5, PairSelectDecides DEF Bit, Bool
    <2>2. Evm(op, <<x, y>>) = (x + y) % WordSize
      BY <1>2, <1>5, Zenon DEF Evm, Wrap
    <2>3. ASSUME NEW c, c.a \in WordValues, c.b \in WordValues, c.c \in WordValues
          PROVE  AddSubGadget(op, <<x, y>>, push, c)
                   <=> c.a = x /\ c.b = y /\ c.c = push /\ AddWords(FALSE, x, y, push) # {}
      <3>1. select(0, c.c, c.a) = c.a /\ select(0, c.a, c.c) = c.c
        <4>1. c.a \in Nat /\ c.c \in Nat
          BY <2>3, WordType, Zenon
        <4> QED
          BY <4>1 DEF select
      <3>2. AddSubGadget(op, <<x, y>>, push, c)
              <=> /\ x = select(0, c.c, c.a) /\ y = c.b /\ push = select(0, c.a, c.c)
                  /\ AddWords(FALSE, c.a, c.b, c.c) # {}
        BY <1>2, <2>1, Zenon DEF AddSubGadget
      <3> QED
        BY <3>1, <3>2, Zenon
    <2>4. AddSubAssign(op, <<x, y>>, push) = [a |-> x, b |-> y, c |-> push]
      BY <1>2, <1>5 DEF AddSubAssign
    <2>5. ASSUME NEW c \in [a : WordValues, b : WordValues, c : WordValues]
          PROVE  c.a \in WordValues /\ c.b \in WordValues /\ c.c \in WordValues
      OBVIOUS
    <2>6. push = (x + y) % WordSize <=> AddWords(FALSE, x, y, push) # {}
      BY <1>3, SumWraps, Zenon
    <2>7. ASSUME NEW c, c = [a |-> x, b |-> y, c |-> push]
          PROVE  c.a = x /\ c.b = y /\ c.c = push
      BY <2>7
    <2> QED
      BY <2>2, <2>3, <2>4, <2>5, <2>6, <2>7, Zenon
  <1>6. CASE op = "SUB"
    <2>1. PairSelect(Bit(op = "SUB"), 1, 0) = {1}
      BY <1>6, PairSelectDecides DEF Bit, Bool
    <2>2. Evm(op, <<x, y>>) = (x - y) % WordSize
      BY <1>2, <1>6, Zenon DEF Evm, Wrap
    <2>3. ASSUME NEW c, c.a \in WordValues, c.b \in WordValues, c.c \in WordValues
          PROVE  AddSubGadget(op, <<x, y>>, push, c)
                   <=> c.c = x /\ c.b = y /\ c.a = push /\ AddWords(FALSE, push, y, x) # {}
      <3>1. select(1, c.c, c.a) = c.c /\ select(1, c.a, c.c) = c.a
        <4>1. c.a \in Nat /\ c.c \in Nat
          BY <2>3, WordType, Zenon
        <4> QED
          BY <4>1 DEF select
      <3>2. AddSubGadget(op, <<x, y>>, push, c)
              <=> /\ x = select(1, c.c, c.a) /\ y = c.b /\ push = select(1, c.a, c.c)
                  /\ AddWords(FALSE, c.a, c.b, c.c) # {}
        BY <1>2, <2>1, Zenon DEF AddSubGadget
      <3> QED
        BY <3>1, <3>2, Zenon
    <2>4. AddSubAssign(op, <<x, y>>, push) = [a |-> push, b |-> y, c |-> x]
      BY <1>2, <1>6 DEF AddSubAssign
    <2>5. ASSUME NEW c \in [a : WordValues, b : WordValues, c : WordValues]
          PROVE  c.a \in WordValues /\ c.b \in WordValues /\ c.c \in WordValues
      OBVIOUS
    <2>6. push = (x - y) % WordSize <=> AddWords(FALSE, push, y, x) # {}
      BY <1>4, SumWraps, Zenon
    <2>7. ASSUME NEW c, c = [a |-> push, b |-> y, c |-> x]
          PROVE  c.a = push /\ c.b = y /\ c.c = x
      BY <2>7
    <2> QED
      BY <2>2, <2>3, <2>4, <2>5, <2>6, <2>7, Zenon
  <1> QED
    BY <1>5, <1>6

\* The product modulo the word, computed with small intermediates.
LEMMA MulWrapIs ==
    ASSUME NEW a \in WordValues, NEW b \in WordValues
    PROVE  /\ MulWrap(a, b) = (a * b) % WordSize
           /\ a * b \in Nat
           /\ MulWrap(a, b) \in WordValues
  <1>1. /\ a \in Nat /\ b \in Nat /\ WordSize \in Nat /\ WordSize > 0 /\ Half \in Nat /\ Half > 0
        /\ WordSize = Half * Half /\ Lo(b) \in Nat /\ Hi(b) \in Nat /\ b = Hi(b) * Half + Lo(b)
    BY WordType, HalfType, PowersOfBase, Halves
  <1> DEFINE q == (a * Hi(b)) \div Half
             m == (a * Hi(b)) % Half
             n == a * Lo(b) + m * Half
  <1>2. a * Hi(b) \in Nat /\ a * Lo(b) \in Nat
    BY <1>1
  <1>3. q \in Nat /\ m \in Nat /\ a * Hi(b) = q * Half + m
    <2>1. q \in Nat /\ m \in 0..(Half - 1) /\ a * Hi(b) = q * Half + m
      BY <1>1, <1>2, DivMod, Zenon
    <2> QED
      BY <1>1, <2>1
  <1>4. n \in Nat
    <2> HIDE DEF m
    <2> QED
      BY <1>1, <1>2, <1>3
  <1>5. a * b = q * WordSize + n
    <2> HIDE DEF q, m
    <2>1. a * (Hi(b) * Half + Lo(b)) = (a * Hi(b)) * Half + a * Lo(b)
      BY <1>1
    <2>2. (q * Half + m) * Half = q * (Half * Half) + m * Half
      BY <1>1, <1>3
    <2>3. a * b = (q * Half + m) * Half + a * Lo(b)
      BY <1>1, <1>3, <2>1, Zenon
    <2>4. a * b = (q * WordSize + m * Half) + a * Lo(b)
      BY <1>1, <2>2, <2>3, Zenon
    <2>5. q * WordSize \in Nat /\ m * Half \in Nat
      BY <1>1, <1>3
    <2> QED
      BY <1>2, <2>4, <2>5
  <1>6. n % WordSize \in 0..(WordSize - 1) /\ n \div WordSize \in Nat
        /\ n = (n \div WordSize) * WordSize + (n % WordSize)
    <2> HIDE DEF n
    <2> QED
      BY <1>1, <1>4, DivMod, Zenon
  <1>7. a * b = (q + n \div WordSize) * WordSize + (n % WordSize)
    <2> DEFINE u == n \div WordSize
               v == n % WordSize
    <2>1. u \in Nat /\ v \in Nat /\ n = u * WordSize + v /\ a * b = q * WordSize + n
      BY <1>1, <1>5, <1>6
    <2> HIDE DEF q, n, u, v
    <2>2. (q + u) * WordSize = q * WordSize + u * WordSize
          /\ q * WordSize \in Nat /\ u * WordSize \in Nat
      BY <1>1, <1>3, <2>1
    <2>3. a * b = (q + u) * WordSize + v
      BY <2>1, <2>2
    <2> QED
      BY <2>3, Zenon DEF u, v
  <1>8. a * b \in Nat
    BY <1>1
  <1>9. (a * b) % WordSize = n % WordSize
    <2> DEFINE w == a * b
               k == q + n \div WordSize
               v == n % WordSize
    <2>1. w \in Int /\ k \in Int /\ v \in 0..(WordSize - 1) /\ w = k * WordSize + v
      BY <1>3, <1>6, <1>7, <1>8
    <2> HIDE DEF w, k, v
    <2>2. w % WordSize = v
      BY <1>1, <2>1, TheRemainder
    <2> QED
      BY <2>2, Zenon DEF w, v
  <1>10. MulWrap(a, b) = n % WordSize
    BY Zenon DEF MulWrap
  <1> QED
    BY <1>6, <1>8, <1>9, <1>10, Zenon DEF WordValues

\* What MulDivModGadget leaves of the cells for each opcode.
LEMMA MulDivModCells ==
    ASSUME NEW op \in {"MUL", "DIV", "MOD"}, NEW x \in WordValues, NEW y \in WordValues,
           NEW push \in WordValues, NEW c,
           c.a \in WordValues, c.b \in WordValues, c.c \in WordValues, c.d \in WordValues
    PROVE  /\ op = "MUL" => (MulDivModGadget(op, <<x, y>>, push, c) <=>
                /\ c.a = x /\ c.b = y /\ c.c = 0 /\ c.d = push
                /\ (x * y) % WordSize = push)
           /\ op # "MUL" => (MulDivModGadget(op, <<x, y>>, push, c) <=>
                /\ c.d = x /\ c.b = y /\ c.a * y + c.c = x
                /\ y # 0 => c.c < y
                /\ push = IF y = 0 THEN 0 ELSE IF op = "DIV" THEN c.a ELSE c.c)
  <1>1. <<x, y>>[1] = x /\ <<x, y>>[2] = y
    OBVIOUS
  <1>2. /\ x \in Nat /\ y \in Nat /\ push \in Nat /\ c.a \in Nat /\ c.b \in Nat /\ c.c \in Nat
        /\ c.d \in Nat
    BY WordType, Zenon
  <1>3. IsZeroWord(c.b) = Bit(c.b = 0) /\ LtWord(c.c, c.b) = {Bit(c.c < c.b)}
    BY ZeroAndEqual, LtWordDecides
  <1>4. CASE op = "MUL"
    <2>1. Bit(op = "MUL") = 1 /\ Bit(op = "DIV") = 0 /\ Bit(op = "MOD") = 0
      BY <1>4 DEF Bit
    <2>2. /\ select(1, c.a, c.d) = c.a
          /\ c.d * 1 + c.a * 0 * (1 - Bit(c.b = 0)) + c.c * 0 * (1 - Bit(c.b = 0)) = c.d
      BY <1>2 DEF select, Bit
    <2>3. MulAddWords(c.a, c.b, c.c, c.d) # {} <=> (c.a * c.b + c.c) % WordSize = c.d
      BY MulAddWordsDecides, Zenon
    <2>4. c.a * c.b + 0 = c.a * c.b
      BY <1>2
    <2>5. MulDivModGadget(op, <<x, y>>, push, c) <=>
             /\ x = c.a /\ y = c.b /\ push = c.d /\ c.c = 0
             /\ MulAddWords(c.a, c.b, c.c, c.d) # {}
      <3>1. 1 # 0
        OBVIOUS
      <3>2. MulDivModGadget(op, <<x, y>>, push, c) <=>
              /\ x = select(1, c.a, c.d) /\ y = c.b
              /\ push = c.d * 1 + c.a * 0 * (1 - Bit(c.b = 0)) + c.c * 0 * (1 - Bit(c.b = 0))
              /\ 1 = 1 => c.c = 0
              /\ 1 = 0 => \E lt \in LtWord(c.c, c.b) : (1 - lt) * (1 - Bit(c.b = 0)) = 0
              /\ \E overflow \in MulAddWords(c.a, c.b, c.c, c.d) : 1 = 0 => overflow = 0
        BY <1>1, <1>3, <2>1, Zenon DEF MulDivModGadget
      <3> QED
        BY <2>2, <3>1, <3>2, Zenon
    <2> QED
      BY <1>4, <2>3, <2>4, <2>5, Zenon
  <1>5. CASE op # "MUL"
    <2>1. /\ Bit(op = "MUL") = 0 /\ Bit(op = "DIV") = (IF op = "DIV" THEN 1 ELSE 0)
          /\ Bit(op = "MOD") = (IF op = "DIV" THEN 0 ELSE 1)
      BY <1>5 DEF Bit
    <2> DEFINE s == IF op = "DIV" THEN 1 ELSE 0
               t == IF op = "DIV" THEN 0 ELSE 1
    <2>2. /\ select(0, c.a, c.d) = c.d
          /\ c.d * 0 + c.a * s * (1 - Bit(c.b = 0)) + c.c * t * (1 - Bit(c.b = 0))
               = IF c.b = 0 THEN 0 ELSE IF op = "DIV" THEN c.a ELSE c.c
      <3>1. CASE op = "DIV"
        BY <1>2, <3>1 DEF select, Bit
      <3>2. CASE op # "DIV"
        BY <1>2, <3>2 DEF select, Bit
      <3> QED
        BY <3>1, <3>2
    <2>3. 0 \in MulAddWords(c.a, c.b, c.c, c.d) <=> c.a * c.b + c.c = c.d
      BY MulAddWordsDecides, Zenon
    <2>4. (1 - Bit(c.c < c.b)) * (1 - Bit(c.b = 0)) = 0 <=> (c.b # 0 => c.c < c.b)
      BY <1>2 DEF Bit
    <2>5. MulDivModGadget(op, <<x, y>>, push, c) <=>
             /\ x = c.d /\ y = c.b
             /\ push = IF c.b = 0 THEN 0 ELSE IF op = "DIV" THEN c.a ELSE c.c
             /\ (1 - Bit(c.c < c.b)) * (1 - Bit(c.b = 0)) = 0
             /\ 0 \in MulAddWords(c.a, c.b, c.c, c.d)
      <3>1. 1 # 0
        OBVIOUS
      <3> HIDE DEF s, t
      <3>2. MulDivModGadget(op, <<x, y>>, push, c) <=>
              /\ x = select(0, c.a, c.d) /\ y = c.b
              /\ push = c.d * 0 + c.a * s * (1 - Bit(c.b = 0)) + c.c * t * (1 - Bit(c.b = 0))
              /\ 0 = 1 => c.c = 0
              /\ 0 = 0 => \E lt \in {Bit(c.c < c.b)} : (1 - lt) * (1 - Bit(c.b = 0)) = 0
              /\ \E overflow \in MulAddWords(c.a, c.b, c.c, c.d) : 0 = 0 => overflow = 0
        BY <1>1, <1>3, <2>1, ZenonT(30) DEF MulDivModGadget, s, t
      <3> QED
        BY <2>2, <3>1, <3>2, Zenon
    <2> QED
      BY <1>5, <2>3, <2>4, <2>5, Zenon
  <1> QED
    BY <1>4, <1>5, Zenon

\* MulDivModGadget: any cells that satisfy it leave the EVM's result of MUL, DIV and MOD,
\* division by zero included, and the cells assign_exec_step writes satisfy it.
THEOREM MulDivModDecides ==
    ASSUME NEW op \in {"MUL", "DIV", "MOD"}, NEW x \in WordValues, NEW y \in WordValues,
           NEW push \in WordValues
    PROVE  /\ \A c \in [a : WordValues, b : WordValues, c : WordValues, d : WordValues] :
                MulDivModGadget(op, <<x, y>>, push, c) => push = Evm(op, <<x, y>>)
           /\ push = Evm(op, <<x, y>>)
                => MulDivModGadget(op, <<x, y>>, push, MulDivModAssign(op, <<x, y>>, push))
  <1>1. /\ <<x, y>>[1] = x /\ <<x, y>>[2] = y
    OBVIOUS
  <1>2. /\ WordSize \in Nat /\ WordSize > 0 /\ x \in 0..(WordSize - 1) /\ y \in Nat /\ push \in Nat
        /\ x \in Nat /\ 0 \in WordValues
    BY WordType DEF WordValues
  <1>3. ASSUME NEW c \in [a : WordValues, b : WordValues, c : WordValues, d : WordValues]
        PROVE  /\ c.a \in WordValues /\ c.b \in WordValues /\ c.c \in WordValues
               /\ c.d \in WordValues
    OBVIOUS
  <1>4. /\ op = "MUL" => Evm(op, <<x, y>>) = (x * y) % WordSize
        /\ op = "DIV" => Evm(op, <<x, y>>) = IF y = 0 THEN 0 ELSE x \div y
        /\ op = "MOD" => Evm(op, <<x, y>>) = IF y = 0 THEN 0 ELSE x % y
    <2>1. /\ op = "MUL" => Evm(op, <<x, y>>) = MulWrap(x, y)
          /\ op = "DIV" => Evm(op, <<x, y>>) = Quotient(x, y)
          /\ op = "MOD" => Evm(op, <<x, y>>) = Remainder(x, y)
      BY <1>1, Zenon DEF Evm
    <2>2. ~(x < 0) /\ ~(y < 0)
      BY <1>2
    <2>3. /\ Quotient(x, y) = IF y = 0 THEN 0 ELSE x \div y
          /\ Remainder(x, y) = IF y = 0 THEN 0 ELSE x % y
      BY <2>2 DEF Quotient, Remainder, Abs
    <2> QED
      BY <2>1, <2>3, MulWrapIs, Zenon
  <1>5. ASSUME NEW k \in Nat, NEW r \in Nat, k * y + r = x, y # 0 => r < y
        PROVE  (y # 0 => k = x \div y /\ r = x % y)
    BY <1>2, <1>5, Euclid
  <1>6. ASSUME NEW c \in [a : WordValues, b : WordValues, c : WordValues, d : WordValues],
               MulDivModGadget(op, <<x, y>>, push, c)
        PROVE  push = Evm(op, <<x, y>>)
    <2>1. c.a \in Nat /\ c.c \in Nat
      BY <1>3, WordType, Zenon
    <2>2. CASE op = "MUL"
      BY <1>3, <1>4, <1>6, <2>2, MulDivModCells
    <2>3. CASE op # "MUL"
      <3>1. /\ c.a * y + c.c = x
            /\ y # 0 => c.c < y
            /\ push = IF y = 0 THEN 0 ELSE IF op = "DIV" THEN c.a ELSE c.c
        BY <1>3, <1>6, <2>3, MulDivModCells
      <3>2. y # 0 => c.a = x \div y /\ c.c = x % y
        BY <1>5, <2>1, <3>1, Zenon
      <3> QED
        BY <1>4, <2>3, <3>1, <3>2, Zenon
    <2> QED
      BY <2>2, <2>3, Zenon
  <1>7. ASSUME push = Evm(op, <<x, y>>)
        PROVE  MulDivModGadget(op, <<x, y>>, push, MulDivModAssign(op, <<x, y>>, push))
    <2>1. CASE op = "MUL"
      <3> DEFINE c == [a |-> x, b |-> y, c |-> 0, d |-> push]
      <3>1. MulDivModAssign(op, <<x, y>>, push) = c
        BY <1>1, <2>1 DEF MulDivModAssign
      <3>2. c.a = x /\ c.b = y /\ c.c = 0 /\ c.d = push
        OBVIOUS
      <3> HIDE DEF c
      <3>3. MulDivModGadget(op, <<x, y>>, push, c)
        BY <1>2, <1>4, <1>7, <2>1, <3>2, MulDivModCells
      <3> QED
        BY <3>1, <3>3, Zenon
    <2>2. CASE op = "DIV"
      <3> DEFINE r == (x - MulWrap(push, y)) % WordSize
                 c == [a |-> push, b |-> y, c |-> r, d |-> x]
      <3>1. MulDivModAssign(op, <<x, y>>, push) = c
        BY <1>1, <2>2 DEF MulDivModAssign
      <3>2. c.a = push /\ c.b = y /\ c.c = r /\ c.d = x
        OBVIOUS
      <3>3. /\ r \in WordValues /\ push * y + r = x
            /\ y # 0 => r < y
        <4> DEFINE rest == x - push * y
        <4>1. /\ rest \in Nat /\ push * y \in Nat /\ push * y + rest = x
              /\ y # 0 => rest < y
          <5>1. CASE y = 0
            BY <1>2, <5>1
          <5>2. CASE y # 0
            <6>1. push = x \div y
              BY <1>4, <1>7, <2>2, <5>2, Zenon
            <6> DEFINE m == x % y
            <6>2. m \in 0..(y - 1) /\ x = push * y + m
              BY <1>2, <5>2, <6>1, DivMod
            <6> HIDE DEF m
            <6>3. push * y \in Nat
              BY <1>2
            <6> QED
              BY <1>2, <6>2, <6>3
          <5> QED
            BY <5>1, <5>2
        <4>2. MulWrap(push, y) = (push * y) % WordSize
          BY MulWrapIs, Zenon
        <4>3. ASSUME NEW w \in Nat, NEW v \in Nat, v <= w, w \in 0..(WordSize - 1)
              PROVE  v % WordSize = v
          <5>1. v \in 0..(WordSize - 1) /\ v = 0 * WordSize + v
            BY <1>2, <4>3
          <5> QED
            BY <1>2, <5>1, TheRemainder
        <4>4. push * y <= x /\ rest <= x
          <5> DEFINE v == push * y
          <5>1. v \in Nat /\ rest \in Nat /\ v + rest = x
            BY <4>1, Zenon
          <5> HIDE DEF v, rest
          <5>2. v <= x /\ rest <= x
            BY <1>2, <5>1
          <5> QED
            BY <5>2, Zenon DEF v
        <4>5. (push * y) % WordSize = push * y /\ rest % WordSize = rest
          BY <1>2, <4>1, <4>3, <4>4, Zenon
        <4>6. r = rest
          BY <4>2, <4>5, Zenon
        <4>7. rest \in WordValues
          <5> HIDE DEF rest
          <5> QED
            BY <1>2, <4>1, <4>4 DEF WordValues
        <4> QED
          BY <4>1, <4>6, <4>7, Zenon
      <3>4. push = IF y = 0 THEN 0 ELSE push
        BY <1>4, <1>7, <2>2, Zenon
      <3>5. op # "MUL"
        BY <2>2
      <3> HIDE DEF c, r
      <3>6. MulDivModGadget(op, <<x, y>>, push, c)
        BY <2>2, <3>2, <3>3, <3>4, <3>5, MulDivModCells
      <3> QED
        BY <3>1, <3>6, Zenon
    <2>3. CASE op = "MOD"
      <3> DEFINE k == IF y = 0 THEN 0 ELSE x \div y
                 r == IF y = 0 THEN x ELSE push
                 c == [a |-> k, b |-> y, c |-> r, d |-> x]
      <3>1. MulDivModAssign(op, <<x, y>>, push) = c
        BY <1>1, <2>3 DEF MulDivModAssign
      <3>2. c.a = k /\ c.b = y /\ c.c = r /\ c.d = x
        OBVIOUS
      <3>3. /\ k \in WordValues /\ r \in WordValues /\ k * y + r = x
            /\ y # 0 => r < y
        <4>1. CASE y = 0
          BY <1>2, <4>1
        <4>2. CASE y # 0
          <5>1. push = x % y
            BY <1>4, <1>7, <2>3, <4>2, Zenon
          <5> DEFINE q == x \div y
          <5>2. q \in Nat /\ push \in 0..(y - 1) /\ x = q * y + push
            BY <1>2, <4>2, <5>1, DivMod
          <5> HIDE DEF q
          <5>3. q <= q * y /\ q * y \in Nat
            BY <1>2, <4>2, <5>2
          <5>4. q \in WordValues
            BY <1>2, <5>2, <5>3 DEF WordValues
          <5>5. push < y
            BY <1>2, <5>2
          <5>6. k = q /\ r = push
            BY <4>2 DEF q
          <5> HIDE DEF k, r
          <5> QED
            BY <5>2, <5>4, <5>5, <5>6, Zenon
        <4> QED
          BY <4>1, <4>2
      <3>4. op # "MUL" /\ op # "DIV"
        BY <2>3
      <3>5. push = IF y = 0 THEN 0 ELSE r
        BY <1>4, <1>7, <2>3, Zenon
      <3> HIDE DEF c, k, r
      <3>6. MulDivModGadget(op, <<x, y>>, push, c)
        BY <3>2, <3>3, <3>4, <3>5, MulDivModCells
      <3> QED
        BY <3>1, <3>6, Zenon
    <2> QED
      BY <2>1, <2>2, <2>3
  <1> QED
    BY <1>6, <1>7, Zenon

\* ComparatorGadget, LT, GT and EQ, and IsZeroGadget: any cells that satisfy them leave
\* the EVM's result, and the cells assign_exec_step writes satisfy them.
THEOREM ComparatorDecides ==
    ASSUME NEW op \in {"LT", "GT", "EQ"}, NEW x \in WordValues, NEW y \in WordValues,
           NEW push \in WordValues
    PROVE  /\ \A c \in [a : WordValues, b : WordValues, result : WordValues] :
                ComparatorGadget(op, <<x, y>>, push, c) => push = Evm(op, <<x, y>>)
           /\ push = Evm(op, <<x, y>>)
                => ComparatorGadget(op, <<x, y>>, push, ComparatorAssign(op, <<x, y>>, push))
           /\ \A c : IsZeroGadget("ISZERO", <<x>>, push, c) <=> push = Evm("ISZERO", <<x>>)
  <1>1. /\ <<x, y>>[1] = x /\ <<x, y>>[2] = y /\ <<x>>[1] = x
    OBVIOUS
  <1>2. x \in Nat /\ y \in Nat
    BY WordType, Zenon
  <1>3. /\ op = "LT" => Evm(op, <<x, y>>) = Bit(x < y)
        /\ op = "GT" => Evm(op, <<x, y>>) = Bit(x > y)
        /\ op = "EQ" => Evm(op, <<x, y>>) = Bit(x = y)
        /\ Evm("ISZERO", <<x>>) = Bit(x = 0)
    BY <1>1, Zenon DEF Evm
  <1>4. Bit(x > y) = Bit(y < x)
    BY <1>2 DEF Bit
  <1> DEFINE l == IF op = "GT" THEN y ELSE x
             r == IF op = "GT" THEN x ELSE y
             res == IF op = "EQ" THEN Bit(l = r) ELSE Bit(l < r)
  <1>5. l \in WordValues /\ r \in WordValues
    OBVIOUS
  <1>6. Evm(op, <<x, y>>) = res
    BY <1>3, <1>4, Zenon
  <1>7. ASSUME NEW c, c.a \in WordValues, c.b \in WordValues
        PROVE  ComparatorGadget(op, <<x, y>>, push, c)
                 <=> c.a = l /\ c.b = r /\ push = c.result /\ c.result = res
    <2>1. c.a \in Nat /\ c.b \in Nat
      BY <1>7, WordType, Zenon
    <2> DEFINE g == IF op = "GT" THEN 1 ELSE 0
    <2>2. Bit(op = "GT") = g
      BY DEF Bit
    <2>3. /\ select(g, c.b, c.a) = IF op = "GT" THEN c.b ELSE c.a
          /\ select(g, c.a, c.b) = IF op = "GT" THEN c.a ELSE c.b
      BY <2>1 DEF select
    <2> DEFINE cmp == [lt |-> Bit(c.a < c.b), eq |-> Bit(c.a = c.b)]
    <2>4. CmpWords(c.a, c.b) = {cmp}
      BY <1>7, CmpWordsDecides
    <2>5. select(Bit(op = "EQ"), cmp.eq, cmp.lt)
            = IF op = "EQ" THEN Bit(c.a = c.b) ELSE Bit(c.a < c.b)
      BY DEF select, Bit
    <2> HIDE DEF g, cmp
    <2>6. ComparatorGadget(op, <<x, y>>, push, c)
            <=> /\ x = select(g, c.b, c.a) /\ y = select(g, c.a, c.b) /\ push = c.result
                /\ c.result = select(Bit(op = "EQ"), cmp.eq, cmp.lt)
      BY <1>1, <2>2, <2>4, Zenon DEF ComparatorGadget
    <2>7. (x = IF op = "GT" THEN c.b ELSE c.a) /\ (y = IF op = "GT" THEN c.a ELSE c.b)
            <=> c.a = l /\ c.b = r
      BY Zenon
    <2> HIDE DEF l, r
    <2> QED
      BY <2>3, <2>5, <2>6, <2>7, Zenon
  <1>8. ASSUME push = Evm(op, <<x, y>>)
        PROVE  ComparatorGadget(op, <<x, y>>, push, ComparatorAssign(op, <<x, y>>, push))
    <2> DEFINE c == [a |-> l, b |-> r, result |-> push]
    <2>1. ComparatorAssign(op, <<x, y>>, push) = c
      BY <1>1 DEF ComparatorAssign
    <2>2. c.a = l /\ c.b = r /\ c.result = push
      OBVIOUS
    <2> HIDE DEF c, l, r, res
    <2> QED
      BY <1>5, <1>6, <1>7, <1>8, <2>1, <2>2, Zenon
  <1>9. ASSUME NEW c \in [a : WordValues, b : WordValues, result : WordValues]
        PROVE  c.a \in WordValues /\ c.b \in WordValues
    OBVIOUS
  <1>10. ASSUME NEW c
         PROVE  IsZeroGadget("ISZERO", <<x>>, push, c) <=> push = Evm("ISZERO", <<x>>)
    <2>1. IsZeroWord(x) = Bit(x = 0)
      BY ZeroAndEqual
    <2> QED
      BY <1>1, <1>3, <2>1, Zenon DEF IsZeroGadget
  <1> HIDE DEF l, r, res
  <1>11. \A c \in [a : WordValues, b : WordValues, result : WordValues] :
            ComparatorGadget(op, <<x, y>>, push, c) => push = Evm(op, <<x, y>>)
    BY <1>6, <1>7, <1>9
  <1> QED
    BY <1>8, <1>10, <1>11, Zenon

\* What AddModGadget leaves of the cells.
LEMMA AddModCells ==
    ASSUME NEW a \in WordValues, NEW b \in WordValues, NEW n \in WordValues,
           NEW push \in WordValues, NEW c,
           c.k \in WordValues, c.a_reduced \in WordValues, c.d \in WordValues,
           c.r \in WordValues, c.sum \in WordValues, c.sum_overflow \in WordValues
    PROVE  AddModGadget("ADDMOD", <<a, b, n>>, push, c) <=>
             /\ push = IF n = 0 THEN 0 ELSE c.r
             /\ n # 0 => c.r < n /\ c.a_reduced < n
             /\ \E carry \in SumCarries(c.a_reduced, b, c.sum) :
                   c.sum_overflow = IF n = 0 THEN 0 ELSE carry[2]
             /\ c.k * n + c.a_reduced = a
             /\ c.d * n + c.r = c.sum_overflow * WordSize + c.sum
  <1>1. <<a, b, n>>[1] = a /\ <<a, b, n>>[2] = b /\ <<a, b, n>>[3] = n
    OBVIOUS
  <1>2. n \in Nat /\ c.r \in Nat /\ c.a_reduced \in Nat
    BY WordType, Zenon
  <1> DEFINE z == Bit(n = 0)
             u == [lt |-> Bit(c.r < n), eq |-> Bit(c.r = n)]
             v == [lt |-> Bit(c.a_reduced < n), eq |-> Bit(c.a_reduced = n)]
  <1>3. /\ IsZeroWord(n) = z /\ CmpWords(c.r, n) = {u} /\ CmpWords(c.a_reduced, n) = {v}
    <2>1. IsZeroWord(n) = z
      BY ZeroAndEqual
    <2> QED
      BY <2>1, CmpWordsDecides
  <1>4. 2 - (u.lt + v.lt + 2 * z) = 0 <=> (n # 0 => c.r < n /\ c.a_reduced < n)
    BY <1>2 DEF Bit
  <1>5. c.r * (1 - z) = IF n = 0 THEN 0 ELSE c.r
    BY <1>2 DEF Bit
  <1>6. AddWords(FALSE, c.a_reduced, b, c.sum) = SumCarries(c.a_reduced, b, c.sum)
    BY AddWordsDecides, Zenon
  <1>7. ASSUME NEW carry \in SumCarries(c.a_reduced, b, c.sum)
        PROVE  carry[2] * (1 - z) = IF n = 0 THEN 0 ELSE carry[2]
    <2>1. carry[2] \in {0, 1}
      BY DEF SumCarries, Bool
    <2> QED
      BY <2>1 DEF Bit
  <1>8. 0 \in MulAddWords(c.k, n, c.a_reduced, a) <=> c.k * n + c.a_reduced = a
    BY MulAddWordsDecides, Zenon
  <1>9. MulAddWords512(c.d, n, c.r, c.sum_overflow, c.sum)
          <=> c.d * n + c.r = c.sum_overflow * WordSize + c.sum
    BY MulAddWords512Decides, SMTT(90)
  <1> HIDE DEF z, u, v
  <1>10. AddModGadget("ADDMOD", <<a, b, n>>, push, c) <=>
            /\ push = c.r * (1 - z)
            /\ 2 - (u.lt + v.lt + 2 * z) = 0
            /\ \E carry \in SumCarries(c.a_reduced, b, c.sum) :
                  c.sum_overflow = carry[2] * (1 - z)
            /\ 0 \in MulAddWords(c.k, n, c.a_reduced, a)
            /\ MulAddWords512(c.d, n, c.r, c.sum_overflow, c.sum)
    BY <1>1, <1>3, <1>6, Zenon DEF AddModGadget
  <1> QED
    BY <1>4, <1>5, <1>7, <1>8, <1>9, <1>10

\* The sum of two words and its carry.
LEMMA CarryOfSum ==
    ASSUME NEW a \in WordValues, NEW b \in WordValues
    PROVE  /\ (a + b) % WordSize \in WordValues /\ (a + b) \div WordSize \in Bool
           /\ a + b = ((a + b) % WordSize) + ((a + b) \div WordSize) * WordSize
           /\ \E carry \in SumCarries(a, b, (a + b) % WordSize) :
                 carry[2] = (a + b) \div WordSize
  <1> DEFINE W == WordSize
             s == (a + b) % W
             q == (a + b) \div W
  <1>1. W \in Nat /\ W > 1 /\ W > 0 /\ a \in Nat /\ b \in Nat /\ a < W /\ b < W
    BY WordType
  <1>2. a + b \in Nat /\ a + b < 2 * W
    BY <1>1
  <1>3. s \in 0..(W - 1) /\ q \in Nat /\ a + b = q * W + s
    <2> HIDE DEF W
    <2> QED
      BY <1>1, <1>2, DivMod, Zenon
  <1>4. q < 2
    <2> HIDE DEF W
    <2> QED
      BY <1>1, <1>2, QuotientBound
  <1>5. s \in WordValues
    BY <1>3 DEF WordValues
  <1> HIDE DEF s, q, W
  <1>6. q \in Bool
    BY <1>3, <1>4 DEF Bool
  <1>7. s \in Int /\ q * W \in Int
    BY <1>1, <1>3
  <1>8. a + b = s + q * W
    BY <1>3, <1>7
  <1>9. AddWords(FALSE, a, b, s) # {}
    BY <1>5, <1>6, <1>8, SumWraps, Zenon DEF W
  <1>10. AddWords(FALSE, a, b, s) = SumCarries(a, b, s)
    BY <1>5, AddWordsDecides, Zenon
  <1>11. PICK carry : carry \in SumCarries(a, b, s)
    BY <1>9, <1>10, Zenon
  <1>12. carry[2] \in Bool /\ a + b = s + carry[2] * W
    BY <1>11 DEF SumCarries, W
  <1>13. carry[2] = q
    <2> DEFINE t == carry[2]
    <2>1. t \in Bool /\ a + b = s + t * W
      BY <1>12
    <2> HIDE DEF t
    <2>2. t = q
      BY <1>1, <1>6, <1>7, <1>8, <2>1 DEF Bool
    <2> QED
      BY <2>2 DEF t
  <1> QED
    BY <1>5, <1>6, <1>8, <1>11, <1>13, Zenon DEF s, q, W

\* AddModGadget: any cells that satisfy it leave the EVM's result of ADDMOD, modulus zero
\* and a sum beyond the word included, and the cells assign_exec_step writes satisfy it.
THEOREM AddModDecides ==
    ASSUME NEW a \in WordValues, NEW b \in WordValues, NEW n \in WordValues,
           NEW push \in WordValues
    PROVE  /\ \A c \in [k : WordValues, a_reduced : WordValues, d : WordValues, r : WordValues,
                        sum : WordValues, sum_overflow : WordValues] :
                AddModGadget("ADDMOD", <<a, b, n>>, push, c) => push = Evm("ADDMOD", <<a, b, n>>)
           /\ push = Evm("ADDMOD", <<a, b, n>>)
                => AddModGadget("ADDMOD", <<a, b, n>>, push,
                                AddModAssign("ADDMOD", <<a, b, n>>, push))
  <1> DEFINE W == WordSize
  <1>1. <<a, b, n>>[1] = a /\ <<a, b, n>>[2] = b /\ <<a, b, n>>[3] = n
    OBVIOUS
  <1>2. /\ W \in Nat /\ W > 1 /\ a \in Nat /\ b \in Nat /\ n \in Nat /\ a + b \in Nat
        /\ a < W /\ b < W /\ 0 \in WordValues /\ 1 \in WordValues
    BY WordType
  <1>3. Evm("ADDMOD", <<a, b, n>>) = IF n = 0 THEN 0 ELSE (a + b) % n
    <2>1. Evm("ADDMOD", <<a, b, n>>) = Remainder(a + b, n)
      BY <1>1, Zenon DEF Evm
    <2>2. ~(a + b < 0) /\ ~(n < 0)
      BY <1>2
    <2>3. Remainder(a + b, n) = IF n = 0 THEN 0 ELSE (a + b) % n
      BY <2>2, Zenon DEF Remainder, Abs
    <2> QED
      BY <2>1, <2>3, Zenon
  <1>4. ASSUME NEW k \in Nat, NEW d \in Nat, NEW r \in Nat, NEW m \in Nat, NEW x \in Nat,
               k * n + m = a, d * n + r = x, m + b = x, n # 0, r < n
        PROVE  (a + b) % n = r
    <2>1. k * n \in Nat /\ d * n \in Nat /\ (k + d) * n = k * n + d * n
      BY <1>2
    <2>2. a + b = (k + d) * n + r
      BY <1>2, <1>4, <2>1
    <2>3. r \in 0..(n - 1) /\ n > 0 /\ k + d \in Int /\ a + b \in Int
      BY <1>2, <1>4
    <2> QED
      BY <1>2, <2>2, <2>3, TheRemainder, Zenon
  <1>5. ASSUME NEW c \in [k : WordValues, a_reduced : WordValues, d : WordValues,
                          r : WordValues, sum : WordValues, sum_overflow : WordValues],
               AddModGadget("ADDMOD", <<a, b, n>>, push, c)
        PROVE  push = Evm("ADDMOD", <<a, b, n>>)
    <2>1. /\ c.k \in WordValues /\ c.a_reduced \in WordValues /\ c.d \in WordValues
          /\ c.r \in WordValues /\ c.sum \in WordValues /\ c.sum_overflow \in WordValues
      OBVIOUS
    <2>2. /\ push = IF n = 0 THEN 0 ELSE c.r
          /\ n # 0 => c.r < n /\ c.a_reduced < n
          /\ \E carry \in SumCarries(c.a_reduced, b, c.sum) :
                   c.sum_overflow = IF n = 0 THEN 0 ELSE carry[2]
          /\ c.k * n + c.a_reduced = a
          /\ c.d * n + c.r = c.sum_overflow * WordSize + c.sum
      BY <1>5, <2>1, AddModCells
    <2>3. CASE n = 0
      BY <1>3, <2>2, <2>3, Zenon
    <2>4. CASE n # 0
      <3>1. PICK carry \in SumCarries(c.a_reduced, b, c.sum) : c.sum_overflow = carry[2]
        BY <2>2, <2>4, Zenon
      <3>2. c.a_reduced + b = c.sum + c.sum_overflow * W
        BY <3>1 DEF SumCarries
      <3>3. /\ c.k \in Nat /\ c.a_reduced \in Nat /\ c.d \in Nat /\ c.r \in Nat /\ c.sum \in Nat
            /\ c.sum_overflow \in Nat
        BY <2>1, WordType, Zenon
      <3>4. c.sum_overflow * W + c.sum = c.a_reduced + b /\ c.sum_overflow * W + c.sum \in Nat
        BY <1>2, <3>2, <3>3
      <3>5. (a + b) % n = c.r
        <4> DEFINE x == c.sum_overflow * W + c.sum
        <4>1. x \in Nat /\ c.d * n + c.r = x /\ c.a_reduced + b = x
          BY <2>2, <3>4
        <4> HIDE DEF x
        <4> QED
          BY <1>4, <2>2, <2>4, <3>3, <4>1, Zenon
      <3> QED
        BY <1>3, <2>2, <2>4, <3>5, Zenon
    <2> QED
      BY <2>3, <2>4
  <1>6. ASSUME push = Evm("ADDMOD", <<a, b, n>>), n = 0
        PROVE  AddModGadget("ADDMOD", <<a, b, n>>, push, AddModAssign("ADDMOD", <<a, b, n>>, push))
    <2> DEFINE s == (a + b) % W
               c == [k |-> 0, a_reduced |-> a, d |-> 0, r |-> s, sum |-> s, sum_overflow |-> 0]
    <2>1. AddModAssign("ADDMOD", <<a, b, n>>, push) = c
      BY <1>1, <1>6 DEF AddModAssign
    <2>2. s \in WordValues /\ \E carry \in SumCarries(a, b, s) : TRUE
      BY CarryOfSum, Zenon
    <2> HIDE DEF s
    <2>3. /\ c.k = 0 /\ c.a_reduced = a /\ c.d = 0 /\ c.r = s /\ c.sum = s /\ c.sum_overflow = 0
      OBVIOUS
    <2> HIDE DEF c
    <2>4. 0 * n + a = a /\ 0 * n + s = 0 * W + s
      BY <1>2, <2>2, WordType
    <2>5. push = 0
      BY <1>3, <1>6, Zenon
    <2>6. AddModGadget("ADDMOD", <<a, b, n>>, push, c)
      BY <1>2, <1>6, <2>2, <2>3, <2>4, <2>5, AddModCells
    <2> QED
      BY <2>1, <2>6, Zenon
  <1>7. ASSUME push = Evm("ADDMOD", <<a, b, n>>), n # 0
        PROVE  AddModGadget("ADDMOD", <<a, b, n>>, push, AddModAssign("ADDMOD", <<a, b, n>>, push))
    <2> DEFINE m == a % n
               k == a \div n
               s == (m + b) % W
               o == (m + b) \div W
               d == (m + b) \div n
               c == [k |-> k, a_reduced |-> m, d |-> d, r |-> push, sum |-> s, sum_overflow |-> o]
    <2>1. AddModAssign("ADDMOD", <<a, b, n>>, push) = c
      BY <1>1, <1>7 DEF AddModAssign
    <2>2. n > 0 /\ k \in Nat /\ m \in 0..(n - 1) /\ a = k * n + m
      BY <1>2, <1>7, DivMod
    <2> HIDE DEF k, m
    <2>3. m \in Nat /\ m < n /\ k * n \in Nat /\ k <= k * n
      BY <1>2, <1>7, <2>2
    <2>4. k \in WordValues /\ m \in WordValues
      <3>1. k < W /\ m < W
        BY <1>2, <2>2, <2>3
      <3> QED
        BY <2>2, <2>3, <3>1, WordType DEF W
    <2>5. /\ s \in WordValues /\ o \in Bool /\ m + b = s + o * W
          /\ \E carry \in SumCarries(m, b, s) : carry[2] = o
      BY <2>4, CarryOfSum, Zenon
    <2>6. m + b \in Nat
      BY <1>2, <2>3
    <2>7. d \in Nat /\ m + b = d * n + ((m + b) % n) /\ (m + b) % n \in 0..(n - 1)
      BY <1>2, <2>2, <2>6, DivMod, Zenon
    <2> DEFINE r == (m + b) % n
    <2> HIDE DEF s, o, d, r
    <2>8. d \in Nat /\ r \in Nat /\ r < n /\ m + b = d * n + r
      BY <1>2, <2>7 DEF r
    <2>9. push = r
      <3>1. (a + b) % n = r
        BY <1>2, <1>4, <1>7, <2>2, <2>3, <2>6, <2>8, Zenon
      <3> QED
        BY <1>3, <1>7, <3>1, Zenon
    <2>10. d \in WordValues
      <3>1. d < W
        <4>1. CASE n = 1
          <5>1. m = 0
            BY <2>3, <4>1
          <5>2. d = b
            BY <1>2, <2>8, <4>1, <5>1
          <5> QED
            BY <1>2, <5>2
        <4>2. CASE n >= 2
          <5>1. SUFFICES ASSUME d >= W PROVE FALSE
            BY <1>2, <2>8
          <5>2. (d - W) * n >= 0 /\ (d - W) * n = d * n - W * n /\ W * n \in Nat /\ d * n \in Nat
            BY <1>2, <2>8, <5>1
          <5>3. (W - 1) * (n - 1) >= 1 * (n - 1) /\ (W - 1) * (n - 1) = W * n - W - n + 1
            BY <1>2, <4>2, <5>2
          <5> DEFINE x == d * n
                     y == W * n
          <5>4. x \in Nat /\ y \in Nat /\ x >= y /\ y - W - n + 1 >= n - 1
            BY <1>2, <5>2, <5>3
          <5>5. x <= m + b
            BY <1>2, <2>3, <2>8, <5>2
          <5> HIDE DEF x, y
          <5>6. m + b <= (n - 1) + (W - 1)
            BY <1>2, <2>3
          <5> QED
            BY <1>2, <2>3, <4>2, <5>4, <5>5, <5>6
        <4> QED
          BY <1>2, <1>7, <4>1, <4>2
      <3> QED
        BY <2>8, <3>1, WordType DEF W
    <2>11. /\ c.k = k /\ c.a_reduced = m /\ c.d = d /\ c.r = push /\ c.sum = s
           /\ c.sum_overflow = o
      OBVIOUS
    <2> HIDE DEF c
    <2>12. d * n + push = o * W + s
      <3>1. s \in Nat /\ o * W \in Nat
        <4>1. s \in Nat /\ o \in Nat
          BY <2>5, WordType DEF Bool
        <4> QED
          BY <1>2, <4>1
      <3>2. s + o * W = o * W + s
        BY <3>1
      <3> QED
        BY <2>5, <2>8, <2>9, <3>2, Zenon
    <2>13. o \in WordValues
      BY <1>2, <2>5 DEF Bool
    <2>14. AddModGadget("ADDMOD", <<a, b, n>>, push, c)
      BY <1>7, <2>2, <2>3, <2>4, <2>5, <2>8, <2>9, <2>10, <2>11, <2>12, <2>13, AddModCells
    <2> QED
      BY <2>1, <2>14, Zenon
  <1> QED
    BY <1>5, <1>6, <1>7

\* What MulModGadget leaves of the cells.
LEMMA MulModCells ==
    ASSUME NEW a \in WordValues, NEW b \in WordValues, NEW n \in WordValues,
           NEW push \in WordValues, NEW c,
           c.k \in WordValues, c.k1 \in WordValues, c.a_reduced \in WordValues,
           c.a_or_zero \in WordValues, c.r \in WordValues, c.d \in WordValues, c.e \in WordValues
    PROVE  MulModGadget("MULMOD", <<a, b, n>>, push, c) <=>
             /\ push = c.r
             /\ n = 0 \/ c.r < n
             /\ IF n = 0 THEN c.a_reduced = c.a_or_zero /\ c.a_or_zero \in {a, 0}
                ELSE c.a_or_zero = a /\ c.a_reduced = a % n /\ c.k1 = a \div n
             /\ c.a_reduced * b = c.d * WordSize + c.e
             /\ c.k * n + c.r = c.d * WordSize + c.e
  <1>1. <<a, b, n>>[1] = a /\ <<a, b, n>>[2] = b /\ <<a, b, n>>[3] = n
    OBVIOUS
  <1>2. n \in Nat /\ c.r \in Nat /\ c.a_reduced \in Nat /\ b \in Nat /\ 0 \in WordValues
    BY WordType, Zenon
  <1>3. /\ IsZeroWord(n) = Bit(n = 0) /\ LtWord(c.r, n) = {Bit(c.r < n)}
    BY ZeroAndEqual, LtWordDecides
  <1>4. 1 - Bit(c.r < n) - Bit(n = 0) = 0 <=> n = 0 \/ c.r < n
    BY <1>2 DEF Bit
  <1>5. Modulo(a, n, c.a_reduced, c.k1, c.a_or_zero) <=>
           IF n = 0 THEN c.a_reduced = c.a_or_zero /\ c.a_or_zero \in {a, 0}
           ELSE c.a_or_zero = a /\ c.a_reduced = a % n /\ c.k1 = a \div n
    <2> DEFINE m == c.a_reduced
               k == c.k1
               z == c.a_or_zero
    <2>1. m \in WordValues /\ k \in WordValues /\ z \in WordValues
      OBVIOUS
    <2> HIDE DEF m, k, z
    <2>2. /\ n # 0 => (Modulo(a, n, m, k, z) <=> z = a /\ m = a % n /\ k = a \div n)
          /\ n = 0 => (Modulo(a, n, m, k, z) <=> m = z /\ z \in {a, 0})
      BY <2>1, ModuloDecides, Zenon
    <2> QED
      BY <2>2, Zenon DEF m, k, z
  <1>6. MulAddWords512(c.a_reduced, b, 0, c.d, c.e) <=> c.a_reduced * b = c.d * WordSize + c.e
    <2>1. \A z \in WordValues : MulAddWords512(c.a_reduced, b, z, c.d, c.e)
                                <=> c.a_reduced * b + z = c.d * WordSize + c.e
      BY MulAddWords512Decides
    <2>2. c.a_reduced * b + 0 = c.a_reduced * b
      BY <1>2
    <2> QED
      BY <1>2, <2>1, <2>2, Zenon
  <1>7. MulAddWords512(c.k, n, c.r, c.d, c.e) <=> c.k * n + c.r = c.d * WordSize + c.e
    BY MulAddWords512Decides, SMTT(90)
  <1>8. MulModGadget("MULMOD", <<a, b, n>>, push, c) <=>
            /\ push = c.r
            /\ 1 - Bit(c.r < n) - Bit(n = 0) = 0
            /\ Modulo(a, n, c.a_reduced, c.k1, c.a_or_zero)
            /\ MulAddWords512(c.a_reduced, b, 0, c.d, c.e)
            /\ MulAddWords512(c.k, n, c.r, c.d, c.e)
    BY <1>1, <1>3, Zenon DEF MulModGadget
  <1> QED
    BY <1>4, <1>5, <1>6, <1>7, <1>8, Zenon

\* The remainder of a product from the remainder of a factor, and with the other factor in
\* halves as the EVM's reference computes it.
LEMMA ProductRemainder ==
    ASSUME NEW a \in WordValues, NEW b \in WordValues, NEW n \in WordValues, n # 0,
           NEW k \in Nat, NEW r \in Nat, r < n, k * n + r = (a % n) * b
    PROVE  Evm("MULMOD", <<a, b, n>>) = r
  <1> DEFINE m == a % n
             q == a \div n
             h == Hi(b)
             l == Lo(b)
             u == (a * h) % n
             v == (a * h) \div n
             y == q * b + k - v * Half
             x == u * Half + a * l
  <1>1. /\ a \in Nat /\ b \in Nat /\ n \in Nat /\ n > 0 /\ Half \in Nat /\ h \in Nat /\ l \in Nat
        /\ b = h * Half + l
    <2>1. a \in Nat /\ b \in Nat /\ n \in Nat
      BY WordType, Zenon
    <2> QED
      BY <2>1, HalfType, Halves
  <1>2. q \in Nat /\ m \in Nat /\ a = q * n + m
    <2>1. q \in Nat /\ m \in 0..(n - 1) /\ a = q * n + m
      BY <1>1, DivMod, Zenon
    <2> QED
      BY <1>1, <2>1
  <1> HIDE DEF q, m, h, l
  <1>3. a * h \in Nat
    BY <1>1
  <1>4. u \in Nat /\ v \in Nat /\ a * h = v * n + u
    <2>1. u \in 0..(n - 1) /\ v \in Nat /\ a * h = v * n + u
      BY <1>1, <1>3, DivMod, Zenon
    <2> QED
      BY <1>1, <2>1
  <1> HIDE DEF u, v
  <1>5. y \in Int /\ x \in Int
    <2>1. q * b \in Int /\ v * Half \in Int /\ u * Half \in Int /\ a * l \in Int
      BY <1>1, <1>2, <1>4
    <2> QED
      BY <2>1
  <1>6. x = y * n + r
    <2>1. a * b = (a * h) * Half + a * l /\ a * b \in Nat
      BY <1>1
    <2>2. (v * n + u) * Half = (v * Half) * n + u * Half
      BY <1>1, <1>4
    <2>3. a * b = (v * n + u) * Half + a * l
      BY <1>4, <2>1, Zenon
    <2>4. a * b = ((v * Half) * n + u * Half) + a * l
      BY <2>2, <2>3, Zenon
    <2>5. a * b = (q * b) * n + m * b
      <3>1. (q * n + m) * b = (q * b) * n + m * b
        BY <1>1, <1>2
      <3> QED
        BY <1>2, <3>1, Zenon
    <2>6. m * b = k * n + r
      BY DEF m
    <2>7. a * b = (q * b) * n + (k * n + r)
      BY <2>5, <2>6, Zenon
    <2> DEFINE c1 == q * b
               c2 == v * Half
               c3 == u * Half
               c4 == a * l
    <2>8. c1 \in Nat /\ c2 \in Nat /\ c3 \in Nat /\ c4 \in Nat
      BY <1>1, <1>2, <1>4
    <2>9. (c2 * n + c3) + c4 = c1 * n + (k * n + r)
      BY <2>4, <2>7, Zenon
    <2> HIDE DEF c1, c2, c3, c4
    <2>10. (c1 + k - c2) * n = c1 * n + k * n - c2 * n
      BY <1>1, <2>8
    <2>11. c1 * n \in Nat /\ k * n \in Nat /\ c2 * n \in Nat
      BY <1>1, <2>8
    <2>12. c3 + c4 = (c1 + k - c2) * n + r
      BY <2>8, <2>9, <2>10, <2>11
    <2> QED
      BY <2>12, Zenon DEF c1, c2, c3, c4
  <1>7. x % n = r
    <2> HIDE DEF x, y
    <2>1. r \in 0..(n - 1)
      BY <1>1
    <2> QED
      BY <1>1, <1>5, <1>6, <2>1, TheRemainder
  <1>8. Evm("MULMOD", <<a, b, n>>) = x % n
    <2>1. <<a, b, n>>[1] = a /\ <<a, b, n>>[2] = b /\ <<a, b, n>>[3] = n
      OBVIOUS
    <2> QED
      BY <2>1, Zenon DEF Evm, u, h, l
  <1> QED
    BY <1>7, <1>8, Zenon

\* MulModGadget: for a modulus that is not zero, any cells that satisfy it leave the EVM's
\* result of MULMOD, products beyond the word included; and for every modulus the cells
\* assign_exec_step writes satisfy it with the EVM's result.
THEOREM MulModDecides ==
    ASSUME NEW a \in WordValues, NEW b \in WordValues, NEW n \in WordValues,
           NEW push \in WordValues
    PROVE  /\ n # 0 => \A c \in [k : WordValues, k1 : WordValues, a_reduced : WordValues,
                                 a_or_zero : WordValues, r : WordValues, d : WordValues,
                                 e : WordValues] :
                MulModGadget("MULMOD", <<a, b, n>>, push, c) => push = Evm("MULMOD", <<a, b, n>>)
           /\ push = Evm("MULMOD", <<a, b, n>>)
                => MulModGadget("MULMOD", <<a, b, n>>, push,
                                MulModAssign("MULMOD", <<a, b, n>>, push))
  <1> DEFINE W == WordSize
  <1>1. <<a, b, n>>[1] = a /\ <<a, b, n>>[2] = b /\ <<a, b, n>>[3] = n
    OBVIOUS
  <1>2. /\ W \in Nat /\ W > 1 /\ W > 0 /\ a \in Nat /\ b \in Nat /\ n \in Nat
        /\ a < W /\ b < W /\ n < W /\ 0 \in WordValues
    BY WordType
  <1>3. ASSUME n # 0,
               NEW c \in [k : WordValues, k1 : WordValues, a_reduced : WordValues,
                          a_or_zero : WordValues, r : WordValues, d : WordValues,
                          e : WordValues],
               MulModGadget("MULMOD", <<a, b, n>>, push, c)
        PROVE  push = Evm("MULMOD", <<a, b, n>>)
    <2>1. /\ c.k \in WordValues /\ c.k1 \in WordValues /\ c.a_reduced \in WordValues
          /\ c.a_or_zero \in WordValues /\ c.r \in WordValues /\ c.d \in WordValues
          /\ c.e \in WordValues
      OBVIOUS
    <2>2. /\ push = c.r /\ c.r < n /\ c.a_reduced = a % n
          /\ c.a_reduced * b = c.d * WordSize + c.e
          /\ c.k * n + c.r = c.d * WordSize + c.e
      BY <1>3, <2>1, MulModCells
    <2>3. c.k \in Nat /\ c.r \in Nat /\ c.k * n + c.r = (a % n) * b
      BY <2>1, <2>2, WordType, Zenon
    <2> DEFINE k == c.k
               r == c.r
    <2>4. k \in Nat /\ r \in Nat /\ r < n /\ k * n + r = (a % n) * b
      BY <2>2, <2>3, Zenon
    <2> HIDE DEF k, r
    <2>5. Evm("MULMOD", <<a, b, n>>) = r
      BY <1>3, <2>4, ProductRemainder
    <2> QED
      BY <2>2, <2>5, Zenon DEF r
  <1>4. ASSUME push = Evm("MULMOD", <<a, b, n>>), n = 0
        PROVE  MulModGadget("MULMOD", <<a, b, n>>, push, MulModAssign("MULMOD", <<a, b, n>>, push))
    <2>1. push = 0
      BY <1>1, <1>4, ZenonT(30) DEF Evm
    <2> DEFINE low == 0 * Lo(b)
               high == 0 * Hi(b)
               prod == low + (high % Half) * Half
               c == [k1 |-> 0, a_or_zero |-> 0, a_reduced |-> 0, r |-> push,
                     d |-> high \div Half + prod \div WordSize, e |-> prod % WordSize, k |-> 0]
    <2>2. MulModAssign("MULMOD", <<a, b, n>>, push) = c
      BY <1>1, <1>4 DEF MulModAssign, ModuloAssign
    <2>3. high \div Half + prod \div WordSize = 0 /\ prod % WordSize = 0
      <3>1. low = 0 /\ high = 0
        BY Halves
      <3>2. \A w \in Nat : w > 0 => 0 \div w = 0 /\ 0 % w = 0
        OBVIOUS
      <3>3. Half \in Nat /\ Half > 0 /\ WordSize \in Nat /\ WordSize > 0
        BY HalfType, WordType
      <3>4. 0 \div Half = 0 /\ 0 % Half = 0 /\ 0 \div WordSize = 0 /\ 0 % WordSize = 0
        BY <3>2, <3>3, Zenon
      <3>5. 0 * Half = 0 /\ 0 + 0 = 0
        BY <3>3
      <3> HIDE DEF low, high
      <3>6. prod = 0
        BY <3>1, <3>4, <3>5, ZenonT(30)
      <3> HIDE DEF prod
      <3> QED
        BY <3>1, <3>4, <3>5, <3>6, Zenon
    <2>4. /\ c.k1 = 0 /\ c.a_or_zero = 0 /\ c.a_reduced = 0 /\ c.r = push /\ c.k = 0
          /\ c.d = high \div Half + prod \div WordSize /\ c.e = prod % WordSize
      OBVIOUS
    <2> HIDE DEF c, high, prod
    <2>5. /\ c.k1 = 0 /\ c.a_or_zero = 0 /\ c.a_reduced = 0 /\ c.r = 0 /\ c.k = 0
          /\ c.d = 0 /\ c.e = 0
      BY <2>1, <2>3, <2>4, Zenon
    <2>6. 0 * b = 0 * WordSize + 0 /\ 0 * n + 0 = 0 * WordSize + 0
      BY <1>2
    <2>7. MulModGadget("MULMOD", <<a, b, n>>, push, c)
      BY <1>2, <1>4, <2>1, <2>5, <2>6, MulModCells
    <2> QED
      BY <2>2, <2>7, Zenon
  <1>5. ASSUME push = Evm("MULMOD", <<a, b, n>>), n # 0
        PROVE  MulModGadget("MULMOD", <<a, b, n>>, push, MulModAssign("MULMOD", <<a, b, n>>, push))
    <2> DEFINE m == a % n
               k1 == a \div n
               low == m * Lo(b)
               high == m * Hi(b)
               hq == high \div Half
               hr == high % Half
               prod == low + hr * Half
               d == hq + prod \div W
               e == prod % W
               v == high \div n
               u == high % n
               t == (u * Half + low) \div n
               w == (u * Half + low) % n
               k == v * Half + t
               c == [k1 |-> k1, a_or_zero |-> a, a_reduced |-> m, r |-> push,
                     d |-> d, e |-> e, k |-> k]
    <2>1. MulModAssign("MULMOD", <<a, b, n>>, push) = c
      BY <1>1, <1>5, Zenon DEF MulModAssign, ModuloAssign
    <2>2. n > 0 /\ k1 \in Nat /\ m \in 0..(n - 1) /\ a = k1 * n + m
      BY <1>2, <1>5, DivMod
    <2>3. /\ Half \in Nat /\ Half > 0 /\ W = Half * Half /\ Lo(b) \in Nat /\ Hi(b) \in Nat
          /\ b = Hi(b) * Half + Lo(b)
      BY HalfType, PowersOfBase, Halves
    <2> HIDE DEF k1, m, W
    <2>4. m \in Nat /\ m < n /\ k1 * n \in Nat /\ k1 <= k1 * n
      BY <1>2, <1>5, <2>2
    <2>5. k1 \in WordValues /\ m \in WordValues
      <3>1. k1 < W /\ m < W
        BY <1>2, <2>2, <2>4
      <3> QED
        BY <2>2, <2>4, <3>1, WordType DEF W
    <2>6. low \in Nat /\ high \in Nat /\ m * b = high * Half + low /\ m * b \in Nat
      BY <1>2, <2>3, <2>4
    <2>7. (m * b) < W * W
      <3>1. (W - m) * b >= 0 /\ (W - b) * W >= 0
        BY <1>2, <2>2, <2>4
      <3>2. (W - m) * b = W * b - m * b /\ (W - b) * W = W * W - W * b
        BY <1>2, <2>4
      <3>3. (W - b) * W > 0
        BY <1>2
      <3>4. W * b \in Nat /\ W * W \in Nat
        BY <1>2
      <3> QED
        BY <2>6, <3>1, <3>2, <3>3, <3>4
    <2> HIDE DEF low, high
    <2>8. hq \in Nat /\ hr \in Nat /\ high = hq * Half + hr
      <3>1. hq \in Nat /\ hr \in 0..(Half - 1) /\ high = hq * Half + hr
        BY <2>3, <2>6, DivMod, Zenon
      <3> QED
        BY <2>3, <3>1
    <2> HIDE DEF hq, hr
    <2>9. prod \in Nat
      BY <2>3, <2>6, <2>8
    <2>10. m * b = hq * W + prod
      <3>1. (hq * Half + hr) * Half = hq * (Half * Half) + hr * Half
        BY <2>3, <2>8
      <3>2. m * b = (hq * W + hr * Half) + low
        BY <2>3, <2>6, <2>8, <3>1, Zenon
      <3>3. hq * W \in Nat /\ hr * Half \in Nat
        BY <1>2, <2>3, <2>8
      <3> QED
        BY <2>6, <3>2, <3>3
    <2> HIDE DEF prod
    <2>11. prod \div W \in Nat /\ e \in 0..(W - 1) /\ prod = (prod \div W) * W + e
      BY <1>2, <2>9, DivMod, Zenon
    <2>12. d \in Nat /\ e \in Nat /\ m * b = d * W + e
      <3> DEFINE x == prod \div W
      <3>1. x \in Nat /\ e \in Nat /\ prod = x * W + e
        BY <1>2, <2>11
      <3> HIDE DEF x, e
      <3>2. (hq + x) * W = hq * W + x * W /\ hq * W \in Nat /\ x * W \in Nat
        BY <1>2, <2>8, <3>1
      <3>3. m * b = (hq + x) * W + e
        BY <2>10, <3>1, <3>2
      <3>4. d = hq + x
        BY Zenon DEF x
      <3> HIDE DEF d
      <3> QED
        BY <2>8, <3>1, <3>3, <3>4
    <2> HIDE DEF d, e
    <2>13. d \in WordValues /\ e \in WordValues
      <3>1. d < W
        <4>1. d * W \in Nat /\ W * W \in Nat /\ d * W < W * W
          BY <1>2, <2>7, <2>12
        <4>2. SUFFICES ASSUME d >= W PROVE FALSE
          BY <1>2, <2>12
        <4>3. (d - W) * W >= 0 /\ (d - W) * W = d * W - W * W
          BY <1>2, <2>12, <4>2
        <4> QED
          BY <4>1, <4>3
      <3>2. e < W
        BY <1>2, <2>11
      <3> QED
        BY <2>12, <3>1, <3>2, WordType DEF W
    <2>14. v \in Nat /\ u \in Nat /\ high = v * n + u
      <3>1. v \in Nat /\ u \in 0..(n - 1) /\ high = v * n + u
        BY <1>2, <2>2, <2>6, DivMod, ZenonT(30)
      <3> QED
        BY <1>2, <3>1
    <2> HIDE DEF v, u
    <2>15. u * Half + low \in Nat
      BY <2>3, <2>6, <2>14
    <2>16. t \in Nat /\ w \in Nat /\ w < n /\ u * Half + low = t * n + w
      <3>1. t \in Nat /\ w \in 0..(n - 1) /\ u * Half + low = t * n + w
        BY <1>2, <2>2, <2>15, DivMod, Zenon
      <3> QED
        BY <1>2, <3>1
    <2> HIDE DEF t, w
    <2>17. k \in Nat /\ k * n + w = m * b
      <3>1. k \in Nat
        BY <2>3, <2>14, <2>16
      <3>2. k * n = (v * Half) * n + t * n /\ (v * n + u) * Half = (v * Half) * n + u * Half
        BY <1>2, <2>3, <2>14, <2>16
      <3>3. m * b = ((v * Half) * n + u * Half) + low
        BY <2>6, <2>14, <3>2, Zenon
      <3>4. (v * Half) * n \in Nat /\ u * Half \in Nat /\ t * n \in Nat
        BY <1>2, <2>3, <2>14, <2>16
      <3> DEFINE y == (v * Half) * n
      <3>5. k * n = y + t * n /\ m * b = (y + u * Half) + low /\ y \in Nat
        BY <3>2, <3>3, <3>4, Zenon
      <3> HIDE DEF y, k
      <3> QED
        BY <2>6, <2>16, <3>1, <3>4, <3>5
    <2> HIDE DEF k
    <2>18. push = w
      <3>1. k * n + w = (a % n) * b
        BY <2>17, Zenon DEF m
      <3>2. Evm("MULMOD", <<a, b, n>>) = w
        BY <1>5, <2>16, <2>17, <3>1, ProductRemainder
      <3> QED
        BY <1>5, <3>2, Zenon
    <2>19. k \in WordValues
      <3>1. k < W
        <4>1. SUFFICES ASSUME k >= W PROVE FALSE
          BY <1>2, <2>17
        <4>2. (k - W) * n >= 0 /\ (k - W) * n = k * n - W * n
          BY <1>2, <2>17, <4>1
        <4>3. (n - m) * b >= 0 /\ (n - m) * b = n * b - m * b /\ (W - b) * n > 0
              /\ (W - b) * n = W * n - n * b
          BY <1>2, <2>2, <2>4
        <4>4. k * n \in Nat /\ W * n \in Nat /\ n * b \in Nat
          BY <1>2, <2>17
        <4> QED
          BY <2>6, <2>16, <2>17, <4>2, <4>3, <4>4
      <3> QED
        BY <2>17, <3>1, WordType DEF W
    <2>20. /\ c.k1 = k1 /\ c.a_or_zero = a /\ c.a_reduced = m /\ c.r = push
           /\ c.d = d /\ c.e = e /\ c.k = k
      OBVIOUS
    <2> HIDE DEF c
    <2>21. m = a % n /\ k1 = a \div n
      BY Zenon DEF m, k1
    <2>22. push < n /\ m * b = d * WordSize + e /\ k * n + push = d * WordSize + e
      BY <2>12, <2>16, <2>17, <2>18, Zenon DEF W
    <2>23. MulModGadget("MULMOD", <<a, b, n>>, push, c)
      BY <1>5, <2>5, <2>13, <2>19, <2>20, <2>21, <2>22, MulModCells, SMTT(90)
    <2> QED
      BY <2>1, <2>23, Zenon
  <1> QED
    BY <1>3, <1>4, <1>5

----------------------------------------------------------------------------
(* The steps of the machine.                                               *)

\* The opcodes whose gadgets are decided above, their operands and their cells.
DecidedOpcodes == {"ADD", "SUB", "MUL", "DIV", "MOD", "ADDMOD", "MULMOD", "LT", "GT", "EQ",
                   "ISZERO"}

Operands(op) ==
    CASE op \in Ternary -> WordValues \X WordValues \X WordValues
      [] op \in Unary -> {<<x>> : x \in WordValues}
      [] OTHER -> WordValues \X WordValues

Cells(op) ==
    CASE op \in {"ADD", "SUB"} -> [a : WordValues, b : WordValues, c : WordValues]
      [] op \in {"MUL", "DIV", "MOD"} ->
            [a : WordValues, b : WordValues, c : WordValues, d : WordValues]
      [] op = "ADDMOD" -> [k : WordValues, a_reduced : WordValues, d : WordValues,
                           r : WordValues, sum : WordValues, sum_overflow : WordValues]
      [] op = "MULMOD" -> [k : WordValues, k1 : WordValues, a_reduced : WordValues,
                           a_or_zero : WordValues, r : WordValues, d : WordValues,
                           e : WordValues]
      [] op \in {"LT", "GT", "EQ"} -> [a : WordValues, b : WordValues, result : WordValues]
      [] OTHER -> {NoCells(op, <<>>, 0)}

\* The result of a step on words is the only one its gadget accepts, whatever word cells
\* the prover chooses, and the gadget accepts it with the cells assign_exec_step writes.
\* A modulus of zero leaves the result of MULMOD to the assignment.
StepsDecided ==
    last # NoStep /\ last.op \in DecidedOpcodes /\ last.pops \in Operands(last.op) =>
        /\ Accepts(last.op, last.pops, last.push, last.identifier,
                   Assigned(last.op, last.pops, last.push))
        /\ ~(last.op = "MULMOD" /\ last.pops[3] = 0) =>
              \A r \in WordValues, c \in Cells(last.op) :
                 Accepts(last.op, last.pops, r, last.identifier, c) => r = last.push

\* The EVM's results on words are words.
LEMMA EvmWord ==
    ASSUME NEW x \in WordValues, NEW y \in WordValues, NEW n \in WordValues
    PROVE  /\ \A op \in {"ADD", "SUB", "MUL", "DIV", "MOD", "LT", "GT", "EQ"} :
                 Evm(op, <<x, y>>) \in WordValues
           /\ Evm("ADDMOD", <<x, y, n>>) \in WordValues
           /\ Evm("MULMOD", <<x, y, n>>) \in WordValues
           /\ Evm("ISZERO", <<x>>) \in WordValues
  <1>1. /\ WordSize \in Nat /\ WordSize > 1 /\ x \in Nat /\ y \in Nat /\ n \in Nat
        /\ 0 \in WordValues /\ 1 \in WordValues /\ x < WordSize /\ y < WordSize /\ n < WordSize
    BY WordType
  <1>2. \A i \in Int : i % WordSize \in WordValues
    BY <1>1 DEF WordValues
  <1>3. ASSUME NEW i \in Nat, NEW m \in WordValues, m # 0 PROVE i % m \in WordValues
    <2>1. m \in Nat /\ m < WordSize
      BY WordType
    <2>2. i % m \in 0..(m - 1)
      BY <1>3, <2>1
    <2> QED
      BY <1>1, <2>1, <2>2 DEF WordValues
  <1>4. y # 0 => x \div y \in WordValues
    <2>1. SUFFICES ASSUME y # 0 PROVE x \div y \in WordValues
      OBVIOUS
    <2> DEFINE q == x \div y
               r == x % y
    <2>2. q \in Nat /\ r \in 0..(y - 1) /\ x = q * y + r
      BY <1>1, <2>1, DivMod
    <2> HIDE DEF q, r
    <2>3. q <= q * y /\ q * y \in Nat
      BY <1>1, <2>1, <2>2
    <2>4. q < WordSize
      BY <1>1, <2>2, <2>3
    <2> QED
      BY <1>1, <2>2, <2>4, WordType DEF q
  <1>5. /\ <<x, y>>[1] = x /\ <<x, y>>[2] = y /\ <<x>>[1] = x
        /\ <<x, y, n>>[1] = x /\ <<x, y, n>>[2] = y /\ <<x, y, n>>[3] = n
    OBVIOUS
  <1>6. ~(x < 0) /\ ~(y < 0) /\ ~(x + y < 0) /\ ~(n < 0) /\ x + y \in Nat /\ x - y \in Int
        /\ x + y \in Int
    BY <1>1
  <1>7. /\ Quotient(x, y) = IF y = 0 THEN 0 ELSE x \div y
        /\ Remainder(x, y) = IF y = 0 THEN 0 ELSE x % y
        /\ Remainder(x + y, n) = IF n = 0 THEN 0 ELSE (x + y) % n
    BY <1>6 DEF Quotient, Remainder, Abs
  <1>8. /\ Quotient(x, y) \in WordValues /\ Remainder(x, y) \in WordValues
        /\ Remainder(x + y, n) \in WordValues
    BY <1>1, <1>3, <1>4, <1>6, <1>7, Zenon
  <1>9. /\ Evm("ADD", <<x, y>>) = (x + y) % WordSize /\ Evm("SUB", <<x, y>>) = (x - y) % WordSize
         /\ Evm("MUL", <<x, y>>) = MulWrap(x, y) /\ Evm("DIV", <<x, y>>) = Quotient(x, y)
         /\ Evm("MOD", <<x, y>>) = Remainder(x, y)
         /\ Evm("LT", <<x, y>>) = Bit(x < y) /\ Evm("GT", <<x, y>>) = Bit(x > y)
         /\ Evm("EQ", <<x, y>>) = Bit(x = y) /\ Evm("ISZERO", <<x>>) = Bit(x = 0)
         /\ Evm("ADDMOD", <<x, y, n>>) = Remainder(x + y, n)
    BY <1>5, Zenon DEF Evm, Wrap
  <1>10. Evm("MULMOD", <<x, y, n>>) \in WordValues
    <2> DEFINE i == ((x * Hi(y)) % n) * Half + x * Lo(y)
    <2>1. Evm("MULMOD", <<x, y, n>>) = IF n = 0 THEN 0 ELSE i % n
      BY <1>5, ZenonT(30) DEF Evm
    <2>2. n # 0 => i \in Nat
      <3>1. Hi(y) \in Nat /\ Lo(y) \in Nat /\ Half \in Nat
        BY HalfType, Halves
      <3>2. x * Hi(y) \in Nat /\ x * Lo(y) \in Nat
        BY <1>1, <3>1
      <3>3. n # 0 => (x * Hi(y)) % n \in Nat
        BY <1>1, <3>2
      <3> DEFINE j == (x * Hi(y)) % n
                 l == x * Lo(y)
      <3>4. n # 0 => j \in Nat /\ l \in Nat
        BY <3>2, <3>3
      <3> HIDE DEF j, l
      <3>5. n # 0 => j * Half + l \in Nat
        BY <3>1, <3>4
      <3> QED
        BY <3>5, Zenon DEF j, l
    <2> HIDE DEF i
    <2> QED
      BY <1>1, <1>3, <2>1, <2>2, ZenonT(30)
  <1>11. MulWrap(x, y) \in WordValues
    BY MulWrapIs, Zenon
  <1>12. /\ Bit(x < y) \in WordValues /\ Bit(x > y) \in WordValues /\ Bit(x = y) \in WordValues
         /\ Bit(x = 0) \in WordValues
    BY <1>1 DEF Bit
  <1> QED
    BY <1>2, <1>6, <1>8, <1>9, <1>10, <1>11, <1>12

\* The gadgets on the operands of an opcode: the EVM's result is accepted with the assigned
\* cells, and nothing else is accepted.
LEMMA OperandsDecided ==
    ASSUME NEW op \in DecidedOpcodes, NEW pops \in Operands(op), NEW id
    PROVE  /\ Accepts(op, pops, Evm(op, pops), id, Assigned(op, pops, Evm(op, pops)))
           /\ ~(op = "MULMOD" /\ pops[3] = 0) =>
                 \A r \in WordValues, c \in Cells(op) :
                    Accepts(op, pops, r, id, c) => r = Evm(op, pops)
  <1>1. CASE op \in {"ADD", "SUB"}
    <2>1. PICK x \in WordValues, y \in WordValues : pops = <<x, y>>
      BY <1>1 DEF Operands, Ternary, Unary
    <2>2. Evm(op, pops) \in WordValues
      BY <1>1, <2>1, EvmWord, Zenon
    <2>3. /\ \A r, c : Accepts(op, pops, r, id, c) <=> AddSubGadget(op, pops, r, c)
          /\ \A r : Assigned(op, pops, r) = AddSubAssign(op, pops, r)
          /\ Cells(op) = [a : WordValues, b : WordValues, c : WordValues]
      BY <1>1, ZenonT(30) DEF Accepts, Assigned, Cells
    <2> QED
      BY <1>1, <2>1, <2>2, <2>3, AddSubDecides
  <1>2. CASE op \in {"MUL", "DIV", "MOD"}
    <2>1. PICK x \in WordValues, y \in WordValues : pops = <<x, y>>
      BY <1>2 DEF Operands, Ternary, Unary
    <2>2. Evm(op, pops) \in WordValues
      BY <1>2, <2>1, EvmWord, Zenon
    <2>3. /\ \A r, c : Accepts(op, pops, r, id, c) <=> MulDivModGadget(op, pops, r, c)
          /\ \A r : Assigned(op, pops, r) = MulDivModAssign(op, pops, r)
          /\ Cells(op) = [a : WordValues, b : WordValues, c : WordValues, d : WordValues]
      BY <1>2, ZenonT(30) DEF Accepts, Assigned, Cells
    <2> QED
      BY <1>2, <2>1, <2>2, <2>3, MulDivModDecides
  <1>3. CASE op \in {"LT", "GT", "EQ"}
    <2>1. PICK x \in WordValues, y \in WordValues : pops = <<x, y>>
      BY <1>3 DEF Operands, Ternary, Unary
    <2>2. Evm(op, pops) \in WordValues
      BY <1>3, <2>1, EvmWord, Zenon
    <2>3. /\ \A r, c : Accepts(op, pops, r, id, c) <=> ComparatorGadget(op, pops, r, c)
          /\ \A r : Assigned(op, pops, r) = ComparatorAssign(op, pops, r)
          /\ Cells(op) = [a : WordValues, b : WordValues, result : WordValues]
      BY <1>3, ZenonT(30) DEF Accepts, Assigned, Cells
    <2>4. /\ \A r \in WordValues, c \in Cells(op) :
                ComparatorGadget(op, <<x, y>>, r, c) => r = Evm(op, <<x, y>>)
          /\ \A r \in WordValues : r = Evm(op, <<x, y>>) =>
                ComparatorGadget(op, <<x, y>>, r, ComparatorAssign(op, <<x, y>>, r))
      BY <1>3, <2>3, ComparatorDecides, ZenonT(30)
    <2> QED
      BY <1>3, <2>1, <2>2, <2>3, <2>4, ZenonT(30)
  <1>4. CASE op = "ADDMOD"
    <2>1. PICK x \in WordValues, y \in WordValues, n \in WordValues : pops = <<x, y, n>>
      BY <1>4 DEF Operands, Ternary, Unary
    <2>2. Evm(op, pops) \in WordValues
      BY <1>4, <2>1, EvmWord, Zenon
    <2>3. /\ \A r, c : Accepts(op, pops, r, id, c) <=> AddModGadget(op, pops, r, c)
          /\ \A r : Assigned(op, pops, r) = AddModAssign(op, pops, r)
          /\ Cells(op) = [k : WordValues, a_reduced : WordValues, d : WordValues,
                          r : WordValues, sum : WordValues, sum_overflow : WordValues]
      BY <1>4, Zenon DEF Accepts, Assigned, Cells
    <2>4. /\ \A r \in WordValues, c \in Cells(op) :
                AddModGadget("ADDMOD", <<x, y, n>>, r, c) => r = Evm("ADDMOD", <<x, y, n>>)
          /\ \A r \in WordValues : r = Evm("ADDMOD", <<x, y, n>>) =>
                AddModGadget("ADDMOD", <<x, y, n>>, r, AddModAssign("ADDMOD", <<x, y, n>>, r))
      BY <1>4, <2>3, AddModDecides, Zenon
    <2>5. /\ \A r \in WordValues, c \in Cells(op) : AddModGadget(op, pops, r, c) => r = Evm(op, pops)
          /\ \A r \in WordValues : r = Evm(op, pops) => AddModGadget(op, pops, r, AddModAssign(op, pops, r))
      BY <1>4, <2>1, <2>2, <2>4
    <2> QED
      BY <2>2, <2>3, <2>5
  <1>5. CASE op = "MULMOD"
    <2>1. PICK x \in WordValues, y \in WordValues, n \in WordValues : pops = <<x, y, n>>
      BY <1>5 DEF Operands, Ternary, Unary
    <2>2. Evm(op, pops) \in WordValues /\ pops[3] = n
      BY <1>5, <2>1, EvmWord, ZenonT(30)
    <2>3. /\ \A r, c : Accepts(op, pops, r, id, c) <=> MulModGadget(op, pops, r, c)
          /\ \A r : Assigned(op, pops, r) = MulModAssign(op, pops, r)
          /\ Cells(op) = [k : WordValues, k1 : WordValues, a_reduced : WordValues,
                          a_or_zero : WordValues, r : WordValues, d : WordValues,
                          e : WordValues]
      BY <1>5, ZenonT(30) DEF Accepts, Assigned, Cells
    <2>4. /\ n # 0 => \A r \in WordValues, c \in Cells(op) :
                MulModGadget("MULMOD", <<x, y, n>>, r, c) => r = Evm("MULMOD", <<x, y, n>>)
          /\ \A r \in WordValues : r = Evm("MULMOD", <<x, y, n>>) =>
                MulModGadget("MULMOD", <<x, y, n>>, r, MulModAssign("MULMOD", <<x, y, n>>, r))
      BY <1>5, <2>3, MulModDecides, ZenonT(30)
    <2>5. /\ pops[3] # 0 => \A r \in WordValues, c \in Cells(op) : MulModGadget(op, pops, r, c) => r = Evm(op, pops)
          /\ \A r \in WordValues : r = Evm(op, pops) => MulModGadget(op, pops, r, MulModAssign(op, pops, r))
      BY <1>5, <2>1, <2>2, <2>4
    <2> QED
      BY <1>5, <2>2, <2>3, <2>5
  <1>6. CASE op = "ISZERO"
    <2>1. PICK x \in WordValues : pops = <<x>>
      BY <1>6 DEF Operands, Ternary, Unary
    <2>2. Evm(op, pops) \in WordValues
      BY <1>6, <2>1, EvmWord, Zenon
    <2>3. \A r, c : Accepts(op, pops, r, id, c) <=> IsZeroGadget(op, pops, r, c)
      BY <1>6, Zenon DEF Accepts
    <2> QED
      BY <1>6, <2>1, <2>2, <2>3, ComparatorDecides, ZenonT(30)
  <1> QED
    BY <1>1, <1>2, <1>3, <1>4, <1>5, <1>6 DEF DecidedOpcodes

\* In every behaviour, with any number of steps, any programs and operands and any width of
\* a limb: the steps of these opcodes are decided by their gadgets.
THEOREM StepsAreDecided == Spec => []StepsDecided
  <1> DEFINE Inv == last = NoStep \/ last.push = Evm(last.op, last.pops)
  <1>1. Init => Inv
    BY DEF Init
  <1>2. Inv /\ [Next]_vars => Inv'
    <2>1. ASSUME Inv, NEW op \in Opcodes, Step(op) PROVE Inv'
      <3> DEFINE pops == SubSeq(stack, 1, Arity(op))
                 id == Len(exp_events) + 1
      <3>1. last' = [op |-> op, pops |-> pops, push |-> Evm(op, pops), identifier |-> id]
        BY <2>1, Zenon DEF Step
      <3> HIDE DEF pops, id
      <3>2. last'.op = op /\ last'.pops = pops /\ last'.push = Evm(op, pops)
        BY <3>1
      <3> QED
        BY <3>2, Zenon
    <2>2. ASSUME Inv, UNCHANGED vars PROVE Inv'
      BY <2>2, Zenon DEF vars
    <2> QED
      BY <2>1, <2>2, Zenon DEF Next
  <1>3. Inv => StepsDecided
    <2>1. SUFFICES ASSUME Inv, last # NoStep, last.op \in DecidedOpcodes,
                          last.pops \in Operands(last.op)
                   PROVE  StepsDecided
      BY Zenon DEF StepsDecided
    <2>2. last.push = Evm(last.op, last.pops)
      BY <2>1, Zenon
    <2> HIDE DEF Inv
    <2> QED
      BY <2>1, <2>2, OperandsDecided, Zenon DEF StepsDecided
  <1> QED
    BY <1>1, <1>2, <1>3, PTL DEF Spec

=============================================================================
