---------------------------- MODULE MathGadgets ----------------------------
(***************************************************************************)
(* The arithmetic gadgets of evm_circuit/util/math_gadget and the chips of *)
(* the gadgets crate, as relations between cells.                          *)
(*                                                                         *)
(* The field has P elements.  A 256-bit word has four 64-bit limbs and 32  *)
(* bytes, a byte has as many values as a word has bits.  Here a byte has   *)
(* Bits bits and a limb is one byte, so with Bits = 4 a word has 16 bits,  *)
(* a byte has 16 values and the proportions of the code are kept: 64 is    *)
(* Bits, 128 is 2 * Bits, 256 is Base, 31 is 3.                            *)
(*                                                                         *)
(* A gadget that allocates cells is the SET of the outputs that some       *)
(* assignment of its cells admits: empty when none satisfies its           *)
(* constraints, a singleton when they determine it.                        *)
(***************************************************************************)
EXTENDS Integers, Sequences, FiniteSets

CONSTANTS Bits,       \* bits of a byte, and of a limb
          CarrySize,  \* values of a carry of a product: a limb and a byte
          P           \* order of the field

Base == 2^Bits
Half == Base^2
WordSize == Base^4
WordValues == 0..(WordSize - 1)
Bool == {0, 1}

\* The powers that are used: a limb, a half of two limbs and a word of two halves.
ASSUME PowersOfBase ==
    /\ Base \in Nat /\ Base > 1
    /\ Base^0 = 1 /\ Base^1 = Base /\ Half = Base * Base /\ Base^3 = Half * Base
    /\ WordSize = Half * Half

\* The carry of a product has its range, and a half of a word with such a carry
\* does not wrap around the field.
ASSUME CarriesFit ==
    /\ CarrySize \in Nat /\ CarrySize >= 4 * Base
    /\ P \in Nat /\ P >= CarrySize * Half

\* Little-endian limbs (and bytes) of a word, its halves, and back.
Limb(w, i) == (w \div Base^i) % Base
Lo(w) == w % Half
Hi(w) == w \div Half
FromLimbs(l) == l[0] + l[1] * Base + l[2] * Base^2 + l[3] * Base^3

\* The value of an expression in the field.
F(e) == e % P
Bit(b) == IF b THEN 1 ELSE 0
select(cond, a, b) == cond * a + (1 - cond) * b

----------------------------------------------------------------------------
(* Is-zero, equality and order.                                            *)

\* The gates of the is-zero chips and what they assign, over a field of p
\* elements.  The gadget of the EVM circuit has the gate on the inverse, the
\* chip of the gadgets crate does not.
IsZeroChipOnInverse(p, value, inv) ==   \* mutant: the gate multiplies the inverse
    (inv * ((1 - value * inv) % p)) % p = 0

IsZeroChip(p, value, inv) ==
    (value * ((1 - value * inv) % p)) % p = 0

IsZeroGates(p, value, inv) ==
    /\ (value * ((1 - value * inv) % p)) % p = 0
    /\ (inv * ((1 - value * inv) % p)) % p = 0

IsZeroExpr(p, value, inv) == (1 - value * inv) % p

Invert(p, value) ==
    IF value % p = 0 THEN 0 ELSE CHOOSE i \in 1..(p - 1) : (value * i) % p = 1

BatchedIsZeroGates(p, values, is_zero, witness) ==
    /\ (is_zero * (is_zero - 1)) % p = 0
    /\ \A i \in DOMAIN values : (is_zero * values[i]) % p = 0
    /\ \/ (1 - is_zero) % p = 0
       \/ \E i \in DOMAIN values : (1 - values[i] * witness) % p = 0

BatchedIsZeroAssign(p, values) ==
    LET nonzero == {i \in DOMAIN values : values[i] # 0}
    IN  IF nonzero = {} THEN <<1, 0>>
        ELSE LET first == CHOOSE i \in nonzero : \A j \in nonzero : i <= j
             IN  <<0, Invert(p, values[first])>>

\* The binary number chip: n bits, most significant first, of an enumeration
\* whose discriminants are valid; each other number has a gate against it.
as_bits(n, x) == [i \in 1..n |-> (x \div 2^(n - i)) % 2]
from_bits(bits) ==
    LET value[i \in 0..Len(bits)] == IF i = 0 THEN 0 ELSE bits[i] + 2 * value[i - 1]
    IN  value[Len(bits)]
value_equals(n, value, bits) ==
    Bit(\A i \in 1..n : (IF as_bits(n, value)[i] = 1 THEN bits[i] ELSE 1 - bits[i]) # 0)
BinaryNumberGates(n, bits, valid) ==
    /\ \A i \in 1..n : bits[i] \in Bool
    /\ \A x \in (0..(2^n - 1)) \ valid : value_equals(n, x, bits) = 0

\* What the gates of IsZeroGadget leave, in the large field.
IsZero(value) == Bit(F(value) = 0)
IsEqual(lhs, rhs) == IsZero(lhs - rhs)
IsZeroWord(w) == IsZero(Lo(w)) * IsZero(Hi(w))
IsEqualWord(l, r) == IsEqual(Lo(l), Lo(r)) * IsEqual(Hi(l), Hi(r))

\* lhs - rhs = diff - lt * range with diff of n bytes.
Lt(n, lhs, rhs) == {lt \in Bool : F(lhs - rhs + lt * Base^n) < Base^n}

LtAssign(n, lhs, rhs) ==
    [lt |-> Bit(lhs < rhs), diff |-> lhs - rhs + Bit(lhs < rhs) * Base^n]

\* The chip of the gadgets crate on given cells.
LtChip(n, lhs, rhs, lt, diff) ==
    /\ F(lhs - rhs - diff + lt * Base^n) = 0
    /\ lt \in Bool
    /\ diff \in 0..(Base^n - 1)

LtChipAssign(n, lhs, rhs) ==
    [lt |-> Bit(lhs < rhs), diff |-> F(lhs - rhs + IF lhs < rhs THEN Base^n ELSE 0)]

Comparison(n, lhs, rhs) ==
    {[lt |-> lt, eq |-> IsZero(F(lhs - rhs + lt * Base^n))] :
        lt \in Lt(n, lhs, rhs)}

LtWord(l, r) ==
    {hi.lt + hi.eq * lt_lo : hi \in Comparison(2, Hi(l), Hi(r)),
                             lt_lo \in Lt(2, Lo(l), Lo(r))}

CmpWords(a, b) ==
    {[lt |-> select(hi.lt, 1, hi.eq * lo.lt), eq |-> hi.eq * lo.eq] :
        hi \in Comparison(2, Hi(a), Hi(b)), lo \in Comparison(2, Lo(a), Lo(b))}

MinMax(n, lhs, rhs) ==
    {[min |-> select(lt, lhs, rhs), max |-> select(lt, rhs, lhs)] :
        lt \in Lt(n, lhs, rhs)}

PairSelect(value, a, b) ==
    {is_a \in Bool : /\ F(is_a * (value - a)) = 0
                     /\ F((1 - is_a) * (value - b)) = 0}

RangeCheck(n, value) == F(value) < Base^n

\* The cell after the most significant non-zero byte: index i is enabled when
\* the bytes from i on are zero and byte i - 1 has an inverse.
ByteSize(w) ==
    {i \in 0..4 : /\ \A j \in i..3 : Limb(w, j) = 0
                  /\ i > 0 => Limb(w, i - 1) # 0}

ByteSizeAssign(w) ==
    IF w = 0 THEN 0
    ELSE 1 + CHOOSE i \in 0..3 : Limb(w, i) # 0 /\ \A j \in (i + 1)..3 : Limb(w, j) = 0

ConstantDivision(n, numerator, denominator) ==
    {qr \in (0..(Base^n - 1)) \X (0..(denominator - 1)) :
        F(numerator - qr[2]) = F(qr[1] * denominator)}

----------------------------------------------------------------------------
(* Sums and products of words.                                             *)

\* The carries admitted for the sum of two words, the high one only where
\* the gadget is built without the overflow check.
AddWords(check_overflow, a, b, sum) ==
    {carry \in Bool \X (IF check_overflow THEN {0} ELSE Bool) :
        /\ F(Lo(a) + Lo(b)) = F(Lo(sum) + carry[1] * Half)
        /\ F(Hi(a) + Hi(b) + carry[1]) = F(Hi(sum) + carry[2] * Half)}

AddWordsAssign(a, b, sum) ==
    LET lo == (Lo(a) + Lo(b) - Lo(sum)) \div Half
    IN  <<lo, (Hi(a) + Hi(b) + lo - Hi(sum)) \div Half>>

\* The partial products of the limbs.
MulT(a, b, k) ==
    LET term(i) == IF k - i \in 0..3 THEN Limb(a, i) * Limb(b, k - i) ELSE 0
    IN  term(0) + term(1) + term(2) + term(3)

Carries == 0..(CarrySize - 1)

MulAddOverflow(a, b, carry_hi) ==
    carry_hi + MulT(a, b, 4) + MulT(a, b, 5) + MulT(a, b, 6)

\* a * b + c = d modulo the word, with the overflow expression.
MulAddWords(a, b, c, d) ==
    LET los == {lo \in Carries : F(MulT(a, b, 0) + MulT(a, b, 1) * Base + Lo(c))
                                   = F(Lo(d) + lo * Half)}
    IN  UNION {{MulAddOverflow(a, b, hi) :
                  hi \in {h \in Carries :
                            F(MulT(a, b, 2) + MulT(a, b, 3) * Base + Hi(c) + lo)
                              = F(Hi(d) + h * Half)}} : lo \in los}

\* carry = (t + c - d) >> 128 with saturating subtractions.
Saturating(e) == IF e < 0 THEN 0 ELSE e

MulAddWordsAssignNoCarry(a, b, c, d) ==   \* mutant: the low carry is forgotten
    <<Saturating(MulT(a, b, 0) + MulT(a, b, 1) * Base + Lo(c) - Lo(d)) \div Half,
      Saturating(MulT(a, b, 2) + MulT(a, b, 3) * Base + Hi(c) - Hi(d)) \div Half>>

MulAddWordsAssign(a, b, c, d) ==
    LET lo == Saturating(MulT(a, b, 0) + MulT(a, b, 1) * Base + Lo(c) - Lo(d)) \div Half
        hi == Saturating(MulT(a, b, 2) + MulT(a, b, 3) * Base + Hi(c) + lo - Hi(d)) \div Half
    IN  <<lo, hi>>

\* The chip of the gadgets crate has the same gates, and wraps around the
\* word where the gadget saturates.
MulAddChip(w) == MulAddWords(w[1], w[2], w[3], w[4])

MulAddChipAssign(w) ==
    LET wrap(e) == e % WordSize
        lo == wrap(MulT(w[1], w[2], 0) + MulT(w[1], w[2], 1) * Base
                     + wrap(Lo(w[3]) - Lo(w[4]))) \div Half
        hi == wrap(MulT(w[1], w[2], 2) + MulT(w[1], w[2], 3) * Base + Hi(w[3])
                     + wrap(lo - Hi(w[4]))) \div Half
    IN  <<lo, hi>>

MulWordByU64(a, u, product) ==
    {carry \in 0..(Base - 1) :
        /\ F(Lo(a) * u) = F(Lo(product) + carry * Half)
        /\ F(Hi(a) * u + carry) = F(Hi(product))}

\* a * b + c = d * 2^256 + e.
MulAddWords512(a, b, c, d, e) ==
    \E c0 \in Carries :
        /\ F(MulT(a, b, 0) + MulT(a, b, 1) * Base + Lo(c)) = F(Lo(e) + c0 * Half)
        /\ \E c1 \in Carries :
             /\ F(MulT(a, b, 2) + MulT(a, b, 3) * Base + Hi(c) + c0)
                  = F(Hi(e) + c1 * Half)
             /\ \E c2 \in Carries :
                  /\ F(MulT(a, b, 4) + MulT(a, b, 5) * Base + c1)
                       = F(Lo(d) + c2 * Half)
                  /\ F(MulT(a, b, 6) + c2) = F(Hi(d))

\* r = a mod n, and a_or_zero when n is zero; k and a_or_zero are the cells.
Modulo(a, n, r, k, a_or_zero) ==
    /\ (1 - IsEqualWord(a, a_or_zero)) * (1 - IsZeroWord(n) * IsZeroWord(a_or_zero)) = 0
    /\ \E lt \in LtWord(r, n) : 1 - lt - IsZeroWord(n) = 0
    /\ 0 \in MulAddWords(k, n, r, a_or_zero)

ModuloAssign(a, n, r) ==
    [k |-> IF n = 0 THEN 0 ELSE a \div n, a_or_zero |-> IF n = 0 THEN 0 ELSE a]

\* The sign of a word and its absolute value.
SignBound == Base \div 2 - 1
IsNeg(w) == Lt(1, SignBound, Limb(w, 3))

AbsWord(x, x_abs) ==
    {neg \in IsNeg(x) :
        IF neg = 0 THEN x = x_abs
        ELSE \E carry \in AddWords(FALSE, x, x_abs, 0) : carry[2] = 1}

get_neg(w) == IF w = 0 THEN 0 ELSE WordSize - w
is_neg(w) == w >= WordSize \div 2
get_abs(w) == IF is_neg(w) THEN get_neg(w) ELSE w

----------------------------------------------------------------------------
(* The fixed tables.                                                       *)

BitwiseOp(tag, l, r) ==
    LET bit(x, i) == (x \div 2^i) % 2
        out(i) == CASE tag = "AND" -> bit(l, i) * bit(r, i)
                    [] tag = "OR"  -> bit(l, i) + bit(r, i) - bit(l, i) * bit(r, i)
                    [] tag = "XOR" -> (bit(l, i) + bit(r, i)) % 2
        value[i \in 0..Bits] == IF i = 0 THEN 0 ELSE value[i - 1] + out(i - 1) * 2^(i - 1)
    IN  value[Bits]

SignByte(byte) == IF byte > SignBound THEN Base - 1 ELSE 0

\* Rows <<exponent, lo, hi>> for the powers of two of a word.
Pow2(exponent, lo, hi) ==
    /\ exponent \in 0..(Base - 1)
    /\ IF exponent < 2 * Bits THEN lo = 2^exponent /\ hi = 0
       ELSE lo = 0 /\ hi = 2^(exponent - 2 * Bits)
=============================================================================
