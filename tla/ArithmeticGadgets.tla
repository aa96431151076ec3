-------------------------- MODULE ArithmeticGadgets --------------------------
(***************************************************************************)
(* The execution gadgets of the arithmetic, comparison and bitwise opcodes *)
(* (evm_circuit/execution).  For each gadget, XGadget(op, pops, push, c)   *)
(* is what configure requires of the words popped and pushed and of the    *)
(* cells c, and XAssign(op, pops, push) the cells assign_exec_step writes. *)
(* Gas, counters and program counter are those of SameContextGadget, which *)
(* ExecutionGadgets models.                                                *)
(***************************************************************************)
EXTENDS MathGadgets

\* Product of two words modulo the word size, with small intermediates.
MulWrap(a, b) == (a * Lo(b) + ((a * Hi(b)) % Half) * Half) % WordSize
ShiftBytesSum(shift) == Limb(shift, 1) + Limb(shift, 2) + Limb(shift, 3)

AddSubGadget(op, pops, push, c) ==
    \E is_sub \in PairSelect(Bit(op = "SUB"), 1, 0) :
        /\ pops[1] = select(is_sub, c.c, c.a)
        /\ pops[2] = c.b
        /\ push = select(is_sub, c.a, c.c)
        /\ AddWords(FALSE, c.a, c.b, c.c) # {}

AddSubAssign(op, pops, push) ==
    IF op = "SUB" THEN [a |-> push, b |-> pops[2], c |-> pops[1]]
    ELSE [a |-> pops[1], b |-> pops[2], c |-> push]

MulDivModGadgetNoOrder(op, pops, push, c) ==   \* mutant: remainder < divisor is dropped
    LET is_mul == Bit(op = "MUL")
        nz == 1 - IsZeroWord(c.b)
    IN  /\ pops = <<select(is_mul, c.a, c.d), c.b>>
        /\ push = c.d * is_mul + c.a * Bit(op = "DIV") * nz + c.c * Bit(op = "MOD") * nz
        /\ is_mul = 1 => c.c = 0
        /\ \E overflow \in MulAddWords(c.a, c.b, c.c, c.d) : is_mul = 0 => overflow = 0

\* a * b + c = d, with the stack words on different cells for each opcode.
MulDivModGadget(op, pops, push, c) ==
    LET is_mul == Bit(op = "MUL")
        is_div == Bit(op = "DIV")
        is_mod == Bit(op = "MOD")
        divisor_is_zero == IsZeroWord(c.b)
    IN  /\ pops[1] = select(is_mul, c.a, c.d)
        /\ pops[2] = c.b
        /\ push = c.d * is_mul + c.a * is_div * (1 - divisor_is_zero)
                    + c.c * is_mod * (1 - divisor_is_zero)
        /\ is_mul = 1 => c.c = 0
        /\ is_mul = 0 => \E lt \in LtWord(c.c, c.b) :
                            (1 - lt) * (1 - divisor_is_zero) = 0
        /\ \E overflow \in MulAddWords(c.a, c.b, c.c, c.d) :
              is_mul = 0 => overflow = 0

MulDivModAssign(op, pops, push) ==
    CASE op = "MUL" -> [a |-> pops[1], b |-> pops[2], c |-> 0, d |-> push]
      [] op = "DIV" -> [a |-> push, b |-> pops[2], d |-> pops[1],
                        c |-> (pops[1] - MulWrap(push, pops[2])) % WordSize]
      [] op = "MOD" -> [a |-> IF pops[2] = 0 THEN 0 ELSE pops[1] \div pops[2],
                        b |-> pops[2],
                        c |-> IF pops[2] = 0 THEN pops[1] ELSE push,
                        d |-> pops[1]]

\* |quotient| * |divisor| + |remainder| = |dividend| and the signs.
SignedDivModGadget(op, pops, push, c) ==
    LET nz(w) == 1 - IsZeroWord(w)
        abs == c.abs
    IN  /\ pops = <<c.dividend, c.divisor>>
        /\ push = select(Bit(op = "SDIV"), c.quotient, c.remainder) * nz(c.divisor)
        /\ \E q \in AbsWord(c.quotient, abs[1]), dv \in AbsWord(c.divisor, abs[2]),
              r \in AbsWord(c.remainder, abs[3]), dd \in AbsWord(c.dividend, abs[4]),
              lt \in LtWord(abs[3], abs[2]), overflows \in Lt(1, SignBound, Limb(abs[4], 3)) :
             /\ (1 - lt) * nz(c.divisor) = 0
             /\ nz(c.quotient) * nz(c.divisor) * nz(c.remainder) * (dd - r) = 0
             /\ nz(c.quotient) * nz(c.divisor) * (1 - overflows)
                   * (q + dv - dd - 2 * q * dv) = 0
        /\ 0 \in MulAddWords(abs[1], abs[2], abs[3], abs[4])

SignedDivModAssign(op, pops, push) ==
    LET sign(w) == IF is_neg(pops[1]) THEN get_neg(w) ELSE w
        ratio == get_abs(pops[1]) \div get_abs(pops[2])
        rest == (get_abs(pops[1]) - MulWrap(get_abs(push), get_abs(pops[2]))) % WordSize
        q == CASE op = "SDIV" -> push
               [] op = "SMOD" /\ pops[2] = 0 -> 0
               [] OTHER -> IF is_neg(pops[1]) = is_neg(pops[2]) THEN ratio
                           ELSE get_neg(ratio)
        r == CASE op = "SDIV" -> sign(rest)
               [] op = "SMOD" /\ pops[2] = 0 -> pops[1]
               [] OTHER -> push
    IN  [quotient |-> q, divisor |-> pops[2], remainder |-> r, dividend |-> pops[1],
         abs |-> <<get_abs(q), get_abs(pops[2]), get_abs(r), get_abs(pops[1])>>]

AddModGadget(op, pops, push, c) ==
    LET a == pops[1]
        b == pops[2]
        n == pops[3]
        n_is_zero == IsZeroWord(n)
    IN  /\ push = c.r * (1 - n_is_zero)
        /\ \E r_n \in CmpWords(c.r, n), a_n \in CmpWords(c.a_reduced, n) :
              2 - (r_n.lt + a_n.lt + 2 * n_is_zero) = 0
        /\ \E carry \in AddWords(FALSE, c.a_reduced, b, c.sum) :
              c.sum_overflow = carry[2] * (1 - n_is_zero)
        /\ 0 \in MulAddWords(c.k, n, c.a_reduced, a)
        /\ MulAddWords512(c.d, n, c.r, c.sum_overflow, c.sum)

AddModAssign(op, pops, push) ==
    LET a == pops[1]
        b == pops[2]
        n == pops[3]
    IN  IF n = 0
        THEN [k |-> 0, a_reduced |-> a, d |-> 0, r |-> (a + b) % WordSize,
              sum |-> (a + b) % WordSize, sum_overflow |-> 0]
        ELSE [k |-> a \div n, a_reduced |-> a % n, d |-> ((a % n) + b) \div n, r |-> push,
              sum |-> ((a % n) + b) % WordSize, sum_overflow |-> ((a % n) + b) \div WordSize]

MulModGadget(op, pops, push, c) ==
    LET n == pops[3]
    IN  /\ push = c.r
        /\ \E lt \in LtWord(c.r, n) : 1 - lt - IsZeroWord(n) = 0
        /\ Modulo(pops[1], n, c.a_reduced, c.k1, c.a_or_zero)
        /\ MulAddWords512(c.a_reduced, pops[2], 0, c.d, c.e)
        /\ MulAddWords512(c.k, n, c.r, c.d, c.e)

MulModAssign(op, pops, push) ==
    LET n == pops[3]
        m == ModuloAssign(pops[1], n, 0)
        a_reduced == IF n = 0 THEN 0 ELSE pops[1] % n
        low == a_reduced * Lo(pops[2])
        high == a_reduced * Hi(pops[2])
        prod == low + (high % Half) * Half
    IN  [k1 |-> m.k, a_or_zero |-> m.a_or_zero, a_reduced |-> a_reduced, r |-> push,
         d |-> high \div Half + prod \div WordSize, e |-> prod % WordSize,
         k |-> IF n = 0 THEN 0
               ELSE (high \div n) * Half + (((high % n) * Half) + low) \div n]

ComparatorGadget(op, pops, push, c) ==
    LET is_gt == Bit(op = "GT")
    IN  /\ pops[1] = select(is_gt, c.b, c.a)
        /\ pops[2] = select(is_gt, c.a, c.b)
        /\ push = c.result
        /\ \E cmp \in CmpWords(c.a, c.b) :
              c.result = select(Bit(op = "EQ"), cmp.eq, cmp.lt)

ComparatorAssign(op, pops, push) ==
    IF op = "GT" THEN [a |-> pops[2], b |-> pops[1], result |-> push]
    ELSE [a |-> pops[1], b |-> pops[2], result |-> push]

SignedComparatorGadget(op, pops, push, c) ==
    LET is_sgt == Bit(op = "SGT")
    IN  /\ pops[1] = select(is_sgt, c.b, c.a)
        /\ pops[2] = select(is_sgt, c.a, c.b)
        /\ \E a_pos \in Lt(1, Limb(c.a, 3), SignBound + 1),
              b_pos \in Lt(1, Limb(c.b, 3), SignBound + 1),
              lt_lo \in Lt(2, Lo(c.a), Lo(c.b)),
              hi \in Comparison(2, Hi(c.a), Hi(c.b)) :
             LET a_neg_b_pos == (1 - a_pos) * b_pos
                 b_neg_a_pos == (1 - b_pos) * a_pos
             IN  /\ c.a_lt_b = select(hi.lt, 1, hi.eq * lt_lo)
                 /\ push = a_neg_b_pos + (1 - a_neg_b_pos - b_neg_a_pos) * c.a_lt_b

SignedComparatorAssign(op, pops, push) ==
    LET a == IF op = "SGT" THEN pops[2] ELSE pops[1]
        b == IF op = "SGT" THEN pops[1] ELSE pops[2]
    IN  [a |-> a, b |-> b, a_lt_b |-> Bit(a < b)]

ByteGadget(op, pops, push, c) ==
    LET selected(i) == IsEqual(Limb(pops[1], 0), 3 - i) * IsZero(ShiftBytesSum(pops[1]))
    IN  push = selected(0) * Limb(pops[2], 0) + selected(1) * Limb(pops[2], 1)
                 + selected(2) * Limb(pops[2], 2) + selected(3) * Limb(pops[2], 3)

SignextendGadget(op, pops, push, c) ==
    LET index == pops[1]
        value == pops[2]
        selected(i) == IsEqual(Limb(index, 0), i) * IsZero(ShiftBytesSum(index))
        selected_byte == selected(0) * Limb(value, 0) + selected(1) * Limb(value, 1)
                           + selected(2) * Limb(value, 2)
    IN  /\ \A i \in 0..2 : /\ c.selectors[i] \in Bool
                           /\ c.selectors[i]
                                = selected(i) + IF i > 0 THEN c.selectors[i - 1] ELSE 0
        /\ c.sign_byte = SignByte(selected_byte)
        /\ push = FromLimbs([i \in 0..3 |->
                     IF i = 0 THEN Limb(value, 0)
                     ELSE select(c.selectors[i - 1], c.sign_byte, Limb(value, i))])

SignextendAssign(op, pops, push) ==
    LET in_range == ShiftBytesSum(pops[1]) = 0
        index == Limb(pops[1], 0)
    IN  [selectors |-> [i \in 0..2 |-> Bit(in_range /\ index <= i)],
         sign_byte |-> IF in_range /\ index < 3
                       THEN (Limb(pops[2], index) \div 2^(Bits - 1)) * (Base - 1)
                       ELSE 0]

\* quotient * divisor + remainder = dividend, with divisor a power of two.
ShlShrGadget(op, pops, push, c) ==
    LET is_shl == Bit(op = "SHL")
        shift == pops[1]
        divisor_is_zero == IsZeroWord(c.divisor)
    IN  /\ pops[2] = c.quotient * is_shl + c.dividend * (1 - is_shl)
        /\ push = (c.dividend * is_shl + c.quotient * (1 - is_shl)) * (1 - divisor_is_zero)
        /\ c.shf0 = Limb(shift, 0)
        /\ divisor_is_zero = 0 => shift = Limb(shift, 0)
        /\ 1 - divisor_is_zero - IsZero(ShiftBytesSum(shift)) = 0
        /\ \E lt \in LtWord(c.remainder, c.divisor) : (1 - divisor_is_zero) * (1 - lt) = 0
        /\ is_shl * (1 - IsZeroWord(c.remainder)) = 0
        /\ divisor_is_zero = 0 => Pow2(c.shf0, Lo(c.divisor), Hi(c.divisor))
        /\ \E overflow \in MulAddWords(c.quotient, c.divisor, c.remainder, c.dividend) :
              (1 - is_shl) * overflow = 0

ShlShrAssignLowByte(op, pops, push) ==   \* mutant: only the low byte of the shift counts
    LET divisor == 2^Limb(pops[1], 0)
    IN  [shf0 |-> Limb(pops[1], 0), divisor |-> divisor,
         quotient |-> IF op = "SHL" THEN pops[2] ELSE push,
         remainder |-> IF op = "SHL" THEN 0 ELSE (pops[2] - MulWrap(push, divisor)) % WordSize,
         dividend |-> IF op = "SHL" THEN push ELSE pops[2]]

ShlShrAssign(op, pops, push) ==
    LET shf0 == Limb(pops[1], 0)
        divisor == IF ShiftBytesSum(pops[1]) = 0 THEN 2^shf0 ELSE 0
    IN  IF op = "SHL"
        THEN [shf0 |-> shf0, divisor |-> divisor, quotient |-> pops[2],
              remainder |-> 0, dividend |-> push]
        ELSE [shf0 |-> shf0, divisor |-> divisor, quotient |-> push,
              remainder |-> (pops[2] - MulWrap(push, divisor)) % WordSize,
              dividend |-> pops[2]]

\* Every limb is cut at shf_mod64 and the pieces are merged shf_div64 limbs
\* further down, with the sign at the top.
SarGadget(op, pops, push, c) ==
    LET shift == pops[1]
        a == pops[2]
        max == Base - 1
        eq(k) == IsZero(ShiftBytesSum(shift)) * IsEqual(c.div, k)
        top == c.a_hi[3] + c.p_top
        piece(j) == IF j = 3 THEN top ELSE c.a_hi[j] + c.a_lo[j + 1] * c.p_hi
        term(i, k) == IF i + k <= 3 THEN piece(i + k) * eq(k) ELSE 0
        rest(i, k) == IF i + k <= 3 THEN eq(k) ELSE 0
        merged(i, neg) == term(i, 0) + term(i, 1) + term(i, 2) + term(i, 3)
             + neg * max * (1 - rest(i, 0) - rest(i, 1) - rest(i, 2) - rest(i, 3))
    IN  /\ Limb(shift, 0) = F(c.mod + c.div * Bits)
        /\ Lt(1, c.div, 4) = {1}
        /\ Lt(1, c.mod, Bits) = {1}
        /\ Pow2(c.mod, c.p_lo, 0)
        /\ Pow2(Bits - c.mod, c.p_hi, 0)
        /\ \A i \in 0..3 : /\ Limb(a, i) = F(c.a_lo[i] + c.a_hi[i] * c.p_lo)
                           /\ Lt(2, c.a_lo[i], c.p_lo) = {1}
                           /\ Lt(2, c.a_hi[i], c.p_hi) = {1}
        /\ \E neg \in IsNeg(a) :
             /\ SignByte(Limb(a, 3)) = select(neg, max, 0)
             /\ c.p_top = neg * (max + 1 - c.p_hi)
             /\ \A i \in 0..3 : Limb(push, i) = F(merged(i, neg))

SarAssign(op, pops, push) ==
    LET mod == Limb(pops[1], 0) % Bits
        p_lo == 2^mod
    IN  [div |-> Limb(pops[1], 0) \div Bits, mod |-> mod,
         p_lo |-> p_lo, p_hi |-> 2^(Bits - mod),
         p_top |-> IF is_neg(pops[2]) THEN Base - 2^(Bits - mod) ELSE 0,
         a_lo |-> [i \in 0..3 |-> Limb(pops[2], i) % p_lo],
         a_hi |-> [i \in 0..3 |-> Limb(pops[2], i) \div p_lo]]

NotGadget(op, pops, push, c) ==
    \A i \in 0..3 : Limb(push, i) = BitwiseOp("XOR", Limb(pops[1], i), Base - 1)

BitwiseGadget(op, pops, push, c) ==
    \A i \in 0..3 : Limb(push, i) = BitwiseOp(op, Limb(pops[1], i), Limb(pops[2], i))

IsZeroGadget(op, pops, push, c) == push = IsZeroWord(pops[1])

\* No cells beyond the words of the stack and the inverses.
NoCells(op, pops, push) == [none |-> 0]
=============================================================================
