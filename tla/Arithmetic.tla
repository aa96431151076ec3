------------------------------ MODULE Arithmetic ------------------------------
(***************************************************************************)
(* The arithmetic opcodes: a stack machine takes the operands of an opcode *)
(* from the stack and pushes the EVM's result, the bus-mapping records the *)
(* words (and the exponentiation event of EXP), and the gadgets of         *)
(* ArithmeticGadgets and ExpCircuit are asked whether they accept the step *)
(* as the code assigns it, and whether they accept any other result.       *)
(*                                                                         *)
(* A workload gives the operands and the opcodes executed on them.  Another*)
(* kind of initial state holds cells of a small field, for the gates of    *)
(* the is-zero chips.                                                      *)
(***************************************************************************)
EXTENDS ExpCircuit

CONSTANTS Workloads,     \* set of [stack, program] records
          MaxExpSteps,   \* rows of the exponentiation circuit
          SmallField     \* order of the field of the is-zero chips

VARIABLES stack,       \* operands, top first
          program,     \* opcodes still to execute
          last,        \* the step executed last
          exp_events,  \* exponentiation events of the block
          exp_rows,    \* the rows of the exponentiation circuit for them
          cells        \* cells of the is-zero chips

vars == <<stack, program, last, exp_events, exp_rows, cells>>

Ternary == {"ADDMOD", "MULMOD"}
Unary == {"NOT", "ISZERO"}
Arity(op) == CASE op \in Ternary -> 3 [] op \in Unary -> 1 [] OTHER -> 2

----------------------------------------------------------------------------
(* The EVM's arithmetic on words, the reference.                           *)

Signed(w) == IF w >= WordSize \div 2 THEN w - WordSize ELSE w
Wrap(i) == i % WordSize
Abs(i) == IF i < 0 THEN -i ELSE i
Quotient(a, b) ==
    IF b = 0 THEN 0
    ELSE IF (a < 0) = (b < 0) THEN Abs(a) \div Abs(b) ELSE -(Abs(a) \div Abs(b))
Remainder(a, b) ==
    IF b = 0 THEN 0 ELSE IF a < 0 THEN -(Abs(a) % Abs(b)) ELSE Abs(a) % Abs(b)
BitAt(w, i) == (w \div 2^i) % 2
WordBits == 4 * Bits
FromBits(bit(_)) ==
    LET value[i \in 0..WordBits] == IF i = 0 THEN 0 ELSE value[i - 1] + bit(i - 1) * 2^(i - 1)
    IN  value[WordBits]
Power(base, exponent) ==
    LET power[i \in 0..WordBits] ==   \* result and base^(2^i) after i bits
          IF i = 0 THEN <<1, base>>
          ELSE LET p == power[i - 1]
               IN  <<IF BitAt(exponent, i - 1) = 1 THEN MulWrap(p[1], p[2]) ELSE p[1],
                     MulWrap(p[2], p[2])>>
    IN  power[WordBits][1]

Evm(op, x) ==
    CASE op = "ADD" -> Wrap(x[1] + x[2])
      [] op = "SUB" -> Wrap(x[1] - x[2])
      [] op = "MUL" -> MulWrap(x[1], x[2])
      [] op = "DIV" -> Quotient(x[1], x[2])
      [] op = "MOD" -> Remainder(x[1], x[2])
      [] op = "SDIV" -> Wrap(Quotient(Signed(x[1]), Signed(x[2])))
      [] op = "SMOD" -> Wrap(Remainder(Signed(x[1]), Signed(x[2])))
      [] op = "ADDMOD" -> Remainder(x[1] + x[2], x[3])
      [] op = "MULMOD" -> IF x[3] = 0 THEN 0
                          ELSE (((x[1] * Hi(x[2])) % x[3]) * Half + x[1] * Lo(x[2])) % x[3]
      [] op = "LT" -> Bit(x[1] < x[2])
      [] op = "GT" -> Bit(x[1] > x[2])
      [] op = "EQ" -> Bit(x[1] = x[2])
      [] op = "SLT" -> Bit(Signed(x[1]) < Signed(x[2]))
      [] op = "SGT" -> Bit(Signed(x[1]) > Signed(x[2]))
      [] op = "ISZERO" -> Bit(x[1] = 0)
      [] op = "NOT" -> WordSize - 1 - x[1]
      [] op = "AND" -> FromBits(LAMBDA i : BitAt(x[1], i) * BitAt(x[2], i))
      [] op = "OR" -> FromBits(LAMBDA i : Bit(BitAt(x[1], i) + BitAt(x[2], i) > 0))
      [] op = "XOR" -> FromBits(LAMBDA i : Bit(BitAt(x[1], i) # BitAt(x[2], i)))
      [] op = "BYTE" -> IF x[1] < 4 THEN Limb(x[2], 3 - x[1]) ELSE 0
      [] op = "SIGNEXTEND" ->
            IF x[1] >= 3 THEN x[2]
            ELSE LET low == x[2] % Base^(x[1] + 1)
                 IN  IF low < Base^(x[1] + 1) \div 2 THEN low
                     ELSE WordSize - Base^(x[1] + 1) + low
      [] op = "SHL" -> IF x[1] >= WordBits THEN 0 ELSE MulWrap(x[2], 2^x[1])
      [] op = "SHR" -> IF x[1] >= WordBits THEN 0 ELSE x[2] \div 2^x[1]
      [] op = "SAR" -> IF x[1] >= WordBits THEN Wrap(-Bit(Signed(x[2]) < 0))
                       ELSE Wrap(Signed(x[2]) \div 2^x[1])
      [] op = "EXP" -> Power(x[1], x[2])

----------------------------------------------------------------------------
(* The gadget responsible for an opcode.                                   *)

Accepts(op, pops, push, identifier, c) ==
    CASE op \in {"ADD", "SUB"} -> AddSubGadget(op, pops, push, c)
      [] op \in {"MUL", "DIV", "MOD"} -> MulDivModGadget(op, pops, push, c)
      [] op \in {"SDIV", "SMOD"} -> SignedDivModGadget(op, pops, push, c)
      [] op = "ADDMOD" -> AddModGadget(op, pops, push, c)
      [] op = "MULMOD" -> MulModGadget(op, pops, push, c)
      [] op \in {"LT", "GT", "EQ"} -> ComparatorGadget(op, pops, push, c)
      [] op \in {"SLT", "SGT"} -> SignedComparatorGadget(op, pops, push, c)
      [] op = "BYTE" -> ByteGadget(op, pops, push, c)
      [] op = "SIGNEXTEND" -> SignextendGadget(op, pops, push, c)
      [] op \in {"SHL", "SHR"} -> ShlShrGadget(op, pops, push, c)
      [] op = "SAR" -> SarGadget(op, pops, push, c)
      [] op = "NOT" -> NotGadget(op, pops, push, c)
      [] op \in {"AND", "OR", "XOR"} -> BitwiseGadget(op, pops, push, c)
      [] op = "ISZERO" -> IsZeroGadget(op, pops, push, c)
      [] op = "EXP" -> ExponentiationGadget(exp_rows, identifier, pops, push, c)

Assigned(op, pops, push) ==
    CASE op \in {"ADD", "SUB"} -> AddSubAssign(op, pops, push)
      [] op \in {"MUL", "DIV", "MOD"} -> MulDivModAssign(op, pops, push)
      [] op \in {"SDIV", "SMOD"} -> SignedDivModAssign(op, pops, push)
      [] op = "ADDMOD" -> AddModAssign(op, pops, push)
      [] op = "MULMOD" -> MulModAssign(op, pops, push)
      [] op \in {"LT", "GT", "EQ"} -> ComparatorAssign(op, pops, push)
      [] op \in {"SLT", "SGT"} -> SignedComparatorAssign(op, pops, push)
      [] op = "SIGNEXTEND" -> SignextendAssign(op, pops, push)
      [] op \in {"SHL", "SHR"} -> ShlShrAssign(op, pops, push)
      [] op = "SAR" -> SarAssign(op, pops, push)
      [] op = "EXP" -> ExponentiationAssign(pops, push)
      [] OTHER -> NoCells(op, pops, push)

----------------------------------------------------------------------------
NoStep == [op |-> "none"]

Init ==
    /\ last = NoStep
    /\ exp_events = <<>>
    /\ exp_rows = <<>>
    /\ \/ /\ \E w \in Workloads : stack = w.stack /\ program = w.program
          /\ cells = <<0, 0, 0>>
       \/ /\ stack = <<>> /\ program = <<>>
          /\ cells \in (0..(SmallField - 1)) \X (0..(SmallField - 1)) \X (0..(SmallField - 1))

\* An opcode takes its operands and pushes its result.
Step(op) ==
    /\ program # <<>>
    /\ Head(program) = op
    /\ Len(stack) >= Arity(op)
    /\ LET pops == SubSeq(stack, 1, Arity(op))
           push == Evm(op, pops)
           identifier == Len(exp_events) + 1
       IN  /\ stack' = <<push>> \o SubSeq(stack, Arity(op) + 1, Len(stack))
           /\ last' = [op |-> op, pops |-> pops, push |-> push, identifier |-> identifier]
           /\ exp_events' = IF op = "EXP"
                            THEN Append(exp_events, ExpEvent(identifier, pops[1], pops[2]))
                            ELSE exp_events
           /\ exp_rows' = IF op = "EXP" THEN assign_exp_events(exp_events', MaxExpSteps)
                          ELSE exp_rows
    /\ program' = Tail(program)
    /\ UNCHANGED cells

Opcodes == {"ADD", "SUB", "MUL", "DIV", "MOD", "SDIV", "SMOD", "ADDMOD", "MULMOD",
            "LT", "GT", "EQ", "SLT", "SGT", "BYTE", "SIGNEXTEND", "SHL", "SHR", "SAR",
            "NOT", "AND", "OR", "XOR", "ISZERO", "EXP"}

Next == \E op \in Opcodes : Step(op)

Spec == Init /\ [][Next]_vars

----------------------------------------------------------------------------
(* Properties.                                                             *)

\* For every opcode and operands, the cells assign_exec_step computes satisfy
\* the constraints configure imposes, division by zero, the most negative
\* dividend and shifts beyond the word included: an honest trace can be proved.
AssignedCellsAccepted ==
    last # NoStep =>
        Accepts(last.op, last.pops, last.push, last.identifier,
                Assigned(last.op, last.pops, last.push))

\* Results near the right one, and the cells a step with such a result would
\* have, one cell at a time set off by one or to zero.
OtherResults(r, pops) ==
    LET y == pops[Len(pops)]
    IN  {Wrap(r + 1), Wrap(r - 1), Wrap(-r), Wrap(r + y), Wrap(r - y), 0} \ {r}

VariedCells(op) ==
    CASE op \in {"MUL", "DIV", "MOD"} -> {"a", "c"}
      [] op = "ADDMOD" -> {"k", "d", "a_reduced", "sum"}
      [] op = "MULMOD" -> {"k", "k1", "a_reduced"}
      [] op \in {"SHL", "SHR"} -> {"divisor", "remainder"}
      [] OTHER -> {}

Variations(op, c) ==
    {c} \cup UNION {{[c EXCEPT ![f] = v] : v \in {Wrap(c[f] + 1), Wrap(c[f] - 1), 0}} :
                       f \in VariedCells(op)}

\* SDIV and SMOD fix a sign only where their sign constraints are switched on.
SignIsConstrained(op, pops) ==
    /\ op = "SDIV" => get_abs(pops[1]) < WordSize \div 2
    /\ op = "SMOD" => get_abs(pops[1]) >= get_abs(pops[2])

\* No gadget accepts a result the EVM does not compute from the operands, for
\* the assignments around the honest one; for SDIV and SMOD, where the gadget
\* constrains the sign.
OnlyTheEvmResult ==
    last # NoStep /\ SignIsConstrained(last.op, last.pops) =>
        \A r \in OtherResults(last.push, last.pops) :
            \A c \in Variations(last.op, Assigned(last.op, last.pops, r)) :
                ~ Accepts(last.op, last.pops, r, last.identifier, c)

\* The carries the product, sum, comparison and size gadgets assign fit their
\* cells and solve their equations, and the gadgets used for gas and refunds
\* (minimum, constant division, product by a 64-bit value) compute just that.
GadgetsAssignTheirCarries ==
    last # NoStep /\ last.op = "MUL" =>
        LET a == last.pops[1]
            b == last.pops[2]
            carry == MulAddWordsAssign(a, b, 0, last.push)
            sum == AddWordsAssign(a, b, Wrap(a + b))
            lt == LtAssign(2, Lo(a), Lo(b))
            u == Limb(b, 0)
        IN  /\ carry[1] \in Carries /\ carry[2] \in Carries
            /\ MulAddOverflow(a, b, carry[2]) \in MulAddWords(a, b, 0, last.push)
            /\ MulAddChipAssign(<<a, b, 0, last.push>>) = carry
            /\ LET chip == LtChipAssign(2, Lo(a), Lo(b))
               IN  LtChip(2, Lo(a), Lo(b), chip.lt, chip.diff)
            /\ \A bit \in Bool, d \in {Lo(a), Lo(b), lt.diff, F(Lo(a) - Lo(b))} :
                  LtChip(2, Lo(a), Lo(b), bit, d) => bit = Bit(Lo(a) < Lo(b))
            /\ sum \in AddWords(FALSE, a, b, Wrap(a + b))
            /\ lt.lt \in Lt(2, Lo(a), Lo(b)) /\ RangeCheck(2, lt.diff)
            /\ ByteSize(a) = {ByteSizeAssign(a)}
            /\ MinMax(2, Lo(a), Lo(b)) = {[min |-> IF Lo(a) < Lo(b) THEN Lo(a) ELSE Lo(b),
                                           max |-> IF Lo(a) < Lo(b) THEN Lo(b) ELSE Lo(a)]}
            /\ ConstantDivision(2, Lo(a), 4) = {<<Lo(a) \div 4, Lo(a) % 4>>}
            /\ (MulWordByU64(a, u, MulWrap(a, u)) # {}) <=> (a * u < WordSize)

\* The rows assigned for the exponentiations of a block, padding included,
\* satisfy the gates of the exponentiation circuit, and each row says what its
\* power is.
ExpRowsAccepted ==
    /\ ExpCircuitAccepts(exp_rows)
    /\ \A i \in 1..Len(exp_rows) :
         exp_rows[i].exponentiation = Power(exp_rows[i].base, exp_rows[i].exponent)

\* The inverse the is-zero chips assign passes their gates, and gates that pass
\* leave the flag one choice: one exactly when the value (each value, in the
\* batched chip) is zero.  The binary number chip admits the bits of the valid
\* values only, and its comparison with a value is exact.
ChipsDecide ==
    LET v == cells[1]
        w == cells[2]
        inv == cells[3]
        p == SmallField
        batch == BatchedIsZeroAssign(p, <<v, w>>)
    IN  /\ IsZeroGates(p, v, Invert(p, v))
        /\ IsZeroGates(p, v, inv) => IsZeroExpr(p, v, inv) = Bit(v = 0)
        /\ IsZeroChip(p, v, inv) => IsZeroExpr(p, v, inv) = Bit(v = 0)
        /\ BatchedIsZeroGates(p, <<v, w>>, batch[1], batch[2])
        /\ \A z \in 0..(p - 1) :
             BatchedIsZeroGates(p, <<v, w>>, z, inv) => z = Bit(v = 0 /\ w = 0)
        /\ LET n == 4
               valid == {0, w, 5, p - 1}
           IN  /\ BinaryNumberGates(n, as_bits(n, v), valid) <=> v \in valid
               /\ from_bits(as_bits(n, v)) = v
               /\ value_equals(n, w, as_bits(n, v)) = Bit(v = w)
=============================================================================
