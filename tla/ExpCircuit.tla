------------------------------ MODULE ExpCircuit ------------------------------
(***************************************************************************)
(* Exponentiation by squaring: the event the bus-mapping records for EXP   *)
(* (evm/opcodes/exp.rs), the rows the exponentiation table and circuit are *)
(* assigned (table/exp_table.rs, exp_circuit.rs), the gates of the circuit *)
(* and the lookups of ExponentiationGadget (execution/exp.rs).  One row    *)
(* here is a step, the OFFSET_INCREMENT rows of the circuit.               *)
(***************************************************************************)
EXTENDS ArithmeticGadgets

\* The multiplications, innermost first.
exp_by_squaring(base, exponent) ==
    LET steps[e \in WordValues] ==
          IF e <= 1 THEN <<>>
          ELSE LET inner == steps[e \div 2]
                   exp1 == IF e \div 2 = 1 THEN base ELSE inner[Len(inner)].d
                   exp2 == MulWrap(exp1, exp1)
                   square == Append(inner, [a |-> exp1, b |-> exp1, d |-> exp2])
               IN  IF e % 2 = 0 THEN square
                   ELSE Append(square, [a |-> exp2, b |-> base, d |-> MulWrap(base, exp2)])
    IN  steps[exponent]

ExpEvent(identifier, base, exponent) ==
    [identifier |-> identifier, base |-> base, exponent |-> exponent,
     steps |-> exp_by_squaring(base, exponent)]

\* The event the circuit is filled with.
PadEvent == [identifier |-> 0, base |-> 2, exponent |-> 2,
             steps |-> <<[a |-> 2, b |-> 2, d |-> 4]>>]

next_exponent_halved(e) == e \div 2   \* mutant: odd exponents are halved too

\* The exponent of the i-th row: halved when even, one less when odd.
next_exponent(e) == IF e % 2 = 0 THEN e \div 2 ELSE e - 1

assign_exp_event(event) ==
    LET n == Len(event.steps)
        exponent[i \in 1..n] == IF i = 1 THEN event.exponent
                                ELSE next_exponent(exponent[i - 1])
    IN  [i \in 1..n |->
           LET step == event.steps[n + 1 - i]
           IN  [identifier |-> event.identifier, is_last |-> Bit(i = n),
                base |-> event.base, exponent |-> exponent[i], exponentiation |-> step.d,
                mul |-> <<step.a, step.b, 0, step.d>>,
                parity |-> <<2, exponent[i] \div 2, exponent[i] % 2, exponent[i]>>]]

\* The events in order, then padding up to max_exp_steps rows.
Flatten(events) ==
    LET rows[i \in 0..Len(events)] ==
          IF i = 0 THEN <<>> ELSE rows[i - 1] \o assign_exp_event(events[i])
    IN  rows[Len(events)]

assign_exp_events(events, max_exp_steps) ==
    LET rows == Flatten(events)
    IN  rows \o [i \in 1..(max_exp_steps - Len(rows)) |-> assign_exp_event(PadEvent)[1]]

\* The row after the last one is unused: all zero.
UnusedRow == [identifier |-> 0, is_last |-> 0, base |-> 0, exponent |-> 0,
              exponentiation |-> 0, mul |-> <<0, 0, 0, 0>>, parity |-> <<0, 0, 0, 0>>]

verify_all_rows(cur) == cur.is_last \in Bool

\* The gate on every step but the last of an exponentiation.
verify_all_but_the_last_step(cur, next) ==
    cur.is_last = 0 => /\ next.base = cur.base
                       /\ cur.mul[1] = next.mul[4]
                       /\ next.identifier = cur.identifier

verify_all_steps(cur, next) ==
    LET is_odd == cur.parity[3]
    IN  /\ cur.exponentiation = cur.mul[4]
        /\ cur.mul[3] = 0
        /\ is_odd \in Bool
        /\ 0 \in MulAddChip(cur.parity)
        /\ cur.is_last = 0 /\ is_odd = 1 =>
             /\ F(Lo(next.exponent)) = F(Lo(cur.exponent) - 1)
             /\ Hi(next.exponent) = Hi(cur.exponent)
             /\ cur.mul[2] = cur.base
        /\ cur.is_last = 0 /\ is_odd = 0 =>
             /\ cur.exponent = cur.parity[4]
             /\ next.exponent = cur.parity[2]
             /\ cur.mul[1] = cur.mul[2]
        /\ cur.is_last = 1 => /\ cur.exponent = 2
                              /\ cur.mul[1] = cur.base
                              /\ cur.mul[2] = cur.base

ExpCircuitAccepts(rows) ==
    \A i \in 1..Len(rows) :
        LET next == IF i < Len(rows) THEN rows[i + 1] ELSE UnusedRow
        IN  /\ verify_all_rows(rows[i])
            /\ verify_all_but_the_last_step(rows[i], next)
            /\ verify_all_steps(rows[i], next)
            /\ MulAddChip(rows[i].mul) # {}

exp_table_lookup(rows, identifier, is_last, base, exponent, exponentiation) ==
    \E i \in 1..Len(rows) :
        /\ rows[i].identifier = identifier
        /\ rows[i].is_last = is_last
        /\ rows[i].base = base
        /\ rows[i].exponent = exponent
        /\ rows[i].exponentiation = exponentiation

\* The gadget of EXP on the rows of the table.
ExponentiationGadget(rows, identifier, pops, push, c) ==
    LET base == pops[1]
        exponent == pops[2]
        is_zero == IsZero(Lo(exponent)) * IsZero(Hi(exponent))
        is_one == IsEqual(Lo(exponent), 1) * IsZero(Hi(exponent))
    IN  /\ is_zero = 1 => push = 1
        /\ is_one = 1 => push = base
        /\ is_zero + is_one = 0 =>
             /\ exp_table_lookup(rows, identifier, c.single_step, base, exponent, push)
             /\ exp_table_lookup(rows, identifier, 1, base, 2, c.base_sq)

ExponentiationAssign(pops, push) ==
    [base_sq |-> MulWrap(pops[1], pops[1]), single_step |-> Bit(pops[2] = 2)]

\* The gas of EXP in bytes of the exponent.
ExpGasBytes(exponent) == ByteSize(exponent)
=============================================================================
