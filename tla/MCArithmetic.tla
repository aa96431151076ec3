---------------------------- MODULE MCArithmetic ----------------------------
(* Workloads for Arithmetic: words at the edges of bytes, halves and signs. *)
EXTENDS Arithmetic

Edges == {0, 1, 2, 3, 7, 15, 16, 255, 256, 4097, 32767, 32768, 40961, 65534, 65535}
Corners == {0, 1, 3, 255, 256, 32768, 65535}

Binary == Opcodes \ (Ternary \cup Unary \cup {"EXP"})

MCWorkloads ==
    {[stack |-> <<x, y>>, program |-> <<op>>] : x \in Edges, y \in Edges, op \in Binary}
    \cup {[stack |-> <<x>>, program |-> <<op>>] : x \in Edges, op \in Unary}
    \cup {[stack |-> <<x, y, z>>, program |-> <<op>>] :
             x \in Corners, y \in Corners, z \in Corners, op \in Ternary}
    \cup {[stack |-> <<b, e, f>>, program |-> <<"EXP", "EXP">>] :
             b \in {0, 2, 3, 65535}, e \in {0, 1, 2, 7}, f \in {0, 1, 2, 5, 256, 1023}}
=============================================================================
