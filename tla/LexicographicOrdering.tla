----------------------- MODULE LexicographicOrdering -----------------------
(***************************************************************************)
(* How the state circuit shows that a row is greater than the row before   *)
(* it: the packed sort keys as big-endian limbs, the index of the first    *)
(* limb that differs, and the difference of the two limbs there.           *)
(*                                                                         *)
(* The code has 32 limbs of 16 bits and a 254-bit field.  That a random    *)
(* linear combination of limb differences is 0 stands for each of them     *)
(* being 0.                                                                *)
(***************************************************************************)
EXTENDS Integers

CONSTANTS
    IndexBits,  \* bits of a limb index
    N,          \* limbs
    Base,       \* limbs are below it
    P           \* the order of the field

ASSUME SizeAssumption ==
    /\ IndexBits \in Nat /\ IndexBits > 2
    /\ N = 2^IndexBits /\ N \in Nat /\ N > 4
    /\ Base \in Nat /\ Base > 1
    /\ P \in Nat /\ P >= 2 * Base

\* What is used of the powers of two.
ASSUME PowersOfTwo ==
    /\ 2^0 = 1
    /\ \A m \in 0..IndexBits : 2^m \in Nat \ {0} /\ 2^(m + 1) = 2 * 2^m

VARIABLES
    prev, cur,  \* be_limbs of the two rows
    index,      \* first_different_limb
    diff,       \* limb_difference
    how         \* who filled index and diff in: none, assign, claim, or panic

vars == <<prev, cur, index, diff, how>>

Limbs == [0..(N - 1) -> 0..(Base - 1)]

(* The difference of two limbs, in the field. *)
Minus(a, b) == IF a >= b THEN a - b ELSE a - b + P

(* The three gates of Config::configure and the range check. *)
Accepts(p, c, i, d) ==
    /\ d \in 0..(Base - 1)
    /\ d # 0
    /\ \A j \in 0..(i - 1) : Minus(c[j], p[j]) = 0
    /\ d = Minus(c[i], p[i])

Init ==
    /\ prev \in Limbs /\ cur \in Limbs
    /\ index = 0 /\ diff = 0 /\ how = "none"

(* Mutant: the search for the limb that differs starts at the wrong end. *)
Assign_FromTheEnd ==
    /\ how = "none"
    /\ IF prev = cur
       THEN how' = "panic" /\ UNCHANGED <<index, diff>>
       ELSE /\ index' = CHOOSE i \in 0..(N - 1) :
                            cur[i] # prev[i] /\ \A j \in (i + 1)..(N - 1) : cur[j] = prev[j]
            /\ diff' = Minus(cur[index'], prev[index'])
            /\ how' = "assign"
    /\ UNCHANGED <<prev, cur>>

(* Config::assign: repeated rw counters panic, and so does the inverse of 0. *)
Assign ==
    /\ how = "none"
    /\ IF prev = cur
       THEN how' = "panic" /\ UNCHANGED <<index, diff>>
       ELSE /\ index' = CHOOSE i \in 0..(N - 1) :
                            cur[i] # prev[i] /\ \A j \in 0..(i - 1) : cur[j] = prev[j]
            /\ diff' = Minus(cur[index'], prev[index'])
            /\ how' = "assign"
    /\ UNCHANGED <<prev, cur>>

(* Mutant: the limb difference is not looked up in the u16 table. *)
Claim_NoRangeCheck(i, d) ==
    /\ how = "none"
    /\ d # 0 /\ d = Minus(cur[i], prev[i])
    /\ \A j \in 0..(i - 1) : Minus(cur[j], prev[j]) = 0
    /\ index' = i /\ diff' = d /\ how' = "claim"
    /\ UNCHANGED <<prev, cur>>

(* Any other prover: whatever the gates accept. *)
Claim(i, d) ==
    /\ how = "none"
    /\ Accepts(prev, cur, i, d)
    /\ index' = i /\ diff' = d /\ how' = "claim"
    /\ UNCHANGED <<prev, cur>>

Done == how # "none" /\ UNCHANGED vars

Next == Assign \/ (\E i \in 0..(N - 1), d \in 0..(P - 1) : Claim(i, d)) \/ Done

Spec == Init /\ [][Next]_vars

----------------------------------------------------------------------------
(* What the other gates read off the index. *)

(* AsBits: bit 0 is the most significant one. *)
Bit(i, k) == (i \div 2^(IndexBits - 1 - k)) % 2

(* Mutant: the last bit is tested too. *)
NotFirstAccess_AllBits(i) == \A k \in 0..(IndexBits - 1) : Bit(i, k) = 1

(* not_first_access: all the bits but the last. *)
NotFirstAccess(i) == \A k \in 0..(IndexBits - 2) : Bit(i, k) = 1

(* is_tag_and_id_unchanged: 4 * (the sum of the bits but the last two) plus *)
(* s * (1 - s) for the sum s of the last two, is not 0.                     *)
TagAndIdUnchanged(i) ==
    \/ \E k \in 0..(IndexBits - 3) : Bit(i, k) = 1
    \/ Bit(i, IndexBits - 2) + Bit(i, IndexBits - 1) = 2

----------------------------------------------------------------------------
(* Properties *)

\* Types: the limbs are limbs, the advice is in range.
TypeOK ==
    /\ prev \in Limbs /\ cur \in Limbs
    /\ index \in 0..(N - 1) /\ diff \in 0..(P - 1)
    /\ how \in {"none", "assign", "claim", "panic"}

\* Lexicographic order of the limbs.
Greater(c, p) ==
    \E i \in 0..(N - 1) : c[i] > p[i] /\ \A j \in 0..(i - 1) : c[j] = p[j]

\* The 512-bit number X of the comment at the top of lexicographic_ordering.rs.
X(limbs) ==
    LET x[i \in 0..N] == IF i = 0 THEN 0 ELSE Base * x[i - 1] + limbs[i - 1] IN x[N]

\* Soundness: no advice the gates accept makes a row follow one that is not smaller.
ClaimIsOrdered == how = "claim" => Greater(cur, prev)

\* "X_cur > X_prev iff ...": the order of the limbs is the order of the numbers, and
\* the prover's own assignment is accepted exactly for a row that is greater.
AssignIffGreater ==
    /\ Greater(cur, prev) <=> X(cur) > X(prev)
    /\ how = "assign" => (Accepts(prev, cur, index, diff) <=> Greater(cur, prev))
    /\ how = "panic" => X(cur) = X(prev)

\* The bits of an accepted index tell the access groups apart: not_first_access when
\* only the rw counter (the last two limbs) differs, is_tag_and_id_unchanged when the
\* first three limbs do not.
IndexIsMeaningful ==
    how = "claim" =>
        /\ NotFirstAccess(index) <=> \A j \in 0..(N - 3) : cur[j] = prev[j]
        /\ TagAndIdUnchanged(index) <=> \A j \in 0..2 : cur[j] = prev[j]
=============================================================================
